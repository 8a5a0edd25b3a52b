SPECIFICATION SocketsSpec
CONSTANTS
    MaxLen = 1
    MaxSends = 2
    MaxFrames = 4
    PageSends = 3
    PagePosts = 3
INVARIANTS WorkerEndCloses EventOrder
PROPERTIES PortContract ClosesTold
CHECK_DEADLOCK FALSE
