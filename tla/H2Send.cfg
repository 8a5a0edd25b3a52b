SPECIFICATION Spec
CONSTANTS
    MaxStream = 2
    MaxBody = 2
    Sizes = {2}
    Ends = {TRUE}
    MaxFrame = 1
    MaxWindow = 2
    ConnWindow = 1
    InitWindow = 1
    InitStreams = 2
    Windows = {0, 2}
    Limits = {1, 2}
    MaxReset = 1
    MaxEvents = 2
INVARIANTS CapacityExact NoStall
PROPERTIES FramesInOrder
CHECK_DEADLOCK FALSE
