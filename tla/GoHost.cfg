SPECIFICATION GoSpec
CONSTANTS
    s1 = s1  s2 = s2  t1 = t1  t2 = t2
    Sessions = {s1, s2}
    Streams = {t1, t2}
    SessionOf <- OneBusySession
    Closers = {c1}
    maxConcurrentStreamsPerSession = 1
    Handlers = {h1}
    Pumps <- OneOfEach
INVARIANTS SlotPerBridge NothingLeftOpen GatewayClean
PROPERTIES BridgesTornDown
CHECK_DEADLOCK FALSE
