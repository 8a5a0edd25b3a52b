SPECIFICATION LinkSpec
CONSTANTS
    Callers = {c1, c2}
    Sessions = {s1, s2}
    NoSession = NoSession
    Cap = 3
    MaxFrame = 2
    MaxBytes = 7
INVARIANTS CacheIsLive OpenAccounted ReadInOrder
PROPERTIES  ErrorAfterData
