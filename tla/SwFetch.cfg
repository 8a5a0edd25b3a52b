SPECIFICATION SwSpec
CONSTANTS
    Reqs = {"r1", "r2"}
    Inputs <- MCInputs
    Origins = {"A", "B"}
    Doc = "A"
    Methods = {"GET", "HEAD", "POST", "PUT"}
    MAX_REDIRECTS = 1
    CACHE_CAP = 1
    Ages = {0, 1}
    MaxTime = 1
    Scripts = {"s1", "s2", "s3"}
    Docs = {d1}
    Source <- MCSource
    Size <- MCSize
    Chunks = 2
    MAX_ENTRIES = 2
    MAX_BYTES = 2
INVARIANTS RequestsPermitted ReadableMeansAllowed  CacheExact
PROPERTIES ResponsesEnd
CHECK_DEADLOCK FALSE
