SPECIFICATION HttpSpec
CONSTANTS
    f1 = f1  f2 = f2  f3 = f3
    Fetches = {f1, f2, f3}
    Origins = {"a"}
    Isolations = {"one", "two"}
    OriginOf <- OneOrigin
    IsolationOf <- LastApart
    MAX_IDLE_PER_KEY = 1
    MAX_POOL_KEYS = 1
    NoConn = NoConn
INVARIANTS OwnConnection ResponseExact
PROPERTIES  FetchSettles
CHECK_DEADLOCK FALSE
