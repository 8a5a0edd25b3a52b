SPECIFICATION Spec
CONSTANTS
    r1 = r1  r2 = r2  r3 = r3  h1 = h1  h2 = h2
    p1 = p1  p2 = p2  p3 = p3  i1 = i1  i2 = i2
    Requests = {r1, r2, r3}
    Ids = {i1}
    Hosts = {h1, h2}
    Pollers = {p1, p3}
    IdOf <- SharedId
    HostOf <- TwoHosts
    PollHost <- PollTwoHosts
    QueueCap = 2
    PollBatch = 1
    NoRequest = NoRequest
INVARIANTS JobsOwned
