SPECIFICATION FairSpec
CONSTANTS
    r1 = r1  r2 = r2  r3 = r3  h1 = h1  h2 = h2
    p1 = p1  p2 = p2  p3 = p3  i1 = i1  i2 = i2
    Requests = {r1, r2}
    Ids = {i1, i2}
    Hosts = {h1}
    Pollers = {p1, p2}
    IdOf <- UniqueIds
    HostOf <- OneHost
    PollHost <- PollTwoHosts
    QueueCap = 2
    PollBatch = 1
    NoRequest = NoRequest
PROPERTIES EveryPageAnswered CalmPageServed
