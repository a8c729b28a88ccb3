CONSTANTS
    t1 = t1
    i1 = i1
    Events = {e1, e2}
    Threads = {t1}
    NoThread = NoThread
    NoEvent = NoEvent
    NoDigest = NoDigest
    Workers = {w1, w2}
    Identities = {i1}
    IdentityOf <- OneIdentity
    ThreadOf <- OneThread
    KnownCustomers = {}
    Channel = "WEB_CHAT"
    UnknownCustomer = "CREATE"
    Digests = {x1, x2}
    Requests = {q1, q2}
    MaxFaults = 3
SPECIFICATION FairSpec
INVARIANTS
    OneMessagePerEvent
    ProcessedIsReachable
PROPERTIES
    EventProgress
    EventFrozen
CHECK_DEADLOCK FALSE
