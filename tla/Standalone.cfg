SPECIFICATION StandaloneSpec
CONSTANTS
    \* LeakyBucket
    Limit = 2
    Second = 4
    MaxTime = 20
    \* TokenBucket
    Capacity = 3
    BucketLimit = 3
    TokenRate = 2
    UnitsPerSecond = 3
    Nap = 1
    \* RedisQueue
    Count = 3
    Start = 3
    Delay = 4
    Fraction = 2
    Late = 1
    MaxFailures = 1
    \* RabbitQueue
    MaxRuns = 2
    MaxRestarts = 1
    \* Observer
    o1 = o1
    o2 = o2
    o3 = o3
    Objects <- MCObjects
    MaxAdds = 4
    \* ServiceMap
    r1 = r1
    r2 = r2
    r3 = r3
    r4 = r4
    x = x
    y = y
    NoRcvr = NoRcvr
    Rcvrs <- MCRcvrs
    NameOf <- MCNameOf
    Exported <- MCExported
    Methods <- MCMethods
    MaxCalls = 2
    \* HttpConnect
    Requests = 2
    \* Demo
    s1 = s1
    s2 = s2
    g1 = g1
    g2 = g2
    Backends <- MCServers
    Goroutines <- MCGoroutines
    \* XClient
    c1 = c1
    Servers <- MCServers
    Callers <- MCCallers
    MaxClients = 3
    None = None
INVARIANTS
    AdmissionIsBounded
    BurstIsBounded
    NeverEarly
    AllConsumedInOrder
    NotDroppedNorRepeated
    RegisteredIsServed
    HandoverLosesNothing
    CallsReachServers
    NoLeak
    OneConnection
    CauseReported
    BroadcastComplete
PROPERTIES
    RefusalsCostNothing
    DeleteIsExact
    MainEnds
    BroadcastEnds
CHECK_DEADLOCK FALSE
