CONSTANTS
    LockIds = {1, 2, 3}
    NoLock = 0
    MaxExpired = 2
    Sharers = {"c", "d"}
    First = "c"
    Shared = {"x", "y"}
    NoKey = "none"
    Blameless = {"y"}
    MaxSize = 1
    MaxShares = 4
    PubWorkers = {"u"}
    SubWorkers = {"v"}
    SubClients = {"c"}
    MaxPubs = 2
    MaxSubs = 2
    MaxPuts = 1
    MaxMessages = 4
    Callers = {1, 2}
    Addrs = {"p", "q"}
    Limit = 1
    MaxCalls = 3
    MaxConns = 3
    MaxRemoves = 1
    RpCallers = {1, 2}
    MaxRpConns = 2
    MaxRpCalls = 3
    TcMessages <- FourMessages
    SmallSize = 3
    YieldSize = 1
    MaxAttempts = 2
    MaxWritten = 3
    AcFutures = {1, 2}
    MaxAdded = 3
    MaxReports = 2
    MaxSends = 4
    MaxBreaks = 3
    LoopUsers = {1, 2, 3}
    Waiters = {"t", "u"}
    NoRunner = 0
    CfSubmits = {"s1"}
    CfMapped <- TwoMapped
    MaxCfReports = 4
SPECIFICATION ClusterSpec
CHECK_DEADLOCK FALSE
INVARIANTS SharingIsSafe TopicsAgree BatchesArrive CallsServed CommsDeliver 
