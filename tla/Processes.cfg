CONSTANTS
    WKeys = {"x", "u", "t"}
    WDeps <- SharedDependency
    Restricted = {"u"}
    Peers = {"p", "q"}
    NoPeer = "nobody"
    Cores = 1
    OutConnections = 2
    Suspicions = 0
    MissingRetries = 1
    MaxRequests = 3
    MaxFaults = 3
    Reconnects = TRUE
    MaxRegs = 3
    InConnections = 1
    LifeCores = 1
    MaxArrivals = 2
    MaxProcs = 2
    MaxRestarts = 1
    Reconnect = FALSE
    MaxWorkers = 1
    MaxThreads = 4
    MaxSubmits = 4
    DiskProcs = {"p", "q"}
    NoOwner = "none"
    MaxDirs = 3
    MaxCrashes = 2
    MaxName = 1
    MaxScales = 1
    MaxTicks = 3
    MaxFailures = 1
    Minimum = 0
    Maximum = 2
    WaitCount = 1
    ScaleFactor = 2
SPECIFICATION ProcessesSpec
CHECK_DEADLOCK FALSE
INVARIANTS WorkerConsistent WorkerServes NannyWatches DirsPurged ClusterAsSpecified
