CONSTANTS
    Nodes = {1, 2, 3, 4}
    DagDeps <- AllDags
    None = 0
    MaxFanOut = 2
    Sizes = {1, 3, 9}
    MaxLost = 1
    MaxBitTries = 2
    ProxyGraphs <- TwoGraphs
    InvokeList <- FanOuts
    ProxyBecome <- FanOutBecome
    ProxyNumDeps <- FanOutNumDeps
    ProxyInvokers = 1
    FargateJobs <- TwoJobs
    MaxNodes = 3
    MaxArns = 4
    MaxJobs = 3
    Entries = {"f", "a"}
    Shard = 2
    MaxLength = 3
    MaxFrames = 2
    MinCompress = 2
    MaxRelays = 2
    Width = 2
    PgKeys = {"x1", "x2"}
    PgDeps <- ChainOfTwo
    PgGroup <- OneGroup
    PgWanted = {"x2"}
    MaxMoves = 5
    Stacks <- ThreeStacks
    ProfiledKeys = {"x", "y"}
    LogLength = 2
    MaxSamples = 3
    MaxCycles = 3
    NSamples = 2
    MaxThreadTime = 3
    MaxMeasured = 4
    MaxUsers = 2
    FracNum = 1
    FracDen = 2
    MaxGcTime = 6
    MonitorLength = 2
    MaxUpdates = 5
    GrKeys = {"a", "b", "c", "d"}
    GrDeps <- TwoJoins
    GrUnit = 60
    MaxGraphMoves = 5
SPECIFICATION ServicesSpec
CHECK_DEADLOCK FALSE
INVARIANTS ScheduleCovered BitsDecide ProxyFansOut FargateMapped MessagesSurvive DiagnosticsTrue
