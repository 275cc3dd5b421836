CONSTANTS
    Clients = {"c1"}
    Keys = {"x", "y"}
    DepsOf <- ChainDeps
    Graphs <- ChainGraphs
    LambdaDebug = TRUE
    RpcErrors = TRUE
    CancelTries = 1
    MaxBatch = 2
    MaxOps = 2
SPECIFICATION Spec
CHECK_DEADLOCK FALSE
INVARIANTS EdgesMatch FinishedIsStored WantsAgree
