CONSTANTS
    taskA = taskA
    taskB = taskB
    taskC = taskC
    taskX = taskX
    taskY = taskY
    taskZ = taskZ
    exec1 = exec1
    exec2 = exec2
    exec3 = exec3
    None = None
    Tasks <- TripleTasks
    Deps <- TripleDeps
    Become <- TripleBecome
    Results <- TripleResults
    SharesPrefix = {}
    Executors = {exec1, exec2, exec3}
    MaxTries = 1
    UseTaskQueue = FALSE
    UseFargate = TRUE
    LambdaDebug = TRUE
    Retries = 1
SPECIFICATION FairSpec
CHECK_DEADLOCK FALSE
INVARIANTS
    InputsAvailable
    ResultBeforeMessage
PROPERTIES
    JobReported
    FanInSpec
