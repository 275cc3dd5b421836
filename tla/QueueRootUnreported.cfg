CONSTANTS
    taskA = taskA
    taskB = taskB
    taskC = taskC
    taskX = taskX
    taskY = taskY
    taskZ = taskZ
    exec1 = exec1
    exec2 = exec2
    exec3 = exec3
    None = None
    Tasks <- JoinTasks
    Deps <- JoinDeps
    Become <- JoinBecome
    Results <- JoinResults
    SharesPrefix = {}
    Executors = {exec1, exec2}
    MaxTries = 2
    UseTaskQueue = TRUE
    UseFargate = FALSE
    LambdaDebug = FALSE
    Retries = 1
SPECIFICATION FairSpec
CHECK_DEADLOCK FALSE
PROPERTIES
    RootResultStored
