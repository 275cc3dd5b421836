CONSTANTS
    taskA = taskA
    taskB = taskB
    taskC = taskC
    taskX = taskX
    taskY = taskY
    taskZ = taskZ
    exec1 = exec1
    exec2 = exec2
    exec3 = exec3
    None = None
    Tasks <- LadderTasks
    Deps <- LadderDeps
    Become <- LadderBecome
    Results <- LadderResults
    SharesPrefix = {}
    Executors = {exec1, exec2, exec3}
    MaxTries = 2
    UseTaskQueue = TRUE
    UseFargate = FALSE
    LambdaDebug = FALSE
    Retries = 1
SPECIFICATION Spec
CHECK_DEADLOCK FALSE
INVARIANTS
    NoDoubleExecution
    NoOverCount
    OnlyGivenUpInputsMissing
    WaitedForOutputKept
    NoRunAfterError
