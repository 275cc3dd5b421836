CONSTANTS
    taskA = taskA
    taskB = taskB
    taskC = taskC
    taskX = taskX
    taskY = taskY
    taskZ = taskZ
    exec1 = exec1
    exec2 = exec2
    exec3 = exec3
    None = None
    Tasks <- LadderTasks
    Deps <- LadderDeps
    Become <- LadderBecome
    Results <- LadderPrefixResults
    SharesPrefix <- LadderPrefix
    Executors = {exec1, exec2}
    MaxTries = 1
    UseTaskQueue = TRUE
    UseFargate = TRUE
    LambdaDebug = FALSE
    Retries = 1
SPECIFICATION FairSpec
CHECK_DEADLOCK FALSE
PROPERTIES
    JobReported
