CONSTANTS
    Executors = {"e1", "e2", "e3"}
    MaxJobs = 3
    Retries = 0
SPECIFICATION FairSpec
CHECK_DEADLOCK FALSE
INVARIANTS EachJobOnce PollerWillReact
PROPERTIES AllJobsExecuted
