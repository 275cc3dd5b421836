CONSTANTS
    Payloads = {1, 2, 3, 4, 5}
    NumInvokers = 2
    Threshold = 4
    PerInvoker = 2
    Retries = 1
SPECIFICATION FairSpec
CHECK_DEADLOCK FALSE
INVARIANTS NoLostWakeup EachInOnePlace
PROPERTIES SentIsInvoked
