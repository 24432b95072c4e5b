SPECIFICATION FairSpec
CONSTANTS
    Jobs = {j1}
    Workers = {w1}
    NoWorker = NoWorker
    MaxRetries = 2
    MaxMessages = 1
PROPERTIES
    StartedEnds
    LockFreed
CHECK_DEADLOCK FALSE
