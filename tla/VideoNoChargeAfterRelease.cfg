SPECIFICATION Spec
CONSTANTS
    Jobs = {j1}
    Workers = {w1}
    NoWorker = NoWorker
    MaxRetries = 1
    MaxMessages = 2
INVARIANTS
    NoChargeAfterRelease
CHECK_DEADLOCK FALSE
