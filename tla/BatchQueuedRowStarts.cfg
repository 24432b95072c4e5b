SPECIFICATION FairSpec
CONSTANTS
    Rows = {1, 2}
    Sessions = {s1, s2}
    MaxConcurrency = 1
    Nobody = Nobody
    MaxRequests = 1
    MaxFailures = 0
    MaxAttempts = 2
PROPERTIES
    QueuedRowStarts
CHECK_DEADLOCK FALSE
