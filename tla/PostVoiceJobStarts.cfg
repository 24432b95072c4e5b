SPECIFICATION FairSpec
CONSTANTS
    Edits = {e1}
    Sessions = {s1}
    MaxRequests = 2
PROPERTIES
    QueuedJobStarts
CHECK_DEADLOCK FALSE
