SPECIFICATION Spec
CONSTANTS
    Rows = {1, 2}
    Sessions = {s1, s2}
    MaxConcurrency = 1
    Nobody = Nobody
    MaxRequests = 3
    MaxFailures = 2
    MaxAttempts = 2
INVARIANTS
    TypeOK
    OneRunPerClaim
PROPERTIES
    InvalidRowsStay
SYMMETRY Symmetry
CHECK_DEADLOCK FALSE
