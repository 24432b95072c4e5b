SPECIFICATION Spec
CONSTANTS
    Jobs = {j1}
    Workers = {w1, w2}
    NoWorker = NoWorker
    MaxRetries = 1
    MaxMessages = 2
INVARIANTS
    TypeOK
    SettledWhenFinal
    ChargedForAClip
    FirstSubmissionExclusive
SYMMETRY Symmetry
CHECK_DEADLOCK FALSE
