SPECIFICATION MCSpec
CONSTANTS
    Sessions = {s1, s2}
    MaxRequests <- Requests
    Facts = {"f1"}
    Claims = {"c1"}
    Values = {1, 2}
    Images = {"a1", "a2", "a3"}
    Durations = {8, 12}
    ShotDurations = {4, 6}
    ShotsPerBoard = 2
    PlansPerRound = 1
    Edits = {"e1"}
    Takes = {"t1", "t2", "t3"}
    Lengths = {1, 2}
    Logos = {"logo"}
    BatchSize = 2
    Uploads = {"u1"}
    Generated = {"g1"}
    Users = {u1, u2, u3}
    Founder = u1
    Tokens = {r1, r2}
    Lifetime = 6
    MaxAttempts = 1
    MaxTime = 5
    Kits = {"k1", "k2"}
    Templates = {"m1", "m2"}
    Jobs = {"j1", "j2"}
    Wanted <- TwoJobs
    Providers = {"mock", "runway"}
    Capability <- SomeCapabilities
    Default = "runway"
    FailureThreshold = 1
    MaxRetries = 1
    MaxSwitches = 2
INVARIANTS
    TypeOK
    VerifiedIsStamped
    VerifiedClaimsAreBacked
    ConfirmedAsSeen
    PrimaryKept
    StatusFollowsImages
    ChoiceKept
    NewRoundClearsChoice
    ApprovalKept
    TotalIsSum
    FlushedRenderSurvives
    EditsKept
    JobComposesItsKey
    EveryTakeOnce
    CutAsAsked
    ReadyIsVerified
    DeletionIsRecorded
    OwnerRemains
    RotatedOnce
    WindowEnds
    NamedIsDefault
    UsesCounted
    TripsMatchBreaker
    EnabledIsClosed
PROPERTIES
    ArchivedStays
    DecisionStands
SYMMETRY Symmetry
CHECK_DEADLOCK FALSE
