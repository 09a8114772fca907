CONSTANTS
    s1 = s1
    s2 = s2
    Slots <- TwoSlots
    Targets <- AllTargets
    MaxAttempts = 2
    MaxRuns = 2
    MaxPollInterval = 2
    PollBatch = 2
    Lag = 1
    MaxIdle = 4
    ConnectTimeout = 1
    StepTimeout = 3
    MaxRenewals = 1

SPECIFICATION FairSpec

INVARIANTS
    StatsAddUp
    ReportedExactlyOnce
    ResourcesFollowSlots
    ResultsReachTheirAttempt
    SweptInTime
    StopNoticed

PROPERTIES
    ReturnsOnlyWhenDone
    UsesReactorAsAgreed
    BoundedRunReturns
    StopEndsRun
