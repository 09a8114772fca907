CONSTANTS
    ReadBufSize = 2
    EngineCapacity = 2
    MaxRecordsPerRead = 2
    ConnectTimeout = 1
    StepTimeout = 2
    SweepDelay = 1
    GreetingLines <- AnyText
    CertTextLines <- AnyText

SPECIFICATION FairSpec

INVARIANTS
    UnreachableNotReached
    OneExpectedOpInFlight
    TlsModeHonoured
    NothingPlainAfterTls
    FollowsScript
    BoundedLifetime
    RoomToRead

PROPERTIES
    EventuallyTerminal
    KeepsContract
