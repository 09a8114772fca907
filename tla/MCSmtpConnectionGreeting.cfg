CONSTANTS
    ReadBufSize = 2
    EngineCapacity = 2
    MaxRecordsPerRead = 2
    ConnectTimeout = 1
    StepTimeout = 2
    SweepDelay = 1
    GreetingLines <- AnyText
    CertTextLines <- OneLineTexts

SPECIFICATION Spec

INVARIANT NoAbort
