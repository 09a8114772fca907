CONSTANTS
    s1 = s1
    s2 = s2
    s3 = s3
    Slots <- ThreeSlots
    MaxConnections = 2
    MaxOut = 2
    MaxSockets = 3

SYMMETRY SlotSymmetry
SPECIFICATION Spec

INVARIANT CompletionsAreTheSlots
PROPERTY KeepsContractUntilAbandoned
