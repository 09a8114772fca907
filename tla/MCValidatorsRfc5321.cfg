CONSTANTS
    Bodies <- MCBodies
    BodyMaxLine = 3
    Values <- MCValues
    HeaderMaxLine = 13
    MaxWord = 12
    Addresses <- MCAddresses
    MaxTotal = 7
    MaxLocal = 3
    MaxLabel = 2
    MaxDomain = 5
SPECIFICATION Spec
CHECK_DEADLOCK FALSE
INVARIANTS
    AddressIsRfc5321
