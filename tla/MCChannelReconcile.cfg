SPECIFICATION FairSpec
CONSTANTS
    Calls = {k1, k2}
    None = None
    Unreadables = TRUE
    Poisoned = {2}
    Limit = 1
    MaxDelay = 1
    MaxGeneration = 2
    MaxVersion = 2
    MaxSerial = 2
INVARIANTS
    RevokedHoldsNoChannel
    NeverReplaysEnded
    VerdictStands
PROPERTY
    RevocationsEnd
