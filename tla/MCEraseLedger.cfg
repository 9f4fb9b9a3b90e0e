SPECIFICATION FairSpec
CONSTANTS
    Keys = {k1}
    Generations = {1}
    Attempts = {a1}
    AckSequences = {1}
    None = None
    OperationTTL = 1
    MaxTime = 2
    MaxCalls = 2
INVARIANTS
    TypeOK
    OneAckSettles
    EraseNamesEndedGeneration
PROPERTIES
    SettledEraseIsFinal
    RevokedBodyIsTold
