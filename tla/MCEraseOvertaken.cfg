SPECIFICATION WorkerSpec
CONSTANTS
    Keys = {k1}
    Generations = {1, 2}
    Attempts = {a1}
    AckSequences = {}
    None = None
    OperationTTL = 1
    MaxTime = 1
    MaxCalls = 1
PROPERTIES
    RevocationBecomesInstruction
