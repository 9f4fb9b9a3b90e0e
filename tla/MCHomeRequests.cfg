SPECIFICATION FairSpec
CONSTANTS
    d1 = d1
    d2 = d2
    one = one
    other = other
    scene = scene
    twice = twice
    Devices = {d1}
    Requests = {r1}
    Contents = {one, twice}
    Commands <- Ordered
    Calls = {c1, c2}
    None = None
    OthersAct = TRUE
INVARIANTS
    PendingIsUnknown
PROPERTIES
    HandedOnce
    CallsReturn
    ReceiptIsStable
