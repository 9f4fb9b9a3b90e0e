SPECIFICATION Spec
CONSTANTS
    Keys = {k1}
    Bases = {b1}
    Enrollments = {e1, e2}
    Jtis = {1, 2}
    Controllers = {}
    None = None
    DecideFromStanding = FALSE
    ProposalTTL = 2
    GrantTTL = 1
    MaxTime = 3
    MaxCalls = 2
SYMMETRY Symmetry
PROPERTIES
    RemovedBodyReturnsWithPresence
