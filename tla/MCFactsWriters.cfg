SPECIFICATION Spec
CONSTANTS
    Calls = {c1, c2}
    Commands = {k1, k2}
    Policies = {p, q}
    None = None
    CutOff = TRUE
    MaxGeneration = 2
    MaxDeclared = 2
    MaxPolicy = 1
SYMMETRY Symmetry
INVARIANTS
    RowFollowsClaim
PROPERTIES
    PolicyRevisionsCount
    CommittedIsNeverRefused
    AnsweredIsShown
