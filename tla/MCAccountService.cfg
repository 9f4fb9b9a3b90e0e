SPECIFICATION HomeSpec
CONSTANTS
    Calls = {k1, k2}
    Conns = {c1, c2, c3}
    Absent = Absent
    Faults = {"unreachable", "cut", "refused", "silent", "loss", "report", "crash"}
    MaxQueued = 1
SYMMETRY Symmetry
INVARIANTS
    CredentialsGoWithAccount
