CONSTANTS
    Releases = {r1, r2, r3}
    Legacy = {r1}
    Objects = {base, column, table, index, revision}
    Schema <- MCSchema
    Kind <- MCKind
    Table <- MCTable
    Keys = {k1, k2}
    None = None
    Torn = Torn
    MaxAuthority = 2
    MaxEvents = 3
    MaxFaults = 2
    r1 = r1
    r2 = r2
    r3 = r3
    base = base
    column = column
    table = table
    index = index
    revision = revision
SPECIFICATION Spec
SYMMETRY Symmetry
INVARIANTS ServesAllItCommitted CutoverIsReversible ServedHistoryCounts
