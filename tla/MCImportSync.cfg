SPECIFICATION FairSpec
CONSTANTS
    Refs = {r1, r2}
    Names = {lamp}
    Rooms = {hall, attic}
    None = None
    Syncs = {s1}
    MAX_DEVICES = 2
    MAX_AREAS = 1
    MaxSuffix = 3
    MaxEvents = 3
INVARIANTS
    EditsSurvive
    UntouchedNamesDiffer
PROPERTY
    RegistryConverges
