CONSTANTS
    Devices = {d1}
    Targets = {d1}
    Sessions = {s1, s2}
    None = None
    Refused = Refused
    MaxGrants = 3
    MaxSecrets = 2
    MaxBusy = 2
    MaxEvents = 2
SPECIFICATION Spec
SYMMETRY Symmetric
INVARIANTS TokenRacesHeal ActsOnceOrIsRefused 
