SPECIFICATION Spec
CONSTANTS
    Keys = {k1, k2}
    Bases = {b1, b2}
    Enrollments = {e1, e2}
    Jtis = {1, 2}
    Controllers = {c1}
    None = None
    DecideFromStanding = TRUE
    ProposalTTL = 1
    GrantTTL = 1
    MaxTime = 2
    MaxCalls = 1
SYMMETRY Symmetry
INVARIANTS
    TypeOK
    ClaimRestsOnItsGrant
    EndedEnrollmentHoldsNoGrant
    DeviceRowFollowsClaim
    StreamReplaysToClaims
    DeviceRefNamesOneGrant
    VoucherAndBindingAreSpentOnce
PROPERTIES
    StreamIsALifecycle
    NoSelfReturn
    SettledStaysSettled
    SilencedStandingDecidesNothing
