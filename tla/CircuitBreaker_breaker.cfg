SPECIFICATION FairSpec
CONSTANTS
    c1 = c1
    c2 = c2
    c3 = c3
    Calls = {c1, c2, c3}
    FailureThreshold = 2
    SuccessThreshold = 2
    HalfOpenMax = 1
    WindowSize = 3
    RateTrip = 2
    MaxInterventions = 2
INVARIANTS NoSlotLeak OverloadBounded
PROPERTIES OpenHolds HealsUnscoped
CHECK_DEADLOCK FALSE
