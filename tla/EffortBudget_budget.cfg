SPECIFICATION Spec
CONSTANTS
    c1 = c1
    c2 = c2
    c3 = c3
    r1 = r1
    r2 = r2
    Runs = {r1, r2}
    Calls = {c1, c2, c3}
    RunOf <- MCRunOf
    Cap = 3
    MaxTokens = 2
    SpentBound = 5
INVARIANTS ReservedByInFlight RunsAddUp CapHolds OvershootBounded
CHECK_DEADLOCK FALSE
