SPECIFICATION RegistryFairSpec
CONSTANTS
    c1 = c1
    c2 = c2
    c3 = c3
    c4 = c4
    c5 = c5
    k1 = k1
    k2 = k2
    e1 = e1
    e2 = e2
    Callers = {c1, c2, c4, c5}
    Keys = {k1, k2}
    Cases = {e1, e2}
    KeysOf <- MCKeysOf
    CaseOf <- MCCaseOf
    Limited = {c1, c2, c4}
    Observed = {c1, c2}
    Declared = {c4}
    RetryLimit = 1
    Slots = 3
    MaxSends = 1
    None = None
INVARIANTS OneRunPerKey SavingsAreReal ObservedRetriesAreBounded
PROPERTIES EveryCallIsAnswered
CHECK_DEADLOCK FALSE
