SPECIFICATION FairSpec
CONSTANTS
    i1 = i1
    i2 = i2
    i3 = i3
    i4 = i4
    w1 = w1
    w2 = w2
    w3 = w3
    e1 = e1
    e2 = e2
    none = none
    Items <- MCItems
    Engagements = {e1, e2}
    Workers = {w1, w2, w3}
    EngagementOf <- MCEngagementOf
    ServedBy <- MCServedBy
    Priority <- MCPriority
    DependsOn <- MCDependsOn
    Reservation <- MCReservation
    BudgetCap = 3
    MaxAttempts = 2
    MaxDisruptions = 1
    Nothing = none
INVARIANTS BudgetWithinCap DependenciesDone AttemptAccounting HeldIsCurrent
PROPERTIES ImplementsDurableWork NoWorkIsLost
CHECK_DEADLOCK FALSE
