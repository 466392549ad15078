SPECIFICATION ThrottleSpec
CONSTANTS
    c1 = c1
    c2 = c2
    c3 = c3
    Senders = {c1, c2, c3}
    Rates = {0, 1, 3}
    Unit = 4
    TicksPerSecond = 2
    Horizon = 1
    MaxReconfigs = 1
INVARIANT NobodyRefused
