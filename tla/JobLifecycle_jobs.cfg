SPECIFICATION FairSpec
CONSTANTS
    j1 = j1
    j2 = j2
    s1 = s1
    s2 = s2
    s3 = s3
    p1 = p1
    p2 = p2
    Jobs = {j1, j2}
    Servers = {s1, s2, s3}
    Pids = {p1, p2}
    OwnerOf <- MCOwnerOf
    MaxRunning = 1
    MaxTerminal = 1
    MaxFailedSaves = 1
INVARIANTS LiveWorkWithinCap NoFalseInterruption
PROPERTIES OverStaysOver DeadJobsAreInterrupted
CHECK_DEADLOCK FALSE
