SPECIFICATION EngagementSpec
CONSTANTS
    n1 = n1
    n2 = n2
    r1 = r1
    r2 = r2
    l1 = l1
    l2 = l2
    l3 = l3
    Ranking <- MCRanking
    Frontier <- MCFrontier
    Fresh <- MCFresh
    Drive <- MCDrive
    Plain = {n1}
    Contexts = {k1, k2}
    Outcomes = {"none", "proved"}
    MaxNodes = 2
    MaxReviews = 1
    MaxChainRounds = 1
    Every = 2
    Investigation = 5
    ReviewSeconds = 0
    Shares <- MCShares
    Slow = 2
    MaxStarts = 2
    MaxFaults = 1
    None = None
SYMMETRY MCSymmetry
INVARIANTS PhasesGetTheirShare LossBounded
PROPERTIES NoFinishedUnitRunsAgain
CHECK_DEADLOCK FALSE
