SPECIFICATION FairSpec
CONSTANTS
    both = both
    agentOnly = agentOnly
    c1 = c1
    c2 = c2
    c3 = c3
    Nodes = {both, agentOnly}
    Hypothesis = {both, agentOnly}
    Warranting = {both}
    Captures = {c1, c2}
    ChainCaptures = {c3}
    MaxRecrawls = 1
    MaxChains = 1
    MaxNodes = 1
    MaxLegs = 1
    MaxReviews = 1
    StepCapRound = 1
    Growth = 2
    MaxFactor = 4
    MaxRounds = 0
    MaxIdle = 1
    RoundBound = 2
INVARIANTS LegsSentOnce NothingLeftToDo
PROPERTIES VerdictsStand RoundsEnd
CHECK_DEADLOCK FALSE
