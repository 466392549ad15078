CONSTANTS
    Sends <- Calls
    Private <- PrivateRoutes
    Refused <- RefusedRoutes
    MaxRefreshes = 2
    Window = 2
    MinDenials = 2
    MinRoutes = 2
    RateOf = 1
    RateTo = 1
    MaxHops = 1
    MaxRevocations = 1
SPECIFICATION FairSpec
INVARIANTS NoFalseExpiry LiveSessionIsKept
PROPERTIES FeedbackEnds
CHECK_DEADLOCK FALSE
