SPECIFICATION Spec
CONSTANTS
    c1 = c1
    c2 = c2
    c3 = c3
    u1 = u1
    u2 = u2
    u3 = u3
    u4 = u4
    h1 = h1
    h2 = h2
    h3 = h3
    f1 = f1
    a1 = a1
    a2 = a2
    a3 = a3
    Calls = {c1, c2, c3}
    Urls = {u1, u2, u3, u4}
    Hosts = {h1, h2, h3}
    HostOf <- MCHostOf
    Addresses = {a1, a2, a3}
    Findings = {f1}
    FindingOf <- MCFindingOf
    Filed = {c1, c2}
    CeilingOf <- MCCeilingOf
    TargetOf <- MCTargetOf
    Writing = {c1, c2}
    Driven = {c3}
    Authed = {c1, c3}
    Cleanup = {c2}
    SessionHosts = {h1}
    ScopeHosts = {h1, h2}
    Excluded = {u4}
    Special = {a3}
    MaxRequests = 3
    DriverMax = 1
    Reserve = 1
    Replay = TRUE
    MaxRedirects = 2
    Threshold = 1
    NoAddress = NoAddress
INVARIANTS SendsArePaid OneAddressPerHost NothingLeaks WritesWithinCeiling OnlySilentRoutesPause CancelStops
CHECK_DEADLOCK FALSE
