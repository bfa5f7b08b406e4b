SPECIFICATION AppSpec
CONSTANTS
    Deployed = {"auth", "content", "profile", "ugc"}
    Slots = {r1, r2}
    Sent = {x}
    RateLimitEnabled = TRUE
    RestrictHosts = TRUE
    TrustHeader = TRUE
    Clients = {c1}
    Unknown = Unknown
    Limit = 2
    Interval = 2
    Horizon = 3
    Nil = Nil
    r1 = r1
    r2 = r2
    x = x
    c1 = c1
INVARIANT AppTypeOK
INVARIANT WindowRespected
INVARIANT ClientsOutliveRequests
INVARIANT RequestIdsKept
PROPERTY ImplementsWindow
SYMMETRY SlotSymmetry
