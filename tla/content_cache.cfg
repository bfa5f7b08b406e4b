SPECIFICATION Spec
CONSTANTS
    Docs = {d1, d2}
    Requests = {r1, r2}
    Targets <- MCTargets
    All = All
    Size = 1
    Initial = {0}
    Ttl = 1
    Latency = 1
    MaxEditions = 1
    Horizon = 2
    d1 = d1
    d2 = d2
    r1 = r1
    r2 = r2
INVARIANT TypeOK
INVARIANT BoundedStaleness
INVARIANT AnswersAreTheSource
INVARIANT WarmAnswers
