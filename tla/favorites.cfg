SPECIFICATION Spec
CONSTANTS
    Requests = {r1, r2, r3, r4}
    Profiles = {p1}
    Films = {f1, f2}
    Script <- MCScript
    MaxTime = 1
    Faults = {r2}
    Nil = Nil
    r1 = r1
    r2 = r2
    r3 = r3
    r4 = r4
    p1 = p1
    f1 = f1
    f2 = f2
INVARIANT TypeOK
INVARIANT TookEffect
INVARIANT AuditAccounts
INVARIANT OnlyRacesFail
INVARIANT PagesJoin
INVARIANT TotalIsTimely
