SPECIFICATION FairSpec
CONSTANTS
    Requests = {r1, r2, r3, r4}
    Profiles = {p1, p2}
    Films = {f1, f2}
    Points = {0, 15, 20}
    Script <- MCScript
    Nil = Nil
    r1 = r1
    r2 = r2
    r3 = r3
    r4 = r4
    p1 = p1
    p2 = p2
    f1 = f1
    f2 = f2
    Faults = TRUE
INVARIANT TypeOK
INVARIANT OneRating
INVARIANT CoherentUnlessRaced
PROPERTY ImplementsRegister
PROPERTY EventuallyFresh
