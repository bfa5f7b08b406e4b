SPECIFICATION FairSpec
CONSTANTS
    Requests = {r1, r2, r3, r4}
    Emails = {e1, e2}
    Passwords = {pw1, pw2, pw3, pw4}
    Digests = {d1, d2}
    Digest <- MCDigest
    Script <- MCScript
    AccessTtl = 1
    RefreshTtl = 2
    MaxTime = 2
    Faults = {r2}
    Nil = Nil
    r1 = r1
    r2 = r2
    r3 = r3
    r4 = r4
    e1 = e1
    e2 = e2
    pw1 = pw1
    pw2 = pw2
    pw3 = pw3
    pw4 = pw4
    d1 = d1
    d2 = d2
INVARIANT TypeOK
INVARIANT OneAccount
INVARIANT AnswersWereTrue
INVARIANT OnlyRacesFail
PROPERTY EveryRequestAnswered
