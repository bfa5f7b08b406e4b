SPECIFICATION FairSpec
CONSTANTS
    Requests = {r1, r2, r3, r4, r5}
    Users = {u1, u2}
    Names = {n1, n2}
    Phones = {phoneA, phoneB}
    RawPhones = {a, aSpaced, b, bad}
    Sub <- LiteSub
    E164 <- MCE164
    Script <- LiteScript
    Nil = Nil
    r1 = r1
    r2 = r2
    r3 = r3
    r4 = r4
    r5 = r5
    u1 = u1
    u2 = u2
    n1 = n1
    n2 = n2
    phoneA = phoneA
    phoneB = phoneB
    a = a
    aSpaced = aSpaced
    b = b
    bad = bad
    ForeignKeys = FALSE
    Faults = FALSE
    Patient = {u2}
INVARIANT DeletedStaysDeleted
PROPERTY EveryRequestAnswered
