SPECIFICATION FairSpec
CONSTANTS
    Sessions = {s1, s2, s3}
    Workers = 2
    Pools = {"null", "static"}
    Unsteady = {s1}
    Nil = Nil
    s1 = s1
    s2 = s2
    s3 = s3
INVARIANT TypeOK
INVARIANT TransactionsKept
PROPERTY SessionsEnd
