SPECIFICATION Spec
CONSTANTS
    Requests = {e1, e2, e3, l1, l2}
    Posts = {e1, e2, e3}
    Stamp <- MCStamp
    Limit <- MCLimit
    DefaultLimit = 3
    MaxLimit = 2
    MaxEvents = 2
    EnsureSchema = {TRUE, FALSE}
    MaxLives = 2
    Nil = Nil
    e1 = e1
    e2 = e2
    e3 = e3
    l1 = l1
    l2 = l2
INVARIANT TypeOK
INVARIANT AcknowledgedKept
INVARIANT AcknowledgedIsListed
INVARIANT ListedInOrder
 
