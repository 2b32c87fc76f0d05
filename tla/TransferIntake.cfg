SPECIFICATION FairSpec
CONSTANTS
    w1 = w1
    w2 = w2
    u1 = u1
    u2 = u2
    t1 = t1
    Workers = {w1, w2}
    Users = {u1, u2}
    Tokens = {t1}
    Amounts = {1, 2}
    Threshold = 2
    MaxArrivals = 2
INVARIANTS
    OneRowPerKey
    EventsMatchRows
    MissingEventExplained
    ReceiptsMatchRows
PROPERTIES
    Answered
CHECK_DEADLOCK FALSE
