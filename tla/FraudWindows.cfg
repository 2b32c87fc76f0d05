SPECIFICATION Spec
CONSTANTS
    payee = payee
    Workers = {w1, w2}
    Transfers = {t1, t2, t3}
    DstOf <- OnePayee
    Hour = 1
    Day = 3
    Cap = 2
    MaxClock = 3
    MaxLosses = 1
    None = None
SYMMETRY Same
CHECK_DEADLOCK FALSE
INVARIANTS
    VelocityCountsAll
    AmountsAreNewest
    DestinationsLapse
