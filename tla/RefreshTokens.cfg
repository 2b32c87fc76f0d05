SPECIFICATION Spec
CONSTANTS
    w1 = w1
    w2 = w2
    w3 = w3
    k1 = k1
    k2 = k2
    Workers = {w1, w2, w3}
    Keys = {k1, k2}
    KeyOf <- TwoReplicas
    Sids = {s1}
    MaxTokens = 4
    MaxArrivals = 3
SYMMETRY SameReplica
INVARIANTS
    OneLiveToken
    LogoutIsFinal
