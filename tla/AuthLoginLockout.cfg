SPECIFICATION Spec
CONSTANTS
    w1 = w1
    w2 = w2
    r1 = r1
    r2 = r2
    Workers = {w1}
    ReplicaOf <- TwoReplicas
    Registrations <- Single
    Breached = {"pw2"}
    RateKeyOf <- KidPrefix
    MaxFails = 5
    MaxAttempts = 2
    MaxSecrets = 1
    MaxSessions = 1
    MaxVerifies = 3
    None = None
INVARIANT
    LockedAfterFailures
