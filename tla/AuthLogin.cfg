SPECIFICATION Spec
CONSTANTS
    w1 = w1
    w2 = w2
    r1 = r1
    r2 = r2
    Workers = {w1, w2}
    ReplicaOf <- TwoReplicas
    Registrations <- Rivals
    Breached = {"pw2"}
    RateKeyOf <- KidPrefix
    MaxFails = 1
    MaxAttempts = 1
    MaxSecrets = 1
    MaxSessions = 1
    MaxVerifies = 2
    None = None
SYMMETRY SwapReplicas
INVARIANTS
    TypeOK
    AttemptsThrottled
PROPERTIES
    AccountsAreKept
    SessionsEarned
