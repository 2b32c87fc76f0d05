SPECIFICATION FairSpec
CONSTANTS
    Partitions = {1, 2, 3}
    Processes <- TwoReplicas
    Cap = 1
    MaxEvents = 2
    MaxLosses = 1
INVARIANTS
    NothingSkipped
    RedeliveryIsLocal
    AlertsAreGrounded
    InboxIsNewest
PROPERTIES
    Drained
CHECK_DEADLOCK FALSE
