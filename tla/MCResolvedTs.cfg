SPECIFICATION Spec
CONSTANTS
    Stores = {1, 2}
    Voters = {1, 2, 3}
    Txns = {1, 2}
    Keys = {1, 2}
    Cap = 2
    Workloads <- AllWorkloads
CHECK_DEADLOCK FALSE
INVARIANTS
    TypeOK
    StaleReadSafe
    NoLateCommit
    TrackerExact
    NoPanic
