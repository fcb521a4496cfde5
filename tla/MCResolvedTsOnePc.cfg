SPECIFICATION Spec
CONSTANTS
    Stores = {1, 2}
    Voters = {1, 2, 3}
    Txns = {1, 2}
    Keys = {1, 2}
    Cap = 2
    Workloads <- OnePcOnly
CHECK_DEADLOCK FALSE
INVARIANT
    ReadStateValid
