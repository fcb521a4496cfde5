SPECIFICATION Spec
CONSTANTS
  Txns <- ThreeTxns
  Keys <- ThreeKeys
  Stores <- TwoStores
  StoreOf <- StoreOfKey
  Workloads <- AllWorkloads
INVARIANT TypeOK
INVARIANT TableIsDag
INVARIANT DetectsPaths
INVARIANT NoSilentDeadlock
INVARIANT TimeoutReaches
CHECK_DEADLOCK FALSE
