SPECIFICATION Spec
CONSTANTS
  Keys <- TwoKeys
  Txns <- TwoTxns
  Readers <- NoReader
  Workloads <- IndexKeyWorkloads
INVARIANT SecondaryAnswerStays
