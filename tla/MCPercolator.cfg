SPECIFICATION Spec
CONSTANTS
  Keys <- TwoKeys
  Txns <- TwoTxns
  Readers <- OneReader
  Workloads <- AllWorkloads
INVARIANT TypeOK
INVARIANT NoLostUpdate
INVARIANT AllOrNothing
INVARIANT OneCommitTs
INVARIANT NoLockBesideRecord
INVARIANT SnapshotReads
INVARIANT MaxTsCoversReads
INVARIANT SecondaryAnswerStays
PROPERTY ProtectedStays
