SPECIFICATION Spec
CONSTANTS
  Keys <- OneKey
  Writers <- TheWriters
  Readers <- TheReaders
  KeyOf <- KeyOfWriter
  StartTs <- StartOfWriter
  ReadKeys <- ReadTheKey
  ReadTs <- ReadTimestamps
  NoHandle = NoHandle
INVARIANT GuardExclusive
INVARIANT GuardVisible
INVARIANT MutexInLiveHandle
INVARIANT SnapshotStays
PROPERTY EveryThreadFinishes
