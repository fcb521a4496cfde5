------------------------- MODULE MemoryLocksProofs --------------------------
(***************************************************************************)
(* Proofs about MemoryLocks, for any number of keys, prewrites and reads:  *)
(* the guards of a key exclude each other and are visible, mutexes are in  *)
(* live handles, and snapshots do not change. The inductive invariant and  *)
(* the steps of prewrites are in MemoryLocksSteps.                         *)
(***************************************************************************)
EXTENDS MemoryLocksSteps

-----------------------------------------------------------------------------
(* The steps of reads, and the end of both kinds of threads.                *)

\* From here on the reader meets what was calculated before.
LEMMA UpdateMaxTsStep ==
    ASSUME NEW r \in Readers, IInv, UpdateMaxTs(r)
    PROVE  IInv'
<1>. r \in Threads /\ r \notin Writers
  BY Kinds
<1>1. TypeInv'
  BY KeyFacts DEF IInv, TypeInv, ReaderPc, UpdateMaxTs, Goto, engine, reading
<1>2. ReadInv'
  BY KeyFacts DEF IInv, TypeInv, ReadInv, UpdateMaxTs, Goto, reading
<1>3. MeetInv'
  BY DEF IInv, MeetInv, ReadInv, Concerns, UpdateMaxTs, Goto, reading
<1>4. OwnInv' /\ MutexInv' /\ StoreInv'
  BY DEF IInv, TypeInv, OwnInv, MutexInv, StoreInv, Handles, Published, Guarded, Holding, Threads,
     UpdateMaxTs, Goto, manager
<1>5. TableInv'
  BY DEF IInv, TableInv, Published, UpdateMaxTs, Goto
<1>6. HandleInv' /\ RefInv'
  BY DEF IInv, HandleInv, RefInv, Published, Looking, UpdateMaxTs, Goto
<1>7. RemoveInv'
  BY DEF IInv, RemoveInv, Guarded, Threads, UpdateMaxTs, Goto
<1>8. WrittenInv' /\ DoneInv' /\ SnapshotStays'
  BY DEF IInv, WrittenInv, DoneInv, SnapshotStays, Concerns, UpdateMaxTs, Goto, engine, reading
<1>. QED
  BY <1>1, <1>2, <1>3, <1>4, <1>5, <1>6, <1>7, <1>8 DEF IInv

\* A writer of the key whose handle is not in the table has not calculated.
LEMMA GetEntryStep ==
    ASSUME NEW r \in Readers, NEW k \in Keys, IInv, GetEntry(r, k)
    PROVE  IInv'
<1>. r \in Threads /\ r \notin Writers
  BY Kinds
<1>1. CASE table[k] = NoHandle
  <2>1. /\ k \in todo[r] /\ ~met[r]
        /\ pc[r] = "check" /\ pc' = [pc EXCEPT ![r] = "check"]
        /\ handle' = [handle EXCEPT ![r] = NoHandle]
        /\ todo' = [todo EXCEPT ![r] = @ \ {k}]
        /\ UNCHANGED <<maxTs, table, refs, bound, mutex, storeMutex, lockStore, commitTs, locked,
                       committed, met, seen>>
    BY <1>1 DEF GetEntry, Goto, manager, engine
  <2>2. \A w \in Writers : pc[w] \in {"store", "write"} => KeyOf[w] # k
    BY <1>1, KeyFacts DEF IInv, TableInv, HandleInv, RefInv, Holding, Guarded
  <2>3. TypeInv'
    BY <1>1, <2>1, <2>2, KeyFacts DEF IInv, TypeInv
  <2>4. HandleInv'
    BY <1>1, <2>1 DEF IInv, TypeInv, HandleInv, TableInv, Published, Holding, Looking, Threads
  <2>5. RefInv'
    BY <1>1, <2>1 DEF IInv, RefInv, Looking, Handles
  <2>6. RemoveInv'
    BY <2>1 DEF IInv, TypeInv, RemoveInv, HandleInv
  <2>7. ReadInv'
    BY <2>1 DEF IInv, ReadInv
  <2>8. MeetInv'
    BY <2>1, <2>2 DEF IInv, MeetInv, Concerns
  <2>9. OwnInv' /\ MutexInv' /\ StoreInv'
    BY <2>1 DEF IInv, OwnInv, MutexInv, StoreInv
  <2>10. TableInv'
    BY <2>1 DEF IInv, TableInv, Published
  <2>11. WrittenInv' /\ DoneInv' /\ SnapshotStays'
    BY <2>1 DEF IInv, WrittenInv, DoneInv, SnapshotStays, Concerns
  <2>. QED
    BY <2>3, <2>4, <2>5, <2>6, <2>7, <2>8, <2>9, <2>10, <2>11 DEF IInv
<1>2. CASE table[k] # NoHandle
  <2>1. /\ k \in todo[r] /\ ~met[r]
        /\ pc[r] = "check" /\ pc' = [pc EXCEPT ![r] = "upgrade"]
        /\ handle' = [handle EXCEPT ![r] = table[k]]
        /\ todo' = [todo EXCEPT ![r] = @ \ {k}]
        /\ UNCHANGED <<maxTs, table, refs, bound, mutex, storeMutex, lockStore, commitTs, locked,
                       committed, met, seen>>
    BY <1>2 DEF GetEntry, Goto, manager, engine
  <2>2. \A w \in Writers : pc[w] \in {"store", "write"} /\ KeyOf[w] = k => handle[w] = table[k]
    BY DEF IInv, TableInv, HandleInv, RefInv, Holding, Guarded
  <2>3. TypeInv'
    BY <2>1, <2>2 DEF IInv, TypeInv, ReaderPc
  <2>4. HandleInv'
    BY <1>2, <2>1 DEF IInv, TypeInv, HandleInv, TableInv, Handles, Published, Holding, Looking
  <2>5. RefInv'
    BY <2>1 DEF IInv, RefInv, Looking
  <2>6. RemoveInv'
    BY <2>1, <2>2, KeyFacts DEF IInv, TypeInv, RemoveInv, TableInv, OwnInv, HandleInv
  <2>7. ReadInv'
    BY <2>1 DEF IInv, ReadInv
  <2>8. MeetInv'
    BY <2>1, <2>2 DEF IInv, TypeInv, MeetInv, Concerns
  <2>9. OwnInv' /\ MutexInv' /\ StoreInv'
    BY <2>1, <2>2 DEF IInv, OwnInv, MutexInv, StoreInv, Handles, Published, Threads
  <2>10. TableInv'
    BY <2>1 DEF IInv, TypeInv, TableInv, Handles, Published
  <2>11. WrittenInv' /\ DoneInv' /\ SnapshotStays'
    BY <2>1 DEF IInv, WrittenInv, DoneInv, SnapshotStays, Concerns
  <2>. QED
    BY <2>3, <2>4, <2>5, <2>6, <2>7, <2>8, <2>9, <2>10, <2>11 DEF IInv
<1>. QED
  BY <1>1, <1>2

\* A dead handle has no lock to meet.
LEMMA UpgradeToCheckStep ==
    ASSUME NEW r \in Readers, IInv, UpgradeToCheck(r)
    PROVE  IInv'
<1>. r \in Threads /\ r \notin Writers
  BY Kinds
<1>1. CASE refs[handle[r]] # {}
  <2>1. /\ pc[r] = "upgrade" /\ pc' = [pc EXCEPT ![r] = "look"]
        /\ refs' = [refs EXCEPT ![handle[r]] = @ \cup {r}]
        /\ UNCHANGED <<maxTs, table, bound, mutex, storeMutex, lockStore, handle, commitTs,
                       locked, committed, todo, met, seen>>
    BY <1>1 DEF UpgradeToCheck, Goto, engine, reading
  <2>2. TypeInv'
    BY <2>1 DEF IInv, TypeInv, HandleInv, ReaderPc
  <2>3. OwnInv'
    BY <2>1 DEF IInv, OwnInv, HandleInv, Published
  <2>4. TableInv'
    BY <1>1, <2>1 DEF IInv, TableInv, Published
  <2>5. HandleInv'
    BY <2>1 DEF IInv, HandleInv, Published
  <2>6. RefInv'
    BY <2>1 DEF IInv, TypeInv, RefInv, HandleInv, Guarded, Holding, Looking, Threads, Published,
       Handles
  <2>7. RemoveInv'
    BY <1>1, <2>1 DEF IInv, TypeInv, RemoveInv, OwnInv, Guarded
  <2>8. MeetInv'
    BY <2>1 DEF IInv, MeetInv, Concerns
  <2>9. MutexInv' /\ StoreInv'
    BY <2>1 DEF IInv, MutexInv, StoreInv
  <2>10. ReadInv' /\ WrittenInv' /\ DoneInv' /\ SnapshotStays'
    BY <2>1 DEF IInv, ReadInv, WrittenInv, DoneInv, SnapshotStays, Concerns
  <2>. QED
    BY <2>2, <2>3, <2>4, <2>5, <2>6, <2>7, <2>8, <2>9, <2>10 DEF IInv
<1>2. CASE refs[handle[r]] = {}
  <2>1. /\ pc[r] = "upgrade" /\ pc' = [pc EXCEPT ![r] = "check"]
        /\ UNCHANGED refs
        /\ UNCHANGED <<maxTs, table, bound, mutex, storeMutex, lockStore, handle, commitTs,
                       locked, committed, todo, met, seen>>
    BY <1>2 DEF UpgradeToCheck, Goto, engine, reading
  <2>2. \A w \in Writers : pc[w] \in {"store", "write"} => handle[w] # handle[r]
    BY <1>2 DEF IInv, RefInv, Holding, Guarded
  <2>3. TypeInv'
    BY <2>1 DEF IInv, TypeInv, ReaderPc
  <2>4. OwnInv'
    BY <2>1 DEF IInv, OwnInv
  <2>5. TableInv'
    BY <2>1 DEF IInv, TableInv, Published, Holding
  <2>6. HandleInv'
    BY <2>1 DEF IInv, HandleInv, Published
  <2>7. RefInv'
    BY <2>1 DEF IInv, RefInv, Guarded, Looking
  <2>8. RemoveInv'
    BY <2>1 DEF IInv, RemoveInv, RefInv
  <2>9. MeetInv'
    BY <2>1, <2>2 DEF IInv, MeetInv, Concerns
  <2>10. MutexInv' /\ StoreInv'
    BY <2>1 DEF IInv, MutexInv, StoreInv
  <2>11. ReadInv' /\ WrittenInv' /\ DoneInv' /\ SnapshotStays'
    BY <2>1 DEF IInv, ReadInv, WrittenInv, DoneInv, SnapshotStays, Concerns
  <2>. QED
    BY <2>3, <2>4, <2>5, <2>6, <2>7, <2>8, <2>9, <2>10, <2>11 DEF IInv
<1>. QED
  BY <1>1, <1>2

\* The lock in lock_store is met; without one the writer will commit above the read.
LEMMA LookAtLockStep ==
    ASSUME NEW r \in Readers, IInv, LookAtLock(r)
    PROVE  IInv'
<1>. r \in Threads /\ r \notin Writers
  BY Kinds
<1>1. TypeInv'
  BY DEF IInv, TypeInv, ReaderPc, LookAtLock, Goto, manager, engine, reading, Blocks
<1>2. ReadInv'
  BY DEF IInv, TypeInv, ReadInv, LookAtLock, Goto, manager, reading, Blocks
<1>3. MeetInv'
  <2>. SUFFICES ASSUME NEW s \in Readers, NEW w \in Writers,
                       pc'[s] \notin {"update", "blocked"}, pc'[w] \in {"store", "write"}, Concerns(w, s)'
                PROVE  \/ KeyOf[w] \in todo'[s]
                       \/ met'[s]
                       \/ handle'[s] = handle'[w] /\ pc'[s] \in {"upgrade", "look"}
    BY DEF MeetInv
  <2>1. /\ pc'[w] = pc[w] /\ (Concerns(w, s)' <=> Concerns(w, s))
        /\ s # r => pc'[s] = pc[s] /\ met'[s] = met[s]
    BY DEF LookAtLock, Goto, Concerns
  <2>2. CASE s # r
    BY <2>1, <2>2 DEF IInv, MeetInv, LookAtLock
  <2>3. CASE s = r /\ handle[r] = handle[w]
    <3>1. pc[w] = "write"
      BY <2>1, <2>3, KeyFacts DEF IInv, StoreInv, LookAtLock
    <3>2. lockStore[handle[r]] = w /\ w # NoHandle
      BY <2>3, <3>1, KeyFacts DEF IInv, StoreInv
    <3>3. Blocks(w, ReadTs[r])
      BY <2>1, <2>3 DEF Blocks, Concerns
    <3>4. met'[r] = (lockStore[handle[r]] # NoHandle /\ Blocks(lockStore[handle[r]], ReadTs[r]))
      BY DEF IInv, TypeInv, LookAtLock
    <3>. QED
      BY <2>3, <3>2, <3>3, <3>4, Zenon
  <2>4. CASE s = r /\ handle[r] # handle[w]
    BY <2>1, <2>4 DEF IInv, ReadInv, MeetInv, LookAtLock, Goto
  <2>. QED
    BY <2>2, <2>3, <2>4
<1>4. OwnInv' /\ MutexInv' /\ StoreInv'
  BY DEF IInv, OwnInv, MutexInv, StoreInv, Published, LookAtLock, Goto, manager, engine
<1>5. TableInv'
  BY DEF IInv, TableInv, Published, LookAtLock, Goto, manager, engine
<1>6. HandleInv' /\ RefInv'
  BY DEF IInv, HandleInv, RefInv, Handles, Published, Looking, Threads, LookAtLock, Goto, manager
<1>7. RemoveInv'
  BY KeyFacts DEF IInv, RemoveInv, LookAtLock, Goto, manager
<1>8. WrittenInv' /\ DoneInv' /\ SnapshotStays'
  BY DEF IInv, WrittenInv, DoneInv, SnapshotStays, Concerns, LookAtLock, Goto, engine
<1>. QED
  BY <1>1, <1>2, <1>3, <1>4, <1>5, <1>6, <1>7, <1>8 DEF IInv

\* A read that is blocked shows nothing.
LEMMA ReportLockStep ==
    ASSUME NEW r \in Readers, IInv, ReportLock(r)
    PROVE  IInv'
<1>. r \in Threads /\ r \notin Writers
  BY Kinds
<1>1. TypeInv'
  BY KeyFacts DEF IInv, TypeInv, ReaderPc, ReportLock, Goto, manager, engine, reading
<1>2. OwnInv' /\ MutexInv' /\ StoreInv'
  BY DEF IInv, OwnInv, MutexInv, StoreInv, ReportLock, Goto, manager
<1>3. TableInv'
  BY DEF IInv, TableInv, Published, ReportLock, Goto, manager
<1>4. HandleInv' /\ RefInv'
  BY DEF IInv, HandleInv, RefInv, Published, Guarded, Looking, ReportLock, Goto, manager
<1>5. RemoveInv'
  BY DEF IInv, RemoveInv, Threads, Published, ReportLock, Goto, manager
<1>6. ReadInv' /\ WrittenInv' /\ MeetInv' /\ DoneInv' /\ SnapshotStays'
  BY DEF IInv, ReadInv, WrittenInv, MeetInv, DoneInv, SnapshotStays, Concerns, ReportLock, Goto,
     manager, engine, reading
<1>. QED
  BY <1>1, <1>2, <1>3, <1>4, <1>5, <1>6 DEF IInv

\* The snapshot has all that will ever be committed at or below the read.
LEMMA TakeSnapshotStep ==
    ASSUME NEW r \in Readers, IInv, TakeSnapshot(r)
    PROVE  IInv'
<1>. r \in Threads /\ r \notin Writers
  BY Kinds
<1>1. CASE locked \cap {w \in Writers : Concerns(w, r)} = {}
  <2>1. /\ todo[r] = {} /\ ~met[r]
        /\ pc[r] = "check" /\ pc' = [pc EXCEPT ![r] = "done"]
        /\ seen' = [seen EXCEPT ![r] = committed \cap {w \in Writers : Concerns(w, r)}]
        /\ UNCHANGED <<maxTs, table, refs, bound, mutex, storeMutex, lockStore, handle, commitTs,
                       locked, committed, todo, met>>
    BY <1>1 DEF TakeSnapshot, Goto, manager, engine, Concerns
  <2>2. TypeInv'
    BY <1>1, <2>1 DEF IInv, TypeInv, ReaderPc
  <2>3. RemoveInv'
    BY <2>1 DEF IInv, TypeInv, RemoveInv
  <2>4. ReadInv'
    BY <2>1 DEF IInv, ReadInv
  <2>5. MeetInv'
    BY <2>1 DEF IInv, MeetInv, Concerns
  <2>6. DoneInv'
    BY <1>1, <2>1, KeyFacts DEF IInv, TypeInv, DoneInv, WrittenInv, MeetInv, ReadInv, Threads,
       Concerns
  <2>7. SnapshotStays'
    BY <2>1 DEF IInv, TypeInv, MeetInv, SnapshotStays, Concerns
  <2>8. OwnInv' /\ MutexInv' /\ StoreInv'
    BY <2>1 DEF IInv, OwnInv, MutexInv, StoreInv
  <2>9. TableInv'
    BY <2>1 DEF IInv, TableInv, Published
  <2>10. HandleInv' /\ RefInv'
    BY <2>1 DEF IInv, HandleInv, RefInv, Published, Looking
  <2>11. WrittenInv'
    BY <2>1 DEF IInv, WrittenInv
  <2>. QED
    BY <2>2, <2>3, <2>4, <2>5, <2>6, <2>7, <2>8, <2>9, <2>10, <2>11 DEF IInv
<1>2. CASE locked \cap {w \in Writers : Concerns(w, r)} # {}
  <2>1. /\ todo[r] = {} /\ ~met[r]
        /\ pc[r] = "check" /\ pc' = [pc EXCEPT ![r] = "blocked"]
        /\ seen' = [seen EXCEPT ![r] = committed \cap {w \in Writers : Concerns(w, r)}]
        /\ UNCHANGED <<maxTs, table, refs, bound, mutex, storeMutex, lockStore, handle, commitTs,
                       locked, committed, todo, met>>
    BY <1>2 DEF TakeSnapshot, Goto, manager, engine, Concerns
  <2>2. TypeInv'
    BY <2>1 DEF IInv, TypeInv, ReaderPc
  <2>3. RemoveInv'
    BY <2>1 DEF IInv, TypeInv, RemoveInv, HandleInv
  <2>4. ReadInv'
    BY <2>1 DEF IInv, ReadInv
  <2>5. MeetInv'
    BY <2>1 DEF IInv, MeetInv, ReadInv, Concerns
  <2>6. DoneInv'
    BY <2>1 DEF IInv, DoneInv, Concerns
  <2>7. SnapshotStays'
    BY <2>1 DEF IInv, SnapshotStays
  <2>8. OwnInv' /\ MutexInv' /\ StoreInv'
    BY <2>1 DEF IInv, OwnInv, MutexInv, StoreInv
  <2>9. TableInv'
    BY <2>1 DEF IInv, TableInv, Published
  <2>10. HandleInv' /\ RefInv'
    BY <1>2, <2>1 DEF IInv, HandleInv, RefInv, Published, Looking
  <2>11. WrittenInv'
    BY <2>1 DEF IInv, WrittenInv
  <2>. QED
    BY <2>2, <2>3, <2>4, <2>5, <2>6, <2>7, <2>8, <2>9, <2>10, <2>11 DEF IInv
<1>. QED
  BY <1>1, <1>2

\* The last reference is dropped by one thread, which goes on to remove the key.
LEMMA ReleaseStep ==
    ASSUME NEW p \in Threads, NEW next \in {"done", "check"},
           p \in Writers <=> next = "done", IInv, Release(p, next)
    PROVE  IInv'
<1>. (p \in Writers /\ p \notin Readers) \/ (p \in Readers /\ p \notin Writers)
  BY Kinds
<1>1. CASE refs[handle[p]] = {p} /\ bound[handle[p]]
  <2>1. /\ pc[p] = "release" /\ pc' = [pc EXCEPT ![p] = "remove"]
        /\ refs' = [refs EXCEPT ![handle[p]] = @ \ {p}]
        /\ UNCHANGED <<maxTs, table, bound, mutex, storeMutex, lockStore, handle, commitTs,
                       locked, committed, todo, met, seen>>
    BY <1>1 DEF Release, Goto, engine, reading
  <2>2. TypeInv'
    <3>1. PcTyped'
      BY <1>1, <2>1, GoesOn, Zenon DEF WriterPc, ReaderPc
    <3>2. refs' \in [Writers -> SUBSET Threads]
      BY <1>1, <2>1, Zenon DEF IInv, TypeInv
    <3>. QED
      BY <2>1, <3>1, <3>2 DEF IInv, TypeInv, PcTyped
  <2>3. OwnInv'
    BY <2>1 DEF IInv, OwnInv
  <2>4. TableInv'
    BY <2>1 DEF IInv, TableInv, Published
  <2>5. HandleInv'
    BY <2>1 DEF IInv, HandleInv, Published, Holding, Looking
  <2>6. RefInv'
    BY <2>1 DEF IInv, TypeInv, RefInv, Guarded, Holding, Looking
  <2>7. RemoveInv'
    BY <1>1, <2>1, KeyFacts DEF IInv, TypeInv, RemoveInv, TableInv, RefInv, HandleInv, Holding,
       Looking, Published
  <2>8. MutexInv' /\ StoreInv'
    BY <1>1, <2>1 DEF IInv, MutexInv, StoreInv, Guarded
  <2>9. ReadInv' /\ WrittenInv' /\ MeetInv' /\ DoneInv' /\ SnapshotStays'
    BY <2>1 DEF IInv, ReadInv, WrittenInv, MeetInv, DoneInv, SnapshotStays, Concerns
  <2>. QED
    BY <2>2, <2>3, <2>4, <2>5, <2>6, <2>7, <2>8, <2>9 DEF IInv
<1>2. CASE ~(refs[handle[p]] = {p} /\ bound[handle[p]])
  <2>1. /\ pc[p] = "release" /\ pc' = [pc EXCEPT ![p] = next]
        /\ refs' = [refs EXCEPT ![handle[p]] = @ \ {p}]
        /\ UNCHANGED <<maxTs, table, bound, mutex, storeMutex, lockStore, handle, commitTs,
                       locked, committed, todo, met, seen>>
    BY <1>2, Zenon DEF Release, Goto, manager, engine, reading
  <2>2. TypeInv'
    <3>1. PcTyped'
      BY <1>2, <2>1, GoesOn, Zenon DEF WriterPc, ReaderPc
    <3>2. refs' \in [Writers -> SUBSET Threads]
      BY <1>2, <2>1, Zenon DEF IInv, TypeInv
    <3>. QED
      BY <2>1, <3>1, <3>2 DEF IInv, TypeInv, PcTyped
  <2>3. OwnInv'
    BY <2>1 DEF IInv, OwnInv
  <2>4. TableInv'
    BY <2>1 DEF IInv, TableInv, Published
  <2>5. HandleInv'
    BY <2>1 DEF IInv, HandleInv, Published, Holding, Looking
  <2>6. RefInv'
    BY <2>1 DEF IInv, TypeInv, RefInv, Guarded, Holding, Looking
  <2>7. RemoveInv'
    BY <1>2, <2>1 DEF IInv, TypeInv, RemoveInv, OwnInv, HandleInv, Guarded, Holding, Looking,
       Threads, Published
  <2>8. MutexInv' /\ StoreInv'
    BY <2>1 DEF IInv, MutexInv, StoreInv, Guarded
  <2>9. ReadInv' /\ WrittenInv' /\ MeetInv' /\ DoneInv' /\ SnapshotStays'
    BY <2>1 DEF IInv, TypeInv, ReadInv, WrittenInv, MeetInv, DoneInv, SnapshotStays, Concerns
  <2>. QED
    BY <2>2, <2>3, <2>4, <2>5, <2>6, <2>7, <2>8, <2>9 DEF IInv
<1>. QED
  BY <1>1, <1>2

\* The entry removed is the one of the dead handle.
LEMMA RemoveStep ==
    ASSUME NEW p \in Threads, NEW next \in {"done", "check"},
           p \in Writers <=> next = "done", IInv, Remove(p, next)
    PROVE  IInv'
<1>. (p \in Writers /\ p \notin Readers) \/ (p \in Readers /\ p \notin Writers)
  BY Kinds
<1>1. TypeInv'
  BY KeyFacts DEF IInv, TypeInv, HandleInv, WriterPc, ReaderPc, Handles, Remove, Goto, engine,
     reading
<1>2. TableInv'
  BY DEF IInv, TypeInv, TableInv, RemoveInv, Handles, Published, Remove, Goto
<1>3. HandleInv'
  BY DEF IInv, HandleInv, Published, Remove, Goto
<1>4. RemoveInv'
  BY DEF IInv, TypeInv, RemoveInv, HandleInv, Remove, Goto
<1>5. OwnInv' /\ MutexInv' /\ StoreInv'
  BY DEF IInv, OwnInv, MutexInv, StoreInv, Published, Guarded, Remove, Goto
<1>6. RefInv'
  BY DEF IInv, RefInv, Guarded, Holding, Looking, Remove, Goto
<1>7. ReadInv' /\ WrittenInv' /\ MeetInv' /\ DoneInv' /\ SnapshotStays'
  BY DEF IInv, TypeInv, ReadInv, WrittenInv, MeetInv, DoneInv, SnapshotStays, Concerns, Remove,
     Goto, engine, reading
<1>. QED
  BY <1>1, <1>2, <1>3, <1>4, <1>5, <1>6, <1>7 DEF IInv

-----------------------------------------------------------------------------
(* The theorems.                                                            *)

\* The invariant holds before any thread starts.
LEMMA InitInv == Init => IInv
<1>. SUFFICES ASSUME Init PROVE IInv
  OBVIOUS
<1>1. TypeInv
  BY ConstantsAssumption DEF Init, TypeInv, Handles, Threads, WriterPc, ReaderPc
<1>2. OwnInv /\ TableInv /\ HandleInv /\ RefInv /\ RemoveInv /\ MutexInv /\ StoreInv
  BY ConstantsAssumption DEF Init, OwnInv, TableInv, HandleInv, RefInv, RemoveInv, MutexInv,
     StoreInv, Guarded, Holding, Looking, Threads
<1>3. ReadInv /\ WrittenInv /\ MeetInv /\ DoneInv /\ SnapshotStays
  BY ConstantsAssumption DEF Init, ReadInv, WrittenInv, MeetInv, DoneInv, SnapshotStays, Threads
<1>. QED
  BY <1>1, <1>2, <1>3 DEF IInv

\* Nothing in it changes when nothing changes.
LEMMA StutterStep == IInv /\ UNCHANGED vars => IInv'
<1>. SUFFICES ASSUME IInv, UNCHANGED vars PROVE IInv'
  OBVIOUS
<1>. USE DEF IInv, vars, manager, engine, reading
<1>1. TypeInv' /\ OwnInv' /\ MutexInv' /\ StoreInv'
  BY DEF TypeInv, OwnInv, MutexInv, StoreInv
<1>2. TableInv' /\ HandleInv' /\ RefInv' /\ RemoveInv'
  BY DEF TableInv, HandleInv, RefInv, RemoveInv, Published
<1>3. ReadInv' /\ WrittenInv' /\ MeetInv' /\ DoneInv' /\ SnapshotStays'
  BY Zenon DEF ReadInv, WrittenInv, MeetInv, DoneInv, SnapshotStays, Concerns
<1>. QED
  BY <1>1, <1>2, <1>3

\* IInv is kept by every step of every prewrite and read.
LEMMA NextStep == IInv /\ [Next]_vars => IInv'
<1>. SUFFICES ASSUME IInv, [Next]_vars PROVE IInv'
  OBVIOUS
<1>1. ASSUME NEW w \in Writers, WriterNext(w) PROVE IInv'
  <2>. w \in Threads
    BY DEF Threads
  <2>. QED
    BY <1>1, CreateHandleStep, GetOrInsertStep, SetTableStep, UpgradeToLockStep, LockHandleStep,
       CalculateStep, StoreLockStep, ApplyWriteStep, ClearLockStep, UnlockHandleStep, ReleaseStep,
       RemoveStep DEF WriterNext
<1>2. ASSUME NEW r \in Readers, ReaderNext(r) PROVE IInv'
  <2>. r \in Threads /\ r \notin Writers
    BY ConstantsAssumption DEF Threads
  <2>. QED
    BY <1>2, UpdateMaxTsStep, UpgradeToCheckStep, LookAtLockStep, ReportLockStep,
       TakeSnapshotStep, GetEntryStep, ReleaseStep, RemoveStep DEF ReaderNext
<1>. QED
  BY <1>1, <1>2, CommitLockStep, StutterStep DEF Next

\* The inductive invariant holds in every behaviour.
THEOREM Inductive == Spec => []IInv
BY InitInv, NextStep, PTL DEF Spec

\* Two prewrites never have the guard of a key at the same time (LockTable::lock_key),
\* whatever the number of keys, prewrites and reads.
THEOREM GuardsExclude == Spec => []GuardExclusive
<1>1. IInv => GuardExclusive
  <2>. SUFFICES ASSUME IInv, NEW v \in Writers, NEW w \in Writers, v # w, KeyOf[v] = KeyOf[w],
                       HasGuard(v), HasGuard(w)
                PROVE  FALSE
    BY DEF GuardExclusive
  <2>. DEFINE Own(p) == IF pc[p] = "bind" THEN p ELSE handle[p]
  <2>1. ASSUME NEW p \in Writers, HasGuard(p)
        PROVE  Own(p) \in Writers /\ mutex[Own(p)] = p /\ table[KeyOf[p]] = Own(p)
    BY DEF IInv, OwnInv, TableInv, HandleInv, RefInv, MutexInv, HasGuard, Guarded, Holding,
       Published
  <2>. QED
    BY <2>1
<1>. QED
  BY <1>1, Inductive, PTL

\* The handle of a guard stays in the table, alive: a reader of the key finds it, and
\* LockTable::remove, which removes by key, never removes it for another handle.
THEOREM GuardsVisible == Spec => []GuardVisible
<1>1. IInv => GuardVisible
  BY DEF IInv, TableInv, HandleInv, RefInv, GuardVisible, HasGuard, Guarded, Holding
<1>. QED
  BY <1>1, Inductive, PTL

\* The owner of a handle's mutex keeps the handle alive (the 'static guard of
\* KeyHandle::lock).
THEOREM MutexesInLiveHandles == Spec => []MutexInLiveHandle
<1>1. IInv => MutexInLiveHandle
  BY DEF IInv, TypeInv, OwnInv, RefInv, MutexInv, MutexInLiveHandle, Handles, Holding
<1>. QED
  BY <1>1, Inductive, PTL

\* No prewrite commits at or below the timestamp of a read that did not see it: update_max_ts
\* before the check of the memory locks, and the calculation of min_commit_ts under the mutex
\* of lock_store, are enough for any number of prewrites and reads.
THEOREM SnapshotsStay == Spec => []SnapshotStays
<1>1. IInv => SnapshotStays
  BY DEF IInv
<1>. QED
  BY <1>1, Inductive, PTL
=============================================================================
