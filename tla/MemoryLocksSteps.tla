------------------------- MODULE MemoryLocksSteps --------------------------
(***************************************************************************)
(* The inductive invariant of MemoryLocks, and the proof that the steps of *)
(* prewrites keep it, for any number of keys, prewrites and reads.         *)
(***************************************************************************)
EXTENDS MemoryLocks, TLAPS


-----------------------------------------------------------------------------
(* The inductive invariant.                                                 *)

WriterPc == {"create", "insert", "bind", "upgrade", "lock", "calculate", "store", "write", "clear",
             "unlock", "release", "remove", "done"}
ReaderPc == {"update", "check", "upgrade", "look", "release", "remove", "blocked", "done"}

Handles == Writers \cup {NoHandle}

TypeInv ==
    /\ maxTs \in Nat
    /\ table \in [Keys -> Handles]
    /\ refs \in [Writers -> SUBSET Threads]
    /\ bound \in [Writers -> BOOLEAN]
    /\ mutex \in [Writers -> Handles] /\ storeMutex \in [Writers -> Handles]
    /\ lockStore \in [Writers -> Handles]
    /\ pc \in [Threads -> WriterPc \cup ReaderPc]
    /\ \A w \in Writers : pc[w] \in WriterPc
    /\ \A r \in Readers : pc[r] \in ReaderPc
    /\ handle \in [Threads -> Handles]
    /\ commitTs \in [Writers -> Nat]
    /\ locked \subseteq Writers /\ committed \subseteq Writers
    /\ todo \in [Readers -> SUBSET Keys]
    /\ met \in [Readers -> BOOLEAN]
    /\ seen \in [Readers -> SUBSET Writers]

\* The steps of a writer at which it has the mutex of handle[w], and at which it has a
\* reference to it. A reader has a reference at two of its steps.
Guarded == {"calculate", "store", "write", "clear", "unlock"}
Holding == Guarded \cup {"lock", "release"}
Looking == {"look", "release"}

\* The handle is, or has been, in the table.
Published(h) == bound[h] \/ pc[h] = "bind"

\* A handle belongs to its creator until it is in the table.
OwnInv ==
    \A h \in Writers :
        /\ pc[h] \in {"create", "insert", "bind", "upgrade", "lock"} => ~bound[h]
        /\ pc[h] = "insert" => refs[h] = {h} /\ mutex[h] = h
        /\ pc[h] = "bind" => h \in refs[h] /\ mutex[h] = h
        /\ ~bound[h] /\ pc[h] \notin {"insert", "bind"} => refs[h] = {} /\ mutex[h] = NoHandle

\* Entries are under the key of their handle, and a live handle is in the table.
TableInv ==
    /\ \A k \in Keys : table[k] # NoHandle => KeyOf[table[k]] = k /\ Published(table[k])
    /\ \A h \in Writers : Published(h) /\ refs[h] # {} => table[KeyOf[h]] = h

\* The handle a thread works with.
HandleInv ==
    /\ \A w \in Writers : pc[w] \in Holding \cup {"upgrade", "remove"} =>
          handle[w] \in Writers /\ KeyOf[handle[w]] = KeyOf[w] /\ Published(handle[w])
    /\ \A r \in Readers : pc[r] \in Looking \cup {"upgrade", "remove"} =>
          handle[r] \in Writers /\ Published(handle[r])

\* The references are those of the threads' steps.
RefInv ==
    /\ \A w \in Writers : pc[w] \in Holding => w \in refs[handle[w]]
    /\ \A r \in Readers : pc[r] \in Looking => r \in refs[handle[r]]
    /\ \A h, w \in Writers : w \in refs[h] =>
          \/ h = w /\ pc[w] \in {"insert", "bind"}
          \/ handle[w] = h /\ pc[w] \in Holding
    /\ \A h \in Writers, r \in Readers : r \in refs[h] => handle[r] = h /\ pc[r] \in Looking

\* Whoever removes a key removes a dead handle, and nobody else removes it.
RemoveInv ==
    /\ \A p \in Threads : pc[p] = "remove" =>
          /\ refs[handle[p]] = {} /\ bound[handle[p]]
          /\ table[KeyOf[handle[p]]] = handle[p]
    /\ \A p, q \in Threads : pc[p] = "remove" /\ pc[q] = "remove" /\ p # q => handle[p] # handle[q]

MutexInv ==
    /\ \A w \in Writers : pc[w] \in Guarded => mutex[handle[w]] = w
    /\ \A h, w \in Writers : mutex[h] = w =>
          \/ h = w /\ pc[w] \in {"insert", "bind"}
          \/ handle[w] = h /\ pc[w] \in Guarded

\* The mutex of lock_store is taken in with_lock only; the lock in it is its guard's.
StoreInv ==
    /\ \A w \in Writers : pc[w] = "store" => storeMutex[handle[w]] = w
    /\ \A h, w \in Writers : storeMutex[h] = w => handle[w] = h /\ pc[w] = "store"
    /\ \A w \in Writers : pc[w] = "write" => lockStore[handle[w]] = w
    /\ \A h, w \in Writers : lockStore[h] = w => handle[w] = h /\ pc[w] \in {"write", "clear"}

ReadInv ==
    \A r \in Readers :
        /\ pc[r] = "update" => todo[r] = ReadKeys[r] /\ ~met[r]
        /\ pc[r] # "update" => ReadTs[r] <= maxTs
        /\ met[r] => pc[r] \in {"release", "remove", "check", "blocked"}
        /\ pc[r] = "done" => todo[r] = {}

\* Writer w commits, if it does, at a timestamp that reader r reads.
Concerns(w, r) == KeyOf[w] \in ReadKeys[r] /\ commitTs[w] <= ReadTs[r]

\* What is in the engine was written by a writer that is past its write.
WrittenInv ==
    \A w \in locked \cup committed : pc[w] \in {"clear", "unlock", "release", "remove", "done"}

\* A writer that will still write at or below the timestamp of a read is met by the reader.
MeetInv ==
    \A r \in Readers, w \in Writers :
        pc[r] \notin {"update", "blocked"} /\ pc[w] \in {"store", "write"} /\ Concerns(w, r) =>
            \/ KeyOf[w] \in todo[r]
            \/ met[r]
            \/ handle[r] = handle[w] /\ pc[r] \in {"upgrade", "look"}

\* No lock that a finished read would have to wait for is left.
DoneInv == \A r \in Readers : pc[r] = "done" => \A w \in locked : ~Concerns(w, r)

IInv ==
    /\ TypeInv /\ OwnInv /\ TableInv /\ HandleInv /\ RefInv /\ RemoveInv /\ MutexInv /\ StoreInv
    /\ ReadInv /\ WrittenInv /\ MeetInv /\ DoneInv /\ SnapshotStays

-----------------------------------------------------------------------------
(* The steps of prewrites keep the invariant.                               *)

\* What the constants are.
LEMMA KeyFacts ==
    /\ KeyOf \in [Writers -> Keys] /\ StartTs \in [Writers -> Nat]
    /\ ReadKeys \in [Readers -> SUBSET Keys] /\ ReadTs \in [Readers -> Nat]
    /\ NoHandle \notin Writers
BY ConstantsAssumption

\* No thread is both a prewrite and a read.
LEMMA Kinds ==
    /\ \A w \in Writers : w \in Threads /\ w \notin Readers
    /\ \A r \in Readers : r \in Threads /\ r \notin Writers
    /\ \A p \in Threads : p \in Writers \/ p \in Readers
BY ConstantsAssumption DEF Threads

\* The steps of a thread are steps of its kind.
PcTyped ==
    /\ pc \in [Threads -> WriterPc \cup ReaderPc]
    /\ \A w \in Writers : pc[w] \in WriterPc
    /\ \A r \in Readers : pc[r] \in ReaderPc

\* A thread that goes on to a step of its kind keeps the types.
LEMMA GoesOn ==
    ASSUME IInv, NEW p \in Threads, NEW to \in WriterPc \cup ReaderPc,
           p \in Writers => to \in WriterPc, p \in Readers => to \in ReaderPc,
           pc' = [pc EXCEPT ![p] = to]
    PROVE  PcTyped'
BY DEF IInv, TypeInv, PcTyped

\* The fresh handle is its creator's alone.
LEMMA CreateHandleStep ==
    ASSUME NEW w \in Writers, IInv, CreateHandle(w)
    PROVE  IInv'
<1>. w \in Threads /\ w \notin Readers
  BY Kinds
<1>1. TypeInv'
  BY DEF IInv, TypeInv, HandleInv, WriterPc, Handles, CreateHandle, Goto, engine, reading
<1>2. OwnInv'
  BY DEF IInv, TypeInv, OwnInv, CreateHandle, Goto
<1>3. TableInv'
  BY DEF IInv, TableInv, OwnInv, Published, CreateHandle, Goto
<1>4. HandleInv'
  BY DEF IInv, HandleInv, Published, Guarded, Holding, CreateHandle, Goto
<1>5. RefInv'
  BY KeyFacts DEF IInv, TypeInv, RefInv, OwnInv, HandleInv, Guarded, Holding, Handles,
     CreateHandle, Goto, reading
<1>6. RemoveInv'
  BY DEF IInv, RemoveInv, OwnInv, RefInv, Holding, Threads, CreateHandle, Goto
<1>7. MutexInv'
  BY KeyFacts DEF IInv, TypeInv, MutexInv, OwnInv, Guarded, Handles, Published, CreateHandle, Goto
<1>8. StoreInv'
  BY DEF IInv, StoreInv, CreateHandle, Goto
<1>9. ReadInv' /\ WrittenInv' /\ MeetInv' /\ DoneInv' /\ SnapshotStays'
  BY KeyFacts DEF IInv, ReadInv, WrittenInv, MeetInv, DoneInv, SnapshotStays, Concerns,
     CreateHandle, Goto, manager, engine, reading
<1>. QED
  BY <1>1, <1>2, <1>3, <1>4, <1>5, <1>6, <1>7, <1>8, <1>9 DEF IInv

\* The fresh handle is published with its mutex locked, or is dropped unseen.
LEMMA GetOrInsertStep ==
    ASSUME NEW w \in Writers, IInv, GetOrInsert(w)
    PROVE  IInv'
<1>. w \in Threads /\ w \notin Readers
  BY Kinds
<1>1. CASE table[KeyOf[w]] = NoHandle
  <2>1. /\ pc[w] = "insert" /\ pc' = [pc EXCEPT ![w] = "bind"]
        /\ table' = [table EXCEPT ![KeyOf[w]] = w]
        /\ UNCHANGED <<refs, mutex, handle>>
        /\ UNCHANGED <<maxTs, bound, storeMutex, lockStore, commitTs, locked, committed, todo,
                       met, seen>>
    BY <1>1 DEF GetOrInsert, Goto, engine, reading
  <2>2. TypeInv'
    BY <2>1, KeyFacts DEF IInv, TypeInv, WriterPc, Handles
  <2>3. OwnInv'
    BY <2>1 DEF IInv, OwnInv, Guarded, Holding, Looking
  <2>4. TableInv'
    BY <1>1, <2>1, KeyFacts DEF IInv, TypeInv, TableInv, Published
  <2>5. HandleInv'
    BY <2>1 DEF IInv, HandleInv, Published, Guarded, Holding
  <2>6. RefInv'
    BY <2>1 DEF IInv, RefInv, Guarded, Holding
  <2>7. RemoveInv'
    BY <1>1, <2>1, KeyFacts DEF IInv, TypeInv, RemoveInv, HandleInv, Threads
  <2>8. MutexInv'
    BY <2>1 DEF IInv, MutexInv, OwnInv, Guarded
  <2>9. StoreInv'
    BY <2>1 DEF IInv, StoreInv
  <2>10. ReadInv' /\ WrittenInv' /\ MeetInv' /\ DoneInv' /\ SnapshotStays'
    BY <1>1, <2>1, KeyFacts DEF IInv, ReadInv, WrittenInv, MeetInv, DoneInv, SnapshotStays,
       Concerns
  <2>. QED
    BY <2>2, <2>3, <2>4, <2>5, <2>6, <2>7, <2>8, <2>9, <2>10 DEF IInv
<1>2. CASE table[KeyOf[w]] # NoHandle
  <2>1. /\ pc[w] = "insert" /\ pc' = [pc EXCEPT ![w] = "upgrade"]
        /\ handle' = [handle EXCEPT ![w] = table[KeyOf[w]]]
        /\ refs' = [refs EXCEPT ![w] = {}]
        /\ mutex' = [mutex EXCEPT ![w] = NoHandle]
        /\ UNCHANGED table
        /\ UNCHANGED <<maxTs, bound, storeMutex, lockStore, commitTs, locked, committed, todo,
                       met, seen>>
    BY <1>2 DEF GetOrInsert, Goto, engine, reading
  <2>2. table[KeyOf[w]] \in Writers /\ KeyOf[table[KeyOf[w]]] = KeyOf[w] /\ Published(table[KeyOf[w]])
    BY <1>2, KeyFacts DEF IInv, TypeInv, TableInv, Handles
  <2>3. TypeInv'
    BY <2>1, <2>2 DEF IInv, TypeInv, WriterPc, Handles
  <2>4. OwnInv'
    BY <2>1 DEF IInv, TypeInv, OwnInv
  <2>5. TableInv'
    BY <2>1 DEF IInv, TableInv, Published
  <2>6. HandleInv'
    BY <1>2, <2>1, <2>2, KeyFacts DEF IInv, TypeInv, HandleInv, Published, Guarded, Holding,
       Threads
  <2>7. RefInv'
    BY <2>1 DEF IInv, TypeInv, RefInv, OwnInv, Guarded, Holding, Looking
  <2>8. RemoveInv'
    BY <1>2, <2>1 DEF IInv, TypeInv, RemoveInv, TableInv, OwnInv, RefInv, HandleInv, Guarded,
       Holding, Looking
  <2>9. MutexInv'
    BY <1>2, <2>1, KeyFacts DEF IInv, TypeInv, MutexInv, OwnInv, HandleInv, Guarded, Holding,
       Threads, Handles, Published
  <2>10. StoreInv'
    BY <2>1 DEF IInv, StoreInv
  <2>11. ReadInv' /\ WrittenInv' /\ MeetInv' /\ DoneInv' /\ SnapshotStays'
    BY <1>2, <2>1 DEF IInv, ReadInv, WrittenInv, MeetInv, DoneInv, SnapshotStays, Concerns
  <2>. QED
    BY <2>3, <2>4, <2>5, <2>6, <2>7, <2>8, <2>9, <2>10, <2>11 DEF IInv
<1>. QED
  BY <1>1, <1>2

\* The creator of the handle in the table has its guard.
LEMMA SetTableStep ==
    ASSUME NEW w \in Writers, IInv, SetTable(w)
    PROVE  IInv'
<1>. w \in Threads /\ w \notin Readers
  BY Kinds
<1>1. TypeInv'
  BY DEF IInv, TypeInv, WriterPc, ReaderPc, Handles, SetTable, Goto, engine, reading
<1>2. OwnInv'
  BY DEF IInv, TypeInv, OwnInv, SetTable, Goto
<1>3. TableInv'
  BY KeyFacts DEF IInv, TypeInv, TableInv, Published, SetTable, Goto
<1>4. HandleInv'
  BY DEF IInv, TypeInv, HandleInv, Published, Threads, SetTable, Goto
<1>5. RefInv'
  BY DEF IInv, TypeInv, RefInv, OwnInv, Guarded, Holding, SetTable, Goto
<1>6. RemoveInv'
  BY DEF IInv, TypeInv, RemoveInv, OwnInv, HandleInv, Holding, SetTable, Goto
<1>7. MutexInv'
  BY DEF IInv, TypeInv, MutexInv, OwnInv, Guarded, SetTable, Goto
<1>8. StoreInv'
  BY DEF IInv, StoreInv, SetTable, Goto
<1>9. ReadInv' /\ WrittenInv' /\ MeetInv' /\ DoneInv' /\ SnapshotStays'
  BY DEF IInv, ReadInv, WrittenInv, MeetInv, DoneInv, SnapshotStays, Concerns, SetTable, Goto,
     engine, reading
<1>. QED
  BY <1>1, <1>2, <1>3, <1>4, <1>5, <1>6, <1>7, <1>8, <1>9 DEF IInv

\* Only a live handle gets a reference more.
LEMMA UpgradeToLockStep ==
    ASSUME NEW w \in Writers, IInv, UpgradeToLock(w)
    PROVE  IInv'
<1>. w \in Threads /\ w \notin Readers
  BY Kinds
<1>1. CASE refs[handle[w]] # {}
  <2>1. /\ pc[w] = "upgrade" /\ pc' = [pc EXCEPT ![w] = "lock"]
        /\ refs' = [refs EXCEPT ![handle[w]] = @ \cup {w}]
        /\ UNCHANGED <<maxTs, table, bound, mutex, storeMutex, lockStore, handle, commitTs,
                       locked, committed, todo, met, seen>>
    BY <1>1 DEF UpgradeToLock, Goto, engine, reading
  <2>2. TypeInv'
    BY <2>1 DEF IInv, TypeInv, HandleInv, WriterPc
  <2>3. OwnInv'
    BY <2>1 DEF IInv, OwnInv, HandleInv, Published
  <2>4. TableInv'
    BY <1>1, <2>1 DEF IInv, TableInv, Published
  <2>5. HandleInv'
    BY <2>1 DEF IInv, HandleInv, Published
  <2>6. RefInv'
    BY <2>1 DEF IInv, TypeInv, RefInv, OwnInv, HandleInv, Guarded, Holding
  <2>7. RemoveInv'
    BY <1>1, <2>1, KeyFacts DEF IInv, RemoveInv, OwnInv, HandleInv, Guarded, Holding, Threads
  <2>8. MeetInv'
    BY <2>1 DEF IInv, MeetInv, Concerns
  <2>9. MutexInv' /\ StoreInv'
    BY <2>1 DEF IInv, MutexInv, StoreInv, Guarded
  <2>10. ReadInv' /\ WrittenInv' /\ DoneInv' /\ SnapshotStays'
    BY <2>1 DEF IInv, ReadInv, WrittenInv, DoneInv, SnapshotStays, Concerns
  <2>. QED
    BY <2>2, <2>3, <2>4, <2>5, <2>6, <2>7, <2>8, <2>9, <2>10 DEF IInv
<1>2. CASE refs[handle[w]] = {}
  <2>1. /\ pc[w] = "upgrade" /\ pc' = [pc EXCEPT ![w] = "create"]
        /\ UNCHANGED refs
        /\ UNCHANGED <<maxTs, table, bound, mutex, storeMutex, lockStore, handle, commitTs,
                       locked, committed, todo, met, seen>>
    BY <1>2 DEF UpgradeToLock, Goto, engine, reading
  <2>2. TypeInv'
    BY <2>1 DEF IInv, TypeInv, WriterPc, ReaderPc
  <2>3. OwnInv'
    BY <2>1 DEF IInv, OwnInv
  <2>4. TableInv'
    BY <2>1 DEF IInv, TableInv, Handles, Published
  <2>5. HandleInv'
    BY <1>2, <2>1 DEF IInv, HandleInv, Published
  <2>6. RefInv'
    BY <2>1 DEF IInv, RefInv, Guarded, Holding
  <2>7. RemoveInv'
    BY <2>1 DEF IInv, TypeInv, RemoveInv
  <2>8. MeetInv'
    BY <2>1 DEF IInv, MeetInv, Concerns
  <2>9. MutexInv' /\ StoreInv'
    BY <2>1 DEF IInv, MutexInv, StoreInv, Guarded, Threads
  <2>10. ReadInv' /\ WrittenInv' /\ DoneInv' /\ SnapshotStays'
    BY <1>2, <2>1 DEF IInv, ReadInv, WrittenInv, DoneInv, SnapshotStays, Concerns
  <2>. QED
    BY <2>2, <2>3, <2>4, <2>5, <2>6, <2>7, <2>8, <2>9, <2>10 DEF IInv
<1>. QED
  BY <1>1, <1>2

\* The owner of the mutex has a reference to the handle.
LEMMA LockHandleStep ==
    ASSUME NEW w \in Writers, IInv, LockHandle(w)
    PROVE  IInv'
<1>. w \in Threads /\ w \notin Readers
  BY Kinds
<1>1. TypeInv'
  <2>1. PcTyped'
    BY GoesOn, Zenon DEF LockHandle, Goto, WriterPc
  <2>2. mutex' \in [Writers -> Handles]
    BY Zenon DEF IInv, TypeInv, Handles, LockHandle
  <2>. QED
    BY <2>1, <2>2 DEF IInv, TypeInv, PcTyped, LockHandle, manager, engine, reading
<1>2. OwnInv'
  BY KeyFacts DEF IInv, OwnInv, RefInv, Guarded, Holding, Looking, Threads, LockHandle, Goto,
     manager, engine, reading
<1>3. HandleInv'
  BY DEF IInv, HandleInv, Published, Holding, Looking, Threads, LockHandle, Goto
<1>4. RefInv'
  BY DEF IInv, RefInv, Guarded, Holding, LockHandle, Goto, manager
<1>5. MutexInv'
  BY KeyFacts DEF IInv, TypeInv, MutexInv, HandleInv, Guarded, Holding, Threads, Handles,
     LockHandle, Goto
<1>6. StoreInv'
  BY DEF IInv, StoreInv, LockHandle, Goto
<1>7. TableInv'
  BY DEF IInv, TableInv, Published, LockHandle, Goto
<1>8. RemoveInv'
  BY DEF IInv, RemoveInv, Threads, Handles, LockHandle, Goto
<1>9. ReadInv' /\ WrittenInv' /\ MeetInv' /\ DoneInv' /\ SnapshotStays'
  BY KeyFacts DEF IInv, ReadInv, WrittenInv, MeetInv, DoneInv, SnapshotStays, Concerns,
     LockHandle, Goto, manager, engine, reading
<1>. QED
  BY <1>1, <1>2, <1>3, <1>4, <1>5, <1>6, <1>7, <1>8, <1>9 DEF IInv

\* The timestamp calculated is above every read that has raised max_ts.
LEMMA CalculateStep ==
    ASSUME NEW w \in Writers, IInv, Calculate(w)
    PROVE  IInv'
<1>. w \in Threads /\ w \notin Readers
  BY Kinds
<1>. DEFINE ts == (IF maxTs > StartTs[w] THEN maxTs ELSE StartTs[w]) + 1
<1>1. ts \in Nat /\ ts > maxTs
  BY KeyFacts DEF IInv, TypeInv
<1>. HIDE DEF ts
<1>2. /\ pc[w] = "calculate" /\ pc' = [pc EXCEPT ![w] = "store"]
      /\ storeMutex[handle[w]] = NoHandle
      /\ storeMutex' = [storeMutex EXCEPT ![handle[w]] = w]
      /\ commitTs' = [commitTs EXCEPT ![w] = ts]
      /\ UNCHANGED <<maxTs, table, refs, bound, mutex, lockStore, handle, locked, committed,
                     todo, met, seen>>
  BY DEF Calculate, Goto, engine, reading, ts
<1>3. TypeInv'
  <2>1. PcTyped'
    BY <1>1, <1>2, GoesOn, Zenon DEF WriterPc, ReaderPc
  <2>2. storeMutex' \in [Writers -> Handles]
    BY <1>1, <1>2, Zenon DEF IInv, TypeInv, Handles
  <2>3. commitTs' \in [Writers -> Nat]
    BY <1>1, <1>2 DEF IInv, TypeInv
  <2>. QED
    BY <1>2, <2>1, <2>2, <2>3 DEF IInv, TypeInv, PcTyped
<1>4. StoreInv'
  BY <1>1, <1>2, KeyFacts DEF IInv, TypeInv, StoreInv, MutexInv, HandleInv, Guarded, Holding,
     Threads, Published
<1>5. MeetInv'
  BY <1>1, <1>2, KeyFacts DEF IInv, TypeInv, MeetInv, ReadInv, TableInv, HandleInv, RefInv,
     StoreInv, Concerns
<1>6. SnapshotStays'
  BY <1>2 DEF IInv, WrittenInv, SnapshotStays
<1>7. OwnInv' /\ MutexInv'
  BY <1>2, KeyFacts DEF IInv, OwnInv, MutexInv, Handles, Published, Guarded
<1>8. TableInv'
  BY <1>2 DEF IInv, TableInv, Published, Holding
<1>9. HandleInv' /\ RefInv'
  BY <1>2 DEF IInv, TypeInv, HandleInv, RefInv, Published, Guarded, Holding, Threads
<1>10. RemoveInv'
  BY <1>1, <1>2, KeyFacts DEF IInv, RemoveInv
<1>11. ReadInv' /\ WrittenInv' /\ DoneInv'
  BY <1>2 DEF IInv, ReadInv, WrittenInv, DoneInv, Concerns
<1>. QED
  BY <1>3, <1>4, <1>5, <1>6, <1>7, <1>8, <1>9, <1>10, <1>11 DEF IInv

\* The lock is in lock_store when the mutex of lock_store is released.
LEMMA StoreLockStep ==
    ASSUME NEW w \in Writers, IInv, StoreLock(w)
    PROVE  IInv'
<1>. w \in Threads /\ w \notin Readers
  BY Kinds
<1>1. CASE Goto(w, "store", "write") /\ lockStore' = [lockStore EXCEPT ![handle[w]] = w]
  <2>1. TypeInv'
    <3>1. PcTyped'
      BY <1>1, GoesOn, Zenon DEF StoreLock, Goto, WriterPc
    <3>2. storeMutex' \in [Writers -> Handles]
      BY <1>1, Zenon DEF IInv, TypeInv, Handles, StoreLock
    <3>3. lockStore' \in [Writers -> Handles]
      BY <1>1, Zenon DEF IInv, TypeInv, Handles, StoreLock
    <3>. QED
      BY <1>1, <3>1, <3>2, <3>3 DEF IInv, TypeInv, PcTyped, StoreLock, manager, engine, reading
  <2>2. StoreInv'
    BY <1>1, KeyFacts DEF IInv, TypeInv, StoreInv, MutexInv, HandleInv, Guarded, Holding,
       StoreLock, Goto
  <2>3. MeetInv'
    BY <1>1, KeyFacts DEF IInv, MeetInv, Concerns, StoreLock, Goto, manager, reading
  <2>4. OwnInv' /\ MutexInv'
    BY <1>1 DEF IInv, OwnInv, MutexInv, Handles, Guarded, StoreLock, Goto
  <2>5. TableInv'
    BY <1>1 DEF IInv, TypeInv, TableInv, Published, Guarded, StoreLock, Goto
  <2>6. HandleInv' /\ RefInv'
    BY <1>1 DEF IInv, HandleInv, RefInv, Handles, Published, Guarded, Holding, Looking, Threads,
       StoreLock, Goto, manager
  <2>7. RemoveInv'
    BY <1>1, KeyFacts DEF IInv, RemoveInv, Looking, Threads, Published, Handles, StoreLock, Goto,
       manager, engine, reading
  <2>8. ReadInv' /\ WrittenInv' /\ DoneInv' /\ SnapshotStays'
    BY <1>1, KeyFacts DEF IInv, TypeInv, ReadInv, WrittenInv, DoneInv, SnapshotStays, Threads,
       Concerns, StoreLock, Goto, manager, engine, reading
  <2>. QED
    BY <2>1, <2>2, <2>3, <2>4, <2>5, <2>6, <2>7, <2>8 DEF IInv
<1>2. CASE Goto(w, "store", "clear") /\ UNCHANGED lockStore
  <2>1. TypeInv'
    <3>1. PcTyped'
      BY <1>2, GoesOn, Zenon DEF StoreLock, Goto, WriterPc
    <3>2. storeMutex' \in [Writers -> Handles]
      BY <1>2, Zenon DEF IInv, TypeInv, Handles, StoreLock
    <3>3. lockStore' \in [Writers -> Handles]
      BY <1>2 DEF IInv, TypeInv, Handles, StoreLock
    <3>. QED
      BY <1>2, <3>1, <3>2, <3>3 DEF IInv, TypeInv, PcTyped, StoreLock, manager, engine, reading
  <2>2. StoreInv'
    BY <1>2, KeyFacts DEF IInv, TypeInv, StoreInv, StoreLock, Goto
  <2>3. MeetInv'
    BY <1>2, KeyFacts DEF IInv, MeetInv, Threads, Concerns, StoreLock, Goto, manager, reading
  <2>4. OwnInv' /\ MutexInv'
    BY <1>2 DEF IInv, TypeInv, OwnInv, MutexInv, Handles, Guarded, StoreLock, Goto
  <2>5. TableInv'
    BY <1>2 DEF IInv, TableInv, Published, StoreLock, Goto, engine, reading
  <2>6. HandleInv' /\ RefInv'
    BY <1>2, KeyFacts DEF IInv, HandleInv, RefInv, Published, Guarded, Holding, Looking, Threads,
       StoreLock, Goto, manager, engine, reading
  <2>7. RemoveInv'
    BY <1>2 DEF IInv, RemoveInv, Looking, Threads, Published, Handles, StoreLock, Goto
  <2>8. ReadInv' /\ WrittenInv' /\ DoneInv' /\ SnapshotStays'
    BY <1>2 DEF IInv, ReadInv, WrittenInv, DoneInv, SnapshotStays, Concerns, StoreLock, Goto,
       engine, reading
  <2>. QED
    BY <2>1, <2>2, <2>3, <2>4, <2>5, <2>6, <2>7, <2>8 DEF IInv
<1>. QED
  BY <1>1, <1>2 DEF StoreLock

\* What is written is seen in memory by every read that is below it.
LEMMA ApplyWriteStep ==
    ASSUME NEW w \in Writers, IInv, ApplyWrite(w)
    PROVE  IInv'
<1>. w \in Threads /\ w \notin Readers
  BY Kinds
<1>1. CASE locked' = locked \cup {w} /\ UNCHANGED committed
  <2>1. TypeInv'
    BY <1>1 DEF IInv, TypeInv, WriterPc, ReaderPc, Handles, ApplyWrite, Goto, manager, reading
  <2>2. StoreInv'
    BY DEF IInv, StoreInv, Handles, Published, ApplyWrite, Goto, manager, engine, reading
  <2>3. WrittenInv'
    BY <1>1 DEF IInv, TypeInv, WrittenInv, Threads, ApplyWrite, Goto
  <2>4. MeetInv'
    BY DEF IInv, TypeInv, MeetInv, Concerns, ApplyWrite, Goto, reading
  <2>5. DoneInv'
    BY <1>1 DEF IInv, DoneInv, MeetInv, ReadInv, Concerns, ApplyWrite, Goto
  <2>6. SnapshotStays'
    BY <1>1 DEF IInv, SnapshotStays, Threads, Concerns, ApplyWrite, Goto, reading
  <2>7. OwnInv' /\ MutexInv'
    BY <1>1 DEF IInv, OwnInv, MutexInv, Guarded, ApplyWrite, Goto, manager, engine, reading
  <2>8. TableInv'
    BY <1>1, KeyFacts DEF IInv, TableInv, Published, ApplyWrite, Goto, manager, engine, reading
  <2>9. HandleInv' /\ RefInv'
    BY DEF IInv, HandleInv, RefInv, Published, Guarded, Holding, Looking, ApplyWrite, Goto,
       manager, engine
  <2>10. RemoveInv'
    BY DEF IInv, RemoveInv, Threads, ApplyWrite, Goto, manager
  <2>11. ReadInv'
    BY DEF IInv, ReadInv, ApplyWrite, Goto, manager, reading
  <2>. QED
    BY <2>1, <2>2, <2>3, <2>4, <2>5, <2>6, <2>7, <2>8, <2>9, <2>10, <2>11 DEF IInv
<1>2. CASE committed' = committed \cup {w} /\ UNCHANGED locked
  <2>1. TypeInv'
    BY <1>2, KeyFacts DEF IInv, TypeInv, HandleInv, WriterPc, ReaderPc, Handles, Threads,
       ApplyWrite, Goto, manager, reading
  <2>2. StoreInv'
    BY DEF IInv, StoreInv, ApplyWrite, Goto, manager
  <2>3. WrittenInv'
    BY <1>2 DEF IInv, TypeInv, WrittenInv, ApplyWrite, Goto, manager, reading
  <2>4. MeetInv'
    BY <1>2, KeyFacts DEF IInv, MeetInv, Threads, Concerns, ApplyWrite, Goto, reading
  <2>5. DoneInv'
    BY <1>2 DEF IInv, DoneInv, Concerns, ApplyWrite, Goto
  <2>6. SnapshotStays'
    <3>1. \A r \in Readers : pc[r] = "done" => ~Concerns(w, r)
      BY DEF IInv, MeetInv, ReadInv, ApplyWrite, Goto
    <3>. QED
      BY <1>2, <3>1 DEF IInv, SnapshotStays, Concerns, ApplyWrite, Goto, reading
  <2>7. OwnInv' /\ MutexInv'
    BY <1>2 DEF IInv, TypeInv, OwnInv, MutexInv, Guarded, ApplyWrite, Goto, manager
  <2>8. TableInv'
    BY DEF IInv, TableInv, Handles, Published, ApplyWrite, Goto, manager
  <2>9. HandleInv' /\ RefInv'
    BY DEF IInv, TypeInv, HandleInv, RefInv, Handles, Published, Guarded, Holding, Threads,
       ApplyWrite, Goto, manager, engine
  <2>10. RemoveInv'
    BY <1>2 DEF IInv, RemoveInv, Threads, ApplyWrite, Goto, manager, engine, reading
  <2>11. ReadInv'
    BY DEF IInv, ReadInv, ApplyWrite, Goto, manager, reading
  <2>. QED
    BY <2>1, <2>2, <2>3, <2>4, <2>5, <2>6, <2>7, <2>8, <2>9, <2>10, <2>11 DEF IInv
<1>3. CASE UNCHANGED engine
  <2>1. TypeInv'
    BY DEF IInv, TypeInv, WriterPc, ReaderPc, ApplyWrite, Goto, manager, engine, reading
  <2>2. StoreInv'
    BY DEF IInv, StoreInv, Holding, Threads, Handles, ApplyWrite, Goto, manager
  <2>3. WrittenInv'
    BY <1>3 DEF IInv, WrittenInv, ApplyWrite, Goto, engine
  <2>4. MeetInv'
    BY DEF IInv, MeetInv, ReadInv, TableInv, HandleInv, RefInv, StoreInv, Threads, Concerns,
       ApplyWrite, Goto, reading
  <2>5. DoneInv'
    BY <1>3 DEF IInv, DoneInv, Concerns, ApplyWrite, Goto, engine
  <2>6. SnapshotStays'
    BY <1>3 DEF IInv, SnapshotStays, ApplyWrite, Goto, engine, reading
  <2>7. OwnInv' /\ MutexInv'
    BY DEF IInv, OwnInv, MutexInv, Guarded, ApplyWrite, Goto, manager, reading
  <2>8. TableInv'
    BY DEF IInv, TableInv, Published, ApplyWrite, Goto, manager
  <2>9. HandleInv' /\ RefInv'
    BY DEF IInv, TypeInv, HandleInv, RefInv, Handles, Published, Guarded, Holding, ApplyWrite,
       Goto, manager
  <2>10. RemoveInv'
    BY DEF IInv, RemoveInv, Looking, Threads, Published, Handles, ApplyWrite, Goto, manager
  <2>11. ReadInv'
    BY DEF IInv, ReadInv, ApplyWrite, Goto, manager, reading
  <2>. QED
    BY <2>1, <2>2, <2>3, <2>4, <2>5, <2>6, <2>7, <2>8, <2>9, <2>10, <2>11 DEF IInv
<1>. QED
  BY <1>1, <1>2, <1>3 DEF ApplyWrite

\* The lock leaves lock_store after the write.
LEMMA ClearLockStep ==
    ASSUME NEW w \in Writers, IInv, ClearLock(w)
    PROVE  IInv'
<1>. w \in Threads /\ w \notin Readers
  BY Kinds
<1>1. TypeInv'
  <2>1. PcTyped'
    BY GoesOn, Zenon DEF ClearLock, Goto, WriterPc
  <2>2. lockStore' \in [Writers -> Handles]
    BY Zenon DEF IInv, TypeInv, Handles, ClearLock
  <2>. QED
    BY <2>1, <2>2 DEF IInv, TypeInv, PcTyped, ClearLock, manager, engine, reading
<1>2. StoreInv'
  BY KeyFacts DEF IInv, TypeInv, StoreInv, MutexInv, Guarded, Published, ClearLock, Goto, manager,
     engine, reading
<1>3. OwnInv' /\ MutexInv'
  BY DEF IInv, OwnInv, MutexInv, Handles, Guarded, ClearLock, Goto, manager
<1>4. TableInv'
  BY DEF IInv, TableInv, Published, ClearLock, Goto
<1>5. HandleInv' /\ RefInv'
  BY DEF IInv, HandleInv, RefInv, Published, Guarded, Holding, ClearLock, Goto, manager
<1>6. RemoveInv'
  BY DEF IInv, RemoveInv, Threads, ClearLock, Goto
<1>7. ReadInv' /\ WrittenInv' /\ MeetInv' /\ DoneInv' /\ SnapshotStays'
  BY DEF IInv, ReadInv, WrittenInv, MeetInv, DoneInv, SnapshotStays, Concerns, ClearLock, Goto,
     engine, reading
<1>. QED
  BY <1>1, <1>2, <1>3, <1>4, <1>5, <1>6, <1>7 DEF IInv

\* The mutex is released while the reference is still held.
LEMMA UnlockHandleStep ==
    ASSUME NEW w \in Writers, IInv, UnlockHandle(w)
    PROVE  IInv'
<1>. w \in Threads /\ w \notin Readers
  BY Kinds
<1>1. TypeInv'
  <2>1. PcTyped'
    BY GoesOn, Zenon DEF UnlockHandle, Goto, WriterPc
  <2>2. mutex' \in [Writers -> Handles]
    BY Zenon DEF IInv, TypeInv, Handles, UnlockHandle
  <2>. QED
    BY <2>1, <2>2 DEF IInv, TypeInv, PcTyped, UnlockHandle, manager, engine, reading
<1>2. OwnInv'
  BY DEF IInv, TypeInv, OwnInv, MutexInv, Guarded, UnlockHandle, Goto
<1>3. MutexInv'
  BY KeyFacts DEF IInv, TypeInv, MutexInv, HandleInv, Guarded, Handles, UnlockHandle, Goto,
     manager, engine, reading
<1>4. StoreInv'
  BY DEF IInv, StoreInv, UnlockHandle, Goto
<1>5. TableInv'
  BY DEF IInv, TableInv, Published, UnlockHandle, Goto
<1>6. HandleInv' /\ RefInv'
  BY DEF IInv, HandleInv, RefInv, Handles, Published, Guarded, Holding, Looking, Threads,
     UnlockHandle, Goto, manager, engine, reading
<1>7. RemoveInv'
  BY DEF IInv, RemoveInv, Guarded, Holding, Looking, UnlockHandle, Goto, manager
<1>8. ReadInv' /\ WrittenInv' /\ MeetInv' /\ DoneInv' /\ SnapshotStays'
  BY KeyFacts DEF IInv, TypeInv, ReadInv, WrittenInv, MeetInv, DoneInv, SnapshotStays, Threads,
     Concerns, UnlockHandle, Goto, manager, engine, reading
<1>. QED
  BY <1>1, <1>2, <1>3, <1>4, <1>5, <1>6, <1>7, <1>8 DEF IInv

\* A lock that a finished read did not wait for is not one of its commits.
LEMMA CommitLockStep ==
    ASSUME NEW w \in Writers, IInv, CommitLock(w)
    PROVE  IInv'
<1>. w \in Threads /\ w \notin Readers
  BY Kinds
<1>1. TypeInv'
  BY DEF IInv, TypeInv, CommitLock, manager, reading
<1>2. WrittenInv'
  BY DEF IInv, WrittenInv, CommitLock
<1>3. DoneInv'
  BY DEF IInv, DoneInv, Concerns, CommitLock, Goto, manager, engine
<1>4. SnapshotStays'
  BY DEF IInv, DoneInv, SnapshotStays, Concerns, CommitLock, reading
<1>5. OwnInv' /\ MutexInv' /\ StoreInv'
  BY DEF IInv, OwnInv, MutexInv, StoreInv, Published, CommitLock, Goto, manager
<1>6. TableInv'
  BY DEF IInv, TableInv, Handles, Published, Looking, CommitLock, manager
<1>7. HandleInv' /\ RefInv'
  BY DEF IInv, HandleInv, RefInv, Published, CommitLock, manager, engine, reading
<1>8. RemoveInv'
  BY DEF IInv, RemoveInv, CommitLock, manager
<1>9. ReadInv' /\ MeetInv'
  BY DEF IInv, ReadInv, MeetInv, Concerns, CommitLock, manager, reading
<1>. QED
  BY <1>1, <1>2, <1>3, <1>4, <1>5, <1>6, <1>7, <1>8, <1>9 DEF IInv
=============================================================================
