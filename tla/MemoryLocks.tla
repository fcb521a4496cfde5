---------------------------- MODULE MemoryLocks -----------------------------
(***************************************************************************)
(* The memory locks of one store (components/concurrency_manager) between  *)
(* the threads that use them: prewrites with async commit or 1PC, which    *)
(* calculate a commit timestamp from max_ts and publish their lock in      *)
(* memory until it is written, and snapshot reads, which raise max_ts and  *)
(* then look for memory locks before they take a snapshot.                 *)
(*                                                                         *)
(* One step of a thread is one access to memory it shares with others. The *)
(* lock table maps a key to a weak reference to a KeyHandle; the handle    *)
(* lives as long as some thread has a strong reference to it, and the      *)
(* thread that drops the last one removes the key from the table. A handle *)
(* is named after the writer that created it.                              *)
(***************************************************************************)
EXTENDS Integers, FiniteSets

CONSTANTS Keys,     \* the keys
          Writers,  \* the prewrites
          Readers,  \* the snapshot reads
          KeyOf,    \* KeyOf[w]: the key writer w locks
          StartTs,  \* StartTs[w]: its start_ts
          ReadKeys, \* ReadKeys[r]: the keys reader r reads
          ReadTs,   \* ReadTs[r]: its read timestamp
          NoHandle  \* no handle, or no thread

ASSUME ConstantsAssumption ==
    /\ KeyOf \in [Writers -> Keys] /\ StartTs \in [Writers -> Nat]
    /\ ReadKeys \in [Readers -> SUBSET Keys] /\ ReadTs \in [Readers -> Nat]
    /\ Writers \cap Readers = {} /\ NoHandle \notin Writers \cup Readers

Threads == Writers \cup Readers

VARIABLES maxTs,     \* ConcurrencyManager::max_ts
          table,     \* LockTable: [Keys -> weak reference to a handle, or NoHandle]
          refs,      \* [Writers -> the threads with a strong reference to the handle]
          bound,     \* [Writers -> KeyHandle::table is set]
          mutex,     \* [Writers -> the owner of KeyHandle::mutex]
          storeMutex,\* [Writers -> the owner of the mutex of KeyHandle::lock_store]
          lockStore, \* [Writers -> the writer whose lock is in lock_store]
          pc,        \* [Threads -> the next step of the thread]
          handle,    \* [Threads -> the handle the thread works with]
          commitTs,  \* [Writers -> the min_commit_ts calculated, 0 before]
          locked,    \* the writers whose lock is in the engine
          committed, \* the writers whose commit record is in the engine
          todo,      \* [Readers -> the keys whose memory lock is still to be checked]
          met,       \* [Readers -> a lock that blocks the read was met]
          seen       \* [Readers -> the commits its snapshot shows]

manager == <<maxTs, table, refs, bound, mutex, storeMutex, lockStore>>
engine == <<locked, committed>>
reading == <<todo, met, seen>>
vars == <<manager, pc, handle, commitTs, engine, reading>>

Init ==
    /\ maxTs = 0
    /\ table = [k \in Keys |-> NoHandle]
    /\ refs = [w \in Writers |-> {}]
    /\ bound = [w \in Writers |-> FALSE]
    /\ mutex = [w \in Writers |-> NoHandle]
    /\ storeMutex = [w \in Writers |-> NoHandle]
    /\ lockStore = [w \in Writers |-> NoHandle]
    /\ pc = [p \in Threads |-> IF p \in Writers THEN "create" ELSE "update"]
    /\ handle = [p \in Threads |-> NoHandle]
    /\ commitTs = [w \in Writers |-> 0]
    /\ locked = {} /\ committed = {}
    /\ todo = ReadKeys
    /\ met = [r \in Readers |-> FALSE]
    /\ seen = [r \in Readers |-> {}]

Goto(p, from, to) == pc[p] = from /\ pc' = [pc EXCEPT ![p] = to]

-----------------------------------------------------------------------------
(* LockTable::lock_key.                                                     *)

\* A fresh handle with its mutex locked, not yet bound to the table.
CreateHandle(w) ==
    /\ Goto(w, "create", "insert")
    /\ refs' = [refs EXCEPT ![w] = {w}]
    /\ mutex' = [mutex EXCEPT ![w] = w]
    /\ UNCHANGED <<maxTs, table, bound, storeMutex, lockStore, handle, commitTs, engine, reading>>

\* Mutant: the new handle takes the place of the one in the table.
GetOrInsertReplaces(w) ==
    /\ Goto(w, "insert", "bind")
    /\ table' = [table EXCEPT ![KeyOf[w]] = w]
    /\ UNCHANGED <<maxTs, refs, bound, mutex, storeMutex, lockStore, handle, commitTs, engine, reading>>

\* Mutant: the fresh handle is bound before the insertion, so dropping it removes the key.
GetOrInsertRemoves(w) ==
    LET k == KeyOf[w]
    IN  /\ \/ /\ table[k] = NoHandle
              /\ Goto(w, "insert", "bind")
              /\ table' = [table EXCEPT ![k] = w]
              /\ UNCHANGED <<refs, mutex, handle>>
           \/ /\ table[k] # NoHandle
              /\ Goto(w, "insert", "upgrade")
              /\ handle' = [handle EXCEPT ![w] = table[k]]
              /\ refs' = [refs EXCEPT ![w] = {}]
              /\ mutex' = [mutex EXCEPT ![w] = NoHandle]
              /\ table' = [table EXCEPT ![k] = NoHandle]
        /\ UNCHANGED <<maxTs, bound, storeMutex, lockStore, commitTs, engine, reading>>

\* SkipMap::get_or_insert. If the key has an entry, the fresh handle is dropped; it is
\* not bound, so nothing is removed from the table.
GetOrInsert(w) ==
    LET k == KeyOf[w]
    IN  /\ \/ /\ table[k] = NoHandle
              /\ Goto(w, "insert", "bind")
              /\ table' = [table EXCEPT ![k] = w]
              /\ UNCHANGED <<refs, mutex, handle>>
           \/ /\ table[k] # NoHandle
              /\ Goto(w, "insert", "upgrade")
              /\ handle' = [handle EXCEPT ![w] = table[k]]
              /\ refs' = [refs EXCEPT ![w] = {}]
              /\ mutex' = [mutex EXCEPT ![w] = NoHandle]
              /\ UNCHANGED table
        /\ UNCHANGED <<maxTs, bound, storeMutex, lockStore, commitTs, engine, reading>>

\* set_table: the handle in the table is the writer's own, and it has its mutex.
SetTable(w) ==
    /\ Goto(w, "bind", "calculate")
    /\ bound' = [bound EXCEPT ![w] = TRUE]
    /\ handle' = [handle EXCEPT ![w] = w]
    /\ UNCHANGED <<maxTs, table, refs, mutex, storeMutex, lockStore, commitTs, engine, reading>>

\* Weak::upgrade of the entry found. A handle without strong references is being dropped:
\* the loop starts again.
UpgradeToLock(w) ==
    LET h == handle[w]
    IN  /\ \/ Goto(w, "upgrade", "lock") /\ refs[h] # {} /\ refs' = [refs EXCEPT ![h] = @ \cup {w}]
           \/ Goto(w, "upgrade", "create") /\ refs[h] = {} /\ UNCHANGED refs
        /\ UNCHANGED <<maxTs, table, bound, mutex, storeMutex, lockStore, handle, commitTs, engine, reading>>

\* KeyHandle::lock of a handle that another writer created.
LockHandle(w) ==
    LET h == handle[w]
    IN  /\ Goto(w, "lock", "calculate")
        /\ mutex[h] = NoHandle
        /\ mutex' = [mutex EXCEPT ![h] = w]
        /\ UNCHANGED <<maxTs, table, refs, bound, storeMutex, lockStore, handle, commitTs, engine, reading>>

-----------------------------------------------------------------------------
(* async_commit_timestamps, the write and the end of the prewrite.          *)

\* Mutant: max_ts is read before the mutex of lock_store is taken.
CalculateUnlocked(w) ==
    /\ Goto(w, "calculate", "store")
    /\ commitTs' = [commitTs EXCEPT ![w] = (IF maxTs > StartTs[w] THEN maxTs ELSE StartTs[w]) + 1]
    /\ UNCHANGED <<manager, handle, engine, reading>>

\* Inside with_lock: max_ts is read and min_commit_ts calculated.
Calculate(w) ==
    LET h == handle[w]
    IN  /\ Goto(w, "calculate", "store")
        /\ storeMutex[h] = NoHandle
        /\ storeMutex' = [storeMutex EXCEPT ![h] = w]
        /\ commitTs' = [commitTs EXCEPT ![w] = (IF maxTs > StartTs[w] THEN maxTs ELSE StartTs[w]) + 1]
        /\ UNCHANGED <<maxTs, table, refs, bound, mutex, lockStore, handle, engine, reading>>

\* The end of with_lock: the lock is stored, or CommitTsTooLarge is returned and the
\* guard dropped.
StoreLock(w) ==
    LET h == handle[w]
    IN  /\ \/ Goto(w, "store", "write") /\ lockStore' = [lockStore EXCEPT ![h] = w]
           \/ Goto(w, "store", "clear") /\ UNCHANGED lockStore
        /\ storeMutex' = [storeMutex EXCEPT ![h] = NoHandle]
        /\ UNCHANGED <<maxTs, table, refs, bound, mutex, handle, commitTs, engine, reading>>

\* The write is applied: a lock (async commit) or a commit record (1PC); or it fails.
ApplyWrite(w) ==
    /\ Goto(w, "write", "clear")
    /\ \/ locked' = locked \cup {w} /\ UNCHANGED committed
       \/ committed' = committed \cup {w} /\ UNCHANGED locked
       \/ UNCHANGED engine
    /\ UNCHANGED <<manager, handle, commitTs, reading>>

\* KeyHandleGuard::drop clears lock_store.
ClearLock(w) ==
    LET h == handle[w]
    IN  /\ Goto(w, "clear", "unlock")
        /\ storeMutex[h] = NoHandle
        /\ lockStore' = [lockStore EXCEPT ![h] = NoHandle]
        /\ UNCHANGED <<maxTs, table, refs, bound, mutex, storeMutex, handle, commitTs, engine, reading>>

\* Mutant: the reference to the handle is dropped before the mutex guard.
UnlockHandleLate(w) ==
    /\ Goto(w, "unlock", "done")
    /\ refs' = [refs EXCEPT ![handle[w]] = @ \ {w}]
    /\ UNCHANGED <<maxTs, table, bound, mutex, storeMutex, lockStore, handle, commitTs, engine, reading>>

\* The fields of the guard are dropped in order: first the mutex guard.
UnlockHandle(w) ==
    /\ Goto(w, "unlock", "release")
    /\ mutex' = [mutex EXCEPT ![handle[w]] = NoHandle]
    /\ UNCHANGED <<maxTs, table, refs, bound, storeMutex, lockStore, handle, commitTs, engine, reading>>

\* Mutant: the handle is not removed from the table.
ReleaseForgets(p, next) ==
    /\ Goto(p, "release", next)
    /\ refs' = [refs EXCEPT ![handle[p]] = @ \ {p}]
    /\ UNCHANGED <<maxTs, table, bound, mutex, storeMutex, lockStore, handle, commitTs, engine, reading>>

\* A strong reference is dropped. The thread that dropped the last one runs
\* KeyHandle::drop, which removes the key if the handle is bound to the table.
Release(p, next) ==
    LET h == handle[p]
    IN  /\ Goto(p, "release", IF refs[h] = {p} /\ bound[h] THEN "remove" ELSE next)
        /\ refs' = [refs EXCEPT ![h] = @ \ {p}]
        /\ UNCHANGED <<maxTs, table, bound, mutex, storeMutex, lockStore, handle, commitTs, engine, reading>>

\* LockTable::remove, by key.
Remove(p, next) ==
    /\ Goto(p, "remove", next)
    /\ table' = [table EXCEPT ![KeyOf[handle[p]]] = NoHandle]
    /\ UNCHANGED <<maxTs, refs, bound, mutex, storeMutex, lockStore, handle, commitTs, engine, reading>>

\* The transaction is committed at its min_commit_ts: the lock becomes a record.
CommitLock(w) ==
    /\ w \in locked
    /\ locked' = locked \ {w}
    /\ committed' = committed \cup {w}
    /\ UNCHANGED <<manager, pc, handle, commitTs, reading>>

-----------------------------------------------------------------------------
(* prepare_snap_ctx and the snapshot.                                       *)

\* ConcurrencyManager::update_max_ts: an atomic fetch_max.
UpdateMaxTs(r) ==
    /\ Goto(r, "update", "check")
    /\ maxTs' = IF ReadTs[r] > maxTs THEN ReadTs[r] ELSE maxTs
    /\ UNCHANGED <<table, refs, bound, mutex, storeMutex, lockStore, handle, commitTs, engine, reading>>

\* read_key_check of the next key: its entry in the table.
GetEntry(r, k) ==
    /\ k \in todo[r] /\ ~met[r]
    /\ IF table[k] = NoHandle THEN Goto(r, "check", "check") ELSE Goto(r, "check", "upgrade")
    /\ handle' = [handle EXCEPT ![r] = table[k]]
    /\ todo' = [todo EXCEPT ![r] = @ \ {k}]
    /\ UNCHANGED <<manager, commitTs, engine, met, seen>>

UpgradeToCheck(r) ==
    LET h == handle[r]
    IN  /\ \/ Goto(r, "upgrade", "look") /\ refs[h] # {} /\ refs' = [refs EXCEPT ![h] = @ \cup {r}]
           \/ Goto(r, "upgrade", "check") /\ refs[h] = {} /\ UNCHANGED refs
        /\ UNCHANGED <<maxTs, table, bound, mutex, storeMutex, lockStore, handle, commitTs, engine, reading>>

\* Lock::check_ts_conflict: the lock of writer w blocks a read at the timestamp.
Blocks(w, ts) == commitTs[w] <= ts

\* KeyHandle::with_lock: the memory lock, if there is one, is checked.
LookAtLock(r) ==
    LET h == handle[r]
    IN  /\ Goto(r, "look", "release")
        /\ storeMutex[h] = NoHandle
        /\ met' = [met EXCEPT ![r] = lockStore[h] # NoHandle /\ Blocks(lockStore[h], ReadTs[r])]
        /\ UNCHANGED <<manager, handle, commitTs, engine, todo, seen>>

\* The read returns KeyIsLocked.
ReportLock(r) ==
    /\ met[r]
    /\ Goto(r, "check", "blocked")
    /\ UNCHANGED <<manager, handle, commitTs, engine, reading>>

\* No memory lock blocks: the snapshot is taken, and the read meets the locks and commits
\* in it.
TakeSnapshot(r) ==
    LET mine == {w \in Writers : KeyOf[w] \in ReadKeys[r] /\ commitTs[w] <= ReadTs[r]}
    IN  /\ todo[r] = {} /\ ~met[r]
        /\ IF locked \cap mine = {} THEN Goto(r, "check", "done") ELSE Goto(r, "check", "blocked")
        /\ seen' = [seen EXCEPT ![r] = committed \cap mine]
        /\ UNCHANGED <<manager, handle, commitTs, engine, todo, met>>

-----------------------------------------------------------------------------
WriterNext(w) ==
    \/ CreateHandle(w) \/ GetOrInsert(w) \/ SetTable(w) \/ UpgradeToLock(w) \/ LockHandle(w)
    \/ Calculate(w) \/ StoreLock(w) \/ ApplyWrite(w) \/ ClearLock(w) \/ UnlockHandle(w)
    \/ Release(w, "done") \/ Remove(w, "done")

ReaderNext(r) ==
    \/ UpdateMaxTs(r) \/ UpgradeToCheck(r) \/ LookAtLock(r) \/ ReportLock(r) \/ TakeSnapshot(r)
    \/ \E k \in Keys : GetEntry(r, k)
    \/ Release(r, "check") \/ Remove(r, "check")

Finished == \A p \in Threads : pc[p] \in {"done", "blocked"}

Next ==
    \/ \E w \in Writers : WriterNext(w) \/ CommitLock(w)
    \/ \E r \in Readers : ReaderNext(r)
    \/ Finished /\ UNCHANGED vars

\* Every thread is scheduled again and again. Nothing makes a transaction commit.
Fairness ==
    /\ \A w \in Writers : WF_vars(WriterNext(w))
    /\ \A r \in Readers : WF_vars(ReaderNext(r))

Spec == Init /\ [][Next]_vars /\ Fairness

-----------------------------------------------------------------------------
(* Properties.                                                              *)

\* The writer has a KeyHandleGuard of its key.
HasGuard(w) == pc[w] \in {"bind", "calculate", "store", "write", "clear", "unlock"}

\* lock_key excludes: a key has one guard at a time, although handles come and go while
\* other threads still hold references to old ones.
GuardExclusive ==
    \A v, w \in Writers : v # w /\ KeyOf[v] = KeyOf[w] => ~(HasGuard(v) /\ HasGuard(w))

\* The handle of a guard is the one readers find in the table, until the guard is gone:
\* KeyHandle::drop, which removes by key, never removes the entry of another handle.
GuardVisible ==
    \A w \in Writers : HasGuard(w) /\ pc[w] # "bind" =>
        table[KeyOf[w]] = handle[w] /\ w \in refs[handle[w]]

\* A locked mutex is in a live handle: the 'static lifetime KeyHandle::lock gives the mutex
\* guard is sound, because the guard's owner keeps a reference to the handle.
MutexInLiveHandle == \A h \in Writers : mutex[h] # NoHandle => mutex[h] \in refs[h]

\* A snapshot read shows for ever what it showed: no writer commits at or below the read
\* timestamp unless the snapshot has its record. A reader that raised max_ts too late for
\* the calculation finds the memory lock, or the lock or record in its snapshot.
SnapshotStays ==
    \A r \in Readers : pc[r] = "done" =>
        seen[r] = {w \in committed : KeyOf[w] \in ReadKeys[r] /\ commitTs[w] <= ReadTs[r]}

\* No prewrite and no read hangs: the retry loop of lock_key ends, because whoever dropped
\* the last reference removes the dead entry, and the mutexes are released.
EveryThreadFinishes == <>Finished

=============================================================================
