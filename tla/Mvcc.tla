-------------------------------- MODULE Mvcc --------------------------------
(***************************************************************************)
(* The transaction actions of src/storage/txn/actions: what a command does *)
(* to ONE key, as functions of the state of that key.                      *)
(*                                                                         *)
(* The state of a key is a record [lock, writes]: the lock in CF_LOCK (or  *)
(* the in-memory pessimistic lock) and the set of records in CF_WRITE, at  *)
(* most one per commit_ts because a put at the same commit_ts overwrites.  *)
(* Values, TTLs (an input: expired or not), old values, last_change,       *)
(* assertions and pipelined-DML generations are abstracted away.           *)
(***************************************************************************)
EXTENDS Integers, FiniteSets

\* The larger of two timestamps (std::cmp::max).
MaxOf(a, b) == IF a >= b THEN a ELSE b

\* Option<Lock>::None.
NoLock == [ts |-> 0, kind |-> "none", primary |-> 0, min_commit_ts |-> 0,
           for_update_ts |-> 0, use_async_commit |-> FALSE,
           with_conflict |-> FALSE, rollback_ts |-> {}]

\* A key nothing was ever written to.
EmptyKey == [lock |-> NoLock, writes |-> {}]

IsPessimisticLock(l) == l.kind = "pessimistic"

-----------------------------------------------------------------------------
(* Reading CF_WRITE.                                                        *)

\* seek_write: the newest record at or below ts, as a set with one member or none.
SeekWrite(W, ts) ==
    {w \in W : w.commit_ts <= ts /\ \A v \in W : v.commit_ts <= ts => v.commit_ts <= w.commit_ts}

\* seek_write from TimeStamp::max().
Latest(W) == {w \in W : \A v \in W : v.commit_ts <= w.commit_ts}

\* The record says that the transaction started at s was rolled back.
RollbackMark(w, s) == w.commit_ts = s /\ (w.type = "rollback" \/ w.overlapped)

\* get_txn_commit_record, the SingleRecord of a commit.
CommitRecord(W, s) == {w \in W : w.start_ts = s /\ w.type # "rollback"}

IsCommitted(W, s) == CommitRecord(W, s) # {}

\* get_txn_commit_record: a Rollback record of the transaction, or OverlappedRollback.
IsRolledBack(W, s) ==
    /\ ~IsCommitted(W, s)
    /\ \E w \in W : w.start_ts = s \/ (w.commit_ts = s /\ w.overlapped)

\* get_txn_commit_record: the overlapped_write of TxnCommitRecord::None.
OverlappedWrite(W, s) == {w \in W : w.commit_ts = s /\ w.start_ts # s}

CommitTsOf(W, s) == (CHOOSE w \in CommitRecord(W, s) : TRUE).commit_ts

\* get_write_with_commit_ts: the version a read at ts returns, as the start_ts of
\* the transaction that wrote it (0: no version). Lock and Rollback records are skipped.
VisibleAt(W, ts) ==
    LET puts == {w \in W : w.type = "put" /\ w.commit_ts <= ts}
    IN  IF puts = {} THEN 0 ELSE (CHOOSE w \in Latest(puts) : TRUE).start_ts

\* Lock::check_ts_conflict_si: the lock stands in the way of a read at ts.
BlocksRead(l, ts, bypass) ==
    /\ l.kind = "put"
    /\ l.ts <= ts
    /\ l.min_commit_ts <= ts
    /\ l.ts \notin bypass

-----------------------------------------------------------------------------
(* Writing.                                                                 *)

\* MvccTxn::put_write: a record replaces the one at the same commit_ts.
PutWrite(W, w) == {v \in W : v.commit_ts # w.commit_ts} \cup {w}

\* MvccTxn::unlock_key.
Unlock(st) == [st EXCEPT !.lock = NoLock]

\* collapse_prev_rollback: which records it deletes.
CollapsePrevRollback(W, s) ==
    {w \in SeekWrite(W, s) : w.type = "rollback" /\ ~w.protected}

\* make_rollback: the record it puts, as a set with one member or none.
MakeRollback(W, s, protected) ==
    IF OverlappedWrite(W, s) # {}
    THEN IF protected THEN {[w EXCEPT !.overlapped = TRUE] : w \in OverlappedWrite(W, s)} ELSE {}
    ELSE {[commit_ts |-> s, start_ts |-> s, type |-> "rollback",
           overlapped |-> FALSE, protected |-> protected]}

\* Mutant: the record is added beside the one at its commit_ts.
PutAllBeside(W, R) == W \cup R

\* The write CF after the rollback records R replace what is at their commit_ts.
PutAll(W, R) == {v \in W : \A w \in R : v.commit_ts # w.commit_ts} \cup R

\* Mutant: the lock of the other transaction does not remember the rollback.
MarkRollbackNever(l, s, protected) == l

\* MvccTxn::mark_rollback_on_mismatching_lock: another transaction's async-commit
\* lock remembers the rollback that its commit could overwrite.
MarkRollbackOnMismatchingLock(l, s, protected) ==
    IF protected /\ l.ts # 0 /\ s >= l.min_commit_ts /\ l.use_async_commit
    THEN [l EXCEPT !.rollback_ts = @ \cup {s}]
    ELSE l

-----------------------------------------------------------------------------
(* The actions. Each returns the key's next state, a result and a timestamp. *)

Result(st, res, ts) == [st |-> st, res |-> res, ts |-> ts]

\* rollback_lock: roll back transaction s whose lock is on key k. The panic on a
\* commit record is the result "panic".
RollbackLock(st, k, s, collapse) ==
    IF IsCommitted(st.writes, s) THEN Result(st, "panic", 0)
    ELSE IF IsRolledBack(st.writes, s) THEN Result(Unlock(st), "TtlExpire", 0)
    ELSE LET protected == st.lock.primary = k
             kept == IF collapse THEN st.writes \ CollapsePrevRollback(st.writes, s) ELSE st.writes
         IN  Result([lock |-> NoLock,
                     writes |-> PutAll(kept, MakeRollback(st.writes, s, protected))],
                    "TtlExpire", 0)

\* check_txn_status_missing_lock. action is "Rollback", "ProtectedRollback" or
\* "ReturnError"; mismatch is the lock of another transaction on the key, or NoLock.
CheckTxnStatusMissingLock(st, s, mismatch, action, resolvingPessimistic) ==
    LET W == st.writes
        protected == action = "ProtectedRollback"
        kept == IF protected THEN W ELSE W \ CollapsePrevRollback(W, s)
    IN  IF IsCommitted(W, s) THEN Result(st, "Committed", CommitTsOf(W, s))
        ELSE IF IsRolledBack(W, s) THEN Result(st, "RolledBack", 0)
        ELSE IF action = "ReturnError" THEN Result(st, "TxnNotFound", 0)
        ELSE IF resolvingPessimistic THEN Result(st, "LockNotExistDoNothing", 0)
        ELSE Result([lock |-> IF mismatch.ts # 0 /\ OverlappedWrite(W, s) = {}
                              THEN MarkRollbackOnMismatchingLock(mismatch, s, protected)
                              ELSE st.lock,
                     writes |-> PutAll(kept, MakeRollback(W, s, protected))],
                    "LockNotExist", 0)

\* cleanup. checkTtl is current_ts # 0; expired compares the lock's TTL with it.
Cleanup(st, k, s, checkTtl, expired, protect) ==
    IF st.lock.ts = s
    THEN IF checkTtl /\ ~expired THEN Result(st, "KeyIsLocked", 0)
         ELSE RollbackLock(st, k, s, ~protect)
    ELSE CheckTxnStatusMissingLock(st, s, st.lock,
             IF protect THEN "ProtectedRollback" ELSE "Rollback", FALSE)

\* commit.
Commit(st, s, commit_ts) ==
    LET l == st.lock
        w == [commit_ts |-> commit_ts, start_ts |-> s, type |-> l.kind,
              overlapped |-> commit_ts \in l.rollback_ts, protected |-> FALSE]
    IN  IF l.ts = s
        THEN IF commit_ts < l.min_commit_ts THEN Result(st, "CommitTsExpired", l.min_commit_ts)
             ELSE IF IsPessimisticLock(l) THEN Result(Unlock(st), "ok", commit_ts)
             ELSE Result([lock |-> NoLock, writes |-> PutWrite(st.writes, w)], "ok", commit_ts)
        ELSE IF IsCommitted(st.writes, s) THEN Result(st, "ok", commit_ts)
        ELSE Result(st, "TxnLockNotFound", 0)

\* check_txn_status_from_pessimistic_primary_lock; the result "undecided" is (None, None).
CheckPessimisticPrimaryLock(st, k, s, expired, resolvingPessimistic) ==
    LET W == st.writes
    IN  IF st.lock.with_conflict /\ IsCommitted(W, s)
        THEN Result(Unlock(st), "Committed", CommitTsOf(W, s))
        ELSE IF st.lock.with_conflict /\ IsRolledBack(W, s) THEN Result(Unlock(st), "RolledBack", 0)
        ELSE IF expired /\ resolvingPessimistic THEN Result(Unlock(st), "PessimisticRollBack", 0)
        ELSE IF expired THEN RollbackLock(st, k, s, TRUE)
        ELSE Result(st, "undecided", 0)

\* Mutant: min_commit_ts is reported as pushed without being written to the lock.
PushMinCommitTsUnwritten(st, caller_start_ts, current_ts) ==
    Result(st, IF caller_start_ts # 0 THEN "Pushed" ELSE "Uncommitted", st.lock.min_commit_ts)

\* The end of check_txn_status_lock_exists: push min_commit_ts past the caller.
\* The result "Pushed" is uncommitted with min_commit_ts_pushed.
PushMinCommitTs(st, caller_start_ts, current_ts) ==
    LET l == st.lock
        m == IF l.min_commit_ts # 0 /\ caller_start_ts >= l.min_commit_ts
             THEN MaxOf(caller_start_ts + 1, current_ts) ELSE l.min_commit_ts
    IN  Result([st EXCEPT !.lock.min_commit_ts = m],
               IF caller_start_ts # 0 /\ m > caller_start_ts THEN "Pushed" ELSE "Uncommitted", m)

\* check_txn_status_lock_exists on the primary key k of transaction s, with
\* verify_is_primary set. The result "Async" is uncommitted with the async-commit lock.
CheckTxnStatusLockExists(st, k, s, expired, current_ts, caller, forceSync, resolving, rollback) ==
    LET l == st.lock
        r == CheckPessimisticPrimaryLock(st, k, s, expired, resolving)
        missing == CheckTxnStatusMissingLock(st, s, NoLock,
                       IF rollback THEN "ProtectedRollback" ELSE "ReturnError",
                       resolving)
    IN  IF l.primary # k
        THEN IF resolving \/ ~IsPessimisticLock(l) THEN Result(st, "PrimaryMismatch", 0)
             ELSE IF missing.res = "TxnNotFound" THEN missing
             ELSE Result(Unlock(missing.st), missing.res, missing.ts)
        ELSE IF l.use_async_commit /\ ~forceSync THEN Result(st, "Async", l.min_commit_ts)
        ELSE IF IsPessimisticLock(l)
             THEN IF r.res # "undecided" THEN r ELSE PushMinCommitTs(st, caller, current_ts)
        ELSE IF expired THEN RollbackLock(st, k, s, TRUE)
        ELSE PushMinCommitTs(st, caller, current_ts)

\* Mutant: a missing or pessimistic lock is answered as rolled back, with no record.
CheckSecondaryLockNoRecord(st, s) ==
    IF st.lock.ts = s /\ ~IsPessimisticLock(st.lock)
    THEN Result(st, IF st.lock.use_async_commit THEN "Locked" ELSE "LockedSync", st.lock.min_commit_ts)
    ELSE IF IsCommitted(st.writes, s) THEN Result(st, "Committed", CommitTsOf(st.writes, s))
    ELSE Result(IF st.lock.ts = s THEN Unlock(st) ELSE st, "RolledBack", 0)

\* The loop body of CheckSecondaryLocks::process_write for one key: a missing or
\* pessimistic lock gets a protected rollback, so that a late prewrite cannot succeed.
CheckSecondaryLock(st, s) ==
    LET W == st.writes
        l == st.lock
        rb == MakeRollback(W, s, TRUE)
        own == l.ts = s
        rolled == [lock |-> IF own THEN NoLock ELSE MarkRollbackOnMismatchingLock(l, s, TRUE),
                   writes |-> PutAll(W \ CollapsePrevRollback(W, s), rb)]
        stale == IF own THEN Unlock(st) ELSE st
    IN  IF own /\ ~IsPessimisticLock(l)
        THEN Result(st, IF l.use_async_commit THEN "Locked" ELSE "LockedSync", l.min_commit_ts)
        ELSE IF own /\ ~l.with_conflict /\ (IsCommitted(W, s) \/ IsRolledBack(W, s))
             THEN Result(st, "panic", 0)
        ELSE IF IsCommitted(W, s) THEN Result(stale, "Committed", CommitTsOf(W, s))
        ELSE IF IsRolledBack(W, s) THEN Result(stale, "RolledBack", 0)
        ELSE Result(rolled, "RolledBack", 0)

-----------------------------------------------------------------------------
(* Pessimistic locks.                                                       *)

\* The client asks for min_commit_ts = for_update_ts + 1 of its request.
PessimisticLock(s, primary, for_update_ts, requested, conflict) ==
    [NoLock EXCEPT !.ts = s, !.kind = "pessimistic", !.primary = primary,
                   !.for_update_ts = for_update_ts, !.min_commit_ts = requested + 1,
                   !.with_conflict = conflict]

\* Mutant: the transaction's own rollback is not looked for.
LockFreeKeyRolledBack(st, s, primary, for_update_ts, allowConflict) ==
    LET conflict == {w \in Latest(st.writes) : w.commit_ts > for_update_ts}
        ts == IF conflict = {} THEN for_update_ts ELSE (CHOOSE w \in conflict : TRUE).commit_ts
    IN  IF conflict # {} /\ ~allowConflict THEN Result(st, "WriteConflict", 0)
        ELSE Result([st EXCEPT !.lock = PessimisticLock(s, primary, ts, for_update_ts, conflict # {})],
                    "ok", ts)

\* Mutant: without allow_lock_with_conflict only the transaction's own commit is a conflict.
LockFreeKeyOwnConflict(st, s, primary, for_update_ts, allowConflict) ==
    LET conflict == {w \in Latest(st.writes) : w.commit_ts > for_update_ts}
        ts == IF allowConflict /\ conflict # {} THEN (CHOOSE w \in conflict : TRUE).commit_ts ELSE for_update_ts
    IN  IF ~allowConflict /\ (\E w \in st.writes : w.start_ts = s) THEN Result(st, "WriteConflict", 0)
        ELSE IF \E w \in st.writes : RollbackMark(w, s) THEN Result(st, "PessimisticLockRolledBack", 0)
        ELSE Result([st EXCEPT !.lock = PessimisticLock(s, primary, ts, for_update_ts,
                                                        allowConflict /\ conflict # {})], "ok", ts)

\* acquire_pessimistic_lock on a key without a lock.
LockFreeKey(st, s, primary, for_update_ts, allowConflict) ==
    LET conflict == {w \in Latest(st.writes) : w.commit_ts > for_update_ts}
        ts == IF conflict = {} THEN for_update_ts ELSE (CHOOSE w \in conflict : TRUE).commit_ts
    IN  IF conflict # {} /\ ~allowConflict THEN Result(st, "WriteConflict", 0)
        ELSE IF \E w \in st.writes : RollbackMark(w, s) THEN Result(st, "PessimisticLockRolledBack", 0)
        ELSE Result([st EXCEPT !.lock = PessimisticLock(s, primary, ts, for_update_ts, conflict # {})],
                    "ok", ts)

\* acquire_pessimistic_lock: ts is the for_update_ts of the lock the answer reports.
AcquirePessimisticLock(st, s, primary, for_update_ts, allowConflict) ==
    LET l == st.lock
    IN  IF l.ts = 0 THEN LockFreeKey(st, s, primary, for_update_ts, allowConflict)
        ELSE IF l.ts # s THEN Result(st, "KeyIsLocked", 0)
        ELSE IF ~IsPessimisticLock(l) THEN Result(st, "LockTypeNotMatch", 0)
        ELSE IF for_update_ts > l.for_update_ts
             THEN Result([st EXCEPT !.lock = PessimisticLock(s, primary, for_update_ts, for_update_ts,
                                                             l.with_conflict)], "ok", for_update_ts)
        ELSE Result(st, "ok", IF allowConflict THEN l.for_update_ts ELSE for_update_ts)

\* PessimisticRollback::process_write for one key.
PessimisticRollback(st, s, for_update_ts) ==
    IF IsPessimisticLock(st.lock) /\ st.lock.ts = s /\ st.lock.for_update_ts <= for_update_ts
    THEN Unlock(st) ELSE st

-----------------------------------------------------------------------------
(* Prewrite. The request p is a record: key, start_ts, primary, mode ("2pc",  *)
(* "async" or "1pc"), min_commit_ts, max_commit_ts (0: none), for_update_ts    *)
(* (0: an optimistic transaction), action ("skip", "check" or "constraint"),   *)
(* expected_for_update_ts (0: not checked) and is_retry_request.               *)

\* amend_pessimistic_lock: a pessimistic lock that got lost is replaced if no record is as
\* new as the transaction.
AmendPessimisticLock(st, p) ==
    IF \E w \in Latest(st.writes) : w.commit_ts >= p.start_ts THEN "PessimisticLockNotFound" ELSE "None"

\* check_lock.
LockStatus(st, p) ==
    LET l == st.lock
    IN  IF l.ts = 0 THEN IF p.action = "check" THEN AmendPessimisticLock(st, p) ELSE "None"
        ELSE IF l.ts # p.start_ts
             THEN IF p.action = "check" THEN "PessimisticLockNotFound" ELSE "KeyIsLocked"
        ELSE IF ~IsPessimisticLock(l) THEN "Locked"
        ELSE IF p.for_update_ts = 0 THEN "LockTypeNotMatch"
        ELSE IF p.expected_for_update_ts \notin {0, l.for_update_ts} THEN "PessimisticLockNotFound"
        ELSE "Pessimistic"

SkipConstraintCheck(p) ==
    /\ p.for_update_ts # 0
    /\ p.action = "check" \/ (p.action = "skip" /\ ~p.is_retry_request)

\* check_for_newer_version. A pessimistic transaction passes over the Rollback
\* records newer than its for_update_ts.
NewerVersion(W, p) ==
    LET passed == {w \in W : p.for_update_ts # 0 /\ p.action # "constraint"
                              /\ w.type = "rollback" /\ w.commit_ts > p.for_update_ts
                              /\ \A v \in W : v.commit_ts > w.commit_ts => v.type = "rollback"}
        found == Latest(W \ passed)
        optimistic == p.for_update_ts = 0 \/ p.action = "constraint"
    IN  IF \E w \in found : RollbackMark(w, p.start_ts) THEN "SelfRolledBack"
        ELSE IF optimistic /\ \E w \in found : w.commit_ts > p.start_ts THEN "WriteConflict"
        ELSE IF ~optimistic /\ \E w \in found : w.commit_ts > p.for_update_ts
             THEN "PessimisticLockNotFound"
        ELSE "None"

\* The min_commit_ts that async_commit_timestamps calculates from max_ts under the
\* memory lock; m is the min_commit_ts of the request or of the pessimistic lock.
AsyncCommitTs(p, m, max_ts) == MaxOf(m, MaxOf(MaxOf(max_ts, p.start_ts), p.for_update_ts) + 1)

\* check_committed_record_on_err: a request that arrives after the transaction was
\* committed is answered as if it had succeeded.
CommittedOrErr(st, p, err) ==
    IF IsCommitted(st.writes, p.start_ts) THEN Result(st, "ok", CommitTsOf(st.writes, p.start_ts))
    ELSE Result(st, err, 0)

\* one_pc_commit: the lock becomes the commit record at once.
OnePcCommit(st, p, commit_ts) ==
    [lock |-> NoLock,
     writes |-> PutWrite(st.writes, [commit_ts |-> commit_ts, start_ts |-> p.start_ts, type |-> p.kind,
                                     overlapped |-> FALSE, protected |-> FALSE])]

\* write_lock, with the fallback to 2PC on CommitTsTooLarge.
WriteLock(st, p, status, max_ts) ==
    LET old == IF status = "Pessimistic" THEN st.lock ELSE NoLock
        m == MaxOf(p.min_commit_ts, old.min_commit_ts)
        c == AsyncCommitTs(p, m, max_ts)
        calculated == p.mode # "2pc" /\ ~(p.max_commit_ts # 0 /\ c > p.max_commit_ts)
        l == [ts |-> p.start_ts, kind |-> p.kind, primary |-> p.primary,
              min_commit_ts |-> IF calculated THEN c ELSE m,
              for_update_ts |-> MaxOf(p.for_update_ts, old.for_update_ts),
              use_async_commit |-> calculated /\ p.mode = "async",
              with_conflict |-> FALSE, rollback_ts |-> {}]
    IN  IF p.mode # "2pc" /\ ~calculated /\ IsCommitted(st.writes, p.start_ts)
        THEN CommittedOrErr(st, p, "CommitTsTooLarge")
        ELSE IF calculated /\ p.mode = "1pc"
        THEN Result(OnePcCommit(st, p, c), "ok", c)
        ELSE Result([st EXCEPT !.lock = l], "ok", IF calculated THEN c ELSE 0)

\* One turn of the loop of Prewriter::prewrite with prewrite and write_result: ts is
\* the min_commit_ts (or one_pc_commit_ts) of the answer, 0 if it fell back to 2PC.
Prewrite(st, p, max_ts) ==
    LET status == LockStatus(st, p)
        newer == IF SkipConstraintCheck(p) THEN "None" ELSE NewerVersion(st.writes, p)
    IN  IF status \in {"PessimisticLockNotFound", "KeyIsLocked"} THEN CommittedOrErr(st, p, status)
        ELSE IF status = "LockTypeNotMatch" THEN Result(st, status, 0)
        ELSE IF status = "Locked"
        THEN Result(st, "ok", IF st.lock.use_async_commit THEN st.lock.min_commit_ts ELSE 0)
        ELSE IF newer = "SelfRolledBack" THEN Result(st, "WriteConflict", 0)
        ELSE IF newer # "None" THEN CommittedOrErr(st, p, newer)
        ELSE WriteLock(st, p, status, max_ts)

=============================================================================
