----------------------------- MODULE Percolator -----------------------------
(***************************************************************************)
(* Distributed transactions over several keys: the commands of             *)
(* src/storage/txn/commands applied to the keys by a scheduler that runs   *)
(* each of them atomically (the latches, module Scheduler), the timestamp  *)
(* oracle, and the clients and lock resolvers that send the commands.      *)
(*                                                                         *)
(* Every key is on a store of its own, with its own max_ts. The network    *)
(* loses, delays, duplicates and reorders: a request that may have been    *)
(* sent may be executed at any later time and any number of times, and an  *)
(* answer is used when its receiver likes or never. So sent requests and   *)
(* received answers are sets that only grow. A client or resolver that     *)
(* takes no further step has crashed.                                      *)
(***************************************************************************)
EXTENDS Mvcc, FiniteSetsExt

CONSTANTS Keys,       \* the keys
          Txns,       \* the transactions that write
          Readers,    \* the snapshots that read
          Workloads   \* what the transactions do; the records are described below

ASSUME WorkloadsAssumption ==
    \A w \in Workloads : \A t \in Txns :
        /\ w.lock_keys[t] \subseteq w.keys[t]
        /\ w.keys[t] \subseteq Keys
        /\ w.primary[t] \in Keys
        /\ t \in w.active => w.primary[t] \in w.keys[t]

VARIABLES workload,   \* the member of Workloads this behaviour is about
          kv,         \* [Keys -> state of the key]
          maxTs,      \* ConcurrencyManager::max_ts of the key's store
          synced,     \* TxnExt::max_ts_sync_status of the key's region
          cache,      \* TxnStatusCache of the key's store: committed start_ts
          transfers,  \* number of leader transfers so far
          tso,        \* last timestamp the oracle gave
          start,      \* [Txns -> start_ts], 0 before the transaction begins
          phase,      \* what the client of the transaction is doing
          futs,       \* [Txns -> for_update_ts of the statements so far]
          lockReq,    \* [Txns -> pessimistic lock requests sent, <<key, for_update_ts>>]
          held,       \* [Txns -> [Keys -> for_update_ts of the lock the client knows, or 0]]
          acks,       \* [Txns -> successful prewrite answers <<key, min_commit_ts>>]
          commitReq,  \* [Txns -> commit timestamps the client sent to the primary]
          outcome,    \* [Txns -> commit_ts the client reported, 0: none]
          learned,    \* [Txns -> statuses resolvers learned: a commit_ts, 0 for rolled back]
          primarySeen,\* [Txns -> min_commit_ts of the async-commit primary lock resolvers saw]
          secondary,  \* [Txns -> CheckSecondaryLocks answers <<key, result, ts>>]
          readTs,     \* [Readers -> read timestamp], 0 before the reader starts
          bypass,     \* [Readers -> start_ts of transactions it may bypass]
          got         \* [Readers -> [Keys -> start_ts of the version read, or -1]]

store == <<kv, maxTs, synced, cache, transfers>>
client == <<start, phase, futs, lockReq, held, acks, commitReq, outcome>>
resolver == <<learned, primarySeen, secondary>>
reader == <<readTs, bypass, got>>
vars == <<workload, store, tso, client, resolver, reader>>

(* The workload: which transactions and readers there are and what they do.  *)
Active == workload.active            \* the transactions and readers that begin
KeysOf == workload.keys              \* KeysOf[t]: the keys transaction t writes
Primary == workload.primary          \* Primary[t]: its primary key
Mode == workload.mode                \* Mode[t]: "2pc", "async" or "1pc"
LockKeys == workload.lock_keys       \* LockKeys[t]: the keys it locks pessimistically ({}: optimistic)
ForceLock == workload.force_lock     \* the transactions that allow locking with conflict
NeedValue == workload.need_value     \* those whose lock requests read the value or its existence
MaxCommitTs == workload.max_commit_ts\* MaxCommitTs[t]: max_commit_ts of its prewrites, 0 for none
Volatile == workload.volatile        \* pessimistic locks may be lost (pipelined or in-memory)

(* The bounds of the workload.                                               *)
MaxTso == workload.max_tso           \* timestamps the oracle hands out
MaxStatements == workload.max_statements \* statements (for_update_ts) per pessimistic transaction
MaxTransfers == workload.max_transfers   \* leader transfers

Timestamps == 0 .. MaxTso + 1

\* The status "give back the pessimistic lock" in learned.
PessimisticOnly == -1

Optimistic(t) == LockKeys[t] = {}

Init ==
    /\ workload \in Workloads
    /\ kv = [k \in Keys |-> EmptyKey]
    /\ maxTs = [k \in Keys |-> 0]
    /\ synced = [k \in Keys |-> TRUE]
    /\ cache = [k \in Keys |-> {}]
    /\ transfers = 0
    /\ tso = 0
    /\ start = [t \in Txns |-> 0]
    /\ phase = [t \in Txns |-> "idle"]
    /\ futs = [t \in Txns |-> {}]
    /\ lockReq = [t \in Txns |-> {}]
    /\ held = [t \in Txns |-> [k \in Keys |-> 0]]
    /\ acks = [t \in Txns |-> {}]
    /\ commitReq = [t \in Txns |-> {}]
    /\ outcome = [t \in Txns |-> 0]
    /\ learned = [t \in Txns |-> {}]
    /\ primarySeen = [t \in Txns |-> {}]
    /\ secondary = [t \in Txns |-> {}]
    /\ readTs = [r \in Readers |-> 0]
    /\ bypass = [r \in Readers |-> {}]
    /\ got = [r \in Readers |-> [k \in Keys |-> -1]]

\* ConcurrencyManager::update_max_ts.
UpdateMaxTs(k, ts) == maxTs' = [maxTs EXCEPT ![k] = MaxOf(@, ts)]

\* The oracle hands out the next timestamp.
NextTs == tso < MaxTso /\ tso' = tso + 1

-----------------------------------------------------------------------------
(* The client of a transaction.                                             *)

\* The transaction gets its start_ts; a pessimistic one starts executing statements.
Begin(t) ==
    /\ phase[t] = "idle"
    /\ t \in Active
    /\ NextTs
    /\ start' = [start EXCEPT ![t] = tso']
    /\ phase' = [phase EXCEPT ![t] = IF Optimistic(t) THEN "prewriting" ELSE "executing"]
    /\ futs' = [futs EXCEPT ![t] = IF Optimistic(t) THEN {} ELSE {tso'}]
    /\ lockReq' = [lockReq EXCEPT ![t] = LockKeys[t] \X {tso'}]
    /\ UNCHANGED <<store, held, acks, commitReq, outcome, resolver, reader>>

\* The for_update_ts of the current statement (0 for an optimistic transaction).
ForUpdateTs(t) == IF Optimistic(t) THEN 0 ELSE Max(futs[t])

\* A new statement, or the retry of one whose locks on the keys K are given back. Keys the
\* client already holds are not locked again.
NewStatement(t, K) ==
    /\ phase[t] = "executing"
    /\ Cardinality(futs[t]) < MaxStatements
    /\ NextTs
    /\ futs' = [futs EXCEPT ![t] = @ \cup {tso'}]
    /\ held' = [held EXCEPT ![t] = [k \in Keys |-> IF k \in K THEN 0 ELSE @[k]]]
    /\ lockReq' = [lockReq EXCEPT ![t] = @ \cup ({k \in LockKeys[t] : held'[t][k] = 0} \X {tso'})]
    /\ UNCHANGED <<store, start, phase, acks, commitReq, outcome, resolver, reader>>

\* All locks are held: the client sends the prewrites. A lock taken with a conflict newer
\* than the statement makes it retry the statement first.
StartPrewrite(t) ==
    /\ phase[t] = "executing"
    /\ \A k \in LockKeys[t] : held[t][k] \in 1 .. ForUpdateTs(t)
    /\ phase' = [phase EXCEPT ![t] = "prewriting"]
    /\ UNCHANGED <<store, tso, start, futs, lockReq, held, acks, commitReq, outcome, resolver, reader>>

\* Every key is prewritten. With async commit or 1PC the transaction is committed at the
\* largest min_commit_ts answered; if some key fell back (0), it continues as 2PC.
PrewriteDone(t) ==
    /\ phase[t] = "prewriting"
    /\ \E f \in [KeysOf[t] -> Timestamps] :
          /\ \A k \in KeysOf[t] : <<k, f[k]>> \in acks[t]
          /\ LET decided == Mode[t] # "2pc" /\ \A k \in KeysOf[t] : f[k] # 0
             IN  /\ phase' = [phase EXCEPT ![t] = IF decided THEN "committed" ELSE "prewritten"]
                 /\ outcome' = [outcome EXCEPT ![t] = IF decided THEN Max({f[k] : k \in KeysOf[t]}) ELSE 0]
    /\ UNCHANGED <<store, tso, start, futs, lockReq, held, acks, commitReq, resolver, reader>>

\* The client gets a commit_ts and sends the commit of the primary.
GetCommitTs(t) ==
    /\ phase[t] = "prewritten"
    /\ NextTs
    /\ commitReq' = [commitReq EXCEPT ![t] = @ \cup {tso'}]
    /\ phase' = [phase EXCEPT ![t] = "committing"]
    /\ UNCHANGED <<store, start, futs, lockReq, held, acks, outcome, resolver, reader>>

\* The client gives up before it sent a commit. It may not once an async-commit or 1PC
\* prewrite is on its way, because the transaction may already be committed.
GiveUp(t) ==
    /\ \/ phase[t] \in {"executing", "prewritten"}
       \/ phase[t] = "prewriting" /\ Mode[t] = "2pc"
    /\ phase' = [phase EXCEPT ![t] = IF @ = "executing" THEN "cancelled" ELSE "aborted"]
    /\ UNCHANGED <<store, tso, start, futs, lockReq, held, acks, commitReq, outcome, resolver, reader>>

-----------------------------------------------------------------------------
(* The commands of a transaction's client.                                  *)

SetKey(k, st) == kv' = [kv EXCEPT ![k] = st]

\* commands/acquire_pessimistic_lock.rs. The answer may reach the client or be lost.
AcquirePessimisticLockCmd(t, k, f, answered) ==
    LET r == AcquirePessimisticLock(kv[k], start[t], Primary[t], f, t \in ForceLock)
        taken == /\ answered /\ r.res = "ok"
                 /\ phase[t] = "executing" /\ f = ForUpdateTs(t) /\ held[t][k] = 0
    IN  /\ <<k, f>> \in lockReq[t]
        /\ SetKey(k, r.st)
        /\ IF t \in NeedValue THEN UpdateMaxTs(k, f) ELSE UNCHANGED maxTs
        /\ held' = IF taken THEN [held EXCEPT ![t][k] = r.ts] ELSE held
        /\ UNCHANGED <<synced, cache, transfers, tso, start, phase, futs, lockReq, acks, commitReq,
                       outcome, resolver, reader>>

\* commands/pessimistic_rollback.rs: sent for the locks of a statement that is retried,
\* and for all of them when the client gives up.
PessimisticRollbackCmd(t, k, f) ==
    /\ k \in LockKeys[t]
    /\ f \in futs[t]
    /\ \/ f < ForUpdateTs(t) /\ (held[t][k] = 0 \/ f < held[t][k])
       \/ phase[t] \in {"cancelled", "aborted"}
    /\ SetKey(k, PessimisticRollback(kv[k], start[t], f))
    /\ UNCHANGED <<maxTs, synced, cache, transfers, tso, client, resolver, reader>>

\* The prewrite request of transaction t for key k.
PrewriteRequest(t, k, retry) ==
    [key |-> k, start_ts |-> start[t], primary |-> Primary[t], mode |-> Mode[t], kind |-> "put",
     min_commit_ts |-> MaxOf(start[t], ForUpdateTs(t)) + 1, max_commit_ts |-> MaxCommitTs[t],
     for_update_ts |-> ForUpdateTs(t),
     action |-> IF k \in LockKeys[t] THEN "check" ELSE "skip",
     expected_for_update_ts |-> IF t \in ForceLock THEN held[t][k] ELSE 0,
     is_retry_request |-> retry \/ (~Optimistic(t) /\ start[t] \in cache[k])]

\* commands/prewrite.rs, Prewriter::process_write for a request with one mutation.
\* An error may make the client give up; with async commit or 1PC only an error that stays:
\* after PessimisticLockNotFound another copy of the request may still be amended.
PrewriteCmd(t, k, retry) ==
    LET r == Prewrite(kv[k], PrewriteRequest(t, k, retry), maxTs[k])
        failed == phase[t] = "prewriting" /\ r.res \notin {"ok", "KeyIsLocked"}
                  /\ (Mode[t] # "2pc" => r.res = "WriteConflict")
    IN  /\ phase[t] \notin {"idle", "executing", "cancelled"}
        /\ k \in KeysOf[t]
        /\ Mode[t] # "2pc" => synced[k]
        /\ SetKey(k, r.st)
        /\ acks' = IF r.res = "ok" THEN [acks EXCEPT ![t] = @ \cup {<<k, r.ts>>}] ELSE acks
        /\ cache' = IF r.res = "ok" /\ Mode[t] = "1pc" /\ r.ts # 0
                    THEN [cache EXCEPT ![k] = @ \cup {start[t]}] ELSE cache
        /\ \E aborts \in BOOLEAN :
              phase' = IF failed /\ aborts THEN [phase EXCEPT ![t] = "aborted"] ELSE phase
        /\ UNCHANGED <<maxTs, synced, transfers, tso, start, futs, lockReq, held, commitReq, outcome,
                       resolver, reader>>

\* commands/commit.rs: on the primary with a timestamp the client got, on any key once
\* the client knows the transaction is committed.
CommitCmd(t, k, c) ==
    LET r == Commit(kv[k], start[t], c)
        answers == k = Primary[t] /\ phase[t] = "committing" /\ c = Max(commitReq[t])
    IN  /\ k \in KeysOf[t]
        /\ \/ k = Primary[t] /\ c \in commitReq[t]
           \/ c = outcome[t] /\ c # 0
        /\ SetKey(k, r.st)
        /\ cache' = IF r.res = "ok" THEN [cache EXCEPT ![k] = @ \cup {start[t]}] ELSE cache
        /\ phase' = IF ~answers THEN phase
                    ELSE [phase EXCEPT ![t] = CASE r.res = "ok" -> "committed"
                                                [] r.res = "CommitTsExpired" -> "prewritten"
                                                [] r.res = "TxnLockNotFound" -> "aborted"]
        /\ outcome' = IF answers /\ r.res = "ok" THEN [outcome EXCEPT ![t] = c] ELSE outcome
        /\ UNCHANGED <<maxTs, synced, transfers, tso, start, futs, lockReq, held, acks, commitReq,
                       resolver, reader>>

\* commands/rollback.rs: the client that gave up rolls back every key.
RollbackCmd(t, k) ==
    /\ phase[t] = "aborted"
    /\ k \in KeysOf[t]
    /\ SetKey(k, Cleanup(kv[k], k, start[t], FALSE, FALSE, FALSE).st)
    /\ UNCHANGED <<maxTs, synced, cache, transfers, tso, client, resolver, reader>>

-----------------------------------------------------------------------------
(* The resolvers: other clients that met a lock of transaction t.           *)

\* A lock of t is, or was, there to be met.
Seen(t) == start[t] # 0 /\ (acks[t] # {} \/ \E k \in Keys : kv[k].lock.ts = start[t])

\* What a resolver learns from an answer about the whole transaction.
Learn(t, r) ==
    learned' = CASE r.res = "Committed" -> [learned EXCEPT ![t] = @ \cup {r.ts}]
                 [] r.res \in {"RolledBack", "TtlExpire", "LockNotExist"} ->
                        [learned EXCEPT ![t] = @ \cup {0}]
                 [] r.res \in {"PessimisticRollBack", "LockNotExistDoNothing"} ->
                        [learned EXCEPT ![t] = @ \cup {PessimisticOnly}]
                 [] OTHER -> learned

\* known_txn_status: the store caches that the transaction is committed.
CacheCommitted(t, k, r) ==
    cache' = IF r.res = "Committed" THEN [cache EXCEPT ![k] = @ \cup {start[t]}] ELSE cache

\* commands/cleanup.rs on the primary key. Clients that resolve locks with it are older than
\* async commit: it rolls back an expired lock without looking at use_async_commit.
CleanupCmd(t, expired) ==
    LET k == Primary[t]
        r == Cleanup(kv[k], k, start[t], TRUE, expired, TRUE)
    IN  /\ Seen(t)
        /\ Mode[t] # "async"
        /\ UpdateMaxTs(k, start[t])
        /\ SetKey(k, r.st)
        /\ Learn(t, r)
        /\ UNCHANGED <<synced, cache, transfers, tso, client, primarySeen, secondary, reader>>

\* commands/check_txn_status.rs, sent by reader rd (or by a writer, "none") that met a lock.
\* The resolver forces the synchronous path when it met a lock that had fallen back.
CheckTxnStatusCmd(t, rd, expired, current_ts, force, resolvingPessimistic, rollbackIfNotExist) ==
    LET k == Primary[t]
        caller == IF rd \in Readers THEN readTs[rd] ELSE 0
        r == IF kv[k].lock.ts = start[t]
             THEN CheckTxnStatusLockExists(kv[k], k, start[t], expired, current_ts, caller, force,
                                           resolvingPessimistic, rollbackIfNotExist)
             ELSE CheckTxnStatusMissingLock(kv[k], start[t], kv[k].lock,
                      IF rollbackIfNotExist THEN "ProtectedRollback" ELSE "ReturnError",
                      resolvingPessimistic)
    IN  /\ Seen(t)
        /\ rd \in Readers => readTs[rd] > 0
        /\ force => \E a \in secondary[t] : a[2] = "LockedSync"
        /\ resolvingPessimistic => ~Optimistic(t)
        /\ UpdateMaxTs(k, MaxOf(MaxOf(start[t], current_ts), caller))
        /\ SetKey(k, r.st)
        /\ CacheCommitted(t, k, r)
        /\ Learn(t, r)
        /\ primarySeen' = IF r.res = "Async" THEN [primarySeen EXCEPT ![t] = @ \cup {r.ts}] ELSE primarySeen
        /\ bypass' = IF r.res = "Pushed" THEN [bypass EXCEPT ![rd] = @ \cup {start[t]}] ELSE bypass
        /\ UNCHANGED <<synced, transfers, tso, client, secondary, readTs, got>>

\* commands/check_secondary_locks.rs for one secondary of an async-commit primary lock.
CheckSecondaryLocksCmd(t, k) ==
    LET r == CheckSecondaryLock(kv[k], start[t])
    IN  /\ primarySeen[t] # {}
        /\ k \in KeysOf[t] \ {Primary[t]}
        /\ UpdateMaxTs(k, start[t])
        /\ SetKey(k, r.st)
        /\ CacheCommitted(t, k, r)
        /\ secondary' = [secondary EXCEPT ![t] = @ \cup {<<k, r.res, r.ts>>}]
        /\ UNCHANGED <<synced, transfers, tso, client, learned, primarySeen, reader>>

\* Mutant: the commit_ts is the primary's min_commit_ts, whatever the secondaries have.
ConcludeFromPrimary(t) ==
    /\ \E m \in primarySeen[t] :
          /\ \A k \in KeysOf[t] \ {Primary[t]} : \E a \in secondary[t] : a[1] = k /\ a[2] = "Locked"
          /\ learned' = [learned EXCEPT ![t] = @ \cup {m}]
    /\ UNCHANGED <<store, tso, client, primarySeen, secondary, reader>>

\* Mutant: the secondaries are not waited for.
ConcludeUnchecked(t) ==
    /\ \E m \in primarySeen[t] : learned' = [learned EXCEPT ![t] = @ \cup {m}]
    /\ UNCHANGED <<store, tso, client, primarySeen, secondary, reader>>

\* The resolver concludes from the answers of the secondaries: committed at the largest
\* min_commit_ts if all are locked, else what the first finished one says.
Conclude(t) ==
    /\ \/ \E a \in secondary[t] :
            /\ a[2] \in {"Committed", "RolledBack"}
            /\ learned' = [learned EXCEPT ![t] = @ \cup {a[3]}]
       \/ \E m \in primarySeen[t], f \in [KeysOf[t] \ {Primary[t]} -> Timestamps] :
            /\ \A k \in KeysOf[t] \ {Primary[t]} : <<k, "Locked", f[k]>> \in secondary[t]
            /\ learned' = [learned EXCEPT ![t] =
                              @ \cup {Max({m} \cup {f[k] : k \in KeysOf[t] \ {Primary[t]}})}]
    /\ UNCHANGED <<store, tso, client, primarySeen, secondary, reader>>

\* commands/resolve_lock_lite.rs on key k: commit it at c, or roll it back (c = 0).
ResolveKey(t, k, c) ==
    IF c = 0 THEN Cleanup(kv[k], k, start[t], FALSE, FALSE, FALSE) ELSE Commit(kv[k], start[t], c)

\* commands/resolve_lock.rs, or the lite one, for a lock met on key k.
ResolveLockCmd(t, k, c) ==
    LET r == ResolveKey(t, k, c)
    IN  /\ c \in learned[t] \ {PessimisticOnly}
        /\ kv[k].lock.ts = start[t] \/ \E a \in acks[t] : a[1] = k
        /\ SetKey(k, r.st)
        /\ cache' = IF c # 0 /\ r.res = "ok" THEN [cache EXCEPT ![k] = @ \cup {start[t]}] ELSE cache
        /\ UNCHANGED <<maxTs, synced, transfers, tso, client, resolver, reader>>

\* commands/pessimistic_rollback.rs sent by a resolver, whatever the for_update_ts.
ResolvePessimisticLockCmd(t, k) ==
    /\ learned[t] # {}
    /\ k \in LockKeys[t]
    /\ SetKey(k, PessimisticRollback(kv[k], start[t], MaxTso + 1))
    /\ UNCHANGED <<maxTs, synced, cache, transfers, tso, client, resolver, reader>>

-----------------------------------------------------------------------------
(* Reads and the store.                                                     *)

BeginRead(r) ==
    /\ readTs[r] = 0
    /\ r \in Active
    /\ NextTs
    /\ readTs' = [readTs EXCEPT ![r] = tso']
    /\ UNCHANGED <<store, client, resolver, bypass, got>>

\* A point get: prepare_snap_ctx updates max_ts, then the lock and the writes are read.
Read(r, k) ==
    /\ readTs[r] # 0
    /\ got[r][k] = -1
    /\ UpdateMaxTs(k, readTs[r])
    /\ got' = IF BlocksRead(kv[k].lock, readTs[r], bypass[r]) THEN got
              ELSE [got EXCEPT ![r][k] = VisibleAt(kv[k].writes, readTs[r])]
    /\ UNCHANGED <<kv, synced, cache, transfers, tso, client, resolver, readTs, bypass>>

\* Mutant: the new leader does not clear the sync status.
TransferLeaderStaysSynced(k) ==
    /\ transfers < MaxTransfers
    /\ transfers' = transfers + 1
    /\ maxTs' = [maxTs EXCEPT ![k] = 0]
    /\ cache' = [cache EXCEPT ![k] = {}]
    /\ UNCHANGED <<kv, synced, tso, client, resolver, reader>>

\* The region's leader moves to a store that knows neither max_ts nor the cached statuses;
\* Peer::require_updating_max_ts clears the sync status.
TransferLeader(k) ==
    /\ transfers < MaxTransfers
    /\ transfers' = transfers + 1
    /\ maxTs' = [maxTs EXCEPT ![k] = 0]
    /\ synced' = [synced EXCEPT ![k] = FALSE]
    /\ cache' = [cache EXCEPT ![k] = {}]
    /\ UNCHANGED <<kv, tso, client, resolver, reader>>

\* The pd worker's handle_update_max_timestamp fetches a timestamp for the new leader.
SyncMaxTs(k) ==
    /\ ~synced[k]
    /\ NextTs
    /\ UpdateMaxTs(k, tso')
    /\ synced' = [synced EXCEPT ![k] = TRUE]
    /\ UNCHANGED <<kv, cache, transfers, client, resolver, reader>>

\* A pessimistic lock that was only in memory, or whose pipelined write failed, is lost.
LosePessimisticLock(k) ==
    /\ Volatile
    /\ IsPessimisticLock(kv[k].lock)
    /\ SetKey(k, Unlock(kv[k]))
    /\ UNCHANGED <<maxTs, synced, cache, transfers, tso, client, resolver, reader>>

-----------------------------------------------------------------------------
ClientNext(t) ==
    \/ Begin(t) \/ StartPrewrite(t) \/ PrewriteDone(t) \/ GetCommitTs(t) \/ GiveUp(t)
    \/ \E K \in SUBSET LockKeys[t] : NewStatement(t, K)
    \/ \E k \in LockKeys[t], f \in futs[t] :
          \/ \E answered \in BOOLEAN : AcquirePessimisticLockCmd(t, k, f, answered)
          \/ PessimisticRollbackCmd(t, k, f)
    \/ \E k \in KeysOf[t] :
          \/ \E retry \in BOOLEAN : PrewriteCmd(t, k, retry)
          \/ \E c \in commitReq[t] \cup {outcome[t]} : CommitCmd(t, k, c)
          \/ RollbackCmd(t, k)

ResolverNext(t) ==
    \/ Conclude(t)
    \/ \E expired \in BOOLEAN : CleanupCmd(t, expired)
    \/ \E rd \in Readers \cup {"none"}, current_ts \in {0, tso},
          expired, force, resolvingPessimistic, rollbackIfNotExist \in BOOLEAN :
          CheckTxnStatusCmd(t, rd, expired, current_ts, force, resolvingPessimistic, rollbackIfNotExist)
    \/ \E k \in KeysOf[t] : CheckSecondaryLocksCmd(t, k)
    \/ \E k \in KeysOf[t], c \in learned[t] : ResolveLockCmd(t, k, c)
    \/ \E k \in LockKeys[t] : ResolvePessimisticLockCmd(t, k)

Next ==
    /\ UNCHANGED workload
    /\ \/ \E t \in Txns : ClientNext(t) \/ ResolverNext(t)
       \/ \E r \in Readers : BeginRead(r) \/ \E k \in Keys : Read(r, k)
       \/ \E k \in Keys : TransferLeader(k) \/ SyncMaxTs(k) \/ LosePessimisticLock(k)

Spec == Init /\ [][Next]_vars

-----------------------------------------------------------------------------
(* Properties.                                                              *)

LockType == [ts : Timestamps, kind : {"none", "put", "pessimistic"}, primary : Keys \cup {0},
             min_commit_ts : Nat, for_update_ts : Nat, use_async_commit : BOOLEAN,
             with_conflict : BOOLEAN, rollback_ts : SUBSET Timestamps]
WriteType == [commit_ts : Nat, start_ts : Timestamps, type : {"put", "rollback"},
              overlapped : BOOLEAN, protected : BOOLEAN]

\* Every piece of state is of its kind, and CF_WRITE has one record per key and commit_ts.
TypeOK ==
    /\ \A k \in Keys :
          /\ kv[k].lock \in LockType
          /\ \A w \in kv[k].writes : w \in WriteType
          /\ \A v, w \in kv[k].writes : v.commit_ts = w.commit_ts => v = w
    /\ maxTs \in [Keys -> 0 .. tso]
    /\ phase \in [Txns -> {"idle", "executing", "cancelled", "prewriting", "prewritten",
                           "committing", "committed", "aborted"}]
    /\ \A t \in Txns : start[t] <= tso /\ \A a \in acks[t] : a[1] \in KeysOf[t] /\ a[2] <= tso + 1

Committed(t, k) == IsCommitted(kv[k].writes, start[t])
RolledBack(t, k) == \E w \in kv[k].writes : RollbackMark(w, start[t])

\* A transaction is never committed on one key and rolled back on another, or both on
\* the same: prewrite, commit, rollback, check_txn_status, check_secondary_locks and
\* resolve_lock, delayed and repeated, agree on its fate.
AllOrNothing ==
    \A t \in Txns : start[t] # 0 =>
        ~(\E j, k \in KeysOf[t] : Committed(t, j) /\ RolledBack(t, k))

\* The commit records of a transaction have one commit_ts on all its keys, whoever
\* committed them: the client, or resolvers of an async-commit transaction. If the client
\* reported a commit_ts it is that one, and a key without a record still has a prewrite
\* lock that can be committed at it.
OneCommitTs ==
    \A t \in Txns : start[t] # 0 =>
        /\ \A j, k \in KeysOf[t] :
              \A v \in CommitRecord(kv[j].writes, start[t]), w \in CommitRecord(kv[k].writes, start[t]) :
                  v.commit_ts = w.commit_ts
        /\ outcome[t] # 0 => \A k \in KeysOf[t] :
              \/ \E w \in CommitRecord(kv[k].writes, start[t]) : w.commit_ts = outcome[t]
              \/ /\ kv[k].lock.ts = start[t] /\ kv[k].lock.kind = "put"
                 /\ kv[k].lock.min_commit_ts <= outcome[t]

\* A finished transaction has no lock on a key that holds its record: a late prewrite or lock
\* request does not lock again. rollback_lock panics on a commit record beside the lock, and
\* check_status_from_lock (unwrap_none) on a commit or a rollback record beside a pessimistic
\* lock. Only a lock with conflict may be stale, and those functions test for it.
NoLockBesideRecord ==
    \A t \in Txns, k \in Keys :
        start[t] # 0 /\ kv[k].lock.ts = start[t] /\ ~kv[k].lock.with_conflict
            => ~IsCommitted(kv[k].writes, start[t]) /\ ~IsRolledBack(kv[k].writes, start[t])

\* Snapshot isolation: what a read returned is what its timestamp shows for ever. No
\* transaction commits later at or below a timestamp already read at, neither with a
\* calculated commit_ts (max_ts) nor after the reader bypassed its lock (min_commit_ts).
SnapshotReads ==
    \A r \in Readers, k \in Keys :
        got[r][k] # -1 => got[r][k] = VisibleAt(kv[k].writes, readTs[r])

\* The version up to which transaction t knows key k: its snapshot, or its lock.
KnownUpTo(t, k) == IF k \in LockKeys[t] THEN held[t][k] ELSE start[t]

\* The commit timestamps of the other transactions on key k: those of the records,
\* and those the clients were told of, whose record may have been overwritten.
OtherCommits(t, k) ==
    {w.commit_ts : w \in {v \in kv[k].writes : v.type = "put" /\ v.start_ts # start[t]}}
        \cup {outcome[u] : u \in {v \in Txns \ {t} : k \in KeysOf[v] /\ outcome[v] # 0}}

\* No lost update: from the version a transaction knew of a key up to its own commit
\* nobody else committed. Keys that are not locked in a pessimistic transaction are
\* protected by their row key and excepted.
NoLostUpdate ==
    \A t \in Txns, k \in Keys :
        start[t] # 0 /\ (Optimistic(t) \/ k \in LockKeys[t]) =>
            \A c \in CommitRecord(kv[k].writes, start[t]), ts \in OtherCommits(t, k) :
                ~(KnownUpTo(t, k) < ts /\ ts <= c.commit_ts)

\* A protected rollback of the transaction on the key.
Protected(t, k) ==
    \E w \in kv[k].writes : w.commit_ts = start[t] /\ (w.overlapped \/ w.protected)

\* A protected rollback is never overwritten or collapsed: no commit, 1PC included,
\* takes its place in CF_WRITE without carrying the mark on.
ProtectedStays ==
    [][\A t \in Txns, k \in Keys : start[t] # 0 /\ Protected(t, k) => Protected(t, k)']_vars

\* Once CheckSecondaryLocks answered that the transaction is rolled back on a key, the
\* key is never prewritten or committed by it: the resolver acts on that answer.
SecondaryAnswerStays ==
    \A t \in Txns : \A a \in secondary[t] :
        a[2] = "RolledBack" =>
            /\ ~Committed(t, a[1])
            /\ ~(kv[a[1]].lock.ts = start[t] /\ kv[a[1]].lock.kind = "put")

\* max_ts of a leader with synced status is above every timestamp read at on that region.
\* The inductive core of SnapshotReads.
MaxTsCoversReads ==
    \A r \in Readers, k \in Keys : got[r][k] # -1 /\ synced[k] => maxTs[k] >= readTs[r]

=============================================================================
