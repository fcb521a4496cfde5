------------------------------ MODULE ResolvedTs ------------------------------
(***************************************************************************)
(* The resolved timestamp of a region (components/resolved_ts) and the     *)
(* safe_ts of its replicas (RegionReadProgress in raftstore).              *)
(*                                                                         *)
(* On the leader an endpoint thread tracks the locks of the region from a  *)
(* scan and from the applied commands. A worker takes a timestamp from PD, *)
(* lowers it to the oldest memory lock, asks the other stores whether the  *)
(* peer still leads, and lets the endpoint publish (tracked_index,         *)
(* resolved_ts). Replicas receive the published item with the same         *)
(* question and serve stale reads up to their safe_ts once they have       *)
(* applied that index.                                                     *)
(*                                                                         *)
(* Raft is a log of committed entries, a leader with a term, and each      *)
(* voter's knowledge of the leader. The start_ts of transaction t is t.    *)
(***************************************************************************)
EXTENDS Integers, Sequences, FiniteSets, FiniteSetsExt, SequencesExt, TxnStatusCache,
        RegionReadProgress

CONSTANTS
    Stores,      \* the stores whose replica applies the log
    Voters,      \* all stores with a voter of the region
    Txns,        \* the start_ts of the transactions
    Keys,        \* keys, numbers; the smallest key of a transaction is its primary
    Workloads    \* records: the kind and the keys of each transaction, those rolled back, the
                 \* bounds tso (timestamps), scans (observe ids), pushes (of a min_commit_ts),
                 \* transfers (of the leader, with votes of electors) and splits, and whether there are failures
                 \* (of scans), evicts (from the caches) and late requests, and the region is ready

ASSUME ResolvedTsAssumption ==
    /\ Stores \subseteq Voters
    /\ Txns \subseteq Nat \ {0} /\ Keys \subseteq Nat

VARIABLES
    workload,
    tso,        \* the last timestamp of PD
    txn,        \* [commit_ts, min_commit_ts] of every transaction at its client
    known,      \* the states of large transactions that clients may broadcast
    log,        \* the committed entries [op, t, k, ts, by]
    lead,       \* the leader of the largest term, [store, term]
    told,       \* LocalLeaderInfo of every voter, [leader, term, ver]
    maxTs,      \* max_ts of the concurrency manager of every store
    synced,     \* is_max_ts_synced of every store
    mem,        \* memory locks [s, t, k, ts, idx] with the index of their write
    cache,      \* the TxnStatusCache of every store
    applied,    \* the index the apply thread of every store has applied
    observing,  \* the observe id of the apply delegate, 0: not observing
    rrp,        \* the RegionReadProgress of every store
    queue,      \* the tasks of the endpoint of every store
    region,     \* the ObserveRegion of every store, its id is 0 if there is none
    scan,       \* the scan tasks of every store
    nextId,     \* the last observe id
    adv,        \* the advance worker of every store
    infos,      \* CheckLeader requests on their way
    skipped     \* transactions whose 1PC entry a draining resolver passed over (history)

client == <<workload, tso, txn, known>>
raft == <<log, lead, told>>
store == <<maxTs, synced, mem, cache>>
peer == <<applied, observing, rrp>>
endpoint == <<queue, region, scan, nextId>>
worker == <<adv, infos>>
vars == <<client, raft, store, peer, endpoint, worker, skipped>>

-----------------------------------------------------------------------------
(* The log.                                                                 *)

Entry(op, t, k, ts, by) == [op |-> op, t |-> t, k |-> k, ts |-> ts, by |-> by]

Indices(ops, t, k) == {i \in DOMAIN log : log[i].op \in ops /\ log[i].t = t /\ log[i].k = k}

Has(ops, t, k) == Indices(ops, t, k) # {}

\* The entries of rollbacks; an overlapped one rewrites the record of another transaction.
Rollbacks == {"rollback", "overlapped"}

\* The transaction whose lock key k has after the first n entries, 0 if there is none.
LockAt(n, k) ==
    LET held == {t \in Txns :
            \E i \in 1 .. n : /\ log[i].op = "prewrite" /\ log[i].t = t /\ log[i].k = k
                              /\ \A j \in i .. n : ~(log[j].op \in {"commit"} \cup Rollbacks
                                                     /\ log[j].t = t /\ log[j].k = k)}
    IN  IF held = {} THEN 0 ELSE CHOOSE t \in held : TRUE

Kind(t) == workload.kind[t]

KeysOf(t) == workload.keys[t]

Primary(t) == Min(KeysOf(t))

\* The split entries among the first n: the version of the region's epoch.
VersionAt(n) == Cardinality({i \in 1 .. n : log[i].op = "split"})

\* The leader has applied an entry of its term and no command holds the latch of k.
CanServe(s) ==
    /\ lead.store = s /\ told[s].leader = s
    /\ \E i \in 1 .. applied[s] : log[i].op = "noop" /\ log[i].ts = lead.term

Unlatched(s, k) ==
    /\ \A i \in applied[s] + 1 .. Len(log) : log[i].k # k
    /\ \A m \in mem : m.s = s => m.k # k

-----------------------------------------------------------------------------
(* Transactions: the clients (external), and of the commands of storage/txn *)
(* what the resolver sees of them.                                          *)

NextTs == tso + 1

Append1(e) == log' = Append(log, e)

Decided(t) == \E k \in KeysOf(t) : Has({"commit", "1pc"}, t, k)

\* All keys of t are locked: an async-commit transaction is committed from then on.
Prewritten(t) == \A k \in KeysOf(t) : Has({"prewrite"}, t, k) /\ ~Has(Rollbacks, t, k)

\* The client has the response to every prewrite, which follows the application.
Acknowledged(t) ==
    \A k \in KeysOf(t) : \E i \in Indices({"prewrite"}, t, k) : i <= applied[log[i].by]

\* The largest min_commit_ts of the locks of an async-commit transaction, or the
\* timestamp the client took after the prewrites.
CommitTs(t) ==
    IF Kind(t) = "async"
    THEN Max({0} \cup {log[i].ts : i \in UNION {Indices({"prewrite"}, t, k) : k \in KeysOf(t)}})
    ELSE txn[t].commit_ts

\* No lock, no record of t and no newer version on k.
PrewriteOk(t, k) ==
    /\ LockAt(Len(log), k) = 0
    /\ ~Has({"prewrite", "1pc"} \cup Rollbacks, t, k)
    /\ \A i \in DOMAIN log : log[i].op \in {"commit", "1pc"} /\ log[i].k = k => log[i].ts <= t

Prewrite(s, t, k) ==
    /\ Kind(t) \in {"2pc", "large"} /\ k \in KeysOf(t)
    /\ CanServe(s) /\ Unlatched(s, k) /\ PrewriteOk(t, k)
    /\ Append1(Entry("prewrite", t, k, 0, s))
    /\ UNCHANGED <<client, lead, told, store, peer, endpoint, worker, skipped>>

\* Async commit and 1PC: the min_commit_ts is beyond max_ts and the lock is in memory
\* until the write has been applied.
MemPrewrite(s, t, k) ==
    /\ Kind(t) \in {"async", "1pc"} /\ k \in KeysOf(t)
    /\ CanServe(s) /\ Unlatched(s, k) /\ PrewriteOk(t, k) /\ synced[s]
    /\ mem' = mem \cup {[s |-> s, t |-> t, k |-> k, ts |-> Max({maxTs[s], t}) + 1, idx |-> 0]}
    /\ UNCHANGED <<client, raft, maxTs, synced, cache, peer, endpoint, worker, skipped>>

\* The write of a memory lock reaches Raft, or fails because the leader has changed.
ProposeMem(m) ==
    /\ m \in mem /\ m.idx = 0
    /\ \/ /\ lead.store = m.s /\ \E i \in 1 .. applied[m.s] : log[i].op = "noop" /\ log[i].ts = lead.term
          /\ Append1(Entry(IF Kind(m.t) = "1pc" THEN "1pc" ELSE "prewrite", m.t, m.k, m.ts, m.s))
          /\ mem' = (mem \ {m}) \cup {[m EXCEPT !.idx = Len(log) + 1]}
       \/ /\ lead.store # m.s
          /\ mem' = mem \ {m}
          /\ UNCHANGED log
    /\ UNCHANGED <<client, lead, told, maxTs, synced, cache, peer, endpoint, worker, skipped>>

\* The callback of the applied write drops the guard.
DropGuard(m) ==
    /\ m \in mem /\ m.idx \in 1 .. applied[m.s]
    /\ mem' = mem \ {m}
    /\ UNCHANGED <<client, raft, maxTs, synced, cache, peer, endpoint, worker, skipped>>

\* A commit_ts below the pushed min_commit_ts is refused and the client takes another.
GetCommitTs(t) ==
    /\ Kind(t) \in {"2pc", "large"} /\ Prewritten(t) /\ Acknowledged(t) /\ ~Decided(t)
    /\ txn[t].commit_ts = 0 \/ txn[t].commit_ts < txn[t].min_commit_ts
    /\ tso < workload.tso
    /\ tso' = NextTs
    /\ txn' = [txn EXCEPT ![t].commit_ts = NextTs]
    /\ UNCHANGED <<workload, known, raft, store, peer, endpoint, worker, skipped>>

Commit(s, t, k) ==
    /\ CanServe(s) /\ Unlatched(s, k) /\ k \in KeysOf(t) /\ LockAt(Len(log), k) = t
    /\ \/ Kind(t) = "async" /\ Prewritten(t)
       \/ Decided(t)
       \/ /\ Kind(t) \in {"2pc", "large"} /\ k = Primary(t)
          /\ txn[t].commit_ts # 0 /\ txn[t].commit_ts >= txn[t].min_commit_ts
    /\ Append1(Entry("commit", t, k, CommitTs(t), s))
    /\ known' = [known EXCEPT ![t] = IF Kind(t) = "large" THEN @ \cup {Committed(CommitTs(t))} ELSE @]
    /\ UNCHANGED <<workload, tso, txn, lead, told, store, peer, endpoint, worker, skipped>>

\* make_rollback: a version committed at the start_ts of t gets the mark of a rollback that
\* is protected, as that of a primary is, and hides one that is not.
Overlaps(t, k) == \E i \in DOMAIN log : log[i].op \in {"commit", "1pc"} /\ log[i].k = k /\ log[i].ts = t

Protected(t, k) == k = Primary(t) \/ Kind(t) = "large"

\* Of an undecided transaction, the primary first. The key may be without its lock, or
\* locked by another transaction (check_txn_status_missing_lock).
Rollback(s, t, k) ==
    /\ t \in workload.rollbacks /\ k \in KeysOf(t)
    /\ CanServe(s) /\ Unlatched(s, k)
    /\ ~Decided(t) /\ ~(Kind(t) = "async" /\ Prewritten(t)) /\ ~Has(Rollbacks, t, k)
    /\ k = Primary(t) \/ Has(Rollbacks, t, Primary(t))
    /\ LockAt(Len(log), k) = t \/ ~Overlaps(t, k) \/ Protected(t, k)
    /\ Append1(Entry(IF Overlaps(t, k) /\ Protected(t, k) THEN "overlapped" ELSE "rollback", t, k, 0, s))
    /\ known' = [known EXCEPT ![t] = IF Kind(t) = "large" THEN @ \cup {RolledBack} ELSE @]
    /\ UNCHANGED <<workload, tso, txn, lead, told, store, peer, endpoint, worker, skipped>>

\* The heartbeat of a large transaction pushes the min_commit_ts of its primary lock, to one
\* beyond the last timestamp: it may still become the commit_ts.
PushMinCommitTs(t) ==
    /\ Kind(t) = "large" /\ ~Decided(t) /\ LockAt(Len(log), Primary(t)) = t
    /\ Cardinality(known[t]) < workload.pushes
    /\ txn' = [txn EXCEPT ![t].min_commit_ts = NextTs]
    /\ known' = [known EXCEPT ![t] = @ \cup {Ongoing(NextTs)}]
    /\ UNCHANGED <<workload, tso, raft, store, peer, endpoint, worker, skipped>>

\* update_txn_status_cache: broadcasts are late and come in any order; the last of a
\* finished transaction says that it is completed. Only a leader's cache is read here.
Broadcast(s, t) ==
    /\ told[s].leader = s
    /\ \E state \in known[t], completed \in BOOLEAN :
          /\ completed => state.st # "Ongoing" /\ \A k \in KeysOf(t) : LockAt(Len(log), k) # t
          /\ cache' = [cache EXCEPT ![s] =
                          Upsert(IF completed THEN RemoveLargeTxn(@, t) ELSE @, t, state)]
    /\ cache' # cache
    /\ UNCHANGED <<client, raft, maxTs, synced, mem, peer, endpoint, worker, skipped>>

EvictStatus(s) ==
    /\ workload.evicts
    /\ \E c \in Evictions(cache[s]) : cache' = [cache EXCEPT ![s] = c]
    /\ UNCHANGED <<client, raft, maxTs, synced, mem, peer, endpoint, worker, skipped>>

-----------------------------------------------------------------------------
(* The replicas.                                                            *)

Push(q, s, tasks) == [q EXCEPT ![s] = @ \o tasks]

\* Mutant: only a peer that becomes a candidate is deregistered.
QueueDeregisterNot(v) == UNCHANGED queue

\* on_role_change of the observer, for voter v. A peer that did not lead sends the task as
\* well, but has no region that is registered, or will be when the task is handled.
QueueDeregister(v) ==
    queue' = IF told[v].leader = v THEN Push(queue, v, <<[op |-> "deregister"]>>) ELSE queue

\* Store d wins an election with the vote of w and proposes an empty entry. Both know the
\* new term before the vote is counted. d has been a candidate, and must sync its max_ts.
Election(d, w) ==
    /\ told[d].leader # d /\ lead.store # d /\ w # d /\ lead.term <= workload.transfers
    /\ w \in workload.electors
    /\ lead' = [store |-> d, term |-> lead.term + 1]
    /\ told' = [told EXCEPT ![d].leader = d, ![d].term = lead.term + 1,
                            ![w].leader = 0, ![w].term = lead.term + 1]
    /\ QueueDeregister(w)
    /\ synced' = [synced EXCEPT ![d] = FALSE]
    /\ Append1(Entry("noop", 0, -1, lead.term + 1, d))
    /\ UNCHANGED <<client, maxTs, mem, cache, peer, region, scan, nextId, worker, skipped>>

\* A voter hears of the leader of the current term.
HearLeader(v) ==
    /\ told[v].term < lead.term \/ told[v].leader # lead.store
    /\ told' = [told EXCEPT ![v].leader = lead.store, ![v].term = lead.term]
    /\ QueueDeregister(v)
    /\ UNCHANGED <<client, log, lead, store, peer, region, scan, nextId, worker, skipped>>

\* The PD worker raises max_ts to a timestamp taken after the election.
SyncMaxTs(s) ==
    /\ told[s].leader = s /\ ~synced[s] /\ tso < workload.tso
    /\ tso' = NextTs
    /\ maxTs' = [maxTs EXCEPT ![s] = Max({@, NextTs})]
    /\ synced' = [synced EXCEPT ![s] = TRUE]
    /\ UNCHANGED <<workload, txn, known, raft, mem, cache, peer, endpoint, worker, skipped>>

Split(s) ==
    /\ CanServe(s) /\ VersionAt(Len(log)) < workload.splits
    /\ Append1(Entry("split", 0, -1, 0, s))
    /\ UNCHANGED <<client, lead, told, store, peer, endpoint, worker, skipped>>

\* The apply thread: the data, the change log for the observer, then the callback of the
\* command, which caches the state of a transaction it committed. The peer's part (below)
\* is one step with it unless the peer has more to do than to record the index.
Apply(s) ==
    LET i == applied[s] + 1
        e == log[i]
    IN  /\ i <= Len(log)
        /\ rrp' = IF rrp[s].applied = applied[s] /\ e.op # "split" /\ ~(e.op = "noop" /\ e.by = s)
                  THEN [rrp EXCEPT ![s] = UpdateApplied(@, i)]
                  ELSE rrp
        /\ applied' = [applied EXCEPT ![s] = i]
        /\ queue' = IF observing[s] # 0 /\ e.op # "noop"
                    THEN Push(queue, s, <<[op |-> "log", id |-> observing[s], idx |-> i]>>)
                    ELSE queue
        /\ cache' = IF e.op = "commit" /\ e.by = s /\ Kind(e.t) = "large"
                    THEN [cache EXCEPT ![s] = Upsert(@, e.t, Committed(e.ts))]
                    ELSE cache
        /\ UNCHANGED <<client, raft, maxTs, synced, mem, observing, region, scan, nextId, worker,
                       skipped>>

\* The peer learns the result: the region of a split, the applied index of the read
\* progress, and on a leader the first entry of its term.
PostApply(s) ==
    LET new == rrp[s].applied + 1 .. applied[s]
        ver == VersionAt(applied[s])
        leads == told[s].leader = s
    IN  /\ new # {}
        /\ rrp' = [rrp EXCEPT ![s] = UpdateApplied(@, applied[s])]
        /\ told' = [told EXCEPT ![s].ver = ver]
        /\ queue' = Push(queue, s,
               (IF leads /\ ver # told[s].ver THEN <<[op |-> "updated", ver |-> ver]>> ELSE <<>>)
               \o (IF leads /\ \E i \in new : log[i].op = "noop" /\ log[i].ts = told[s].term
                   THEN <<[op |-> "register", ver |-> ver]>> ELSE <<>>))
        /\ UNCHANGED <<client, log, lead, store, applied, observing, region, scan, nextId, worker,
                       skipped>>

-----------------------------------------------------------------------------
(* The resolver: records r with the locks of normal transactions (locks,    *)
(* from keys to transactions), the large transactions and the key that      *)
(* represents each (large, rep). pend and pidx hold what comes before the   *)
(* scan has ended. passed and finished are history: locks untracked  *)
(* by the rollback of another transaction, and large transactions that are  *)
(* ignored since their outcome was cached or their first key had it.        *)

NoRegion == [id |-> 0]

NewResolver(id, ver) ==
    [id |-> id, ver |-> ver, ready |-> FALSE, pend |-> <<>>, pidx |-> 0,
     locks |-> <<>>, large |-> {}, rep |-> <<>>, resolved_ts |-> 0, tracked_index |-> 0,
     stopped |-> FALSE, passed |-> {}, finished |-> {}]

\* track_lock.
TrackLock(r, t, k, idx) ==
    LET r1 == [r EXCEPT !.tracked_index = idx]
    IN  IF Kind(t) = "large"
        THEN IF t \in r.large THEN r1
             ELSE [r1 EXCEPT !.large = @ \cup {t}, !.rep = (k :> t) @@ @]
        ELSE IF k \in DOMAIN r.locks THEN r1
        ELSE [r1 EXCEPT !.locks = (k :> t) @@ @]

\* untrack_lock: whatever lock the key has. t is the transaction of the row.
UntrackLock(r, t, k, idx) ==
    LET r1 == [r EXCEPT !.tracked_index = idx]
        lost(f) == IF f[k] = t THEN {} ELSE {f[k]}
    IN  IF k \in DOMAIN r.locks
        THEN [r1 EXCEPT !.locks = Drop(@, k), !.passed = @ \cup lost(r.locks)]
        ELSE IF k \in DOMAIN r.rep
        THEN [r1 EXCEPT !.rep = Drop(@, k), !.large = @ \ {r.rep[k]}, !.passed = @ \cup lost(r.rep),
                        !.finished = @ \cup {t}]
        ELSE r1

\* One row of a change log: a prewrite, or a commit or rollback.
TrackRow(r, e, idx) ==
    IF e.op = "prewrite" THEN TrackLock(r, e.t, e.k, idx) ELSE UntrackLock(r, e.t, e.k, idx)

\* Mutant: a large transaction may commit at its min_commit_ts, not beyond it.
OldestOffByOne(r, c) ==
    {r.locks[k] : k \in DOMAIN r.locks}
      \cup {t - 1 : t \in {u \in r.large : Get(c, u) = {}}}
      \cup {st.ts : st \in {x \in UNION {Get(c, t) : t \in r.large} : x.st = "Ongoing"}}

\* oldest_transaction: the smallest commit_ts the tracked locks allow, minus one, is the
\* smallest of these.
Oldest(r, c) ==
    {r.locks[k] : k \in DOMAIN r.locks}
      \cup {t - 1 : t \in {u \in r.large : Get(c, u) = {}}}
      \cup {st.ts - 1 : st \in {x \in UNION {Get(c, t) : t \in r.large} : x.st = "Ongoing"}}

\* resolve.
Resolve(r, c, min_ts) ==
    IF r.stopped THEN r
    ELSE [r EXCEPT !.resolved_ts = Max({@, Min(Oldest(r, c) \cup {min_ts})}),
                   !.finished = @ \cup {t \in r.large : \E st \in Get(c, t) : st.st # "Ongoing"}]

-----------------------------------------------------------------------------
(* The endpoint handles its tasks in order.                                 *)

\* deregister_region: the apply delegate stops observing for the region's id.
StopObserving(s) ==
    observing' = [observing EXCEPT ![s] = IF @ = region[s].id THEN 0 ELSE @]

\* register_region.
Register(s, ver) ==
    /\ nextId < workload.scans
    /\ nextId' = nextId + 1
    /\ region' = [region EXCEPT ![s] = NewResolver(nextId + 1, ver)]
    /\ scan' = [scan EXCEPT ![s] = @ \cup
                   {[id |-> nextId + 1, ver |-> ver, pc |-> "snapshot", idx |-> 0, locks |-> {}]}]

\* re_register_region: with the region of the store's metadata.
ReRegister(s) == StopObserving(s) /\ Register(s, told[s].ver)

Keep(s) == UNCHANGED <<observing, region, scan, nextId>>

HandleRegister(s, task) ==
    /\ task.op = "register"
    /\ Register(s, task.ver)
    /\ UNCHANGED <<observing, rrp, skipped>>

HandleDeRegister(s, task) ==
    /\ task.op = "deregister"
    /\ StopObserving(s)
    /\ region' = [region EXCEPT ![s] = NoRegion]
    /\ UNCHANGED <<scan, nextId, rrp, skipped>>

\* region_updated.
HandleRegionUpdated(s, task) ==
    /\ task.op = "updated"
    /\ IF region[s].id # 0 /\ region[s].ver # task.ver
       THEN StopObserving(s) /\ Register(s, task.ver)
       ELSE Keep(s)
    /\ UNCHANGED <<rrp, skipped>>

HandleReRegister(s, task) ==
    /\ task.op = "reregister"
    /\ IF region[s].id = task.id THEN ReRegister(s) ELSE Keep(s)
    /\ UNCHANGED <<rrp, skipped>>

\* The entries for which encode_rows has a row that locks or unlocks. decode_write drops a
\* rewritten record, and with it the unlocking of the key in the same entry.
HasRow(e) == e.op \in {"prewrite", "commit", "rollback"}

\* track_change_log for one applied entry. While the scan runs, rows are kept, 1PC rows
\* are not, and an admin command starts over.
HandleChangeLog(s, task) ==
    LET r == region[s]
        e == log[task.idx]
    IN  /\ task.op = "log"
        /\ IF r.id # task.id THEN Keep(s)
           ELSE IF ~r.ready /\ e.op = "split" THEN ReRegister(s)
           ELSE /\ region' = [region EXCEPT ![s] =
                    CASE ~r.ready -> [r EXCEPT !.pidx = task.idx,
                                               !.pend = IF HasRow(e) THEN Append(@, e) ELSE @]
                      [] r.ready /\ e.op = "split" -> [r EXCEPT !.stopped = TRUE]
                      [] r.ready /\ e.op = "1pc" -> [r EXCEPT !.tracked_index = task.idx]
                      [] r.ready /\ e.op = "overlapped" -> r
                      [] r.ready /\ HasRow(e) -> TrackRow(r, e, task.idx)]
                /\ UNCHANGED <<observing, scan, nextId>>
        /\ UNCHANGED <<rrp, skipped>>

\* track_scan_locks, ScanEntries::Lock.
HandleScanLocks(s, task) ==
    LET r == region[s]
    IN  /\ task.op = "locks"
        /\ region' = [region EXCEPT ![s] =
               IF r.id # task.id THEN r
               ELSE FoldSet(LAMBDA l, a : TrackLock(a, l[2], l[1], task.idx), r, task.locks)]
        /\ UNCHANGED <<observing, scan, nextId, rrp, skipped>>

\* Mutant: what came while the scan ran is thrown away.
HandleScanDoneForgets(s, task) ==
    LET r == region[s]
    IN  /\ task.op = "done"
        /\ region' = [region EXCEPT ![s] =
               IF r.id # task.id THEN r
               ELSE [r EXCEPT !.ready = TRUE, !.pend = <<>>,
                              !.tracked_index = IF r.pend = <<>> THEN task.idx ELSE r.pidx]]
        /\ UNCHANGED <<observing, scan, nextId, rrp, skipped>>

\* ScanEntries::None: the region is ready; the rows kept are replayed with the last index.
HandleScanDone(s, task) ==
    LET r == region[s]
        r1 == [r EXCEPT !.tracked_index = task.idx, !.ready = TRUE, !.pend = <<>>]
    IN  /\ task.op = "done"
        /\ region' = [region EXCEPT ![s] =
               IF r.id # task.id THEN r
               ELSE FoldLeft(LAMBDA a, e : TrackRow(a, e, r.pidx), r1, r.pend)]
        /\ skipped' = IF r.id = task.id /\ r.pend = <<>>
                      THEN skipped \cup {log[i].t : i \in {j \in task.idx + 1 .. r.pidx :
                                                              log[j].op = "1pc"}}
                      ELSE skipped
        /\ UNCHANGED <<observing, scan, nextId, rrp>>

\* handle_resolved_ts_advanced: resolve, and publish to the read progress.
HandleAdvanced(s, task) ==
    LET r == Resolve(region[s], cache[s], task.ts)
    IN  /\ task.op = "advanced"
        /\ IF region[s].id # 0 /\ region[s].ready
           THEN /\ region' = [region EXCEPT ![s] = r]
                /\ rrp' = IF r.stopped THEN rrp
                          ELSE [rrp EXCEPT ![s] = UpdateSafeTs(@, r.tracked_index, r.resolved_ts)]
           ELSE UNCHANGED <<region, rrp>>
        /\ UNCHANGED <<observing, scan, nextId, skipped>>

\* The memory quota is exceeded while rows or locks are tracked.
HandleQuotaExceeded(s, task) ==
    /\ workload.failures /\ task.op \in {"log", "locks", "done"} /\ task.id = region[s].id
    /\ ReRegister(s)
    /\ UNCHANGED <<rrp, skipped>>

Endpoint(s) ==
    /\ queue[s] # <<>>
    /\ queue' = [queue EXCEPT ![s] = Tail(@)]
    /\ LET task == Head(queue[s])
       IN  \/ HandleRegister(s, task)
           \/ HandleDeRegister(s, task)
           \/ HandleRegionUpdated(s, task)
           \/ HandleReRegister(s, task)
           \/ HandleChangeLog(s, task)
           \/ HandleScanLocks(s, task)
           \/ HandleScanDone(s, task)
           \/ HandleAdvanced(s, task)
           \/ HandleQuotaExceeded(s, task)
    /\ UNCHANGED <<client, raft, store, applied, worker>>

-----------------------------------------------------------------------------
(* The scanner.                                                             *)

Rescan(s, task, tasks) == scan' = [scan EXCEPT ![s] = (@ \ {task}) \cup tasks]

\* get_snapshot: capture_change asks the leader, then the apply delegate, which refuses a
\* wrong epoch and an older observe id. A cancelled task ends, any error re-registers.
CaptureChange(s, task) ==
    /\ task \in scan[s] /\ task.pc = "snapshot"
    /\ IF region[s].id # task.id
       THEN Rescan(s, task, {}) /\ UNCHANGED <<observing, queue>>
       ELSE IF CanServe(s) /\ VersionAt(applied[s]) = task.ver /\ observing[s] <= task.id
       THEN /\ observing' = [observing EXCEPT ![s] = task.id]
            /\ Rescan(s, task,
                   {[task EXCEPT !.pc = "locks", !.idx = applied[s],
                                 !.locks = {<<k, LockAt(applied[s], k)>> :
                                              k \in {x \in Keys : LockAt(applied[s], x) # 0}}]})
            /\ UNCHANGED queue
       ELSE /\ Rescan(s, task, {})
            /\ queue' = Push(queue, s, <<[op |-> "reregister", id |-> task.id]>>)
            /\ UNCHANGED observing
    /\ UNCHANGED <<client, raft, store, applied, rrp, region, nextId, worker, skipped>>

ScanFails(s, task) ==
    /\ workload.failures /\ task \in scan[s] /\ task.pc \in {"snapshot", "locks"}
    /\ Rescan(s, task, {})
    /\ queue' = Push(queue, s, <<[op |-> "reregister", id |-> task.id]>>)
    /\ UNCHANGED <<client, raft, store, peer, region, nextId, worker, skipped>>

\* send_entries, for the locks and then for the end of the scan.
SendEntries(s, task) ==
    /\ task \in scan[s] /\ task.pc \in {"locks", "none"}
    /\ IF task.pc = "locks"
       THEN /\ queue' = Push(queue, s, <<[op |-> "locks", id |-> task.id, idx |-> task.idx,
                                          locks |-> task.locks]>>)
            /\ Rescan(s, task, {[task EXCEPT !.pc = "none"]})
       ELSE /\ queue' = Push(queue, s, <<[op |-> "done", id |-> task.id, idx |-> task.idx]>>)
            /\ Rescan(s, task, {})
    /\ UNCHANGED <<client, raft, store, peer, region, nextId, worker, skipped>>

-----------------------------------------------------------------------------
(* The advance worker: a timestamp of PD, max_ts, the oldest memory lock,   *)
(* the check of the leadership, the task for the endpoint.                  *)

Idle == [pc |-> "idle", ts |-> 0, resps |-> {}]

AdvanceTs(s) ==
    /\ adv[s].pc = "idle" /\ region[s].id # 0 /\ tso < workload.tso
    /\ tso' = NextTs
    /\ adv' = [adv EXCEPT ![s] = [pc |-> "max_ts", ts |-> NextTs, resps |-> {}]]
    /\ UNCHANGED <<workload, txn, known, raft, store, peer, endpoint, infos, skipped>>

\* Mutant: max_ts is left alone.
UpdateMaxTsNot(s) ==
    /\ adv[s].pc = "max_ts"
    /\ adv' = [adv EXCEPT ![s].pc = "lock"]
    /\ UNCHANGED <<client, raft, store, peer, endpoint, infos, skipped>>

UpdateMaxTs(s) ==
    /\ adv[s].pc = "max_ts"
    /\ maxTs' = [maxTs EXCEPT ![s] = Max({@, adv[s].ts})]
    /\ adv' = [adv EXCEPT ![s].pc = "lock"]
    /\ UNCHANGED <<client, raft, synced, mem, cache, peer, endpoint, infos, skipped>>

\* global_min_lock, then resolve of LeadershipResolver: ask the other voters if the store
\* takes its peer for the leader.
MinLock(s) ==
    LET ts == Min({adv[s].ts} \cup {m.t : m \in {x \in mem : x.s = s}})
    IN  /\ adv[s].pc = "lock"
        /\ IF told[s].leader # s THEN adv' = [adv EXCEPT ![s] = Idle] /\ UNCHANGED infos
           ELSE /\ adv' = [adv EXCEPT ![s] = [pc |-> "check", ts |-> ts, resps |-> {s}]]
                /\ infos' = infos \cup {[to |-> v, round |-> ts, leader |-> told[s],
                                         state |-> ReadStateOf(rrp[s])] : v \in Voters \ {s}}
        /\ UNCHANGED <<client, raft, store, peer, endpoint, skipped>>

\* consume_leader_info on a store that gets a request, now or after the round has ended.
\* The read state is used whoever sent it; only the same leader information is confirmed.
CheckLeader(i) ==
    LET s == i.leader.leader
    IN  /\ i \in infos
        /\ infos' = infos \ {i}
        /\ rrp' = IF i.to \in Stores
                  THEN [rrp EXCEPT ![i.to] = UpdateSafeTs(@, i.state.idx, i.state.ts)]
                  ELSE rrp
        /\ adv' = IF adv[s].pc = "check" /\ adv[s].ts = i.round /\ told[i.to] = i.leader
                  THEN [adv EXCEPT ![s].resps = @ \cup {i.to}]
                  ELSE adv
        /\ UNCHANGED <<client, raft, store, applied, observing, endpoint, skipped>>

\* region_has_quorum, for voters.
Confirmed(s) == 2 * Cardinality(adv[s].resps) > Cardinality(Voters)

\* A quorum has confirmed, or the requests have timed out. Requests that have not arrived
\* are lost, or late.
ScheduleAdvanced(s) ==
    /\ adv[s].pc = "check"
    /\ adv' = [adv EXCEPT ![s] = Idle]
    /\ queue' = IF Confirmed(s) THEN Push(queue, s, <<[op |-> "advanced", ts |-> adv[s].ts]>>)
                ELSE queue
    /\ infos' = {i \in infos : i.leader.leader # s \/ (workload.late /\ i.to \in Stores)}
    /\ UNCHANGED <<client, raft, store, peer, region, scan, nextId, skipped>>

-----------------------------------------------------------------------------
\* The first leader is elected and has just applied the first entry of its term, or, in the
\* workloads that begin when it is ready, has registered the region and scanned no lock.
Init ==
    LET s1 == Min(Stores)
    IN  /\ workload \in Workloads
        /\ tso = Max({t \in Txns : KeysOf(t) # {}})
        /\ txn = [t \in Txns |-> [commit_ts |-> 0, min_commit_ts |-> 0]]
        /\ known = [t \in Txns |-> {}]
        /\ lead = [store |-> s1, term |-> 1]
        /\ log = <<Entry("noop", 0, -1, 1, s1)>>
        /\ told = [v \in Voters |-> [leader |-> s1, term |-> 1, ver |-> 0]]
        /\ maxTs = [s \in Stores |-> 0]
        /\ synced = [s \in Stores |-> TRUE]
        /\ mem = {}
        /\ cache = [s \in Stores |-> EmptyCache]
        /\ applied = [s \in Stores |-> IF s = s1 \/ workload.ready THEN 1 ELSE 0]
        /\ observing = [s \in Stores |-> IF s = s1 /\ workload.ready THEN 1 ELSE 0]
        /\ rrp = [s \in Stores |-> [NewProgress EXCEPT !.applied = IF workload.ready THEN 1 ELSE 0]]
        /\ queue = [s \in Stores |-> <<>>]
        /\ region = [s \in Stores |->
               IF s = s1 /\ workload.ready
               THEN [NewResolver(1, 0) EXCEPT !.ready = TRUE, !.tracked_index = 1]
               ELSE NoRegion]
        /\ scan = [s \in Stores |-> {}]
        /\ nextId = IF workload.ready THEN 1 ELSE 0
        /\ adv = [s \in Stores |-> Idle]
        /\ infos = {}
        /\ skipped = {}

ClientStep ==
    \/ \E s \in Stores, t \in Txns, k \in Keys :
          \/ Prewrite(s, t, k) \/ MemPrewrite(s, t, k)
          \/ Commit(s, t, k) \/ Rollback(s, t, k)
    \/ \E m \in mem : ProposeMem(m) \/ DropGuard(m)
    \/ \E t \in Txns : GetCommitTs(t) \/ PushMinCommitTs(t)
    \/ \E s \in Stores, t \in Txns : Broadcast(s, t)
    \/ \E s \in Stores : EvictStatus(s)

RaftStep ==
    \/ \E d \in Stores, w \in Voters : Election(d, w)
    \/ \E v \in Voters : HearLeader(v)
    \/ \E s \in Stores : SyncMaxTs(s) \/ Split(s) \/ Apply(s) \/ PostApply(s)

ResolveStep ==
    \/ \E s \in Stores :
          \/ Endpoint(s)
          \/ \E task \in scan[s] :
                CaptureChange(s, task) \/ ScanFails(s, task) \/ SendEntries(s, task)
          \/ AdvanceTs(s) \/ UpdateMaxTs(s) \/ MinLock(s) \/ ScheduleAdvanced(s)
    \/ \E i \in infos : CheckLeader(i)

Next == ClientStep \/ RaftStep \/ ResolveStep

Spec == Init /\ [][Next]_vars

-----------------------------------------------------------------------------
(* Properties.                                                              *)

Finals == {i \in DOMAIN log : log[i].op \in {"commit", "1pc"}}

ReadyStores == {s \in Stores : region[s].id # 0 /\ region[s].ready}

\* RegionReadProgressCore: pending_items is sorted and within its capacity, and what is
\* published about an index is not visible before the replica has applied it.
TypeOK ==
    /\ \A s \in Stores : Sorted(rrp[s]) /\ rrp[s].applied <= applied[s]
    /\ \A m \in mem : m.s \in Stores /\ m.t \in Txns /\ m.k \in Keys

\* A replica that serves a read at its safe_ts from its own data meets, for every
\* transaction that commits at or below it, the record or at least the lock, whatever the
\* replica lags behind, whoever led and whenever the request with the read state came.
\* Except for transactions whose 1PC entry was applied during a scan (resolver HandleScanDone).
StaleReadSafeBut(excused) ==
    \A s \in Stores, i \in Finals :
       log[i].ts <= rrp[s].state.ts /\ log[i].t \notin excused
          => \E j \in 1 .. applied[s] : /\ log[j].op \in {"prewrite", "1pc"}
                                        /\ log[j].t = log[i].t /\ log[j].k = log[i].k
StaleReadSafe == StaleReadSafeBut(skipped)

\* The same without the exception, "the `read_state` is guaranteed to be valid when it is
\* published by the leader". The code violates it: a resolver that kept nothing but 1PC rows
\* while it scanned publishes the index of the snapshot, and a replica that has applied no
\* more reads at the resolved_ts without the 1PC writes.
ReadStateValid == StaleReadSafeBut({})

\* "no more commit will happen before the timestamp": what commits at or below the
\* resolved_ts of a resolver is at or before its tracked_index. Except for transactions whose
\* lock was untracked by another one's rollback, for large ones whose outcome the
\* resolver has seen on their first key or in the cache, and for the 1PC ones above.
NoLateCommit ==
    \A s \in ReadyStores, i \in Finals :
       LET r == region[s]
       IN  log[i].ts <= r.resolved_ts /\ log[i].t \notin (r.passed \cup r.finished \cup skipped)
              => i <= r.tracked_index

\* The row of another transaction's rollback has untracked the lock of t on k: it is in an
\* entry after the lock.
UntrackedByOther(n, t, k) ==
    \E i \in Indices({"prewrite"}, t, k), j \in 1 .. n :
       i < j /\ log[j].op = "rollback" /\ log[j].k = k /\ log[j].t # t

\* Once ready, what a resolver tracks are the locks of the replica's lock column family at
\* the tracked_index, though the scan and the change log are two sources that overlap: each
\* lock of a normal transaction, and each large transaction with a lock, by a key it has
\* locked, until one of its keys is committed or rolled back. Only the later rollback of
\* another transaction on the key untracks more, and only a rollback that rewrote a record
\* leaves more tracked.
TrackerExact ==
    \A s \in ReadyStores :
       LET r == region[s]
           n == r.tracked_index
           ended(t) == \E i \in 1 .. n : log[i].t = t /\ log[i].op \in {"commit", "rollback"}
       IN  ~r.stopped =>
              /\ \A k \in DOMAIN r.locks : \/ r.locks[k] = LockAt(n, k)
                                           \/ Has({"overlapped"}, r.locks[k], k)
              /\ {r.rep[k] : k \in DOMAIN r.rep} = r.large
              /\ \A k \in DOMAIN r.rep : \/ r.rep[k] = LockAt(n, k)
                                         \/ Has({"overlapped"}, r.rep[k], k)
              /\ \A k \in {x \in Keys : LockAt(n, x) # 0} :
                    LET t == LockAt(n, k)
                    IN  \/ IF Kind(t) = "large" THEN t \in r.large \/ ended(t)
                                               ELSE k \in DOMAIN r.locks
                        \/ \E x \in KeysOf(t) : UntrackedByOther(n, t, x)

\* The assertions of the endpoint and the panic of track_scan_locks: no order of role
\* changes, scans, splits and applied entries makes the head of the queue violate them.
NoPanic ==
    \A s \in Stores : queue[s] # <<>> =>
       LET task == Head(queue[s])
           r == region[s]
       IN  CASE task.op = "register" -> r.id = 0
             [] task.op = "log" /\ r.id = task.id ->
                   IF r.ready THEN r.tracked_index <= task.idx ELSE r.pidx < task.idx
             [] task.op = "locks" /\ r.id = task.id -> ~r.ready /\ r.tracked_index <= task.idx
             [] task.op = "done" /\ r.id = task.id ->
                   ~r.ready /\ r.tracked_index <= task.idx /\ (r.pend # <<>> => task.idx <= r.pidx)
             [] OTHER -> TRUE
=============================================================================
