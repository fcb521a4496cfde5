-------------------------- MODULE DeadlockDetection --------------------------
(***************************************************************************)
(* Deadlock detection in a cluster: lock requests that wait on the stores, *)
(* each store's waiter manager and detector, and the leader detector whose *)
(* table holds the wait-for graph.                                         *)
(*                                                                         *)
(* The threads of a store are its waiter manager (tasks in mgrQ) and its   *)
(* detector (tasks in detQ). A detector that is not the leader sends its   *)
(* tasks through a stream (chan) to the one it takes for the leader, and   *)
(* gets deadlock reports back (resp). A store learns of a change of leader *)
(* at any time after it happened.                                          *)
(*                                                                         *)
(* The queue of a key is module LockWaiting; here a released request may   *)
(* be woken up at any later time. A request is <<txn, key, attempt>>, its  *)
(* lock wait token.                                                        *)
(***************************************************************************)
EXTENDS DetectTable

CONSTANTS Txns,       \* the transactions, by start_ts
          Keys,       \* the keys
          Stores,     \* the stores
          StoreOf,    \* StoreOf[k]: the store with the key's leader
          Workloads   \* what the transactions do; the records are described below

None == 0

ASSUME DetectionAssumption ==
    /\ Txns \subseteq Nat \ {None}
    /\ None \notin Stores
    /\ StoreOf \in [Keys -> Stores]
    /\ \A w \in Workloads : w.holder \in [Keys -> Txns \cup {None}] /\ w.wants \in [Txns -> SUBSET Keys]

VARIABLES workload,   \* the member of Workloads this behaviour is about
          holder,     \* [Keys -> the transaction that has locked the key, or None]
          issued,     \* the requests that had to wait so far
          waiting,    \* the requests in the queues of the keys
          first,      \* the requests with is_first_lock
          released,   \* the requests whose key was unlocked while they waited
          resuming,   \* the requests that are executed again
          canceled,   \* those of them that the waiter manager cancelled
          mgrQ,       \* [Stores -> tasks of the waiter manager]
          pool,       \* [waiter_pool: request -> the transaction it waits for]
          index,      \* [wait_table: <<key, txn>> -> request]
          detQ,       \* [Stores -> tasks of the detector]
          role,       \* [Stores -> "Leader" or "Follower"]
          table,      \* [Stores -> entries of the detect table]
          stale,      \* [Stores -> edges whose ttl has elapsed]
          conn,       \* [Stores -> the store the leader_client is connected to, or None]
          chan,       \* [<<s, d>> -> requests on the streams from store s to store d]
          resp,       \* [Stores -> reports on their way back to the store]
          leader,     \* the store with the leader of the first region
          told,       \* [Stores -> the leader the store's raftstore knows]
          lost,       \* <<request, reason>>: the entry or the waiter of the request was lost
          faults,     \* the number of faults so far
          releases    \* the number of locks released so far

queues == <<holder, issued, waiting, first, released, resuming, canceled>>
managers == <<mgrQ, pool, index>>
detectors == <<detQ, role, table, stale, conn, chan, resp>>
region == <<leader, told>>
vars == <<workload, queues, managers, detectors, region, lost, faults, releases>>

(* The workload. With resend, a client sends a request again while it waits.  *)
Wants == workload.wants          \* Wants[t]: the keys transaction t locks
Resumable == workload.resumable  \* transactions with allow_lock_with_conflict
MaxRequests == workload.max_requests \* requests that wait
MaxReleases == workload.max_releases \* locks that are released
MaxFaults == workload.max_faults     \* leader transfers, region updates, dropped requests, expired edges

Tok(t, k, n) == <<t, k, n>>
TxnOf(r) == r[1]
KeyOf(r) == r[2]
StoreOfReq(r) == StoreOf[KeyOf(r)]

\* The requests of the entry <<txn, lock, key>>.
RequestsOf(e) == {r \in waiting \cup resuming : TxnOf(r) = e[1] /\ KeyOf(r) = e[3]}

Empty == [s \in Stores |-> <<>>]

Init ==
    /\ workload \in Workloads
    /\ holder = workload.holder
    /\ issued = {} /\ waiting = {} /\ first = {} /\ released = {} /\ resuming = {} /\ canceled = {}
    /\ mgrQ = Empty /\ detQ = Empty /\ resp = Empty
    /\ chan = [p \in Stores \X Stores |-> <<>>]
    /\ pool = <<>> /\ index = <<>>
    /\ leader = CHOOSE s \in Stores : TRUE
    /\ told = [s \in Stores |-> leader]
    /\ role = [s \in Stores |-> IF s = leader THEN "Leader" ELSE "Follower"]
    /\ table = [s \in Stores |-> {}]
    /\ stale = [s \in Stores |-> {}]
    /\ conn = [s \in Stores |-> None]
    /\ lost = {} /\ faults = 0 /\ releases = 0

-----------------------------------------------------------------------------
(* The tasks. A detector task carries the request it is for as a ghost.      *)

WaitForTask(r, lock) == [tp |-> "WaitFor", req |-> r, lock |-> lock]
RemoveTask(r) == [tp |-> "RemoveLockWait", req |-> r]
UpdateTask(R, lock) == [tp |-> "UpdateWaitFor", reqs |-> R, lock |-> lock]
DeadlockTask(r) == [tp |-> "Deadlock", req |-> r]
DetectTask(r, lock) == [tp |-> "Detect", req |-> r, lock |-> lock]
CleanUpTask(r, lock) == [tp |-> "CleanUpWaitFor", req |-> r, lock |-> lock]
RoleTask(s, l) == [tp |-> "ChangeRole", role |-> IF s = l THEN "Leader" ELSE "Follower"]

SendMgr(s, tasks) == mgrQ' = [mgrQ EXCEPT ![s] = @ \o tasks]
SendDet(s, tasks) == detQ' = [detQ EXCEPT ![s] = @ \o tasks]
Lose(R, why) == lost' = lost \cup (R \X {why})

\* update_lock_wait after transaction t locked key k, for the requests in the queue.
UpdateWaitFor(k, t) ==
    LET R == {r \in waiting : KeyOf(r) = k} IN IF R = {} THEN <<>> ELSE <<UpdateTask(R, t)>>

-----------------------------------------------------------------------------
(* Lock requests, under the latch of the key.                               *)

Without(f, x) == [y \in DOMAIN f \ {x} |-> f[y]]

\* The client asks for the first lock of the transaction: it holds and waits for nothing.
IsFirstLock(t, k) ==
    /\ \A j \in Keys : holder[j] # t
    /\ \A r \in waiting \cup resuming : TxnOf(r) = t => KeyOf(r) = k /\ r \in first

\* AcquirePessimisticLock of transaction t on key k: the lock is taken, and those who wait
\* are told; or on_wait_for_lock queues a request and LockManager::wait_for sends it to the
\* waiter manager and, unless it is the first lock, to the detector.
Request(t, k) ==
    LET r == Tok(t, k, Cardinality({q \in issued : TxnOf(q) = t /\ KeyOf(q) = k}) + 1)
        s == StoreOf[k]
    IN  /\ k \in Wants[t] /\ holder[k] # t
        /\ \A q \in waiting \cup resuming :
              TxnOf(q) = t => (q \in first => KeyOf(q) = k) /\ (KeyOf(q) = k => workload.resend)
        /\ \/ /\ holder[k] = None
              /\ holder' = [holder EXCEPT ![k] = t]
              /\ SendMgr(s, UpdateWaitFor(k, t))
              /\ UNCHANGED <<issued, waiting, first, detQ>>
           \/ /\ holder[k] # None
              /\ Cardinality(issued) < MaxRequests
              /\ issued' = issued \cup {r}
              /\ waiting' = waiting \cup {r}
              /\ first' = IF IsFirstLock(t, k) THEN first \cup {r} ELSE first
              /\ SendMgr(s, <<WaitForTask(r, holder[k])>>)
              /\ SendDet(s, IF IsFirstLock(t, k) THEN <<>> ELSE <<DetectTask(r, holder[k])>>)
              /\ UNCHANGED holder
        /\ UNCHANGED <<workload, released, resuming, canceled, pool, index, role, table, stale, conn,
                       chan, resp, region, lost, faults, releases>>

\* The lock on key k is released (commit, rollback, pessimistic rollback); those who wait
\* for it are to be woken up.
Release(k) ==
    /\ releases < MaxReleases /\ releases' = releases + 1
    /\ holder[k] # None
    /\ holder' = [holder EXCEPT ![k] = None]
    /\ released' = released \cup {r \in waiting : KeyOf(r) = k}
    /\ UNCHANGED <<workload, issued, waiting, first, resuming, canceled, managers, detectors, region,
                   lost, faults>>

\* A request is woken up, at the release or after the delay: a legacy one is answered with
\* WriteConflict, a resumable one is executed again.
WakeUp(r) ==
    /\ r \in waiting \cap released
    /\ waiting' = waiting \ {r}
    /\ released' = released \ {r}
    /\ \/ /\ TxnOf(r) \notin Resumable
          /\ SendMgr(StoreOfReq(r), <<RemoveTask(r)>>)
          /\ UNCHANGED resuming
       \/ /\ TxnOf(r) \in Resumable
          /\ resuming' = resuming \cup {r}
          /\ UNCHANGED mgrQ
    /\ UNCHANGED <<workload, holder, issued, first, canceled, pool, index, detectors, region, lost, faults, releases>>

\* AcquirePessimisticLockResumed: the request locks the key or fails. One that meets a lock again goes back to the queue
\* with its token, and nobody is told whom it waits for now.
Resume(r) ==
    LET k == KeyOf(r)
    IN  /\ r \in resuming
        /\ resuming' = resuming \ {r}
        /\ \/ /\ holder[k] \in {None, TxnOf(r)}
              /\ holder' = [holder EXCEPT ![k] = TxnOf(r)]
              /\ SendMgr(StoreOfReq(r), <<RemoveTask(r)>> \o UpdateWaitFor(k, TxnOf(r)))
              /\ UNCHANGED <<waiting, canceled, lost>>
           \/ /\ holder[k] \notin {None, TxnOf(r)}
              /\ waiting' = IF r \in canceled THEN waiting ELSE waiting \cup {r}
              /\ canceled' = canceled \ {r}
              /\ Lose({r}, "put back")
              /\ UNCHANGED <<holder, mgrQ>>
           \/ /\ SendMgr(StoreOfReq(r), <<RemoveTask(r)>>)
              /\ UNCHANGED <<holder, waiting, canceled, lost>>
        /\ UNCHANGED <<workload, issued, first, released, pool, index, detectors, region, faults, releases>>

-----------------------------------------------------------------------------
(* The waiter manager of store s.                                           *)

Slot(r) == <<KeyOf(r), TxnOf(r)>>

\* The other request that wait_table has in the place of r.
Other(r) ==
    IF Slot(r) \in DOMAIN index THEN {index[Slot(r)]} \ {r} ELSE {}

\* Mutant: the waiter stays in wait_table.
TakeWaiterFromPool(r) ==
    /\ pool' = Without(pool, r)
    /\ UNCHANGED <<index, lost>>

\* take_waiter.
TakeWaiter(r) ==
    /\ pool' = Without(pool, r)
    /\ index' = Without(index, Slot(r))
    /\ Lose(Other(r), "index")

\* Waiter::cancel with an error: the request leaves the queue and is answered; one that is
\* executed again finds the error when it goes back.
Cancel(r) ==
    /\ waiting' = waiting \ {r}
    /\ released' = released \ {r}
    /\ canceled' = canceled \cup ({r} \cap resuming)

\* Mutant: a second request of a transaction for a key takes the place of the first.
HandleWaitForReplaces(s) ==
    LET task == Head(mgrQ[s])
        r == task.req
    IN  /\ task.tp = "WaitFor"
        /\ pool' = (r :> task.lock) @@ [q \in DOMAIN pool \ Other(r) |-> pool[q]]
        /\ index' = (Slot(r) :> r) @@ index
        /\ Lose(Other(r), "index")
        /\ UNCHANGED <<detQ, waiting, released, canceled>>

\* handle_wait_for, add_waiter.
HandleWaitFor(s) ==
    LET task == Head(mgrQ[s])
        r == task.req
    IN  /\ task.tp = "WaitFor"
        /\ pool' = (r :> task.lock) @@ pool
        /\ index' = (Slot(r) :> r) @@ index
        /\ Lose(Other(r), "index")
        /\ UNCHANGED <<detQ, waiting, released, canceled>>

\* handle_remove_lock_wait.
HandleRemoveLockWait(s) ==
    LET r == Head(mgrQ[s]).req
    IN  /\ Head(mgrQ[s]).tp = "RemoveLockWait"
        /\ \/ /\ r \in DOMAIN pool
              /\ TakeWaiter(r)
              /\ SendDet(s, <<CleanUpTask(r, pool[r])>>)
           \/ /\ r \notin DOMAIN pool
              /\ UNCHANGED <<pool, index, lost, detQ>>
        /\ UNCHANGED <<waiting, released, canceled>>

\* Mutant: a resumable request is updated like a legacy one, without a new detection.
HandleUpdateWaitForOnly(s) ==
    LET task == Head(mgrQ[s])
        changed == {r \in task.reqs \cap DOMAIN pool : pool[r] # task.lock}
    IN  /\ task.tp = "UpdateWaitFor"
        /\ pool' = [r \in changed |-> task.lock] @@ pool
        /\ UNCHANGED <<index, lost, waiting, released, canceled, detQ>>

\* handle_update_wait_for, update_waiter: every waiter gets the new lock; the entry of a
\* resumable one that is not on its first lock is replaced.
HandleUpdateWaitFor(s) ==
    LET task == Head(mgrQ[s])
        changed == {r \in task.reqs \cap DOMAIN pool : pool[r] # task.lock}
        moved == {r \in changed \ first : TxnOf(r) \in Resumable}
    IN  /\ task.tp = "UpdateWaitFor"
        /\ pool' = [r \in changed |-> task.lock] @@ pool
        /\ \E order \in SetToSeqs(moved) :
              SendDet(s, FlattenSeq([i \in DOMAIN order |-> <<CleanUpTask(order[i], pool[order[i]]),
                                                             DetectTask(order[i], task.lock)>>]))
        /\ UNCHANGED <<index, lost, waiting, released, canceled>>

\* handle_deadlock: the waiter the report names is found by key and transaction.
HandleDeadlock(s) ==
    LET q == Slot(Head(mgrQ[s]).req)
    IN  /\ Head(mgrQ[s]).tp = "Deadlock"
        /\ \/ /\ q \in DOMAIN index
              /\ TakeWaiter(index[q])
              /\ Cancel(index[q])
           \/ /\ q \notin DOMAIN index
              /\ UNCHANGED <<pool, index, lost, waiting, released, canceled>>
        /\ UNCHANGED detQ

\* WaiterManager::run.
Manage(s) ==
    /\ mgrQ[s] # <<>>
    /\ mgrQ' = [mgrQ EXCEPT ![s] = Tail(@)]
    /\ HandleWaitFor(s) \/ HandleRemoveLockWait(s) \/ HandleUpdateWaitFor(s) \/ HandleDeadlock(s)
    /\ UNCHANGED <<workload, holder, issued, first, resuming, role, table, stale, conn, chan,
                   resp, region, faults, releases>>

\* The timer of the waiter: it is cancelled, then its entry is to be removed.
Timeout(r) ==
    /\ r \in DOMAIN pool
    /\ TakeWaiter(r)
    /\ Cancel(r)
    /\ SendDet(StoreOfReq(r), <<CleanUpTask(r, pool[r])>>)
    /\ UNCHANGED <<workload, holder, issued, first, resuming, mgrQ, role, table, stale, conn,
                   chan, resp, region, faults, releases>>

-----------------------------------------------------------------------------
(* The detector.                                                            *)

\* The entry that task is about.
Entry(task) == <<TxnOf(task.req), task.lock, KeyOf(task.req)>>

\* What the table of store d may become, and whether a deadlock is found.
Outcomes(d, task) ==
    IF task.tp = "CleanUpWaitFor"
    THEN {NotFound(CleanUpWaitFor(table[d], TxnOf(task.req), task.lock, KeyOf(task.req)))}
    ELSE {Detect(table[d], stale[d], TxnOf(task.req), task.lock, KeyOf(task.req), order, expire) :
              order \in SetToSeqs(Txns), expire \in {FALSE, stale[d] # {}}}

\* handle_detect_locally, or the closure of handle_detect_rpc, on store d, with outcome o.
\* A clean-up may remove the entry that another request for the same lock counts on.
HandleInTable(d, task, o) ==
    /\ table' = [table EXCEPT ![d] = o.table]
    /\ stale' = [stale EXCEPT ![d] = {e \in @ \cap EdgesOf(o.table) :
                                         task.tp = "Detect" => e # <<TxnOf(task.req), task.lock>>}]
    /\ IF task.tp = "CleanUpWaitFor" /\ Entry(task) \in table[d] /\ holder[KeyOf(task.req)] = task.lock
       THEN Lose(RequestsOf(Entry(task)) \ {task.req}, "clean-up")
       ELSE UNCHANGED lost

\* change_role, reset. It starts anew even if the role stays; what is on a stream of the
\* client it drops is still sent.
HandleChangeRole(s) ==
    LET task == Head(detQ[s])
    IN  /\ task.tp = "ChangeRole"
        /\ detQ' = [detQ EXCEPT ![s] = Tail(@)]
        /\ role' = [role EXCEPT ![s] = task.role]
        /\ table' = [table EXCEPT ![s] = {}]
        /\ stale' = [stale EXCEPT ![s] = {}]
        /\ conn' = [conn EXCEPT ![s] = None]
        /\ Lose(UNION {RequestsOf(e) : e \in table[s]}, "reset")
        /\ UNCHANGED <<workload, queues, managers, chan, resp, region, faults, releases>>

\* handle_detect on the leader.
HandleDetectLocally(s) ==
    LET task == Head(detQ[s])
    IN  /\ task.tp # "ChangeRole" /\ role[s] = "Leader"
        /\ detQ' = [detQ EXCEPT ![s] = Tail(@)]
        /\ \E o \in Outcomes(s, task) :
              /\ HandleInTable(s, task, o)
              /\ SendMgr(s, IF o.found THEN <<DeadlockTask(task.req)>> ELSE <<>>)
        /\ UNCHANGED <<workload, queues, pool, index, role, conn, chan, resp, region, faults, releases>>

\* handle_detect on a follower: through the leader_client, or after refresh_leader_info
\* and reconnect_leader. The region's leader may be unknown to PD, or this store itself,
\* which was not told; then the request is dropped.
HandleDetectRemotely(s) ==
    LET task == Head(detQ[s])
    IN  /\ task.tp # "ChangeRole" /\ role[s] = "Follower"
        /\ detQ' = [detQ EXCEPT ![s] = Tail(@)]
        /\ \/ /\ conn[s] # None \/ leader # s
              /\ conn' = [conn EXCEPT ![s] = IF @ = None THEN leader ELSE @]
              /\ chan' = [chan EXCEPT ![<<s, conn'[s]>>] = Append(@, task)]
              /\ UNCHANGED <<lost, faults>>
           \/ /\ conn[s] = None /\ (leader = s \/ faults < MaxFaults)
              /\ faults' = IF leader = s THEN faults ELSE faults + 1
              /\ IF task.tp = "Detect" THEN Lose({task.req}, "dropped") ELSE UNCHANGED lost
              /\ UNCHANGED <<conn, chan>>
        /\ UNCHANGED <<workload, queues, managers, role, table, stale, resp, region, releases>>

\* handle_detect_rpc: the leader handles a request of store s. A store that is not, or no
\* longer, the leader ends the stream, and what was on it is lost.
HandleDetectRpc(s, d) ==
    LET reqs == chan[<<s, d>>]
        task == Head(reqs)
    IN  /\ reqs # <<>>
        /\ \/ /\ role[d] = "Leader"
              /\ \E o \in Outcomes(d, task) :
                    /\ HandleInTable(d, task, o)
                    /\ resp' = [resp EXCEPT ![s] = IF o.found THEN Append(@, DeadlockTask(task.req)) ELSE @]
              /\ chan' = [chan EXCEPT ![<<s, d>>] = Tail(@)]
              /\ UNCHANGED conn
           \/ /\ role[d] = "Follower"
              /\ chan' = [chan EXCEPT ![<<s, d>>] = <<>>]
              /\ conn' = [conn EXCEPT ![s] = IF @ = d THEN None ELSE @]
              /\ Lose({m.req : m \in {n \in ToSet(reqs) : n.tp = "Detect"}}, "reset")
              /\ UNCHANGED <<table, stale, resp>>
        /\ UNCHANGED <<workload, queues, managers, detQ, role, region, faults, releases>>

\* The callback of reconnect_leader passes a report on to the waiter manager.
ReceiveReport(s) ==
    /\ resp[s] # <<>>
    /\ resp' = [resp EXCEPT ![s] = Tail(@)]
    /\ SendMgr(s, <<Head(resp[s])>>)
    /\ UNCHANGED <<workload, queues, pool, index, detQ, role, table, stale, conn, chan, region, lost, faults, releases>>

\* The ttl of an edge elapses.
Expire(s, e) ==
    /\ faults < MaxFaults
    /\ e \in EdgesOf(table[s]) \ stale[s]
    /\ stale' = [stale EXCEPT ![s] = @ \cup {e}]
    /\ Lose(UNION {RequestsOf(f) : f \in Locks(table[s], e[1], e[2])}, "expired")
    /\ faults' = faults + 1
    /\ UNCHANGED <<workload, queues, managers, detQ, role, table, conn, chan, resp, region, releases>>

\* The first region gets another leader.
TransferLeader(d) ==
    /\ faults < MaxFaults /\ d # leader
    /\ leader' = d
    /\ faults' = faults + 1
    /\ UNCHANGED <<workload, queues, managers, detectors, told, lost, releases>>

\* RoleChangeNotifier::on_role_change on store s.
OnRoleChange(s) ==
    /\ told[s] # leader
    /\ told' = [told EXCEPT ![s] = leader]
    /\ SendDet(s, <<RoleTask(s, leader)>>)
    /\ UNCHANGED <<workload, queues, managers, role, table, stale, conn, chan, resp, leader, lost, faults, releases>>

\* RoleChangeNotifier::on_region_changed on store s: the first region was created or updated,
\* and the detector gets the role it has.
OnRegionChanged(s) ==
    /\ faults < MaxFaults
    /\ faults' = faults + 1
    /\ SendDet(s, <<RoleTask(s, told[s])>>)
    /\ UNCHANGED <<workload, queues, managers, role, table, stale, conn, chan, resp, region, lost, releases>>

Detector(s) ==
    /\ detQ[s] # <<>>
    /\ HandleChangeRole(s) \/ HandleDetectLocally(s) \/ HandleDetectRemotely(s)

Next ==
    \/ \E t \in Txns, k \in Keys : Request(t, k)
    \/ \E k \in Keys : Release(k)
    \/ \E r \in issued : WakeUp(r) \/ Resume(r) \/ Timeout(r)
    \/ \E s \in Stores :
          \/ Manage(s) \/ Detector(s) \/ ReceiveReport(s)
          \/ \E d \in Stores : HandleDetectRpc(s, d)
          \/ TransferLeader(s) \/ OnRoleChange(s) \/ OnRegionChanged(s)
          \/ \E e \in EdgesOf(table[s]) : Expire(s, e)

Spec == Init /\ [][Next]_vars

-----------------------------------------------------------------------------
(* Properties.                                                              *)

\* The types; wait_table names waiters of waiter_pool only, so a deadlock report that
\* names a transaction and a key finds a request that still waits or none.
TypeOK ==
    /\ holder \in [Keys -> Txns \cup {None}]
    /\ first \cup waiting \cup resuming \subseteq issued /\ released \subseteq waiting
    /\ DOMAIN pool \subseteq issued
    /\ \A r \in DOMAIN pool : pool[r] \in Txns
    /\ \A q \in DOMAIN index : index[q] \in DOMAIN pool /\ Slot(index[q]) = q
    /\ role \in [Stores -> {"Leader", "Follower"}]
    /\ \A s \in Stores : table[s] \subseteq Txns \X Txns \X Keys /\ stale[s] \subseteq EdgesOf(table[s])

\* The graph in a detect table has no cycle, expired edges included (the comment on
\* wait_for_map calls it a DAG): a request that would close one is reported instead. Only
\* a loop is possible, of a transaction that took the lock with a second request while
\* its first one waits.
TableIsDag == \A s \in Stores : Acyclic({e \in EdgesOf(table[s]) : e[1] # e[2]})

\* The requests that the detector of store d handles next.
Pending(d) ==
    {task \in {Head(q) : q \in ({detQ[d]} \cup {chan[<<s, d>>] : s \in Stores}) \ {<<>>}} :
        task.tp = "Detect"}

\* For the request that a leader handles next, do_detect finds a deadlock iff there is a path
\* of live edges, whatever the order of the hash map, and the chain it reports is such a path.
DetectsPaths ==
    \A d \in Stores : \A task \in Pending(d), order \in SetToSeqs(Txns) :
        LET live == EdgesOf(table[d]) \ stale[d]
            t == TxnOf(task.req)
            res == DoDetect(table[d], stale[d], t, task.lock, order)
        IN  t # task.lock => /\ res.found <=> Path(live, task.lock, t)
                             /\ res.found => IsChain(res.chain, live, task.lock, t)

\* Nothing is on its way between the queues, the managers and the detectors.
Quiet ==
    /\ \A s \in Stores : mgrQ[s] = <<>> /\ detQ[s] = <<>> /\ resp[s] = <<>> /\ told[s] = leader
    /\ \A p \in Stores \X Stores : chan[p] = <<>>
    /\ resuming = {}

\* Why a request that waits may have no edge in the leader's table.
Losses == {"put back", "index", "clean-up", "reset", "dropped", "expired"}

\* Whom the requests that wait do wait for; a released legacy request will be woken up.
\* Requests that suffered one of the losses are left out.
WaitsFor ==
    {<<TxnOf(r), holder[KeyOf(r)]>> :
        r \in {q \in waiting : /\ q \in released => TxnOf(q) \in Resumable
                               /\ holder[KeyOf(q)] \notin {None, TxnOf(q)}
                               /\ \A why \in Losses : <<q, why>> \notin lost}}

\* Every deadlock is found: when all tasks and messages are handled, no requests wait for
\* each other in a circle, unless one of them was put back after resuming, overwritten in
\* wait_table by another request for the same lock, cleaned up for that one, dropped, or
\* lost in a change of leader or by its ttl. Only these are left to the timeout.
NoSilentDeadlock == Quiet => Acyclic(WaitsFor)

\* The timeout does reach them: a request in the queue of a key is in waiter_pool or on its
\* way to it, although wait_table has one place for all requests of a transaction for the
\* key, and whatever became of its edge. So a deadlock that no detector sees ends.
TimeoutReaches ==
    \A r \in waiting :
        \/ r \in DOMAIN pool
        \/ \E task \in ToSet(mgrQ[StoreOfReq(r)]) : task.tp = "WaitFor" /\ task.req = r
=============================================================================
