# A TLA+ verification project for TiKV's transaction layer

TiKV is a distributed transactional key-value store. This project models the parts of it
that decide whether transactions are correct: the scheduler that runs commands one at a time
per key, the MVCC actions those commands perform, the protocol the commands make up together
with their clients, the memory locks that let a store choose commit timestamps by itself, the
queues in which pessimistic lock requests wait and the detection of their deadlocks, and the
resolved timestamp at which replicas serve reads.
Paths below are relative to `src/tikv/`.

## 1. The system and its parts

| part | state | operations | where it is hard |
|---|---|---|---|
| Scheduler, latches (`src/storage/txn/scheduler.rs`, `latch.rs`) | latch queues, task contexts | schedule, execute, write, release, wake up | deadlines, fail-fast tasks, early answers and resumed requests race with the normal path |
| MVCC actions (`src/storage/txn/actions`, `src/storage/mvcc`) | CF_LOCK, CF_WRITE | prewrite, commit, rollback, check, pessimistic lock | repeated and late requests; rollback records that share a place with commits |
| Transaction commands (`src/storage/txn/commands`) | as above, max_ts, status cache | one command per request kind | several clients finish the same transaction; no order between messages |
| Concurrency manager (`components/concurrency_manager`) | max_ts, table of weak key handles | update_max_ts, lock_key, read_key_check | lock-free table, reference counts, timestamps calculated while readers arrive |
| Lock waiting queue (`src/storage/lock_manager/lock_waiting_queue.rs`, `lock_wait_context.rs`) | per-key queues, wake-up indices, contexts | push, pop, notify later, resume, put back, cancel | exactly one outcome per waiter, decided by three kinds of threads |
| Lock manager and deadlock detector (`src/server/lock_manager`) | waiters, wait-for graph of the leader | wait, update, remove, time out, detect, clean up | tasks and messages in flight, leader changes, expiring edges |
| Resolved timestamp (`components/resolved_ts`), read progress (`components/raftstore/src/store/util.rs`) | tracked locks per region, pending read states per replica | scan, track, advance, check leader, apply | two sources of locks; must not pass a commit that is on its way; stale replicas |
| CDC | | | depends on the tracked locks as above; not modelled |
| Raftstore, batch system | peers, mailboxes, leases | propose, apply, split, merge, transfer | leadership moves under every other part |
| GC, raw KV, coprocessor, import, backup, engines, services | | | listed in `PROJECT.json` with the reason they are left out |

How they interact: a request becomes a command of the scheduler. The scheduler takes the
latches of the command's keys, gets a snapshot from raftstore, runs the command's
`process_write`, which calls the MVCC actions, proposes the result as one atomic write and
releases the latches when it is applied. So each command is atomic on the keys it names; the
module `Scheduler` is about this, and `Percolator` relies on it. Reads bypass the scheduler:
the two sides meet in max_ts and in the memory locks, module `MemoryLocks`. A pessimistic lock
request that meets a lock goes to the key's queue and to the waiter manager (`LockWaiting`),
which asks the deadlock detector of the cluster's leader (`DeadlockDetection`). What the
scheduler writes is applied on every replica; there the endpoint of `resolved_ts` follows the
locks, and replicas serve reads at a timestamp the leader published (`ResolvedTs`).

The properties that make the system correct: a transaction is committed on all keys or none;
a snapshot never changes; no update is lost; what a client was told stays true; every command
is answered once; nothing waits for ever.

## 2. Modules

| module | models | extends / refines |
|---|---|---|
| `Scheduler` | a command from `run_cmd` to `release_latches` | |
| `LatchSlot`, `LatchQueues` | the deque of one latch slot; the FIFO per hash that `Scheduler` uses | `LatchSlot` implements `LatchQueues` |
| `Mvcc` | the actions on one key as operators from a key's state to its new state and an answer | |
| `Percolator` | all transactional commands over several keys, with clients, resolvers, readers, the oracle, leader transfer | `Mvcc` |
| `MemoryLocks` | max_ts, lock table and key handles of one store, one shared-memory access per step | |
| `LockWaiting` | the queue of one key, the contexts of the requests in it, the waiter manager, the commands that enqueue, release, resume and put back | |
| `DetectTable` | the wait-for graph of a detector as a set of edges, with `do_detect` as a recursive search | |
| `DeadlockDetection` | waiter managers and detectors of the stores, streams and reports between them, leader changes | `DetectTable` |
| `TxnStatusCache` | the two caches of transaction statuses with any eviction | |
| `RegionReadProgress` | the read progress of a replica as operators on a record | |
| `ResolvedTs` | observer, scanner, endpoint, resolver and advance worker of a region, over a replicated log | `TxnStatusCache`, `RegionReadProgress` |
| `*Proofs`, `SchedulerWakeUps`, `MemoryLocksSteps`, `LockWaitingWaiters` | theorems and their lemmas | the module they are about |
| `MC*` | instances for TLC | |

### Scheduler

`queue[h]` is `Latch::waiting` restricted to hash h, `pc` says where the command is, `owned`
is `required_hashes[..owned_count]`; `taken` and `cb` are `TaskContext::owned` and `cb`.
A latch is taken under the mutex of its slot only, so `Acquire` takes one latch per step and
`Release` gives back one per step; `wake` is the wakeup list collected on the way.
`Watcher` is the task spawned by `fail_fast_or_check_deadline`. `WriteFinished(c, n)` may keep
latches for a resumed lock request n. `EarlyResponse` stands for pipelined locks and async
apply prewrite. `RunCmdBusy` is the rejection by flow control or memory quota; why it rejects
is not modelled. Left out: a command that ends in another one (`ProcessResult::NextCommand`,
`scheduler.rs:855` and `940`), which is scheduled as a new command with the callback of the first.

A slot of `Latches` is shared by several hashes and keeps one deque of optional entries.
`LatchSlot` has that deque with its holes, `pop_front`, `maybe_shrink` and the preemptive
push, and is shown to implement one FIFO per hash including the answers.

### Mvcc

A key is a record `[lock, writes]`. A write record has commit_ts, start_ts, type, and the
flags of overlapped and protected rollbacks. Every operator is a function of the key's state
and the request, and returns the new state, a result and a timestamp. Kept: the order of the
checks, every early return, collapse of rollbacks, overlapped rollbacks, the `rollback_ts`
list of an async-commit lock, amend of lost pessimistic locks, lock with conflict, fall-back
from async commit and 1PC. Left out: values, TTL arithmetic (expiry is an input), assertions
and `should_not_exist` checks, `last_change`, `gc_fence`, DELETE and LOCK mutations,
generations of pipelined DML, and requests with special arguments: a check or a read at
`TimeStamp::max` (`check_txn_status.rs:193`, `lock.rs:491`, where a primary lock does not block
the read), and optimistic transactions that skip the constraint check
(`TransactionKind::Optimistic(true)`, `actions/prewrite.rs:783`).

### Percolator

Every key is on a store of its own with its own `maxTs`, `synced` (max_ts_sync_status) and
`cache` (TxnStatusCache). One action per command: `PrewriteCmd`, `CommitCmd`, `RollbackCmd`,
`CleanupCmd`, `CheckTxnStatusCmd`, `CheckSecondaryLocksCmd`, `ResolveLockCmd`,
`AcquirePessimisticLockCmd`, `PessimisticRollbackCmd`, `ResolvePessimisticLockCmd`, and `Read`.
The network is unreliable in every way short of corruption: what may have been sent may be
executed at any later time and any number of times, so requests and answers are sets that only
grow and no message is ever removed. A client that takes no further step has crashed; its
locks are found by resolvers. `TransferLeader` gives a key a leader that knows neither max_ts
nor the cache.

Clients and resolvers are not in this repository. They are modelled from what the commands
require of them and marked external. The assumptions that matter:

* A client of async commit or 1PC that has sent a prewrite does not give up on its own; it
  gives up on `WriteConflict`, which stays, and not on `PessimisticLockNotFound`: another copy
  of the same request may still be amended after that answer. Without this assumption
  `AllOrNothing` fails: the client rolls back the primary while a resolver that saw the primary
  locked commits the late secondary.
* A client that got a lock with a conflict newer than its statement retries the statement
  before it prewrites.
* `KvCleanup` is not sent for async-commit transactions; it rolls back an expired lock without
  looking at `use_async_commit`.
* A resolver commits an async-commit transaction at the largest min_commit_ts of the primary
  and all secondaries, and forces the synchronous path when it met a lock that fell back.
* The oracle is monotonic and has not given out the timestamps that are not yet used.

One prewrite request has one mutation; 1PC is for transactions with one key. The `workload`
(which transactions and readers there are, what they lock and how they commit, and the bounds
of the instance) is chosen in the initial state and never changes.

### MemoryLocks

A thread is a prewrite or a read. `table` is the skip map of weak references, `refs[h]` the
threads with a strong reference to a handle, `bound` whether `set_table` was called, `mutex`
the async mutex, `storeMutex` the mutex around `lock_store`. `Release` drops a reference; the
thread that dropped the last one goes on to `Remove`, which removes the key by name.
The model does not use that latches serialise prewrites of a key: the lock table has to exclude
by itself. `lock_keys`, range checks and the limit on max_ts are not modelled.

### LockWaiting

The module is about one key; the queue map is sharded and locked per operation, so an operation
on the queue is one step. `queue` is the set of entries (their priority is their start_ts),
`wakeIndex` and `entryIndex` are the two `legacy_wake_up_index`, `notifyId` is the id of the
delayed notification. wake-up-delay-duration may be changed online, so each wake-up takes a delay
from `Delays` (zero or positive); `StoreDelay` is `handle_delayed_wake_up`, which creates the state
of a delayed notification or extends its delay, `zero` has the notifications whose delay is 0, and
the history variable `dropped` those whose future found it to be 0 and ended without
notifying (a disjunct of `DelayedNotifyAll`). `cmd` is the command that has the key's latch: `Acquire`, `PushLockWait`,
`ReceiveExternalError`, `SendWaitFor`, `ReleaseLock`, `WriteFinished`, `ScheduleAwakened` and
`Resume` are its steps. `WakeUpLegacy` and `DelayedNotifyAll` are spawned tasks without the latch.
`mgr` is the thread of the waiter manager, with `HandleTask`, `CancelWaiter`, `RemoveByToken` and
`PutExternalError`. The channel of the external error blocks its receiver, who has the shard
locked. Left out: the lock information of error messages.

### DeadlockDetection

Threads are the waiter manager and the detector of each store; `chan` and `resp` are the stream
to the leader and the reports back. A request is `<<txn, key, attempt>>`. `Manage` and `Detector`
take the head of a store's task queue and do everything the handler does; `HandleDetectRpc` is the
leader's side of the stream. A store hears of a change of leader at any time after it happened.
`OnRegionChanged` is an update of the first region, which makes a detector start anew in the role
it has. The destruction of the first region, which makes its store a follower, is left out.
`lost` names why an edge or a waiter of a request disappeared though the request still waits; the
causes in `Losses` are the ones the code accepts (expiry, change of leader, a dropped stream) and
two consequences of keying waiters by transaction and key (overwritten, cleaned up for another).

### ResolvedTs

The log of committed entries is what raftstore applies; transactions are modelled by the entries
their commands write, with the guards those commands have. On each store: `queue` is the task
queue of the endpoint, `region` the `ObserveRegion` with its resolver, `scan` the scan tasks,
`adv` the advance worker, `rrp` the read progress. `Apply` and `PostApply` are the apply thread
and its observer; `Endpoint` takes the head of the queue and dispatches to one handler per task.
`passed`, `finished` and `skipped` are history variables for the exceptions below. Merged into one
step each: `CaptureChange` is the scanner's check for cancellation, the read index
(`fsm/peer.rs:1561`) and `handle_change` in the apply thread (`apply.rs:4361`), so an observe id
never becomes stale between them; `Apply` moves the index of the read progress together with
the entry, except for entries without a command and splits. Left out: the heartbeat of a large
transaction rewrites its lock (`txn_heart_beat.rs:94`); only the cache is updated.

## 3. Runs

| run | instance | distinct states | shows |
|---|---|---|---|
| `scheduler` | 3 commands whose key sets overlap pairwise, 1 resumed request, 3 hashes, one deadline | 1.39 M | latches exclude and are ordered; assertions of `Latches::release` and unwraps of `acquire_lock_on_wakeup` hold; no lost wake-up; one answer; an answered command is not executed |
| `scheduler_live` | 2 commands and the resumed request | | every accepted command is answered and ends |
| `latch_slot` | 2 hashes in one slot, 3 commands, deques of up to 6 cells | | the deque implements the queues |
| `percolator` | nine workloads of 2 transactions and a reader on 2 keys: 2PC, async commit with fall-back, 1PC, pessimistic with 2 statements, force locking, locks that get lost, 1 leader transfer | 184 k | all or nothing, one commit_ts, durability of reported commits, no lost update, stable snapshots, protected rollbacks stay |
| `index_key` | one pessimistic async-commit transaction with a key it does not lock | violation | section 5 |
| `memory_locks` | 2 prewrites and 2 reads of one key, timestamps below, between and above | 182 k | exclusion and visibility of guards, no missed commit, no thread spins for ever |
| `lock_waiting` | 3 requests, each legacy or resumable; the delay of each wake-up zero or positive | 1.07 M | one answer each, none enqueued that nobody can cancel, no stale waiter, no legacy request left in the queue of a free key unless a zero delay ended its notification, an answer in the end unless the two threads of the next run block each other |
| `lock_waiting_stuck` | 2 requests | violation | section 5 |
| `lock_waiting_wake_up` | 4 requests, the second resumable | violation | section 5 |
| `deadlock_detection` | a circle of 2 or 3 transactions on 2 stores, a lock that changes hands, a repeated request, one fault (change of leader, update of the first region, dropped request, expired edge) | 1.09 M | the table is acyclic, the search finds exactly the paths, a deadlock that is left over is explained by a named loss, and the timeout reaches every request that waits |
| `resolved_ts` | eighteen workloads: 2PC, async, 1PC, large transactions; late requests, failing scans, splits, leader changes, evictions, a replica that lags until its pending items are full | 1.90 M | a stale read misses no commit, nothing commits unseen below a resolved_ts, tracked locks are those of the replica, no assertion fails |
| `resolved_ts_one_pc` | one 1PC transaction | violation | section 5 |

Bounds. Two transactions and two keys are the least with which a primary and a secondary, a
conflict, and a resolver that sees them in different states exist; with one statement more, or
one timestamp more than the transactions themselves take, a resolver, a retry and a leader
transfer fit between any two steps. Requests are never used up, so the bound on timestamps is
the only bound on the length of what happens in `Percolator`. In `MemoryLocks` two
writers are needed for a handle that outlives its guard, and two readers for the last
reference to be dropped by either side. Three requests are the least for `LockWaiting` in which
a delayed notification finds one request that was there before the last wake-up and one that came
after; each request is sent once, so nothing else is bounded. `DeadlockDetection` bounds the
requests that wait (a ring of three, or a cross with one request sent twice) and allows one fault,
because two faults only lose the edges separately. `ResolvedTs` bounds timestamps, observe ids,
leader changes, splits and pushes of a min_commit_ts in each workload; each of its workloads adds
one difficulty to a transaction on one key, which keeps them small, and those marked `ready`
start with the scan done.

Deadlock is not checked for the scheduler, which stops when all commands are done; that none
stops too early is the property `EveryCommandAnswered`. Nor for deadlock detection and resolved
timestamps, which stop when their bounds are used up; both have safety properties only.

Fairness. `scheduler_live` assumes that the pool runs every spawned task and that the engine
answers every write (weak fairness of each command's own steps); nothing is assumed of clients,
deadlines or the fail-fast task. `memory_locks` assumes that each thread is scheduled again and
again (weak fairness of each thread); commits may never come. `lock_waiting` and
`lock_waiting_stuck` assume that the command with the latch, the manager's thread and the spawned
tasks go on (weak fairness), that a latch is granted to each command that waits for it again and
again and that the manager looks at its timers again and again (strong fairness: the scheduler's
queue is FIFO, and both are disabled in between by other work of the same thread). Nothing
makes a client send or a transaction release its lock.

## 4. Theorems

All theorems hold for every value of the constants that satisfies the ASSUMEs of the module.

`SchedulerProofs` and `SchedulerWakeUps`, for every set of commands, of resumed requests, of
hashes, and every assignment of non-empty finite sets of required hashes:

* `LatchesExclude`, `LatchesOrdered`, `OwnersAreFirst`, `WokenAreParked`, `TypeCorrect`: the
  invariants `MutualExclusion`, `LatchOrder`, `OwnerFirst`, `WakeUpParked`, `TypeOK` of the run.
  The inductive invariant is `LatchInv`. `OwnerFirst` alone is not inductive: a release must
  know that the next in the queue is parked (`QueueEntries`), that nobody stands in a queue twice
  (`QueueDistinct`), that a waiting command owns exactly the hashes below the one it waits for
  (`OwnedByPhase`), and that latches kept for a resumed command all come from one releasing
  command (`KeptLatches`). One lemma per kind of step; steps that touch no latch share one.
  `LatchesOrdered` follows because a command stands behind another only in the queue of the
  single latch it waits for, and owns those below it.
* `WakeUpsArrive` (`NoLostWakeUp`), from `LatchInv` and `HeadInv`: a parked command stands in the
  queue of the latch it waits for, and the head of every queue owns the latch, or is about to
  ask for it, or is on a wakeup list.
* `OneReply` (`ReplyAtMostOnce`) and `FailedNotExecuted` (`ExecutedUnanswered`), from `ReplyInv`
  and `AnswerInv`: until a command is taken by the thread that executes it or by the deadline, it
  has its callback and no reply.

`PercolatorProofs`, for every set of keys, transactions, readers, and every workload:

* `ReadsAreCovered` (`MaxTsCoversReads`): max_ts of a leader whose sync status is set is at or
  above every snapshot read on its region, across any number of leader transfers. The inductive
  invariant `MaxTsInv` adds that every timestamp passed to `update_max_ts` and every read timestamp
  was given by the oracle; so a new leader that fetches a fresh one is above all reads of its
  predecessors.
* `CalculatedAboveReads`: in every state of that invariant the commit timestamp that
  `async_commit_timestamps` calculates is above every snapshot the key was read at.

`MemoryLocksSteps` and `MemoryLocksProofs`, for every set of keys, prewrites and reads:

* `GuardsExclude`, `GuardsVisible`, `MutexesInLiveHandles`, `SnapshotsStay`: the invariants
  `GuardExclusive`, `GuardVisible`, `MutexInLiveHandle`, `SnapshotStays` of the run. The inductive
  invariant `IInv` follows a handle through its life: it belongs to its creator until it is in the
  table (`OwnInv`), a live handle stays in the table under its key (`TableInv`), its references are
  those of the threads at certain steps (`RefInv`), whoever removes a key removes a dead handle that
  nobody else removes (`RemoveInv`). With `MeetInv` (a prewrite that will still write at or below
  the timestamp of a read is met by the reader) it gives `SnapshotStays`.

`LockWaitingProofs` and `LockWaitingWaiters`, for every set of requests, each legacy or resumable:

* `AnsweredAtMostOnce` (`AnsweredOnce`) and `QueuedCancellable` (`QueuedIsCancellable`), from `IInv`:
  a request is in one place at a time, of those from which it is answered, and in none once it has
  its answer (`PlaceInv`); one that was enqueued has a waiter, or is cancelled and about to be
  removed, or is on its way (`WaitInv`).
* `NoWaiterIsStale` (`NoStaleWaiter`), from `WInv`: waiter_count is the number of waiters in the
  manager and on their way to it (`CountInv`), and the task that removes a waiter never overtakes
  the one that adds it (`StaleInv`).
* `LegacyNotForgotten` (`NoForgottenLegacy`), from `NotifyInv` and `LegacyInv`: as long as all
  requests are legacy, the entries left in the queue of a key that is to be unlocked were there
  at the last wake-up, and the delayed notification that will take them is on its way or ended
  because its delay was zero.
* `LegacyAlwaysWoken`: if no delay is zero, that exception is void, and `NoForgottenWaiter`
  holds as long as all requests are legacy. The run `lock_waiting_wake_up` shows that it is
  false with a resumable request.

`RegionReadProgressProofs`, for every capacity and every sorted progress: `UpdateSafeTsKeeps` and
`UpdateAppliedKeeps` (the pending items stay sorted, within the capacity and published by the
leader, `safe_ts` does not go back), `SafeTsPublished` (the safe_ts a replica reads at was published
for an index it has applied). `ResolvedTs` uses these operators; the theorems are about
them, not about its behaviours.

Assumptions: the named ASSUMEs of the modules. `RequiredAssumption` (a write command has a
latch) is the panic in `TaskContext::new`; the others say that sets are disjoint or that a
transaction's keys are keys.

Only model-checked, and why:

* Liveness (`EveryCommandAnswered`, `EveryThreadFinishes`, `AnsweredUnlessStuck`): fairness is out of
  the prover's reach.
* `LatchSlot`'s refinement and `NoLeadingHole`: the abstract queues are the subsequences of the
  deque, an induction over data.
* `DeadlockDetection`: `do_detect` is a RECURSIVE operator, with which the prover cannot work.
* The protocol properties of `Percolator`: `AllOrNothing`, `OneCommitTs`, `NoLockBesideRecord`,
  `NoLostUpdate`, `SnapshotReads`, `SecondaryAnswerStays`, `ProtectedStays`, `TypeOK`. They are false
  for workloads like `index_key`, so a theorem needs the workloads it is about.
* `ResolvedTs`: its invariants relate the log, two queues and the tracked locks, and have the
  exceptions of section 5.

## 5. Findings and exceptions

`index_key`: `check_secondary_locks.rs:30` says that when the lock of a secondary does not
exist a rollback may be written "to prevent the status being changed". A key that a pessimistic
transaction does not lock skips the constraint check in prewrite unless the request is marked
as a retry or the status cache knows that the transaction was committed
(`actions/prewrite.rs:790`). If the first request for such a key is delayed until after
`CheckSecondaryLocks` answered, it locks the key beside the protected rollback. The comment in
`txn_status_cache.rs` discusses the same check for transactions that were committed. The passing
run keeps such keys out; assertions, which would make prewrite look at the record, are off.

`lock_waiting_stuck`: `push_lock_wait` receives the external error of a cancelled request while it has
the shard of the queue map locked (`lock_waiting_queue.rs:295`). If the waiter manager has set
`is_canceled` but not yet called `remove_by_token`, it waits for the shard and never sends the
error; both threads stop. `AnsweredUnlessStuck` shows that this is the only way in which a request
is not answered.

`lock_waiting_wake_up`: an entry that is put back after a failed write keeps its
`legacy_wake_up_index` although the state of its key may have been recreated with index 0
(`lock_waiting_queue.rs:271`). The next delayed notification takes it for a later arrival and leaves
it, and those behind it, to their timeouts while the key is free.

The exception of `NoForgottenLegacy`: with `wake-up-delay-duration = 0`, which the configuration
accepts, `async_delayed_notify_all` returns at once (`lock_waiting_queue.rs:456`) and leaves
`delayed_notify_all_state` as it is. Later wake-ups of the key find the state and only extend its
delay (`411`), although no future is left to look at it, so legacy requests behind the first are
woken one per release or left to their timeouts. The comment at `lock_waiting_queue.rs:22` says that
"the remaining lock-waiting entries should be woken up after delaying for
`wake-up-delay-duration`".

`resolved_ts_one_pc`: 1PC rows that are applied while a scan runs are not part of the index the
leader publishes when the scan ends (`endpoint.rs:265`), and a replica that lags behind serves a
stale read without them.

Exceptions that properties name, because the code accepts them or a comment describes them:
`untrack_lock` goes by the key alone, so a rollback of one transaction untracks another's lock
(`resolver.rs:369`, the history variable `passed`); an overlapped rollback has no lock row, so the
lock it removed stays tracked (`cmd.rs:149`). `TrackerExact` reads both off the log: a tracked key
has the lock or an overlapped rollback, and a held lock is tracked unless a later entry rolls
another transaction back on the key, or, for a large transaction, commits or rolls back one of its
keys. `NoLateCommit` leaves the transactions in `passed` out, so it does not say what
`resolver.rs:369` costs; `StaleReadSafe` has no such exception.

`NoSilentDeadlock` leaves out requests with a loss in `Losses`, of which `clean-up`
(`waiter_manager.rs:544`) is an edge removed for another request of the same transaction and lock,
`index` a place in `wait_table` taken by a repeated request (`338`), `reset` and `dropped` what a
change of role and a missing leader cost (`deadlock.rs:681`). It says that nothing else leaves a
deadlock undetected. A deadlock through a lost edge is left to the timeout, and `TimeoutReaches` says
that the timeout does reach it.

## 6. Not modelled

`PROJECT.json` lists every part with its status. The larger ones that are left out: raftstore apart
from its hooks (the raft library is external; leases, read index, splits and merges would be modules
of their own), CDC, the batch system, batched timestamps of `causal_ts`, garbage collection, the
in-memory engine. Within the modelled parts: flow control and quota, values and TTL arithmetic,
Flush and pipelined DML, TxnHeartBeat but for its effect on the cache, `lock_keys` and range checks of the concurrency manager,
merges and joint consensus in `resolved_ts`. An abstract transaction specification that `Percolator`
refines, and the composition of `ResolvedTs` with the calculated timestamps of `MemoryLocks`, are
natural next steps.
