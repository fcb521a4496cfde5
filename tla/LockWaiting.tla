----------------------------- MODULE LockWaiting -----------------------------
(***************************************************************************)
(* Pessimistic lock requests that wait for one key of a store: the queue   *)
(* of the key (LockWaitQueues), the shared state by which each request is  *)
(* answered once (LockWaitContext), the store's WaiterManager, which gives *)
(* up on a request, and the scheduler's commands that enqueue, release,    *)
(* wake up, resume and put back.                                           *)
(*                                                                         *)
(* Three kinds of threads meet here. The command that holds the key's      *)
(* latch (cmd) runs alone among commands. Spawned tasks call the callbacks *)
(* of woken requests and run delayed_notify_all, without the latch. The    *)
(* waiter manager (mgr) is one thread with a FIFO of tasks and timers. The *)
(* queue map is locked per operation, so an operation on the queue is one  *)
(* step; only the one that receives the external error blocks inside it.   *)
(*                                                                         *)
(* A request is named by its start_ts, which is also its priority in the   *)
(* queue. A client that tries again sends a new request.                   *)
(***************************************************************************)
EXTENDS Integers, Sequences, FiniteSets

CONSTANTS Requests,   \* the requests, by start_ts
          Resumables, \* the sets of requests that may have allow_lock_with_conflict
          MayFail,    \* a resumed request may fail with an error other than KeyIsLocked
          Delays      \* the values wake-up-delay-duration may have: 0, or 1 for a positive one

ASSUME RequestsAssumption ==
    /\ Requests \subseteq Nat \ {0} /\ Resumables \subseteq SUBSET Requests
    /\ MayFail \in BOOLEAN /\ Delays \subseteq {0, 1}

None == 0               \* no request, no transaction, no notify id
First == -1             \* the transaction that holds the lock at first
NoIndex == -1           \* legacy_wake_up_index: None

VARIABLES resumable,  \* the requests with allow_lock_with_conflict
          lock,       \* the transaction that holds the lock on the key, or None
          queue,      \* KeyLockWaitState::queue; {} when the key has no state
          wakeIndex,  \* KeyLockWaitState::legacy_wake_up_index
          notifyId,   \* the id in delayed_notify_all_state, or None
          nextId,     \* LockWaitQueueInner::id_allocated
          entryIndex, \* [Requests -> LockWaitEntry::legacy_wake_up_index]
          cmd,        \* the command with the latch: what it does next, for which request
          callbacks,  \* <<r, id>>: a task that answers legacy r, then starts timer id
          timers,     \* the ids of the futures that will call delayed_notify_all
          zero,       \* the ids whose delay_ms is 0
          dropped,    \* the ids of the futures that ended without notifying (history)
          awakened,   \* the resumed requests whose command waits for the latch
          mgr,        \* the waiter manager: what it does next, for which request
          tasks,      \* its queue of tasks
          pool,       \* WaitTable::waiter_pool
          waiters,    \* the shared waiter_count
          canceled,   \* the requests with is_canceled
          external,   \* [Requests -> the state of the external error channel]
          issued,     \* the requests that arrived
          answers     \* [Requests -> the number of answers sent to the client]

keyState == <<queue, wakeIndex, notifyId, nextId, entryIndex>>
manager == <<mgr, tasks, pool, waiters>>
context == <<canceled, external, answers>>
delays == <<zero, dropped>>
vars == <<resumable, lock, keyState, cmd, callbacks, timers, delays, awakened, manager, context, issued>>

Idle == [step |-> "idle", req |-> None]
At(step, r) == [step |-> step, req |-> r]
WaitFor(r) == <<"wait_for", r>>
RemoveLockWait(r) == <<"remove", r>>
Has(seq, task) == \E i \in 1 .. Len(seq) : seq[i] = task

Init ==
    /\ resumable \in Resumables
    /\ lock = First
    /\ queue = {} /\ wakeIndex = 0 /\ notifyId = None /\ nextId = 1
    /\ entryIndex = [r \in Requests |-> NoIndex]
    /\ cmd = Idle
    /\ callbacks = {} /\ timers = {} /\ zero = {} /\ dropped = {} /\ awakened = {}
    /\ mgr = Idle /\ tasks = <<>> /\ pool = {} /\ waiters = 0
    /\ canceled = {}
    /\ external = [r \in Requests |-> "empty"]
    /\ issued = {}
    /\ answers = [r \in Requests |-> 0]

-----------------------------------------------------------------------------
(* The queue of the key. Its state is dropped with its last entry.          *)

\* on_push_canceled_entry waits for the error with the map's shard locked.
ShardLocked == cmd.step = "receive"

Head1(q) == CHOOSE r \in q : \A s \in q : r <= s

\* The state that is left with the entries q: removed if there are none.
Leave(q, index, id) ==
    /\ queue' = q
    /\ wakeIndex' = IF q = {} THEN 0 ELSE index
    /\ notifyId' = IF q = {} THEN None ELSE id

\* finish_request with LockWaitContextSharedState's callback: the one answer to the client.
Answer(r) == answers' = [answers EXCEPT ![r] = @ + 1]

\* Mutant: the waiter is not counted until the manager has it.
RemoveWaiterIfPooled(r) ==
    tasks' = IF pool # {} THEN Append(tasks, RemoveLockWait(r)) ELSE tasks

\* LockManager::remove_lock_wait: nothing is sent when no request waits anywhere.
RemoveWaiter(r) ==
    tasks' = IF waiters > 0 THEN Append(tasks, RemoveLockWait(r)) ELSE tasks

\* finish_request of a request that was popped from the queue.
FinishExecuted(r) ==
    /\ RemoveWaiter(r)
    /\ Answer(r)

-----------------------------------------------------------------------------
(* Commands. Each runs from its first step to Idle under the key's latch.   *)

\* AcquirePessimisticLock, first part: the key is free, and the lock is written and the
\* request answered; or it is locked, and a lock wait entry is made.
Acquire(r) ==
    /\ cmd = Idle /\ r \notin issued
    /\ issued' = issued \cup {r}
    /\ \/ /\ lock = None
          /\ lock' = r
          /\ Answer(r)
          /\ UNCHANGED cmd
       \/ /\ lock # None
          /\ cmd' = At("push", r)
          /\ UNCHANGED <<lock, answers>>
    /\ UNCHANGED <<resumable, keyState, callbacks, timers, delays, awakened, manager, canceled, external>>

\* Mutant: the flag is not checked.
PushLockWaitUnchecked ==
    /\ cmd.step \in {"push", "push_again"}
    /\ LET r == cmd.req
       IN  /\ queue' = queue \cup {r}
           /\ entryIndex' = [entryIndex EXCEPT ![r] = IF @ = NoIndex THEN wakeIndex ELSE @]
           /\ cmd' = IF cmd.step = "push" THEN At("wait_for", r) ELSE Idle
    /\ UNCHANGED <<resumable, lock, wakeIndex, notifyId, nextId, callbacks, timers, delays, awakened, manager,
                   context, issued>>

\* LockWaitQueues::push_lock_wait. A request that is new here then starts to wait; one that
\* was put back or met a lock again is still in the waiter manager. The flag is read with
\* the shard locked.
PushLockWait ==
    /\ cmd.step \in {"push", "push_again"}
    /\ LET r == cmd.req
       IN  \/ /\ r \notin canceled
              /\ queue' = queue \cup {r}
              /\ entryIndex' = [entryIndex EXCEPT ![r] = IF @ = NoIndex THEN wakeIndex ELSE @]
              /\ cmd' = IF cmd.step = "push" THEN At("wait_for", r) ELSE Idle
           \/ /\ r \in canceled
              /\ cmd' = At("receive", r)
              /\ UNCHANGED <<queue, entryIndex>>
    /\ UNCHANGED <<resumable, lock, wakeIndex, notifyId, nextId, callbacks, timers, delays, awakened, manager,
                   context, issued>>

\* on_push_canceled_entry: the receiver blocks until the waiter manager has sent the error.
ReceiveExternalError ==
    /\ cmd.step = "receive" /\ external[cmd.req] = "sent"
    /\ external' = [external EXCEPT ![cmd.req] = "taken"]
    /\ Answer(cmd.req)
    /\ cmd' = Idle
    /\ UNCHANGED <<resumable, lock, keyState, callbacks, timers, delays, awakened, manager, canceled, issued>>

\* LockManager::wait_for: the waiter is counted, then sent to the manager.
SendWaitFor ==
    /\ cmd.step = "wait_for"
    /\ waiters' = waiters + 1
    /\ tasks' = Append(tasks, WaitFor(cmd.req))
    /\ cmd' = Idle
    /\ UNCHANGED <<resumable, lock, keyState, callbacks, timers, delays, awakened, mgr, pool, context, issued>>

\* Mutant: no delayed wake-up follows the one of a legacy request.
PopForWakingUpOnly ==
    LET r == Head1(queue)
    IN  /\ queue # {}
        /\ Leave(queue \ {r}, IF r \in resumable THEN wakeIndex ELSE wakeIndex + 1, None)
        /\ cmd' = At("write", IF r \in resumable THEN r ELSE None)
        /\ callbacks' = callbacks \cup (IF r \in resumable THEN {} ELSE {<<r, None>>})
        /\ UNCHANGED <<nextId, zero>>

\* handle_delayed_wake_up stores the delay with the id: the setting for a new future, and
\* for one that was spawned before, the time since then (in ms) and the setting.
StoreDelay ==
    LET new == notifyId = None
        id == IF new THEN nextId ELSE notifyId
    IN  \E d \in Delays :
          \/ d = 0 /\ zero' = zero \cup {id}
          \/ (d > 0 \/ ~new) /\ zero' = zero \ {id}

\* LockWaitQueues::pop_for_waking_up. The first entry leaves the queue. After a legacy one
\* the others get a delayed wake-up, unless one is on its way.
PopForWakingUp ==
    LET r == Head1(queue)
        rest == queue \ {r}
        delay == rest # {} /\ notifyId = None
    IN  /\ queue # {}
        /\ \/ /\ r \in resumable
              /\ Leave(rest, wakeIndex, notifyId)
              /\ cmd' = At("write", r)
              /\ UNCHANGED <<callbacks, nextId, zero>>
           \/ /\ r \notin resumable
              /\ Leave(rest, wakeIndex + 1, IF delay THEN nextId ELSE notifyId)
              /\ nextId' = IF delay THEN nextId + 1 ELSE nextId
              /\ callbacks' = callbacks \cup {<<r, IF delay THEN nextId ELSE None>>}
              /\ IF rest = {} THEN UNCHANGED zero ELSE StoreDelay
              /\ cmd' = At("write", None)

\* A command that releases the lock (commit, rollback, pessimistic rollback), first part:
\* on_release_locks wakes up before the write. In cmd is the resumable request woken up.
ReleaseLock ==
    /\ cmd = Idle /\ lock # None
    /\ \/ PopForWakingUp
       \/ /\ queue = {}
          /\ cmd' = At("write", None)
          /\ UNCHANGED <<queue, wakeIndex, notifyId, nextId, callbacks, zero>>
    /\ UNCHANGED <<resumable, lock, entryIndex, timers, dropped, awakened, manager, context, issued>>

\* Mutant: after a failed write the request that was woken up is forgotten.
WriteFinishedForgets ==
    /\ cmd.step = "write"
    /\ \/ /\ lock' = None
          /\ cmd' = IF cmd.req = None THEN Idle ELSE At("resume", cmd.req)
       \/ /\ cmd' = Idle
          /\ UNCHANGED lock
    /\ UNCHANGED <<resumable, keyState, callbacks, timers, delays, awakened, manager, context, issued>>

\* on_write_finished of the releasing command. The request it woke up gets the latch, or
\* is put back if the write failed.
WriteFinished ==
    /\ cmd.step = "write"
    /\ \/ /\ lock' = None
          /\ cmd' = IF cmd.req = None THEN Idle ELSE At("resume", cmd.req)
       \/ /\ cmd' = IF cmd.req = None THEN Idle ELSE At("push_again", cmd.req)
          /\ UNCHANGED lock
    /\ UNCHANGED <<resumable, keyState, callbacks, timers, delays, awakened, manager, context, issued>>

\* schedule_awakened_pessimistic_locks, without a latch handed over.
ScheduleAwakened(r) ==
    /\ cmd = Idle /\ r \in awakened
    /\ awakened' = awakened \ {r}
    /\ cmd' = At("resume", r)
    /\ UNCHANGED <<resumable, lock, keyState, callbacks, timers, delays, manager, context, issued>>

\* AcquirePessimisticLockResumed: the request locks the key, fails and is answered, or
\* meets a lock and goes back to the queue with a new entry.
Resume ==
    /\ cmd.step = "resume"
    /\ \/ /\ lock = None
          /\ lock' = cmd.req
          /\ FinishExecuted(cmd.req)
          /\ cmd' = Idle
          /\ UNCHANGED entryIndex
       \/ /\ MayFail
          /\ FinishExecuted(cmd.req)
          /\ cmd' = Idle
          /\ UNCHANGED <<lock, entryIndex>>
       \/ /\ lock # None
          /\ cmd' = At("push_again", cmd.req)
          /\ entryIndex' = [entryIndex EXCEPT ![cmd.req] = NoIndex]
          /\ UNCHANGED <<lock, tasks, answers>>
    /\ UNCHANGED <<resumable, queue, wakeIndex, notifyId, nextId, callbacks, timers, delays, awakened,
                   mgr, pool, waiters, canceled, external, issued>>

-----------------------------------------------------------------------------
(* Tasks spawned by commands.                                               *)

\* wake_up_legacy_pessimistic_locks: the request returns WriteConflict; then the future of
\* the delayed wake-up is spawned.
WakeUpLegacy(r, id) ==
    /\ <<r, id>> \in callbacks
    /\ callbacks' = callbacks \ {<<r, id>>}
    /\ FinishExecuted(r)
    /\ timers' = timers \cup ({id} \ {None})
    /\ UNCHANGED <<resumable, lock, keyState, cmd, delays, awakened, mgr, pool, waiters, canceled,
                   external, issued>>

\* The entries delayed_notify_all pops: from the head on, those that were in the queue at
\* the last wake-up, up to and with the first resumable one.
NotifiedEntries ==
    {r \in queue : \A s \in queue : s <= r =>
        /\ entryIndex[s] < wakeIndex
        /\ s # r => s \notin resumable}

\* async_delayed_notify_all. A future that finds the delay 0 takes itself for cancelled and
\* ends, and delayed_notify_all_state is left as it is. Otherwise delayed_notify_all clears
\* the state and wakes up, but does nothing if the state was recreated since.
DelayedNotifyAll(id) ==
    /\ id \in timers
    /\ timers' = timers \ {id}
    /\ \/ /\ id \in zero
          /\ dropped' = dropped \cup {id}
          /\ UNCHANGED <<queue, wakeIndex, notifyId, callbacks, awakened>>
       \/ /\ id \notin zero /\ ~ShardLocked /\ notifyId = id
          /\ Leave(queue \ NotifiedEntries, wakeIndex, None)
          /\ callbacks' = callbacks \cup {<<r, None>> : r \in NotifiedEntries \ resumable}
          /\ awakened' = awakened \cup (NotifiedEntries \cap resumable)
          /\ UNCHANGED dropped
       \/ /\ id \notin zero /\ ~ShardLocked /\ notifyId # id
          /\ UNCHANGED <<queue, wakeIndex, notifyId, callbacks, awakened, dropped>>
    /\ UNCHANGED <<resumable, lock, nextId, entryIndex, cmd, zero, manager, context, issued>>

-----------------------------------------------------------------------------
(* The waiter manager.                                                      *)

\* handle_wait_for and handle_remove_lock_wait.
HandleTask ==
    /\ mgr = Idle /\ tasks # <<>>
    /\ tasks' = Tail(tasks)
    /\ LET r == Head(tasks)[2]
       IN  \/ /\ Head(tasks) = WaitFor(r)
              /\ pool' = pool \cup {r}
              /\ UNCHANGED waiters
           \/ /\ Head(tasks) = RemoveLockWait(r)
              /\ pool' = pool \ {r}
              /\ waiters' = waiters - Cardinality(pool \cap {r})
    /\ UNCHANGED <<resumable, lock, keyState, cmd, callbacks, timers, delays, awakened, mgr, context, issued>>

\* The waiter times out, or a deadlock is reported (handle_deadlock): it is taken from the
\* table, and finish_request sets is_canceled.
CancelWaiter(r) ==
    /\ mgr = Idle /\ r \in pool
    /\ pool' = pool \ {r}
    /\ waiters' = waiters - 1
    /\ canceled' = canceled \cup {r}
    /\ mgr' = At("remove", r)
    /\ UNCHANGED <<resumable, lock, keyState, cmd, callbacks, timers, delays, awakened, tasks, external,
                   answers, issued>>

\* Mutant: the request is answered whether or not its entry was in the queue.
RemoveByTokenAnyway ==
    /\ mgr.step = "remove" /\ ~ShardLocked
    /\ Leave(queue \ {mgr.req}, wakeIndex, notifyId)
    /\ Answer(mgr.req)
    /\ mgr' = Idle
    /\ UNCHANGED <<resumable, lock, nextId, entryIndex, cmd, callbacks, timers, delays, awakened, tasks, pool,
                   waiters, canceled, external, issued>>

\* finish_request, remove_by_token: the request is answered if its entry was in the queue.
RemoveByToken ==
    /\ mgr.step = "remove" /\ ~ShardLocked
    /\ \/ /\ mgr.req \in queue
          /\ Leave(queue \ {mgr.req}, wakeIndex, notifyId)
          /\ Answer(mgr.req)
          /\ mgr' = Idle
       \/ /\ mgr.req \notin queue
          /\ mgr' = At("put", mgr.req)
          /\ UNCHANGED <<queue, wakeIndex, notifyId, answers>>
    /\ UNCHANGED <<resumable, lock, nextId, entryIndex, cmd, callbacks, timers, delays, awakened, tasks, pool,
                   waiters, canceled, external, issued>>

\* put_external_error, for the command that puts the entry back.
PutExternalError ==
    /\ mgr.step = "put"
    /\ external' = [external EXCEPT ![mgr.req] = "sent"]
    /\ mgr' = Idle
    /\ UNCHANGED <<resumable, lock, keyState, cmd, callbacks, timers, delays, awakened, tasks, pool, waiters,
                   canceled, answers, issued>>

-----------------------------------------------------------------------------
CommandStep == PushLockWait \/ ReceiveExternalError \/ SendWaitFor \/ WriteFinished \/ Resume

ManagerStep == HandleTask \/ RemoveByToken \/ PutExternalError

TaskStep == \/ \E t \in callbacks : WakeUpLegacy(t[1], t[2])
            \/ \E id \in timers : DelayedNotifyAll(id)

\* Every request was answered, and nothing is left to do but to release the lock.
Settled ==
    /\ cmd = Idle /\ mgr = Idle /\ tasks = <<>> /\ pool = {} /\ lock = None /\ issued = Requests
    /\ callbacks = {} /\ timers = {} /\ awakened = {}

\* The waiter manager waits for the shard to remove the entry, and the command that has
\* the shard waits for the error the manager sends after that.
Stuck == cmd.step = "receive" /\ mgr = At("remove", cmd.req)

Next ==
    \/ \E r \in Requests : Acquire(r) \/ ScheduleAwakened(r) \/ CancelWaiter(r)
    \/ ReleaseLock \/ CommandStep \/ ManagerStep \/ TaskStep
    \/ (Settled \/ Stuck) /\ UNCHANGED vars

\* Threads and tasks are scheduled, the engine answers, timers fire; a latch is granted in
\* order of arrival, and the manager's thread looks at its timers again and again. Nothing
\* makes a client send a request or a transaction release its lock.
Fairness ==
    /\ WF_vars(CommandStep) /\ WF_vars(ManagerStep) /\ WF_vars(TaskStep)
    /\ SF_vars(\E r \in Requests : ScheduleAwakened(r))
    /\ SF_vars(\E r \in Requests : CancelWaiter(r))

Spec == Init /\ [][Next]_vars /\ Fairness

-----------------------------------------------------------------------------
(* Properties.                                                              *)

Commands == {"idle", "push", "push_again", "receive", "wait_for", "write", "resume"}

TypeOK ==
    /\ resumable \subseteq Requests /\ issued \subseteq Requests
    /\ lock \in Requests \cup {None, First}
    /\ queue \subseteq Requests /\ wakeIndex \in Nat /\ notifyId \in Nat /\ nextId \in Nat
    /\ entryIndex \in [Requests -> Nat \cup {NoIndex}]
    /\ cmd \in [step : Commands, req : Requests \cup {None}]
    /\ callbacks \subseteq Requests \X Nat /\ timers \subseteq Nat
    /\ zero \subseteq Nat /\ dropped \subseteq Nat /\ awakened \subseteq Requests
    /\ mgr \in [step : {"idle", "remove", "put"}, req : Requests \cup {None}]
    /\ tasks \in Seq({"wait_for", "remove"} \X Requests)
    /\ pool \subseteq Requests /\ waiters \in Int
    /\ canceled \subseteq Requests /\ external \in [Requests -> {"empty", "sent", "taken"}]
    /\ answers \in [Requests -> Nat]

\* The client gets one answer, although a wake-up, a delayed wake-up and a cancellation may
\* race: finish_request takes the context it unwraps at most once.
AnsweredOnce == \A r \in Requests : answers[r] <= 1

\* A request in the queue can still be cancelled: the manager has it, will get it, or is
\* about to remove it. So a request that met a lock again after its timeout is not enqueued.
QueuedIsCancellable ==
    \A r \in queue :
        \/ r \in pool \/ Has(tasks, WaitFor(r))
        \/ cmd = At("wait_for", r) \/ mgr = At("remove", r)

\* A waiter of an answered request leaves the manager without waiting for its timeout:
\* waiter_count, which lets remove_lock_wait return early, is never too small.
NoStaleWaiter ==
    \A r \in pool : answers[r] > 0 => Has(tasks, RemoveLockWait(r))

\* Nothing is under way that could wake up a waiter of the key.
NobodyWakesUp == cmd = Idle /\ timers = {} /\ awakened = {} /\ callbacks = {}

\* No waiter is left to its timeout while the key is free: a lock was released, so the
\* queue was woken up, at once or by the delayed notification.
NoForgottenWaiter == lock = None /\ NobodyWakesUp => queue = {}

\* As long as all requests are legacy ones, that holds but for the waiters behind the
\* state a future left when it found its delay to be 0: later wake-ups take the delayed
\* notification for scheduled. So with a positive wake-up-delay-duration it always holds.
NoForgottenLegacy ==
    resumable = {} /\ lock = None /\ NobodyWakesUp => queue = {} \/ notifyId \in dropped

AllAnswered == \A r \in issued : answers[r] > 0

\* Every request is answered, whatever happens to the lock: again and again all that have
\* arrived are.
EveryRequestAnswered == []<>AllAnswered

\* Every request is answered unless a cancellation and the re-enqueueing block each other.
AnsweredUnlessStuck == []<>(AllAnswered \/ Stuck)

=============================================================================
