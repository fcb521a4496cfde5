------------------------- MODULE LockWaitingWaiters -------------------------
(***************************************************************************)
(* Further proofs about LockWaiting, for any number of requests: the       *)
(* waiter of an answered request leaves the waiter manager, and a legacy   *)
(* request is not left in the queue of a free key.                         *)
(***************************************************************************)
EXTENDS LockWaitingProofs

-----------------------------------------------------------------------------
(* The order of the waiter manager's tasks.                                 *)

\* The task is sent at most once.
Once(seq, a) == \A i, j \in 1 .. Len(seq) : seq[i] = a /\ seq[j] = a => i = j

\* After the task a there is b in the queue.
Follows(seq, a, b) ==
    \A i \in 1 .. Len(seq) : seq[i] = a => \E j \in 1 .. Len(seq) : i < j /\ seq[j] = b

\* What a new task does to the order.
LEMMA OrderAppend ==
    ASSUME NEW seq \in Seq(Task), NEW e \in Task, NEW a, NEW b
    PROVE  /\ Once(seq, a) /\ (a = e => ~Has(seq, a)) => Once(Append(seq, e), a)
           /\ Follows(seq, a, b) /\ a # e => Follows(Append(seq, e), a, b)
           /\ a # e /\ b = e => Follows(Append(seq, e), a, b)
<1>. DEFINE n == Len(seq)
            app == Append(seq, e)
<1>1. /\ n \in Nat /\ Len(app) = n + 1 /\ app[n + 1] = e
      /\ \A i \in 1 .. n : app[i] = seq[i]
  OBVIOUS
<1>. HIDE DEF app
<1>2. ASSUME Once(seq, a), a = e => ~Has(seq, a) PROVE Once(app, a)
  <2>. SUFFICES ASSUME NEW i \in 1 .. n + 1, NEW j \in 1 .. n + 1, app[i] = a, app[j] = a
                PROVE  i = j
    BY <1>1, Zenon DEF Once
  <2>1. CASE i \in 1 .. n /\ j \in 1 .. n
    BY <1>1, <1>2, <2>1, Zenon DEF Once
  <2>2. CASE i = n + 1 \/ j = n + 1
    <3>1. a = e
      BY <1>1, <2>2, Zenon
    <3>2. \A m \in 1 .. n : app[m] # a
      BY <1>1, <1>2, <3>1, Zenon DEF Has
    <3>. QED
      BY <1>1, <3>2
  <2>. QED
    BY <1>1, <2>1, <2>2
<1>3. ASSUME Follows(seq, a, b), a # e PROVE Follows(app, a, b)
  <2>. SUFFICES ASSUME NEW i \in 1 .. n + 1, app[i] = a
                PROVE  \E j \in 1 .. n + 1 : i < j /\ app[j] = b
    BY <1>1, Zenon DEF Follows
  <2>1. i \in 1 .. n /\ seq[i] = a
    BY <1>1, <1>3
  <2>2. PICK j \in 1 .. n : i < j /\ seq[j] = b
    BY <1>3, <2>1, Zenon DEF Follows
  <2>3. j \in 1 .. n + 1 /\ app[j] = b
    BY <1>1, <2>2
  <2>. QED
    BY <2>2, <2>3, Zenon
<1>4. ASSUME a # e, b = e PROVE Follows(app, a, b)
  <2>. SUFFICES ASSUME NEW i \in 1 .. n + 1, app[i] = a
                PROVE  \E j \in 1 .. n + 1 : i < j /\ app[j] = b
    BY <1>1, Zenon DEF Follows
  <2>1. i < n + 1 /\ n + 1 \in 1 .. n + 1
    BY <1>1, <1>4
  <2>. QED
    BY <1>1, <1>4, <2>1, Zenon
<1>. QED
  BY <1>2, <1>3, <1>4, Zenon DEF app

\* What is left of the order when the first task was handled.
LEMMA OrderTail ==
    ASSUME NEW seq \in Seq(Task), seq # <<>>, NEW a, NEW b
    PROVE  /\ Once(seq, a) => Once(Tail(seq), a)
           /\ Once(seq, a) /\ Head(seq) = a => ~Has(Tail(seq), a)
           /\ Follows(seq, a, b) => Follows(Tail(seq), a, b)
           /\ Follows(seq, a, b) /\ Head(seq) = a => Has(Tail(seq), b)
<1>. DEFINE n == Len(seq) - 1
            rest == Tail(seq)
<1>1. /\ n \in Nat /\ Len(seq) = n + 1 /\ Len(rest) = n /\ Head(seq) = seq[1]
      /\ \A i \in 1 .. n : rest[i] = seq[i + 1]
  OBVIOUS
<1>. HIDE DEF rest, n
<1>2. \A i \in 1 .. n : i + 1 \in 1 .. n + 1
  BY <1>1
<1>3. ASSUME Once(seq, a) PROVE Once(rest, a)
  <2>. SUFFICES ASSUME NEW i \in 1 .. n, NEW j \in 1 .. n, rest[i] = a, rest[j] = a
                PROVE  i = j
    BY <1>1, Zenon DEF Once
  <2>1. i + 1 = j + 1
    BY <1>1, <1>2, <1>3 DEF Once
  <2>. QED
    BY <1>1, <2>1
<1>4. ASSUME Once(seq, a), Head(seq) = a PROVE ~Has(rest, a)
  <2>. SUFFICES ASSUME NEW i \in 1 .. n, rest[i] = a PROVE FALSE
    BY <1>1, Zenon DEF Has
  <2>1. 1 \in 1 .. n + 1 /\ i + 1 \in 1 .. n + 1 /\ seq[i + 1] = a /\ seq[1] = a
    BY <1>1, <1>2, <1>4
  <2>2. i + 1 = 1
    BY <1>1, <1>4, <2>1, Zenon DEF Once
  <2>. QED
    BY <1>1, <2>2
<1>5. ASSUME Follows(seq, a, b), NEW i \in 1 .. n + 1, seq[i] = a
      PROVE  \E j \in 1 .. n : i < j + 1 /\ rest[j] = b
  <2>1. PICK j \in 1 .. n + 1 : i < j /\ seq[j] = b
    BY <1>1, <1>5, Zenon DEF Follows
  <2>2. j - 1 \in 1 .. n /\ (j - 1) + 1 = j
    BY <1>1, <2>1
  <2>3. rest[j - 1] = b
    BY <1>1, <2>1, <2>2, Zenon
  <2>. QED
    BY <2>1, <2>2, <2>3, Zenon
<1>6. ASSUME Follows(seq, a, b) PROVE Follows(rest, a, b)
  <2>. SUFFICES ASSUME NEW i \in 1 .. n, rest[i] = a
                PROVE  \E j \in 1 .. n : i < j /\ rest[j] = b
    BY <1>1, Zenon DEF Follows
  <2>1. PICK j \in 1 .. n : i + 1 < j + 1 /\ rest[j] = b
    BY <1>1, <1>2, <1>5, <1>6, Zenon
  <2>. QED
    BY <1>1, <2>1
<1>7. ASSUME Follows(seq, a, b), Head(seq) = a PROVE Has(rest, b)
  <2>1. 1 \in 1 .. n + 1 /\ seq[1] = a
    BY <1>1, <1>7
  <2>. QED
    BY <1>1, <1>5, <1>7, <2>1, Zenon DEF Has
<1>. QED
  BY <1>3, <1>4, <1>6, <1>7, Zenon DEF rest

-----------------------------------------------------------------------------
(* Waiters that are counted, and waiters of answered requests.              *)

\* The waiters in the manager and on their way to it.
Tracked == pool \cup {r \in Requests : Has(tasks, WaitFor(r))}

\* waiter_count counts them.
CountInv == IsFiniteSet(Tracked) /\ waiters = Cardinality(Tracked)

\* The request has not been in the queue.
Fresh(r) == r \notin issued \/ cmd = At("push", r)

\* A request is sent to the manager once, right after it was enqueued and before anything
\* can take it from the queue. When it is cancelled the manager has forgotten it, and
\* once it is answered a task to remove it follows.
StaleInv ==
    \A r \in Requests :
        /\ r \in pool => ~Has(tasks, WaitFor(r))
        /\ Once(tasks, WaitFor(r))
        /\ Fresh(r) => r \notin Tracked /\ entryIndex[r] = NoIndex /\ r \notin canceled
        /\ cmd = At("wait_for", r) =>
              r \in queue /\ r \notin Tracked /\ r \notin canceled /\ entryIndex[r] >= wakeIndex
        /\ r \in canceled => r \notin Tracked
        /\ mgr.step # "idle" /\ mgr.req = r => r \in canceled
        /\ cmd.step = "receive" /\ cmd.req = r => r \in canceled
        /\ answers[r] > 0 => /\ r \in pool => Has(tasks, RemoveLockWait(r))
                             /\ Follows(tasks, WaitFor(r), RemoveLockWait(r))

WInv == StaleInv /\ CountInv

\* A request that has no waiter anywhere is in no task of the manager.
LEMMA TrackedFacts ==
    ASSUME NEW r \in Requests
    PROVE  /\ r \notin Tracked <=> r \notin pool /\ ~Has(tasks, WaitFor(r))
           /\ ~Has(tasks, WaitFor(r)) => Follows(tasks, WaitFor(r), RemoveLockWait(r))
BY Zenon DEF Tracked, Has, Follows

\* A step that sends and handles no task, and answers only requests without a waiter.
LEMMA QuietWaiters ==
    ASSUME IInv, WInv, UNCHANGED <<tasks, pool, waiters, canceled>>,
           \A r \in Requests : Fresh(r)' => Fresh(r) /\ entryIndex'[r] = entryIndex[r],
           \A r \in Requests : cmd' = At("wait_for", r) =>
               /\ cmd = At("wait_for", r) \/ Fresh(r)
               /\ r \in queue' /\ entryIndex'[r] >= wakeIndex',
           \A r \in Requests : mgr'.step # "idle" /\ mgr'.req = r => r \in canceled,
           \A r \in Requests : cmd'.step = "receive" /\ cmd'.req = r => r \in canceled,
           \A r \in Requests : answers'[r] > 0 => answers[r] > 0 \/ r \notin Tracked
    PROVE  WInv'
<1>1. Tracked' = Tracked
  BY Zenon DEF Tracked
<1>2. CountInv'
  BY <1>1, Zenon DEF WInv, CountInv
<1>3. StaleInv'
  <2>. SUFFICES ASSUME NEW r \in Requests
                PROVE  /\ r \in pool' => ~Has(tasks', WaitFor(r))
                       /\ Once(tasks', WaitFor(r))
                       /\ Fresh(r)' => r \notin Tracked' /\ entryIndex'[r] = NoIndex /\ r \notin canceled'
                       /\ cmd' = At("wait_for", r) =>
                             /\ r \in queue' /\ r \notin Tracked' /\ r \notin canceled'
                             /\ entryIndex'[r] >= wakeIndex'
                       /\ r \in canceled' => r \notin Tracked'
                       /\ mgr'.step # "idle" /\ mgr'.req = r => r \in canceled'
                       /\ cmd'.step = "receive" /\ cmd'.req = r => r \in canceled'
                       /\ answers'[r] > 0 =>
                             /\ r \in pool' => Has(tasks', RemoveLockWait(r))
                             /\ Follows(tasks', WaitFor(r), RemoveLockWait(r))
    BY Zenon DEF StaleInv
  <2>1. answers'[r] > 0 => /\ r \in pool => Has(tasks, RemoveLockWait(r))
                           /\ Follows(tasks, WaitFor(r), RemoveLockWait(r))
    BY TrackedFacts, Zenon DEF WInv, StaleInv
  <2>. QED
    BY <1>1, <2>1, Zenon DEF WInv, StaleInv
<1>. QED
  BY <1>2, <1>3, Zenon DEF WInv

\* The answer of finish_request: the manager is told to remove the waiter, unless nobody
\* waits anywhere.
LEMMA FinishWaiters ==
    ASSUME IInv, WInv, NEW f \in Requests, UNCHANGED <<pool, waiters, canceled, mgr, queue, wakeIndex>>,
           entryIndex' = entryIndex, issued' = issued,
           tasks' = IF waiters > 0 THEN Append(tasks, RemoveLockWait(f)) ELSE tasks,
           cmd' \in {cmd, Idle}, answers' = [answers EXCEPT ![f] = @ + 1]
    PROVE  WInv'
<1>0. /\ tasks \in Seq(Task) /\ RemoveLockWait(f) \in Task /\ answers \in [Requests -> Nat]
      /\ waiters \in Int
  BY TasksLemma, TaskLemma, Zenon DEF IInv, TypeOK
<1>1. \A s \in Requests : Has(tasks', WaitFor(s)) <=> Has(tasks, WaitFor(s))
  BY RemoveWaiterLemma, Zenon DEF RemoveLockWait
<1>2. Tracked' = Tracked
  BY <1>1, Zenon DEF Tracked
<1>3. CountInv'
  BY <1>2, Zenon DEF WInv, CountInv
<1>4. \A s \in Requests : Once(tasks', WaitFor(s))
  BY <1>0, OrderAppend, TaskLemma, Zenon DEF WInv, StaleInv
<1>5. ASSUME NEW s \in Requests, answers'[s] > 0
      PROVE  /\ s \in pool' => Has(tasks', RemoveLockWait(s))
             /\ Follows(tasks', WaitFor(s), RemoveLockWait(s))
  <2>1. CASE waiters > 0
    <3>1. tasks' = Append(tasks, RemoveLockWait(f)) /\ WaitFor(s) # RemoveLockWait(f)
      BY <2>1, TaskLemma, Zenon
    <3>2. CASE s = f
      BY <1>0, <3>1, <3>2, OrderAppend, HasAppend
    <3>3. CASE s # f
      <4>1. answers[s] > 0
        BY <1>0, <1>5, <3>3, Zenon
      <4>2. /\ s \in pool => Has(tasks, RemoveLockWait(s))
            /\ Follows(tasks, WaitFor(s), RemoveLockWait(s))
        BY <4>1, Zenon DEF WInv, StaleInv
      <4>. QED
        BY <1>0, <3>1, <4>2, OrderAppend, HasAppend
    <3>. QED
      BY <3>2, <3>3, Zenon
  <2>2. CASE ~(waiters > 0)
    <3>1. Tracked = {}
      <4>1. IsFiniteSet(Tracked) /\ Cardinality(Tracked) = waiters
        BY Zenon DEF WInv, CountInv
      <4>2. Cardinality(Tracked) \in Nat
        BY <4>1, FS_CardinalityType, Zenon
      <4>3. Cardinality(Tracked) = 0
        BY <1>0, <2>2, <4>1, <4>2
      <4>. QED
        BY <4>1, <4>3, FS_EmptySet, Zenon
    <3>2. s \notin pool /\ ~Has(tasks, WaitFor(s)) /\ Follows(tasks, WaitFor(s), RemoveLockWait(s))
      BY <3>1, TrackedFacts, Zenon
    <3>. QED
      BY <2>2, <3>2, Zenon
  <2>. QED
    BY <2>1, <2>2, Zenon
<1>6. /\ \A s \in Requests : Fresh(s)' => Fresh(s)
      /\ \A s \in Requests : cmd' = At("wait_for", s) => cmd = At("wait_for", s)
      /\ cmd'.step = "receive" => cmd' = cmd
  BY DEF Fresh, At, Idle
<1>7. StaleInv'
  BY <1>1, <1>2, <1>4, <1>5, <1>6, Zenon DEF WInv, StaleInv
<1>. QED
  BY <1>3, <1>7, Zenon DEF WInv

\* A request that has just been enqueued is sent to the manager and counted.
LEMMA SendWaitForWaiters ==
    ASSUME IInv, WInv, SendWaitFor
    PROVE  WInv'
<1>. DEFINE f == cmd.req
<1>1. /\ cmd.step = "wait_for" /\ waiters' = waiters + 1 /\ tasks' = Append(tasks, WaitFor(f))
      /\ cmd' = Idle
      /\ UNCHANGED <<queue, wakeIndex, entryIndex, mgr, pool, canceled, answers, issued>>
  BY Zenon DEF SendWaitFor, keyState, context
<1>2. /\ f \in Requests /\ tasks \in Seq(Task) /\ WaitFor(f) \in Task /\ cmd = At("wait_for", f)
      /\ f \in queue /\ f \notin Tracked /\ f \notin canceled /\ answers[f] = 0
  <2>1. f \in Requests /\ tasks \in Seq(Task) /\ cmd = At("wait_for", f)
    BY <1>1, TasksLemma, Zenon DEF IInv, ThreadInv, TypeOK, At
  <2>2. f \in queue /\ f \notin Tracked /\ f \notin canceled
    BY <2>1, Zenon DEF WInv, StaleInv
  <2>. QED
    BY <2>1, <2>2, TaskLemma, Zenon DEF IInv, PlaceInv
<1>. HIDE DEF f
<1>3. \A x : Has(tasks', x) <=> Has(tasks, x) \/ x = WaitFor(f)
  BY <1>1, <1>2, HasAppend, Zenon
<1>4. Tracked' = Tracked \cup {f}
  BY <1>1, <1>2, <1>3, TaskLemma, Zenon DEF Tracked
<1>5. CountInv'
  BY <1>1, <1>2, <1>4, FS_AddElement, Zenon DEF WInv, CountInv
<1>6. \A s \in Requests : Once(tasks', WaitFor(s))
  BY <1>1, <1>2, OrderAppend, TaskLemma, TrackedFacts, Zenon DEF WInv, StaleInv
<1>7. ASSUME NEW s \in Requests, answers[s] > 0
      PROVE  /\ s \in pool => Has(tasks', RemoveLockWait(s))
             /\ Follows(tasks', WaitFor(s), RemoveLockWait(s))
  <2>1. /\ s # f /\ WaitFor(s) # WaitFor(f)
        /\ s \in pool => Has(tasks, RemoveLockWait(s))
        /\ Follows(tasks, WaitFor(s), RemoveLockWait(s))
    BY <1>2, <1>7, TaskLemma DEF WInv, StaleInv
  <2>. QED
    BY <1>1, <1>2, <1>3, <2>1, OrderAppend, Zenon
<1>8. StaleInv'
  <2>1. \A s \in Requests : ~(cmd' = At("wait_for", s)) /\ cmd'.step # "receive"
                             /\ (Fresh(s)' => Fresh(s) /\ s # f)
    BY <1>1, <1>2, Zenon DEF Fresh, At, Idle, IInv, PlaceInv
  <2>2. \A s \in Requests : s \in pool => s # f /\ ~Has(tasks', WaitFor(s))
    BY <1>2, <1>3, TaskLemma, TrackedFacts, Zenon DEF WInv, StaleInv
  <2>. QED
    BY <1>1, <1>2, <1>4, <1>6, <1>7, <2>1, <2>2, Zenon DEF WInv, StaleInv
<1>. QED
  BY <1>5, <1>8, Zenon DEF WInv

\* The manager takes a waiter into its table, or drops it.
LEMMA HandleTaskWaiters ==
    ASSUME IInv, WInv, HandleTask
    PROVE  WInv'
<1>0. /\ tasks # <<>> /\ tasks' = Tail(tasks)
      /\ UNCHANGED <<queue, wakeIndex, entryIndex, cmd, mgr, canceled, answers, issued>>
  BY Zenon DEF HandleTask, keyState, context
<1>1. tasks \in Seq(Task) /\ pool \subseteq Requests
  BY TasksLemma, Zenon DEF IInv, TypeOK
<1>2. PICK f \in Requests : f = Head(tasks)[2]
  BY <1>0, <1>1 DEF Task
<1>3. \A x : Has(tasks, x) <=> x = Head(tasks) \/ Has(tasks', x)
  BY <1>0, <1>1, HasTail, Zenon
<1>4. \A s \in Requests : Once(tasks', WaitFor(s))
  BY <1>0, <1>1, OrderTail, Zenon DEF WInv, StaleInv
<1>5. \A s \in Requests : answers[s] > 0 => Follows(tasks', WaitFor(s), RemoveLockWait(s))
  BY <1>0, <1>1, OrderTail, Zenon DEF WInv, StaleInv
<1>6. \A s \in Requests : Fresh(s)' <=> Fresh(s)
  BY <1>0, Zenon DEF Fresh
<1>7. CASE Head(tasks) = WaitFor(f)
  <2>1. pool' = pool \cup {f} /\ waiters' = waiters
    BY <1>2, <1>7 DEF HandleTask, WaitFor, RemoveLockWait
  <2>2. \A s \in Requests : /\ Has(tasks', RemoveLockWait(s)) <=> Has(tasks, RemoveLockWait(s))
                            /\ s # f => (Has(tasks', WaitFor(s)) <=> Has(tasks, WaitFor(s)))
    BY <1>3, <1>7, TaskLemma, Zenon
  <2>3. ~Has(tasks', WaitFor(f))
    BY <1>0, <1>1, <1>7, OrderTail, Zenon DEF WInv, StaleInv
  <2>4. Has(tasks, WaitFor(f))
    BY <1>3, <1>7, Zenon
  <2>5. Tracked' = Tracked
    BY <1>2, <2>1, <2>2, <2>3, <2>4, Zenon DEF Tracked
  <2>6. answers[f] > 0 => Has(tasks', RemoveLockWait(f))
    BY <1>0, <1>1, <1>7, OrderTail, Zenon DEF WInv, StaleInv
  <2>7. StaleInv'
    BY <1>0, <1>4, <1>5, <1>6, <2>1, <2>2, <2>3, <2>5, <2>6, Zenon DEF WInv, StaleInv
  <2>. QED
    BY <2>1, <2>5, <2>7, Zenon DEF WInv, CountInv
<1>8. CASE Head(tasks) = RemoveLockWait(f)
  <2>1. pool' = pool \ {f} /\ waiters' = waiters - Cardinality(pool \cap {f})
    BY <1>2, <1>8 DEF HandleTask, WaitFor, RemoveLockWait
  <2>2. \A s \in Requests : /\ Has(tasks', WaitFor(s)) <=> Has(tasks, WaitFor(s))
                            /\ s # f => (Has(tasks', RemoveLockWait(s)) <=> Has(tasks, RemoveLockWait(s)))
    BY <1>3, <1>8, TaskLemma, Zenon
  <2>3. CASE f \in pool
    <3>1. ~Has(tasks, WaitFor(f))
      BY <2>3, Zenon DEF WInv, StaleInv
    <3>2. Tracked' = Tracked \ {f} /\ f \in Tracked
      BY <2>1, <2>2, <2>3, <3>1, Zenon DEF Tracked
    <3>3. pool \cap {f} = {f}
      BY <2>3, Zenon
    <3>4. Cardinality(pool \cap {f}) = 1
      BY <3>3, FS_Singleton, Zenon
    <3>5. CountInv'
      BY <2>1, <3>2, <3>4, FS_RemoveElement, Zenon DEF WInv, CountInv
    <3>6. StaleInv'
      BY <1>0, <1>4, <1>5, <1>6, <2>1, <2>2, <3>2, Zenon DEF WInv, StaleInv
    <3>. QED
      BY <3>5, <3>6, Zenon DEF WInv
  <2>4. CASE f \notin pool
    <3>1. pool \cap {f} = {} /\ pool' = pool
      BY <2>1, <2>4, Zenon
    <3>2. Cardinality(pool \cap {f}) = 0
      BY <3>1, FS_EmptySet, Zenon
    <3>3. Tracked' = Tracked
      BY <2>2, <3>1, Zenon DEF Tracked
    <3>4. waiters' = waiters
      BY <2>1, <3>2 DEF IInv, TypeOK
    <3>5. StaleInv'
      BY <1>0, <1>4, <1>5, <1>6, <2>1, <2>2, <3>3, Zenon DEF WInv, StaleInv
    <3>. QED
      BY <3>3, <3>4, <3>5, Zenon DEF WInv, CountInv
  <2>. QED
    BY <2>3, <2>4, Zenon
<1>. QED
  BY <1>2, <1>7, <1>8, Zenon DEF HandleTask

\* A cancelled waiter leaves the table and is not counted any more.
LEMMA CancelWaiterWaiters ==
    ASSUME IInv, WInv, NEW f \in Requests, CancelWaiter(f)
    PROVE  WInv'
<1>1. /\ f \in pool /\ pool' = pool \ {f} /\ waiters' = waiters - 1 /\ canceled' = canceled \cup {f}
      /\ mgr' = At("remove", f)
      /\ UNCHANGED <<queue, wakeIndex, entryIndex, cmd, tasks, answers, issued>>
  BY Zenon DEF CancelWaiter, keyState
<1>2. ~Has(tasks, WaitFor(f)) /\ f \in Tracked
  BY <1>1, Zenon DEF WInv, StaleInv, Tracked
<1>3. Tracked' = Tracked \ {f}
  BY <1>1, <1>2, Zenon DEF Tracked
<1>4. CountInv'
  BY <1>1, <1>2, <1>3, FS_RemoveElement, Zenon DEF WInv, CountInv
<1>5. \A s \in Requests : Fresh(s)' <=> Fresh(s)
  BY <1>1, Zenon DEF Fresh
<1>6. StaleInv'
  BY <1>1, <1>2, <1>3, <1>5, Zenon DEF WInv, StaleInv, At
<1>. QED
  BY <1>4, <1>6, Zenon DEF WInv


\* A new request has no waiter yet, and is answered at once or is in the command.
LEMMA AcquireWaiters ==
    ASSUME IInv, WInv, NEW f \in Requests, Acquire(f)
    PROVE  WInv'
<1>1. /\ cmd = Idle /\ f \notin issued /\ issued' = issued \cup {f}
      /\ \/ cmd' = cmd /\ answers' = [answers EXCEPT ![f] = @ + 1]
         \/ cmd' = At("push", f) /\ answers' = answers
      /\ UNCHANGED <<queue, wakeIndex, entryIndex, mgr, tasks, pool, waiters, canceled>>
  BY Zenon DEF Acquire, Answer, keyState, manager
<1>2. f \notin Tracked
  BY <1>1, Zenon DEF WInv, StaleInv, Fresh
<1>3. \A s \in Requests : answers'[s] > 0 => answers[s] > 0 \/ s \notin Tracked
  BY <1>1, <1>2, Zenon DEF IInv, TypeOK
<1>4. \A s \in Requests : Fresh(s)' => Fresh(s)
  BY <1>1 DEF Fresh, At, Idle
<1>5. /\ \A s \in Requests : cmd' # At("wait_for", s)
      /\ cmd'.step # "receive"
  BY <1>1 DEF At, Idle
<1>. QED
  BY <1>1, <1>3, <1>4, <1>5, QuietWaiters, Zenon DEF WInv, StaleInv

\* The entry of a request that starts to wait has the index of the last wake-up.
LEMMA PushLockWaitWaiters ==
    ASSUME IInv, WInv, PushLockWait
    PROVE  WInv'
<1>. DEFINE f == cmd.req
<1>1. /\ cmd.step \in {"push", "push_again"} /\ f \in Requests
      /\ UNCHANGED <<wakeIndex, mgr, tasks, pool, waiters, canceled, answers, issued>>
  BY Zenon DEF PushLockWait, manager, context, IInv, ThreadInv
<1>2. /\ \A s \in Requests : mgr.step # "idle" /\ mgr.req = s => s \in canceled
      /\ wakeIndex \in Nat /\ entryIndex \in [Requests -> Nat \cup {NoIndex}]
      /\ f \in issued
      /\ cmd = At(cmd.step, f)
  BY <1>1, Zenon DEF WInv, StaleInv, IInv, TypeOK, PlaceInv, InCmd, Carrying, At
<1>3. CASE f \notin canceled
  <2>1. /\ queue' = queue \cup {f}
        /\ entryIndex' = [entryIndex EXCEPT ![f] = IF @ = NoIndex THEN wakeIndex ELSE @]
        /\ cmd' = IF cmd.step = "push" THEN At("wait_for", f) ELSE Idle
    BY <1>3, Zenon DEF PushLockWait
  <2>2. \A s \in Requests : Fresh(s)' => Fresh(s) /\ entryIndex'[s] = entryIndex[s]
    BY <1>1, <1>2, <2>1, Zenon DEF Fresh, At, Idle
  <2>3. ASSUME NEW s \in Requests, cmd' = At("wait_for", s)
        PROVE  Fresh(s) /\ s \in queue' /\ entryIndex'[s] >= wakeIndex'
    <3>1. s = f /\ cmd.step = "push"
      BY <2>1, <2>3 DEF At, Idle
    <3>2. Fresh(s)
      BY <1>2, <3>1, Zenon DEF Fresh
    <3>3. entryIndex[s] = NoIndex
      BY <3>2, Zenon DEF WInv, StaleInv
    <3>. QED
      BY <1>1, <1>2, <2>1, <3>1, <3>2, <3>3
  <2>4. cmd'.step # "receive"
    BY <2>1, Zenon DEF At, Idle
  <2>. QED
    BY <1>1, <1>2, <2>2, <2>3, <2>4, QuietWaiters, Zenon
<1>4. CASE f \in canceled
  <2>1. cmd' = At("receive", f) /\ UNCHANGED <<queue, entryIndex>>
    BY <1>4, Zenon DEF PushLockWait
  <2>2. /\ \A s \in Requests : Fresh(s)' => Fresh(s)
        /\ \A s \in Requests : cmd' # At("wait_for", s)
        /\ \A s \in Requests : cmd'.step = "receive" /\ cmd'.req = s => s \in canceled
    BY <1>1, <1>4, <2>1, Zenon DEF Fresh, At
  <2>. QED
    BY <1>1, <1>2, <2>1, <2>2, QuietWaiters, Zenon
<1>. QED
  BY <1>3, <1>4, Zenon

\* The command takes the error of a request that the manager has forgotten.
LEMMA ReceiveExternalErrorWaiters ==
    ASSUME IInv, WInv, ReceiveExternalError
    PROVE  WInv'
<1>1. /\ cmd.step = "receive" /\ cmd.req \in Requests /\ cmd' = Idle
      /\ answers' = [answers EXCEPT ![cmd.req] = @ + 1]
      /\ UNCHANGED <<queue, wakeIndex, entryIndex, mgr, tasks, pool, waiters, canceled, issued>>
  BY Zenon DEF ReceiveExternalError, Answer, keyState, manager, IInv, ThreadInv
<1>2. cmd.req \notin Tracked
  BY <1>1, Zenon DEF WInv, StaleInv
<1>3. \A s \in Requests : answers'[s] > 0 => answers[s] > 0 \/ s \notin Tracked
  BY <1>1, <1>2, Zenon DEF IInv, TypeOK
<1>4. /\ \A s \in Requests : Fresh(s)' => Fresh(s)
      /\ \A s \in Requests : cmd' # At("wait_for", s)
      /\ cmd'.step # "receive"
  BY <1>1, Zenon DEF Fresh, At, Idle
<1>. QED
  BY <1>1, <1>3, <1>4, QuietWaiters, Zenon DEF WInv, StaleInv

\* The other steps of commands: nothing starts to wait, and a request that was woken up
\* and locks the key or fails is answered with finish_request.
LEMMA CommandWaiters ==
    ASSUME IInv, WInv,
           ReleaseLock \/ WriteFinished \/ Resume \/ \E f \in Requests : ScheduleAwakened(f)
    PROVE  WInv'
<1>1. ASSUME UNCHANGED <<entryIndex, mgr, tasks, pool, waiters, canceled, answers, issued>>,
             cmd'.step \in {"idle", "write", "resume", "push_again"}
      PROVE  WInv'
  <2>1. /\ \A s \in Requests : Fresh(s)' => Fresh(s)
        /\ \A s \in Requests : cmd' # At("wait_for", s)
        /\ cmd'.step # "receive"
    BY <1>1 DEF Fresh, At
  <2>. QED
    BY <1>1, <2>1, QuietWaiters, Zenon DEF WInv, StaleInv
<1>2. CASE ReleaseLock
  BY <1>1, <1>2 DEF ReleaseLock, PopForWakingUp, manager, context, At
<1>3. CASE WriteFinished
  BY <1>1, <1>3 DEF WriteFinished, keyState, manager, context, At, Idle
<1>4. ASSUME NEW f \in Requests, ScheduleAwakened(f) PROVE WInv'
  BY <1>1, <1>4, Zenon DEF ScheduleAwakened, keyState, manager, context, At
<1>5. CASE Resume
  <2>1. /\ cmd.step = "resume" /\ cmd.req \in Requests
        /\ UNCHANGED <<queue, wakeIndex, mgr, pool, waiters, canceled, issued>>
    BY <1>5, Zenon DEF Resume, IInv, ThreadInv
  <2>2. CASE FinishExecuted(cmd.req) /\ cmd' = Idle /\ UNCHANGED entryIndex
    BY <2>1, <2>2, FinishWaiters, Zenon DEF FinishExecuted, RemoveWaiter, Answer
  <2>3. CASE /\ cmd' = At("push_again", cmd.req)
             /\ entryIndex' = [entryIndex EXCEPT ![cmd.req] = NoIndex]
             /\ UNCHANGED <<tasks, answers>>
    <3>1. cmd.req \in issued
      BY <2>1, Zenon DEF IInv, PlaceInv, InCmd, Carrying
    <3>2. \A s \in Requests : Fresh(s)' => Fresh(s) /\ entryIndex'[s] = entryIndex[s]
      BY <2>1, <2>3, <3>1, Zenon DEF Fresh, At, IInv, TypeOK
    <3>3. /\ \A s \in Requests : cmd' # At("wait_for", s)
          /\ cmd'.step # "receive"
      BY <2>3, Zenon DEF At
    <3>. QED
      BY <2>1, <2>3, <3>2, <3>3, QuietWaiters, Zenon DEF WInv, StaleInv
  <2>. QED
    BY <1>5, <2>2, <2>3, Zenon DEF Resume
<1>. QED
  BY <1>2, <1>3, <1>4, <1>5, Zenon

\* delayed_notify_all passes over the entry of a request that is yet to be sent to the
\* manager: it came after the last wake-up.
LEMMA DelayedNotifyAllWaiters ==
    ASSUME IInv, WInv, NEW id, DelayedNotifyAll(id)
    PROVE  WInv'
<1>1. UNCHANGED <<entryIndex, cmd, mgr, tasks, pool, waiters, canceled, answers, issued>>
  BY Zenon DEF DelayedNotifyAll, manager, context
<1>2. \A s \in Requests : Fresh(s)' => Fresh(s)
  BY <1>1, Zenon DEF Fresh
<1>3. ASSUME NEW s \in Requests, cmd = At("wait_for", s)
      PROVE  s \in queue' /\ entryIndex[s] >= wakeIndex'
  <2>1. s \in queue /\ entryIndex[s] >= wakeIndex /\ wakeIndex \in Nat
        /\ entryIndex[s] \in Nat \cup {NoIndex} /\ s \in Nat
    BY <1>3, RequestFacts, Zenon DEF WInv, StaleInv, IInv, TypeOK
  <2>2. s \notin NotifiedEntries
    BY <2>1 DEF NotifiedEntries, NoIndex
  <2>. QED
    BY <2>1, <2>2, Zenon DEF DelayedNotifyAll, Leave
<1>. QED
  BY <1>1, <1>2, <1>3, QuietWaiters, Zenon DEF WInv, StaleInv

\* The manager answers a request it has forgotten, or leaves that to the command.
LEMMA RemoveByTokenWaiters ==
    ASSUME IInv, WInv, RemoveByToken \/ PutExternalError
    PROVE  WInv'
<1>1. /\ mgr.step # "idle" /\ mgr.req \in Requests /\ mgr.req \in canceled
      /\ UNCHANGED <<entryIndex, cmd, tasks, pool, waiters, canceled, issued>>
  BY Zenon DEF RemoveByToken, PutExternalError, keyState, IInv, ThreadInv, WInv, StaleInv
<1>2. /\ answers' = answers \/ answers' = [answers EXCEPT ![mgr.req] = @ + 1]
      /\ mgr' = Idle \/ mgr' = At("put", mgr.req)
  BY Zenon DEF RemoveByToken, PutExternalError, Answer
<1>3. \A s \in Requests : answers'[s] > 0 => answers[s] > 0 \/ s \notin Tracked
  BY <1>1, <1>2, Zenon DEF IInv, TypeOK, WInv, StaleInv
<1>4. /\ \A s \in Requests : Fresh(s)' => Fresh(s)
      /\ \A s \in Requests : mgr'.step # "idle" /\ mgr'.req = s => s \in canceled
  BY <1>1, <1>2 DEF Fresh, At, Idle
<1>5. ASSUME NEW s \in Requests, cmd = At("wait_for", s)
      PROVE  s \in queue' /\ entryIndex[s] >= wakeIndex'
  <2>1. s \in queue /\ entryIndex[s] >= wakeIndex /\ s # mgr.req
    BY <1>1, <1>5, Zenon DEF WInv, StaleInv
  <2>. QED
    BY <2>1, Zenon DEF RemoveByToken, PutExternalError, Leave, keyState
<1>. QED
  BY <1>1, <1>3, <1>4, <1>5, QuietWaiters, Zenon DEF WInv, StaleInv

LEMMA NextWaiters == IInv /\ WInv /\ [Next]_vars => WInv'
<1>. SUFFICES ASSUME IInv, WInv, [Next]_vars PROVE WInv'
  BY Zenon
<1>1. ASSUME NEW r \in Requests, Acquire(r) \/ CancelWaiter(r) PROVE WInv'
  BY <1>1, AcquireWaiters, CancelWaiterWaiters, Zenon
<1>2. CASE \/ ReleaseLock \/ CommandStep \/ \E r \in Requests : ScheduleAwakened(r)
  BY <1>2, CommandWaiters, PushLockWaitWaiters, ReceiveExternalErrorWaiters, SendWaitForWaiters, Zenon
  DEF CommandStep
<1>3. CASE ManagerStep
  BY <1>3, HandleTaskWaiters, RemoveByTokenWaiters, Zenon DEF ManagerStep
<1>4. CASE TaskStep
  <2>1. ASSUME NEW t \in callbacks, WakeUpLegacy(t[1], t[2]) PROVE WInv'
    <3>1. t[1] \in Requests
      BY Zenon DEF IInv, TypeOK
    <3>. QED
      BY <2>1, <3>1, FinishWaiters, Zenon
      DEF WakeUpLegacy, FinishExecuted, RemoveWaiter, Answer, keyState
  <2>. QED
    BY <1>4, <2>1, DelayedNotifyAllWaiters, Zenon DEF TaskStep
<1>5. CASE UNCHANGED vars
  <2>1. /\ UNCHANGED <<queue, wakeIndex, entryIndex, cmd, mgr, tasks, pool, waiters, canceled,
                       answers, issued>>
    BY <1>5, Zenon DEF vars, keyState, manager, context
  <2>2. \A s \in Requests : Fresh(s)' => Fresh(s)
    BY <2>1, Zenon DEF Fresh
  <2>. QED
    BY <2>1, <2>2, QuietWaiters, Zenon DEF WInv, StaleInv
<1>. QED
  BY <1>1, <1>2, <1>3, <1>4, <1>5, Zenon DEF Next

\* The waiter of an answered request never stays in the manager's table until its timeout:
\* waiter_count, which lets remove_lock_wait return early, is never too small, and the task
\* that removes the waiter never overtakes the one that adds it.
THEOREM NoWaiterIsStale == Spec => []NoStaleWaiter
<1>1. Init => WInv
  <2>. SUFFICES ASSUME Init PROVE WInv
    BY Zenon
  <2>1. tasks = <<>> /\ \A x : ~Has(tasks, x)
    BY DEF Init, Has
  <2>2. Tracked = {}
    BY <2>1, Zenon DEF Tracked, Init
  <2>3. CountInv
    BY <2>2, FS_EmptySet, Zenon DEF CountInv, Init
  <2>4. \A a : Once(tasks, a)
    BY <2>1 DEF Once
  <2>5. StaleInv
    BY <2>1, <2>2, <2>4 DEF StaleInv, Init, Idle, At
  <2>. QED
    BY <2>3, <2>5, Zenon DEF WInv
<1>2. IInv /\ WInv => NoStaleWaiter
  BY Zenon DEF IInv, TypeOK, WInv, StaleInv, NoStaleWaiter
<1>. QED
  BY <1>1, <1>2, Inductive, NextWaiters, PTL DEF Spec

-----------------------------------------------------------------------------
(* Legacy requests are woken up.                                            *)

\* The delayed wake-up that the key's state names is on its way, or its future has ended
\* without it.
NotifyInv ==
    /\ nextId > 0
    /\ notifyId # None => \/ notifyId \in timers \/ notifyId \in dropped
                          \/ \E r \in Requests : <<r, notifyId>> \in callbacks

\* No entry is ahead of the last wake-up; once the lock is to be removed, the entries that
\* are left were there at the last wake-up, and the delayed one is to come for all of them.
\* A new request meets a lock and none is removed before it is in the queue.
LegacyInv == resumable = {} =>
    /\ cmd.step \notin {"resume", "push_again"} /\ awakened = {}
    /\ cmd.step = "write" => cmd.req = None
    /\ cmd.step \in {"push", "receive", "wait_for", "write"} => lock # None
    /\ \A r \in Requests : Fresh(r) => entryIndex[r] = NoIndex
    /\ \A r \in queue : entryIndex[r] <= wakeIndex
    /\ (lock = None \/ cmd.step = "write") /\ queue # {} =>
          notifyId # None /\ \A r \in queue : entryIndex[r] < wakeIndex

LEMMA NotifyStep ==
    ASSUME IInv, NotifyInv, [Next]_vars
    PROVE  NotifyInv'
<1>1. ASSUME UNCHANGED <<notifyId, nextId, timers, callbacks, dropped>> PROVE NotifyInv'
  BY <1>1, Zenon DEF NotifyInv
<1>2. ASSUME NEW r \in Requests, Acquire(r) \/ ScheduleAwakened(r) \/ CancelWaiter(r)
      PROVE  NotifyInv'
  BY <1>1, <1>2, Zenon DEF Acquire, ScheduleAwakened, CancelWaiter, keyState, delays
<1>3. CASE CommandStep
  BY <1>1, <1>3, Zenon DEF CommandStep, PushLockWait, ReceiveExternalError, SendWaitFor,
                    WriteFinished, Resume, keyState, delays
<1>4. CASE HandleTask \/ PutExternalError \/ UNCHANGED vars
  BY <1>1, <1>4, Zenon DEF HandleTask, PutExternalError, vars, keyState, delays
<1>5. CASE RemoveByToken
  BY <1>5, Zenon DEF RemoveByToken, Leave, NotifyInv, delays
<1>6. CASE ReleaseLock
  <2>. DEFINE f == Head1(queue)
              id == IF queue \ {f} # {} /\ notifyId = None THEN nextId ELSE None
  <2>1. CASE PopForWakingUp /\ f \notin resumable
    <3>1. /\ notifyId' \in {None, notifyId, id}
          /\ callbacks' = callbacks \cup {<<f, id>>}
          /\ nextId' \in {nextId, nextId + 1} /\ timers' = timers /\ dropped' = dropped
      BY <1>6, <2>1, Zenon DEF PopForWakingUp, Leave, ReleaseLock
    <3>2. f \in Requests /\ nextId \in Nat
      <4>1. queue # {} /\ queue \subseteq Requests /\ nextId \in Nat
        BY <2>1, Zenon DEF PopForWakingUp, IInv, TypeOK
      <4>2. f \in queue
        BY <4>1, HeadLemma, RequestFacts, Zenon
      <4>. QED
        BY <4>1, <4>2, Zenon
    <3>3. nextId' > 0
      BY <3>1, <3>2 DEF NotifyInv
    <3>4. CASE notifyId' = id
      BY <3>1, <3>2, <3>3, <3>4, Zenon DEF NotifyInv
    <3>5. CASE notifyId' = None \/ notifyId' = notifyId
      BY <3>1, <3>3, <3>5, Zenon DEF NotifyInv
    <3>. QED
      BY <3>1, <3>4, <3>5, Zenon
  <2>2. CASE PopForWakingUp /\ f \in resumable
    BY <1>6, <2>2, Zenon DEF PopForWakingUp, Leave, ReleaseLock, NotifyInv
  <2>. QED
    BY <1>1, <1>6, <2>1, <2>2, Zenon DEF ReleaseLock
<1>7. ASSUME NEW t \in callbacks, WakeUpLegacy(t[1], t[2]) PROVE NotifyInv'
  <2>1. /\ callbacks' = callbacks \ {<<t[1], t[2]>>} /\ timers' = timers \cup ({t[2]} \ {None})
        /\ UNCHANGED <<notifyId, nextId, dropped>>
    BY <1>7, Zenon DEF WakeUpLegacy, keyState, delays
  <2>2. ASSUME NEW r \in Requests, <<r, notifyId>> \in callbacks, notifyId # None
        PROVE  <<r, notifyId>> \in callbacks' \/ notifyId \in timers'
    BY <2>1, <2>2, Zenon
  <2>. QED
    BY <2>1, <2>2, Zenon DEF NotifyInv
<1>8. ASSUME NEW id \in timers, DelayedNotifyAll(id) PROVE NotifyInv'
  BY <1>8, Zenon DEF DelayedNotifyAll, Leave, NotifyInv
<1>. QED
  BY <1>2, <1>3, <1>4, <1>5, <1>6, <1>7, <1>8, Zenon DEF Next, ManagerStep, TaskStep

LEMMA LegacyStep ==
    ASSUME IInv, NotifyInv, LegacyInv, [Next]_vars, resumable = {}
    PROVE  LegacyInv'
<1>. USE DEF NoIndex, None
<1>1. /\ queue \subseteq Requests /\ wakeIndex \in Nat /\ nextId \in Nat /\ nextId > 0
      /\ entryIndex \in [Requests -> Nat \cup {NoIndex}]
      /\ \A r \in Requests : r # None
  BY RequestFacts, Zenon DEF IInv, TypeOK, NotifyInv
<1>2. ASSUME UNCHANGED <<lock, entryIndex, cmd, awakened, issued>>, queue' \subseteq queue,
             queue' # {} => wakeIndex' = wakeIndex /\ notifyId' = notifyId
      PROVE  LegacyInv'
  <2>1. \A s \in Requests : Fresh(s)' => Fresh(s)
    BY <1>2, Zenon DEF Fresh
  <2>. QED
    BY <1>1, <1>2, <2>1, Zenon DEF LegacyInv
<1>3. ASSUME UNCHANGED <<queue, wakeIndex, notifyId, entryIndex, awakened>>,
             \A s \in Requests : Fresh(s)' => Fresh(s),
             cmd' = Idle, lock' # None \/ lock' = lock \/ cmd.step = "write"
      PROVE  LegacyInv'
  BY <1>1, <1>3, Zenon DEF LegacyInv, Idle
<1>4. ASSUME NEW f \in Requests, Acquire(f) PROVE LegacyInv'
  <2>1. /\ cmd = Idle /\ issued' = issued \cup {f} /\ f \notin issued
        /\ UNCHANGED <<queue, wakeIndex, notifyId, entryIndex, awakened>>
    BY <1>4, Zenon DEF Acquire, keyState
  <2>2. CASE lock' = f /\ cmd' = cmd
    <3>1. \A s \in Requests : Fresh(s)' => Fresh(s)
      BY <2>1, <2>2, Zenon DEF Fresh, Idle, At
    <3>. QED
      BY <1>1, <1>3, <2>1, <2>2, <3>1, Zenon
  <2>3. CASE lock # None /\ lock' = lock /\ cmd' = At("push", f)
    <3>1. \A s \in Requests : Fresh(s)' => Fresh(s)
      BY <2>1, <2>3, Zenon DEF Fresh, Idle, At
    <3>. QED
      BY <1>1, <2>1, <2>3, <3>1, Zenon DEF LegacyInv, At
  <2>. QED
    BY <1>4, <2>2, <2>3, Zenon DEF Acquire
<1>5. CASE PushLockWait
  <2>. DEFINE f == cmd.req
  <2>1. /\ cmd.step = "push" /\ f \in Requests /\ lock # None
        /\ UNCHANGED <<lock, wakeIndex, notifyId, awakened, issued>>
    BY <1>5, Zenon DEF PushLockWait, LegacyInv, IInv, ThreadInv
  <2>2. cmd = At("push", f)
    BY <2>1, Zenon DEF At, IInv, TypeOK
  <2>3. Fresh(f) /\ entryIndex[f] = NoIndex /\ f \in issued
    BY <2>1, <2>2, Zenon DEF Fresh, LegacyInv, IInv, PlaceInv, InCmd, Carrying
  <2>4. CASE f \notin canceled
    <3>1. /\ queue' = queue \cup {f} /\ cmd' = At("wait_for", f)
          /\ entryIndex' = [entryIndex EXCEPT ![f] = wakeIndex]
      BY <1>5, <2>1, <2>3, <2>4, Zenon DEF PushLockWait
    <3>2. \A s \in Requests : Fresh(s)' => Fresh(s) /\ s # f
      BY <2>1, <2>3, <3>1, Zenon DEF Fresh, At
    <3>3. \A s \in Requests : Fresh(s)' => entryIndex'[s] = NoIndex
      BY <1>1, <3>1, <3>2, Zenon DEF LegacyInv
    <3>4. \A s \in queue' : entryIndex'[s] <= wakeIndex
      <4>1. entryIndex'[f] = wakeIndex /\ \A s \in Requests : s # f => entryIndex'[s] = entryIndex[s]
        BY <1>1, <2>1, <3>1, Zenon
      <4>. QED
        BY <1>1, <3>1, <4>1 DEF LegacyInv
    <3>. QED
      BY <2>1, <3>1, <3>3, <3>4, Zenon DEF LegacyInv, At
  <2>5. CASE f \in canceled
    <3>1. cmd' = At("receive", f) /\ UNCHANGED <<queue, entryIndex>>
      BY <1>5, <2>5, Zenon DEF PushLockWait
    <3>2. \A s \in Requests : Fresh(s)' => Fresh(s)
      BY <2>1, <3>1, Zenon DEF Fresh, At
    <3>. QED
      BY <2>1, <3>1, <3>2, Zenon DEF LegacyInv, At
  <2>. QED
    BY <2>4, <2>5, Zenon
<1>6. CASE ReceiveExternalError \/ SendWaitFor
  <2>1. \A s \in Requests : Fresh(s)' => Fresh(s)
    BY <1>6 DEF ReceiveExternalError, SendWaitFor, Fresh, At, Idle
  <2>. QED
    BY <1>3, <1>6, <2>1, Zenon DEF ReceiveExternalError, SendWaitFor, keyState
<1>7. CASE WriteFinished
  <2>1. cmd.step = "write" /\ cmd.req = None
    BY <1>7, Zenon DEF WriteFinished, LegacyInv
  <2>2. cmd' = Idle /\ UNCHANGED <<queue, wakeIndex, notifyId, entryIndex, awakened, issued>>
    BY <1>7, <2>1, Zenon DEF WriteFinished, keyState
  <2>3. \A s \in Requests : Fresh(s)' => Fresh(s)
    BY <2>2, Zenon DEF Fresh, At, Idle
  <2>. QED
    BY <1>3, <2>1, <2>2, <2>3, Zenon
<1>8. CASE Resume \/ \E f \in Requests : ScheduleAwakened(f)
  BY <1>8, Zenon DEF Resume, ScheduleAwakened, LegacyInv
<1>9. CASE ReleaseLock
  <2>. DEFINE rest == queue \ {Head1(queue)}
  <2>1. /\ lock # None /\ cmd' = At("write", None)
        /\ UNCHANGED <<lock, entryIndex, awakened, issued>>
    BY <1>9, Zenon DEF ReleaseLock, PopForWakingUp, LegacyInv
  <2>2. \A s \in Requests : Fresh(s)' => Fresh(s)
    BY <2>1, Zenon DEF Fresh, At
  <2>3. CASE PopForWakingUp
    <3>1. /\ queue' = rest
          /\ rest # {} => wakeIndex' = wakeIndex + 1 /\ notifyId' # None
      BY <1>1, <2>3 DEF PopForWakingUp, Leave
    <3>2. \A s \in queue' : s \in queue /\ entryIndex[s] <= wakeIndex' /\ entryIndex[s] < wakeIndex'
      BY <1>1, <3>1 DEF LegacyInv
    <3>. QED
      BY <2>1, <2>2, <3>1, <3>2, Zenon DEF LegacyInv, At
  <2>4. CASE queue = {} /\ queue' = queue
    BY <2>1, <2>2, <2>4, Zenon DEF LegacyInv, At
  <2>. QED
    BY <1>9, <2>3, <2>4, Zenon DEF ReleaseLock
<1>10. ASSUME NEW r \in Requests, CancelWaiter(r) PROVE LegacyInv'
  BY <1>2, <1>10, Zenon DEF CancelWaiter, keyState
<1>11. CASE ManagerStep
  BY <1>2, <1>11, Zenon DEF ManagerStep, HandleTask, RemoveByToken, PutExternalError, Leave, keyState
<1>12. ASSUME NEW t \in callbacks, WakeUpLegacy(t[1], t[2]) PROVE LegacyInv'
  BY <1>2, <1>12, Zenon DEF WakeUpLegacy, keyState
<1>13. ASSUME NEW id \in timers, DelayedNotifyAll(id) PROVE LegacyInv'
  <2>1. CASE id \in zero \/ notifyId # id
    BY <1>2, <1>13, <2>1, Zenon DEF DelayedNotifyAll
  <2>2. CASE id \notin zero /\ notifyId = id
    <3>1. /\ queue' = queue \ NotifiedEntries
          /\ queue' # {} => wakeIndex' = wakeIndex
          /\ awakened' = awakened
          /\ UNCHANGED <<lock, entryIndex, cmd, issued>>
      BY <1>13, <2>2, Zenon DEF DelayedNotifyAll, Leave
    <3>2. lock = None \/ cmd.step = "write" => queue' = {}
      BY <3>1, Zenon DEF LegacyInv, NotifiedEntries
    <3>3. \A s \in Requests : Fresh(s)' => Fresh(s)
      BY <3>1, Zenon DEF Fresh
    <3>4. \A s \in queue' : s \in queue /\ wakeIndex' = wakeIndex
      BY <3>1, Zenon
    <3>. QED
      BY <3>1, <3>2, <3>3, <3>4, Zenon DEF LegacyInv
  <2>. QED
    BY <2>1, <2>2, Zenon
<1>14. CASE UNCHANGED vars
  BY <1>2, <1>14, Zenon DEF vars, keyState
<1>. QED
  BY <1>4, <1>5, <1>6, <1>7, <1>8, <1>9, <1>10, <1>11, <1>12, <1>13, <1>14, Zenon
  DEF Next, CommandStep, TaskStep

\* While all requests are legacy ones, a request stays in the queue of a free key with
\* nothing on its way that wakes it up only behind the state of a future that found its
\* delay to be 0: the index tells the delayed wake-up which entries it owes a wake-up, and
\* nothing else drops it while entries are left.
THEOREM LegacyNotForgotten == Spec => []NoForgottenLegacy
<1>1. Init => NotifyInv /\ LegacyInv
  BY RequestFacts DEF Init, NotifyInv, LegacyInv, Idle, None, First
<1>2. IInv /\ NotifyInv /\ LegacyInv /\ [Next]_vars => NotifyInv' /\ LegacyInv'
  <2>. SUFFICES ASSUME IInv, NotifyInv, LegacyInv, [Next]_vars PROVE NotifyInv' /\ LegacyInv'
    BY Zenon
  <2>1. resumable' = resumable
    BY Zenon DEF Next, Acquire, ScheduleAwakened, CancelWaiter, ReleaseLock, CommandStep, PushLockWait,
           ReceiveExternalError, SendWaitFor, WriteFinished, Resume, ManagerStep, HandleTask,
           RemoveByToken, PutExternalError, TaskStep, WakeUpLegacy, DelayedNotifyAll, vars
  <2>2. resumable # {} => LegacyInv'
    BY <2>1, Zenon DEF LegacyInv
  <2>. QED
    BY <2>2, NotifyStep, LegacyStep, Zenon
<1>3. NotifyInv /\ LegacyInv => NoForgottenLegacy
  BY Zenon DEF NotifyInv, LegacyInv, NoForgottenLegacy, NobodyWakesUp
<1>. QED
  BY <1>1, <1>2, <1>3, Inductive, PTL DEF Spec

\* The future of a delayed wake-up is never taken for cancelled.
NoneDropped == zero = {} /\ dropped = {}

\* A positive setting makes every delay positive, a new one and an extended one.
LEMMA PositiveStep ==
    ASSUME 0 \notin Delays, NoneDropped, [Next]_vars
    PROVE  NoneDropped'
<1>1. ASSUME UNCHANGED <<zero, dropped>> PROVE NoneDropped'
  BY <1>1, Zenon DEF NoneDropped
<1>2. ASSUME NEW r \in Requests, Acquire(r) \/ ScheduleAwakened(r) \/ CancelWaiter(r)
      PROVE  NoneDropped'
  BY <1>1, <1>2, Zenon DEF Acquire, ScheduleAwakened, CancelWaiter, delays
<1>3. CASE CommandStep
  BY <1>1, <1>3, Zenon DEF CommandStep, PushLockWait, ReceiveExternalError, SendWaitFor,
                           WriteFinished, Resume, delays
<1>4. CASE ManagerStep \/ UNCHANGED vars
  BY <1>1, <1>4, Zenon DEF ManagerStep, HandleTask, RemoveByToken, PutExternalError, vars, delays
<1>5. CASE ReleaseLock
  <2>1. dropped' = dropped
    BY <1>5, Zenon DEF ReleaseLock
  <2>2. zero' = zero \/ StoreDelay
    BY <1>5, Zenon DEF ReleaseLock, PopForWakingUp
  <2>3. ASSUME StoreDelay PROVE zero' = {}
    BY <2>3, Zenon DEF StoreDelay, NoneDropped
  <2>. QED
    BY <2>1, <2>2, <2>3, Zenon DEF NoneDropped
<1>6. ASSUME NEW t \in callbacks, WakeUpLegacy(t[1], t[2]) PROVE NoneDropped'
  BY <1>1, <1>6, Zenon DEF WakeUpLegacy, delays
<1>7. ASSUME NEW id \in timers, DelayedNotifyAll(id) PROVE NoneDropped'
  BY <1>7, Zenon DEF DelayedNotifyAll, NoneDropped
<1>. QED
  BY <1>2, <1>3, <1>4, <1>5, <1>6, <1>7, Zenon DEF Next, TaskStep

\* With a positive wake-up-delay-duration, and while all requests are legacy ones, no
\* request at all stays in the queue of a free key with nothing that wakes it up.
THEOREM LegacyAlwaysWoken ==
    ASSUME 0 \notin Delays
    PROVE  Spec => [](resumable = {} => NoForgottenWaiter)
<1>1. Init => NoneDropped
  BY Zenon DEF Init, NoneDropped
<1>2. NoneDropped /\ [Next]_vars => NoneDropped'
  BY PositiveStep, Zenon
<1>3. NoneDropped /\ NoForgottenLegacy => (resumable = {} => NoForgottenWaiter)
  BY Zenon DEF NoneDropped, NoForgottenLegacy, NoForgottenWaiter
<1>. QED
  BY <1>1, <1>2, <1>3, LegacyNotForgotten, PTL DEF Spec
=============================================================================
