-------------------------- MODULE LockWaitingProofs --------------------------
(***************************************************************************)
(* Proofs about LockWaiting, for any number of requests: a request is      *)
(* answered at most once, and one in the queue can always be cancelled.    *)
(***************************************************************************)
EXTENDS LockWaiting, FiniteSetTheorems, WellFoundedInduction, TLAPS

-----------------------------------------------------------------------------
(* The inductive invariant.                                                 *)

\* A command other than a release has a request, and an idle one has none.
ThreadInv ==
    /\ cmd.step \notin {"idle", "write"} => cmd.req \in Requests
    /\ cmd.step = "idle" => cmd = Idle
    /\ mgr.step # "idle" => mgr.req \in Requests

\* The places from which a request is answered: besides the queue, a command, a callback
\* that is to be called, and a resumed command that waits for the latch.
Carrying == {"push", "push_again", "receive", "write", "resume"}
InCmd(r) == cmd.step \in Carrying /\ cmd.req = r
InCallback(r) == \E id \in Nat : <<r, id>> \in callbacks

\* A request is in one place at a time, and in none before it arrives or once it has its
\* answer.
PlaceInv ==
    \A r \in Requests :
        /\ answers[r] <= 1
        /\ r \in queue => /\ r \in issued /\ answers[r] = 0
                          /\ ~InCmd(r) /\ ~InCallback(r) /\ r \notin awakened
        /\ InCmd(r) => r \in issued /\ answers[r] = 0 /\ ~InCallback(r) /\ r \notin awakened
        /\ InCallback(r) => r \in issued /\ answers[r] = 0 /\ r \notin awakened
        /\ r \in awakened => r \in issued /\ answers[r] = 0
        /\ r \notin issued => answers[r] = 0
        /\ \A i, j \in Nat : <<r, i>> \in callbacks /\ <<r, j>> \in callbacks => i = j

\* The waiter of the request is in the waiter manager or on its way to it.
HasWaiter(r) == r \in pool \/ Has(tasks, WaitFor(r)) \/ cmd = At("wait_for", r)

\* The request has been in the queue and is not answered.
Waits(r) ==
    \/ r \in queue \/ r \in awakened \/ InCallback(r)
    \/ cmd.step \in {"push_again", "write", "resume"} /\ cmd.req = r

WaitInv ==
    \A r \in Requests :
        /\ Waits(r) /\ r \notin canceled => HasWaiter(r)
        /\ r \in queue /\ r \in canceled => mgr = At("remove", r)
        /\ Has(tasks, RemoveLockWait(r)) => answers[r] > 0

IInv == TypeOK /\ ThreadInv /\ PlaceInv /\ WaitInv

-----------------------------------------------------------------------------
(* Facts about the operators.                                               *)

\* A request is a positive number: no transaction and the first one are not requests.
LEMMA RequestFacts == Requests \subseteq Nat /\ None \notin Requests /\ First \notin Requests
BY RequestsAssumption DEF None, First

\* The head of the queue is its smallest start_ts.
LEMMA HeadLemma ==
    ASSUME NEW q, q \subseteq Nat, q # {}
    PROVE  Head1(q) \in q
<1>. DEFINE R == OpToRel(<, Nat)
<1>1. PICK x \in q : \A y \in q : <<y, x>> \notin R
  <2>1. IsWellFoundedOn(R, Nat)
    BY NatLessThanWellFounded, Zenon
  <2>. HIDE DEF R
  <2>. QED
    BY <2>1, WFMin, Zenon
<1>2. \A y \in q : ~(y < x)
  BY <1>1, Zenon DEF OpToRel
<1>3. \A y \in q : x <= y
  BY <1>2
<1>. QED
  BY <1>3, Zenon DEF Head1

Task == {"wait_for", "remove"} \X Requests

\* The tasks of the waiter manager are distinct.
LEMMA TaskLemma ==
    ASSUME NEW r \in Requests, NEW s \in Requests
    PROVE  /\ WaitFor(r) \in Task /\ RemoveLockWait(r) \in Task
           /\ WaitFor(r) # RemoveLockWait(s)
           /\ WaitFor(r) = WaitFor(s) => r = s
           /\ RemoveLockWait(r) = RemoveLockWait(s) => r = s
BY Zenon DEF Task, WaitFor, RemoveLockWait

\* A task that is sent comes after the ones in the queue.
LEMMA HasAppend ==
    ASSUME NEW seq \in Seq(Task), NEW e \in Task, NEW x
    PROVE  Has(Append(seq, e), x) <=> Has(seq, x) \/ x = e
<1>1. /\ Len(Append(seq, e)) = Len(seq) + 1 /\ Append(seq, e)[Len(seq) + 1] = e
      /\ \A i \in 1 .. Len(seq) : Append(seq, e)[i] = seq[i]
  OBVIOUS
<1>2. \A i \in 1 .. Len(seq) + 1 : i \in 1 .. Len(seq) \/ i = Len(seq) + 1
  OBVIOUS
<1>3. /\ \A i \in 1 .. Len(seq) : i \in 1 .. Len(seq) + 1
      /\ Len(seq) + 1 \in 1 .. Len(seq) + 1
  OBVIOUS
<1>. QED
  BY <1>1, <1>2, <1>3, Zenon DEF Has

\* The task that is handled leaves the queue.
LEMMA HasTail ==
    ASSUME NEW seq \in Seq(Task), seq # <<>>, NEW x
    PROVE  Has(seq, x) <=> x = Head(seq) \/ Has(Tail(seq), x)
<1>1. /\ Len(seq) >= 1 /\ Len(Tail(seq)) = Len(seq) - 1 /\ Head(seq) = seq[1]
      /\ \A i \in 1 .. Len(seq) - 1 : Tail(seq)[i] = seq[i + 1]
  OBVIOUS
<1>2. ASSUME Has(seq, x) PROVE x = Head(seq) \/ Has(Tail(seq), x)
  <2>1. PICK i \in 1 .. Len(seq) : seq[i] = x
    BY <1>2, Zenon DEF Has
  <2>2. CASE i = 1
    BY <1>1, <2>1, <2>2, Zenon
  <2>3. CASE i # 1
    <3>1. i - 1 \in 1 .. Len(seq) - 1 /\ (i - 1) + 1 = i
      BY <1>1, <2>1, <2>3
    <3>2. Tail(seq)[i - 1] = x
      BY <1>1, <2>1, <3>1, Zenon
    <3>. QED
      BY <1>1, <3>1, <3>2, Zenon DEF Has
  <2>. QED
    BY <2>2, <2>3, Zenon
<1>3. ASSUME x = Head(seq) \/ Has(Tail(seq), x) PROVE Has(seq, x)
  <2>1. \A i \in 1 .. Len(seq) - 1 : i + 1 \in 1 .. Len(seq)
    BY <1>1
  <2>2. 1 \in 1 .. Len(seq)
    BY <1>1
  <2>. QED
    BY <1>1, <1>3, <2>1, <2>2, Zenon DEF Has
<1>. QED
  BY <1>2, <1>3, Zenon

\* What HandleTask subtracts from waiter_count is a number.
LEMMA CountLemma == \A S, x : Cardinality(S \cap {x}) \in Nat
<1>. SUFFICES ASSUME NEW S, NEW x PROVE Cardinality(S \cap {x}) \in Nat
  BY Zenon
<1>1. IsFiniteSet({x}) /\ S \cap {x} \in SUBSET {x}
  BY FS_Singleton, Zenon
<1>2. IsFiniteSet(S \cap {x})
  BY <1>1, FS_Subset, Zenon
<1>. QED
  BY <1>2, FS_CardinalityType, Zenon

\* The queue of tasks is a sequence of tasks.
LEMMA TasksLemma == IInv => tasks \in Seq(Task)
BY Zenon DEF IInv, TypeOK, Task

\* remove_lock_wait sends the task or does nothing.
LEMMA RemoveWaiterLemma ==
    ASSUME IInv, NEW r \in Requests,
           tasks' = tasks \/ tasks' = Append(tasks, RemoveLockWait(r))
    PROVE  /\ tasks' \in Seq(Task)
           /\ \A s \in Requests : Has(tasks', WaitFor(s)) <=> Has(tasks, WaitFor(s))
           /\ \A s \in Requests : Has(tasks', RemoveLockWait(s)) =>
                 Has(tasks, RemoveLockWait(s)) \/ s = r
<1>. tasks \in Seq(Task) /\ RemoveLockWait(r) \in Task
  BY TasksLemma, TaskLemma, Zenon
<1>1. CASE tasks' = tasks
  BY <1>1, Zenon
<1>2. CASE tasks' = Append(tasks, RemoveLockWait(r))
  <2>1. tasks' \in Seq(Task)
    BY <1>2
  <2>2. ASSUME NEW x PROVE Has(tasks', x) <=> Has(tasks, x) \/ x = RemoveLockWait(r)
    BY <1>2, HasAppend, Zenon
  <2>. QED
    BY <2>1, <2>2, TaskLemma, Zenon
<1>. QED
  BY <1>1, <1>2, Zenon

-----------------------------------------------------------------------------
(* The steps keep the invariant.                                            *)

\* A request arrives: it is answered at once or is in a command, not in the queue yet.
LEMMA AcquireStep ==
    ASSUME NEW r \in Requests, IInv, Acquire(r)
    PROVE  IInv'
<1>1. CASE lock = None
  <2>1. /\ cmd = Idle /\ r \notin issued
        /\ issued' = issued \cup {r}
        /\ lock' = r
        /\ answers' = [answers EXCEPT ![r] = @ + 1]
        /\ UNCHANGED <<resumable, queue, wakeIndex, notifyId, nextId, entryIndex, cmd, callbacks,
                         timers, zero, dropped, awakened, mgr, tasks, pool, waiters, canceled,
                         external>>
    BY <1>1, Zenon DEF Acquire, delays, Answer, keyState, manager
  <2>2. answers'[r] = answers[r] + 1 /\ \A s \in Requests : s # r => answers'[s] = answers[s]
    BY <2>1, Zenon DEF IInv, TypeOK
  <2>3. TypeOK'
    <3>1. /\ resumable' \subseteq Requests /\ issued' \subseteq Requests
          /\ queue' \subseteq Requests /\ lock' \in Requests \cup {None, First}
      BY <1>1, <2>1, <2>2, RequestFacts, Zenon DEF IInv, TypeOK, None, First
    <3>2. /\ canceled' \subseteq Requests /\ external' \in [Requests -> {"empty", "sent", "taken"}]
          /\ answers' \in [Requests -> Nat]
      BY <1>1, <2>1, <2>2, RequestFacts DEF IInv, TypeOK, ThreadInv
    <3>. QED
      BY <2>1, <3>1, <3>2, Zenon DEF IInv, TypeOK
  <2>4. ThreadInv'
    BY <1>1, <2>1, <2>2, RequestFacts, Zenon DEF IInv, TypeOK, ThreadInv, At, Idle
  <2>5. PlaceInv'
    BY <1>1, <2>1, <2>2, RequestFacts DEF IInv, TypeOK, ThreadInv, PlaceInv, InCmd, InCallback,
       Carrying, At, Idle
  <2>6. WaitInv'
    BY <2>1, <2>2 DEF IInv, TypeOK, WaitInv, Waits, HasWaiter, InCallback
  <2>. QED
    BY <2>3, <2>4, <2>5, <2>6, Zenon DEF IInv
<1>2. CASE lock # None
  <2>1. /\ cmd = Idle /\ r \notin issued
        /\ issued' = issued \cup {r}
        /\ cmd' = At("push", r)
        /\ UNCHANGED <<resumable, lock, queue, wakeIndex, notifyId, nextId, entryIndex, callbacks,
                         timers, zero, dropped, awakened, mgr, tasks, pool, waiters, canceled,
                         external, answers>>
    BY <1>2, Zenon DEF Acquire, delays, Answer, keyState, manager
  <2>2. TypeOK'
    <3>1. /\ resumable' \subseteq Requests /\ issued' \subseteq Requests
          /\ queue' \subseteq Requests /\ lock' \in Requests \cup {None, First}
      BY <1>2, <2>1, RequestFacts, Zenon DEF IInv, TypeOK, None, First
    <3>2. cmd' \in [step : Commands, req : Requests \cup {None}]
      BY <1>2, <2>1, RequestFacts, Zenon DEF IInv, TypeOK, Commands, At, Idle, ThreadInv
    <3>. QED
      BY <2>1, <3>1, <3>2, Zenon DEF IInv, TypeOK
  <2>3. ThreadInv'
    BY <1>2, <2>1, RequestFacts, Zenon DEF IInv, TypeOK, ThreadInv, At, Idle
  <2>4. PlaceInv'
    BY <1>2, <2>1, RequestFacts, Zenon DEF IInv, TypeOK, ThreadInv, PlaceInv, InCmd, InCallback,
       Carrying, At, Idle
  <2>5. WaitInv'
    BY <1>2, <2>1, RequestFacts, TaskLemma, Zenon DEF IInv, TypeOK, ThreadInv, PlaceInv, WaitInv, Waits,
       HasWaiter, InCmd, InCallback, Carrying, At, Idle
  <2>. QED
    BY <2>2, <2>3, <2>4, <2>5, Zenon DEF IInv
<1>. QED
  BY <1>1, <1>2, Zenon

\* A request enters the queue only if it was not cancelled with the shard locked.
LEMMA PushLockWaitStep ==
    ASSUME IInv, PushLockWait
    PROVE  IInv'
<1>1. CASE cmd.req \notin canceled
  <2>1. /\ cmd.step \in {"push", "push_again"}
        /\ queue' = queue \cup {cmd.req}
        /\ entryIndex' = [entryIndex EXCEPT ![cmd.req] = IF @ = NoIndex THEN wakeIndex ELSE @]
        /\ cmd' = IF cmd.step = "push" THEN At("wait_for", cmd.req) ELSE Idle
        /\ UNCHANGED <<resumable, lock, wakeIndex, notifyId, nextId, callbacks, timers, zero,
                       dropped, awakened,
                         mgr, tasks, pool, waiters, canceled, external, issued, answers>>
    BY <1>1, Zenon DEF PushLockWait, delays, manager, context
  <2>2. cmd.req \in Requests
    BY <2>1, Zenon DEF IInv, ThreadInv
  <2>3. TypeOK'
    <3>1. /\ resumable' \subseteq Requests /\ issued' \subseteq Requests
          /\ queue' \subseteq Requests /\ lock' \in Requests \cup {None, First}
      BY <1>1, <2>1, <2>2, RequestFacts, Zenon DEF IInv, TypeOK, None, First
    <3>2. /\ wakeIndex' \in Nat /\ notifyId' \in Nat
          /\ nextId' \in Nat /\ entryIndex' \in [Requests -> Nat \cup {NoIndex}]
      BY <1>1, <2>1, <2>2, RequestFacts, Zenon DEF IInv, TypeOK, None, NoIndex
    <3>3. cmd' \in [step : Commands, req : Requests \cup {None}]
      BY <1>1, <2>1, <2>2, RequestFacts, Zenon DEF IInv, TypeOK, Commands, At, Idle, ThreadInv
    <3>. QED
      BY <2>1, <3>1, <3>2, <3>3, Zenon DEF IInv, TypeOK
  <2>4. ThreadInv'
    BY <1>1, <2>1, <2>2, RequestFacts, Zenon DEF IInv, TypeOK, ThreadInv, At, Idle
  <2>5. PlaceInv'
    BY <1>1, <2>1, <2>2, RequestFacts, Zenon DEF IInv, TypeOK, ThreadInv, PlaceInv, InCmd, InCallback,
       Carrying, At, Idle
  <2>6. WaitInv'
    BY <1>1, <2>1, <2>2, RequestFacts, TaskLemma DEF IInv, TypeOK, ThreadInv, PlaceInv, WaitInv,
       Waits, HasWaiter, InCmd, InCallback, Carrying, At, Idle
  <2>. QED
    BY <2>3, <2>4, <2>5, <2>6, Zenon DEF IInv
<1>2. CASE cmd.req \in canceled
  <2>1. /\ cmd.step \in {"push", "push_again"}
        /\ cmd' = At("receive", cmd.req)
        /\ UNCHANGED <<resumable, lock, queue, wakeIndex, notifyId, nextId, entryIndex, callbacks,
                         timers, zero, dropped, awakened, mgr, tasks, pool, waiters, canceled,
                         external, issued, answers>>
    BY <1>2, Zenon DEF PushLockWait, delays, manager, context
  <2>2. cmd.req \in Requests
    BY <2>1, Zenon DEF IInv, ThreadInv
  <2>3. TypeOK'
    <3>1. cmd' \in [step : Commands, req : Requests \cup {None}]
      BY <1>2, <2>1, <2>2, RequestFacts, Zenon DEF IInv, TypeOK, Commands, At, Idle, ThreadInv
    <3>. QED
      BY <2>1, <3>1, Zenon DEF IInv, TypeOK
  <2>4. ThreadInv'
    BY <1>2, <2>1, <2>2, RequestFacts, Zenon DEF IInv, TypeOK, ThreadInv, At, Idle
  <2>5. PlaceInv'
    BY <1>2, <2>1, <2>2, RequestFacts, Zenon DEF IInv, TypeOK, ThreadInv, PlaceInv, InCmd, InCallback,
       Carrying, At, Idle
  <2>6. WaitInv'
    BY <1>2, <2>1, <2>2, RequestFacts, TaskLemma DEF IInv, TypeOK, ThreadInv, PlaceInv, WaitInv,
       Waits, HasWaiter, InCmd, InCallback, Carrying, At, Idle
  <2>. QED
    BY <2>3, <2>4, <2>5, <2>6, Zenon DEF IInv
<1>. QED
  BY <1>1, <1>2, Zenon

\* The error is the answer to a request that is in the command alone.
LEMMA ReceiveExternalErrorStep ==
    ASSUME IInv, ReceiveExternalError
    PROVE  IInv'
<1>1. /\ cmd.step = "receive"
      /\ external' = [external EXCEPT ![cmd.req] = "taken"]
      /\ answers' = [answers EXCEPT ![cmd.req] = @ + 1]
      /\ cmd' = Idle
      /\ UNCHANGED <<resumable, lock, queue, wakeIndex, notifyId, nextId, entryIndex, callbacks,
                       timers, zero, dropped, awakened, mgr, tasks, pool, waiters, canceled, issued>>
  BY Zenon DEF ReceiveExternalError, delays, Answer, keyState, manager
<1>2. cmd.req \in Requests
  BY <1>1, Zenon DEF IInv, ThreadInv
<1>3. answers'[cmd.req] = answers[cmd.req] + 1 /\ \A s \in Requests : s # cmd.req => answers'[s] = answers[s]
  BY <1>1, <1>2, Zenon DEF IInv, TypeOK
<1>4. TypeOK'
  <2>1. cmd' \in [step : Commands, req : Requests \cup {None}]
    BY <1>1, <1>2, <1>3, RequestFacts, Zenon DEF IInv, TypeOK, Commands, At, Idle, ThreadInv
  <2>2. /\ canceled' \subseteq Requests /\ external' \in [Requests -> {"empty", "sent", "taken"}]
        /\ answers' \in [Requests -> Nat]
    BY <1>1, <1>2 DEF IInv, TypeOK
  <2>. QED
    BY <1>1, <2>1, <2>2, Zenon DEF IInv, TypeOK
<1>5. ThreadInv'
  BY <1>1, <1>2, <1>3, RequestFacts, Zenon DEF IInv, TypeOK, ThreadInv, At, Idle
<1>6. PlaceInv'
  BY <1>1, <1>2, <1>3, RequestFacts DEF IInv, TypeOK, ThreadInv, PlaceInv, InCmd, InCallback,
     Carrying, At, Idle
<1>7. WaitInv'
  BY <1>1, <1>2, <1>3, RequestFacts, TaskLemma DEF IInv, TypeOK, ThreadInv, PlaceInv, WaitInv,
     Waits, HasWaiter, InCmd, InCallback, Carrying, At, Idle
<1>. QED
  BY <1>4, <1>5, <1>6, <1>7, Zenon DEF IInv

\* The waiter that was about to be sent is in the queue of tasks.
LEMMA SendWaitForStep ==
    ASSUME IInv, SendWaitFor
    PROVE  IInv'
<1>1. /\ cmd.step = "wait_for"
      /\ waiters' = waiters + 1
      /\ tasks' = Append(tasks, WaitFor(cmd.req))
      /\ cmd' = Idle
      /\ UNCHANGED <<resumable, lock, queue, wakeIndex, notifyId, nextId, entryIndex, callbacks,
                       timers, zero, dropped, awakened, mgr, pool, canceled, external, issued, answers>>
  BY Zenon DEF SendWaitFor, delays, keyState, context
<1>2. cmd.req \in Requests
  BY <1>1, Zenon DEF IInv, ThreadInv
<1>3. tasks' \in Seq(Task) /\ \A x : Has(tasks', x) <=> Has(tasks, x) \/ x = WaitFor(cmd.req)
  BY <1>1, <1>2, TaskLemma, HasAppend, TasksLemma
<1>4. \A s \in Requests :
         /\ Has(tasks', RemoveLockWait(s)) <=> Has(tasks, RemoveLockWait(s))
         /\ Has(tasks', WaitFor(s)) <=> Has(tasks, WaitFor(s)) \/ s = cmd.req
  BY <1>2, <1>3, TaskLemma, Zenon
<1>5. TypeOK'
  <2>1. cmd' \in [step : Commands, req : Requests \cup {None}]
    BY <1>1, <1>2, <1>3, <1>4, RequestFacts, Zenon DEF IInv, TypeOK, Commands, At, Idle, ThreadInv
  <2>2. /\ tasks' \in Seq({"wait_for", "remove"} \X Requests) /\ pool' \subseteq Requests
        /\ waiters' \in Int
    BY <1>1, <1>3 DEF IInv, TypeOK, Task
  <2>. QED
    BY <1>1, <2>1, <2>2, Zenon DEF IInv, TypeOK
<1>6. ThreadInv'
  BY <1>1, <1>2, <1>3, <1>4, RequestFacts, Zenon DEF IInv, TypeOK, ThreadInv, At, Idle
<1>7. PlaceInv'
  BY <1>1, <1>2, <1>3, <1>4, RequestFacts, Zenon DEF IInv, TypeOK, ThreadInv, PlaceInv, InCmd,
     InCallback, Carrying, At, Idle
<1>8. WaitInv'
  BY <1>1, <1>2, <1>4, RequestFacts DEF IInv, TypeOK, WaitInv, Waits, HasWaiter, InCallback, At,
     Idle
<1>. QED
  BY <1>5, <1>6, <1>7, <1>8, Zenon DEF IInv

\* The head of the queue moves to the command or to a callback.
LEMMA ReleaseLockStep ==
    ASSUME IInv, ReleaseLock
    PROVE  IInv'
<1>1. CASE queue = {}
  <2>1. /\ cmd = Idle
        /\ cmd' = At("write", None)
        /\ UNCHANGED <<resumable, lock, queue, wakeIndex, notifyId, nextId, entryIndex, callbacks,
                         timers, zero, dropped, awakened, mgr, tasks, pool, waiters, canceled,
                         external, issued, answers>>
    BY <1>1, Zenon DEF ReleaseLock, PopForWakingUp, manager, context
  <2>2. TypeOK'
    <3>1. cmd' \in [step : Commands, req : Requests \cup {None}]
      BY <1>1, <2>1, RequestFacts, Zenon DEF IInv, TypeOK, Commands, At, Idle, ThreadInv
    <3>. QED
      BY <2>1, <3>1, Zenon DEF IInv, TypeOK
  <2>3. ThreadInv'
    BY <1>1, <2>1, RequestFacts, Zenon DEF IInv, TypeOK, ThreadInv, At, Idle
  <2>4. PlaceInv'
    BY <1>1, <2>1, RequestFacts, Zenon DEF IInv, TypeOK, ThreadInv, PlaceInv, InCmd, InCallback,
       Carrying, At, Idle
  <2>5. WaitInv'
    BY <1>1, <2>1, RequestFacts, TaskLemma, Zenon DEF IInv, TypeOK, ThreadInv, PlaceInv, WaitInv, Waits,
       HasWaiter, InCmd, InCallback, Carrying, At, Idle
  <2>. QED
    BY <2>2, <2>3, <2>4, <2>5, Zenon DEF IInv
<1>2. CASE queue # {} /\ Head1(queue) \in resumable
  <2>1. /\ cmd = Idle
        /\ queue' = queue \ {Head1(queue)}
        /\ wakeIndex' \in {0, wakeIndex, wakeIndex + 1} /\ notifyId' \in {None, notifyId, nextId}
        /\ cmd' = At("write", Head1(queue))
        /\ UNCHANGED <<resumable, lock, nextId, entryIndex, callbacks, timers, zero, dropped,
                       awakened, mgr,
                         tasks, pool, waiters, canceled, external, issued, answers>>
    BY <1>2, Zenon DEF ReleaseLock, PopForWakingUp, Leave, manager, context
  <2>2. Head1(queue) \in queue /\ Head1(queue) \in Requests
    BY <1>2, RequestFacts, HeadLemma, Zenon DEF IInv, TypeOK
  <2>3. TypeOK'
    <3>1. /\ resumable' \subseteq Requests /\ issued' \subseteq Requests
          /\ queue' \subseteq Requests /\ lock' \in Requests \cup {None, First}
      BY <1>2, <2>1, <2>2, RequestFacts, Zenon DEF IInv, TypeOK, None, First
    <3>2. /\ wakeIndex' \in Nat /\ notifyId' \in Nat
          /\ nextId' \in Nat /\ entryIndex' \in [Requests -> Nat \cup {NoIndex}]
      BY <1>2, <2>1, <2>2, RequestFacts DEF IInv, TypeOK, None, NoIndex
    <3>3. cmd' \in [step : Commands, req : Requests \cup {None}]
      BY <1>2, <2>1, <2>2, RequestFacts, Zenon DEF IInv, TypeOK, Commands, At, Idle, ThreadInv
    <3>. QED
      BY <2>1, <3>1, <3>2, <3>3, Zenon DEF IInv, TypeOK
  <2>4. ThreadInv'
    BY <1>2, <2>1, <2>2, RequestFacts, Zenon DEF IInv, TypeOK, ThreadInv, At, Idle
  <2>5. PlaceInv'
    BY <1>2, <2>1, <2>2, RequestFacts DEF IInv, TypeOK, ThreadInv, PlaceInv, InCmd, InCallback,
       Carrying, At, Idle
  <2>6. WaitInv'
    BY <1>2, <2>1, <2>2, RequestFacts, TaskLemma, Zenon DEF IInv, TypeOK, ThreadInv, PlaceInv, WaitInv,
       Waits, HasWaiter, InCmd, InCallback, Carrying, At, Idle
  <2>. QED
    BY <2>3, <2>4, <2>5, <2>6, Zenon DEF IInv
<1>3. CASE queue # {} /\ Head1(queue) \notin resumable
  <2>1. /\ cmd = Idle
        /\ queue' = queue \ {Head1(queue)}
        /\ wakeIndex' \in {0, wakeIndex, wakeIndex + 1} /\ notifyId' \in {None, notifyId, nextId}
        /\ nextId' \in {nextId, nextId + 1}
        /\ \E id \in {None, nextId} : callbacks' = callbacks \cup {<<Head1(queue), id>>}
        /\ zero' \subseteq zero \cup {notifyId, nextId}
        /\ cmd' = At("write", None)
        /\ UNCHANGED <<resumable, lock, entryIndex, timers, dropped, awakened, mgr, tasks, pool, waiters,
                         canceled, external, issued, answers>>
    BY <1>3 DEF ReleaseLock, PopForWakingUp, StoreDelay, Leave, manager, context
  <2>2. Head1(queue) \in queue /\ Head1(queue) \in Requests
    BY <1>3, RequestFacts, HeadLemma, Zenon DEF IInv, TypeOK
  <2>3. TypeOK'
    <3>1. /\ resumable' \subseteq Requests /\ issued' \subseteq Requests
          /\ queue' \subseteq Requests /\ lock' \in Requests \cup {None, First}
      BY <1>3, <2>1, <2>2, RequestFacts, Zenon DEF IInv, TypeOK, None, First
    <3>2. /\ wakeIndex' \in Nat /\ notifyId' \in Nat
          /\ nextId' \in Nat /\ entryIndex' \in [Requests -> Nat \cup {NoIndex}]
      BY <1>3, <2>1, <2>2, RequestFacts DEF IInv, TypeOK, None, NoIndex
    <3>3. cmd' \in [step : Commands, req : Requests \cup {None}]
      BY <1>3, <2>1, <2>2, RequestFacts, Zenon DEF IInv, TypeOK, Commands, At, Idle, ThreadInv
    <3>4. /\ callbacks' \subseteq Requests \X Nat /\ timers' \subseteq Nat
          /\ zero' \subseteq Nat /\ awakened' \subseteq Requests
      BY <1>3, <2>1, <2>2, RequestFacts DEF IInv, TypeOK, None
    <3>. QED
      BY <2>1, <3>1, <3>2, <3>3, <3>4, Zenon DEF IInv, TypeOK
  <2>4. ThreadInv'
    BY <1>3, <2>1, <2>2, RequestFacts, Zenon DEF IInv, TypeOK, ThreadInv, At, Idle
  <2>5. PlaceInv'
    <3>1. \A s \in Requests : ~InCmd(s)'
      BY <2>1, RequestFacts, Zenon DEF InCmd, At
    <3>2. \A s \in Requests : \A i : <<s, i>> \in callbacks' =>
             \/ <<s, i>> \in callbacks
             \/ s = Head1(queue) /\ callbacks' = callbacks \cup {<<Head1(queue), i>>}
      BY <2>1
    <3>. QED
      BY <2>1, <2>2, <3>1, <3>2, Zenon DEF IInv, PlaceInv, InCallback
  <2>6. WaitInv'
    <3>1. \A s \in Requests : \A i : <<s, i>> \in callbacks' => <<s, i>> \in callbacks \/ s = Head1(queue)
      BY <2>1
    <3>2. \A s \in Requests : Waits(s)' => Waits(s)
      BY <2>1, <2>2, <3>1, RequestFacts, Zenon DEF Waits, InCallback, At
    <3>3. \A s \in Requests : HasWaiter(s) => HasWaiter(s)'
      BY <2>1, Zenon DEF HasWaiter, At, Idle
    <3>. QED
      BY <2>1, <2>2, <3>2, <3>3, Zenon DEF IInv, WaitInv
  <2>. QED
    BY <2>3, <2>4, <2>5, <2>6, Zenon DEF IInv
<1>. QED
  BY <1>1, <1>2, <1>3, Zenon

\* The request woken up stays in the command.
LEMMA WriteFinishedStep ==
    ASSUME IInv, WriteFinished
    PROVE  IInv'
<1>1. /\ cmd.step = "write"
      /\ lock' \in {lock, None}
      /\ cmd.req = None => cmd' = Idle
      /\ cmd.req # None => cmd' \in {At("resume", cmd.req), At("push_again", cmd.req)}
      /\ UNCHANGED <<resumable, queue, wakeIndex, notifyId, nextId, entryIndex, callbacks, timers,
                       zero, dropped, awakened, mgr, tasks, pool, waiters, canceled, external,
                       issued, answers>>
  BY Zenon DEF WriteFinished, delays, keyState, manager, context
<1>2. TypeOK'
  <2>1. /\ resumable' \subseteq Requests /\ issued' \subseteq Requests
        /\ queue' \subseteq Requests /\ lock' \in Requests \cup {None, First}
    BY <1>1, RequestFacts, Zenon DEF IInv, TypeOK, None, First
  <2>2. cmd' \in [step : Commands, req : Requests \cup {None}]
    BY <1>1, RequestFacts DEF IInv, TypeOK, Commands, At, Idle, ThreadInv
  <2>. QED
    BY <1>1, <2>1, <2>2, Zenon DEF IInv, TypeOK
<1>3. ThreadInv'
  BY <1>1, RequestFacts DEF IInv, TypeOK, ThreadInv, At, Idle
<1>4. PlaceInv'
  BY <1>1, RequestFacts DEF IInv, TypeOK, ThreadInv, PlaceInv, InCmd, InCallback, Carrying, At,
     Idle
<1>5. WaitInv'
  BY <1>1, RequestFacts, TaskLemma DEF IInv, TypeOK, ThreadInv, PlaceInv, WaitInv, Waits,
     HasWaiter, InCmd, InCallback, Carrying, At, Idle
<1>. QED
  BY <1>2, <1>3, <1>4, <1>5, Zenon DEF IInv

\* The request moves from those that wait for the latch to the command.
LEMMA ScheduleAwakenedStep ==
    ASSUME NEW r \in Requests, IInv, ScheduleAwakened(r)
    PROVE  IInv'
<1>1. /\ cmd = Idle /\ r \in awakened
      /\ awakened' = awakened \ {r}
      /\ cmd' = At("resume", r)
      /\ UNCHANGED <<resumable, lock, queue, wakeIndex, notifyId, nextId, entryIndex, callbacks,
                       timers, zero, dropped, mgr, tasks, pool, waiters, canceled, external, issued,
                       answers>>
  BY Zenon DEF ScheduleAwakened, delays, keyState, manager, context
<1>2. TypeOK'
  <2>1. cmd' \in [step : Commands, req : Requests \cup {None}]
    BY <1>1, RequestFacts, Zenon DEF IInv, TypeOK, Commands, At, Idle, ThreadInv
  <2>2. /\ callbacks' \subseteq Requests \X Nat /\ timers' \subseteq Nat
        /\ awakened' \subseteq Requests
    BY <1>1, RequestFacts, Zenon DEF IInv, TypeOK, None
  <2>. QED
    BY <1>1, <2>1, <2>2, Zenon DEF IInv, TypeOK
<1>3. ThreadInv'
  BY <1>1, RequestFacts, Zenon DEF IInv, TypeOK, ThreadInv, At, Idle
<1>4. PlaceInv'
  BY <1>1, RequestFacts DEF IInv, TypeOK, ThreadInv, PlaceInv, InCmd, InCallback, Carrying, At,
     Idle
<1>5. WaitInv'
  BY <1>1, RequestFacts, TaskLemma, Zenon DEF IInv, TypeOK, ThreadInv, PlaceInv, WaitInv, Waits,
     HasWaiter, InCmd, InCallback, Carrying, At, Idle
<1>. QED
  BY <1>2, <1>3, <1>4, <1>5, Zenon DEF IInv

\* The request leaves the command with its answer, or is about to be put back.
LEMMA ResumeStep ==
    ASSUME IInv, Resume
    PROVE  IInv'
<1>1. CASE cmd' = Idle
  <2>1. /\ cmd.step = "resume"
        /\ lock' \in {lock, cmd.req}
        /\ answers' = [answers EXCEPT ![cmd.req] = @ + 1]
        /\ tasks' = tasks \/ tasks' = Append(tasks, RemoveLockWait(cmd.req))
        /\ UNCHANGED <<resumable, queue, wakeIndex, notifyId, nextId, entryIndex, callbacks,
                         timers, zero, dropped, awakened, mgr, pool, waiters, canceled, external,
                         issued>>
    BY <1>1, Zenon DEF Resume, delays, FinishExecuted, RemoveWaiter, Answer, At, Idle
  <2>2. cmd.req \in Requests
    BY <2>1, Zenon DEF IInv, ThreadInv
  <2>3. answers'[cmd.req] = answers[cmd.req] + 1 /\ \A s \in Requests : s # cmd.req => answers'[s] = answers[s]
    BY <2>1, <2>2, Zenon DEF IInv, TypeOK
  <2>4. /\ tasks' \in Seq(Task)
        /\ \A s \in Requests : Has(tasks', WaitFor(s)) <=> Has(tasks, WaitFor(s))
        /\ \A s \in Requests : Has(tasks', RemoveLockWait(s)) => Has(tasks, RemoveLockWait(s)) \/ s = cmd.req
    BY <2>1, <2>2, RemoveWaiterLemma, Zenon
  <2>5. TypeOK'
    <3>1. /\ resumable' \subseteq Requests /\ issued' \subseteq Requests
          /\ queue' \subseteq Requests /\ lock' \in Requests \cup {None, First}
      BY <1>1, <2>1, <2>2, <2>3, <2>4, RequestFacts DEF IInv, TypeOK, None, First
    <3>2. cmd' \in [step : Commands, req : Requests \cup {None}]
      BY <1>1, <2>1, <2>2, <2>3, <2>4, RequestFacts, Zenon DEF IInv, TypeOK, Commands, At, Idle,
         ThreadInv
    <3>3. /\ tasks' \in Seq({"wait_for", "remove"} \X Requests) /\ pool' \subseteq Requests
          /\ waiters' \in Int
      BY <2>1, <2>4, Zenon DEF IInv, TypeOK, Task
    <3>4. /\ canceled' \subseteq Requests /\ external' \in [Requests -> {"empty", "sent", "taken"}]
          /\ answers' \in [Requests -> Nat]
      BY <2>1, <2>2 DEF IInv, TypeOK
    <3>. QED
      BY <2>1, <3>1, <3>2, <3>3, <3>4, Zenon DEF IInv, TypeOK
  <2>6. ThreadInv'
    BY <1>1, <2>1, <2>2, <2>3, <2>4, RequestFacts, Zenon DEF IInv, TypeOK, ThreadInv, At, Idle
  <2>7. PlaceInv'
    BY <1>1, <2>1, <2>2, <2>3, <2>4, RequestFacts DEF IInv, TypeOK, ThreadInv, PlaceInv, InCmd,
       InCallback, Carrying, At, Idle
  <2>8. WaitInv'
    BY <1>1, <2>1, <2>2, <2>3, <2>4, RequestFacts, TaskLemma DEF IInv, TypeOK, ThreadInv,
       PlaceInv, WaitInv, Waits, HasWaiter, InCmd, InCallback, Carrying, At, Idle
  <2>. QED
    BY <2>5, <2>6, <2>7, <2>8, Zenon DEF IInv
<1>2. CASE cmd' # Idle
  <2>1. /\ cmd.step = "resume"
        /\ cmd' = At("push_again", cmd.req)
        /\ entryIndex' = [entryIndex EXCEPT ![cmd.req] = NoIndex]
        /\ UNCHANGED <<resumable, lock, queue, wakeIndex, notifyId, nextId, callbacks, timers,
                         zero, dropped, awakened, mgr, tasks, pool, waiters, canceled, external,
                         issued, answers>>
    BY <1>2, Zenon DEF Resume, delays, FinishExecuted, RemoveWaiter, Answer, At, Idle
  <2>2. cmd.req \in Requests
    BY <2>1, Zenon DEF IInv, ThreadInv
  <2>3. TypeOK'
    <3>1. /\ wakeIndex' \in Nat /\ notifyId' \in Nat
          /\ nextId' \in Nat /\ entryIndex' \in [Requests -> Nat \cup {NoIndex}]
      BY <1>2, <2>1, <2>2, RequestFacts, Zenon DEF IInv, TypeOK, None, NoIndex
    <3>2. cmd' \in [step : Commands, req : Requests \cup {None}]
      BY <1>2, <2>1, <2>2, RequestFacts, Zenon DEF IInv, TypeOK, Commands, At, Idle, ThreadInv
    <3>. QED
      BY <2>1, <3>1, <3>2, Zenon DEF IInv, TypeOK
  <2>4. ThreadInv'
    BY <1>2, <2>1, <2>2, RequestFacts, Zenon DEF IInv, TypeOK, ThreadInv, At, Idle
  <2>5. PlaceInv'
    BY <1>2, <2>1, <2>2, RequestFacts DEF IInv, TypeOK, ThreadInv, PlaceInv, InCmd, InCallback,
       Carrying, At, Idle
  <2>6. WaitInv'
    BY <1>2, <2>1, <2>2, RequestFacts, TaskLemma DEF IInv, TypeOK, ThreadInv, PlaceInv, WaitInv,
       Waits, HasWaiter, InCmd, InCallback, Carrying, At, Idle
  <2>. QED
    BY <2>3, <2>4, <2>5, <2>6, Zenon DEF IInv
<1>. QED
  BY <1>1, <1>2, Zenon

\* The request leaves the callbacks with its answer.
LEMMA WakeUpLegacyStep ==
    ASSUME NEW r \in Requests, NEW id \in Nat, IInv, WakeUpLegacy(r, id)
    PROVE  IInv'
<1>1. /\ <<r, id>> \in callbacks
      /\ callbacks' = callbacks \ {<<r, id>>}
      /\ answers' = [answers EXCEPT ![r] = @ + 1]
      /\ tasks' = tasks \/ tasks' = Append(tasks, RemoveLockWait(r))
      /\ timers' = timers \cup ({id} \ {None})
      /\ UNCHANGED <<resumable, lock, queue, wakeIndex, notifyId, nextId, entryIndex, cmd,
                       zero, dropped, awakened, mgr, pool, waiters, canceled, external, issued>>
  BY Zenon DEF WakeUpLegacy, delays, FinishExecuted, RemoveWaiter, Answer, keyState
<1>2. answers'[r] = answers[r] + 1 /\ \A s \in Requests : s # r => answers'[s] = answers[s]
  BY <1>1, Zenon DEF IInv, TypeOK
<1>3. /\ tasks' \in Seq(Task)
      /\ \A s \in Requests : Has(tasks', WaitFor(s)) <=> Has(tasks, WaitFor(s))
      /\ \A s \in Requests : Has(tasks', RemoveLockWait(s)) => Has(tasks, RemoveLockWait(s)) \/ s = r
  BY <1>1, RemoveWaiterLemma, Zenon
<1>4. \A s \in Requests, i \in Nat : <<s, i>> \in callbacks' <=> <<s, i>> \in callbacks /\ ~(s = r /\ i = id)
  BY <1>1, Zenon
<1>5. InCallback(r) /\ ~InCallback(r)' /\ \A s \in Requests : s # r => (InCallback(s)' <=> InCallback(s))
  BY <1>1, <1>4, Zenon DEF IInv, PlaceInv, InCallback
<1>6. TypeOK'
  <2>1. /\ callbacks' \subseteq Requests \X Nat /\ timers' \subseteq Nat
        /\ awakened' \subseteq Requests
    BY <1>1, <1>2, <1>3, <1>4, <1>5, RequestFacts DEF IInv, TypeOK, None
  <2>2. /\ tasks' \in Seq({"wait_for", "remove"} \X Requests) /\ pool' \subseteq Requests
        /\ waiters' \in Int
    BY <1>1, <1>3, Zenon DEF IInv, TypeOK, Task
  <2>3. /\ canceled' \subseteq Requests /\ external' \in [Requests -> {"empty", "sent", "taken"}]
        /\ answers' \in [Requests -> Nat]
    BY <1>1, <1>2, <1>3, <1>4, <1>5, RequestFacts DEF IInv, TypeOK, ThreadInv
  <2>. QED
    BY <1>1, <2>1, <2>2, <2>3, Zenon DEF IInv, TypeOK
<1>7. ThreadInv'
  BY <1>1, <1>2, <1>3, <1>4, <1>5, RequestFacts, Zenon DEF IInv, TypeOK, ThreadInv, At, Idle
<1>8. PlaceInv'
  BY <1>1, <1>2, <1>4, <1>5, RequestFacts DEF IInv, TypeOK, PlaceInv, InCmd
<1>9. WaitInv'
  BY <1>1, <1>2, <1>3, <1>5, RequestFacts DEF IInv, TypeOK, WaitInv, Waits, HasWaiter
<1>. QED
  BY <1>6, <1>7, <1>8, <1>9, Zenon DEF IInv

\* The entries popped move from the queue to callbacks or wait for the latch.
LEMMA DelayedNotifyAllStep ==
    ASSUME NEW id \in Nat, IInv, DelayedNotifyAll(id)
    PROVE  IInv'
<1>1. CASE id \notin zero /\ notifyId = id
  <2>1. /\ timers' = timers \ {id}
        /\ queue' = queue \ NotifiedEntries
        /\ wakeIndex' \in {0, wakeIndex} /\ notifyId' = None
        /\ callbacks' = callbacks \cup {<<r, None>> : r \in NotifiedEntries \ resumable}
        /\ awakened' = awakened \cup (NotifiedEntries \cap resumable)
        /\ UNCHANGED <<resumable, lock, nextId, entryIndex, cmd, zero, dropped, mgr, tasks, pool,
                       waiters,
                         canceled, external, issued, answers>>
    BY <1>1, Zenon DEF DelayedNotifyAll, Leave, manager, context
  <2>2. NotifiedEntries \subseteq queue
    BY Zenon DEF NotifiedEntries
  <2>3. \A s \in Requests, i \in Nat : <<s, i>> \in callbacks' <=>
           <<s, i>> \in callbacks \/ (i = None /\ s \in NotifiedEntries \ resumable)
    BY <2>1, Zenon DEF None
  <2>4. \A s \in Requests : InCallback(s)' <=> InCallback(s) \/ s \in NotifiedEntries \ resumable
    BY <2>3, Zenon DEF InCallback, None
  <2>5. TypeOK'
    <3>1. /\ resumable' \subseteq Requests /\ issued' \subseteq Requests
          /\ queue' \subseteq Requests /\ lock' \in Requests \cup {None, First}
      BY <1>1, <2>1, <2>2, <2>3, <2>4, RequestFacts, Zenon DEF IInv, TypeOK, None, First
    <3>2. /\ wakeIndex' \in Nat /\ notifyId' \in Nat
          /\ nextId' \in Nat /\ entryIndex' \in [Requests -> Nat \cup {NoIndex}]
      BY <1>1, <2>1, <2>2, <2>3, <2>4, RequestFacts DEF IInv, TypeOK, None, NoIndex
    <3>3. /\ callbacks' \subseteq Requests \X Nat /\ timers' \subseteq Nat
          /\ awakened' \subseteq Requests
      BY <1>1, <2>1, <2>2, <2>3, <2>4, RequestFacts DEF IInv, TypeOK, None
    <3>. QED
      BY <2>1, <3>1, <3>2, <3>3, Zenon DEF IInv, TypeOK
  <2>6. ThreadInv'
    BY <1>1, <2>1, <2>2, <2>3, <2>4, RequestFacts, Zenon DEF IInv, TypeOK, ThreadInv, At, Idle
  <2>7. PlaceInv'
    <3>. SUFFICES ASSUME NEW s \in Requests
                  PROVE  /\ answers'[s] <= 1
                         /\ s \in queue' => /\ s \in issued' /\ answers'[s] = 0 /\ ~InCmd(s)'
                                            /\ ~InCallback(s)' /\ s \notin awakened'
                         /\ InCmd(s)' => /\ s \in issued' /\ answers'[s] = 0
                                         /\ ~InCallback(s)' /\ s \notin awakened'
                         /\ InCallback(s)' => s \in issued' /\ answers'[s] = 0 /\ s \notin awakened'
                         /\ s \in awakened' => s \in issued' /\ answers'[s] = 0
                         /\ s \notin issued' => answers'[s] = 0
                         /\ \A i, j \in Nat : <<s, i>> \in callbacks' /\ <<s, j>> \in callbacks' => i = j
      BY Zenon DEF PlaceInv
    <3>1. InCmd(s)' <=> InCmd(s)
      BY <2>1, Zenon DEF InCmd
    <3>2. CASE s \in NotifiedEntries
      <4>1. \A i \in Nat : <<s, i>> \notin callbacks
        BY <2>2, <3>2, Zenon DEF IInv, PlaceInv, InCallback
      <4>. QED
        BY <2>1, <2>2, <2>3, <2>4, <3>1, <3>2, <4>1, Zenon DEF IInv, PlaceInv
    <3>3. CASE s \notin NotifiedEntries
      BY <2>1, <2>3, <2>4, <3>1, <3>3, Zenon DEF IInv, PlaceInv
    <3>. QED
      BY <3>2, <3>3, Zenon
  <2>8. WaitInv'
    BY <1>1, <2>1, <2>2, <2>4, RequestFacts, Zenon DEF IInv, TypeOK, WaitInv, Waits, HasWaiter
  <2>. QED
    BY <2>5, <2>6, <2>7, <2>8, Zenon DEF IInv
<1>2. CASE id \in zero \/ notifyId # id
  <2>1. /\ timers' = timers \ {id} /\ dropped' \subseteq dropped \cup {id}
        /\ UNCHANGED <<resumable, lock, queue, wakeIndex, notifyId, nextId, entryIndex, cmd,
                         callbacks, zero, awakened, mgr, tasks, pool, waiters, canceled, external,
                         issued, answers>>
    BY <1>2, Zenon DEF DelayedNotifyAll, manager, context
  <2>2. TypeOK'
    <3>1. /\ callbacks' \subseteq Requests \X Nat /\ timers' \subseteq Nat
          /\ dropped' \subseteq Nat /\ awakened' \subseteq Requests
      BY <1>2, <2>1, RequestFacts, Zenon DEF IInv, TypeOK, None
    <3>. QED
      BY <2>1, <3>1, Zenon DEF IInv, TypeOK
  <2>3. ThreadInv'
    BY <1>2, <2>1, RequestFacts, Zenon DEF IInv, TypeOK, ThreadInv, At, Idle
  <2>4. PlaceInv'
    BY <1>2, <2>1, RequestFacts DEF IInv, TypeOK, ThreadInv, PlaceInv, InCmd, InCallback,
       Carrying, At, Idle
  <2>5. WaitInv'
    BY <1>2, <2>1, RequestFacts, TaskLemma, Zenon DEF IInv, TypeOK, ThreadInv, PlaceInv, WaitInv, Waits,
       HasWaiter, InCmd, InCallback, Carrying, At, Idle
  <2>. QED
    BY <2>2, <2>3, <2>4, <2>5, Zenon DEF IInv
<1>. QED
  BY <1>1, <1>2, Zenon

\* A waiter is removed from the pool only after its request was answered.
LEMMA HandleTaskStep ==
    ASSUME IInv, HandleTask
    PROVE  IInv'
<1>1. CASE Head(tasks) = WaitFor(Head(tasks)[2])
  <2>1. /\ tasks # <<>>
        /\ tasks' = Tail(tasks)
        /\ pool' = pool \cup {Head(tasks)[2]}
        /\ UNCHANGED <<resumable, lock, queue, wakeIndex, notifyId, nextId, entryIndex, cmd,
                         callbacks, timers, zero, dropped, awakened, mgr, waiters, canceled,
                         external, issued, answers>>
    BY <1>1 DEF HandleTask, delays, keyState, context, WaitFor, RemoveLockWait
  <2>2. Head(tasks) \in Task /\ Head(tasks)[2] \in Requests /\ tasks' \in Seq(Task)
    BY <2>1, TasksLemma DEF Task
  <2>3. \A x : Has(tasks, x) <=> x = Head(tasks) \/ Has(tasks', x)
    BY <2>1, HasTail, TasksLemma, Zenon
  <2>4. TypeOK'
    <3>1. /\ tasks' \in Seq({"wait_for", "remove"} \X Requests) /\ pool' \subseteq Requests
          /\ waiters' \in Int
      BY <2>1, <2>2, Zenon DEF IInv, TypeOK, Task
    <3>. QED
      BY <2>1, <3>1, Zenon DEF IInv, TypeOK
  <2>5. ThreadInv'
    BY <1>1, <2>1, <2>2, <2>3, RequestFacts, Zenon DEF IInv, TypeOK, ThreadInv, At, Idle
  <2>6. PlaceInv'
    BY <1>1, <2>1, <2>2, <2>3, RequestFacts DEF IInv, TypeOK, ThreadInv, PlaceInv, InCmd,
       InCallback, Carrying, At, Idle
  <2>7. WaitInv'
    <3>1. \A s \in Requests : Waits(s)' <=> Waits(s)
      BY <2>1, Zenon DEF Waits, InCallback
    <3>2. \A s \in Requests : HasWaiter(s) => HasWaiter(s)'
      BY <1>1, <2>1, <2>2, <2>3, TaskLemma, Zenon DEF HasWaiter
    <3>. QED
      BY <2>1, <2>3, <3>1, <3>2, Zenon DEF IInv, WaitInv
  <2>. QED
    BY <2>4, <2>5, <2>6, <2>7, Zenon DEF IInv
<1>2. CASE Head(tasks) = RemoveLockWait(Head(tasks)[2])
  <2>1. /\ tasks # <<>>
        /\ tasks' = Tail(tasks)
        /\ pool' = pool \ {Head(tasks)[2]}
        /\ waiters' = waiters - Cardinality(pool \cap {Head(tasks)[2]})
        /\ UNCHANGED <<resumable, lock, queue, wakeIndex, notifyId, nextId, entryIndex, cmd,
                         callbacks, timers, zero, dropped, awakened, mgr, canceled, external,
                         issued, answers>>
    BY <1>2 DEF HandleTask, delays, keyState, context, WaitFor, RemoveLockWait
  <2>2. Head(tasks) \in Task /\ Head(tasks)[2] \in Requests /\ tasks' \in Seq(Task)
    BY <2>1, TasksLemma DEF Task
  <2>3. \A x : Has(tasks, x) <=> x = Head(tasks) \/ Has(tasks', x)
    BY <2>1, HasTail, TasksLemma, Zenon
  <2>4. answers[Head(tasks)[2]] > 0
    BY <1>2, <2>2, <2>3, Zenon DEF IInv, WaitInv
  <2>5. waiters' \in Int
    BY <2>1, CountLemma DEF IInv, TypeOK
  <2>6. \A s \in Requests :
           /\ Has(tasks', RemoveLockWait(s)) => Has(tasks, RemoveLockWait(s))
           /\ Has(tasks', WaitFor(s)) <=> Has(tasks, WaitFor(s))
    BY <1>2, <2>2, <2>3, TaskLemma, Zenon
  <2>7. TypeOK'
    <3>1. /\ tasks' \in Seq({"wait_for", "remove"} \X Requests) /\ pool' \subseteq Requests
          /\ waiters' \in Int
      BY <2>1, <2>2, <2>5, Zenon DEF IInv, TypeOK, Task
    <3>. QED
      BY <2>1, <3>1, Zenon DEF IInv, TypeOK
  <2>8. ThreadInv'
    BY <1>2, <2>1, <2>2, <2>3, <2>4, <2>5, <2>6, RequestFacts, Zenon DEF IInv, TypeOK, ThreadInv, At,
       Idle
  <2>9. PlaceInv'
    BY <1>2, <2>1, <2>2, <2>3, <2>4, <2>5, <2>6, RequestFacts DEF IInv, TypeOK, ThreadInv,
       PlaceInv, InCmd, InCallback, Carrying, At, Idle
  <2>10. WaitInv'
    <3>. SUFFICES ASSUME NEW s \in Requests
                  PROVE  /\ Waits(s)' /\ s \notin canceled' => HasWaiter(s)'
                         /\ s \in queue' /\ s \in canceled' => mgr' = At("remove", s)
                         /\ Has(tasks', RemoveLockWait(s)) => answers'[s] > 0
      BY Zenon DEF WaitInv
    <3>1. Waits(s)' <=> Waits(s)
      BY <2>1, Zenon DEF Waits, InCallback
    <3>2. Waits(s) => s # Head(tasks)[2]
      BY <2>4 DEF Waits, IInv, PlaceInv, InCmd, Carrying
    <3>3. Waits(s) /\ HasWaiter(s) => HasWaiter(s)'
      BY <2>1, <2>6, <3>2, Zenon DEF HasWaiter
    <3>. QED
      BY <2>1, <2>6, <3>1, <3>3, Zenon DEF IInv, WaitInv
  <2>. QED
    BY <2>7, <2>8, <2>9, <2>10, Zenon DEF IInv
<1>. QED
  BY <1>1, <1>2, Zenon DEF HandleTask

\* The request leaves the pool while the manager is about to remove its entry.
LEMMA CancelWaiterStep ==
    ASSUME NEW r \in Requests, IInv, CancelWaiter(r)
    PROVE  IInv'
<1>1. /\ mgr = Idle /\ r \in pool
      /\ pool' = pool \ {r}
      /\ waiters' = waiters - 1
      /\ canceled' = canceled \cup {r}
      /\ mgr' = At("remove", r)
      /\ UNCHANGED <<resumable, lock, queue, wakeIndex, notifyId, nextId, entryIndex, cmd,
                       callbacks, timers, zero, dropped, awakened, tasks, external, issued, answers>>
  BY Zenon DEF CancelWaiter, delays, keyState
<1>2. TypeOK'
  <2>1. mgr' \in [step : {"idle", "remove", "put"}, req : Requests \cup {None}]
    BY <1>1, RequestFacts, Zenon DEF IInv, TypeOK, At, Idle, ThreadInv
  <2>2. /\ tasks' \in Seq({"wait_for", "remove"} \X Requests) /\ pool' \subseteq Requests
        /\ waiters' \in Int
    BY <1>1, RequestFacts DEF IInv, TypeOK, WaitFor, RemoveLockWait, ThreadInv
  <2>3. /\ canceled' \subseteq Requests /\ external' \in [Requests -> {"empty", "sent", "taken"}]
        /\ answers' \in [Requests -> Nat]
    BY <1>1, RequestFacts, Zenon DEF IInv, TypeOK, ThreadInv
  <2>. QED
    BY <1>1, <2>1, <2>2, <2>3, Zenon DEF IInv, TypeOK
<1>3. ThreadInv'
  BY <1>1, RequestFacts, Zenon DEF IInv, TypeOK, ThreadInv, At, Idle
<1>4. PlaceInv'
  BY <1>1, RequestFacts DEF IInv, TypeOK, ThreadInv, PlaceInv, InCmd, InCallback, Carrying, At,
     Idle
<1>5. WaitInv'
  BY <1>1, RequestFacts, TaskLemma, Zenon DEF IInv, TypeOK, ThreadInv, PlaceInv, WaitInv, Waits,
     HasWaiter, InCmd, InCallback, Carrying, At, Idle
<1>. QED
  BY <1>2, <1>3, <1>4, <1>5, Zenon DEF IInv

\* The request leaves the queue with its answer, or was not in it.
LEMMA RemoveByTokenStep ==
    ASSUME IInv, RemoveByToken
    PROVE  IInv'
<1>1. CASE mgr.req \in queue
  <2>1. /\ mgr.step = "remove"
        /\ queue' = queue \ {mgr.req}
        /\ wakeIndex' \in {0, wakeIndex} /\ notifyId' \in {None, notifyId}
        /\ answers' = [answers EXCEPT ![mgr.req] = @ + 1]
        /\ mgr' = Idle
        /\ UNCHANGED <<resumable, lock, nextId, entryIndex, cmd, callbacks, timers, zero, dropped,
                       awakened,
                         tasks, pool, waiters, canceled, external, issued>>
    BY <1>1, Zenon DEF RemoveByToken, delays, Leave, Answer
  <2>2. mgr.req \in Requests
    BY <2>1, Zenon DEF IInv, ThreadInv
  <2>3. answers'[mgr.req] = answers[mgr.req] + 1 /\ \A s \in Requests : s # mgr.req => answers'[s] = answers[s]
    BY <2>1, <2>2, Zenon DEF IInv, TypeOK
  <2>4. TypeOK'
    <3>1. /\ resumable' \subseteq Requests /\ issued' \subseteq Requests
          /\ queue' \subseteq Requests /\ lock' \in Requests \cup {None, First}
      BY <1>1, <2>1, <2>2, <2>3, RequestFacts, Zenon DEF IInv, TypeOK, None, First
    <3>2. /\ wakeIndex' \in Nat /\ notifyId' \in Nat
          /\ nextId' \in Nat /\ entryIndex' \in [Requests -> Nat \cup {NoIndex}]
      BY <1>1, <2>1, <2>2, <2>3, RequestFacts DEF IInv, TypeOK, None, NoIndex
    <3>3. mgr' \in [step : {"idle", "remove", "put"}, req : Requests \cup {None}]
      BY <1>1, <2>1, <2>2, <2>3, RequestFacts, Zenon DEF IInv, TypeOK, At, Idle, ThreadInv
    <3>4. /\ canceled' \subseteq Requests /\ external' \in [Requests -> {"empty", "sent", "taken"}]
          /\ answers' \in [Requests -> Nat]
      BY <2>1, <2>2 DEF IInv, TypeOK
    <3>. QED
      BY <2>1, <3>1, <3>2, <3>3, <3>4, Zenon DEF IInv, TypeOK
  <2>5. ThreadInv'
    BY <1>1, <2>1, <2>2, <2>3, RequestFacts, Zenon DEF IInv, TypeOK, ThreadInv, At, Idle
  <2>6. PlaceInv'
    BY <1>1, <2>1, <2>2, <2>3, RequestFacts DEF IInv, TypeOK, ThreadInv, PlaceInv, InCmd,
       InCallback, Carrying, At, Idle
  <2>7. WaitInv'
    BY <1>1, <2>1, <2>2, <2>3, RequestFacts, TaskLemma DEF IInv, TypeOK, ThreadInv, PlaceInv,
       WaitInv, Waits, HasWaiter, InCmd, InCallback, Carrying, At, Idle
  <2>. QED
    BY <2>4, <2>5, <2>6, <2>7, Zenon DEF IInv
<1>2. CASE mgr.req \notin queue
  <2>1. /\ mgr.step = "remove"
        /\ mgr' = At("put", mgr.req)
        /\ UNCHANGED <<resumable, lock, queue, wakeIndex, notifyId, nextId, entryIndex, cmd,
                         callbacks, timers, zero, dropped, awakened, tasks, pool, waiters,
                         canceled, external, issued, answers>>
    BY <1>2, Zenon DEF RemoveByToken, delays, Leave, Answer
  <2>2. TypeOK'
    <3>1. mgr' \in [step : {"idle", "remove", "put"}, req : Requests \cup {None}]
      BY <1>2, <2>1, RequestFacts, Zenon DEF IInv, TypeOK, At, Idle, ThreadInv
    <3>. QED
      BY <2>1, <3>1, Zenon DEF IInv, TypeOK
  <2>3. ThreadInv'
    BY <1>2, <2>1, RequestFacts, Zenon DEF IInv, TypeOK, ThreadInv, At, Idle
  <2>4. PlaceInv'
    BY <1>2, <2>1, RequestFacts DEF IInv, TypeOK, ThreadInv, PlaceInv, InCmd, InCallback,
       Carrying, At, Idle
  <2>5. WaitInv'
    BY <1>2, <2>1, RequestFacts, TaskLemma DEF IInv, TypeOK, ThreadInv, PlaceInv, WaitInv, Waits,
       HasWaiter, InCmd, InCallback, Carrying, At, Idle
  <2>. QED
    BY <2>2, <2>3, <2>4, <2>5, Zenon DEF IInv
<1>. QED
  BY <1>1, <1>2, Zenon

\* The error is sent for a request that is not in the queue.
LEMMA PutExternalErrorStep ==
    ASSUME IInv, PutExternalError
    PROVE  IInv'
<1>1. /\ mgr.step = "put"
      /\ external' = [external EXCEPT ![mgr.req] = "sent"]
      /\ mgr' = Idle
      /\ UNCHANGED <<resumable, lock, queue, wakeIndex, notifyId, nextId, entryIndex, cmd,
                       callbacks, timers, zero, dropped, awakened, tasks, pool, waiters, canceled,
                       issued, answers>>
  BY Zenon DEF PutExternalError, delays, keyState
<1>2. TypeOK'
  <2>1. mgr' \in [step : {"idle", "remove", "put"}, req : Requests \cup {None}]
    BY <1>1, RequestFacts, Zenon DEF IInv, TypeOK, At, Idle, ThreadInv
  <2>2. /\ canceled' \subseteq Requests /\ external' \in [Requests -> {"empty", "sent", "taken"}]
        /\ answers' \in [Requests -> Nat]
    BY <1>1, RequestFacts, Zenon DEF IInv, TypeOK, ThreadInv
  <2>. QED
    BY <1>1, <2>1, <2>2, Zenon DEF IInv, TypeOK
<1>3. ThreadInv'
  BY <1>1, RequestFacts, Zenon DEF IInv, TypeOK, ThreadInv, At, Idle
<1>4. PlaceInv'
  BY <1>1, RequestFacts DEF IInv, TypeOK, ThreadInv, PlaceInv, InCmd, InCallback, Carrying, At,
     Idle
<1>5. WaitInv'
  BY <1>1, RequestFacts, TaskLemma DEF IInv, TypeOK, ThreadInv, PlaceInv, WaitInv, Waits,
     HasWaiter, InCmd, InCallback, Carrying, At, Idle
<1>. QED
  BY <1>2, <1>3, <1>4, <1>5, Zenon DEF IInv

\* The invariant holds before anything happens.
LEMMA InitInv == Init => IInv
<1>. SUFFICES ASSUME Init PROVE IInv
  BY Zenon
<1>1. \A x : ~Has(tasks, x)
  BY DEF Init, Has
<1>2. TypeOK /\ ThreadInv
  BY RequestsAssumption DEF Init, TypeOK, ThreadInv, Commands, Idle, None, First, NoIndex
<1>3. PlaceInv
  BY DEF Init, PlaceInv, InCmd, InCallback, Carrying, Idle
<1>4. WaitInv
  BY <1>1, Zenon DEF Init, WaitInv, Waits, InCallback, Idle
<1>. QED
  BY <1>2, <1>3, <1>4, Zenon DEF IInv

\* Nothing in it changes when nothing changes.
LEMMA StutterStep == ASSUME IInv, UNCHANGED vars PROVE IInv'
<1>. USE DEF vars, delays, keyState, manager, context
<1>1. TypeOK' /\ ThreadInv'
  BY Zenon DEF IInv, TypeOK, ThreadInv
<1>2. PlaceInv'
  BY Zenon DEF IInv, PlaceInv, InCmd, InCallback
<1>3. WaitInv'
  BY Zenon DEF IInv, WaitInv, Waits, HasWaiter, InCallback
<1>. QED
  BY <1>1, <1>2, <1>3, Zenon DEF IInv

\* IInv is kept by every step of the commands, the spawned tasks and the waiter manager.
LEMMA NextStep == IInv /\ [Next]_vars => IInv'
<1>. SUFFICES ASSUME IInv, [Next]_vars PROVE IInv'
  BY Zenon
<1>1. ASSUME NEW r \in Requests, Acquire(r) \/ ScheduleAwakened(r) \/ CancelWaiter(r) PROVE IInv'
  BY <1>1, AcquireStep, ScheduleAwakenedStep, CancelWaiterStep, Zenon
<1>2. CASE ReleaseLock \/ CommandStep
  BY <1>2, ReleaseLockStep, PushLockWaitStep, ReceiveExternalErrorStep, SendWaitForStep,
     WriteFinishedStep, ResumeStep, Zenon
  DEF CommandStep
<1>3. CASE ManagerStep
  BY <1>3, HandleTaskStep, RemoveByTokenStep, PutExternalErrorStep, Zenon DEF ManagerStep
<1>4. CASE TaskStep
  <2>1. callbacks \subseteq Requests \X Nat /\ timers \subseteq Nat
    BY Zenon DEF IInv, TypeOK
  <2>2. ASSUME NEW t \in callbacks, WakeUpLegacy(t[1], t[2]) PROVE IInv'
    <3>1. t[1] \in Requests /\ t[2] \in Nat
      BY <2>1, Zenon
    <3>. QED
      BY <2>2, <3>1, WakeUpLegacyStep, Zenon
  <2>3. ASSUME NEW id \in timers, DelayedNotifyAll(id) PROVE IInv'
    BY <2>1, <2>3, DelayedNotifyAllStep, Zenon
  <2>. QED
    BY <1>4, <2>2, <2>3, Zenon DEF TaskStep
<1>5. CASE UNCHANGED vars
  BY <1>5, StutterStep, Zenon
<1>. QED
  BY <1>1, <1>2, <1>3, <1>4, <1>5, Zenon DEF Next

\* The inductive invariant holds in every behaviour.
THEOREM Inductive == Spec => []IInv
BY InitInv, NextStep, PTL DEF Spec

\* However many requests wait for the key, and however its wake-ups, delayed wake-ups and
\* cancellations interleave, finish_request answers a client at most once.
THEOREM AnsweredAtMostOnce == Spec => []AnsweredOnce
<1>1. IInv => AnsweredOnce
  BY Zenon DEF IInv, PlaceInv, AnsweredOnce
<1>. QED
  BY <1>1, Inductive, PTL

\* A request in the queue is one the waiter manager knows or will know, or is removing: a
\* request whose timeout passed while it was out of the queue is never put back into it.
THEOREM QueuedCancellable == Spec => []QueuedIsCancellable
<1>1. IInv => QueuedIsCancellable
  BY Zenon DEF IInv, TypeOK, WaitInv, Waits, HasWaiter, QueuedIsCancellable
<1>. QED
  BY <1>1, Inductive, PTL
=============================================================================
