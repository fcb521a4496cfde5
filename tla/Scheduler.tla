------------------------------ MODULE Scheduler ------------------------------
(***************************************************************************)
(* TxnScheduler (src/storage/txn/scheduler.rs) on top of the latches       *)
(* (src/storage/txn/latch.rs).  A command takes the latches of the hashes  *)
(* of its keys one by one in ascending order, each under the mutex of one  *)
(* latch slot only, runs against a snapshot, writes, and gives the latches *)
(* back one by one, collecting the commands to wake up.  A latch slot is   *)
(* kept here as one FIFO per hash: module LatchSlot shows that the slot's  *)
(* deque with holes implements that.                                       *)
(***************************************************************************)
EXTENDS Integers, Sequences, FiniteSets

CONSTANTS
    Cmds,      \* ids of commands submitted by clients through run_cmd
    Resumed,   \* ids gen_id gives to AcquirePessimisticLockResumed commands
    Hashes,    \* the hash values of the keys
    Required,  \* Lock::required_hashes of a command, sorted by <
    Impatient  \* the commands whose deadline may pass while they are in the scheduler

AllCmds == Cmds \cup Resumed

ASSUME HashesAssumption == Hashes \subseteq Nat
ASSUME CmdsAssumption == Cmds \cap Resumed = {}
\* TaskContext::new panics for a write command without a latch.
ASSUME RequiredAssumption ==
    \A c \in AllCmds :
        Required[c] \in SUBSET Hashes /\ Required[c] # {} /\ IsFiniteSet(Required[c])

None == "none"
ASSUME NoneAssumption == None \notin AllCmds

VARIABLES
    queue,     \* queue[h]: Latch::waiting restricted to hash h
    pc,        \* where the command is (see Phases)
    owned,     \* required_hashes[..owned_count]
    taken,     \* the commands with TaskContext::owned: the right to take cb is gone
    cb,        \* the commands whose TaskContext::cb is Some
    replies,   \* how often the callback was executed
    expired,   \* the commands whose deadline has passed
    watch,     \* the task spawned by fail_fast_or_check_deadline
    next,      \* the command the latches are kept for in on_write_finished
    wake       \* wakeup_list of the release the command is performing

vars == <<queue, pc, owned, taken, cb, replies, expired, watch, next, wake>>

(***************************************************************************)
(* "acquire" and "wakeup" hold the mutex of the command's task slot;       *)
(* "prepared" is a resumed command that already stands in latch queues but *)
(* has no TaskContext yet; "errored" has a finish_with_err task spawned.   *)
(***************************************************************************)
Phases == {"idle", "acquire", "waiting", "wakeup", "ready", "process", "write",
           "errored", "prepared", "release", "done"}

\* Phases in which the command has a TaskContext in its task slot.
InSlot == {"acquire", "waiting", "wakeup", "ready", "process", "write", "errored"}

Least(S) == CHOOSE h \in S : \A g \in S : h <= g

\* Mutant: Lock::new does not sort the hashes of one of the commands.
NextHashUnsorted(c) ==
    LET todo == Required[c] \ owned[c] IN
    IF c \in Impatient THEN CHOOSE h \in todo : \A g \in todo : g <= h ELSE Least(todo)

\* required_hashes[owned_count], the next latch the command asks for.
NextHash(c) == Least(Required[c] \ owned[c])

Init ==
    /\ queue = [h \in Hashes |-> << >>]
    /\ pc = [c \in AllCmds |-> "idle"]
    /\ owned = [c \in AllCmds |-> {}]
    /\ taken = {}
    /\ cb = {}
    /\ replies = [c \in AllCmds |-> 0]
    /\ expired = {}
    /\ watch = [c \in AllCmds |-> "off"]
    /\ next = [c \in AllCmds |-> None]
    /\ wake = [c \in AllCmds |-> << >>]

-----------------------------------------------------------------------------
\* The callback is executed if it is still there.
Answered(c) == IF c \in cb THEN [replies EXCEPT ![c] = @ + 1] ELSE replies

\* run_cmd and schedule_command up to latches.acquire. An id of Resumed comes here when its
\* command is scheduled without latches kept for it (schedule_awakened_pessimistic_locks
\* without a prepared lock).
RunCmd(c) ==
    /\ pc[c] = "idle"
    /\ pc' = [pc EXCEPT ![c] = "acquire"]
    /\ cb' = cb \cup {c}
    /\ UNCHANGED <<queue, owned, taken, replies, expired, watch, next, wake>>

\* run_cmd answers SchedTooBusy: flow control, or no memory quota left.
RunCmdBusy(c) ==
    /\ pc[c] = "idle"
    /\ pc' = [pc EXCEPT ![c] = "done"]
    /\ replies' = [replies EXCEPT ![c] = @ + 1]
    /\ UNCHANGED <<queue, owned, taken, cb, expired, watch, next, wake>>

\* Mutant: Lock::acquired compares with one hash less.
AcquireOneShort(c) ==
    LET h == NextHash(c)
        free == queue[h] = << >>
        first == ~free /\ Head(queue[h]) = c
    IN
    /\ pc[c] \in {"acquire", "wakeup"}
    /\ queue' = IF first THEN queue ELSE [queue EXCEPT ![h] = Append(@, c)]
    /\ owned' = IF free \/ first THEN [owned EXCEPT ![c] = @ \cup {h}] ELSE owned
    /\ pc' = [pc EXCEPT ![c] =
                 IF ~(free \/ first) THEN "waiting"
                 ELSE IF Cardinality(Required[c] \ owned'[c]) <= 1 THEN "ready" ELSE @]
    /\ watch' = IF pc[c] = "acquire" /\ ~(free \/ first)
                THEN [watch EXCEPT ![c] = "precheck"] ELSE watch
    /\ UNCHANGED <<taken, cb, replies, expired, next, wake>>

\* One iteration of Latches::acquire, under the mutex of one slot.
Acquire(c) ==
    LET h == NextHash(c)
        free == queue[h] = << >>
        first == ~free /\ Head(queue[h]) = c
    IN
    /\ pc[c] \in {"acquire", "wakeup"}
    /\ queue' = IF first THEN queue ELSE [queue EXCEPT ![h] = Append(@, c)]
    /\ owned' = IF free \/ first THEN [owned EXCEPT ![c] = @ \cup {h}] ELSE owned
    /\ pc' = [pc EXCEPT ![c] = IF ~(free \/ first) THEN "waiting"
                               ELSE IF Required[c] = owned'[c] THEN "ready" ELSE @]
    /\ watch' = IF pc[c] = "acquire" /\ ~(free \/ first)
                THEN [watch EXCEPT ![c] = "precheck"] ELSE watch
    /\ UNCHANGED <<taken, cb, replies, expired, next, wake>>

\* try_own_and_take_cb, and the early error response.
TakeCbAndFail(c) ==
    IF pc[c] \in InSlot /\ c \notin taken
    THEN /\ taken' = taken \cup {c}
         /\ cb' = cb \ {c}
         /\ replies' = Answered(c)
    ELSE UNCHANGED <<taken, cb, replies>>

\* The fail-fast task: precheck_write_with_ctx fails, and the client is told.
PrecheckFail(c) ==
    /\ watch[c] = "precheck"
    /\ pc[c] \notin {"acquire", "wakeup"}
    /\ watch' = [watch EXCEPT ![c] = "off"]
    /\ TakeCbAndFail(c)
    /\ UNCHANGED <<queue, pc, owned, expired, next, wake>>

\* ... or it succeeds, and the task sleeps until the deadline.
PrecheckOk(c) ==
    /\ watch[c] = "precheck"
    /\ watch' = [watch EXCEPT ![c] = "timer"]
    /\ UNCHANGED <<queue, pc, owned, taken, cb, replies, expired, next, wake>>

DeadlineTimer(c) ==
    /\ watch[c] = "timer"
    /\ c \in expired
    /\ pc[c] \notin {"acquire", "wakeup"}
    /\ watch' = [watch EXCEPT ![c] = "off"]
    /\ TakeCbAndFail(c)
    /\ UNCHANGED <<queue, pc, owned, expired, next, wake>>

\* Time passes the command's deadline.
Expire(c) ==
    /\ c \notin expired
    /\ c \in Impatient
    /\ pc[c] \in InSlot
    /\ expired' = expired \cup {c}
    /\ UNCHANGED <<queue, pc, owned, taken, cb, replies, watch, next, wake>>

-----------------------------------------------------------------------------
\* finish_with_err: dequeue the context, answer, and start to release.
FinishWithErr(c) ==
    /\ pc' = [pc EXCEPT ![c] = "release"]
    /\ replies' = Answered(c)
    /\ cb' = cb \ {c}
    /\ UNCHANGED <<queue, owned, expired, watch, next, wake>>

\* execute: the deadline has passed, or there is no snapshot, or the fail-fast
\* task has already taken the callback.
ExecuteFail(c) ==
    /\ pc[c] = "ready"
    /\ FinishWithErr(c)
    /\ UNCHANGED taken

\* Mutant: execute does not ask whether the fail-fast task was first.
ExecuteAnyway(c) ==
    /\ pc[c] = "ready"
    /\ taken' = taken \cup {c}
    /\ pc' = [pc EXCEPT ![c] = "process"]
    /\ UNCHANGED <<queue, owned, cb, replies, expired, watch, next, wake>>

\* execute: with the snapshot at hand, try_own.
ExecuteOwn(c) ==
    /\ pc[c] = "ready"
    /\ c \notin taken
    /\ taken' = taken \cup {c}
    /\ pc' = [pc EXCEPT ![c] = "process"]
    /\ UNCHANGED <<queue, owned, cb, replies, expired, watch, next, wake>>

\* process_write: deadline or the command's own error.
ProcessFail(c) ==
    /\ pc[c] = "process"
    /\ FinishWithErr(c)
    /\ UNCHANGED taken

\* process_write: the result goes to the engine.
ProcessWrite(c) ==
    /\ pc[c] = "process"
    /\ pc' = [pc EXCEPT ![c] = "write"]
    /\ UNCHANGED <<queue, owned, taken, cb, replies, expired, watch, next, wake>>

\* Mutant: the early response leaves the callback in the context.
EarlyResponseKeepsCb(c) ==
    /\ pc[c] = "write"
    /\ c \in cb
    /\ replies' = [replies EXCEPT ![c] = @ + 1]
    /\ UNCHANGED <<queue, pc, owned, taken, cb, expired, watch, next, wake>>

\* handle_async_write: Proposed or Committed event of a command that answers early.
EarlyResponse(c) ==
    /\ pc[c] = "write"
    /\ c \in cb
    /\ cb' = cb \ {c}
    /\ replies' = [replies EXCEPT ![c] = @ + 1]
    /\ UNCHANGED <<queue, pc, owned, taken, expired, watch, next, wake>>

\* Mutant: the resumed command keeps the id of the finished one (no gen_id).
WriteFinishedSameId(c, n) ==
    /\ pc[c] \in {"process", "write"}
    /\ n \in Resumed => pc[n] = "idle" /\ Required[n] \subseteq Required[c]
    /\ pc' = [pc EXCEPT ![c] = "release"]
    /\ next' = [next EXCEPT ![c] = IF n = None THEN None ELSE c]
    /\ replies' = Answered(c)
    /\ cb' = cb \ {c}
    /\ UNCHANGED <<queue, owned, taken, expired, watch, wake>>

\* on_write_finished: answer, choose the command the latches are kept for (n is
\* None when no resumable lock request was woken up), start to release.  With
\* nothing to write it follows process_write directly.
WriteFinished(c, n) ==
    /\ pc[c] \in {"process", "write"}
    /\ n \in Resumed => pc[n] = "idle" /\ Required[n] \subseteq Required[c]
    /\ pc' = IF n = None THEN [pc EXCEPT ![c] = "release"]
             ELSE [pc EXCEPT ![c] = "release", ![n] = "prepared"]
    /\ next' = [next EXCEPT ![c] = n]
    /\ replies' = Answered(c)
    /\ cb' = cb \ {c}
    /\ UNCHANGED <<queue, owned, taken, expired, watch, wake>>

\* The task spawned by try_to_wake_up for an expired command.
ErroredFinish(c) ==
    /\ pc[c] = "errored"
    /\ FinishWithErr(c)
    /\ UNCHANGED taken

-----------------------------------------------------------------------------
\* Mutant: push_preemptive puts the next command at the back of the queue.
ReleaseKeptLast(c) ==
    LET h == Least(owned[c])
        rest == Tail(queue[h])
        kept == next[c] # None /\ h \in Required[next[c]]
    IN
    /\ pc[c] = "release"
    /\ owned[c] # {}
    /\ queue' = [queue EXCEPT ![h] = IF kept THEN rest \o <<next[c]>> ELSE rest]
    /\ owned' = IF kept THEN [owned EXCEPT ![c] = @ \ {h}, ![next[c]] = @ \cup {h}]
                ELSE [owned EXCEPT ![c] = @ \ {h}]
    /\ wake' = IF ~kept /\ rest # << >>
               THEN [wake EXCEPT ![c] = Append(@, Head(rest))] ELSE wake
    /\ UNCHANGED <<pc, taken, cb, replies, expired, watch, next>>

\* Mutant: the command behind a kept latch is put on the wakeup list as well.
ReleaseWakesKept(c) ==
    LET h == Least(owned[c])
        rest == Tail(queue[h])
        kept == next[c] # None /\ h \in Required[next[c]]
    IN
    /\ pc[c] = "release"
    /\ owned[c] # {}
    /\ queue' = [queue EXCEPT ![h] = IF kept THEN <<next[c]>> \o rest ELSE rest]
    /\ owned' = IF kept THEN [owned EXCEPT ![c] = @ \ {h}, ![next[c]] = @ \cup {h}]
                ELSE [owned EXCEPT ![c] = @ \ {h}]
    /\ wake' = IF rest # << >> THEN [wake EXCEPT ![c] = Append(@, Head(rest))] ELSE wake
    /\ UNCHANGED <<pc, taken, cb, replies, expired, watch, next>>

\* Mutant: nobody is put on the wakeup list.
ReleaseSilently(c) ==
    LET h == Least(owned[c]) IN
    /\ pc[c] = "release"
    /\ owned[c] # {}
    /\ queue' = [queue EXCEPT ![h] = Tail(@)]
    /\ owned' = [owned EXCEPT ![c] = @ \ {h}]
    /\ UNCHANGED <<pc, taken, cb, replies, expired, watch, next, wake>>

\* One iteration of Latches::release, under the mutex of one slot.  A kept
\* latch goes to the front of the queue for the next command, any other latch
\* puts the command that is now first on the wakeup list.
Release(c) ==
    LET h == Least(owned[c])
        rest == Tail(queue[h])
        kept == next[c] # None /\ h \in Required[next[c]]
    IN
    /\ pc[c] = "release"
    /\ owned[c] # {}
    /\ queue' = [queue EXCEPT ![h] = IF kept THEN <<next[c]>> \o rest ELSE rest]
    /\ owned' = IF kept THEN [owned EXCEPT ![c] = @ \ {h}, ![next[c]] = @ \cup {h}]
                ELSE [owned EXCEPT ![c] = @ \ {h}]
    /\ wake' = IF ~kept /\ rest # << >>
               THEN [wake EXCEPT ![c] = Append(@, Head(rest))] ELSE wake
    /\ UNCHANGED <<pc, taken, cb, replies, expired, watch, next>>

\* Mutant: an expired command does not count the latch it has just got.
WakeUpUncounted(c) ==
    LET w == Head(wake[c]) IN
    /\ pc[c] = "release"
    /\ owned[c] = {}
    /\ wake[c] # << >>
    /\ wake' = [wake EXCEPT ![c] = Tail(@)]
    /\ pc' = [pc EXCEPT ![w] = IF w \in expired THEN "errored" ELSE "wakeup"]
    /\ UNCHANGED <<queue, owned, taken, cb, replies, expired, watch, next>>

\* One iteration of release_latches: try_to_wake_up.  An expired command counts
\* the latch it has just got before it is finished with the deadline error.
WakeUp(c) ==
    LET w == Head(wake[c]) IN
    /\ pc[c] = "release"
    /\ owned[c] = {}
    /\ wake[c] # << >>
    /\ wake' = [wake EXCEPT ![c] = Tail(@)]
    /\ IF w \in expired
       THEN /\ owned' = [owned EXCEPT ![w] = @ \cup {NextHash(w)}]
            /\ pc' = [pc EXCEPT ![w] = "errored"]
       ELSE /\ owned' = owned
            /\ pc' = [pc EXCEPT ![w] = "wakeup"]
    /\ UNCHANGED <<queue, taken, cb, replies, expired, watch, next>>

\* The end of release_latches, and of on_write_finished: the resumed command
\* gets its context, with all its latches assumed acquired, and is executed.
ReleaseDone(c) ==
    /\ pc[c] = "release"
    /\ owned[c] = {}
    /\ wake[c] = << >>
    /\ IF next[c] = None
       THEN /\ pc' = [pc EXCEPT ![c] = "done"]
            /\ cb' = cb
       ELSE /\ pc' = [pc EXCEPT ![c] = "done", ![next[c]] = "ready"]
            /\ cb' = cb \cup {next[c]}
    /\ UNCHANGED <<queue, owned, taken, replies, expired, watch, next, wake>>

-----------------------------------------------------------------------------
Step(c) ==
    \/ Acquire(c) \/ ExecuteFail(c) \/ ExecuteOwn(c) \/ ProcessFail(c) \/ ProcessWrite(c)
    \/ \E n \in Resumed \cup {None} : WriteFinished(c, n)
    \/ ErroredFinish(c) \/ Release(c) \/ WakeUp(c) \/ ReleaseDone(c)

Watcher(c) == PrecheckFail(c) \/ PrecheckOk(c) \/ DeadlineTimer(c)

Next ==
    \/ \E c \in Cmds : RunCmdBusy(c)
    \/ \E c \in AllCmds :
          RunCmd(c) \/ Step(c) \/ EarlyResponse(c) \/ Watcher(c) \/ Expire(c)

Spec == Init /\ [][Next]_vars

\* The pool's threads run every spawned task and the engine answers every
\* write: nothing is assumed of clients, deadlines or the fail-fast task.
FairSpec == Spec /\ \A c \in AllCmds : WF_vars(Step(c))

-----------------------------------------------------------------------------
TypeOK ==
    /\ queue \in [Hashes -> Seq(AllCmds)]
    /\ pc \in [AllCmds -> Phases]
    /\ owned \in [AllCmds -> SUBSET Hashes]
    /\ taken \subseteq AllCmds
    /\ cb \subseteq AllCmds
    /\ replies \in [AllCmds -> Nat]
    /\ expired \subseteq AllCmds
    /\ watch \in [AllCmds -> {"off", "precheck", "timer"}]
    /\ next \in [AllCmds -> Resumed \cup {None}]
    /\ wake \in [AllCmds -> Seq(AllCmds)]

\* Two commands that run between taking their snapshot and the end of their
\* write have no key hash in common: the reads of a command are never made
\* stale by another command's write (latches serialise, latch.rs).
MutualExclusion ==
    \A c, d \in AllCmds :
        /\ c # d
        /\ pc[c] \in {"ready", "process", "write"}
        /\ pc[d] \in {"ready", "process", "write"}
        => Required[c] \cap Required[d] = {}

\* The position of command c in the queue of hash h.
Ahead(c, d, h) ==
    \E i, j \in 1 .. Len(queue[h]) : i < j /\ queue[h][i] = c /\ queue[h][j] = d

\* "If command A is ahead of command B in one latch, it must be ahead of
\* command B in all the overlapping latches" (latch.rs, doc of Latch).
LatchOrder ==
    \A c, d \in AllCmds : \A g, h \in Hashes : ~(Ahead(c, d, g) /\ Ahead(d, c, h))

\* The assertions of Latches::release: the command that releases a latch is the
\* first one in its queue, also after the owned_count += 1 of an expired command.
OwnerFirst ==
    \A c \in AllCmds : \A h \in owned[c] : queue[h] # << >> /\ Head(queue[h]) = c

\* acquire_lock_on_wakeup unwraps the context and the task of the command it
\* wakes: every command on a wakeup list is parked, stands first in the queue
\* of the latch it waits for, and is on the list of no other release.
Parked(w) ==
    /\ pc[w] = "waiting"
    /\ queue[NextHash(w)] # << >>
    /\ Head(queue[NextHash(w)]) = w

WakeUpParked ==
    \A c \in AllCmds : \A i \in 1 .. Len(wake[c]) :
        /\ Parked(wake[c][i])
        /\ \A d \in AllCmds : \A j \in 1 .. Len(wake[d]) :
               wake[d][j] = wake[c][i] => d = c /\ j = i

\* A parked command waits behind an owner of the latch that still has to release
\* it, or is on a wakeup list: no wake-up is lost.
NoLostWakeUp ==
    \A c \in AllCmds : pc[c] = "waiting" =>
        \/ \E d \in AllCmds : NextHash(c) \in owned[d]
        \/ \E d, w \in AllCmds : \E i \in 1 .. Len(wake[d]) :
               wake[d][i] = w /\ NextHash(w) = NextHash(c)
        \/ \E w \in AllCmds : pc[w] = "wakeup" /\ NextHash(w) = NextHash(c)

\* The client hears from its command at most once, although the executor, the
\* fail-fast task, the deadline timer and the early responses all may answer.
ReplyAtMostOnce == \A c \in AllCmds : replies[c] + (IF c \in cb THEN 1 ELSE 0) <= 1

\* A command that passed try_own still owes its client the answer: a command
\* whose client was told that it failed (by the fail-fast task or the deadline
\* timer) is never executed, nor is its write.
ExecutedUnanswered == \A c \in AllCmds : pc[c] = "process" => c \in cb /\ replies[c] = 0

\* Every accepted command ends, and its callback has been executed: parked
\* commands are woken up and no set of commands waits for each other.
EveryCommandAnswered ==
    \A c \in AllCmds : pc[c] \notin {"idle", "prepared"} ~> pc[c] = "done" /\ replies[c] = 1

-----------------------------------------------------------------------------
(* The strengthening that makes OwnerFirst inductive.                        *)

\* A command only stands in the queues of the latches it owns, and of the one
\* it waits for or is being woken up for.
EntryOf(c, h) ==
    \/ h \in owned[c]
    \/ pc[c] \in {"waiting", "wakeup"} /\ h = NextHash(c)

QueueEntries ==
    \A c \in AllCmds, h \in Hashes : \A i \in 1 .. Len(queue[h]) : queue[h][i] = c =>
        /\ EntryOf(c, h)
        /\ i > 1 => pc[c] = "waiting" /\ h \notin owned[c]

\* A command stands in a queue once.
QueueDistinct ==
    \A h \in Hashes : \A i, j \in 1 .. Len(queue[h]) :
        queue[h][i] = queue[h][j] => i = j

\* What a command owns at each stage; latches are owned in ascending order.
OwnedByPhase ==
    \A c \in AllCmds :
        /\ owned[c] \subseteq Required[c]
        /\ pc[c] \in {"idle", "done"} => owned[c] = {}
        /\ pc[c] \in {"ready", "process", "write"} => owned[c] = Required[c]
        /\ pc[c] \in {"acquire", "waiting", "wakeup"} =>
               /\ Required[c] \ owned[c] # {}
               /\ \A g \in owned[c] : \A h \in Required[c] \ owned[c] : g < h

\* The command the latches are kept for gets every latch it needs from the
\* command that releases them, and from no other.
KeptLatches ==
    \A c \in AllCmds : pc[c] = "release" /\ next[c] # None =>
        /\ pc[next[c]] = "prepared"
        /\ Required[next[c]] \subseteq owned[c] \cup owned[next[c]]
        /\ \A d \in AllCmds : pc[d] = "release" /\ next[d] = next[c] => d = c

\* Only a command that is releasing its latches has a wakeup list or a next command.
ReleaseState ==
    \A c \in AllCmds :
        /\ wake[c] # << >> => pc[c] = "release"
        /\ next[c] # None => pc[c] \in {"release", "done"}

LatchInv ==
    /\ TypeOK
    /\ OwnerFirst
    /\ QueueEntries
    /\ QueueDistinct
    /\ OwnedByPhase
    /\ KeptLatches
    /\ ReleaseState
    /\ WakeUpParked

=============================================================================
