--------------------------- MODULE SchedulerWakeUps ---------------------------
(***************************************************************************)
(* Further proofs about module Scheduler, from the invariant of the        *)
(* latches in SchedulerProofs: no wake-up is lost, a client is answered    *)
(* at most once, and nobody executes a command whose client was told that  *)
(* it failed.                                                              *)
(***************************************************************************)
EXTENDS SchedulerProofs

-----------------------------------------------------------------------------
\* A command that has not started has neither a callback nor a reply.
ReplyInv ==
    /\ ReplyAtMostOnce
    /\ \A c \in AllCmds : pc[c] \in {"idle", "prepared"} => replies[c] = 0 /\ c \notin cb

LEMMA ReplyStep == LatchInv /\ ReplyInv /\ Next => ReplyInv'
  <1>. SUFFICES ASSUME LatchInv, ReplyInv, Next PROVE ReplyInv'
    OBVIOUS
  <1>0. pc \in [AllCmds -> Phases] /\ replies \in [AllCmds -> Nat] /\ Cmds \subseteq AllCmds
    BY DEF LatchInv, TypeOK, AllCmds
  <1>1. ASSUME NEW c \in AllCmds, replies' = Answered(c), cb' = cb \ {c},
               \A x \in AllCmds : pc'[x] \in {"idle", "prepared"} => pc[x] \in {"idle", "prepared"}
        PROVE  ReplyInv'
    <2>1. CASE c \in cb
      BY <1>0, <1>1, <2>1 DEF ReplyInv, ReplyAtMostOnce, Answered
    <2>2. CASE c \notin cb
      BY <1>0, <1>1, <2>2 DEF ReplyInv, ReplyAtMostOnce, Answered
    <2>. QED
      BY <2>1, <2>2
  <1>2. ASSUME UNCHANGED <<replies, cb>>,
               \A x \in AllCmds : pc'[x] \in {"idle", "prepared"} => pc[x] \in {"idle", "prepared"}
        PROVE  ReplyInv'
    BY <1>2 DEF ReplyInv, ReplyAtMostOnce
  <1>3. ASSUME NEW c \in Cmds, RunCmdBusy(c) PROVE ReplyInv'
    BY <1>0, <1>3 DEF RunCmdBusy, ReplyInv, ReplyAtMostOnce
  <1>4. ASSUME NEW c \in AllCmds, RunCmd(c) PROVE ReplyInv'
    BY <1>0, <1>4 DEF RunCmd, ReplyInv, ReplyAtMostOnce
  <1>5. ASSUME NEW c \in AllCmds, Acquire(c) PROVE ReplyInv'
    <2>1. \A x \in AllCmds : pc'[x] \in {"idle", "prepared"} => pc[x] \in {"idle", "prepared"}
      BY <1>0, <1>5 DEF Acquire
    <2>. QED
      BY <1>2, <1>5, <2>1, SMTT(30) DEF Acquire
  <1>6. ASSUME NEW c \in AllCmds, FinishWithErr(c) PROVE ReplyInv'
    BY <1>0, <1>1, <1>6 DEF FinishWithErr
  <1>7. ASSUME NEW c \in AllCmds, ExecuteOwn(c) \/ ProcessWrite(c) PROVE ReplyInv'
    BY <1>0, <1>2, <1>7 DEF ExecuteOwn, ProcessWrite
  <1>8. ASSUME NEW c \in AllCmds, NEW n \in Resumed \cup {None}, WriteFinished(c, n) PROVE ReplyInv'
    <2>1. CASE n = None
      BY <1>0, <1>1, <1>8, <2>1 DEF WriteFinished
    <2>2. CASE n \in Resumed /\ n # None
      <3>1. n \in AllCmds /\ pc[n] = "idle" /\ pc' = [pc EXCEPT ![c] = "release", ![n] = "prepared"]
        BY <1>8, <2>2 DEF WriteFinished, AllCmds
      <3>2. \A x \in AllCmds : pc'[x] \in {"idle", "prepared"} => pc[x] \in {"idle", "prepared"}
        BY <1>0, <3>1
      <3>. QED
        BY <1>1, <1>8, <3>2, Zenon DEF WriteFinished
    <2>. QED
      BY <2>1, <2>2
  <1>9. ASSUME NEW c \in AllCmds, Release(c) PROVE ReplyInv'
    BY <1>2, <1>9 DEF Release
  <1>10. ASSUME NEW c \in AllCmds, WakeUp(c) PROVE ReplyInv'
    <2>1. PICK w : pc' = [pc EXCEPT ![w] = "errored"] \/ pc' = [pc EXCEPT ![w] = "wakeup"]
      BY <1>10 DEF WakeUp
    <2>2. \A x \in AllCmds : pc'[x] \in {"idle", "prepared"} => pc[x] \in {"idle", "prepared"}
      BY <1>0, <2>1
    <2>. QED
      BY <1>2, <1>10, <2>2 DEF WakeUp
  <1>11. ASSUME NEW c \in AllCmds, ReleaseDone(c) PROVE ReplyInv'
    <2>1. CASE next[c] = None
      BY <1>0, <1>2, <1>11, <2>1 DEF ReleaseDone
    <2>2. CASE next[c] # None
      <3>1. PICK n \in AllCmds : n = next[c]
        BY <2>2, Types
      <3>2. pc[n] = "prepared"
        BY <1>11, <2>2, <3>1 DEF ReleaseDone, LatchInv, KeptLatches
      <3>3. pc' = [pc EXCEPT ![c] = "done", ![n] = "ready"] /\ cb' = cb \cup {n} /\ replies' = replies
        BY <1>11, <2>2, <3>1 DEF ReleaseDone
      <3>4. \A x \in AllCmds : pc'[x] \in {"idle", "prepared"} => pc[x] \in {"idle", "prepared"} /\ x # n
        BY <1>0, <3>3
      <3>. QED
        BY <1>0, <3>2, <3>3, <3>4 DEF ReplyInv, ReplyAtMostOnce
    <2>. QED
      BY <2>1, <2>2
  <1>12. ASSUME NEW c \in AllCmds, EarlyResponse(c) PROVE ReplyInv'
    BY <1>0, <1>1, <1>12, Zenon DEF EarlyResponse, Answered
  <1>13. ASSUME NEW c \in AllCmds, TakeCbAndFail(c), pc' = pc PROVE ReplyInv'
    BY <1>1, <1>2, <1>13 DEF TakeCbAndFail
  <1>14. ASSUME NEW c \in AllCmds, Watcher(c) \/ Expire(c) PROVE ReplyInv'
    BY <1>2, <1>13, <1>14 DEF Watcher, PrecheckFail, PrecheckOk, DeadlineTimer, Expire
  <1>. QED
    BY <1>3, <1>4, <1>5, <1>6, <1>7, <1>8, <1>9, <1>10, <1>11, <1>12, <1>14
       DEF Next, Step, ExecuteFail, ProcessFail, ErroredFinish

\* A client never hears twice from its command, whoever of the executor, the
\* early response, the fail-fast task and the deadline timer answers first.
THEOREM OneReply == Spec => []ReplyAtMostOnce
  <1>1. Init => ReplyInv
    BY DEF Init, ReplyInv, ReplyAtMostOnce
  <1>2. ReplyInv /\ UNCHANGED vars => ReplyInv'
    BY DEF vars, ReplyInv, ReplyAtMostOnce
  <1>3. ReplyInv => ReplyAtMostOnce
    BY DEF ReplyInv
  <1>. QED
    BY <1>1, <1>2, <1>3, LatchInvariant, ReplyStep, PTL DEF Spec


\* A command belongs to the fail-fast task, or the deadline timer, from the moment it is
\* taken; before that, and once it is executed, its client waits for the answer.
AnswerInv ==
    \A c \in AllCmds :
        /\ pc[c] \in {"idle", "prepared"} => c \notin taken
        /\ pc[c] \in {"acquire", "waiting", "wakeup", "ready"} /\ c \notin taken =>
              c \in cb /\ replies[c] = 0
        /\ pc[c] = "process" => c \in taken /\ c \in cb /\ replies[c] = 0

LEMMA AnswerStep == LatchInv /\ ReplyInv /\ AnswerInv /\ Next => AnswerInv'
  <1>. SUFFICES ASSUME LatchInv, ReplyInv, AnswerInv, Next PROVE AnswerInv'
    OBVIOUS
  <1>. DEFINE Early == {"acquire", "waiting", "wakeup", "ready"}
  <1>0. pc \in [AllCmds -> Phases] /\ replies \in [AllCmds -> Nat] /\ Cmds \subseteq AllCmds
    BY DEF LatchInv, TypeOK, AllCmds
  <1>1. ASSUME UNCHANGED <<taken, cb, replies>>,
               \A x \in AllCmds : pc'[x] \in {"idle", "prepared"} => pc[x] \in {"idle", "prepared"},
               \A x \in AllCmds : pc'[x] \in Early => pc[x] \in Early,
               \A x \in AllCmds : pc'[x] = "process" => pc[x] = "process"
        PROVE  AnswerInv'
    BY <1>1 DEF AnswerInv
  <1>2. ASSUME NEW c \in AllCmds, replies' = Answered(c), cb' = cb \ {c}, taken' = taken,
               pc'[c] \notin Early \cup {"idle", "prepared", "process"},
               \A x \in AllCmds : x # c /\ pc'[x] # pc[x] => pc'[x] = "prepared" /\ pc[x] = "idle"
        PROVE  AnswerInv'
    <2>1. \A x \in AllCmds : x # c => replies'[x] = replies[x] /\ (x \in cb' <=> x \in cb)
      BY <1>0, <1>2 DEF Answered
    <2>. QED
      BY <1>2, <2>1 DEF AnswerInv
  <1>3. ASSUME NEW c \in Cmds, RunCmdBusy(c) PROVE AnswerInv'
    BY <1>0, <1>3 DEF RunCmdBusy, AnswerInv
  <1>4. ASSUME NEW c \in AllCmds, RunCmd(c) PROVE AnswerInv'
    BY <1>0, <1>4 DEF RunCmd, AnswerInv, ReplyInv
  <1>5. ASSUME NEW c \in AllCmds, Acquire(c) PROVE AnswerInv'
    <2>1. /\ UNCHANGED <<taken, cb, replies>> /\ pc[c] \in Early
          /\ \E q \in Early : pc' = [pc EXCEPT ![c] = q]
      BY <1>5, Zenon DEF Acquire
    <2>. QED
      BY <1>0, <1>1, <2>1
  <1>6. ASSUME NEW c \in AllCmds, FinishWithErr(c), UNCHANGED taken PROVE AnswerInv'
    BY <1>0, <1>2, <1>6 DEF FinishWithErr
  <1>7. ASSUME NEW c \in AllCmds, ExecuteOwn(c) PROVE AnswerInv'
    BY <1>0, <1>7 DEF ExecuteOwn, AnswerInv
  <1>8. ASSUME NEW c \in AllCmds, ProcessWrite(c) PROVE AnswerInv'
    BY <1>0, <1>1, <1>8 DEF ProcessWrite
  <1>9. ASSUME NEW c \in AllCmds, NEW n \in Resumed \cup {None}, WriteFinished(c, n)
        PROVE  AnswerInv'
    <2>1. /\ replies' = Answered(c) /\ cb' = cb \ {c} /\ taken' = taken
          /\ pc[c] \in {"process", "write"}
      BY <1>9 DEF WriteFinished
    <2>2. CASE n = None
      BY <1>0, <1>2, <1>9, <2>1, <2>2 DEF WriteFinished
    <2>3. CASE n \in Resumed /\ n # None
      <3>1. n \in AllCmds /\ pc[n] = "idle" /\ pc' = [pc EXCEPT ![c] = "release", ![n] = "prepared"]
        BY <1>9, <2>3 DEF WriteFinished, AllCmds
      <3>2. /\ pc'[c] = "release"
            /\ \A x \in AllCmds : x # c /\ pc'[x] # pc[x] => pc'[x] = "prepared" /\ pc[x] = "idle"
        BY <1>0, <2>1, <3>1
      <3>. QED
        BY <1>2, <2>1, <3>2
    <2>. QED
      BY <2>2, <2>3
  <1>10. ASSUME NEW c \in AllCmds, Release(c) PROVE AnswerInv'
    BY <1>1, <1>10 DEF Release
  <1>11. ASSUME NEW c \in AllCmds, WakeUp(c) PROVE AnswerInv'
    <2>1. wake[c] # << >> /\ wake[c] \in Seq(AllCmds) /\ UNCHANGED <<taken, cb, replies>>
      BY <1>11 DEF WakeUp, LatchInv, TypeOK
    <2>2. PICK w \in AllCmds : w = Head(wake[c]) /\ w = wake[c][1] /\ 1 \in 1 .. Len(wake[c])
      BY <2>1, TailFacts, Types
    <2>3. pc[w] = "waiting"
      BY <2>2 DEF LatchInv, WakeUpParked, Parked
    <2>4. pc' = [pc EXCEPT ![w] = "errored"] \/ pc' = [pc EXCEPT ![w] = "wakeup"]
      BY <1>11, <2>2 DEF WakeUp
    <2>. QED
      BY <1>0, <1>1, <2>1, <2>3, <2>4
  <1>12. ASSUME NEW c \in AllCmds, ReleaseDone(c) PROVE AnswerInv'
    <2>1. CASE next[c] = None
      BY <1>0, <1>1, <1>12, <2>1 DEF ReleaseDone
    <2>2. CASE next[c] # None
      <3>1. PICK n \in AllCmds : n = next[c]
        BY <2>2, Types
      <3>2. pc[n] = "prepared"
        BY <1>12, <2>2, <3>1 DEF ReleaseDone, LatchInv, KeptLatches
      <3>3. /\ pc' = [pc EXCEPT ![c] = "done", ![n] = "ready"] /\ cb' = cb \cup {n}
            /\ UNCHANGED <<taken, replies>>
        BY <1>12, <2>2, <3>1 DEF ReleaseDone
      <3>4. replies[n] = 0
        BY <3>2 DEF ReplyInv
      <3>5. \A x \in AllCmds : \/ x = c /\ pc'[x] \in {"done", "ready"}
                               \/ x = n /\ pc'[x] = "ready"
                               \/ x # n /\ pc'[x] = pc[x]
        BY <1>0, <3>3
      <3>6. c # n
        BY <1>12, <3>2 DEF ReleaseDone
      <3>. QED
        BY <1>0, <3>2, <3>3, <3>4, <3>6 DEF AnswerInv
    <2>. QED
      BY <2>1, <2>2
  <1>13. ASSUME NEW c \in AllCmds, EarlyResponse(c) PROVE AnswerInv'
    BY <1>0, <1>2, <1>13, Zenon DEF EarlyResponse, Answered
  <1>14. ASSUME NEW c \in AllCmds, TakeCbAndFail(c), pc' = pc PROVE AnswerInv'
    <2>1. CASE pc[c] \in InSlot /\ c \notin taken
      <3>1. taken' = taken \cup {c} /\ cb' = cb \ {c} /\ replies' = Answered(c)
        BY <1>14, <2>1 DEF TakeCbAndFail
      <3>2. \A x \in AllCmds : x # c => replies'[x] = replies[x] /\ (x \in cb' <=> x \in cb)
        BY <1>0, <3>1 DEF Answered
      <3>3. pc[c] \notin {"idle", "prepared", "process"}
        BY <2>1 DEF AnswerInv, InSlot
      <3>. QED
        BY <1>14, <3>1, <3>2, <3>3 DEF AnswerInv
    <2>2. CASE ~(pc[c] \in InSlot /\ c \notin taken)
      BY <1>1, <1>14, <2>2 DEF TakeCbAndFail
    <2>. QED
      BY <2>1, <2>2
  <1>15. ASSUME NEW c \in AllCmds, Watcher(c) \/ Expire(c) PROVE AnswerInv'
    BY <1>1, <1>14, <1>15 DEF Watcher, PrecheckFail, PrecheckOk, DeadlineTimer, Expire
  <1>. QED
    BY <1>3, <1>4, <1>5, <1>6, <1>7, <1>8, <1>9, <1>10, <1>11, <1>12, <1>13, <1>15
       DEF Next, Step, ExecuteFail, ProcessFail, ErroredFinish

\* A command that passed try_own still owes its client the answer: what the fail-fast
\* task or the deadline timer reported as failed is never executed afterwards.
THEOREM FailedNotExecuted == Spec => []ExecutedUnanswered
  <1>1. Init => ReplyInv /\ AnswerInv
    BY DEF Init, ReplyInv, ReplyAtMostOnce, AnswerInv
  <1>2. ReplyInv /\ AnswerInv /\ UNCHANGED vars => ReplyInv' /\ AnswerInv'
    BY DEF vars, ReplyInv, ReplyAtMostOnce, AnswerInv
  <1>3. AnswerInv => ExecutedUnanswered
    BY DEF AnswerInv, ExecutedUnanswered
  <1>. QED
    BY <1>1, <1>2, <1>3, LatchInvariant, ReplyStep, AnswerStep, PTL DEF Spec

-----------------------------------------------------------------------------
Stands(c, h) == \E i \in 1 .. Len(queue[h]) : queue[h][i] = c
OnWakeList(w) == \E d \in AllCmds : \E i \in 1 .. Len(wake[d]) : wake[d][i] = w

\* A parked command stands in the queue of the latch it waits for, and the first one in a
\* queue owns the latch, is being woken up for it, or is on a wakeup list.
HeadInv ==
    /\ \A c \in AllCmds : pc[c] = "waiting" => Stands(c, NextHash(c))
    /\ \A h \in Hashes, d \in AllCmds :
          queue[h] # << >> /\ Head(queue[h]) = d =>
              \/ h \in owned[d]
              \/ NextHash(d) = h /\ (pc[d] = "wakeup" \/ OnWakeList(d))

\* A step that leaves queues, latches and wakeup lists alone and parks nobody keeps it.
LEMMA HeadStays ==
    ASSUME LatchInv, HeadInv, UNCHANGED <<queue, owned, wake>>,
           \A x \in AllCmds : pc[x] = "wakeup" => pc'[x] = "wakeup",
           \A x \in AllCmds : pc'[x] = "waiting" => pc[x] = "waiting"
    PROVE  HeadInv'
  <1>1. \A x : NextHash(x)' = NextHash(x) /\ (OnWakeList(x)' <=> OnWakeList(x))
    BY DEF NextHash, OnWakeList
  <1>2. \A x, h : Stands(x, h)' <=> Stands(x, h)
    BY DEF Stands
  <1>. QED
    BY <1>1, <1>2 DEF HeadInv

\* A command that gets a latch owns the one it is first in the queue of.
LEMMA HeadAcquireGets ==
    ASSUME LatchInv, HeadInv, NEW c \in AllCmds, NEW h \in Hashes, h = NextHash(c),
           pc[c] \in {"acquire", "wakeup"},
           \/ queue[h] # << >> /\ Head(queue[h]) = c /\ queue' = queue
           \/ queue[h] = << >> /\ queue' = [queue EXCEPT ![h] = <<c>>],
           owned' = [owned EXCEPT ![c] = owned[c] \cup {h}],
           NEW q \in {"ready", pc[c]}, pc' = [pc EXCEPT ![c] = q], wake' = wake
    PROVE  HeadInv'
  <1>1. /\ owned'[c] = owned[c] \cup {h} /\ pc'[c] # "waiting"
        /\ \A x \in AllCmds : x # c => owned'[x] = owned[x] /\ pc'[x] = pc[x]
    BY DEF LatchInv, TypeOK
  <1>2. \A x \in AllCmds : x # c => NextHash(x)' = NextHash(x)
    BY <1>1 DEF NextHash
  <1>3. \A x : OnWakeList(x)' <=> OnWakeList(x)
    BY DEF OnWakeList
  <1>4. /\ queue'[h] # << >> /\ Head(queue'[h]) = c
        /\ \A g \in Hashes : g # h => queue'[g] = queue[g]
        /\ queue[h] # << >> => queue'[h] = queue[h]
    BY DEF LatchInv, TypeOK
  <1>5. \A x \in AllCmds, g \in Hashes : Stands(x, g) => Stands(x, g)'
    <2>. SUFFICES ASSUME NEW x \in AllCmds, NEW g \in Hashes, Stands(x, g) PROVE Stands(x, g)'
      OBVIOUS
    <2>1. queue[g] # << >>
      BY DEF Stands
    <2>2. queue'[g] = queue[g]
      BY <1>4, <2>1
    <2>. QED
      BY <2>2 DEF Stands
  <1>6. ASSUME NEW x \in AllCmds, pc'[x] = "waiting" PROVE Stands(x, NextHash(x))'
    <2>1. x # c /\ pc[x] = "waiting"
      BY <1>1, <1>6
    <2>2. Required[x] \ owned[x] # {}
      BY <2>1 DEF LatchInv, OwnedByPhase
    <2>. QED
      BY <1>2, <1>5, <2>1, <2>2, NextHashProps DEF HeadInv
  <1>7. ASSUME NEW g \in Hashes, NEW d \in AllCmds, queue'[g] # << >>, Head(queue'[g]) = d, g # h
        PROVE  \/ g \in owned'[d]
               \/ NextHash(d)' = g /\ (pc'[d] = "wakeup" \/ OnWakeList(d)')
    <2>1. queue'[g] = queue[g] /\ queue[g] # << >> /\ Head(queue[g]) = d
      BY <1>4, <1>7
    <2>2. CASE d = c
      BY <1>1, <1>7, <2>1, <2>2 DEF HeadInv
    <2>3. CASE d # c
      BY <1>1, <1>2, <1>3, <2>1, <2>3 DEF HeadInv
    <2>. QED
      BY <2>2, <2>3
  <1>. QED
    BY <1>1, <1>4, <1>6, <1>7 DEF HeadInv

\* A command that parks itself goes to the end of the queue of the latch.
LEMMA HeadAcquireWaits ==
    ASSUME LatchInv, HeadInv, NEW c \in AllCmds, NEW h \in Hashes, h = NextHash(c),
           queue[h] # << >>, Head(queue[h]) # c, pc[c] \in {"acquire", "wakeup"},
           queue' = [queue EXCEPT ![h] = Append(queue[h], c)],
           owned' = owned, pc' = [pc EXCEPT ![c] = "waiting"], wake' = wake
    PROVE  HeadInv'
  <1>1. \A x \in AllCmds : x # c => pc'[x] = pc[x]
    BY DEF LatchInv, TypeOK
  <1>2. \A x : NextHash(x)' = NextHash(x) /\ (OnWakeList(x)' <=> OnWakeList(x))
    BY DEF NextHash, OnWakeList
  <1>3. /\ \A g \in Hashes : g # h => queue'[g] = queue[g]
        /\ queue'[h] = Append(queue[h], c) /\ queue[h] \in Seq(AllCmds)
    BY DEF LatchInv, TypeOK
  <1>4. /\ queue'[h] # << >> /\ Head(queue'[h]) = Head(queue[h])
        /\ Len(queue'[h]) = Len(queue[h]) + 1 /\ queue'[h][Len(queue[h]) + 1] = c
        /\ \A i \in 1 .. Len(queue[h]) : queue'[h][i] = queue[h][i] /\ i \in 1 .. Len(queue'[h])
    BY <1>3
  <1>5. \A x \in AllCmds, g \in Hashes : Stands(x, g) => Stands(x, g)'
    BY <1>3, <1>4 DEF Stands
  <1>6. Stands(c, h)'
    BY <1>3, <1>4 DEF Stands
  <1>7. ASSUME NEW x \in AllCmds, pc'[x] = "waiting" PROVE Stands(x, NextHash(x))'
    <2>1. CASE x = c
      BY <1>2, <1>6, <2>1
    <2>2. CASE x # c
      <3>1. pc[x] = "waiting"
        BY <1>1, <1>7, <2>2
      <3>2. Required[x] \ owned[x] # {}
        BY <3>1 DEF LatchInv, OwnedByPhase
      <3>. QED
        BY <1>2, <1>5, <3>1, <3>2, NextHashProps DEF HeadInv
    <2>. QED
      BY <2>1, <2>2
  <1>8. ASSUME NEW g \in Hashes, NEW d \in AllCmds, queue'[g] # << >>, Head(queue'[g]) = d
        PROVE  \/ g \in owned'[d]
               \/ NextHash(d)' = g /\ (pc'[d] = "wakeup" \/ OnWakeList(d)')
    <2>1. queue[g] # << >> /\ Head(queue[g]) = d
      BY <1>3, <1>4, <1>8
    <2>2. CASE d = c
      BY <1>2, <1>3, <2>1, <2>2 DEF HeadInv
    <2>3. CASE d # c
      BY <1>1, <1>2, <2>1, <2>3 DEF HeadInv
    <2>. QED
      BY <2>2, <2>3
  <1>. QED
    BY <1>7, <1>8 DEF HeadInv

\* A latch kept for the next command is owned by it, at the head of the queue.
LEMMA HeadReleaseKept ==
    ASSUME LatchInv, HeadInv, NEW c \in AllCmds, NEW h \in Hashes, NEW n \in AllCmds,
           pc[c] = "release", h \in owned[c], next[c] = n, n # None,
           queue' = [queue EXCEPT ![h] = <<n>> \o Tail(queue[h])],
           owned' = [owned EXCEPT ![c] = owned[c] \ {h}, ![n] = owned[n] \cup {h}],
           wake' = wake, pc' = pc
    PROVE  HeadInv'
  <1>1. pc[n] = "prepared" /\ n # c
    BY DEF LatchInv, KeptLatches
  <1>2. /\ owned'[c] = owned[c] \ {h} /\ owned'[n] = owned[n] \cup {h}
        /\ \A x \in AllCmds : x # c /\ x # n => owned'[x] = owned[x]
    BY <1>1 DEF LatchInv, TypeOK
  <1>3. \A x \in AllCmds : x # c /\ x # n => NextHash(x)' = NextHash(x)
    BY <1>2, Zenon DEF NextHash
  <1>4. /\ queue[h] \in Seq(AllCmds) /\ queue[h] # << >> /\ Head(queue[h]) = c
        /\ queue'[h] = <<n>> \o Tail(queue[h])
        /\ \A g \in Hashes : g # h => queue'[g] = queue[g]
    BY DEF LatchInv, TypeOK, OwnerFirst
  <1>5. /\ Len(queue'[h]) = Len(queue[h]) /\ Head(queue'[h]) = n /\ queue[h][1] = c
        /\ \A i \in 1 .. Len(queue[h]) : i > 1 => queue'[h][i] = queue[h][i]
    <2>1. /\ Tail(queue[h]) \in Seq(AllCmds) /\ Len(Tail(queue[h])) = Len(queue[h]) - 1
          /\ \A i \in 1 .. Len(Tail(queue[h])) : Tail(queue[h])[i] = queue[h][i + 1]
          /\ Len(queue[h]) \in Nat /\ Len(queue[h]) > 0 /\ queue[h][1] = c
      BY <1>4, TailFacts
    <2>2. <<n>> \in Seq(AllCmds) /\ Len(<<n>>) = 1 /\ <<n>>[1] = n
      OBVIOUS
    <2>3. /\ Len(queue'[h]) = 1 + Len(Tail(queue[h])) /\ queue'[h] \in Seq(AllCmds)
          /\ \A i \in 1 .. 1 + Len(Tail(queue[h])) :
                 queue'[h][i] = IF i <= 1 THEN <<n>>[i] ELSE Tail(queue[h])[i - 1]
      BY <1>4, <2>1, <2>2, ConcatProperties
    <2>. QED
      BY <2>1, <2>2, <2>3
  <1>6. ASSUME NEW x \in AllCmds, pc[x] = "waiting" PROVE Stands(x, NextHash(x))'
    <2>1. x # c /\ x # n /\ NextHash(x) \in Hashes
      BY <1>1, <1>6, NextHashProps DEF LatchInv, OwnedByPhase
    <2>2. PICK i \in 1 .. Len(queue[NextHash(x)]) : queue[NextHash(x)][i] = x
      BY <1>6 DEF HeadInv, Stands
    <2>3. i \in 1 .. Len(queue'[NextHash(x)]) /\ queue'[NextHash(x)][i] = x
      BY <1>4, <1>5, <2>1, <2>2
    <2>. QED
      BY <1>3, <2>1, <2>3 DEF Stands
  <1>7. ASSUME NEW g \in Hashes, NEW d \in AllCmds, queue'[g] # << >>, Head(queue'[g]) = d
        PROVE  \/ g \in owned'[d]
               \/ NextHash(d)' = g /\ (pc'[d] = "wakeup" \/ OnWakeList(d)')
    <2>1. CASE g = h
      BY <1>2, <1>5, <1>7, <2>1, Zenon
    <2>2. CASE g # h
      <3>1. queue[g] # << >> /\ Head(queue[g]) = d
        BY <1>4, <1>7, <2>2
      <3>2. CASE d \in {c, n}
        <4>1. pc[d] \in {"release", "prepared"}
          BY <1>1, <3>2
        <4>2. ~OnWakeList(d)
          BY <4>1 DEF LatchInv, WakeUpParked, Parked, OnWakeList
        <4>. QED
          BY <1>2, <2>2, <3>1, <3>2, <4>1, <4>2, Zenon DEF HeadInv
      <3>3. CASE d \notin {c, n}
        <4>1. OnWakeList(d)' <=> OnWakeList(d)
          BY DEF OnWakeList
        <4>. QED
          BY <1>2, <1>3, <3>1, <3>3, <4>1, Zenon DEF HeadInv
      <3>. QED
        BY <3>2, <3>3
    <2>. QED
      BY <2>1, <2>2
  <1>. QED
    BY <1>6, <1>7, Zenon DEF HeadInv

\* Any other latch that is released puts the command that is first now on a wakeup list.
LEMMA HeadReleaseFree ==
    ASSUME LatchInv, HeadInv, NEW c \in AllCmds, NEW h \in Hashes,
           pc[c] = "release", h \in owned[c],
           queue' = [queue EXCEPT ![h] = Tail(queue[h])],
           owned' = [owned EXCEPT ![c] = owned[c] \ {h}],
           wake' = IF Tail(queue[h]) # << >>
                   THEN [wake EXCEPT ![c] = Append(wake[c], Head(Tail(queue[h])))] ELSE wake,
           pc' = pc
    PROVE  HeadInv'
  <1>1. /\ owned'[c] = owned[c] \ {h}
        /\ \A x \in AllCmds : x # c => owned'[x] = owned[x]
    BY DEF LatchInv, TypeOK
  <1>2. \A x \in AllCmds : x # c => NextHash(x)' = NextHash(x)
    BY <1>1 DEF NextHash
  <1>3. /\ queue[h] \in Seq(AllCmds) /\ queue[h] # << >> /\ Head(queue[h]) = c
        /\ queue'[h] = Tail(queue[h])
        /\ \A g \in Hashes : g # h => queue'[g] = queue[g]
    BY DEF LatchInv, TypeOK, OwnerFirst
  <1>4. /\ Tail(queue[h]) \in Seq(AllCmds) /\ Len(Tail(queue[h])) = Len(queue[h]) - 1
        /\ \A i \in 1 .. Len(Tail(queue[h])) : Tail(queue[h])[i] = queue[h][i + 1]
        /\ Len(queue[h]) \in Nat /\ Len(queue[h]) > 0 /\ queue[h][1] = c
    BY <1>3, TailFacts
  <1>5. \A x \in AllCmds : OnWakeList(x) => OnWakeList(x)'
    <2>1. CASE Tail(queue[h]) = << >>
      BY <2>1 DEF OnWakeList
    <2>2. CASE Tail(queue[h]) # << >>
      <3>1. PICK a \in AllCmds : a = Head(Tail(queue[h]))
        BY <1>4, <2>2, HeadTailProperties
      <3>2. /\ wake'[c] = Append(wake[c], a) /\ wake[c] \in Seq(AllCmds)
            /\ \A x \in AllCmds : x # c => wake'[x] = wake[x]
        BY <2>2, <3>1, Zenon DEF LatchInv, TypeOK
      <3>3. \A i \in 1 .. Len(wake[c]) : i \in 1 .. Len(wake'[c]) /\ wake'[c][i] = wake[c][i]
        BY <3>2, AppendProperties
      <3>4. \A x \in AllCmds : \A i \in 1 .. Len(wake[x]) :
                i \in 1 .. Len(wake'[x]) /\ wake'[x][i] = wake[x][i]
        BY <3>2, <3>3, Zenon
      <3>5. ASSUME NEW x \in AllCmds, OnWakeList(x) PROVE OnWakeList(x)'
        <4>1. PICK d \in AllCmds : \E i \in 1 .. Len(wake[d]) : wake[d][i] = x
          BY <3>5 DEF OnWakeList
        <4>2. \E i \in 1 .. Len(wake'[d]) : wake'[d][i] = x
          BY <3>4, <4>1
        <4>. QED
          BY <4>2 DEF OnWakeList
      <3>. QED
        BY <3>5
    <2>. QED
      BY <2>1, <2>2
  <1>6. ASSUME NEW d \in AllCmds, Tail(queue[h]) # << >>, Head(Tail(queue[h])) = d
        PROVE  OnWakeList(d)' /\ NextHash(d) = h /\ d # c
    <2>1. wake'[c] = Append(wake[c], d) /\ wake[c] \in Seq(AllCmds)
      BY <1>6 DEF LatchInv, TypeOK
    <2>2. Len(wake'[c]) \in 1 .. Len(wake'[c]) /\ wake'[c][Len(wake'[c])] = d
      <3>1. Len(wake'[c]) = Len(wake[c]) + 1 /\ wake'[c][Len(wake[c]) + 1] = d /\ Len(wake[c]) \in Nat
        BY <2>1, AppendProperties
      <3>. QED
        BY <3>1
    <2>3. OnWakeList(d)'
      BY <2>2, Zenon DEF OnWakeList
    <2>4. 2 \in 1 .. Len(queue[h]) /\ queue[h][2] = d
      <3>1. Len(Tail(queue[h])) > 0 /\ Tail(queue[h])[1] = d
        BY <1>4, <1>6, TailFacts
      <3>2. 1 \in 1 .. Len(Tail(queue[h]))
        BY <1>4, <3>1
      <3>3. Tail(queue[h])[1] = queue[h][1 + 1]
        BY <1>4, <3>2
      <3>. QED
        BY <1>4, <3>1, <3>3
    <2>5. EntryOf(d, h) /\ pc[d] = "waiting" /\ h \notin owned[d]
      BY <2>4 DEF LatchInv, QueueEntries
    <2>. QED
      BY <2>3, <2>5 DEF EntryOf
  <1>7. ASSUME NEW x \in AllCmds, pc[x] = "waiting" PROVE Stands(x, NextHash(x))'
    <2>1. x # c /\ NextHash(x) \in Hashes
      BY <1>7, NextHashProps DEF LatchInv, OwnedByPhase
    <2>2. PICK i \in 1 .. Len(queue[NextHash(x)]) : queue[NextHash(x)][i] = x
      BY <1>7 DEF HeadInv, Stands
    <2>3. \E j \in 1 .. Len(queue'[NextHash(x)]) : queue'[NextHash(x)][j] = x
      <3>1. CASE NextHash(x) = h
        <4>1. i > 1 /\ i - 1 \in 1 .. Len(Tail(queue[h]))
          BY <1>4, <2>1, <2>2, <3>1
        <4>2. Tail(queue[h])[i - 1] = queue[h][(i - 1) + 1]
          BY <1>4, <4>1
        <4>3. Tail(queue[h])[i - 1] = x
          BY <2>2, <3>1, <4>1, <4>2
        <4>. QED
          BY <1>3, <3>1, <4>1, <4>3, Zenon
      <3>2. CASE NextHash(x) # h
        BY <1>3, <2>1, <2>2, <3>2
      <3>. QED
        BY <3>1, <3>2
    <2>. QED
      BY <1>2, <2>1, <2>3, Zenon DEF Stands
  <1>8. ASSUME NEW g \in Hashes, NEW d \in AllCmds, queue'[g] # << >>, Head(queue'[g]) = d
        PROVE  \/ g \in owned'[d]
               \/ NextHash(d)' = g /\ (pc'[d] = "wakeup" \/ OnWakeList(d)')
    <2>1. CASE g = h
      BY <1>2, <1>3, <1>6, <1>8, <2>1, Zenon
    <2>2. CASE g # h
      <3>1. queue[g] # << >> /\ Head(queue[g]) = d
        BY <1>3, <1>8, <2>2
      <3>2. CASE d = c
        <4>1. ~OnWakeList(d)
          BY <3>2 DEF LatchInv, WakeUpParked, Parked, OnWakeList
        <4>. QED
          BY <1>1, <2>2, <3>1, <3>2, <4>1 DEF HeadInv
      <3>3. CASE d # c
        BY <1>1, <1>2, <1>5, <3>1, <3>3 DEF HeadInv
      <3>. QED
        BY <3>2, <3>3
    <2>. QED
      BY <2>1, <2>2
  <1>. QED
    BY <1>7, <1>8 DEF HeadInv

\* A command leaves a wakeup list to ask for its latch, or to fail as its owner.
LEMMA HeadWakeUp ==
    ASSUME LatchInv, HeadInv, NEW c \in AllCmds, NEW w \in AllCmds, NEW h \in Hashes,
           wake[c] # << >>, w = Head(wake[c]), h = NextHash(w),
           \/ owned' = owned /\ pc' = [pc EXCEPT ![w] = "wakeup"]
           \/ owned' = [owned EXCEPT ![w] = owned[w] \cup {h}] /\ pc' = [pc EXCEPT ![w] = "errored"],
           wake' = [wake EXCEPT ![c] = Tail(wake[c])], queue' = queue
    PROVE  HeadInv'
  <1>1. /\ pc'[w] # "waiting" /\ owned[w] \subseteq owned'[w]
        /\ (owned'[w] = owned[w] /\ pc'[w] = "wakeup") \/ h \in owned'[w]
        /\ \A x \in AllCmds : x # w => pc'[x] = pc[x] /\ owned'[x] = owned[x]
    BY DEF LatchInv, TypeOK
  <1>2. \A x \in AllCmds : owned'[x] = owned[x] => NextHash(x)' = NextHash(x)
    BY DEF NextHash
  <1>3. ASSUME NEW x \in AllCmds, x # w, OnWakeList(x) PROVE OnWakeList(x)'
    <2>1. PICK d \in AllCmds : \E i \in 1 .. Len(wake[d]) : wake[d][i] = x
      BY <1>3 DEF OnWakeList
    <2>2. PICK i \in 1 .. Len(wake[d]) : wake[d][i] = x
      BY <2>1
    <2>3. \E j \in 1 .. Len(wake'[d]) : wake'[d][j] = x
      <3>1. CASE d = c
        <4>1. /\ wake[c] \in Seq(AllCmds) /\ wake'[c] = Tail(wake[c])
          BY DEF LatchInv, TypeOK
        <4>2. /\ Len(wake[c]) \in Nat /\ wake[c][1] = w /\ Len(Tail(wake[c])) = Len(wake[c]) - 1
              /\ \A j \in 1 .. Len(Tail(wake[c])) : Tail(wake[c])[j] = wake[c][j + 1]
          BY <4>1, TailFacts
        <4>3. i > 1 /\ i - 1 \in 1 .. Len(Tail(wake[c])) /\ (i - 1) + 1 = i
          BY <1>3, <2>2, <3>1, <4>2
        <4>4. Tail(wake[c])[i - 1] = x
          BY <2>2, <3>1, <4>2, <4>3
        <4>. QED
          BY <3>1, <4>1, <4>3, <4>4, Zenon
      <3>2. CASE d # c
        BY <2>2, <3>2 DEF LatchInv, TypeOK
      <3>. QED
        BY <3>1, <3>2, Zenon
    <2>. QED
      BY <2>3 DEF OnWakeList
  <1>4. ASSUME NEW x \in AllCmds, pc'[x] = "waiting" PROVE Stands(x, NextHash(x))'
    BY <1>1, <1>2, <1>4 DEF HeadInv, Stands
  <1>5. ASSUME NEW g \in Hashes, NEW d \in AllCmds, queue[g] # << >>, Head(queue[g]) = d
        PROVE  \/ g \in owned'[d]
               \/ NextHash(d)' = g /\ (pc'[d] = "wakeup" \/ OnWakeList(d)')
    <2>1. CASE d = w
      BY <1>1, <1>2, <1>5, <2>1 DEF HeadInv
    <2>2. CASE d # w
      BY <1>1, <1>2, <1>3, <1>5, <2>2 DEF HeadInv
    <2>. QED
      BY <2>1, <2>2
  <1>. QED
    BY <1>4, <1>5 DEF HeadInv

LEMMA HeadStep == LatchInv /\ HeadInv /\ Next => HeadInv'
  <1>. SUFFICES ASSUME LatchInv, HeadInv, Next PROVE HeadInv'
    OBVIOUS
  <1>0. pc \in [AllCmds -> Phases] /\ Cmds \subseteq AllCmds /\ Resumed \subseteq AllCmds
    BY DEF LatchInv, TypeOK, AllCmds
  <1>1. ASSUME NEW c \in AllCmds, RunCmd(c) \/ RunCmdBusy(c) \/ ProcessWrite(c) \/ ExecuteOwn(c)
        PROVE  HeadInv'
    <2>1. /\ UNCHANGED <<queue, owned, wake>> /\ pc[c] \in {"idle", "ready", "process"}
          /\ \E q \in {"acquire", "done", "write", "process"} : pc' = [pc EXCEPT ![c] = q]
      BY <1>1 DEF RunCmd, RunCmdBusy, ProcessWrite, ExecuteOwn
    <2>2. \A x \in AllCmds : /\ pc[x] = "wakeup" => pc'[x] = "wakeup"
                             /\ pc'[x] = "waiting" => pc[x] = "waiting"
      BY <1>0, <2>1
    <2>. QED
      BY <2>1, <2>2, HeadStays
  <1>2. ASSUME NEW c \in AllCmds, Acquire(c) PROVE HeadInv'
    <2>1. PICK h \in Hashes : h = NextHash(c)
      BY <1>2, NextHashProps DEF Acquire, LatchInv, OwnedByPhase
    <2>2. pc[c] \in {"acquire", "wakeup"} /\ wake' = wake
      BY <1>2 DEF Acquire
    <2>3. CASE queue[h] # << >> /\ Head(queue[h]) = c
      <3>1. /\ queue' = queue
            /\ owned' = [owned EXCEPT ![c] = owned[c] \cup {h}]
            /\ \E q \in {"ready", pc[c]} : pc' = [pc EXCEPT ![c] = q]
        BY <1>2, <2>1, <2>3, Zenon DEF Acquire
      <3>. QED
        BY <2>1, <2>2, <2>3, <3>1, HeadAcquireGets, Zenon
    <2>4. CASE queue[h] = << >>
      <3>1. /\ queue' = [queue EXCEPT ![h] = Append(queue[h], c)]
            /\ owned' = [owned EXCEPT ![c] = owned[c] \cup {h}]
            /\ \E q \in {"ready", pc[c]} : pc' = [pc EXCEPT ![c] = q]
        BY <1>2, <2>1, <2>4, Zenon DEF Acquire
      <3>2. queue' = [queue EXCEPT ![h] = <<c>>]
        BY <2>4, <3>1
      <3>. QED
        BY <2>1, <2>2, <2>4, <3>1, <3>2, HeadAcquireGets, Zenon
    <2>5. CASE queue[h] # << >> /\ Head(queue[h]) # c
      <3>1. /\ queue' = [queue EXCEPT ![h] = Append(queue[h], c)]
            /\ owned' = owned
            /\ pc' = [pc EXCEPT ![c] = "waiting"]
        BY <1>2, <2>1, <2>5, Zenon DEF Acquire
      <3>. QED
        BY <2>1, <2>2, <2>5, <3>1, HeadAcquireWaits, Zenon
    <2>. QED
      BY <2>3, <2>4, <2>5
  <1>3. ASSUME NEW c \in AllCmds, ExecuteFail(c) \/ ProcessFail(c) \/ ErroredFinish(c)
        PROVE  HeadInv'
    <2>1. /\ UNCHANGED <<queue, owned, wake>> /\ pc' = [pc EXCEPT ![c] = "release"]
          /\ pc[c] # "wakeup"
      BY <1>3 DEF ExecuteFail, ProcessFail, ErroredFinish, FinishWithErr
    <2>2. \A x \in AllCmds : /\ pc[x] = "wakeup" => pc'[x] = "wakeup"
                             /\ pc'[x] = "waiting" => pc[x] = "waiting"
      BY <1>0, <2>1
    <2>. QED
      BY <2>1, <2>2, HeadStays
  <1>4. ASSUME NEW c \in AllCmds, NEW n \in Resumed \cup {None}, WriteFinished(c, n)
        PROVE  HeadInv'
    <2>1. UNCHANGED <<queue, owned, wake>> /\ pc[c] # "wakeup"
      BY <1>4 DEF WriteFinished
    <2>2. CASE n = None
      <3>1. pc' = [pc EXCEPT ![c] = "release"]
        BY <1>4, <2>2 DEF WriteFinished
      <3>2. \A x \in AllCmds : /\ pc[x] = "wakeup" => pc'[x] = "wakeup"
                               /\ pc'[x] = "waiting" => pc[x] = "waiting"
        BY <1>0, <2>1, <3>1
      <3>. QED
        BY <2>1, <3>2, HeadStays
    <2>3. CASE n \in Resumed /\ n # None
      <3>1. pc' = [pc EXCEPT ![c] = "release", ![n] = "prepared"] /\ pc[n] = "idle"
        BY <1>4, <2>3 DEF WriteFinished
      <3>2. \A x \in AllCmds : /\ pc[x] = "wakeup" => pc'[x] = "wakeup"
                               /\ pc'[x] = "waiting" => pc[x] = "waiting"
        BY <1>0, <2>1, <2>3, <3>1
      <3>. QED
        BY <2>1, <3>2, HeadStays
    <2>. QED
      BY <2>2, <2>3
  <1>5. ASSUME NEW c \in AllCmds, Release(c) PROVE HeadInv'
    <2>1. owned[c] \subseteq Hashes /\ owned[c] \subseteq Nat /\ owned[c] # {}
      BY <1>5, HashesAssumption, Zenon DEF LatchInv, TypeOK, Release
    <2>2. PICK h \in Hashes : h = Least(owned[c]) /\ h \in owned[c]
      BY <2>1, LeastProps
    <2>3. pc[c] = "release" /\ pc' = pc
      BY <1>5 DEF Release
    <2>4. CASE next[c] # None /\ h \in Required[next[c]]
      <3>1. PICK n \in AllCmds : n = next[c]
        BY <2>4, Types
      <3>2. /\ queue' = [queue EXCEPT ![h] = <<n>> \o Tail(queue[h])]
            /\ owned' = [owned EXCEPT ![c] = @ \ {h}, ![n] = @ \cup {h}]
            /\ wake' = wake
        BY <1>5, <2>2, <2>4, <3>1 DEF Release
      <3>3. n # c
        BY <2>3, <2>4, <3>1 DEF LatchInv, KeptLatches
      <3>4. owned' = [owned EXCEPT ![c] = owned[c] \ {h}, ![n] = owned[n] \cup {h}]
        BY <3>2, <3>3 DEF LatchInv, TypeOK
      <3>. QED
        BY <2>2, <2>3, <2>4, <3>1, <3>2, <3>4, HeadReleaseKept, Zenon
    <2>5. CASE next[c] = None \/ h \notin Required[next[c]]
      <3>1. /\ queue' = [queue EXCEPT ![h] = Tail(queue[h])]
            /\ owned' = [owned EXCEPT ![c] = owned[c] \ {h}]
            /\ wake' = IF Tail(queue[h]) # << >>
                       THEN [wake EXCEPT ![c] = Append(wake[c], Head(Tail(queue[h])))] ELSE wake
        BY <1>5, <2>2, <2>5, Zenon DEF Release
      <3>. QED
        BY <2>2, <2>3, <3>1, HeadReleaseFree, Zenon
    <2>. QED
      BY <2>4, <2>5
  <1>6. ASSUME NEW c \in AllCmds, WakeUp(c) PROVE HeadInv'
    <2>1. wake[c] # << >> /\ wake[c] \in Seq(AllCmds) /\ queue' = queue
      BY <1>6 DEF WakeUp, LatchInv, TypeOK
    <2>2. PICK w \in AllCmds : w = Head(wake[c]) /\ w = wake[c][1] /\ 1 \in 1 .. Len(wake[c])
      BY <2>1, TailFacts, Types
    <2>3. PICK h \in Hashes : h = NextHash(w)
      BY <2>2, NextHashProps DEF LatchInv, WakeUpParked, Parked, OwnedByPhase
    <2>4. /\ \/ owned' = owned /\ pc' = [pc EXCEPT ![w] = "wakeup"]
             \/ owned' = [owned EXCEPT ![w] = owned[w] \cup {h}] /\ pc' = [pc EXCEPT ![w] = "errored"]
          /\ wake' = [wake EXCEPT ![c] = Tail(wake[c])]
      BY <1>6, <2>2, <2>3 DEF WakeUp
    <2>. QED
      BY <2>1, <2>2, <2>3, <2>4, HeadWakeUp, Zenon
  <1>7. ASSUME NEW c \in AllCmds, ReleaseDone(c) PROVE HeadInv'
    <2>1. UNCHANGED <<queue, owned, wake>> /\ pc[c] = "release"
      BY <1>7 DEF ReleaseDone
    <2>2. CASE next[c] = None
      <3>1. pc' = [pc EXCEPT ![c] = "done"]
        BY <1>7, <2>2 DEF ReleaseDone
      <3>2. \A x \in AllCmds : /\ pc[x] = "wakeup" => pc'[x] = "wakeup"
                               /\ pc'[x] = "waiting" => pc[x] = "waiting"
        BY <1>0, <2>1, <3>1
      <3>. QED
        BY <2>1, <3>2, HeadStays
    <2>3. CASE next[c] # None
      <3>1. PICK n \in AllCmds : n = next[c]
        BY <2>3, Types
      <3>2. pc[n] = "prepared"
        BY <2>1, <2>3, <3>1 DEF LatchInv, KeptLatches
      <3>3. pc' = [pc EXCEPT ![c] = "done", ![n] = "ready"]
        BY <1>7, <2>3, <3>1 DEF ReleaseDone
      <3>4. \A x \in AllCmds : /\ pc[x] = "wakeup" => pc'[x] = "wakeup"
                               /\ pc'[x] = "waiting" => pc[x] = "waiting"
        BY <1>0, <2>1, <3>2, <3>3
      <3>. QED
        BY <2>1, <3>4, HeadStays
    <2>. QED
      BY <2>2, <2>3
  <1>8. ASSUME NEW c \in AllCmds, EarlyResponse(c) \/ Watcher(c) \/ Expire(c) PROVE HeadInv'
    <2>1. UNCHANGED <<queue, pc, owned, wake>>
      BY <1>8 DEF EarlyResponse, Watcher, PrecheckFail, PrecheckOk, DeadlineTimer, Expire
    <2>. QED
      BY <2>1, HeadStays
  <1>. QED
    BY <1>0, <1>1, <1>2, <1>3, <1>4, <1>5, <1>6, <1>7, <1>8 DEF Next, Step

\* A parked command waits behind the owner of its latch, who has yet to release it, or
\* behind one that is being woken up to own it, or is itself being woken up.
LEMMA HeadImplies == LatchInv /\ HeadInv => NoLostWakeUp
  <1>. SUFFICES ASSUME LatchInv, HeadInv PROVE NoLostWakeUp
    OBVIOUS
  <1>1. ASSUME NEW c \in AllCmds, pc[c] = "waiting"
        PROVE  \/ \E d \in AllCmds : NextHash(c) \in owned[d]
               \/ \E d, w \in AllCmds : \E i \in 1 .. Len(wake[d]) :
                      wake[d][i] = w /\ NextHash(w) = NextHash(c)
               \/ \E w \in AllCmds : pc[w] = "wakeup" /\ NextHash(w) = NextHash(c)
    <2>1. PICK g \in Hashes : g = NextHash(c)
      BY <1>1, NextHashProps DEF LatchInv, OwnedByPhase
    <2>2. Stands(c, g)
      BY <1>1, <2>1 DEF HeadInv
    <2>3. queue[g] # << >>
      BY <2>2 DEF Stands
    <2>4. PICK w \in AllCmds : Head(queue[g]) = w
      BY <2>3, Types
    <2>5. g \in owned[w] \/ (NextHash(w) = g /\ (pc[w] = "wakeup" \/ OnWakeList(w)))
      BY <2>3, <2>4 DEF HeadInv
    <2>. QED
      BY <2>1, <2>5 DEF OnWakeList
  <1>. QED
    BY <1>1 DEF NoLostWakeUp

\* No wake-up is lost: a command parked in a latch's queue waits behind an owner that
\* still has to release the latch, or behind a command on its way to own it, or is on a
\* wakeup list itself (Latches::acquire, Latches::release, release_latches).
THEOREM WakeUpsArrive == Spec => []NoLostWakeUp
  <1>1. Init => HeadInv
    BY DEF Init, HeadInv
  <1>2. LatchInv /\ HeadInv /\ UNCHANGED vars => HeadInv'
    <2>. SUFFICES ASSUME LatchInv, HeadInv, UNCHANGED vars PROVE HeadInv'
      OBVIOUS
    <2>. QED
      BY HeadStays DEF vars
  <1>3. LatchInv /\ HeadInv /\ [Next]_vars => HeadInv'
    BY <1>2, HeadStep
  <1>. QED
    BY <1>1, <1>3, LatchInvariant, HeadImplies, PTL DEF Spec
=============================================================================
