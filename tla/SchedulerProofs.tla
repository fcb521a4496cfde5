--------------------------- MODULE SchedulerProofs ---------------------------
(***************************************************************************)
(* Proofs about module Scheduler: the latches exclude each other, are      *)
(* taken in one order, and the assertions of Latches::release and the      *)
(* unwraps of acquire_lock_on_wakeup never fail, for any set of commands,  *)
(* of hashes and any required_hashes.                                      *)
(***************************************************************************)
EXTENDS Scheduler, SequenceTheorems, WellFoundedInduction, TLAPS

\* Least(S) is the first element of a non-empty set of hashes in ascending order.
LEMMA LeastProps ==
    ASSUME NEW S \in SUBSET Nat, S # {}
    PROVE  Least(S) \in S /\ \A g \in S : Least(S) <= g
  <1>1. PICK x \in S : \A y \in S : ~(<<y, x>> \in OpToRel(<, Nat))
    BY NatLessThanWellFounded, WFMin, Zenon
  <1>2. ASSUME NEW y \in S PROVE x <= y
    <2>1. ~(<<y, x>> \in {ss \in Nat \X Nat : ss[1] < ss[2]})
      BY <1>1, Zenon DEF OpToRel
    <2>. QED
      BY <2>1
  <1>. QED
    BY <1>2, Zenon DEF Least

\* NextHash(c) is the least latch the command still needs.
LEMMA NextHashProps ==
    ASSUME NEW c \in AllCmds, Required[c] \ owned[c] # {}
    PROVE  /\ NextHash(c) \in Required[c] \ owned[c]
           /\ NextHash(c) \in Hashes
           /\ NextHash(c) \in Nat
           /\ \A g \in Required[c] \ owned[c] : NextHash(c) <= g
  <1>1. Required[c] \ owned[c] \in SUBSET Nat
    BY HashesAssumption, RequiredAssumption, Zenon
  <1>. QED
    BY <1>1, LeastProps, HashesAssumption, RequiredAssumption DEF NextHash

LEMMA AnsweredType ==
    ASSUME TypeOK, NEW c \in AllCmds
    PROVE  Answered(c) \in [AllCmds -> Nat]
  <1>1. CASE c \in cb
    BY <1>1 DEF Answered, TypeOK
  <1>2. CASE c \notin cb
    BY <1>2 DEF Answered, TypeOK
  <1>. QED
    BY <1>1, <1>2

\* Every step keeps every variable in its type.
LEMMA TypeStep == LatchInv /\ Next => TypeOK'
  <1>. SUFFICES ASSUME LatchInv, Next PROVE TypeOK'
    OBVIOUS
  <1>0. Cmds \subseteq AllCmds /\ Resumed \subseteq AllCmds
    BY DEF AllCmds
  <1>. USE DEF LatchInv, TypeOK, Phases
  <1>1. ASSUME NEW c \in Cmds, RunCmdBusy(c) PROVE TypeOK'
    BY <1>0, <1>1 DEF RunCmdBusy
  <1>2. ASSUME NEW c \in AllCmds, RunCmd(c) PROVE TypeOK'
    BY <1>2 DEF RunCmd
  <1>3. ASSUME NEW c \in AllCmds, Acquire(c) PROVE TypeOK'
    <2>1. NextHash(c) \in Hashes
      BY <1>3, NextHashProps DEF Acquire, OwnedByPhase
    <2>. QED
      BY <1>3, <2>1 DEF Acquire
  <1>4. ASSUME NEW c \in AllCmds, FinishWithErr(c), UNCHANGED taken PROVE TypeOK'
    BY <1>4, AnsweredType DEF FinishWithErr
  <1>5. ASSUME NEW c \in AllCmds, ExecuteOwn(c) PROVE TypeOK'
    BY <1>5 DEF ExecuteOwn
  <1>11. ASSUME NEW c \in AllCmds, ProcessWrite(c) PROVE TypeOK'
    BY <1>11 DEF ProcessWrite
  <1>12. ASSUME NEW c \in AllCmds, EarlyResponse(c) PROVE TypeOK'
    BY <1>12 DEF EarlyResponse
  <1>13. ASSUME NEW c \in AllCmds, Expire(c) PROVE TypeOK'
    BY <1>13 DEF Expire
  <1>6. ASSUME NEW c \in AllCmds, NEW n \in Resumed \cup {None}, WriteFinished(c, n)
        PROVE  TypeOK'
    <2>1. CASE n = None
      BY <1>6, <2>1, AnsweredType DEF WriteFinished
    <2>2. CASE n \in Resumed /\ n # None
      <3>1. n \in AllCmds
        BY <1>0, <2>2
      <3>2. pc' = [pc EXCEPT ![c] = "release", ![n] = "prepared"]
        BY <1>6, <2>2 DEF WriteFinished
      <3>3. pc' \in [AllCmds -> Phases]
        BY <3>1, <3>2, Zenon
      <3>. QED
        BY <1>6, <2>2, <3>3, AnsweredType, Zenon DEF WriteFinished
    <2>. QED
      BY <2>1, <2>2
  <1>7. ASSUME NEW c \in AllCmds, Release(c) PROVE TypeOK'
    <2>. DEFINE h == Least(owned[c])
                rest == Tail(queue[h])
    <2>1. h \in Hashes
      BY <1>7, LeastProps, HashesAssumption, Zenon DEF Release
    <2>2. queue[h] \in Seq(AllCmds) /\ queue[h] # << >>
      BY <1>7, <2>1, LeastProps, HashesAssumption, Zenon DEF Release, OwnerFirst
    <2>3. rest \in Seq(AllCmds) /\ (rest # << >> => Head(rest) \in AllCmds)
      BY <2>2
    <2>4. CASE next[c] # None /\ h \in Required[next[c]]
      <3>1. next[c] \in AllCmds
        BY <1>0, <2>4
      <3>2. <<next[c]>> \o rest \in Seq(AllCmds)
        BY <2>3, <3>1
      <3>3. queue' \in [Hashes -> Seq(AllCmds)]
        BY <1>7, <2>1, <2>4, <3>2 DEF Release
      <3>4. owned' \in [AllCmds -> SUBSET Hashes]
        BY <1>7, <2>1, <2>4, <3>1, Zenon DEF Release
      <3>. QED
        BY <1>7, <2>4, <3>3, <3>4, Zenon DEF Release
    <2>5. CASE ~(next[c] # None /\ h \in Required[next[c]])
      <3>1. queue' \in [Hashes -> Seq(AllCmds)]
        BY <1>7, <2>1, <2>3, <2>5 DEF Release
      <3>2. wake' \in [AllCmds -> Seq(AllCmds)]
        <4>1. wake' = wake \/ (rest # << >> /\ wake' = [wake EXCEPT ![c] = Append(@, Head(rest))])
          BY <1>7, Zenon DEF Release
        <4>2. rest # << >> => Append(wake[c], Head(rest)) \in Seq(AllCmds)
          BY <2>3
        <4>. QED
          BY <4>1, <4>2, Zenon
      <3>3. owned' \in [AllCmds -> SUBSET Hashes]
        BY <1>7, <2>1, <2>5 DEF Release
      <3>. QED
        BY <1>7, <2>5, <3>1, <3>2, <3>3, Zenon DEF Release
    <2>. QED
      BY <2>4, <2>5
  <1>8. ASSUME NEW c \in AllCmds, WakeUp(c) PROVE TypeOK'
    <2>. DEFINE w == Head(wake[c])
    <2>0. wake[c] \in Seq(AllCmds) /\ wake[c] # << >>
      BY <1>8 DEF WakeUp
    <2>1. /\ w \in AllCmds /\ Tail(wake[c]) \in Seq(AllCmds)
          /\ 1 \in 1 .. Len(wake[c]) /\ wake[c][1] = w
      BY <2>0, HeadTailProperties
    <2>2. Required[w] \ owned[w] # {}
      <3>. HIDE DEF TypeOK, w, Phases
      <3>1. Parked(w)
        BY <2>1 DEF WakeUpParked
      <3>. QED
        BY <2>1, <3>1 DEF Parked, OwnedByPhase
    <2>3. NextHash(w) \in Hashes
      BY <2>1, <2>2, NextHashProps
    <2>. HIDE DEF w
    <2>4. wake' \in [AllCmds -> Seq(AllCmds)]
      BY <1>8, <2>1 DEF WakeUp
    <2>5. pc' \in [AllCmds -> Phases]
      BY <1>8, <2>1, Zenon DEF WakeUp, w
    <2>6. owned' \in [AllCmds -> SUBSET Hashes]
      <3>1. owned' = owned \/ owned' = [owned EXCEPT ![w] = @ \cup {NextHash(w)}]
        BY <1>8 DEF WakeUp, w
      <3>2. ASSUME NEW h \in Hashes, owned' = [owned EXCEPT ![w] = @ \cup {h}]
            PROVE  owned' \in [AllCmds -> SUBSET Hashes]
        BY <2>1, <3>2
      <3>. QED
        BY <2>3, <3>1, <3>2, Zenon
    <2>. QED
      BY <1>8, <2>4, <2>5, <2>6 DEF WakeUp
  <1>9. ASSUME NEW c \in AllCmds, ReleaseDone(c) PROVE TypeOK'
    <2>1. CASE next[c] = None
      BY <1>9, <2>1, Zenon DEF ReleaseDone
    <2>2. CASE next[c] # None
      <3>1. next[c] \in AllCmds
        BY <1>0, <2>2
      <3>2. pc' = [pc EXCEPT ![c] = "done", ![next[c]] = "ready"] /\ cb' = cb \cup {next[c]}
        BY <1>9, <2>2 DEF ReleaseDone
      <3>3. pc' \in [AllCmds -> Phases] /\ cb' \subseteq AllCmds
        BY <3>1, <3>2, Zenon
      <3>. QED
        BY <1>9, <3>3 DEF ReleaseDone
    <2>. QED
      BY <2>1, <2>2
  <1>14. ASSUME NEW c \in AllCmds, TakeCbAndFail(c), UNCHANGED <<queue, pc, owned, expired, next, wake>>,
               watch' = [watch EXCEPT ![c] = "off"]
         PROVE TypeOK'
    <2>1. CASE pc[c] \in InSlot /\ c \notin taken
      BY <1>14, <2>1, AnsweredType DEF TakeCbAndFail
    <2>2. CASE ~(pc[c] \in InSlot /\ c \notin taken)
      BY <1>14, <2>2 DEF TakeCbAndFail
    <2>. QED
      BY <2>1, <2>2
  <1>15. ASSUME NEW c \in AllCmds, PrecheckOk(c) PROVE TypeOK'
    BY <1>15 DEF PrecheckOk
  <1>16. ASSUME NEW c \in AllCmds, Watcher(c) PROVE TypeOK'
    BY <1>14, <1>15, <1>16, Zenon DEF Watcher, PrecheckFail, DeadlineTimer
  <1>17. ASSUME NEW c \in AllCmds, Step(c) PROVE TypeOK'
    BY <1>3, <1>4, <1>5, <1>6, <1>7, <1>8, <1>9, <1>11, <1>17
       DEF Step, ExecuteFail, ProcessFail, ErroredFinish
  <1>. QED
    BY <1>1, <1>2, <1>12, <1>13, <1>16, <1>17 DEF Next

\* The moves of pc that leave the latches alone.
QuietMove(p, q) ==
    \/ p = q
    \/ p = "idle" /\ q \in {"acquire", "done"}
    \/ p = "ready" /\ q \in {"process", "release"}
    \/ p = "process" /\ q \in {"write", "release"}
    \/ p = "write" /\ q = "release"
    \/ p = "errored" /\ q = "release"

\* The types of what the proofs below take apart.
LEMMA Types ==
    ASSUME LatchInv
    PROVE  /\ \A h \in Hashes : queue[h] \in Seq(AllCmds)
           /\ \A h \in Hashes : Len(queue[h]) \in Nat
           /\ \A h \in Hashes : \A i \in 1 .. Len(queue[h]) : queue[h][i] \in AllCmds
           /\ \A h \in Hashes : queue[h] # << >> =>
                  1 \in 1 .. Len(queue[h]) /\ Head(queue[h]) = queue[h][1]
           /\ \A c \in AllCmds : \A i \in 1 .. Len(wake[c]) : wake[c][i] \in AllCmds
           /\ \A c \in AllCmds : next[c] # None => next[c] \in AllCmds
  <1>. USE DEF LatchInv, TypeOK
  <1>1. \A h \in Hashes : queue[h] \in Seq(AllCmds) /\ Len(queue[h]) \in Nat
    OBVIOUS
  <1>2. \A h \in Hashes : \A i \in 1 .. Len(queue[h]) : queue[h][i] \in AllCmds
    BY ElementOfSeq
  <1>3. ASSUME NEW h \in Hashes, queue[h] # << >>
        PROVE  1 \in 1 .. Len(queue[h]) /\ Head(queue[h]) = queue[h][1]
    BY <1>1, <1>3
  <1>4. ASSUME NEW c \in AllCmds, NEW i \in 1 .. Len(wake[c]) PROVE wake[c][i] \in AllCmds
    BY ElementOfSeq
  <1>5. \A c \in AllCmds : next[c] # None => next[c] \in AllCmds
    BY DEF AllCmds
  <1>. QED
    BY <1>1, <1>2, <1>3, <1>4, <1>5

\* The indices of the tail of a sequence.
LEMMA TailFacts ==
    ASSUME NEW S, NEW s \in Seq(S), s # << >>
    PROVE  /\ Len(s) \in Nat /\ Len(s) > 0 /\ s[1] = Head(s) /\ Tail(s) \in Seq(S)
           /\ Len(Tail(s)) = Len(s) - 1
           /\ \A i \in 1 .. Len(Tail(s)) : Tail(s)[i] = s[i + 1] /\ i + 1 \in 1 .. Len(s)
  <1>1. Len(s) \in Nat /\ Len(s) > 0 /\ s[1] = Head(s)
    BY EmptySeq
  <1>2. /\ Tail(s) \in Seq(S) /\ Len(Tail(s)) = Len(s) - 1
        /\ \A i \in 1 .. Len(Tail(s)) : Tail(s)[i] = s[i + 1]
    BY HeadTailProperties
  <1>. QED
    BY <1>1, <1>2

\* A step that leaves the wakeup lists alone only has to keep commands parked.
LEMMA ParkedStays ==
    ASSUME LatchInv, wake' = wake, \A x \in AllCmds : Parked(x) => Parked(x)'
    PROVE  WakeUpParked'
  <1>1. WakeUpParked
    BY DEF LatchInv
  <1>. QED
    BY <1>1, Types DEF WakeUpParked

\* A step that only moves one command in that way preserves the invariant.
LEMMA QuietStep ==
    ASSUME LatchInv, TypeOK', UNCHANGED <<queue, owned, wake, next>>,
           NEW c \in AllCmds, NEW q \in Phases,
           pc' = [pc EXCEPT ![c] = q], QuietMove(pc[c], q)
    PROVE  LatchInv'
  <1>1. \A x : NextHash(x)' = NextHash(x)
    BY DEF NextHash
  <1>2. pc'[c] = q /\ \A x \in AllCmds : x # c => pc'[x] = pc[x]
    BY DEF LatchInv, TypeOK
  <1>3. \A x \in AllCmds : pc[x] \in {"waiting", "wakeup"} => pc'[x] = pc[x]
    BY <1>2 DEF QuietMove
  <1>4. OwnerFirst'
    BY DEF LatchInv, OwnerFirst
  <1>5. QueueEntries' /\ QueueDistinct'
    <2>1. \A x \in AllCmds, h \in Hashes : EntryOf(x, h) => EntryOf(x, h)'
      BY <1>1, <1>3 DEF EntryOf
    <2>2. QueueEntries /\ QueueDistinct
      BY DEF LatchInv
    <2>. QED
      BY <1>3, <2>1, <2>2, Types DEF QueueEntries, QueueDistinct
  <1>6. OwnedByPhase'
    BY <1>2, RequiredAssumption DEF LatchInv, OwnedByPhase, QuietMove
  <1>7. KeptLatches'
    <2>1. ASSUME NEW x \in AllCmds, pc'[x] = "release", next[x] # None PROVE pc[x] = "release"
      BY <1>2, <2>1 DEF QuietMove, ReleaseState, LatchInv
    <2>2. ASSUME NEW x \in AllCmds, pc[x] = "prepared" PROVE pc'[x] = "prepared"
      BY <1>2, <2>2 DEF QuietMove
    <2>. QED
      BY <2>1, <2>2, Types DEF KeptLatches, LatchInv
  <1>8. ReleaseState'
    BY <1>2 DEF LatchInv, ReleaseState, QuietMove
  <1>9. WakeUpParked'
    <2>1. ASSUME NEW x \in AllCmds, Parked(x) PROVE Parked(x)'
      BY <1>1, <1>3, <2>1 DEF Parked
    <2>. QED
      BY <2>1, ParkedStays
  <1>. QED
    BY <1>4, <1>5, <1>6, <1>7, <1>8, <1>9 DEF LatchInv

\* An iteration of Latches::acquire that gets the latch h.
LEMMA AcquireGets ==
    ASSUME LatchInv, TypeOK', NEW c \in AllCmds, NEW h \in Hashes, h = NextHash(c),
           h \in Required[c] \ owned[c], \A g \in Required[c] \ owned[c] : h <= g,
           pc[c] \in {"acquire", "wakeup"},
           \/ queue[h] # << >> /\ Head(queue[h]) = c /\ queue' = queue
           \/ queue[h] = << >> /\ queue' = [queue EXCEPT ![h] = <<c>>],
           owned' = [owned EXCEPT ![c] = owned[c] \cup {h}],
           pc' = [pc EXCEPT ![c] = IF Required[c] = owned[c] \cup {h} THEN "ready" ELSE pc[c]],
           wake' = wake, next' = next
    PROVE  LatchInv'
  <1>2. /\ owned'[c] = owned[c] \cup {h}
        /\ pc'[c] = IF Required[c] = owned'[c] THEN "ready" ELSE pc[c]
        /\ \A x \in AllCmds : x # c => owned'[x] = owned[x] /\ pc'[x] = pc[x]
    BY DEF LatchInv, TypeOK
  <1>3. ASSUME NEW x \in AllCmds, x # c PROVE NextHash(x)' = NextHash(x)
    BY <1>2, <1>3 DEF NextHash
  <1>4. /\ \A g \in Hashes : g # h => queue'[g] = queue[g]
        /\ queue'[h] # << >> /\ Head(queue'[h]) = c
        /\ \A g \in Hashes : queue[g] # << >> => queue'[g] = queue[g]
    <2>1. CASE queue[h] # << >> /\ Head(queue[h]) = c /\ queue' = queue
      BY <2>1
    <2>2. CASE queue[h] = << >> /\ queue' = [queue EXCEPT ![h] = <<c>>]
      <3>1. queue'[h] = <<c>> /\ \A g \in Hashes : g # h => queue'[g] = queue[g]
        BY <2>2 DEF LatchInv, TypeOK
      <3>. QED
        BY <2>2, <3>1
    <2>. QED
      BY <2>1, <2>2
  <1>5. OwnerFirst'
    <2>1. ASSUME NEW x \in AllCmds, NEW g \in owned[x]
          PROVE  g \in Hashes /\ queue'[g] # << >> /\ Head(queue'[g]) = x
      <3>1. g \in Hashes
        BY DEF LatchInv, TypeOK
      <3>2. queue[g] # << >> /\ Head(queue[g]) = x
        BY DEF OwnerFirst, LatchInv
      <3>. QED
        BY <1>4, <3>1, <3>2
    <2>. QED
      BY <1>2, <1>4, <2>1 DEF OwnerFirst
  <1>6. QueueEntries' /\ QueueDistinct'
    <2>0. QueueEntries /\ QueueDistinct
      BY DEF LatchInv
    <2>1. ASSUME NEW x \in AllCmds, NEW g \in Hashes, EntryOf(x, g) PROVE EntryOf(x, g)'
      <3>1. CASE x = c
        BY <1>2, <2>1, <3>1 DEF EntryOf
      <3>2. CASE x # c
        BY <1>2, <1>3, <2>1, <3>2 DEF EntryOf
      <3>. QED
        BY <3>1, <3>2
    <2>2. ASSUME NEW x \in AllCmds, pc[x] = "waiting" PROVE pc'[x] = "waiting" /\ owned'[x] = owned[x]
      BY <1>2, <2>2
    <2>3. CASE queue' = queue
      BY <2>0, <2>1, <2>2, <2>3, Types DEF QueueEntries, QueueDistinct
    <2>4. CASE queue[h] = << >> /\ queue' = [queue EXCEPT ![h] = <<c>>]
      <3>1. queue'[h] = <<c>>
        BY <2>4 DEF LatchInv, TypeOK
      <3>2. Len(queue'[h]) = 1 /\ queue'[h][1] = c /\ EntryOf(c, h)'
        BY <1>2, <3>1 DEF EntryOf
      <3>3. \A i \in 1 .. Len(queue'[h]) : i = 1
        BY <3>2
      <3>. QED
        BY <1>4, <2>0, <2>1, <2>2, <3>2, <3>3, Types DEF QueueEntries, QueueDistinct
    <2>. QED
      BY <2>3, <2>4
  <1>7. OwnedByPhase'
    <2>1. OwnedByPhase
      BY DEF LatchInv
    <2>2. \A g \in owned[c] \cup {h} : \A k \in Required[c] \ (owned[c] \cup {h}) : g < k
      <3>1. ASSUME NEW k \in Required[c] \ (owned[c] \cup {h}) PROVE h < k
        <4>1. k \in Required[c] \ owned[c] /\ k # h
          BY Zenon
        <4>2. h \in Nat /\ k \in Nat /\ h <= k
          BY <4>1, HashesAssumption, RequiredAssumption, Zenon
        <4>. QED
          BY <4>1, <4>2
      <3>. QED
        BY <2>1, <3>1 DEF OwnedByPhase
    <2>3. owned[c] \cup {h} \subseteq Required[c]
      BY <2>1 DEF OwnedByPhase
    <2>4. ASSUME NEW x \in AllCmds
          PROVE  /\ owned'[x] \subseteq Required[x]
                 /\ pc'[x] \in {"idle", "done"} => owned'[x] = {}
                 /\ pc'[x] \in {"ready", "process", "write"} => owned'[x] = Required[x]
                 /\ pc'[x] \in {"acquire", "waiting", "wakeup"} =>
                        /\ Required[x] \ owned'[x] # {}
                        /\ \A g \in owned'[x] : \A k \in Required[x] \ owned'[x] : g < k
      <3>1. CASE x = c
        <4>1. Required[c] # owned'[c] => Required[c] \ owned'[c] # {}
          BY <1>2, <2>3, Zenon
        <4>. QED
          BY <1>2, <2>2, <2>3, <3>1, <4>1
      <3>2. CASE x # c
        BY <1>2, <2>1, <3>2 DEF OwnedByPhase
      <3>. QED
        BY <3>1, <3>2
    <2>. QED
      BY <2>4, Zenon DEF OwnedByPhase
  <1>8. KeptLatches'
    <2>1. ASSUME NEW x \in AllCmds, pc'[x] = "release", next'[x] # None
          PROVE  pc[x] = "release" /\ next[x] \in AllCmds /\ next[x] # c /\ x # c
      BY <1>2, <2>1, Types DEF KeptLatches, LatchInv
    <2>. QED
      BY <1>2, <2>1 DEF KeptLatches, LatchInv
  <1>9. ReleaseState'
    BY <1>2 DEF ReleaseState, LatchInv
  <1>10. WakeUpParked'
    <2>1. ASSUME NEW x \in AllCmds, Parked(x) PROVE Parked(x)'
      <3>1. x # c /\ NextHash(x) \in Hashes
        BY <2>1, NextHashProps DEF Parked, LatchInv, OwnedByPhase
      <3>. QED
        BY <1>2, <1>3, <1>4, <2>1, <3>1 DEF Parked
    <2>. QED
      BY <2>1, ParkedStays
  <1>. QED
    BY <1>5, <1>6, <1>7, <1>8, <1>9, <1>10 DEF LatchInv

\* An iteration of Latches::acquire that queues the command behind another one.
LEMMA AcquireWaits ==
    ASSUME LatchInv, TypeOK', NEW c \in AllCmds, NEW h \in Hashes, h = NextHash(c),
           h \in Required[c] \ owned[c],
           pc[c] \in {"acquire", "wakeup"},
           queue[h] # << >>, Head(queue[h]) # c,
           queue' = [queue EXCEPT ![h] = Append(queue[h], c)],
           pc' = [pc EXCEPT ![c] = "waiting"],
           owned' = owned, wake' = wake, next' = next
    PROVE  LatchInv'
  <1>2. pc'[c] = "waiting" /\ \A x \in AllCmds : x # c => pc'[x] = pc[x]
    BY DEF LatchInv, TypeOK
  <1>3. \A x : NextHash(x)' = NextHash(x)
    BY DEF NextHash
  <1>4. /\ Len(queue'[h]) = Len(queue[h]) + 1
        /\ \A i \in 1 .. Len(queue[h]) : queue'[h][i] = queue[h][i]
        /\ queue'[h][Len(queue[h]) + 1] = c
        /\ queue'[h] # << >> /\ Head(queue'[h]) = Head(queue[h])
        /\ \A g \in Hashes : g # h => queue'[g] = queue[g]
    <2>1. queue[h] \in Seq(AllCmds) /\ queue'[h] = Append(queue[h], c)
      BY DEF LatchInv, TypeOK
    <2>2. \A g \in Hashes : g # h => queue'[g] = queue[g]
      BY DEF LatchInv, TypeOK
    <2>. QED
      BY <2>1, <2>2, AppendProperties
  <1>5. OwnerFirst'
    BY <1>4 DEF OwnerFirst, LatchInv
  <1>6. QueueEntries' /\ QueueDistinct'
    <2>0. QueueEntries /\ QueueDistinct
      BY DEF LatchInv
    <2>1. ASSUME NEW i \in 1 .. Len(queue[h]) PROVE queue[h][i] # c
      BY <2>0, Types DEF QueueEntries
    <2>2. ASSUME NEW x \in AllCmds, NEW g \in Hashes, EntryOf(x, g) PROVE EntryOf(x, g)'
      BY <1>2, <1>3, <2>2 DEF EntryOf
    <2>3. \A x \in AllCmds : pc[x] = "waiting" => pc'[x] = "waiting"
      BY <1>2
    <2>4. ASSUME NEW x \in AllCmds, NEW g \in Hashes, NEW i \in 1 .. Len(queue[g]), queue[g][i] = x
          PROVE  /\ EntryOf(x, g)'
                 /\ i > 1 => pc'[x] = "waiting" /\ g \notin owned'[x]
      BY <2>0, <2>2, <2>3, <2>4 DEF QueueEntries
    <2>5. EntryOf(c, h)' /\ h \notin owned'[c]
      BY <1>2, <1>3 DEF EntryOf
    <2>6. \A i \in 1 .. Len(queue'[h]) : i \in 1 .. Len(queue[h]) \/ i = Len(queue[h]) + 1
      BY <1>4, Types
    <2>7. QueueEntries'
      BY <1>2, <1>4, <2>4, <2>5, <2>6 DEF QueueEntries
    <2>8. QueueDistinct'
      <3>1. ASSUME NEW i \in 1 .. Len(queue'[h]), NEW j \in 1 .. Len(queue'[h]),
                   queue'[h][i] = queue'[h][j]
            PROVE  i = j
        BY <1>4, <2>0, <2>1, <2>6, <3>1 DEF QueueDistinct
      <3>. QED
        BY <1>4, <2>0, <3>1 DEF QueueDistinct
    <2>. QED
      BY <2>7, <2>8
  <1>7. OwnedByPhase'
    BY <1>2 DEF OwnedByPhase, LatchInv
  <1>8. KeptLatches'
    <2>1. ASSUME NEW x \in AllCmds, pc'[x] = "release", next'[x] # None
          PROVE  pc[x] = "release" /\ next[x] \in AllCmds /\ next[x] # c
      BY <1>2, <2>1, Types DEF KeptLatches, LatchInv
    <2>. QED
      BY <1>2, <2>1 DEF KeptLatches, LatchInv
  <1>9. ReleaseState'
    BY <1>2 DEF ReleaseState, LatchInv
  <1>10. WakeUpParked'
    <2>1. ASSUME NEW x \in AllCmds, Parked(x) PROVE Parked(x)'
      <3>1. NextHash(x) \in Hashes
        BY <2>1, NextHashProps DEF Parked, LatchInv, OwnedByPhase
      <3>. QED
        BY <1>2, <1>3, <1>4, <2>1, <3>1 DEF Parked
    <2>. QED
      BY <2>1, ParkedStays
  <1>. QED
    BY <1>5, <1>6, <1>7, <1>8, <1>9, <1>10 DEF LatchInv

\* A command that releases its latches hands one of them to the resumed command
\* n it keeps latches for, at the front of the queue.
LEMMA ReleaseKept ==
    ASSUME LatchInv, TypeOK', NEW c \in AllCmds, NEW h \in Hashes, NEW n \in AllCmds,
           pc[c] = "release", h \in owned[c], next[c] = n, n # None, h \in Required[n],
           queue' = [queue EXCEPT ![h] = <<n>> \o Tail(queue[h])],
           owned' = [owned EXCEPT ![c] = owned[c] \ {h}, ![n] = owned[n] \cup {h}],
           wake' = wake, next' = next, pc' = pc
    PROVE  LatchInv'
  <1>1. pc[n] = "prepared" /\ n # c
    BY DEF LatchInv, KeptLatches
  <1>2. /\ owned'[c] = owned[c] \ {h}
        /\ owned'[n] = owned[n] \cup {h}
        /\ \A x \in AllCmds : x # c /\ x # n => owned'[x] = owned[x]
    BY <1>1 DEF LatchInv, TypeOK
  <1>3. ASSUME NEW x \in AllCmds, x # c, x # n PROVE NextHash(x)' = NextHash(x)
    BY <1>2, <1>3, Zenon DEF NextHash
  <1>4. /\ queue[h] \in Seq(AllCmds) /\ queue[h] # << >> /\ Head(queue[h]) = c
        /\ queue'[h] = <<n>> \o Tail(queue[h])
        /\ \A g \in Hashes : g # h => queue'[g] = queue[g]
    BY DEF LatchInv, TypeOK, OwnerFirst
  <1>5. /\ Len(queue'[h]) = Len(queue[h])
        /\ queue'[h] # << >> /\ Head(queue'[h]) = n /\ queue'[h][1] = n
        /\ \A i \in 1 .. Len(queue[h]) : i > 1 => queue'[h][i] = queue[h][i]
    <2>1. /\ Tail(queue[h]) \in Seq(AllCmds) /\ Len(Tail(queue[h])) = Len(queue[h]) - 1
          /\ \A i \in 1 .. Len(Tail(queue[h])) : Tail(queue[h])[i] = queue[h][i + 1]
          /\ Len(queue[h]) \in Nat /\ Len(queue[h]) > 0
      BY <1>4, HeadTailProperties, EmptySeq
    <2>2. /\ <<n>> \in Seq(AllCmds) /\ Len(<<n>>) = 1 /\ <<n>>[1] = n
      OBVIOUS
    <2>3. /\ Len(queue'[h]) = 1 + Len(Tail(queue[h]))
          /\ \A i \in 1 .. 1 + Len(Tail(queue[h])) :
                 queue'[h][i] = IF i <= 1 THEN <<n>>[i] ELSE Tail(queue[h])[i - 1]
      BY <1>4, <2>1, <2>2, ConcatProperties
    <2>4. queue'[h] \in Seq(AllCmds)
      BY <1>4, <2>1, <2>2, ConcatProperties
    <2>. QED
      BY <2>1, <2>2, <2>3, <2>4
  <1>6. OwnerFirst'
    <2>1. ASSUME NEW x \in AllCmds, NEW g \in owned'[x]
          PROVE  queue'[g] # << >> /\ Head(queue'[g]) = x
      <3>1. g \in Hashes
        BY DEF TypeOK
      <3>2. CASE g = h
        <4>1. x # c
          BY <1>2, <3>2, Zenon
        <4>2. x = n
          BY <1>2, <1>4, <3>2, <4>1, Zenon DEF OwnerFirst, LatchInv
        <4>. QED
          BY <1>5, <3>2, <4>2
      <3>3. CASE g # h
        <4>1. g \in owned[x]
          BY <1>2, <3>3, Zenon
        <4>. QED
          BY <1>4, <3>1, <3>3, <4>1 DEF OwnerFirst, LatchInv
      <3>. QED
        BY <3>2, <3>3
    <2>. QED
      BY <2>1 DEF OwnerFirst
  <1>7. QueueEntries'
    <2>1. QueueEntries
      BY DEF LatchInv
    <2>2. ASSUME NEW x \in AllCmds, NEW g \in Hashes, EntryOf(x, g), x # c \/ g # h
          PROVE  EntryOf(x, g)'
      <3>1. CASE x \in {c, n}
        BY <1>1, <1>2, <2>2, <3>1, Zenon DEF EntryOf
      <3>2. CASE x \notin {c, n}
        BY <1>2, <1>3, <2>2, <3>2, Zenon DEF EntryOf
      <3>. QED
        BY <3>1, <3>2
    <2>3. ASSUME NEW x \in AllCmds, pc[x] = "waiting" PROVE x # c /\ x # n /\ owned'[x] = owned[x]
      BY <1>1, <1>2, <2>3, Zenon
    <2>4. ASSUME NEW x \in AllCmds, NEW g \in Hashes, NEW i \in 1 .. Len(queue[g]),
                 queue[g][i] = x, g # h \/ i > 1
          PROVE  /\ EntryOf(x, g)'
                 /\ i > 1 => pc'[x] = "waiting" /\ g \notin owned'[x]
      <3>1. EntryOf(x, g) /\ (i > 1 => pc[x] = "waiting" /\ g \notin owned[x])
        BY <2>1, <2>4 DEF QueueEntries
      <3>. QED
        BY <2>2, <2>3, <2>4, <3>1, Zenon
    <2>5. EntryOf(n, h)'
      BY <1>2, Zenon DEF EntryOf
    <2>6. ASSUME NEW x \in AllCmds, NEW i \in 1 .. Len(queue'[h]), queue'[h][i] = x
          PROVE  /\ EntryOf(x, h)'
                 /\ i > 1 => pc'[x] = "waiting" /\ h \notin owned'[x]
      <3>1. CASE i = 1
        BY <1>5, <2>5, <2>6, <3>1
      <3>2. CASE i > 1
        BY <1>5, <2>4, <2>6, <3>2, Zenon
      <3>. QED
        BY <3>1, <3>2
    <2>7. ASSUME NEW x \in AllCmds, NEW g \in Hashes, NEW i \in 1 .. Len(queue'[g]), queue'[g][i] = x
          PROVE  /\ EntryOf(x, g)'
                 /\ i > 1 => pc'[x] = "waiting" /\ g \notin owned'[x]
      <3>1. CASE g = h
        BY <2>6, <2>7, <3>1, Zenon
      <3>2. CASE g # h
        BY <1>4, <2>4, <2>7, <3>2, Zenon
      <3>. QED
        BY <3>1, <3>2
    <2>. QED
      BY <2>7, Zenon DEF QueueEntries
  <1>8. QueueDistinct'
    <2>1. QueueDistinct /\ QueueEntries
      BY DEF LatchInv
    <2>2. ASSUME NEW i \in 1 .. Len(queue[h]), i > 1 PROVE queue[h][i] # n
      BY <1>1, <2>1, <2>2 DEF QueueEntries
    <2>3. ASSUME NEW i \in 1 .. Len(queue'[h]), NEW j \in 1 .. Len(queue'[h]),
                 queue'[h][i] = queue'[h][j]
          PROVE  i = j
      <3>1. (i = 1 \/ i > 1) /\ (j = 1 \/ j > 1) /\ i \in 1 .. Len(queue[h]) /\ j \in 1 .. Len(queue[h])
        BY <1>5
      <3>. QED
        BY <1>5, <2>1, <2>2, <2>3, <3>1 DEF QueueDistinct
    <2>. QED
      BY <1>4, <2>1, <2>3 DEF QueueDistinct
  <1>9. OwnedByPhase'
    <2>1. OwnedByPhase
      BY DEF LatchInv
    <2>2. ASSUME NEW x \in AllCmds PROVE owned'[x] \subseteq Required[x]
      <3>1. owned[x] \subseteq Required[x]
        BY <2>1 DEF OwnedByPhase
      <3>. QED
        BY <1>2, <3>1, Zenon
    <2>3. \A x \in AllCmds : pc[x] \notin {"release", "prepared"} => owned'[x] = owned[x]
      BY <1>1, <1>2, Zenon
    <2>. QED
      BY <2>1, <2>2, <2>3, ZenonT(40) DEF OwnedByPhase
  <1>10. KeptLatches'
    <2>1. ASSUME NEW x \in AllCmds, pc[x] = "release", next[x] # None
          PROVE  Required[next[x]] \subseteq owned'[x] \cup owned'[next[x]]
      <3>1. CASE x = c
        BY <1>1, <1>2, <2>1, <3>1, Zenon DEF KeptLatches, LatchInv
      <3>2. CASE x # c
        <4>1. next[x] # n /\ next[x] # c /\ next[x] \in AllCmds /\ x # n
          BY <1>1, <2>1, <3>2, Types DEF KeptLatches, LatchInv
        <4>. QED
          BY <1>2, <2>1, <3>2, <4>1, Zenon DEF KeptLatches, LatchInv
      <3>. QED
        BY <3>1, <3>2, Zenon
    <2>. QED
      BY <2>1, Zenon DEF KeptLatches, LatchInv
  <1>11. ReleaseState'
    BY DEF ReleaseState, LatchInv
  <1>12. WakeUpParked'
    <2>1. ASSUME NEW x \in AllCmds, Parked(x) PROVE Parked(x)'
      <3>1. NextHash(x) \in Hashes /\ x # c /\ x # n
        BY <1>1, <2>1, NextHashProps DEF Parked, LatchInv, OwnedByPhase
      <3>2. NextHash(x) # h
        BY <1>4, <2>1, <3>1 DEF Parked
      <3>. QED
        BY <1>3, <1>4, <2>1, <3>1, <3>2 DEF Parked
    <2>. QED
      BY <2>1, ParkedStays
  <1>. QED
    BY <1>6, <1>7, <1>8, <1>9, <1>10, <1>11, <1>12 DEF LatchInv

\* A command that releases the latch h makes the next one in the queue the
\* first, and puts it on its wakeup list.
LEMMA ReleaseFree ==
    ASSUME LatchInv, TypeOK', NEW c \in AllCmds, NEW h \in Hashes,
           pc[c] = "release", h \in owned[c],
           next[c] = None \/ h \notin Required[next[c]],
           queue' = [queue EXCEPT ![h] = Tail(queue[h])],
           owned' = [owned EXCEPT ![c] = owned[c] \ {h}],
           wake' = IF Tail(queue[h]) # << >>
                   THEN [wake EXCEPT ![c] = Append(wake[c], Head(Tail(queue[h])))] ELSE wake,
           next' = next, pc' = pc
    PROVE  LatchInv'
  <1>2. /\ owned'[c] = owned[c] \ {h}
        /\ \A x \in AllCmds : x # c => owned'[x] = owned[x]
    BY DEF LatchInv, TypeOK
  <1>3. ASSUME NEW x \in AllCmds, x # c PROVE NextHash(x)' = NextHash(x)
    BY <1>2, <1>3 DEF NextHash
  <1>4. /\ queue[h] \in Seq(AllCmds) /\ queue[h] # << >> /\ Head(queue[h]) = c
        /\ queue'[h] = Tail(queue[h])
        /\ \A g \in Hashes : g # h => queue'[g] = queue[g]
    BY DEF LatchInv, TypeOK, OwnerFirst
  <1>5. /\ queue'[h] \in Seq(AllCmds)
        /\ Len(queue'[h]) = Len(queue[h]) - 1
        /\ Len(queue[h]) \in Nat /\ Len(queue[h]) > 0
        /\ \A i \in 1 .. Len(queue'[h]) : queue'[h][i] = queue[h][i + 1] /\ i + 1 \in 1 .. Len(queue[h])
    <2>1. /\ Len(queue[h]) \in Nat /\ Len(queue[h]) > 0
          /\ Tail(queue[h]) \in Seq(AllCmds) /\ Len(Tail(queue[h])) = Len(queue[h]) - 1
          /\ \A i \in 1 .. Len(Tail(queue[h])) :
                 Tail(queue[h])[i] = queue[h][i + 1] /\ i + 1 \in 1 .. Len(queue[h])
      BY <1>4, TailFacts
    <2>. QED
      BY <1>4, <2>1, Zenon
  <1>6. OwnerFirst'
    <2>1. ASSUME NEW x \in AllCmds, NEW g \in owned'[x]
          PROVE  queue'[g] # << >> /\ Head(queue'[g]) = x
      <3>1. g \in Hashes /\ g \in owned[x]
        BY <1>2 DEF TypeOK
      <3>2. g # h
        BY <1>2, <1>4, <3>1 DEF OwnerFirst, LatchInv
      <3>. QED
        BY <1>4, <3>1, <3>2 DEF OwnerFirst, LatchInv
    <2>. QED
      BY <2>1 DEF OwnerFirst
  <1>7. QueueEntries /\ QueueDistinct /\ OwnedByPhase /\ WakeUpParked
    BY DEF LatchInv
  <1>8. ASSUME NEW x \in AllCmds, NEW i \in 1 .. Len(queue'[h]), queue'[h][i] = x
        PROVE  /\ pc[x] = "waiting" /\ h \notin owned[x] /\ x # c /\ h = NextHash(x)
    <2>1. i + 1 \in 1 .. Len(queue[h]) /\ i + 1 > 1 /\ queue[h][i + 1] = x
      BY <1>5, <1>8
    <2>2. EntryOf(x, h) /\ pc[x] = "waiting" /\ h \notin owned[x]
      BY <1>7, <2>1 DEF QueueEntries
    <2>. QED
      BY <2>2 DEF EntryOf
  <1>9. QueueEntries'
    <2>1. ASSUME NEW x \in AllCmds, NEW g \in Hashes, NEW i \in 1 .. Len(queue'[g]), queue'[g][i] = x
          PROVE  /\ EntryOf(x, g)'
                 /\ i > 1 => pc'[x] = "waiting" /\ g \notin owned'[x]
      <3>1. CASE g = h
        BY <1>2, <1>3, <1>8, <2>1, <3>1, Zenon DEF EntryOf
      <3>2. CASE g # h
        <4>1. EntryOf(x, g) /\ (i > 1 => pc[x] = "waiting" /\ g \notin owned[x])
          BY <1>4, <1>7, <2>1, <3>2 DEF QueueEntries
        <4>2. CASE x = c
          BY <1>2, <3>2, <4>1, <4>2 DEF EntryOf
        <4>3. CASE x # c
          BY <1>2, <1>3, <4>1, <4>3 DEF EntryOf
        <4>. QED
          BY <4>2, <4>3
      <3>. QED
        BY <3>1, <3>2
    <2>. QED
      BY <2>1, Zenon DEF QueueEntries
  <1>10. QueueDistinct'
    <2>1. ASSUME NEW i \in 1 .. Len(queue'[h]), NEW j \in 1 .. Len(queue'[h]),
                 queue'[h][i] = queue'[h][j]
          PROVE  i = j
      <3>1. i + 1 = j + 1
        BY <1>5, <1>7, <2>1 DEF QueueDistinct
      <3>. QED
        BY <3>1
    <2>. QED
      BY <1>4, <1>7, <2>1 DEF QueueDistinct
  <1>11. OwnedByPhase'
    BY <1>2, <1>7 DEF OwnedByPhase
  <1>12. KeptLatches'
    <2>1. ASSUME NEW x \in AllCmds, pc[x] = "release", next[x] # None
          PROVE  Required[next[x]] \subseteq owned'[x] \cup owned'[next[x]]
      <3>1. next[x] # c /\ next[x] \in AllCmds
        BY <2>1, Types DEF KeptLatches, LatchInv
      <3>2. Required[next[x]] \subseteq owned[x] \cup owned[next[x]]
        BY <2>1 DEF KeptLatches, LatchInv
      <3>. QED
        BY <1>2, <2>1, <3>1, <3>2
    <2>. QED
      BY <2>1 DEF KeptLatches, LatchInv
  <1>13. /\ \A x \in AllCmds : x # c => wake'[x] = wake[x]
         /\ Tail(queue[h]) = << >> => wake'[c] = wake[c]
         /\ Tail(queue[h]) # << >> => wake'[c] = Append(wake[c], Head(Tail(queue[h])))
    BY Zenon DEF LatchInv, TypeOK
  <1>14. ReleaseState'
    BY <1>13, Zenon DEF ReleaseState, LatchInv
  <1>15. WakeUpParked'
    <2>1. ASSUME NEW x \in AllCmds, Parked(x) PROVE Parked(x)'
      <3>1. NextHash(x) \in Hashes /\ x # c
        BY <1>7, <2>1, NextHashProps DEF Parked, OwnedByPhase
      <3>2. NextHash(x) # h
        BY <1>4, <2>1, <3>1 DEF Parked
      <3>. QED
        BY <1>3, <1>4, <2>1, <3>1, <3>2 DEF Parked
    <2>2. CASE Tail(queue[h]) = << >>
      <3>1. wake' = wake
        BY <2>2
      <3>. QED
        BY <2>1, <3>1, ParkedStays
    <2>3. CASE Tail(queue[h]) # << >>
      <3>1. PICK w \in AllCmds : w = Head(queue'[h]) /\ w = queue'[h][1] /\ 1 \in 1 .. Len(queue'[h])
        BY <1>4, <1>5, <2>3
      <3>2. pc[w] = "waiting" /\ w # c /\ h = NextHash(w)
        BY <1>8, <3>1
      <3>3. Parked(w)'
        BY <1>3, <1>4, <2>3, <3>1, <3>2, Zenon DEF Parked
      <3>4. ~Parked(w)
        BY <1>4, <3>2 DEF Parked
      <3>5. wake[c] \in Seq(AllCmds) /\ Len(wake[c]) \in Nat
        BY DEF LatchInv, TypeOK
      <3>6. /\ Len(wake'[c]) = Len(wake[c]) + 1
            /\ \A i \in 1 .. Len(wake[c]) : wake'[c][i] = wake[c][i]
            /\ wake'[c][Len(wake[c]) + 1] = w
        BY <1>4, <1>13, <2>3, <3>1, <3>5, AppendProperties
      <3>7. \A i \in 1 .. Len(wake'[c]) : i \in 1 .. Len(wake[c]) \/ i = Len(wake[c]) + 1
        BY <3>5, <3>6
      <3>8. ASSUME NEW d \in AllCmds, NEW i \in 1 .. Len(wake'[d])
            PROVE  \/ d = c /\ i = Len(wake[c]) + 1 /\ wake'[d][i] = w
                   \/ /\ i \in 1 .. Len(wake[d]) /\ wake'[d][i] = wake[d][i]
                      /\ wake[d][i] \in AllCmds /\ Parked(wake[d][i]) /\ wake[d][i] # w
        <4>1. CASE d = c /\ i = Len(wake[c]) + 1
          BY <3>6, <4>1, Zenon
        <4>2. CASE i \in 1 .. Len(wake[d])
          <5>1. Parked(wake[d][i]) /\ wake[d][i] \in AllCmds
            BY <1>7, <4>2, Types DEF WakeUpParked
          <5>2. wake[d][i] # w
            BY <3>4, <5>1
          <5>. QED
            BY <1>13, <3>6, <4>2, <5>1, <5>2, Zenon
        <4>. QED
          BY <1>13, <3>7, <4>1, <4>2, Zenon
      <3>9. ASSUME NEW d \in AllCmds, NEW i \in 1 .. Len(wake'[d]), NEW x \in AllCmds, x = wake'[d][i]
            PROVE  Parked(x)'
        BY <2>1, <3>3, <3>8, <3>9, Zenon
      <3>10. ASSUME NEW d \in AllCmds, NEW i \in 1 .. Len(wake'[d]),
                    NEW e \in AllCmds, NEW j \in 1 .. Len(wake'[e]), wake'[e][j] = wake'[d][i]
             PROVE  e = d /\ j = i
        <4>1. CASE wake'[d][i] = w
          <5>1. d = c /\ i = Len(wake[c]) + 1
            BY <3>8, <4>1
          <5>2. e = c /\ j = Len(wake[c]) + 1
            <6>1. wake'[e][j] = w
              BY <3>10, <4>1, Zenon
            <6>. QED
              BY <3>8, <6>1
          <5>. QED
            BY <5>1, <5>2
        <4>2. CASE wake'[d][i] # w
          <5>1. i \in 1 .. Len(wake[d]) /\ wake'[d][i] = wake[d][i]
            BY <3>8, <4>2, Zenon
          <5>2. j \in 1 .. Len(wake[e]) /\ wake'[e][j] = wake[e][j]
            <6>1. wake'[e][j] # w
              BY <3>10, <4>2, Zenon
            <6>. QED
              BY <3>8, <6>1, Zenon
          <5>. QED
            BY <1>7, <3>10, <5>1, <5>2, SMTT(30) DEF WakeUpParked
        <4>. QED
          BY <4>1, <4>2
      <3>11. \A d \in AllCmds : \A i \in 1 .. Len(wake'[d]) : wake'[d][i] \in AllCmds
        BY <3>8, Zenon
      <3>12. ASSUME NEW d \in AllCmds, NEW i \in 1 .. Len(wake'[d])
             PROVE  Parked(wake[d][i])'
        <4>1. PICK x \in AllCmds : x = wake'[d][i]
          BY <3>11, Zenon
        <4>2. Parked(x)'
          BY <3>9, <4>1, Zenon
        <4>. QED
          BY <4>1, <4>2, Zenon DEF Parked, NextHash
      <3>. QED
        BY <3>10, <3>12, ZenonT(60) DEF WakeUpParked
    <2>. QED
      BY <2>2, <2>3
  <1>. QED
    BY <1>6, <1>9, <1>10, <1>11, <1>12, <1>14, <1>15 DEF LatchInv

\* What changes for the command w at the head of the wakeup list of c: it is
\* woken up, or finished with the deadline error as an owner of the latch h.
LEMMA WakeUpStep ==
    ASSUME LatchInv, TypeOK', NEW c \in AllCmds, NEW w \in AllCmds, NEW h \in Hashes,
           pc[c] = "release", wake[c] # << >>, w = Head(wake[c]), h = NextHash(w),
           \/ owned' = owned /\ pc' = [pc EXCEPT ![w] = "wakeup"]
           \/ owned' = [owned EXCEPT ![w] = owned[w] \cup {h}] /\ pc' = [pc EXCEPT ![w] = "errored"],
           wake' = [wake EXCEPT ![c] = Tail(wake[c])],
           queue' = queue, next' = next
    PROVE  LatchInv'
  <1>1. QueueEntries /\ QueueDistinct /\ OwnedByPhase /\ WakeUpParked /\ OwnerFirst
    BY DEF LatchInv
  <1>2. /\ wake[c] \in Seq(AllCmds) /\ Len(wake[c]) \in Nat /\ Len(wake[c]) > 0 /\ wake[c][1] = w
        /\ Len(wake'[c]) = Len(wake[c]) - 1
        /\ \A i \in 1 .. Len(wake'[c]) : wake'[c][i] = wake[c][i + 1]
        /\ \A x \in AllCmds : x # c => wake'[x] = wake[x]
    <2>1. wake[c] \in Seq(AllCmds) /\ wake'[c] = Tail(wake[c])
      BY DEF LatchInv, TypeOK
    <2>3. \A x \in AllCmds : x # c => wake'[x] = wake[x]
      BY DEF LatchInv, TypeOK
    <2>. QED
      <3>1. /\ Len(wake[c]) \in Nat /\ Len(wake[c]) > 0 /\ wake[c][1] = Head(wake[c])
            /\ Len(Tail(wake[c])) = Len(wake[c]) - 1
            /\ \A i \in 1 .. Len(Tail(wake[c])) : Tail(wake[c])[i] = wake[c][i + 1]
        BY <2>1, TailFacts
      <3>. QED
        BY <2>1, <2>3, <3>1, Zenon
  <1>3. Parked(w) /\ pc[w] = "waiting" /\ w # c
    <2>1. 1 \in 1 .. Len(wake[c])
      BY <1>2
    <2>. QED
      BY <1>1, <1>2, <2>1 DEF WakeUpParked, Parked
  <1>4. h \in Required[w] \ owned[w] /\ queue[h] # << >> /\ Head(queue[h]) = w
    BY <1>1, <1>3, NextHashProps DEF OwnedByPhase, Parked
  <1>5. /\ \A x \in AllCmds : x # w => owned'[x] = owned[x] /\ pc'[x] = pc[x]
        /\ \/ pc'[w] = "wakeup" /\ owned'[w] = owned[w]
           \/ pc'[w] = "errored" /\ owned'[w] = owned[w] \cup {h}
    BY DEF LatchInv, TypeOK
  <1>6. ASSUME NEW x \in AllCmds, x # w PROVE NextHash(x)' = NextHash(x)
    BY <1>5, <1>6, Zenon DEF NextHash
  <1>7. OwnerFirst'
    BY <1>1, <1>4, <1>5 DEF OwnerFirst
  <1>8. QueueEntries' /\ QueueDistinct'
    <2>1. ASSUME NEW x \in AllCmds, NEW g \in Hashes, EntryOf(x, g) PROVE EntryOf(x, g)'
      <3>1. CASE x # w
        BY <1>5, <1>6, <2>1, <3>1 DEF EntryOf
      <3>2. CASE x = w /\ owned'[w] = owned[w] /\ pc'[w] = "wakeup"
        <4>1. NextHash(x)' = NextHash(x)
          BY <3>2 DEF NextHash
        <4>. QED
          BY <1>3, <2>1, <3>2, <4>1 DEF EntryOf
      <3>3. CASE x = w /\ owned'[w] = owned[w] \cup {h}
        BY <1>3, <2>1, <3>3 DEF EntryOf
      <3>. QED
        BY <1>5, <3>1, <3>2, <3>3
    <2>2. ASSUME NEW g \in Hashes, NEW i \in 1 .. Len(queue[g]), i > 1 PROVE queue[g][i] # w
      <3>. SUFFICES ASSUME queue[g][i] = w PROVE FALSE
        OBVIOUS
      <3>1. EntryOf(w, g) /\ g \notin owned[w]
        BY <1>1, <2>2 DEF QueueEntries
      <3>2. g = h
        BY <3>1 DEF EntryOf
      <3>3. queue[h][1] = w /\ 1 \in 1 .. Len(queue[h])
        BY <1>4, Types
      <3>. QED
        BY <1>1, <2>2, <3>2, <3>3 DEF QueueDistinct
    <2>3. ASSUME NEW x \in AllCmds, NEW g \in Hashes, NEW i \in 1 .. Len(queue[g]), queue[g][i] = x
          PROVE  /\ EntryOf(x, g)'
                 /\ i > 1 => pc'[x] = "waiting" /\ g \notin owned'[x]
      <3>1. EntryOf(x, g) /\ (i > 1 => pc[x] = "waiting" /\ g \notin owned[x] /\ x # w)
        BY <1>1, <2>2, <2>3 DEF QueueEntries
      <3>. QED
        BY <1>5, <2>1, <3>1
    <2>4. QueueEntries'
      BY <2>3 DEF QueueEntries
    <2>. QED
      BY <1>1, <2>4 DEF QueueDistinct
  <1>9. OwnedByPhase'
    <2>1. ASSUME NEW x \in AllCmds
          PROVE  /\ owned'[x] \subseteq Required[x]
                 /\ pc'[x] \in {"idle", "done"} => owned'[x] = {}
                 /\ pc'[x] \in {"ready", "process", "write"} => owned'[x] = Required[x]
                 /\ pc'[x] \in {"acquire", "waiting", "wakeup"} =>
                        /\ Required[x] \ owned'[x] # {}
                        /\ \A g \in owned'[x] : \A k \in Required[x] \ owned'[x] : g < k
      <3>1. CASE x = w
        BY <1>1, <1>3, <1>4, <1>5, <3>1 DEF OwnedByPhase
      <3>2. CASE x # w
        BY <1>1, <1>5, <3>2 DEF OwnedByPhase
      <3>. QED
        BY <3>1, <3>2, SMTT(30)
    <2>. QED
      BY <2>1 DEF OwnedByPhase
  <1>10. KeptLatches'
    <2>1. ASSUME NEW x \in AllCmds, pc'[x] = "release", next'[x] # None
          PROVE  x # w /\ pc[x] = "release" /\ next[x] \in AllCmds /\ next[x] # w
      BY <1>3, <1>5, <2>1, Types DEF KeptLatches, LatchInv
    <2>. QED
      BY <1>5, <2>1 DEF KeptLatches, LatchInv
  <1>11. ReleaseState'
    <2>1. \A x \in AllCmds : wake'[x] # << >> => wake[x] # << >>
      BY <1>2
    <2>. QED
      BY <1>3, <1>5, <2>1 DEF ReleaseState, LatchInv
  <1>12. WakeUpParked'
    <2>1. ASSUME NEW x \in AllCmds, Parked(x), x # w PROVE Parked(x)'
      BY <1>5, <1>6, <2>1 DEF Parked
    <2>2. ASSUME NEW d \in AllCmds, NEW i \in 1 .. Len(wake'[d])
          PROVE  \E k \in 1 .. Len(wake[d]) :
                     /\ k = IF d = c THEN i + 1 ELSE i
                     /\ wake'[d][i] = wake[d][k] /\ wake[d][k] \in AllCmds
                     /\ Parked(wake[d][k]) /\ wake[d][k] # w
      <3>. DEFINE k == IF d = c THEN i + 1 ELSE i
      <3>1. k \in 1 .. Len(wake[d]) /\ wake'[d][i] = wake[d][k]
        BY <1>2
      <3>2. wake[d][k] \in AllCmds /\ Parked(wake[d][k])
        BY <1>1, <3>1, Types DEF WakeUpParked
      <3>3. d = c => k # 1
        BY <1>2
      <3>4. 1 \in 1 .. Len(wake[c])
        BY <1>2
      <3>5. wake[d][k] # w
        <4>. HIDE DEF k
        <4>. QED
          BY <1>1, <1>2, <3>1, <3>3, <3>4 DEF WakeUpParked
      <3>. QED
        BY <3>1, <3>2, <3>5
    <2>3. ASSUME NEW d \in AllCmds, NEW i \in 1 .. Len(wake'[d]), NEW x \in AllCmds, x = wake'[d][i]
          PROVE  Parked(x)'
      <3>0. PICK k \in 1 .. Len(wake[d]) :
                     /\ k = IF d = c THEN i + 1 ELSE i
                     /\ wake'[d][i] = wake[d][k] /\ wake[d][k] \in AllCmds
                     /\ Parked(wake[d][k]) /\ wake[d][k] # w
        BY <2>2, Zenon
      <3>1. x = wake[d][k]
        BY <2>3, <3>0
      <3>2. Parked(x) /\ x # w
        BY <3>0, <3>1 DEF Parked
      <3>. QED
        BY <2>1, <3>2
    <2>4. ASSUME NEW d \in AllCmds, NEW i \in 1 .. Len(wake'[d]),
                 NEW e \in AllCmds, NEW j \in 1 .. Len(wake'[e]), wake'[e][j] = wake'[d][i]
          PROVE  e = d /\ j = i
      <3>1. PICK k \in 1 .. Len(wake[d]) :
                /\ k = IF d = c THEN i + 1 ELSE i
                /\ wake'[d][i] = wake[d][k]
        BY <2>2
      <3>2. PICK l \in 1 .. Len(wake[e]) :
                /\ l = IF e = c THEN j + 1 ELSE j
                /\ wake'[e][j] = wake[e][l]
        BY <2>2
      <3>3. e = d /\ l = k
        BY <1>1, <2>4, <3>1, <3>2 DEF WakeUpParked
      <3>. QED
        BY <3>1, <3>2, <3>3
    <2>5. \A d \in AllCmds : \A i \in 1 .. Len(wake'[d]) : wake'[d][i] \in AllCmds
      BY <2>2, Zenon
    <2>. QED
      BY <2>3, <2>4, <2>5, Zenon DEF WakeUpParked
  <1>. QED
    BY <1>7, <1>8, <1>9, <1>10, <1>11, <1>12 DEF LatchInv

\* on_write_finished keeps latches for a resumed command.
LEMMA KeepStep ==
    ASSUME LatchInv, TypeOK', NEW c \in AllCmds, NEW n \in Resumed, n # None,
           pc[c] \in {"process", "write"}, pc[n] = "idle", Required[n] \subseteq Required[c],
           pc' = [pc EXCEPT ![c] = "release", ![n] = "prepared"],
           next' = [next EXCEPT ![c] = n],
           queue' = queue, owned' = owned, wake' = wake
    PROVE  LatchInv'
  <1>0. n \in AllCmds /\ n # c
    BY DEF AllCmds
  <1>1. \A x : NextHash(x)' = NextHash(x)
    BY DEF NextHash
  <1>2. /\ pc'[c] = "release" /\ pc'[n] = "prepared"
        /\ \A x \in AllCmds : x # c /\ x # n => pc'[x] = pc[x]
        /\ next'[c] = n
        /\ \A x \in AllCmds : x # c => next'[x] = next[x]
    BY <1>0 DEF LatchInv, TypeOK
  <1>3. \A x \in AllCmds : pc[x] \in {"waiting", "wakeup"} => pc'[x] = pc[x]
    BY <1>2, Zenon
  <1>4. OwnerFirst' /\ QueueDistinct'
    BY DEF LatchInv, OwnerFirst, QueueDistinct
  <1>5. QueueEntries'
    <2>1. \A x \in AllCmds, h \in Hashes : EntryOf(x, h) => EntryOf(x, h)'
      BY <1>1, <1>3, Zenon DEF EntryOf
    <2>2. QueueEntries
      BY DEF LatchInv
    <2>. QED
      BY <1>3, <2>1, <2>2, Zenon DEF QueueEntries
  <1>6. OwnedByPhase'
    BY <1>2, Zenon DEF LatchInv, OwnedByPhase
  <1>7. ASSUME NEW x \in AllCmds, x # c, pc'[x] = "release", next'[x] # None
        PROVE  /\ pc[x] = "release" /\ next[x] # None /\ next[x] \in AllCmds
               /\ next[x] # c /\ next[x] # n
    BY <1>2, <1>7, Types DEF LatchInv, KeptLatches
  <1>8. KeptLatches'
    <2>1. Required[n] \subseteq owned[c]
      BY DEF LatchInv, OwnedByPhase
    <2>2. ASSUME NEW x \in AllCmds, pc'[x] = "release", next'[x] # None
          PROVE  /\ pc'[next'[x]] = "prepared"
                 /\ Required[next'[x]] \subseteq owned'[x] \cup owned'[next'[x]]
      <3>1. CASE x = c
        BY <1>2, <2>1, <3>1
      <3>2. CASE x # c
        <4>1. /\ pc[x] = "release" /\ next[x] # None /\ next[x] \in AllCmds
              /\ next[x] # c /\ next[x] # n /\ next'[x] = next[x]
          BY <1>2, <1>7, <2>2, <3>2, Zenon
        <4>2. pc[next[x]] = "prepared" /\ Required[next[x]] \subseteq owned[x] \cup owned[next[x]]
          BY <4>1 DEF LatchInv, KeptLatches
        <4>. QED
          BY <1>2, <4>1, <4>2, Zenon
      <3>. QED
        BY <3>1, <3>2
    <2>3. ASSUME NEW x \in AllCmds, pc'[x] = "release", next'[x] # None,
                 NEW d \in AllCmds, pc'[d] = "release", next'[d] = next'[x]
          PROVE  d = x
      BY <1>2, <1>7, <2>3 DEF LatchInv, KeptLatches
    <2>. QED
      BY <2>2, <2>3, Zenon DEF KeptLatches
  <1>9. ReleaseState'
    BY <1>0, <1>2, Zenon DEF LatchInv, ReleaseState
  <1>10. WakeUpParked'
    <2>1. ASSUME NEW x \in AllCmds, Parked(x) PROVE Parked(x)'
      BY <1>1, <1>3, <2>1, Zenon DEF Parked
    <2>. QED
      BY <2>1, ParkedStays
  <1>. QED
    BY <1>4, <1>5, <1>6, <1>8, <1>9, <1>10 DEF LatchInv

\* A command ends once its latches are released and its wakeup list is empty.
LEMMA FinishedStep ==
    ASSUME LatchInv, TypeOK', NEW c \in AllCmds,
           pc[c] = "release", owned[c] = {}, wake[c] = << >>, next[c] = None,
           pc' = [pc EXCEPT ![c] = "done"], UNCHANGED <<queue, owned, wake, next>>
    PROVE  LatchInv'
  <1>1. \A x : NextHash(x)' = NextHash(x)
    BY DEF NextHash
  <1>2. pc'[c] = "done" /\ \A x \in AllCmds : x # c => pc'[x] = pc[x]
    BY DEF LatchInv, TypeOK
  <1>3. \A x \in AllCmds : pc[x] \in {"waiting", "wakeup"} => pc'[x] = pc[x]
    BY <1>2
  <1>4. OwnerFirst' /\ QueueDistinct'
    BY DEF LatchInv, OwnerFirst, QueueDistinct
  <1>5. QueueEntries'
    <2>1. \A x \in AllCmds, h \in Hashes : EntryOf(x, h) => EntryOf(x, h)'
      BY <1>1, <1>3 DEF EntryOf
    <2>2. QueueEntries
      BY DEF LatchInv
    <2>. QED
      BY <1>3, <2>1, <2>2 DEF QueueEntries
  <1>6. OwnedByPhase'
    BY <1>2 DEF LatchInv, OwnedByPhase
  <1>7. KeptLatches'
    <2>1. ASSUME NEW x \in AllCmds, pc'[x] = "release", next[x] # None
          PROVE  pc[x] = "release" /\ next[x] \in AllCmds /\ next[x] # c
      BY <1>2, <2>1, Types DEF LatchInv, KeptLatches
    <2>. QED
      BY <1>2, <2>1 DEF LatchInv, KeptLatches
  <1>8. ReleaseState'
    BY <1>2 DEF LatchInv, ReleaseState
  <1>9. WakeUpParked'
    <2>1. ASSUME NEW x \in AllCmds, Parked(x) PROVE Parked(x)'
      BY <1>1, <1>3, <2>1 DEF Parked
    <2>. QED
      BY <2>1, ParkedStays
  <1>. QED
    BY <1>4, <1>5, <1>6, <1>7, <1>8, <1>9 DEF LatchInv

\* The resumed command starts with all its latches.
LEMMA ResumeStep ==
    ASSUME LatchInv, TypeOK', NEW c \in AllCmds, NEW n \in AllCmds, n # None, next[c] = n,
           pc[c] = "release", owned[c] = {}, wake[c] = << >>,
           pc' = [pc EXCEPT ![c] = "done", ![n] = "ready"],
           next' = next, queue' = queue, owned' = owned, wake' = wake
    PROVE  LatchInv'
  <1>0. pc[n] = "prepared" /\ n # c /\ owned[n] = Required[n]
    <2>1. pc[n] = "prepared" /\ n # c /\ Required[n] \subseteq owned[c] \cup owned[n]
      BY DEF LatchInv, KeptLatches
    <2>2. owned[n] \subseteq Required[n]
      BY DEF LatchInv, OwnedByPhase
    <2>. QED
      BY <2>1, <2>2, Zenon
  <1>1. \A x : NextHash(x)' = NextHash(x)
    BY DEF NextHash
  <1>2. /\ pc'[c] = "done" /\ pc'[n] = "ready"
        /\ \A x \in AllCmds : x # c /\ x # n => pc'[x] = pc[x]
    BY <1>0 DEF LatchInv, TypeOK
  <1>3. \A x \in AllCmds : pc[x] \in {"waiting", "wakeup"} => pc'[x] = pc[x]
    BY <1>0, <1>2, Zenon
  <1>4. OwnerFirst' /\ QueueDistinct'
    BY DEF LatchInv, OwnerFirst, QueueDistinct
  <1>5. QueueEntries'
    <2>1. \A x \in AllCmds, h \in Hashes : EntryOf(x, h) => EntryOf(x, h)'
      BY <1>1, <1>3, Zenon DEF EntryOf
    <2>2. QueueEntries
      BY DEF LatchInv
    <2>. QED
      BY <1>3, <2>1, <2>2, ZenonT(40) DEF QueueEntries
  <1>6. OwnedByPhase'
    BY <1>0, <1>2, Zenon DEF LatchInv, OwnedByPhase
  <1>7. KeptLatches'
    <2>1. ASSUME NEW x \in AllCmds, pc'[x] = "release", next[x] # None
          PROVE  pc[x] = "release" /\ next[x] \in AllCmds /\ next[x] # c /\ next[x] # n /\ x # c /\ x # n
      BY <1>0, <1>2, <2>1, Types DEF LatchInv, KeptLatches
    <2>2. ASSUME NEW x \in AllCmds, pc'[x] = "release", next[x] # None
          PROVE  /\ pc'[next[x]] = "prepared"
                 /\ Required[next[x]] \subseteq owned[x] \cup owned[next[x]]
      <3>1. pc[next[x]] = "prepared" /\ Required[next[x]] \subseteq owned[x] \cup owned[next[x]]
        BY <2>1, <2>2 DEF LatchInv, KeptLatches
      <3>. QED
        BY <1>2, <2>1, <2>2, <3>1, Zenon
    <2>3. ASSUME NEW x \in AllCmds, pc'[x] = "release", next[x] # None,
                 NEW d \in AllCmds, pc'[d] = "release", next[d] = next[x]
          PROVE  d = x
      BY <2>1, <2>3 DEF LatchInv, KeptLatches
    <2>. QED
      BY <2>2, <2>3, Zenon DEF KeptLatches
  <1>8. ReleaseState'
    BY <1>0, <1>2, Zenon DEF LatchInv, ReleaseState
  <1>9. WakeUpParked'
    <2>1. ASSUME NEW x \in AllCmds, Parked(x) PROVE Parked(x)'
      BY <1>1, <1>3, <2>1, Zenon DEF Parked
    <2>. QED
      BY <2>1, ParkedStays
  <1>. QED
    BY <1>4, <1>5, <1>6, <1>7, <1>8, <1>9 DEF LatchInv

\* The invariant is inductive: one step per action.
LEMMA LatchStep == LatchInv /\ Next => LatchInv'
  <1>. SUFFICES ASSUME LatchInv, Next PROVE LatchInv'
    OBVIOUS
  <1>0. TypeOK' /\ Cmds \subseteq AllCmds
    BY TypeStep DEF AllCmds
  <1>1. pc \in [AllCmds -> Phases] /\ \A c \in AllCmds : pc = [pc EXCEPT ![c] = pc[c]]
    BY SMTT(30) DEF LatchInv, TypeOK
  <1>2. ASSUME NEW c \in Cmds, RunCmdBusy(c) PROVE LatchInv'
    BY <1>0, <1>2, QuietStep, ZenonT(40) DEF RunCmdBusy, QuietMove, Phases
  <1>3. ASSUME NEW c \in AllCmds, RunCmd(c) PROVE LatchInv'
    BY <1>0, <1>3, QuietStep, Zenon DEF RunCmd, QuietMove, Phases
  <1>4. ASSUME NEW c \in AllCmds, Acquire(c) PROVE LatchInv'
    <2>1. PICK h \in Hashes : h = NextHash(c) /\ h \in Required[c] \ owned[c] /\ \A g \in Required[c] \ owned[c] : h <= g
      BY <1>4, NextHashProps DEF Acquire, LatchInv, OwnedByPhase
    <2>2. pc[c] \in {"acquire", "wakeup"} /\ wake' = wake /\ next' = next
      BY <1>4 DEF Acquire
    <2>3. CASE queue[h] # << >> /\ Head(queue[h]) = c
      <3>1. /\ queue' = queue
            /\ owned' = [owned EXCEPT ![c] = owned[c] \cup {h}]
            /\ pc' = [pc EXCEPT ![c] = IF Required[c] = owned'[c] THEN "ready" ELSE pc[c]]
        BY <1>4, <2>1, <2>3, Zenon DEF Acquire
      <3>2. owned'[c] = owned[c] \cup {h}
        BY <3>1 DEF LatchInv, TypeOK
      <3>. QED
        BY <1>0, <2>1, <2>2, <2>3, <3>1, <3>2, AcquireGets, Zenon
    <2>4. CASE queue[h] = << >>
      <3>1. /\ queue' = [queue EXCEPT ![h] = Append(queue[h], c)]
            /\ owned' = [owned EXCEPT ![c] = owned[c] \cup {h}]
            /\ pc' = [pc EXCEPT ![c] = IF Required[c] = owned'[c] THEN "ready" ELSE pc[c]]
        BY <1>4, <2>1, <2>4 DEF Acquire
      <3>2. owned'[c] = owned[c] \cup {h}
        BY <3>1 DEF LatchInv, TypeOK
      <3>3. queue' = [queue EXCEPT ![h] = <<c>>]
        BY <2>4, <3>1
      <3>. QED
        BY <1>0, <2>1, <2>2, <2>4, <3>1, <3>2, <3>3, AcquireGets, Zenon
    <2>5. CASE queue[h] # << >> /\ Head(queue[h]) # c
      <3>1. /\ queue' = [queue EXCEPT ![h] = Append(queue[h], c)]
            /\ owned' = owned
            /\ pc' = [pc EXCEPT ![c] = "waiting"]
        BY <1>4, <2>1, <2>5, Zenon DEF Acquire
      <3>. QED
        BY <1>0, <2>1, <2>2, <2>5, <3>1, AcquireWaits, Zenon
    <2>. QED
      BY <2>3, <2>4, <2>5
  <1>5. ASSUME NEW c \in AllCmds, ExecuteFail(c) \/ ProcessFail(c) \/ ErroredFinish(c) PROVE LatchInv'
    <2>1. pc[c] \in {"ready", "process", "errored"} /\ FinishWithErr(c)
      BY <1>5, SMTT(30) DEF ExecuteFail, ProcessFail, ErroredFinish
    <2>. QED
      BY <1>0, <2>1, QuietStep, Zenon DEF FinishWithErr, QuietMove, Phases
  <1>6. ASSUME NEW c \in AllCmds, ExecuteOwn(c) PROVE LatchInv'
    BY <1>0, <1>6, QuietStep, ZenonT(40) DEF ExecuteOwn, QuietMove, Phases
  <1>7. ASSUME NEW c \in AllCmds, ProcessWrite(c) PROVE LatchInv'
    BY <1>0, <1>7, QuietStep, Zenon DEF ProcessWrite, QuietMove, Phases
  <1>8. ASSUME NEW c \in AllCmds, NEW n \in Resumed \cup {None}, WriteFinished(c, n) PROVE LatchInv'
    <2>1. CASE n = None
      <3>1. next' = next
        <4>1. next[c] = None
          BY <1>8 DEF WriteFinished, LatchInv, ReleaseState
        <4>2. next' = [next EXCEPT ![c] = None]
          BY <1>8, <2>1 DEF WriteFinished
        <4>. QED
          BY <4>1, <4>2 DEF LatchInv, TypeOK
      <3>2. /\ pc' = [pc EXCEPT ![c] = "release"] /\ pc[c] \in {"process", "write"}
            /\ UNCHANGED <<queue, owned, wake>>
        BY <1>8, <2>1 DEF WriteFinished
      <3>. QED
        BY <1>0, <3>1, <3>2, QuietStep, Zenon DEF QuietMove, Phases
    <2>2. CASE n \in Resumed /\ n # None
      BY <1>0, <1>8, <2>2, KeepStep, Zenon DEF WriteFinished
    <2>. QED
      BY <2>1, <2>2, SMTT(30)
  <1>9. ASSUME NEW c \in AllCmds, Release(c) PROVE LatchInv'
    <2>1. owned[c] \subseteq Hashes /\ owned[c] \subseteq Nat /\ owned[c] # {}
      BY <1>9, HashesAssumption, Zenon DEF LatchInv, TypeOK, Release
    <2>2. PICK h \in Hashes : h = Least(owned[c]) /\ h \in owned[c]
      BY <2>1, LeastProps
    <2>3. pc[c] = "release" /\ pc' = pc /\ next' = next
      BY <1>9 DEF Release
    <2>4. CASE next[c] # None /\ h \in Required[next[c]]
      <3>1. PICK n \in AllCmds : n = next[c]
        BY <2>4, Types
      <3>2. /\ queue' = [queue EXCEPT ![h] = <<n>> \o Tail(queue[h])]
            /\ owned' = [owned EXCEPT ![c] = @ \ {h}, ![n] = @ \cup {h}]
            /\ wake' = wake
        BY <1>9, <2>2, <2>4, <3>1 DEF Release
      <3>3. n # c
        BY <2>3, <2>4, <3>1 DEF LatchInv, KeptLatches
      <3>4. owned' = [owned EXCEPT ![c] = owned[c] \ {h}, ![n] = owned[n] \cup {h}]
        BY <3>2, <3>3 DEF LatchInv, TypeOK
      <3>. QED
        BY <1>0, <2>2, <2>3, <2>4, <3>1, <3>2, <3>4, ReleaseKept, Zenon
    <2>5. CASE next[c] = None \/ h \notin Required[next[c]]
      <3>1. /\ queue' = [queue EXCEPT ![h] = Tail(queue[h])]
            /\ owned' = [owned EXCEPT ![c] = owned[c] \ {h}]
            /\ wake' = IF Tail(queue[h]) # << >>
                       THEN [wake EXCEPT ![c] = Append(wake[c], Head(Tail(queue[h])))] ELSE wake
        BY <1>9, <2>2, <2>5, Zenon DEF Release
      <3>. QED
        BY <1>0, <2>2, <2>3, <2>5, <3>1, ReleaseFree, Zenon
    <2>. QED
      BY <2>4, <2>5
  <1>10. ASSUME NEW c \in AllCmds, WakeUp(c) PROVE LatchInv'
    <2>1. pc[c] = "release" /\ wake[c] # << >> /\ wake[c] \in Seq(AllCmds) /\ queue' = queue /\ next' = next
      BY <1>10 DEF WakeUp, LatchInv, TypeOK
    <2>2. PICK w \in AllCmds : w = Head(wake[c]) /\ w = wake[c][1] /\ 1 \in 1 .. Len(wake[c])
      BY <2>1, TailFacts, Types
    <2>3. pc[w] = "waiting"
      BY <2>2 DEF LatchInv, WakeUpParked, Parked
    <2>4. PICK h \in Hashes : h = NextHash(w)
      BY <2>3, NextHashProps DEF LatchInv, OwnedByPhase
    <2>5. /\ \/ owned' = owned /\ pc' = [pc EXCEPT ![w] = "wakeup"]
             \/ owned' = [owned EXCEPT ![w] = owned[w] \cup {h}] /\ pc' = [pc EXCEPT ![w] = "errored"]
          /\ wake' = [wake EXCEPT ![c] = Tail(wake[c])]
      BY <1>10, <2>2, <2>4 DEF WakeUp
    <2>. QED
      BY <1>0, <2>1, <2>2, <2>4, <2>5, WakeUpStep, Zenon
  <1>11. ASSUME NEW c \in AllCmds, ReleaseDone(c) PROVE LatchInv'
    <2>1. CASE next[c] = None
      <3>1. /\ pc' = [pc EXCEPT ![c] = "done"] /\ pc[c] = "release" /\ owned[c] = {} /\ wake[c] = << >>
            /\ UNCHANGED <<queue, owned, wake, next>>
        BY <1>11, <2>1 DEF ReleaseDone
      <3>. QED
        BY <1>0, <2>1, <3>1, FinishedStep, ZenonT(40)
    <2>2. CASE next[c] # None
      <3>1. PICK n \in AllCmds : n = next[c] /\ n # None
        BY <2>2, Types
      <3>. QED
        BY <1>0, <1>11, <2>2, <3>1, ResumeStep DEF ReleaseDone
    <2>. QED
      BY <2>1, <2>2
  <1>12. ASSUME NEW c \in AllCmds, EarlyResponse(c) \/ Watcher(c) \/ Expire(c) PROVE LatchInv'
    <2>1. UNCHANGED <<queue, pc, owned, wake, next>>
      BY <1>12 DEF EarlyResponse, Watcher, PrecheckFail, PrecheckOk, DeadlineTimer, Expire
    <2>. QED
      BY <1>0, <1>1, <2>1, QuietStep, Zenon DEF QuietMove, LatchInv, TypeOK
  <1>. QED
    BY <1>2, <1>3, <1>4, <1>5, <1>6, <1>7, <1>8, <1>9, <1>10, <1>11, <1>12 DEF Next, Step

LEMMA LatchInit == Init => LatchInv
  <1>. SUFFICES ASSUME Init PROVE LatchInv
    OBVIOUS
  <1>1. TypeOK
    BY DEF Init, TypeOK, Phases
  <1>2. (\A h \in Hashes : Len(queue[h]) = 0) /\ (\A c \in AllCmds : Len(wake[c]) = 0)
    BY DEF Init
  <1>3. OwnerFirst /\ QueueEntries /\ QueueDistinct
    BY <1>2 DEF Init, OwnerFirst, QueueEntries, QueueDistinct
  <1>4. OwnedByPhase /\ KeptLatches /\ ReleaseState
    BY DEF Init, OwnedByPhase, KeptLatches, ReleaseState
  <1>5. WakeUpParked
    BY <1>2 DEF WakeUpParked
  <1>. QED
    BY <1>1, <1>3, <1>4, <1>5 DEF LatchInv

\* The inductive invariant of latches and wake-ups holds in every state that the
\* scheduler reaches.
THEOREM LatchInvariant == Spec => []LatchInv
  <1>1. LatchInv /\ UNCHANGED vars => LatchInv'
    <2>. SUFFICES ASSUME LatchInv, UNCHANGED vars PROVE LatchInv'
      OBVIOUS
    <2>1. \A x : NextHash(x)' = NextHash(x)
      BY DEF vars, NextHash
    <2>2. (\A x, h : EntryOf(x, h)' <=> EntryOf(x, h)) /\ (\A x : Parked(x)' <=> Parked(x))
      BY <2>1 DEF vars, EntryOf, Parked
    <2>3. TypeOK' /\ OwnerFirst' /\ QueueDistinct' /\ OwnedByPhase' /\ KeptLatches' /\ ReleaseState'
      BY DEF vars, LatchInv, TypeOK, OwnerFirst, QueueDistinct, OwnedByPhase, KeptLatches, ReleaseState
    <2>4. QueueEntries'
      BY <2>2 DEF vars, LatchInv, QueueEntries
    <2>5. WakeUpParked'
      BY <2>2, ParkedStays DEF vars
    <2>. QED
      BY <2>3, <2>4, <2>5 DEF LatchInv
  <1>. QED
    BY <1>1, LatchInit, LatchStep, PTL DEF Spec

\* TypeOK for every set of commands and of key hashes.
THEOREM TypeCorrect == Spec => []TypeOK
  <1>1. LatchInv => TypeOK
    BY DEF LatchInv
  <1>. QED
    BY <1>1, LatchInvariant, PTL

\* The assert_eq! of Latch::pop_front's caller in Latches::release never fails: a
\* command only releases a latch in whose queue it stands first.
THEOREM OwnersAreFirst == Spec => []OwnerFirst
  <1>1. LatchInv => OwnerFirst
    BY DEF LatchInv
  <1>. QED
    BY <1>1, LatchInvariant, PTL

\* The unwraps of acquire_lock_on_wakeup never fail: a woken command is parked,
\* first in the queue it waits in, and on one wakeup list only.
THEOREM WokenAreParked == Spec => []WakeUpParked
  <1>1. LatchInv => WakeUpParked
    BY DEF LatchInv
  <1>. QED
    BY <1>1, LatchInvariant, PTL

\* Commands with a key hash in common never overlap between snapshot and write.
THEOREM LatchesExclude == Spec => []MutualExclusion
  <1>1. LatchInv => MutualExclusion
    <2>. SUFFICES ASSUME LatchInv, NEW c \in AllCmds, NEW d \in AllCmds, c # d,
                         pc[c] \in {"ready", "process", "write"},
                         pc[d] \in {"ready", "process", "write"},
                         NEW h \in Required[c] \cap Required[d]
                  PROVE  FALSE
      BY DEF MutualExclusion
    <2>1. h \in owned[c] /\ h \in owned[d]
      BY DEF LatchInv, OwnedByPhase
    <2>. QED
      BY <2>1 DEF LatchInv, OwnerFirst
  <1>. QED
    BY <1>1, LatchInvariant, PTL

\* The claim of latch.rs: of two commands, the same one is ahead in every queue
\* that both stand in.
THEOREM LatchesOrdered == Spec => []LatchOrder
  <1>1. LatchInv => LatchOrder
    <2>. SUFFICES ASSUME LatchInv, NEW c \in AllCmds, NEW d \in AllCmds,
                         NEW g \in Hashes, NEW h \in Hashes, Ahead(c, d, g), Ahead(d, c, h)
                  PROVE  FALSE
      BY DEF LatchOrder
    <2>1. PICK i \in 1 .. Len(queue[g]), j \in 1 .. Len(queue[g]) :
              i < j /\ queue[g][i] = c /\ queue[g][j] = d
      BY DEF Ahead
    <2>2. PICK k \in 1 .. Len(queue[h]), l \in 1 .. Len(queue[h]) :
              k < l /\ queue[h][k] = d /\ queue[h][l] = c
      BY DEF Ahead
    <2>3. j > 1 /\ l > 1
      BY <2>1, <2>2
    <2>4. pc[d] = "waiting" /\ g \notin owned[d] /\ EntryOf(d, g) /\ EntryOf(d, h)
      BY <2>1, <2>2, <2>3 DEF LatchInv, QueueEntries
    <2>5. pc[c] = "waiting" /\ h \notin owned[c] /\ EntryOf(c, h) /\ EntryOf(c, g)
      BY <2>1, <2>2, <2>3 DEF LatchInv, QueueEntries
    <2>6. g = NextHash(d) /\ h = NextHash(c)
      BY <2>4, <2>5 DEF EntryOf
    <2>7. g # h
      BY <2>1, <2>2 DEF LatchInv, QueueDistinct
    <2>8. g \in owned[c] /\ h \in owned[d]
      BY <2>4, <2>5, <2>6, <2>7 DEF EntryOf
    <2>9. g \in Required[d] \ owned[d] /\ h \in Required[c] \ owned[c]
      BY <2>4, <2>5, <2>6, NextHashProps DEF LatchInv, OwnedByPhase
    <2>10. g < h /\ h < g
      BY <2>4, <2>5, <2>8, <2>9 DEF LatchInv, OwnedByPhase
    <2>. QED
      BY <2>10, HashesAssumption
  <1>. QED
    BY <1>1, LatchInvariant, PTL

=============================================================================
