------------------------------ MODULE LatchSlot ------------------------------
(***************************************************************************)
(* One slot of Latches (src/storage/txn/latch.rs): a deque of the entries  *)
(* (hash, command) of all the hashes that map to the slot, in which an     *)
(* entry that leaves from the middle becomes a hole.                       *)
(***************************************************************************)
EXTENDS Integers, SequencesExt

CONSTANTS
    Hashes,   \* the key hashes that map to this slot
    Cids,     \* the commands
    NoCid,    \* Option::None of a command id
    MaxLen    \* bound on the length of the deque

VARIABLES waiting, answer

vars == <<waiting, answer>>

Hole == [hash |-> -1, cid |-> NoCid]
Entry(h, c) == [hash |-> h, cid |-> c]

\* The positions of the entries of a hash, first one first.
Positions(h) == {i \in DOMAIN waiting : waiting[i].hash = h}

\* The deque without the holes at its front.
DropHoles(s) ==
    IF \A i \in DOMAIN s : s[i] = Hole THEN << >>
    ELSE LET k == CHOOSE i \in DOMAIN s : s[i] # Hole /\ \A j \in 1 .. i - 1 : s[j] = Hole
         IN  SubSeq(s, k, Len(s))

GetFirstReqByHash(h, s) ==
    LET hits == SelectSeq(s, LAMBDA e : e.hash = h)
    IN  IF hits = << >> THEN NoCid ELSE Head(hits).cid

\* Mutant: the holes at the front are left after the front entry is popped.
PopFrontNoShrink(h, s) ==
    IF Head(s).hash = h THEN Tail(s)
    ELSE LET k == CHOOSE i \in DOMAIN s : s[i].hash = h /\ \A j \in 1 .. i - 1 : s[j].hash # h
         IN  [s EXCEPT ![k] = Hole]

\* Mutant: the last entry of the hash leaves.
PopBack(h, s) ==
    IF Head(s).hash = h THEN DropHoles(Tail(s))
    ELSE LET k == CHOOSE i \in DOMAIN s : s[i].hash = h /\ \A j \in i + 1 .. Len(s) : s[j].hash # h
         IN  [s EXCEPT ![k] = Hole]

\* Latch::pop_front: the first entry of hash h leaves, from the front with the
\* holes behind it, from elsewhere by leaving a hole.  A hole at the front would
\* be popped and dropped.
PopFront(h, s) ==
    LET t == IF Head(s) = Hole THEN Tail(s) ELSE s IN
    IF Head(s).hash = h THEN DropHoles(Tail(s))
    ELSE LET k == CHOOSE i \in DOMAIN t : t[i].hash = h /\ \A j \in 1 .. i - 1 : t[j].hash # h
         IN  [t EXCEPT ![k] = Hole]

Init ==
    /\ waiting = << >>
    /\ answer = NoCid

\* One iteration of Latches::acquire.  A command asks for a latch when it is not
\* in its queue, or has been woken up as the first one (QueueEntries, Scheduler).
Acquire(h, c) ==
    LET first == GetFirstReqByHash(h, waiting) IN
    /\ \A i \in Positions(h) : waiting[i].cid = c => first = c
    /\ IF first = c THEN waiting' = waiting
       ELSE /\ Len(waiting) < MaxLen
            /\ waiting' = Append(waiting, Entry(h, c))
    /\ answer' = IF first = NoCid THEN c ELSE first

\* One iteration of Latches::release by the owner of the latch; n is the command
\* the latch is kept for, which is in no queue yet, or NoCid.
Release(h, n) ==
    LET rest == PopFront(h, waiting) IN
    /\ Positions(h) # {}
    /\ \A i \in DOMAIN waiting : waiting[i] # Entry(h, n)
    /\ n # NoCid => Len(rest) < MaxLen
    /\ waiting' = IF n = NoCid THEN rest ELSE <<Entry(h, n)>> \o rest
    /\ answer' = IF n = NoCid THEN GetFirstReqByHash(h, rest) ELSE NoCid

Next ==
    \E h \in Hashes :
        \/ \E c \in Cids : Acquire(h, c)
        \/ \E n \in Cids \cup {NoCid} : Release(h, n)

Spec == Init /\ [][Next]_vars

-----------------------------------------------------------------------------
\* The deque never starts with a hole: pop_front's branch for one is dead code,
\* and a slot nobody waits in is empty (the "not too long" of its comment).
NoLeadingHole == waiting = << >> \/ Head(waiting) # Hole

\* The queues per hash that the deque stands for.
Fifo(h) == [i \in 1 .. Len(SelectSeq(waiting, LAMBDA e : e.hash = h)) |->
               SelectSeq(waiting, LAMBDA e : e.hash = h)[i].cid]

Queues == INSTANCE LatchQueues WITH queue <- [h \in Hashes |-> Fifo(h)]

\* The slot behaves as one FIFO per hash: entries of other hashes and holes
\* never change who owns a latch or who is woken up.
ImplementsQueues == Queues!Spec

=============================================================================
