----------------------------- MODULE LatchQueues -----------------------------
(***************************************************************************)
(* What module Scheduler assumes of the latches that share one slot        *)
(* (src/storage/txn/latch.rs): a FIFO per key hash, the command that is    *)
(* first owns the latch, and the next one is reported when it leaves.      *)
(***************************************************************************)
EXTENDS Integers, Sequences

CONSTANTS Hashes, Cids, NoCid

VARIABLES
    queue,   \* queue[h]: the commands that wait for or own the latch of hash h
    answer   \* what the last call returned: the owner after an acquire, the
             \* command to wake up after a release

Init ==
    /\ queue = [h \in Hashes |-> << >>]
    /\ answer = NoCid

Acquire(h, c) ==
    /\ \A i \in 2 .. Len(queue[h]) : queue[h][i] # c
    /\ queue' = IF queue[h] # << >> /\ Head(queue[h]) = c THEN queue
                ELSE [queue EXCEPT ![h] = Append(@, c)]
    /\ answer' = Head(queue'[h])

\* n is the command the latch is kept for, or NoCid.
Release(h, n) ==
    /\ queue[h] # << >>
    /\ \A i \in 2 .. Len(queue[h]) : queue[h][i] # n
    /\ queue' = [queue EXCEPT ![h] = IF n = NoCid THEN Tail(@) ELSE <<n>> \o Tail(@)]
    /\ answer' = IF n # NoCid \/ Tail(queue[h]) = << >> THEN NoCid ELSE Head(Tail(queue[h]))

Next ==
    \E h \in Hashes :
        \/ \E c \in Cids : Acquire(h, c)
        \/ \E n \in Cids \cup {NoCid} : Release(h, n)

Spec == Init /\ [][Next]_<<queue, answer>>

=============================================================================
