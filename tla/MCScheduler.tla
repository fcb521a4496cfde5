----------------------------- MODULE MCScheduler -----------------------------
(* Three client commands with pairwise overlapping key sets (a cycle if latches *)
(* were not taken in order) and one resumed lock request.                       *)
EXTENDS Scheduler, TLC

c1 == "c1"
c2 == "c2"
c3 == "c3"
r1 == "r1"
MCCmds == {c1, c2, c3}
MCTwoCmds == {c1, c3}
MCResumed == {r1}
MCHashes == 1..3
MCRequired == (c1 :> {1, 2}) @@ (c2 :> {2, 3}) @@ (c3 :> {1, 2, 3}) @@ (r1 :> {2})
MCImpatient == {c3}

=============================================================================
