------------------------- MODULE MCDeadlockDetection -------------------------
(* Instances of DeadlockDetection for TLC: two stores, the first is the leader. *)
EXTENDS DeadlockDetection

TwoStores == {1, 2}
StoreOfKey == [k \in {1, 2, 3} |-> IF k = 1 THEN 1 ELSE 2]
ThreeTxns == {1, 2, 3}
ThreeKeys == {1, 2, 3}

\* Each of two transactions wants the other's key; one is legacy, one resumable; one of
\* them asks again; something fails once.
Cross ==
    [holder |-> <<1, 2, 0>>, wants |-> <<{2}, {1}, {}>>, resumable |-> {2}, resend |-> TRUE,
     max_requests |-> 3, max_releases |-> 0, max_faults |-> 1]
\* A ring of three.
Ring ==
    [holder |-> <<1, 2, 3>>, wants |-> <<{2}, {3}, {1}>>, resumable |-> {}, resend |-> FALSE,
     max_requests |-> 3, max_releases |-> 0, max_faults |-> 1]
\* A third transaction takes the key that a resumable one waits for.
Handover ==
    [holder |-> <<1, 2, 3>>, wants |-> <<{2}, {}, {1, 2}>>, resumable |-> {1, 3}, resend |-> TRUE,
     max_requests |-> 2, max_releases |-> 1, max_faults |-> 0]
\* A legacy one is woken up and asks again for the key that another one took.
Retry == [Handover EXCEPT !.resumable = {}, !.resend = FALSE, !.max_requests = 3]

AllWorkloads == {Cross, Ring, Handover, Retry}
=============================================================================
