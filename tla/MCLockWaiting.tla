---------------------------- MODULE MCLockWaiting ----------------------------
(* Instances of LockWaiting for TLC: two or three requests, each of them legacy or         *)
(* resumable, and four requests of which the second in priority is resumable.              *)
EXTENDS LockWaiting

TwoRequests == 1..2
ThreeRequests == 1..3
FourRequests == 1..4
AnyOfTwo == SUBSET TwoRequests
AnyOfThree == SUBSET ThreeRequests
SecondOfFour == {{2}}
=============================================================================
