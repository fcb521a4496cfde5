---------------------------- MODULE MCPercolator ----------------------------
(* Instances of Percolator for TLC: two keys, two transactions, one reader. *)
EXTENDS Percolator, TLC

T1 == "t1"
T2 == "t2"
R == "r"
TwoKeys == {1, 2}
TwoTxns == {T1, T2}
OneReader == {R}
NoReader == {}

Pair(a, b) == (T1 :> a) @@ (T2 :> b)

\* t1 writes both keys and t2 the second one, with optimistic 2PC. The other workloads
\* differ from this one.
TwoPc ==
    [active |-> {T1, T2}, keys |-> Pair({1, 2}, {2}), primary |-> Pair(1, 2),
     mode |-> Pair("2pc", "2pc"), lock_keys |-> Pair({}, {}), force_lock |-> {},
     need_value |-> {}, max_commit_ts |-> Pair(0, 0), volatile |-> FALSE,
     max_tso |-> 5, max_statements |-> 1, max_transfers |-> 0]
TwoPcRead == [TwoPc EXCEPT !.active = {T1, R}]
Async ==
    [TwoPc EXCEPT !.mode = Pair("async", "async"), !.max_commit_ts = Pair(3, 0),
                  !.max_tso = 4, !.max_transfers = 1]
AsyncRead == [Async EXCEPT !.active = {T1, R}]
OnePc == [TwoPc EXCEPT !.mode = Pair("2pc", "1pc"), !.max_tso = 4, !.max_transfers = 1]

\* One key: t1 locks it pessimistically in up to two statements, t2 is optimistic.
Pessimistic ==
    [TwoPc EXCEPT !.keys = Pair({2}, {2}), !.primary = Pair(2, 2), !.lock_keys = Pair({2}, {}),
                  !.need_value = {T1}, !.volatile = TRUE, !.max_statements = 2]
ForceLocking ==
    [Pessimistic EXCEPT !.mode = Pair("1pc", "2pc"), !.force_lock = {T1}, !.need_value = {}]
PessimisticAsync ==
    [TwoPc EXCEPT !.mode = Pair("async", "2pc"), !.lock_keys = Pair({1, 2}, {}),
                  !.volatile = TRUE, !.max_tso = 4]
PessimisticOnePc ==
    [TwoPc EXCEPT !.mode = Pair("async", "1pc"), !.lock_keys = Pair({}, {2}),
                  !.volatile = TRUE]
\* t1 locks its row key and not its index key.
IndexKey ==
    [TwoPc EXCEPT !.active = {T1}, !.mode = Pair("async", "2pc"), !.lock_keys = Pair({1}, {}),
                  !.max_tso = 4, !.max_statements = 2]

AllWorkloads ==
    {TwoPc, TwoPcRead, Async, AsyncRead, OnePc, Pessimistic, ForceLocking, PessimisticAsync,
     PessimisticOnePc}
IndexKeyWorkloads == {IndexKey}
=============================================================================
