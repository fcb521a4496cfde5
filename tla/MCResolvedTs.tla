----------------------------- MODULE MCResolvedTs -----------------------------
EXTENDS ResolvedTs

Workload(kind, keys) ==
    [kind |-> kind, keys |-> keys, rollbacks |-> {}, tso |-> 3, scans |-> 1, pushes |-> 0,
     transfers |-> 0, splits |-> 0, failures |-> FALSE, evicts |-> FALSE, late |-> FALSE,
     electors |-> {3}, ready |-> FALSE]

One(kind, keys) == Workload(<<kind, "none">>, <<keys, {}>>)

Late == [One("2pc", {1}) EXCEPT !.tso = 4, !.late = TRUE]

Failing == [One("2pc", {1}) EXCEPT !.failures = TRUE, !.scans = 2, !.tso = 2]

\* A split after the scan, and one that may come while it runs.
Splitting == [One("2pc", {1}) EXCEPT !.ready = TRUE, !.splits = 1, !.scans = 2]

SplitEarly == [One("2pc", {1}) EXCEPT !.splits = 1, !.scans = 2, !.tso = 1]

Async == One("async", {1})

AsyncTwo == [One("async", {1, 2}) EXCEPT !.ready = TRUE, !.tso = 2]

OnePc == One("1pc", {1})

TwoPhaseTransfer == [One("2pc", {1}) EXCEPT !.ready = TRUE, !.transfers = 1, !.scans = 2]

Backwards == [One("2pc", {1}) EXCEPT !.ready = TRUE, !.transfers = 2, !.scans = 3, !.tso = 1,
                                   !.electors = Voters]

\* The first transaction is rolled back on a key the second may have locked.
Foreign == [Workload(<<"2pc", "2pc">>, <<{1}, {1}>>) EXCEPT !.rollbacks = {1}]

ForeignReady == [Foreign EXCEPT !.tso = 4, !.ready = TRUE]

Large == [One("large", {1, 2}) EXCEPT !.ready = TRUE, !.pushes = 1, !.evicts = TRUE]

LargeRollback == [One("large", {1}) EXCEPT !.ready = TRUE, !.rollbacks = {1}, !.pushes = 1]

\* The commit_ts of the first transaction may be the start_ts of the second.
Overlapping == [Workload(<<"async", "2pc">>, <<{1}, {1, 2}>>) EXCEPT !.ready = TRUE, !.rollbacks = {2},
                                                                       !.tso = 2]

OnePcTransfer == [One("1pc", {1}) EXCEPT !.ready = TRUE, !.transfers = 1]

\* A large transaction that the scan finds, one that meets another's rollback.
LargeScan == [One("large", {1, 2}) EXCEPT !.tso = 2]

LargeForeign == [Workload(<<"2pc", "large">>, <<{1}, {1, 2}>>) EXCEPT !.ready = TRUE, !.rollbacks = {1}]

\* Only rollbacks arrive. A replica that lags behind gets more items than it keeps.
Lagging == [Workload(<<"lost", "lost">>, <<{1, 2}, {1}>>) EXCEPT !.ready = TRUE, !.rollbacks = {1, 2},
                                                                    !.tso = 6]

AllWorkloads ==
    {Late, Failing, Splitting, SplitEarly, Async, AsyncTwo, OnePc, OnePcTransfer, TwoPhaseTransfer,
     Backwards, Foreign, ForeignReady, Overlapping, Large, LargeRollback,
     LargeScan, LargeForeign, Lagging}

OnePcOnly == {OnePc}
=============================================================================
