----------------------------- MODULE DetectTable -----------------------------
(***************************************************************************)
(* The table of the deadlock detector (DetectTable in deadlock.rs) as a    *)
(* set of entries <<txn, lock, key>>: transaction txn waits for            *)
(* transaction lock on key. An edge <<txn, lock>> has one entry per key    *)
(* and one last_detect_time; stale is the set of the edges whose ttl has   *)
(* elapsed.                                                                *)
(***************************************************************************)
EXTENDS Integers, Sequences, FiniteSets, SequencesExt

EdgesOf(table) == {<<e[1], e[2]>> : e \in table}

\* The entries of transaction txn for transaction lock (Locks::keys).
Locks(table, txn, lock) == {e \in table : e[1] = txn /\ e[2] = lock}

\* generate_wait_chain: from end back to start along the predecessors, in order.
RECURSIVE WaitChain(_, _)
WaitChain(end, pred) ==
    IF pred[end] = 0 THEN <<>> ELSE Append(WaitChain(pred[end], pred), <<pred[end], end>>)

NotFound(table) == [table |-> table, found |-> FALSE, chain |-> <<>>]

\* The loop of do_detect. The top of the stack is its last element; order is the order in
\* which the map yields the edges of a vertex. Expired edges are removed on the way.
RECURSIVE Search(_, _, _, _, _, _)
Search(table, stale, txn, stack, pred, order) ==
    IF stack = <<>> THEN NotFound(table)
    ELSE LET curr == Last(stack)
             live == {e \in table : e[1] = curr => <<e[1], e[2]>> \notin stale}
             next == SelectSeq(order, LAMBDA v : v \notin DOMAIN pred /\ Locks(live, curr, v) # {})
         IN  IF Locks(live, curr, txn) # {}
             THEN [table |-> live, found |-> TRUE,
                   chain |-> Append(WaitChain(curr, pred), <<curr, txn>>)]
             ELSE Search(live, stale, txn, Front(stack) \o next,
                         [v \in DOMAIN pred \cup ToSet(next) |->
                             IF v \in DOMAIN pred THEN pred[v] ELSE curr],
                         order)

\* Mutant: the ttl of the edges is not looked at.
DoDetectExpired(table, stale, txn, wait_for, order) ==
    Search(table, {}, txn, <<wait_for>>, [v \in {wait_for} |-> 0], order)

\* do_detect: is there a path from wait_for to txn?
DoDetect(table, stale, txn, wait_for, order) ==
    Search(table, stale, txn, <<wait_for>>, [v \in {wait_for} |-> 0], order)

\* active_expire, once the table is large and an hour has passed.
ActiveExpire(table, stale) == {e \in table : <<e[1], e[2]>> \notin stale}

\* Mutant: only cycles of two transactions are found.
DetectTwo(table0, stale, txn, lock, key, order, expire) ==
    IF Locks(table0, lock, txn) # {}
    THEN [table |-> table0, found |-> TRUE, chain |-> <<<<lock, txn>>>>]
    ELSE NotFound(table0 \cup {<<txn, lock, key>>})

\* detect: an edge that exists gets the key and a new time (register_if_existed); a new
\* one is searched for a cycle and registered if there is none (register).
Detect(table0, stale, txn, lock, key, order, expire) ==
    LET table == IF expire THEN ActiveExpire(table0, stale) ELSE table0
        d == DoDetect(table, stale, txn, lock, order)
    IN  IF Locks(table, txn, lock) # {} THEN NotFound(table \cup {<<txn, lock, key>>})
        ELSE IF d.found THEN d
        ELSE NotFound(d.table \cup {<<txn, lock, key>>})

\* clean_up_wait_for.
CleanUpWaitFor(table, txn, lock, key) == table \ {<<txn, lock, key>>}

-----------------------------------------------------------------------------
(* Reference definitions.                                                   *)

\* The vertices that can be reached from v along the edges E.
RECURSIVE ReachedFrom(_, _)
ReachedFrom(V, E) ==
    LET W == V \cup {e[2] : e \in {f \in E : f[1] \in V}}
    IN  IF W = V THEN V ELSE ReachedFrom(W, E)

\* There is a path of at least one edge from v to w.
Path(E, v, w) == w \in ReachedFrom({e[2] : e \in {f \in E : f[1] = v}}, E)

Acyclic(E) == \A e \in E : ~Path(E, e[1], e[1])

\* chain leads from v to w along edges of E.
IsChain(chain, E, v, w) ==
    /\ chain # <<>>
    /\ ToSet(chain) \subseteq E
    /\ Head(chain)[1] = v /\ Last(chain)[2] = w
    /\ \A i \in 1 .. Len(chain) - 1 : chain[i][2] = chain[i + 1][1]
=============================================================================
