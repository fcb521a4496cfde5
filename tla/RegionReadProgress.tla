------------------------- MODULE RegionReadProgress -------------------------
(***************************************************************************)
(* RegionReadProgressCore (raftstore, util.rs): a replica's safe_ts. A     *)
(* progress is a record                                                    *)
(*   applied        applied_index,                                         *)
(*   state          read_state, the item [idx, ts] with the safe_ts,       *)
(*   pending_items  items whose idx the replica has not applied yet.       *)
(* A replica may serve a read at a timestamp up to state.ts from its own   *)
(* data. pause, discard and merge_safe_ts (witnesses, region merges and    *)
(* snapshots) are not modelled.                                            *)
(***************************************************************************)
EXTENDS Integers, Sequences

CONSTANT Cap    \* the capacity of pending_items, REGION_READ_PROGRESS_CAP

\* With a capacity of 1 push_back would drop nothing from a full list.
ASSUME CapAssumption == Cap \in Nat /\ Cap >= 2

Item == [idx : Nat, ts : Nat]

NewProgress == [applied |-> 0, state |-> [idx |-> 0, ts |-> 0], pending_items |-> <<>>]

\* The number of items update_applied takes from the front.
Consumed(items, applied) ==
    CHOOSE n \in 0 .. Len(items) :
        /\ \A i \in 1 .. n : items[i].idx <= applied
        /\ n < Len(items) => items[n + 1].idx > applied

\* The item with the largest ts among state and the first n items: the first one of them.
Newest(state, items, n) ==
    IF \A i \in 1 .. n : items[i].ts <= state.ts THEN state
    ELSE items[CHOOSE i \in 1 .. n :
                 /\ items[i].ts > state.ts
                 /\ \A j \in 1 .. n : items[j].ts <= items[i].ts
                 /\ \A j \in 1 .. i - 1 : items[j].ts < items[i].ts]

\* update_applied.
UpdateApplied(p, applied) ==
    LET n == Consumed(p.pending_items, applied)
    IN  [applied |-> applied,
         state |-> Newest(p.state, p.pending_items, n),
         pending_items |-> SubSeq(p.pending_items, n + 1, Len(p.pending_items))]

\* Mutant: the list is taken for full one item too late.
PushBackLate(items, item) ==
    LET kept == IF Len(items) > Cap
                THEN [i \in 1 .. (Len(items) + 1) \div 2 |-> items[2 * i - 1]]
                ELSE items
    IN  Append(kept, item)

\* push_back: when the list is full, every second item is dropped.
PushBack(items, item) ==
    LET kept == IF Len(items) >= Cap
                THEN [i \in 1 .. (Len(items) + 1) \div 2 |-> items[2 * i - 1]]
                ELSE items
    IN  Append(kept, item)

\* update_safe_ts, with the test for zero its two callers make.
UpdateSafeTs(p, idx, ts) ==
    LET items == p.pending_items
        n == Len(items)
    IN  IF idx = 0 \/ ts = 0 THEN p
        ELSE IF p.applied >= idx
        THEN IF p.state.ts < ts THEN [p EXCEPT !.state = [idx |-> idx, ts |-> ts]] ELSE p
        ELSE IF items # <<>> /\ items[n].ts >= ts THEN p
        ELSE IF items # <<>> /\ items[n].idx >= idx THEN [p EXCEPT !.pending_items[n].ts = ts]
        ELSE [p EXCEPT !.pending_items = PushBack(items, [idx |-> idx, ts |-> ts])]

\* The read state get_leader_info reports.
ReadStateOf(p) == IF p.pending_items = <<>> THEN p.state ELSE p.pending_items[Len(p.pending_items)]

-----------------------------------------------------------------------------
(* pending_items is sorted by index and by timestamp and within its         *)
(* capacity, and nothing in it could have been consumed already.            *)
Sorted(p) ==
    /\ Len(p.pending_items) <= Cap
    /\ \A i, j \in 1 .. Len(p.pending_items) :
          i < j => /\ p.pending_items[i].idx < p.pending_items[j].idx
                   /\ p.pending_items[i].ts < p.pending_items[j].ts
    /\ \A i \in 1 .. Len(p.pending_items) : p.pending_items[i].idx > p.applied
    /\ p.state.idx <= p.applied
=============================================================================
