---------------------- MODULE RegionReadProgressProofs ----------------------
(***************************************************************************)
(* Proofs about the two operations of a replica's read progress, for every *)
(* capacity of pending_items and every progress: what update_safe_ts and   *)
(* update_applied keep of a sorted progress, that the safe_ts never goes   *)
(* back, and that it always is one the leader published for an index the   *)
(* replica has applied.                                                    *)
(***************************************************************************)
EXTENDS RegionReadProgress, WellFoundedInduction, TLAPS

Progress == [applied : Nat, state : Item, pending_items : Seq(Item)]

\* Every item, and the read state, carries the ts of a published item with an index that
\* is not larger: a replica that has applied x.idx has applied q.idx.
Published(x, published) == \E q \in published : q.ts = x.ts /\ q.idx <= x.idx

Covered(p, published) ==
    /\ Published(p.state, published)
    /\ \A i \in 1 .. Len(p.pending_items) : Published(p.pending_items[i], published)

Good(p, published) == p \in Progress /\ Sorted(p) /\ Covered(p, published)

-----------------------------------------------------------------------------
(* push_back.                                                               *)

LEMMA ItemsLemma ==
    ASSUME NEW items \in Seq(Item), NEW i \in 1 .. Len(items)
    PROVE  items[i] \in Item /\ items[i].idx \in Nat /\ items[i].ts \in Nat
<1>1. items[i] \in Item
  OBVIOUS
<1>. QED
  BY <1>1 DEF Item

LEMMA PushBackLemma ==
    ASSUME NEW items \in Seq(Item), NEW item \in Item, Len(items) <= Cap
    PROVE  LET pushed == PushBack(items, item)
               n == Len(pushed)
           IN  /\ pushed \in Seq(Item) /\ n \in 1 .. Cap /\ pushed[n] = item
               /\ \A i \in 1 .. n - 1 : \E k \in 1 .. Len(items) : k >= i /\ pushed[i] = items[k]
               /\ \A i, j \in 1 .. n - 1 : i < j =>
                     \E k, l \in 1 .. Len(items) : k < l /\ pushed[i] = items[k] /\ pushed[j] = items[l]
<1>. DEFINE m == (Len(items) + 1) \div 2
            half == [i \in 1 .. m |-> items[2 * i - 1]]
            pushed == PushBack(items, item)
<1>1. CASE Len(items) >= Cap
  <2>1. m \in Nat /\ m + 1 <= Cap /\ \A i \in 1 .. m : 2 * i - 1 \in 1 .. Len(items)
    BY <1>1, CapAssumption
  <2>2. half \in Seq(Item) /\ Len(half) = m
    BY <2>1
  <2>3. pushed = Append(half, item)
    BY <1>1 DEF PushBack
  <2>. HIDE DEF m, pushed
  <2>4. \A i \in 1 .. m : half[i] = items[2 * i - 1]
    OBVIOUS
  <2>. HIDE DEF half
  <2>5. /\ pushed \in Seq(Item) /\ Len(pushed) = m + 1 /\ pushed[m + 1] = item
        /\ \A i \in 1 .. m : pushed[i] = half[i]
    BY <2>1, <2>2, <2>3
  <2>6. Len(pushed) - 1 = m /\ Len(pushed) \in 1 .. Cap
    BY <2>1, <2>5, CapAssumption
  <2>7. \A i \in 1 .. m : 2 * i - 1 >= i
    BY <2>1
  <2>8. \A i \in 1 .. m : \E k \in 1 .. Len(items) : k >= i /\ pushed[i] = items[k]
    BY <2>1, <2>4, <2>5, <2>7
  <2>9. \A i, j \in 1 .. m : i < j =>
           \E k, l \in 1 .. Len(items) : k < l /\ pushed[i] = items[k] /\ pushed[j] = items[l]
    <3>. SUFFICES ASSUME NEW i \in 1 .. m, NEW j \in 1 .. m, i < j
                  PROVE  \E k, l \in 1 .. Len(items) :
                            k < l /\ pushed[i] = items[k] /\ pushed[j] = items[l]
      OBVIOUS
    <3>. DEFINE k == 2 * i - 1
                l == 2 * j - 1
    <3>1. k \in 1 .. Len(items) /\ l \in 1 .. Len(items) /\ k < l
      BY <2>1
    <3>2. pushed[i] = items[k] /\ pushed[j] = items[l]
      BY <2>4, <2>5
    <3>. HIDE DEF k, l
    <3>. QED
      BY <3>1, <3>2
  <2>. QED
    BY <2>5, <2>6, <2>8, <2>9 DEF pushed
<1>2. CASE ~(Len(items) >= Cap)
  <2>1. PushBack(items, item) = Append(items, item)
    BY <1>2 DEF PushBack
  <2>. QED
    BY <1>2, <2>1, CapAssumption
<1>. QED
  BY <1>1, <1>2

-----------------------------------------------------------------------------
(* update_applied.                                                          *)

\* A set of natural numbers has a smallest one.
LEMMA Smallest ==
    ASSUME NEW T, T \subseteq Nat, T # {}
    PROVE  \E x \in T : \A y \in T : x <= y
<1>. DEFINE R == OpToRel(<, Nat)
<1>1. PICK x \in T : \A y \in T : <<y, x>> \notin R
  <2>1. IsWellFoundedOn(R, Nat)
    BY NatLessThanWellFounded, Zenon
  <2>. HIDE DEF R
  <2>. QED
    BY <2>1, WFMin, Zenon
<1>2. \A y \in T : ~(y < x)
  BY <1>1, Zenon DEF OpToRel
<1>. QED
  BY <1>2

\* The loop of update_applied stops at the first item that is not applied, if there is one.
LEMMA ConsumedLemma ==
    ASSUME NEW items \in Seq(Item), NEW applied \in Nat
    PROVE  LET n == Consumed(items, applied)
           IN  /\ n \in 0 .. Len(items)
               /\ \A i \in 1 .. n : items[i].idx <= applied
               /\ n < Len(items) => items[n + 1].idx > applied
<1>. DEFINE Stops(n) == /\ \A i \in 1 .. n : items[i].idx <= applied
                        /\ n < Len(items) => items[n + 1].idx > applied
            T == {i \in 1 .. Len(items) : items[i].idx > applied}
<1>1. \A i \in 1 .. Len(items) : items[i].idx \in Nat
  BY ItemsLemma
<1>2. \E n \in 0 .. Len(items) : Stops(n)
  <2>1. CASE T = {}
    <3>1. Stops(Len(items))
      BY <1>1, <2>1
    <3>. QED
      BY <3>1
  <2>2. CASE T # {}
    <3>1. PICK x \in T : \A y \in T : x <= y
      <4>. T \subseteq Nat
        OBVIOUS
      <4>. HIDE DEF T
      <4>. QED
        BY <2>2, Smallest, Zenon
    <3>2. x \in 1 .. Len(items) /\ items[x].idx > applied
      BY <3>1
    <3>3. \A i \in 1 .. x - 1 : items[i].idx <= applied
      BY <1>1, <3>1, <3>2
    <3>4. x - 1 \in 0 .. Len(items) /\ Stops(x - 1)
      BY <3>2, <3>3
    <3>. QED
      BY <3>4, Zenon
  <2>. QED
    BY <2>1, <2>2
<1>3. Consumed(items, applied) = CHOOSE n \in 0 .. Len(items) : Stops(n)
  BY DEF Consumed
<1>. HIDE DEF Stops
<1>4. Consumed(items, applied) \in 0 .. Len(items) /\ Stops(Consumed(items, applied))
  BY <1>2, <1>3
<1>. QED
  BY <1>4 DEF Stops

\* What the loop leaves in the read state: the old one or a consumed item, and the safe_ts
\* is not smaller than before.
LEMMA NewestLemma ==
    ASSUME NEW items \in Seq(Item), NEW state \in Item, NEW n \in 0 .. Len(items),
           \A i, j \in 1 .. Len(items) : i < j => items[i].ts < items[j].ts
    PROVE  LET new == Newest(state, items, n)
           IN  /\ new = state \/ \E i \in 1 .. n : new = items[i]
               /\ new.ts >= state.ts
<1>. DEFINE Is(i) == /\ items[i].ts > state.ts
                     /\ \A j \in 1 .. n : items[j].ts <= items[i].ts
                     /\ \A j \in 1 .. i - 1 : items[j].ts < items[i].ts
<1>1. state.ts \in Nat /\ \A i \in 1 .. Len(items) : items[i].ts \in Nat
  BY ItemsLemma DEF Item
<1>2. CASE \A i \in 1 .. n : items[i].ts <= state.ts
  BY <1>1, <1>2 DEF Newest
<1>3. CASE ~\A i \in 1 .. n : items[i].ts <= state.ts
  <2>1. PICK k \in 1 .. n : ~(items[k].ts <= state.ts)
    BY <1>3
  <2>2. n \in 1 .. n /\ items[k].ts <= items[n].ts
    BY <1>1, <2>1
  <2>3. items[n].ts > state.ts
    BY <1>1, <2>1, <2>2
  <2>4. Is(n)
    BY <1>1, <2>3
  <2>5. Newest(state, items, n) = items[CHOOSE i \in 1 .. n : Is(i)]
    BY <1>3 DEF Newest
  <2>. HIDE DEF Is
  <2>6. PICK c \in 1 .. n : Is(c) /\ Newest(state, items, n) = items[c]
    BY <2>2, <2>4, <2>5, Zenon
  <2>. QED
    BY <1>1, <2>6 DEF Is
<1>. QED
  BY <1>2, <1>3

-----------------------------------------------------------------------------
(* The theorems.                                                            *)

LEMMA ProgressTypes ==
    ASSUME NEW p \in Progress
    PROVE  /\ p.applied \in Nat /\ p.state \in Item /\ p.pending_items \in Seq(Item)
           /\ p.state.idx \in Nat /\ p.state.ts \in Nat /\ Len(p.pending_items) \in Nat
BY DEF Progress, Item

\* update_safe_ts, for any item the leader publishes: the progress stays sorted and within
\* its capacity, also when every second item is dropped or the last one is replaced; every
\* item still is a published one, at an index that is not too small; and the safe_ts does
\* not go back.
THEOREM UpdateSafeTsKeeps ==
    ASSUME NEW p, NEW published, Good(p, published), NEW idx \in Nat, NEW ts \in Nat
    PROVE  LET q == UpdateSafeTs(p, idx, ts)
           IN  Good(q, published \cup {[idx |-> idx, ts |-> ts]}) /\ q.state.ts >= p.state.ts
<1>. DEFINE items == p.pending_items
            n == Len(items)
            new == [idx |-> idx, ts |-> ts]
            q == UpdateSafeTs(p, idx, ts)
<1>1. p \in Progress /\ Sorted(p) /\ Covered(p, published)
  BY DEF Good
<1>2. /\ p.applied \in Nat /\ p.state \in Item /\ items \in Seq(Item)
      /\ p.state.idx \in Nat /\ p.state.ts \in Nat /\ n \in Nat
  BY <1>1, ProgressTypes
<1>3. new \in Item /\ new.idx = idx /\ new.ts = ts
  BY DEF Item
<1>4. Covered(p, published \cup {new})
  BY <1>1 DEF Covered, Published
<1>5. CASE q = p
  BY <1>1, <1>2, <1>4, <1>5 DEF Good
<1>6. CASE p.applied >= idx /\ p.state.ts < ts /\ q = [p EXCEPT !.state = new]
  <2>1. q \in Progress /\ q.state = new /\ q.applied = p.applied /\ q.pending_items = items
    BY <1>1, <1>3, <1>6 DEF Progress
  <2>2. Sorted(q)
    BY <1>1, <1>3, <1>6, <2>1 DEF Sorted
  <2>3. Covered(q, published \cup {new})
    BY <1>2, <1>3, <1>4, <2>1 DEF Covered, Published
  <2>. QED
    BY <1>3, <1>6, <1>2, <2>1, <2>2, <2>3 DEF Good
<1>7. CASE /\ p.applied < idx /\ items # <<>> /\ items[n].ts < ts /\ items[n].idx >= idx
           /\ q = [p EXCEPT !.pending_items[n].ts = ts]
  <2>. DEFINE last == [items[n] EXCEPT !.ts = ts]
  <2>1. n \in 1 .. n /\ items[n] \in Item
    BY <1>2, <1>7
  <2>2. last \in Item /\ last.idx = items[n].idx /\ last.ts = ts
    BY <2>1 DEF Item
  <2>. HIDE DEF last
  <2>. DEFINE replaced == [items EXCEPT ![n] = last]
  <2>8. replaced \in Seq(Item)
    BY <1>2, <2>1, <2>2
  <2>9. q = [p EXCEPT !.pending_items = replaced]
    BY <1>7 DEF last
  <2>3. /\ q \in Progress /\ q.state = p.state /\ q.applied = p.applied
        /\ q.pending_items = replaced
    <3>. HIDE DEF replaced, q
    <3>. QED
      BY <1>1, <2>8, <2>9 DEF Progress
  <2>4. /\ Len(q.pending_items) = n /\ q.pending_items[n] = last
        /\ \A i \in 1 .. n - 1 : q.pending_items[i] = items[i]
    BY <1>2, <2>1, <2>3
  <2>5. \A i \in 1 .. n - 1 : items[i].ts < items[n].ts /\ items[i].ts \in Nat /\ items[n].ts \in Nat
    BY <1>1, <1>2, <2>1, ItemsLemma DEF Sorted
  <2>. HIDE DEF replaced, q
  <2>10. \A i \in 1 .. n : i \in 1 .. n - 1 \/ i = n
    BY <1>2
  <2>6. Sorted(q)
    <3>1. \A i, j \in 1 .. n : i < j =>
             /\ q.pending_items[i].idx < q.pending_items[j].idx
             /\ q.pending_items[i].ts < q.pending_items[j].ts
      <4>. SUFFICES ASSUME NEW i \in 1 .. n, NEW j \in 1 .. n, i < j
                    PROVE  /\ q.pending_items[i].idx < q.pending_items[j].idx
                           /\ q.pending_items[i].ts < q.pending_items[j].ts
        OBVIOUS
      <4>1. i \in 1 .. n - 1 /\ items[i].idx < items[j].idx /\ items[i].ts < items[j].ts
        BY <1>1, <1>2 DEF Sorted
      <4>2. CASE j = n
        BY <1>7, <2>2, <2>4, <2>5, <4>1, <4>2
      <4>. QED
        BY <2>4, <2>10, <4>1, <4>2
    <3>2. \A i \in 1 .. n : q.pending_items[i].idx > p.applied
      BY <1>1, <2>1, <2>2, <2>4, <2>10 DEF Sorted
    <3>. QED
      BY <1>1, <2>3, <2>4, <3>1, <3>2 DEF Sorted
  <2>7. Covered(q, published \cup {new})
    <3>1. Published(last, published \cup {new})
      BY <1>3, <1>7, <2>2 DEF Published
    <3>. QED
      BY <1>4, <2>3, <2>4, <2>10, <3>1, Zenon DEF Covered
  <2>. QED
    BY <1>2, <2>3, <2>6, <2>7 DEF Good, q
<1>8. CASE /\ p.applied < idx /\ (items = <<>> \/ (items[n].ts < ts /\ items[n].idx < idx))
           /\ q = [p EXCEPT !.pending_items = PushBack(items, new)]
  <2>. DEFINE pushed == PushBack(items, new)
              m == Len(pushed)
  <2>1. /\ pushed \in Seq(Item) /\ m \in 1 .. Cap /\ pushed[m] = new
        /\ \A i \in 1 .. m - 1 : \E k \in 1 .. n : k >= i /\ pushed[i] = items[k]
        /\ \A i, j \in 1 .. m - 1 : i < j =>
              \E k, l \in 1 .. n : k < l /\ pushed[i] = items[k] /\ pushed[j] = items[l]
    <3>. n <= Cap
      BY <1>1 DEF Sorted
    <3>. HIDE DEF new
    <3>. QED
      BY <1>2, <1>3, PushBackLemma, Zenon
  <2>. HIDE DEF pushed
  <2>2. q \in Progress /\ q.state = p.state /\ q.applied = p.applied /\ q.pending_items = pushed
    BY <1>1, <1>8, <2>1 DEF Progress, pushed
  <2>3. \A i \in 1 .. m - 1 : /\ pushed[i].ts < ts /\ pushed[i].idx < idx
                              /\ pushed[i].idx > p.applied
    <3>1. \A k \in 1 .. n : items[k].ts < ts /\ items[k].idx < idx
      <4>. SUFFICES ASSUME NEW k \in 1 .. n PROVE items[k].ts < ts /\ items[k].idx < idx
        OBVIOUS
      <4>1. n \in 1 .. n /\ items # <<>>
        BY <1>2
      <4>2. /\ items[k].ts \in Nat /\ items[k].idx \in Nat
            /\ items[n].ts \in Nat /\ items[n].idx \in Nat
        BY <1>2, <4>1, ItemsLemma
      <4>3. items[k].ts <= items[n].ts /\ items[k].idx <= items[n].idx
        <5>1. CASE k = n
          BY <4>2, <5>1
        <5>2. CASE k # n
          <6>1. k < n
            BY <1>2, <5>2
          <6>2. items[k].idx < items[n].idx /\ items[k].ts < items[n].ts
            BY <1>1, <4>1, <6>1 DEF Sorted
          <6>. QED
            BY <4>2, <6>2
        <5>. QED
          BY <5>1, <5>2
      <4>. QED
        BY <1>8, <4>1, <4>2, <4>3
    <3>2. \A k \in 1 .. n : items[k].idx > p.applied
      BY <1>1 DEF Sorted
    <3>. QED
      BY <2>1, <3>1, <3>2
  <2>4. \A i, j \in 1 .. m - 1 : i < j =>
           pushed[i].ts < pushed[j].ts /\ pushed[i].idx < pushed[j].idx
    BY <1>1, <2>1, Zenon DEF Sorted
  <2>5. Sorted(q)
    <3>1. \A i \in 1 .. m : i \in 1 .. m - 1 \/ i = m
      BY <2>1, CapAssumption
    <3>2. \A i, j \in 1 .. m : i < j => i \in 1 .. m - 1
      BY <2>1, CapAssumption
    <3>3. \A i, j \in 1 .. m : i < j => pushed[i].idx < pushed[j].idx /\ pushed[i].ts < pushed[j].ts
      BY <1>3, <2>1, <2>3, <2>4, <3>1, <3>2
    <3>4. \A i \in 1 .. m : pushed[i].idx > p.applied
      BY <1>3, <1>2, <1>8, <2>1, <2>3, <3>1
    <3>. QED
      BY <1>1, <2>1, <2>2, <3>3, <3>4, CapAssumption DEF Sorted
  <2>6. Covered(q, published \cup {new})
    <3>1. \A i \in 1 .. m - 1 : Published(pushed[i], published \cup {new})
      BY <1>4, <2>1, Zenon DEF Covered
    <3>2. Published(pushed[m], published \cup {new})
      BY <1>3, <2>1 DEF Published
    <3>3. \A i \in 1 .. m : i \in 1 .. m - 1 \/ i = m
      BY <2>1, CapAssumption
    <3>. QED
      BY <1>4, <2>2, <3>1, <3>2, <3>3, Zenon DEF Covered
  <2>. QED
    BY <1>2, <2>2, <2>5, <2>6 DEF Good
<1>9. /\ p.applied >= idx \/ p.applied < idx
      /\ items # <<>> => items[n].ts \in Nat /\ items[n].idx \in Nat
  BY <1>2, ItemsLemma
<1>. QED
  BY <1>2, <1>5, <1>6, <1>7, <1>8, <1>9 DEF UpdateSafeTs

\* update_applied, for any index that is not smaller than the last: the progress stays
\* sorted, nothing in it could have been consumed, every item still is a published one, and
\* the safe_ts does not go back.
THEOREM UpdateAppliedKeeps ==
    ASSUME NEW p, NEW published, Good(p, published), NEW applied \in Nat, applied >= p.applied
    PROVE  LET q == UpdateApplied(p, applied)
           IN  Good(q, published) /\ q.state.ts >= p.state.ts
<1>. DEFINE items == p.pending_items
            n == Consumed(items, applied)
            new == Newest(p.state, items, n)
            left == SubSeq(items, n + 1, Len(items))
            q == UpdateApplied(p, applied)
<1>1. p \in Progress /\ Sorted(p) /\ Covered(p, published)
  BY DEF Good
<1>2. /\ p.applied \in Nat /\ p.state \in Item /\ items \in Seq(Item)
      /\ p.state.idx \in Nat /\ p.state.ts \in Nat /\ Len(items) \in Nat
  BY <1>1, ProgressTypes
<1>3. /\ n \in 0 .. Len(items)
      /\ \A i \in 1 .. n : items[i].idx <= applied
      /\ n < Len(items) => items[n + 1].idx > applied
  BY <1>2, ConsumedLemma, Zenon
<1>. HIDE DEF n
<1>4. /\ new = p.state \/ \E i \in 1 .. n : new = items[i]
      /\ new.ts >= p.state.ts
  BY <1>1, <1>2, <1>3, NewestLemma, Zenon DEF Sorted
<1>. HIDE DEF new
<1>5. /\ left \in Seq(Item) /\ Len(left) = Len(items) - n
      /\ \A i \in 1 .. Len(left) : left[i] = items[n + i] /\ n + i \in 1 .. Len(items)
  BY <1>2, <1>3
<1>. HIDE DEF left
<1>6. new \in Item /\ new.idx <= applied /\ Published(new, published)
  BY <1>1, <1>2, <1>3, <1>4, ItemsLemma DEF Sorted, Covered
<1>7. q = [applied |-> applied, state |-> new, pending_items |-> left]
  BY DEF UpdateApplied, n, new, left
<1>8. q \in Progress /\ q.applied = applied /\ q.state = new /\ q.pending_items = left
  BY <1>5, <1>6, <1>7 DEF Progress
<1>9. Sorted(q)
  <2>1. Len(left) \in Nat /\ Len(left) <= Cap
    BY <1>1, <1>2, <1>3, <1>5, CapAssumption DEF Sorted
  <2>2. \A i, j \in 1 .. Len(left) : i < j => left[i].idx < left[j].idx /\ left[i].ts < left[j].ts
    <3>. SUFFICES ASSUME NEW i \in 1 .. Len(left), NEW j \in 1 .. Len(left), i < j
                  PROVE  left[i].idx < left[j].idx /\ left[i].ts < left[j].ts
      OBVIOUS
    <3>1. n + i \in 1 .. Len(items) /\ n + j \in 1 .. Len(items) /\ n + i < n + j
      BY <1>3, <1>5
    <3>. QED
      BY <1>1, <1>5, <3>1 DEF Sorted
  <2>3. \A i \in 1 .. Len(left) : left[i].idx > applied
    <3>. SUFFICES ASSUME NEW i \in 1 .. Len(left) PROVE left[i].idx > applied
      OBVIOUS
    <3>1. n < Len(items) /\ n + 1 \in 1 .. Len(items)
      BY <1>2, <1>3, <1>5
    <3>2. items[n + 1].idx <= items[n + i].idx
      <4>1. n + i \in 1 .. Len(items) /\ (n + 1 < n + i \/ n + 1 = n + i)
        BY <1>3, <1>5
      <4>. QED
        BY <1>1, <1>2, <3>1, <4>1, ItemsLemma DEF Sorted
    <3>3. items[n + 1].idx \in Nat /\ items[n + i].idx \in Nat /\ items[n + 1].idx > applied
      BY <1>2, <1>3, <1>5, <3>1, ItemsLemma
    <3>. QED
      BY <1>5, <3>2, <3>3
  <2>. QED
    BY <1>6, <1>8, <2>1, <2>2, <2>3 DEF Sorted
<1>10. Covered(q, published)
  BY <1>1, <1>5, <1>6, <1>8 DEF Covered
<1>. QED
  BY <1>4, <1>8, <1>9, <1>10 DEF Good

\* The first progress is good: its safe_ts is 0.
LEMMA NewProgressGood == Good(NewProgress, {[idx |-> 0, ts |-> 0]})
<1>1. NewProgress \in Progress
  BY DEF NewProgress, Progress, Item
<1>2. Sorted(NewProgress)
  BY CapAssumption DEF NewProgress, Sorted
<1>3. Covered(NewProgress, {[idx |-> 0, ts |-> 0]})
  BY DEF NewProgress, Covered, Published
<1>. QED
  BY <1>1, <1>2, <1>3 DEF Good

\* The safe_ts a replica serves reads at (safe_ts) is one the leader published, for an index
\* the replica has applied. By the lemma and the two theorems above this holds after any
\* number of publications and applied indexes, in any order.
THEOREM SafeTsPublished ==
    ASSUME NEW p, NEW published, \A x \in published : x \in Item, Good(p, published)
    PROVE  \E x \in published : x.ts = p.state.ts /\ x.idx <= p.applied
<1>1. /\ p.applied \in Nat /\ p.state.idx \in Nat /\ p.state.idx <= p.applied
      /\ Published(p.state, published)
  BY ProgressTypes DEF Good, Sorted, Covered
<1>2. PICK x \in published : x.ts = p.state.ts /\ x.idx <= p.state.idx
  BY <1>1 DEF Published
<1>3. x.idx \in Nat
  BY <1>2 DEF Item
<1>. QED
  BY <1>1, <1>2, <1>3
=============================================================================
