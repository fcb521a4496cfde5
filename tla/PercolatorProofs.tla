-------------------------- MODULE PercolatorProofs --------------------------
(***************************************************************************)
(* max_ts covers every snapshot read on a region whose leader is synced,   *)
(* for any number of keys, transactions, readers and leader transfers. It  *)
(* is what makes a commit_ts calculated from max_ts safe.                  *)
(***************************************************************************)
EXTENDS Percolator, TLAPS

\* The inductive strengthening of MaxTsCoversReads: every timestamp a command passes to
\* update_max_ts, and every read timestamp, is one the oracle has given; so a leader
\* that fetches a fresh one is ahead of all reads of the leaders before it.
MaxTsInv ==
    /\ tso \in Nat
    /\ maxTs \in [Keys -> 0 .. tso]
    /\ synced \in [Keys -> BOOLEAN]
    /\ start \in [Txns -> 0 .. tso]
    /\ futs \in [Txns -> SUBSET (0 .. tso)]
    /\ readTs \in [Readers -> 0 .. tso]
    /\ got = [r \in Readers |-> [k \in Keys |-> got[r][k]]]
    /\ \A r \in Readers : readTs[r] = 0 => \A k \in Keys : got[r][k] = -1
    /\ MaxTsCoversReads

\* The behaviour is about one of the workloads.
WorkloadOK == workload \in Workloads

\* A step that changes none of these variables.
LEMMA OtherStep ==
    ASSUME MaxTsInv, UNCHANGED <<maxTs, synced, tso, start, futs, readTs, got>>
    PROVE  MaxTsInv'
BY DEF MaxTsInv, MaxTsCoversReads

\* ConcurrencyManager::update_max_ts with a timestamp the oracle has given only raises max_ts.
LEMMA UpdateMaxTsStep ==
    ASSUME MaxTsInv, NEW k \in Keys, NEW ts \in 0 .. tso, UpdateMaxTs(k, ts),
           UNCHANGED <<synced, tso, start, futs, readTs, got>>
    PROVE  MaxTsInv'
<1>1. maxTs' = [maxTs EXCEPT ![k] = MaxOf(maxTs[k], ts)]
  BY DEF UpdateMaxTs
<1>2. maxTs[k] \in 0 .. tso /\ MaxOf(maxTs[k], ts) \in 0 .. tso /\ MaxOf(maxTs[k], ts) >= maxTs[k]
  BY DEF MaxTsInv, MaxOf
<1>3. maxTs' \in [Keys -> 0 .. tso]
  BY <1>1, <1>2 DEF MaxTsInv
<1>4. \A j \in Keys : maxTs'[j] >= maxTs[j]
  BY <1>1, <1>2 DEF MaxTsInv
<1>5. MaxTsCoversReads'
  <2> SUFFICES ASSUME NEW r \in Readers, NEW j \in Keys, got[r][j] # -1, synced[j]
               PROVE  maxTs'[j] >= readTs[r]
    BY DEF MaxTsCoversReads
  <2>1. maxTs[j] >= readTs[r]
    BY DEF MaxTsInv, MaxTsCoversReads
  <2>2. maxTs[j] \in Nat /\ maxTs'[j] \in Nat /\ readTs[r] \in Nat
    BY <1>3 DEF MaxTsInv
  <2> QED
    BY <1>4, <2>1, <2>2
<1> QED
  BY <1>3, <1>5 DEF MaxTsInv

\* A step in which the oracle gives a timestamp, and only the client's start_ts or
\* for_update_ts change.
LEMMA NextTsStep ==
    ASSUME MaxTsInv, NextTs, UNCHANGED <<maxTs, synced, readTs, got>>,
           start' \in [Txns -> 0 .. tso'], futs' \in [Txns -> SUBSET (0 .. tso')]
    PROVE  MaxTsInv'
BY DEF MaxTsInv, MaxTsCoversReads, NextTs

LEMMA BeginStep ==
    ASSUME MaxTsInv, NEW t \in Txns, Begin(t)
    PROVE  MaxTsInv'
<1>1. tso' = tso + 1 /\ tso \in Nat
  BY DEF Begin, NextTs, MaxTsInv
<1>2. start' \in [Txns -> 0 .. tso']
  BY <1>1 DEF Begin, MaxTsInv
<1>3. futs' = [futs EXCEPT ![t] = IF Optimistic(t) THEN {} ELSE {tso'}]
  BY DEF Begin
<1>4. futs' \in [Txns -> SUBSET (0 .. tso')]
  BY <1>1, <1>3 DEF MaxTsInv
<1> QED
  BY <1>2, <1>4, NextTsStep DEF Begin, store, reader

LEMMA NewStatementStep ==
    ASSUME MaxTsInv, NEW t \in Txns, NEW K, NewStatement(t, K)
    PROVE  MaxTsInv'
<1>1. tso' = tso + 1 /\ tso \in Nat
  BY DEF NewStatement, NextTs, MaxTsInv
<1>2. start' \in [Txns -> 0 .. tso']
  BY <1>1 DEF NewStatement, MaxTsInv
<1>3. futs' = [futs EXCEPT ![t] = futs[t] \cup {tso'}]
  BY DEF NewStatement
<1>4. futs' \in [Txns -> SUBSET (0 .. tso')]
  BY <1>1, <1>3 DEF MaxTsInv
<1> QED
  BY <1>2, <1>4, NextTsStep DEF NewStatement, store, reader

LEMMA GetCommitTsStep ==
    ASSUME MaxTsInv, NEW t \in Txns, GetCommitTs(t)
    PROVE  MaxTsInv'
<1>1. tso' = tso + 1 /\ tso \in Nat
  BY DEF GetCommitTs, NextTs, MaxTsInv
<1>2. start' \in [Txns -> 0 .. tso'] /\ futs' \in [Txns -> SUBSET (0 .. tso')]
  BY <1>1 DEF GetCommitTs, MaxTsInv
<1> QED
  BY <1>2, NextTsStep DEF GetCommitTs, store, reader

\* The transaction's client. Its commands leave max_ts alone, but for the read of a value
\* in acquire_pessimistic_lock.
LEMMA ClientStep ==
    ASSUME MaxTsInv, WorkloadOK, NEW t \in Txns, ClientNext(t)
    PROVE  MaxTsInv'
<1> LockKeys[t] \subseteq Keys /\ KeysOf[t] \subseteq Keys
  BY WorkloadsAssumption DEF WorkloadOK, LockKeys, KeysOf, Primary
<1>1. CASE Begin(t)
  BY <1>1, BeginStep
<1>2. CASE \E K \in SUBSET LockKeys[t] : NewStatement(t, K)
  BY <1>2, NewStatementStep
<1>3. CASE GetCommitTs(t)
  BY <1>3, GetCommitTsStep
<1>4. CASE StartPrewrite(t) \/ PrewriteDone(t) \/ GiveUp(t)
  BY <1>4, OtherStep DEF StartPrewrite, PrewriteDone, GiveUp, store, reader
<1>5. ASSUME NEW k \in LockKeys[t], NEW f \in futs[t], NEW answered \in BOOLEAN,
             AcquirePessimisticLockCmd(t, k, f, answered)
      PROVE  MaxTsInv'
  <2>1. UNCHANGED <<synced, tso, start, futs, readTs, got>>
    BY <1>5 DEF AcquirePessimisticLockCmd, reader
  <2>2. UpdateMaxTs(k, f) \/ UNCHANGED maxTs
    BY <1>5 DEF AcquirePessimisticLockCmd
  <2>3. f \in 0 .. tso
    BY DEF MaxTsInv
  <2> QED
    BY <2>1, <2>2, <2>3, UpdateMaxTsStep, OtherStep
<1>6. ASSUME NEW k \in LockKeys[t], NEW f \in futs[t], PessimisticRollbackCmd(t, k, f)
      PROVE  MaxTsInv'
  BY <1>6, OtherStep DEF PessimisticRollbackCmd, client, reader
<1>7. ASSUME NEW k \in KeysOf[t], NEW retry \in BOOLEAN, PrewriteCmd(t, k, retry)
      PROVE  MaxTsInv'
  BY <1>7, OtherStep DEF PrewriteCmd, reader
<1>8. ASSUME NEW k \in KeysOf[t], NEW c, CommitCmd(t, k, c)
      PROVE  MaxTsInv'
  BY <1>8, OtherStep DEF CommitCmd, reader
<1>9. ASSUME NEW k \in KeysOf[t], RollbackCmd(t, k)
      PROVE  MaxTsInv'
  BY <1>9, OtherStep DEF RollbackCmd, client, reader
<1> QED
  BY <1>1, <1>2, <1>3, <1>4, <1>5, <1>6, <1>7, <1>8, <1>9 DEF ClientNext

\* The resolvers pass start_ts, the current time and their own read timestamp.
LEMMA CheckTxnStatusStep ==
    ASSUME MaxTsInv, WorkloadOK, NEW t \in Txns, NEW rd \in Readers \cup {"none"}, NEW current_ts \in {0, tso},
           NEW expired, NEW force, NEW resolving, NEW rollback,
           CheckTxnStatusCmd(t, rd, expired, current_ts, force, resolving, rollback)
    PROVE  MaxTsInv'
<1> DEFINE caller == IF rd \in Readers THEN readTs[rd] ELSE 0
<1>1. Primary[t] \in Keys
  BY WorkloadsAssumption DEF WorkloadOK, LockKeys, KeysOf, Primary
<1>2. caller \in 0 .. tso /\ start[t] \in 0 .. tso /\ current_ts \in 0 .. tso
  BY DEF MaxTsInv
<1>3. MaxOf(MaxOf(start[t], current_ts), caller) \in 0 .. tso
  BY <1>2 DEF MaxOf
<1>4. UpdateMaxTs(Primary[t], MaxOf(MaxOf(start[t], current_ts), caller))
  BY DEF CheckTxnStatusCmd
<1>5. UNCHANGED <<synced, tso, start, futs, readTs, got>>
  BY DEF CheckTxnStatusCmd, client
<1> QED
  BY <1>1, <1>3, <1>4, <1>5, UpdateMaxTsStep

LEMMA ResolverStep ==
    ASSUME MaxTsInv, WorkloadOK, NEW t \in Txns, ResolverNext(t)
    PROVE  MaxTsInv'
<1> LockKeys[t] \subseteq Keys /\ KeysOf[t] \subseteq Keys /\ Primary[t] \in Keys
  BY WorkloadsAssumption DEF WorkloadOK, LockKeys, KeysOf, Primary
<1> start[t] \in 0 .. tso
  BY DEF MaxTsInv
<1>1. CASE Conclude(t)
  BY <1>1, OtherStep DEF Conclude, store, client, reader
<1>2. ASSUME NEW expired \in BOOLEAN, CleanupCmd(t, expired)
      PROVE  MaxTsInv'
  BY <1>2, UpdateMaxTsStep DEF CleanupCmd, client, reader
<1>3. ASSUME NEW rd \in Readers \cup {"none"}, NEW current_ts \in {0, tso},
             NEW expired \in BOOLEAN, NEW force \in BOOLEAN, NEW resolving \in BOOLEAN,
             NEW rollback \in BOOLEAN,
             CheckTxnStatusCmd(t, rd, expired, current_ts, force, resolving, rollback)
      PROVE  MaxTsInv'
  BY <1>3, CheckTxnStatusStep
<1>4. ASSUME NEW k \in KeysOf[t], CheckSecondaryLocksCmd(t, k)
      PROVE  MaxTsInv'
  BY <1>4, UpdateMaxTsStep DEF CheckSecondaryLocksCmd, client, reader
<1>5. ASSUME NEW k \in KeysOf[t], NEW c, ResolveLockCmd(t, k, c)
      PROVE  MaxTsInv'
  BY <1>5, OtherStep DEF ResolveLockCmd, client, reader
<1>6. ASSUME NEW k \in LockKeys[t], ResolvePessimisticLockCmd(t, k)
      PROVE  MaxTsInv'
  BY <1>6, OtherStep DEF ResolvePessimisticLockCmd, client, reader
<1> QED
  BY <1>1, <1>2, <1>3, <1>4, <1>5, <1>6 DEF ResolverNext

LEMMA BeginReadStep ==
    ASSUME MaxTsInv, NEW r \in Readers, BeginRead(r)
    PROVE  MaxTsInv'
<1>1. tso' = tso + 1 /\ tso \in Nat
  BY DEF BeginRead, NextTs, MaxTsInv
<1>2. readTs' = [readTs EXCEPT ![r] = tso'] /\ readTs[r] = 0
  BY DEF BeginRead
<1>3. UNCHANGED <<maxTs, synced, start, futs, got>>
  BY DEF BeginRead, store, client
<1>4. readTs' \in [Readers -> 0 .. tso']
  BY <1>1, <1>2 DEF MaxTsInv
<1>5. \A k \in Keys : got[r][k] = -1
  BY <1>2 DEF MaxTsInv
<1>6. \A q \in Readers : q # r => readTs'[q] = readTs[q]
  BY <1>2 DEF MaxTsInv
<1>7. MaxTsCoversReads' /\ \A q \in Readers : readTs'[q] = 0 => \A k \in Keys : got'[q][k] = -1
  BY <1>3, <1>5, <1>6, Zenon DEF MaxTsInv, MaxTsCoversReads
<1> QED
  BY <1>1, <1>3, <1>4, <1>7 DEF MaxTsInv

\* prepare_snap_ctx raises max_ts to the read timestamp before the key is looked at.
LEMMA ReadStep ==
    ASSUME MaxTsInv, NEW r \in Readers, NEW k \in Keys, Read(r, k)
    PROVE  MaxTsInv'
<1>1. UNCHANGED <<synced, tso, start, futs, readTs>> /\ readTs[r] \in 0 .. tso /\ readTs[r] # 0
  BY DEF Read, client, MaxTsInv
<1>2. maxTs' = [maxTs EXCEPT ![k] = MaxOf(maxTs[k], readTs[r])]
  BY DEF Read, UpdateMaxTs
<1>3. /\ maxTs[k] \in 0 .. tso /\ MaxOf(maxTs[k], readTs[r]) \in 0 .. tso
      /\ MaxOf(maxTs[k], readTs[r]) >= maxTs[k] /\ MaxOf(maxTs[k], readTs[r]) >= readTs[r]
  BY <1>1 DEF MaxTsInv, MaxOf
<1>4. maxTs' \in [Keys -> 0 .. tso] /\ maxTs'[k] >= readTs[r] /\ \A j \in Keys : maxTs'[j] >= maxTs[j]
  BY <1>2, <1>3 DEF MaxTsInv
<1>5. /\ got' = [q \in Readers |-> [j \in Keys |-> got'[q][j]]]
      /\ \A q \in Readers, j \in Keys : q # r \/ j # k => got'[q][j] = got[q][j]
  <2>1. CASE got' = got
    BY <2>1 DEF MaxTsInv
  <2>2. CASE got' = [got EXCEPT ![r][k] = VisibleAt(kv[k].writes, readTs[r])]
    BY <2>2, Zenon DEF MaxTsInv
  <2> QED
    BY <2>1, <2>2 DEF Read
<1>6. \A q \in Readers : readTs'[q] = 0 => \A j \in Keys : got'[q][j] = -1
  BY <1>1, <1>5 DEF MaxTsInv
<1>7. MaxTsCoversReads'
  <2> SUFFICES ASSUME NEW q \in Readers, NEW j \in Keys, got'[q][j] # -1, synced[j]
               PROVE  maxTs'[j] >= readTs[q]
    BY <1>1 DEF MaxTsCoversReads
  <2>1. CASE q = r /\ j = k
    BY <2>1, <1>4
  <2>2. CASE q # r \/ j # k
    <3>1. maxTs[j] >= readTs[q]
      BY <2>2, <1>5 DEF MaxTsInv, MaxTsCoversReads
    <3>2. maxTs[j] \in Nat /\ maxTs'[j] \in Nat /\ readTs[q] \in Nat /\ maxTs'[j] >= maxTs[j]
      BY <1>4 DEF MaxTsInv
    <3> QED
      BY <3>1, <3>2
  <2> QED
    BY <2>1, <2>2
<1> QED
  BY <1>1, <1>4, <1>5, <1>6, <1>7 DEF MaxTsInv

\* A new leader forgets max_ts and is not synced.
LEMMA TransferLeaderStep ==
    ASSUME MaxTsInv, NEW k \in Keys, TransferLeader(k)
    PROVE  MaxTsInv'
<1>1. UNCHANGED <<tso, start, futs, readTs, got>>
  BY DEF TransferLeader, client, reader
<1>2. maxTs' = [maxTs EXCEPT ![k] = 0] /\ synced' = [synced EXCEPT ![k] = FALSE]
  BY DEF TransferLeader
<1>3. maxTs' \in [Keys -> 0 .. tso] /\ synced' \in [Keys -> BOOLEAN]
  BY <1>2 DEF MaxTsInv
<1>4. MaxTsCoversReads'
  BY <1>1, <1>2 DEF MaxTsInv, MaxTsCoversReads
<1> QED
  BY <1>1, <1>3, <1>4 DEF MaxTsInv

\* The fetched timestamp is newer than every read so far.
LEMMA SyncMaxTsStep ==
    ASSUME MaxTsInv, NEW k \in Keys, SyncMaxTs(k)
    PROVE  MaxTsInv'
<1>1. tso' = tso + 1 /\ tso \in Nat /\ UNCHANGED <<start, futs, readTs, got>>
  BY DEF SyncMaxTs, NextTs, MaxTsInv, client, reader
<1>2. maxTs' = [maxTs EXCEPT ![k] = MaxOf(maxTs[k], tso')] /\ synced' = [synced EXCEPT ![k] = TRUE]
  BY DEF SyncMaxTs, UpdateMaxTs
<1>3. maxTs[k] \in 0 .. tso /\ MaxOf(maxTs[k], tso') = tso'
  BY <1>1 DEF MaxTsInv, MaxOf
<1>4. maxTs' \in [Keys -> 0 .. tso'] /\ synced' \in [Keys -> BOOLEAN] /\ maxTs'[k] = tso'
  BY <1>1, <1>2, <1>3 DEF MaxTsInv
<1>5. \A r \in Readers : readTs[r] \in 0 .. tso
  BY DEF MaxTsInv
<1>6. \A j \in Keys : j # k => maxTs'[j] = maxTs[j] /\ synced'[j] = synced[j]
  BY <1>2 DEF MaxTsInv
<1>7. MaxTsCoversReads'
  <2> SUFFICES ASSUME NEW r \in Readers, NEW j \in Keys, got[r][j] # -1, synced'[j]
               PROVE  maxTs'[j] >= readTs[r]
    BY <1>1 DEF MaxTsCoversReads
  <2>1. CASE j = k
    BY <2>1, <1>1, <1>4, <1>5
  <2>2. CASE j # k
    BY <2>2, <1>6 DEF MaxTsInv, MaxTsCoversReads
  <2> QED
    BY <2>1, <2>2
<1>8. /\ start' \in [Txns -> 0 .. tso'] /\ futs' \in [Txns -> SUBSET (0 .. tso')]
      /\ readTs' \in [Readers -> 0 .. tso']
  BY <1>1 DEF MaxTsInv
<1> QED
  BY <1>1, <1>4, <1>7, <1>8 DEF MaxTsInv

LEMMA InitMaxTs == Init => MaxTsInv /\ WorkloadOK
BY DEF Init, WorkloadOK, MaxTsInv, MaxTsCoversReads

LEMMA NextMaxTs ==
    MaxTsInv /\ WorkloadOK /\ [Next]_vars => MaxTsInv' /\ WorkloadOK'
<1> SUFFICES ASSUME MaxTsInv, WorkloadOK, [Next]_vars PROVE MaxTsInv'
  BY DEF Next, vars, WorkloadOK
<1>1. ASSUME NEW t \in Txns, ClientNext(t) \/ ResolverNext(t) PROVE MaxTsInv'
  BY <1>1, ClientStep, ResolverStep
<1>2. ASSUME NEW r \in Readers, BeginRead(r) PROVE MaxTsInv'
  BY <1>2, BeginReadStep
<1>3. ASSUME NEW r \in Readers, NEW k \in Keys, Read(r, k) PROVE MaxTsInv'
  BY <1>3, ReadStep
<1>4. ASSUME NEW k \in Keys, TransferLeader(k) \/ SyncMaxTs(k) PROVE MaxTsInv'
  BY <1>4, TransferLeaderStep, SyncMaxTsStep
<1>5. ASSUME NEW k \in Keys, LosePessimisticLock(k) PROVE MaxTsInv'
  BY <1>5, OtherStep DEF LosePessimisticLock, client, reader
<1>6. CASE UNCHANGED vars
  BY <1>6, OtherStep DEF vars, store, client, reader
<1> QED
  BY <1>1, <1>2, <1>3, <1>4, <1>5, <1>6 DEF Next

\* The inductive invariant holds in every reachable state.
THEOREM MaxTsInvariant == Spec => []MaxTsInv
BY InitMaxTs, NextMaxTs, PTL DEF Spec

\* max_ts of a synced leader is at or above every snapshot read on its region
\* (prepare_snap_ctx, require_updating_max_ts and handle_update_max_timestamp together).
THEOREM ReadsAreCovered == Spec => []MaxTsCoversReads
<1>1. MaxTsInv => MaxTsCoversReads
  BY DEF MaxTsInv
<1> QED
  BY <1>1, MaxTsInvariant, PTL

\* The commit timestamp async_commit_timestamps calculates for a prewrite on a synced leader
\* is above every snapshot the key was read at: no such read can miss the commit.
THEOREM CalculatedAboveReads ==
    ASSUME MaxTsInv, NEW r \in Readers, NEW k \in Keys, got[r][k] # -1, synced[k],
           NEW p, p.start_ts \in Nat, p.for_update_ts \in Nat, NEW m \in Nat
    PROVE  AsyncCommitTs(p, m, maxTs[k]) > readTs[r]
<1>1. maxTs[k] \in Nat /\ readTs[r] \in Nat /\ maxTs[k] >= readTs[r]
  BY DEF MaxTsInv, MaxTsCoversReads
<1> QED
  BY <1>1 DEF AsyncCommitTs, MaxOf
=============================================================================
