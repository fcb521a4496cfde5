---------------------------- MODULE TxnStatusCache ----------------------------
(***************************************************************************)
(* The cache of transaction states (txn_status_cache.rs): a cache for      *)
(* committed and rolled back transactions (normal) and one for ongoing     *)
(* ones with a useful min_commit_ts (large). A cache is a record           *)
(* [normal, large] of functions from start_ts to states. Which entries are *)
(* evicted depends on the capacity and on the age of the entry at the      *)
(* tail; here any entry may be.                                            *)
(***************************************************************************)
EXTENDS Integers, FiniteSets, TLC

Ongoing(min_commit_ts) == [st |-> "Ongoing", ts |-> min_commit_ts]
Committed(commit_ts) == [st |-> "Committed", ts |-> commit_ts]
RolledBack == [st |-> "RolledBack", ts |-> 0]

EmptyCache == [normal |-> <<>>, large |-> <<>>]

Drop(f, x) == [y \in DOMAIN f \ {x} |-> f[y]]

\* upsert: an ongoing transaction with a min_commit_ts beyond its start_ts goes to the
\* large cache, where the min_commit_ts only grows. Every other state goes to the normal
\* cache and replaces an ongoing one in the large cache. A finished state is not replaced.
Upsert(cache, start_ts, state) ==
    LET put(f) ==
            IF start_ts \notin DOMAIN f THEN (start_ts :> state) @@ f
            ELSE IF f[start_ts].st = "Ongoing" THEN [f EXCEPT ![start_ts] = state]
            ELSE f
        older == \E old \in {cache.large[t] : t \in {start_ts} \cap DOMAIN cache.large} :
                    old.st = "Ongoing" /\ state.ts <= old.ts
    IN  IF state.st = "Ongoing" /\ state.ts > start_ts
        THEN [cache EXCEPT !.large = IF older THEN @ ELSE put(@)]
        ELSE [normal |-> put(cache.normal),
              large |-> IF start_ts \in DOMAIN cache.large THEN put(cache.large) ELSE cache.large]

RemoveLargeTxn(cache, start_ts) == [cache EXCEPT !.large = Drop(@, start_ts)]

\* get: the large cache has precedence. A set with the state, empty if there is none.
Get(cache, start_ts) ==
    IF start_ts \in DOMAIN cache.large THEN {cache.large[start_ts]}
    ELSE IF start_ts \in DOMAIN cache.normal THEN {cache.normal[start_ts]} ELSE {}

\* The caches after one entry was evicted.
Evictions(cache) ==
    {RemoveLargeTxn(cache, t) : t \in DOMAIN cache.large}
      \cup {[cache EXCEPT !.normal = Drop(@, t)] : t \in DOMAIN cache.normal}
=============================================================================
