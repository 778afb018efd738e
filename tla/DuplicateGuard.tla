--------------------------- MODULE DuplicateGuard ---------------------------
(***************************************************************************)
(* src/security/duplicate_guard.rs: the bounded, expiring memory of the    *)
(* message ids the governor has handled.  The HashMap is a function from   *)
(* every id to the instant it was last marked at, or to Absent.            *)
(***************************************************************************)
EXTENDS Bounds, FiniteSets

CONSTANTS MsgIds,          \* the message ids the gateway delivers
          DuplicateTtl,    \* duplicate_ttl_ms
          DuplicateCap,    \* duplicate_cache_cap, as configured
          MinDuplicateCap  \* the floor DuplicateGuard::new puts under it (64)

ASSUME DuplicateGuardAssumption ==
    /\ IsFiniteSet(MsgIds)
    /\ DuplicateTtl \in Nat
    /\ DuplicateCap \in Nat
    /\ MinDuplicateCap \in Nat \ {0}

Absent == -1

EffectiveCap == AtLeast(DuplicateCap, MinDuplicateCap)

Caches == [MsgIds -> Nat \cup {Absent}]

EmptyCache == [m \in MsgIds |-> Absent]

Cached(cache) == {m \in MsgIds : cache[m] # Absent}

\* Mutation: an entry as old as the ttl is dropped.
EvictOldEarly(cache, t) ==
    [m \in MsgIds |-> IF cache[m] # Absent /\ t - cache[m] >= DuplicateTtl
                      THEN Absent ELSE cache[m]]

\* evict_old: an entry as old as the ttl is still live.
EvictOld(cache, t) ==
    [m \in MsgIds |-> IF cache[m] # Absent /\ t - cache[m] > DuplicateTtl
                      THEN Absent ELSE cache[m]]

IsDuplicate(cache, m, t) == EvictOld(cache, t)[m] # Absent

\* compact: keep the `cap` newest entries. Entries of the same instant come out of the
\* HashMap in any order, so which of them survive is not determined.
Compacted(cache) ==
    IF Cardinality(Cached(cache)) <= EffectiveCap
    THEN {cache}
    ELSE {[m \in MsgIds |-> IF m \in keep THEN cache[m] ELSE Absent] :
            keep \in {K \in SUBSET Cached(cache) :
                        /\ Cardinality(K) = EffectiveCap
                        /\ \A kept \in K, lost \in Cached(cache) \ K :
                               cache[lost] <= cache[kept]}}

\* is_duplicate_and_mark: the caches the call can leave. A duplicate is marked again,
\* which extends the time it is remembered for.
Marked(cache, m, t) == Compacted([EvictOld(cache, t) EXCEPT ![m] = t])
=============================================================================
