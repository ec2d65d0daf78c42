----------------------------- MODULE SimpleCache -----------------------------
(***************************************************************************)
(* The response cache every handler shares (utils.rs): a map ordered by    *)
(* key and bounded in size.  A cache is a function from the keys it holds  *)
(* to their values.  The operations take the map's lock once each and are  *)
(* therefore atomic; nothing is atomic across two of them.                 *)
(***************************************************************************)
EXTENDS Integers, FiniteSets

CONSTANTS
    CacheSize,      \* 2000 in the code
    Keys,
    Rank            \* Rank[k]: the position of key k in the order of byte strings

ASSUME CacheAssumption ==
    /\ CacheSize \in Nat \ {0}
    /\ Rank \in [Keys -> Nat]
    /\ \A j, k \in Keys : Rank[j] = Rank[k] => j = k

EmptyCache == [k \in {} |-> k]

(* A cached value: what form of JSON it is and what it is about.           *)
Entry(form, of) == [form |-> form, of |-> of]

Holds(c, k) == k \in DOMAIN c

(* The first key of the ordered map, which insert calls the oldest one.    *)
IsFirst(c, k) == k \in DOMAIN c /\ \A j \in DOMAIN c : Rank[k] <= Rank[j]

(* Mutants of Evicted: one entry too many, one too early.                  *)
EvictedLate(c)  == IF Cardinality(DOMAIN c) > CacheSize THEN {k \in DOMAIN c : IsFirst(c, k)} ELSE {}
EvictedEarly(c) == IF Cardinality(DOMAIN c) >= CacheSize - 1 THEN {k \in DOMAIN c : IsFirst(c, k)} ELSE {}

(* A full cache gives up its first key, also when the key to be inserted   *)
(* is already there.                                                       *)
Evicted(c) == IF Cardinality(DOMAIN c) >= CacheSize THEN {k \in DOMAIN c : IsFirst(c, k)} ELSE {}

Insert(c, k, v) ==
    [j \in (DOMAIN c \ Evicted(c)) \cup {k} |-> IF j = k THEN v ELSE c[j]]

Remove(c, k) == [j \in DOMAIN c \ {k} |-> c[j]]
==============================================================================
