---------------------------- MODULE MCObjectStore ----------------------------
(* Small instances of ObjectStore for TLC. *)
EXTENDS ObjectStore, TLC

CONSTANTS k1, k2, p1, p2, p3, c1, c2, s1, v1, v2, v3, v4

OneStripe == [k \in Key |-> s1]

Symmetric == Permutations(Proc) \cup Permutations(Key) \cup Permutations(Content) \cup Permutations(Real)
=============================================================================
