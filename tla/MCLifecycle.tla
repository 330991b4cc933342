----------------------------- MODULE MCLifecycle -----------------------------
(* Small instances of Lifecycle for TLC. *)
EXTENDS Lifecycle, TLC

CONSTANTS k1, k2, p1, cleaner, c1, s1, v1, v2, v3, v4

OneStripe == [k \in Key |-> s1]

=============================================================================
