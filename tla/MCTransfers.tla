----------------------------- MODULE MCTransfers -----------------------------
(* A small instance of Transfers for TLC. *)
EXTENDS Transfers

CONSTANTS a, b

Symmetric == Permutations({a, b})
=============================================================================
