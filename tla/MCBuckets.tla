------------------------------- MODULE MCBuckets -------------------------------
(* Small instances of Buckets for TLC. *)
EXTENDS Buckets, TLC

CONSTANTS k1, k2, k3, c1, c2, b1, b2, b3, p1, p2

SizeOfContent == c1 :> 1 @@ c2 :> 2
================================================================================
