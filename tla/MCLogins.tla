------------------------------ MODULE MCLogins ------------------------------
(* Small instances of Logins for TLC. *)
EXTENDS Logins, TLC

CONSTANTS p1, p2, a1, a2, ann, bob

\* Guesses without changes, and changes without guesses.
Bounds == {[fails |-> 7, sessions |-> 0, changes |-> 0], [fails |-> 0, sessions |-> 2, changes |-> 2]}

Symmetric == Permutations(Proc) \cup Permutations(IP) \cup Permutations(User)
=============================================================================
