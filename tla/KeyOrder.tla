------------------------------ MODULE KeyOrder ------------------------------
(* Keys as sequences of numbers, in the order SQLite sorts them. *)
EXTENDS Integers, SequencesExt

\* No bound, or no marker.
Nothing == <<>>

\* s comes before t.
Before(s, t) ==
  \E i \in 1 .. Len(t) :
    /\ i <= Len(s) + 1
    /\ SubSeq(s, 1, i - 1) = SubSeq(t, 1, i - 1)
    /\ i <= Len(s) => s[i] < t[i]

\* ORDER BY ... LIMIT n.
FirstOf(S, n, Precedes(_, _)) ==
  [i \in 1 .. Min({n, Cardinality(S)}) |->
     CHOOSE x \in S : Cardinality({y \in S : Precedes(y, x)}) = i - 1]
=============================================================================
