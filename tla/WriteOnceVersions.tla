-------------------------- MODULE WriteOnceVersions --------------------------
(***************************************************************************)
(* What the object service promises about versions, with rows and files    *)
(* seen as one thing: a version id is reserved once, becomes visible at     *)
(* most once, in a single step and with all its bytes, and never changes    *)
(* until it is withdrawn, after which it never comes back.                  *)
(***************************************************************************)
EXTENDS Naturals

CONSTANTS Key, Content, Real, None

VARIABLES
  issued,  \* version ids that have been handed out
  pending, \* issued ids whose write is still under way: <<key, id>>
  object   \* object[k][v]: the bytes of version v of k; None when not visible

vars == <<issued, pending, object>>

TypeOK ==
  /\ issued \in SUBSET Real
  /\ pending \in SUBSET (Key \X issued)
  /\ object \in [Key -> [Real -> Content \cup {None}]]

Init ==
  /\ issued = {}
  /\ pending = {}
  /\ object = [k \in Key |-> [v \in Real |-> None]]

\* A write of a new version of k begins.
Reserve(k, v) ==
  /\ v \notin issued
  /\ issued' = issued \cup {v}
  /\ pending' = pending \cup {<<k, v>>}
  /\ UNCHANGED object

\* An id is used up by something that has no bytes (a delete marker).
Burn(v) ==
  /\ v \notin issued
  /\ issued' = issued \cup {v}
  /\ UNCHANGED <<pending, object>>

\* The write succeeds.
Publish(k, v, c) ==
  /\ <<k, v>> \in pending
  /\ pending' = pending \ {<<k, v>>}
  /\ object' = [object EXCEPT ![k][v] = c]
  /\ UNCHANGED issued

\* Writes fail: one of them, or all when the process dies.
Abandon(S) ==
  /\ pending' = pending \ S
  /\ UNCHANGED <<issued, object>>

\* Some versions of k are deleted together.
Withdraw(k, V) ==
  /\ object' = [object EXCEPT ![k] = [v \in Real |-> IF v \in V THEN None ELSE @[v]]]
  /\ UNCHANGED <<issued, pending>>

Next ==
  \/ \E k \in Key, v \in Real : Reserve(k, v)
  \/ \E v \in Real : Burn(v)
  \/ \E k \in Key, v \in Real, c \in Content : Publish(k, v, c)
  \/ \E S \in SUBSET pending : Abandon(S)
  \/ \E k \in Key, V \in SUBSET Real : Withdraw(k, V)

Spec == Init /\ [][Next]_vars
=============================================================================
