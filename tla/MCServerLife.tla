---------------------------- MODULE MCServerLife ----------------------------
(* Small instances of ServerLife for TLC. *)
EXTENDS ServerLife, TLC

CONSTANTS m1, m2, e1, e2, j1, j2, h1, t1, w1, w2, v1, v2

Events  == m1 :> e1 @@ m2 :> e2
ImgJobs == m1 :> j1 @@ m2 :> j2

\* A hook listens for e1 only.
SomeMatching == [e \in Event |-> IF e = e1 THEN Hook ELSE {}]

S3AndOther == m1 :> "s3" @@ m2 :> "other"
=============================================================================
