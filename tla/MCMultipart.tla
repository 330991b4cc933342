----------------------------- MODULE MCMultipart -----------------------------
(* Small instances of Multipart for TLC. *)
EXTENDS Multipart, TLC

CONSTANTS u1, u2, k1, k2, p1, p2, c1, c2, c3, s1, s2

\* Clients that always send the same bytes for a part number; c3 is small.
OneBodyPerPart == {<<1, c1>>, <<2, c3>>}

\* Both parts, one of them, a wrong order, a small first part, a wrong etag.
Proper == <<<<1, c1>>, <<2, c3>>>>
SomeLists ==
  {Proper, <<<<2, c3>>>>, <<<<2, c3>>, <<1, c1>>>>, <<<<1, c2>>>>}

\* Either part, both of them, one with another etag.
ShortLists == {<<<<1, c1>>>>, <<<<2, c3>>>>, Proper, <<<<1, c2>>>>}

\* No two uploads, and no two keys, share a mutex here, so uploads, keys and requests are
\* interchangeable.
Symmetric == Permutations(Upload) \cup Permutations(Key) \cup Permutations(Proc)

OwnUploadStripe  == u1 :> s1 @@ u2 :> s2
OwnKeyStripe     == k1 :> s1 @@ k2 :> s2
=============================================================================
