------------------------------ MODULE MCDavTree ------------------------------
(* Small instances of DavTree for TLC.  1 stands for "a", 2 for "d", 3 for "e". *)
EXTENDS DavTree, TLC

CONSTANTS p1, p2

SomeNames == {<<2>>, <<2, 1>>, <<2, 2, 1>>, <<3>>, <<3, 1>>}
\* The last one is the marker of a folder.
SomeFiles == {<<2, 1>>, <<3, 1>>, <<2, 2, 0>>}

\* "d/" with a file, and a folder with another; "e/a" in a folder without a marker.
Deep == {<<2, 0>>, <<2, 1>>, <<2, 2, 0>>, <<2, 2, 1>>, <<3, 1>>}

\* Nothing but "d/d/a" and the markers above it.
Chain == {<<2, 0>>, <<2, 2, 0>>, <<2, 2, 1>>}

\* More below "d/" than a listing takes.
Wide == Deep \cup {<<2, 3>>}

Trees == {Deep, Chain, Wide}

Symmetric == Permutations(Proc)

TwoKeys == {<<<<2, 1>>, <<3, 1>>>>}
=============================================================================
