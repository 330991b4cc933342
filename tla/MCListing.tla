------------------------------ MODULE MCListing ------------------------------
(* Small instances of Listing for TLC. *)
EXTENDS Listing

CONSTANT reader

\* Characters: one below the delimiter, the delimiter, its successor, a letter, 0xFF.
Low == 1
Slash == 2
Zero == 3
Letter == 4
Last0xFF == 5

\* "a", "a-", "a/", "a/a", "a0", 0xFF and 0xFF 0xFF.
SomeKeys == {<<4>>, <<4, 2>>, <<4, 2, 4>>, <<4, 3>>, <<5, 5>>}

Row(k, id, version, latest) ==
  [key |-> k, id |-> id, version |-> version, latest |-> latest, marker |-> FALSE]

\* One row for each key, written in the order of the keys.
OneRowEach ==
  {Row(k, Cardinality({j \in SomeKeys : Before(j, k)}) + 1, "own", TRUE) : k \in SomeKeys}

\* Two versions of two keys, one key's row written while the bucket was suspended.
Deep ==
  {Row(<<4>>, 1, "own", FALSE), Row(<<4>>, 2, "null", TRUE),
   Row(<<4, 2>>, 3, "", FALSE), Row(<<4, 2>>, 4, "own", TRUE)}

Tables == {OneRowEach, Deep}

Ask(kind, prefix, delimited, max) ==
  [kind |-> kind, prefix |-> prefix, delimited |-> delimited, max |-> max]

AllWalks ==
  {Ask("objects", p, d, m) : p \in {<<>>, <<4, 2>>, <<5>>}, d \in BOOLEAN, m \in 1 .. 2}
  \cup {Ask("versions", <<>>, FALSE, 1), Ask("versions", <<4>>, FALSE, 1),
        Ask("versions", <<>>, TRUE, 1)}
=============================================================================
