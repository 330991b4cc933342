------------------------------- MODULE Listing -------------------------------
(***************************************************************************)
(* The paged listings of one bucket (db/metadata.go ListObjectsMeta,        *)
(* ListObjectVersions; handler/list.go, handler/list_versions.go): a client *)
(* asks for page after page, handing back the marker of the last one, while *)
(* objects come and go.  A page is put together from several queries, each   *)
(* of which sees the table as it is then.                                    *)
(*                                                                          *)
(* A key is a sequence of characters 1 .. Top, compared byte by byte as      *)
(* SQLite compares them; Top stands for 0xFF, the last byte.                 *)
(***************************************************************************)
EXTENDS KeyOrder

CONSTANTS
  Top,        \* the greatest character
  Delim,      \* the delimiter of a listing that has one
  Key,        \* object keys
  Reader,     \* clients (or threads of the server) that list
  Walks,      \* the listings they make, see Walk
  InitTables, \* tables a behaviour may start with
  BatchSize,  \* rows a query returns at most (1000)
  MaxChanges, \* bound: writes and deletes
  MaxWalks,   \* bound: listings begun
  MaxEntries  \* bound: entries after which a listing is given up

\* A row's version: "" and "null" as stored, "own" for an id of its own, which is as
\* unique as the row's id and told by it.
Version == {"", "null", "own"}

\* A row of the objects table.
ObjectRow == [key : Key, id : Nat \ {0}, version : Version, latest : BOOLEAN, marker : BOOLEAN]

\* What a client may ask for.
Asked == [kind: {"objects", "versions"}, prefix: Seq(1 .. Top), delimited: BOOLEAN,
          max: 1 .. BatchSize]

ASSUME CharAssumption  == Top \in Nat /\ Delim \in 1 .. (Top - 1)
ASSUME BatchAssumption == BatchSize \in Nat \ {0}
ASSUME KeyAssumption   == Key \subseteq Seq(1 .. Top) \ {<<>>}
ASSUME WalkAssumption  == Walks \subseteq Asked
ASSUME TableAssumption == \A t \in InitTables :
                            /\ IsFiniteSet(t) /\ t \subseteq ObjectRow
                            /\ \A r, s \in t : r.id = s.id => r = s
ASSUME CountAssumption == MaxChanges \in Nat /\ MaxWalks \in Nat /\ MaxEntries \in Nat

VARIABLES
  table,   \* the bucket's rows: [key, id, version, latest, marker]
  nextId,  \* the table's next AUTOINCREMENT id
  walk,    \* walk[r]: the listing of r
  changes, \* writes and deletes so far
  walks    \* listings begun so far

listVars == <<table, nextId, walk, changes, walks>>

\* What the API calls a row's version: 0 stands for "null".
ApiVersion(r) == IF r.version = "own" THEN r.id ELSE 0

-----------------------------------------------------------------------------
(* Keys. *)

\* prefixUpperBound: the least string greater than all that start with p.
PrefixUpperBound(p) ==
  LET low == {i \in DOMAIN p : p[i] < Top}
  IN IF low = {} THEN Nothing
     ELSE SubSeq(p, 1, Max(low) - 1) \o <<p[Max(low)] + 1>>

\* The query's range for a prefix.
InPrefix(prefix, k) ==
  LET bound == PrefixUpperBound(prefix)
  IN /\ k = prefix \/ Before(prefix, k)
     /\ bound = Nothing \/ Before(k, bound)

\* The first delimiter-terminated prefix of k longer than prefix, if there is one.
CommonPrefix(prefix, k) ==
  LET ends == {i \in (Len(prefix) + 1) .. Len(k) : k[i] = Delim}
  IN IF ends = {} THEN Nothing ELSE SubSeq(k, 1, Min(ends))

-----------------------------------------------------------------------------
(* Queries. *)

Live(t) == {r.key : r \in {r \in t : r.latest /\ ~r.marker}}

\* listBatch without its LIMIT: live keys of the prefix past the lower bound.
KeyRange(prefix, lower, inclusive) ==
  {k \in Live(table) :
     /\ InPrefix(prefix, k)
     /\ lower = Nothing \/ Before(lower, k) \/ (inclusive /\ k = lower)}

\* ORDER BY key, id DESC.
Newer(r, s) == Before(r.key, s.key) \/ (r.key = s.key /\ r.id > s.id)

\* The id the version marker stands for.
MarkerId(key, version) ==
  LET named == {r \in table : /\ r.key = key
                              /\ \/ r.version = "null"
                                 \/ version = 0 /\ r.version = ""
                                 \/ version # 0 /\ r.version = "own" /\ r.id = version}
  IN IF named = {} THEN 0 ELSE Max({r.id : r \in named})

\* The row a marker <<key, version, id of its row>> was made from is the one it stands for.
Anchored(after) == after = Nothing \/ MarkerId(after[1], after[2]) = after[3]

\* ListObjectVersions without its LIMIT.
VersionRange(prefix, after) ==
  {r \in table :
     /\ InPrefix(prefix, r.key)
     /\ after = Nothing \/ Before(after[1], r.key)
                        \/ (r.key = after[1] /\ r.id < MarkerId(after[1], after[2]))}

-----------------------------------------------------------------------------
(* A listing in progress. *)

\* at: where the listing is; lower, inclusive, after: the next query's bound;
\* page: entries of the page under way, [key, rolled, id]; seen: those of the pages the
\* client has; steady: what has been there ever since the listing began; anchored: so far
\* every version marker has stood for the row it was made from.
NoWalk == [at |-> "off",
           asked |-> [kind |-> "objects", prefix |-> Nothing, delimited |-> FALSE, max |-> 1],
           lower |-> Nothing, inclusive |-> FALSE,
           after |-> Nothing, page |-> <<>>, seen |-> <<>>, steady |-> {},
           anchored |-> TRUE]

Entry(k, rolled, id) == [key |-> k, rolled |-> rolled, id |-> id]

\* Faulty variant: a common prefix is resumed from like a key.
StartPage_InsidePrefix(w, marker) ==
  [w EXCEPT !.at = "batch", !.lower = marker, !.inclusive = FALSE, !.page = <<>>,
            !.seen = w.seen \o w.page]

\* ListObjectsMeta resumes: a marker that is a common prefix means "after everything
\* under it".
StartPage(w, marker) ==
  LET rolled == w.asked.delimited /\ marker # Nothing
                /\ Last(marker) = Delim /\ IsPrefix(w.asked.prefix, marker)
  IN [w EXCEPT !.at = "batch",
               !.lower = IF rolled THEN PrefixUpperBound(marker) ELSE marker,
               !.inclusive = rolled,
               !.page = <<>>,
               !.seen = w.seen \o w.page]

\* ListObjectVersions resumes after a row, by its key and version id.
StartVersionsPage(w, after) ==
  [w EXCEPT !.at = "versions", !.after = after, !.page = <<>>, !.seen = w.seen \o w.page]

\* What a listing is expected to show of table t.
Shows(t, asked) ==
  IF asked.kind = "objects"
    THEN {Entry(k, FALSE, 0) : k \in {k \in Live(t) : InPrefix(asked.prefix, k)}}
    ELSE {Entry(r.key, FALSE, r.id) : r \in {r \in t : InPrefix(asked.prefix, r.key)}}

BeginWalk(r) ==
  /\ walk[r].at \in {"off", "done"}
  /\ walks < MaxWalks
  /\ \E a \in Walks :
       LET w == [NoWalk EXCEPT !.asked = a, !.steady = Shows(table, a)]
       IN walk' = [walk EXCEPT ![r] =
                     IF a.kind = "objects" THEN StartPage(w, Nothing)
                     ELSE StartVersionsPage(w, Nothing)]
  /\ walks' = walks + 1
  /\ UNCHANGED <<table, nextId, changes>>

\* What a key of the listing is shown as: itself, or the common prefix it is under.
Shown(asked, k) ==
  LET cp == IF asked.delimited THEN CommonPrefix(asked.prefix, k) ELSE Nothing
  IN IF cp = Nothing THEN Entry(k, FALSE, 0) ELSE Entry(cp, TRUE, 0)

EntryBefore(d, e) == Before(d.key, e.key) \/ (d.key = e.key /\ d.id > e.id)

\* A page of at most max entries takes the new ones in order.
PageUpTo(page, new, max) == page \o FirstOf(new, max - Len(page), EntryBefore)

\* A query of ListObjectsMeta's loop and the rows it returns.  A batch that ends under a
\* common prefix is followed by one from just past that prefix.
Batch(r) ==
  LET w == walk[r]
      keys == FirstOf(KeyRange(w.asked.prefix, w.lower, w.inclusive), BatchSize, Before)
      page == PageUpTo(w.page, {Shown(w.asked, keys[i]) : i \in DOMAIN keys}, w.asked.max)
      last == Shown(w.asked, Last(keys))
      more == /\ keys # <<>> /\ Len(page) < w.asked.max
              /\ Len(keys) = BatchSize \/ last.rolled
  IN /\ w.at = "batch"
     /\ walk' = [walk EXCEPT ![r] =
          IF more
            THEN [w EXCEPT !.page = page,
                           !.inclusive = last.rolled,
                           !.lower = IF last.rolled THEN PrefixUpperBound(last.key)
                                     ELSE last.key]
            ELSE [w EXCEPT !.page = page, !.at = "probe"]]
     /\ UNCHANGED <<table, nextId, changes, walks>>

\* The client has all it will get.
EndWalk(w) == [w EXCEPT !.at = "done", !.seen = w.seen \o w.page, !.page = <<>>]

\* Faulty variant: the key that is the bound itself is overlooked.
Remaining_PastBound(w) ==
  LET last == Last(w.page)
  IN KeyRange(w.asked.prefix, IF last.rolled THEN PrefixUpperBound(last.key) ELSE last.key,
              FALSE)

\* What the truncation probe looks for: keys past the last entry of the page.
Remaining(w) ==
  LET last == Last(w.page)
  IN IF last.rolled THEN KeyRange(w.asked.prefix, PrefixUpperBound(last.key), TRUE)
     ELSE KeyRange(w.asked.prefix, last.key, FALSE)

\* The probe for truncation of a full page.  A truncated page hands out its last entry,
\* from which the client asks for the next one.
Probe(r) ==
  LET w == walk[r]
      truncated == Len(w.page) >= w.asked.max /\ Remaining(w) # {}
  IN /\ w.at = "probe"
     /\ walk' = [walk EXCEPT ![r] =
          IF truncated THEN StartPage(w, Last(w.page).key) ELSE EndWalk(w)]
     /\ UNCHANGED <<table, nextId, changes, walks>>

\* A query of the versions handler's loop.  It stops at a row that finds the page full,
\* which makes the page truncated, even when the row would add nothing to it.
VersionsBatch(r) ==
  LET w == walk[r]
      left == VersionRange(w.asked.prefix, w.after)
      rows == FirstOf(left, BatchSize, Newer)
      entry(row) == LET e == Shown(w.asked, row.key)
                    IN IF e.rolled THEN e ELSE Entry(row.key, FALSE, row.id)
      new(n) == {entry(rows[i]) : i \in 1 .. n} \ ToSet(w.page)
      open == {n \in DOMAIN rows : Len(w.page) + Cardinality(new(n - 1)) < w.asked.max}
      taken == Cardinality(open)
      page == PageUpTo(w.page, new(taken), w.asked.max)
      brought == {n \in open : entry(rows[n]) \in new(n) \ new(n - 1)}
      marker(row) == <<row.key, ApiVersion(row), row.id>>
      read == [w EXCEPT !.page = page, !.anchored = @ /\ Anchored(w.after)]
  IN /\ w.at = "versions"
     /\ walk' = [walk EXCEPT ![r] =
          IF taken < Len(rows)
            THEN StartVersionsPage(read, marker(rows[Max(brought)]))
          ELSE IF Cardinality(left) > BatchSize /\ Len(page) < w.asked.max
            THEN [read EXCEPT !.after = marker(Last(rows))]
          ELSE EndWalk(read)]
     /\ UNCHANGED <<table, nextId, changes, walks>>

\* A listing that repeats itself is given up after MaxEntries entries.
WalkStep(r) ==
  /\ Len(walk[r].seen) <= MaxEntries
  /\ Batch(r) \/ Probe(r) \/ VersionsBatch(r)

-----------------------------------------------------------------------------
(* Writes and deletes. *)

\* The table becomes t; listings lose sight of what t no longer has.
Become(t) ==
  /\ table' = t
  /\ walk' = [r \in Reader |->
       IF walk[r].at = "off" THEN walk[r]
       ELSE [walk[r] EXCEPT !.steady = @ \cap Shows(t, walk[r].asked)]]

\* PutObjectMetaVersioned: the other rows of the key are no longer the latest.
Save(k, version, marker) ==
  LET same == {r \in table : r.key = k /\ r.version = version /\ version # "own"}
      id == IF same = {} THEN nextId ELSE Max({r.id : r \in same})
      row == [key |-> k, id |-> id, version |-> version, latest |-> TRUE, marker |-> marker]
      others == {[r EXCEPT !.latest = FALSE] : r \in {r \in table \ same : r.key = k}}
  IN /\ Become({r \in table : r.key # k} \cup others \cup {row})
     /\ nextId' = IF same = {} THEN nextId + 1 ELSE nextId

\* DeleteVersionAndPromote.
Unsave(row) ==
  LET others == {r \in table \ {row} : r.key = row.key}
      heir == IF row.latest /\ others # {}
                THEN {r \in others : \A s \in others : s.id <= r.id} ELSE {}
  IN /\ Become(((table \ {row}) \ heir) \cup {[r EXCEPT !.latest = TRUE] : r \in heir})
     /\ UNCHANGED nextId

Change ==
  /\ changes < MaxChanges
  /\ \/ \E k \in Key, version \in Version, marker \in BOOLEAN :
          Save(k, version, marker)
     \/ \E row \in table : Unsave(row)
  /\ changes' = changes + 1
  /\ UNCHANGED walks

ListInit ==
  /\ table \in InitTables
  /\ nextId = 1 + Max({0} \cup {r.id : r \in table})
  /\ walk = [r \in Reader |-> NoWalk]
  /\ changes = 0
  /\ walks = 0

ListNext == Change \/ \E r \in Reader : BeginWalk(r) \/ WalkStep(r)

ListSpec == ListInit /\ [][ListNext]_listVars

-----------------------------------------------------------------------------
\* The entries follow one another in the order of the listing.
InOrder(w) ==
  LET all == w.seen \o w.page
  IN \A i \in 1 .. Len(all) - 1 :
       \/ Before(all[i].key, all[i + 1].key)
       \/ /\ w.asked.kind = "versions"
          /\ all[i].key = all[i + 1].key /\ all[i].id > all[i + 1].id

\* The listing shows e, or the common prefix e is under.
Listed(w, e) ==
  \E i \in DOMAIN w.seen :
    \/ w.seen[i] = e
    \/ w.seen[i].rolled /\ IsPrefix(w.seen[i].key, e.key)

\* Listings the code does not get right: a page of one entry that is the folder listed
\* itself, pages of versions that are rolled up, or as large as a batch, or resumed from
\* a version marker that has come to stand for another row or none.
Sound(w) ==
  IF w.asked.kind = "objects"
    THEN w.asked.max > 1 \/ ~w.asked.delimited \/ ~IsSuffix(<<Delim>>, w.asked.prefix)
    ELSE w.asked.max < BatchSize /\ ~w.asked.delimited /\ w.anchored

\* Pagination resumes after the last returned entry (db/metadata.go:238): whatever comes
\* and goes meanwhile, no entry is returned twice or out of order.
ListedInOrder == \A r \in Reader : walk[r].at # "off" /\ Sound(walk[r]) => InOrder(walk[r])

\* Pagination resumes after the last returned entry (db/metadata.go:238): a client that
\* follows the markers to the end has been shown every object (or its common prefix), or
\* every version, that was there all the time.
WalksAreComplete ==
  \A r \in Reader :
    walk[r].at = "done" /\ Sound(walk[r]) =>
      \A e \in walk[r].steady : Listed(walk[r], e)
=============================================================================
