------------------------------- MODULE DavTree -------------------------------
(***************************************************************************)
(* The tree a bucket is shown as over WebDAV (webdav/filesystem.go,         *)
(* webdav/file.go) and the requests that reshape it key by key: MKCOL, PUT, *)
(* DELETE and MOVE, with the PutObject and the (batch) deletes of S3        *)
(* clients (handler/object.go, handler/delete_objects.go) in between.       *)
(* Every change of a single key is one step, the whole Put or Delete of the *)
(* object service (ObjectStore); a request over a directory is many.        *)
(*                                                                          *)
(* A key is the sequence of its segments, numbers in the order of the names *)
(* they stand for; 0 is the empty last segment of a directory's marker, so  *)
(* "d/" is <<d, 0>>.  The tree holds the keys a plain read finds, in a      *)
(* versioned bucket as in another.                                          *)
(***************************************************************************)
EXTENDS KeyOrder

CONSTANTS
  Proc,       \* concurrent requests
  Files,      \* keys that S3 clients write and delete, some of a folder's marker maybe
  Names,      \* names that WebDAV requests are made for
  Batches,    \* key lists of batch deletes
  InitTrees,  \* sets of keys a behaviour may start with
  PageSize,   \* keys a page of a listing has (1000)
  MaxList,    \* keys after which a listing is given up (100 000)
  Kinds,      \* kinds of request that arrive
  MaxWrites,  \* bound: contents that are written
  MaxRequests,\* bound: requests
  MaxFaults,  \* bound: operations on a key that fail
  MaxCrashes  \* bound: crashes of the process

ASSUME NameAssumption  == \A n \in Names : n \in Seq(Nat \ {0}) /\ n # <<>>
ASSUME FileAssumption  == \A k \in Files : k \in Seq(Nat) /\ k # <<>>
ASSUME TreeAssumption  == \A S \in InitTrees : IsFiniteSet(S) /\ \A k \in S : k \in Seq(Nat) /\ k # <<>>
ASSUME PageAssumption  == PageSize \in Nat \ {0} /\ MaxList \in Nat \ {0}
ASSUME KeysAssumption  == \A b \in Batches : b \in Seq(Files)
ASSUME KindAssumption  == Kinds \subseteq {"mkcol", "put", "delete", "move", "s3put", "batch"}
ASSUME BoundAssumption == /\ MaxWrites \in Nat /\ MaxRequests \in Nat
                          /\ MaxFaults \in Nat /\ MaxCrashes \in Nat

VARIABLES
  tree,     \* tree[k]: the content of key k, for the keys there are
  kept,     \* contents of files that nobody has asked to delete or to overwrite
  req,      \* req[p]: the request of p
  before,   \* before[p]: the tree p began with, as long as nobody else has changed it
  made,     \* contents written so far
  requests, faults, crashes

counts  == <<made, requests, faults, crashes>>
davVars == <<tree, kept, req, before, counts>>

-----------------------------------------------------------------------------
(* Trees. *)

\* The content of a directory's marker, unless an S3 client wrote one.
Dir == 0

Marker(d)   == Append(d, 0)
IsMarker(k) == Last(k) = 0
Parent(k)   == SubSeq(k, 1, Len(k) - 1)

\* The keys below directory d, its marker among them.
Below(t, d) == {k \in DOMAIN t : Len(k) > Len(d) /\ IsPrefix(d, k)}

IsFile(t, n) == n \in DOMAIN t

\* isDir: there is a marker, or a key below.
IsDir(t, n) == Below(t, n) # {}

With(t, k, c)  == [j \in DOMAIN t \cup {k} |-> IF j = k THEN c ELSE t[j]]
Without(t, ks) == [j \in DOMAIN t \ ks |-> t[j]]

\* A key of a moved tree, under its new name.
Moved(k, src, dst) == dst \o SubSeq(k, Len(src) + 1, Len(k))

\* The contents key k holds.
ContentOf(t, k) == IF k \in DOMAIN t THEN {t[k]} \ {Dir} ELSE {}

Contents(t) == {t[k] : k \in DOMAIN t} \ {Dir}

\* What a move puts under the new name of key k: a marker is made anew, with nothing in it.
Copy(t, k) == IF IsMarker(k) THEN Dir ELSE t[k]

-----------------------------------------------------------------------------
(* What requests promise, whole. *)

\* t without the markers above k that have nothing below them but one another.
Pruned(t, k) ==
  LET above(i) == SubSeq(k, 1, i)
      empty(i) == \A j \in Below(t, above(i)) :
                    \E l \in i .. Len(k) - 1 : j = Marker(above(l))
  IN Without(t, {Marker(above(i)) : i \in {i \in 1 .. Len(k) - 1 : empty(i)}})

Deleted(t, n) ==
  Pruned(Without(t, IF IsFile(t, n) THEN {n} ELSE Below(t, n)), n)

Relocated(t, src, dst) ==
  LET gone == IF IsFile(t, src) THEN {src} ELSE Below(t, src)
      new  == {Moved(k, src, dst) : k \in gone} \cup IF IsFile(t, src) THEN {} ELSE {Marker(dst)}
      old(j) == Moved(j, dst, src)
      full == [j \in DOMAIN t \cup new |->
                 IF j \in new /\ old(j) \in gone THEN Copy(t, old(j))
                 ELSE IF j \in new THEN Dir ELSE t[j]]
  IN Pruned(Without(full, gone), src)

\* The tree after request r succeeded on t.
Promised(t, r) ==
  CASE r.kind = "mkcol"  -> With(t, Marker(r.name), Dir)
    [] r.kind \in {"put", "s3put"} -> With(t, r.name, r.taken)
    [] r.kind = "delete" -> Deleted(t, r.name)
    [] r.kind = "batch"  -> Without(t, ToSet(r.batch))
    [] OTHER -> Relocated(IF IsFile(t, r.dst) \/ IsDir(t, r.dst) THEN Deleted(t, r.dst) ELSE t,
                          r.name, r.dst)

-----------------------------------------------------------------------------
(* Requests. *)

\* target: the name RemoveAll or the clean-up of parents works on; todo: the keys listed
\* and not yet dealt with; key: the one under way, taken: its content; then: what follows.
Idle == [kind |-> "none", at |-> "idle", name |-> Nothing, dst |-> Nothing, over |-> FALSE,
         batch |-> <<>>, target |-> Nothing, todo |-> <<>>, marker |-> Nothing,
         taken |-> Dir, failed |-> FALSE, ok |-> FALSE, then |-> "reply"]

Busy(q) == req[q].at # "idle"

\* x/net locks the names a request is made for while it runs; directories above or below
\* them are not locked, and S3 clients lock nothing.
Held(q) == IF req[q].kind = "s3put" THEN {} ELSE {req[q].name, req[q].dst} \ {Nothing}

Goto(p, r) == req' = [req EXCEPT ![p] = r]

Reply(p, r, ok) == Goto(p, [r EXCEPT !.at = "reply", !.ok = ok])

\* An operation on the key under way fails.
Fault ==
  /\ faults < MaxFaults
  /\ faults' = faults + 1
  /\ UNCHANGED <<made, requests, crashes>>

Arrive(p, r, names) ==
  /\ ~Busy(p) /\ r.kind \in Kinds
  /\ requests < MaxRequests
  /\ \A q \in Proc : Held(q) \cap names = {}
  /\ Goto(p, r)
  /\ requests' = requests + 1
  /\ before' = [q \in Proc |-> IF q = p /\ \A o \in Proc : ~Busy(o) THEN {tree} ELSE {}]
  /\ UNCHANGED <<tree, kept, made, faults, crashes>>

BeginMkcol(p) ==
  \E n \in Names : Arrive(p, [Idle EXCEPT !.kind = "mkcol", !.at = "mkcol", !.name = n], {n})

BeginPut(p) ==
  \E n \in Names : Arrive(p, [Idle EXCEPT !.kind = "put", !.at = "open", !.name = n], {n})

BeginDelete(p) ==
  \E n \in Names :
    Arrive(p, [Idle EXCEPT !.kind = "delete", !.at = "removeAll", !.name = n, !.target = n], {n})

Related(m, n) == IsPrefix(m, n) \/ IsPrefix(n, m)

\* A MOVE of n to d and one of m to e each fill what the other empties.
Crossing(n, d, m, e) == Related(n, e) /\ Related(m, d)

\* Two kinds of move are left out, for they do lose what they move: one that overwrites a
\* directory the source is in, which removes the source first, and two that cross.
BeginMove(p) ==
  \E n, d \in Names, over \in BOOLEAN :
    /\ n # d /\ ~IsPrefix(d, n)
    /\ \A q \in Proc : req[q].kind = "move" => ~Crossing(n, d, req[q].name, req[q].dst)
    /\ Arrive(p, [Idle EXCEPT !.kind = "move", !.at = "stat", !.name = n, !.dst = d,
                              !.over = over], {n, d})

\* PutObject, and through it CopyObject and the end of a multipart upload.
BeginS3Put(p) ==
  \E k \in Files : Arrive(p, [Idle EXCEPT !.kind = "s3put", !.at = "write", !.name = k], {})

\* DeleteMultipleObjects, and DeleteObject as a batch of one.
BeginBatch(p) ==
  \E b \in Batches :
    Arrive(p, [Idle EXCEPT !.kind = "batch", !.at = "drop", !.batch = b, !.todo = b], {})

\* The reply reaches the client.
End(p) ==
  /\ req[p].at = "reply"
  /\ Goto(p, Idle)
  /\ before' = [before EXCEPT ![p] = {}]
  /\ UNCHANGED <<tree, kept, counts>>

-----------------------------------------------------------------------------
(* MKCOL and PUT. *)

\* Mkdir: a file or a marker of that name; its parent is not asked for.
Mkdir(p) ==
  LET r == req[p]
  IN /\ r.at = "mkcol"
     /\ IF IsFile(tree, r.name) \/ Marker(r.name) \in DOMAIN tree
          THEN Reply(p, r, FALSE)
          ELSE Goto(p, [r EXCEPT !.at = "mark"])
     /\ UNCHANGED <<tree, kept, before, counts>>

\* putMarker.
PutMarker(p) ==
  LET r == req[p]
  IN /\ r.at = "mark"
     /\ \/ /\ tree' = With(tree, Marker(r.name), Dir)
           /\ Reply(p, r, TRUE)
           /\ UNCHANGED counts
        \/ Fault /\ Reply(p, r, FALSE) /\ UNCHANGED tree
     /\ UNCHANGED <<kept, before>>

\* OpenFile for writing.
OpenFile(p) ==
  LET r == req[p]
  IN /\ r.at = "open"
     /\ IF IsDir(tree, r.name) THEN Reply(p, r, FALSE) ELSE Goto(p, [r EXCEPT !.at = "write"])
     /\ UNCHANGED <<tree, kept, before, counts>>

\* A content of key k is followed if k is a file.
Followed(k, c) == IF IsMarker(k) THEN {} ELSE {c}

\* The body is committed under the name, or its upload fails.  Of a PUT whose body breaks off
\* what came is committed (Stat and Close), and the client gets an error.
Write(p) ==
  LET r == req[p]
  IN /\ r.at = "write"
     /\ \/ /\ made < MaxWrites
           /\ made' = made + 1
           /\ tree' = With(tree, r.name, made')
           /\ kept' = (kept \ ContentOf(tree, r.name)) \cup Followed(r.name, made')
           /\ \E whole \in BOOLEAN :
                /\ whole \/ r.kind = "put"
                /\ Reply(p, [r EXCEPT !.taken = made'], whole)
           /\ UNCHANGED <<requests, faults, crashes>>
        \/ Reply(p, r, FALSE) /\ UNCHANGED <<tree, kept, counts>>
     /\ UNCHANGED before

-----------------------------------------------------------------------------
(* RemoveAll, for DELETE and for a MOVE that overwrites. *)

\* A file, a directory or nothing.
RemoveAll(p) ==
  LET r == req[p]
  IN /\ r.at = "removeAll"
     /\ IF IsFile(tree, r.target)
          THEN Goto(p, [r EXCEPT !.at = "dropFile"])
        ELSE IF IsDir(tree, r.target)
          THEN Goto(p, [r EXCEPT !.at = "list", !.then = "drop"])
        ELSE Reply(p, r, FALSE)
     /\ UNCHANGED <<tree, kept, before, counts>>

\* deleteOne on behalf of a client who wants the key gone.
DropFile(p) ==
  LET r == req[p]
  IN /\ r.at = "dropFile"
     /\ \/ /\ tree' = Without(tree, {r.target})
           /\ kept' = kept \ ContentOf(tree, r.target)
           /\ Goto(p, [r EXCEPT !.at = "prune"])
           /\ UNCHANGED counts
        \/ Fault /\ Reply(p, r, FALSE) /\ UNCHANGED <<tree, kept>>
     /\ UNCHANGED before

\* listAllKeys: the next page of keys below the target, up to the limit.
List(p) ==
  LET r    == req[p]
      left == {k \in Below(tree, r.target) : r.marker = Nothing \/ Before(r.marker, k)}
      page == FirstOf(left, PageSize, Before)
      keys == r.todo \o page
  IN /\ r.at = "list"
     /\ IF Cardinality(left) <= PageSize
          THEN Goto(p, [r EXCEPT !.at = r.then, !.todo = keys, !.marker = Nothing])
        ELSE IF Len(keys) >= MaxList
          THEN Reply(p, r, FALSE)
        ELSE Goto(p, [r EXCEPT !.todo = keys, !.marker = Last(page)])
     /\ UNCHANGED <<tree, kept, before, counts>>

\* The next key of a directory or of a batch is deleted, whatever it holds by now; a
\* failure is counted.
Drop(p) ==
  LET r == req[p]
  IN /\ r.at = "drop" /\ r.todo # <<>>
     /\ \/ /\ tree' = Without(tree, {Head(r.todo)})
           /\ kept' = kept \ ContentOf(tree, Head(r.todo))
           /\ Goto(p, [r EXCEPT !.todo = Tail(@)])
           /\ UNCHANGED counts
        \/ /\ Fault
           /\ Goto(p, [r EXCEPT !.todo = Tail(@), !.failed = TRUE])
           /\ UNCHANGED <<tree, kept>>
     /\ UNCHANGED before

EndDrops(p) ==
  LET r == req[p]
  IN /\ r.at = "drop" /\ r.todo = <<>>
     /\ IF r.kind = "batch" THEN Reply(p, r, ~r.failed) ELSE Goto(p, [r EXCEPT !.at = "prune"])
     /\ UNCHANGED <<tree, kept, before, counts>>

\* What follows once the parents are cleaned up.
AfterPrune(p, r) ==
  IF r.kind = "move" /\ r.target = r.dst /\ ~r.failed
    THEN Goto(p, [r EXCEPT !.at = "rename", !.target = r.name, !.then = "reply"])
    ELSE Reply(p, r, ~r.failed)

\* Faulty variant: only the first parent is looked at.
Prune_OneLevel(p) ==
  LET r == req[p]
      d == Parent(IF r.marker = Nothing THEN r.target ELSE r.marker)
  IN /\ r.at = "prune"
     /\ IF d = Nothing \/ r.marker # Nothing \/ Below(tree, d) \ {Marker(d)} # {}
          THEN AfterPrune(p, [r EXCEPT !.marker = Nothing])
          ELSE Goto(p, [r EXCEPT !.at = "unmark", !.marker = d])
     /\ UNCHANGED <<tree, kept, before, counts>>

\* cleanupEmptyParents: the next parent up, if nothing but its marker is left in it.
Prune(p) ==
  LET r == req[p]
      d == Parent(IF r.marker = Nothing THEN r.target ELSE r.marker)
  IN /\ r.at = "prune"
     /\ IF d = Nothing \/ Below(tree, d) \ {Marker(d)} # {}
          THEN AfterPrune(p, [r EXCEPT !.marker = Nothing])
          ELSE Goto(p, [r EXCEPT !.at = "unmark", !.marker = d])
     /\ UNCHANGED <<tree, kept, before, counts>>

\* Its marker, if it has one, is deleted, whatever has come below it meanwhile.  A failure
\* ends the clean-up and is not reported.
Unmark(p) ==
  LET r == req[p]
  IN /\ r.at = "unmark"
     /\ \/ /\ tree' = Without(tree, {Marker(r.marker)})
           /\ Goto(p, [r EXCEPT !.at = "prune"])
           /\ UNCHANGED <<before, counts>>
        \/ /\ Fault
           /\ AfterPrune(p, [r EXCEPT !.marker = Nothing])
           /\ before' = [before EXCEPT ![p] = {}]
           /\ UNCHANGED tree
     /\ UNCHANGED kept

-----------------------------------------------------------------------------
(* MOVE. *)

\* x/net moveFiles: what is at the destination is removed first, or refuses the move.
StatDst(p) ==
  LET r == req[p]
  IN /\ r.at = "stat"
     /\ IF ~IsFile(tree, r.dst) /\ ~IsDir(tree, r.dst)
          THEN Goto(p, [r EXCEPT !.at = "rename", !.target = r.name])
        ELSE IF r.over
          THEN Goto(p, [r EXCEPT !.at = "removeAll", !.target = r.dst])
        ELSE Reply(p, r, FALSE)
     /\ UNCHANGED <<tree, kept, before, counts>>

\* Rename: never a tree into itself; a file, a directory or nothing.
Rename(p) ==
  LET r == req[p]
  IN /\ r.at = "rename"
     /\ IF IsPrefix(r.name, r.dst)
          THEN Reply(p, r, FALSE)
        ELSE IF IsFile(tree, r.name)
          THEN Goto(p, [r EXCEPT !.at = "take", !.todo = <<r.name>>])
        ELSE IF IsDir(tree, r.name)
          THEN Goto(p, [r EXCEPT !.at = "list", !.then = "markDst"])
        ELSE Reply(p, r, FALSE)
     /\ UNCHANGED <<tree, kept, before, counts>>

\* The destination's marker, whether the source has one or not.
MarkDst(p) ==
  LET r == req[p]
  IN /\ r.at = "markDst"
     /\ \/ /\ tree' = With(tree, Marker(r.dst), Dir)
           /\ Goto(p, [r EXCEPT !.at = "take"])
           /\ UNCHANGED counts
        \/ Fault /\ Reply(p, r, FALSE) /\ UNCHANGED tree
     /\ UNCHANGED <<kept, before>>

\* A key that cannot be moved stays where it is: the end of the move of a file, one of the
\* failures of that of a directory.
Skip(p, r) ==
  IF r.todo = <<r.name>> THEN Reply(p, r, FALSE)
  ELSE Goto(p, [r EXCEPT !.at = "take", !.todo = Tail(@), !.failed = TRUE])

\* The next key: its bytes are opened.  Markers are made anew, but for the topmost, whose
\* place has been taken.
Take(p) ==
  LET r == req[p]
      k == Head(r.todo)
  IN /\ r.at = "take" /\ r.todo # <<>>
     /\ IF IsMarker(k)
          THEN Goto(p, [r EXCEPT !.at = IF k = Marker(r.name) THEN "remove" ELSE "place",
                                 !.taken = Dir])
        ELSE IF IsFile(tree, k)
          THEN Goto(p, [r EXCEPT !.at = "place", !.taken = tree[k]])
        ELSE Skip(p, r)
     /\ UNCHANGED <<tree, kept, before, counts>>

EndTakes(p) ==
  LET r == req[p]
  IN /\ r.at = "take" /\ r.todo = <<>>
     /\ Goto(p, [r EXCEPT !.at = "prune"])
     /\ UNCHANGED <<tree, kept, before, counts>>

\* Faulty variant: the original is removed although the copy failed.
Place_RemovesAnyway(p) ==
  LET r == req[p]
      d == Moved(Head(r.todo), r.name, r.dst)
  IN /\ r.at = "place"
     /\ \/ /\ tree' = With(tree, d, r.taken)
           /\ kept' = kept \ (ContentOf(tree, d) \ {r.taken})
           /\ Goto(p, [r EXCEPT !.at = "remove"])
           /\ UNCHANGED counts
        \/ Fault /\ Goto(p, [r EXCEPT !.at = "remove"]) /\ UNCHANGED <<tree, kept>>
     /\ UNCHANGED before

\* The copy takes the place of whatever is there by now.
Place(p) ==
  LET r == req[p]
      d == Moved(Head(r.todo), r.name, r.dst)
  IN /\ r.at = "place"
     /\ \/ /\ tree' = With(tree, d, r.taken)
           /\ kept' = kept \ (ContentOf(tree, d) \ {r.taken})
           /\ Goto(p, [r EXCEPT !.at = "remove"])
           /\ UNCHANGED counts
        \/ Fault /\ Skip(p, r) /\ UNCHANGED <<tree, kept>>
     /\ UNCHANGED before

\* The original is deleted.  If somebody wrote it again after it was copied, the move takes
\* the new content with it.
RemoveSource(p) ==
  LET r == req[p]
      k == Head(r.todo)
  IN /\ r.at = "remove"
     /\ \/ /\ tree' = Without(tree, {k})
           /\ kept' = kept \ (ContentOf(tree, k) \ {r.taken})
           /\ Goto(p, IF r.todo = <<r.name>>
                        THEN [r EXCEPT !.at = "prune", !.todo = <<>>]
                        ELSE [r EXCEPT !.at = "take", !.todo = Tail(@)])
           /\ UNCHANGED counts
        \/ Fault /\ Skip(p, r) /\ UNCHANGED <<tree, kept>>
     /\ UNCHANGED before

-----------------------------------------------------------------------------
(* The end of the process. *)

Alone == [q \in Proc |-> {}]

\* The process dies and starts again; nothing finishes what requests had begun.
Crash ==
  /\ crashes < MaxCrashes
  /\ \E p \in Proc : Busy(p)
  /\ crashes' = crashes + 1
  /\ req' = [p \in Proc |-> Idle]
  /\ before' = Alone
  /\ UNCHANGED <<tree, kept, made, requests, faults>>

Init ==
  /\ \E S \in InitTrees :
       tree = [k \in S |-> IF IsMarker(k) THEN Dir
                          ELSE Cardinality({j \in S : ~IsMarker(j) /\ ~Before(k, j)})]
  /\ kept = Contents(tree)
  /\ made = Cardinality(kept)
  /\ req = [p \in Proc |-> Idle]
  /\ before = Alone
  /\ requests = 0 /\ faults = 0 /\ crashes = 0

Begin(p) == BeginMkcol(p) \/ BeginPut(p) \/ BeginDelete(p) \/ BeginMove(p) \/ BeginS3Put(p) \/ BeginBatch(p)

Step(p) ==
  \/ Mkdir(p) \/ PutMarker(p) \/ OpenFile(p) \/ Write(p)
  \/ RemoveAll(p) \/ DropFile(p) \/ List(p) \/ Drop(p) \/ EndDrops(p) \/ Prune(p) \/ Unmark(p)
  \/ StatDst(p) \/ Rename(p) \/ MarkDst(p) \/ Take(p) \/ EndTakes(p) \/ Place(p) \/ RemoveSource(p)
  \/ End(p)

Next == Crash \/ \E p \in Proc : Begin(p) \/ Step(p)

DavSpec == Init /\ [][Next]_davVars

-----------------------------------------------------------------------------
\* A move copies before it deletes, and a delete goes by keys (webdav/filesystem.go:218,
\* webdav/filesystem.go:174): whichever of these requests fails, overlaps another or is cut off,
\* what a file holds is in the tree until somebody deletes or overwrites it, or writes anew what
\* is just being moved.  This is not so of the moves BeginMove leaves out, nor of what an S3
\* client wrote under a folder's own key ("d/"): a move makes that anew, empty
\* (webdav/filesystem.go:273), and the clean-up of empty folders deletes it.
NothingIsLost == kept \subseteq Contents(tree)

\* A request that reports success, with nothing else going on, has done all of what it was
\* asked for and nothing else: every key of the subtree is moved or gone, and so are the
\* folders it leaves empty (README.md:296), and no other; a moved folder's marker arrives empty.
SuccessIsWhole ==
  \A p \in Proc :
    req[p].at = "reply" /\ req[p].ok =>
      \A t \in before[p] : tree = Promised(t, req[p])
=============================================================================
