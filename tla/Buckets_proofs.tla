----------------------------- MODULE Buckets_proofs -----------------------------
(***************************************************************************)
(* Theorems about Buckets, for every set of keys, contents, bases and        *)
(* requests and all bounds; those about places and files are under Apart.    *)
(* Reach and Tidy relate the rows to the files at every step; Moving says    *)
(* how far a storage move has come; Within is the room a checked put has.    *)
(***************************************************************************)
EXTENDS Buckets, FiniteSetTheorems, WellFoundedInduction, TLAPS

\* Which requests overlap, and what may fail.  Creations and moves have the bucket to
\* themselves, and uploads overlap only with uploads and deletes of objects: an upload
\* beside a delete of its bucket or its folder is lost or leaves its bytes.  No crash
\* cuts off a move, which nothing resumes.  A prefix delete tries each key twice and then
\* removes the folder with whatever has failed, so it survives one failure.
Apart ==
  /\ \A S \in Together : /\ S \cap {"create", "move"} = {}
                         /\ "put" \in S => S \subseteq {"put", "delete"}
  /\ "move" \in Uncut
  /\ "prefix" \in Kinds => MaxFaults <= 1

\* What a step of a move may name.
Entry == Key \cup Proc \cup {"dir"}

DropSteps == {"trylock", "count", "drop", "tree", "forget"}

\* The steps of each kind of request.
StepsOf(kind) ==
  CASE kind = "put"    -> {"lock", "mkdir", "temp", "verify", "rename", "save"}
    [] kind = "delete" -> {"lock", "row", "unlink", "prune"}
    [] kind = "prefix" -> {"list", "next", "lock", "row", "unlink", "prune", "folder"}
    [] kind = "create" -> {"insert", "register", "mkroot", "revoke", "unregister"}
    [] kind = "move"   -> {"trylock", "prepare", "move", "switch", "clear", "undo"}
    [] kind \in Drops  -> DropSteps
    [] OTHER           -> {"idle"}

Steps ==
  {"idle", "lock", "mkdir", "temp", "verify", "rename", "save", "row", "unlink", "prune",
   "list", "next", "folder", "insert", "register", "mkroot", "revoke", "unregister",
   "prepare", "move", "switch", "clear", "undo"} \cup DropSteps

Request ==
  [kind : AllKinds \cup {"none"}, pc : Steps,
   key : Key \cup {None}, content : Content \cup {None}, id : Nat, quota : Nat,
   from : Base \cup {None}, base : Base \cup {None}, todo : SUBSET Entry,
   moved : SUBSET Entry, pass : Nat, since : Nat]

TypeOK ==
  /\ bucket \in BucketRow \cup {None}
  /\ rows \in [Key -> Content \cup {None}]
  /\ nextId \in Nat
  /\ custom \in (Base \ {Root}) \cup {None}
  /\ busy \in BOOLEAN
  /\ top \in [Base -> BOOLEAN] /\ sub \in [Base -> BOOLEAN]
  /\ file \in [Base -> [Key -> Content \cup {None}]]
  /\ temp \in [Proc -> Base \cup {None}]
  /\ op \in [Proc -> Request]
  /\ requests \in Nat /\ faults \in Nat /\ crashes \in Nat
  /\ ignored \subseteq Ignorable

\* A request is at a step of its kind, with the fields that step uses.
Consistent(r) ==
  /\ r.pc \in StepsOf(r.kind)
  /\ r.kind \in Kinds \cup {"none"}
  /\ r.kind = "none" => r = NoOp
  /\ r.kind \in {"put", "delete"} => r.key \in Key
  /\ r.kind = "put" => r.content \in Content
  /\ r.kind = "put" /\ r.pc # "lock" => r.base \in Base
  /\ r.kind = "prefix" =>
       /\ r.todo \subseteq InDir
       /\ r.pc \in {"lock", "row", "unlink", "prune"} => r.key \in InDir
       /\ r.pc = "list" => r.pass \in {0, 1}
       /\ r.pc = "folder" => r.pass = 2
       /\ r.pc \notin {"list", "folder"} => r.pass \in {1, 2}
  /\ r.kind \in {"create", "move"} => r.base \in Base
  /\ r.pc \in {"register", "unregister"} => r.base # Root
  /\ r.kind = "move" => r.from \in Base /\ r.from # r.base
  /\ r.moved # {} => r.pc \in {"move", "switch", "clear", "undo"}
  /\ r.pc = "prune" => r.base \in Base

Placed(p) == Consistent(op[p])
Control == \A p \in Proc : Placed(p)

Act(p) == Begin(p) \/ Acquire(p) \/ Step(p)

LEMMA NoOpType == NoOp \in Request
  BY DEF NoOp, Request, Steps, DropSteps

LEMMA PlaceType == ASSUME TypeOK PROVE Place \in Base /\ Recorded \in Base
  BY PlaceAssumption DEF TypeOK, Place, Recorded, BucketRow

LEMMA ReturnType ==
  ASSUME TypeOK, NEW p \in Proc, Return(p) PROVE op' \in [Proc -> Request]
  BY NoOpType DEF TypeOK, Return

LEMMA GotoType ==
  ASSUME TypeOK, NEW p \in Proc, NEW l \in Steps, Goto(p, l) PROVE op' \in [Proc -> Request]
  <1>1. op[p] \in Request
    BY DEF TypeOK
  <1>2. [op[p] EXCEPT !.pc = l] \in Request
    BY <1>1 DEF Request
  <1> QED
    BY <1>2 DEF TypeOK, Goto

LEMMA NextKeyType ==
  ASSUME TypeOK, NEW p \in Proc, NextKey(p) PROVE op' \in [Proc -> Request]
  <1>0. op[p] \in Request /\ "next" \in Steps
    BY DEF TypeOK, Steps
  <1>1. [op[p] EXCEPT !.pc = "next", !.key = None] \in Request
    BY <1>0 DEF Request
  <1>2. op' = [op EXCEPT ![p] = [op[p] EXCEPT !.pc = "next", !.key = None]] \/ op' = [op EXCEPT ![p] = NoOp]
    BY DEF NextKey, TypeOK
  <1> QED
    BY <1>1, <1>2, NoOpType DEF TypeOK

LEMMA EntriesType == \A b : Entries(b) \subseteq Entry
  BY DEF Entries, Entry

LEMMA LoadType ==
  ASSUME TypeOK, NEW p \in Proc, NEW kind \in AllKinds, NEW r \in Request, Load(p, kind, r)
  PROVE  op' \in [Proc -> Request]
  <1>1. bucket.id \in Nat /\ bucket.quota \in Nat /\ Recorded \in Base
    BY PlaceType DEF TypeOK, Load, BucketRow
  <1> DEFINE s == [r EXCEPT !.kind = kind, !.id = bucket.id, !.quota = bucket.quota,
                            !.from = Recorded]
  <1>2. s \in Request
    BY <1>1 DEF Request, Steps, DropSteps
  <1>3. op' = [op EXCEPT ![p] = s]
    BY DEF Load, Arrive
  <1> HIDE DEF s
  <1> QED
    BY <1>2, <1>3 DEF TypeOK

LEMMA TypeBegin ==
  ASSUME TypeOK, NEW p \in Proc, Begin(p) PROVE TypeOK'
  <1>1. CASE BeginPut(p)
    <2>1. PICK k \in Key, c \in Content :
            Load(p, "put", [NoOp EXCEPT !.pc = "lock", !.key = k, !.content = c])
      BY <1>1 DEF BeginPut
    <2>2. [NoOp EXCEPT !.pc = "lock", !.key = k, !.content = c] \in Request
      BY NoOpType DEF Request, Steps, DropSteps
    <2>3. op' \in [Proc -> Request]
      BY <2>1, <2>2, LoadType DEF AllKinds
    <2> QED
      BY <2>1, <2>3 DEF Load, Arrive, TypeOK, table, disk
  <1>2. CASE BeginDelete(p)
    <2>1. PICK k \in Key : Load(p, "delete", [NoOp EXCEPT !.pc = "lock", !.key = k])
      BY <1>2 DEF BeginDelete
    <2>2. [NoOp EXCEPT !.pc = "lock", !.key = k] \in Request
      BY NoOpType DEF Request, Steps, DropSteps
    <2>3. op' \in [Proc -> Request]
      BY <2>1, <2>2, LoadType DEF AllKinds
    <2> QED
      BY <2>1, <2>3 DEF Load, Arrive, TypeOK, table, disk
  <1>3. CASE BeginPrefix(p)
    <2>2. [NoOp EXCEPT !.pc = "list"] \in Request
      BY NoOpType DEF Request, Steps, DropSteps
    <2>3. op' \in [Proc -> Request]
      BY <1>3, <2>2, LoadType DEF AllKinds, BeginPrefix
    <2> QED
      BY <1>3, <2>3 DEF BeginPrefix, Load, Arrive, TypeOK, table, disk
  <1>4. CASE BeginCreate(p)
    <2>1. PICK b \in Base :
            Arrive(p, "create", [NoOp EXCEPT !.kind = "create", !.pc = "insert", !.base = b])
      BY <1>4 DEF BeginCreate
    <2>2. [NoOp EXCEPT !.kind = "create", !.pc = "insert", !.base = b] \in Request
      BY NoOpType DEF Request, Steps, DropSteps, AllKinds
    <2> QED
      BY <2>1, <2>2 DEF Arrive, TypeOK, table, disk
  <1>5. CASE BeginDrop(p)
    <2>1. PICK kind \in Drops :
            Load(p, kind, [NoOp EXCEPT !.pc = IF kind = "drop" THEN "count" ELSE "trylock"])
      BY <1>5 DEF BeginDrop
    <2>2. [NoOp EXCEPT !.pc = IF kind = "drop" THEN "count" ELSE "trylock"] \in Request
      BY NoOpType DEF Request, Steps, DropSteps
    <2>3. op' \in [Proc -> Request]
      BY <2>1, <2>2, LoadType DEF AllKinds
    <2> QED
      BY <2>1, <2>3 DEF Load, Arrive, TypeOK, table, disk
  <1>6. CASE BeginMove(p)
    <2>1. PICK b \in Base \ {Recorded} :
            Load(p, "move", [NoOp EXCEPT !.pc = "trylock", !.base = b])
      BY <1>6 DEF BeginMove
    <2>2. [NoOp EXCEPT !.pc = "trylock", !.base = b] \in Request
      BY NoOpType DEF Request, Steps, DropSteps
    <2>3. op' \in [Proc -> Request]
      BY <2>1, <2>2, LoadType DEF AllKinds
    <2> QED
      BY <2>1, <2>3 DEF Load, Arrive, TypeOK, table, disk
  <1> QED
    BY <1>1, <1>2, <1>3, <1>4, <1>5, <1>6 DEF Begin

LEMMA BoundsType ==
  ASSUME TypeOK, NEW kind, NoFault \/ Fault \/ Ignore(kind)
  PROVE  /\ requests' \in Nat /\ faults' \in Nat /\ crashes' \in Nat
         /\ ignored' \subseteq Ignorable /\ ignored \subseteq ignored' /\ crashes' = crashes
         /\ faults' \in {faults, faults + 1}
  BY DEF NoFault, Fault, Ignore, bounds, TypeOK

\* What a removal leaves of a tree, and that something stays only if it is logged.
LEMMA RemoveAllEffect ==
  ASSUME TypeOK, NEW b \in Base, NEW S, NEW stay, RemoveAll(b, S, stay)
  PROVE  /\ file' \in [Base -> [Key -> Content \cup {None}]]
         /\ temp' \in [Proc -> Base \cup {None}] /\ sub' \in [Base -> BOOLEAN]
         /\ \A c \in Base \ {b} : file'[c] = file[c] /\ sub'[c] = sub[c]
         /\ \A k \in Key : file'[b][k] = IF k \in S \ stay THEN None ELSE file[b][k]
         /\ \A q \in Proc : temp'[q] \in {temp[q], None}
         /\ sub' = sub \/ InSub(b) \cap stay = {}
         /\ NoFault \/ Ignore("removal")
         /\ ignored' = {} => stay = {}
  <1>1. /\ file' = [file EXCEPT ![b] = [k \in Key |-> IF k \in S \ stay THEN None ELSE @[k]]]
        /\ temp' = [q \in Proc |-> IF q \in S \ stay THEN None ELSE temp[q]]
        /\ sub'  = IF InSub(b) \cap stay = {} THEN [sub EXCEPT ![b] = FALSE] ELSE sub
        /\ IF stay = {} THEN NoFault ELSE Ignore("removal")
    BY DEF RemoveAll
  <1>2. /\ file' \in [Base -> [Key -> Content \cup {None}]]
        /\ \A c \in Base \ {b} : file'[c] = file[c]
        /\ \A k \in Key : file'[b][k] = IF k \in S \ stay THEN None ELSE file[b][k]
    BY <1>1 DEF TypeOK
  <1>3. /\ sub' \in [Base -> BOOLEAN] /\ \A c \in Base \ {b} : sub'[c] = sub[c]
        /\ sub' = sub \/ InSub(b) \cap stay = {}
    BY <1>1 DEF TypeOK
  <1>4. temp' \in [Proc -> Base \cup {None}] /\ \A q \in Proc : temp'[q] \in {temp[q], None}
    BY <1>1 DEF TypeOK
  <1>5. ignored' = {} => stay = {}
    BY <1>1 DEF Ignore
  <1> QED
    BY <1>1, <1>2, <1>3, <1>4, <1>5

LEMMA OpType ==
  ASSUME TypeOK, NEW p \in Proc, NEW r \in Request, op' = [op EXCEPT ![p] = r]
  PROVE  op' \in [Proc -> Request]
  BY DEF TypeOK

LEMMA TypeObject ==
  ASSUME TypeOK, NEW p \in Proc, Placed(p), Acquire(p) \/ ObjectStep(p) PROVE TypeOK'
  <1> USE PlaceType, PlaceAssumption, NoneAssumption
  <1> USE DEF table, disk, bounds
  <1>0. op[p] \in Request
    BY DEF TypeOK
  <1>a. {"mkdir", "temp", "verify", "rename", "save", "row", "unlink", "prune", "next", "list", "folder", "lock"} \subseteq Steps
    BY DEF Steps
  <1>b. op[p].base \in Base \cup {None} /\ op[p].key \in Key \cup {None}
        /\ op[p].content \in Content \cup {None}
    BY <1>0 DEF Request
  <1>1. CASE Acquire(p)
    <2>1. [op[p] EXCEPT !.pc = IF op[p].kind = "put" THEN "mkdir" ELSE "row",
                        !.base = IF op[p].kind = "put" THEN Place ELSE None] \in Request
      BY <1>0, <1>a DEF Request
    <2>2. op' \in [Proc -> Request]
      BY <1>1, <2>1 DEF Acquire, TypeOK
    <2> QED
      BY <1>1, <2>2 DEF Acquire, TypeOK
  <1>2. CASE MakeDirs(p)
    <2>1. op' \in [Proc -> Request]
      BY <1>2, <1>a, GotoType DEF MakeDirs
    <2> QED
      BY <1>2, <2>1 DEF MakeDirs, TypeOK
  <1>3. CASE MakeTemp(p)
    <2>1. op' \in [Proc -> Request]
      BY <1>3, <1>a, GotoType, ReturnType DEF MakeTemp
    <2> QED
      BY <1>3, <1>b, <2>1 DEF MakeTemp, TypeOK
  <1>4. CASE Verify(p)
    <2>1. op' \in [Proc -> Request]
      BY <1>4, <1>a, GotoType, ReturnType DEF Verify
    <2> QED
      BY <1>4, <2>1 DEF Verify, TypeOK
  <1>5. CASE Publish(p)
    <2>1. op' \in [Proc -> Request]
      BY <1>5, <1>a, GotoType, ReturnType DEF Publish
    <2>2. file' \in [Base -> [Key -> Content \cup {None}]]
      BY <1>5, <1>b DEF Publish, TypeOK
    <2> QED
      BY <1>5, <2>1, <2>2 DEF Publish, TypeOK
  <1>6. CASE SaveRow(p)
    <2> DEFINE more(q) == [op[q] EXCEPT !.since = @ + Size[op[p].content]]
    <2>1. op[p].content \in Content
      BY <1>6 DEF SaveRow, Placed, Consistent, StepsOf, Drops, DropSteps
    <2>2. ASSUME NEW q \in Proc PROVE more(q) \in Request
      <3>1. op[q] \in Request
        BY DEF TypeOK
      <3>2. op[q].since + Size[op[p].content] \in Nat
        BY <2>1, <3>1, SizeAssumption DEF Request
      <3> QED
        BY <3>1, <3>2 DEF Request
    <2>3. op' = [q \in Proc |-> IF q = p THEN NoOp
                               ELSE IF Live(p) /\ op[q].pc \in {"rename", "save"} THEN more(q)
                               ELSE op[q]]
      BY <1>6 DEF SaveRow
    <2> HIDE DEF more
    <2>4. op' \in [Proc -> Request]
      BY <2>2, <2>3, NoOpType DEF TypeOK
    <2> QED
      BY <1>6, <1>b, <2>4 DEF SaveRow, TypeOK
  <1>7. CASE DropRow(p)
    <2>1. op' \in [Proc -> Request]
      BY <1>7, <1>a, GotoType, NextKeyType DEF DropRow
    <2> QED
      BY <1>7, <2>1 DEF DropRow, Fault, NoFault, TypeOK
  <1>8. CASE Unlink(p)
    <2>1. [op[p] EXCEPT !.pc = "prune", !.base = Place] \in Request
      BY <1>0, <1>a DEF Request
    <2>2. op' \in [Proc -> Request]
      BY <1>8, <2>1, NextKeyType DEF Unlink, TypeOK
    <2>3. NoFault \/ Ignore("removal")
      BY <1>8 DEF Unlink
    <2>4. file' \in [Base -> [Key -> Content \cup {None}]]
      <3>1. CASE file' = [file EXCEPT ![Place][op[p].key] = None]
        BY <3>1 DEF TypeOK
      <3>2. CASE file' = file
        BY <3>2 DEF TypeOK
      <3> QED
        BY <1>8, <3>1, <3>2 DEF Unlink
    <2> QED
      BY <1>8, <2>2, <2>3, <2>4, BoundsType DEF Unlink, TypeOK
  <1>9. CASE Prune(p)
    <2>1. op' \in [Proc -> Request]
      BY <1>9, <1>a, NextKeyType DEF Prune
    <2> QED
      BY <1>9, <2>1 DEF Prune, TypeOK
  <1>10. CASE ListPrefix(p)
    <2>1. (IF Live(p) THEN Stored \cap InDir ELSE {}) \subseteq Entry
      BY DEF Stored, Entry
    <2> DEFINE found == IF Live(p) THEN Stored \cap InDir ELSE {}
    <2>4. op[p].pass + 1 \in Nat
      BY <1>0 DEF Request
    <2>5. found \subseteq Entry /\ "next" \in Steps
      BY <1>a, <2>1
    <2> HIDE DEF found
    <2>2. [op[p] EXCEPT !.todo = found, !.pass = @ + 1, !.pc = "next"] \in Request
      BY <1>0, <2>4, <2>5 DEF Request
    <2> USE DEF found
    <2>3. op' \in [Proc -> Request]
      BY <1>10, <2>2 DEF ListPrefix, TypeOK
    <2> QED
      BY <1>10, <2>3 DEF ListPrefix, TypeOK
  <1>11. CASE PickKey(p)
    <2>1. ASSUME NEW k \in op[p].todo, op[p].kind = "prefix"
          PROVE  [op[p] EXCEPT !.key = k, !.todo = @ \ {k}, !.pc = "lock"] \in Request
      BY <1>0, <1>a, <2>1 DEF Request, Placed, Consistent
    <2>2. op[p].kind = "prefix"
      BY <1>11 DEF PickKey, Placed, Consistent, StepsOf, Drops, DropSteps
    <2>3. CASE op[p].todo = {}
      BY <1>11, <1>a, <2>3, GotoType DEF PickKey, TypeOK
    <2>4. CASE op[p].todo # {}
      <3>1. PICK k \in op[p].todo :
              op' = [op EXCEPT ![p].key = k, ![p].todo = @ \ {k}, ![p].pc = "lock"]
        BY <1>11, <2>4 DEF PickKey
      <3>2. op' \in [Proc -> Request]
        BY <2>1, <2>2, <3>1 DEF TypeOK
      <3> QED
        BY <1>11, <3>2 DEF PickKey, TypeOK
    <2> QED
      BY <2>3, <2>4
  <1>12. CASE RemoveFolder(p)
    <2>1. op' \in [Proc -> Request]
      BY <1>12, ReturnType DEF RemoveFolder
    <2>2. PICK stay \in SUBSET InSub(Place) : RemoveAll(Place, InSub(Place), stay)
      BY <1>12 DEF RemoveFolder
    <2>3. /\ file' \in [Base -> [Key -> Content \cup {None}]]
          /\ temp' \in [Proc -> Base \cup {None}] /\ sub' \in [Base -> BOOLEAN]
          /\ NoFault \/ Ignore("removal")
      BY <2>2, RemoveAllEffect
    <2>4. requests' \in Nat /\ faults' \in Nat /\ crashes' \in Nat /\ ignored' \subseteq Ignorable
      BY <2>3, BoundsType
    <2> QED
      BY <1>12, <2>1, <2>3, <2>4 DEF RemoveFolder, TypeOK
  <1> QED
    BY <1>1, <1>2, <1>3, <1>4, <1>5, <1>6, <1>7, <1>8, <1>9, <1>10, <1>11, <1>12 DEF ObjectStep

LEMMA RenameType ==
  ASSUME TypeOK, NEW e, NEW from \in Base, NEW to \in Base, Rename(e, from, to)
  PROVE  /\ file' \in [Base -> [Key -> Content \cup {None}]]
         /\ temp' \in [Proc -> Base \cup {None}]
         /\ sub' \in [Base -> BOOLEAN] /\ top' \in [Base -> BOOLEAN]
  <1>1. file' \in [Base -> [Key -> Content \cup {None}]]
    <2> DEFINE all == IF e = "dir" THEN InDir ELSE {e} \cap Key
               here == [k \in Key |-> IF k \in all THEN file[from][k] ELSE file[to][k]]
               gone(f) == [k \in Key |-> IF k \in all THEN None ELSE f[from][k]]
    <2>1. here \in [Key -> Content \cup {None}]
      BY DEF TypeOK
    <2> DEFINE f1 == [file EXCEPT ![to] = here]
    <2>2. f1 \in [Base -> [Key -> Content \cup {None}]]
      BY <2>1 DEF TypeOK
    <2>3. file' = [f1 EXCEPT ![from] = gone(f1)]
      BY DEF Rename
    <2>4. gone(f1) \in [Key -> Content \cup {None}]
      BY <2>2
    <2> QED
      BY <2>2, <2>3, <2>4
  <1>2. temp' \in [Proc -> Base \cup {None}]
    BY DEF Rename, TypeOK
  <1>3. sub' \in [Base -> BOOLEAN] /\ top' \in [Base -> BOOLEAN]
    BY DEF Rename, TypeOK
  <1> QED
    BY <1>1, <1>2, <1>3

LEMMA TypeBucket ==
  ASSUME TypeOK, NEW p \in Proc, Placed(p), BucketStep(p) PROVE TypeOK'
  <1> USE PlaceType, PlaceAssumption, NoneAssumption
  <1> USE DEF table, disk, bounds
  <1>0. op[p] \in Request
    BY DEF TypeOK
  <1>a. {"register", "mkroot", "revoke", "unregister", "prepare", "count", "drop", "tree", "forget",
         "move", "undo", "switch", "clear"} \subseteq Steps
    BY DEF Steps, DropSteps
  <1>b. op[p].kind \in {"create", "move"} => op[p].base \in Base
    BY DEF Placed, Consistent
  <1>c. op[p].kind = "move" => op[p].from \in Base
    BY DEF Placed, Consistent
  <1>d. op[p].pc \in {"insert", "register", "mkroot"} => op[p].kind = "create"
    BY DEF Placed, Consistent, StepsOf, Drops, DropSteps
  <1>e. op[p].pc \in {"prepare", "move", "switch", "clear", "undo"} => op[p].kind = "move"
    BY DEF Placed, Consistent, StepsOf, Drops, DropSteps
  <1>f. \A b \in Base : AsDir(b) \in (Base \ {Root}) \cup {None}
    BY DEF AsDir
  <1>g. Release(p) => op' \in [Proc -> Request] /\ busy' \in BOOLEAN
    BY ReturnType DEF Release, TypeOK
  <1>1. CASE InsertBucket(p)
    <2>1. op' \in [Proc -> Request]
      BY <1>1, <1>a, GotoType, ReturnType DEF InsertBucket
    <2>2. [id |-> nextId, dir |-> AsDir(op[p].base), quota |-> 0] \in BucketRow
      BY <1>1, <1>b, <1>d, <1>f DEF InsertBucket, TypeOK, BucketRow
    <2> QED
      BY <1>1, <2>1, <2>2 DEF InsertBucket, TypeOK
  <1>2. CASE Register(p)
    <2>1. op' \in [Proc -> Request]
      BY <1>2, <1>a, GotoType DEF Register
    <2> QED
      BY <1>2, <1>b, <1>d, <2>1 DEF Register, TypeOK, Placed, Consistent
  <1>3. CASE MakeRoot(p)
    <2>1. op' \in [Proc -> Request]
      BY <1>3, <1>a, GotoType, ReturnType DEF MakeRoot
    <2>2. top' \in [Base -> BOOLEAN]
      BY <1>3 DEF MakeRoot, TypeOK
    <2>3. requests' \in Nat /\ faults' \in Nat /\ crashes' \in Nat /\ ignored' \subseteq Ignorable
      BY <1>3 DEF MakeRoot, Fault, NoFault, TypeOK
    <2> QED
      BY <1>3, <2>1, <2>2, <2>3 DEF MakeRoot, TypeOK
  <1>4. CASE Revoke(p)
    <2>1. op' \in [Proc -> Request]
      BY <1>4, <1>a, GotoType, ReturnType DEF Revoke
    <2>2. NoFault \/ Ignore("revocation")
      BY <1>4 DEF Revoke
    <2>3. bucket' \in BucketRow \cup {None} /\ rows' \in [Key -> Content \cup {None}]
      BY <1>4 DEF Revoke, TypeOK
    <2> QED
      BY <1>4, <2>1, <2>2, <2>3, BoundsType DEF Revoke, TypeOK
  <1>5. CASE Unregister(p)
    <2>1. op' \in [Proc -> Request]
      BY <1>5, ReturnType DEF Unregister
    <2> QED
      BY <1>5, <2>1 DEF Unregister, TypeOK
  <1>6. CASE TryLock(p)
    <2>1. op' \in [Proc -> Request]
      BY <1>6, <1>a, GotoType, ReturnType DEF TryLock
    <2> QED
      BY <1>6, <2>1 DEF TryLock, TypeOK
  <1>7. CASE CountRows(p)
    <2>1. op' \in [Proc -> Request] /\ busy' \in BOOLEAN
      BY <1>7, <1>a, <1>g, GotoType DEF CountRows, TypeOK
    <2> QED
      BY <1>7, <2>1 DEF CountRows, TypeOK
  <1>8. CASE DropBucket(p)
    <2>1. op' \in [Proc -> Request] /\ busy' \in BOOLEAN
      BY <1>8, <1>a, <1>g, GotoType DEF DropBucket, TypeOK
    <2> QED
      BY <1>8, <2>1 DEF DropBucket, Fault, NoFault, TypeOK
  <1>9. CASE RemoveTree(p)
    <2>1. op' \in [Proc -> Request]
      BY <1>9, <1>a, GotoType DEF RemoveTree
    <2>2. PICK stay \in SUBSET InTree(Place) :
            /\ RemoveAll(Place, InTree(Place), stay)
            /\ top' = IF stay = {} THEN [top EXCEPT ![Place] = FALSE] ELSE top
      BY <1>9 DEF RemoveTree
    <2>3. top' \in [Base -> BOOLEAN]
      BY <2>2 DEF TypeOK
    <2>4. /\ file' \in [Base -> [Key -> Content \cup {None}]]
          /\ temp' \in [Proc -> Base \cup {None}] /\ sub' \in [Base -> BOOLEAN]
          /\ NoFault \/ Ignore("removal")
      BY <2>2, RemoveAllEffect
    <2>5. requests' \in Nat /\ faults' \in Nat /\ crashes' \in Nat /\ ignored' \subseteq Ignorable
      BY <2>4, BoundsType
    <2> QED
      BY <1>9, <2>1, <2>3, <2>4, <2>5 DEF RemoveTree, TypeOK
  <1>10. CASE Forget(p)
    BY <1>10, <1>g DEF Forget, TypeOK
  <1>11. CASE Prepare(p)
    <2> DEFINE found == Entries(op[p].from)
    <2>1. found \subseteq Entry
      BY EntriesType
    <2> HIDE DEF found
    <2>2. [op[p] EXCEPT !.todo = found, !.pc = "move"] \in Request
      BY <1>0, <1>a, <2>1 DEF Request
    <2> USE DEF found
    <2>3. op' \in [Proc -> Request]
      BY <1>11, <2>2 DEF Prepare, TypeOK
    <2> QED
      BY <1>11, <2>3 DEF Prepare, TypeOK
  <1>12. CASE MoveEntry(p)
    <2>1. PICK e \in op[p].todo :
            IF e \in Entries(op[p].from) \ Entries(op[p].base)
              THEN /\ Rename(e, op[p].from, op[p].base)
                   /\ op' = [op EXCEPT ![p].todo = @ \ {e}, ![p].moved = @ \cup {e}]
              ELSE Goto(p, "undo") /\ UNCHANGED disk
      BY <1>12 DEF MoveEntry
    <2>2. e \in Entry
      BY <1>0 DEF Request
    <2>3. [op[p] EXCEPT !.todo = @ \ {e}, !.moved = @ \cup {e}] \in Request
      BY <1>0, <2>2 DEF Request
    <2>4. op[p].from \in Base /\ op[p].base \in Base
      BY <1>12, <1>b, <1>c, <1>e DEF MoveEntry
    <2>5. CASE e \in Entries(op[p].from) \ Entries(op[p].base)
      <3>1. op' \in [Proc -> Request]
        BY <2>1, <2>3, <2>5 DEF TypeOK
      <3> QED
        BY <1>12, <2>1, <2>4, <2>5, <3>1, RenameType DEF MoveEntry, TypeOK
    <2>6. CASE e \notin Entries(op[p].from) \ Entries(op[p].base)
      <3>1. op' \in [Proc -> Request]
        BY <1>a, <2>1, <2>6, GotoType
      <3> QED
        BY <1>12, <2>1, <2>6, <3>1 DEF MoveEntry, TypeOK
    <2> QED
      BY <2>5, <2>6
  <1>13. CASE RecordPlace(p)
    <2>1. op' \in [Proc -> Request]
      BY <1>13, <1>a, GotoType DEF RecordPlace
    <2>2. bucket # None => [bucket EXCEPT !.dir = AsDir(op[p].base)] \in BucketRow
      BY <1>13, <1>b, <1>e, <1>f DEF RecordPlace, TypeOK, BucketRow
    <2> QED
      BY <1>13, <2>1, <2>2 DEF RecordPlace, TypeOK
  <1>14. CASE FailMove(p)
    <2>1. op' \in [Proc -> Request]
      BY <1>14, <1>a, GotoType DEF FailMove
    <2> QED
      BY <1>14, <2>1 DEF FailMove, Fault, TypeOK
  <1>15. CASE SwitchPlace(p)
    <2>1. op' \in [Proc -> Request]
      BY <1>15, <1>a, GotoType DEF SwitchPlace
    <2> QED
      BY <1>15, <1>b, <1>e, <1>f, <2>1 DEF SwitchPlace, TypeOK
  <1>16. CASE ClearOld(p)
    BY <1>16, <1>g DEF ClearOld, TypeOK
  <1>17. CASE UndoEntry(p)
    <2>1. PICK e \in op[p].moved :
            /\ Rename(e, op[p].base, op[p].from) \/ UNCHANGED disk
            /\ NoFault \/ Ignore("rollback")
            /\ op' = [op EXCEPT ![p].moved = @ \ {e}]
      BY <1>17 DEF UndoEntry
    <2>2. [op[p] EXCEPT !.moved = @ \ {e}] \in Request
      BY <1>0 DEF Request
    <2>3. op' \in [Proc -> Request]
      BY <2>1, <2>2 DEF TypeOK
    <2>4. op[p].from \in Base /\ op[p].base \in Base
      BY <1>17, <1>b, <1>c, <1>e DEF UndoEntry
    <2>5. CASE Rename(e, op[p].base, op[p].from)
      BY <1>17, <2>1, <2>3, <2>4, <2>5, RenameType, BoundsType DEF UndoEntry, TypeOK
    <2>6. CASE UNCHANGED disk
      BY <1>17, <2>1, <2>3, <2>6, BoundsType DEF UndoEntry, TypeOK
    <2> QED
      BY <2>1, <2>5, <2>6
  <1>18. CASE EndUndo(p)
    BY <1>18, <1>g DEF EndUndo, TypeOK
  <1> QED
    BY <1>1, <1>2, <1>3, <1>4, <1>5, <1>6, <1>7, <1>8, <1>9, <1>10, <1>11, <1>12, <1>13,
       <1>14, <1>15, <1>16, <1>17, <1>18 DEF BucketStep

-----------------------------------------------------------------------------
(* What a step does to the requests. *)

\* Nothing but the count of what others saved changes in request q.
Kept(q) ==
  /\ op'[q].kind = op[q].kind /\ op'[q].pc = op[q].pc /\ op'[q].key = op[q].key
  /\ op'[q].content = op[q].content /\ op'[q].id = op[q].id /\ op'[q].from = op[q].from
  /\ op'[q].base = op[q].base /\ op'[q].todo = op[q].todo /\ op'[q].moved = op[q].moved
  /\ op'[q].pass = op[q].pass
  /\ op[q].kind = "none" => op'[q] = op[q]

\* A request that goes on is still the same request.
GoesOn(p) ==
  \/ op'[p] = NoOp
  \/ op'[p].kind = op[p].kind /\ op'[p].id = op[p].id /\ op'[p].from = op[p].from
     /\ op'[p].content = op[p].content

LEMMA ReturnEffect ==
  ASSUME TypeOK, NEW p \in Proc, Return(p)
  PROVE  op'[p] = NoOp /\ \A q \in Proc \ {p} : op'[q] = op[q]
  BY DEF Return, TypeOK

LEMMA GotoEffect ==
  ASSUME TypeOK, NEW p \in Proc, NEW l, Goto(p, l)
  PROVE  op'[p] = [op[p] EXCEPT !.pc = l] /\ \A q \in Proc \ {p} : op'[q] = op[q]
  BY DEF Goto, TypeOK

LEMMA NextKeyEffect ==
  ASSUME TypeOK, NEW p \in Proc, NextKey(p)
  PROVE  /\ op'[p] = IF op[p].kind = "prefix" THEN [op[p] EXCEPT !.pc = "next", !.key = None] ELSE NoOp
         /\ \A q \in Proc \ {p} : op'[q] = op[q]
  BY DEF NextKey, TypeOK

LEMMA NoOpConsistent == Consistent(NoOp)
  BY DEF Consistent, NoOp, StepsOf, Drops

LEMMA StepsOfKinds ==
  /\ StepsOf("put") = {"lock", "mkdir", "temp", "verify", "rename", "save"}
  /\ StepsOf("delete") = {"lock", "row", "unlink", "prune"}
  /\ StepsOf("prefix") = {"list", "next", "lock", "row", "unlink", "prune", "folder"}
  /\ StepsOf("create") = {"insert", "register", "mkroot", "revoke", "unregister"}
  /\ StepsOf("move") = {"trylock", "prepare", "move", "switch", "clear", "undo"}
  /\ \A kind \in Drops : StepsOf(kind) = DropSteps
  /\ StepsOf("none") = {"idle"}
  BY DEF StepsOf, Drops

LEMMA KindsOfSteps ==
  ASSUME NEW r \in Request, Consistent(r)
  PROVE  /\ r.pc = "lock" => r.kind \in {"put", "delete", "prefix"}
         /\ r.pc \in {"mkdir", "temp", "verify", "rename", "save"} => r.kind = "put"
         /\ r.pc \in {"row", "unlink", "prune"} => r.kind \in {"delete", "prefix"}
         /\ r.pc \in {"list", "next", "folder"} => r.kind = "prefix"
         /\ r.pc \in {"insert", "register", "mkroot", "revoke", "unregister"} => r.kind = "create"
         /\ r.pc \in {"prepare", "move", "switch", "clear", "undo"} => r.kind = "move"
         /\ r.pc = "trylock" => r.kind \in Drops \cup {"move"}
         /\ r.pc \in {"count", "drop", "tree", "forget"} => r.kind \in Drops
         /\ r.pc = "idle" <=> r.kind = "none"
  <1>1. r.kind \in AllKinds \cup {"none"} /\ r.pc \in StepsOf(r.kind)
    BY DEF Request, Consistent
  <1> QED
    BY <1>1, StepsOfKinds DEF AllKinds, Drops, DropSteps

\* A request that only goes on to another step of its kind.
LEMMA ConsistentGoto ==
  ASSUME NEW r \in Request, Consistent(r), NEW l \in StepsOf(r.kind), r.kind # "none",
         r.kind = "put" /\ l # "lock" => r.pc # "lock",
         r.kind = "prefix" => \/ l \in {"unlink", "prune"} /\ r.pc \in {"row", "unlink", "prune"}
                              \/ l = "list" /\ r.pass = 1
                              \/ l = "folder" /\ r.pass = 2,
         l \in {"register", "unregister"} => r.base # Root,
         r.moved # {} => l \in {"move", "switch", "clear", "undo"},
         l = "prune" => r.base \in Base
  PROVE  Consistent([r EXCEPT !.pc = l])
  <1> DEFINE n == [r EXCEPT !.pc = l]
  <1>1. /\ n.pc = l /\ n.kind = r.kind /\ n.key = r.key /\ n.content = r.content
        /\ n.base = r.base /\ n.todo = r.todo /\ n.pass = r.pass /\ n.from = r.from /\ n.moved = r.moved
    BY DEF Request
  <1> HIDE DEF n
  <1>2. /\ n.pc \in StepsOf(n.kind)
        /\ n.kind \in Kinds \cup {"none"} /\ n.kind # "none"
        /\ n.kind \in {"put", "delete"} => n.key \in Key
        /\ n.kind = "put" => n.content \in Content
        /\ n.kind = "put" /\ n.pc # "lock" => n.base \in Base
    BY <1>1 DEF Consistent
  <1>3. n.kind = "prefix" =>
       /\ n.todo \subseteq InDir
       /\ n.pc \in {"lock", "row", "unlink", "prune"} => n.key \in InDir
       /\ n.pc = "list" => n.pass \in {0, 1}
       /\ n.pc = "folder" => n.pass = 2
       /\ n.pc \notin {"list", "folder"} => n.pass \in {1, 2}
    BY <1>1 DEF Consistent
  <1>4. /\ n.kind \in {"create", "move"} => n.base \in Base
        /\ n.pc \in {"register", "unregister"} => n.base # Root
        /\ n.kind = "move" => n.from \in Base /\ n.from # n.base
        /\ n.moved # {} => n.pc \in {"move", "switch", "clear", "undo"}
        /\ n.pc = "prune" => n.base \in Base
    BY <1>1 DEF Consistent
  <1>5. Consistent(n)
    BY <1>2, <1>3, <1>4 DEF Consistent
  <1> QED
    BY <1>5 DEF n

LEMMA ConsistentNext ==
  ASSUME NEW r \in Request, Consistent(r), r.kind = "prefix", r.pc \in {"row", "unlink", "prune"}
  PROVE  Consistent([r EXCEPT !.pc = "next", !.key = None])
  <1> DEFINE n == [r EXCEPT !.pc = "next", !.key = None]
  <1>1. /\ n.pc = "next" /\ n.kind = "prefix" /\ n.todo = r.todo /\ n.pass = r.pass
        /\ n.moved = r.moved
    BY DEF Request
  <1>2. n.pc \in StepsOf(n.kind)
    BY <1>1, StepsOfKinds
  <1> HIDE DEF n
  <1>3. Consistent(n)
    BY <1>1, <1>2 DEF Consistent
  <1> QED
    BY <1>3 DEF n

LEMMA ControlObject ==
  ASSUME TypeOK, Control, NEW p \in Proc, Acquire(p) \/ ObjectStep(p)
  PROVE  /\ Placed(p)' /\ GoesOn(p)
         /\ \A q \in Proc \ {p} : Kept(q)
  <1> DEFINE r == op[p]
             n == op'[p]
  <1>0. r \in Request /\ Consistent(r)
    BY DEF TypeOK, Control, Placed
  <1>k. /\ r.pc = "lock" => r.kind \in {"put", "delete", "prefix"}
        /\ r.pc \in {"mkdir", "temp", "verify", "rename", "save"} => r.kind = "put"
        /\ r.pc \in {"row", "unlink", "prune"} => r.kind \in {"delete", "prefix"}
        /\ r.pc \in {"list", "next", "folder"} => r.kind = "prefix"
    BY <1>0, KindsOfSteps
  <1> SUFFICES /\ Consistent(n)
               /\ \/ n = NoOp
                  \/ n.kind = r.kind /\ n.id = r.id /\ n.from = r.from /\ n.content = r.content
               /\ \A q \in Proc \ {p} : Kept(q)
    BY DEF Placed, GoesOn
  <1>r. ASSUME Return(p)
        PROVE  Consistent(n) /\ n = NoOp /\ \A q \in Proc \ {p} : Kept(q)
    BY <1>r, ReturnEffect, NoOpConsistent DEF Kept
  <1>g. ASSUME NEW l, Goto(p, l)
        PROVE  /\ n = [r EXCEPT !.pc = l] /\ \A q \in Proc \ {p} : Kept(q)
               /\ n.kind = r.kind /\ n.id = r.id /\ n.from = r.from /\ n.content = r.content
    BY <1>0, <1>g, GotoEffect DEF Kept, Request
  <1>n. ASSUME NextKey(p), r.pc \in {"row", "unlink", "prune"}
        PROVE  /\ Consistent(n)
               /\ \/ n = NoOp
                  \/ n.kind = r.kind /\ n.id = r.id /\ n.from = r.from /\ n.content = r.content
               /\ \A q \in Proc \ {p} : Kept(q)
    <2>1. n = IF r.kind = "prefix" THEN [r EXCEPT !.pc = "next", !.key = None] ELSE NoOp
      BY <1>n, NextKeyEffect
    <2>2. Consistent(n)
      BY <1>0, <1>n, <2>1, ConsistentNext, NoOpConsistent
    <2> QED
      BY <1>0, <1>n, <2>1, <2>2, NextKeyEffect DEF Kept, Request
  <1>p. ASSUME NEW l \in StepsOf("put") \ {"lock"}, r.kind = "put", r.pc # "lock", Goto(p, l)
        PROVE  /\ Consistent(n)
               /\ n.kind = r.kind /\ n.id = r.id /\ n.from = r.from /\ n.content = r.content
               /\ \A q \in Proc \ {p} : Kept(q)
    <2>1. r.moved = {} /\ l \notin {"register", "unregister", "prune"}
      BY <1>0, <1>p, StepsOfKinds DEF Consistent
    <2>2. Consistent([r EXCEPT !.pc = l])
      BY <1>0, <1>p, <2>1, ConsistentGoto
    <2> QED
      BY <1>g, <1>p, <2>2
  <1>1. CASE Acquire(p)
    <2>1. /\ n = [r EXCEPT !.pc = IF r.kind = "put" THEN "mkdir" ELSE "row",
                           !.base = IF r.kind = "put" THEN Place ELSE None]
          /\ \A q \in Proc \ {p} : op'[q] = op[q]
          /\ r.pc = "lock"
      BY <1>1 DEF Acquire, TypeOK
    <2>2. /\ n.kind = r.kind /\ n.key = r.key /\ n.content = r.content /\ n.todo = r.todo
          /\ n.pass = r.pass /\ n.from = r.from /\ n.moved = r.moved /\ n.id = r.id
          /\ n.pc = IF r.kind = "put" THEN "mkdir" ELSE "row"
          /\ r.kind = "put" => n.base = Place
      BY <1>0, <2>1 DEF Request
    <2>3. n.pc \in StepsOf(n.kind) /\ n.kind \in {"put", "delete", "prefix"}
      BY <1>k, <2>1, <2>2, StepsOfKinds
    <2> HIDE DEF n
    <2>4. Consistent(n)
      BY <1>0, <2>1, <2>2, <2>3, PlaceType DEF Consistent
    <2> QED
      BY <2>1, <2>2, <2>4 DEF Kept
  <1>2. CASE MakeDirs(p)
    <2>1. r.kind = "put" /\ r.pc # "lock" /\ "temp" \in StepsOf("put") \ {"lock"}
      BY <1>k, <1>2, StepsOfKinds DEF MakeDirs
    <2> HIDE DEF n, r
    <2>2. Goto(p, "temp")
      BY <1>2 DEF MakeDirs
    <2> QED
      BY <1>p, <2>1, <2>2
  <1>3. CASE MakeTemp(p)
    <2>1. r.kind = "put" /\ r.pc # "lock" /\ "verify" \in StepsOf("put") \ {"lock"}
      BY <1>k, <1>3, StepsOfKinds DEF MakeTemp
    <2> HIDE DEF n, r
    <2>2. Goto(p, "verify") \/ Return(p)
      BY <1>3 DEF MakeTemp
    <2> QED
      BY <1>p, <1>r, <2>1, <2>2
  <1>4. CASE Verify(p)
    <2>1. r.kind = "put" /\ r.pc # "lock" /\ "rename" \in StepsOf("put") \ {"lock"}
      BY <1>k, <1>4, StepsOfKinds DEF Verify
    <2> HIDE DEF n, r
    <2>2. Goto(p, "rename") \/ Return(p)
      BY <1>4 DEF Verify
    <2> QED
      BY <1>p, <1>r, <2>1, <2>2
  <1>5. CASE Publish(p)
    <2>1. r.kind = "put" /\ r.pc # "lock" /\ "save" \in StepsOf("put") \ {"lock"}
      BY <1>k, <1>5, StepsOfKinds DEF Publish
    <2> HIDE DEF n, r
    <2>2. Goto(p, "save") \/ Return(p)
      BY <1>5 DEF Publish
    <2> QED
      BY <1>p, <1>r, <2>1, <2>2
  <1>6. CASE SaveRow(p)
    <2>1. op'[p] = NoOp
      BY <1>6 DEF SaveRow
    <2>2. ASSUME NEW q \in Proc \ {p} PROVE Kept(q)
      <3>1. op[q] \in Request /\ Consistent(op[q])
        BY DEF TypeOK, Control, Placed
      <3>2. op[q].kind = "none" => op[q].pc \notin {"rename", "save"}
        BY <3>1, KindsOfSteps
      <3>3. op'[q] = IF Live(p) /\ op[q].pc \in {"rename", "save"}
                       THEN [op[q] EXCEPT !.since = @ + Size[op[p].content]] ELSE op[q]
        BY <1>6 DEF SaveRow
      <3> QED
        BY <3>1, <3>2, <3>3 DEF Kept, Request
    <2> QED
      BY <2>1, <2>2, NoOpConsistent
  <1>7. CASE DropRow(p)
    <2>1. r.pc = "row" /\ r.kind \in {"delete", "prefix"} /\ "unlink" \in StepsOf(r.kind)
      BY <1>k, <1>7, StepsOfKinds DEF DropRow
    <2>2. r.moved = {}
      BY <1>0, <2>1 DEF Consistent
    <2>3. Consistent([r EXCEPT !.pc = "unlink"])
      BY <1>0, <2>1, <2>2, ConsistentGoto
    <2> HIDE DEF n, r
    <2>4. Goto(p, "unlink") \/ NextKey(p)
      BY <1>7 DEF DropRow
    <2> QED
      BY <1>g, <1>n, <2>1, <2>3, <2>4
  <1>8. CASE Unlink(p)
    <2>0. CASE NextKey(p)
      BY <1>8, <1>n, <2>0 DEF Unlink
    <2> SUFFICES ASSUME ~NextKey(p)
                 PROVE  /\ Consistent(n)
                        /\ \/ n = NoOp
                           \/ n.kind = r.kind /\ n.id = r.id /\ n.from = r.from /\ n.content = r.content
                        /\ \A q \in Proc \ {p} : Kept(q)
      BY <2>0
    <2>1. /\ n = [r EXCEPT !.pc = "prune", !.base = Place]
          /\ \A q \in Proc \ {p} : op'[q] = op[q]
          /\ r.pc = "unlink"
      BY <1>8 DEF Unlink, TypeOK
    <2>2. /\ n.kind = r.kind /\ n.key = r.key /\ n.content = r.content /\ n.todo = r.todo
          /\ n.pass = r.pass /\ n.from = r.from /\ n.moved = r.moved /\ n.id = r.id
          /\ n.pc = "prune" /\ n.base = Place
      BY <1>0, <2>1 DEF Request
    <2>3. n.pc \in StepsOf(n.kind) /\ n.kind \in {"delete", "prefix"}
      BY <1>k, <2>1, <2>2, StepsOfKinds
    <2> HIDE DEF n
    <2>4. Consistent(n)
      BY <1>0, <2>1, <2>2, <2>3, PlaceType DEF Consistent
    <2> QED
      BY <2>1, <2>2, <2>4 DEF Kept
  <1>9. CASE Prune(p)
    BY <1>n, <1>9 DEF Prune
  <1>10. CASE ListPrefix(p)
    <2> DEFINE found == IF Live(p) THEN Stored \cap InDir ELSE {}
    <2>1. /\ n = [r EXCEPT !.todo = found, !.pass = @ + 1, !.pc = "next"]
          /\ \A q \in Proc \ {p} : op'[q] = op[q]
          /\ r.pc = "list"
      BY <1>10 DEF ListPrefix, TypeOK
    <2>2. found \subseteq InDir
      OBVIOUS
    <2> HIDE DEF found
    <2>3. /\ n.kind = r.kind /\ n.key = r.key /\ n.content = r.content /\ n.todo = found
          /\ n.pass = r.pass + 1 /\ n.from = r.from /\ n.moved = r.moved /\ n.id = r.id
          /\ n.pc = "next"
      BY <1>0, <2>1 DEF Request
    <2>4. n.pc \in StepsOf(n.kind) /\ n.kind = "prefix" /\ n.pass \in {1, 2}
      BY <1>0, <1>k, <2>1, <2>3, StepsOfKinds DEF Consistent
    <2> HIDE DEF n
    <2>5. Consistent(n)
      BY <1>0, <2>1, <2>2, <2>3, <2>4 DEF Consistent
    <2> QED
      BY <2>1, <2>3, <2>5 DEF Kept
  <1>11. CASE PickKey(p)
    <2>3. CASE r.todo = {}
      <3>1. r.kind = "prefix" /\ r.pass \in {1, 2} /\ Goto(p, IF r.pass = 1 THEN "list" ELSE "folder")
        BY <1>0, <1>k, <1>11, <2>3 DEF PickKey, Consistent
      <3>2. r.pc = "next" /\ r.moved = {}
        BY <1>0, <1>11 DEF PickKey, Consistent
      <3> DEFINE l == IF r.pass = 1 THEN "list" ELSE "folder"
      <3>3. l \in StepsOf(r.kind)
        BY <3>1, StepsOfKinds
      <3>4. (l = "list" /\ r.pass = 1) \/ (l = "folder" /\ r.pass = 2)
        BY <3>1, 1 # 2, Zenon
      <3> HIDE DEF l
      <3>5. Consistent([r EXCEPT !.pc = l])
        BY <1>0, <3>1, <3>2, <3>3, <3>4, ConsistentGoto
      <3>6. Goto(p, l)
        BY <3>1 DEF l
      <3> HIDE DEF n, r
      <3> QED
        BY <1>g, <3>5, <3>6
    <2>4. CASE r.todo # {}
      <3>1. PICK k \in op[p].todo :
              op' = [op EXCEPT ![p].key = k, ![p].todo = @ \ {k}, ![p].pc = "lock"]
        BY <1>11, <2>4 DEF PickKey
      <3>2. /\ n = [r EXCEPT !.key = k, !.todo = @ \ {k}, !.pc = "lock"]
            /\ \A q \in Proc \ {p} : op'[q] = op[q]
        BY <3>1 DEF TypeOK
      <3>3. /\ n.kind = r.kind /\ n.key = k /\ n.content = r.content /\ n.todo = r.todo \ {k}
            /\ n.pass = r.pass /\ n.from = r.from /\ n.moved = r.moved /\ n.id = r.id
            /\ n.pc = "lock"
        BY <1>0, <3>2 DEF Request
      <3>4. n.kind = "prefix" /\ r.pc = "next"
        BY <1>k, <1>11, <3>3 DEF PickKey
      <3>6. n.pc \in StepsOf(n.kind)
        BY <3>3, <3>4, StepsOfKinds
      <3> HIDE DEF n
      <3>5. Consistent(n)
        BY <1>0, <3>1, <3>3, <3>4, <3>6 DEF Consistent
      <3> QED
        BY <3>2, <3>3, <3>5 DEF Kept
    <2> QED
      BY <2>3, <2>4
  <1>12. CASE RemoveFolder(p)
    BY <1>r, <1>12 DEF RemoveFolder
  <1> QED
    BY <1>1, <1>2, <1>3, <1>4, <1>5, <1>6, <1>7, <1>8, <1>9, <1>10, <1>11, <1>12 DEF ObjectStep

LEMMA ControlBucket ==
  ASSUME TypeOK, Control, NEW p \in Proc, BucketStep(p)
  PROVE  /\ Placed(p)' /\ GoesOn(p)
         /\ \A q \in Proc \ {p} : Kept(q)
  <1> DEFINE r == op[p]
             n == op'[p]
  <1>0. r \in Request /\ Consistent(r)
    BY DEF TypeOK, Control, Placed
  <1>k. /\ r.pc \in {"insert", "register", "mkroot", "revoke", "unregister"} => r.kind = "create"
        /\ r.pc \in {"prepare", "move", "switch", "clear", "undo"} => r.kind = "move"
        /\ r.pc = "trylock" => r.kind \in Drops \cup {"move"}
        /\ r.pc \in {"count", "drop", "tree", "forget"} => r.kind \in Drops
    BY <1>0, KindsOfSteps
  <1> SUFFICES /\ Consistent(n)
               /\ \/ n = NoOp
                  \/ n.kind = r.kind /\ n.id = r.id /\ n.from = r.from /\ n.content = r.content
               /\ \A q \in Proc \ {p} : Kept(q)
    BY DEF Placed, GoesOn
  <1>r. ASSUME Return(p)
        PROVE  Consistent(n) /\ n = NoOp /\ \A q \in Proc \ {p} : Kept(q)
    BY <1>r, ReturnEffect, NoOpConsistent DEF Kept
  <1>g. ASSUME NEW l, Goto(p, l)
        PROVE  /\ n = [r EXCEPT !.pc = l] /\ \A q \in Proc \ {p} : Kept(q)
               /\ n.kind = r.kind /\ n.id = r.id /\ n.from = r.from /\ n.content = r.content
    BY <1>0, <1>g, GotoEffect DEF Kept, Request
  <1>c. ASSUME NEW l \in StepsOf("create"), r.kind = "create", Goto(p, l),
               l \in {"register", "unregister"} => r.base # Root
        PROVE  /\ Consistent(n)
               /\ n.kind = r.kind /\ n.id = r.id /\ n.from = r.from /\ n.content = r.content
               /\ \A q \in Proc \ {p} : Kept(q)
    <2>1. r.moved = {} /\ l # "prune"
      BY <1>0, <1>c, StepsOfKinds DEF Consistent
    <2>2. Consistent([r EXCEPT !.pc = l])
      BY <1>0, <1>c, <2>1, ConsistentGoto
    <2> QED
      BY <1>g, <1>c, <2>2
  <1>d. ASSUME NEW l \in DropSteps, r.kind \in Drops, Goto(p, l)
        PROVE  /\ Consistent(n)
               /\ n.kind = r.kind /\ n.id = r.id /\ n.from = r.from /\ n.content = r.content
               /\ \A q \in Proc \ {p} : Kept(q)
    <2>0. StepsOf(r.kind) = DropSteps /\ r.kind \notin {"none", "put", "prefix"}
      BY <1>d, StepsOfKinds DEF Drops
    <2>1. r.moved = {} /\ l \notin {"prune", "register", "unregister"}
      BY <1>0, <1>d, <2>0 DEF Consistent, DropSteps
    <2>2. Consistent([r EXCEPT !.pc = l])
      BY <1>0, <1>d, <2>0, <2>1, ConsistentGoto
    <2> QED
      BY <1>g, <1>d, <2>2
  <1>m. ASSUME NEW l \in StepsOf("move") \ {"trylock"}, r.kind = "move", Goto(p, l),
               l = "prepare" => r.moved = {}
        PROVE  /\ Consistent(n)
               /\ n.kind = r.kind /\ n.id = r.id /\ n.from = r.from /\ n.content = r.content
               /\ \A q \in Proc \ {p} : Kept(q)
    <2>1. l \notin {"prune", "register", "unregister"} /\ (r.moved # {} => l \in {"move", "switch", "clear", "undo"})
      BY <1>m, StepsOfKinds
    <2>2. Consistent([r EXCEPT !.pc = l])
      BY <1>0, <1>m, <2>1, ConsistentGoto
    <2> QED
      BY <1>g, <1>m, <2>2
  <1>e. Release(p) => Return(p)
    BY DEF Release
  <1>1. CASE InsertBucket(p)
    <2> DEFINE l == IF r.base = Root THEN "mkroot" ELSE "register"
    <2>1. r.kind = "create" /\ l \in StepsOf("create") /\ (l = "register" => r.base # Root)
          /\ l # "unregister"
      BY <1>k, <1>1, StepsOfKinds DEF InsertBucket
    <2>2. Goto(p, l) \/ Return(p)
      BY <1>1 DEF InsertBucket
    <2> HIDE DEF n, r, l
    <2> QED
      BY <1>c, <1>r, <2>1, <2>2
  <1>2. CASE Register(p)
    <2>1. r.kind = "create" /\ "mkroot" \in StepsOf("create")
      BY <1>k, <1>2, StepsOfKinds DEF Register
    <2>2. Goto(p, "mkroot")
      BY <1>2 DEF Register
    <2> HIDE DEF n, r
    <2> QED
      BY <1>c, <2>1, <2>2
  <1>3. CASE MakeRoot(p)
    <2>1. r.kind = "create" /\ "revoke" \in StepsOf("create")
      BY <1>k, <1>3, StepsOfKinds DEF MakeRoot
    <2>2. Goto(p, "revoke") \/ Return(p)
      BY <1>3 DEF MakeRoot
    <2> HIDE DEF n, r
    <2> QED
      BY <1>c, <1>r, <2>1, <2>2
  <1>4. CASE Revoke(p)
    <2>1. r.kind = "create" /\ "unregister" \in StepsOf("create")
      BY <1>k, <1>4, StepsOfKinds DEF Revoke
    <2>2. (Goto(p, "unregister") /\ r.base # Root) \/ Return(p)
      BY <1>4 DEF Revoke
    <2> HIDE DEF n, r
    <2> QED
      BY <1>c, <1>r, <2>1, <2>2
  <1>5. CASE Unregister(p)
    BY <1>r, <1>5 DEF Unregister
  <1>6. CASE TryLock(p)
    <2> DEFINE l == IF r.kind = "move" THEN "prepare" ELSE "count"
    <2>1. r.pc = "trylock" /\ r.kind \in Drops \cup {"move"}
      BY <1>k, <1>6 DEF TryLock
    <2>2. r.moved = {}
      BY <1>0, <2>1 DEF Consistent
    <2>3. Goto(p, l) \/ Return(p)
      BY <1>6 DEF TryLock
    <2>4. CASE r.kind = "move"
      <3>1. l = "prepare" /\ "prepare" \in StepsOf("move") \ {"trylock"}
        BY <2>4, StepsOfKinds
      <3> HIDE DEF n, r, l
      <3> QED
        BY <1>m, <1>r, <2>2, <2>3, <2>4, <3>1
    <2>5. CASE r.kind # "move"
      <3>1. l = "count" /\ "count" \in DropSteps /\ r.kind \in Drops
        BY <2>1, <2>5 DEF DropSteps
      <3> HIDE DEF n, r, l
      <3> QED
        BY <1>d, <1>r, <2>3, <3>1
    <2> QED
      BY <2>4, <2>5
  <1>7. CASE CountRows(p)
    <2>1. r.kind \in Drops /\ "drop" \in DropSteps
      BY <1>k, <1>7 DEF CountRows, DropSteps
    <2>2. Goto(p, "drop") \/ Return(p)
      BY <1>7, <1>e DEF CountRows
    <2> HIDE DEF n, r
    <2> QED
      BY <1>d, <1>r, <2>1, <2>2
  <1>8. CASE DropBucket(p)
    <2>1. r.kind \in Drops /\ "tree" \in DropSteps
      BY <1>k, <1>8 DEF DropBucket, DropSteps
    <2>2. Goto(p, "tree") \/ Return(p)
      BY <1>8, <1>e DEF DropBucket
    <2> HIDE DEF n, r
    <2> QED
      BY <1>d, <1>r, <2>1, <2>2
  <1>9. CASE RemoveTree(p)
    <2>1. r.kind \in Drops /\ "forget" \in DropSteps
      BY <1>k, <1>9 DEF RemoveTree, DropSteps
    <2>2. Goto(p, "forget")
      BY <1>9 DEF RemoveTree
    <2> HIDE DEF n, r
    <2> QED
      BY <1>d, <2>1, <2>2
  <1>10. CASE Forget(p)
    BY <1>r, <1>e, <1>10 DEF Forget
  <1>11. CASE Prepare(p)
    <2> DEFINE found == Entries(r.from)
    <2>1. /\ n = [r EXCEPT !.todo = found, !.pc = "move"]
          /\ \A q \in Proc \ {p} : op'[q] = op[q]
          /\ r.pc = "prepare"
      BY <1>11 DEF Prepare, TypeOK
    <2> HIDE DEF found
    <2>2. /\ n.kind = r.kind /\ n.key = r.key /\ n.content = r.content /\ n.todo = found
          /\ n.pass = r.pass /\ n.from = r.from /\ n.moved = r.moved /\ n.id = r.id
          /\ n.base = r.base /\ n.pc = "move"
      BY <1>0, <2>1 DEF Request
    <2>3. n.pc \in StepsOf(n.kind) /\ n.kind = "move"
      BY <1>k, <2>1, <2>2, StepsOfKinds
    <2> HIDE DEF n
    <2>4. Consistent(n)
      BY <1>0, <2>1, <2>2, <2>3 DEF Consistent
    <2> QED
      BY <2>1, <2>2, <2>4 DEF Kept
  <1>12. CASE MoveEntry(p)
    <2>1. r.pc = "move" /\ r.kind = "move"
      BY <1>k, <1>12 DEF MoveEntry
    <2>2. PICK e \in r.todo : \/ op' = [op EXCEPT ![p].todo = @ \ {e}, ![p].moved = @ \cup {e}]
                              \/ Goto(p, "undo")
      BY <1>12 DEF MoveEntry
    <2>3. CASE op' = [op EXCEPT ![p].todo = @ \ {e}, ![p].moved = @ \cup {e}]
      <3>1. /\ n = [r EXCEPT !.todo = @ \ {e}, !.moved = @ \cup {e}]
            /\ \A q \in Proc \ {p} : op'[q] = op[q]
        BY <2>3 DEF TypeOK
      <3>2. /\ n.kind = r.kind /\ n.content = r.content /\ n.from = r.from /\ n.id = r.id
            /\ n.base = r.base /\ n.pc = "move"
        BY <1>0, <2>1, <3>1 DEF Request
      <3> HIDE DEF n
      <3>3. Consistent(n)
        BY <1>0, <2>1, <3>2 DEF Consistent
      <3> QED
        BY <3>1, <3>2, <3>3 DEF Kept
    <2>4. CASE Goto(p, "undo")
      <3>1. "undo" \in StepsOf("move") \ {"trylock"}
        BY StepsOfKinds
      <3> HIDE DEF n, r
      <3> QED
        BY <1>m, <2>1, <2>4, <3>1
    <2> QED
      BY <2>2, <2>3, <2>4
  <1>13. CASE RecordPlace(p)
    <2>1. r.kind = "move" /\ "switch" \in StepsOf("move") \ {"trylock"}
      BY <1>k, <1>13, StepsOfKinds DEF RecordPlace
    <2>2. Goto(p, "switch")
      BY <1>13 DEF RecordPlace
    <2> HIDE DEF n, r
    <2> QED
      BY <1>m, <2>1, <2>2
  <1>14. CASE FailMove(p)
    <2>1. r.kind = "move" /\ "undo" \in StepsOf("move") \ {"trylock"}
      BY <1>k, <1>14, StepsOfKinds DEF FailMove
    <2>2. Goto(p, "undo")
      BY <1>14 DEF FailMove
    <2> HIDE DEF n, r
    <2> QED
      BY <1>m, <2>1, <2>2
  <1>15. CASE SwitchPlace(p)
    <2>1. r.kind = "move" /\ "clear" \in StepsOf("move") \ {"trylock"}
      BY <1>k, <1>15, StepsOfKinds DEF SwitchPlace
    <2>2. Goto(p, "clear")
      BY <1>15 DEF SwitchPlace
    <2> HIDE DEF n, r
    <2> QED
      BY <1>m, <2>1, <2>2
  <1>16. CASE ClearOld(p)
    BY <1>r, <1>e, <1>16 DEF ClearOld
  <1>17. CASE UndoEntry(p)
    <2>1. r.pc = "undo" /\ r.kind = "move"
      BY <1>k, <1>17 DEF UndoEntry
    <2>2. PICK e \in r.moved : op' = [op EXCEPT ![p].moved = @ \ {e}]
      BY <1>17 DEF UndoEntry
    <2>3. /\ n = [r EXCEPT !.moved = @ \ {e}]
          /\ \A q \in Proc \ {p} : op'[q] = op[q]
      BY <2>2 DEF TypeOK
    <2>4. /\ n.kind = r.kind /\ n.content = r.content /\ n.from = r.from /\ n.id = r.id
          /\ n.base = r.base /\ n.pc = "undo"
      BY <1>0, <2>1, <2>3 DEF Request
    <2> HIDE DEF n
    <2>5. Consistent(n)
      BY <1>0, <2>1, <2>4 DEF Consistent
    <2> QED
      BY <2>3, <2>4, <2>5 DEF Kept
  <1>18. CASE EndUndo(p)
    BY <1>r, <1>e, <1>18 DEF EndUndo
  <1> QED
    BY <1>1, <1>2, <1>3, <1>4, <1>5, <1>6, <1>7, <1>8, <1>9, <1>10, <1>11, <1>12, <1>13,
       <1>14, <1>15, <1>16, <1>17, <1>18 DEF BucketStep

LEMMA LoadEffect ==
  ASSUME TypeOK, NEW p \in Proc, NEW kind \in AllKinds, NEW r \in Request, Load(p, kind, r)
  PROVE  /\ op'[p].kind = kind /\ op'[p].id = bucket.id /\ op'[p].from = Recorded
         /\ op'[p].pc = r.pc /\ op'[p].key = r.key /\ op'[p].content = r.content
         /\ op'[p].base = r.base /\ op'[p].todo = r.todo /\ op'[p].moved = r.moved
         /\ op'[p].pass = r.pass
         /\ bucket # None
  <1>1. op'[p] = [r EXCEPT !.kind = kind, !.id = bucket.id, !.quota = bucket.quota,
                           !.from = Recorded]
    BY DEF Load, Arrive, TypeOK
  <1> QED
    BY <1>1 DEF Load, Request

\* What a request starts with.
Fresh(r) ==
  /\ Consistent(r)
  /\ r.kind # "none"
  /\ r.pc \in {"lock", "list", "insert", "count", "trylock"} /\ r.moved = {}
  /\ r.kind # "create" => bucket # None /\ r.id = bucket.id
  /\ r.kind = "create" => bucket = None /\ r.pc = "insert"
  /\ r.kind = "move" => r.from = Recorded /\ r.pc = "trylock"
  /\ r.kind = "prefix" => r.pc = "list" /\ r.pass = 0

LEMMA BeginEffect ==
  ASSUME TypeOK, NEW p \in Proc, Begin(p)
  PROVE  /\ op[p] = NoOp /\ Fresh(op'[p])
         /\ \A q \in Proc \ {p} : op'[q] = op[q]
         /\ \A q \in Proc : op[q] # NoOp =>
              \E S \in Together : {op'[p].kind, op[q].kind} \subseteq S
         /\ UNCHANGED <<table, custom, busy, disk, faults, crashes, ignored>>
  <1> DEFINE n == op'[p]
             Rest == /\ op[p] = NoOp
                     /\ \A q \in Proc \ {p} : op'[q] = op[q]
                     /\ \A q \in Proc : op[q] # NoOp =>
                          \E S \in Together : {n.kind, op[q].kind} \subseteq S
                     /\ UNCHANGED <<table, custom, busy, disk, faults, crashes, ignored>>
  <1>a. ASSUME NEW kind \in AllKinds, NEW r \in Request, Load(p, kind, r)
        PROVE  Rest /\ kind \in Kinds
    <2>1. op'[p].kind = kind
      BY <1>a, LoadEffect
    <2>2. op' = [op EXCEPT ![p] = [r EXCEPT !.kind = kind, !.id = bucket.id,
                                            !.quota = bucket.quota, !.from = Recorded]]
      BY <1>a DEF Load, Arrive
    <2>3. \A q \in Proc \ {p} : op'[q] = op[q]
      BY <2>2 DEF TypeOK
    <2> QED
      BY <1>a, <2>1, <2>3 DEF Load, Arrive
  <1>b. NoOp.todo = {} /\ NoOp.moved = {} /\ NoOp.pass = 0 /\ NoOp.key = None /\ NoOp.base = None
    BY DEF NoOp
  <1> HIDE DEF Rest
  <1> SUFFICES Rest /\ Fresh(n)
    BY DEF Rest
  <1>1. CASE BeginPut(p)
    <2>1. PICK k \in Key, c \in Content :
            Load(p, "put", [NoOp EXCEPT !.pc = "lock", !.key = k, !.content = c])
      BY <1>1 DEF BeginPut
    <2> DEFINE r == [NoOp EXCEPT !.pc = "lock", !.key = k, !.content = c]
    <2>2. /\ r \in Request /\ r.pc = "lock" /\ r.key = k /\ r.content = c /\ r.moved = {}
      BY NoOpType, <1>b DEF Request, Steps
    <2>3. Load(p, "put", r) /\ "put" \in AllKinds
      BY <2>1 DEF AllKinds
    <2> HIDE DEF r, n
    <2>4. n.kind = "put" /\ n.pc = "lock" /\ n.key = k /\ n.content = c /\ n.moved = {}
          /\ n.id = bucket.id /\ bucket # None
      BY <2>2, <2>3, LoadEffect DEF n
    <2>5. Rest /\ "put" \in Kinds
      BY <1>a, <2>2, <2>3
    <2> QED
      BY <2>4, <2>5, StepsOfKinds DEF Fresh, Consistent
  <1>2. CASE BeginDelete(p)
    <2>1. PICK k \in Key : Load(p, "delete", [NoOp EXCEPT !.pc = "lock", !.key = k])
      BY <1>2 DEF BeginDelete
    <2> DEFINE r == [NoOp EXCEPT !.pc = "lock", !.key = k]
    <2>2. /\ r \in Request /\ r.pc = "lock" /\ r.key = k /\ r.moved = {}
      BY NoOpType, <1>b DEF Request, Steps
    <2>3. Load(p, "delete", r) /\ "delete" \in AllKinds
      BY <2>1 DEF AllKinds
    <2> HIDE DEF r, n
    <2>4. n.kind = "delete" /\ n.pc = "lock" /\ n.key = k /\ n.moved = {}
          /\ n.id = bucket.id /\ bucket # None
      BY <2>2, <2>3, LoadEffect DEF n
    <2>5. Rest /\ "delete" \in Kinds
      BY <1>a, <2>2, <2>3
    <2> QED
      BY <2>4, <2>5, StepsOfKinds DEF Fresh, Consistent
  <1>3. CASE BeginPrefix(p)
    <2> DEFINE r == [NoOp EXCEPT !.pc = "list"]
    <2>2. /\ r \in Request /\ r.pc = "list" /\ r.moved = {} /\ r.todo = {} /\ r.pass = 0
      BY NoOpType, <1>b DEF Request, Steps
    <2>3. Load(p, "prefix", r) /\ "prefix" \in AllKinds
      BY <1>3 DEF BeginPrefix, AllKinds
    <2> HIDE DEF r, n
    <2>4. n.kind = "prefix" /\ n.pc = "list" /\ n.moved = {} /\ n.todo = {} /\ n.pass = 0
          /\ n.id = bucket.id /\ bucket # None
      BY <2>2, <2>3, LoadEffect DEF n
    <2>5. Rest /\ "prefix" \in Kinds
      BY <1>a, <2>2, <2>3
    <2> QED
      BY <2>4, <2>5, StepsOfKinds DEF Fresh, Consistent
  <1>4. CASE BeginCreate(p)
    <2>1. PICK b \in Base :
            Arrive(p, "create", [NoOp EXCEPT !.kind = "create", !.pc = "insert", !.base = b])
      BY <1>4 DEF BeginCreate
    <2> DEFINE r == [NoOp EXCEPT !.kind = "create", !.pc = "insert", !.base = b]
    <2>2. /\ r.kind = "create" /\ r.pc = "insert" /\ r.moved = {} /\ r.base = b
      BY <1>b DEF NoOp
    <2>3. Arrive(p, "create", r) /\ bucket = None
      BY <1>4, <2>1 DEF BeginCreate
    <2> HIDE DEF r
    <2>4. n = r
      BY <2>3 DEF Arrive, TypeOK
    <2>5. Rest /\ "create" \in Kinds
      BY <2>2, <2>3, <2>4 DEF Arrive, TypeOK, Rest
    <2> HIDE DEF n
    <2> QED
      BY <2>2, <2>3, <2>4, <2>5, StepsOfKinds DEF Fresh, Consistent
  <1>5. CASE BeginDrop(p)
    <2>1. PICK kind \in Drops :
            Load(p, kind, [NoOp EXCEPT !.pc = IF kind = "drop" THEN "count" ELSE "trylock"])
      BY <1>5 DEF BeginDrop
    <2> DEFINE l == IF kind = "drop" THEN "count" ELSE "trylock"
    <2>l. l \in {"count", "trylock"}
      OBVIOUS
    <2> DEFINE r == [NoOp EXCEPT !.pc = l]
    <2> HIDE DEF l
    <2>2. /\ r \in Request /\ r.pc = l /\ r.moved = {}
      BY <2>l, NoOpType, <1>b DEF Request, Steps, DropSteps
    <2>3. Load(p, kind, r) /\ kind \in AllKinds
      BY <2>1 DEF AllKinds, l
    <2> HIDE DEF r, n
    <2>4. n.kind = kind /\ n.pc = l /\ n.moved = {} /\ n.id = bucket.id /\ bucket # None
      BY <2>2, <2>3, LoadEffect DEF n
    <2>5. Rest /\ kind \in Kinds
      BY <1>a, <2>2, <2>3
    <2>6. StepsOf(kind) = DropSteps /\ kind \notin {"none", "put", "delete", "prefix", "create", "move"}
      BY StepsOfKinds DEF Drops
    <2> QED
      BY <2>l, <2>4, <2>5, <2>6 DEF Fresh, Consistent, DropSteps
  <1>6. CASE BeginMove(p)
    <2>1. PICK b \in Base \ {Recorded} :
            Load(p, "move", [NoOp EXCEPT !.pc = "trylock", !.base = b])
      BY <1>6 DEF BeginMove
    <2> DEFINE r == [NoOp EXCEPT !.pc = "trylock", !.base = b]
    <2>2. /\ r \in Request /\ r.pc = "trylock" /\ r.moved = {} /\ r.base = b
      BY NoOpType, <1>b DEF Request, Steps, DropSteps
    <2>3. Load(p, "move", r) /\ "move" \in AllKinds
      BY <2>1 DEF AllKinds
    <2> HIDE DEF r, n
    <2>4. n.kind = "move" /\ n.pc = "trylock" /\ n.moved = {} /\ n.base = b /\ n.from = Recorded
          /\ n.id = bucket.id /\ bucket # None
      BY <2>2, <2>3, LoadEffect DEF n
    <2>5. Rest /\ "move" \in Kinds
      BY <1>a, <2>2, <2>3
    <2> QED
      BY <2>1, <2>4, <2>5, PlaceType, StepsOfKinds DEF Fresh, Consistent
  <1> QED
    BY <1>1, <1>2, <1>3, <1>4, <1>5, <1>6 DEF Begin

LEMMA ControlStep ==
  ASSUME TypeOK, Control, NEW p \in Proc, Acquire(p) \/ Step(p)
  PROVE  /\ Placed(p)' /\ GoesOn(p)
         /\ \A q \in Proc \ {p} : Kept(q)
  BY ControlObject, ControlBucket DEF Step

LEMMA KeptPlaced ==
  ASSUME Control, NEW q \in Proc, Kept(q) PROVE Placed(q)'
  <1>1. Consistent(op[q])
    BY DEF Control, Placed
  <1> QED
    BY <1>1 DEF Kept, Placed, Consistent

LEMMA ControlHolds ==
  ASSUME TypeOK, Control, NEW p \in Proc, Act(p) PROVE Control'
  <1>1. CASE Begin(p)
    BY <1>1, BeginEffect DEF Fresh, Control, Placed
  <1>2. CASE Acquire(p) \/ Step(p)
    BY <1>2, ControlStep, KeptPlaced DEF Control
  <1> QED
    BY <1>1, <1>2 DEF Act

-----------------------------------------------------------------------------
(* Who runs beside whom, and who holds which key. *)

Exclusion ==
  \A p, q \in Proc : p # q =>
    /\ op[p].kind \in {"create", "move"} => op[q].kind = "none"
    /\ op[p].kind = "put" => op[q].kind \in {"none", "put", "delete"}

Mutex ==
  \A p, q \in Proc :
    p # q /\ op[p].pc \in Locked /\ op[q].pc \in Locked => op[p].key # op[q].key

LEMMA ExclusionStep ==
  ASSUME Apart, TypeOK, Control, Exclusion, NEW p \in Proc, Act(p) PROVE Exclusion'
  <1>n. NoOp.kind = "none"
    BY DEF NoOp
  <1>1. CASE Begin(p)
    <2>1. op[p] = NoOp /\ \A q \in Proc \ {p} : op'[q] = op[q]
      BY <1>1, BeginEffect
    <2>2. \A q \in Proc : op[q] # NoOp =>
            \E S \in Together : {op'[p].kind, op[q].kind} \subseteq S
      BY <1>1, BeginEffect
    <2>3. \A q \in Proc : op[q] = NoOp => op[q].kind = "none"
      BY <1>n
    <2>4. ASSUME NEW q \in Proc, q # p, op[q].kind # "none"
          PROVE  /\ {op'[p].kind, op[q].kind} \cap {"create", "move"} = {}
                 /\ op'[p].kind = "put" => op[q].kind \in {"put", "delete"}
                 /\ op[q].kind = "put" => op'[p].kind \in {"put", "delete"}
      BY <2>2, <2>3, <2>4 DEF Apart
    <2> QED
      BY <2>1, <2>4 DEF Exclusion
  <1>2. CASE Acquire(p) \/ Step(p)
    <2>1. \A q \in Proc : op'[q].kind \in {op[q].kind, "none"}
      BY <1>2, <1>n, ControlStep DEF GoesOn, Kept
    <2> QED
      BY <2>1 DEF Exclusion
  <1> QED
    BY <1>1, <1>2 DEF Act

\* Only Acquire takes a key.
LEMMA LockStep ==
  ASSUME TypeOK, Control, NEW p \in Proc, Step(p), op'[p].pc \in Locked
  PROVE  op[p].pc \in Locked /\ op'[p].key = op[p].key
  <1>0. op[p] \in Request /\ Consistent(op[p])
    BY DEF TypeOK, Control, Placed
  <1>n. NoOp.pc \notin Locked
    BY DEF NoOp, Locked
  <1>r. ~Return(p)
    BY <1>n, ReturnEffect
  <1>k. ASSUME NextKey(p) PROVE FALSE
    <2>0. op'[p] = [op[p] EXCEPT !.pc = "next", !.key = None] \/ op'[p] = NoOp
      BY <1>k, NextKeyEffect
    <2>1. [op[p] EXCEPT !.pc = "next", !.key = None].pc = "next" /\ NoOp.pc = "idle"
      BY <1>0 DEF NoOp, Request
    <2> QED
      BY <2>0, <2>1 DEF Locked
  <1>g. ASSUME NEW l, Goto(p, l) PROVE op'[p].pc = l /\ op'[p].key = op[p].key
    <2>1. op'[p] = [op[p] EXCEPT !.pc = l]
      BY <1>g, GotoEffect
    <2> QED
      BY <1>0, <2>1 DEF Request
  <1>1. CASE MakeDirs(p) \/ MakeTemp(p) \/ Verify(p) \/ Publish(p)
    BY <1>1, <1>r, <1>g DEF MakeDirs, MakeTemp, Verify, Publish, Locked
  <1>2. CASE SaveRow(p) \/ RemoveFolder(p)
    BY <1>2, <1>n, <1>r DEF SaveRow, RemoveFolder
  <1>3. CASE DropRow(p) \/ Prune(p)
    BY <1>3, <1>k, <1>g DEF DropRow, Prune, Locked
  <1>4. CASE Unlink(p)
    <2>1. op'[p] = [op[p] EXCEPT !.pc = "prune", !.base = Place]
      BY <1>4, <1>k DEF Unlink, TypeOK
    <2>2. op'[p].key = op[p].key
      BY <1>0, <2>1 DEF Request
    <2> QED
      BY <1>4, <2>2 DEF Unlink, Locked
  <1>5. CASE ListPrefix(p)
    <2>1. op'[p].pc = "next"
      BY <1>5 DEF ListPrefix, TypeOK, Request
    <2> QED
      BY <2>1 DEF Locked
  <1>6. CASE PickKey(p)
    <2>1. op'[p].pc \in {"list", "folder", "lock"}
      <3>1. CASE op[p].todo = {}
        BY <1>6, <1>g, <3>1 DEF PickKey
      <3>2. CASE op[p].todo # {}
        BY <1>6, <3>2 DEF PickKey, TypeOK, Request
      <3> QED
        BY <3>1, <3>2
    <2> QED
      BY <2>1 DEF Locked
  <1>7. CASE BucketStep(p)
    <2>1. op[p].pc \in {"insert", "register", "mkroot", "revoke", "unregister", "trylock", "count",
                       "drop", "tree", "forget", "prepare", "move", "switch", "clear", "undo"}
      BY <1>7 DEF BucketStep, InsertBucket, Register, MakeRoot, Revoke, Unregister, TryLock,
                  CountRows, DropBucket, RemoveTree, Forget, Prepare, MoveEntry, RecordPlace,
                  FailMove, SwitchPlace, ClearOld, UndoEntry, EndUndo
    <2>2. op[p].kind \in {"create", "move"} \cup Drops
      BY <1>0, <2>1, KindsOfSteps
    <2>3. op'[p] = NoOp \/ (op'[p].kind = op[p].kind /\ op'[p].pc \in StepsOf(op'[p].kind))
      BY ControlStep DEF GoesOn, Placed, Consistent
    <2> QED
      BY <1>n, <2>2, <2>3, StepsOfKinds DEF Locked, DropSteps
  <1> QED
    BY <1>1, <1>2, <1>3, <1>4, <1>5, <1>6, <1>7 DEF Step, ObjectStep

LEMMA MutexStep ==
  ASSUME TypeOK, Control, Mutex, NEW p \in Proc, Act(p) PROVE Mutex'
  <1>1. CASE Begin(p)
    <2>1. op'[p].pc \notin Locked
      BY <1>1, BeginEffect DEF Fresh, Locked
    <2> QED
      BY <1>1, <2>1, BeginEffect DEF Mutex
  <1>2. CASE Acquire(p)
    <2>1. \A q \in Proc \ {p} : op'[q].pc = op[q].pc /\ op'[q].key = op[q].key
      BY <1>2, ControlStep DEF Kept
    <2>2. op'[p].key = op[p].key
      BY <1>2 DEF Acquire, TypeOK, Request
    <2>3. \A q \in Proc : op[q].key = op[p].key => op[q].pc \notin Locked
      BY <1>2 DEF Acquire
    <2> QED
      BY <2>1, <2>2, <2>3 DEF Mutex
  <1>3. CASE Step(p)
    <2>1. \A q \in Proc \ {p} : op'[q].pc = op[q].pc /\ op'[q].key = op[q].key
      BY <1>3, ControlStep DEF Kept
    <2>2. op'[p].pc \in Locked => op[p].pc \in Locked /\ op'[p].key = op[p].key
      BY <1>3, LockStep
    <2> QED
      BY <2>1, <2>2 DEF Mutex
  <1> QED
    BY <1>1, <1>2, <1>3 DEF Act

LEMMA GotoKeeps ==
  ASSUME TypeOK, NEW p \in Proc, NEW l, Goto(p, l)
  PROVE  /\ op'[p].pc = l /\ op'[p].kind = op[p].kind /\ op'[p].key = op[p].key
         /\ op'[p].base = op[p].base /\ op'[p].todo = op[p].todo /\ op'[p].moved = op[p].moved
         /\ op'[p].pass = op[p].pass /\ op'[p].from = op[p].from /\ op'[p].id = op[p].id
         /\ op'[p].content = op[p].content
  <1>1. op'[p] = [op[p] EXCEPT !.pc = l] /\ op[p] \in Request
    BY GotoEffect DEF TypeOK
  <1> QED
    BY <1>1 DEF Request

LEMMA NextKeyKeeps ==
  ASSUME TypeOK, NEW p \in Proc, NextKey(p)
  PROVE  \/ op'[p] = NoOp
         \/ /\ op[p].kind = "prefix" /\ op'[p].kind = "prefix"
            /\ op'[p].pc = "next" /\ op'[p].key = None
            /\ op'[p].base = op[p].base /\ op'[p].todo = op[p].todo /\ op'[p].moved = op[p].moved
            /\ op'[p].pass = op[p].pass
  <1>1. op'[p] = IF op[p].kind = "prefix" THEN [op[p] EXCEPT !.pc = "next", !.key = None] ELSE NoOp
    BY NextKeyEffect
  <1>2. op[p] \in Request
    BY DEF TypeOK
  <1>3. CASE op[p].kind = "prefix"
    <2>1. op'[p] = [op[p] EXCEPT !.pc = "next", !.key = None]
      BY <1>1, <1>3
    <2> QED
      BY <1>2, <1>3, <2>1 DEF Request
  <1> QED
    BY <1>1, <1>3

LEMMA NoOpFields ==
  /\ NoOp.kind = "none" /\ NoOp.pc = "idle" /\ NoOp.key = None /\ NoOp.moved = {}
  BY DEF NoOp

\* A request that is not running is at no step.
LEMMA Running ==
  ASSUME TypeOK, Control, NEW p \in Proc, op[p].pc # "idle"
  PROVE  op[p].kind # "none"
  BY NoOpFields DEF Control, Placed, Consistent

LEMMA StepRuns ==
  ASSUME TypeOK, Control, NEW p \in Proc, Acquire(p) \/ Step(p)
  PROVE  op[p].kind # "none" /\ op[p].pc # "idle"
  <1>1. op[p].pc # "idle"
    BY DEF Acquire, Step, ObjectStep, BucketStep, MakeDirs, MakeTemp, Verify, Publish, SaveRow,
           DropRow, Unlink, Prune, ListPrefix, PickKey, RemoveFolder, InsertBucket, Register,
           MakeRoot, Revoke, Unregister, TryLock, CountRows, DropBucket, RemoveTree, Forget,
           Prepare, MoveEntry, RecordPlace, FailMove, SwitchPlace, ClearOld, UndoEntry, EndUndo
  <1> QED
    BY <1>1, Running

-----------------------------------------------------------------------------
(* The row of the bucket, and the map of custom directories. *)

\* The custom directory the table has.
Dir == IF bucket = None THEN None ELSE bucket.dir

\* What a request at its step knows of the bucket.
Knows(r) ==
  /\ r.kind \notin {"none", "create"} /\ bucket # None => r.id = bucket.id
  /\ r.kind \in {"put", "move"} => bucket # None
  /\ r.pc \in {"tree", "forget"} => bucket = None
  /\ r.kind = "create" =>
       /\ \A k \in Key : rows[k] = None
       /\ r.pc \in {"insert", "unregister"} => bucket = None
       /\ r.pc \notin {"insert", "unregister"} => bucket # None /\ bucket.dir = AsDir(r.base)
       /\ r.pc = "register" => custom = None
  /\ r.kind = "move" => Dir = AsDir(IF r.pc \in {"switch", "clear"} THEN r.base ELSE r.from)

BucketInv ==
  /\ bucket = None => \A k \in Key : rows[k] = None
  /\ \A p \in Proc : Knows(op[p])

\* Steps between a change of the table and the change of the map that goes with it.
Between == {"register", "unregister", "tree", "forget", "switch"}

MapInv == custom = Dir \/ \E p \in Proc : op[p].pc \in Between

\* Requests that run beside p keep what they know.
LEMMA OthersKnow ==
  ASSUME TypeOK, Control, Exclusion, BucketInv, NEW p \in Proc, op[p].kind # "none",
         \A q \in Proc \ {p} : Kept(q),
         \/ op[p].kind \in {"create", "move"}
         \/ bucket' = bucket
         \/ bucket' = None /\ op[p].kind \in Drops
  PROVE  \A q \in Proc \ {p} : Knows(op[q])'
  <1> SUFFICES ASSUME NEW q \in Proc \ {p} PROVE Knows(op[q])'
    OBVIOUS
  <1>1. op[q].kind \notin {"create", "move"}
    BY DEF Exclusion
  <1>2. op'[q].kind = op[q].kind /\ op'[q].id = op[q].id /\ op'[q].pc = op[q].pc
    BY DEF Kept
  <1>3. Knows(op[q]) /\ op[q] \in Request /\ Consistent(op[q])
    BY DEF BucketInv, TypeOK, Control, Placed
  <1>4. CASE op[p].kind \in {"create", "move"}
    <2>1. op[q].kind = "none"
      BY <1>4 DEF Exclusion
    <2>2. op[q].pc = "idle"
      BY <1>3, <2>1, KindsOfSteps
    <2> QED
      BY <1>2, <2>1, <2>2 DEF Knows
  <1>5. CASE bucket' = bucket
    BY <1>1, <1>2, <1>3, <1>5 DEF Knows
  <1>6. CASE bucket' = None /\ op[p].kind \in Drops
    <2>1. op[q].kind # "put"
      BY <1>6 DEF Exclusion, Drops
    <2> QED
      BY <1>1, <1>2, <1>3, <1>6, <2>1 DEF Knows
  <1> QED
    BY <1>4, <1>5, <1>6

LEMMA ObjectKinds ==
  ASSUME TypeOK, Control, NEW p \in Proc, Acquire(p) \/ ObjectStep(p)
  PROVE  op[p].kind \in {"put", "delete", "prefix"} /\ op[p].pc \notin Between
  <1>0. op[p] \in Request /\ Consistent(op[p])
    BY DEF TypeOK, Control, Placed
  <1>1. op[p].pc \in {"lock", "mkdir", "temp", "verify", "rename", "save", "row", "unlink",
                     "prune", "list", "next", "folder"}
    BY DEF Acquire, ObjectStep, MakeDirs, MakeTemp, Verify, Publish, SaveRow, DropRow, Unlink,
           Prune, ListPrefix, PickKey, RemoveFolder
  <1>2. op[p].kind \in {"put", "delete", "prefix"}
    BY <1>0, <1>1, KindsOfSteps
  <1> QED
    BY <1>1, <1>2 DEF Between

LEMMA PlaceObject ==
  ASSUME TypeOK, Control, Exclusion, BucketInv, MapInv, NEW p \in Proc,
         Acquire(p) \/ ObjectStep(p)
  PROVE  BucketInv' /\ MapInv'
  <1>1. bucket' = bucket /\ custom' = custom
    BY DEF Acquire, ObjectStep, MakeDirs, MakeTemp, Verify, Publish, SaveRow, DropRow, Unlink,
           Prune, ListPrefix, PickKey, RemoveFolder, table
  <1>2. bucket = None => \A k \in Key : rows'[k] = None
    <2>1. CASE SaveRow(p)
      BY <2>1 DEF SaveRow, Live, BucketInv
    <2>2. CASE DropRow(p)
      BY <2>2 DEF DropRow, Live, BucketInv
    <2>3. CASE ~SaveRow(p) /\ ~DropRow(p)
      BY <2>3 DEF Acquire, ObjectStep, MakeDirs, MakeTemp, Verify, Publish, Unlink, Prune,
                  ListPrefix, PickKey, RemoveFolder, table, BucketInv
    <2> QED
      BY <2>1, <2>2, <2>3
  <1>3. op[p].kind \in {"put", "delete", "prefix"} /\ op[p].pc \notin Between
    BY ObjectKinds
  <1>4. /\ Consistent(op'[p]) /\ op'[p] \in Request
        /\ op'[p] = NoOp \/ (op'[p].kind = op[p].kind /\ op'[p].id = op[p].id)
        /\ \A q \in Proc \ {p} : Kept(q)
    <2>1. TypeOK'
      BY TypeObject DEF Control
    <2> QED
      BY <2>1, ControlStep DEF Step, GoesOn, Placed, TypeOK
  <1>5. Knows(op[p])'
    <2>1. op'[p].pc \notin {"tree", "forget"}
      BY <1>3, <1>4, KindsOfSteps, NoOpFields DEF Drops
    <2> QED
      BY <1>1, <1>3, <1>4, <2>1, NoOpFields DEF Knows, BucketInv
  <1>6. \A q \in Proc \ {p} : Knows(op[q])'
    BY <1>1, <1>3, <1>4, OthersKnow
  <1>7. MapInv'
    <2>1. \A q \in Proc \ {p} : op'[q].pc = op[q].pc
      BY <1>4 DEF Kept
    <2> QED
      BY <1>1, <1>3, <2>1 DEF MapInv, Dir
  <1> QED
    BY <1>1, <1>2, <1>5, <1>6, <1>7 DEF BucketInv

LEMMA PlaceBucket ==
  ASSUME TypeOK, Control, Exclusion, BucketInv, MapInv, NEW p \in Proc, BucketStep(p),
         "revocation" \notin ignored'
  PROVE  BucketInv' /\ MapInv'
  <1>0. op[p] \in Request /\ Consistent(op[p]) /\ Knows(op[p])
    BY DEF TypeOK, Control, Placed, BucketInv
  <1>k. /\ op[p].pc \in {"insert", "register", "mkroot", "revoke", "unregister"} => op[p].kind = "create"
        /\ op[p].pc \in {"prepare", "move", "switch", "clear", "undo"} => op[p].kind = "move"
        /\ op[p].pc = "trylock" => op[p].kind \in Drops \cup {"move"}
        /\ op[p].pc \in {"count", "drop", "tree", "forget"} => op[p].kind \in Drops
    BY <1>0, KindsOfSteps
  <1>o. \A q \in Proc \ {p} : Kept(q) /\ op'[q].pc = op[q].pc
    BY ControlStep DEF Step, Kept
  <1>s. /\ op[p].kind # "none"
        /\ op[p].kind \in {"create", "move"} \/ op[p].kind \in Drops
    <2>1. op[p].pc \in {"insert", "register", "mkroot", "revoke", "unregister", "trylock", "count",
                       "drop", "tree", "forget", "prepare", "move", "switch", "clear", "undo"}
      BY DEF BucketStep, InsertBucket, Register, MakeRoot, Revoke, Unregister, TryLock,
             CountRows, DropBucket, RemoveTree, Forget, Prepare, MoveEntry, RecordPlace,
             FailMove, SwitchPlace, ClearOld, UndoEntry, EndUndo
    <2> QED
      BY <1>k, <2>1 DEF Drops
  <1>a. op[p].kind \in {"create", "move"} => \A q \in Proc \ {p} : op[q].pc \notin Between
    <2>1. SUFFICES ASSUME op[p].kind \in {"create", "move"}, NEW q \in Proc \ {p}
                   PROVE  op[q].pc \notin Between
      OBVIOUS
    <2>2. op[q].kind = "none" /\ op[q] \in Request /\ Consistent(op[q])
      BY <2>1 DEF Exclusion, TypeOK, Control, Placed
    <2> QED
      BY <2>2, KindsOfSteps DEF Between
  <1>m. op[p].kind \in {"create", "move"} /\ op[p].pc \notin Between => custom = Dir
    BY <1>a DEF MapInv
  <1>n. Knows(NoOp)'
    BY NoOpFields DEF Knows
  <1>r. ASSUME Return(p) PROVE op'[p] = NoOp
    BY <1>r, ReturnEffect
  <1>l. ASSUME Release(p) PROVE op'[p] = NoOp
    BY <1>l, <1>r DEF Release
  <1>q. ASSUME /\ bucket' = None => \A k \in Key : rows'[k] = None
               /\ Knows(op[p])'
               /\ op[p].kind \in {"create", "move"} \/ bucket' \in {bucket, None}
        PROVE  BucketInv'
    <2>1. \A q \in Proc \ {p} : Knows(op[q])'
      BY <1>o, <1>s, <1>q, OthersKnow
    <2> QED
      BY <1>q, <2>1 DEF BucketInv
  <1>i. ASSUME UNCHANGED <<bucket, rows, custom>>, Knows(op[p])',
               op[p].pc \in Between => op'[p].pc \in Between
        PROVE  BucketInv' /\ MapInv'
    <2>1. BucketInv'
      BY <1>i, <1>q DEF BucketInv
    <2>2. MapInv'
      BY <1>i, <1>o DEF MapInv, Dir
    <2> QED
      BY <2>1, <2>2
  <1>1. CASE InsertBucket(p)
    <2>1. op[p].kind = "create" /\ bucket = None /\ custom = None /\ \A k \in Key : rows[k] = None
      BY <1>0, <1>k, <1>m, <1>1 DEF InsertBucket, Knows, Between, Dir
    <2>2. /\ bucket' = [id |-> nextId, dir |-> AsDir(op[p].base), quota |-> 0]
          /\ Goto(p, IF op[p].base = Root THEN "mkroot" ELSE "register")
          /\ rows' = rows /\ custom' = custom
      BY <1>1, <2>1 DEF InsertBucket
    <2>3. bucket' \in BucketRow
      BY <1>0, <2>1, <2>2, PlaceAssumption DEF TypeOK, BucketRow, AsDir, Consistent
    <2>4. bucket' # None
      BY <2>3, NoneAssumption
    <2>5. op'[p].kind = "create" /\ op'[p].base = op[p].base
          /\ op'[p].pc = IF op[p].base = Root THEN "mkroot" ELSE "register"
      BY <2>1, <2>2, GotoKeeps
    <2>6. bucket'.dir = AsDir(op[p].base)
      BY <2>2
    <2>7. Knows(op[p])'
      BY <2>1, <2>2, <2>4, <2>5, <2>6 DEF Knows
    <2>8. BucketInv'
      BY <1>q, <2>1, <2>4, <2>7
    <2>9. MapInv'
      BY <2>1, <2>2, <2>4, <2>5, <2>6 DEF MapInv, Dir, AsDir, Between
    <2> QED
      BY <2>8, <2>9
  <1>2. CASE Register(p)
    <2>1. op[p].kind = "create" /\ op[p].pc = "register" /\ Goto(p, "mkroot")
          /\ bucket' = bucket /\ rows' = rows /\ custom' = op[p].base
      BY <1>k, <1>2 DEF Register, table
    <2>2. bucket # None /\ bucket.dir = AsDir(op[p].base) /\ (\A k \in Key : rows[k] = None)
          /\ op[p].base # Root
      BY <1>0, <2>1 DEF Knows, Consistent
    <2>3. op'[p].kind = "create" /\ op'[p].pc = "mkroot" /\ op'[p].base = op[p].base
      BY <2>1, GotoKeeps
    <2>4. Knows(op[p])'
      BY <2>1, <2>2, <2>3 DEF Knows
    <2>5. BucketInv'
      BY <1>q, <2>1, <2>2, <2>4
    <2>6. MapInv'
      BY <2>1, <2>2 DEF MapInv, Dir, AsDir
    <2> QED
      BY <2>5, <2>6
  <1>3. CASE MakeRoot(p)
    <2>1. op[p].kind = "create" /\ op[p].pc = "mkroot" /\ (Return(p) \/ Goto(p, "revoke"))
          /\ UNCHANGED <<bucket, rows, custom>>
      BY <1>k, <1>3 DEF MakeRoot, table
    <2>2. \/ op'[p] = NoOp
          \/ op'[p].kind = "create" /\ op'[p].pc = "revoke" /\ op'[p].base = op[p].base
      BY <1>r, <2>1, GotoKeeps
    <2>3. Knows(op[p])'
      BY <1>0, <1>n, <2>1, <2>2 DEF Knows
    <2> QED
      BY <1>i, <2>1, <2>3 DEF Between
  <1>4. CASE Revoke(p)
    <2>1. /\ op[p].kind = "create" /\ op[p].pc = "revoke"
          /\ IF op[p].base = Root THEN Return(p) ELSE Goto(p, "unregister")
          /\ bucket' = None /\ rows' = [k \in Key |-> None] /\ custom' = custom
      BY <1>k, <1>4 DEF Revoke, Ignore
    <2>2. custom = Dir /\ bucket # None /\ bucket.dir = AsDir(op[p].base)
      BY <1>0, <1>m, <2>1 DEF Knows, Between
    <2>3. CASE op[p].base = Root
      <3>1. op'[p] = NoOp
        BY <1>r, <2>1, <2>3
      <3>2. BucketInv'
        BY <1>n, <1>q, <2>1, <3>1
      <3>3. MapInv'
        BY <2>1, <2>2, <2>3 DEF MapInv, Dir, AsDir
      <3> QED
        BY <3>2, <3>3
    <2>4. CASE op[p].base # Root
      <3>1. op'[p].kind = "create" /\ op'[p].pc = "unregister"
        BY <2>1, <2>4, GotoKeeps
      <3>2. Knows(op[p])'
        BY <2>1, <3>1 DEF Knows
      <3>3. BucketInv'
        BY <1>q, <2>1, <3>2
      <3>4. MapInv'
        BY <3>1 DEF MapInv, Between
      <3> QED
        BY <3>3, <3>4
    <2> QED
      BY <2>3, <2>4
  <1>5. CASE Unregister(p)
    <2>1. op[p].kind = "create" /\ op[p].pc = "unregister" /\ Return(p) /\ custom' = None
          /\ bucket' = bucket /\ rows' = rows
      BY <1>k, <1>5 DEF Unregister, table
    <2>2. bucket = None
      BY <1>0, <2>1 DEF Knows
    <2>3. BucketInv'
      BY <1>n, <1>q, <1>r, <2>1, <2>2 DEF BucketInv
    <2>4. MapInv'
      BY <2>1, <2>2 DEF MapInv, Dir
    <2> QED
      BY <2>3, <2>4
  <1>6. CASE TryLock(p)
    <2>1. /\ op[p].pc = "trylock" /\ UNCHANGED <<bucket, rows, custom>>
          /\ Return(p) \/ Goto(p, IF op[p].kind = "move" THEN "prepare" ELSE "count")
      BY <1>6 DEF TryLock, table
    <2>2. \/ op'[p] = NoOp
          \/ /\ op'[p].kind = op[p].kind /\ op'[p].id = op[p].id /\ op'[p].from = op[p].from
             /\ op'[p].pc = IF op[p].kind = "move" THEN "prepare" ELSE "count"
      BY <1>r, <2>1, GotoKeeps
    <2>3. Knows(op[p])'
      BY <1>0, <1>k, <1>n, <2>1, <2>2 DEF Knows, Drops, Dir
    <2> QED
      BY <1>i, <2>1, <2>3 DEF Between
  <1>7. CASE CountRows(p)
    <2>1. /\ op[p].pc = "count" /\ UNCHANGED <<bucket, rows, custom>>
          /\ Release(p) \/ Goto(p, "drop")
      BY <1>7 DEF CountRows, table
    <2>2. \/ op'[p] = NoOp
          \/ op'[p].kind = op[p].kind /\ op'[p].id = op[p].id /\ op'[p].pc = "drop"
      BY <1>l, <2>1, GotoKeeps
    <2>3. Knows(op[p])'
      BY <1>0, <1>k, <1>n, <2>1, <2>2 DEF Knows, Drops
    <2> QED
      BY <1>i, <2>1, <2>3 DEF Between
  <1>8. CASE DropBucket(p)
    <2>1. op[p].kind \in Drops /\ op[p].pc = "drop"
      BY <1>k, <1>8 DEF DropBucket
    <2>2. CASE bucket' = None /\ rows' = [k \in Key |-> None] /\ Goto(p, "tree")
      <3>1. op'[p].kind = op[p].kind /\ op'[p].pc = "tree"
        BY <2>2, GotoKeeps
      <3>2. Knows(op[p])'
        BY <2>1, <2>2, <3>1 DEF Knows, Drops
      <3>3. BucketInv'
        BY <1>q, <2>2, <3>2
      <3>4. MapInv'
        BY <3>1 DEF MapInv, Between
      <3> QED
        BY <3>3, <3>4
    <2>3. CASE Release(p) /\ UNCHANGED <<bucket, rows, custom>>
      BY <1>i, <1>l, <1>n, <2>1, <2>3 DEF Between
    <2> QED
      BY <1>8, <2>2, <2>3 DEF DropBucket
  <1>9. CASE RemoveTree(p)
    <2>1. op[p].pc = "tree" /\ UNCHANGED <<bucket, rows, custom>> /\ Goto(p, "forget")
      BY <1>9 DEF RemoveTree, table
    <2>2. op'[p].kind = op[p].kind /\ op'[p].pc = "forget" /\ bucket = None
      BY <1>0, <2>1, GotoKeeps DEF Knows
    <2>3. Knows(op[p])'
      BY <1>k, <2>1, <2>2 DEF Knows, Drops
    <2> QED
      BY <1>i, <2>1, <2>2, <2>3 DEF Between
  <1>10. CASE Forget(p)
    <2>1. op[p].pc = "forget" /\ UNCHANGED <<bucket, rows>> /\ custom' = None /\ Release(p)
      BY <1>10 DEF Forget, table
    <2>2. bucket = None
      BY <1>0, <2>1 DEF Knows
    <2>3. BucketInv'
      BY <1>l, <1>n, <1>q, <2>1 DEF BucketInv
    <2>4. MapInv'
      BY <2>1, <2>2 DEF MapInv, Dir
    <2> QED
      BY <2>3, <2>4
  <1>11. CASE Prepare(p)
    <2>1. op[p].pc = "prepare" /\ op[p].kind = "move" /\ UNCHANGED <<bucket, rows, custom>>
          /\ op' = [op EXCEPT ![p].todo = Entries(op[p].from), ![p].pc = "move"]
      BY <1>k, <1>11 DEF Prepare, table
    <2>2. op'[p].pc = "move"
      BY <2>1 DEF TypeOK, Request
    <2>4. op'[p].kind = "move" /\ op'[p].id = op[p].id /\ op'[p].from = op[p].from
      BY <1>0, <2>1, <2>2, ControlStep, NoOpFields DEF Step, GoesOn
    <2>3. Knows(op[p])'
      BY <1>0, <2>1, <2>2, <2>4 DEF Knows, Dir
    <2> QED
      BY <1>i, <2>1, <2>3 DEF Between
  <1>12. CASE MoveEntry(p)
    <2>1. op[p].pc = "move" /\ op[p].kind = "move" /\ UNCHANGED <<bucket, rows, custom>>
      BY <1>k, <1>12 DEF MoveEntry, table
    <2>2. op'[p].pc \in {"move", "undo"}
      <3>1. PICK e \in op[p].todo : \/ op' = [op EXCEPT ![p].todo = @ \ {e}, ![p].moved = @ \cup {e}]
                                    \/ Goto(p, "undo")
        BY <1>12 DEF MoveEntry
      <3> QED
        BY <2>1, <3>1, GotoKeeps DEF TypeOK, Request
    <2>4. op'[p].kind = "move" /\ op'[p].id = op[p].id /\ op'[p].from = op[p].from
      BY <1>0, <2>1, <2>2, ControlStep, NoOpFields DEF Step, GoesOn
    <2>3. Knows(op[p])'
      BY <1>0, <2>1, <2>2, <2>4 DEF Knows, Dir
    <2> QED
      BY <1>i, <2>1, <2>3 DEF Between
  <1>13. CASE RecordPlace(p)
    <2>1. /\ op[p].pc = "move" /\ op[p].kind = "move" /\ Goto(p, "switch")
          /\ bucket # None /\ op[p].id = bucket.id
          /\ bucket' = [bucket EXCEPT !.dir = AsDir(op[p].base)]
          /\ UNCHANGED <<rows, custom>>
      BY <1>0, <1>k, <1>13 DEF RecordPlace, Knows
    <2>2. bucket' \in BucketRow /\ bucket'.dir = AsDir(op[p].base) /\ bucket'.id = bucket.id
      BY <1>0, <2>1, PlaceAssumption DEF TypeOK, BucketRow, AsDir, Consistent
    <2>3. bucket' # None
      BY <2>2, NoneAssumption
    <2>4. op'[p].kind = "move" /\ op'[p].pc = "switch" /\ op'[p].base = op[p].base
          /\ op'[p].id = op[p].id
      BY <2>1, GotoKeeps
    <2>5. Knows(op[p])'
      BY <2>1, <2>2, <2>3, <2>4 DEF Knows, Dir
    <2>6. BucketInv'
      BY <1>q, <2>1, <2>3, <2>5
    <2>7. MapInv'
      BY <2>4 DEF MapInv, Between
    <2> QED
      BY <2>6, <2>7
  <1>14. CASE FailMove(p)
    <2>1. op[p].pc = "move" /\ op[p].kind = "move" /\ UNCHANGED <<bucket, rows, custom>>
          /\ Goto(p, "undo")
      BY <1>k, <1>14 DEF FailMove, table
    <2>2. op'[p].kind = "move" /\ op'[p].pc = "undo" /\ op'[p].id = op[p].id
          /\ op'[p].from = op[p].from
      BY <2>1, GotoKeeps
    <2>3. Knows(op[p])'
      BY <1>0, <2>1, <2>2 DEF Knows, Dir
    <2> QED
      BY <1>i, <2>1, <2>3 DEF Between
  <1>15. CASE SwitchPlace(p)
    <2>1. op[p].pc = "switch" /\ op[p].kind = "move" /\ UNCHANGED <<bucket, rows>>
          /\ Goto(p, "clear") /\ custom' = AsDir(op[p].base)
      BY <1>k, <1>15 DEF SwitchPlace, table
    <2>2. op'[p].kind = "move" /\ op'[p].pc = "clear" /\ op'[p].id = op[p].id
          /\ op'[p].base = op[p].base
      BY <2>1, GotoKeeps
    <2>3. Knows(op[p])'
      BY <1>0, <2>1, <2>2 DEF Knows, Dir
    <2>4. BucketInv'
      BY <1>q, <2>1, <2>3 DEF BucketInv
    <2>5. MapInv'
      BY <1>0, <2>1 DEF MapInv, Dir, Knows
    <2> QED
      BY <2>4, <2>5
  <1>16. CASE ClearOld(p)
    BY <1>i, <1>l, <1>n, <1>16 DEF ClearOld, Between, table
  <1>17. CASE UndoEntry(p)
    <2>1. op[p].pc = "undo" /\ op[p].kind = "move" /\ UNCHANGED <<bucket, rows, custom>>
      BY <1>k, <1>17 DEF UndoEntry, table
    <2>2. op'[p].pc = "undo"
      BY <1>17, <2>1 DEF UndoEntry, TypeOK, Request
    <2>4. op'[p].kind = "move" /\ op'[p].id = op[p].id /\ op'[p].from = op[p].from
      BY <1>0, <2>1, <2>2, ControlStep, NoOpFields DEF Step, GoesOn
    <2>3. Knows(op[p])'
      BY <1>0, <2>1, <2>2, <2>4 DEF Knows, Dir
    <2> QED
      BY <1>i, <2>1, <2>3 DEF Between
  <1>18. CASE EndUndo(p)
    BY <1>i, <1>l, <1>n, <1>18 DEF EndUndo, Between, table
  <1> QED
    BY <1>1, <1>2, <1>3, <1>4, <1>5, <1>6, <1>7, <1>8, <1>9, <1>10, <1>11, <1>12, <1>13,
       <1>14, <1>15, <1>16, <1>17, <1>18 DEF BucketStep

-----------------------------------------------------------------------------
(* Temporary files, and the directory below the bucket's. *)

\* An upload works where the map sent it when it took its key.
BaseInv ==
  \A p \in Proc : op[p].pc \in {"mkdir", "temp", "verify", "rename", "save"} => op[p].base = Place

\* Only an upload between CreateTemp and Rename has a temporary file.
TempInv ==
  \A p \in Proc : temp[p] # None => op[p].pc \in {"verify", "rename"} /\ temp[p] = op[p].base

\* What lies below the directory has the directory.
SubInv ==
  /\ \A b \in Base, k \in InDir : file[b][k] # None => sub[b]
  /\ \A p \in Proc : temp[p] # None /\ op[p].key \in InDir => sub[temp[p]]

\* The entry of its directory that a key is, or is in.
EntryOf(k) == IF k \in InDir THEN "dir" ELSE k

LEMMA EntryTypes ==
  \A k \in Key : EntryOf(k) \in (Key \ InDir) \cup {"dir"} /\ (EntryOf(k) = "dir" <=> k \in InDir)
  BY NameAssumption DEF EntryOf

\* While nobody uploads, a rename moves the files of one entry.
LEMMA RenameEffect ==
  ASSUME TypeOK, \A q \in Proc : temp[q] = None,
         NEW from \in Base, NEW to \in Base, from # to, NEW e \in Entries(from), Rename(e, from, to)
  PROVE  /\ temp' = temp
         /\ \A k \in Key : file'[to][k] = IF EntryOf(k) = e THEN file[from][k] ELSE file[to][k]
         /\ \A k \in Key : file'[from][k] = IF EntryOf(k) = e THEN None ELSE file[from][k]
         /\ \A b \in Base \ {from, to} : file'[b] = file[b]
         /\ sub' = IF e = "dir" THEN [sub EXCEPT ![from] = FALSE, ![to] = TRUE] ELSE sub
         /\ e \in (Key \ InDir) \cup {"dir"}
         /\ e = "dir" => sub[from]
         /\ e # "dir" => file[from][e] # None
  <1>1. /\ e \in (Key \ InDir) \cup {"dir"} /\ (e = "dir" => sub[from])
        /\ e # "dir" => file[from][e] # None
    BY NameAssumption, NoneAssumption DEF Entries
  <1> DEFINE all == IF e = "dir" THEN InDir ELSE {e} \cap Key
  <1>2. \A k \in Key : k \in all <=> EntryOf(k) = e
    BY <1>1, NameAssumption DEF EntryOf
  <1>3. file' = [file EXCEPT
                   ![to]   = [k \in Key |-> IF k \in all THEN file[from][k] ELSE @[k]],
                   ![from] = [k \in Key |-> IF k \in all THEN None ELSE @[k]]]
    BY DEF Rename
  <1> HIDE DEF all
  <1>4. /\ file'[to] = [k \in Key |-> IF k \in all THEN file[from][k] ELSE file[to][k]]
        /\ file'[from] = [k \in Key |-> IF k \in all THEN None ELSE file[from][k]]
        /\ \A b \in Base \ {from, to} : file'[b] = file[b]
    BY <1>3 DEF TypeOK
  <1>5. temp' = temp
    <2>1. \A q \in Proc : q \notin (IF e = "dir" THEN InSub(from) ELSE {e})
      BY <1>1, NameAssumption, NoneAssumption, PlaceAssumption DEF InSub
    <2>2. temp' = [q \in Proc |-> IF q \in (IF e = "dir" THEN InSub(from) ELSE {e}) THEN to ELSE temp[q]]
      BY DEF Rename
    <2> QED
      BY <2>1, <2>2 DEF TypeOK
  <1>6. sub' = IF e = "dir" THEN [sub EXCEPT ![from] = FALSE, ![to] = TRUE] ELSE sub
    BY DEF Rename
  <1> QED
    BY <1>1, <1>2, <1>4, <1>5, <1>6

\* While a request creates or moves the bucket, or deletes it, nobody has a temporary file.
LEMMA NoTemps ==
  ASSUME TypeOK, Control, Exclusion, TempInv, NEW p \in Proc,
         op[p].kind \in {"create", "move", "prefix"} \cup Drops
  PROVE  \A q \in Proc : temp[q] = None /\ op[q].kind # "put"
  <1> SUFFICES ASSUME NEW q \in Proc PROVE temp[q] = None /\ op[q].kind # "put"
    OBVIOUS
  <1>1. op[q] \in Request /\ Consistent(op[q])
    BY DEF TypeOK, Control, Placed
  <1>2. op[q].kind # "put"
    BY DEF Exclusion, Drops
  <1>3. op[q].pc \notin {"verify", "rename"}
    BY <1>1, <1>2, KindsOfSteps
  <1> QED
    BY <1>2, <1>3 DEF TempInv

\* An entry of the old directory moves, or the move is given up.
LEMMA MoveEntryEffect ==
  ASSUME TypeOK, Control, Exclusion, TempInv, NEW p \in Proc, MoveEntry(p)
  PROVE  /\ op[p].kind = "move" /\ op[p].pc = "move"
         /\ op[p].from \in Base /\ op[p].base \in Base /\ op[p].from # op[p].base
         /\ op'[p].from = op[p].from /\ op'[p].base = op[p].base
         /\ \/ /\ UNCHANGED disk /\ op'[p].pc = "undo"
               /\ op'[p].todo = op[p].todo /\ op'[p].moved = op[p].moved
            \/ \E e \in Entries(op[p].from) \ Entries(op[p].base) :
                 /\ Rename(e, op[p].from, op[p].base)
                 /\ op'[p].pc = "move" /\ e \in op[p].todo
                 /\ op'[p].todo = op[p].todo \ {e} /\ op'[p].moved = op[p].moved \cup {e}
  <1>1. op[p] \in Request /\ Consistent(op[p]) /\ op[p].pc = "move"
    BY DEF TypeOK, Control, Placed, MoveEntry
  <1>2. op[p].kind = "move" /\ op[p].from \in Base /\ op[p].base \in Base /\ op[p].from # op[p].base
    BY <1>1, KindsOfSteps DEF Consistent
  <1>3. PICK e \in op[p].todo :
            IF e \in Entries(op[p].from) \ Entries(op[p].base)
              THEN /\ Rename(e, op[p].from, op[p].base)
                   /\ op' = [op EXCEPT ![p].todo = @ \ {e}, ![p].moved = @ \cup {e}]
              ELSE Goto(p, "undo") /\ UNCHANGED disk
    BY DEF MoveEntry
  <1>4. CASE e \in Entries(op[p].from) \ Entries(op[p].base)
    <2>1. Rename(e, op[p].from, op[p].base)
          /\ op' = [op EXCEPT ![p].todo = @ \ {e}, ![p].moved = @ \cup {e}]
      BY <1>3, <1>4
    <2>2. /\ op'[p].from = op[p].from /\ op'[p].base = op[p].base /\ op'[p].pc = "move"
          /\ op'[p].todo = op[p].todo \ {e} /\ op'[p].moved = op[p].moved \cup {e}
      BY <1>1, <2>1 DEF TypeOK, Request
    <2> QED
      BY <1>1, <1>2, <1>4, <2>1, <2>2
  <1>5. CASE e \notin Entries(op[p].from) \ Entries(op[p].base)
    BY <1>1, <1>2, <1>3, <1>5, GotoKeeps
  <1> QED
    BY <1>4, <1>5

LEMMA UndoEntryEffect ==
  ASSUME TypeOK, Control, Exclusion, TempInv, NEW p \in Proc, UndoEntry(p)
  PROVE  /\ op[p].kind = "move" /\ op[p].pc = "undo"
         /\ op[p].from \in Base /\ op[p].base \in Base /\ op[p].from # op[p].base
         /\ op'[p].from = op[p].from /\ op'[p].base = op[p].base /\ op'[p].pc = "undo"
         /\ \E e \in op[p].moved :
              /\ op'[p].moved = op[p].moved \ {e}
              /\ \/ UNCHANGED disk
                 \/ e \in Entries(op[p].base) /\ Rename(e, op[p].base, op[p].from)
              /\ "rollback" \notin ignored' =>
                   IF e \in Entries(op[p].base) /\ (e = "dir" => InSub(op[p].from) = {})
                     THEN Rename(e, op[p].base, op[p].from)
                     ELSE UNCHANGED disk
  <1>1. op[p] \in Request /\ Consistent(op[p]) /\ op[p].pc = "undo"
    BY DEF TypeOK, Control, Placed, UndoEntry
  <1>2. op[p].kind = "move" /\ op[p].from \in Base /\ op[p].base \in Base /\ op[p].from # op[p].base
    BY <1>1, KindsOfSteps DEF Consistent
  <1>3. PICK e \in op[p].moved :
          /\ op' = [op EXCEPT ![p].moved = @ \ {e}]
          /\ \/ IF e \in Entries(op[p].base) /\ (e = "dir" => InSub(op[p].from) = {})
                  THEN Rename(e, op[p].base, op[p].from) ELSE UNCHANGED disk
             \/ Ignore("rollback") /\ UNCHANGED disk
    BY DEF UndoEntry
  <1>4. /\ op'[p].from = op[p].from /\ op'[p].base = op[p].base /\ op'[p].pc = "undo"
        /\ op'[p].moved = op[p].moved \ {e}
    BY <1>1, <1>3 DEF TypeOK, Request
  <1>5. Ignore("rollback") => "rollback" \in ignored'
    BY DEF Ignore
  <1> QED
    BY <1>1, <1>2, <1>3, <1>4, <1>5

LEMMA TempStep ==
  ASSUME TypeOK, Control, Exclusion, TempInv, NEW p \in Proc, Acquire(p) \/ Step(p)
  PROVE  /\ TempInv'
         /\ \A q \in Proc : temp'[q] # None => temp'[q] = temp[q] \/ (q = p /\ MakeTemp(p))
  <1>o. \A q \in Proc \ {p} : op'[q].pc = op[q].pc /\ op'[q].base = op[q].base
    BY ControlStep DEF Kept
  <1>0. op[p] \in Request /\ Consistent(op[p])
    BY DEF TypeOK, Control, Placed
  <1>a. ASSUME \A q \in Proc : temp'[q] \in {temp[q], None},
               temp'[p] = None \/ (op[p].pc = "verify" /\ Goto(p, "rename"))
        PROVE  TempInv' /\ \A q \in Proc : temp'[q] # None => temp'[q] = temp[q]
    <2>1. ASSUME temp'[p] # None PROVE op'[p].pc = "rename" /\ op'[p].base = op[p].base
      BY <1>a, <2>1, GotoKeeps
    <2> QED
      BY <1>a, <1>o, <2>1 DEF TempInv
  <1>b. op[p].pc \notin {"verify", "rename"} => temp[p] = None
    BY DEF TempInv
  <1>1. CASE MakeTemp(p)
    <2>1. op[p].pc = "temp"
      BY <1>1 DEF MakeTemp
    <2>2. CASE Return(p) /\ UNCHANGED temp
      BY <1>a, <1>b, <2>1, <2>2
    <2>3. CASE temp' = [temp EXCEPT ![p] = op[p].base] /\ Goto(p, "verify")
      <3>1. op'[p].pc = "verify" /\ op'[p].base = op[p].base
        BY <2>3, GotoKeeps
      <3>2. temp'[p] = op[p].base /\ \A q \in Proc \ {p} : temp'[q] = temp[q]
        BY <2>3 DEF TypeOK
      <3> QED
        BY <1>1, <1>o, <3>1, <3>2 DEF TempInv
    <2> QED
      BY <1>1, <2>2, <2>3 DEF MakeTemp
  <1>2. CASE Verify(p)
    <2>1. op[p].pc = "verify"
      BY <1>2 DEF Verify
    <2>2. \/ Goto(p, "rename") /\ UNCHANGED temp
          \/ temp' = [temp EXCEPT ![p] = None]
      BY <1>2 DEF Verify
    <2> QED
      BY <1>a, <2>1, <2>2 DEF TypeOK
  <1>3. CASE Publish(p)
    BY <1>3, <1>a DEF Publish, TypeOK
  <1>4. CASE RemoveFolder(p) \/ RemoveTree(p)
    <2>1. op[p].pc \in {"folder", "tree"}
      BY <1>4 DEF RemoveFolder, RemoveTree
    <2>2. \E S, stay : RemoveAll(Place, S, stay)
      BY <1>4 DEF RemoveFolder, RemoveTree
    <2>3. \A q \in Proc : temp'[q] \in {temp[q], None}
      BY <2>2, PlaceType, RemoveAllEffect
    <2> QED
      BY <1>a, <1>b, <2>1, <2>3
  <1>6. CASE MoveEntry(p) \/ UndoEntry(p)
    <2>1. op[p].kind = "move" /\ op[p].pc \in {"move", "undo"}
          /\ op[p].from \in Base /\ op[p].base \in Base /\ op[p].from # op[p].base
      BY <1>6, MoveEntryEffect, UndoEntryEffect
    <2>2. \A q \in Proc : temp[q] = None
      BY <2>1, NoTemps
    <2>3. \/ UNCHANGED disk
          \/ \E e \in Entries(op[p].from) : Rename(e, op[p].from, op[p].base)
          \/ \E e \in Entries(op[p].base) : Rename(e, op[p].base, op[p].from)
      BY <1>6, MoveEntryEffect, UndoEntryEffect
    <2>4. temp' = temp
      BY <2>1, <2>2, <2>3, RenameEffect DEF disk
    <2> QED
      BY <1>a, <2>2, <2>4
  <1>7. CASE /\ ~MakeTemp(p) /\ ~Verify(p) /\ ~Publish(p) /\ ~RemoveFolder(p) /\ ~RemoveTree(p)
             /\ ~MoveEntry(p) /\ ~UndoEntry(p)
    <2>1. temp' = temp /\ op[p].pc \notin {"verify", "rename"}
      BY <1>7 DEF Acquire, Step, ObjectStep, BucketStep, MakeDirs, SaveRow, DropRow, Unlink,
           Prune, ListPrefix, PickKey, InsertBucket, Register, MakeRoot, Revoke, Unregister,
           TryLock, CountRows, DropBucket, Forget, Prepare, RecordPlace, FailMove, SwitchPlace,
           ClearOld, EndUndo, disk
    <2> QED
      BY <1>a, <1>b, <2>1
  <1> QED
    BY <1>1, <1>2, <1>3, <1>4, <1>6, <1>7

LEMMA BaseStep ==
  ASSUME TypeOK, Control, Exclusion, BaseInv, NEW p \in Proc, Acquire(p) \/ Step(p)
  PROVE  BaseInv'
  <1> DEFINE Writing == {"mkdir", "temp", "verify", "rename", "save"}
  <1>o. \A q \in Proc \ {p} : op'[q].pc = op[q].pc /\ op'[q].base = op[q].base
    BY ControlStep DEF Kept
  <1>0. op[p] \in Request /\ Consistent(op[p])
    BY DEF TypeOK, Control, Placed
  <1>1. op'[p].pc \in Writing => op'[p].base = Place
    <2>1. CASE Acquire(p)
      BY <2>1 DEF Acquire, TypeOK, Request
    <2>2. CASE MakeDirs(p) \/ MakeTemp(p) \/ Verify(p) \/ Publish(p)
      BY <2>2, GotoKeeps, ReturnEffect, NoOpFields DEF MakeDirs, MakeTemp, Verify, Publish, BaseInv
    <2>3. CASE Step(p) /\ ~MakeDirs(p) /\ ~MakeTemp(p) /\ ~Verify(p) /\ ~Publish(p)
      <3>1. ASSUME op'[p].pc \in Writing PROVE FALSE
        <4>1. op[p].pc \in Locked
          BY <2>3, <3>1, LockStep DEF Locked
        <4>2. SaveRow(p) \/ DropRow(p) \/ Unlink(p) \/ Prune(p)
          BY <2>3, <4>1 DEF Step, ObjectStep, BucketStep, ListPrefix, PickKey, RemoveFolder,
                  InsertBucket, Register, MakeRoot, Revoke, Unregister, TryLock, CountRows,
                  DropBucket, RemoveTree, Forget, Prepare, MoveEntry, RecordPlace, FailMove,
                  SwitchPlace, ClearOld, UndoEntry, EndUndo, Locked
        <4>3. op'[p].pc \in {"idle", "unlink", "next", "prune"}
          <5>1. CASE SaveRow(p)
            BY <5>1, NoOpFields DEF SaveRow
          <5>2. CASE DropRow(p) \/ Prune(p)
            BY <5>2, GotoKeeps, NextKeyKeeps, NoOpFields DEF DropRow, Prune
          <5>3. CASE Unlink(p)
            BY <5>3, NextKeyKeeps, NoOpFields DEF Unlink, TypeOK, Request
          <5> QED
            BY <4>2, <5>1, <5>2, <5>3
        <4> QED
          BY <3>1, <4>3
      <3> QED
        BY <3>1
    <2> QED
      BY <2>1, <2>2, <2>3
  <1>2. CASE custom' = custom
    BY <1>1, <1>2, <1>o DEF BaseInv, Place
  <1>3. CASE custom' # custom
    <2>1. op[p].pc \in {"register", "unregister", "forget", "switch"}
      BY <1>3 DEF Acquire, Step, ObjectStep, BucketStep, MakeDirs, MakeTemp, Verify, Publish,
           SaveRow, DropRow, Unlink, Prune, ListPrefix, PickKey, RemoveFolder, InsertBucket,
           Register, MakeRoot, Revoke, Unregister, TryLock, CountRows, DropBucket, RemoveTree,
           Forget, Prepare, MoveEntry, RecordPlace, FailMove, SwitchPlace, ClearOld, UndoEntry,
           EndUndo
    <2>2. op[p].kind \in {"create", "move"} \cup Drops
      BY <1>0, <2>1, KindsOfSteps
    <2>3. ASSUME NEW q \in Proc PROVE op'[q].pc \notin Writing
      <3>1. op[q].kind # "put"
        BY <2>2 DEF Exclusion, Drops
      <3>2. op'[q].kind # "put"
        BY <3>1, ControlStep, NoOpFields DEF Kept, GoesOn
      <3>3. op'[q] \in Request /\ Consistent(op'[q])
        <4>1. TypeOK' /\ Control'
          BY TypeObject, TypeBucket, ControlHolds DEF Control, Act, Step
        <4> QED
          BY <4>1 DEF TypeOK, Control, Placed
      <3> QED
        BY <3>2, <3>3, KindsOfSteps
    <2> QED
      BY <2>3 DEF BaseInv
  <1> QED
    BY <1>2, <1>3

\* Steps that leave files and directories alone.
LEMMA FilesStay ==
  ASSUME NEW p, Acquire(p) \/ Step(p), file' # file \/ sub' # sub
  PROVE  \/ MakeDirs(p) \/ Publish(p) \/ Unlink(p) \/ Prune(p) \/ RemoveFolder(p)
         \/ RemoveTree(p) \/ MoveEntry(p) \/ UndoEntry(p)
  BY DEF Acquire, Step, ObjectStep, BucketStep, MakeTemp, Verify, SaveRow, DropRow,
         ListPrefix, PickKey, InsertBucket, Register, MakeRoot, Revoke, Unregister, TryLock,
         CountRows, DropBucket, Forget, Prepare, RecordPlace, FailMove, SwitchPlace, ClearOld,
         EndUndo, disk

\* A move's step on its files: nothing, or one entry from one of its directories to the other.
LEMMA MoveRename ==
  ASSUME TypeOK, Control, Exclusion, TempInv, NEW p \in Proc, MoveEntry(p) \/ UndoEntry(p)
  PROVE  /\ op[p].kind = "move" /\ \A q \in Proc : temp[q] = None
         /\ \/ UNCHANGED disk
            \/ \E b, c \in Base : \E e \in Entries(b) :
                 /\ {b, c} = {op[p].from, op[p].base} /\ b # c /\ Rename(e, b, c)
  <1>1. op[p].kind = "move"
        /\ op[p].from \in Base /\ op[p].base \in Base /\ op[p].from # op[p].base
    BY MoveEntryEffect, UndoEntryEffect
  <1>2. \A q \in Proc : temp[q] = None
    BY <1>1, NoTemps
  <1>3. \/ UNCHANGED disk
        \/ \E e \in Entries(op[p].from) : Rename(e, op[p].from, op[p].base)
        \/ \E e \in Entries(op[p].base) : Rename(e, op[p].base, op[p].from)
    BY MoveEntryEffect, UndoEntryEffect
  <1> QED
    BY <1>1, <1>2, <1>3

LEMMA SubStep ==
  ASSUME TypeOK, Control, Exclusion, TempInv, SubInv, NEW p \in Proc, Acquire(p) \/ Step(p)
  PROVE  SubInv'
  <1> USE PlaceType, NoneAssumption
  <1>0. op[p] \in Request /\ Consistent(op[p])
    BY DEF TypeOK, Control, Placed
  <1>t. \A q \in Proc : temp[q] # None => temp[q] \in Base
    BY DEF TypeOK
  <1>k. \A q \in Proc : temp'[q] # None => op'[q].key = op[q].key
    <2>1. SUFFICES ASSUME temp'[p] # None PROVE op'[p].key = op[p].key
      BY ControlStep DEF Kept
    <2>2. op'[p].pc \in {"verify", "rename"}
      BY <2>1, TempStep DEF TempInv
    <2>3. ~Acquire(p)
      BY <2>2 DEF Acquire, TypeOK, Request
    <2> QED
      BY <2>2, <2>3, LockStep DEF Locked
  <1>m. \A q \in Proc : temp'[q] # None => temp'[q] = temp[q] \/ (q = p /\ MakeTemp(p))
    BY TempStep
  <1>a. ASSUME file' = file, sub' = sub PROVE SubInv'
    <2>1. CASE MakeTemp(p)
      <3>1. temp'[p] # None => temp'[p] = op[p].base
                               /\ (op[p].key \in InDir => sub[op[p].base])
        BY <2>1, TempStep DEF MakeTemp, TypeOK, TempInv
      <3> QED
        BY <1>a, <1>k, <1>m, <3>1 DEF SubInv
    <2>2. CASE ~MakeTemp(p)
      BY <1>a, <1>k, <1>m, <2>2 DEF SubInv
    <2> QED
      BY <2>1, <2>2
  <1>n. op[p].kind \in {"create", "move", "prefix"} \cup Drops => \A q \in Proc : temp'[q] = None
    <2>1. SUFFICES ASSUME op[p].kind \in {"create", "move", "prefix"} \cup Drops
                   PROVE  \A q \in Proc : temp'[q] = None
      OBVIOUS
    <2>2. \A q \in Proc : temp[q] = None /\ op[q].kind # "put"
      BY <2>1, NoTemps
    <2>3. ~MakeTemp(p)
      BY <1>0, <2>2, KindsOfSteps DEF MakeTemp
    <2> QED
      BY <1>m, <2>2, <2>3
  <1>y. ASSUME NEW S, NEW stay, InSub(Place) \subseteq S, RemoveAll(Place, S, stay),
               \A q \in Proc : temp'[q] = None
        PROVE  SubInv'
    <2>1. ASSUME NEW b \in Base, NEW k \in InDir, file'[b][k] # None PROVE sub'[b]
      <3>0. k \in Key
        BY PlaceAssumption
      <3>1. CASE b # Place
        BY <1>y, <2>1, <3>1, RemoveAllEffect DEF SubInv
      <3>2. CASE b = Place
        <4>1. file'[Place][k] = IF k \in S \ stay THEN None ELSE file[Place][k]
          BY <1>y, <3>0, RemoveAllEffect
        <4>2. file[Place][k] # None /\ k \notin S \ stay
          BY <2>1, <3>2, <4>1
        <4>3. k \in InSub(Place) \cap stay
          BY <1>y, <4>2 DEF InSub
        <4>4. sub' = sub
          BY <1>y, <4>3, RemoveAllEffect
        <4> QED
          BY <2>1, <3>2, <4>2, <4>4 DEF SubInv
      <3> QED
        BY <3>1, <3>2
    <2> QED
      BY <1>y, <2>1 DEF SubInv
  <1>1. CASE MakeDirs(p)
    <2>1. file' = file /\ \A b \in Base : sub[b] => sub'[b]
      BY <1>1 DEF MakeDirs, TypeOK
    <2>2. \A q \in Proc : temp'[q] = temp[q]
      BY <1>1 DEF MakeDirs
    <2> QED
      BY <1>k, <1>t, <2>1, <2>2 DEF SubInv
  <1>2. CASE Publish(p)
    <2>1. \A b \in Base, k \in Key :
            file'[b][k] = file[b][k] \/ (b = temp[p] /\ k = op[p].key /\ temp[p] # None)
      <3>0. op[p].base \in Base /\ op[p].key \in Key
        BY <1>0, <1>2, KindsOfSteps DEF Publish, Consistent
      <3> QED
        BY <1>2, <3>0 DEF Publish, TypeOK
    <2>2. sub' = sub /\ \A q \in Proc : temp'[q] \in {temp[q], None}
      BY <1>2 DEF Publish, TypeOK
    <2>3. InDir \subseteq Key
      BY PlaceAssumption
    <2> QED
      BY <1>k, <2>1, <2>2, <2>3 DEF SubInv
  <1>3. CASE Unlink(p)
    <2>1. \A b \in Base, k \in Key : file'[b][k] # None => file'[b][k] = file[b][k]
      BY <1>3 DEF Unlink, TypeOK
    <2>2. sub' = sub /\ temp' = temp
      BY <1>3 DEF Unlink
    <2>3. InDir \subseteq Key
      BY PlaceAssumption
    <2> QED
      BY <1>k, <2>1, <2>2, <2>3 DEF SubInv
  <1>4. CASE Prune(p)
    <2>1. file' = file /\ temp' = temp
      BY <1>4 DEF Prune
    <2>2. \A b \in Base : sub[b] => sub'[b] \/ (b = op[p].base /\ InSub(b) = {})
      BY <1>4 DEF Prune, TypeOK
    <2>3. \A b \in Base : InSub(b) = {} =>
            /\ \A k \in InDir : file[b][k] = None
            /\ \A q \in Proc : temp[q] = b => op[q].key \notin InDir
      BY DEF InSub
    <2> QED
      BY <1>k, <1>t, <2>1, <2>2, <2>3 DEF SubInv
  <1>5. CASE RemoveFolder(p)
    <2>1. op[p].kind = "prefix"
      BY <1>0, <1>5, KindsOfSteps DEF RemoveFolder
    <2>2. PICK stay \in SUBSET InSub(Place) : RemoveAll(Place, InSub(Place), stay)
      BY <1>5 DEF RemoveFolder
    <2> QED
      BY <1>n, <1>y, <2>1, <2>2
  <1>6. CASE RemoveTree(p)
    <2>1. op[p].kind \in Drops
      BY <1>0, <1>6, KindsOfSteps DEF RemoveTree
    <2>2. PICK stay \in SUBSET InTree(Place) : RemoveAll(Place, InTree(Place), stay)
      BY <1>6 DEF RemoveTree
    <2>3. InSub(Place) \subseteq InTree(Place)
      BY PlaceAssumption DEF InSub, InTree
    <2> QED
      BY <1>n, <1>y, <2>1, <2>2, <2>3
  <1>7. CASE MoveEntry(p) \/ UndoEntry(p)
    <2>1. op[p].kind = "move" /\ \A q \in Proc : temp[q] = None
      BY <1>7, MoveRename
    <2>2. CASE UNCHANGED disk
      BY <1>a, <2>2 DEF disk
    <2>3. CASE \E b, c \in Base : \E e \in Entries(b) : b # c /\ Rename(e, b, c)
      <3>1. PICK b \in Base, c \in Base : \E e \in Entries(b) : b # c /\ Rename(e, b, c)
        BY <2>3
      <3>2. PICK e \in Entries(b) : b # c /\ Rename(e, b, c)
        BY <3>1
      <3>3. /\ \A k \in Key : file'[c][k] = IF EntryOf(k) = e THEN file[b][k] ELSE file[c][k]
            /\ \A k \in Key : file'[b][k] = IF EntryOf(k) = e THEN None ELSE file[b][k]
            /\ \A a \in Base \ {b, c} : file'[a] = file[a]
            /\ sub' = IF e = "dir" THEN [sub EXCEPT ![b] = FALSE, ![c] = TRUE] ELSE sub
        BY <2>1, <3>2, RenameEffect
      <3>4. \A k \in InDir : k \in Key /\ EntryOf(k) = "dir"
        BY EntryTypes, PlaceAssumption
      <3>5. ASSUME NEW a \in Base, NEW k \in InDir, file'[a][k] # None PROVE sub'[a]
        <4>1. CASE e = "dir"
          <5>1. sub' = [sub EXCEPT ![b] = FALSE, ![c] = TRUE]
            BY <3>3, <4>1
          <5>2. sub'[c] /\ \A x \in Base \ {b, c} : sub'[x] = sub[x]
            BY <3>2, <5>1 DEF TypeOK
          <5>3. a # b
            BY <3>3, <3>4, <3>5, <4>1
          <5>4. CASE a = c
            BY <5>2, <5>4
          <5>5. CASE a # c
            <6>1. file[a][k] # None
              BY <3>3, <3>5, <5>3, <5>5
            <6>2. sub[a]
              BY <6>1 DEF SubInv
            <6> QED
              BY <5>2, <5>3, <5>5, <6>2
          <5> QED
            BY <5>4, <5>5
        <4>2. CASE e # "dir"
          BY <3>3, <3>4, <3>5, <4>2 DEF SubInv
        <4> QED
          BY <4>1, <4>2
      <3> QED
        BY <1>n, <2>1, <3>5 DEF SubInv
    <2> QED
      BY <1>7, <2>2, <2>3, MoveRename
  <1> QED
    BY <1>a, <1>1, <1>2, <1>3, <1>4, <1>5, <1>6, <1>7, FilesStay

-----------------------------------------------------------------------------
(* A prefix delete lists twice, so that it has deleted every row by its end. *)

NoFolder == \A k \in InDir : rows[k] = None

\* Every row below the directory is still to be deleted by request r.
Covered(r) ==
  \A k \in InDir : rows[k] # None => k \in r.todo \/ (r.key = k /\ r.pc \in {"lock", "row"})

Sweeps(r) ==
  /\ r.pc = "list" /\ r.pass = 1 /\ faults < 1 => NoFolder
  /\ r.pc \notin {"list", "folder"} /\ r.pass = 1 /\ faults < 1 => Covered(r)
  /\ r.pass = 2 => Covered(r) /\ (faults < 1 => NoFolder)
  /\ r.pc = "folder" => NoFolder

PrefixInv == \A p \in Proc : op[p].kind = "prefix" => Sweeps(op[p])

\* A step counts at most one failure, and forgets none that was logged.
LEMMA BoundsStep ==
  ASSUME TypeOK, NEW p \in Proc, Acquire(p) \/ Step(p)
  PROVE  /\ faults' \in {faults, faults + 1} /\ crashes' = crashes
         /\ ignored \subseteq ignored'
  <1>1. NoFault \/ Fault \/ \E kind : Ignore(kind)
    <2>1. CASE RemoveFolder(p) \/ RemoveTree(p)
      BY <2>1 DEF RemoveFolder, RemoveTree, RemoveAll
    <2>2. CASE ~RemoveFolder(p) /\ ~RemoveTree(p)
      BY <2>2 DEF Acquire, Step, ObjectStep, BucketStep, MakeDirs, MakeTemp, Verify, Publish,
             SaveRow, DropRow, Unlink, Prune, ListPrefix, PickKey, InsertBucket, Register,
             MakeRoot, Revoke, Unregister, TryLock, CountRows, DropBucket, Forget, Prepare,
             MoveEntry, RecordPlace, FailMove, SwitchPlace, ClearOld, UndoEntry, EndUndo, NoFault
    <2> QED
      BY <2>1, <2>2
  <1> QED
    BY <1>1, BoundsType

\* Rows appear only when an upload saves one.
LEMMA RowsGo ==
  ASSUME TypeOK, NEW p \in Proc, Acquire(p) \/ Step(p), ~SaveRow(p)
  PROVE  /\ \A k \in Key : rows'[k] # None => rows'[k] = rows[k]
         /\ faults' \in {faults, faults + 1}
  <1>0. faults' \in {faults, faults + 1}
    BY BoundsStep
  <1>1. CASE DropRow(p)
    BY <1>0, <1>1 DEF DropRow, TypeOK
  <1>2. CASE Revoke(p) \/ DropBucket(p)
    BY <1>0, <1>2 DEF Revoke, DropBucket, TypeOK
  <1>3. CASE ~DropRow(p) /\ ~Revoke(p) /\ ~DropBucket(p)
    <2>1. rows' = rows
      BY <1>3 DEF Acquire, Step, ObjectStep, BucketStep, MakeDirs, MakeTemp, Verify, Publish,
             Unlink, Prune, ListPrefix, PickKey, RemoveFolder, InsertBucket, Register,
             MakeRoot, Unregister, TryLock, CountRows, RemoveTree, Forget, Prepare, MoveEntry,
             RecordPlace, FailMove, SwitchPlace, ClearOld, UndoEntry, EndUndo, table
    <2> QED
      BY <1>0, <2>1
  <1> QED
    BY <1>1, <1>2, <1>3

LEMMA PrefixStep ==
  ASSUME Apart, TypeOK, Control, Exclusion, BucketInv, PrefixInv, NEW p \in Proc,
         Acquire(p) \/ Step(p)
  PROVE  PrefixInv'
  <1> USE PlaceAssumption
  <1>0. op[p] \in Request /\ Consistent(op[p]) /\ Knows(op[p])
    BY DEF TypeOK, Control, Placed, BucketInv
  <1>o. \A q \in Proc \ {p} : Kept(q)
    BY ControlStep
  <1>f. faults \in Nat
    BY DEF TypeOK
  <1>1. CASE \E q \in Proc : op[q].kind = "put"
    <2>1. \A q \in Proc : op[q].kind # "prefix"
      BY <1>1 DEF Exclusion
    <2>2. \A q \in Proc : op'[q].kind # "prefix"
      BY <2>1, ControlStep, NoOpFields DEF Kept, GoesOn
    <2> QED
      BY <2>2 DEF PrefixInv
  <1>2. CASE \A q \in Proc : op[q].kind # "put"
    <2>0. ~SaveRow(p)
      BY <1>0, <1>2, KindsOfSteps DEF SaveRow
    <2>1. /\ \A k \in InDir : rows'[k] # None => rows[k] # None
          /\ faults' \in {faults, faults + 1}
      BY <2>0, RowsGo
    <2>2. faults' < 1 => faults' = faults
      BY <1>f, <2>1
    <2>g. NoFolder => NoFolder'
      BY <2>1 DEF NoFolder
    <2>3. ASSUME NEW q \in Proc \ {p}, op'[q].kind = "prefix" PROVE Sweeps(op[q])'
      <3>1. /\ op'[q].pc = op[q].pc /\ op'[q].pass = op[q].pass /\ op'[q].todo = op[q].todo
            /\ op'[q].key = op[q].key /\ op[q].kind = "prefix"
        BY <1>o, <2>3 DEF Kept
      <3>2. Sweeps(op[q])
        BY <3>1 DEF PrefixInv
      <3>3. Covered(op[q]) => Covered(op[q])'
        BY <2>1, <3>1 DEF Covered
      <3> QED
        BY <2>2, <2>g, <3>1, <3>2, <3>3 DEF Sweeps
    <2>4. ASSUME op'[p].kind = "prefix" PROVE Sweeps(op[p])'
      <3>1. op[p].kind = "prefix" /\ Sweeps(op[p])
        BY <2>4, ControlStep, NoOpFields DEF GoesOn, PrefixInv
      <3>2. MaxFaults <= 1
        BY <1>0, <3>1 DEF Apart, Consistent
      <3>3. op[p].pass \in {0, 1, 2} /\ (op[p].pc # "list" => op[p].pass \in {1, 2})
            /\ (op[p].pc = "list" => op[p].pass \in {0, 1})
        BY <1>0, <3>1 DEF Consistent
      <3>4. op[p].pc \in {"list", "next", "lock", "row", "unlink", "prune", "folder"}
        BY <1>0, <3>1, StepsOfKinds DEF Consistent
      <3>5. Acquire(p) \/ DropRow(p) \/ Unlink(p) \/ Prune(p) \/ ListPrefix(p) \/ PickKey(p)
            \/ RemoveFolder(p)
        BY <3>4 DEF Step, ObjectStep, BucketStep, MakeDirs, MakeTemp, Verify, Publish, SaveRow,
             InsertBucket, Register, MakeRoot, Revoke, Unregister, TryLock, CountRows,
             DropBucket, RemoveTree, Forget, Prepare, MoveEntry, RecordPlace, FailMove,
             SwitchPlace, ClearOld, UndoEntry, EndUndo
      <3>u. ASSUME Covered(op[p]) => Covered(op[p])', op'[p].pass = op[p].pass,
                   op[p].pc \notin {"list", "folder"}, op'[p].pc \notin {"list", "folder"}
            PROVE  Sweeps(op[p])'
        BY <2>2, <2>g, <3>1, <3>u DEF Sweeps
      <3>6. CASE Acquire(p)
        <4>1. op'[p].pc = "row" /\ op[p].pc = "lock" /\ op'[p].pass = op[p].pass
              /\ op'[p].todo = op[p].todo /\ op'[p].key = op[p].key
          BY <3>1, <3>6 DEF Acquire, TypeOK, Request
        <4>2. Covered(op[p]) => Covered(op[p])'
          BY <2>1, <4>1 DEF Covered
        <4> QED
          BY <3>u, <4>1, <4>2
      <3>7. CASE DropRow(p)
        <4>1. op[p].pc = "row"
          BY <3>7 DEF DropRow
        <4>2. /\ op'[p].todo = op[p].todo /\ op'[p].pass = op[p].pass
              /\ op'[p].pc \in {"unlink", "next"}
          BY <2>4, <3>7, GotoKeeps, NextKeyKeeps, NoOpFields DEF DropRow
        <4>3. CASE rows' = IF Live(p) THEN [rows EXCEPT ![op[p].key] = None] ELSE rows
          <5>1. op[p].key \in InDir => rows'[op[p].key] = None
            BY <1>0, <3>1, <4>3 DEF Live, Knows, BucketInv, TypeOK
          <5>2. Covered(op[p]) => Covered(op[p])'
            BY <2>1, <4>2, <5>1 DEF Covered
          <5> QED
            BY <3>u, <4>1, <4>2, <5>2
        <4>4. CASE Fault /\ UNCHANGED rows
          <5>1. faults' = faults + 1 /\ faults < 1 /\ MaxFaults \in Nat
            BY <1>f, <3>2, <4>4, BoundAssumption DEF Fault
          <5>2. ~(faults' < 1)
            BY <1>f, <5>1
          <5>3. op[p].pass = 2 => NoFolder'
            BY <2>g, <3>1, <5>1 DEF Sweeps
          <5>4. NoFolder' => Covered(op[p])'
            BY DEF NoFolder, Covered
          <5> QED
            BY <4>2, <5>2, <5>3, <5>4 DEF Sweeps
        <4> QED
          BY <3>7, <4>3, <4>4 DEF DropRow
      <3>8. CASE Unlink(p) \/ Prune(p)
        <4>1. /\ op'[p].todo = op[p].todo /\ op'[p].pass = op[p].pass
              /\ op[p].pc \in {"unlink", "prune"} /\ op'[p].pc \in {"prune", "next"}
          <5>1. CASE Unlink(p)
            <6>1. CASE NextKey(p)
              BY <2>4, <5>1, <6>1, NextKeyKeeps, NoOpFields DEF Unlink
            <6>2. CASE ~NextKey(p)
              BY <5>1, <6>2 DEF Unlink, TypeOK, Request
            <6> QED
              BY <6>1, <6>2
          <5>2. CASE Prune(p)
            BY <2>4, <5>2, NextKeyKeeps, NoOpFields DEF Prune
          <5> QED
            BY <3>8, <5>1, <5>2
        <4>2. Covered(op[p]) => Covered(op[p])'
          BY <2>1, <4>1 DEF Covered
        <4> QED
          BY <3>u, <4>1, <4>2
      <3>9. CASE ListPrefix(p)
        <4> DEFINE found == IF Live(p) THEN Stored \cap InDir ELSE {}
        <4>1. /\ op'[p] = [op[p] EXCEPT !.todo = found, !.pass = @ + 1, !.pc = "next"]
              /\ rows' = rows /\ op[p].pc = "list" /\ faults' = faults
          BY <3>9 DEF ListPrefix, TypeOK, table, bounds
        <4>2. \A k \in InDir : rows[k] # None => k \in found
          BY <1>0, <3>1 DEF Live, Knows, BucketInv, Stored
        <4> HIDE DEF found
        <4>3. op'[p].todo = found /\ op'[p].pass = op[p].pass + 1 /\ op'[p].pc = "next"
          BY <1>0, <4>1 DEF Request
        <4>4. Covered(op[p])'
          BY <4>1, <4>2, <4>3 DEF Covered
        <4>5. op'[p].pass = 2 => op[p].pass = 1
          BY <3>3, <4>3
        <4>6. op'[p].pass = 2 /\ faults < 1 => NoFolder'
          BY <2>g, <3>1, <4>1, <4>5 DEF Sweeps
        <4> QED
          BY <4>1, <4>3, <4>4, <4>6 DEF Sweeps
      <3>10. CASE PickKey(p)
        <4>0. op[p].pc = "next" /\ rows' = rows /\ faults' = faults
          BY <3>10 DEF PickKey, table, bounds
        <4>1. CASE op[p].todo = {}
          <5>1. Covered(op[p]) => NoFolder
            BY <4>0, <4>1 DEF Covered, NoFolder
          <5>2. Goto(p, IF op[p].pass = 1 THEN "list" ELSE "folder")
            BY <3>10, <4>1 DEF PickKey
          <5>3. op'[p].pc = (IF op[p].pass = 1 THEN "list" ELSE "folder")
                /\ op'[p].pass = op[p].pass
            BY <5>2, GotoKeeps
          <5>4. CASE op[p].pass = 1
            <6>1. op'[p].pc = "list" /\ op'[p].pass = 1
              BY <5>3, <5>4
            <6>2. faults < 1 => NoFolder
              BY <3>1, <4>0, <5>1, <5>4 DEF Sweeps
            <6> QED
              BY <2>g, <4>0, <6>1, <6>2 DEF Sweeps
          <5>5. CASE op[p].pass = 2
            <6>1. op'[p].pc = "folder" /\ op'[p].pass = 2
              BY <5>3, <5>5
            <6>2. NoFolder
              BY <3>1, <5>1, <5>5 DEF Sweeps
            <6>3. NoFolder' => Covered(op[p])'
              BY DEF NoFolder, Covered
            <6> QED
              BY <2>g, <6>1, <6>2, <6>3 DEF Sweeps
          <5> QED
            BY <3>3, <4>0, <5>4, <5>5
        <4>2. CASE op[p].todo # {}
          <5>1. PICK k \in op[p].todo :
                  op' = [op EXCEPT ![p].key = k, ![p].todo = @ \ {k}, ![p].pc = "lock"]
            BY <3>10, <4>2 DEF PickKey
          <5>2. /\ op'[p].key = k /\ op'[p].todo = op[p].todo \ {k} /\ op'[p].pc = "lock"
                /\ op'[p].pass = op[p].pass
            BY <5>1 DEF TypeOK, Request
          <5>3. Covered(op[p]) => Covered(op[p])'
            BY <4>0, <5>2 DEF Covered
          <5> QED
            BY <3>u, <4>0, <5>2, <5>3
        <4> QED
          BY <4>1, <4>2
      <3>11. CASE RemoveFolder(p)
        BY <2>4, <3>11, ReturnEffect, NoOpFields DEF RemoveFolder
      <3> QED
        BY <3>5, <3>6, <3>7, <3>8, <3>9, <3>10, <3>11
    <2> QED
      BY <2>3, <2>4 DEF PrefixInv
  <1> QED
    BY <1>1, <1>2

-----------------------------------------------------------------------------
(* Files and rows. *)

\* Move p has taken the entry of key k to its new directory.
Moved(p, k) == op[p].pc \in {"move", "undo"} /\ EntryOf(k) \in op[p].moved

\* Every row has its file: where the table says, or where a move has taken it.
Reach ==
  /\ \A k \in Key : rows[k] # None /\ (\A p \in Proc : ~Moved(p, k)) => file[Recorded][k] # None
  /\ \A p \in Proc, k \in Key : rows[k] # None /\ Moved(p, k) => file[op[p].base][k] # None
  /\ \A p \in Proc : op[p].pc = "save" => file[Place][op[p].key] # None
  /\ \A p \in Proc : op[p].pc = "unlink" => rows[op[p].key] = None

\* The file of k in b has a row that says so, or somebody is about to save or remove it.
Described(b, k) ==
  \/ rows[k] # None /\ b = Recorded /\ \A p \in Proc : ~Moved(p, k)
  \/ rows[k] # None /\ \E p \in Proc : Moved(p, k) /\ b = op[p].base
  \/ b = Place /\ \E p \in Proc : op[p].key = k /\ op[p].pc \in {"save", "unlink"}
  \/ b = Place /\ \E p \in Proc : op[p].pc = "tree"

NoFiles == \A b \in Base, k \in Key : file[b][k] = None

\* No crash has cut a request off, and no failure was only logged.
Clean == crashes = 0 /\ ignored = {}

\* Every file is described, as long as the run is clean.
Tidy ==
  Clean =>
    /\ \A b \in Base, k \in Key : file[b][k] # None => Described(b, k)
    /\ \A p \in Proc : op[p].pc = "forget" => NoFiles

\* A move has seen every entry, and can undo what it has moved.
Moving(r) ==
  /\ r.pc = "move" => \A k \in Key : rows[k] # None => EntryOf(k) \in r.todo \cup r.moved
  /\ r.pc \in {"move", "undo"} =>
       /\ r.moved \subseteq Entries(r.base)
       /\ "dir" \in r.moved => \A k \in InDir : file[r.from][k] = None

MoveInv == \A p \in Proc : op[p].kind = "move" => Moving(op[p])

\* Object requests run beside no move and no creation.
LEMMA NoMoves ==
  ASSUME TypeOK, Control, Exclusion, NEW p \in Proc, op[p].kind \notin {"none", "create", "move"}
  PROVE  /\ \A q \in Proc : op[q].kind \notin {"create", "move"} /\ op[q].moved = {}
         /\ \A q \in Proc : op[q].pc \notin {"register", "unregister", "switch", "move", "undo"}
         /\ \A q \in Proc : \A k : ~Moved(q, k)
  <1> SUFFICES ASSUME NEW q \in Proc
               PROVE  /\ op[q].kind \notin {"create", "move"} /\ op[q].moved = {}
                      /\ op[q].pc \notin {"register", "unregister", "switch", "move", "undo"}
    BY DEF Moved
  <1>1. op[q] \in Request /\ Consistent(op[q])
    BY DEF TypeOK, Control, Placed
  <1>2. op[q].kind \notin {"create", "move"}
    BY DEF Exclusion
  <1>3. op[q].pc \notin {"register", "unregister", "switch", "move", "clear", "undo"}
    BY <1>1, <1>2, KindsOfSteps
  <1> QED
    BY <1>1, <1>2, <1>3 DEF Consistent

LEMMA MapIsRight ==
  ASSUME TypeOK, custom = Dir PROVE Place = Recorded
  BY DEF Place, Recorded, Dir

\* Beside an object request the map is right as long as the bucket is there.
LEMMA MapBesideObjects ==
  ASSUME TypeOK, Control, Exclusion, BucketInv, MapInv, NEW p \in Proc,
         op[p].kind \notin {"none", "create", "move"}, bucket # None
  PROVE  Place = Recorded
  <1>1. \A q \in Proc : op[q].pc \notin Between
    BY NoMoves DEF BucketInv, Knows, Between
  <1> QED
    BY <1>1, MapIsRight DEF MapInv

Files == Reach /\ Tidy

LEMMA FilesObject ==
  ASSUME TypeOK, Control, Exclusion, Mutex, BucketInv, MapInv, BaseInv, TempInv, PrefixInv, Files,
         NEW p \in Proc, Acquire(p) \/ ObjectStep(p)
  PROVE  Files'
  <1> USE PlaceAssumption, NoneAssumption
  <1>0. op[p] \in Request /\ Consistent(op[p]) /\ Knows(op[p])
    BY DEF TypeOK, Control, Placed, BucketInv
  <1>k. op[p].kind \in {"put", "delete", "prefix"} /\ op[p].pc \notin Between
    BY ObjectKinds
  <1>o. \A q \in Proc \ {p} : /\ op'[q].pc = op[q].pc /\ op'[q].key = op[q].key
                              /\ op'[q].kind = op[q].kind /\ op'[q].moved = op[q].moved
    BY ControlStep DEF Kept, Step
  <1>p. op'[p] \in Request /\ Consistent(op'[p]) /\ op'[p].kind \in {"none", op[p].kind}
    <2>1. TypeOK'
      BY TypeObject DEF Control
    <2> QED
      BY <2>1, ControlStep, NoOpFields DEF Step, GoesOn, Placed, TypeOK
  <1>l. op'[p].pc \in {"save", "unlink"} => op'[p].key = op[p].key /\ ~Acquire(p)
    <2>1. ~Acquire(p) => Step(p)
      BY DEF Step
    <2>2. ASSUME Acquire(p) PROVE op'[p].pc \in {"mkdir", "row"}
      BY <2>2 DEF Acquire, TypeOK, Request
    <2> QED
      BY <2>1, <2>2, LockStep DEF Locked
  <1>n. /\ \A q \in Proc : \A k : ~Moved(q, k)
        /\ \A q \in Proc : \A k : ~Moved(q, k)'
    <2>1. \A q \in Proc : \A k : ~Moved(q, k)
      BY <1>k, NoMoves
    <2>2. op'[p].pc \notin {"move", "undo"}
      BY <1>k, <1>p, KindsOfSteps
    <2> QED
      BY <1>o, <2>1, <2>2 DEF Moved
  <1>u. bucket' = bucket /\ Place' = Place /\ Recorded' = Recorded
    BY DEF Acquire, ObjectStep, MakeDirs, MakeTemp, Verify, Publish, SaveRow, DropRow, Unlink,
           Prune, ListPrefix, PickKey, RemoveFolder, table, Place, Recorded
  <1>e. bucket # None => Place = Recorded
    BY <1>k, MapBesideObjects
  <1>b. Place \in Base /\ Recorded \in Base
    BY PlaceType
  <1>r. /\ \A k \in Key : rows[k] # None => file[Recorded][k] # None
        /\ \A q \in Proc : op[q].pc = "save" => file[Place][op[q].key] # None
        /\ \A q \in Proc : op[q].pc = "unlink" => rows[op[q].key] = None
    BY <1>n DEF Files, Reach
  <1> DEFINE Explained(b, k) ==
               \/ rows[k] # None /\ b = Recorded
               \/ b = Place /\ \E q \in Proc : op[q].key = k /\ op[q].pc \in {"save", "unlink"}
               \/ b = Place /\ \E q \in Proc : op[q].pc = "tree"
  <1>c. Clean' => Clean
    BY BoundsStep DEF Step, Clean
  <1>s. Clean' => /\ \A b \in Base, k \in Key : file[b][k] # None => Explained(b, k)
                 /\ \A q \in Proc : op[q].pc = "forget" => NoFiles
    BY <1>c, <1>n DEF Files, Tidy, Described
  <1>f. op'[p].pc \notin {"tree", "forget"}
    BY <1>k, <1>p, KindsOfSteps DEF Drops
  <1>R. ASSUME /\ \A k \in Key : rows'[k] # None => file'[Recorded][k] # None
               /\ \A q \in Proc : op'[q].pc = "save" => file'[Place][op'[q].key] # None
               /\ \A q \in Proc : op'[q].pc = "unlink" => rows'[op'[q].key] = None
        PROVE  Reach'
    BY <1>R, <1>n, <1>u DEF Reach
  <1>S. ASSUME \A b \in Base, k \in Key : file'[b][k] # None /\ Clean' => Explained(b, k)',
               \A b \in Base, k \in Key, q \in Proc \ {p} :
                 op[q].pc = "forget" /\ Clean' => file'[b][k] = None
        PROVE  Tidy'
    <2>1. \A b \in Base, k \in Key : Explained(b, k)' => Described(b, k)'
      BY <1>n, <1>u DEF Described
    <2>2. \A q \in Proc : op'[q].pc = "forget" /\ Clean' => NoFiles'
      BY <1>S, <1>f, <1>o DEF NoFiles
    <2> HIDE DEF Explained
    <2> QED
      BY <1>S, <1>c, <2>1, <2>2 DEF Tidy
  <1>i. ASSUME file' = file, rows' = rows, op[p].pc \notin {"save", "unlink"},
               op'[p].pc \notin {"save", "unlink"}
        PROVE  Files'
    <2>1. Reach'
      BY <1>R, <1>i, <1>o, <1>r
    <2>2. Tidy'
      <3>1. ASSUME NEW b \in Base, NEW k \in Key, Explained(b, k) PROVE Explained(b, k)'
        BY <1>i, <1>k, <1>o, <1>u, <3>1 DEF Between
      <3> HIDE DEF Explained
      <3> QED
        BY <1>S, <1>i, <1>s, <3>1 DEF NoFiles
    <2> QED
      BY <2>1, <2>2 DEF Files
  <1>1. CASE Acquire(p) \/ MakeDirs(p) \/ MakeTemp(p) \/ Verify(p) \/ Prune(p) \/ ListPrefix(p)
             \/ PickKey(p)
    <2>1. file' = file /\ rows' = rows /\ op[p].pc \notin {"save", "unlink"}
      BY <1>1 DEF Acquire, MakeDirs, MakeTemp, Verify, Prune, ListPrefix, PickKey, table, disk
    <2>2. op'[p].pc \notin {"save", "unlink"}
      <3>1. CASE MakeDirs(p) \/ MakeTemp(p) \/ Verify(p)
        BY <3>1, GotoKeeps, ReturnEffect, NoOpFields DEF MakeDirs, MakeTemp, Verify
      <3>2. CASE Prune(p)
        BY <3>2, NextKeyKeeps, NoOpFields DEF Prune
      <3>3. CASE ListPrefix(p)
        BY <3>3 DEF ListPrefix, TypeOK, Request
      <3>4. CASE PickKey(p)
        <4>1. CASE op[p].todo = {}
          BY <3>4, <4>1, GotoKeeps DEF PickKey
        <4>2. CASE op[p].todo # {}
          <5>1. PICK k \in op[p].todo :
                  op' = [op EXCEPT ![p].key = k, ![p].todo = @ \ {k}, ![p].pc = "lock"]
            BY <3>4, <4>2 DEF PickKey
          <5>2. op'[p].pc = "lock"
            BY <5>1 DEF TypeOK, Request
          <5> QED
            BY <5>2
        <4> QED
          BY <4>1, <4>2
      <3> QED
        BY <1>1, <1>l, <3>1, <3>2, <3>3, <3>4
    <2> QED
      BY <1>i, <2>1, <2>2
  <1>2. CASE Publish(p)
    <2>0. op[p].pc = "rename" /\ op[p].kind = "put" /\ op[p].base = Place /\ rows' = rows
          /\ op[p].key \in Key /\ op[p].content \in Content
      BY <1>0, <1>2, KindsOfSteps DEF Publish, BaseInv, Consistent, table
    <2>1. CASE Return(p) /\ UNCHANGED file
      BY <1>i, <2>0, <2>1, ReturnEffect, NoOpFields
    <2>2. CASE /\ temp[p] = op[p].base
               /\ file' = [file EXCEPT ![temp[p]][op[p].key] = op[p].content] /\ Goto(p, "save")
      <3>1. /\ file'[Place][op[p].key] = op[p].content
            /\ \A b \in Base, k \in Key : file'[b][k] = file[b][k] \/ (b = Place /\ k = op[p].key)
        BY <1>b, <2>0, <2>2 DEF TypeOK
      <3>2. op'[p].pc = "save" /\ op'[p].key = op[p].key
        BY <2>2, GotoKeeps
      <3>3. \A q \in Proc \ {p} : op[q].pc = "save" => op[q].key # op[p].key /\ op[q].key \in Key
        <4>1. SUFFICES ASSUME NEW q \in Proc \ {p}, op[q].pc = "save"
                       PROVE  op[q].key # op[p].key /\ op[q].key \in Key
          OBVIOUS
        <4>2. op[q] \in Request /\ Consistent(op[q])
          BY DEF TypeOK, Control, Placed
        <4>3. op[q].key \in Key
          BY <4>1, <4>2, KindsOfSteps DEF Consistent
        <4> QED
          BY <2>0, <4>1, <4>3 DEF Mutex, Locked
      <3>4. Reach'
        <4>1. \A k \in Key : rows'[k] # None => file'[Recorded][k] # None
          BY <1>b, <1>r, <2>0, <3>1
        <4>2. \A q \in Proc : op'[q].pc = "save" => file'[Place][op'[q].key] # None
          BY <1>b, <1>o, <1>r, <2>0, <3>1, <3>2, <3>3
        <4>3. \A q \in Proc : op'[q].pc = "unlink" => rows'[op'[q].key] = None
          BY <1>o, <1>r, <2>0, <3>2
        <4> QED
          BY <1>R, <4>1, <4>2, <4>3
      <3>5. Tidy'
        <4>1. ASSUME NEW b \in Base, NEW k \in Key, Explained(b, k) PROVE Explained(b, k)'
          BY <1>o, <1>u, <2>0, <4>1
        <4>2. ASSUME NEW b \in Base, NEW k \in Key, b = Place, k = op[p].key
              PROVE  Explained(b, k)'
          BY <1>u, <3>2, <4>2
        <4>3. \A q \in Proc \ {p} : op[q].pc # "forget"
          <5>1. SUFFICES ASSUME NEW q \in Proc \ {p} PROVE op[q].pc # "forget"
            OBVIOUS
          <5>2. op[q] \in Request /\ Consistent(op[q]) /\ op[q].kind \notin Drops
            BY <2>0 DEF TypeOK, Control, Placed, Exclusion, Drops
          <5> QED
            BY <5>2, KindsOfSteps
        <4> HIDE DEF Explained
        <4>4. ASSUME NEW b \in Base, NEW k \in Key, file'[b][k] # None, Clean'
              PROVE  Explained(b, k)'
          <5>1. CASE b = Place /\ k = op[p].key
            BY <4>2, <5>1
          <5>2. CASE ~(b = Place /\ k = op[p].key)
            BY <1>s, <3>1, <4>1, <4>4, <5>2
          <5> QED
            BY <5>1, <5>2
        <4>5. \A b \in Base, k \in Key, q \in Proc \ {p} :
                op[q].pc = "forget" /\ Clean' => file'[b][k] = None
          BY <4>3
        <4> QED
          BY <1>S, <4>4, <4>5
      <3> QED
        BY <3>4, <3>5 DEF Files
    <2> QED
      BY <1>2, <2>1, <2>2 DEF Publish
  <1>3. CASE SaveRow(p)
    <2>0. op[p].pc = "save" /\ op[p].kind = "put" /\ op[p].key \in Key /\ op[p].content \in Content
          /\ file' = file
      BY <1>0, <1>3, KindsOfSteps DEF SaveRow, Consistent, disk
    <2>1. Live(p) /\ Place = Recorded
      BY <1>0, <1>e, <2>0 DEF Knows, Live
    <2>2. rows' = [rows EXCEPT ![op[p].key] = op[p].content] /\ op'[p] = NoOp
      BY <1>3, <2>1 DEF SaveRow
    <2>3. \A k \in Key : rows'[k] = IF k = op[p].key THEN op[p].content ELSE rows[k]
      BY <2>0, <2>2 DEF TypeOK
    <2>4. \A q \in Proc \ {p} : op[q].pc = "unlink" => op[q].key # op[p].key /\ op[q].key \in Key
      <3>1. SUFFICES ASSUME NEW q \in Proc \ {p}, op[q].pc = "unlink"
                     PROVE  op[q].key # op[p].key /\ op[q].key \in Key
        OBVIOUS
      <3>2. op[q] \in Request /\ Consistent(op[q])
        BY DEF TypeOK, Control, Placed
      <3>3. op[q].key \in Key
        BY <3>1, <3>2, KindsOfSteps DEF Consistent
      <3> QED
        BY <2>0, <3>1, <3>3 DEF Mutex, Locked
    <2>5. Reach'
      <3>1. \A k \in Key : rows'[k] # None => file'[Recorded][k] # None
        BY <1>r, <2>0, <2>1, <2>3
      <3>2. \A q \in Proc : op'[q].pc = "save" => file'[Place][op'[q].key] # None
        BY <1>o, <1>r, <2>0, <2>2, NoOpFields
      <3>3. \A q \in Proc : op'[q].pc = "unlink" => rows'[op'[q].key] = None
        BY <1>o, <1>r, <2>2, <2>3, <2>4, NoOpFields
      <3> QED
        BY <1>R, <3>1, <3>2, <3>3
    <2>6. Tidy'
      <3>1. ASSUME NEW b \in Base, NEW k \in Key, Explained(b, k) PROVE Explained(b, k)'
        BY <1>k, <1>o, <1>u, <2>0, <2>1, <2>3, <3>1 DEF Between
      <3> HIDE DEF Explained
      <3> QED
        BY <1>S, <1>s, <2>0, <3>1 DEF NoFiles
    <2> QED
      BY <2>5, <2>6 DEF Files
  <1>4. CASE DropRow(p)
    <2>0. op[p].pc = "row" /\ op[p].key \in Key /\ file' = file
      BY <1>0, <1>4, KindsOfSteps DEF DropRow, Consistent, disk
    <2>1. CASE rows' = rows /\ NextKey(p)
      BY <1>i, <2>0, <2>1, NextKeyKeeps, NoOpFields
    <2>2. CASE rows' # rows /\ Goto(p, "unlink")
      <3>1. rows' = [rows EXCEPT ![op[p].key] = None] /\ bucket # None
        BY <1>4, <2>2 DEF DropRow, Live
      <3>2. \A k \in Key : rows'[k] = IF k = op[p].key THEN None ELSE rows[k]
        BY <2>0, <3>1 DEF TypeOK
      <3>3. op'[p].pc = "unlink" /\ op'[p].key = op[p].key
        BY <2>2, GotoKeeps
      <3>4. \A q \in Proc : op[q].pc = "unlink" => op[q].key \in Key
        <4>1. SUFFICES ASSUME NEW q \in Proc, op[q].pc = "unlink" PROVE op[q].key \in Key
          OBVIOUS
        <4>2. op[q] \in Request /\ Consistent(op[q])
          BY DEF TypeOK, Control, Placed
        <4> QED
          BY <4>1, <4>2, KindsOfSteps DEF Consistent
      <3>5. Reach'
        <4>1. \A k \in Key : rows'[k] # None => file'[Recorded][k] # None
          BY <1>r, <2>0, <3>2
        <4>2. \A q \in Proc : op'[q].pc = "save" => file'[Place][op'[q].key] # None
          BY <1>o, <1>r, <2>0, <3>3
        <4>3. \A q \in Proc : op'[q].pc = "unlink" => rows'[op'[q].key] = None
          BY <1>o, <1>r, <2>0, <3>2, <3>3, <3>4
        <4> QED
          BY <1>R, <4>1, <4>2, <4>3
      <3>6. Tidy'
        <4>1. ASSUME NEW b \in Base, NEW k \in Key, Explained(b, k) PROVE Explained(b, k)'
          BY <1>e, <1>o, <1>u, <2>0, <3>1, <3>2, <3>3, <4>1
        <4> HIDE DEF Explained
        <4> QED
          BY <1>S, <1>s, <2>0, <4>1 DEF NoFiles
      <3> QED
        BY <3>5, <3>6 DEF Files
    <2>3. CASE UNCHANGED rows /\ NextKey(p)
      BY <1>i, <2>0, <2>3, NextKeyKeeps, NoOpFields
    <2> QED
      BY <1>4, <2>1, <2>2, <2>3 DEF DropRow
  <1>5. CASE Unlink(p)
    <2>a. CASE Ignore("removal") /\ NextKey(p) /\ UNCHANGED file
      <3>1. op'[p].pc \notin {"save", "unlink"} /\ rows' = rows
        BY <1>5, <2>a, NextKeyKeeps, NoOpFields DEF Unlink, table
      <3>2. Reach'
        BY <1>R, <1>o, <1>r, <2>a, <3>1
      <3>3. ~Clean'
        BY <2>a DEF Clean, Ignore
      <3> QED
        BY <3>2, <3>3 DEF Files, Tidy
    <2> SUFFICES ASSUME ~(Ignore("removal") /\ NextKey(p) /\ UNCHANGED file) PROVE Files'
      BY <2>a
    <2>0. op[p].pc = "unlink" /\ op[p].key \in Key /\ rows' = rows
          /\ file' = [file EXCEPT ![Place][op[p].key] = None]
      BY <1>0, <1>5, KindsOfSteps DEF Unlink, Consistent, table
    <2>1. \A b \in Base, k \in Key :
            file'[b][k] = IF b = Place /\ k = op[p].key THEN None ELSE file[b][k]
      BY <1>b, <2>0 DEF TypeOK
    <2>2. op'[p].pc = "prune"
      BY <1>5 DEF Unlink, TypeOK, Request
    <2>3. \A q \in Proc \ {p} : op[q].pc = "save" => op[q].key # op[p].key /\ op[q].key \in Key
      <3>1. SUFFICES ASSUME NEW q \in Proc \ {p}, op[q].pc = "save"
                     PROVE  op[q].key # op[p].key /\ op[q].key \in Key
        OBVIOUS
      <3>2. op[q] \in Request /\ Consistent(op[q])
        BY DEF TypeOK, Control, Placed
      <3>3. op[q].key \in Key
        BY <3>1, <3>2, KindsOfSteps DEF Consistent
      <3> QED
        BY <2>0, <3>1, <3>3 DEF Mutex, Locked
    <2>4. Reach'
      <3>1. \A k \in Key : rows'[k] # None => file'[Recorded][k] # None
        BY <1>b, <1>r, <2>0, <2>1
      <3>2. \A q \in Proc : op'[q].pc = "save" => file'[Place][op'[q].key] # None
        BY <1>b, <1>o, <1>r, <2>1, <2>2, <2>3
      <3>3. \A q \in Proc : op'[q].pc = "unlink" => rows'[op'[q].key] = None
        BY <1>o, <1>r, <2>0, <2>2
      <3> QED
        BY <1>R, <3>1, <3>2, <3>3
    <2>5. Tidy'
      <3>1. ASSUME NEW b \in Base, NEW k \in Key, Explained(b, k), b # Place \/ k # op[p].key
            PROVE  Explained(b, k)'
        BY <1>k, <1>o, <1>u, <2>0, <3>1 DEF Between
      <3> HIDE DEF Explained
      <3>2. ASSUME NEW b \in Base, NEW k \in Key, file'[b][k] # None
            PROVE  file[b][k] # None /\ (b # Place \/ k # op[p].key)
        BY <2>1, <3>2
      <3>3. \A b \in Base, k \in Key, q \in Proc \ {p} :
              op[q].pc = "forget" /\ Clean' => file'[b][k] = None
        BY <1>s, <2>1 DEF NoFiles
      <3> QED
        BY <1>S, <1>s, <3>1, <3>2, <3>3
    <2> QED
      BY <2>4, <2>5 DEF Files
  <1>6. CASE RemoveFolder(p)
    <2>0. op[p].pc = "folder" /\ op[p].kind = "prefix" /\ rows' = rows /\ op'[p] = NoOp
      BY <1>0, <1>6, KindsOfSteps, ReturnEffect DEF RemoveFolder, table
    <2>1. \A b \in Base, k \in Key :
            file'[b][k] = file[b][k] \/ (b = Place /\ k \in InDir /\ file'[b][k] = None)
      <3>1. PICK stay \in SUBSET InSub(Place) : RemoveAll(Place, InSub(Place), stay)
        BY <1>6 DEF RemoveFolder
      <3>2. \A k \in Key : k \in InSub(Place) => k \in InDir
        BY NameAssumption DEF InSub
      <3> QED
        BY <1>b, <3>1, <3>2, RemoveAllEffect
    <2>2. \A k \in InDir : rows[k] = None
      BY <2>0 DEF PrefixInv, Sweeps, NoFolder
    <2>3. \A q \in Proc : op[q].pc # "save"
      <3>1. SUFFICES ASSUME NEW q \in Proc PROVE op[q].pc # "save"
        OBVIOUS
      <3>2. op[q] \in Request /\ Consistent(op[q]) /\ op[q].kind # "put"
        BY <2>0 DEF TypeOK, Control, Placed, Exclusion
      <3> QED
        BY <3>2, KindsOfSteps
    <2>4. Reach'
      <3>1. \A k \in Key : rows'[k] # None => file'[Recorded][k] # None
        BY <1>b, <1>r, <2>0, <2>1, <2>2
      <3>2. \A q \in Proc : op'[q].pc = "save" => file'[Place][op'[q].key] # None
        BY <1>o, <2>0, <2>3, NoOpFields
      <3>3. \A q \in Proc : op'[q].pc = "unlink" => rows'[op'[q].key] = None
        BY <1>o, <1>r, <2>0, NoOpFields
      <3> QED
        BY <1>R, <3>1, <3>2, <3>3
    <2>5. Tidy'
      <3>1. ASSUME NEW b \in Base, NEW k \in Key, Explained(b, k) PROVE Explained(b, k)'
        BY <1>k, <1>o, <1>u, <2>0, <3>1 DEF Between
      <3> HIDE DEF Explained
      <3>2. ASSUME NEW b \in Base, NEW k \in Key, file'[b][k] # None PROVE file[b][k] # None
        BY <2>1, <3>2
      <3>3. \A b \in Base, k \in Key, q \in Proc \ {p} :
              op[q].pc = "forget" /\ Clean' => file'[b][k] = None
        BY <1>s, <2>1 DEF NoFiles
      <3> QED
        BY <1>S, <1>s, <3>1, <3>2, <3>3
    <2> QED
      BY <2>4, <2>5 DEF Files
  <1> QED
    BY <1>1, <1>2, <1>3, <1>4, <1>5, <1>6 DEF ObjectStep

\* Beside a creation or a move nothing runs.
LEMMA Alone ==
  ASSUME TypeOK, Control, Exclusion, NEW p \in Proc, op[p].kind \in {"create", "move"}
  PROVE  \A q \in Proc \ {p} : op[q].kind = "none" /\ op[q].pc = "idle"
  <1> SUFFICES ASSUME NEW q \in Proc \ {p} PROVE op[q].kind = "none" /\ op[q].pc = "idle"
    OBVIOUS
  <1>1. op[q] \in Request /\ Consistent(op[q]) /\ op[q].kind = "none"
    BY DEF TypeOK, Control, Placed, Exclusion
  <1> QED
    BY <1>1, KindsOfSteps

LEMMA BucketStepType ==
  ASSUME TypeOK, Control, NEW p \in Proc, BucketStep(p)
  PROVE  /\ op'[p] \in Request /\ Consistent(op'[p]) /\ op'[p].kind \in {"none", op[p].kind}
         /\ \A q \in Proc \ {p} : Kept(q)
         /\ (Clean' => Clean)
         /\ op[p].pc \in {"insert", "register", "mkroot", "revoke", "unregister", "trylock", "count",
                          "drop", "tree", "forget", "prepare", "move", "switch", "clear", "undo"}
  <1>1. op[p].pc \in {"insert", "register", "mkroot", "revoke", "unregister", "trylock", "count",
                      "drop", "tree", "forget", "prepare", "move", "switch", "clear", "undo"}
    BY DEF BucketStep, InsertBucket, Register, MakeRoot, Revoke, Unregister, TryLock,
           CountRows, DropBucket, RemoveTree, Forget, Prepare, MoveEntry, RecordPlace,
           FailMove, SwitchPlace, ClearOld, UndoEntry, EndUndo
  <1>2. Clean' => Clean
    BY BoundsStep DEF Step, Clean
  <1>3. TypeOK'
    BY TypeBucket DEF Control
  <1> QED
    BY <1>1, <1>2, <1>3, ControlStep, NoOpFields DEF Step, GoesOn, Placed, TypeOK

\* A request that creates the bucket finds no row, and no file that a crash did not leave.
LEMMA FilesCreate ==
  ASSUME TypeOK, Control, Exclusion, BucketInv, Files,
         NEW p \in Proc, BucketStep(p), op[p].kind = "create"
  PROVE  Files'
  <1>0. op[p] \in Request /\ Consistent(op[p]) /\ Knows(op[p])
    BY DEF TypeOK, Control, Placed, BucketInv
  <1>1. /\ \A q \in Proc \ {p} : op[q].pc = "idle" /\ op'[q].pc = "idle"
        /\ op'[p] \in Request /\ Consistent(op'[p]) /\ op'[p].kind \in {"none", "create"}
        /\ (Clean' => Clean)
    BY Alone, BucketStepType DEF Kept
  <1>2. /\ op[p].pc \in {"insert", "register", "mkroot", "revoke", "unregister"}
        /\ op'[p].pc \in {"idle", "insert", "register", "mkroot", "revoke", "unregister"}
    BY <1>0, <1>1, StepsOfKinds, KindsOfSteps DEF Consistent
  <1>3. \A q \in Proc : /\ op[q].pc \notin {"save", "unlink", "tree", "forget", "move", "undo"}
                        /\ op'[q].pc \notin {"save", "unlink", "tree", "forget", "move", "undo"}
    BY <1>1, <1>2
  <1>4. /\ \A k \in Key : rows[k] = None /\ rows'[k] = None
        /\ file' = file
    <2>1. \A k \in Key : rows[k] = None
      BY <1>0 DEF Knows
    <2>2. ~SaveRow(p)
      BY <1>2 DEF SaveRow
    <2>3. \A k \in Key : rows'[k] = None
      BY <2>1, <2>2, RowsGo DEF Step
    <2>4. file' = file
      BY <1>2, FilesStay DEF Step, MakeDirs, Publish, Unlink, Prune, RemoveFolder, RemoveTree,
         MoveEntry, UndoEntry
    <2> QED
      BY <2>1, <2>3, <2>4
  <1>5. Reach'
    BY <1>3, <1>4 DEF Reach, Moved
  <1>6. Tidy'
    <2>1. Clean' => \A b \in Base, k \in Key : file[b][k] = None
      BY <1>1, <1>3, <1>4 DEF Files, Tidy, Described
    <2> QED
      BY <1>1, <1>3, <1>4, <2>1 DEF Tidy
  <1> QED
    BY <1>5, <1>6 DEF Files

LEMMA FilesDrop ==
  ASSUME TypeOK, Control, Exclusion, BucketInv, MapInv, Files,
         NEW p \in Proc, BucketStep(p), op[p].kind \in Drops
  PROVE  Files'
  <1> USE PlaceAssumption, NoneAssumption
  <1>0. op[p] \in Request /\ Consistent(op[p]) /\ Knows(op[p])
    BY DEF TypeOK, Control, Placed, BucketInv
  <1>o. \A q \in Proc \ {p} : /\ op'[q].pc = op[q].pc /\ op'[q].key = op[q].key
                              /\ op'[q].kind = op[q].kind /\ op'[q].moved = op[q].moved
    BY BucketStepType DEF Kept
  <1>p. /\ op'[p] \in Request /\ Consistent(op'[p]) /\ op'[p].kind \in {"none", op[p].kind}
        /\ (Clean' => Clean)
    BY BucketStepType
  <1>k. op[p].pc \in DropSteps /\ op'[p].pc \in DropSteps \cup {"idle"}
    BY <1>0, <1>p, StepsOfKinds, KindsOfSteps DEF Consistent
  <1>m. op[p].kind \notin {"none", "create", "move"}
    BY DEF Drops
  <1>n. /\ \A q \in Proc : \A k : ~Moved(q, k)
        /\ \A q \in Proc : \A k : ~Moved(q, k)'
    <2>1. \A q \in Proc : \A k : ~Moved(q, k)
      BY <1>m, NoMoves
    <2> QED
      BY <1>k, <1>o, <2>1 DEF Moved, DropSteps
  <1>v. \A q \in Proc : op[q].pc # "save" /\ op'[q].pc # "save"
    <2>1. \A q \in Proc : op[q].pc # "save"
      <3>1. SUFFICES ASSUME NEW q \in Proc PROVE op[q].pc # "save"
        OBVIOUS
      <3>2. op[q] \in Request /\ Consistent(op[q]) /\ op[q].kind # "put"
        BY DEF TypeOK, Control, Placed, Exclusion, Drops
      <3> QED
        BY <3>2, KindsOfSteps
    <2> QED
      BY <1>k, <1>o, <2>1 DEF DropSteps
  <1>e. bucket # None => Place = Recorded
    BY <1>m, MapBesideObjects
  <1>b. Place \in Base /\ Recorded \in Base
    BY PlaceType
  <1>g. \A k \in Key : rows'[k] # None => rows'[k] = rows[k]
    <2>1. ~SaveRow(p)
      BY <1>k DEF SaveRow, DropSteps
    <2> QED
      BY <2>1, RowsGo DEF Step
  <1>h. bucket = None => \A k \in Key : rows[k] = None /\ rows'[k] = None
    BY <1>g DEF BucketInv
  <1>r. /\ \A k \in Key : rows[k] # None => file[Recorded][k] # None
        /\ \A q \in Proc : op[q].pc = "unlink" => rows[op[q].key] = None
    BY <1>n DEF Files, Reach
  <1> DEFINE Explained(b, k) ==
               \/ rows[k] # None /\ b = Recorded
               \/ b = Place /\ \E q \in Proc : op[q].key = k /\ op[q].pc = "unlink"
               \/ b = Place /\ \E q \in Proc : op[q].pc = "tree"
  <1>s. Clean' => /\ \A b \in Base, k \in Key : file[b][k] # None => Explained(b, k)
                 /\ \A q \in Proc : op[q].pc = "forget" => NoFiles
    BY <1>n, <1>p, <1>v DEF Files, Tidy, Described
  <1>a. ASSUME NEW b \in Base, NEW k \in Key, file[b][k] # None, Clean'
        PROVE  b = Place
    BY <1>a, <1>e, <1>h, <1>s
  <1>R. ASSUME \A k \in Key : rows'[k] # None => file'[Recorded'][k] # None
        PROVE  Reach'
    <2>1. \A q \in Proc : op'[q].pc = "unlink" => rows'[op'[q].key] = None
      <3>1. SUFFICES ASSUME NEW q \in Proc, op'[q].pc = "unlink" PROVE rows'[op'[q].key] = None
        OBVIOUS
      <3>2. q # p /\ op[q].pc = "unlink" /\ op'[q].key = op[q].key
        BY <1>k, <1>o, <3>1 DEF DropSteps
      <3>3. op[q] \in Request /\ Consistent(op[q])
        BY DEF TypeOK, Control, Placed
      <3>4. op[q].key \in Key
        BY <3>2, <3>3, KindsOfSteps DEF Consistent
      <3> QED
        BY <1>g, <1>r, <3>2, <3>4
    <2> QED
      BY <1>R, <1>n, <1>v, <2>1 DEF Reach
  <1>S. ASSUME \A b \in Base, k \in Key : file'[b][k] # None /\ Clean' => Explained(b, k)',
               \A q \in Proc : op'[q].pc = "forget" /\ Clean' => NoFiles'
        PROVE  Tidy'
    <2>1. \A b \in Base, k \in Key : Explained(b, k)' => Described(b, k)'
      BY <1>n DEF Described
    <2> HIDE DEF Explained
    <2> QED
      BY <1>S, <1>p, <2>1 DEF Tidy
  <1>i. ASSUME file' = file, rows' = rows, bucket' = bucket, custom' = custom,
               op[p].pc \notin {"tree", "forget"}, op'[p].pc \notin {"tree", "forget"}
        PROVE  Files'
    <2>0. Place' = Place /\ Recorded' = Recorded
      BY <1>i DEF Place, Recorded
    <2>1. Reach'
      BY <1>R, <1>i, <1>r, <2>0
    <2>2. ASSUME NEW b \in Base, NEW k \in Key, Explained(b, k) PROVE Explained(b, k)'
      BY <1>i, <1>k, <1>o, <2>0, <2>2 DEF DropSteps
    <2>3. \A q \in Proc : op'[q].pc = "forget" /\ Clean' => NoFiles'
      BY <1>i, <1>o, <1>s DEF NoFiles
    <2> HIDE DEF Explained
    <2>4. \A b \in Base, k \in Key : file'[b][k] # None /\ Clean' => Explained(b, k)'
      BY <1>i, <1>s, <2>2
    <2> QED
      BY <1>S, <2>1, <2>3, <2>4 DEF Files
  <1>l. ASSUME Release(p) PROVE op'[p].pc = "idle"
    BY <1>l, ReturnEffect, NoOpFields DEF Release
  <1>1. CASE TryLock(p)
    <2>1. op[p].pc = "trylock" /\ op'[p].pc \notin {"tree", "forget"}
      BY <1>1, GotoKeeps, ReturnEffect, NoOpFields DEF TryLock
    <2> QED
      BY <1>1, <1>i, <2>1 DEF TryLock, table, disk
  <1>2. CASE CountRows(p)
    <2>1. op[p].pc = "count" /\ op'[p].pc \notin {"tree", "forget"}
      BY <1>2, <1>l, GotoKeeps DEF CountRows
    <2> QED
      BY <1>2, <1>i, <2>1 DEF CountRows, table, disk
  <1>3. CASE DropBucket(p)
    <2>1. CASE Release(p) /\ UNCHANGED <<bucket, rows>>
      BY <1>3, <1>i, <1>l, <2>1 DEF DropBucket, disk
    <2>2. CASE bucket' = None /\ rows' = [k \in Key |-> None] /\ Goto(p, "tree")
      <3>1. file' = file /\ Place' = Place /\ op[p].pc = "drop" /\ op'[p].pc = "tree"
        BY <1>3, <2>2, GotoKeeps DEF DropBucket, disk, Place
      <3>2. Reach'
        BY <1>R, <2>2
      <3>3. \A b \in Base, k \in Key : file'[b][k] # None /\ Clean' => Explained(b, k)'
        BY <1>a, <3>1
      <3>4. \A q \in Proc : op'[q].pc = "forget" /\ Clean' => NoFiles'
        BY <1>o, <1>s, <3>1 DEF NoFiles
      <3> HIDE DEF Explained
      <3> QED
        BY <1>S, <3>2, <3>3, <3>4 DEF Files
    <2> QED
      BY <1>3, <2>1, <2>2 DEF DropBucket
  <1>4. CASE RemoveTree(p)
    <2>1. bucket = None /\ bucket' = bucket
      BY <1>0, <1>4 DEF RemoveTree, Knows, table
    <2>2. Reach'
      BY <1>R, <1>h, <2>1
    <2>3. Clean' => NoFiles'
      <3> SUFFICES ASSUME Clean' PROVE NoFiles'
        OBVIOUS
      <3>1. PICK stay \in SUBSET InTree(Place) : RemoveAll(Place, InTree(Place), stay)
        BY <1>4 DEF RemoveTree
      <3>2. stay = {}
        BY <1>b, <3>1, RemoveAllEffect DEF Clean
      <3>3. \A k \in Key : file'[Place][k] = IF k \in InTree(Place) THEN None ELSE file[Place][k]
        BY <1>b, <3>1, <3>2, RemoveAllEffect
      <3>4. \A k \in Key : file'[Place][k] = None
        BY <3>3 DEF InTree
      <3>5. \A b \in Base \ {Place} : file'[b] = file[b]
        BY <1>b, <3>1, RemoveAllEffect
      <3> QED
        BY <1>a, <3>4, <3>5 DEF NoFiles
    <2>4. \A b \in Base, k \in Key : file'[b][k] # None /\ Clean' => Explained(b, k)'
      BY <2>3 DEF NoFiles
    <2> HIDE DEF Explained
    <2> QED
      BY <1>S, <2>2, <2>3, <2>4 DEF Files
  <1>5. CASE Forget(p)
    <2>1. bucket = None /\ file' = file /\ op[p].pc = "forget"
      BY <1>0, <1>5 DEF Forget, Knows, disk
    <2>2. Reach'
      BY <1>R, <1>h, <2>1
    <2>3. Clean' => NoFiles'
      BY <1>s, <2>1 DEF NoFiles
    <2>4. \A b \in Base, k \in Key : file'[b][k] # None /\ Clean' => Explained(b, k)'
      BY <2>3 DEF NoFiles
    <2> HIDE DEF Explained
    <2> QED
      BY <1>S, <2>2, <2>3, <2>4 DEF Files
  <1> QED
    BY <1>k, <1>1, <1>2, <1>3, <1>4, <1>5 DEF BucketStep, InsertBucket, Register, MakeRoot,
       Revoke, Unregister, Prepare, MoveEntry, RecordPlace, FailMove, SwitchPlace, ClearOld,
       UndoEntry, EndUndo, DropSteps

\* Where the file of a row is while p, which runs alone, moves the bucket.
Home(p, k) == IF Moved(p, k) THEN op[p].base ELSE Recorded

LEMMA FilesMove ==
  ASSUME TypeOK, Control, Exclusion, BucketInv, MapInv, TempInv, SubInv, MoveInv, Files,
         NEW p \in Proc, BucketStep(p), op[p].kind = "move", "rollback" \notin ignored'
  PROVE  Files' /\ MoveInv'
  <1> USE PlaceAssumption, NoneAssumption
  <1>0. op[p] \in Request /\ Consistent(op[p]) /\ Knows(op[p]) /\ Moving(op[p])
        /\ op[p].from \in Base /\ op[p].base \in Base /\ op[p].from # op[p].base
    BY DEF TypeOK, Control, Placed, BucketInv, MoveInv, Consistent
  <1>x. PICK from \in Base, base \in Base : from = op[p].from /\ base = op[p].base /\ from # base
    BY <1>0
  <1>p. /\ op'[p] \in Request /\ Consistent(op'[p]) /\ op'[p].kind \in {"none", "move"}
        /\ (Clean' => Clean)
    BY BucketStepType
  <1>o. \A q \in Proc \ {p} : /\ op[q].pc = "idle" /\ op'[q].pc = "idle"
                              /\ op[q].kind = "none" /\ op'[q].kind = "none"
    BY Alone, BucketStepType DEF Kept
  <1>k. /\ op[p].pc \in {"trylock", "prepare", "move", "switch", "clear", "undo"}
        /\ op'[p].pc \in {"trylock", "prepare", "move", "switch", "clear", "undo", "idle"}
    BY <1>0, <1>p, StepsOfKinds, KindsOfSteps DEF Consistent
  <1>q. \A q \in Proc : /\ op[q].pc \notin {"save", "unlink", "tree", "forget"}
                        /\ op'[q].pc \notin {"save", "unlink", "tree", "forget"}
    BY <1>k, <1>o
  <1>m. \A q \in Proc \ {p} : \A k : ~Moved(q, k) /\ ~Moved(q, k)'
    BY <1>o DEF Moved
  <1>t. \A q \in Proc : temp[q] = None
    BY NoTemps
  <1>d. Recorded = IF op[p].pc \in {"switch", "clear"} THEN op[p].base ELSE op[p].from
    BY <1>0 DEF Knows, Dir, AsDir, Recorded
  <1>w. rows' = rows
    BY <1>k DEF BucketStep, InsertBucket, Register, MakeRoot, Revoke, Unregister, TryLock,
           CountRows, DropBucket, RemoveTree, Forget, Prepare, MoveEntry, RecordPlace,
           FailMove, SwitchPlace, ClearOld, UndoEntry, EndUndo, table
  <1>a. \A k \in Key : rows[k] # None => file[Home(p, k)][k] # None
    BY <1>m DEF Files, Reach, Home
  <1>b. Clean' => \A b \in Base, k \in Key :
          file[b][k] # None => rows[k] # None /\ b = Home(p, k)
    BY <1>m, <1>p, <1>q DEF Files, Tidy, Described, Home
  <1>g. ASSUME /\ \A k \in Key : rows[k] # None => file'[Home(p, k)'][k] # None
               /\ Clean' => \A b \in Base, k \in Key :
                    file'[b][k] # None => rows[k] # None /\ b = Home(p, k)'
        PROVE  Files'
    <2>1. Reach'
      <3>1. \A k \in Key : rows'[k] # None /\ (\A q \in Proc : ~Moved(q, k)') => file'[Recorded'][k] # None
        BY <1>g, <1>w DEF Home
      <3>2. \A q \in Proc, k \in Key : rows'[k] # None /\ Moved(q, k)' => file'[op'[q].base][k] # None
        BY <1>g, <1>m, <1>w DEF Home
      <3> QED
        BY <1>q, <3>1, <3>2 DEF Reach
    <2>2. Tidy'
      <3>1. ASSUME NEW b \in Base, NEW k \in Key, file'[b][k] # None, Clean'
            PROVE  Described(b, k)'
        BY <1>g, <1>m, <1>w, <3>1 DEF Home, Described
      <3> QED
        BY <1>p, <1>q, <3>1 DEF Tidy
    <2> QED
      BY <2>1, <2>2 DEF Files
  <1>v. ASSUME op'[p].kind = "move" => Moving(op[p])' PROVE MoveInv'
    BY <1>o, <1>v DEF MoveInv
  <1>i. ASSUME file' = file, Recorded' = Recorded,
               op'[p].pc \in {"move", "undo"} <=> op[p].pc \in {"move", "undo"},
               op'[p].pc \in {"move", "undo"} => op'[p].moved = op[p].moved /\ op'[p].base = op[p].base
        PROVE  Files'
    <2>1. \A k : Home(p, k)' = Home(p, k)
      BY <1>i DEF Home, Moved
    <2> QED
      BY <1>a, <1>b, <1>g, <1>i, <2>1
  <1>c. ASSUME op'[p].pc \notin {"move", "undo"} PROVE MoveInv'
    BY <1>c, <1>v DEF Moving
  <1>e. ASSUME file' = file, sub' = sub, temp' = temp, op'[p].pc = "undo",
               op'[p].moved = op[p].moved, op'[p].base = op[p].base, op'[p].from = op[p].from,
               op[p].pc = "move"
        PROVE  MoveInv'
    <2>1. op[p].moved \subseteq Entries(op[p].base)'
      <3>1. op[p].moved \subseteq Entries(op[p].base)
        BY <1>0, <1>e DEF Moving
      <3>2. \A q \in Proc : temp'[q] = None
        BY <1>e, <1>t
      <3>3. Entries(op[p].base) \subseteq {k \in Key \ InDir : file[op[p].base][k] # None}
              \cup (IF sub[op[p].base] THEN {"dir"} ELSE {})
        BY <1>0, <1>t DEF Entries
      <3>4. {k \in Key \ InDir : file[op[p].base][k] # None}
              \cup (IF sub[op[p].base] THEN {"dir"} ELSE {}) \subseteq Entries(op[p].base)'
        BY <1>e DEF Entries
      <3> QED
        BY <1>e, <3>1, <3>3, <3>4
    <2> QED
      BY <1>0, <1>e, <1>v, <2>1 DEF Moving
  <1>1. CASE TryLock(p)
    <2>1. op[p].pc = "trylock" /\ op'[p].pc \in {"idle", "prepare"}
      <3>1. op[p].pc = "trylock"
        BY <1>1 DEF TryLock
      <3>2. op'[p].pc \in {"idle", "prepare"}
        BY <1>1, GotoKeeps, ReturnEffect, NoOpFields DEF TryLock
      <3> QED
        BY <3>1, <3>2
    <2>2. file' = file /\ Recorded' = Recorded
      BY <1>1 DEF TryLock, table, disk, Recorded
    <2> QED
      BY <1>c, <1>i, <2>1, <2>2
  <1>2. CASE SwitchPlace(p)
    <2>1. op[p].pc = "switch" /\ op'[p].pc = "clear" /\ file' = file /\ Recorded' = Recorded
      BY <1>2, GotoKeeps DEF SwitchPlace, table, disk, Recorded
    <2> QED
      BY <1>c, <1>i, <2>1
  <1>3. CASE ClearOld(p)
    <2>1. op[p].pc = "clear" /\ op'[p].pc = "idle" /\ file' = file /\ Recorded' = Recorded
      BY <1>3, ReturnEffect, NoOpFields DEF ClearOld, Release, table, Recorded
    <2> QED
      BY <1>c, <1>i, <2>1
  <1>4. CASE Prepare(p)
    <2>1. op[p].pc = "prepare" /\ op[p].moved = {}
      BY <1>0, <1>4 DEF Prepare, Consistent
    <2>2. op' = [op EXCEPT ![p] = [op[p] EXCEPT !.todo = Entries(op[p].from), !.pc = "move"]]
      BY <1>4 DEF Prepare, TypeOK
    <2>3. op'[p] = [op[p] EXCEPT !.todo = Entries(op[p].from), !.pc = "move"]
      BY <2>2 DEF TypeOK
    <2>4. op'[p].pc = "move" /\ op'[p].todo = Entries(op[p].from) /\ op'[p].moved = {}
      BY <1>0, <2>1, <2>3 DEF Request
    <2>5. file' = file /\ Recorded' = Recorded
      BY <1>4 DEF Prepare, table, Recorded
    <2>6. \A k : Home(p, k) = Recorded /\ Home(p, k)' = Recorded
      BY <2>1, <2>4, <2>5 DEF Home, Moved
    <2>7. Files'
      BY <1>a, <1>b, <1>g, <2>5, <2>6
    <2>8. ASSUME NEW k \in Key, rows[k] # None PROVE EntryOf(k) \in Entries(op[p].from)
      <3>1. file[op[p].from][k] # None
        BY <1>a, <1>d, <2>1, <2>6, <2>8
      <3>2. k \in InDir => sub[op[p].from]
        BY <1>0, <3>1 DEF SubInv
      <3> QED
        BY <3>1, <3>2 DEF Entries, EntryOf
    <2>9. MoveInv'
      BY <1>v, <1>w, <2>4, <2>8 DEF Moving
    <2> QED
      BY <2>7, <2>9
  <1>5. CASE MoveEntry(p)
    <2>1. CASE /\ UNCHANGED disk /\ op'[p].pc = "undo" /\ op'[p].from = from /\ op'[p].base = base
               /\ op'[p].moved = op[p].moved /\ op[p].pc = "move"
      <3>1. Recorded' = Recorded /\ file' = file /\ sub' = sub /\ temp' = temp
        BY <1>5, <2>1 DEF MoveEntry, table, Recorded, disk
      <3> QED
        BY <1>e, <1>i, <1>x, <2>1, <3>1
    <2>2. ASSUME NEW e \in Entries(from) \ Entries(base), Rename(e, from, base),
                 op[p].pc = "move", op'[p].pc = "move", op'[p].from = from, op'[p].base = base,
                 op'[p].todo = op[p].todo \ {e}, op'[p].moved = op[p].moved \cup {e}
          PROVE  Files' /\ MoveInv'
      <3>1. /\ temp' = temp
            /\ \A k \in Key : file'[base][k] = IF EntryOf(k) = e THEN file[from][k] ELSE file[base][k]
            /\ \A k \in Key : file'[from][k] = IF EntryOf(k) = e THEN None ELSE file[from][k]
            /\ \A b \in Base \ {from, base} : file'[b] = file[b]
            /\ sub' = IF e = "dir" THEN [sub EXCEPT ![from] = FALSE, ![base] = TRUE] ELSE sub
            /\ e \in (Key \ InDir) \cup {"dir"}
            /\ e # "dir" => file[from][e] # None
        BY <1>t, <1>x, <2>2, RenameEffect
      <3>2. Recorded = from /\ Recorded' = from
        BY <1>5, <1>d, <1>x, <2>2 DEF MoveEntry, table, Recorded
      <3>3. op[p].moved \subseteq Entries(base) /\ e \notin op[p].moved
        BY <1>0, <1>x, <2>2 DEF Moving
      <3>4. \A k : /\ Home(p, k) = IF EntryOf(k) \in op[p].moved THEN base ELSE from
                   /\ Home(p, k)' = IF EntryOf(k) \in op[p].moved \cup {e} THEN base ELSE from
        BY <1>x, <2>2, <3>2 DEF Home, Moved
      <3>0. from \in Base /\ base \in Base /\ from # base
        BY <1>x
      <3>5. Files'
        <4>1. ASSUME NEW k \in Key, rows[k] # None PROVE file'[Home(p, k)'][k] # None
          <5>1. file[Home(p, k)][k] # None
            BY <1>a, <4>1
          <5>2. CASE EntryOf(k) = e
            BY <3>1, <3>3, <3>4, <5>1, <5>2
          <5>3. CASE EntryOf(k) # e
            BY <3>0, <3>1, <3>4, <5>1, <5>3
          <5> QED
            BY <5>2, <5>3
        <4>2. ASSUME Clean', NEW b \in Base, NEW k \in Key, file'[b][k] # None
              PROVE  rows[k] # None /\ b = Home(p, k)'
          <5>1. \A c \in Base : file[c][k] # None => rows[k] # None /\ c = Home(p, k)
            BY <1>b, <4>2
          <5>2. CASE EntryOf(k) = e
            <6>1. b # from
              BY <3>1, <4>2, <5>2
            <6>2. Home(p, k) = from /\ Home(p, k)' = base
              BY <3>3, <3>4, <5>2
            <6>3. b = base
              BY <3>1, <4>2, <5>1, <6>1, <6>2
            <6> QED
              BY <3>0, <3>1, <4>2, <5>1, <5>2, <6>2, <6>3
          <5>3. CASE EntryOf(k) # e
            <6>1. file'[b][k] = file[b][k]
              BY <3>1, <5>3
            <6> QED
              BY <3>4, <4>2, <5>1, <5>3, <6>1
          <5> QED
            BY <5>2, <5>3
        <4> QED
          BY <1>g, <4>1, <4>2
      <3>6. (op[p].moved \cup {e}) \subseteq Entries(base)'
        <4>1. ASSUME NEW f \in op[p].moved PROVE f \in Entries(base)'
          <5>1. f \in Entries(base) /\ f # e
            BY <3>3
          <5>2. f \in {k \in Key \ InDir : file[base][k] # None} \/ (f = "dir" /\ sub[base])
            BY <1>t, <3>0, <5>1 DEF Entries
          <5>3. CASE f \in {k \in Key \ InDir : file[base][k] # None}
            <6>1. EntryOf(f) = f
              BY <5>3 DEF EntryOf
            <6> QED
              BY <3>1, <5>1, <5>3, <6>1 DEF Entries
          <5>4. CASE f = "dir" /\ sub[base]
            BY <3>1, <5>1, <5>4 DEF Entries
          <5> QED
            BY <5>2, <5>3, <5>4
        <4>2. e \in Entries(base)'
          <5>1. CASE e = "dir"
            <6>1. sub'[base]
              BY <3>0, <3>1, <5>1 DEF TypeOK
            <6> QED
              BY <5>1, <6>1 DEF Entries
          <5>2. CASE e # "dir"
            <6>1. e \in Key \ InDir /\ EntryOf(e) = e
              BY <3>1, <5>2 DEF EntryOf
            <6> QED
              BY <3>1, <5>2, <6>1 DEF Entries
          <5> QED
            BY <5>1, <5>2
        <4> QED
          BY <4>1, <4>2
      <3>7. "dir" \in op[p].moved \cup {e} => \A k \in InDir : file'[from][k] = None
        <4>1. \A k \in InDir : k \in Key /\ EntryOf(k) = "dir"
          BY DEF EntryOf
        <4>2. "dir" \in op[p].moved => \A k \in InDir : file[from][k] = None
          BY <1>0, <1>x, <2>2 DEF Moving
        <4> QED
          BY <3>1, <4>1, <4>2
      <3>8. Moving(op[p])'
        <4>1. \A k \in Key : rows[k] # None => EntryOf(k) \in op[p].todo \cup op[p].moved
          BY <1>0, <2>2 DEF Moving
        <4>2. \A k \in Key : rows'[k] # None => EntryOf(k) \in op'[p].todo \cup op'[p].moved
          BY <1>w, <2>2, <4>1
        <4>3. op'[p].moved \subseteq Entries(op[p].base)'
          BY <1>x, <2>2, <3>6
        <4>4. "dir" \in op'[p].moved => \A k \in InDir : file'[op'[p].from][k] = None
          BY <2>2, <3>7
        <4> QED
          BY <4>2, <4>3, <4>4 DEF Moving
      <3> QED
        BY <1>v, <3>5, <3>8
    <2> QED
      BY <1>5, <1>x, <2>1, <2>2, MoveEntryEffect
  <1>6. CASE RecordPlace(p)
    <2>1. op[p].pc = "move" /\ op[p].todo = {} /\ op'[p].pc = "switch" /\ file' = file
      BY <1>6, GotoKeeps DEF RecordPlace, disk
    <2>2. Recorded' = op[p].base
      <3>1. bucket # None
        BY <1>0 DEF Knows
      <3>2. bucket' = [bucket EXCEPT !.dir = AsDir(op[p].base)] /\ bucket \in BucketRow
        BY <1>6, <3>1 DEF RecordPlace, TypeOK
      <3>3. bucket'.dir = AsDir(op[p].base) /\ bucket' # None
        <4>1. bucket'.dir = AsDir(op[p].base)
          BY <3>2 DEF BucketRow
        <4>2. bucket' \in BucketRow
          BY <1>0, <3>2 DEF BucketRow, AsDir
        <4> QED
          BY <4>1, <4>2
      <3> QED
        BY <1>0, <3>3 DEF Recorded, AsDir
    <2>3. \A k \in Key : rows[k] # None => Home(p, k) = op[p].base
      BY <1>0, <2>1 DEF Moving, Home, Moved
    <2>4. \A k : Home(p, k)' = op[p].base
      BY <2>1, <2>2 DEF Home, Moved
    <2>5. Files'
      BY <1>a, <1>b, <1>g, <2>1, <2>3, <2>4
    <2> QED
      BY <1>c, <2>1, <2>5
  <1>7. CASE FailMove(p)
    <2>1. op[p].pc = "move" /\ op'[p].pc = "undo" /\ op'[p].from = op[p].from
          /\ op'[p].base = op[p].base /\ op'[p].moved = op[p].moved
      BY <1>7, GotoKeeps DEF FailMove
    <2>2. Recorded' = Recorded /\ file' = file /\ sub' = sub /\ temp' = temp
      BY <1>7 DEF FailMove, table, Recorded, disk
    <2> QED
      BY <1>e, <1>i, <2>1, <2>2
  <1>8. CASE EndUndo(p)
    <2>1. op[p].moved = {} /\ op'[p].pc = "idle" /\ file' = file /\ Recorded' = Recorded
      BY <1>8, ReturnEffect, NoOpFields DEF EndUndo, Release, table, Recorded
    <2>2. \A k : Home(p, k)' = Home(p, k)
      BY <2>1 DEF Home, Moved
    <2>3. Files'
      BY <1>a, <1>b, <1>g, <2>1, <2>2
    <2> QED
      BY <1>c, <2>1, <2>3
  <1>9. CASE UndoEntry(p)
    <2>1. /\ op[p].pc = "undo" /\ op'[p].from = from /\ op'[p].base = base /\ op'[p].pc = "undo"
      BY <1>9, <1>x, UndoEntryEffect
    <2>2. PICK e \in op[p].moved :
            /\ op'[p].moved = op[p].moved \ {e}
            /\ IF e \in Entries(base) /\ (e = "dir" => InSub(from) = {})
                 THEN Rename(e, base, from)
                 ELSE UNCHANGED disk
      BY <1>9, <1>x, UndoEntryEffect
    <2>3. e \in Entries(base) /\ op[p].moved \subseteq Entries(base)
      BY <1>0, <1>x, <2>1 DEF Moving
    <2>4. e = "dir" => InSub(from) = {}
      <3>1. "dir" \in op[p].moved => \A k \in InDir : file[from][k] = None
        BY <1>0, <1>x, <2>1 DEF Moving
      <3> QED
        BY <1>t, <1>x, <3>1 DEF InSub
    <2>5. Rename(e, base, from)
      BY <2>2, <2>3, <2>4
    <2>6. /\ temp' = temp
          /\ \A k \in Key : file'[from][k] = IF EntryOf(k) = e THEN file[base][k] ELSE file[from][k]
          /\ \A k \in Key : file'[base][k] = IF EntryOf(k) = e THEN None ELSE file[base][k]
          /\ \A b \in Base \ {from, base} : file'[b] = file[b]
          /\ sub' = IF e = "dir" THEN [sub EXCEPT ![base] = FALSE, ![from] = TRUE] ELSE sub
      BY <1>t, <1>x, <2>3, <2>5, RenameEffect
    <2>7. Recorded = from /\ Recorded' = from
      BY <1>9, <1>d, <1>x, <2>1 DEF UndoEntry, table, Recorded
    <2>8. \A k : /\ Home(p, k) = IF EntryOf(k) \in op[p].moved THEN base ELSE from
                 /\ Home(p, k)' = IF EntryOf(k) \in op[p].moved \ {e} THEN base ELSE from
      BY <1>x, <2>1, <2>2, <2>7 DEF Home, Moved
    <2>0. from \in Base /\ base \in Base /\ from # base
      BY <1>x
    <2>9. Files'
      <3>1. ASSUME NEW k \in Key, rows[k] # None PROVE file'[Home(p, k)'][k] # None
        <4>1. file[Home(p, k)][k] # None
          BY <1>a, <3>1
        <4>2. CASE EntryOf(k) = e
          BY <2>6, <2>8, <4>1, <4>2
        <4>3. CASE EntryOf(k) # e
          BY <2>0, <2>6, <2>8, <4>1, <4>3
        <4> QED
          BY <4>2, <4>3
      <3>2. ASSUME Clean', NEW b \in Base, NEW k \in Key, file'[b][k] # None
            PROVE  rows[k] # None /\ b = Home(p, k)'
        <4>1. \A c \in Base : file[c][k] # None => rows[k] # None /\ c = Home(p, k)
          BY <1>b, <3>2
        <4>2. CASE EntryOf(k) = e
          <5>1. b # base
            BY <2>6, <3>2, <4>2
          <5>2. Home(p, k) = base /\ Home(p, k)' = from
            BY <2>8, <4>2
          <5>3. b = from
            BY <2>6, <3>2, <4>1, <5>1, <5>2
          <5> QED
            BY <2>0, <2>6, <3>2, <4>1, <4>2, <5>2, <5>3
        <4>3. CASE EntryOf(k) # e
          <5>1. file'[b][k] = file[b][k]
            BY <2>6, <4>3
          <5> QED
            BY <2>8, <3>2, <4>1, <4>3, <5>1
        <4> QED
          BY <4>2, <4>3
      <3> QED
        BY <1>g, <3>1, <3>2
    <2>10. ASSUME NEW f \in op[p].moved, f # e PROVE f \in Entries(base)'
      <3>1. f \in {k \in Key \ InDir : file[base][k] # None} \/ (f = "dir" /\ sub[base])
        BY <1>t, <2>0, <2>3 DEF Entries
      <3>2. CASE f \in {k \in Key \ InDir : file[base][k] # None}
        <4>1. EntryOf(f) = f
          BY <3>2 DEF EntryOf
        <4> QED
          BY <2>6, <2>10, <3>2, <4>1 DEF Entries
      <3>3. CASE f = "dir" /\ sub[base]
        BY <2>6, <2>10, <3>3 DEF Entries
      <3> QED
        BY <3>1, <3>2, <3>3
    <2>11. "dir" \in op[p].moved \ {e} => \A k \in InDir : file'[from][k] = None
      <3>1. \A k \in InDir : k \in Key /\ EntryOf(k) = "dir"
        BY DEF EntryOf
      <3>2. "dir" \in op[p].moved => \A k \in InDir : file[from][k] = None
        BY <1>0, <1>x, <2>1 DEF Moving
      <3> QED
        BY <2>6, <3>1, <3>2
    <2>12. Moving(op[p])'
      <3>1. op'[p].moved \subseteq Entries(op[p].base)'
        BY <1>x, <2>1, <2>2, <2>10
      <3>2. "dir" \in op'[p].moved => \A k \in InDir : file'[op'[p].from][k] = None
        BY <2>1, <2>2, <2>11
      <3> QED
        BY <2>1, <3>1, <3>2 DEF Moving
    <2> QED
      BY <1>v, <2>9, <2>12
  <1> QED
    BY <1>k, <1>1, <1>2, <1>3, <1>4, <1>5, <1>6, <1>7, <1>8, <1>9 DEF BucketStep, InsertBucket,
       Register, MakeRoot, Revoke, Unregister, CountRows, DropBucket, RemoveTree, Forget

-----------------------------------------------------------------------------
(* The steps that are no request's own: arrivals, quotas, crashes. *)

\* A bucket that should have gone breaks what requests know of it, and a rollback that
\* failed what they know of its files; what stays after a removal only makes it untidy.
IInv ==
  /\ TypeOK /\ Control /\ Exclusion /\ Mutex /\ BaseInv /\ TempInv /\ SubInv
  /\ "revocation" \notin ignored => BucketInv /\ MapInv /\ PrefixInv
  /\ ignored \subseteq {"removal"} => Files /\ MoveInv

LEMMA MoveBeside ==
  ASSUME TypeOK, Control, Exclusion, NEW p \in Proc, Acquire(p) \/ Step(p), op[p].kind # "move"
  PROVE  MoveInv'
  <1> SUFFICES ASSUME NEW q \in Proc, op'[q].kind = "move" PROVE FALSE
    BY DEF MoveInv
  <1>1. q # p
    BY ControlStep, NoOpFields DEF GoesOn
  <1>2. op[q].kind = "move"
    BY <1>1, ControlStep DEF Kept
  <1>3. op[p].kind # "none"
    BY StepRuns
  <1> QED
    BY <1>1, <1>2, <1>3 DEF Exclusion

LEMMA BeginHolds ==
  ASSUME Apart, IInv, NEW p \in Proc, Begin(p) PROVE IInv'
  <1> USE NoneAssumption, PlaceAssumption DEF IInv
  <1>1. /\ op[p] = NoOp /\ Fresh(op'[p]) /\ \A q \in Proc \ {p} : op'[q] = op[q]
        /\ UNCHANGED <<table, custom, busy, disk, faults, crashes, ignored>>
    BY BeginEffect
  <1>2. TypeOK' /\ Control' /\ Exclusion' /\ Mutex'
    BY TypeBegin, ControlHolds, ExclusionStep, MutexStep DEF Act
  <1>3. /\ bucket' = bucket /\ rows' = rows /\ custom' = custom /\ temp' = temp /\ file' = file
        /\ sub' = sub /\ faults' = faults /\ crashes' = crashes /\ ignored' = ignored
        /\ Place' = Place /\ Recorded' = Recorded /\ Dir' = Dir
    BY <1>1 DEF table, disk, Place, Recorded, Dir
  <1>4. /\ op[p].pc = "idle" /\ op[p].kind = "none" /\ op[p].moved = {}
        /\ op'[p].pc \in {"lock", "list", "insert", "count", "trylock"} /\ op'[p].kind # "none"
        /\ op'[p].moved = {}
    BY <1>1, NoOpFields DEF Fresh
  <1>5. BucketInv => BucketInv'
    <2> SUFFICES ASSUME BucketInv PROVE BucketInv'
      OBVIOUS
    <2>1. Knows(op[p])'
      <3>1. op'[p].kind = "move" => Dir = AsDir(op'[p].from)
        BY <1>1 DEF Fresh, Dir, AsDir, Recorded, TypeOK, BucketRow
      <3>2. op'[p].kind = "create" => \A k \in Key : rows[k] = None
        BY <1>1 DEF Fresh, BucketInv
      <3> QED
        BY <1>1, <1>3, <1>4, <3>1, <3>2 DEF Fresh, Knows
    <2>2. \A q \in Proc \ {p} : Knows(op[q])'
      BY <1>1, <1>3 DEF BucketInv, Knows
    <2> QED
      BY <1>3, <2>1, <2>2 DEF BucketInv
  <1>6. MapInv => MapInv'
    BY <1>1, <1>3, <1>4 DEF MapInv, Between
  <1>7. BaseInv'
    BY <1>1, <1>3, <1>4 DEF BaseInv
  <1>8. TempInv' /\ SubInv'
    <2>1. temp[p] = None
      BY <1>4 DEF TempInv
    <2>2. TempInv'
      BY <1>1, <1>3, <2>1 DEF TempInv
    <2>3. SubInv'
      BY <1>1, <1>3, <2>1 DEF SubInv
    <2> QED
      BY <2>2, <2>3
  <1>9. PrefixInv => PrefixInv'
    <2> SUFFICES ASSUME PrefixInv PROVE PrefixInv'
      OBVIOUS
    <2>1. op'[p].kind = "prefix" => Sweeps(op[p])'
      BY <1>1 DEF Fresh, Sweeps
    <2>2. \A q \in Proc \ {p} : op[q].kind = "prefix" => Sweeps(op[q])'
      BY <1>1, <1>3 DEF PrefixInv, Sweeps, NoFolder, Covered
    <2> QED
      BY <1>1, <2>1, <2>2 DEF PrefixInv
  <1>10. Files => Files'
    <2> SUFFICES ASSUME Files PROVE Files'
      OBVIOUS
    <2>1. \A q \in Proc : \A k : Moved(q, k)' <=> Moved(q, k)
      BY <1>1, <1>4 DEF Moved
    <2>2. Reach'
      BY <1>1, <1>3, <1>4, <2>1 DEF Files, Reach, Moved
    <2>3. ASSUME NEW b \in Base, NEW k \in Key, Described(b, k) PROVE Described(b, k)'
      BY <1>1, <1>3, <1>4, <2>1, <2>3 DEF Described, Moved
    <2>4. Tidy'
      BY <1>1, <1>3, <1>4, <2>3 DEF Files, Tidy, NoFiles, Clean
    <2> QED
      BY <2>2, <2>4 DEF Files
  <1>11. MoveInv'
    <2>1. ASSUME NEW q \in Proc, op'[q].kind = "move" PROVE q = p
      BY <1>2, <1>4, <2>1 DEF Exclusion
    <2> QED
      BY <1>4, <2>1 DEF MoveInv, Moving
  <1> QED
    BY <1>2, <1>3, <1>5, <1>6, <1>7, <1>8, <1>9, <1>10, <1>11

LEMMA StepHolds ==
  ASSUME Apart, IInv, NEW p \in Proc, Acquire(p) \/ Step(p) PROVE IInv'
  <1> USE DEF IInv
  <1>1. TypeOK' /\ Control' /\ Exclusion' /\ Mutex'
    BY TypeObject, TypeBucket, ControlHolds, ExclusionStep, MutexStep DEF Act, Step, Control
  <1>g. ignored \subseteq ignored'
    BY BoundsStep
  <1>2. "revocation" \notin ignored' => BucketInv' /\ MapInv' /\ PrefixInv'
    BY <1>g, PlaceObject, PlaceBucket, PrefixStep DEF Step
  <1>3. BaseInv' /\ TempInv' /\ SubInv'
    BY BaseStep, TempStep, SubStep
  <1>4. ignored' \subseteq {"removal"} => Files' /\ MoveInv'
    <2> SUFFICES ASSUME ignored' \subseteq {"removal"} PROVE Files' /\ MoveInv'
      OBVIOUS
    <2>i. /\ "rollback" \notin ignored'
          /\ BucketInv /\ MapInv /\ PrefixInv /\ Files /\ MoveInv
      BY <1>g
    <2>0. op[p] \in Request /\ Consistent(op[p])
      BY DEF TypeOK, Control, Placed
    <2>1. CASE Acquire(p) \/ ObjectStep(p)
      BY <2>i, <2>1, FilesObject, ObjectKinds, MoveBeside
    <2>2. CASE BucketStep(p)
      <3>1. op[p].kind \in {"create", "move"} \cup Drops
        BY <2>0, <2>2, BucketStepType, KindsOfSteps
      <3>2. CASE op[p].kind = "create"
        BY <2>i, <2>2, <3>2, FilesCreate, MoveBeside
      <3>3. CASE op[p].kind \in Drops
        BY <2>i, <2>2, <3>3, FilesDrop, MoveBeside DEF Drops, Step
      <3>4. CASE op[p].kind = "move"
        BY <2>i, <2>2, <3>4, FilesMove
      <3> QED
        BY <3>1, <3>2, <3>3, <3>4
    <2> QED
      BY <2>1, <2>2 DEF Step
  <1> QED
    BY <1>1, <1>2, <1>3, <1>4

LEMMA QuotaType ==
  ASSUME TypeOK, NEW q \in Quotas, SetQuota(q)
  PROVE  /\ TypeOK' /\ bucket # None /\ bucket' # None
         /\ bucket'.id = bucket.id /\ bucket'.dir = bucket.dir
  <1>1. bucket \in BucketRow /\ bucket' = [bucket EXCEPT !.quota = q] /\ q \in Nat
    BY QuotaAssumption DEF SetQuota, TypeOK
  <1>2. bucket' \in BucketRow /\ bucket'.id = bucket.id /\ bucket'.dir = bucket.dir
    BY <1>1 DEF BucketRow
  <1>3. TypeOK'
    BY <1>2 DEF SetQuota, TypeOK, disk, bounds
  <1> QED
    BY <1>1, <1>2, <1>3, NoneAssumption DEF SetQuota

LEMMA QuotaHolds ==
  ASSUME IInv, NEW q \in Quotas, SetQuota(q) PROVE IInv'
  <1> USE DEF IInv
  <1>1. /\ TypeOK' /\ bucket # None /\ bucket' # None
        /\ bucket'.id = bucket.id /\ bucket'.dir = bucket.dir
    BY QuotaType
  <1>2. /\ op' = op /\ rows' = rows /\ custom' = custom /\ temp' = temp /\ file' = file
        /\ sub' = sub /\ faults' = faults /\ crashes' = crashes /\ ignored' = ignored
    BY DEF SetQuota, disk, bounds
  <1>3. Place' = Place /\ Recorded' = Recorded /\ Dir' = Dir
    BY <1>1, <1>2 DEF Place, Recorded, Dir
  <1>4. Control' /\ Exclusion' /\ Mutex'
    BY <1>2 DEF Control, Placed, Exclusion, Mutex
  <1>5. (BucketInv => BucketInv') /\ (MapInv => MapInv')
    BY <1>1, <1>2, <1>3 DEF BucketInv, Knows, MapInv
  <1>6. BaseInv' /\ TempInv' /\ SubInv'
    BY <1>2, <1>3 DEF BaseInv, TempInv, SubInv
  <1>7. PrefixInv => PrefixInv'
    BY <1>2 DEF PrefixInv, Sweeps, NoFolder, Covered
  <1>8. Files => Files'
    BY <1>2, <1>3 DEF Files, Reach, Tidy, Described, Moved, NoFiles, Clean
  <1>9. MoveInv => MoveInv'
    BY <1>2 DEF MoveInv, Moving, Entries
  <1> QED
    BY <1>1, <1>2, <1>4, <1>5, <1>6, <1>7, <1>8, <1>9

LEMMA CrashType ==
  ASSUME TypeOK, Crash
  PROVE  TypeOK' /\ Control' /\ \A p \in Proc : op'[p] = NoOp /\ temp'[p] = None
  <1>1. \A p \in Proc : op'[p] = NoOp /\ temp'[p] = None
    BY DEF Crash
  <1>2. Control'
    BY <1>1, NoOpConsistent DEF Control, Placed
  <1>3. custom' \in (Base \ {Root}) \cup {None}
    BY DEF Crash, TypeOK, BucketRow
  <1>4. TypeOK'
    <2>1. op' \in [Proc -> Request] /\ temp' \in [Proc -> Base \cup {None}]
      BY NoOpType DEF Crash
    <2>2. crashes' \in Nat /\ requests' \in Nat /\ faults' \in Nat /\ ignored' \subseteq Ignorable
      BY DEF Crash, TypeOK
    <2> QED
      BY <1>3, <2>1, <2>2 DEF Crash, TypeOK, table
  <1> QED
    BY <1>1, <1>2, <1>4

LEMMA CrashHolds ==
  ASSUME Apart, IInv, Crash PROVE IInv'
  <1> USE DEF IInv
  <1>1. TypeOK' /\ Control' /\ \A p \in Proc : op'[p] = NoOp /\ temp'[p] = None
    BY CrashType
  <1>2. \A p \in Proc : op'[p].kind = "none" /\ op'[p].pc = "idle" /\ op'[p].moved = {}
    BY <1>1, NoOpFields
  <1>3. /\ bucket' = bucket /\ rows' = rows /\ file' = file /\ sub' = sub
        /\ Recorded' = Recorded /\ custom' = Dir' /\ ignored' = ignored
    BY DEF Crash, table, Recorded, Dir
  <1>4. Exclusion' /\ Mutex' /\ MapInv' /\ BaseInv' /\ PrefixInv' /\ MoveInv'
    BY <1>2, <1>3 DEF Exclusion, Mutex, Locked, MapInv, BaseInv, PrefixInv, MoveInv
  <1>5. BucketInv => BucketInv'
    BY <1>2, <1>3 DEF BucketInv, Knows
  <1>6. TempInv' /\ SubInv'
    BY <1>1, <1>3 DEF TempInv, SubInv
  <1>7. \A p \in Proc : \A k : ~Moved(p, k)
    <2>1. SUFFICES ASSUME NEW p \in Proc PROVE op[p].pc \notin {"move", "undo"}
      BY DEF Moved
    <2>2. op[p] \in Request /\ Consistent(op[p]) /\ op[p].kind # "move"
      BY DEF TypeOK, Control, Placed, Crash, Apart
    <2> QED
      BY <2>2, KindsOfSteps
  <1>8. Reach => Reach'
    BY <1>2, <1>3, <1>7 DEF Reach, Moved
  <1>9. Tidy'
    <2>1. crashes' # 0
      BY DEF Crash, TypeOK
    <2> QED
      BY <2>1 DEF Tidy, Clean
  <1> QED
    BY <1>1, <1>3, <1>4, <1>5, <1>6, <1>8, <1>9 DEF Files

LEMMA InitHolds ==
  ASSUME Init PROVE IInv
  <1>1. \A p \in Proc : op[p] = NoOp /\ temp[p] = None
    BY DEF Init
  <1>2. \A p \in Proc : op[p].kind = "none" /\ op[p].pc = "idle" /\ op[p].moved = {}
    BY <1>1, NoOpFields
  <1>3. TypeOK /\ Control
    BY <1>1, NoOpType, NoOpConsistent DEF Init, TypeOK, Control, Placed
  <1>4. Exclusion /\ Mutex /\ BaseInv /\ PrefixInv /\ MoveInv
    BY <1>2 DEF Exclusion, Mutex, Locked, BaseInv, PrefixInv, MoveInv
  <1>5. BucketInv /\ MapInv
    BY <1>2 DEF Init, BucketInv, Knows, MapInv, Dir
  <1>6. TempInv /\ SubInv
    <2>1. \A b \in Base, k \in Key : file[b][k] = None
      BY DEF Init
    <2> QED
      BY <1>1, <2>1, PlaceAssumption DEF TempInv, SubInv
  <1>7. Files
    BY <1>2, PlaceType DEF Init, Files, Reach, Tidy, NoFiles, Moved
  <1> QED
    BY <1>3, <1>4, <1>5, <1>6, <1>7 DEF IInv

LEMMA StutterHolds ==
  ASSUME IInv, UNCHANGED vars PROVE IInv'
  <1> USE DEF IInv
  <1>2. /\ op' = op /\ rows' = rows /\ custom' = custom /\ temp' = temp /\ file' = file
        /\ sub' = sub /\ faults' = faults /\ crashes' = crashes /\ bucket' = bucket
        /\ nextId' = nextId /\ busy' = busy /\ top' = top /\ requests' = requests
        /\ ignored' = ignored
    BY DEF vars, table, disk, bounds
  <1>3. Place' = Place /\ Recorded' = Recorded /\ Dir' = Dir
    BY <1>2 DEF Place, Recorded, Dir
  <1>4. TypeOK' /\ Control' /\ Exclusion' /\ Mutex'
    BY <1>2 DEF TypeOK, Control, Placed, Exclusion, Mutex
  <1>5. (BucketInv => BucketInv') /\ (MapInv => MapInv')
    BY <1>2, <1>3 DEF BucketInv, Knows, MapInv
  <1>6. BaseInv' /\ TempInv' /\ SubInv'
    BY <1>2, <1>3 DEF BaseInv, TempInv, SubInv
  <1>7. PrefixInv => PrefixInv'
    BY <1>2 DEF PrefixInv, Sweeps, NoFolder, Covered
  <1>8. Files => Files'
    BY <1>2, <1>3 DEF Files, Reach, Tidy, Described, Moved, NoFiles, Clean
  <1>9. MoveInv => MoveInv'
    BY <1>2 DEF MoveInv, Moving, Entries
  <1> QED
    BY <1>2, <1>4, <1>5, <1>6, <1>7, <1>8, <1>9

LEMMA TypeStep ==
  ASSUME TypeOK, Control, [Next]_vars PROVE (TypeOK /\ Control)'
  <1>1. CASE \E p \in Proc : Begin(p) \/ Acquire(p) \/ Step(p)
    BY <1>1, TypeBegin, TypeObject, TypeBucket, ControlHolds DEF Act, Step, Control
  <1>2. CASE \E q \in Quotas : SetQuota(q)
    <2>1. TypeOK' /\ op' = op
      BY <1>2, QuotaType DEF SetQuota
    <2> QED
      BY <2>1 DEF Control, Placed
  <1>3. CASE Crash
    BY <1>3, CrashType
  <1>4. CASE UNCHANGED vars
    BY <1>4 DEF vars, table, disk, bounds, TypeOK, Control, Placed
  <1> QED
    BY <1>1, <1>2, <1>3, <1>4 DEF Next

-----------------------------------------------------------------------------
(* Sums over finite sets: the bytes a quota counts. *)

\* A set of numbers has a least one.
LEMMA Least ==
  ASSUME NEW T, T \subseteq Nat, T # {} PROVE \E x \in T : \A y \in T : x <= y
  <1> DEFINE R == OpToRel(<, Nat)
  <1>1. \E x \in T : \A y \in T : ~(<<y, x>> \in R)
    BY NatLessThanWellFounded, WFMin
  <1>2. ASSUME NEW x \in Nat, NEW y \in Nat, <<y, x>> \notin R PROVE x <= y
    <2>1. ~(y < x)
      BY <1>2, Zenon DEF OpToRel
    <2> HIDE DEF R
    <2> QED
      BY <2>1
  <1> HIDE DEF R
  <1> QED
    BY <1>1, <1>2

\* The element a sum takes first.
Any(s) == CHOOSE x \in s : TRUE

\* g sums the weights w over the subsets of T.
SumsUp(w, T, g) ==
  g = [s \in SUBSET T |-> IF s = {} THEN 0 ELSE w[Any(s)] + g[s \ {Any(s)}]]

Sum(w, T) == (CHOOSE g : SumsUp(w, T, g))[T]

LEMMA AnyIs == ASSUME NEW s, s # {} PROVE Any(s) \in s
  BY DEF Any

LEMMA SmallerIs ==
  ASSUME NEW s, IsFiniteSet(s), NEW x \in s
  PROVE  /\ IsFiniteSet(s \ {x}) /\ Cardinality(s) \in Nat
         /\ Cardinality(s \ {x}) \in Nat /\ Cardinality(s \ {x}) = Cardinality(s) - 1
  BY FS_RemoveElement, FS_CardinalityType

LEMMA SumsExist ==
  ASSUME NEW T, IsFiniteSet(T), NEW w, \A x \in T : w[x] \in Nat
  PROVE  \E g \in [SUBSET T -> Nat] : SumsUp(w, T, g)
  <1> DEFINE D(n) == {s \in SUBSET T : Cardinality(s) <= n}
             Up(n, g) == /\ g \in [D(n) -> Nat]
                         /\ \A s \in D(n) : g[s] = IF s = {} THEN 0 ELSE w[Any(s)] + g[s \ {Any(s)}]
             Bad == {n \in Nat : ~\E g : Up(n, g)}
  <1>1. \A s \in SUBSET T : IsFiniteSet(s) /\ Cardinality(s) \in Nat /\ Cardinality(s) <= Cardinality(T)
    BY FS_Subset, FS_CardinalityType
  <1>2. Bad = {}
    <2> SUFFICES ASSUME Bad # {} PROVE FALSE
      OBVIOUS
    <2>1. PICK n \in Bad : \A m \in Bad : n <= m
      <3>1. Bad \subseteq Nat
        OBVIOUS
      <3> HIDE DEF Bad
      <3> QED
        BY <3>1, Least
    <2>2. n \in Nat /\ ~\E g : Up(n, g)
      OBVIOUS
    <2>3. CASE n = 0
      <3> DEFINE g == [s \in D(0) |-> 0]
      <3>1. \A s \in D(0) : s = {}
        BY <1>1, FS_EmptySet
      <3>2. Up(0, g)
        BY <3>1
      <3> QED
        BY <2>2, <2>3, <3>2
    <2>4. CASE n # 0
      <3>1. n - 1 \in Nat /\ ~(n <= n - 1)
        BY <2>2, <2>4
      <3>2. PICK g : Up(n - 1, g)
        BY <2>1, <3>1
      <3> DEFINE h == [s \in D(n) |-> IF s = {} THEN 0 ELSE w[Any(s)] + g[s \ {Any(s)}]]
      <3>3. ASSUME NEW s \in D(n), s # {}
            PROVE  Any(s) \in T /\ s \ {Any(s)} \in D(n - 1) /\ s \ {Any(s)} \in D(n)
        <4>1. Any(s) \in s /\ IsFiniteSet(s) /\ s \subseteq T /\ Cardinality(s) <= n
          BY <1>1, <3>3, AnyIs
        <4>2. Cardinality(s \ {Any(s)}) = Cardinality(s) - 1 /\ Cardinality(s) \in Nat
          BY <4>1, SmallerIs
        <4>3. Cardinality(s \ {Any(s)}) <= n - 1 /\ Cardinality(s \ {Any(s)}) <= n
          BY <2>2, <4>1, <4>2
        <4> QED
          BY <4>1, <4>3
      <3> HIDE DEF D
      <3>4. h \in [D(n) -> Nat]
        BY <3>2, <3>3
      <3>5. \A s \in D(n - 1) : s \in D(n)
        BY <1>1, <2>2 DEF D
      <3>6. \A s \in D(n - 1) : h[s] = g[s]
        BY <3>2, <3>5
      <3>7. \A s \in D(n) : h[s] = IF s = {} THEN 0 ELSE w[Any(s)] + h[s \ {Any(s)}]
        BY <3>3, <3>6
      <3> QED
        BY <2>2, <3>4, <3>7
    <2> QED
      BY <2>3, <2>4
  <1>3. Cardinality(T) \in Nat
    BY FS_CardinalityType
  <1>4. PICK g : Up(Cardinality(T), g)
    BY <1>2, <1>3
  <1>5. D(Cardinality(T)) = SUBSET T
    BY <1>1
  <1> HIDE DEF D
  <1>6. g \in [SUBSET T -> Nat] /\ \A s \in SUBSET T : g[s] = IF s = {} THEN 0 ELSE w[Any(s)] + g[s \ {Any(s)}]
    BY <1>4, <1>5
  <1>7. g = [s \in SUBSET T |-> IF s = {} THEN 0 ELSE w[Any(s)] + g[s \ {Any(s)}]]
    BY <1>6
  <1> QED
    BY <1>6, <1>7 DEF SumsUp

\* Two sums agree where their weights do.
LEMMA SumsAgree ==
  ASSUME NEW S, IsFiniteSet(S), NEW v, NEW w, \A x \in S : v[x] = w[x],
         NEW T, NEW U, S \subseteq T, S \subseteq U,
         NEW f, NEW g, SumsUp(v, T, f), SumsUp(w, U, g)
  PROVE  f[S] = g[S]
  <1> DEFINE Bad == {n \in Nat : \E s \in SUBSET S : Cardinality(s) = n /\ f[s] # g[s]}
  <1> SUFFICES ASSUME f[S] # g[S] PROVE FALSE
    OBVIOUS
  <1>1. Cardinality(S) \in Bad /\ Bad \subseteq Nat
    BY FS_CardinalityType
  <1>2. PICK n \in Bad : \A m \in Bad : n <= m
    <2> HIDE DEF Bad
    <2> QED
      BY <1>1, Least
  <1>3. PICK s \in SUBSET S : Cardinality(s) = n /\ f[s] # g[s]
    OBVIOUS
  <1>4. IsFiniteSet(s) /\ s \in SUBSET T /\ s \in SUBSET U
    BY FS_Subset
  <1>5. /\ f[s] = IF s = {} THEN 0 ELSE v[Any(s)] + f[s \ {Any(s)}]
        /\ g[s] = IF s = {} THEN 0 ELSE w[Any(s)] + g[s \ {Any(s)}]
    BY <1>4 DEF SumsUp
  <1>6. s # {}
    BY <1>3, <1>5
  <1>7. Any(s) \in s
    BY <1>6, AnyIs
  <1> DEFINE r == s \ {Any(s)}
  <1>8. Cardinality(r) \in Nat /\ Cardinality(r) = n - 1 /\ r \in SUBSET S
    BY <1>3, <1>4, <1>7, SmallerIs
  <1>9. f[r] = g[r]
    <2>1. n \in Nat /\ ~(n <= n - 1)
      BY <1>2
    <2>2. Cardinality(r) \notin Bad
      BY <1>2, <1>8, <2>1
    <2> HIDE DEF r
    <2> QED
      BY <1>8, <2>2
  <1> QED
    BY <1>3, <1>5, <1>6, <1>7, <1>9

LEMMA SumIs ==
  ASSUME NEW T, IsFiniteSet(T), NEW w, \A x \in T : w[x] \in Nat
  PROVE  /\ Sum(w, T) \in Nat
         /\ T = {} => Sum(w, T) = 0
         /\ T # {} => Any(T) \in T /\ Sum(w, T) = w[Any(T)] + Sum(w, T \ {Any(T)})
         /\ \A g : SumsUp(w, T, g) => g[T] = Sum(w, T)
  <1> DEFINE f == CHOOSE g : SumsUp(w, T, g)
  <1>1. SumsUp(w, T, f)
    BY SumsExist
  <1>2. PICK h \in [SUBSET T -> Nat] : SumsUp(w, T, h)
    BY SumsExist
  <1>3. Sum(w, T) = f[T]
    BY DEF Sum
  <1> HIDE DEF f
  <1>4. ASSUME NEW g, SumsUp(w, T, g) PROVE g[T] = f[T]
    BY <1>1, <1>4, SumsAgree
  <1>5. f[T] = h[T] /\ h[T] \in Nat
    BY <1>2, <1>4
  <1>6. f[T] = IF T = {} THEN 0 ELSE w[Any(T)] + f[T \ {Any(T)}]
    BY <1>1 DEF SumsUp
  <1>7. ASSUME T # {} PROVE Any(T) \in T /\ f[T \ {Any(T)}] = Sum(w, T \ {Any(T)})
    <2> DEFINE r == T \ {Any(T)}
               e == CHOOSE g : SumsUp(w, r, g)
    <2>1. Any(T) \in T
      BY <1>7, AnyIs
    <2>2. IsFiniteSet(r) /\ r \subseteq T
      BY FS_Subset
    <2> HIDE DEF r
    <2>3. SumsUp(w, r, e)
      BY <2>2, SumsExist
    <2>4. Sum(w, r) = e[r]
      BY DEF Sum
    <2> HIDE DEF e
    <2>5. e[r] = f[r]
      BY <1>1, <2>2, <2>3, SumsAgree
    <2> QED
      BY <2>1, <2>4, <2>5 DEF r
  <1> QED
    BY <1>3, <1>4, <1>5, <1>6, <1>7

LEMMA SumSame ==
  ASSUME NEW T, IsFiniteSet(T), NEW v, NEW w, \A x \in T : v[x] \in Nat /\ v[x] = w[x]
  PROVE  Sum(v, T) = Sum(w, T)
  <1> DEFINE f == CHOOSE g : SumsUp(v, T, g)
             h == CHOOSE g : SumsUp(w, T, g)
  <1>1. SumsUp(v, T, f) /\ SumsUp(w, T, h)
    BY SumsExist
  <1>2. Sum(v, T) = f[T] /\ Sum(w, T) = h[T]
    BY DEF Sum
  <1> HIDE DEF f, h
  <1> QED
    BY <1>1, <1>2, SumsAgree

\* A sum is any of its terms and the sum of the others.
LEMMA SumPick ==
  ASSUME NEW T, IsFiniteSet(T), NEW w, \A x \in T : w[x] \in Nat, NEW e \in T
  PROVE  Sum(w, T) = w[e] + Sum(w, T \ {e}) /\ Sum(w, T \ {e}) \in Nat
  <1> DEFINE Bad == {n \in Nat : \E s \in SUBSET T : Cardinality(s) = n /\ \E x \in s : Sum(w, s) # w[x] + Sum(w, s \ {x})}
  <1>0. \A s \in SUBSET T : IsFiniteSet(s) /\ Cardinality(s) \in Nat
    BY FS_Subset, FS_CardinalityType
  <1>1. Bad = {}
    <2> SUFFICES ASSUME Bad # {} PROVE FALSE
      OBVIOUS
    <2>1. PICK n \in Bad : \A m \in Bad : n <= m
      <3>1. Bad \subseteq Nat
        OBVIOUS
      <3> HIDE DEF Bad
      <3> QED
        BY <3>1, Least
    <2>12. PICK s \in SUBSET T : Cardinality(s) = n /\ \E x \in s : Sum(w, s) # w[x] + Sum(w, s \ {x})
      BY <2>1
    <2>2. PICK x \in s : n \in Nat /\ Cardinality(s) = n /\ Sum(w, s) # w[x] + Sum(w, s \ {x})
      BY <2>1, <2>12
    <2> DEFINE c == Any(s)
               r == s \ {c}
               u == s \ {x}
               b == s \ {c, x}
    <2>3. c \in s /\ Sum(w, s) = w[c] + Sum(w, r)
      BY <1>0, SumIs
    <2>4. c # x
      BY <2>2, <2>3
    <2>5. \A t \in SUBSET T : Cardinality(t) = n - 1 => \A y \in t : Sum(w, t) = w[y] + Sum(w, t \ {y})
      <3> SUFFICES ASSUME NEW t \in SUBSET T, Cardinality(t) = n - 1, NEW y \in t
                   PROVE  Sum(w, t) = w[y] + Sum(w, t \ {y})
        OBVIOUS
      <3>1. n - 1 \in Nat /\ ~(n <= n - 1)
        BY <1>0, <2>2
      <3>2. n - 1 \notin Bad
        BY <2>1, <3>1
      <3> QED
        BY <3>1, <3>2
    <2>6. Cardinality(r) = n - 1 /\ Cardinality(u) = n - 1 /\ r \in SUBSET T /\ u \in SUBSET T
      BY <1>0, <2>2, <2>3, SmallerIs
    <2>7. x \in r /\ c \in u /\ r \ {x} = b /\ u \ {c} = b
      BY <2>3, <2>4
    <2> HIDE DEF c, r, u, b
    <2>8. Sum(w, r) = w[x] + Sum(w, b) /\ Sum(w, u) = w[c] + Sum(w, b)
      BY <2>5, <2>6, <2>7
    <2>9. w[x] \in Nat /\ w[c] \in Nat
      BY <2>2, <2>3
    <2>10. Sum(w, b) \in Nat
      <3>1. b \in SUBSET T
        BY DEF b
      <3> QED
        BY <1>0, <3>1, SumIs
    <2> QED
      BY <2>2, <2>3, <2>8, <2>9, <2>10 DEF u
  <1>2. Cardinality(T) \notin Bad /\ T \in SUBSET T
    BY <1>1
  <1>3. Sum(w, T) = w[e] + Sum(w, T \ {e})
    BY <1>0, <1>2
  <1>4. IsFiniteSet(T \ {e})
    BY FS_Subset
  <1> QED
    BY <1>3, <1>4, SumIs

\* A part of a set has no larger sum.
LEMMA SumPart ==
  ASSUME NEW T, IsFiniteSet(T), NEW w, \A x \in T : w[x] \in Nat, NEW S, S \subseteq T
  PROVE  Sum(w, S) <= Sum(w, T) /\ Sum(w, S) \in Nat /\ Sum(w, T) \in Nat
  <1> DEFINE Bad == {n \in Nat : \E s \in SUBSET T : S \subseteq s /\ Cardinality(s) = n /\ ~(Sum(w, S) <= Sum(w, s))}
  <1>0. \A s \in SUBSET T : IsFiniteSet(s) /\ Cardinality(s) \in Nat
    BY FS_Subset, FS_CardinalityType
  <1>1. \A s \in SUBSET T : Sum(w, s) \in Nat
    BY <1>0, SumIs
  <1>2. Bad = {}
    <2> SUFFICES ASSUME Bad # {} PROVE FALSE
      OBVIOUS
    <2>1. PICK n \in Bad : \A m \in Bad : n <= m
      <3>1. Bad \subseteq Nat
        OBVIOUS
      <3> HIDE DEF Bad
      <3> QED
        BY <3>1, Least
    <2>2. PICK s \in SUBSET T : S \subseteq s /\ Cardinality(s) = n /\ ~(Sum(w, S) <= Sum(w, s))
      BY <2>1
    <2>3. PICK e \in s : e \notin S
      <3>1. Sum(w, S) \in Nat
        BY <1>1
      <3>2. S # s
        BY <2>2, <3>1
      <3> QED
        BY <2>2, <3>2
    <2> DEFINE r == s \ {e}
    <2>4. Sum(w, s) = w[e] + Sum(w, r) /\ w[e] \in Nat
      BY <1>0, SumPick
    <2>5. Cardinality(r) = n - 1 /\ n - 1 \in Nat /\ ~(n <= n - 1) /\ r \in SUBSET T /\ S \subseteq r
      <3>1. Cardinality(s \ {e}) = Cardinality(s) - 1 /\ Cardinality(s \ {e}) \in Nat /\ Cardinality(s) \in Nat
        BY <1>0, SmallerIs
      <3> QED
        BY <2>2, <2>3, <3>1
    <2> HIDE DEF r
    <2>6. Sum(w, S) <= Sum(w, r)
      <3>1. n - 1 \notin Bad
        BY <2>1, <2>5
      <3> QED
        BY <2>5, <3>1
    <2>7. Sum(w, S) \in Nat /\ Sum(w, r) \in Nat
      BY <1>1, <2>5
    <2> QED
      BY <2>2, <2>4, <2>6, <2>7
  <1>3. Cardinality(T) \notin Bad /\ T \in SUBSET T
    BY <1>2
  <1> QED
    BY <1>0, <1>1, <1>3

\* What the quota counts, of the rows r.
Weights(r) == [k \in Key |-> Size[r[k]]]
Bytes(r, S) == MapThenSumSet(LAMBDA k : Size[r[k]], S)

LEMMA BytesAre ==
  ASSUME NEW r, NEW S, S \subseteq Key, IsFiniteSet(S), \A k \in S : Size[r[k]] \in Nat
  PROVE  Bytes(r, S) = Sum(Weights(r), S) /\ \A k \in S : Weights(r)[k] \in Nat
  <1> DEFINE f == CHOOSE g : g = [s \in SUBSET S |-> IF s = {} THEN 0 ELSE LET x == CHOOSE x \in s : TRUE IN Size[r[x]] + g[s \ {x}]]
  <1>1. Bytes(r, S) = f[S]
    BY DEF Bytes, MapThenSumSet, MapThenFoldSet
  <1>2. PICK h : SumsUp(Weights(r), S, h)
    BY SumsExist DEF Weights
  <1>3. ASSUME NEW g
        PROVE  [s \in SUBSET S |-> IF s = {} THEN 0 ELSE LET x == CHOOSE x \in s : TRUE IN Size[r[x]] + g[s \ {x}]]
               = [s \in SUBSET S |-> IF s = {} THEN 0 ELSE Weights(r)[Any(s)] + g[s \ {Any(s)}]]
    <2>1. \A s \in SUBSET S : s # {} => Any(s) \in Key
      BY AnyIs
    <2>2. \A s \in SUBSET S : s # {} => Weights(r)[Any(s)] = Size[r[Any(s)]]
      BY <2>1 DEF Weights
    <2> QED
      BY <2>2 DEF Any
  <1>4. h = [s \in SUBSET S |-> IF s = {} THEN 0 ELSE LET x == CHOOSE x \in s : TRUE IN Size[r[x]] + h[s \ {x}]]
    BY <1>2, <1>3 DEF SumsUp
  <1>5. f = [s \in SUBSET S |-> IF s = {} THEN 0 ELSE LET x == CHOOSE x \in s : TRUE IN Size[r[x]] + f[s \ {x}]]
    BY <1>4
  <1>6. SumsUp(Weights(r), S, f)
    BY <1>3, <1>5 DEF SumsUp
  <1> HIDE DEF f
  <1>7. \A k \in S : Weights(r)[k] \in Nat
    BY DEF Weights
  <1> QED
    BY <1>1, <1>6, <1>7, SumIs

-----------------------------------------------------------------------------
(* Quotas. *)

\* What a put that has passed its check still has room for.
Within(p) ==
  op[p].pc \in {"rename", "save"} /\ op[p].quota # 0 /\ Live(p) =>
    Total(Stored \ {op[p].key}) + Size[op[p].content] <= op[p].quota + op[p].since

\* No id of a bucket is used again, so a bucket that has gone does not come back.
Ids ==
  /\ bucket # None => bucket.id < nextId
  /\ \A p \in Proc : op[p].id < nextId

QuotaInv == TypeOK /\ Control /\ IsFiniteSet(Stored) /\ Ids /\ \A p \in Proc : Within(p)

LEMMA BytesOf ==
  ASSUME NEW r \in [Key -> Content \cup {None}], NEW S, S \subseteq Key, IsFiniteSet(S),
         \A k \in S : r[k] # None
  PROVE  /\ Bytes(r, S) = Sum(Weights(r), S) /\ Bytes(r, S) \in Nat
         /\ \A k \in S : Weights(r)[k] = Size[r[k]] /\ Weights(r)[k] \in Nat
  <1>1. \A k \in S : Size[r[k]] \in Nat
    BY SizeAssumption
  <1>2. Bytes(r, S) = Sum(Weights(r), S) /\ \A k \in S : Weights(r)[k] \in Nat
    BY <1>1, BytesAre
  <1>3. Sum(Weights(r), S) \in Nat
    BY <1>2, SumIs
  <1>4. \A k \in S : Weights(r)[k] = Size[r[k]]
    BY DEF Weights
  <1> QED
    BY <1>2, <1>3, <1>4

\* Rows that go make nothing larger.
LEMMA BytesShrink ==
  ASSUME NEW r \in [Key -> Content \cup {None}], NEW s \in [Key -> Content \cup {None}],
         NEW S, S \subseteq Key, IsFiniteSet(S), \A k \in S : r[k] # None,
         NEW T, T \subseteq S, \A k \in T : s[k] = r[k]
  PROVE  Bytes(s, T) <= Bytes(r, S) /\ Bytes(s, T) \in Nat /\ Bytes(r, S) \in Nat
  <1>1. IsFiniteSet(T) /\ T \subseteq Key /\ \A k \in T : s[k] # None
    BY FS_Subset
  <1>2. /\ Bytes(r, S) = Sum(Weights(r), S)
        /\ \A k \in S : Weights(r)[k] = Size[r[k]] /\ Weights(r)[k] \in Nat
    BY BytesOf
  <1>3. /\ Bytes(s, T) = Sum(Weights(s), T)
        /\ \A k \in T : Weights(s)[k] = Size[s[k]] /\ Weights(s)[k] \in Nat
    BY <1>1, BytesOf
  <1>4. Sum(Weights(s), T) = Sum(Weights(r), T)
    BY <1>1, <1>2, <1>3, SumSame
  <1>5. Sum(Weights(r), T) <= Sum(Weights(r), S) /\ Sum(Weights(r), T) \in Nat /\ Sum(Weights(r), S) \in Nat
    BY <1>2, SumPart
  <1> QED
    BY <1>2, <1>3, <1>4, <1>5

\* A row that is written adds at most its own bytes.
LEMMA BytesGrow ==
  ASSUME NEW r \in [Key -> Content \cup {None}], NEW j \in Key, NEW c \in Content,
         NEW S, S \subseteq Key, IsFiniteSet(S), \A k \in S : r[k] # None,
         NEW T, T \subseteq S \cup {j}, c # None
  PROVE  /\ Bytes([r EXCEPT ![j] = c], T) <= Bytes(r, S) + Size[c]
         /\ Bytes([r EXCEPT ![j] = c], T) \in Nat /\ Bytes(r, S) \in Nat /\ Size[c] \in Nat
  <1> DEFINE s == [r EXCEPT ![j] = c]
             R == T \ {j}
  <1>1. /\ s \in [Key -> Content \cup {None}] /\ s[j] = c /\ \A k \in Key : k # j => s[k] = r[k]
        /\ R \subseteq S /\ T \subseteq Key /\ IsFiniteSet(S \cup {j}) /\ j \notin R
        /\ Size[c] \in Nat
    BY FS_AddElement, SizeAssumption
  <1>2. IsFiniteSet(T) /\ IsFiniteSet(R)
    BY <1>1, FS_Subset
  <1>a. \A k \in T : s[k] # None
    <2> HIDE DEF s
    <2> QED
      BY <1>1
  <1> HIDE DEF s
  <1>3. Bytes(s, R) <= Bytes(r, S) /\ Bytes(s, R) \in Nat /\ Bytes(r, S) \in Nat
    <2>1. \A k \in R : s[k] = r[k]
      BY <1>1
    <2> HIDE DEF R
    <2> QED
      BY <1>1, <2>1, BytesShrink
  <1>4. CASE j \in T
    <2>1. /\ Bytes(s, T) = Sum(Weights(s), T)
          /\ \A k \in T : Weights(s)[k] = Size[s[k]] /\ Weights(s)[k] \in Nat
      BY <1>1, <1>2, <1>a, BytesOf
    <2>2. Bytes(s, R) = Sum(Weights(s), R)
      BY <1>1, <1>2, <1>a, BytesOf
    <2>3. Sum(Weights(s), T) = Weights(s)[j] + Sum(Weights(s), R)
      BY <1>2, <1>4, <2>1, SumPick
    <2>4. Bytes(s, T) = Size[c] + Bytes(s, R)
      BY <1>1, <1>4, <2>1, <2>2, <2>3
    <2> HIDE DEF R
    <2> QED
      BY <1>1, <1>3, <2>4 DEF s
  <1>5. CASE j \notin T
    <2>1. R = T
      BY <1>5
    <2> HIDE DEF R
    <2> QED
      BY <1>1, <1>3, <2>1 DEF s
  <1> QED
    BY <1>4, <1>5

\* Another request's step changes of a request only what it counts as saved since.
LEMMA OthersCount ==
  ASSUME TypeOK, NEW p \in Proc, Acquire(p) \/ Step(p), NEW q \in Proc \ {p}
  PROVE  \/ op'[q] = op[q]
         \/ /\ SaveRow(p) /\ Live(p) /\ op[q].pc \in {"rename", "save"}
            /\ op'[q] = [op[q] EXCEPT !.since = @ + Size[op[p].content]]
  <1>1. CASE SaveRow(p)
    BY <1>1 DEF SaveRow
  <1>g. ASSUME NEW l, Goto(p, l) PROVE op'[q] = op[q]
    BY <1>g, GotoEffect
  <1>r. ASSUME Return(p) PROVE op'[q] = op[q]
    BY <1>r, ReturnEffect
  <1>n. ASSUME NextKey(p) PROVE op'[q] = op[q]
    BY <1>n, NextKeyEffect
  <1>2. CASE \/ Acquire(p) \/ MakeDirs(p) \/ MakeTemp(p) \/ Verify(p) \/ Publish(p)
             \/ DropRow(p) \/ Unlink(p) \/ Prune(p) \/ ListPrefix(p) \/ PickKey(p) \/ RemoveFolder(p)
    BY <1>2, <1>g, <1>r, <1>n DEF Acquire, MakeDirs, MakeTemp, Verify, Publish, DropRow, Unlink,
       Prune, ListPrefix, PickKey, RemoveFolder, TypeOK
  <1>3. CASE \/ InsertBucket(p) \/ Register(p) \/ MakeRoot(p) \/ Revoke(p) \/ Unregister(p)
             \/ TryLock(p) \/ CountRows(p) \/ DropBucket(p) \/ RemoveTree(p) \/ Forget(p)
    BY <1>3, <1>g, <1>r DEF InsertBucket, Register, MakeRoot, Revoke, Unregister, TryLock,
       CountRows, DropBucket, RemoveTree, Forget, Release, TypeOK
  <1>4. CASE \/ Prepare(p) \/ MoveEntry(p) \/ RecordPlace(p) \/ FailMove(p)
             \/ SwitchPlace(p) \/ ClearOld(p) \/ UndoEntry(p) \/ EndUndo(p)
    BY <1>4, <1>g, <1>r DEF Prepare, MoveEntry, RecordPlace, FailMove, SwitchPlace, ClearOld,
       UndoEntry, EndUndo, Release, TypeOK
  <1> QED
    BY <1>1, <1>2, <1>3, <1>4 DEF Step, ObjectStep, BucketStep

\* Only the check leads to the steps after it.
LEMMA PassesTheCheck ==
  ASSUME TypeOK, NEW p \in Proc, Acquire(p) \/ Step(p), op'[p].pc \in {"rename", "save"}
  PROVE  /\ \/ op[p].pc = "verify" /\ Fits(p)
            \/ op[p].pc = "rename"
         /\ op'[p].key = op[p].key /\ op'[p].content = op[p].content /\ op'[p].id = op[p].id
         /\ op'[p].quota = op[p].quota /\ op'[p].since = op[p].since
         /\ UNCHANGED <<bucket, rows>>
  <1>0. op[p] \in Request /\ NoOp.pc \notin {"rename", "save"}
    BY NoOpFields DEF TypeOK
  <1>g. ASSUME NEW l, Goto(p, l)
        PROVE  /\ op'[p].pc = l /\ op'[p].key = op[p].key /\ op'[p].content = op[p].content
               /\ op'[p].id = op[p].id /\ op'[p].quota = op[p].quota /\ op'[p].since = op[p].since
    <2>1. op'[p] = [op[p] EXCEPT !.pc = l]
      BY <1>g, GotoEffect
    <2> QED
      BY <1>0, <2>1 DEF Request
  <1>r. ~Return(p)
    BY <1>0, ReturnEffect
  <1>n. ~NextKey(p)
    <2> SUFFICES ASSUME NextKey(p) PROVE FALSE
      OBVIOUS
    <2>1. op'[p].pc \in {"next", "idle"}
      BY NextKeyKeeps, NoOpFields
    <2> QED
      BY <2>1
  <1>1. CASE Verify(p)
    BY <1>1, <1>g, <1>r DEF Verify, table
  <1>2. CASE Publish(p)
    BY <1>2, <1>g, <1>r DEF Publish, table
  <1>3. CASE Acquire(p) \/ Unlink(p) \/ ListPrefix(p) \/ PickKey(p)
    <2>1. op'[p].pc \in {"mkdir", "row", "prune", "next", "lock", "list", "folder"}
      <3>1. CASE Acquire(p)
        <4>1. op'[p] = [op[p] EXCEPT !.pc = IF op[p].kind = "put" THEN "mkdir" ELSE "row",
                                     !.base = IF op[p].kind = "put" THEN Place ELSE None]
          BY <3>1 DEF Acquire, TypeOK
        <4> QED
          BY <1>0, <4>1 DEF Request
      <3>2. CASE Unlink(p)
        <4>1. op'[p] = [op[p] EXCEPT !.pc = "prune", !.base = Place]
          BY <3>2, <1>n DEF Unlink, TypeOK
        <4> QED
          BY <1>0, <4>1 DEF Request
      <3>3. CASE ListPrefix(p)
        <4> DEFINE found == IF Live(p) THEN Stored \cap InDir ELSE {}
        <4>1. op'[p] = [op[p] EXCEPT !.todo = found, !.pass = @ + 1, !.pc = "next"]
          BY <3>3 DEF ListPrefix, TypeOK
        <4> HIDE DEF found
        <4> QED
          BY <1>0, <4>1 DEF Request
      <3>4. CASE PickKey(p)
        <4>1. CASE op[p].todo = {}
          <5>1. Goto(p, IF op[p].pass = 1 THEN "list" ELSE "folder")
            BY <3>4, <4>1 DEF PickKey
          <5>2. op'[p].pc = IF op[p].pass = 1 THEN "list" ELSE "folder"
            BY <1>g, <5>1
          <5> QED
            BY <5>2
        <4>2. CASE op[p].todo # {}
          <5>1. PICK k \in op[p].todo :
                  op' = [op EXCEPT ![p].key = k, ![p].todo = @ \ {k}, ![p].pc = "lock"]
            BY <3>4, <4>2 DEF PickKey
          <5>2. op'[p] = [op[p] EXCEPT !.key = k, !.todo = @ \ {k}, !.pc = "lock"]
            BY <5>1 DEF TypeOK
          <5> QED
            BY <1>0, <5>2 DEF Request
        <4> QED
          BY <4>1, <4>2
      <3> QED
        BY <1>3, <3>1, <3>2, <3>3, <3>4
    <2> QED
      BY <2>1
  <1>4. CASE MakeDirs(p) \/ MakeTemp(p) \/ SaveRow(p) \/ DropRow(p) \/ Prune(p) \/ RemoveFolder(p)
    <2>1. ~SaveRow(p)
      BY <1>0 DEF SaveRow
    <2>2. ~MakeDirs(p) /\ ~MakeTemp(p)
      BY <1>g, <1>r DEF MakeDirs, MakeTemp
    <2>3. ~DropRow(p) /\ ~Prune(p) /\ ~RemoveFolder(p)
      BY <1>g, <1>r, <1>n DEF DropRow, Prune, RemoveFolder
    <2> QED
      BY <1>4, <2>1, <2>2, <2>3
  <1>5. CASE BucketStep(p)
    <2>1. ~InsertBucket(p) /\ ~Register(p) /\ ~MakeRoot(p) /\ ~Revoke(p) /\ ~Unregister(p)
      BY <1>g, <1>r DEF InsertBucket, Register, MakeRoot, Revoke, Unregister
    <2>2. ~TryLock(p) /\ ~CountRows(p) /\ ~DropBucket(p) /\ ~RemoveTree(p) /\ ~Forget(p)
      BY <1>g, <1>r DEF TryLock, CountRows, DropBucket, RemoveTree, Forget, Release
    <2>3. ~RecordPlace(p) /\ ~FailMove(p) /\ ~SwitchPlace(p) /\ ~ClearOld(p) /\ ~EndUndo(p)
      BY <1>g, <1>r DEF RecordPlace, FailMove, SwitchPlace, ClearOld, EndUndo, Release
    <2>4. ~Prepare(p)
      <3> SUFFICES ASSUME Prepare(p) PROVE FALSE
        OBVIOUS
      <3> DEFINE found == Entries(op[p].from)
      <3>1. op'[p] = [op[p] EXCEPT !.todo = found, !.pc = "move"]
        BY DEF Prepare, TypeOK
      <3> HIDE DEF found
      <3> QED
        BY <1>0, <3>1 DEF Request
    <2>5. ~MoveEntry(p)
      <3> SUFFICES ASSUME MoveEntry(p) PROVE FALSE
        OBVIOUS
      <3>1. PICK e \in op[p].todo :
              \/ op' = [op EXCEPT ![p].todo = @ \ {e}, ![p].moved = @ \cup {e}]
              \/ Goto(p, "undo")
        BY DEF MoveEntry
      <3>2. CASE Goto(p, "undo")
        BY <1>g, <3>2
      <3>3. CASE op' = [op EXCEPT ![p].todo = @ \ {e}, ![p].moved = @ \cup {e}]
        <4>1. op'[p] = [op[p] EXCEPT !.todo = @ \ {e}, !.moved = @ \cup {e}]
          BY <3>3 DEF TypeOK
        <4>2. op'[p].pc = op[p].pc
          BY <1>0, <4>1 DEF Request
        <4> QED
          BY <4>2 DEF MoveEntry
      <3> QED
        BY <3>1, <3>2, <3>3
    <2>6. ~UndoEntry(p)
      <3> SUFFICES ASSUME UndoEntry(p) PROVE FALSE
        OBVIOUS
      <3>1. PICK e \in op[p].moved : op' = [op EXCEPT ![p].moved = @ \ {e}]
        BY DEF UndoEntry
      <3>2. op'[p] = [op[p] EXCEPT !.moved = @ \ {e}]
        BY <3>1 DEF TypeOK
      <3>3. op'[p].pc = op[p].pc
        BY <1>0, <3>2 DEF Request
      <3> QED
        BY <3>3 DEF UndoEntry
    <2> QED
      BY <1>5, <2>1, <2>2, <2>3, <2>4, <2>5, <2>6 DEF BucketStep
  <1> QED
    BY <1>1, <1>2, <1>3, <1>4, <1>5 DEF Step, ObjectStep

\* The bucket goes, stays the same one, or is new under the next id.
LEMMA NextId ==
  ASSUME TypeOK, NEW p \in Proc, Acquire(p) \/ Step(p)
  PROVE  \/ bucket' = None /\ nextId' = nextId
         \/ bucket # None /\ bucket'.id = bucket.id /\ nextId' = nextId
         \/ bucket'.id = nextId /\ nextId' = nextId + 1
  <1>1. CASE InsertBucket(p)
    <2>1. CASE bucket = None
      <3>1. bucket' = [id |-> nextId, dir |-> AsDir(op[p].base), quota |-> 0] /\ nextId' = nextId + 1
        BY <1>1, <2>1 DEF InsertBucket
      <3> QED
        BY <3>1
    <2>2. CASE bucket # None
      BY <1>1, <2>2 DEF InsertBucket
    <2> QED
      BY <2>1, <2>2
  <1>2. CASE Revoke(p) \/ DropBucket(p)
    BY <1>2 DEF Revoke, DropBucket
  <1>3. CASE RecordPlace(p)
    <2>1. CASE bucket = None
      BY <1>3, <2>1 DEF RecordPlace
    <2>2. CASE bucket # None
      <3>1. bucket' = [bucket EXCEPT !.dir = AsDir(op[p].base)] /\ bucket \in BucketRow
        BY <1>3, <2>2 DEF RecordPlace, TypeOK
      <3>2. bucket'.id = bucket.id
        BY <3>1 DEF BucketRow
      <3>3. nextId' = nextId
        BY <1>3, <2>2 DEF RecordPlace
      <3> QED
        BY <2>2, <3>2, <3>3
    <2> QED
      BY <2>1, <2>2
  <1>4. CASE ~InsertBucket(p) /\ ~Revoke(p) /\ ~DropBucket(p) /\ ~RecordPlace(p)
    <2>1. bucket' = bucket /\ nextId' = nextId
      BY <1>4 DEF Acquire, Step, ObjectStep, BucketStep, MakeDirs, MakeTemp, Verify, Publish,
             SaveRow, DropRow, Unlink, Prune, ListPrefix, PickKey, RemoveFolder, Register,
             MakeRoot, Unregister, TryLock, CountRows, RemoveTree, Forget, Prepare, MoveEntry,
             FailMove, SwitchPlace, ClearOld, UndoEntry, EndUndo, table
    <2> QED
      BY <2>1
  <1> QED
    BY <1>1, <1>2, <1>3, <1>4

LEMMA IdsStep ==
  ASSUME TypeOK, Control, Ids, NEW p \in Proc, Acquire(p) \/ Step(p)
  PROVE  Ids' /\ \A q \in Proc : op'[q].pc # "idle" /\ Live(q)' => Live(q)
  <1>1. nextId \in Nat /\ \A q \in Proc : op[q].id \in Nat
    BY DEF TypeOK, Request
  <1>2. NoOp.id = 0 /\ 0 < nextId
    <2>1. op[p].id < nextId /\ op[p].id \in Nat
      BY <1>1 DEF Ids
    <2> QED
      BY <1>1, <2>1 DEF NoOp
  <1>3. \A q \in Proc : op'[q].id = op[q].id \/ op'[q].id = 0
    BY <1>2, ControlStep DEF GoesOn, Kept
  <1>4. nextId' \in {nextId, nextId + 1}
    BY NextId
  <1>5. \A q \in Proc : op'[q].id < nextId'
    BY <1>1, <1>2, <1>3, <1>4 DEF Ids
  <1>6. bucket' # None => bucket'.id < nextId'
    <2>1. bucket # None => bucket.id \in Nat /\ bucket.id < nextId
      BY DEF Ids, TypeOK, BucketRow
    <2> QED
      BY <1>1, <2>1, NextId
  <1>7. ASSUME NEW q \in Proc, op'[q].pc # "idle", Live(q)' PROVE Live(q)
    <2>1. bucket' # None /\ bucket'.id = op'[q].id
      BY <1>7 DEF Live
    <2>2. op'[q].id = op[q].id
      BY <1>7, ControlStep, NoOpFields DEF GoesOn, Kept
    <2>3. op[q].id < nextId /\ op[q].id \in Nat
      BY <1>1 DEF Ids
    <2>4. bucket # None /\ bucket'.id = bucket.id
      BY <1>1, <2>1, <2>2, <2>3, NextId
    <2> QED
      BY <2>1, <2>2, <2>4 DEF Live
  <1> QED
    BY <1>5, <1>6, <1>7 DEF Ids

\* The rows a put counts, after a step.
LEMMA RowsStep ==
  ASSUME TypeOK, Control, IsFiniteSet(Stored), NEW p \in Proc, Acquire(p) \/ Step(p)
  PROVE  /\ IsFiniteSet(Stored') /\ Stored' \subseteq Key
         /\ ~SaveRow(p) => \A k \in Stored' : k \in Stored /\ rows'[k] = rows[k]
         /\ SaveRow(p) /\ Live(p) => /\ op[p].key \in Key /\ op[p].content \in Content
                                     /\ rows' = [rows EXCEPT ![op[p].key] = op[p].content]
                                     /\ Stored' = Stored \cup {op[p].key}
         /\ SaveRow(p) /\ ~Live(p) => rows' = rows
  <1>1. CASE ~SaveRow(p)
    <2>1. \A k \in Stored' : k \in Stored /\ rows'[k] = rows[k]
      BY <1>1, RowsGo DEF Stored
    <2>2. IsFiniteSet(Stored')
      BY <2>1, FS_Subset
    <2> QED
      BY <1>1, <2>1, <2>2 DEF Stored
  <1>2. CASE SaveRow(p)
    <2>1. op[p].key \in Key /\ op[p].content \in Content
      <3>1. op[p] \in Request /\ Consistent(op[p]) /\ op[p].pc = "save"
        BY <1>2 DEF TypeOK, Control, Placed, SaveRow
      <3> QED
        BY <3>1, KindsOfSteps DEF Consistent
    <2>2. CASE Live(p)
      <3>1. rows' = [rows EXCEPT ![op[p].key] = op[p].content] /\ op[p].content # None
        BY <1>2, <2>1, <2>2, NoneAssumption DEF SaveRow
      <3>2. Stored' = Stored \cup {op[p].key}
        BY <2>1, <3>1 DEF Stored, TypeOK
      <3> QED
        <4>1. IsFiniteSet(Stored') /\ Stored' \subseteq Key
          <5>1. IsFiniteSet(Stored \cup {op[p].key}) /\ Stored \subseteq Key
            BY FS_AddElement DEF Stored
          <5> QED
            BY <2>1, <3>2, <5>1
        <4> QED
          BY <1>2, <2>1, <2>2, <3>1, <3>2, <4>1
    <2>3. CASE ~Live(p)
      BY <1>2, <2>3 DEF SaveRow, Stored
    <2> QED
      BY <2>2, <2>3
  <1> QED
    BY <1>1, <1>2

LEMMA TotalBytes ==
  /\ \A S : Total(S) = Bytes(rows, S)
  /\ \A p \in Proc : Within(p)' <=>
       (op'[p].pc \in {"rename", "save"} /\ op'[p].quota # 0 /\ Live(p)' =>
          Bytes(rows', Stored' \ {op'[p].key}) + Size[op'[p].content] <= op'[p].quota + op'[p].since)
  <1>1. ASSUME NEW S PROVE Total(S) = Bytes(rows, S)
    BY DEF Total, Bytes
  <1>2. ASSUME NEW p \in Proc
        PROVE  (Total(Stored \ {op[p].key}))' = Bytes(rows', Stored' \ {op'[p].key})
    BY DEF Total, Bytes, MapThenSumSet, MapThenFoldSet
  <1>3. ASSUME NEW p \in Proc
        PROVE  Within(p)' <=>
                 (op'[p].pc \in {"rename", "save"} /\ op'[p].quota # 0 /\ Live(p)' =>
                    (Total(Stored \ {op[p].key}))' + Size[op'[p].content] <= op'[p].quota + op'[p].since)
    BY DEF Within
  <1> QED
    BY <1>1, <1>2, <1>3

\* What a step adds to the bytes beside a key, it adds to what the others count.
LEMMA CountedStep ==
  ASSUME TypeOK, Control, IsFiniteSet(Stored), NEW p \in Proc, Acquire(p) \/ Step(p), NEW k
  PROVE  /\ Bytes(rows, Stored \ {k}) \in Nat /\ Bytes(rows', Stored' \ {k}) \in Nat
         /\ ~(SaveRow(p) /\ Live(p)) => Bytes(rows', Stored' \ {k}) <= Bytes(rows, Stored \ {k})
         /\ SaveRow(p) /\ Live(p) =>
              /\ Size[op[p].content] \in Nat
              /\ Bytes(rows', Stored' \ {k}) <= Bytes(rows, Stored \ {k}) + Size[op[p].content]
  <1>2. rows \in [Key -> Content \cup {None}] /\ rows' \in [Key -> Content \cup {None}]
    BY TypeObject, TypeBucket DEF TypeOK, Control, Step
  <1>3. /\ IsFiniteSet(Stored \ {k}) /\ Stored \ {k} \subseteq Key
        /\ \A j \in Stored \ {k} : rows[j] # None
    BY FS_Subset DEF Stored
  <1>4. CASE ~(SaveRow(p) /\ Live(p))
    <2>1. Stored' \ {k} \subseteq Stored \ {k} /\ \A j \in Stored' \ {k} : rows'[j] = rows[j]
      BY <1>4, RowsStep DEF Stored
    <2> QED
      BY <1>2, <1>3, <1>4, <2>1, BytesShrink
  <1>5. CASE SaveRow(p) /\ Live(p)
    <2>1. /\ op[p].key \in Key /\ op[p].content \in Content /\ op[p].content # None
          /\ rows' = [rows EXCEPT ![op[p].key] = op[p].content]
          /\ Stored' \ {k} \subseteq (Stored \ {k}) \cup {op[p].key}
      BY <1>5, RowsStep, NoneAssumption
    <2> QED
      BY <1>2, <1>3, <1>5, <2>1, BytesGrow
  <1> QED
    BY <1>4, <1>5

LEMMA WithinStep ==
  ASSUME TypeOK, Control, IsFiniteSet(Stored), Ids, \A q \in Proc : Within(q),
         NEW p \in Proc, Acquire(p) \/ Step(p), NEW q \in Proc
  PROVE  Within(q)'
  <1> DEFINE k == op[q].key
             c == op[q].content
  <1> SUFFICES ASSUME op'[q].pc \in {"rename", "save"}, op'[q].quota # 0, Live(q)'
               PROVE  Bytes(rows', Stored' \ {op'[q].key}) + Size[op'[q].content] <= op'[q].quota + op'[q].since
    BY TotalBytes DEF Within
  <1>1. Live(q)
    BY IdsStep
  <1>2. op[q] \in Request /\ Consistent(op[q]) /\ op[q].since \in Nat /\ op[q].quota \in Nat
    BY DEF TypeOK, Control, Placed, Request
  <1>3. CASE q = p
    <2>1. /\ op'[q].key = k /\ op'[q].content = c /\ op'[q].quota = op[q].quota
          /\ op'[q].since = op[q].since /\ rows' = rows
          /\ (op[q].pc = "verify" /\ Fits(q)) \/ op[q].pc = "rename"
      BY <1>3, PassesTheCheck
    <2>2. Bytes(rows, Stored \ {k}) + Size[c] <= op[q].quota + op[q].since
      <3>1. CASE op[q].pc = "rename"
        BY <1>1, <2>1, <3>1, TotalBytes DEF Within
      <3>2. CASE op[q].pc = "verify" /\ Fits(q)
        <4>1. Bytes(rows, Stored \ {k}) + Size[c] <= op[q].quota
          BY <1>1, <2>1, <3>2, TotalBytes DEF Fits
        <4>2. Bytes(rows, Stored \ {k}) \in Nat /\ Size[c] \in Nat
          BY <1>2, <3>2, CountedStep, KindsOfSteps, SizeAssumption DEF Consistent
        <4> QED
          BY <1>2, <4>1, <4>2
      <3> QED
        BY <2>1, <3>1, <3>2
    <2>3. Bytes(rows', Stored' \ {k}) = Bytes(rows, Stored \ {k})
      BY <2>1 DEF Stored
    <2> QED
      BY <2>1, <2>2, <2>3
  <1>4. CASE q # p
    <2>1. /\ op[q].pc \in {"rename", "save"} /\ op'[q].key = k /\ op'[q].content = c
          /\ op'[q].quota = op[q].quota
          /\ op'[q].since = IF SaveRow(p) /\ Live(p) THEN op[q].since + Size[op[p].content]
                            ELSE op[q].since
      <3>1. Kept(q)
        BY <1>4, ControlStep
      <3>2. op[q].pc \in {"rename", "save"}
        BY <3>1 DEF Kept
      <3>3. CASE SaveRow(p) /\ Live(p)
        <4>1. op'[q] = [op[q] EXCEPT !.since = @ + Size[op[p].content]]
          BY <1>4, <3>2, <3>3 DEF SaveRow
        <4> QED
          BY <1>2, <3>2, <3>3, <4>1 DEF Request
      <3>4. CASE ~(SaveRow(p) /\ Live(p))
        BY <1>4, <3>2, <3>4, OthersCount
      <3> QED
        BY <3>3, <3>4
    <2>2. Bytes(rows, Stored \ {k}) + Size[c] <= op[q].quota + op[q].since
      BY <1>1, <2>1, TotalBytes DEF Within
    <2>3. Size[c] \in Nat
      BY <1>2, <2>1, KindsOfSteps, SizeAssumption DEF Consistent
    <2>4. /\ Bytes(rows, Stored \ {k}) \in Nat /\ Bytes(rows', Stored' \ {k}) \in Nat
          /\ ~(SaveRow(p) /\ Live(p)) => Bytes(rows', Stored' \ {k}) <= Bytes(rows, Stored \ {k})
          /\ SaveRow(p) /\ Live(p) =>
               /\ Size[op[p].content] \in Nat
               /\ Bytes(rows', Stored' \ {k}) <= Bytes(rows, Stored \ {k}) + Size[op[p].content]
      BY CountedStep
    <2> HIDE DEF k, c
    <2>5. Bytes(rows', Stored' \ {k}) + Size[c] <= op'[q].quota + op'[q].since
      BY <1>2, <2>1, <2>2, <2>3, <2>4
    <2> QED
      BY <2>1, <2>5
  <1> QED
    BY <1>3, <1>4

\* A request that is new knows an id that has been given out.
LEMMA FreshId ==
  ASSUME TypeOK, Ids, NEW p \in Proc, Begin(p) PROVE op'[p].id < nextId
  <1>1. CASE BeginCreate(p)
    <2>1. PICK b \in Base :
            Arrive(p, "create", [NoOp EXCEPT !.kind = "create", !.pc = "insert", !.base = b])
      BY <1>1 DEF BeginCreate
    <2>2. op'[p].id = 0
      BY <2>1 DEF Arrive, TypeOK, NoOp
    <2>3. op[p].id < nextId /\ op[p].id \in Nat /\ nextId \in Nat
      BY DEF Ids, TypeOK, Request
    <2> QED
      BY <2>2, <2>3
  <1>2. CASE ~BeginCreate(p)
    <2>1. op'[p].kind # "create"
      <3>1. PICK kind \in AllKinds \ {"create"}, r \in Request : Load(p, kind, r)
        <4>1. CASE BeginPut(p)
          <5>1. PICK k \in Key, c \in Content :
                  Load(p, "put", [NoOp EXCEPT !.pc = "lock", !.key = k, !.content = c])
            BY <4>1 DEF BeginPut
          <5>2. [NoOp EXCEPT !.pc = "lock", !.key = k, !.content = c] \in Request
            BY NoOpType DEF Request, Steps
          <5> QED
            BY <5>1, <5>2 DEF AllKinds
        <4>2. CASE BeginDelete(p)
          <5>1. PICK k \in Key : Load(p, "delete", [NoOp EXCEPT !.pc = "lock", !.key = k])
            BY <4>2 DEF BeginDelete
          <5>2. [NoOp EXCEPT !.pc = "lock", !.key = k] \in Request
            BY NoOpType DEF Request, Steps
          <5> QED
            BY <5>1, <5>2 DEF AllKinds
        <4>3. CASE BeginPrefix(p)
          <5>1. [NoOp EXCEPT !.pc = "list"] \in Request
            BY NoOpType DEF Request, Steps
          <5> QED
            BY <4>3, <5>1 DEF BeginPrefix, AllKinds
        <4>4. CASE BeginDrop(p)
          <5>1. PICK kind \in Drops :
                  Load(p, kind, [NoOp EXCEPT !.pc = IF kind = "drop" THEN "count" ELSE "trylock"])
            BY <4>4 DEF BeginDrop
          <5>2. [NoOp EXCEPT !.pc = IF kind = "drop" THEN "count" ELSE "trylock"] \in Request
            BY NoOpType DEF Request, Steps, DropSteps
          <5> QED
            BY <5>1, <5>2 DEF AllKinds, Drops
        <4>5. CASE BeginMove(p)
          <5>1. PICK b \in Base \ {Recorded} :
                  Load(p, "move", [NoOp EXCEPT !.pc = "trylock", !.base = b])
            BY <4>5 DEF BeginMove
          <5>2. [NoOp EXCEPT !.pc = "trylock", !.base = b] \in Request
            BY NoOpType DEF Request, Steps, DropSteps
          <5> QED
            BY <5>1, <5>2 DEF AllKinds
        <4> QED
          BY <1>2, <4>1, <4>2, <4>3, <4>4, <4>5 DEF Begin
      <3> QED
        BY <3>1, LoadEffect
    <2> QED
      BY <2>1, BeginEffect DEF Fresh, Ids
  <1> QED
    BY <1>1, <1>2

LEMMA QuotaInvariance == Spec => []QuotaInv
  <1>1. Init => QuotaInv
    <2> SUFFICES ASSUME Init PROVE QuotaInv
      OBVIOUS
    <2>1. TypeOK /\ Control
      BY InitHolds DEF IInv
    <2>2. Stored = {} /\ IsFiniteSet({})
      BY FS_EmptySet DEF Init, Stored
    <2>3. \A p \in Proc : op[p] = NoOp
      BY DEF Init
    <2>4. Ids
      BY <2>3 DEF Ids, Init, NoOp
    <2>5. \A p \in Proc : Within(p)
      BY <2>3, NoOpFields DEF Within
    <2> QED
      BY <2>1, <2>2, <2>4, <2>5 DEF QuotaInv
  <1>2. QuotaInv /\ [Next]_vars => QuotaInv'
    <2> SUFFICES ASSUME QuotaInv, [Next]_vars PROVE QuotaInv'
      OBVIOUS
    <2> USE DEF QuotaInv
    <2>1. (TypeOK /\ Control)'
      BY TypeStep
    <2>2. CASE \E p \in Proc : Begin(p)
      <3>1. PICK p \in Proc : Begin(p)
        BY <2>2
      <3>2. /\ op'[p].pc \notin {"rename", "save"} /\ \A q \in Proc \ {p} : op'[q] = op[q]
            /\ bucket' = bucket /\ rows' = rows /\ nextId' = nextId
        BY <3>1, BeginEffect DEF Fresh, table
      <3>3. Ids'
        BY <3>1, <3>2, FreshId DEF Ids
      <3>4. \A q \in Proc : Within(q)'
        <4>1. Stored' = Stored /\ \A q \in Proc : Live(q)' <=> (bucket # None /\ bucket.id = op'[q].id)
          BY <3>2 DEF Stored, Live
        <4> QED
          BY <3>2, <4>1, TotalBytes DEF Within, Live
      <3> QED
        BY <2>1, <3>2, <3>3, <3>4 DEF Stored
    <2>3. CASE \E p \in Proc : Acquire(p) \/ Step(p)
      <3>1. PICK p \in Proc : Acquire(p) \/ Step(p)
        BY <2>3
      <3>2. IsFiniteSet(Stored') /\ Ids' /\ \A q \in Proc : Within(q)'
        BY <3>1, RowsStep, IdsStep, WithinStep
      <3> QED
        BY <2>1, <3>2
    <2>4. CASE \E q \in Quotas : SetQuota(q)
      <3>1. /\ bucket # None /\ bucket'.id = bucket.id /\ bucket' # None
            /\ rows' = rows /\ nextId' = nextId /\ op' = op
        BY <2>4, QuotaType DEF SetQuota
      <3> QED
        <4>1. Stored' = Stored /\ \A q \in Proc : Live(q)' <=> Live(q)
          BY <3>1 DEF Stored, Live
        <4>2. Ids' /\ \A q \in Proc : Within(q)'
          BY <3>1, <4>1, TotalBytes DEF Ids, Within
        <4> QED
          BY <2>1, <4>1, <4>2
    <2>5. CASE Crash
      <3>1. /\ \A p \in Proc : op'[p] = NoOp
            /\ bucket' = bucket /\ rows' = rows /\ nextId' = nextId
        BY <2>5 DEF Crash, table
      <3>2. Ids'
        <4>1. \A p \in Proc : op[p].id \in Nat /\ op[p].id < nextId /\ nextId \in Nat
          BY DEF Ids, TypeOK, Request
        <4> QED
          BY <3>1, <4>1 DEF Ids, NoOp
      <3>3. \A p \in Proc : Within(p)'
        BY <3>1, NoOpFields DEF Within
      <3> QED
        BY <2>1, <3>1, <3>2, <3>3 DEF Stored
    <2>6. CASE UNCHANGED vars
      <3>1. bucket' = bucket /\ rows' = rows /\ nextId' = nextId /\ op' = op
        BY <2>6 DEF vars, table
      <3>2. Stored' = Stored /\ \A q \in Proc : Live(q)' <=> Live(q)
        BY <3>1 DEF Stored, Live
      <3>3. Ids' /\ \A q \in Proc : Within(q)'
        BY <3>1, <3>2, TotalBytes DEF Ids, Within
      <3> QED
        BY <2>1, <3>2, <3>3
    <2> QED
      BY <2>2, <2>3, <2>4, <2>5, <2>6 DEF Next
  <1> QED
    BY <1>1, <1>2, PTL DEF Spec

-----------------------------------------------------------------------------
(* The theorems. *)

\* The state, and every request's step and fields, are what the code's types and control
\* flow say, whatever requests overlap and wherever they fail (storage/filesystem.go,
\* admin/buckets.go, admin/objects.go).
THEOREM TypeCorrect == Spec => [](TypeOK /\ Control)
  <1>1. Init => TypeOK /\ Control
    BY InitHolds DEF IInv
  <1>2. TypeOK /\ Control /\ [Next]_vars => (TypeOK /\ Control)'
    BY TypeStep
  <1> QED
    BY <1>1, <1>2, PTL DEF Spec

LEMMA Invariance == ASSUME Apart PROVE Spec => []IInv
  <1>1. Init => IInv
    BY InitHolds
  <1>2. IInv /\ [Next]_vars => IInv'
    <2> SUFFICES ASSUME IInv, [Next]_vars PROVE IInv'
      OBVIOUS
    <2>1. CASE \E p \in Proc : Begin(p) \/ Acquire(p) \/ Step(p)
      BY <2>1, BeginHolds, StepHolds
    <2>2. CASE \E q \in Quotas : SetQuota(q)
      BY <2>2, QuotaHolds
    <2>3. CASE Crash
      BY <2>3, CrashHolds
    <2>4. CASE UNCHANGED vars
      BY <2>4, StutterHolds
    <2> QED
      BY <2>1, <2>2, <2>3, <2>4 DEF Next
  <1> QED
    BY <1>1, <1>2, PTL DEF Spec

\* In a settled state nobody is between two steps of a creation, a move or a delete.
LEMMA SettledQuiet ==
  ASSUME IInv, Settled
  PROVE  /\ \A p \in Proc : op[p].pc \notin Between \cup {"move", "undo"}
         /\ \A p \in Proc : \A k : ~Moved(p, k)
  <1> SUFFICES ASSUME NEW p \in Proc PROVE op[p].pc \notin Between \cup {"move", "undo"}
    BY DEF Moved
  <1>1. op[p] \in Request /\ Consistent(op[p]) /\ op[p].kind \in {"none", "put", "delete"}
    BY DEF IInv, TypeOK, Control, Placed, Settled
  <1> QED
    BY <1>1, KindsOfSteps DEF Between, Drops

\* File operations look where the table says the bucket is (storage/filesystem.go:69,
\* admin/buckets.go:432), whatever removals and rollbacks fail, until the row of a bucket
\* without its directory could not be deleted (admin/buckets.go:167).
THEOREM MapIsTheTable == ASSUME Apart PROVE Spec => []MapMatchesTable
  <1>1. IInv => MapMatchesTable
    BY SettledQuiet, MapIsRight DEF IInv, MapInv, MapMatchesTable
  <1> QED
    BY <1>1, Invariance, PTL

\* Every object of the table can be read: no creation, move, failed move or restart
\* separates a row from its file (admin/buckets.go:432), whatever removals fail; until a
\* rollback itself failed (admin/buckets.go:314), or such a row stayed.
THEOREM RowsHaveFiles == ASSUME Apart PROVE Spec => []ObjectsAreReachable
  <1>1. IInv => ObjectsAreReachable
    BY SettledQuiet DEF IInv, Files, Reach, ObjectsAreReachable
  <1> QED
    BY <1>1, Invariance, PTL

\* Until a crash cuts a request off or a failure is only logged, no base keeps bytes that
\* no row describes (README.md:206, admin/buckets.go rollbackMoves).
THEOREM FilesHaveRows == ASSUME Apart PROVE Spec => []NoStrayBytes
  <1>1. IInv => NoStrayBytes
    <2> SUFFICES ASSUME IInv, Settled, crashes = 0, ignored = {}, NEW k \in Key, NEW b \in Base,
                        Quiet(k), file[b][k] # None
                 PROVE  b = Recorded /\ rows[k] # None
      BY DEF NoStrayBytes
    <2>1. Described(b, k)
      BY DEF IInv, Files, Tidy, Clean
    <2>2. \A p \in Proc : op[p].key = k => op[p].pc \notin {"save", "unlink"}
      BY DEF Quiet, Locked
    <2> QED
      BY <2>1, <2>2, SettledQuiet DEF Described, Between
  <1> QED
    BY <1>1, Invariance, PTL

\* A write takes a bucket over the limit its request knew by no more than other writers
\* saved between its check and its commit, whatever else happens to the bucket meanwhile
\* (service/objects.go:240).
THEOREM OvershootStaysBounded == Spec => QuotaOvershootIsBounded
  <1>1. QuotaInv /\ [Next]_vars =>
          [\A p \in Proc :
             op[p].pc = "save" /\ op[p].quota # 0 /\ op'[p] = NoOp /\ rows' # rows
               => Total(Stored)' <= op[p].quota + op[p].since]_vars
    <2> SUFFICES ASSUME QuotaInv, Next, NEW p \in Proc,
                        op[p].pc = "save", op[p].quota # 0, op'[p] = NoOp, rows' # rows
                 PROVE  Total(Stored)' <= op[p].quota + op[p].since
      OBVIOUS
    <2> USE DEF QuotaInv
    <2>0. op[p] \in Request /\ Consistent(op[p]) /\ op[p].kind = "put"
      BY KindsOfSteps DEF TypeOK, Control, Placed
    <2>1. Acquire(p) \/ Step(p)
      <3>1. PICK q \in Proc : Acquire(q) \/ Step(q)
        <4>1. ~Crash /\ ~(\E x \in Quotas : SetQuota(x))
          BY DEF Crash, SetQuota, table
        <4>2. \A q \in Proc : ~Begin(q)
          BY BeginEffect DEF table
        <4> QED
          BY <4>1, <4>2 DEF Next
      <3>2. CASE q # p
        <4>1. op'[p].kind = "put"
          BY <2>0, <3>1, <3>2, ControlStep DEF Kept
        <4> QED
          BY <4>1, NoOpFields
      <3> QED
        BY <3>1, <3>2
    <2>2. SaveRow(p) /\ Live(p)
      <3>1. SaveRow(p)
        BY <2>1 DEF Acquire, Step, ObjectStep, BucketStep, MakeDirs, MakeTemp, Verify, Publish,
           SaveRow, DropRow, Unlink, Prune, ListPrefix, PickKey, RemoveFolder, InsertBucket,
           Register, MakeRoot, Revoke, Unregister, TryLock, CountRows, DropBucket, RemoveTree,
           Forget, Prepare, MoveEntry, RecordPlace, FailMove, SwitchPlace, ClearOld, UndoEntry, EndUndo
      <3> QED
        BY <3>1 DEF SaveRow
    <2> DEFINE k == op[p].key
               c == op[p].content
    <2>3. /\ k \in Key /\ c \in Content /\ c # None /\ rows' = [rows EXCEPT ![k] = c]
          /\ Stored' = (Stored \ {k}) \cup {k}
      BY <2>1, <2>2, RowsStep, NoneAssumption
    <2>4. Bytes(rows', Stored') <= Bytes(rows, Stored \ {k}) + Size[c]
      <3>1. /\ IsFiniteSet(Stored \ {k}) /\ Stored \ {k} \subseteq Key
            /\ \A j \in Stored \ {k} : rows[j] # None
        BY FS_Subset DEF Stored
      <3> HIDE DEF k, c
      <3> QED
        BY <2>3, <3>1, BytesGrow DEF TypeOK
    <2>5. Bytes(rows, Stored \ {k}) + Size[c] <= op[p].quota + op[p].since
      BY <2>2, TotalBytes DEF Within
    <2>6. Bytes(rows, Stored \ {k}) \in Nat /\ Size[c] \in Nat /\ Bytes(rows', Stored') \in Nat
      <3>1. /\ IsFiniteSet(Stored \ {k}) /\ Stored \ {k} \subseteq Key
            /\ \A j \in Stored \ {k} : rows[j] # None
        BY FS_Subset DEF Stored
      <3> HIDE DEF k, c
      <3> QED
        BY <2>3, <3>1, BytesGrow DEF TypeOK
    <2>7. Total(Stored)' = Bytes(rows', Stored')
      BY DEF Total, Bytes, MapThenSumSet, MapThenFoldSet
    <2>8. op[p].quota \in Nat /\ op[p].since \in Nat
      BY <2>0 DEF Request
    <2> HIDE DEF k, c
    <2> QED
      BY <2>4, <2>5, <2>6, <2>7, <2>8
  <1> QED
    BY <1>1, QuotaInvariance, PTL DEF Spec, QuotaOvershootIsBounded
===============================================================================
