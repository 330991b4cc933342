-------------------------------- MODULE Buckets --------------------------------
(***************************************************************************)
(* The life of one bucket name: its row, the directory its objects are in,  *)
(* and the requests that create, fill, move and delete it                   *)
(* (admin/buckets.go, handler/bucket.go, admin/objects.go handleDeletePrefix, *)
(* storage/filesystem.go).  A bucket's location is kept twice: in the       *)
(* buckets table, and in the map of custom directories that every file      *)
(* operation consults.  Requests load the bucket's row first and act on that *)
(* copy; only storage moves and admin deletes exclude each other, and object *)
(* requests exclude only requests for the same key.                         *)
(*                                                                          *)
(* The bucket is unversioned and has one directory below its root, which    *)
(* the keys InDir share.  What a failed Put leaves is ObjectStore's subject: *)
(* here a Put fails for its quota, its directory or its bucket.  The sibling *)
(* trees for parts and derived images move and go with the bucket's tree.   *)
(***************************************************************************)
EXTENDS Integers, FiniteSets, FiniteSetsExt

CONSTANTS
  Key,          \* object keys
  InDir,        \* the keys below the bucket's directory
  Content,      \* contents of objects
  Size,         \* Size[c]: the length of c
  Base,         \* directories that hold buckets
  Root,         \* the configured root directory
  None,         \* no bucket, object, file or custom directory
  Quotas,       \* limits an administrator sets; 0 is unlimited
  Proc,         \* concurrent requests
  Kinds,        \* kinds of request that arrive
  Together,     \* sets of kinds: requests overlap if one of these has both kinds
  Uncut,        \* kinds of request that no crash cuts off
  MaxRequests,  \* bound: requests that arrive
  MaxFaults,    \* bound: database or disk operations that fail
  Ignorable,    \* failures that may happen and are only logged
  MaxCrashes    \* bound: crashes of the process

Drops    == {"drop", "adminDrop", "forceDrop"}
\* What fails without ending the request: the removal of bytes, a step of a rollback, the
\* removal of a new bucket's row.
Logged   == {"removal", "rollback", "revocation"}
AllKinds == {"create", "put", "delete", "prefix", "move"} \cup Drops

\* The row of a bucket: its id, its custom directory if it has one, and its quota.
BucketRow == [id : Nat, dir : (Base \ {Root}) \cup {None}, quota : Nat]

ASSUME PlaceAssumption == Root \in Base /\ InDir \subseteq Key
ASSUME NameAssumption  == Key \cap Proc = {} /\ "dir" \notin Key \cup Proc
ASSUME NoneAssumption  == None \notin Key \cup Content \cup Base \cup BucketRow
ASSUME SizeAssumption  == Size \in [Content -> Nat \ {0}]
ASSUME KindAssumption  == Kinds \subseteq AllKinds /\ Together \subseteq SUBSET AllKinds
ASSUME QuotaAssumption == Quotas \subseteq Nat
ASSUME LogAssumption   == Ignorable \subseteq Logged
ASSUME BoundAssumption == MaxRequests \in Nat /\ MaxFaults \in Nat /\ MaxCrashes \in Nat

VARIABLES
  bucket,    \* the row of the bucket: id, custom directory and quota; or None
  rows,      \* rows[k]: the content k's row describes; rows of a bucket go with it
  custom,    \* the custom directory the process has for the name
  busy,      \* a storage move or an admin delete has marked the name
  top,       \* top[b]: the bucket's directory exists in b
  sub,       \* sub[b]: so does the directory of the keys InDir
  file,      \* file[b][k]: the content of k's file in b
  temp,      \* temp[p]: the base where p's temporary file is
  op,        \* op[p]: the request and the step it is at
  nextId,    \* the next id of a bucket (AUTOINCREMENT)
  ignored,   \* kinds of failure that were logged and otherwise ignored
  requests, faults, crashes

table  == <<bucket, rows, nextId>>
disk   == <<top, sub, file, temp>>
bounds == <<requests, faults, crashes, ignored>>
vars   == <<table, custom, busy, disk, op, bounds>>

\* Where file operations look, and where the table says the bucket is.
Place    == IF custom = None THEN Root ELSE custom
Recorded == IF bucket = None \/ bucket.dir = None THEN Root ELSE bucket.dir
AsDir(b) == IF b = Root THEN None ELSE b

NoOp == [kind |-> "none", pc |-> "idle", key |-> None, content |-> None, id |-> 0,
         quota |-> 0, from |-> None, base |-> None, todo |-> {}, moved |-> {},
         pass |-> 0, since |-> 0]

Init ==
  /\ bucket = None
  /\ rows = [k \in Key |-> None]
  /\ nextId = 1
  /\ custom = None
  /\ busy = FALSE
  /\ top = [b \in Base |-> FALSE]
  /\ sub = [b \in Base |-> FALSE]
  /\ file = [b \in Base |-> [k \in Key |-> None]]
  /\ temp = [p \in Proc |-> None]
  /\ op = [p \in Proc |-> NoOp]
  /\ requests = 0
  /\ faults = 0
  /\ crashes = 0
  /\ ignored = {}

Goto(p, l) == op' = [op EXCEPT ![p].pc = l]
Return(p)  == op' = [op EXCEPT ![p] = NoOp]

\* One operation of the kind that can fail fails.
Fault   == faults < MaxFaults /\ faults' = faults + 1 /\ UNCHANGED <<requests, crashes, ignored>>
NoFault == UNCHANGED bounds

\* One fails and the request goes on.
Ignore(kind) ==
  kind \in Ignorable /\ ignored' = ignored \cup {kind} /\ UNCHANGED <<requests, faults, crashes>>

\* The bucket p loaded is still there: ids are never used again.
Live(p) == bucket # None /\ bucket.id = op[p].id

\* A request arrives with the fields of r.
Arrive(p, kind, r) ==
  /\ op[p] = NoOp
  /\ kind \in Kinds
  /\ requests < MaxRequests
  /\ \A q \in Proc : op[q] # NoOp => \E S \in Together : {kind, op[q].kind} \subseteq S
  /\ requests' = requests + 1
  /\ op' = [op EXCEPT ![p] = r]
  /\ UNCHANGED <<table, custom, busy, disk, faults, crashes, ignored>>

\* A request for an existing bucket starts with its row.
Load(p, kind, r) ==
  /\ bucket # None
  /\ Arrive(p, kind, [r EXCEPT !.kind = kind, !.id = bucket.id, !.quota = bucket.quota,
                               !.from = Recorded])

-----------------------------------------------------------------------------
(* Directories and files. *)

\* What lies directly in the bucket's directory in b: files, temporary files and "dir".
Entries(b) ==
  {k \in Key \ InDir : file[b][k] # None}
    \cup {p \in Proc : temp[p] = b /\ op[p].key \notin InDir}
    \cup (IF sub[b] THEN {"dir"} ELSE {})

\* What lies in the directory below it.
InSub(b) ==
  {k \in InDir : file[b][k] # None} \cup {p \in Proc : temp[p] = b /\ op[p].key \in InDir}

\* Rename of an entry from one base to another; "dir" takes along what is in it.
Rename(e, from, to) ==
  LET taken == IF e = "dir" THEN InSub(from) ELSE {e}
      all   == IF e = "dir" THEN InDir ELSE {e} \cap Key
  IN /\ file' = [file EXCEPT
                   ![to]   = [k \in Key |-> IF k \in all THEN file[from][k] ELSE @[k]],
                   ![from] = [k \in Key |-> IF k \in all THEN None ELSE @[k]]]
     /\ temp' = [p \in Proc |-> IF p \in taken THEN to ELSE temp[p]]
     /\ sub'  = IF e = "dir" THEN [sub EXCEPT ![from] = FALSE, ![to] = TRUE] ELSE sub
     /\ UNCHANGED top

\* What lies anywhere in the bucket's directory in b.
InTree(b) == {k \in Key : file[b][k] # None} \cup {p \in Proc : temp[p] = b}

\* os.RemoveAll of what is there, all of which is in S: some of it stays if it fails.
RemoveAll(b, S, stay) ==
  /\ file' = [file EXCEPT ![b] = [k \in Key |-> IF k \in S \ stay THEN None ELSE @[k]]]
  /\ temp' = [q \in Proc |-> IF q \in S \ stay THEN None ELSE temp[q]]
  /\ sub'  = IF InSub(b) \cap stay = {} THEN [sub EXCEPT ![b] = FALSE] ELSE sub
  /\ IF stay = {} THEN NoFault ELSE Ignore("removal")

-----------------------------------------------------------------------------
(* Objects.Put, unversioned, and its quota. *)

Total(S) == MapThenSumSet(LAMBDA k : Size[rows[k]], S)

Stored == {k \in Key : rows[k] # None}

\* checkQuota: the usage, less the object that is overwritten, and the new bytes.
Fits(p) ==
  \/ op[p].quota = 0
  \/ LET counted == IF Live(p) THEN Stored \ {op[p].key} ELSE {}
     IN Total(counted) + Size[op[p].content] <= op[p].quota

\* The check of a declared length refuses early and changes nothing.
BeginPut(p) ==
  \E k \in Key, c \in Content :
    Load(p, "put", [NoOp EXCEPT !.pc = "lock", !.key = k, !.content = c])

\* Steps at which a request holds its key's mutex.
Locked == {"mkdir", "temp", "verify", "rename", "save", "row", "unlink", "prune"}

\* The path is made under the mutex, from the map as it is now.
Acquire(p) ==
  /\ op[p].pc = "lock"
  /\ \A q \in Proc : op[q].key = op[p].key => op[q].pc \notin Locked
  /\ op' = [op EXCEPT ![p].pc = IF op[p].kind = "put" THEN "mkdir" ELSE "row",
                      ![p].base = IF op[p].kind = "put" THEN Place ELSE None]
  /\ UNCHANGED <<table, custom, busy, disk, bounds>>

\* writeAtomic: MkdirAll of the file's directory.
MakeDirs(p) ==
  /\ op[p].pc = "mkdir"
  /\ top' = [top EXCEPT ![op[p].base] = TRUE]
  /\ sub' = IF op[p].key \in InDir THEN [sub EXCEPT ![op[p].base] = TRUE] ELSE sub
  /\ Goto(p, "temp")
  /\ UNCHANGED <<table, custom, busy, file, temp, bounds>>

\* CreateTemp, which fails when the directory has been removed again.
MakeTemp(p) ==
  /\ op[p].pc = "temp"
  /\ LET b == op[p].base
     IN IF IF op[p].key \in InDir THEN sub[b] ELSE top[b]
          THEN temp' = [temp EXCEPT ![p] = b] /\ Goto(p, "verify")
          ELSE Return(p) /\ UNCHANGED temp
  /\ UNCHANGED <<table, custom, busy, top, sub, file, bounds>>

\* Faulty variant: the check of the declared length is the only one.
Verify_Unchecked(p) ==
  /\ op[p].pc = "verify"
  /\ Goto(p, "rename")
  /\ UNCHANGED <<table, custom, busy, disk, bounds>>

\* The bytes are there: Verify checks the quota with their real length.
Verify(p) ==
  /\ op[p].pc = "verify"
  /\ IF Fits(p)
       THEN Goto(p, "rename") /\ UNCHANGED temp
       ELSE Return(p) /\ temp' = [temp EXCEPT ![p] = None]
  /\ UNCHANGED <<table, custom, busy, top, sub, file, bounds>>

\* The rename finds the temporary file only where it was made.
Publish(p) ==
  /\ op[p].pc = "rename"
  /\ temp' = [temp EXCEPT ![p] = None]
  /\ IF temp[p] = op[p].base
       THEN file' = [file EXCEPT ![temp[p]][op[p].key] = op[p].content] /\ Goto(p, "save")
       ELSE Return(p) /\ UNCHANGED file
  /\ UNCHANGED <<table, custom, busy, top, sub, bounds>>

\* The row refers to the bucket by id: the foreign key refuses it when the bucket
\* has gone, and the bytes stay.
SaveRow(p) ==
  /\ op[p].pc = "save"
  /\ rows' = IF Live(p) THEN [rows EXCEPT ![op[p].key] = op[p].content] ELSE rows
  /\ op' = [q \in Proc |->
              IF q = p THEN NoOp
              ELSE IF Live(p) /\ op[q].pc \in {"rename", "save"}
                     THEN [op[q] EXCEPT !.since = @ + Size[op[p].content]]
              ELSE op[q]]
  /\ UNCHANGED <<bucket, nextId, custom, busy, disk, bounds>>

-----------------------------------------------------------------------------
(* Objects.Delete and DeleteAllVersions, and the admin delete of a prefix. *)

BeginDelete(p) ==
  \E k \in Key : Load(p, "delete", [NoOp EXCEPT !.pc = "lock", !.key = k])

\* After a key, a prefix delete goes on with its next one.
NextKey(p) ==
  op' = [op EXCEPT ![p] = IF op[p].kind = "prefix"
                            THEN [@ EXCEPT !.pc = "next", !.key = None] ELSE NoOp]

\* The rows of the key in the bucket that was loaded.
DropRow(p) ==
  /\ op[p].pc = "row"
  /\ \/ /\ rows' = IF Live(p) THEN [rows EXCEPT ![op[p].key] = None] ELSE rows
        /\ IF rows' # rows THEN Goto(p, "unlink") ELSE NextKey(p)
        /\ NoFault
     \/ Fault /\ NextKey(p) /\ UNCHANGED rows
  /\ UNCHANGED <<bucket, nextId, custom, busy, disk>>

\* Faulty variant: the custom directory is not consulted.
Unlink_InRoot(p) ==
  /\ op[p].pc = "unlink"
  /\ file' = [file EXCEPT ![Root][op[p].key] = None]
  /\ op' = [op EXCEPT ![p].pc = "prune", ![p].base = Root]
  /\ UNCHANGED <<table, custom, busy, top, sub, temp, bounds>>

\* DeleteObject: the file goes by the bucket's name, wherever the name leads now.  The
\* failure to remove it is logged.
Unlink(p) ==
  /\ op[p].pc = "unlink"
  /\ \/ /\ file' = [file EXCEPT ![Place][op[p].key] = None]
        /\ op' = [op EXCEPT ![p].pc = "prune", ![p].base = Place]
        /\ NoFault
     \/ /\ file[Place][op[p].key] # None
        /\ Ignore("removal")
        /\ NextKey(p)
        /\ UNCHANGED file
  /\ UNCHANGED <<table, custom, busy, top, sub, temp>>

\* cleanEmptyParents removes the directory if nothing is in it.
Prune(p) ==
  /\ op[p].pc = "prune"
  /\ sub' = IF op[p].key \in InDir /\ InSub(op[p].base) = {}
              THEN [sub EXCEPT ![op[p].base] = FALSE] ELSE sub
  /\ NextKey(p)
  /\ UNCHANGED <<table, custom, busy, top, file, temp, bounds>>

BeginPrefix(p) == Load(p, "prefix", [NoOp EXCEPT !.pc = "list"])

\* deletePrefix lists twice: a key whose delete failed is tried again by the sweep.
ListPrefix(p) ==
  /\ op[p].pc = "list"
  /\ op' = [op EXCEPT ![p].todo = IF Live(p) THEN Stored \cap InDir ELSE {},
                      ![p].pass = @ + 1, ![p].pc = "next"]
  /\ UNCHANGED <<table, custom, busy, disk, bounds>>

PickKey(p) ==
  /\ op[p].pc = "next"
  /\ IF op[p].todo = {}
       THEN Goto(p, IF op[p].pass = 1 THEN "list" ELSE "folder")
       ELSE \E k \in op[p].todo :
              op' = [op EXCEPT ![p].key = k, ![p].todo = @ \ {k}, ![p].pc = "lock"]
  /\ UNCHANGED <<table, custom, busy, disk, bounds>>

\* DeletePrefix removes the directory with whatever is in it by now; its failure is logged.
RemoveFolder(p) ==
  /\ op[p].pc = "folder"
  /\ \E stay \in SUBSET InSub(Place) : RemoveAll(Place, InSub(Place), stay)
  /\ Return(p)
  /\ UNCHANGED <<table, custom, busy, top>>

-----------------------------------------------------------------------------
(* handleCreateBucket. *)

BeginCreate(p) ==
  /\ bucket = None
  /\ \E b \in Base : Arrive(p, "create", [NoOp EXCEPT !.kind = "create", !.pc = "insert", !.base = b])

\* The name is unique: a second insert fails.
InsertBucket(p) ==
  /\ op[p].pc = "insert"
  /\ IF bucket = None
       THEN /\ bucket' = [id |-> nextId, dir |-> AsDir(op[p].base), quota |-> 0]
            /\ nextId' = nextId + 1
            /\ Goto(p, IF op[p].base = Root THEN "mkroot" ELSE "register")
       ELSE Return(p) /\ UNCHANGED <<bucket, nextId>>
  /\ UNCHANGED <<rows, custom, busy, disk, bounds>>

Register(p) ==
  /\ op[p].pc = "register"
  /\ custom' = op[p].base
  /\ Goto(p, "mkroot")
  /\ UNCHANGED <<table, busy, disk, bounds>>

MakeRoot(p) ==
  /\ op[p].pc = "mkroot"
  /\ \/ top' = [top EXCEPT ![op[p].base] = TRUE] /\ Return(p) /\ NoFault
     \/ Fault /\ Goto(p, "revoke") /\ UNCHANGED top
  /\ UNCHANGED <<table, custom, busy, sub, file, temp>>

\* Faulty variant: the custom directory stays registered.
Revoke_KeepsMap(p) ==
  /\ op[p].pc = "revoke"
  /\ bucket' = None
  /\ rows' = [k \in Key |-> None]
  /\ Return(p)
  /\ UNCHANGED <<nextId, custom, busy, disk, bounds>>

\* Without its directory the bucket is taken back, by name; if its row cannot be deleted
\* the request goes on all the same.
Revoke(p) ==
  /\ op[p].pc = "revoke"
  /\ \/ bucket' = None /\ rows' = [k \in Key |-> None] /\ NoFault
     \/ Ignore("revocation") /\ UNCHANGED <<bucket, rows>>
  /\ IF op[p].base = Root THEN Return(p) ELSE Goto(p, "unregister")
  /\ UNCHANGED <<nextId, custom, busy, disk>>

Unregister(p) ==
  /\ op[p].pc = "unregister"
  /\ custom' = None
  /\ Return(p)
  /\ UNCHANGED <<table, busy, disk, bounds>>

-----------------------------------------------------------------------------
(* DeleteBucket of the S3 handler, and handleDeleteBucket with and without force. *)

BeginDrop(p) ==
  \E kind \in Drops :
    Load(p, kind, [NoOp EXCEPT !.pc = IF kind = "drop" THEN "count" ELSE "trylock"])

\* tryLockBucket: the name may be busy.
TryLock(p) ==
  /\ op[p].pc = "trylock"
  /\ IF busy THEN Return(p) /\ UNCHANGED busy
             ELSE busy' = TRUE /\ Goto(p, IF op[p].kind = "move" THEN "prepare" ELSE "count")
  /\ UNCHANGED <<table, custom, disk, bounds>>

\* The deferred unlockBucket.
Release(p) == Return(p) /\ busy' = (busy /\ op[p].kind = "drop")

\* BucketHasAnyRows, of the bucket that was loaded.
CountRows(p) ==
  /\ op[p].pc = "count"
  /\ IF Live(p) /\ Stored # {} /\ op[p].kind # "forceDrop"
       THEN Release(p) ELSE Goto(p, "drop") /\ UNCHANGED busy
  /\ UNCHANGED <<table, custom, disk, bounds>>

\* DELETE ... WHERE name = ?: the rows go with the bucket.
DropBucket(p) ==
  /\ op[p].pc = "drop"
  /\ \/ /\ bucket' = None
        /\ rows' = [k \in Key |-> None]
        /\ Goto(p, "tree")
        /\ NoFault
        /\ UNCHANGED busy
     \/ Fault /\ Release(p) /\ UNCHANGED <<bucket, rows>>
  /\ UNCHANGED <<nextId, custom, disk>>

\* DeleteBucketDir removes the tree, or what it can of it ...
RemoveTree(p) ==
  /\ op[p].pc = "tree"
  /\ \E stay \in SUBSET InTree(Place) :
       /\ RemoveAll(Place, InTree(Place), stay)
       /\ top' = IF stay = {} THEN [top EXCEPT ![Place] = FALSE] ELSE top
  /\ Goto(p, "forget")
  /\ UNCHANGED <<table, custom, busy>>

\* ... and forgets the custom directory in any case.
Forget(p) ==
  /\ op[p].pc = "forget"
  /\ custom' = None
  /\ Release(p)
  /\ UNCHANGED <<table, disk, bounds>>

-----------------------------------------------------------------------------
(* handleSetStorage. *)

\* The old location is that of the row, which was loaded before TryLock.
BeginMove(p) ==
  \E b \in Base \ {Recorded} : Load(p, "move", [NoOp EXCEPT !.pc = "trylock", !.base = b])

\* Both directories are made, and the entries of the old one are read.
Prepare(p) ==
  /\ op[p].pc = "prepare"
  /\ top' = [top EXCEPT ![op[p].from] = TRUE, ![op[p].base] = TRUE]
  /\ op' = [op EXCEPT ![p].todo = Entries(op[p].from), ![p].pc = "move"]
  /\ UNCHANGED <<table, custom, busy, sub, file, temp, bounds>>

\* moveTree: one rename, unless the destination has the entry or the source lost it.
MoveEntry(p) ==
  /\ op[p].pc = "move"
  /\ \E e \in op[p].todo :
       IF e \in Entries(op[p].from) \ Entries(op[p].base)
         THEN /\ Rename(e, op[p].from, op[p].base)
              /\ op' = [op EXCEPT ![p].todo = @ \ {e}, ![p].moved = @ \cup {e}]
         ELSE Goto(p, "undo") /\ UNCHANGED disk
  /\ UNCHANGED <<table, custom, busy, bounds>>

\* SetBucketStorageDir, by name, once every entry has been moved.
RecordPlace(p) ==
  /\ op[p].pc = "move"
  /\ op[p].todo = {}
  /\ bucket' = IF bucket = None THEN None ELSE [bucket EXCEPT !.dir = AsDir(op[p].base)]
  /\ Goto(p, "switch")
  /\ UNCHANGED <<rows, nextId, custom, busy, disk, bounds>>

\* Faulty variant: what has been moved stays where it is.
FailMove_NoRollback(p) ==
  /\ op[p].pc = "move"
  /\ Fault
  /\ Release(p)
  /\ UNCHANGED <<table, custom, disk>>

\* A rename or the update of the row fails.
FailMove(p) ==
  /\ op[p].pc = "move"
  /\ Fault
  /\ Goto(p, "undo")
  /\ UNCHANGED <<table, custom, busy, disk>>

\* SetBucketDir or RemoveBucketDir: file operations follow.
SwitchPlace(p) ==
  /\ op[p].pc = "switch"
  /\ custom' = AsDir(op[p].base)
  /\ Goto(p, "clear")
  /\ UNCHANGED <<table, busy, disk, bounds>>

\* The old directory is removed if nothing came into it meanwhile.
ClearOld(p) ==
  /\ op[p].pc = "clear"
  /\ top' = [top EXCEPT ![op[p].from] = Entries(op[p].from) # {}]
  /\ Release(p)
  /\ UNCHANGED <<table, custom, sub, file, temp, bounds>>

\* rollbackMoves: one rename back, over a file that is there now; a directory
\* replaces only an empty one.  What cannot be moved back stays, and a log entry says so.
UndoEntry(p) ==
  /\ op[p].pc = "undo"
  /\ \E e \in op[p].moved :
       /\ \/ /\ IF /\ e \in Entries(op[p].base)
                   /\ e = "dir" => InSub(op[p].from) = {}
                  THEN Rename(e, op[p].base, op[p].from)
                  ELSE UNCHANGED disk
             /\ NoFault
          \/ Ignore("rollback") /\ UNCHANGED disk
       /\ op' = [op EXCEPT ![p].moved = @ \ {e}]
  /\ UNCHANGED <<table, custom, busy>>

\* Faulty variant: the mark is not removed on this path.
EndUndo_StaysBusy(p) ==
  /\ op[p].pc = "undo"
  /\ op[p].moved = {}
  /\ top' = [top EXCEPT ![op[p].base] = Entries(op[p].base) # {}]
  /\ Return(p)
  /\ UNCHANGED <<table, custom, busy, sub, file, temp, bounds>>

\* The directory that was made for the move goes, if it is empty.
EndUndo(p) ==
  /\ op[p].pc = "undo"
  /\ op[p].moved = {}
  /\ top' = [top EXCEPT ![op[p].base] = Entries(op[p].base) # {}]
  /\ Release(p)
  /\ UNCHANGED <<table, custom, sub, file, temp, bounds>>

-----------------------------------------------------------------------------

\* handleSetQuota: one update, by name.
SetQuota(q) ==
  /\ bucket # None
  /\ bucket.quota # q
  /\ bucket' = [bucket EXCEPT !.quota = q]
  /\ UNCHANGED <<rows, nextId, custom, busy, disk, op, bounds>>

\* The process dies and starts again: the map is loaded from the table.
Crash ==
  /\ crashes < MaxCrashes
  /\ \A p \in Proc : op[p].kind \notin Uncut
  /\ crashes' = crashes + 1
  /\ op' = [p \in Proc |-> NoOp]
  /\ temp' = [p \in Proc |-> None]
  /\ busy' = FALSE
  /\ custom' = IF bucket = None THEN None ELSE bucket.dir
  /\ UNCHANGED <<table, top, sub, file, requests, faults, ignored>>

Begin(p) ==
  BeginPut(p) \/ BeginDelete(p) \/ BeginPrefix(p) \/ BeginCreate(p) \/ BeginDrop(p) \/ BeginMove(p)

ObjectStep(p) ==
  \/ MakeDirs(p) \/ MakeTemp(p) \/ Verify(p) \/ Publish(p) \/ SaveRow(p)
  \/ DropRow(p) \/ Unlink(p) \/ Prune(p) \/ ListPrefix(p) \/ PickKey(p) \/ RemoveFolder(p)

BucketStep(p) ==
  \/ InsertBucket(p) \/ Register(p) \/ MakeRoot(p) \/ Revoke(p) \/ Unregister(p)
  \/ TryLock(p) \/ CountRows(p) \/ DropBucket(p) \/ RemoveTree(p) \/ Forget(p)
  \/ Prepare(p) \/ MoveEntry(p) \/ RecordPlace(p) \/ FailMove(p)
  \/ SwitchPlace(p) \/ ClearOld(p) \/ UndoEntry(p) \/ EndUndo(p)

Step(p) == ObjectStep(p) \/ BucketStep(p)

Next ==
  \/ \E p \in Proc : Begin(p) \/ Acquire(p) \/ Step(p)
  \/ \E q \in Quotas : SetQuota(q)
  \/ Crash

Spec == Init /\ [][Next]_vars

\* A running goroutine keeps running.  Nothing is assumed of one that waits for a mutex:
\* those that mark a name wait for none.
FairSpec == Spec /\ \A p \in Proc : WF_vars(Step(p))

-----------------------------------------------------------------------------
(* Properties. *)

\* No request that changes where the bucket is or whether it exists is running.
Settled == \A p \in Proc : op[p].kind \in {"none", "put", "delete"}

\* The requests that hold no mutex of key k.
Quiet(k) == \A p \in Proc : op[p].key = k => op[p].pc \notin Locked

\* Every object of the table has its file where the table says the bucket is, after
\* any sequence of creations, moves, failed moves, deletes and restarts
\* (admin/buckets.go:432: the location is persisted only after every byte is in place),
\* whatever removals fail; not after a rollback that failed, or a row that should have gone.
ObjectsAreReachable ==
  Settled /\ ignored \subseteq {"removal"} =>
    \A k \in Key : rows[k] # None /\ Quiet(k) => file[Recorded][k] # None

\* No base keeps bytes that no row describes: moves that failed are undone, and deletes
\* of buckets and folders take the bytes along (README.md:206).  A crash may leave the
\* bytes of the request it cut off, and so does every failure that is only logged.
NoStrayBytes ==
  Settled /\ crashes = 0 /\ ignored = {} =>
    \A k \in Key, b \in Base : Quiet(k) /\ file[b][k] # None => b = Recorded /\ rows[k] # None

\* The location that file operations use is the one in the table, whatever removals and
\* rollbacks fail; not when the row of a bucket without a directory could not be deleted.
MapMatchesTable == Settled /\ "revocation" \notin ignored => Place = Recorded

\* A write takes a bucket over the limit its request knew only by what other writers
\* saved between its check and its commit: the check is made on the bytes that arrived,
\* and what it credits for an overwrite is the object it replaces (service/objects.go:240).
QuotaOvershootIsBounded ==
  [][\A p \in Proc :
       op[p].pc = "save" /\ op[p].quota # 0 /\ op'[p] = NoOp /\ rows' # rows
         => Total(Stored)' <= op[p].quota + op[p].since]_vars

\* A name marked busy is freed again, whatever fails (admin/admin.go:386).
BusyBucketsAreReleased == busy ~> ~busy
================================================================================
