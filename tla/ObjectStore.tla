----------------------------- MODULE ObjectStore -----------------------------
(***************************************************************************)
(* The object service of one bucket (service/objects.go): every write and  *)
(* delete of an object, whichever front end asked for it, goes through Put, *)
(* Delete or DeleteAllVersions.  An object lives in two stores that no      *)
(* transaction spans: its rows in SQLite (one per key and version id) and   *)
(* its bytes on disk.  Requests run concurrently, writers of one key under  *)
(* a striped mutex, readers without it; the process may die between any     *)
(* two steps, and a database write may fail.                                *)
(*                                                                          *)
(* Bytes are identified with their MD5, so a row's etag and a file's        *)
(* content come from one set Content.  The optimizer of derived images is   *)
(* off (its default); derived images are made by reads that ask for one.    *)
(***************************************************************************)
EXTENDS Naturals

CONSTANTS
  Key,            \* object keys
  Content,        \* contents, identified with their etags
  Real,           \* version ids NewVersionID can return
  None,           \* no content: an absent file, a delete marker's etag
  Proc,           \* concurrent requests (goroutines)
  NoProc,         \* the holder of a free lock
  Stripe,         \* mutexes of the striped lock
  StripeOf,       \* StripeOf[k]: the mutex a key hashes to
  InitVersioning, \* the bucket's versioning when the behaviour starts
  Settings,       \* statuses a PutBucketVersioning may ask for
  Kinds,          \* kinds of request that arrive
  MaxRequests,    \* bound: requests that arrive
  MaxFaults,      \* bound: database or disk operations that fail
  MaxCrashes      \* bound: crashes of the process

VersionId == Real \cup {"", "null"}
Modes     == {"", "Enabled", "Suspended"}
AllKinds  == {"put", "delete", "purge", "get", "thumb"}

ASSUME VersionIdAssumption == Real \cap {"", "null"} = {}
ASSUME NoneAssumption      == None \notin Content
ASSUME NoProcAssumption    == NoProc \notin Proc
ASSUME StripeAssumption    == StripeOf \in [Key -> Stripe]
ASSUME ModeAssumption      == /\ InitVersioning \in Modes
                              /\ Settings \subseteq {"Enabled", "Suspended"}
                              /\ Kinds \subseteq AllKinds
ASSUME BoundAssumption     == /\ MaxRequests \in Nat
                              /\ MaxFaults \in Nat
                              /\ MaxCrashes \in Nat

VARIABLES
  versioning, \* buckets.versioning
  rows,       \* rows[k][v]: the row of key k, version v; NoRow when absent
  nextId,     \* the objects table's next AUTOINCREMENT id
  clock,      \* time of the next write, for last_modified
  slot,       \* slot[k]: the unversioned file of k
  vfile,      \* vfile[k][v]: the file of real version v of k
  used,       \* version ids handed out so far
  variants,   \* variants[k]: derived images, <<version, etag, source bytes>>
  lock,       \* lock[s]: the request holding mutex s
  pc,         \* pc[p]: where request p is
  op,         \* op[p]: the request and the bucket settings it was given
  vid,        \* vid[p]: the version p writes or reads
  doomed,     \* doomed[p]: versions whose bytes p has still to remove
  body,       \* body[p]: the bytes a read has in hand
  requests,   \* requests that have arrived
  faults,     \* failures that have happened
  crashes     \* crashes that have happened

db      == <<rows, nextId, clock>>
disk    == <<slot, vfile, variants>>
request == <<op, vid, doomed, body>>
bounds  == <<requests, faults, crashes>>
vars    == <<versioning, db, disk, used, lock, pc, request, bounds>>

Row == [id: Nat, latest: BOOLEAN, marker: BOOLEAN, etag: Content \cup {None},
        modified: Nat]

NoRow == [id |-> 0, latest |-> FALSE, marker |-> FALSE, etag |-> None,
          modified |-> 0]

Request == [kind: AllKinds \cup {"none"}, key: Key \cup {None},
            target: VersionId, etag: Content \cup {None}, mode: Modes]

NoRequest == [kind |-> "none", key |-> None, target |-> "", etag |-> None,
              mode |-> ""]

\* Steps at which a writer is between locking its key and unlocking it.
Locked == {"write", "save", "undo", "marker", "version", "null", "nullfile",
           "blank", "blankfile", "list", "rows", "bytes", "tidy"}
Reading == {"probe", "open", "cache", "serve"}
Where   == {"idle", "lock"} \cup Locked \cup Reading

-----------------------------------------------------------------------------
(* The objects table. *)

\* A row exists for (k, v).
Has(k, v) == rows[k][v].id > 0

\* Rows a version id names: "null" also names a row stored with an empty id.
Named(k, target) ==
  {v \in IF target = "null" THEN {"null", ""} ELSE {target} : Has(k, v)}

\* ORDER BY id DESC LIMIT 1 over the rows of k with a version in V.
Newest(k, V) ==
  {v \in V : /\ Has(k, v)
             /\ \A w \in V : rows[k][w].id <= rows[k][v].id}

\* The current row of k as readers see it.
Current(k) == Newest(k, {v \in VersionId : rows[k][v].latest})

\* Faulty variant: the other rows of the key stay latest.
SaveRow_OthersStayLatest(k, v, etag, marker) ==
  /\ rows' = [rows EXCEPT ![k][v] =
       [id |-> IF Has(k, v) THEN rows[k][v].id ELSE nextId,
        latest |-> TRUE, marker |-> marker, etag |-> etag, modified |-> clock]]
  /\ nextId' = IF Has(k, v) THEN nextId ELSE nextId + 1
  /\ clock' = clock + 1

\* PutObjectMetaVersioned: one transaction that marks every other row of k not
\* latest and upserts (k, v); an update keeps the row's id.
SaveRow(k, v, etag, marker) ==
  /\ rows' = [rows EXCEPT ![k] =
       [w \in VersionId |->
         IF w = v
           THEN [id |-> IF Has(k, v) THEN rows[k][v].id ELSE nextId,
                 latest |-> TRUE, marker |-> marker, etag |-> etag,
                 modified |-> clock]
           ELSE [rows[k][w] EXCEPT !.latest = FALSE]]]
  /\ nextId' = IF Has(k, v) THEN nextId ELSE nextId + 1
  /\ clock' = clock + 1

\* Faulty variant: "not the latest" returns before the row is deleted.
DropRow_OnlyLatest(k, v) ==
  LET others == {w \in VersionId \ {v} : Has(k, w)}
  IN /\ \/ ~rows[k][v].latest /\ UNCHANGED rows
        \/ /\ rows[k][v].latest /\ others = {}
           /\ rows' = [rows EXCEPT ![k][v] = NoRow]
        \/ /\ rows[k][v].latest
           /\ \E w \in Newest(k, others) :
                rows' = [rows EXCEPT ![k][v] = NoRow, ![k][w].latest = TRUE]
     /\ UNCHANGED <<nextId, clock>>

\* Faulty variant: ORDER BY id without DESC.
DropRow_PromotesOldest(k, v) ==
  LET others == {w \in VersionId \ {v} : Has(k, w)}
  IN /\ \/ /\ ~rows[k][v].latest \/ others = {}
           /\ rows' = [rows EXCEPT ![k][v] = NoRow]
        \/ /\ rows[k][v].latest
           /\ \E w \in others :
                /\ \A x \in others : rows[k][w].id <= rows[k][x].id
                /\ rows' = [rows EXCEPT ![k][v] = NoRow, ![k][w].latest = TRUE]
     /\ UNCHANGED <<nextId, clock>>

\* DeleteVersionAndPromote: one transaction that deletes row (k, v) and, when it
\* was the latest, marks the remaining row with the highest id as latest.
DropRow(k, v) ==
  LET others == {w \in VersionId \ {v} : Has(k, w)}
  IN /\ \/ /\ ~rows[k][v].latest \/ others = {}
           /\ rows' = [rows EXCEPT ![k][v] = NoRow]
        \/ /\ rows[k][v].latest
           /\ \E w \in Newest(k, others) :
                rows' = [rows EXCEPT ![k][v] = NoRow, ![k][w].latest = TRUE]
     /\ UNCHANGED <<nextId, clock>>

\* DeleteObjectMeta: every row of k.
DropAllRows(k) ==
  /\ rows' = [rows EXCEPT ![k] = [v \in VersionId |-> NoRow]]
  /\ UNCHANGED <<nextId, clock>>

-----------------------------------------------------------------------------
(* The files. *)

\* Faulty variant: the version id is not looked at.
BytesOf_IgnoresVersion(k, v) == slot[k]

\* The bytes Open finds for a row of version v: its own file for a real version,
\* the key's one unversioned file otherwise.
BytesOf(k, v) == IF v \in Real THEN vfile[k][v] ELSE slot[k]

\* Put*Object: the rename that makes new bytes visible under their final name.
WriteFile(k, v, c) ==
  IF v \in Real
    THEN vfile' = [vfile EXCEPT ![k][v] = c] /\ UNCHANGED slot
    ELSE slot' = [slot EXCEPT ![k] = c] /\ UNCHANGED vfile

\* removeBytes: idempotent.
RemoveFile(k, v) == WriteFile(k, v, None)

-----------------------------------------------------------------------------
Init ==
  /\ versioning = InitVersioning
  /\ rows = [k \in Key |-> [v \in VersionId |-> NoRow]]
  /\ nextId = 1
  /\ clock = 1
  /\ slot = [k \in Key |-> None]
  /\ vfile = [k \in Key |-> [v \in Real |-> None]]
  /\ used = {}
  /\ variants = [k \in Key |-> {}]
  /\ lock = [s \in Stripe |-> NoProc]
  /\ pc = [p \in Proc |-> "idle"]
  /\ op = [p \in Proc |-> NoRequest]
  /\ vid = [p \in Proc |-> ""]
  /\ doomed = [p \in Proc |-> {}]
  /\ body = [p \in Proc |-> None]
  /\ requests = 0
  /\ faults = 0
  /\ crashes = 0

-----------------------------------------------------------------------------
(* The life of a request. *)

\* The request returns: its deferred unlock runs and its locals are gone.
Return(p) ==
  /\ pc' = [pc EXCEPT ![p] = "idle"]
  /\ lock' = [s \in Stripe |-> IF lock[s] = p THEN NoProc ELSE lock[s]]
  /\ op' = [op EXCEPT ![p] = NoRequest]
  /\ vid' = [vid EXCEPT ![p] = ""]
  /\ doomed' = [doomed EXCEPT ![p] = {}]
  /\ body' = [body EXCEPT ![p] = None]

\* The request goes on at step l.
Goto(p, l) == pc' = [pc EXCEPT ![p] = l] /\ UNCHANGED <<op, body, lock>>

\* A database or disk operation fails.
Fault == faults < MaxFaults /\ faults' = faults + 1 /\ UNCHANGED <<requests, crashes>>

\* A write or delete arrives: its handler has loaded the bucket's row, and the
\* request keeps that copy of its settings for as long as it runs.
BeginWrite(p) ==
  /\ pc[p] = "idle"
  /\ requests < MaxRequests
  /\ \E r \in Request :
       /\ r.kind \in Kinds \cap {"put", "delete", "purge"}
       /\ r.key \in Key
       /\ r.mode = versioning
       /\ (r.kind = "put") = (r.etag \in Content)
       /\ r.target # "" => /\ r.kind = "delete"
                           /\ r.target \in used \cup {"null"}
       /\ op' = [op EXCEPT ![p] = r]
  /\ pc' = [pc EXCEPT ![p] = "lock"]
  /\ requests' = requests + 1
  /\ UNCHANGED <<versioning, db, disk, used, lock, vid, doomed, body, faults, crashes>>

\* Faulty variant: an enabled bucket falls through to the hard delete.
FirstStep_HardDelete(r) ==
  IF r.kind = "put" THEN "write"
  ELSE IF r.kind = "purge" THEN "list"
  ELSE IF r.target # "" THEN "version"
  ELSE IF r.mode = "Suspended" THEN "null"
  ELSE "list"

\* The first step under the lock: Delete's dispatch on its version id and on the
\* versioning of the bucket it was given.
FirstStep(r) ==
  IF r.kind = "put" THEN "write"
  ELSE IF r.kind = "purge" THEN "list"
  ELSE IF r.target # "" THEN "version"
  ELSE IF r.mode = "Enabled" THEN "marker"
  ELSE IF r.mode = "Suspended" THEN "null"
  ELSE "list"

\* Faulty variant: the request does not wait for the mutex.
Acquire_NoWait(p) ==
  /\ pc[p] = "lock"
  /\ pc' = [pc EXCEPT ![p] = FirstStep(op[p])]
  /\ UNCHANGED <<versioning, db, disk, used, lock, request, bounds>>

\* keyLocks.lock: wait for the mutex the key hashes to.
Acquire(p) ==
  /\ pc[p] = "lock"
  /\ LET s == StripeOf[op[p].key]
     IN lock[s] = NoProc /\ lock' = [lock EXCEPT ![s] = p]
  /\ pc' = [pc EXCEPT ![p] = FirstStep(op[p])]
  /\ UNCHANGED <<versioning, db, disk, used, request, bounds>>

-----------------------------------------------------------------------------
(* Put. *)

\* Faulty variant: the status itself is taken for the id.
VersionIDForPut_Status(mode) ==
  IF mode = "Enabled" THEN Real \ used ELSE {mode}

\* Faulty variant: an id may be handed out twice.
VersionIDForPut_Reused(mode) ==
  CASE mode = "Enabled"   -> Real
    [] mode = "Suspended" -> {"null"}
    [] OTHER              -> {""}

\* VersionIDForPut: the ids a write to a bucket in this mode may receive.
VersionIDForPut(mode) ==
  CASE mode = "Enabled"   -> Real \ used
    [] mode = "Suspended" -> {"null"}
    [] OTHER              -> {""}

\* The body is streamed to a temporary file, verified (quota, checksums, length)
\* and renamed into place.
WriteBytes(p) ==
  /\ pc[p] = "write"
  /\ \E v \in VersionIDForPut(op[p].mode) :
       /\ vid' = [vid EXCEPT ![p] = v]
       /\ used' = used \cup ({v} \cap Real)
       /\ WriteFile(op[p].key, v, op[p].etag)
  /\ Goto(p, "save")
  /\ UNCHANGED <<versioning, db, variants, doomed, bounds>>

\* Faulty variant: the bytes are verified after the rename.
RejectBytes_AfterRename(p) ==
  /\ pc[p] = "write"
  /\ \E v \in VersionIDForPut(op[p].mode) : WriteFile(op[p].key, v, op[p].etag)
  /\ Return(p)
  /\ UNCHANGED <<versioning, db, variants, used, bounds>>

\* Anything wrong before the rename (a short body, a bad digest, the quota)
\* leaves the disk as it was.
RejectBytes(p) ==
  /\ pc[p] = "write"
  /\ Return(p)
  /\ UNCHANGED <<versioning, db, disk, used, bounds>>

\* The row is saved, at the first or the second attempt.
CommitRow(p) ==
  /\ pc[p] = "save"
  /\ SaveRow(op[p].key, vid[p], op[p].etag, FALSE)
  /\ Goto(p, "tidy")
  /\ UNCHANGED <<versioning, disk, used, vid, doomed, bounds>>

\* Both attempts to save the row failed: a versioned file is removed, the
\* unversioned one stays, and the request fails.
FailRow(p) ==
  /\ pc[p] = "save"
  /\ Fault
  /\ IF vid[p] \in Real
       THEN Goto(p, "undo") /\ UNCHANGED <<vid, doomed>>
       ELSE Return(p)
  /\ UNCHANGED <<versioning, db, disk, used>>

UndoBytes(p) ==
  /\ pc[p] = "undo"
  /\ RemoveFile(op[p].key, vid[p])
  /\ Return(p)
  /\ UNCHANGED <<versioning, db, variants, used, bounds>>

\* The end of every successful write: derived images of the key are dropped.
\* (Emit hands the event to the dispatcher; it neither blocks nor fails.)
Tidy(p) ==
  /\ pc[p] = "tidy"
  /\ variants' = [variants EXCEPT ![op[p].key] = {}]
  /\ Return(p)
  /\ UNCHANGED <<versioning, db, slot, vfile, used, bounds>>

-----------------------------------------------------------------------------
(* Delete and DeleteAllVersions. *)

\* A database failure at any of the delete steps ends the request there.
FailDelete(p) ==
  /\ pc[p] \in {"marker", "version", "null", "blank", "list", "rows"}
  /\ Fault
  /\ Return(p)
  /\ UNCHANGED <<versioning, db, disk, used>>

\* Enabled: a marker with a new id.  Suspended: the null marker.
PutMarker(p) ==
  /\ pc[p] = "marker"
  /\ \E v \in VersionIDForPut(op[p].mode) :
       /\ used' = used \cup ({v} \cap Real)
       /\ SaveRow(op[p].key, v, None, TRUE)
  /\ Goto(p, "tidy")
  /\ UNCHANGED <<versioning, disk, vid, doomed, bounds>>

\* A version was named: its row goes, then its bytes unless it was a marker.
DeleteVersion(p) ==
  LET k == op[p].key
      found == Newest(k, Named(k, op[p].target))
  IN /\ pc[p] = "version"
     /\ \/ /\ found = {}                              \* ErrNoSuchVersion
           /\ Return(p)
           /\ UNCHANGED db
        \/ \E v \in found :
             /\ DropRow(k, v)
             /\ doomed' = [doomed EXCEPT ![p] = IF rows[k][v].marker THEN {} ELSE {v}]
             /\ Goto(p, "bytes")
             /\ UNCHANGED vid
     /\ UNCHANGED <<versioning, disk, used, bounds>>

\* Suspended, no version named: the null version's row goes, looked up as "null"
\* and then once more as "", each time followed by the unversioned file unless
\* the row was a marker.
DeleteNull(p, at, target, after, next) ==
  LET k == op[p].key
      found == Newest(k, Named(k, target))
  IN /\ pc[p] = at
     /\ \/ found = {} /\ Goto(p, next) /\ UNCHANGED db
        \/ \E v \in found :
             /\ DropRow(k, v)
             /\ Goto(p, IF rows[k][v].marker THEN next ELSE after)
     /\ UNCHANGED <<versioning, disk, used, vid, doomed, bounds>>

DeleteSlot(p, at, next) ==
  /\ pc[p] = at
  /\ \/ RemoveFile(op[p].key, "") /\ UNCHANGED bounds
     \/ Fault /\ UNCHANGED <<slot, vfile>>
  /\ Goto(p, next)
  /\ UNCHANGED <<versioning, db, variants, used, vid, doomed>>

SuspendedDelete(p) ==
  \/ DeleteNull(p, "null", "null", "nullfile", "blank")
  \/ DeleteSlot(p, "nullfile", "blank")
  \/ DeleteNull(p, "blank", "", "blankfile", "marker")
  \/ DeleteSlot(p, "blankfile", "marker")

\* Faulty variant: the versions are listed after their rows are gone.
ListVersions_TooLate(p) ==
  /\ pc[p] = "list"
  /\ DropAllRows(op[p].key)
  /\ Goto(p, "rows")
  /\ UNCHANGED <<versioning, disk, used, vid, doomed, bounds>>

\* Unversioned delete and DeleteAllVersions: list the versions, delete all rows
\* of the key, then the listed versions' bytes.
ListVersions(p) ==
  /\ pc[p] = "list"
  /\ LET k == op[p].key
     IN doomed' = [doomed EXCEPT ![p] =
                     {v \in VersionId : Has(k, v) /\ ~rows[k][v].marker}]
  /\ Goto(p, "rows")
  /\ UNCHANGED <<versioning, db, disk, used, vid, bounds>>

DeleteRows(p) ==
  /\ pc[p] = "rows"
  /\ DropAllRows(op[p].key)
  /\ Goto(p, "bytes")
  /\ UNCHANGED <<versioning, disk, used, vid, doomed, bounds>>

\* One file at a time; a failure is logged and the file stays.
RemoveBytes(p) ==
  /\ pc[p] = "bytes"
  /\ \E v \in doomed[p] :
       /\ \/ RemoveFile(op[p].key, v) /\ UNCHANGED bounds
          \/ Fault /\ UNCHANGED <<slot, vfile>>
       /\ doomed' = [doomed EXCEPT ![p] = @ \ {v}]
  /\ Goto(p, "bytes")
  /\ UNCHANGED <<versioning, db, variants, used, vid>>

BytesGone(p) ==
  /\ pc[p] = "bytes"
  /\ doomed[p] = {}
  /\ Goto(p, "tidy")
  /\ UNCHANGED <<versioning, db, disk, used, vid, doomed, bounds>>

-----------------------------------------------------------------------------
(* Reads: GetObject and its on-access image transform, without the lock. *)

\* lookupObject: the current row, or the named version's; only an object row is
\* served.  The request keeps the row it read.
BeginRead(p) ==
  /\ pc[p] = "idle"
  /\ requests < MaxRequests
  /\ \E kind \in Kinds \cap {"get", "thumb"}, k \in Key,
        target \in {""} \cup {"null"} \cup used :
       \E v \in IF target = "" THEN Current(k) ELSE Newest(k, Named(k, target)) :
         /\ ~rows[k][v].marker
         /\ op' = [op EXCEPT ![p] = [kind |-> kind, key |-> k, target |-> target,
                                     etag |-> rows[k][v].etag, mode |-> ""]]
         /\ vid' = [vid EXCEPT ![p] = v]
         /\ pc' = [pc EXCEPT ![p] = IF kind = "thumb" THEN "probe" ELSE "open"]
  /\ requests' = requests + 1
  /\ UNCHANGED <<versioning, db, disk, used, lock, doomed, body, faults, crashes>>

\* GetVariant: a derived image cached under the row's version and etag is served.
Probe(p) ==
  LET hits == {t \in variants[op[p].key] : t[1] = vid[p] /\ t[2] = op[p].etag}
  IN /\ pc[p] = "probe"
     /\ \/ /\ hits = {}
           /\ Goto(p, "open")
        \/ \E t \in hits :
             /\ body' = [body EXCEPT ![p] = t[3]]
             /\ pc' = [pc EXCEPT ![p] = "serve"]
             /\ UNCHANGED <<op, lock>>
     /\ UNCHANGED <<versioning, db, disk, used, vid, doomed, bounds>>

\* Open: whatever file is there now; a missing one ends the request (NoSuchKey).
OpenBytes(p) ==
  LET c == BytesOf(op[p].key, vid[p])
  IN /\ pc[p] = "open"
     /\ \/ c = None /\ op[p].kind = "get" /\ Return(p)
        \/ /\ c # None
           /\ body' = [body EXCEPT ![p] = c]
           /\ pc' = [pc EXCEPT ![p] = IF op[p].kind = "thumb" THEN "cache" ELSE "serve"]
           /\ UNCHANGED <<op, vid, doomed, lock>>
     /\ UNCHANGED <<versioning, db, disk, used, bounds>>

\* serveTransformed gives up (no bytes, or no image in them): the read goes on as
\* a plain one, which opens the file again.
FallBack(p) ==
  /\ pc[p] \in {"open", "cache"}
  /\ op[p].kind = "thumb"
  /\ op' = [op EXCEPT ![p].kind = "get"]
  /\ body' = [body EXCEPT ![p] = None]
  /\ pc' = [pc EXCEPT ![p] = "open"]
  /\ UNCHANGED <<versioning, db, disk, used, lock, vid, doomed, bounds>>

\* PutVariant: the image derived from the bytes in hand, under the row's etag.
CacheVariant(p) ==
  LET k == op[p].key
      others == {t \in variants[k] : t[1] # vid[p] \/ t[2] # op[p].etag}
  IN /\ pc[p] = "cache"
     /\ \/ /\ variants' = [variants EXCEPT ![k] = others \cup {<<vid[p], op[p].etag, body[p]>>}]
           /\ UNCHANGED bounds
        \/ Fault /\ UNCHANGED variants
     /\ Goto(p, "serve")
     /\ UNCHANGED <<versioning, db, slot, vfile, used, vid, doomed>>

Serve(p) ==
  /\ pc[p] = "serve"
  /\ Return(p)
  /\ UNCHANGED <<versioning, db, disk, used, bounds>>

-----------------------------------------------------------------------------
(* The bucket and the process. *)

\* PutBucketVersioning: Enabled or Suspended, never back to unversioned.
SetBucketVersioning ==
  /\ \E m \in Settings : m # versioning /\ versioning' = m
  /\ UNCHANGED <<db, disk, used, lock, pc, request, bounds>>

\* The process dies and is started again: requests and mutexes are gone.
Crash ==
  /\ crashes < MaxCrashes
  /\ \E p \in Proc : pc[p] # "idle"
  /\ crashes' = crashes + 1
  /\ pc' = [p \in Proc |-> "idle"]
  /\ lock' = [s \in Stripe |-> NoProc]
  /\ op' = [p \in Proc |-> NoRequest]
  /\ vid' = [p \in Proc |-> ""]
  /\ doomed' = [p \in Proc |-> {}]
  /\ body' = [p \in Proc |-> None]
  /\ UNCHANGED <<versioning, db, disk, used, requests, faults>>

\* The steps of a running request that the scheduler owes it.
Step(p) ==
  \/ Acquire(p)
  \/ WriteBytes(p) \/ CommitRow(p) \/ UndoBytes(p) \/ Tidy(p)
  \/ PutMarker(p) \/ DeleteVersion(p) \/ SuspendedDelete(p)
  \/ ListVersions(p) \/ DeleteRows(p) \/ RemoveBytes(p) \/ BytesGone(p)
  \/ Probe(p) \/ OpenBytes(p) \/ FallBack(p) \/ CacheVariant(p) \/ Serve(p)

Next ==
  \/ \E p \in Proc :
       \/ BeginWrite(p) \/ BeginRead(p)
       \/ Step(p)
       \/ RejectBytes(p) \/ FailRow(p) \/ FailDelete(p)
  \/ SetBucketVersioning
  \/ Crash

Spec == Init /\ [][Next]_vars

-----------------------------------------------------------------------------
(* What must hold. *)

\* Request p is inside its critical section on key k.
Working(p, k) == pc[p] \in Locked /\ op[p].key = k

Quiet(k) == \A p \in Proc : ~Working(p, k)

TypeOK ==
  /\ versioning \in Modes
  /\ rows \in [Key -> [VersionId -> Row]]
  /\ nextId \in Nat \ {0}
  /\ clock \in Nat
  /\ slot \in [Key -> Content \cup {None}]
  /\ vfile \in [Key -> [Real -> Content \cup {None}]]
  /\ used \in SUBSET Real
  /\ variants \in [Key -> SUBSET (VersionId \X (Content \cup {None}) \X (Content \cup {None}))]
  /\ lock \in [Stripe -> Proc \cup {NoProc}]
  /\ pc \in [Proc -> Where]
  /\ op \in [Proc -> Request]
  /\ \A p \in Proc : pc[p] # "idle" => op[p].key \in Key
  /\ vid \in [Proc -> VersionId]
  /\ doomed \in [Proc -> SUBSET VersionId]
  /\ body \in [Proc -> Content \cup {None}]
  /\ requests \in Nat /\ faults \in Nat /\ crashes \in Nat

\* A key never has two latest rows (db/metadata.go:50), and a key that has rows
\* has one: deleting the latest always promotes another.
OneLatest ==
  \A k \in Key :
    /\ \A v, w \in VersionId : rows[k][v].latest /\ rows[k][w].latest => v = w
    /\ (\E v \in VersionId : Has(k, v)) => \E v \in VersionId : rows[k][v].latest

\* Whatever fails and whenever the process dies, the row of a real version that
\* is not a delete marker has its own file on disk, with the bytes of its etag.
RealVersionsHaveBytes ==
  \A k \in Key, v \in Real :
    Has(k, v) /\ ~rows[k][v].marker => vfile[k][v] = rows[k][v].etag

\* A response about a real version carries the bytes its headers describe, although
\* the row and the file are read at different times and without the lock.
VersionedReadsAreWhole ==
  \A p \in Proc : pc[p] = "serve" /\ vid[p] \in Real => body[p] = op[p].etag

\* While nobody works on a key and no database write has failed, the row of an
\* unversioned or "null" object has the unversioned file, with the bytes of its etag.
SlotRowsHaveBytes ==
  faults = 0 /\ crashes = 0 =>
    \A k \in Key, v \in {"", "null"} :
      Quiet(k) /\ Has(k, v) /\ ~rows[k][v].marker => slot[k] = rows[k][v].etag

\* While nobody works on a key and nothing has failed, every file of the key
\* belongs to an object row: deletes and rejected writes leave no bytes behind.
NoOrphanBytes ==
  faults = 0 /\ crashes = 0 =>
    \A k \in Key : Quiet(k) =>
      \A v \in VersionId :
        BytesOf(k, v) # None =>
          \E w \in IF v \in Real THEN {v} ELSE {"", "null"} :
            Has(k, w) /\ ~rows[k][w].marker

\* When a request is about to report success it has taken effect: after a PUT the
\* current object is the one written and its bytes are in place, after a DELETE
\* that names no version the key has no current object.
AcknowledgedWritesTookEffect ==
  \A p \in Proc : pc[p] = "tidy" =>
    LET k == op[p].key
    IN /\ op[p].kind = "put" =>
            /\ Current(k) = {vid[p]}
            /\ rows[k][vid[p]].etag = op[p].etag
            /\ BytesOf(k, vid[p]) = op[p].etag
       /\ op[p].kind = "delete" /\ op[p].target = "" =>
            \A v \in Current(k) : rows[k][v].marker

\* An object version disappears only by a request that names it, by an administrator's
\* purge of its key, or by a delete that arrived while the bucket had never been versioned:
\* never by an overwrite, nor by a plain delete that found versioning Enabled or Suspended
\* (service/objects.go:277 Delete, 354 DeleteAllVersions), however the setting changes meanwhile.
VersionsGoOnlyWhenNamed ==
  [][\A k \in Key, v \in Real :
       Has(k, v) /\ ~rows[k][v].marker /\ ~Has(k, v)' =>
         \E p \in Proc : /\ pc'[p] # pc[p]
                         /\ op[p].key = k
                         /\ \/ op[p].target = v
                            \/ op[p].kind = "purge"
                            \/ op[p].kind = "delete" /\ op[p].target = "" /\ op[p].mode = ""]_vars

\* Deleting the latest version makes the newest remaining one the latest
\* (service/objects.go:275): no version with an id of its own was written after the one
\* that becomes the latest.  (An overwritten "null" row keeps its place.)
PromotesNewest ==
  [][\A k \in Key, v \in Real :
       Has(k, v) /\ ~rows[k][v].latest /\ rows'[k][v].latest /\ Has(k, v)' =>
         \A w \in Real : Has(k, w)' => rows'[k][w].modified <= rows'[k][v].modified]_vars

\* Deleting a version removes that version and promotes another one
\* (service/objects.go:275): the current object of a key nobody works on has its bytes.
CurrentObjectHasBytes ==
  faults = 0 /\ crashes = 0 =>
    \A k \in Key : Quiet(k) =>
      \A v \in Current(k) :
        ~rows[k][v].marker => BytesOf(k, v) = rows[k][v].etag

\* The cache name of a derived image embeds the source's etag (storage/filesystem.go:599):
\* for a version with a file of its own it never holds an image of other bytes, although
\* the row, the cache and the file are read at different times and without the lock.
VariantsMatchTheirSource ==
  \A k \in Key : \A t \in variants[k] : t[1] \in Real => t[3] = t[2]

-----------------------------------------------------------------------------
(* The versions a client sees, as the abstract store. *)

InFlight == {p \in Proc : pc[p] = "save" /\ vid[p] \in Real}

Visible(k, v) == IF Has(k, v) /\ ~rows[k][v].marker THEN vfile[k][v] ELSE None

Versions == INSTANCE WriteOnceVersions WITH
  issued  <- used,
  pending <- {<<op[p].key, vid[p]>> : p \in InFlight},
  object  <- [k \in Key |-> [v \in Real |-> Visible(k, v)]]

\* Row and file together behave as one write-once version: it appears whole, never
\* changes, and once deleted never comes back, through failures and crashes.
ImplementsWriteOnceVersions == Versions!Spec
=============================================================================
