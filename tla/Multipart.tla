------------------------------ MODULE Multipart ------------------------------
(***************************************************************************)
(* Multipart uploads of one unversioned bucket (handler/multipart.go,      *)
(* handler/s3_compat.go UploadPartCopy, server/server.go cleanStaleUploads, *)
(* lifecycle/cleaner.go abortMultipart).  A part is a staged file and a row; *)
(* completing an upload concatenates the staged files into the object's     *)
(* file, commits the object's row and drops the upload.  Only Complete takes *)
(* mutexes: parts, aborts and the cleaners run freely beside it.            *)
(*                                                                          *)
(* A part's bytes are identified with their etag, an object's bytes with the *)
(* sequence of its parts' bytes (its etag is the digest of their digests).  *)
(***************************************************************************)
EXTENDS Integers, Sequences

CONSTANTS
  Upload,       \* upload ids (UUIDs, never reused)
  Key,          \* object keys
  Content,      \* contents of parts, identified with their etags
  Small,        \* the contents below the minimum part size
  None,         \* no part
  MaxPart,      \* bound: part numbers are 1..MaxPart
  Sends,        \* the <<part number, content>> pairs clients upload
  Lists,        \* the part lists clients complete with
  Proc,         \* concurrent requests and cleaner visits
  UploadStripe, \* UploadStripe[u]: the mutex of the upload pool u hashes to
  KeyStripe,    \* KeyStripe[k]: the mutex of the key pool k hashes to
  Kinds,        \* kinds of request that arrive
  MaxRequests,  \* bound: requests that arrive
  MaxFaults,    \* bound: database or disk operations that fail
  MaxCrashes    \* bound: crashes of the process

PartNumber == 1..MaxPart
Part       == PartNumber \X Content

ASSUME PartAssumption   == /\ MaxPart \in Nat \ {0}
                           /\ None \notin Content
                           /\ Small \subseteq Content
ASSUME ClientAssumption == /\ Sends \subseteq Part
                           /\ Lists \subseteq Seq(Part) \ {<<>>}
                           /\ Kinds \subseteq {"part", "complete", "abort", "clean"}
ASSUME BoundAssumption  == /\ MaxRequests \in Nat
                           /\ MaxFaults \in Nat
                           /\ MaxCrashes \in Nat

VARIABLES
  upload,    \* upload[u]: "new", "open" (it has a row) or "gone"
  partRow,   \* partRow[u][n]: the etag in the row of part n
  partFile,  \* partFile[u][n]: the staged file of part n
  row,       \* row[k]: the parts the object's row describes; <<>> when absent
  file,      \* file[k]: the parts the object's file holds; <<>> when absent
  completes, \* completes[u]: times u was committed as an object
  pc,        \* pc[p]: where request p is
  op,        \* op[p]: the request
  body,      \* body[p]: the parts a Complete has copied to its temporary file
  late,      \* uploads a part was staged for while or after their end was recorded
  requests,  \* requests that have arrived
  faults,    \* failures that have happened
  crashes    \* crashes that have happened

staging == <<upload, partRow, partFile, late>>
object  == <<row, file, completes>>
bounds  == <<requests, faults, crashes>>
vars    == <<staging, object, pc, op, body, bounds>>

NoParts == [n \in PartNumber |-> None]

NoRequest == [kind |-> "none", upload |-> None, key |-> None, parts |-> <<>>]

\* Steps at which a Complete holds its upload's mutex, and its key's.
HoldsKey    == {"assemble", "commit", "parts", "row"}
HoldsUpload == HoldsKey \cup {"load", "validate", "key"}

Init ==
  /\ upload = [u \in Upload |-> "new"]
  /\ partRow = [u \in Upload |-> NoParts]
  /\ partFile = [u \in Upload |-> NoParts]
  /\ late = {}
  /\ row = [k \in Key |-> <<>>]
  /\ file = [k \in Key |-> <<>>]
  /\ completes = [u \in Upload |-> 0]
  /\ pc = [p \in Proc |-> "idle"]
  /\ op = [p \in Proc |-> NoRequest]
  /\ body = [p \in Proc |-> <<>>]
  /\ requests = 0
  /\ faults = 0
  /\ crashes = 0

Return(p) ==
  /\ pc' = [pc EXCEPT ![p] = "idle"]
  /\ op' = [op EXCEPT ![p] = NoRequest]
  /\ body' = [body EXCEPT ![p] = <<>>]

Goto(p, l) == pc' = [pc EXCEPT ![p] = l] /\ UNCHANGED <<op, body>>

\* A database or disk operation fails.
Fault == faults < MaxFaults /\ faults' = faults + 1 /\ UNCHANGED <<requests, crashes>>

\* A request of some kind for upload u arrives and goes on at step l.
Arrive(p, kind, u, k, parts, l) ==
  /\ pc[p] = "idle"
  /\ kind \in Kinds
  /\ requests < MaxRequests
  /\ requests' = requests + 1
  /\ op' = [op EXCEPT ![p] = [kind |-> kind, upload |-> u, key |-> k, parts |-> parts]]
  /\ pc' = [pc EXCEPT ![p] = l]
  /\ UNCHANGED <<staging, object, body, faults, crashes>>

\* CreateMultipartUpload: one insert.
CreateUpload(u) ==
  /\ upload[u] = "new"
  /\ upload' = [upload EXCEPT ![u] = "open"]
  /\ UNCHANGED <<partRow, partFile, late, object, pc, op, body, bounds>>

-----------------------------------------------------------------------------
(* UploadPart and UploadPartCopy: no mutex. *)

\* loadUpload finds the upload in the bucket; its key is not compared.
BeginPart(p) ==
  \E u \in Upload, s \in Sends :
    upload[u] = "open" /\ Arrive(p, "part", u, None, <<s>>, "stage")

\* The body is streamed to a temporary file, verified and renamed into place; the
\* staging directory is made again if it has gone.
StagePart(p) ==
  /\ pc[p] = "stage"
  /\ LET s == op[p].parts[1]
         u == op[p].upload
         ending == \E q \in Proc : pc[q] = "row" /\ op[q].upload = u
     IN /\ partFile' = [partFile EXCEPT ![u][s[1]] = s[2]]
        /\ late' = IF upload[u] = "gone" \/ ending THEN late \cup {u} ELSE late
  /\ Goto(p, "record")
  /\ UNCHANGED <<upload, partRow, object, bounds>>

\* The body is short, too large or fails its checksum.
RejectPart(p) ==
  /\ pc[p] = "stage"
  /\ Return(p)
  /\ UNCHANGED <<staging, object, bounds>>

\* PutMultipartPart: an upsert, allowed by the foreign key while u has a row.
RecordPart(p) ==
  /\ pc[p] = "record"
  /\ upload[op[p].upload] = "open"
  /\ LET s == op[p].parts[1]
     IN partRow' = [partRow EXCEPT ![op[p].upload][s[1]] = s[2]]
  /\ Return(p)
  /\ UNCHANGED <<upload, partFile, late, object, bounds>>

\* The upload is gone or the database fails.
FailPart(p) ==
  /\ pc[p] = "record"
  /\ \/ upload[op[p].upload] # "open" /\ UNCHANGED bounds
     \/ Fault
  /\ Goto(p, "unstage")
  /\ UNCHANGED <<staging, object>>

\* DeleteMultipartPart, whatever the file holds by now; its error is ignored.
UnstagePart(p) ==
  /\ pc[p] = "unstage"
  /\ LET s == op[p].parts[1]
     IN \/ partFile' = [partFile EXCEPT ![op[p].upload][s[1]] = None] /\ UNCHANGED bounds
        \/ Fault /\ UNCHANGED partFile
  /\ Return(p)
  /\ UNCHANGED <<upload, partRow, late, object>>

-----------------------------------------------------------------------------
(* CompleteMultipartUpload. *)

BeginComplete(p) ==
  \E u \in Upload, k \in Key, l \in Lists :
    upload[u] # "new" /\ Arrive(p, "complete", u, k, l, "upload")

\* Faulty variant: Completes of one upload do not wait for each other.
LockUpload_NoWait(p) ==
  /\ pc[p] = "upload"
  /\ Goto(p, "load")
  /\ UNCHANGED <<staging, object, bounds>>

\* Wait for the mutex the upload hashes to.
LockUpload(p) ==
  /\ pc[p] = "upload"
  /\ \A q \in Proc :
       pc[q] \in HoldsUpload /\ op[q].kind = "complete" =>
         UploadStripe[op[q].upload] # UploadStripe[op[p].upload]
  /\ Goto(p, "load")
  /\ UNCHANGED <<staging, object, bounds>>

\* loadUpload, under the mutex: NoSuchUpload when the upload is gone.
Load(p) ==
  /\ pc[p] = "load"
  /\ \/ upload[op[p].upload] = "open" /\ Goto(p, "validate")
     \/ upload[op[p].upload] # "open" /\ Return(p)
  /\ UNCHANGED <<staging, object, bounds>>

InOrder(parts) == \A i \in 2..Len(parts) : parts[i-1][1] < parts[i][1]

Recorded(u, parts) == \A i \in 1..Len(parts) : partRow[u][parts[i][1]] = parts[i][2]

BigEnough(parts) == \A i \in 1..(Len(parts) - 1) : parts[i][2] \notin Small

\* Faulty variant: a listed part need only exist.
Acceptable_AnyETag(u, parts) ==
  /\ InOrder(parts) /\ BigEnough(parts)
  /\ \A i \in 1..Len(parts) : partRow[u][parts[i][1]] # None

\* The checks on the request's list against ListMultipartParts.
Acceptable(u, parts) == InOrder(parts) /\ Recorded(u, parts) /\ BigEnough(parts)

Validate(p) ==
  /\ pc[p] = "validate"
  /\ IF Acceptable(op[p].upload, op[p].parts) THEN Goto(p, "key") ELSE Return(p)
  /\ UNCHANGED <<staging, object, bounds>>

\* Faulty variant: keys and uploads share one pool of mutexes.
LockKey_OnePool(p) ==
  /\ pc[p] = "key"
  /\ \A q \in Proc :
       op[q].kind = "complete" =>
         /\ pc[q] \in HoldsKey => KeyStripe[op[q].key] # KeyStripe[op[p].key]
         /\ pc[q] \in HoldsUpload => UploadStripe[op[q].upload] # KeyStripe[op[p].key]
  /\ Goto(p, "assemble")
  /\ UNCHANGED <<staging, object, bounds>>

\* Faulty variant: the key's mutex is not taken.
LockKey_NoWait(p) ==
  /\ pc[p] = "key"
  /\ Goto(p, "assemble")
  /\ UNCHANGED <<staging, object, bounds>>

\* Wait for the mutex the key hashes to, with the upload's in hand.
LockKey(p) ==
  /\ pc[p] = "key"
  /\ \A q \in Proc :
       pc[q] \in HoldsKey /\ op[q].kind = "complete" =>
         KeyStripe[op[q].key] # KeyStripe[op[p].key]
  /\ Goto(p, "assemble")
  /\ UNCHANGED <<staging, object, bounds>>

\* assemble: the next listed part's staged file, as it is now, is appended to the
\* temporary file; a missing one fails the request.
ReadPart(p) ==
  /\ pc[p] = "assemble"
  /\ Len(body[p]) < Len(op[p].parts)
  /\ LET c == partFile[op[p].upload][op[p].parts[Len(body[p]) + 1][1]]
     IN IF c = None
          THEN Return(p)
          ELSE body' = [body EXCEPT ![p] = Append(@, c)] /\ UNCHANGED <<pc, op>>
  /\ UNCHANGED <<staging, object, bounds>>

\* The quota, before or after the assembly, or a disk error.
RejectComplete(p) ==
  /\ pc[p] = "assemble"
  /\ Return(p)
  /\ UNCHANGED <<staging, object, bounds>>

\* The temporary file is renamed over the object's file.
PlaceObject(p) ==
  /\ pc[p] = "assemble"
  /\ Len(body[p]) = Len(op[p].parts)
  /\ file' = [file EXCEPT ![op[p].key] = body[p]]
  /\ Goto(p, "commit")
  /\ UNCHANGED <<staging, row, completes, bounds>>

\* Faulty variant: the staged files are left to the cascade of the rows.
CommitObject_KeepsParts(p) ==
  /\ pc[p] = "commit"
  /\ row' = [row EXCEPT ![op[p].key] = body[p]]
  /\ completes' = [completes EXCEPT ![op[p].upload] = @ + 1]
  /\ Goto(p, "row")
  /\ UNCHANGED <<staging, file, bounds>>

\* Objects.Commit: the row gets the etag computed from the bytes that were copied.
CommitObject(p) ==
  /\ pc[p] = "commit"
  /\ row' = [row EXCEPT ![op[p].key] = body[p]]
  /\ completes' = [completes EXCEPT ![op[p].upload] = @ + 1]
  /\ Goto(p, "parts")
  /\ UNCHANGED <<staging, file, bounds>>

\* Both attempts to save the row failed; nothing is undone.
FailCommit(p) ==
  /\ pc[p] = "commit"
  /\ Fault
  /\ Return(p)
  /\ UNCHANGED <<staging, object>>

-----------------------------------------------------------------------------
(* The end of an upload: Complete's last steps, AbortMultipartUpload and the two *)
(* cleaners all remove the staged files and then the row.                        *)

BeginAbort(p) ==
  \E u \in Upload : upload[u] = "open" /\ Arrive(p, "abort", u, None, <<>>, "parts")

\* A cleaner has listed u as stale (any upload may be old enough) and gets to it.
BeginClean(p, u) ==
  /\ pc[p] = "idle"
  /\ "clean" \in Kinds
  /\ upload[u] = "open"
  /\ op' = [op EXCEPT ![p] = [kind |-> "clean", upload |-> u, key |-> None, parts |-> <<>>]]
  /\ pc' = [pc EXCEPT ![p] = "parts"]
  /\ UNCHANGED <<staging, object, body, bounds>>

\* Faulty variant: a missing staging directory counts as a failure.
DropParts_NeedsFiles(p) ==
  /\ pc[p] = "parts"
  /\ LET u == op[p].upload
     IN \/ /\ partFile[u] # NoParts
           /\ partFile' = [partFile EXCEPT ![u] = NoParts]
           /\ Goto(p, "row")
        \/ /\ partFile[u] = NoParts
           /\ UNCHANGED partFile
           /\ IF op[p].kind = "clean" THEN Return(p) ELSE Goto(p, "row")
  /\ UNCHANGED <<upload, partRow, late, object, bounds>>

\* DeleteMultipartParts.  When it fails, a cleaner leaves the row for its next round;
\* Complete and Abort carry on.
DropParts(p) ==
  /\ pc[p] = "parts"
  /\ \/ /\ partFile' = [partFile EXCEPT ![op[p].upload] = NoParts]
        /\ Goto(p, "row")
        /\ UNCHANGED bounds
     \/ /\ Fault
        /\ IF op[p].kind = "clean" THEN Return(p) ELSE Goto(p, "row")
        /\ UNCHANGED partFile
  /\ UNCHANGED <<upload, partRow, late, object>>

\* DeleteMultipartUpload: the row and, by cascade, its parts' rows.
DropRow(p) ==
  /\ pc[p] = "row"
  /\ \/ /\ upload' = [upload EXCEPT ![op[p].upload] = "gone"]
        /\ partRow' = [partRow EXCEPT ![op[p].upload] = NoParts]
        /\ UNCHANGED bounds
     \/ Fault /\ UNCHANGED <<upload, partRow>>
  /\ Return(p)
  /\ UNCHANGED <<partFile, late, object>>

\* The process dies and is started again.
Crash ==
  /\ crashes < MaxCrashes
  /\ \E p \in Proc : pc[p] # "idle"
  /\ crashes' = crashes + 1
  /\ pc' = [p \in Proc |-> "idle"]
  /\ op' = [p \in Proc |-> NoRequest]
  /\ body' = [p \in Proc |-> <<>>]
  /\ UNCHANGED <<staging, object, requests, faults>>

Step(p) ==
  \/ StagePart(p) \/ RecordPart(p) \/ FailPart(p) \/ UnstagePart(p)
  \/ LockUpload(p) \/ Load(p) \/ Validate(p) \/ LockKey(p)
  \/ ReadPart(p) \/ PlaceObject(p) \/ CommitObject(p)
  \/ DropParts(p) \/ DropRow(p)

Next ==
  \/ \E u \in Upload : CreateUpload(u)
  \/ \E p \in Proc :
       \/ BeginPart(p) \/ BeginComplete(p) \/ BeginAbort(p)
       \/ \E u \in Upload : BeginClean(p, u)
       \/ Step(p)
       \/ RejectPart(p) \/ RejectComplete(p) \/ FailCommit(p)
  \/ Crash

Spec == Init /\ [][Next]_vars

\* Requests run on, Go's mutexes starve nobody, and the cleaners come round to every
\* upload that is old enough.
FairSpec ==
  /\ Spec
  /\ \A p \in Proc : WF_vars(Step(p)) /\ SF_vars(LockUpload(p) \/ LockKey(p))
  /\ \A u \in Upload : WF_vars(\E p \in Proc : BeginClean(p, u))

-----------------------------------------------------------------------------
\* A Complete that finds its upload completed already sees NoSuchUpload
\* (handler/multipart.go:170): as long as nothing fails, an upload becomes an object
\* once, although it may be completed under any key.
CompletesOnce ==
  faults = 0 /\ crashes = 0 => \A u \in Upload : completes[u] <= 1

\* Completes of one key take turns: while none of them holds the key and nothing has
\* failed, the object's row describes the bytes of its file.
ObjectsAreWhole ==
  faults = 0 /\ crashes = 0 =>
    \A k \in Key :
      (\A p \in Proc : ~(pc[p] \in HoldsKey /\ op[p].key = k)) => row[k] = file[k]

\* The object consists of the parts whose numbers and etags the client listed
\* (handler/multipart.go:201 "part existence/ETag").
CompletedAsValidated ==
  \A p \in Proc :
    pc[p] \in {"parts", "row"} /\ op[p].kind = "complete" =>
      body[p] = [i \in 1..Len(op[p].parts) |-> op[p].parts[i][2]]

\* Incomplete uploads are cleaned up (config: multipart_max_age): staged bytes belong to
\* an upload a cleaner can still find, or a running request is about to remove them,
\* wherever the process died; unless a removal failed, or a part was staged between the
\* removal of its upload's files and of its row, or later.
StagedBytesAreReachable ==
  faults = 0 =>
    \A u \in Upload \ late :
      partFile[u] # NoParts =>
        upload[u] = "open" \/ \E p \in Proc : op[p].upload = u

\* However often the process dies, an upload ends, and its staged bytes are used or
\* removed, with the same exceptions.
UploadsEnd ==
  \A u \in Upload :
    upload[u] = "open" ~>
      upload[u] = "gone" /\ (partFile[u] = NoParts \/ u \in late \/ faults > 0)

\* Every request returns, although a Complete waits for two mutexes.
EveryRequestReturns ==
  \A p \in Proc : pc[p] # "idle" ~> pc[p] = "idle"
=============================================================================
