--------------------------- MODULE Multipart_proofs ---------------------------
(***************************************************************************)
(* Theorems about Multipart, for every set of uploads, keys, contents,      *)
(* requests and mutexes and every bound on requests, failures and crashes.  *)
(***************************************************************************)
EXTENDS Multipart, TLAPS

Parting    == {"stage", "record", "unstage"}
Completing == {"upload", "load", "validate", "key", "assemble", "commit"}
Ending     == {"parts", "row"}

PartTable == [PartNumber -> Content \cup {None}]
Requests  == [kind: {"none", "part", "complete", "abort", "clean"}, upload: Upload \cup {None},
              key: Key \cup {None}, parts: Seq(Part)]

StagingTypeOK ==
  /\ upload \in [Upload -> {"new", "open", "gone"}]
  /\ partRow \in [Upload -> PartTable]
  /\ partFile \in [Upload -> PartTable]
  /\ late \subseteq Upload

ObjectTypeOK ==
  /\ row \in [Key -> Seq(Content)]
  /\ file \in [Key -> Seq(Content)]
  /\ completes \in [Upload -> Nat]

RequestTypeOK ==
  /\ pc \in [Proc -> {"idle"} \cup Parting \cup Completing \cup Ending]
  /\ op \in [Proc -> Requests]
  /\ body \in [Proc -> Seq(Content)]

BoundTypeOK == requests \in Nat /\ faults \in Nat /\ crashes \in Nat

\* What a request at one of its steps is about.
RequestOK(p) ==
  /\ pc[p] # "idle" => op[p].upload \in Upload /\ upload[op[p].upload] # "new"
  /\ pc[p] \in Parting => op[p].kind = "part" /\ op[p].parts[1] \in Sends
  /\ pc[p] \in Completing => op[p].kind = "complete"
  /\ pc[p] \in Ending => op[p].kind \in {"complete", "abort", "clean"}
  /\ op[p].kind = "complete" => op[p].key \in Key
  /\ pc[p] = "idle" => op[p] = NoRequest

TypeOK ==
  /\ StagingTypeOK /\ ObjectTypeOK /\ RequestTypeOK /\ BoundTypeOK
  /\ \A p \in Proc : RequestOK(p)

-----------------------------------------------------------------------------
(* A step of one request. *)

Act(p) ==
  \/ BeginPart(p) \/ BeginComplete(p) \/ BeginAbort(p)
  \/ \E u \in Upload : BeginClean(p, u)
  \/ Step(p)
  \/ RejectPart(p) \/ RejectComplete(p) \/ FailCommit(p)

Begin(p) == BeginPart(p) \/ BeginComplete(p) \/ BeginAbort(p) \/ \E u \in Upload : BeginClean(p, u)

\* Requests that arrive.
LEMMA BeginMeans ==
  ASSUME TypeOK, NEW p \in Proc, Begin(p)
  PROVE  \E r \in Requests, l \in {"stage", "upload", "parts"} :
           /\ pc[p] = "idle" /\ pc' = [pc EXCEPT ![p] = l]
           /\ op' = [op EXCEPT ![p] = r]
           /\ r.upload \in Upload /\ upload[r.upload] # "new"
           /\ l = "stage" => r.kind = "part" /\ r.parts[1] \in Sends
           /\ l = "upload" => r.kind = "complete" /\ r.key \in Key
           /\ l = "parts" => r.kind \in {"abort", "clean"} /\ upload[r.upload] = "open"
           /\ requests' \in Nat
           /\ UNCHANGED <<staging, object, body, faults, crashes>>
  <1>1. CASE BeginPart(p)
    <2>1. PICK u \in Upload, s \in Sends : upload[u] = "open" /\ Arrive(p, "part", u, None, <<s>>, "stage")
      BY <1>1 DEF BeginPart
    <2> DEFINE r == [kind |-> "part", upload |-> u, key |-> None, parts |-> <<s>>]
    <2>2. s \in Part
      BY ClientAssumption
    <2>3. r \in Requests /\ r.parts[1] \in Sends /\ r.upload \in Upload /\ upload[r.upload] # "new" /\ r.kind = "part"
      BY <2>1, <2>2 DEF Requests
    <2>4. /\ pc[p] = "idle" /\ pc' = [pc EXCEPT ![p] = "stage"] /\ op' = [op EXCEPT ![p] = r]
          /\ requests' \in Nat /\ UNCHANGED <<staging, object, body, faults, crashes>>
      BY <2>1 DEF Arrive, TypeOK, BoundTypeOK
    <2> HIDE DEF r
    <2> QED
      BY <2>3, <2>4
  <1>2. CASE BeginComplete(p)
    <2>1. PICK u \in Upload, k \in Key, l \in Lists : upload[u] # "new" /\ Arrive(p, "complete", u, k, l, "upload")
      BY <1>2 DEF BeginComplete
    <2> DEFINE r == [kind |-> "complete", upload |-> u, key |-> k, parts |-> l]
    <2>2. l \in Seq(Part)
      BY ClientAssumption
    <2>3. r \in Requests /\ r.key \in Key /\ r.upload \in Upload /\ upload[r.upload] # "new" /\ r.kind = "complete"
      BY <2>1, <2>2 DEF Requests
    <2>4. /\ pc[p] = "idle" /\ pc' = [pc EXCEPT ![p] = "upload"] /\ op' = [op EXCEPT ![p] = r]
          /\ requests' \in Nat /\ UNCHANGED <<staging, object, body, faults, crashes>>
      BY <2>1 DEF Arrive, TypeOK, BoundTypeOK
    <2> HIDE DEF r
    <2> QED
      BY <2>3, <2>4
  <1>3. CASE BeginAbort(p) \/ \E u \in Upload : BeginClean(p, u)
    <2>1. PICK u \in Upload, kind \in {"abort", "clean"} :
            /\ upload[u] = "open" /\ pc[p] = "idle" /\ pc' = [pc EXCEPT ![p] = "parts"]
            /\ op' = [op EXCEPT ![p] = [kind |-> kind, upload |-> u, key |-> None, parts |-> <<>>]]
            /\ requests' \in Nat /\ UNCHANGED <<staging, object, body, faults, crashes>>
      BY <1>3 DEF BeginAbort, BeginClean, Arrive, TypeOK, BoundTypeOK, bounds
    <2> DEFINE r == [kind |-> kind, upload |-> u, key |-> None, parts |-> <<>>]
    <2>2. r \in Requests /\ r.upload \in Upload /\ upload[r.upload] = "open" /\ r.kind = kind
      BY <2>1 DEF Requests
    <2>3. op' = [op EXCEPT ![p] = r]
      BY <2>1
    <2> HIDE DEF r
    <2> QED
      BY <2>1, <2>2, <2>3
  <1> QED
    BY <1>1, <1>2, <1>3 DEF Begin

\* What happens to a request's own entries.
LEMMA ReturnMeans ==
  ASSUME TypeOK, NEW p \in Proc, Return(p)
  PROVE  /\ pc' \in [Proc -> {"idle"} \cup Parting \cup Completing \cup Ending]
         /\ op' \in [Proc -> Requests] /\ body' \in [Proc -> Seq(Content)]
         /\ pc'[p] = "idle" /\ op'[p] = NoRequest /\ body'[p] = <<>>
         /\ \A q \in Proc : q # p => pc'[q] = pc[q] /\ op'[q] = op[q] /\ body'[q] = body[q]
  <1>1. NoRequest \in Requests /\ <<>> \in Seq(Content)
    BY DEF NoRequest, Requests
  <1> QED
    BY <1>1 DEF Return, TypeOK, RequestTypeOK

LEMMA ReturnTypes ==
  ASSUME TypeOK, NEW p \in Proc, Return(p), \A u \in Upload : upload[u] # "new" => upload'[u] # "new"
  PROVE  RequestTypeOK' /\ \A q \in Proc : RequestOK(q)'
  <1>1. RequestTypeOK'
    BY ReturnMeans DEF RequestTypeOK
  <1>2. RequestOK(p)'
    BY ReturnMeans DEF RequestOK, NoRequest, Parting, Completing, Ending
  <1>3. ASSUME NEW q \in Proc, q # p
        PROVE  RequestOK(q)'
    <2>1. pc'[q] = pc[q] /\ op'[q] = op[q] /\ RequestOK(q)
      BY <1>3, ReturnMeans DEF TypeOK
    <2> QED
      BY <2>1 DEF RequestOK
  <1> QED
    BY <1>1, <1>2, <1>3

LEMMA GotoMeans ==
  ASSUME TypeOK, NEW p \in Proc, NEW l \in {"idle"} \cup Parting \cup Completing \cup Ending, Goto(p, l)
  PROVE  /\ pc' \in [Proc -> {"idle"} \cup Parting \cup Completing \cup Ending]
         /\ UNCHANGED <<op, body>>
         /\ pc'[p] = l
         /\ \A q \in Proc : q # p => pc'[q] = pc[q]
  BY DEF Goto, TypeOK, RequestTypeOK

\* The slot of the part a request carries.
LEMMA CarriedPart ==
  ASSUME TypeOK, NEW p \in Proc, pc[p] \in Parting
  PROVE  /\ op[p].upload \in Upload /\ op[p].parts[1] \in Sends
         /\ op[p].parts[1][1] \in PartNumber /\ op[p].parts[1][2] \in Content
  BY ClientAssumption DEF TypeOK, RequestOK, Part, Parting

\* Steps of a part's request.
LEMMA PartTypes ==
  ASSUME TypeOK, NEW p \in Proc,
         StagePart(p) \/ RejectPart(p) \/ RecordPart(p) \/ FailPart(p) \/ UnstagePart(p)
  PROVE  TypeOK'
  <1> DEFINE u == op[p].upload
             s == op[p].parts[1]
  <1>1. /\ pc[p] \in Parting /\ u \in Upload /\ s \in Sends /\ s[1] \in PartNumber /\ s[2] \in Content
    BY CarriedPart DEF StagePart, RejectPart, RecordPart, FailPart, UnstagePart, Parting
  <1>2. UNCHANGED <<upload, object>>
    BY DEF StagePart, RejectPart, RecordPart, FailPart, UnstagePart, staging
  <1>3. StagingTypeOK'
    <2>1. \A c \in Content \cup {None} : /\ [partFile EXCEPT ![u][s[1]] = c] \in [Upload -> PartTable]
                                        /\ [partRow EXCEPT ![u][s[1]] = c] \in [Upload -> PartTable]
      BY <1>1 DEF TypeOK, StagingTypeOK, PartTable
    <2>2. partFile' = partFile \/ \E c \in Content \cup {None} : partFile' = [partFile EXCEPT ![u][s[1]] = c]
      BY <1>1 DEF StagePart, RejectPart, RecordPart, FailPart, UnstagePart, staging
    <2>3. partRow' = partRow \/ \E c \in Content \cup {None} : partRow' = [partRow EXCEPT ![u][s[1]] = c]
      BY <1>1 DEF StagePart, RejectPart, RecordPart, FailPart, UnstagePart, staging
    <2>4. late' = late \/ late' = late \cup {u}
      BY DEF StagePart, RejectPart, RecordPart, FailPart, UnstagePart, staging
    <2> HIDE DEF u, s
    <2>5. partFile' \in [Upload -> PartTable]
      BY <2>1, <2>2 DEF TypeOK, StagingTypeOK
    <2>6. partRow' \in [Upload -> PartTable]
      BY <2>1, <2>3 DEF TypeOK, StagingTypeOK
    <2>7. late' \subseteq Upload
      BY <1>1, <2>4 DEF TypeOK, StagingTypeOK
    <2> QED
      BY <1>2, <2>5, <2>6, <2>7 DEF TypeOK, StagingTypeOK
  <1>4. BoundTypeOK'
    BY DEF StagePart, RejectPart, RecordPart, FailPart, UnstagePart, Fault, bounds, TypeOK, BoundTypeOK
  <1>5. \/ Return(p)
        \/ pc[p] = "stage" /\ Goto(p, "record")
        \/ pc[p] = "record" /\ Goto(p, "unstage")
    BY DEF StagePart, RejectPart, RecordPart, FailPart, UnstagePart
  <1>6. RequestTypeOK' /\ \A q \in Proc : RequestOK(q)'
    <2>1. CASE Return(p)
      BY <2>1, <1>2, ReturnTypes
    <2>2. CASE Goto(p, "record") \/ Goto(p, "unstage")
      <3>1. /\ pc' \in [Proc -> {"idle"} \cup Parting \cup Completing \cup Ending]
            /\ UNCHANGED <<op, body>> /\ pc'[p] \in Parting
            /\ \A q \in Proc : q # p => pc'[q] = pc[q]
        BY <2>2, GotoMeans DEF Parting
      <3> QED
        BY <1>1, <1>2, <3>1 DEF TypeOK, RequestTypeOK, RequestOK, Parting, Completing, Ending
    <2> QED
      BY <1>5, <2>1, <2>2
  <1> QED
    BY <1>2, <1>3, <1>4, <1>6 DEF TypeOK, ObjectTypeOK, object

\* Steps of a Complete up to its commit.
LEMMA CompleteTypes ==
  ASSUME TypeOK, NEW p \in Proc,
         \/ LockUpload(p) \/ Load(p) \/ Validate(p) \/ LockKey(p) \/ ReadPart(p) \/ RejectComplete(p)
         \/ PlaceObject(p) \/ CommitObject(p) \/ FailCommit(p)
  PROVE  TypeOK'
  <1>1. pc[p] \in Completing /\ op[p].kind = "complete" /\ op[p].key \in Key /\ op[p].upload \in Upload
    BY DEF LockUpload, Load, Validate, LockKey, ReadPart, RejectComplete, PlaceObject, CommitObject, FailCommit,
           Completing, TypeOK, RequestOK
  <1>2. UNCHANGED staging
    BY DEF LockUpload, Load, Validate, LockKey, ReadPart, RejectComplete, PlaceObject, CommitObject, FailCommit
  <1>3. ObjectTypeOK'
    <2>1. body[p] \in Seq(Content)
      BY DEF TypeOK, RequestTypeOK
    <2>2. CASE PlaceObject(p)
      BY <1>1, <2>1, <2>2 DEF PlaceObject, TypeOK, ObjectTypeOK
    <2>3. CASE CommitObject(p)
      BY <1>1, <2>1, <2>3 DEF CommitObject, TypeOK, ObjectTypeOK
    <2>4. CASE UNCHANGED object
      BY <2>4 DEF object, TypeOK, ObjectTypeOK
    <2> QED
      BY <2>2, <2>3, <2>4 DEF LockUpload, Load, Validate, LockKey, ReadPart, RejectComplete, FailCommit
  <1>4. BoundTypeOK'
    BY DEF LockUpload, Load, Validate, LockKey, ReadPart, RejectComplete, PlaceObject, CommitObject, FailCommit,
           Fault, bounds, TypeOK, BoundTypeOK
  <1>5. RequestTypeOK' /\ \A q \in Proc : RequestOK(q)'
    <2>1. CASE Return(p)
      BY <2>1, <1>2, ReturnTypes DEF staging
    <2>2. ASSUME NEW l \in Completing \cup {"parts"}, Goto(p, l)
          PROVE  RequestTypeOK' /\ \A q \in Proc : RequestOK(q)'
      <3>1. /\ pc' \in [Proc -> {"idle"} \cup Parting \cup Completing \cup Ending]
            /\ UNCHANGED <<op, body>> /\ pc'[p] \in Completing \cup {"parts"}
            /\ \A q \in Proc : q # p => pc'[q] = pc[q]
        BY <2>2, GotoMeans DEF Ending
      <3> QED
        BY <1>1, <1>2, <3>1 DEF TypeOK, RequestTypeOK, RequestOK, Parting, Completing, Ending, staging
    <2>3. CASE UNCHANGED <<pc, op>> /\ \E c \in Content : body' = [body EXCEPT ![p] = Append(@, c)]
      <3>1. body' \in [Proc -> Seq(Content)]
        BY <2>3 DEF TypeOK, RequestTypeOK
      <3> QED
        BY <1>2, <2>3, <3>1 DEF TypeOK, RequestTypeOK, RequestOK, staging
    <2>4. CASE ReadPart(p)
      <3>1. LET c == partFile[op[p].upload][op[p].parts[Len(body[p]) + 1][1]]
            IN  c \in Content \cup {None}
        <4>1. body[p] \in Seq(Content) /\ op[p].parts \in Seq(Part)
          BY DEF TypeOK, RequestTypeOK, Requests
        <4>2. Len(body[p]) + 1 \in 1..Len(op[p].parts)
          BY <2>4, <4>1 DEF ReadPart
        <4>3. op[p].parts[Len(body[p]) + 1] \in Part
          BY <4>1, <4>2
        <4>4. op[p].parts[Len(body[p]) + 1][1] \in PartNumber
          BY <4>3 DEF Part
        <4> QED
          BY <1>1, <4>4 DEF TypeOK, StagingTypeOK, PartTable
      <3> QED
        BY <2>1, <2>3, <2>4, <3>1 DEF ReadPart
    <2>5. \/ ReadPart(p) \/ Return(p) \/ Goto(p, "load") \/ Goto(p, "validate") \/ Goto(p, "key")
          \/ Goto(p, "assemble") \/ Goto(p, "commit") \/ Goto(p, "parts")
      BY DEF LockUpload, Load, Validate, LockKey, RejectComplete, PlaceObject, CommitObject, FailCommit
    <2> QED
      BY <2>1, <2>2, <2>4, <2>5 DEF Completing
  <1> QED
    BY <1>2, <1>3, <1>4, <1>5 DEF TypeOK, StagingTypeOK, staging

\* Steps that end an upload.
LEMMA EndTypes ==
  ASSUME TypeOK, NEW p \in Proc, DropParts(p) \/ DropRow(p)
  PROVE  TypeOK'
  <1>1. pc[p] \in Ending /\ op[p].upload \in Upload /\ upload[op[p].upload] # "new"
        /\ op[p].kind \in {"complete", "abort", "clean"}
    BY DEF DropParts, DropRow, Ending, TypeOK, RequestOK
  <1>2. UNCHANGED <<object, late>>
    BY DEF DropParts, DropRow
  <1>3. StagingTypeOK'
    <2>1. NoParts \in PartTable
      BY DEF NoParts, PartTable
    <2> QED
      BY <1>1, <2>1 DEF DropParts, DropRow, TypeOK, StagingTypeOK
  <1>4. BoundTypeOK'
    BY DEF DropParts, DropRow, Fault, bounds, TypeOK, BoundTypeOK
  <1>5. \A u \in Upload : upload[u] # "new" => upload'[u] # "new"
    BY <1>1 DEF DropParts, DropRow, TypeOK, StagingTypeOK
  <1>6. RequestTypeOK' /\ \A q \in Proc : RequestOK(q)'
    <2>1. CASE Return(p)
      BY <2>1, <1>5, ReturnTypes
    <2>2. CASE Goto(p, "row")
      <3>1. /\ pc' \in [Proc -> {"idle"} \cup Parting \cup Completing \cup Ending]
            /\ UNCHANGED <<op, body>> /\ pc'[p] = "row"
            /\ \A q \in Proc : q # p => pc'[q] = pc[q]
        BY <2>2, GotoMeans DEF Ending
      <3> QED
        BY <1>1, <1>5, <3>1 DEF TypeOK, RequestTypeOK, RequestOK, Parting, Completing, Ending
    <2> QED
      BY <2>1, <2>2 DEF DropParts, DropRow
  <1> QED
    BY <1>2, <1>3, <1>4, <1>6 DEF TypeOK, ObjectTypeOK, object

LEMMA BeginTypes ==
  ASSUME TypeOK, NEW p \in Proc, Begin(p)
  PROVE  TypeOK'
  <1>1. PICK r \in Requests, l \in {"stage", "upload", "parts"} :
           /\ pc[p] = "idle" /\ pc' = [pc EXCEPT ![p] = l]
           /\ op' = [op EXCEPT ![p] = r]
           /\ r.upload \in Upload /\ upload[r.upload] # "new"
           /\ l = "stage" => r.kind = "part" /\ r.parts[1] \in Sends
           /\ l = "upload" => r.kind = "complete" /\ r.key \in Key
           /\ l = "parts" => r.kind \in {"abort", "clean"} /\ upload[r.upload] = "open"
           /\ requests' \in Nat
           /\ UNCHANGED <<staging, object, body, faults, crashes>>
    BY BeginMeans
  <1>2. RequestTypeOK'
    BY <1>1 DEF TypeOK, RequestTypeOK, Parting, Completing, Ending
  <1>3. \A q \in Proc : RequestOK(q)'
    BY <1>1 DEF TypeOK, RequestTypeOK, RequestOK, Parting, Completing, Ending, staging
  <1> QED
    BY <1>1, <1>2, <1>3 DEF TypeOK, StagingTypeOK, ObjectTypeOK, BoundTypeOK, staging, object

LEMMA TypeStep ==
  ASSUME TypeOK, [Next]_vars
  PROVE  TypeOK'
  <1>1. CASE UNCHANGED vars
    BY <1>1 DEF vars, staging, object, bounds, TypeOK, StagingTypeOK, ObjectTypeOK, RequestTypeOK, BoundTypeOK,
                RequestOK
  <1>2. ASSUME NEW u \in Upload, CreateUpload(u)
        PROVE  TypeOK'
    BY <1>2 DEF CreateUpload, object, bounds, TypeOK, StagingTypeOK, ObjectTypeOK, RequestTypeOK, BoundTypeOK, RequestOK
  <1>3. ASSUME NEW p \in Proc, Act(p)
        PROVE  TypeOK'
    BY <1>3, BeginTypes, PartTypes, CompleteTypes, EndTypes DEF Act, Begin, Step
  <1>4. CASE Crash
    <2>1. NoRequest \in Requests /\ <<>> \in Seq(Content)
      BY DEF NoRequest, Requests
    <2> QED
      BY <1>4, <2>1 DEF Crash, staging, object, TypeOK, StagingTypeOK, ObjectTypeOK, RequestTypeOK, BoundTypeOK,
                        RequestOK, NoRequest, Parting, Completing, Ending
  <1> QED
    BY <1>1, <1>2, <1>3, <1>4 DEF Next, Act

-----------------------------------------------------------------------------
(* Mutexes, and what they protect. *)

HoldsU(p) == pc[p] \in HoldsUpload /\ op[p].kind = "complete"
HoldsK(p) == pc[p] \in HoldsKey /\ op[p].kind = "complete"

\* A mutex has one holder.
Mutexes ==
  /\ \A p, q \in Proc : HoldsU(p) /\ HoldsU(q) /\ UploadStripe[op[p].upload] = UploadStripe[op[q].upload] => p = q
  /\ \A p, q \in Proc : HoldsK(p) /\ HoldsK(q) /\ KeyStripe[op[p].key] = KeyStripe[op[q].key] => p = q

\* A step of p leaves the other requests where they are.
LEMMA OthersStay ==
  ASSUME TypeOK, NEW p \in Proc, Act(p)
  PROVE  \A q \in Proc : q # p => pc'[q] = pc[q] /\ op'[q] = op[q] /\ body'[q] = body[q]
  <1>1. CASE Begin(p)
    BY <1>1, BeginMeans DEF TypeOK, RequestTypeOK
  <1>2. CASE Return(p) \/ \E l : Goto(p, l)
    BY <1>2 DEF Return, Goto, TypeOK, RequestTypeOK
  <1>3. CASE UNCHANGED <<pc, op>> /\ \E c : body' = [body EXCEPT ![p] = Append(@, c)]
    BY <1>3 DEF TypeOK, RequestTypeOK
  <1>4. Begin(p) \/ (Return(p) \/ \E l : Goto(p, l)) \/ (UNCHANGED <<pc, op>> /\ \E c : body' = [body EXCEPT ![p] = Append(@, c)])
    BY DEF Act, Begin, Step, StagePart, RejectPart, RecordPart, FailPart, UnstagePart, LockUpload, Load, Validate,
           LockKey, ReadPart, RejectComplete, PlaceObject, CommitObject, FailCommit, DropParts, DropRow
  <1> QED
    BY <1>1, <1>2, <1>3, <1>4

\* How p comes to hold a mutex.
LEMMA Acquires ==
  ASSUME TypeOK, NEW p \in Proc, Act(p)
  PROVE  /\ HoldsU(p)' => /\ op'[p] = op[p]
                          /\ HoldsU(p) \/ LockUpload(p)
         /\ HoldsK(p)' => /\ op'[p] = op[p]
                          /\ HoldsK(p) \/ LockKey(p)
  <1> USE DEF HoldsU, HoldsK, HoldsUpload, HoldsKey
  <1>1. CASE Begin(p)
    BY <1>1, BeginMeans DEF TypeOK, RequestTypeOK
  <1>2. CASE Return(p)
    BY <1>2, ReturnMeans
  <1>3. CASE ReadPart(p) /\ ~Return(p)
    BY <1>3 DEF ReadPart
  <1>4. CASE StagePart(p) \/ FailPart(p)
    <2>1. pc'[p] \in Parting
      BY <1>4 DEF StagePart, FailPart, Goto, TypeOK, RequestTypeOK, Parting
    <2> QED
      BY <2>1 DEF Parting
  <1>5. CASE /\ LockUpload(p) \/ Load(p) \/ Validate(p) \/ LockKey(p) \/ PlaceObject(p) \/ CommitObject(p) \/ DropParts(p)
             /\ ~Return(p)
    BY <1>5 DEF LockUpload, Load, Validate, LockKey, PlaceObject, CommitObject, DropParts, Goto, TypeOK, RequestTypeOK
  <1> QED
    BY <1>1, <1>2, <1>3, <1>4, <1>5 DEF Act, Begin, Step, RejectPart, RecordPart, UnstagePart, RejectComplete, FailCommit, DropRow

LEMMA MutexesStep ==
  ASSUME TypeOK, Mutexes, NEW p \in Proc, Act(p)
  PROVE  Mutexes'
  <1>1. \A q \in Proc : q # p => (HoldsU(q)' <=> HoldsU(q)) /\ (HoldsK(q)' <=> HoldsK(q)) /\ op'[q] = op[q]
    BY OthersStay DEF HoldsU, HoldsK
  <1>2. ASSUME NEW q \in Proc, q # p, HoldsU(p)', HoldsU(q)', UploadStripe[op'[p].upload] = UploadStripe[op'[q].upload]
        PROVE  FALSE
    <2>1. op'[p] = op[p] /\ op'[q] = op[q] /\ HoldsU(q) /\ (HoldsU(p) \/ LockUpload(p))
      BY <1>1, <1>2, Acquires
    <2>2. CASE HoldsU(p)
      BY <1>2, <2>1, <2>2 DEF Mutexes
    <2>3. CASE LockUpload(p)
      BY <1>2, <2>1, <2>3 DEF LockUpload, HoldsU
    <2> QED
      BY <2>1, <2>2, <2>3
  <1>3. ASSUME NEW q \in Proc, q # p, HoldsK(p)', HoldsK(q)', KeyStripe[op'[p].key] = KeyStripe[op'[q].key]
        PROVE  FALSE
    <2>1. op'[p] = op[p] /\ op'[q] = op[q] /\ HoldsK(q) /\ (HoldsK(p) \/ LockKey(p))
      BY <1>1, <1>3, Acquires
    <2>2. CASE HoldsK(p)
      BY <1>3, <2>1, <2>2 DEF Mutexes
    <2>3. CASE LockKey(p)
      BY <1>3, <2>1, <2>3 DEF LockKey, HoldsK
    <2> QED
      BY <2>1, <2>2, <2>3
  <1> QED
    BY <1>1, <1>2, <1>3 DEF Mutexes

-----------------------------------------------------------------------------
(* An upload becomes an object once. *)

NoTrouble == faults = 0 /\ crashes = 0

\* Past its load of the upload and before its commit.
Deciding(p)  == pc[p] \in {"validate", "key", "assemble", "commit"} /\ op[p].kind = "complete"
\* Past its commit.
Finishing(p) == pc[p] \in Ending /\ op[p].kind = "complete"

Once ==
  NoTrouble =>
    /\ \A u \in Upload : completes[u] <= 1
    /\ \A p \in Proc : Deciding(p) => completes[op[p].upload] = 0
    /\ \A u \in Upload : completes[u] # 0 =>
         upload[u] = "gone" \/ \E p \in Proc : Finishing(p) /\ op[p].upload = u

\* Steps that neither commit nor end an upload nor load one for a Complete.
LEMMA OnceKept ==
  ASSUME TypeOK, Once, NEW p \in Proc, Act(p), ~Finishing(p), UNCHANGED completes,
         Deciding(p)' => Deciding(p) /\ op'[p] = op[p],
         \A u \in Upload : upload[u] = "gone" => upload'[u] = "gone",
         NoTrouble' => NoTrouble
  PROVE  Once'
  <1>1. \A q \in Proc : q # p => (Deciding(q)' <=> Deciding(q)) /\ (Finishing(q)' <=> Finishing(q)) /\ op'[q] = op[q]
    BY OthersStay DEF Deciding, Finishing
  <1> QED
    BY <1>1 DEF Once

\* The counters of trouble only grow.
LEMMA TroubleStays ==
  ASSUME TypeOK, NEW p \in Proc, Act(p)
  PROVE  NoTrouble' => NoTrouble /\ UNCHANGED faults
  <1>1. CASE Begin(p)
    BY <1>1, BeginMeans DEF NoTrouble
  <1>2. CASE UNCHANGED bounds \/ Fault
    BY <1>2 DEF Fault, bounds, NoTrouble, TypeOK, BoundTypeOK
  <1> QED
    BY <1>1, <1>2 DEF Act, Begin, Step, StagePart, RejectPart, RecordPart, FailPart, UnstagePart, LockUpload, Load, Validate,
           LockKey, ReadPart, RejectComplete, PlaceObject, CommitObject, FailCommit, DropParts, DropRow

LEMMA OnceStep ==
  ASSUME TypeOK, Mutexes, Once, NEW p \in Proc, Act(p)
  PROVE  Once'
  <1>1. \A q \in Proc : q # p => (Deciding(q)' <=> Deciding(q)) /\ (Finishing(q)' <=> Finishing(q)) /\ op'[q] = op[q]
    BY OthersStay DEF Deciding, Finishing
  <1>2. NoTrouble' => NoTrouble /\ UNCHANGED faults
    BY TroubleStays
  <1>3. CASE Begin(p)
    <2>1. ~Finishing(p) /\ ~Deciding(p)' /\ UNCHANGED <<completes, upload>>
      BY <1>3, BeginMeans DEF TypeOK, RequestTypeOK, Deciding, Finishing, Ending, object, staging
    <2> QED
      BY <1>2, <2>1, OnceKept
  <1>4. CASE StagePart(p) \/ RejectPart(p) \/ RecordPart(p) \/ FailPart(p) \/ UnstagePart(p)
    <2>1. UNCHANGED <<completes, upload>> /\ pc[p] \in Parting /\ pc'[p] \in Parting \cup {"idle"}
      BY <1>4 DEF StagePart, RejectPart, RecordPart, FailPart, UnstagePart, Return, Goto, TypeOK, RequestTypeOK, Parting,
                  staging, object
    <2>2. ~Finishing(p) /\ ~Deciding(p)'
      BY <2>1 DEF Deciding, Finishing, Parting, Ending
    <2> QED
      BY <1>2, <2>1, <2>2, OnceKept
  <1>5. CASE LockUpload(p) \/ Validate(p) \/ LockKey(p) \/ ReadPart(p) \/ RejectComplete(p) \/ PlaceObject(p) \/ FailCommit(p)
    <2>1. UNCHANGED <<completes, upload>> /\ pc[p] \in Completing
      BY <1>5 DEF LockUpload, Validate, LockKey, ReadPart, RejectComplete, PlaceObject, FailCommit, staging, object, Completing
    <2>2. \/ pc'[p] = "idle" \/ pc'[p] = "load"
          \/ Deciding(p) /\ op'[p] = op[p]
      BY <1>5 DEF LockUpload, Validate, LockKey, ReadPart, RejectComplete, PlaceObject, FailCommit, Return, Goto, TypeOK,
                  RequestTypeOK, RequestOK, Completing, Deciding
    <2>3. ~Finishing(p) /\ (Deciding(p)' => Deciding(p) /\ op'[p] = op[p])
      BY <2>1, <2>2 DEF Deciding, Finishing, Completing, Ending
    <2> QED
      BY <1>2, <2>1, <2>3, OnceKept
  <1>6. CASE Load(p)
    <2>1. UNCHANGED <<completes, upload, bounds>> /\ pc[p] = "load" /\ op[p].kind = "complete" /\ op[p].upload \in Upload
      BY <1>6 DEF Load, staging, object, TypeOK, RequestOK, Completing
    <2>2. CASE Return(p)
      <3>1. ~Finishing(p) /\ ~Deciding(p)'
        BY <2>1, <2>2, ReturnMeans DEF Deciding, Finishing, Ending
      <3> QED
        BY <1>2, <2>1, <3>1, OnceKept
    <2>3. CASE upload[op[p].upload] = "open" /\ Goto(p, "validate")
      <3>1. ~\E q \in Proc : Finishing(q) /\ op[q].upload = op[p].upload
        <4>1. ASSUME NEW q \in Proc, Finishing(q), op[q].upload = op[p].upload
              PROVE  FALSE
          <5>1. HoldsU(q) /\ HoldsU(p)
            BY <2>1, <4>1 DEF HoldsU, Finishing, HoldsUpload, HoldsKey, Ending
          <5>2. p = q
            BY <4>1, <5>1 DEF Mutexes
          <5> QED
            BY <2>1, <4>1, <5>2 DEF Finishing, Ending
        <4> QED
          BY <4>1
      <3>2. NoTrouble => completes[op[p].upload] = 0
        BY <2>1, <2>3, <3>1 DEF Once
      <3>3. ~Finishing(p) /\ UNCHANGED op
        BY <2>1, <2>3 DEF Finishing, Ending, Goto
      <3> QED
        BY <1>1, <1>2, <2>1, <3>2, <3>3 DEF Once
    <2> QED
      BY <1>6, <2>2, <2>3 DEF Load
  <1>7. CASE CommitObject(p)
    <2>1. /\ pc[p] = "commit" /\ op[p].kind = "complete" /\ op[p].upload \in Upload
          /\ completes' = [completes EXCEPT ![op[p].upload] = @ + 1]
          /\ UNCHANGED <<upload, op>> /\ pc'[p] = "parts"
      BY <1>7 DEF CommitObject, staging, TypeOK, RequestTypeOK, RequestOK, Completing, Goto
    <2>2. Finishing(p)' /\ ~Deciding(p)' /\ Deciding(p)
      BY <2>1 DEF Finishing, Deciding, Ending
    <2>3. \A q \in Proc : q # p /\ Deciding(q) => op[q].upload # op[p].upload
      <3>1. \A q \in Proc : Deciding(q) => HoldsU(q)
        BY DEF Deciding, HoldsU, HoldsUpload, HoldsKey
      <3> QED
        BY <2>2, <3>1 DEF Mutexes
    <2>4. completes \in [Upload -> Nat]
      BY DEF TypeOK, ObjectTypeOK
    <2>5. ASSUME NoTrouble'
          PROVE  /\ \A u \in Upload : completes'[u] <= 1
                 /\ \A q \in Proc : Deciding(q)' => completes'[op'[q].upload] = 0
                 /\ \A u \in Upload : completes'[u] # 0 =>
                      upload'[u] = "gone" \/ \E q \in Proc : Finishing(q)' /\ op'[q].upload = u
      <3>1. /\ \A u \in Upload : completes[u] <= 1
            /\ \A q \in Proc : Deciding(q) => completes[op[q].upload] = 0
            /\ \A u \in Upload : completes[u] # 0 =>
                 upload[u] = "gone" \/ \E q \in Proc : Finishing(q) /\ op[q].upload = u
        BY <1>2, <2>5 DEF Once
      <3>2. \A u \in Upload : completes'[u] = IF u = op[p].upload THEN 1 ELSE completes[u]
        BY <2>1, <2>2, <2>4, <3>1
      <3>3. \A u \in Upload : completes'[u] <= 1
        BY <3>1, <3>2
      <3>4. \A q \in Proc : Deciding(q)' => completes'[op'[q].upload] = 0
        <4>1. \A q \in Proc : Deciding(q)' => q # p /\ Deciding(q) /\ op[q].upload \in Upload
          BY <1>1, <2>2 DEF Deciding, TypeOK, RequestOK
        <4> QED
          BY <2>1, <2>3, <3>1, <3>2, <4>1
      <3>5. \A u \in Upload : completes'[u] # 0 =>
                      upload'[u] = "gone" \/ \E q \in Proc : Finishing(q)' /\ op'[q].upload = u
        BY <1>1, <2>1, <2>2, <3>1, <3>2 DEF Deciding, Finishing, Ending
      <3> QED
        BY <3>3, <3>4, <3>5
    <2> QED
      BY <2>5 DEF Once
  <1>8. CASE DropParts(p)
    <2>1. UNCHANGED <<completes, upload>> /\ pc[p] = "parts"
      BY <1>8 DEF DropParts, object
    <2>2. ~Deciding(p)' /\ (Finishing(p) => Finishing(p)' /\ op'[p] = op[p])
      BY <1>8, <2>1 DEF DropParts, Return, Goto, Deciding, Finishing, Ending, TypeOK, RequestTypeOK
    <2> QED
      BY <1>1, <1>2, <2>1, <2>2 DEF Once
  <1>9. CASE DropRow(p)
    <2>1. UNCHANGED completes /\ pc[p] = "row" /\ pc'[p] = "idle" /\ op[p].upload \in Upload
      BY <1>9 DEF DropRow, object, Return, TypeOK, RequestTypeOK, RequestOK
    <2>2. NoTrouble' => upload' = [upload EXCEPT ![op[p].upload] = "gone"]
      BY <1>9, <1>2 DEF DropRow, Fault, NoTrouble, TypeOK, BoundTypeOK
    <2>3. ~Deciding(p)'
      BY <2>1 DEF Deciding
    <2> QED
      BY <1>1, <1>2, <2>1, <2>2, <2>3 DEF Once, TypeOK, StagingTypeOK
  <1> QED
    BY <1>3, <1>4, <1>5, <1>6, <1>7, <1>8, <1>9 DEF Act, Begin, Step

-----------------------------------------------------------------------------
(* An object's row describes its file. *)

\* Between the file of an object and its row.
Placing(p) == pc[p] = "commit" /\ op[p].kind = "complete"

Whole ==
  NoTrouble =>
    /\ \A k \in Key : (\A p \in Proc : Placing(p) => op[p].key # k) => row[k] = file[k]
    /\ \A p \in Proc : Placing(p) => file[op[p].key] = body[p]

LEMMA WholeStep ==
  ASSUME TypeOK, Mutexes, Whole, NEW p \in Proc, Act(p)
  PROVE  Whole'
  <1>1. \A q \in Proc : q # p => (Placing(q)' <=> Placing(q)) /\ op'[q] = op[q] /\ body'[q] = body[q]
    BY OthersStay DEF Placing
  <1>2. NoTrouble' => NoTrouble
    BY TroubleStays
  <1>3. ASSUME Placing(p) \/ PlaceObject(p)
        PROVE  \A q \in Proc : q # p /\ Placing(q) => op[q].key # op[p].key
    <2>1. HoldsK(p)
      BY <1>3 DEF Placing, PlaceObject, HoldsK, HoldsKey, TypeOK, RequestOK, Completing
    <2>2. \A q \in Proc : Placing(q) => HoldsK(q)
      BY DEF Placing, HoldsK, HoldsKey
    <2> QED
      BY <2>1, <2>2 DEF Mutexes
  <1>4. CASE PlaceObject(p)
    <2>1. /\ pc[p] = "assemble" /\ op[p].kind = "complete" /\ op[p].key \in Key
          /\ file' = [file EXCEPT ![op[p].key] = body[p]]
          /\ UNCHANGED <<row, op, body>> /\ pc'[p] = "commit"
      BY <1>4 DEF PlaceObject, TypeOK, RequestTypeOK, RequestOK, Completing, Goto
    <2>2. Placing(p)' /\ ~Placing(p)
      BY <2>1 DEF Placing
    <2>3. \A k \in Key : file'[k] = IF k = op[p].key THEN body[p] ELSE file[k]
      BY <2>1 DEF TypeOK, ObjectTypeOK
    <2>4. \A q \in Proc : Placing(q) => op[q].key \in Key
      BY DEF Placing, TypeOK, RequestOK
    <2> QED
      BY <1>1, <1>2, <1>3, <1>4, <2>1, <2>2, <2>3, <2>4 DEF Whole
  <1>5. CASE CommitObject(p)
    <2>1. /\ pc[p] = "commit" /\ op[p].kind = "complete" /\ op[p].key \in Key
          /\ row' = [row EXCEPT ![op[p].key] = body[p]]
          /\ UNCHANGED <<file, op, body>> /\ pc'[p] = "parts"
      BY <1>5 DEF CommitObject, TypeOK, RequestTypeOK, RequestOK, Completing, Goto
    <2>2. Placing(p) /\ ~Placing(p)'
      BY <2>1 DEF Placing
    <2>3. \A k \in Key : row'[k] = IF k = op[p].key THEN body[p] ELSE row[k]
      BY <2>1 DEF TypeOK, ObjectTypeOK
    <2> QED
      BY <1>1, <1>2, <2>1, <2>2, <2>3 DEF Whole
  <1>6. CASE FailCommit(p)
    <2>1. ~NoTrouble'
      BY <1>6 DEF FailCommit, Fault, NoTrouble, TypeOK, BoundTypeOK
    <2> QED
      BY <2>1 DEF Whole
  <1>7. ASSUME ~PlaceObject(p), ~CommitObject(p), ~FailCommit(p)
        PROVE  UNCHANGED <<row, file>> /\ ~Placing(p) /\ ~Placing(p)'
    <2>1. CASE Begin(p)
      BY <2>1, BeginMeans DEF object, Placing, TypeOK, RequestTypeOK
    <2>2. CASE ~Begin(p)
      BY <1>7, <2>2 DEF Act, Begin, Step, StagePart, RejectPart, RecordPart, FailPart, UnstagePart, LockUpload, Load, Validate,
           LockKey, ReadPart, RejectComplete, DropParts, DropRow, Return, Goto, object, Placing, TypeOK, RequestTypeOK
    <2> QED
      BY <2>1, <2>2
  <1> QED
    BY <1>1, <1>2, <1>4, <1>5, <1>6, <1>7 DEF Whole

-----------------------------------------------------------------------------
(* Staged bytes are removed before what leads to them. *)

Staged ==
  /\ \A u \in Upload : upload[u] = "new" => partFile[u] = NoParts
  /\ faults = 0 =>
       \A u \in Upload \ late :
         upload[u] = "gone" \/ (\E p \in Proc : pc[p] = "row" /\ op[p].upload = u) => partFile[u] = NoParts

LEMMA StagedStep ==
  ASSUME TypeOK, Staged, NEW p \in Proc, Act(p)
  PROVE  Staged'
  <1> DEFINE u == op[p].upload
  <1>1. \A q \in Proc : q # p => pc'[q] = pc[q] /\ op'[q] = op[q]
    BY OthersStay
  <1>2. faults' = 0 => faults = 0
    <2>1. CASE Begin(p)
      BY <2>1, BeginMeans
    <2>2. CASE UNCHANGED bounds \/ Fault
      BY <2>2 DEF Fault, bounds, TypeOK, BoundTypeOK
    <2> QED
      BY <2>1, <2>2 DEF Act, Begin, Step, StagePart, RejectPart, RecordPart, FailPart, UnstagePart, LockUpload, Load, Validate,
           LockKey, ReadPart, RejectComplete, PlaceObject, CommitObject, FailCommit, DropParts, DropRow
  <1>3. CASE StagePart(p)
    <2>1. /\ pc[p] \in Parting /\ pc[p] # "row" /\ UNCHANGED <<upload, op>> /\ pc'[p] = "record"
      BY <1>3 DEF StagePart, Parting, Goto, TypeOK, RequestTypeOK
    <2>2. /\ u \in Upload /\ upload[u] # "new"
      BY <2>1 DEF Parting, TypeOK, RequestOK
    <2>3. \A x \in Upload : x # u => partFile'[x] = partFile[x]
      BY <1>3 DEF StagePart, TypeOK, StagingTypeOK
    <2>4. late \subseteq late' /\ (u \notin late' => upload[u] # "gone" /\ ~\E q \in Proc : pc[q] = "row" /\ op[q].upload = u)
      BY <1>3 DEF StagePart
    <2> HIDE DEF u
    <2> QED
      BY <1>1, <1>2, <2>1, <2>2, <2>3, <2>4 DEF Staged
  <1>4. CASE UnstagePart(p)
    <2>1. /\ pc[p] \in Parting /\ UNCHANGED <<upload, late>> /\ pc'[p] = "idle"
      BY <1>4 DEF UnstagePart, Parting, Return, TypeOK, RequestTypeOK
    <2>2. /\ u \in Upload /\ op[p].parts[1][1] \in PartNumber
      BY <2>1, CarriedPart
    <2>3. \A x \in Upload : partFile[x] = NoParts => partFile'[x] = NoParts
      <3>1. CASE partFile' = [partFile EXCEPT ![op[p].upload][op[p].parts[1][1]] = None]
        <4>1. \A n \in PartNumber : [NoParts EXCEPT ![n] = None] = NoParts
          BY DEF NoParts
        <4>2. \A x \in Upload : partFile'[x] = IF x = u THEN [partFile[u] EXCEPT ![op[p].parts[1][1]] = None] ELSE partFile[x]
          BY <2>2, <3>1 DEF TypeOK, StagingTypeOK
        <4> QED
          BY <2>2, <4>1, <4>2
      <3>2. CASE UNCHANGED partFile
        BY <3>2
      <3> QED
        BY <1>4, <3>1, <3>2 DEF UnstagePart
    <2> QED
      BY <1>1, <1>2, <2>1, <2>3 DEF Staged
  <1>5. CASE DropParts(p)
    <2>1. UNCHANGED <<upload, late>> /\ pc[p] = "parts" /\ u \in Upload /\ upload[u] # "new"
      BY <1>5 DEF DropParts, TypeOK, RequestOK
    <2>2. CASE partFile' = [partFile EXCEPT ![op[p].upload] = NoParts] /\ Goto(p, "row")
      <3>1. \A x \in Upload : partFile'[x] = IF x = u THEN NoParts ELSE partFile[x]
        BY <2>1, <2>2 DEF TypeOK, StagingTypeOK
      <3>2. op'[p] = op[p]
        BY <2>2 DEF Goto
      <3> HIDE DEF u
      <3> QED
        BY <1>1, <1>2, <2>1, <3>1, <3>2 DEF Staged, u
    <2>3. CASE Fault /\ UNCHANGED partFile
      <3>1. faults' # 0
        BY <2>3 DEF Fault, TypeOK, BoundTypeOK
      <3> QED
        BY <2>1, <2>3, <3>1 DEF Staged
    <2> QED
      BY <1>5, <2>2, <2>3 DEF DropParts
  <1>6. CASE DropRow(p)
    <2>1. /\ UNCHANGED <<partFile, late>> /\ pc[p] = "row" /\ pc'[p] = "idle" /\ u \in Upload
          /\ \A x \in Upload : upload'[x] = upload[x] \/ (x = u /\ upload'[x] = "gone")
      BY <1>6 DEF DropRow, Return, TypeOK, RequestTypeOK, RequestOK, StagingTypeOK
    <2> QED
      BY <1>1, <1>2, <2>1 DEF Staged
  <1>7. ASSUME ~StagePart(p), ~UnstagePart(p), ~DropParts(p), ~DropRow(p)
        PROVE  UNCHANGED <<upload, partFile, late>> /\ pc'[p] # "row"
    <2>1. CASE Begin(p)
      BY <2>1, BeginMeans DEF staging, TypeOK, RequestTypeOK
    <2>2. CASE ~Begin(p)
      BY <1>7, <2>2 DEF Act, Begin, Step, RejectPart, RecordPart, FailPart, LockUpload, Load, Validate,
           LockKey, ReadPart, RejectComplete, PlaceObject, CommitObject, FailCommit, Return, Goto, staging, TypeOK, RequestTypeOK
    <2> QED
      BY <2>1, <2>2
  <1> QED
    BY <1>1, <1>2, <1>3, <1>4, <1>5, <1>6, <1>7 DEF Staged

-----------------------------------------------------------------------------
(* What is copied is what was listed, when clients send one body per part.       *)

OneBodyPerNumber == \A s, t \in Sends : s[1] = t[1] => s[2] = t[2]

\* The table and the staged files hold what clients sent.
SentOnly ==
  \A u \in Upload, n \in PartNumber :
    /\ partRow[u][n] = None \/ <<n, partRow[u][n]>> \in Sends
    /\ partFile[u][n] = None \/ <<n, partFile[u][n]>> \in Sends

\* Past its validation.
Validated(p) == pc[p] \in {"key"} \cup HoldsKey /\ op[p].kind = "complete"

Copied ==
  /\ \A p \in Proc : pc[p] \in Completing /\ pc[p] \notin HoldsKey => body[p] = <<>>
  /\ \A p \in Proc : Validated(p) =>
       /\ \A i \in 1..Len(op[p].parts) : op[p].parts[i] \in Sends
       /\ Len(body[p]) <= Len(op[p].parts)
       /\ \A i \in 1..Len(body[p]) : body[p][i] = op[p].parts[i][2]
       /\ pc[p] # "key" /\ pc[p] # "assemble" => Len(body[p]) = Len(op[p].parts)
  /\ \A p \in Proc : pc[p] = "idle" => body[p] = <<>>

LEMMA SentOnlyStep ==
  ASSUME TypeOK, SentOnly, NEW p \in Proc, Act(p)
  PROVE  SentOnly'
  <1> DEFINE u == op[p].upload
             s == op[p].parts[1]
  <1>1. CASE StagePart(p) \/ RecordPart(p) \/ UnstagePart(p)
    <2>1. u \in Upload /\ s \in Sends /\ s[1] \in PartNumber /\ s[2] \in Content /\ s = <<s[1], s[2]>>
      <3>1. s \in Part
        BY <1>1, CarriedPart, ClientAssumption DEF StagePart, RecordPart, UnstagePart, Parting
      <3> QED
        BY <1>1, <3>1, CarriedPart DEF StagePart, RecordPart, UnstagePart, Parting, Part
    <2>2. /\ partFile' = partFile \/ partFile' = [partFile EXCEPT ![u][s[1]] = s[2]] \/ partFile' = [partFile EXCEPT ![u][s[1]] = None]
          /\ partRow' = partRow \/ partRow' = [partRow EXCEPT ![u][s[1]] = s[2]]
      BY <1>1 DEF StagePart, RecordPart, UnstagePart
    <2> HIDE DEF u, s
    <2>3. partFile \in [Upload -> PartTable] /\ partRow \in [Upload -> PartTable]
      BY DEF TypeOK, StagingTypeOK
    <2>4. ASSUME NEW x \in Upload, NEW n \in PartNumber
          PROVE  /\ partFile'[x][n] \in {partFile[x][n], None} \/ (n = s[1] /\ partFile'[x][n] = s[2])
                 /\ partRow'[x][n] = partRow[x][n] \/ (n = s[1] /\ partRow'[x][n] = s[2])
      <3>1. /\ [partFile EXCEPT ![u][s[1]] = s[2]][x][n] = IF x = u /\ n = s[1] THEN s[2] ELSE partFile[x][n]
            /\ [partFile EXCEPT ![u][s[1]] = None][x][n] = IF x = u /\ n = s[1] THEN None ELSE partFile[x][n]
            /\ [partRow EXCEPT ![u][s[1]] = s[2]][x][n] = IF x = u /\ n = s[1] THEN s[2] ELSE partRow[x][n]
        BY <2>1, <2>3 DEF PartTable
      <3>2. partFile'[x][n] \in {partFile[x][n], None} \/ (n = s[1] /\ partFile'[x][n] = s[2])
        <4>1. CASE partFile' = partFile
          BY <4>1
        <4>2. CASE partFile' = [partFile EXCEPT ![u][s[1]] = s[2]]
          BY <4>2, <3>1
        <4>3. CASE partFile' = [partFile EXCEPT ![u][s[1]] = None]
          BY <4>3, <3>1
        <4> QED
          BY <2>2, <4>1, <4>2, <4>3
      <3>3. partRow'[x][n] = partRow[x][n] \/ (n = s[1] /\ partRow'[x][n] = s[2])
        <4>1. CASE partRow' = partRow
          BY <4>1
        <4>2. CASE partRow' = [partRow EXCEPT ![u][s[1]] = s[2]]
          BY <4>2, <3>1
        <4> QED
          BY <2>2, <4>1, <4>2
      <3> QED
        BY <3>2, <3>3
    <2>5. ASSUME NEW x \in Upload, NEW n \in PartNumber
          PROVE  /\ partRow'[x][n] = None \/ <<n, partRow'[x][n]>> \in Sends
                 /\ partFile'[x][n] = None \/ <<n, partFile'[x][n]>> \in Sends
      <3>1. n = s[1] => <<n, s[2]>> \in Sends
        BY <2>1
      <3>2. /\ partRow[x][n] = None \/ <<n, partRow[x][n]>> \in Sends
            /\ partFile[x][n] = None \/ <<n, partFile[x][n]>> \in Sends
        BY DEF SentOnly
      <3> QED
        BY <2>4, <3>1, <3>2
    <2> QED
      BY <2>5 DEF SentOnly
  <1>2. CASE DropParts(p) \/ DropRow(p)
    <2>1. /\ partFile' = partFile \/ partFile' = [partFile EXCEPT ![u] = NoParts]
          /\ partRow' = partRow \/ partRow' = [partRow EXCEPT ![u] = NoParts]
      BY <1>2 DEF DropParts, DropRow
    <2>2. \A n \in PartNumber : NoParts[n] = None
      BY DEF NoParts
    <2> HIDE DEF u
    <2> QED
      BY <2>1, <2>2 DEF SentOnly, TypeOK, StagingTypeOK
  <1>3. ASSUME ~StagePart(p), ~RecordPart(p), ~UnstagePart(p), ~DropParts(p), ~DropRow(p)
        PROVE  UNCHANGED <<partRow, partFile>>
    <2>1. CASE Begin(p)
      BY <2>1, BeginMeans DEF staging
    <2>2. CASE ~Begin(p)
      BY <1>3, <2>2 DEF Act, Begin, Step, RejectPart, FailPart, LockUpload, Load, Validate, LockKey, ReadPart,
           RejectComplete, PlaceObject, CommitObject, FailCommit, staging
    <2> QED
      BY <2>1, <2>2
  <1> QED
    BY <1>1, <1>2, <1>3 DEF SentOnly

LEMMA CopiedStep ==
  ASSUME TypeOK, OneBodyPerNumber, SentOnly, Copied, NEW p \in Proc, Act(p)
  PROVE  Copied'
  <1> USE DEF HoldsKey
  <1>1. ASSUME NEW q \in Proc, q # p
        PROVE  /\ pc'[q] = pc[q] /\ op'[q] = op[q] /\ body'[q] = body[q]
               /\ Validated(q)' <=> Validated(q)
    BY <1>1, OthersStay DEF Validated
  <1>2. body[p] \in Seq(Content) /\ op[p].parts \in Seq(Part)
    BY DEF TypeOK, RequestTypeOK, Requests
  <1>3. CASE Begin(p)
    <2>1. body'[p] = <<>> /\ ~Validated(p)'
      BY <1>3, BeginMeans DEF Copied, Validated, TypeOK, RequestTypeOK
    <2> QED
      BY <1>1, <2>1 DEF Copied
  <1>4. CASE Return(p)
    <2>1. body'[p] = <<>> /\ pc'[p] = "idle"
      BY <1>4, ReturnMeans
    <2> QED
      BY <1>1, <2>1 DEF Copied, Validated
  <1>5. CASE Validate(p) /\ Goto(p, "key")
    <2>1. /\ pc[p] = "validate" /\ pc'[p] = "key" /\ UNCHANGED <<op, body>> /\ body[p] = <<>> /\ op[p].upload \in Upload
          /\ Acceptable(op[p].upload, op[p].parts)
      BY <1>5 DEF Validate, Goto, Copied, TypeOK, RequestTypeOK, RequestOK, Completing, Return
    <2>2. ASSUME NEW i \in 1..Len(op[p].parts)
          PROVE  op[p].parts[i] \in Sends
      <3>1. op[p].parts[i] \in Part
        BY <1>2
      <3>2. partRow[op[p].upload][op[p].parts[i][1]] = op[p].parts[i][2]
        BY <2>1 DEF Acceptable, Recorded
      <3>3. op[p].parts[i] = <<op[p].parts[i][1], op[p].parts[i][2]>> /\ op[p].parts[i][1] \in PartNumber
            /\ op[p].parts[i][2] \in Content
        BY <3>1 DEF Part
      <3> QED
        BY <2>1, <3>2, <3>3, PartAssumption DEF SentOnly
    <2>3. Len(body[p]) = 0 /\ Len(op[p].parts) \in Nat
      BY <1>2, <2>1
    <2> QED
      BY <1>1, <2>1, <2>2, <2>3 DEF Copied, Validated
  <1>6. CASE ReadPart(p) /\ ~Return(p)
    <2> DEFINE n == Len(body[p]) + 1
               c == partFile[op[p].upload][op[p].parts[n][1]]
    <2>1. /\ pc[p] = "assemble" /\ n \in 1..Len(op[p].parts) /\ c # None
          /\ body' = [body EXCEPT ![p] = Append(@, c)] /\ UNCHANGED <<pc, op>>
      BY <1>2, <1>6 DEF ReadPart
    <2>2. op[p].kind = "complete" /\ op[p].upload \in Upload /\ Validated(p)
      BY <2>1 DEF TypeOK, RequestOK, Completing, Validated
    <2>3. op[p].parts[n] \in Part /\ op[p].parts[n] \in Sends
      BY <1>2, <2>1, <2>2 DEF Copied
    <2>4. op[p].parts[n][1] \in PartNumber
      BY <2>3 DEF Part
    <2>5. <<op[p].parts[n][1], c>> \in Sends
      BY <2>1, <2>2, <2>4 DEF SentOnly
    <2>6. c = op[p].parts[n][2]
      BY <2>3, <2>5 DEF OneBodyPerNumber
    <2>7. body'[p] = Append(body[p], c)
      BY <2>1 DEF TypeOK, RequestTypeOK
    <2>8. c \in Content
      BY <2>3, <2>6 DEF Part
    <2> HIDE DEF c
    <2>9. Len(body'[p]) = n /\ body'[p][n] = c /\ \A i \in 1..Len(body[p]) : body'[p][i] = body[p][i]
      BY <1>2, <2>7, <2>8
    <2>10. /\ Len(body'[p]) <= Len(op[p].parts)
           /\ \A i \in 1..Len(body'[p]) : body'[p][i] = op[p].parts[i][2]
      BY <1>2, <2>1, <2>2, <2>6, <2>9 DEF Copied
    <2>11. Validated(p)' /\ pc'[p] = "assemble"
      BY <2>1, <2>2 DEF Validated
    <2> QED
      BY <1>1, <2>1, <2>2, <2>10, <2>11 DEF Copied
  <1>7. ASSUME ~Begin(p), ~Return(p), ~Validate(p), ~ReadPart(p)
        PROVE  Copied'
    <2>1. UNCHANGED <<op, body>>
      BY <1>7 DEF Act, Begin, Step, StagePart, RejectPart, RecordPart, FailPart, UnstagePart, LockUpload, Load,
           LockKey, RejectComplete, PlaceObject, CommitObject, FailCommit, DropParts, DropRow, Goto
    <2>2. \/ pc'[p] \in Parting
          \/ pc[p] \in {"upload", "load"} /\ pc'[p] \in {"load", "validate"}
          \/ pc[p] = "key" /\ pc'[p] = "assemble"
          \/ pc[p] = "assemble" /\ pc'[p] = "commit" /\ Len(body[p]) = Len(op[p].parts)
          \/ pc[p] = "commit" /\ pc'[p] = "parts"
          \/ pc[p] = "parts" /\ pc'[p] = "row"
      BY <1>7 DEF Act, Begin, Step, StagePart, RejectPart, RecordPart, FailPart, UnstagePart, LockUpload, Load,
           LockKey, RejectComplete, PlaceObject, CommitObject, FailCommit, DropParts, DropRow, Goto, Parting, TypeOK, RequestTypeOK
    <2>3. pc'[p] \in Parting => ~Validated(p)' /\ pc'[p] \notin Completing /\ pc'[p] # "idle"
      BY DEF Parting, Completing, Validated
    <2>4. CASE pc'[p] \in Parting
      BY <1>1, <2>1, <2>3, <2>4 DEF Copied
    <2>5. CASE pc[p] \in {"upload", "load"} /\ pc'[p] \in {"load", "validate"}
      BY <1>1, <2>1, <2>5 DEF Copied, Validated, Completing
    <2>6. CASE pc'[p] \in HoldsKey /\ pc[p] \in {"key"} \cup HoldsKey
               /\ (pc'[p] # "assemble" => pc[p] # "key" /\ (pc[p] # "assemble" \/ Len(body[p]) = Len(op[p].parts)))
      BY <1>1, <2>1, <2>6 DEF Copied, Validated
    <2> QED
      BY <2>2, <2>4, <2>5, <2>6
  <1> QED
    BY <1>3, <1>4, <1>5, <1>6, <1>7 DEF Act, Begin, Validate

-----------------------------------------------------------------------------
(* The invariant, and what follows from it. *)

MultipartInv ==
  /\ TypeOK /\ Mutexes /\ Once /\ Whole /\ Staged
  /\ OneBodyPerNumber => SentOnly /\ Copied

LEMMA MultipartInit ==
  ASSUME Init
  PROVE  MultipartInv
  <1>1. NoRequest \in Requests /\ NoParts \in PartTable /\ <<>> \in Seq(Content)
    BY DEF NoRequest, Requests, NoParts, PartTable
  <1>2. StagingTypeOK /\ ObjectTypeOK /\ RequestTypeOK /\ BoundTypeOK
    BY <1>1 DEF Init, StagingTypeOK, ObjectTypeOK, RequestTypeOK, BoundTypeOK
  <1>3. \A p \in Proc : pc[p] = "idle" /\ op[p] = NoRequest /\ body[p] = <<>>
    BY DEF Init
  <1>4. TypeOK
    BY <1>2, <1>3 DEF TypeOK, RequestOK, NoRequest, Parting, Completing, Ending
  <1>5. Mutexes
    BY <1>3 DEF Mutexes, HoldsU, HoldsK, HoldsUpload, HoldsKey
  <1>6. Once /\ Whole /\ Staged
    BY <1>3 DEF Init, Once, Whole, Staged, Deciding, Finishing, Placing, Ending
  <1>7. SentOnly
    BY DEF Init, SentOnly, NoParts
  <1>8. Copied
    BY <1>3 DEF Copied, Validated, HoldsKey, Completing
  <1> QED
    BY <1>4, <1>5, <1>6, <1>7, <1>8 DEF MultipartInv

\* A crash forgets every request.
LEMMA CrashStep ==
  ASSUME MultipartInv, TypeOK', Crash
  PROVE  MultipartInv'
  <1>1. /\ \A p \in Proc : pc'[p] = "idle" /\ op'[p] = NoRequest /\ body'[p] = <<>>
        /\ UNCHANGED <<upload, partRow, partFile, late, row, file, completes, faults>>
        /\ ~NoTrouble'
    BY DEF Crash, staging, object, NoTrouble, MultipartInv, TypeOK, BoundTypeOK
  <1>2. Mutexes'
    BY <1>1 DEF Mutexes, HoldsU, HoldsK, HoldsUpload, HoldsKey
  <1>3. Once' /\ Whole'
    BY <1>1 DEF Once, Whole
  <1>4. Staged'
    BY <1>1 DEF MultipartInv, Staged
  <1>5. SentOnly => SentOnly'
    BY <1>1 DEF SentOnly
  <1>6. Copied'
    BY <1>1 DEF Copied, Validated, HoldsKey, Completing
  <1> QED
    BY <1>2, <1>3, <1>4, <1>5, <1>6 DEF MultipartInv

LEMMA CreateStep ==
  ASSUME MultipartInv, TypeOK', NEW u \in Upload, CreateUpload(u)
  PROVE  MultipartInv'
  <1>1. /\ UNCHANGED <<partRow, partFile, late, row, file, completes, pc, op, body, requests, faults, crashes>>
        /\ \A x \in Upload : upload'[x] = IF x = u THEN "open" ELSE upload[x]
        /\ upload[u] = "new"
    BY DEF CreateUpload, object, bounds, MultipartInv, TypeOK, StagingTypeOK
  <1>2. Mutexes'
    BY <1>1 DEF MultipartInv, Mutexes, HoldsU, HoldsK
  <1>3. Once' /\ Whole'
    BY <1>1 DEF MultipartInv, Once, Whole, NoTrouble, Deciding, Finishing, Placing
  <1>4. Staged'
    BY <1>1 DEF MultipartInv, Staged
  <1>5. (SentOnly => SentOnly') /\ (Copied => Copied')
    BY <1>1 DEF SentOnly, Copied, Validated
  <1> QED
    BY <1>2, <1>3, <1>4, <1>5 DEF MultipartInv

LEMMA MultipartStep ==
  ASSUME MultipartInv, [Next]_vars
  PROVE  MultipartInv'
  <1>1. TypeOK'
    BY TypeStep DEF MultipartInv
  <1>2. CASE UNCHANGED vars
    <2>1. UNCHANGED <<upload, partRow, partFile, late, row, file, completes, pc, op, body, faults, crashes>>
      BY <1>2 DEF vars, staging, object, bounds
    <2>2. Mutexes' /\ Once' /\ Whole' /\ Staged'
      BY <2>1 DEF MultipartInv, Mutexes, Once, Whole, Staged, HoldsU, HoldsK, NoTrouble, Deciding, Finishing, Placing
    <2>3. (SentOnly => SentOnly') /\ (Copied => Copied')
      BY <2>1 DEF SentOnly, Copied, Validated
    <2> QED
      BY <1>1, <2>2, <2>3 DEF MultipartInv
  <1>3. ASSUME NEW u \in Upload, CreateUpload(u)
        PROVE  MultipartInv'
    BY <1>1, <1>3, CreateStep
  <1>4. ASSUME NEW p \in Proc, Act(p)
        PROVE  MultipartInv'
    BY <1>1, <1>4, MutexesStep, OnceStep, WholeStep, StagedStep, SentOnlyStep, CopiedStep DEF MultipartInv
  <1>5. CASE Crash
    BY <1>1, <1>5, CrashStep
  <1> QED
    BY <1>2, <1>3, <1>4, <1>5 DEF Next, Act

\* The invariant holds throughout.
THEOREM MultipartInvariant == Spec => []MultipartInv
  <1>1. Init => MultipartInv
    BY MultipartInit
  <1>2. MultipartInv /\ [Next]_vars => MultipartInv'
    BY MultipartStep
  <1> QED
    BY <1>1, <1>2, PTL DEF Spec

\* As long as nothing fails, an upload becomes an object once (handler/multipart.go
\* CompleteMultipartUpload), whatever keys it is completed under and whoever aborts it.
THEOREM UploadsCompleteOnce == Spec => []CompletesOnce
  <1>1. MultipartInv => CompletesOnce
    BY DEF MultipartInv, Once, NoTrouble, CompletesOnce
  <1> QED
    BY <1>1, MultipartInvariant, PTL

\* As long as nothing fails, an object's row describes its file whenever no Complete holds its
\* key's mutex.
THEOREM CompletedObjectsAreWhole == Spec => []ObjectsAreWhole
  <1>1. MultipartInv => ObjectsAreWhole
    BY DEF MultipartInv, Whole, NoTrouble, ObjectsAreWhole, Placing, HoldsKey
  <1> QED
    BY <1>1, MultipartInvariant, PTL

\* Wherever the process dies, a cleaner still finds the upload of staged bytes.
THEOREM StagedBytesStayReachable == Spec => []StagedBytesAreReachable
  <1>1. MultipartInv => StagedBytesAreReachable
    BY DEF MultipartInv, Staged, TypeOK, StagingTypeOK, StagedBytesAreReachable
  <1> QED
    BY <1>1, MultipartInvariant, PTL

\* An object consists of what its client listed, when clients send one body per part number.
THEOREM CompletedIsWhatWasListed == Spec => [](OneBodyPerNumber => CompletedAsValidated)
  <1>1. MultipartInv => (OneBodyPerNumber => CompletedAsValidated)
    <2> SUFFICES ASSUME MultipartInv, OneBodyPerNumber, NEW p \in Proc, pc[p] \in {"parts", "row"}, op[p].kind = "complete"
                 PROVE  body[p] = [i \in 1..Len(op[p].parts) |-> op[p].parts[i][2]]
      BY DEF CompletedAsValidated
    <2>1. Validated(p) /\ pc[p] # "key" /\ pc[p] # "assemble"
      BY DEF Validated, HoldsKey
    <2>2. /\ Len(body[p]) = Len(op[p].parts)
          /\ \A i \in 1..Len(body[p]) : body[p][i] = op[p].parts[i][2]
      BY <2>1 DEF MultipartInv, Copied
    <2>3. body[p] \in Seq(Content)
      BY DEF MultipartInv, TypeOK, RequestTypeOK
    <2> QED
      BY <2>2, <2>3
  <1> QED
    BY <1>1, MultipartInvariant, PTL
=============================================================================
