-------------------------- MODULE ObjectStore_proofs --------------------------
(***************************************************************************)
(* Theorems about ObjectStore, for every set of keys, contents, version    *)
(* ids, requests and mutexes and every bound on requests and failures; the  *)
(* last part is about a bucket whose versioning nobody ever sets.           *)
(***************************************************************************)
EXTENDS ObjectStore, TLAPS

(* What the operators on rows and files do to types. *)

LEMMA NoRowType == NoRow \in Row
  BY DEF NoRow, Row

LEMMA NoRequestType == NoRequest \in Request
  BY VersionIdAssumption DEF NoRequest, Request, VersionId, Modes

LEMMA SaveRowType ==
  ASSUME TypeOK, NEW k \in Key, NEW v \in VersionId,
         NEW etag \in Content \cup {None}, NEW marker \in BOOLEAN,
         SaveRow(k, v, etag, marker)
  PROVE  /\ rows' \in [Key -> [VersionId -> Row]]
         /\ nextId' \in Nat \ {0}
         /\ clock' \in Nat
  <1>1. \A w \in VersionId : rows[k][w] \in Row
    BY DEF TypeOK
  <1>2. \A w \in VersionId : [rows[k][w] EXCEPT !.latest = FALSE] \in Row
    BY <1>1 DEF Row
  <1>3. [id |-> IF Has(k, v) THEN rows[k][v].id ELSE nextId,
         latest |-> TRUE, marker |-> marker, etag |-> etag,
         modified |-> clock] \in Row
    BY <1>1 DEF Row, TypeOK, Has
  <1>4. rows' \in [Key -> [VersionId -> Row]]
    BY <1>2, <1>3 DEF SaveRow, TypeOK
  <1> QED
    BY <1>1, <1>4 DEF SaveRow, TypeOK, Has, Row

LEMMA DropRowType ==
  ASSUME TypeOK, NEW k \in Key, NEW v \in VersionId, DropRow(k, v)
  PROVE  /\ rows' \in [Key -> [VersionId -> Row]]
         /\ UNCHANGED <<nextId, clock>>
  <1> DEFINE cleared == [rows EXCEPT ![k][v] = NoRow]
  <1>1. cleared \in [Key -> [VersionId -> Row]]
    BY NoRowType DEF TypeOK
  <1>2. \A w \in VersionId : [cleared EXCEPT ![k][w].latest = TRUE] \in [Key -> [VersionId -> Row]]
    <2> TAKE w \in VersionId
    <2>1. cleared[k][w] \in Row
      BY <1>1
    <2>2. [cleared[k][w] EXCEPT !.latest = TRUE] \in Row
      BY <2>1 DEF Row
    <2> HIDE DEF cleared
    <2> QED
      BY <1>1, <2>2
  <1>3. rows' = cleared \/ \E w \in VersionId : rows' = [cleared EXCEPT ![k][w].latest = TRUE]
    BY DEF DropRow, Newest
  <1> QED
    BY <1>1, <1>2, <1>3 DEF DropRow

LEMMA WriteFileType ==
  ASSUME TypeOK, NEW k \in Key, NEW v \in VersionId,
         NEW c \in Content \cup {None}, WriteFile(k, v, c)
  PROVE  /\ slot' \in [Key -> Content \cup {None}]
         /\ vfile' \in [Key -> [Real -> Content \cup {None}]]
  <1>1. CASE v \in Real
    <2>1. vfile' = [vfile EXCEPT ![k][v] = c] /\ UNCHANGED slot
      BY <1>1 DEF WriteFile
    <2> QED
      BY <2>1, <1>1 DEF TypeOK
  <1>2. CASE v \notin Real
    <2>1. slot' = [slot EXCEPT ![k] = c] /\ UNCHANGED vfile
      BY <1>2 DEF WriteFile
    <2> QED
      BY <2>1 DEF TypeOK
  <1> QED
    BY <1>1, <1>2

LEMMA ReturnType ==
  ASSUME TypeOK, NEW p \in Proc, Return(p)
  PROVE  /\ lock' \in [Stripe -> Proc \cup {NoProc}]
         /\ pc' \in [Proc -> Where]
         /\ op' \in [Proc -> Request]
         /\ \A q \in Proc : pc'[q] # "idle" => op'[q].key \in Key
         /\ vid' \in [Proc -> VersionId]
         /\ doomed' \in [Proc -> SUBSET VersionId]
         /\ body' \in [Proc -> Content \cup {None}]
  BY NoRequestType DEF TypeOK, Return, Where, VersionId

LEMMA GotoType ==
  ASSUME TypeOK, NEW p \in Proc, NEW l \in Where, pc[p] # "idle", Goto(p, l)
  PROVE  /\ lock' \in [Stripe -> Proc \cup {NoProc}]
         /\ pc' \in [Proc -> Where]
         /\ op' \in [Proc -> Request]
         /\ \A q \in Proc : pc'[q] # "idle" => op'[q].key \in Key
         /\ body' \in [Proc -> Content \cup {None}]
  BY DEF TypeOK, Goto

LEMMA FaultType ==
  ASSUME TypeOK, Fault
  PROVE  requests' \in Nat /\ faults' \in Nat /\ crashes' \in Nat
  BY DEF TypeOK, Fault

LEMMA ChosenId ==
  ASSUME NEW mode \in Modes, NEW v \in VersionIDForPut(mode)
  PROVE  v \in VersionId
  BY DEF VersionIDForPut, VersionId, Modes

\* The fields of a running request.
LEMMA RequestFields ==
  ASSUME TypeOK, NEW p \in Proc, pc[p] # "idle"
  PROVE  /\ op[p].key \in Key
         /\ op[p].kind \in AllKinds \cup {"none"}
         /\ op[p].target \in VersionId
         /\ op[p].etag \in Content \cup {None}
         /\ op[p].mode \in Modes
         /\ vid[p] \in VersionId
         /\ doomed[p] \in SUBSET VersionId
  BY DEF TypeOK, Request

\* Every step keeps every variable in its type.
LEMMA TypeStep ==
  ASSUME TypeOK, [Next]_vars
  PROVE  TypeOK'
  <1> USE DEF db, disk, request, bounds
  <1>1. ASSUME NEW p \in Proc, BeginWrite(p) PROVE TypeOK'
    <2>1. PICK r \in Request : r.key \in Key /\ op' = [op EXCEPT ![p] = r]
      BY <1>1 DEF BeginWrite
    <2>2. "lock" \in Where
      BY DEF Where
    <2>3. /\ pc' = [pc EXCEPT ![p] = "lock"]
          /\ requests' = requests + 1
          /\ UNCHANGED <<versioning, db, disk, used, lock, vid, doomed, body, faults, crashes>>
      BY <1>1 DEF BeginWrite
    <2> QED
      BY <2>1, <2>2, <2>3 DEF TypeOK
  <1>2. ASSUME NEW p \in Proc, BeginRead(p) PROVE TypeOK'
    <2>0. requests' \in Nat /\ faults' \in Nat /\ crashes' \in Nat
      <3>1. requests \in Nat /\ faults \in Nat /\ crashes \in Nat
        BY DEF TypeOK
      <3>2. requests' = requests + 1 /\ faults' = faults /\ crashes' = crashes
        BY <1>2 DEF BeginRead
      <3> QED
        BY <3>1, <3>2
    <2>1. PICK kind \in Kinds \cap {"get", "thumb"}, k \in Key,
               target \in {""} \cup {"null"} \cup used, v \in VersionId :
            /\ op' = [op EXCEPT ![p] = [kind |-> kind, key |-> k, target |-> target,
                                        etag |-> rows[k][v].etag, mode |-> ""]]
            /\ vid' = [vid EXCEPT ![p] = v]
            /\ pc' = [pc EXCEPT ![p] = IF kind = "thumb" THEN "probe" ELSE "open"]
      <3>1. \A k \in Key : Current(k) \in SUBSET VersionId
        BY DEF Current, Newest
      <3>2. \A k \in Key, target \in {""} \cup {"null"} \cup used :
              Newest(k, Named(k, target)) \in SUBSET VersionId
        BY DEF Newest, Named, VersionId, TypeOK
      <3>3. \A k \in Key, target \in {""} \cup {"null"} \cup used :
              (IF target = "" THEN Current(k) ELSE Newest(k, Named(k, target))) \in SUBSET VersionId
        BY <3>1, <3>2
      <3>4. PICK kind \in Kinds \cap {"get", "thumb"}, k \in Key,
                 target \in {""} \cup {"null"} \cup used :
              \E v \in IF target = "" THEN Current(k) ELSE Newest(k, Named(k, target)) :
                /\ op' = [op EXCEPT ![p] = [kind |-> kind, key |-> k, target |-> target,
                                           etag |-> rows[k][v].etag, mode |-> ""]]
                /\ vid' = [vid EXCEPT ![p] = v]
                /\ pc' = [pc EXCEPT ![p] = IF kind = "thumb" THEN "probe" ELSE "open"]
        BY <1>2 DEF BeginRead
      <3> QED
        BY <3>3, <3>4
    <2>2. rows[k][v] \in Row
      BY DEF TypeOK
    <2>3. [kind |-> kind, key |-> k, target |-> target,
           etag |-> rows[k][v].etag, mode |-> ""] \in Request
      BY <2>2, ModeAssumption DEF TypeOK, Request, VersionId, Modes, AllKinds, Row
    <2>4. op' \in [Proc -> Request] /\ \A q \in Proc : pc'[q] # "idle" => op'[q].key \in Key
      BY <2>1, <2>3 DEF TypeOK
    <2>5. vid' \in [Proc -> VersionId] /\ pc' \in [Proc -> Where]
      BY <2>1 DEF TypeOK, Where, Reading
    <2>6. UNCHANGED <<versioning, db, disk, used, lock, doomed, body>>
      BY <1>2 DEF BeginRead
    <2>7. /\ versioning' \in Modes
          /\ rows' \in [Key -> [VersionId -> Row]]
          /\ nextId' \in Nat \ {0} /\ clock' \in Nat
          /\ slot' \in [Key -> Content \cup {None}]
          /\ vfile' \in [Key -> [Real -> Content \cup {None}]]
          /\ used' \in SUBSET Real
          /\ variants' \in [Key -> SUBSET (VersionId \X (Content \cup {None}) \X (Content \cup {None}))]
          /\ lock' \in [Stripe -> Proc \cup {NoProc}]
          /\ doomed' \in [Proc -> SUBSET VersionId]
          /\ body' \in [Proc -> Content \cup {None}]
      BY <2>6 DEF TypeOK
    <2> QED
      BY <2>0, <2>4, <2>5, <2>7, Zenon DEF TypeOK
  <1>3. ASSUME NEW p \in Proc, Acquire(p) PROVE TypeOK'
    <2>1. FirstStep(op[p]) \in Where
      BY DEF FirstStep, Where, Locked
    <2>2. lock' \in [Stripe -> Proc \cup {NoProc}]
      BY <1>3 DEF TypeOK, Acquire
    <2> QED
      BY <1>3, <2>1, <2>2 DEF TypeOK, Acquire
  <1>4. ASSUME NEW p \in Proc, WriteBytes(p) PROVE TypeOK'
    <2>1. PICK v \in VersionIDForPut(op[p].mode) :
            /\ vid' = [vid EXCEPT ![p] = v]
            /\ used' = used \cup ({v} \cap Real)
            /\ WriteFile(op[p].key, v, op[p].etag)
      BY <1>4 DEF WriteBytes
    <2>2. pc[p] # "idle" /\ Goto(p, "save") /\ "save" \in Where
      BY <1>4 DEF WriteBytes, Where, Locked
    <2>3. v \in VersionId
      BY <2>1, <2>2, RequestFields, ChosenId
    <2> QED
      BY <1>4, <2>1, <2>2, <2>3, RequestFields, WriteFileType, GotoType
      DEF TypeOK, WriteBytes
  <1>5. ASSUME NEW p \in Proc, RejectBytes(p) PROVE TypeOK'
    BY <1>5, ReturnType DEF TypeOK, RejectBytes
  <1>6. ASSUME NEW p \in Proc, CommitRow(p) PROVE TypeOK'
    <2>1. pc[p] # "idle" /\ Goto(p, "tidy") /\ "tidy" \in Where
      BY <1>6 DEF CommitRow, Where, Locked
    <2>2. SaveRow(op[p].key, vid[p], op[p].etag, FALSE)
      BY <1>6 DEF CommitRow
    <2> QED
      BY <1>6, <2>1, <2>2, RequestFields, SaveRowType, GotoType DEF TypeOK, CommitRow
  <1>7. ASSUME NEW p \in Proc, FailRow(p) PROVE TypeOK'
    <2>1. pc[p] # "idle" /\ "undo" \in Where /\ Fault
      BY <1>7 DEF FailRow, Where, Locked
    <2>2. CASE Goto(p, "undo") /\ UNCHANGED <<vid, doomed>>
      BY <1>7, <2>1, <2>2, GotoType, FaultType DEF TypeOK, FailRow
    <2>3. CASE Return(p)
      BY <1>7, <2>1, <2>3, ReturnType, FaultType DEF TypeOK, FailRow
    <2> QED
      BY <1>7, <2>2, <2>3 DEF FailRow
  <1>8. ASSUME NEW p \in Proc, UndoBytes(p) PROVE TypeOK'
    <2>1. WriteFile(op[p].key, vid[p], None) /\ pc[p] # "idle" /\ Return(p)
      BY <1>8 DEF UndoBytes, RemoveFile
    <2> QED
      BY <1>8, <2>1, RequestFields, WriteFileType, ReturnType DEF TypeOK, UndoBytes
  <1>9. ASSUME NEW p \in Proc, Tidy(p) PROVE TypeOK'
    BY <1>9, ReturnType DEF TypeOK, Tidy
  <1>10. ASSUME NEW p \in Proc, FailDelete(p) PROVE TypeOK'
    BY <1>10, ReturnType, FaultType DEF TypeOK, FailDelete
  <1>11. ASSUME NEW p \in Proc, PutMarker(p) PROVE TypeOK'
    <2>1. PICK v \in VersionIDForPut(op[p].mode) :
            /\ used' = used \cup ({v} \cap Real)
            /\ SaveRow(op[p].key, v, None, TRUE)
      BY <1>11 DEF PutMarker
    <2>2. pc[p] # "idle" /\ Goto(p, "tidy") /\ "tidy" \in Where
      BY <1>11 DEF PutMarker, Where, Locked
    <2>3. v \in VersionId
      BY <2>1, <2>2, RequestFields, ChosenId
    <2> QED
      BY <1>11, <2>1, <2>2, <2>3, RequestFields, SaveRowType, GotoType DEF TypeOK, PutMarker
  <1>12. ASSUME NEW p \in Proc, DeleteVersion(p) PROVE TypeOK'
    <2> DEFINE found == Newest(op[p].key, Named(op[p].key, op[p].target))
    <2>1. pc[p] # "idle" /\ "bytes" \in Where
      BY <1>12 DEF DeleteVersion, Where, Locked
    <2>2. found \in SUBSET VersionId
      BY <2>1, RequestFields DEF Newest, Named, VersionId
    <2>3. CASE Return(p) /\ UNCHANGED db
      BY <1>12, <2>3, ReturnType DEF TypeOK, DeleteVersion
    <2>4. CASE \E v \in found :
                 /\ DropRow(op[p].key, v)
                 /\ doomed' = [doomed EXCEPT ![p] = IF rows[op[p].key][v].marker THEN {} ELSE {v}]
                 /\ Goto(p, "bytes")
                 /\ UNCHANGED vid
      <3>1. PICK v \in found :
                 /\ DropRow(op[p].key, v)
                 /\ doomed' = [doomed EXCEPT ![p] = IF rows[op[p].key][v].marker THEN {} ELSE {v}]
                 /\ Goto(p, "bytes")
                 /\ UNCHANGED vid
        BY <2>4
      <3>2. v \in VersionId
        BY <2>2
      <3>3. doomed' \in [Proc -> SUBSET VersionId]
        BY <3>1, <3>2 DEF TypeOK
      <3>4. rows' \in [Key -> [VersionId -> Row]] /\ UNCHANGED <<nextId, clock>>
        BY <2>1, <3>1, <3>2, RequestFields, DropRowType
      <3> QED
        BY <1>12, <2>1, <3>1, <3>3, <3>4, GotoType DEF TypeOK, DeleteVersion
    <2> QED
      BY <1>12, <2>3, <2>4 DEF DeleteVersion
  <1>13. ASSUME NEW p \in Proc, NEW at, NEW target \in {"", "null"}, NEW after \in Where,
                NEW next \in Where, at # "idle", DeleteNull(p, at, target, after, next)
         PROVE  TypeOK'
    <2> DEFINE found == Newest(op[p].key, Named(op[p].key, target))
    <2>1. pc[p] # "idle"
      BY <1>13 DEF DeleteNull
    <2>2. found \in SUBSET VersionId
      BY DEF Newest, Named, VersionId
    <2>3. CASE Goto(p, next) /\ UNCHANGED db
      BY <1>13, <2>1, <2>3, GotoType DEF TypeOK, DeleteNull
    <2>4. CASE \E v \in found : /\ DropRow(op[p].key, v)
                                /\ \/ Goto(p, next) \/ Goto(p, after)
      BY <1>13, <2>1, <2>2, <2>4, RequestFields, DropRowType, GotoType DEF TypeOK, DeleteNull
    <2> QED
      BY <1>13, <2>3, <2>4 DEF DeleteNull
  <1>14. ASSUME NEW p \in Proc, NEW at, NEW next \in Where, at # "idle", DeleteSlot(p, at, next)
         PROVE  TypeOK'
    <2>1. pc[p] # "idle" /\ Goto(p, next)
      BY <1>14 DEF DeleteSlot
    <2>2. "" \in VersionId
      BY DEF VersionId
    <2>3. /\ slot' \in [Key -> Content \cup {None}]
          /\ vfile' \in [Key -> [Real -> Content \cup {None}]]
          /\ requests' \in Nat /\ faults' \in Nat /\ crashes' \in Nat
      BY <1>14, <2>1, <2>2, RequestFields, WriteFileType, FaultType DEF TypeOK, DeleteSlot, RemoveFile
    <2> QED
      BY <1>14, <2>1, <2>3, GotoType DEF TypeOK, DeleteSlot
  <1>15. ASSUME NEW p \in Proc, SuspendedDelete(p) PROVE TypeOK'
    <2>1. {"nullfile", "blank", "blankfile", "marker"} \subseteq Where
      BY DEF Where, Locked
    <2> QED
      BY <1>13, <1>14, <1>15, <2>1 DEF SuspendedDelete
  <1>16. ASSUME NEW p \in Proc, ListVersions(p) PROVE TypeOK'
    <2>1. pc[p] # "idle" /\ Goto(p, "rows") /\ "rows" \in Where
      BY <1>16 DEF ListVersions, Where, Locked
    <2> QED
      BY <1>16, <2>1, GotoType DEF TypeOK, ListVersions
  <1>17. ASSUME NEW p \in Proc, DeleteRows(p) PROVE TypeOK'
    <2>1. pc[p] # "idle" /\ Goto(p, "bytes") /\ "bytes" \in Where
      BY <1>17 DEF DeleteRows, Where, Locked
    <2>2. rows' \in [Key -> [VersionId -> Row]] /\ UNCHANGED <<nextId, clock>>
      BY <1>17, NoRowType DEF DeleteRows, DropAllRows, TypeOK
    <2> QED
      BY <1>17, <2>1, <2>2, GotoType DEF TypeOK, DeleteRows
  <1>18. ASSUME NEW p \in Proc, RemoveBytes(p) PROVE TypeOK'
    <2>1. pc[p] # "idle" /\ Goto(p, "bytes") /\ "bytes" \in Where
      BY <1>18 DEF RemoveBytes, Where, Locked
    <2>2. PICK v \in doomed[p] :
            /\ \/ RemoveFile(op[p].key, v) /\ UNCHANGED bounds
               \/ Fault /\ UNCHANGED <<slot, vfile>>
            /\ doomed' = [doomed EXCEPT ![p] = @ \ {v}]
      BY <1>18 DEF RemoveBytes
    <2>3. v \in VersionId
      BY <2>1, RequestFields
    <2>4. /\ slot' \in [Key -> Content \cup {None}]
          /\ vfile' \in [Key -> [Real -> Content \cup {None}]]
          /\ requests' \in Nat /\ faults' \in Nat /\ crashes' \in Nat
      BY <2>1, <2>2, <2>3, RequestFields, WriteFileType, FaultType DEF TypeOK, RemoveFile
    <2> QED
      BY <1>18, <2>1, <2>2, <2>4, GotoType DEF TypeOK, RemoveBytes
  <1>19. ASSUME NEW p \in Proc, BytesGone(p) PROVE TypeOK'
    <2>1. pc[p] # "idle" /\ Goto(p, "tidy") /\ "tidy" \in Where
      BY <1>19 DEF BytesGone, Where, Locked
    <2> QED
      BY <1>19, <2>1, GotoType DEF TypeOK, BytesGone
  <1>20. ASSUME NEW p \in Proc, Probe(p) PROVE TypeOK'
    <2>1. pc[p] # "idle" /\ op[p].key \in Key /\ {"open", "serve"} \subseteq Where
      BY <1>20, RequestFields DEF Probe, Where, Reading
    <2>2. CASE Goto(p, "open")
      BY <1>20, <2>1, <2>2, GotoType DEF TypeOK, Probe
    <2>3. CASE \E t \in variants[op[p].key] :
                 /\ body' = [body EXCEPT ![p] = t[3]]
                 /\ pc' = [pc EXCEPT ![p] = "serve"]
                 /\ UNCHANGED <<op, lock>>
      BY <1>20, <2>1, <2>3 DEF TypeOK, Probe
    <2> QED
      BY <1>20, <2>2, <2>3 DEF Probe
  <1>21. ASSUME NEW p \in Proc, OpenBytes(p) PROVE TypeOK'
    <2>1. pc[p] # "idle" /\ op[p].key \in Key /\ vid[p] \in VersionId
          /\ {"cache", "serve"} \subseteq Where
      BY <1>21, RequestFields DEF OpenBytes, Where, Reading
    <2>2. BytesOf(op[p].key, vid[p]) \in Content \cup {None}
      BY <2>1 DEF BytesOf, TypeOK
    <2>3. CASE Return(p)
      BY <1>21, <2>3, ReturnType DEF TypeOK, OpenBytes
    <2>4. CASE ~Return(p)
      BY <1>21, <2>1, <2>2, <2>4 DEF TypeOK, OpenBytes
    <2> QED
      BY <2>3, <2>4
  <1>22. ASSUME NEW p \in Proc, FallBack(p) PROVE TypeOK'
    <2>1. pc[p] # "idle" /\ "open" \in Where
      BY <1>22 DEF FallBack, Where, Reading
    <2>2. [op[p] EXCEPT !.kind = "get"] \in Request
      BY DEF TypeOK, Request, AllKinds
    <2> QED
      BY <1>22, <2>1, <2>2 DEF TypeOK, FallBack, Request
  <1>23. ASSUME NEW p \in Proc, CacheVariant(p) PROVE TypeOK'
    <2>1. pc[p] # "idle" /\ Goto(p, "serve") /\ "serve" \in Where
      BY <1>23 DEF CacheVariant, Where, Reading
    <2>2. variants' \in [Key -> SUBSET (VersionId \X (Content \cup {None}) \X (Content \cup {None}))]
      BY <1>23, <2>1, RequestFields DEF TypeOK, CacheVariant
    <2> QED
      BY <1>23, <2>1, <2>2, GotoType, FaultType DEF TypeOK, CacheVariant
  <1>24. ASSUME NEW p \in Proc, Serve(p) PROVE TypeOK'
    BY <1>24, ReturnType DEF TypeOK, Serve
  <1>25. CASE SetBucketVersioning
    BY <1>25, ModeAssumption DEF TypeOK, SetBucketVersioning, Modes
  <1>26. CASE Crash
    <2>1. "idle" \in Where /\ "" \in VersionId
      BY DEF Where, VersionId
    <2>2. op' \in [Proc -> Request] /\ pc' \in [Proc -> Where]
      BY <1>26, <2>1, NoRequestType DEF Crash
    <2>3. \A p \in Proc : pc'[p] # "idle" => op'[p].key \in Key
      BY <1>26 DEF Crash
    <2>4. vid' \in [Proc -> VersionId] /\ doomed' \in [Proc -> SUBSET VersionId]
      BY <1>26, <2>1 DEF Crash
    <2>5. lock' \in [Stripe -> Proc \cup {NoProc}] /\ body' \in [Proc -> Content \cup {None}]
      BY <1>26 DEF Crash
    <2>6. crashes' \in Nat /\ requests' \in Nat /\ faults' \in Nat
      <3>1. crashes' = crashes + 1 /\ UNCHANGED <<requests, faults>>
        BY <1>26 DEF Crash
      <3>2. crashes \in Nat /\ requests \in Nat /\ faults \in Nat
        BY DEF TypeOK
      <3> QED
        BY <3>1, <3>2
    <2>7. UNCHANGED <<versioning, db, disk, used>>
      BY <1>26 DEF Crash
    <2>8. /\ versioning' \in Modes
          /\ rows' \in [Key -> [VersionId -> Row]]
          /\ nextId' \in Nat \ {0} /\ clock' \in Nat
          /\ slot' \in [Key -> Content \cup {None}]
          /\ vfile' \in [Key -> [Real -> Content \cup {None}]]
          /\ used' \in SUBSET Real
          /\ variants' \in [Key -> SUBSET (VersionId \X (Content \cup {None}) \X (Content \cup {None}))]
      BY <2>7 DEF TypeOK
    <2> QED
      BY <2>2, <2>3, <2>4, <2>5, <2>6, <2>8, Zenon DEF TypeOK
  <1>27. CASE UNCHANGED vars
    BY <1>27 DEF TypeOK, vars
  <1> QED
    BY <1>1, <1>2, <1>3, <1>4, <1>5, <1>6, <1>7, <1>8, <1>9, <1>10, <1>11, <1>12,
       <1>15, <1>16, <1>17, <1>18, <1>19, <1>20, <1>21, <1>22, <1>23, <1>24, <1>25,
       <1>26, <1>27
    DEF Next, Step

LEMMA InitialType ==
  ASSUME Init
  PROVE  TypeOK
  <1>1. "idle" \in Where /\ "" \in VersionId
    BY DEF Where, VersionId
  <1>2. rows \in [Key -> [VersionId -> Row]]
    BY NoRowType DEF Init
  <1>3. op \in [Proc -> Request] /\ \A p \in Proc : pc[p] # "idle" => op[p].key \in Key
    BY NoRequestType DEF Init
  <1>4. vid \in [Proc -> VersionId] /\ doomed \in [Proc -> SUBSET VersionId]
    BY <1>1 DEF Init
  <1>5. /\ pc \in [Proc -> Where]
        /\ vfile \in [Key -> [Real -> Content \cup {None}]]
        /\ used \in SUBSET Real
    BY <1>1 DEF Init
  <1>6. variants \in [Key -> SUBSET (VersionId \X (Content \cup {None}) \X (Content \cup {None}))]
    BY DEF Init
  <1>7. versioning \in Modes
    BY ModeAssumption DEF Init
  <1>8. /\ slot \in [Key -> Content \cup {None}]
        /\ lock \in [Stripe -> Proc \cup {NoProc}]
        /\ body \in [Proc -> Content \cup {None}]
    BY DEF Init
  <1>9. /\ nextId \in Nat \ {0} /\ clock \in Nat
        /\ requests \in Nat /\ faults \in Nat /\ crashes \in Nat
    <2>1. nextId = 1 /\ clock = 1 /\ requests = 0 /\ faults = 0 /\ crashes = 0
      BY DEF Init
    <2> QED
      BY <2>1
  <1> QED
    BY <1>2, <1>3, <1>4, <1>5, <1>6, <1>7, <1>8, <1>9, Zenon DEF TypeOK

\* TypeOK: the rows, files, locks and requests always have the shape the code
\* relies on, whatever the number of requests, failures and crashes.
THEOREM TypeCorrect == Spec => []TypeOK
  <1>1. Init => TypeOK
    BY InitialType
  <1>2. TypeOK /\ [Next]_vars => TypeOK'
    BY TypeStep
  <1> QED
    BY <1>1, <1>2, PTL DEF Spec

-----------------------------------------------------------------------------
(* The inductive invariant.  It ties a row of a real version to its file: only the  *)
(* holder of the key's mutex changes either, an id that was not handed out has no   *)
(* row, and whoever is about to remove a file has already removed its row.          *)

\* A writer past Acquire holds the mutex of its key.
HoldsLock ==
  \A p \in Proc : pc[p] \in Locked => lock[StripeOf[op[p].key]] = p

\* Only a PUT, which carries a content, reaches the write of the bytes.
PutsHaveContent ==
  \A p \in Proc :
    (pc[p] = "lock" /\ op[p].kind = "put") \/ pc[p] \in {"write", "save"} =>
      op[p].etag \in Content

\* No row has an id that was not handed out.
FreshIds ==
  \A k \in Key, v \in Real : Has(k, v) => v \in used

\* Between the bytes and the row of a new version the bytes are there and the row is not.
BytesBeforeRow ==
  \A p \in Proc : pc[p] \in {"save", "undo"} /\ vid[p] \in Real =>
    /\ vid[p] \in used
    /\ ~Has(op[p].key, vid[p])
    /\ pc[p] = "save" => vfile[op[p].key][vid[p]] = op[p].etag

\* The rows of the files a delete still has to remove are gone.
RowBeforeBytes ==
  \A p \in Proc : pc[p] = "bytes" =>
    \A v \in doomed[p] \cap Real : ~Has(op[p].key, v)

\* The file a reader was sent to is the one its row described, or it is gone.
ReadersSeeOneFile ==
  \A p \in Proc : pc[p] \in Reading /\ vid[p] \in Real =>
    /\ vid[p] \in used
    /\ vfile[op[p].key][vid[p]] \in {None, op[p].etag}
    /\ pc[p] \in {"cache", "serve"} => body[p] = op[p].etag

VersionInv ==
  /\ HoldsLock
  /\ PutsHaveContent
  /\ FreshIds
  /\ BytesBeforeRow
  /\ RowBeforeBytes
  /\ RealVersionsHaveBytes
  /\ ReadersSeeOneFile
  /\ VariantsMatchTheirSource

-----------------------------------------------------------------------------
(* What one step of request p may change. *)

\* A step of request p.
Act(p) ==
  \/ BeginWrite(p) \/ BeginRead(p)
  \/ Step(p)
  \/ RejectBytes(p) \/ FailRow(p) \/ FailDelete(p)

\* The step leaves the other requests and the mutexes they hold alone.
OnlyMoves(p) ==
  \A q \in Proc \ {p} :
    /\ pc'[q] = pc[q]
    /\ op'[q] = op[q]
    /\ vid'[q] = vid[q]
    /\ doomed'[q] = doomed[q]
    /\ body'[q] = body[q]
    /\ \A s \in Stripe : lock[s] = q => lock'[s] = q

LEMMA ReturnMoves ==
  ASSUME TypeOK, NEW p \in Proc, Return(p)
  PROVE  OnlyMoves(p) /\ pc'[p] = "idle"
  BY DEF TypeOK, Return, OnlyMoves

LEMMA GotoMoves ==
  ASSUME TypeOK, NEW p \in Proc, NEW l, Goto(p, l)
  PROVE  /\ \A q \in Proc \ {p} : pc'[q] = pc[q]
         /\ pc'[p] = l
         /\ UNCHANGED <<op, body, lock>>
  BY DEF TypeOK, Goto

LEMMA OthersStay ==
  ASSUME TypeOK, NEW p \in Proc, Act(p)
  PROVE  OnlyMoves(p)
  <1> USE DEF request
  <1>1. CASE BeginWrite(p)
    BY <1>1 DEF BeginWrite, OnlyMoves, TypeOK
  <1>2. CASE BeginRead(p)
    BY <1>2 DEF BeginRead, OnlyMoves, TypeOK
  <1>3. CASE Acquire(p)
    BY <1>3, NoProcAssumption DEF Acquire, OnlyMoves, TypeOK
  <1>4. CASE WriteBytes(p)
    BY <1>4, GotoMoves DEF WriteBytes, OnlyMoves, TypeOK
  <1>5. CASE RejectBytes(p)
    BY <1>5, ReturnMoves DEF RejectBytes
  <1>6. CASE CommitRow(p)
    BY <1>6, GotoMoves DEF CommitRow, OnlyMoves
  <1>7. CASE FailRow(p)
    BY <1>7, GotoMoves, ReturnMoves DEF FailRow, OnlyMoves
  <1>8. CASE UndoBytes(p)
    BY <1>8, ReturnMoves DEF UndoBytes
  <1>9. CASE Tidy(p)
    BY <1>9, ReturnMoves DEF Tidy
  <1>10. CASE FailDelete(p)
    BY <1>10, ReturnMoves DEF FailDelete
  <1>11. CASE PutMarker(p)
    BY <1>11, GotoMoves DEF PutMarker, OnlyMoves
  <1>12. CASE DeleteVersion(p)
    <2>1. CASE Return(p)
      BY <2>1, ReturnMoves
    <2>2. CASE /\ Goto(p, "bytes") /\ UNCHANGED vid
               /\ \E d : doomed' = [doomed EXCEPT ![p] = d]
      BY <2>2, GotoMoves DEF OnlyMoves, TypeOK
    <2> QED
      BY <1>12, <2>1, <2>2 DEF DeleteVersion
  <1>13. CASE SuspendedDelete(p)
    <2>1. UNCHANGED <<vid, doomed>>
      BY <1>13 DEF SuspendedDelete, DeleteNull, DeleteSlot
    <2>2. \E l : Goto(p, l)
      BY <1>13 DEF SuspendedDelete, DeleteNull, DeleteSlot
    <2> QED
      BY <2>1, <2>2, GotoMoves DEF OnlyMoves
  <1>14. CASE ListVersions(p)
    BY <1>14, GotoMoves DEF ListVersions, OnlyMoves, TypeOK
  <1>15. CASE DeleteRows(p)
    BY <1>15, GotoMoves DEF DeleteRows, OnlyMoves
  <1>16. CASE RemoveBytes(p)
    BY <1>16, GotoMoves DEF RemoveBytes, OnlyMoves, TypeOK
  <1>17. CASE BytesGone(p)
    BY <1>17, GotoMoves DEF BytesGone, OnlyMoves
  <1>18. CASE Probe(p)
    <2>1. CASE Goto(p, "open")
      BY <1>18, <2>1, GotoMoves DEF Probe, OnlyMoves
    <2>2. CASE \E c : /\ body' = [body EXCEPT ![p] = c]
                      /\ pc' = [pc EXCEPT ![p] = "serve"]
                      /\ UNCHANGED <<op, lock>>
      BY <1>18, <2>2 DEF Probe, OnlyMoves, TypeOK
    <2> QED
      BY <1>18, <2>1, <2>2 DEF Probe
  <1>19. CASE OpenBytes(p)
    <2>1. CASE Return(p)
      BY <2>1, ReturnMoves
    <2>2. CASE ~Return(p)
      BY <1>19, <2>2 DEF OpenBytes, OnlyMoves, TypeOK
    <2> QED
      BY <2>1, <2>2
  <1>20. CASE FallBack(p)
    BY <1>20 DEF FallBack, OnlyMoves, TypeOK
  <1>21. CASE CacheVariant(p)
    BY <1>21, GotoMoves DEF CacheVariant, OnlyMoves
  <1>22. CASE Serve(p)
    BY <1>22, ReturnMoves DEF Serve
  <1> QED
    BY <1>1, <1>2, <1>3, <1>4, <1>5, <1>6, <1>7, <1>8, <1>9, <1>10, <1>11, <1>12, <1>13,
       <1>14, <1>15, <1>16, <1>17, <1>18, <1>19, <1>20, <1>21, <1>22 DEF Act, Step

\* Two writers past Acquire work on different keys.
LEMMA Alone ==
  ASSUME HoldsLock, NEW p \in Proc, NEW q \in Proc, p # q,
         pc[p] \in Locked, pc[q] \in Locked
  PROVE  op[p].key # op[q].key
  BY DEF HoldsLock

LEMMA SaveRowEffect ==
  ASSUME TypeOK, NEW k \in Key, NEW v \in VersionId,
         NEW etag \in Content \cup {None}, NEW marker \in BOOLEAN,
         SaveRow(k, v, etag, marker)
  PROVE  /\ rows'[k][v].id > 0 /\ rows'[k][v].latest
         /\ rows'[k][v].marker = marker /\ rows'[k][v].etag = etag
         /\ \A j \in Key, w \in VersionId : j # k \/ w # v =>
              /\ rows'[j][w].id = rows[j][w].id
              /\ rows'[j][w].marker = rows[j][w].marker
              /\ rows'[j][w].etag = rows[j][w].etag
         /\ \A j \in Key \ {k} : rows'[j] = rows[j]
         /\ \A w \in VersionId \ {v} : ~rows'[k][w].latest
  <1> DEFINE saved == [id |-> IF Has(k, v) THEN rows[k][v].id ELSE nextId,
                       latest |-> TRUE, marker |-> marker, etag |-> etag,
                       modified |-> clock]
  <1>1. \A w \in VersionId : rows'[k][w] = IF w = v THEN saved
                                           ELSE [rows[k][w] EXCEPT !.latest = FALSE]
    BY DEF SaveRow, TypeOK
  <1>2. \A j \in Key \ {k} : rows'[j] = rows[j]
    BY DEF SaveRow, TypeOK
  <1>3. rows'[k][v] = saved
    BY <1>1
  <1>4. saved.id > 0 /\ saved.latest /\ saved.marker = marker /\ saved.etag = etag
    BY DEF Has, TypeOK, Row
  <1>5. \A w \in VersionId \ {v} : rows'[k][w] = [rows[k][w] EXCEPT !.latest = FALSE]
    BY <1>1
  <1>6. \A w \in VersionId : rows[k][w] \in Row
    BY DEF TypeOK
  <1>7. \A w \in VersionId \ {v} : /\ rows'[k][w].id = rows[k][w].id
                                   /\ rows'[k][w].marker = rows[k][w].marker
                                   /\ rows'[k][w].etag = rows[k][w].etag
                                   /\ ~rows'[k][w].latest
    BY <1>5, <1>6 DEF Row
  <1> HIDE DEF saved
  <1> QED
    BY <1>2, <1>3, <1>4, <1>7

LEMMA DropRowEffect ==
  ASSUME TypeOK, NEW k \in Key, NEW v \in VersionId, DropRow(k, v)
  PROVE  /\ rows'[k][v] = NoRow
         /\ \A j \in Key, w \in VersionId : j # k \/ w # v =>
              /\ rows'[j][w].id = rows[j][w].id
              /\ rows'[j][w].marker = rows[j][w].marker
              /\ rows'[j][w].etag = rows[j][w].etag
         /\ \A j \in Key \ {k} : rows'[j] = rows[j]
         /\ \/ /\ ~rows[k][v].latest \/ \A w \in VersionId \ {v} : ~Has(k, w)
               /\ \A w \in VersionId \ {v} : rows'[k][w] = rows[k][w]
            \/ /\ rows[k][v].latest
               /\ \E w \in VersionId \ {v} :
                    /\ Has(k, w) /\ rows'[k][w].latest
                    /\ \A x \in VersionId \ {v, w} : rows'[k][x] = rows[k][x]
  <1> DEFINE others == {w \in VersionId \ {v} : Has(k, w)}
  <1>1. CASE /\ ~rows[k][v].latest \/ others = {}
             /\ rows' = [rows EXCEPT ![k][v] = NoRow]
    <2>1. rows'[k][v] = NoRow
      BY <1>1 DEF TypeOK
    <2>2. \A j \in Key, w \in VersionId : j # k \/ w # v => rows'[j][w] = rows[j][w]
      BY <1>1 DEF TypeOK
    <2>3. \A j \in Key \ {k} : rows'[j] = rows[j]
      BY <1>1 DEF TypeOK
    <2>4. ~rows[k][v].latest \/ \A w \in VersionId \ {v} : ~Has(k, w)
      BY <1>1
    <2> QED
      BY <2>1, <2>2, <2>3, <2>4
  <1>2. CASE /\ rows[k][v].latest
             /\ \E w \in Newest(k, others) :
                  rows' = [rows EXCEPT ![k][v] = NoRow, ![k][w].latest = TRUE]
    <2>1. PICK w \in VersionId \ {v} :
            Has(k, w) /\ rows' = [rows EXCEPT ![k][v] = NoRow, ![k][w].latest = TRUE]
      BY <1>2 DEF Newest
    <2>2. rows'[k][v] = NoRow
      BY <2>1 DEF TypeOK
    <2>3. rows'[k][w] = [rows[k][w] EXCEPT !.latest = TRUE]
      BY <2>1 DEF TypeOK
    <2>4. \A j \in Key, x \in VersionId : j # k \/ x \notin {v, w} => rows'[j][x] = rows[j][x]
      BY <2>1 DEF TypeOK
    <2>5. \A j \in Key \ {k} : rows'[j] = rows[j]
      BY <2>1 DEF TypeOK
    <2>6. rows[k][w] \in Row
      BY DEF TypeOK
    <2>7. /\ rows'[k][w].latest
          /\ rows'[k][w].id = rows[k][w].id
          /\ rows'[k][w].marker = rows[k][w].marker
          /\ rows'[k][w].etag = rows[k][w].etag
      BY <2>3, <2>6 DEF Row
    <2> QED
      BY <1>2, <2>1, <2>2, <2>4, <2>5, <2>7
  <1> QED
    BY <1>1, <1>2 DEF DropRow

LEMMA DropAllRowsEffect ==
  ASSUME TypeOK, NEW k \in Key, DropAllRows(k)
  PROVE  /\ \A v \in VersionId : rows'[k][v] = NoRow
         /\ \A j \in Key \ {k} : rows'[j] = rows[j]
  BY DEF TypeOK, DropAllRows

LEMMA WriteFileEffect ==
  ASSUME TypeOK, NEW k \in Key, NEW v \in VersionId, NEW c, WriteFile(k, v, c)
  PROVE  \A j \in Key, w \in Real :
           vfile'[j][w] = IF j = k /\ w = v THEN c ELSE vfile[j][w]
  <1>1. CASE v \in Real
    BY <1>1 DEF WriteFile, TypeOK
  <1>2. CASE v \notin Real
    BY <1>2 DEF WriteFile
  <1> QED
    BY <1>1, <1>2

LEMMA FoundVersion ==
  ASSUME NEW k, NEW target \in VersionId, NEW v \in Newest(k, Named(k, target))
  PROVE  v \in VersionId /\ Has(k, v)
  BY DEF Newest, Named, VersionId

\* Requests change rows in four ways, under the mutex of their key.
LEMMA RowChange ==
  ASSUME TypeOK, NEW p \in Proc, Act(p)
  PROVE  \/ UNCHANGED rows /\ UNCHANGED <<nextId, clock>>
         \/ CommitRow(p)
         \/ PutMarker(p)
         \/ /\ pc[p] \in Locked
            /\ \E v \in VersionId : Has(op[p].key, v) /\ DropRow(op[p].key, v)
         \/ DeleteRows(p)
  <1> USE DEF db
  <1>1. CASE DeleteVersion(p)
    <2>1. pc[p] = "version"
      BY <1>1 DEF DeleteVersion
    <2>2. op[p].target \in VersionId
      BY <2>1, RequestFields
    <2>3. \/ UNCHANGED rows /\ UNCHANGED <<nextId, clock>>
          \/ \E v \in Newest(op[p].key, Named(op[p].key, op[p].target)) : DropRow(op[p].key, v)
      BY <1>1 DEF DeleteVersion
    <2> QED
      BY <2>1, <2>2, <2>3, FoundVersion DEF Locked
  <1>2. CASE SuspendedDelete(p)
    <2>1. {"", "null"} \subseteq VersionId
      BY DEF VersionId
    <2>2. pc[p] \in {"null", "nullfile", "blank", "blankfile"}
      BY <1>2 DEF SuspendedDelete, DeleteNull, DeleteSlot
    <2>3. \/ UNCHANGED rows /\ UNCHANGED <<nextId, clock>>
          \/ \E target \in {"", "null"} :
               \E v \in Newest(op[p].key, Named(op[p].key, target)) : DropRow(op[p].key, v)
      BY <1>2 DEF SuspendedDelete, DeleteNull, DeleteSlot
    <2> QED
      BY <2>1, <2>2, <2>3, FoundVersion DEF Locked
  <1>3. CASE BeginWrite(p) \/ BeginRead(p) \/ RejectBytes(p) \/ FailRow(p) \/ FailDelete(p)
    BY <1>3 DEF BeginWrite, BeginRead, RejectBytes, FailRow, FailDelete
  <1>4. CASE Acquire(p) \/ WriteBytes(p) \/ UndoBytes(p) \/ Tidy(p) \/ ListVersions(p)
    BY <1>4 DEF Acquire, WriteBytes, UndoBytes, Tidy, ListVersions
  <1>5. CASE RemoveBytes(p) \/ BytesGone(p) \/ Probe(p) \/ OpenBytes(p)
    BY <1>5 DEF RemoveBytes, BytesGone, Probe, OpenBytes
  <1>6. CASE FallBack(p) \/ CacheVariant(p) \/ Serve(p)
    BY <1>6 DEF FallBack, CacheVariant, Serve
  <1> QED
    BY <1>1, <1>2, <1>3, <1>4, <1>5, <1>6 DEF Act, Step

\* Where a row that exists after the step comes from.
LEMMA RowOrigin ==
  ASSUME TypeOK, NEW p \in Proc, Act(p), NEW k \in Key, NEW v \in VersionId,
         rows'[k][v].id > 0
  PROVE  \/ /\ Has(k, v)
            /\ rows'[k][v].marker = rows[k][v].marker
            /\ rows'[k][v].etag = rows[k][v].etag
         \/ /\ CommitRow(p) /\ k = op[p].key /\ v = vid[p]
            /\ rows'[k][v].etag = op[p].etag
         \/ /\ PutMarker(p) /\ k = op[p].key /\ rows'[k][v].marker
            /\ v \in VersionIDForPut(op[p].mode) /\ used' = used \cup ({v} \cap Real)
  <1>0. ~(NoRow.id > 0)
    BY DEF NoRow
  <1>1. CASE UNCHANGED rows
    BY <1>1 DEF Has
  <1>2. CASE CommitRow(p)
    <2>1. pc[p] # "idle" /\ SaveRow(op[p].key, vid[p], op[p].etag, FALSE)
      BY <1>2 DEF CommitRow
    <2>2. op[p].key \in Key /\ vid[p] \in VersionId /\ op[p].etag \in Content \cup {None}
      BY <2>1, RequestFields
    <2>3. /\ rows'[op[p].key][vid[p]].etag = op[p].etag
          /\ \A j \in Key, w \in VersionId : j # op[p].key \/ w # vid[p] =>
               /\ rows'[j][w].id = rows[j][w].id
               /\ rows'[j][w].marker = rows[j][w].marker
               /\ rows'[j][w].etag = rows[j][w].etag
      <3>1. PICK m \in BOOLEAN : SaveRow(op[p].key, vid[p], op[p].etag, m)
        BY <2>1, Zenon
      <3> QED
        BY <2>2, <3>1, SaveRowEffect
    <2> QED
      BY <1>2, <2>3 DEF Has
  <1>3. CASE PutMarker(p)
    <2>1. PICK w \in VersionIDForPut(op[p].mode) :
            used' = used \cup ({w} \cap Real) /\ SaveRow(op[p].key, w, None, TRUE)
      BY <1>3 DEF PutMarker
    <2>2. pc[p] # "idle"
      BY <1>3 DEF PutMarker
    <2>3. op[p].key \in Key /\ op[p].mode \in Modes
      BY <2>2, RequestFields
    <2>4. w \in VersionId
      BY <2>3, ChosenId
    <2>5. /\ rows'[op[p].key][w].marker
          /\ \A j \in Key, x \in VersionId : j # op[p].key \/ x # w =>
               /\ rows'[j][x].id = rows[j][x].id
               /\ rows'[j][x].marker = rows[j][x].marker
               /\ rows'[j][x].etag = rows[j][x].etag
      <3>1. rows'[op[p].key][w].marker = TRUE
        BY <2>1, <2>3, <2>4, SaveRowEffect
      <3> QED
        BY <2>1, <2>3, <2>4, <3>1, SaveRowEffect
    <2> QED
      BY <1>3, <2>1, <2>5 DEF Has
  <1>4. CASE /\ pc[p] \in Locked
             /\ \E w \in VersionId : Has(op[p].key, w) /\ DropRow(op[p].key, w)
    <2>1. PICK w \in VersionId : DropRow(op[p].key, w)
      BY <1>4
    <2>2. pc[p] # "idle"
      BY <1>4 DEF Locked
    <2>3. op[p].key \in Key
      BY <2>2, RequestFields
    <2> QED
      BY <1>0, <2>1, <2>3, DropRowEffect DEF Has
  <1>5. CASE DeleteRows(p)
    <2>1. pc[p] # "idle" /\ DropAllRows(op[p].key)
      BY <1>5 DEF DeleteRows
    <2>2. op[p].key \in Key
      BY <2>1, RequestFields
    <2> QED
      BY <1>0, <2>1, <2>2, DropAllRowsEffect DEF Has
  <1> QED
    BY <1>1, <1>2, <1>3, <1>4, <1>5, RowChange

\* What a step may do to the file of a real version.
LEMMA FileOrigin ==
  ASSUME TypeOK, NEW p \in Proc, Act(p), NEW k \in Key, NEW v \in Real
  PROVE  \/ vfile'[k][v] = vfile[k][v]
         \/ /\ WriteBytes(p) /\ k = op[p].key /\ v = vid'[p]
            /\ v \notin used /\ vfile'[k][v] = op[p].etag
         \/ UndoBytes(p) /\ k = op[p].key /\ v = vid[p] /\ vfile'[k][v] = None
         \/ RemoveBytes(p) /\ k = op[p].key /\ v \in doomed[p] /\ vfile'[k][v] = None
  <1> USE DEF disk
  <1>1. CASE WriteBytes(p)
    <2>1. PICK w \in VersionIDForPut(op[p].mode) :
            vid' = [vid EXCEPT ![p] = w] /\ WriteFile(op[p].key, w, op[p].etag)
      BY <1>1 DEF WriteBytes
    <2>2. pc[p] # "idle"
      BY <1>1 DEF WriteBytes
    <2>3. op[p].key \in Key /\ op[p].mode \in Modes
      BY <2>2, RequestFields
    <2>4. w \in VersionId
      BY <2>3, ChosenId
    <2>5. w \in Real => w \notin used
      BY VersionIdAssumption DEF VersionIDForPut
    <2>6. vid'[p] = w
      BY <2>1 DEF TypeOK
    <2> QED
      BY <1>1, <2>1, <2>3, <2>4, <2>5, <2>6, WriteFileEffect
  <1>2. CASE UndoBytes(p)
    <2>1. pc[p] # "idle" /\ WriteFile(op[p].key, vid[p], None)
      BY <1>2 DEF UndoBytes, RemoveFile
    <2>2. op[p].key \in Key /\ vid[p] \in VersionId
      BY <2>1, RequestFields
    <2> QED
      BY <1>2, <2>1, <2>2, WriteFileEffect
  <1>3. CASE RemoveBytes(p)
    <2>1. pc[p] # "idle"
      BY <1>3 DEF RemoveBytes
    <2>2. op[p].key \in Key /\ doomed[p] \in SUBSET VersionId
      BY <2>1, RequestFields
    <2>3. \/ UNCHANGED vfile
          \/ \E w \in doomed[p] : WriteFile(op[p].key, w, None)
      BY <1>3 DEF RemoveBytes, RemoveFile
    <2> QED
      BY <1>3, <2>2, <2>3, WriteFileEffect
  <1>4. CASE SuspendedDelete(p)
    <2>1. UNCHANGED vfile \/ WriteFile(op[p].key, "", None)
      BY <1>4 DEF SuspendedDelete, DeleteNull, DeleteSlot, RemoveFile
    <2>2. "" \notin Real
      BY VersionIdAssumption
    <2> QED
      BY <2>1, <2>2 DEF WriteFile
  <1>5. CASE BeginWrite(p) \/ BeginRead(p) \/ RejectBytes(p) \/ FailRow(p) \/ FailDelete(p)
    BY <1>5 DEF BeginWrite, BeginRead, RejectBytes, FailRow, FailDelete
  <1>6. CASE Acquire(p) \/ CommitRow(p) \/ Tidy(p) \/ PutMarker(p) \/ DeleteVersion(p)
    BY <1>6 DEF Acquire, CommitRow, Tidy, PutMarker, DeleteVersion
  <1>7. CASE ListVersions(p) \/ DeleteRows(p) \/ BytesGone(p) \/ Probe(p) \/ OpenBytes(p)
    BY <1>7 DEF ListVersions, DeleteRows, BytesGone, Probe, OpenBytes
  <1>8. CASE FallBack(p) \/ CacheVariant(p) \/ Serve(p)
    BY <1>8 DEF FallBack, CacheVariant, Serve
  <1> QED
    BY <1>1, <1>2, <1>3, <1>4, <1>5, <1>6, <1>7, <1>8 DEF Act, Step

\* Only a write hands out an id, and no id is taken back.
LEMMA UsedStays ==
  ASSUME TypeOK, NEW p \in Proc, Act(p), ~WriteBytes(p), ~PutMarker(p)
  PROVE  used' = used
  <1>1. CASE BeginWrite(p) \/ BeginRead(p) \/ RejectBytes(p) \/ FailRow(p) \/ FailDelete(p)
    BY <1>1 DEF BeginWrite, BeginRead, RejectBytes, FailRow, FailDelete
  <1>2. CASE Acquire(p) \/ CommitRow(p) \/ UndoBytes(p) \/ Tidy(p) \/ DeleteVersion(p)
    BY <1>2 DEF Acquire, CommitRow, UndoBytes, Tidy, DeleteVersion
  <1>3. CASE SuspendedDelete(p) \/ ListVersions(p) \/ DeleteRows(p) \/ RemoveBytes(p) \/ BytesGone(p)
    BY <1>3 DEF SuspendedDelete, DeleteNull, DeleteSlot, ListVersions, DeleteRows, RemoveBytes, BytesGone
  <1>4. CASE Probe(p) \/ OpenBytes(p) \/ FallBack(p) \/ CacheVariant(p) \/ Serve(p)
    BY <1>4 DEF Probe, OpenBytes, FallBack, CacheVariant, Serve
  <1> QED
    BY <1>1, <1>2, <1>3, <1>4 DEF Act, Step

LEMMA UsedGrows ==
  ASSUME TypeOK, NEW p \in Proc, Act(p)
  PROVE  used \subseteq used'
  <1>1. CASE WriteBytes(p) \/ PutMarker(p)
    BY <1>1 DEF WriteBytes, PutMarker
  <1> QED
    BY <1>1, UsedStays

\* A request that has its bytes on disk saves its row next, or fails to.
LEMMA SaveSteps ==
  ASSUME TypeOK, NEW p \in Proc, Act(p), pc[p] = "save"
  PROVE  CommitRow(p) \/ FailRow(p)
  <1>1. ~BeginWrite(p) /\ ~BeginRead(p) /\ ~RejectBytes(p) /\ ~FailDelete(p) /\ ~Acquire(p)
    BY DEF BeginWrite, BeginRead, RejectBytes, FailDelete, Acquire
  <1>2. ~WriteBytes(p) /\ ~UndoBytes(p) /\ ~Tidy(p) /\ ~PutMarker(p) /\ ~DeleteVersion(p)
    BY DEF WriteBytes, UndoBytes, Tidy, PutMarker, DeleteVersion
  <1>3. ~SuspendedDelete(p) /\ ~ListVersions(p) /\ ~DeleteRows(p) /\ ~RemoveBytes(p)
    BY DEF SuspendedDelete, DeleteNull, DeleteSlot, ListVersions, DeleteRows, RemoveBytes
  <1>4. ~BytesGone(p) /\ ~Probe(p) /\ ~OpenBytes(p) /\ ~FallBack(p) /\ ~CacheVariant(p) /\ ~Serve(p)
    BY DEF BytesGone, Probe, OpenBytes, FallBack, CacheVariant, Serve
  <1> QED
    BY <1>1, <1>2, <1>3, <1>4 DEF Act, Step

-----------------------------------------------------------------------------
(* The latest flag. *)

\* A latest row exists, which makes OneLatest inductive.
LatestInv ==
  /\ OneLatest
  /\ \A k \in Key, v \in VersionId : rows[k][v].latest => Has(k, v)

LEMMA LatestStep ==
  ASSUME TypeOK, LatestInv, NEW p \in Proc, Act(p)
  PROVE  LatestInv'
  <1>0. ~(NoRow.id > 0) /\ ~NoRow.latest
    BY DEF NoRow
  <1>1. CASE UNCHANGED rows
    BY <1>1 DEF LatestInv, OneLatest, Has
  <1>2. ASSUME NEW k \in Key, NEW v \in VersionId, rows'[k][v].id > 0, rows'[k][v].latest,
               \A j \in Key \ {k} : rows'[j] = rows[j],
               \A w \in VersionId \ {v} : ~rows'[k][w].latest
        PROVE  LatestInv'
    BY <1>2 DEF LatestInv, OneLatest, Has
  <1>3. CASE CommitRow(p)
    <2>1. pc[p] # "idle" /\ SaveRow(op[p].key, vid[p], op[p].etag, FALSE)
      BY <1>3 DEF CommitRow
    <2>2. op[p].key \in Key /\ vid[p] \in VersionId /\ op[p].etag \in Content \cup {None}
      BY <2>1, RequestFields
    <2>3. PICK m \in BOOLEAN : SaveRow(op[p].key, vid[p], op[p].etag, m)
      BY <2>1, Zenon
    <2>4. PICK k \in Key, v \in VersionId : SaveRow(k, v, op[p].etag, m)
      BY <2>2, <2>3
    <2>5. /\ rows'[k][v].id > 0 /\ rows'[k][v].latest
          /\ \A j \in Key \ {k} : rows'[j] = rows[j]
          /\ \A w \in VersionId \ {v} : ~rows'[k][w].latest
      BY <2>2, <2>4, SaveRowEffect
    <2> QED
      BY <1>2, <2>5
  <1>4. CASE PutMarker(p)
    <2>1. PICK u \in VersionIDForPut(op[p].mode) : SaveRow(op[p].key, u, None, TRUE)
      BY <1>4 DEF PutMarker
    <2>2. pc[p] # "idle"
      BY <1>4 DEF PutMarker
    <2>3. op[p].key \in Key /\ op[p].mode \in Modes
      BY <2>2, RequestFields
    <2>4. u \in VersionId
      BY <2>3, ChosenId
    <2>5. PICK m \in BOOLEAN : SaveRow(op[p].key, u, None, m)
      BY <2>1, Zenon
    <2>6. PICK k \in Key, v \in VersionId : SaveRow(k, v, None, m)
      BY <2>3, <2>4, <2>5
    <2>7. /\ rows'[k][v].id > 0 /\ rows'[k][v].latest
          /\ \A j \in Key \ {k} : rows'[j] = rows[j]
          /\ \A w \in VersionId \ {v} : ~rows'[k][w].latest
      BY <2>6, SaveRowEffect
    <2> QED
      BY <1>2, <2>7
  <1>5. CASE /\ pc[p] \in Locked
             /\ \E w \in VersionId : Has(op[p].key, w) /\ DropRow(op[p].key, w)
    <2>1. PICK v \in VersionId : Has(op[p].key, v) /\ DropRow(op[p].key, v)
      BY <1>5
    <2>2. pc[p] # "idle"
      BY <1>5 DEF Locked
    <2>3. PICK k \in Key : k = op[p].key
      BY <2>2, RequestFields
    <2>4. /\ rows'[k][v] = NoRow
          /\ \A j \in Key \ {k} : rows'[j] = rows[j]
          /\ \A w \in VersionId \ {v} : rows'[k][w].id = rows[k][w].id
      BY <2>1, <2>3, DropRowEffect
    <2>5. CASE /\ ~rows[k][v].latest \/ \A w \in VersionId \ {v} : ~Has(k, w)
               /\ \A w \in VersionId \ {v} : rows'[k][w] = rows[k][w]
      BY <1>0, <2>4, <2>5 DEF LatestInv, OneLatest, Has
    <2>6. CASE /\ rows[k][v].latest
               /\ \E w \in VersionId \ {v} :
                    /\ Has(k, w) /\ rows'[k][w].latest
                    /\ \A x \in VersionId \ {v, w} : rows'[k][x] = rows[k][x]
      <3>1. PICK w \in VersionId \ {v} :
                    /\ Has(k, w) /\ rows'[k][w].latest
                    /\ \A x \in VersionId \ {v, w} : rows'[k][x] = rows[k][x]
        BY <2>6
      <3>2. \A x \in VersionId \ {w} : ~rows'[k][x].latest
        BY <1>0, <2>4, <2>6, <3>1 DEF LatestInv, OneLatest
      <3>3. rows'[k][w].id > 0
        BY <2>4, <3>1 DEF Has
      <3> QED
        BY <1>2, <2>4, <3>1, <3>2, <3>3
    <2> QED
      BY <2>1, <2>3, <2>5, <2>6, DropRowEffect
  <1>6. CASE DeleteRows(p)
    <2>1. pc[p] # "idle" /\ DropAllRows(op[p].key)
      BY <1>6 DEF DeleteRows
    <2>2. PICK k \in Key : k = op[p].key
      BY <2>1, RequestFields
    <2>3. /\ \A v \in VersionId : rows'[k][v] = NoRow
          /\ \A j \in Key \ {k} : rows'[j] = rows[j]
      BY <2>1, <2>2, DropAllRowsEffect
    <2> QED
      BY <1>0, <2>3 DEF LatestInv, OneLatest, Has
  <1> QED
    BY <1>1, <1>3, <1>4, <1>5, <1>6, RowChange

\* OneLatest: whatever requests interleave, fail or are cut off by a crash, a key
\* with rows has exactly one latest row, so it has exactly one current object.
THEOREM LatestIsUnique == Spec => []OneLatest
  <1>1. Init => LatestInv
    <2> SUFFICES ASSUME Init PROVE LatestInv
      OBVIOUS
    <2>1. \A k \in Key, v \in VersionId : rows[k][v] = NoRow
      BY DEF Init
    <2>2. ~(NoRow.id > 0) /\ ~NoRow.latest
      BY DEF NoRow
    <2> QED
      BY <2>1, <2>2 DEF LatestInv, OneLatest, Has
  <1>2. TypeOK /\ LatestInv /\ [Next]_vars => LatestInv'
    <2> SUFFICES ASSUME TypeOK, LatestInv, [Next]_vars
                 PROVE  LatestInv'
      OBVIOUS
    <2>1. CASE \E p \in Proc : Act(p)
      BY <2>1, LatestStep
    <2>2. CASE SetBucketVersioning \/ Crash \/ UNCHANGED vars
      <3>1. UNCHANGED rows
        BY <2>2 DEF SetBucketVersioning, Crash, vars, db
      <3> QED
        BY <3>1 DEF LatestInv, OneLatest, Has
    <2> QED
      BY <2>1, <2>2 DEF Next, Act
  <1>3. LatestInv => OneLatest
    BY DEF LatestInv
  <1> QED
    BY <1>1, <1>2, <1>3, TypeCorrect, PTL DEF Spec

-----------------------------------------------------------------------------
(* Each part of VersionInv is preserved. *)

\* Where a step takes its request, and what it needs for that.
LEMMA Moves ==
  ASSUME TypeOK, NEW p \in Proc, Act(p)
  PROVE  /\ pc'[p] \in Locked =>
              \/ Acquire(p)
              \/ pc[p] \in Locked /\ op'[p] = op[p] /\ lock' = lock
         /\ pc'[p] = "lock" => BeginWrite(p)
         /\ pc'[p] = "write" => Acquire(p)
         /\ pc'[p] = "save" => WriteBytes(p)
         /\ pc'[p] = "undo" => /\ FailRow(p) /\ pc[p] = "save" /\ op'[p] = op[p]
                               /\ vid'[p] = vid[p]
                               /\ UNCHANGED <<rows, vfile, used>>
         /\ pc'[p] = "bytes" => DeleteVersion(p) \/ DeleteRows(p) \/ RemoveBytes(p)
         /\ pc'[p] \in Reading =>
              \/ BeginRead(p) \/ Probe(p) \/ OpenBytes(p) \/ FallBack(p) \/ CacheVariant(p)
  <1> USE DEF Locked, Reading, db, disk
  <1> DEFINE here == pc'[p]
  <1>1. CASE BeginWrite(p)
    <2>1. pc'[p] = "lock"
      BY <1>1 DEF BeginWrite, TypeOK
    <2> QED
      BY <1>1, <2>1
  <1>2. CASE BeginRead(p)
    <2>1. pc'[p] \in {"probe", "open"}
      BY <1>2 DEF BeginRead, TypeOK
    <2> QED
      BY <1>2, <2>1
  <1>3. CASE Acquire(p)
    <2>1. pc'[p] \in {"write", "list", "version", "marker", "null"}
      BY <1>3 DEF Acquire, FirstStep, TypeOK
    <2> QED
      BY <1>3, <2>1
  <1>4. CASE WriteBytes(p)
    <2>1. pc[p] = "write" /\ Goto(p, "save")
      BY <1>4 DEF WriteBytes
    <2> QED
      BY <1>4, <2>1, GotoMoves
  <1>5. ASSUME Return(p) PROVE pc'[p] \notin Locked \cup Reading \cup {"lock"}
    BY <1>5, ReturnMoves
  <1>6. CASE RejectBytes(p) \/ UndoBytes(p) \/ Tidy(p) \/ FailDelete(p) \/ Serve(p)
    <2>1. Return(p)
      BY <1>6 DEF RejectBytes, UndoBytes, Tidy, FailDelete, Serve
    <2> QED
      BY <1>5, <2>1
  <1>7. CASE CommitRow(p) \/ PutMarker(p) \/ BytesGone(p)
    <2>1. pc[p] \in {"save", "marker", "bytes"} /\ Goto(p, "tidy")
      BY <1>7 DEF CommitRow, PutMarker, BytesGone
    <2> QED
      BY <2>1, GotoMoves
  <1>8. CASE FailRow(p)
    <2>1. CASE Return(p)
      BY <1>5, <2>1
    <2>2. CASE Goto(p, "undo") /\ UNCHANGED vid
      <3>1. pc[p] = "save" /\ UNCHANGED <<rows, vfile, used>>
        BY <1>8 DEF FailRow
      <3>2. vid' = vid
        BY <2>2
      <3> QED
        BY <1>8, <2>2, <3>1, <3>2, GotoMoves
    <2> QED
      BY <1>8, <2>1, <2>2 DEF FailRow
  <1>9. CASE DeleteVersion(p)
    <2>1. pc[p] = "version"
      BY <1>9 DEF DeleteVersion
    <2>2. Return(p) \/ Goto(p, "bytes")
      BY <1>9 DEF DeleteVersion
    <2> QED
      BY <1>5, <1>9, <2>1, <2>2, GotoMoves
  <1>10. CASE SuspendedDelete(p)
    <2>1. \E l \in {"blank", "nullfile", "marker", "blankfile"} : Goto(p, l)
      BY <1>10 DEF SuspendedDelete, DeleteNull, DeleteSlot
    <2>2. pc[p] \in {"null", "nullfile", "blank", "blankfile"}
      BY <1>10 DEF SuspendedDelete, DeleteNull, DeleteSlot
    <2> QED
      BY <2>1, <2>2, GotoMoves
  <1>11. CASE ListVersions(p)
    <2>1. pc[p] = "list" /\ Goto(p, "rows")
      BY <1>11 DEF ListVersions
    <2> QED
      BY <2>1, GotoMoves
  <1>12. CASE DeleteRows(p) \/ RemoveBytes(p)
    <2>1. pc[p] \in {"rows", "bytes"} /\ Goto(p, "bytes")
      BY <1>12 DEF DeleteRows, RemoveBytes
    <2> QED
      BY <1>12, <2>1, GotoMoves
  <1>13. CASE Probe(p)
    <2>1. Goto(p, "open") \/ pc' = [pc EXCEPT ![p] = "serve"]
      BY <1>13 DEF Probe
    <2>2. pc'[p] \in {"open", "serve"}
      BY <2>1, GotoMoves DEF TypeOK
    <2> QED
      BY <1>13, <2>2
  <1>14. CASE OpenBytes(p)
    <2>1. Return(p) \/ pc'[p] \in {"cache", "serve"}
      BY <1>14 DEF OpenBytes, TypeOK
    <2> QED
      BY <1>5, <1>14, <2>1
  <1>15. CASE FallBack(p)
    <2>1. pc'[p] = "open"
      BY <1>15 DEF FallBack, TypeOK
    <2> QED
      BY <1>15, <2>1
  <1>16. CASE CacheVariant(p)
    <2>1. pc'[p] = "serve"
      BY <1>16, GotoMoves DEF CacheVariant
    <2> QED
      BY <1>16, <2>1
  <1> QED
    BY <1>1, <1>2, <1>3, <1>4, <1>6, <1>7, <1>8, <1>9, <1>10, <1>11, <1>12, <1>13, <1>14,
       <1>15, <1>16 DEF Act, Step

LEMMA HoldsLockStep ==
  ASSUME TypeOK, HoldsLock, NEW p \in Proc, Act(p)
  PROVE  HoldsLock'
  <1> SUFFICES ASSUME NEW q \in Proc, pc'[q] \in Locked
               PROVE  lock'[StripeOf[op'[q].key]] = q
    BY DEF HoldsLock
  <1>1. CASE q # p
    <2>1. pc[q] \in Locked /\ op'[q] = op[q]
      BY <1>1, OthersStay DEF OnlyMoves
    <2>2. pc[q] # "idle" /\ lock[StripeOf[op[q].key]] = q
      BY <2>1 DEF Locked, HoldsLock
    <2>3. StripeOf[op[q].key] \in Stripe
      BY <2>2, RequestFields, StripeAssumption
    <2> QED
      BY <1>1, <2>1, <2>2, <2>3, OthersStay DEF OnlyMoves
  <1>2. CASE q = p /\ Acquire(p)
    <2>1. pc[p] # "idle" /\ lock' = [lock EXCEPT ![StripeOf[op[p].key]] = p] /\ op' = op
      BY <1>2 DEF Acquire, request
    <2>2. StripeOf[op[p].key] \in Stripe
      BY <2>1, RequestFields, StripeAssumption
    <2> QED
      BY <1>2, <2>1, <2>2 DEF TypeOK
  <1>3. CASE q = p /\ pc[p] \in Locked /\ op'[p] = op[p] /\ lock' = lock
    BY <1>3 DEF HoldsLock
  <1> QED
    BY <1>1, <1>2, <1>3, Moves

LEMMA PutsHaveContentStep ==
  ASSUME TypeOK, PutsHaveContent, NEW p \in Proc, Act(p)
  PROVE  PutsHaveContent'
  <1> SUFFICES ASSUME NEW q \in Proc,
                      (pc'[q] = "lock" /\ op'[q].kind = "put") \/ pc'[q] \in {"write", "save"}
               PROVE  op'[q].etag \in Content
    BY DEF PutsHaveContent
  <1>1. CASE q # p
    BY <1>1, OthersStay DEF OnlyMoves, PutsHaveContent
  <1>2. CASE q = p /\ pc'[q] = "lock"
    <2>1. PICK r \in Request : /\ (r.kind = "put") = (r.etag \in Content)
                               /\ op' = [op EXCEPT ![p] = r]
      BY <1>2, Moves DEF BeginWrite
    <2>2. op'[p] = r
      BY <2>1 DEF TypeOK
    <2> QED
      BY <1>2, <2>1, <2>2
  <1>3. CASE q = p /\ pc'[q] = "write"
    <2>1. Acquire(p)
      BY <1>3, Moves
    <2>2. pc[p] = "lock" /\ op' = op /\ FirstStep(op[p]) = "write"
      BY <1>3, <2>1 DEF Acquire, request, TypeOK
    <2>3. op[p].kind = "put"
      BY <2>2 DEF FirstStep
    <2> QED
      BY <1>3, <2>2, <2>3 DEF PutsHaveContent
  <1>4. CASE q = p /\ pc'[q] = "save"
    <2>1. WriteBytes(p)
      BY <1>4, Moves
    <2>2. pc[p] = "write" /\ op' = op
      BY <2>1 DEF WriteBytes, Goto
    <2> QED
      BY <1>4, <2>2 DEF PutsHaveContent
  <1> QED
    BY <1>1, <1>2, <1>3, <1>4

LEMMA FreshIdsStep ==
  ASSUME TypeOK, FreshIds, BytesBeforeRow, NEW p \in Proc, Act(p)
  PROVE  FreshIds'
  <1> SUFFICES ASSUME NEW k \in Key, NEW v \in Real, rows'[k][v].id > 0
               PROVE  v \in used'
    BY DEF FreshIds, Has
  <1>1. v \in VersionId
    BY DEF VersionId
  <1>2. CASE Has(k, v)
    BY <1>2, UsedGrows DEF FreshIds
  <1>3. CASE CommitRow(p) /\ v = vid[p]
    <2>1. v \in used
      BY <1>3 DEF CommitRow, BytesBeforeRow
    <2> QED
      BY <2>1, UsedGrows
  <1>4. CASE used' = used \cup ({v} \cap Real)
    BY <1>4
  <1> QED
    BY <1>1, <1>2, <1>3, <1>4, RowOrigin

LEMMA BytesBeforeRowStep ==
  ASSUME TypeOK, HoldsLock, FreshIds, BytesBeforeRow, NEW p \in Proc, Act(p)
  PROVE  BytesBeforeRow'
  <1> SUFFICES ASSUME NEW q \in Proc, pc'[q] \in {"save", "undo"}, vid'[q] \in Real
               PROVE  /\ vid'[q] \in used'
                      /\ ~(rows'[op'[q].key][vid'[q]].id > 0)
                      /\ pc'[q] = "save" => vfile'[op'[q].key][vid'[q]] = op'[q].etag
    BY DEF BytesBeforeRow, Has
  <1>1. CASE q # p
    <2>1. /\ pc[q] \in {"save", "undo"} /\ vid[q] \in Real
          /\ pc'[q] = pc[q] /\ op'[q] = op[q] /\ vid'[q] = vid[q]
      BY <1>1, OthersStay DEF OnlyMoves
    <2>2. op[q].key \in Key /\ vid[q] \in VersionId
      BY <2>1, RequestFields
    <2>3. vid[q] \in used'
      BY <2>1, UsedGrows DEF BytesBeforeRow
    <2>4. ASSUME op[p].key = op[q].key, pc[p] \in Locked PROVE FALSE
      BY <1>1, <2>1, <2>4, Alone DEF Locked
    <2>5. ~(rows'[op[q].key][vid[q]].id > 0)
      <3>1. ~Has(op[q].key, vid[q])
        BY <2>1 DEF BytesBeforeRow
      <3>2. CommitRow(p) \/ PutMarker(p) => pc[p] \in Locked
        BY DEF CommitRow, PutMarker, Locked
      <3> QED
        BY <2>2, <2>4, <3>1, <3>2, RowOrigin
    <2>6. ASSUME pc[q] = "save" PROVE vfile'[op[q].key][vid[q]] = op[q].etag
      <3>1. vfile[op[q].key][vid[q]] = op[q].etag
        BY <2>1, <2>6 DEF BytesBeforeRow
      <3>2. WriteBytes(p) \/ UndoBytes(p) \/ RemoveBytes(p) => pc[p] \in Locked
        BY DEF WriteBytes, UndoBytes, RemoveBytes, Locked
      <3> QED
        BY <2>1, <2>2, <2>4, <3>1, <3>2, FileOrigin
    <2> QED
      BY <2>1, <2>3, <2>5, <2>6
  <1>2. CASE q = p /\ pc'[q] = "save"
    <2>1. WriteBytes(p)
      BY <1>2, Moves
    <2>2. pc[p] = "write" /\ op' = op /\ rows' = rows
      BY <2>1 DEF WriteBytes, Goto, db
    <2>3. PICK w \in VersionIDForPut(op[p].mode) :
            /\ vid' = [vid EXCEPT ![p] = w]
            /\ used' = used \cup ({w} \cap Real)
            /\ WriteFile(op[p].key, w, op[p].etag)
      BY <2>1 DEF WriteBytes
    <2>4. op[p].key \in Key /\ op[p].mode \in Modes
      BY <2>2, RequestFields
    <2>5. vid'[p] = w /\ w \in Real
      BY <1>2, <2>3 DEF TypeOK
    <2>6. w \notin used /\ w \in VersionId
      BY <2>3, <2>5, VersionIdAssumption DEF VersionIDForPut, VersionId
    <2>7. ~Has(op[p].key, w)
      BY <2>4, <2>5, <2>6 DEF FreshIds
    <2>8. vfile'[op[p].key][w] = op[p].etag
      BY <2>3, <2>4, <2>5, <2>6, WriteFileEffect
    <2> QED
      BY <1>2, <2>2, <2>3, <2>5, <2>7, <2>8 DEF Has
  <1>3. CASE q = p /\ pc'[q] = "undo"
    BY <1>3, Moves DEF BytesBeforeRow, Has
  <1> QED
    BY <1>1, <1>2, <1>3

LEMMA RowBeforeBytesStep ==
  ASSUME TypeOK, HoldsLock, RowBeforeBytes, NEW p \in Proc, Act(p)
  PROVE  RowBeforeBytes'
  <1> SUFFICES ASSUME NEW q \in Proc, pc'[q] = "bytes", NEW v \in doomed'[q] \cap Real
               PROVE  ~(rows'[op'[q].key][v].id > 0)
    BY DEF RowBeforeBytes, Has
  <1>a. ~(NoRow.id > 0)
    BY DEF NoRow
  <1>0. v \in VersionId
    BY DEF VersionId
  <1>1. CASE q # p
    <2>1. pc[q] = "bytes" /\ op'[q] = op[q] /\ v \in doomed[q]
      BY <1>1, OthersStay DEF OnlyMoves
    <2>2. op[q].key \in Key
      BY <2>1, RequestFields
    <2>3. ~Has(op[q].key, v)
      BY <2>1 DEF RowBeforeBytes
    <2>4. CommitRow(p) \/ PutMarker(p) => op[p].key # op[q].key
      BY <1>1, <2>1, Alone DEF CommitRow, PutMarker, Locked
    <2> QED
      BY <1>0, <2>1, <2>2, <2>3, <2>4, RowOrigin
  <1>2. CASE q = p /\ DeleteVersion(p)
    <2>1. pc[p] = "version"
      BY <1>2 DEF DeleteVersion
    <2>2. op[p].key \in Key /\ op[p].target \in VersionId
      BY <2>1, RequestFields
    <2>3. ~Return(p)
      BY <1>2, ReturnMoves
    <2>4. PICK w \in Newest(op[p].key, Named(op[p].key, op[p].target)) :
            /\ DropRow(op[p].key, w)
            /\ doomed' = [doomed EXCEPT ![p] = IF rows[op[p].key][w].marker THEN {} ELSE {w}]
            /\ Goto(p, "bytes")
      BY <1>2, <2>3 DEF DeleteVersion
    <2>5. w \in VersionId /\ op' = op
      BY <2>2, <2>4, FoundVersion DEF Goto
    <2>6. v = w
      BY <1>2, <2>4 DEF TypeOK
    <2> QED
      BY <1>a, <1>0, <1>2, <2>2, <2>4, <2>5, <2>6, DropRowEffect
  <1>3. CASE q = p /\ DeleteRows(p)
    <2>1. pc[p] # "idle" /\ DropAllRows(op[p].key) /\ op' = op
      BY <1>3 DEF DeleteRows, Goto
    <2>2. op[p].key \in Key
      BY <2>1, RequestFields
    <2> QED
      BY <1>a, <1>0, <1>3, <2>1, <2>2, DropAllRowsEffect
  <1>4. CASE q = p /\ RemoveBytes(p)
    <2>1. pc[p] = "bytes" /\ op' = op /\ rows' = rows
      BY <1>4 DEF RemoveBytes, Goto, db
    <2>2. v \in doomed[p]
      BY <1>4 DEF RemoveBytes, TypeOK
    <2> QED
      BY <1>4, <2>1, <2>2 DEF RowBeforeBytes, Has
  <1> QED
    BY <1>1, <1>2, <1>3, <1>4, Moves

LEMMA RealVersionsHaveBytesStep ==
  ASSUME TypeOK, FreshIds, BytesBeforeRow, RowBeforeBytes, RealVersionsHaveBytes,
         NEW p \in Proc, Act(p)
  PROVE  RealVersionsHaveBytes'
  <1> SUFFICES ASSUME NEW k \in Key, NEW v \in Real,
                      rows'[k][v].id > 0, ~rows'[k][v].marker
               PROVE  vfile'[k][v] = rows'[k][v].etag
    BY DEF RealVersionsHaveBytes, Has
  <1>0. v \in VersionId
    BY DEF VersionId
  <1>1. CASE Has(k, v) /\ rows'[k][v].marker = rows[k][v].marker
                       /\ rows'[k][v].etag = rows[k][v].etag
    <2>1. vfile[k][v] = rows'[k][v].etag
      BY <1>1 DEF RealVersionsHaveBytes
    <2>2. v \in used
      BY <1>1 DEF FreshIds
    <2>3. ~(UndoBytes(p) /\ k = op[p].key /\ v = vid[p])
      BY <1>1 DEF UndoBytes, BytesBeforeRow
    <2>4. ~(RemoveBytes(p) /\ k = op[p].key /\ v \in doomed[p])
      BY <1>1 DEF RemoveBytes, RowBeforeBytes
    <2> QED
      BY <2>1, <2>2, <2>3, <2>4, FileOrigin
  <1>2. CASE CommitRow(p) /\ k = op[p].key /\ v = vid[p] /\ rows'[k][v].etag = op[p].etag
    <2>1. pc[p] = "save" /\ vfile' = vfile
      BY <1>2 DEF CommitRow, disk
    <2> QED
      BY <1>2, <2>1 DEF BytesBeforeRow
  <1> QED
    BY <1>0, <1>1, <1>2, RowOrigin

LEMMA ReadersSeeOneFileStep ==
  ASSUME TypeOK, FreshIds, RealVersionsHaveBytes, ReadersSeeOneFile, VariantsMatchTheirSource,
         NEW p \in Proc, Act(p)
  PROVE  ReadersSeeOneFile'
  <1> SUFFICES ASSUME NEW q \in Proc, pc'[q] \in Reading, vid'[q] \in Real
               PROVE  /\ vid'[q] \in used'
                      /\ vfile'[op'[q].key][vid'[q]] \in {None, op'[q].etag}
                      /\ pc'[q] \in {"cache", "serve"} => body'[q] = op'[q].etag
    BY DEF ReadersSeeOneFile
  <1>1. CASE q # p
    <2>1. /\ pc[q] \in Reading /\ vid[q] \in Real
          /\ pc'[q] = pc[q] /\ op'[q] = op[q] /\ vid'[q] = vid[q] /\ body'[q] = body[q]
      BY <1>1, OthersStay DEF OnlyMoves
    <2>2. op[q].key \in Key
      BY <2>1, RequestFields DEF Reading
    <2>3. /\ vid[q] \in used
          /\ vfile[op[q].key][vid[q]] \in {None, op[q].etag}
          /\ pc[q] \in {"cache", "serve"} => body[q] = op[q].etag
      BY <2>1 DEF ReadersSeeOneFile
    <2> QED
      BY <2>1, <2>2, <2>3, UsedGrows, FileOrigin
  <1>2. CASE q = p /\ BeginRead(p)
    <2>1. used' = used /\ vfile' = vfile
      BY <1>2 DEF BeginRead, disk
    <2>2. PICK kind \in Kinds \cap {"get", "thumb"}, k \in Key,
               target \in {""} \cup {"null"} \cup used :
            \E v \in IF target = "" THEN Current(k) ELSE Newest(k, Named(k, target)) :
              /\ ~rows[k][v].marker
              /\ op' = [op EXCEPT ![p] = [kind |-> kind, key |-> k, target |-> target,
                                          etag |-> rows[k][v].etag, mode |-> ""]]
              /\ vid' = [vid EXCEPT ![p] = v]
              /\ pc' = [pc EXCEPT ![p] = IF kind = "thumb" THEN "probe" ELSE "open"]
      BY <1>2 DEF BeginRead
    <2>3. PICK v \in IF target = "" THEN Current(k) ELSE Newest(k, Named(k, target)) :
              /\ ~rows[k][v].marker
              /\ op' = [op EXCEPT ![p] = [kind |-> kind, key |-> k, target |-> target,
                                          etag |-> rows[k][v].etag, mode |-> ""]]
              /\ vid' = [vid EXCEPT ![p] = v]
              /\ pc' = [pc EXCEPT ![p] = IF kind = "thumb" THEN "probe" ELSE "open"]
      BY <2>2
    <2>4. Has(k, v)
      BY DEF Current, Newest
    <2>5. op'[p].key = k /\ op'[p].etag = rows[k][v].etag /\ vid'[p] = v
      BY <2>3 DEF TypeOK
    <2>6. v \in Real
      BY <1>2, <2>5
    <2>7. v \in used /\ vfile[k][v] = rows[k][v].etag
      BY <2>3, <2>4, <2>6 DEF FreshIds, RealVersionsHaveBytes
    <2>8. pc'[p] \in {"probe", "open"}
      BY <2>3 DEF TypeOK
    <2> QED
      BY <1>2, <2>1, <2>5, <2>7, <2>8
  <1>3. CASE q = p /\ Probe(p)
    <2>1. pc[p] = "probe" /\ UNCHANGED <<op, vid, vfile, used>>
      BY <1>3 DEF Probe, Goto, disk
    <2>2. ASSUME pc'[p] \in {"cache", "serve"} PROVE body'[p] = op[p].etag
      <3>1. ~Goto(p, "open")
        BY <2>2, GotoMoves
      <3>2. PICK t \in variants[op[p].key] : /\ t[1] = vid[p] /\ t[2] = op[p].etag
                                             /\ body' = [body EXCEPT ![p] = t[3]]
        BY <1>3, <3>1 DEF Probe
      <3>3. op[p].key \in Key
        BY <2>1, RequestFields
      <3>4. vid[p] \in Real
        BY <1>3, <2>1
      <3>5. t[3] = op[p].etag
        BY <3>2, <3>3, <3>4 DEF VariantsMatchTheirSource
      <3> QED
        BY <3>2, <3>5 DEF TypeOK
    <2> QED
      BY <1>3, <2>1, <2>2 DEF ReadersSeeOneFile, Reading
  <1>4. CASE q = p /\ OpenBytes(p)
    <2>1. pc[p] = "open" /\ ~Return(p)
      BY <1>4, ReturnMoves DEF OpenBytes, Reading
    <2>2. /\ BytesOf(op[p].key, vid[p]) # None
          /\ body' = [body EXCEPT ![p] = BytesOf(op[p].key, vid[p])]
          /\ UNCHANGED <<op, vid, vfile, used>>
      BY <1>4, <2>1 DEF OpenBytes, disk
    <2>3. body'[p] = vfile[op[p].key][vid[p]]
      BY <1>4, <2>2 DEF BytesOf, TypeOK
    <2>4. vid[p] \in used /\ vfile[op[p].key][vid[p]] \in {None, op[p].etag}
      BY <1>4, <2>1, <2>2 DEF ReadersSeeOneFile, Reading
    <2>5. vfile[op[p].key][vid[p]] # None
      BY <1>4, <2>2 DEF BytesOf
    <2> QED
      BY <1>4, <2>2, <2>3, <2>4, <2>5
  <1>5. CASE q = p /\ FallBack(p)
    <2>1. /\ pc[p] \in Reading /\ pc'[p] = "open"
          /\ UNCHANGED <<vid, vfile, used>>
          /\ op' = [op EXCEPT ![p].kind = "get"]
      BY <1>5 DEF FallBack, Reading, disk, TypeOK
    <2>2. op'[p].key = op[p].key /\ op'[p].etag = op[p].etag
      BY <2>1 DEF TypeOK, Request
    <2> QED
      BY <1>5, <2>1, <2>2 DEF ReadersSeeOneFile
  <1>6. CASE q = p /\ CacheVariant(p)
    <2>1. pc[p] = "cache" /\ UNCHANGED <<op, vid, vfile, used, body>>
      BY <1>6 DEF CacheVariant, Goto
    <2> QED
      BY <1>6, <2>1 DEF ReadersSeeOneFile, Reading
  <1> QED
    BY <1>1, <1>2, <1>3, <1>4, <1>5, <1>6, Moves

LEMMA VariantsMatchStep ==
  ASSUME TypeOK, ReadersSeeOneFile, VariantsMatchTheirSource, NEW p \in Proc, Act(p)
  PROVE  VariantsMatchTheirSource'
  <1> USE DEF disk
  <1>1. CASE Tidy(p)
    <2>1. \A k \in Key : variants'[k] \subseteq variants[k]
      BY <1>1 DEF Tidy, TypeOK
    <2> QED
      BY <2>1 DEF VariantsMatchTheirSource
  <1>2. CASE CacheVariant(p)
    <2>1. pc[p] = "cache"
      BY <1>2 DEF CacheVariant
    <2>2. \A k \in Key : \A t \in variants'[k] :
            t \in variants[k] \/ t = <<vid[p], op[p].etag, body[p]>>
      <3>1. \/ variants' = variants
            \/ variants' = [variants EXCEPT ![op[p].key] =
                   {t \in variants[op[p].key] : t[1] # vid[p] \/ t[2] # op[p].etag}
                   \cup {<<vid[p], op[p].etag, body[p]>>}]
        BY <1>2 DEF CacheVariant
      <3>2. variants \in [Key -> SUBSET (VersionId \X (Content \cup {None}) \X (Content \cup {None}))]
        BY DEF TypeOK
      <3> QED
        BY <3>1, <3>2
    <2>3. vid[p] \in Real => body[p] = op[p].etag
      BY <2>1 DEF ReadersSeeOneFile, Reading
    <2> QED
      BY <2>2, <2>3 DEF VariantsMatchTheirSource
  <1>3. CASE UNCHANGED variants
    BY <1>3 DEF VariantsMatchTheirSource
  <1>4. CASE BeginWrite(p) \/ BeginRead(p) \/ RejectBytes(p) \/ FailRow(p) \/ FailDelete(p)
    BY <1>3, <1>4 DEF BeginWrite, BeginRead, RejectBytes, FailRow, FailDelete
  <1>5. CASE Acquire(p) \/ WriteBytes(p) \/ CommitRow(p) \/ UndoBytes(p) \/ PutMarker(p)
    BY <1>3, <1>5 DEF Acquire, WriteBytes, CommitRow, UndoBytes, PutMarker
  <1>6. CASE DeleteVersion(p) \/ SuspendedDelete(p) \/ ListVersions(p) \/ DeleteRows(p)
    BY <1>3, <1>6 DEF DeleteVersion, SuspendedDelete, DeleteNull, DeleteSlot, ListVersions, DeleteRows
  <1>7. CASE RemoveBytes(p) \/ BytesGone(p) \/ Probe(p) \/ OpenBytes(p)
    BY <1>3, <1>7 DEF RemoveBytes, BytesGone, Probe, OpenBytes
  <1>8. CASE FallBack(p) \/ Serve(p)
    BY <1>3, <1>8 DEF FallBack, Serve
  <1> QED
    BY <1>1, <1>2, <1>4, <1>5, <1>6, <1>7, <1>8 DEF Act, Step

\* Every step keeps VersionInv.
LEMMA VersionInvStep ==
  ASSUME TypeOK, VersionInv, [Next]_vars
  PROVE  VersionInv'
  <1> USE DEF VersionInv
  <1>1. CASE \E p \in Proc : Act(p)
    BY <1>1, HoldsLockStep, PutsHaveContentStep, FreshIdsStep, BytesBeforeRowStep,
       RowBeforeBytesStep, RealVersionsHaveBytesStep, ReadersSeeOneFileStep,
       VariantsMatchStep
  <1>2. CASE SetBucketVersioning \/ UNCHANGED vars
    <2>1. UNCHANGED <<rows, vfile, used, variants, lock, pc, op, vid, doomed, body>>
      BY <1>2 DEF SetBucketVersioning, vars, db, disk, request
    <2> QED
      BY <2>1 DEF HoldsLock, PutsHaveContent, FreshIds, BytesBeforeRow, RowBeforeBytes,
                  RealVersionsHaveBytes, ReadersSeeOneFile, VariantsMatchTheirSource, Has
  <1>3. CASE Crash
    <2>1. UNCHANGED <<rows, vfile, used, variants>>
      BY <1>3 DEF Crash, db, disk
    <2>2. \A p \in Proc : pc'[p] = "idle"
      BY <1>3 DEF Crash
    <2>3. FreshIds' /\ RealVersionsHaveBytes' /\ VariantsMatchTheirSource'
      BY <2>1 DEF FreshIds, RealVersionsHaveBytes, VariantsMatchTheirSource, Has
    <2>4. HoldsLock' /\ PutsHaveContent' /\ BytesBeforeRow' /\ RowBeforeBytes' /\ ReadersSeeOneFile'
      BY <2>2 DEF HoldsLock, PutsHaveContent, BytesBeforeRow, RowBeforeBytes,
                  ReadersSeeOneFile, Locked, Reading
    <2> QED
      BY <2>3, <2>4
  <1> QED
    BY <1>1, <1>2, <1>3 DEF Next, Act

LEMMA VersionInvInit ==
  ASSUME Init
  PROVE  VersionInv
  <1>1. \A p \in Proc : pc[p] = "idle"
    BY DEF Init
  <1>2. \A k \in Key, v \in VersionId : rows[k][v] = NoRow
    BY DEF Init
  <1>3. \A k \in Key : variants[k] = {}
    BY DEF Init
  <1>4. FreshIds /\ RealVersionsHaveBytes
    <2>1. \A k \in Key, v \in VersionId : ~Has(k, v)
      BY <1>2 DEF Has, NoRow
    <2> QED
      BY <2>1 DEF FreshIds, RealVersionsHaveBytes, VersionId
  <1>5. HoldsLock /\ PutsHaveContent /\ BytesBeforeRow /\ RowBeforeBytes /\ ReadersSeeOneFile
    BY <1>1 DEF HoldsLock, PutsHaveContent, BytesBeforeRow, RowBeforeBytes,
                ReadersSeeOneFile, Locked, Reading
  <1> QED
    BY <1>3, <1>4, <1>5 DEF VersionInv, VariantsMatchTheirSource

LEMMA VersionInvHolds == Spec => []VersionInv
  <1>1. Init => VersionInv
    BY VersionInvInit
  <1>2. TypeOK /\ VersionInv /\ [Next]_vars => VersionInv'
    BY VersionInvStep
  <1> QED
    BY <1>1, <1>2, TypeCorrect, PTL DEF Spec

\* RealVersionsHaveBytes: for any number of requests, failures and crashes, the row of
\* a real version never points at a missing or a different file.
THEOREM RowsHaveBytes == Spec => []RealVersionsHaveBytes
  <1>1. VersionInv => RealVersionsHaveBytes
    BY DEF VersionInv
  <1> QED
    BY <1>1, VersionInvHolds, PTL

\* VersionedReadsAreWhole: a reader that holds no mutex still serves the bytes of the
\* row it read, because the file of a real version is written once.
THEOREM ReadsAreWhole == Spec => []VersionedReadsAreWhole
  <1>1. VersionInv => VersionedReadsAreWhole
    BY DEF VersionInv, ReadersSeeOneFile, VersionedReadsAreWhole, Reading
  <1> QED
    BY <1>1, VersionInvHolds, PTL

\* VariantsMatchTheirSource: an image cached for a version with a file of its own was made
\* from the bytes of the etag in its name, whatever ran between the read and the caching.
THEOREM VariantsMatch == Spec => []VariantsMatchTheirSource
  <1>1. VersionInv => VariantsMatchTheirSource
    BY DEF VersionInv
  <1> QED
    BY <1>1, VersionInvHolds, PTL

-----------------------------------------------------------------------------
(* Rows and files together implement write-once versions. *)

Pending == {<<op[p].key, vid[p]>> : p \in InFlight}

Objects == [k \in Key |-> [v \in Real |-> Visible(k, v)]]

\* A version whose row a step leaves alone looks the same after it, file included.
LEMMA VisibleStays ==
  ASSUME TypeOK, VersionInv, NEW p \in Proc, Act(p), NEW k \in Key, NEW v \in Real,
         rows'[k][v].id = rows[k][v].id, rows'[k][v].marker = rows[k][v].marker
  PROVE  Visible(k, v)' = Visible(k, v)
  <1>1. CASE Has(k, v) /\ ~rows[k][v].marker
    <2>1. v \in used
      BY <1>1 DEF VersionInv, FreshIds
    <2>2. ~(UndoBytes(p) /\ k = op[p].key /\ v = vid[p])
      BY <1>1 DEF UndoBytes, VersionInv, BytesBeforeRow
    <2>3. ~(RemoveBytes(p) /\ k = op[p].key /\ v \in doomed[p])
      BY <1>1 DEF RemoveBytes, VersionInv, RowBeforeBytes
    <2>4. vfile'[k][v] = vfile[k][v]
      BY <2>1, <2>2, <2>3, FileOrigin
    <2> QED
      BY <1>1, <2>4 DEF Visible, Has
  <1>2. CASE ~(Has(k, v) /\ ~rows[k][v].marker)
    BY <1>2 DEF Visible, Has
  <1> QED
    BY <1>1, <1>2

LEMMA ObjectsStay ==
  ASSUME TypeOK, VersionInv, NEW p \in Proc, Act(p), rows' = rows
  PROVE  Objects' = Objects
  <1>1. \A k \in Key, v \in Real : Visible(k, v)' = Visible(k, v)
    BY VisibleStays
  <1> QED
    BY <1>1 DEF Objects

\* Writes are pending between the rename of the bytes and the row.
LEMMA PendingStays ==
  ASSUME TypeOK, NEW p \in Proc, Act(p), pc[p] # "save", pc'[p] # "save"
  PROVE  Pending' = Pending
  <1>1. \A q \in Proc : q \in InFlight' <=> q \in InFlight
    BY OthersStay DEF OnlyMoves, InFlight
  <1>2. \A q \in InFlight : op'[q] = op[q] /\ vid'[q] = vid[q]
    BY OthersStay DEF OnlyMoves, InFlight
  <1>3. InFlight' = InFlight
    BY <1>1 DEF InFlight
  <1> QED
    BY <1>2, <1>3 DEF Pending

LEMMA PendingEnds ==
  ASSUME TypeOK, VersionInv, NEW p \in Proc, Act(p), pc[p] = "save", pc'[p] # "save"
  PROVE  Pending' = Pending \ {<<op[p].key, vid[p]>>}
  <1>1. \A q \in Proc : q \in InFlight' <=> q \in InFlight /\ q # p
    BY OthersStay DEF OnlyMoves, InFlight
  <1>2. \A q \in InFlight \ {p} : /\ op'[q] = op[q] /\ vid'[q] = vid[q]
                                  /\ op[q].key # op[p].key
    BY OthersStay, Alone DEF OnlyMoves, InFlight, VersionInv, Locked
  <1>3. InFlight' = InFlight \ {p}
    BY <1>1 DEF InFlight
  <1>4. Pending' = {<<op[q].key, vid[q]>> : q \in InFlight \ {p}}
    BY <1>2, <1>3 DEF Pending
  <1> QED
    BY <1>2, <1>4 DEF Pending, InFlight

LEMMA PendingBegins ==
  ASSUME TypeOK, NEW p \in Proc, Act(p), pc[p] # "save", pc'[p] = "save", vid'[p] \in Real
  PROVE  Pending' = Pending \cup {<<op'[p].key, vid'[p]>>}
  <1>1. \A q \in Proc : q \in InFlight' <=> q \in InFlight \/ q = p
    BY OthersStay DEF OnlyMoves, InFlight
  <1>2. \A q \in InFlight : op'[q] = op[q] /\ vid'[q] = vid[q]
    BY OthersStay DEF OnlyMoves, InFlight
  <1>3. InFlight' = InFlight \cup {p}
    BY <1>1 DEF InFlight
  <1>4. Pending' = {<<op'[q].key, vid'[q]>> : q \in InFlight \cup {p}}
    BY <1>3 DEF Pending
  <1> QED
    BY <1>2, <1>4 DEF Pending

LEMMA PendingUnversioned ==
  ASSUME TypeOK, NEW p \in Proc, Act(p), pc[p] # "save", pc'[p] = "save", vid'[p] \notin Real
  PROVE  Pending' = Pending
  <1>1. \A q \in Proc : q \in InFlight' <=> q \in InFlight
    BY OthersStay DEF OnlyMoves, InFlight
  <1>2. \A q \in InFlight : op'[q] = op[q] /\ vid'[q] = vid[q]
    BY OthersStay DEF OnlyMoves, InFlight
  <1>3. InFlight' = InFlight
    BY <1>1 DEF InFlight
  <1> QED
    BY <1>2, <1>3 DEF Pending

\* The steps of WriteOnceVersions in terms of this module's state.
LEMMA Stutters ==
  ASSUME used' = used, Pending' = Pending, Objects' = Objects
  PROVE  UNCHANGED Versions!vars
  BY DEF Versions!vars, Pending, Objects

LEMMA Reserves ==
  ASSUME NEW k \in Key, NEW v \in Real, v \notin used, used' = used \cup {v},
         Pending' = Pending \cup {<<k, v>>}, Objects' = Objects
  PROVE  Versions!Next
  <1>1. Versions!Reserve(k, v)
    BY DEF Versions!Reserve, Pending, Objects
  <1> QED
    BY <1>1 DEF Versions!Next

LEMMA Burns ==
  ASSUME NEW v \in Real, v \notin used, used' = used \cup {v},
         Pending' = Pending, Objects' = Objects
  PROVE  Versions!Next
  <1>1. Versions!Burn(v)
    BY DEF Versions!Burn, Pending, Objects
  <1> QED
    BY <1>1 DEF Versions!Next

LEMMA Publishes ==
  ASSUME NEW k \in Key, NEW v \in Real, NEW c \in Content, <<k, v>> \in Pending,
         used' = used, Pending' = Pending \ {<<k, v>>},
         Objects' = [Objects EXCEPT ![k][v] = c]
  PROVE  Versions!Next
  <1>1. Versions!Publish(k, v, c)
    BY DEF Versions!Publish, Pending, Objects
  <1> QED
    BY <1>1 DEF Versions!Next

LEMMA Abandons ==
  ASSUME NEW S \in SUBSET Pending,
         used' = used, Pending' = Pending \ S, Objects' = Objects
  PROVE  Versions!Next
  <1>1. Versions!Abandon(S)
    BY DEF Versions!Abandon, Pending, Objects
  <1>2. S \in SUBSET {<<op[p].key, vid[p]>> : p \in InFlight}
    BY DEF Pending
  <1> QED
    BY <1>1, <1>2 DEF Versions!Next

LEMMA Withdraws ==
  ASSUME NEW k \in Key, NEW V \in SUBSET Real, used' = used, Pending' = Pending,
         \A j \in Key, v \in Real :
           Visible(j, v)' = IF j = k /\ v \in V THEN None ELSE Visible(j, v)
  PROVE  Versions!Next
  <1>1. Objects' = [Objects EXCEPT ![k] = [v \in Real |-> IF v \in V THEN None ELSE Objects[k][v]]]
    BY DEF Objects
  <1>2. Versions!Withdraw(k, V)
    BY <1>1 DEF Versions!Withdraw, Pending, Objects
  <1> QED
    BY <1>2 DEF Versions!Next

\* Every step of a request is a step of WriteOnceVersions or leaves its state alone.
LEMMA RefinementStep ==
  ASSUME TypeOK, VersionInv, NEW p \in Proc, Act(p)
  PROVE  Versions!Next \/ UNCHANGED Versions!vars
  <1>0. ~(NoRow.id > 0)
    BY DEF NoRow
  <1>1. CASE WriteBytes(p)
    <2>1. PICK v \in VersionIDForPut(op[p].mode) :
            vid' = [vid EXCEPT ![p] = v] /\ used' = used \cup ({v} \cap Real)
      BY <1>1 DEF WriteBytes
    <2>2. /\ pc[p] = "write" /\ pc'[p] = "save" /\ op' = op /\ rows' = rows
      BY <1>1, GotoMoves DEF WriteBytes, db
    <2>3. Objects' = Objects
      BY <2>2, ObjectsStay
    <2>4. vid'[p] = v /\ op[p].key \in Key
      BY <2>1, <2>2, RequestFields DEF TypeOK
    <2>5. CASE v \in Real
      <3>1. v \notin used /\ used' = used \cup {v}
        BY <2>1, <2>5, VersionIdAssumption DEF VersionIDForPut
      <3>2. Pending' = Pending \cup {<<op[p].key, v>>}
        BY <2>2, <2>4, <2>5, PendingBegins
      <3> QED
        BY <2>3, <2>4, <2>5, <3>1, <3>2, Reserves
    <2>6. CASE v \notin Real
      <3>1. Pending' = Pending
        BY <2>2, <2>4, <2>6, PendingUnversioned
      <3> QED
        BY <2>1, <2>3, <2>6, <3>1, Stutters
    <2> QED
      BY <2>5, <2>6
  <1>2. CASE CommitRow(p)
    <2>1. /\ pc[p] = "save" /\ pc'[p] = "tidy" /\ vfile' = vfile /\ used' = used
          /\ SaveRow(op[p].key, vid[p], op[p].etag, FALSE)
      BY <1>2, GotoMoves DEF CommitRow, disk
    <2>2. PICK k \in Key, v \in VersionId, c \in Content :
            k = op[p].key /\ v = vid[p] /\ c = op[p].etag
      BY <2>1, RequestFields DEF VersionInv, PutsHaveContent
    <2>3. SaveRow(k, v, c, FALSE)
      BY <2>1, <2>2
    <2>4. PICK m \in BOOLEAN : m = FALSE /\ SaveRow(k, v, c, m)
      BY <2>3, Zenon
    <2>5. /\ rows'[k][v].id > 0 /\ rows'[k][v].marker = m
          /\ \A j \in Key, w \in VersionId : j # k \/ w # v =>
               rows'[j][w].id = rows[j][w].id /\ rows'[j][w].marker = rows[j][w].marker
      BY <2>4, SaveRowEffect
    <2>6. Pending' = Pending \ {<<k, v>>}
      BY <2>1, <2>2, PendingEnds
    <2>7. \A j \in Key, w \in Real : j # k \/ w # v => Visible(j, w)' = Visible(j, w)
      BY <2>5, VisibleStays DEF VersionId
    <2>8. CASE v \in Real
      <3>1. vfile[k][v] = c
        BY <2>1, <2>2, <2>8 DEF VersionInv, BytesBeforeRow
      <3>2. Visible(k, v)' = c
        BY <2>1, <2>4, <2>5, <3>1 DEF Visible, Has
      <3>3. Objects' = [Objects EXCEPT ![k][v] = c]
        BY <2>7, <2>8, <3>2 DEF Objects
      <3>4. <<k, v>> \in Pending
        BY <2>1, <2>2, <2>8 DEF Pending, InFlight
      <3> QED
        BY <2>1, <2>6, <2>8, <3>3, <3>4, Publishes
    <2>9. CASE v \notin Real
      <3>1. Objects' = Objects
        BY <2>7, <2>9 DEF Objects
      <3>2. Pending' = Pending
        BY <2>6, <2>9 DEF Pending, InFlight
      <3> QED
        BY <2>1, <3>1, <3>2, Stutters
    <2> QED
      BY <2>8, <2>9
  <1>3. CASE FailRow(p)
    <2>1. pc[p] = "save" /\ rows' = rows /\ used' = used
      BY <1>3 DEF FailRow, db
    <2>2. pc'[p] # "save"
      BY <2>1, Moves DEF WriteBytes
    <2>3. Pending' = Pending \ ({<<op[p].key, vid[p]>>} \cap Pending)
      BY <2>1, <2>2, PendingEnds
    <2> QED
      BY <2>1, <2>3, ObjectsStay, Abandons
  <1>4. CASE PutMarker(p)
    <2>1. PICK v \in VersionIDForPut(op[p].mode) :
            used' = used \cup ({v} \cap Real) /\ SaveRow(op[p].key, v, None, TRUE)
      BY <1>4 DEF PutMarker
    <2>2. pc[p] = "marker" /\ pc'[p] = "tidy"
      BY <1>4, GotoMoves DEF PutMarker
    <2>3. PICK k \in Key : k = op[p].key
      BY <2>2, RequestFields
    <2>4. v \in VersionId
      BY <2>1, <2>2, RequestFields, ChosenId
    <2>5. SaveRow(k, v, None, TRUE)
      BY <2>1, <2>3
    <2>6. PICK m \in BOOLEAN : m = TRUE /\ SaveRow(k, v, None, m)
      BY <2>5, Zenon
    <2>7. /\ rows'[k][v].marker = m
          /\ \A j \in Key, w \in VersionId : j # k \/ w # v =>
               rows'[j][w].id = rows[j][w].id /\ rows'[j][w].marker = rows[j][w].marker
      <3>1. PICK c \in Content \cup {None} : SaveRow(k, v, c, m)
        BY <2>6
      <3> QED
        BY <2>4, <3>1, SaveRowEffect
    <2>8. Pending' = Pending
      BY <2>2, PendingStays
    <2>9. \A j \in Key, w \in Real : j # k \/ w # v => Visible(j, w)' = Visible(j, w)
      BY <2>7, VisibleStays DEF VersionId
    <2>10. CASE v \in Real
      <3>1. v \notin used /\ used' = used \cup {v}
        BY <2>1, <2>10, VersionIdAssumption DEF VersionIDForPut
      <3>2. Visible(k, v) = None
        BY <2>10, <3>1 DEF Visible, VersionInv, FreshIds
      <3>3. Visible(k, v)' = None
        BY <2>6, <2>7 DEF Visible
      <3>4. Objects' = Objects
        BY <2>9, <3>2, <3>3 DEF Objects
      <3> QED
        BY <2>8, <2>10, <3>1, <3>4, Burns
    <2>11. CASE v \notin Real
      <3>1. Objects' = Objects
        BY <2>9, <2>11 DEF Objects
      <3> QED
        BY <2>1, <2>8, <2>11, <3>1, Stutters
    <2> QED
      BY <2>10, <2>11
  <1>5. CASE ~WriteBytes(p) /\ ~PutMarker(p) /\ ~CommitRow(p) /\ ~FailRow(p)
    <2>1. used' = used
      BY <1>5, UsedStays
    <2>2. Pending' = Pending
      BY <1>5, SaveSteps, Moves, PendingStays
    <2>3. CASE rows' = rows
      BY <2>1, <2>2, <2>3, ObjectsStay, Stutters
    <2>4. CASE /\ pc[p] \in Locked
               /\ \E w \in VersionId : Has(op[p].key, w) /\ DropRow(op[p].key, w)
      <3>1. PICK k \in Key : k = op[p].key
        BY <2>4, RequestFields DEF Locked
      <3>2. PICK v \in VersionId : DropRow(k, v)
        BY <2>4, <3>1
      <3>3. /\ rows'[k][v] = NoRow
            /\ \A j \in Key, w \in VersionId : j # k \/ w # v =>
                 rows'[j][w].id = rows[j][w].id /\ rows'[j][w].marker = rows[j][w].marker
        BY <3>2, DropRowEffect
      <3>4. \A j \in Key, w \in Real : j # k \/ w # v => Visible(j, w)' = Visible(j, w)
        BY <3>3, VisibleStays DEF VersionId
      <3>5. Visible(k, v)' = None
        BY <1>0, <3>3 DEF Visible, Has
      <3>6. \A j \in Key, w \in Real :
              Visible(j, w)' = IF j = k /\ w \in {v} \cap Real THEN None ELSE Visible(j, w)
        BY <3>4, <3>5
      <3> QED
        BY <2>1, <2>2, <3>6, Withdraws
    <2>5. CASE DeleteRows(p)
      <3>1. pc[p] # "idle" /\ DropAllRows(op[p].key)
        BY <2>5 DEF DeleteRows
      <3>2. PICK k \in Key : k = op[p].key
        BY <3>1, RequestFields
      <3>3. /\ \A v \in VersionId : rows'[k][v] = NoRow
            /\ \A j \in Key \ {k} : rows'[j] = rows[j]
        BY <3>1, <3>2, DropAllRowsEffect
      <3>4. \A j \in Key, w \in Real : j # k => Visible(j, w)' = Visible(j, w)
        BY <3>3, VisibleStays
      <3>5. \A w \in Real : Visible(k, w)' = None
        <4> TAKE w \in Real
        <4>1. rows'[k][w] = NoRow
          BY <3>3 DEF VersionId
        <4> QED
          BY <1>0, <4>1 DEF Visible, Has
      <3>6. \A j \in Key, w \in Real :
              Visible(j, w)' = IF j = k /\ w \in Real THEN None ELSE Visible(j, w)
        BY <3>4, <3>5
      <3> QED
        BY <2>1, <2>2, <3>6, Withdraws
    <2> QED
      BY <1>5, <2>3, <2>4, <2>5, RowChange
  <1> QED
    BY <1>1, <1>2, <1>3, <1>4, <1>5

\* ImplementsWriteOnceVersions: for every number of keys, requests, failures and
\* crashes the two stores together are a write-once version store: a version appears
\* whole and in one step, never changes, and never comes back.
THEOREM Refinement == Spec => ImplementsWriteOnceVersions
  <1>1. Init => Versions!Init
    <2> SUFFICES ASSUME Init PROVE Versions!Init
      OBVIOUS
    <2>1. used = {}
      BY DEF Init
    <2>2. InFlight = {}
      BY DEF Init, InFlight
    <2>3. \A k \in Key, v \in Real : Visible(k, v) = None
      <3>1. \A k \in Key, v \in VersionId : rows[k][v] = NoRow
        BY DEF Init
      <3>2. ~(NoRow.id > 0)
        BY DEF NoRow
      <3> QED
        BY <3>1, <3>2 DEF Visible, Has, VersionId
    <2> QED
      BY <2>1, <2>2, <2>3 DEF Versions!Init
  <1>2. TypeOK /\ VersionInv /\ [Next]_vars => [Versions!Next]_(Versions!vars)
    <2> SUFFICES ASSUME TypeOK, VersionInv, [Next]_vars
                 PROVE  Versions!Next \/ UNCHANGED Versions!vars
      OBVIOUS
    <2>1. CASE \E p \in Proc : Act(p)
      BY <2>1, RefinementStep
    <2>2. CASE SetBucketVersioning \/ UNCHANGED vars
      <3>1. UNCHANGED <<rows, vfile, used, pc, op, vid>>
        BY <2>2 DEF SetBucketVersioning, vars, db, disk, request
      <3>2. Objects' = Objects
        BY <3>1 DEF Objects, Visible, Has
      <3>3. Pending' = Pending
        BY <3>1 DEF Pending, InFlight
      <3> QED
        BY <3>1, <3>2, <3>3, Stutters
    <2>3. CASE Crash
      <3>1. UNCHANGED <<rows, vfile, used>> /\ \A p \in Proc : pc'[p] = "idle"
        BY <2>3 DEF Crash, db, disk
      <3>2. Objects' = Objects
        BY <3>1 DEF Objects, Visible, Has
      <3>3. Pending' = {}
        BY <3>1 DEF Pending, InFlight
      <3> QED
        BY <3>1, <3>2, <3>3, Abandons
    <2> QED
      BY <2>1, <2>2, <2>3 DEF Next, Act
  <1> QED
    BY <1>1, <1>2, TypeCorrect, VersionInvHolds, PTL
    DEF Spec, ImplementsWriteOnceVersions, Versions!Spec

-----------------------------------------------------------------------------
(* Who removes a version. *)

\* A request that removes every row of its key is a purge, or found no versioning.
RemovesAll(p) == \/ op[p].kind = "purge"
                 \/ op[p].kind = "delete" /\ op[p].target = "" /\ op[p].mode = ""

Dispatched ==
  /\ \A p \in Proc : pc[p] = "lock" => op[p].kind \in {"put", "delete", "purge"}
  /\ \A p \in Proc : pc[p] \in {"list", "rows"} => RemovesAll(p)

LEMMA DispatchedStep ==
  ASSUME TypeOK, Dispatched, NEW p \in Proc, Act(p)
  PROVE  Dispatched'
  <1>1. \A q \in Proc : q # p => pc'[q] = pc[q] /\ op'[q] = op[q]
    BY OthersStay DEF OnlyMoves
  <1>2. pc'[p] = "lock" => op'[p].kind \in {"put", "delete", "purge"}
    <2>1. CASE BeginWrite(p)
      BY <2>1 DEF BeginWrite, TypeOK
    <2> QED
      BY <2>1, Moves
  <1>3. pc'[p] \in {"list", "rows"} => RemovesAll(p)'
    <2>1. CASE Acquire(p)
      <3>1. /\ pc[p] = "lock" /\ op' = op
            /\ pc'[p] = FirstStep(op[p])
        BY <2>1 DEF Acquire, request, TypeOK
      <3>2. op[p].kind \in {"put", "delete", "purge"} /\ op[p].mode \in Modes
        BY <3>1, RequestFields DEF Dispatched
      <3> QED
        BY <3>1, <3>2 DEF FirstStep, Modes, RemovesAll
    <2>2. CASE ListVersions(p)
      <3>1. pc[p] = "list" /\ op' = op
        BY <2>2 DEF ListVersions, Goto
      <3> QED
        BY <3>1 DEF Dispatched, RemovesAll
    <2>3. ASSUME ~Acquire(p), ~ListVersions(p)
          PROVE  pc'[p] \notin {"list", "rows"}
      <3>1. CASE BeginWrite(p) \/ BeginRead(p)
        BY <3>1 DEF BeginWrite, BeginRead, TypeOK
      <3>2. CASE WriteBytes(p) \/ CommitRow(p) \/ PutMarker(p) \/ BytesGone(p) \/ RemoveBytes(p) \/ DeleteRows(p)
        BY <3>2 DEF WriteBytes, CommitRow, PutMarker, BytesGone, RemoveBytes, DeleteRows, Goto, TypeOK
      <3>3. CASE UndoBytes(p) \/ Tidy(p) \/ RejectBytes(p) \/ FailRow(p) \/ FailDelete(p) \/ Serve(p)
        BY <3>3 DEF UndoBytes, Tidy, RejectBytes, FailRow, FailDelete, Serve, Goto, Return, TypeOK
      <3>4. CASE DeleteVersion(p)
        BY <3>4 DEF DeleteVersion, Goto, Return, TypeOK
      <3>5. CASE SuspendedDelete(p)
        BY <3>5 DEF SuspendedDelete, DeleteNull, DeleteSlot, Goto, TypeOK
      <3>6. CASE Probe(p) \/ OpenBytes(p) \/ FallBack(p) \/ CacheVariant(p)
        BY <3>6 DEF Probe, OpenBytes, FallBack, CacheVariant, Goto, Return, TypeOK
      <3> QED
        BY <2>3, <3>1, <3>2, <3>3, <3>4, <3>5, <3>6 DEF Act, Step
    <2> QED
      BY <2>1, <2>2, <2>3
  <1> QED
    BY <1>1, <1>2, <1>3 DEF Dispatched, RemovesAll

LEMMA DispatchedHolds == Spec => []Dispatched
  <1>1. Init => Dispatched
    BY DEF Init, Dispatched
  <1>2. TypeOK /\ Dispatched /\ [Next]_vars => Dispatched'
    <2> SUFFICES ASSUME TypeOK, Dispatched, [Next]_vars
                 PROVE  Dispatched'
      OBVIOUS
    <2>1. CASE \E p \in Proc : Act(p)
      BY <2>1, DispatchedStep
    <2>2. CASE SetBucketVersioning \/ UNCHANGED vars
      BY <2>2 DEF SetBucketVersioning, vars, request, Dispatched, RemovesAll
    <2>3. CASE Crash
      BY <2>3 DEF Crash, Dispatched
    <2> QED
      BY <2>1, <2>2, <2>3 DEF Next, Act
  <1> QED
    BY <1>1, <1>2, TypeCorrect, PTL DEF Spec

\* The rows that a delete step of p removes.
LEMMA Removed ==
  ASSUME TypeOK, Dispatched, NEW p \in Proc, Act(p),
         NEW k \in Key, NEW v \in Real, Has(k, v), ~Has(k, v)'
  PROVE  /\ pc'[p] # pc[p]
         /\ op[p].key = k
         /\ op[p].target = v \/ RemovesAll(p)
  <1>0. v \in VersionId /\ v \notin {"", "null"}
    BY VersionIdAssumption DEF VersionId
  <1>8. rows[k][v].id > 0 /\ ~(rows'[k][v].id > 0)
    BY DEF Has
  <1>1. CASE DeleteRows(p)
    <2>1. pc[p] = "rows" /\ pc'[p] = "bytes" /\ DropAllRows(op[p].key)
      BY <1>1 DEF DeleteRows, Goto, TypeOK
    <2>2. op[p].key \in Key
      BY <2>1, RequestFields
    <2> QED
      BY <2>1, <2>2, DropAllRowsEffect DEF Dispatched, Has
  <1>2. ASSUME NEW target, NEW w \in Newest(op[p].key, Named(op[p].key, target)), pc[p] # "idle",
               target \in VersionId, DropRow(op[p].key, w)
        PROVE  op[p].key = k /\ v = target
    <2>1. op[p].key \in Key
      BY <1>2, RequestFields
    <2>2. w \in VersionId /\ w \in Named(op[p].key, target)
      BY <1>2, FoundVersion DEF Newest
    <2>3. \A j \in Key, x \in VersionId : j # op[p].key \/ x # w => rows'[j][x].id = rows[j][x].id
      BY <1>2, <2>1, <2>2, DropRowEffect
    <2>4. k = op[p].key /\ v = w
      BY <1>0, <1>8, <2>3
    <2> QED
      BY <1>0, <2>2, <2>4 DEF Named
  <1>3. CASE DeleteVersion(p)
    <2>1. pc[p] = "version"
      BY <1>3 DEF DeleteVersion
    <2>2. PICK w \in Newest(op[p].key, Named(op[p].key, op[p].target)) :
            DropRow(op[p].key, w) /\ Goto(p, "bytes")
      BY <1>3 DEF DeleteVersion, db, Has
    <2>3. pc'[p] = "bytes"
      BY <2>2, GotoMoves
    <2> QED
      BY <1>2, <2>1, <2>2, <2>3, RequestFields
  <1>4. CASE SuspendedDelete(p)
    <2>1. pc[p] \in {"null", "nullfile", "blank", "blankfile"}
      BY <1>4 DEF SuspendedDelete, DeleteNull, DeleteSlot
    <2>2. PICK target \in {"", "null"} :
            \E w \in Newest(op[p].key, Named(op[p].key, target)) : DropRow(op[p].key, w)
      BY <1>4 DEF SuspendedDelete, DeleteNull, DeleteSlot, db, Has
    <2>3. target \in VersionId
      BY <2>2 DEF VersionId
    <2>4. v = target
      BY <1>2, <2>1, <2>2, <2>3
    <2> QED
      BY <1>0, <2>2, <2>4
  <1>5. CASE CommitRow(p)
    <2>1. pc[p] = "save" /\ SaveRow(op[p].key, vid[p], op[p].etag, FALSE)
      BY <1>5 DEF CommitRow
    <2>2. op[p].key \in Key /\ vid[p] \in VersionId /\ op[p].etag \in Content \cup {None}
      BY <2>1, RequestFields
    <2>3. PICK m \in BOOLEAN : SaveRow(op[p].key, vid[p], op[p].etag, m)
      BY <2>1, Zenon
    <2>4. /\ rows'[op[p].key][vid[p]].id > 0
          /\ \A j \in Key, w \in VersionId : j # op[p].key \/ w # vid[p] => rows'[j][w].id = rows[j][w].id
      BY <2>2, <2>3, SaveRowEffect
    <2> QED
      BY <1>0, <1>8, <2>4
  <1>6. CASE PutMarker(p)
    <2>1. PICK w \in VersionIDForPut(op[p].mode) : SaveRow(op[p].key, w, None, TRUE)
      BY <1>6 DEF PutMarker
    <2>2. pc[p] # "idle"
      BY <1>6 DEF PutMarker
    <2>3. op[p].key \in Key /\ op[p].mode \in Modes
      BY <2>2, RequestFields
    <2>4. w \in VersionId
      BY <2>3, ChosenId
    <2>5. /\ rows'[op[p].key][w].id > 0
          /\ \A j \in Key, x \in VersionId : j # op[p].key \/ x # w => rows'[j][x].id = rows[j][x].id
      <3>1. PICK m \in BOOLEAN, c \in Content \cup {None} : SaveRow(op[p].key, w, c, m)
        BY <2>1
      <3> QED
        BY <2>3, <2>4, <3>1, SaveRowEffect
    <2> QED
      BY <1>0, <1>8, <2>5
  <1>7. ASSUME ~DeleteRows(p), ~DeleteVersion(p), ~SuspendedDelete(p), ~CommitRow(p), ~PutMarker(p)
        PROVE  rows' = rows
    <2> USE DEF db
    <2>1. CASE BeginWrite(p) \/ BeginRead(p) \/ RejectBytes(p) \/ FailRow(p) \/ FailDelete(p)
      BY <2>1 DEF BeginWrite, BeginRead, RejectBytes, FailRow, FailDelete
    <2>2. CASE Acquire(p) \/ WriteBytes(p) \/ UndoBytes(p) \/ Tidy(p) \/ ListVersions(p)
      BY <2>2 DEF Acquire, WriteBytes, UndoBytes, Tidy, ListVersions
    <2>3. CASE RemoveBytes(p) \/ BytesGone(p) \/ Probe(p) \/ OpenBytes(p)
      BY <2>3 DEF RemoveBytes, BytesGone, Probe, OpenBytes
    <2>4. CASE FallBack(p) \/ CacheVariant(p) \/ Serve(p)
      BY <2>4 DEF FallBack, CacheVariant, Serve
    <2> QED
      BY <1>7, <2>1, <2>2, <2>3, <2>4 DEF Act, Step
  <1> QED
    BY <1>1, <1>3, <1>4, <1>5, <1>6, <1>7 DEF Has

\* An object version is removed only by a request that names it, by a purge, or by a
\* delete that found the bucket without versioning.
THEOREM VersionsAreSafe == Spec => VersionsGoOnlyWhenNamed
  <1> DEFINE Safe ==
        \A k \in Key, v \in Real :
          Has(k, v) /\ ~rows[k][v].marker /\ ~Has(k, v)' =>
            \E p \in Proc : /\ pc'[p] # pc[p]
                            /\ op[p].key = k
                            /\ \/ op[p].target = v
                               \/ op[p].kind = "purge"
                               \/ op[p].kind = "delete" /\ op[p].target = "" /\ op[p].mode = ""
  <1>1. TypeOK /\ Dispatched /\ [Next]_vars => [Safe]_vars
    <2> SUFFICES ASSUME TypeOK, Dispatched, [Next]_vars
                 PROVE  Safe \/ UNCHANGED vars
      OBVIOUS
    <2>1. CASE \E p \in Proc : Act(p)
      <3>1. PICK p \in Proc : Act(p)
        BY <2>1
      <3>2. ASSUME NEW k \in Key, NEW v \in Real, Has(k, v), ~Has(k, v)'
            PROVE  pc'[p] # pc[p] /\ op[p].key = k /\ (op[p].target = v \/ RemovesAll(p))
        BY <3>1, <3>2, Removed
      <3> QED
        BY <3>2 DEF RemovesAll
    <2>2. CASE SetBucketVersioning \/ Crash
      BY <2>2 DEF SetBucketVersioning, Crash, db, Has
    <2> QED
      BY <2>1, <2>2 DEF Next, Act
  <1> QED
    BY <1>1, TypeCorrect, DispatchedHolds, PTL DEF Spec, VersionsGoOnlyWhenNamed

-----------------------------------------------------------------------------
(* Which version becomes the latest. *)

\* The rows of real versions are written once, so their ids and times agree.
WrittenInOrder ==
  \A k \in Key :
    /\ \A v \in VersionId : Has(k, v) => rows[k][v].id < nextId /\ rows[k][v].modified < clock
    /\ \A v, w \in Real : Has(k, v) /\ Has(k, w) /\ rows[k][v].id <= rows[k][w].id
                            => rows[k][v].modified <= rows[k][w].modified

\* The id and the time of row (k, v) are those it had.
SameRow(k, v) == /\ Has(k, v)
                 /\ rows'[k][v].id = rows[k][v].id
                 /\ rows'[k][v].modified = rows[k][v].modified

LEMMA RowNumbers ==
  ASSUME TypeOK
  PROVE  /\ nextId \in Nat /\ clock \in Nat /\ Real \subseteq VersionId
         /\ \A k \in Key, v \in VersionId : rows[k][v].id \in Nat /\ rows[k][v].modified \in Nat
         /\ ~(NoRow.id > 0) /\ ~NoRow.latest
  <1>1. \A k \in Key, v \in VersionId : rows[k][v] \in Row
    BY DEF TypeOK
  <1>2. \A k \in Key, v \in VersionId : rows[k][v].id \in Nat /\ rows[k][v].modified \in Nat
    BY <1>1 DEF Row
  <1>3. ~(NoRow.id > 0) /\ ~NoRow.latest
    BY DEF NoRow
  <1> QED
    BY <1>2, <1>3 DEF TypeOK, VersionId

LEMMA SaveRowTimes ==
  ASSUME TypeOK, NEW k \in Key, NEW v \in VersionId,
         NEW etag \in Content \cup {None}, NEW marker \in BOOLEAN,
         SaveRow(k, v, etag, marker)
  PROVE  /\ rows'[k][v].modified = clock /\ clock' = clock + 1
         /\ rows'[k][v].id = IF Has(k, v) THEN rows[k][v].id ELSE nextId
         /\ nextId' = IF Has(k, v) THEN nextId ELSE nextId + 1
         /\ \A j \in Key, w \in VersionId : j # k \/ w # v =>
              /\ rows'[j][w].id = rows[j][w].id
              /\ rows'[j][w].modified = rows[j][w].modified
  <1> DEFINE saved == [id |-> IF Has(k, v) THEN rows[k][v].id ELSE nextId,
                       latest |-> TRUE, marker |-> marker, etag |-> etag,
                       modified |-> clock]
  <1>1. \A w \in VersionId : rows'[k][w] = IF w = v THEN saved
                                           ELSE [rows[k][w] EXCEPT !.latest = FALSE]
    BY DEF SaveRow, TypeOK
  <1>2. \A j \in Key \ {k} : rows'[j] = rows[j]
    BY DEF SaveRow, TypeOK
  <1>3. rows'[k][v] = saved
    BY <1>1
  <1>4. saved.modified = clock /\ saved.id = IF Has(k, v) THEN rows[k][v].id ELSE nextId
    OBVIOUS
  <1>5. \A w \in VersionId \ {v} : rows'[k][w] = [rows[k][w] EXCEPT !.latest = FALSE]
    BY <1>1
  <1>6. \A w \in VersionId : rows[k][w] \in Row
    BY DEF TypeOK
  <1>7. \A w \in VersionId \ {v} : /\ rows'[k][w].id = rows[k][w].id
                                   /\ rows'[k][w].modified = rows[k][w].modified
    BY <1>5, <1>6 DEF Row
  <1>8. clock' = clock + 1 /\ nextId' = IF Has(k, v) THEN nextId ELSE nextId + 1
    BY DEF SaveRow
  <1> HIDE DEF saved
  <1> QED
    BY <1>2, <1>3, <1>4, <1>7, <1>8

\* What a deletion promotes has the highest id of what remains.
LEMMA DropRowTimes ==
  ASSUME TypeOK, NEW k \in Key, NEW v \in VersionId, DropRow(k, v)
  PROVE  /\ rows'[k][v] = NoRow
         /\ UNCHANGED <<nextId, clock>>
         /\ \A j \in Key, w \in VersionId : j # k \/ w # v =>
              /\ rows'[j][w].id = rows[j][w].id
              /\ rows'[j][w].modified = rows[j][w].modified
         /\ \A j \in Key, w \in VersionId : ~rows[j][w].latest /\ rows'[j][w].latest =>
              /\ j = k /\ w # v
              /\ \A x \in VersionId \ {v} : Has(k, x) => rows[k][x].id <= rows[k][w].id
  <1> DEFINE others == {w \in VersionId \ {v} : Has(k, w)}
  <1>0. UNCHANGED <<nextId, clock>>
    BY DEF DropRow
  <1>9. ~NoRow.latest
    BY DEF NoRow
  <1>1. CASE rows' = [rows EXCEPT ![k][v] = NoRow]
    <2>1. rows'[k][v] = NoRow
      BY <1>1 DEF TypeOK
    <2>2. \A j \in Key, w \in VersionId : j # k \/ w # v => rows'[j][w] = rows[j][w]
      BY <1>1 DEF TypeOK
    <2> QED
      BY <1>0, <1>9, <2>1, <2>2
  <1>2. CASE \E w \in Newest(k, others) :
               rows' = [rows EXCEPT ![k][v] = NoRow, ![k][w].latest = TRUE]
    <2>1. PICK w \in VersionId \ {v} :
            /\ \A x \in others : rows[k][x].id <= rows[k][w].id
            /\ rows' = [rows EXCEPT ![k][v] = NoRow, ![k][w].latest = TRUE]
      BY <1>2 DEF Newest
    <2>2. rows'[k][v] = NoRow
      BY <2>1 DEF TypeOK
    <2>3. rows'[k][w] = [rows[k][w] EXCEPT !.latest = TRUE]
      BY <2>1 DEF TypeOK
    <2>4. \A j \in Key, x \in VersionId : j # k \/ x \notin {v, w} => rows'[j][x] = rows[j][x]
      BY <2>1 DEF TypeOK
    <2>5. rows[k][w] \in Row
      BY DEF TypeOK
    <2>6. rows'[k][w].id = rows[k][w].id /\ rows'[k][w].modified = rows[k][w].modified
      BY <2>3, <2>5 DEF Row
    <2>7. \A x \in VersionId \ {v} : Has(k, x) => rows[k][x].id <= rows[k][w].id
      BY <2>1
    <2> HIDE DEF others
    <2> QED
      BY <1>0, <1>9, <2>2, <2>4, <2>6, <2>7
  <1> QED
    BY <1>1, <1>2 DEF DropRow


\* A step writes one row, new if its version is real, deletes one row, or all of a key.
LEMMA RowTimes ==
  ASSUME TypeOK, VersionInv, NEW p \in Proc, Act(p)
  PROVE  \/ UNCHANGED <<rows, nextId, clock>>
         \/ \E k \in Key, v \in VersionId, c \in Content \cup {None}, m \in BOOLEAN :
              SaveRow(k, v, c, m) /\ (v \in Real => ~Has(k, v))
         \/ \E k \in Key, v \in VersionId : DropRow(k, v)
         \/ \E k \in Key : DropAllRows(k)
  <1>1. CASE CommitRow(p)
    <2>1. pc[p] = "save" /\ SaveRow(op[p].key, vid[p], op[p].etag, FALSE)
      BY <1>1 DEF CommitRow
    <2>2. op[p].key \in Key /\ vid[p] \in VersionId /\ op[p].etag \in Content \cup {None}
      BY <2>1, RequestFields
    <2>3. vid[p] \in Real => ~Has(op[p].key, vid[p])
      BY <2>1 DEF VersionInv, BytesBeforeRow
    <2> QED
      BY <2>1, <2>2, <2>3, Zenon
  <1>2. CASE PutMarker(p)
    <2>1. PICK v \in VersionIDForPut(op[p].mode) : SaveRow(op[p].key, v, None, TRUE)
      BY <1>2 DEF PutMarker
    <2>2. pc[p] # "idle"
      BY <1>2 DEF PutMarker
    <2>3. op[p].key \in Key /\ op[p].mode \in Modes
      BY <2>2, RequestFields
    <2>4. v \in VersionId
      BY <2>3, ChosenId
    <2>5. v \in Real => v \notin used
      BY <2>1, VersionIdAssumption DEF VersionIDForPut
    <2>6. v \in Real => ~Has(op[p].key, v)
      BY <2>3, <2>5 DEF VersionInv, FreshIds
    <2>7. None \in Content \cup {None}
      OBVIOUS
    <2> QED
      BY <2>1, <2>3, <2>4, <2>6, <2>7, Zenon
  <1>3. CASE pc[p] \in Locked /\ \E v \in VersionId : Has(op[p].key, v) /\ DropRow(op[p].key, v)
    <2>1. pc[p] # "idle"
      BY <1>3 DEF Locked
    <2> QED
      BY <1>3, <2>1, RequestFields
  <1>4. CASE DeleteRows(p)
    <2>1. pc[p] # "idle" /\ DropAllRows(op[p].key)
      BY <1>4 DEF DeleteRows
    <2> QED
      BY <2>1, RequestFields
  <1>5. CASE UNCHANGED rows /\ UNCHANGED <<nextId, clock>>
    BY <1>5
  <1> QED
    BY <1>1, <1>2, <1>3, <1>4, <1>5, RowChange

\* Ids and times after a step: rows that were there keep theirs, a new row of a real
\* version has the next ones.
LEMMA TimesAfter ==
  ASSUME TypeOK, VersionInv, WrittenInOrder, NEW p \in Proc, Act(p)
  PROVE  /\ nextId <= nextId' /\ clock <= clock'
         /\ \A k \in Key, v \in VersionId : rows'[k][v].id > 0 =>
              rows'[k][v].id < nextId' /\ rows'[k][v].modified < clock'
         /\ \A k \in Key, v \in Real : rows'[k][v].id > 0 =>
              \/ SameRow(k, v)
              \/ rows'[k][v].id = nextId /\ rows'[k][v].modified = clock
  <1>0. /\ nextId \in Nat /\ clock \in Nat /\ Real \subseteq VersionId
        /\ \A k \in Key, v \in VersionId : rows[k][v].id \in Nat /\ rows[k][v].modified \in Nat
        /\ ~(NoRow.id > 0)
    BY RowNumbers
  <1>1. ASSUME \A k \in Key, v \in VersionId : rows'[k][v].id > 0 => SameRow(k, v),
               UNCHANGED <<nextId, clock>>
        PROVE  /\ nextId <= nextId' /\ clock <= clock'
               /\ \A k \in Key, v \in VersionId : rows'[k][v].id > 0 =>
                    rows'[k][v].id < nextId' /\ rows'[k][v].modified < clock'
               /\ \A k \in Key, v \in Real : rows'[k][v].id > 0 => SameRow(k, v)
    BY <1>0, <1>1 DEF WrittenInOrder, SameRow, Has
  <1>2. CASE UNCHANGED <<rows, nextId, clock>>
    BY <1>1, <1>2 DEF SameRow, Has
  <1>3. CASE \E k \in Key, v \in VersionId, c \in Content \cup {None}, m \in BOOLEAN :
               SaveRow(k, v, c, m) /\ (v \in Real => ~Has(k, v))
    <2>1. PICK k \in Key, v \in VersionId, c \in Content \cup {None}, m \in BOOLEAN :
            SaveRow(k, v, c, m) /\ (v \in Real => ~Has(k, v))
      BY <1>3
    <2>2. /\ rows'[k][v].modified = clock /\ clock' = clock + 1
          /\ rows'[k][v].id = IF Has(k, v) THEN rows[k][v].id ELSE nextId
          /\ nextId' = IF Has(k, v) THEN nextId ELSE nextId + 1
          /\ \A j \in Key, w \in VersionId : j # k \/ w # v =>
               /\ rows'[j][w].id = rows[j][w].id
               /\ rows'[j][w].modified = rows[j][w].modified
      BY <2>1, SaveRowTimes
    <2>3. nextId <= nextId' /\ clock <= clock'
      BY <1>0, <2>2
    <2>4. rows'[k][v].id < nextId' /\ rows'[k][v].modified < clock'
      BY <1>0, <2>2 DEF WrittenInOrder
    <2>5. \A j \in Key, w \in VersionId : (j # k \/ w # v) /\ rows'[j][w].id > 0 => SameRow(j, w)
      BY <2>2 DEF SameRow, Has
    <2>6. v \in Real => rows'[k][v].id = nextId /\ rows'[k][v].modified = clock
      BY <2>1, <2>2
    <2>7. \A j \in Key, w \in VersionId : SameRow(j, w) =>
            rows'[j][w].id < nextId' /\ rows'[j][w].modified < clock'
      BY <1>0, <2>2 DEF WrittenInOrder, SameRow
    <2>8. \A j \in Key, w \in VersionId : rows'[j][w].id > 0 =>
            rows'[j][w].id < nextId' /\ rows'[j][w].modified < clock'
      BY <2>4, <2>5, <2>7
    <2>9. \A j \in Key, w \in Real : rows'[j][w].id > 0 =>
            SameRow(j, w) \/ (rows'[j][w].id = nextId /\ rows'[j][w].modified = clock)
      <3> TAKE j \in Key, w \in Real
      <3>1. w \in VersionId
        BY <1>0
      <3>2. CASE j = k /\ w = v
        BY <2>6, <3>2
      <3>3. CASE j # k \/ w # v
        BY <2>5, <3>1, <3>3
      <3> QED
        BY <3>2, <3>3
    <2> QED
      BY <2>3, <2>8, <2>9
  <1>4. CASE \E k \in Key, v \in VersionId : DropRow(k, v)
    <2>1. PICK k \in Key, v \in VersionId : DropRow(k, v)
      BY <1>4
    <2>2. /\ rows'[k][v] = NoRow /\ UNCHANGED <<nextId, clock>>
          /\ \A j \in Key, w \in VersionId : j # k \/ w # v =>
               rows'[j][w].id = rows[j][w].id /\ rows'[j][w].modified = rows[j][w].modified
      BY <2>1, DropRowTimes
    <2>3. \A j \in Key, w \in VersionId : rows'[j][w].id > 0 => SameRow(j, w)
      BY <1>0, <2>2 DEF SameRow, Has
    <2> QED
      BY <1>1, <2>2, <2>3
  <1>5. CASE \E k \in Key : DropAllRows(k)
    <2>1. PICK k \in Key : DropAllRows(k)
      BY <1>5
    <2>2. \A j \in Key, w \in VersionId : rows'[j][w].id > 0 => SameRow(j, w)
      BY <1>0, <2>1, DropAllRowsEffect DEF SameRow, Has
    <2> QED
      BY <1>1, <2>1, <2>2 DEF DropAllRows
  <1> QED
    BY <1>2, <1>3, <1>4, <1>5, RowTimes

LEMMA WrittenInOrderStep ==
  ASSUME TypeOK, TypeOK', VersionInv, WrittenInOrder, NEW p \in Proc, Act(p)
  PROVE  WrittenInOrder'
  <1>0. /\ nextId \in Nat /\ clock \in Nat /\ Real \subseteq VersionId
        /\ \A k \in Key, v \in VersionId : rows[k][v].id \in Nat /\ rows[k][v].modified \in Nat
    BY RowNumbers
  <1>1. \A k \in Key, v \in VersionId : rows'[k][v].id > 0 =>
          rows'[k][v].id < nextId' /\ rows'[k][v].modified < clock'
    BY TimesAfter
  <1>2. ASSUME NEW k \in Key, NEW v \in Real, NEW w \in Real,
               rows'[k][v].id > 0, rows'[k][w].id > 0, rows'[k][v].id <= rows'[k][w].id
        PROVE  rows'[k][v].modified <= rows'[k][w].modified
    <2>1. /\ SameRow(k, v) \/ (rows'[k][v].id = nextId /\ rows'[k][v].modified = clock)
          /\ SameRow(k, w) \/ (rows'[k][w].id = nextId /\ rows'[k][w].modified = clock)
      <3>1. \A u \in Real : rows'[k][u].id > 0 =>
              SameRow(k, u) \/ (rows'[k][u].id = nextId /\ rows'[k][u].modified = clock)
        BY TimesAfter
      <3> QED
        BY <1>2, <3>1
    <2>2. \A u \in {v, w} : SameRow(k, u) => rows'[k][u].id < nextId /\ rows'[k][u].modified < clock
      BY <1>0 DEF WrittenInOrder, SameRow
    <2>3. CASE SameRow(k, v) /\ SameRow(k, w)
      BY <1>2, <2>3 DEF WrittenInOrder, SameRow
    <2>4. CASE SameRow(k, v) /\ ~SameRow(k, w)
      BY <1>0, <2>1, <2>2, <2>4 DEF SameRow
    <2>5. CASE ~SameRow(k, v) /\ SameRow(k, w)
      BY <1>0, <1>2, <2>1, <2>2, <2>5 DEF SameRow
    <2>6. CASE ~SameRow(k, v) /\ ~SameRow(k, w)
      BY <1>0, <2>1, <2>6
    <2> QED
      BY <2>3, <2>4, <2>5, <2>6
  <1> QED
    BY <1>1, <1>2 DEF WrittenInOrder, Has

\* A version that was there becomes the latest only when a deletion promotes it.
LEMMA Promoted ==
  ASSUME TypeOK, VersionInv, NEW p \in Proc, Act(p), NEW k \in Key, NEW v \in Real,
         Has(k, v), ~rows[k][v].latest, rows'[k][v].latest, rows'[k][v].id > 0,
         NEW w \in Real, rows'[k][w].id > 0
  PROVE  SameRow(k, v) /\ SameRow(k, w) /\ rows[k][w].id <= rows[k][v].id
  <1>0. Real \subseteq VersionId /\ ~(NoRow.id > 0) /\ ~NoRow.latest
    BY RowNumbers
  <1>1. CASE UNCHANGED <<rows, nextId, clock>>
    BY <1>1
  <1>2. CASE \E j \in Key, u \in VersionId, c \in Content \cup {None}, m \in BOOLEAN :
               SaveRow(j, u, c, m) /\ (u \in Real => ~Has(j, u))
    <2>1. PICK j \in Key, u \in VersionId, c \in Content \cup {None}, m \in BOOLEAN :
            SaveRow(j, u, c, m) /\ (u \in Real => ~Has(j, u))
      BY <1>2
    <2>2. j # k \/ u # v
      BY <2>1
    <2>3. /\ \A i \in Key \ {j} : rows'[i] = rows[i]
          /\ \A x \in VersionId \ {u} : ~rows'[j][x].latest
      BY <2>1, SaveRowEffect
    <2> QED
      BY <1>0, <2>2, <2>3
  <1>3. CASE \E j \in Key, u \in VersionId : DropRow(j, u)
    <2>1. PICK j \in Key, u \in VersionId : DropRow(j, u)
      BY <1>3
    <2>2. /\ rows'[j][u] = NoRow
          /\ \A i \in Key, x \in VersionId : i # j \/ x # u =>
               rows'[i][x].id = rows[i][x].id /\ rows'[i][x].modified = rows[i][x].modified
          /\ \A i \in Key, x \in VersionId : ~rows[i][x].latest /\ rows'[i][x].latest =>
               /\ i = j /\ x # u
               /\ \A y \in VersionId \ {u} : Has(j, y) => rows[j][y].id <= rows[j][x].id
      BY <2>1, DropRowTimes
    <2>3. k = j /\ v # u /\ w # u
      BY <1>0, <2>2
    <2> QED
      BY <1>0, <2>2, <2>3 DEF SameRow, Has
  <1>4. CASE \E j \in Key : DropAllRows(j)
    BY <1>0, <1>4, DropAllRowsEffect
  <1> QED
    BY <1>1, <1>2, <1>3, <1>4, RowTimes

\* PromotesNewest: when a deletion makes a version the latest, no remaining version
\* was written after it.
THEOREM NewestIsPromoted == Spec => PromotesNewest
  <1> DEFINE Promotes ==
        \A k \in Key, v \in Real :
          Has(k, v) /\ ~rows[k][v].latest /\ rows'[k][v].latest /\ Has(k, v)' =>
            \A w \in Real : Has(k, w)' => rows'[k][w].modified <= rows'[k][v].modified
  <1>1. Init => WrittenInOrder
    <2> SUFFICES ASSUME Init PROVE WrittenInOrder
      OBVIOUS
    <2>1. \A k \in Key, v \in VersionId : rows[k][v] = NoRow
      BY DEF Init
    <2>2. ~(NoRow.id > 0)
      BY DEF NoRow
    <2>3. \A v \in Real : v \in VersionId
      BY DEF VersionId
    <2> QED
      BY <2>1, <2>2, <2>3 DEF WrittenInOrder, Has
  <1>2. TypeOK /\ TypeOK' /\ VersionInv /\ WrittenInOrder /\ [Next]_vars => WrittenInOrder'
    <2> SUFFICES ASSUME TypeOK, TypeOK', VersionInv, WrittenInOrder, [Next]_vars
                 PROVE  WrittenInOrder'
      OBVIOUS
    <2>1. CASE \E p \in Proc : Act(p)
      BY <2>1, WrittenInOrderStep
    <2>2. CASE SetBucketVersioning \/ Crash \/ UNCHANGED vars
      <3>1. UNCHANGED <<rows, nextId, clock>>
        BY <2>2 DEF SetBucketVersioning, Crash, vars, db
      <3> QED
        BY <3>1 DEF WrittenInOrder, Has
    <2> QED
      BY <2>1, <2>2 DEF Next, Act
  <1>3. TypeOK /\ VersionInv /\ WrittenInOrder /\ [Next]_vars => [Promotes]_vars
    <2> SUFFICES ASSUME TypeOK, VersionInv, WrittenInOrder, [Next]_vars
                 PROVE  Promotes \/ UNCHANGED vars
      OBVIOUS
    <2>1. CASE \E p \in Proc : Act(p)
      <3>1. PICK p \in Proc : Act(p)
        BY <2>1
      <3>2. ASSUME NEW k \in Key, NEW v \in Real,
                   Has(k, v), ~rows[k][v].latest, rows'[k][v].latest, rows'[k][v].id > 0,
                   NEW w \in Real, rows'[k][w].id > 0
            PROVE  rows'[k][w].modified <= rows'[k][v].modified
        <4>1. SameRow(k, v) /\ SameRow(k, w) /\ rows[k][w].id <= rows[k][v].id
          BY <3>1, <3>2, Promoted
        <4> QED
          BY <4>1 DEF WrittenInOrder, SameRow
      <3> QED
        BY <3>2 DEF Has
    <2>2. CASE SetBucketVersioning \/ Crash
      <3>1. UNCHANGED rows
        BY <2>2 DEF SetBucketVersioning, Crash, db
      <3> QED
        BY <3>1
    <2> QED
      BY <2>1, <2>2 DEF Next, Act
  <1> QED
    BY <1>1, <1>2, <1>3, TypeCorrect, VersionInvHolds, PTL DEF Spec, PromotesNewest

-----------------------------------------------------------------------------
(* A bucket whose versioning was never touched: a key has one row, with the empty  *)
(* version id, and one file, which are replaced and removed in separate steps under *)
(* the key's mutex.                                                                *)

\* Nobody ever sets the bucket's versioning.
NeverVersioned == InitVersioning = "" /\ Settings = {}

Removing == {"version", "list", "rows", "bytes"}
OnlyVersioned == {"undo", "marker", "null", "nullfile", "blank", "blankfile"}

\* Where request p is, in such a bucket.
PlainAt(p) ==
  /\ op[p].mode = "" /\ doomed[p] \subseteq {""}
  /\ pc[p] \notin OnlyVersioned
  /\ pc[p] = "lock" => op[p].kind \in {"put", "delete", "purge"}
  /\ pc[p] \in {"write", "save"} => op[p].kind = "put"
  /\ pc[p] \in Removing => op[p].kind \in {"delete", "purge"}
  /\ pc[p] = "save" => vid[p] = ""
  /\ pc[p] = "tidy" /\ op[p].kind = "put" => vid[p] = ""

\* No row and no file of the bucket is a version's.
Plain ==
  /\ versioning = "" /\ used = {}
  /\ \A k \in Key, v \in VersionId : Has(k, v) => v = "" /\ ~rows[k][v].marker
  /\ \A k \in Key, v \in Real : vfile[k][v] = None
  /\ \A p \in Proc : PlainAt(p)

\* What a request past its own change has changed.
Progress ==
  \A p \in Proc :
    LET k == op[p].key
    IN /\ pc[p] = "save" => slot[k] = op[p].etag
       /\ pc[p] = "bytes" => ~Has(k, "")
       /\ pc[p] = "tidy" /\ op[p].kind = "put" =>
            Has(k, "") /\ rows[k][""].latest /\ rows[k][""].etag = op[p].etag /\ slot[k] = op[p].etag
       /\ pc[p] = "tidy" /\ op[p].kind # "put" => ~Has(k, "")

\* Between the file and the row of a put, or the row and the file of a delete.
Busy(k) == \E p \in Proc : pc[p] \in {"save", "bytes"} /\ op[p].key = k

NoTrouble == faults = 0 /\ crashes = 0

Match ==
  NoTrouble =>
    /\ \A k \in Key : ~Busy(k) => slot[k] = IF Has(k, "") THEN rows[k][""].etag ELSE None
    /\ \A p \in Proc : pc[p] = "rows" /\ Has(op[p].key, "") => "" \in doomed[p]
    /\ \A p \in Proc : pc[p] = "bytes" /\ doomed[p] = {} => slot[op[p].key] = None

SlotInv == Plain /\ Progress /\ Match

-----------------------------------------------------------------------------
(* What a step of a request does in such a bucket. *)

\* Nothing of the store changes.
Aside(p) ==
  /\ UNCHANGED <<rows, slot, vfile, used, versioning>>
  /\ pc'[p] \in {"idle", "lock", "write", "version", "list"} \cup Reading
  /\ pc[p] # "bytes"
  /\ pc[p] = "save" => faults' # 0

\* The file is replaced.
Replaces(p) ==
  /\ pc[p] = "write" /\ pc'[p] = "save" /\ op'[p] = op[p]
  /\ slot' = [slot EXCEPT ![op[p].key] = op[p].etag]
  /\ UNCHANGED <<rows, vfile, used, versioning>>

\* The row is saved.
Saves(p) ==
  /\ pc[p] = "save" /\ pc'[p] = "tidy" /\ op'[p] = op[p]
  /\ SaveRow(op[p].key, "", op[p].etag, FALSE)
  /\ UNCHANGED <<slot, vfile, used, versioning>>

\* The row is removed.
Drops(p) ==
  /\ pc'[p] = "bytes" /\ op'[p] = op[p]
  /\ \/ /\ pc[p] = "version" /\ Has(op[p].key, "")
        /\ DropRow(op[p].key, "")
        /\ doomed'[p] = {""}
     \/ /\ pc[p] = "rows"
        /\ DropAllRows(op[p].key)
        /\ doomed'[p] = doomed[p]
  /\ UNCHANGED <<slot, vfile, used, versioning>>

\* The rows are listed.
Lists(p) ==
  /\ pc[p] = "list" /\ pc'[p] = "rows" /\ op'[p] = op[p]
  /\ Has(op[p].key, "") => "" \in doomed'[p]
  /\ UNCHANGED <<rows, slot, vfile, used, versioning>>

\* The file is removed, or could not be.
Removes(p) ==
  /\ pc[p] = "bytes" /\ pc'[p] = "bytes" /\ op'[p] = op[p]
  /\ \/ slot' = [slot EXCEPT ![op[p].key] = None]
     \/ slot' = slot /\ faults' # 0
  /\ UNCHANGED <<rows, vfile, used, versioning>>

Finishes(p) ==
  /\ pc[p] = "bytes" /\ pc'[p] = "tidy" /\ op'[p] = op[p] /\ doomed[p] = {}
  /\ UNCHANGED <<rows, slot, vfile, used, versioning>>

LEMMA FaultCounts ==
  ASSUME TypeOK, Fault
  PROVE  faults' # 0
  BY DEF TypeOK, Fault

\* The empty id is not a real version's, and its file is the slot.
LEMMA SlotFile ==
  ASSUME NEW k, NEW c, WriteFile(k, "", c)
  PROVE  slot' = [slot EXCEPT ![k] = c] /\ vfile' = vfile
  BY VersionIdAssumption DEF WriteFile

LEMMA PlainActs ==
  ASSUME TypeOK, Plain, NEW p \in Proc, Act(p)
  PROVE  /\ PlainAt(p)'
         /\ Aside(p) \/ Replaces(p) \/ Saves(p) \/ Drops(p) \/ Lists(p) \/ Removes(p) \/ Finishes(p)
  <1> USE DEF db, disk, request, bounds
  <1>0. PlainAt(p)
    BY DEF Plain
  <1>1. CASE BeginWrite(p)
    <2>1. PICK r \in Request : /\ r.kind \in {"put", "delete", "purge"} /\ r.mode = versioning
                               /\ op' = [op EXCEPT ![p] = r]
      BY <1>1 DEF BeginWrite
    <2>2. pc[p] = "idle" /\ pc'[p] = "lock" /\ op'[p] = r /\ doomed' = doomed
      BY <1>1, <2>1 DEF BeginWrite, TypeOK
    <2>3. UNCHANGED <<rows, slot, vfile, used, versioning>>
      BY <1>1 DEF BeginWrite
    <2> QED
      BY <1>0, <2>1, <2>2, <2>3 DEF PlainAt, Plain, Aside, OnlyVersioned, Removing
  <1>2. CASE BeginRead(p)
    <2>1. pc[p] = "idle" /\ pc'[p] \in {"probe", "open"} /\ doomed' = doomed
      BY <1>2 DEF BeginRead, TypeOK
    <2>3. op'[p].mode = ""
      <3>1. PICK kind \in Kinds \cap {"get", "thumb"}, k \in Key, target \in {""} \cup {"null"} \cup used :
              \E v \in IF target = "" THEN Current(k) ELSE Newest(k, Named(k, target)) :
                /\ ~rows[k][v].marker
                /\ op' = [op EXCEPT ![p] = [kind |-> kind, key |-> k, target |-> target,
                                            etag |-> rows[k][v].etag, mode |-> ""]]
                /\ vid' = [vid EXCEPT ![p] = v]
                /\ pc' = [pc EXCEPT ![p] = IF kind = "thumb" THEN "probe" ELSE "open"]
        BY <1>2 DEF BeginRead
      <3>2. PICK v : op' = [op EXCEPT ![p] = [kind |-> kind, key |-> k, target |-> target,
                                              etag |-> rows[k][v].etag, mode |-> ""]]
        BY <3>1
      <3> QED
        BY <3>2 DEF TypeOK
    <2>2. UNCHANGED <<rows, slot, vfile, used, versioning>>
      BY <1>2 DEF BeginRead
    <2> QED
      BY <1>0, <2>1, <2>2, <2>3 DEF PlainAt, Aside, OnlyVersioned, Removing, Reading
  <1>3. CASE Acquire(p)
    <2>1. pc[p] = "lock" /\ pc'[p] = FirstStep(op[p]) /\ UNCHANGED <<op, vid, doomed, rows, slot, vfile, used, versioning>>
      BY <1>3 DEF Acquire, TypeOK
    <2>2. /\ pc'[p] \in {"write", "list", "version"}
          /\ pc'[p] = "write" => op[p].kind = "put"
          /\ pc'[p] \in Removing => op[p].kind \in {"delete", "purge"}
      BY <1>0, <2>1 DEF FirstStep, PlainAt, Removing
    <2> QED
      BY <1>0, <2>1, <2>2 DEF PlainAt, Aside, OnlyVersioned, Removing
  <1>4. CASE WriteBytes(p)
    <2>1. pc[p] = "write" /\ pc'[p] = "save" /\ UNCHANGED <<op, doomed, rows, versioning>>
      BY <1>4 DEF WriteBytes, Goto, TypeOK
    <2>2. VersionIDForPut(op[p].mode) = {""}
      BY <1>0 DEF VersionIDForPut, PlainAt
    <2>3. /\ vid'[p] = "" /\ used' = used \cup ({""} \cap Real)
          /\ WriteFile(op[p].key, "", op[p].etag)
      BY <1>4, <2>2 DEF WriteBytes, TypeOK
    <2>4. used' = used
      BY <2>3, VersionIdAssumption
    <2>5. slot' = [slot EXCEPT ![op[p].key] = op[p].etag] /\ vfile' = vfile
      BY <2>3, SlotFile
    <2> QED
      BY <1>0, <2>1, <2>3, <2>4, <2>5 DEF PlainAt, Replaces, OnlyVersioned, Removing
  <1>5. CASE CommitRow(p)
    <2>1. /\ pc[p] = "save" /\ pc'[p] = "tidy"
          /\ UNCHANGED <<op, vid, doomed, slot, vfile, used, versioning>>
          /\ SaveRow(op[p].key, vid[p], op[p].etag, FALSE)
      BY <1>5 DEF CommitRow, Goto, TypeOK
    <2>2. vid[p] = ""
      BY <1>0, <2>1 DEF PlainAt
    <2>3. SaveRow(op[p].key, "", op[p].etag, FALSE)
      BY <2>1, <2>2, Zenon
    <2> QED
      BY <1>0, <2>1, <2>2, <2>3 DEF PlainAt, Saves, OnlyVersioned, Removing
  <1>6. CASE DeleteVersion(p)
    <2>1. pc[p] = "version" /\ UNCHANGED <<slot, vfile, used, versioning>>
      BY <1>6 DEF DeleteVersion
    <2>2. CASE Return(p) /\ UNCHANGED db
      BY <1>0, <2>1, <2>2 DEF Return, TypeOK, NoRequest, PlainAt, Aside, OnlyVersioned, Removing
    <2>3. CASE \E v \in Newest(op[p].key, Named(op[p].key, op[p].target)) :
                 /\ DropRow(op[p].key, v)
                 /\ doomed' = [doomed EXCEPT ![p] = IF rows[op[p].key][v].marker THEN {} ELSE {v}]
                 /\ Goto(p, "bytes")
      <3>1. PICK v \in Newest(op[p].key, Named(op[p].key, op[p].target)) :
                 /\ DropRow(op[p].key, v)
                 /\ doomed' = [doomed EXCEPT ![p] = IF rows[op[p].key][v].marker THEN {} ELSE {v}]
                 /\ Goto(p, "bytes")
        BY <2>3
      <3>2. op[p].target \in VersionId /\ op[p].key \in Key
        BY <2>1, RequestFields
      <3>3. v \in VersionId /\ Has(op[p].key, v)
        BY <3>2, FoundVersion
      <3>4. v = "" /\ ~rows[op[p].key][v].marker
        BY <3>2, <3>3 DEF Plain
      <3>5. pc'[p] = "bytes" /\ op' = op /\ doomed'[p] = {""}
        BY <3>1, <3>4 DEF Goto, TypeOK
      <3>6. DropRow(op[p].key, "") /\ Has(op[p].key, "")
        BY <3>1, <3>3, <3>4
      <3> QED
        BY <1>0, <2>1, <3>5, <3>6 DEF PlainAt, Drops, OnlyVersioned, Removing
    <2> QED
      BY <1>6, <2>2, <2>3 DEF DeleteVersion
  <1>7. CASE ListVersions(p)
    <2>1. /\ pc[p] = "list" /\ pc'[p] = "rows" /\ UNCHANGED <<op, vid, rows, slot, vfile, used, versioning>>
          /\ doomed'[p] = {v \in VersionId : Has(op[p].key, v) /\ ~rows[op[p].key][v].marker}
      BY <1>7 DEF ListVersions, Goto, TypeOK
    <2>2. op[p].key \in Key /\ "" \in VersionId
      BY <2>1, RequestFields DEF VersionId
    <2>3. doomed'[p] \subseteq {""} /\ (Has(op[p].key, "") => "" \in doomed'[p])
      BY <2>1, <2>2 DEF Plain
    <2> QED
      BY <1>0, <2>1, <2>3 DEF PlainAt, Lists, OnlyVersioned, Removing
  <1>8. CASE DeleteRows(p)
    BY <1>0, <1>8 DEF DeleteRows, Goto, TypeOK, PlainAt, Drops, OnlyVersioned, Removing
  <1>9. CASE RemoveBytes(p)
    <2>1. PICK v \in doomed[p] :
            /\ (RemoveFile(op[p].key, v) /\ UNCHANGED bounds) \/ (Fault /\ UNCHANGED <<slot, vfile>>)
            /\ doomed' = [doomed EXCEPT ![p] = @ \ {v}]
      BY <1>9 DEF RemoveBytes
    <2>2. pc[p] = "bytes" /\ pc'[p] = "bytes" /\ UNCHANGED <<op, vid, rows, used, versioning>>
      BY <1>9 DEF RemoveBytes, Goto, TypeOK
    <2>3. v = "" /\ doomed'[p] \subseteq {""}
      BY <1>0, <2>1 DEF PlainAt, TypeOK
    <2>4. (slot' = [slot EXCEPT ![op[p].key] = None] /\ vfile' = vfile) \/ (slot' = slot /\ vfile' = vfile /\ faults' # 0)
      <3>1. CASE RemoveFile(op[p].key, v)
        <4>1. WriteFile(op[p].key, "", None)
          BY <2>3, <3>1, Zenon DEF RemoveFile
        <4> QED
          BY <4>1, SlotFile
      <3>2. CASE Fault /\ UNCHANGED <<slot, vfile>>
        BY <3>2, FaultCounts
      <3> QED
        BY <2>1, <3>1, <3>2
    <2> QED
      BY <1>0, <2>2, <2>3, <2>4 DEF PlainAt, Removes, OnlyVersioned, Removing
  <1>10. CASE BytesGone(p)
    BY <1>0, <1>10 DEF BytesGone, Goto, TypeOK, PlainAt, Finishes, OnlyVersioned, Removing
  <1>11. CASE RejectBytes(p) \/ Tidy(p) \/ Serve(p)
    <2>1. pc[p] # "save" /\ pc[p] # "bytes" /\ Return(p) /\ UNCHANGED <<rows, slot, vfile, used, versioning>>
      BY <1>11 DEF RejectBytes, Tidy, Serve
    <2> QED
      BY <1>0, <2>1 DEF Return, TypeOK, NoRequest, PlainAt, Aside, OnlyVersioned, Removing
  <1>12. CASE FailRow(p)
    <2>1. pc[p] = "save" /\ Fault /\ UNCHANGED <<rows, slot, vfile, used, versioning>>
      BY <1>12 DEF FailRow
    <2>2. vid[p] \notin Real
      BY <1>0, <2>1, VersionIdAssumption DEF PlainAt
    <2>3. Return(p)
      BY <1>12, <2>2 DEF FailRow
    <2> QED
      BY <1>0, <2>1, <2>3, FaultCounts DEF Return, TypeOK, NoRequest, PlainAt, Aside, OnlyVersioned, Removing
  <1>13. CASE FailDelete(p)
    <2>1. pc[p] # "save" /\ pc[p] # "bytes" /\ Return(p) /\ UNCHANGED <<rows, slot, vfile, used, versioning>>
      BY <1>13 DEF FailDelete
    <2> QED
      BY <1>0, <2>1 DEF Return, TypeOK, NoRequest, PlainAt, Aside, OnlyVersioned, Removing
  <1>14. CASE Probe(p) \/ OpenBytes(p)
    <2>1. pc[p] \in {"probe", "open"} /\ UNCHANGED <<rows, slot, vfile, used, versioning>>
      BY <1>14 DEF Probe, OpenBytes
    <2>2. \/ Return(p)
          \/ pc'[p] \in Reading /\ UNCHANGED <<op, doomed>>
      BY <1>14 DEF Probe, OpenBytes, Goto, TypeOK, Reading
    <2>3. CASE Return(p)
      BY <1>0, <2>1, <2>3 DEF Return, TypeOK, NoRequest, PlainAt, Aside, OnlyVersioned, Removing
    <2>4. CASE pc'[p] \in Reading /\ UNCHANGED <<op, doomed>>
      BY <1>0, <2>1, <2>4 DEF PlainAt, Aside, OnlyVersioned, Removing, Reading
    <2> QED
      BY <2>2, <2>3, <2>4
  <1>15. CASE FallBack(p)
    <2>1. /\ pc[p] \in {"open", "cache"} /\ pc'[p] = "open" /\ op'[p] = [op[p] EXCEPT !.kind = "get"]
          /\ UNCHANGED <<doomed, vid, rows, slot, vfile, used, versioning>>
      BY <1>15 DEF FallBack, TypeOK
    <2>2. op'[p].mode = op[p].mode
      BY <2>1 DEF TypeOK, Request
    <2> QED
      BY <1>0, <2>1, <2>2 DEF PlainAt, Aside, OnlyVersioned, Removing, Reading
  <1>16. CASE CacheVariant(p)
    BY <1>0, <1>16 DEF CacheVariant, Goto, TypeOK, PlainAt, Aside, OnlyVersioned, Removing, Reading
  <1>17. ~UndoBytes(p) /\ ~PutMarker(p) /\ ~SuspendedDelete(p)
    BY <1>0 DEF PlainAt, OnlyVersioned, UndoBytes, PutMarker, SuspendedDelete, DeleteNull, DeleteSlot
  <1> QED
    BY <1>1, <1>2, <1>3, <1>4, <1>5, <1>6, <1>7, <1>8, <1>9, <1>10, <1>11, <1>12, <1>13, <1>14,
       <1>15, <1>16, <1>17 DEF Act, Step

-----------------------------------------------------------------------------
(* The invariant is kept. *)

\* The rows of other keys, and all other rows of the key, stay as they are.
LEMMA SavedRow ==
  ASSUME TypeOK, NEW p \in Proc, Saves(p)
  PROVE  /\ rows'[op[p].key][""].id > 0 /\ rows'[op[p].key][""].latest
         /\ ~rows'[op[p].key][""].marker /\ rows'[op[p].key][""].etag = op[p].etag
         /\ \A k \in Key, v \in VersionId : k # op[p].key \/ v # "" =>
              rows'[k][v].id = rows[k][v].id /\ rows'[k][v].marker = rows[k][v].marker
         /\ \A k \in Key \ {op[p].key} : rows'[k] = rows[k]
  <1>1. op[p].key \in Key /\ "" \in VersionId /\ op[p].etag \in Content \cup {None}
    BY RequestFields DEF Saves, VersionId
  <1>2. PICK k \in Key, v \in VersionId, c \in Content \cup {None}, m \in BOOLEAN :
          /\ k = op[p].key /\ v = "" /\ c = op[p].etag /\ m = FALSE
          /\ SaveRow(k, v, c, m)
    BY <1>1, Zenon DEF Saves
  <1>3. SaveRow(k, v, c, m)
    BY <1>2
  <1>4. rows'[k][v].id > 0 /\ rows'[k][v].latest
    BY <1>3, SaveRowEffect
  <1>5. rows'[k][v].marker = m
    BY <1>3, SaveRowEffect
  <1>6. rows'[k][v].etag = c
    BY <1>3, SaveRowEffect
  <1>7. \A j \in Key, w \in VersionId : j # k \/ w # v => rows'[j][w].id = rows[j][w].id
    BY <1>3, SaveRowEffect
  <1>8. \A j \in Key, w \in VersionId : j # k \/ w # v => rows'[j][w].marker = rows[j][w].marker
    BY <1>3, SaveRowEffect
  <1>9. \A j \in Key \ {k} : rows'[j] = rows[j]
    BY <1>3, SaveRowEffect
  <1>10. ~rows'[k][v].marker
    BY <1>2, <1>5, Zenon
  <1> QED
    BY <1>2, <1>4, <1>6, <1>7, <1>8, <1>9, <1>10

LEMMA DroppedRow ==
  ASSUME TypeOK, NEW p \in Proc, Drops(p)
  PROVE  /\ ~(rows'[op[p].key][""].id > 0)
         /\ \A k \in Key, v \in VersionId : rows'[k][v].id > 0 =>
              rows[k][v].id > 0 /\ rows'[k][v].marker = rows[k][v].marker
         /\ \A k \in Key \ {op[p].key} : rows'[k] = rows[k]
  <1>0. ~(NoRow.id > 0)
    BY DEF NoRow
  <1>1. op[p].key \in Key /\ "" \in VersionId
    BY RequestFields DEF Drops, VersionId
  <1>2. CASE DropRow(op[p].key, "")
    <2>1. PICK j \in Key, w \in VersionId : j = op[p].key /\ w = "" /\ DropRow(j, w)
      BY <1>1, <1>2, Zenon
    <2>2. DropRow(j, w)
      BY <2>1
    <2>3. rows'[j][w] = NoRow
      BY <2>2, DropRowEffect
    <2>4. ~(rows'[j][w].id > 0)
      BY <1>0, <2>3
    <2>5. \A k \in Key, v \in VersionId : k # j \/ v # w => rows'[k][v].id = rows[k][v].id
      BY <2>2, DropRowEffect
    <2>6. \A k \in Key, v \in VersionId : k # j \/ v # w => rows'[k][v].marker = rows[k][v].marker
      BY <2>2, DropRowEffect
    <2>7. \A k \in Key \ {j} : rows'[k] = rows[k]
      BY <2>2, DropRowEffect
    <2> QED
      BY <2>1, <2>4, <2>5, <2>6, <2>7
  <1>3. CASE DropAllRows(op[p].key)
    BY <1>0, <1>1, <1>3, DropAllRowsEffect
  <1> QED
    BY <1>2, <1>3 DEF Drops

LEMMA PlainStep ==
  ASSUME TypeOK, Plain, NEW p \in Proc, Act(p)
  PROVE  Plain'
  <1>1. \A q \in Proc : PlainAt(q)'
    <2>1. ASSUME NEW q \in Proc, q # p
          PROVE  PlainAt(q)'
      <3>1. pc'[q] = pc[q] /\ op'[q] = op[q] /\ vid'[q] = vid[q] /\ doomed'[q] = doomed[q]
        BY <2>1, OthersStay DEF OnlyMoves
      <3> QED
        BY <3>1 DEF Plain, PlainAt
    <2> QED
      BY <2>1, PlainActs
  <1>2. vfile' = vfile /\ used' = used /\ versioning' = versioning
    BY PlainActs DEF Aside, Replaces, Saves, Drops, Lists, Removes, Finishes
  <1>3. ASSUME NEW k \in Key, NEW v \in VersionId, rows'[k][v].id > 0
        PROVE  v = "" /\ ~rows'[k][v].marker
    <2>1. rows[k][v].id > 0 => v = "" /\ ~rows[k][v].marker
      BY DEF Plain, Has
    <2>2. CASE Saves(p)
      BY <1>3, <2>1, <2>2, SavedRow
    <2>3. CASE Drops(p)
      BY <1>3, <2>1, <2>3, DroppedRow
    <2>4. CASE rows' = rows
      BY <1>3, <2>1, <2>4
    <2> QED
      BY <2>2, <2>3, <2>4, PlainActs DEF Aside, Replaces, Lists, Removes, Finishes
  <1> QED
    BY <1>1, <1>2, <1>3 DEF Plain, Has

\* Two requests past their mutexes have different keys.
LEMMA Apart ==
  ASSUME HoldsLock, NEW p \in Proc, NEW q \in Proc, q # p,
         pc[p] \in {"write", "save", "version", "rows", "list", "bytes"}, pc[q] \in Locked
  PROVE  op[q].key # op[p].key
  BY Alone DEF Locked

LEMMA ProgressStep ==
  ASSUME TypeOK, HoldsLock, Plain, Progress, NEW p \in Proc, Act(p)
  PROVE  Progress'
  <1>1. ASSUME NEW q \in Proc, q # p, pc[q] \in {"save", "bytes", "tidy"}
        PROVE  /\ slot'[op[q].key] = slot[op[q].key]
               /\ rows'[op[q].key] = rows[op[q].key]
    <2>1. op[q].key \in Key /\ pc[q] \in Locked
      BY <1>1, RequestFields DEF Locked
    <2>2. CASE Aside(p) \/ Lists(p) \/ Finishes(p)
      BY <2>2 DEF Aside, Lists, Finishes
    <2>3. CASE Replaces(p) \/ Removes(p)
      <3>1. op[q].key # op[p].key
        BY <1>1, <2>1, <2>3, Apart DEF Replaces, Removes
      <3> QED
        BY <2>1, <2>3, <3>1 DEF Replaces, Removes, TypeOK
    <2>4. CASE Saves(p)
      <3>1. op[q].key # op[p].key
        BY <1>1, <2>1, <2>4, Apart DEF Saves
      <3> QED
        BY <2>1, <2>4, <3>1, SavedRow DEF Saves
    <2>5. CASE Drops(p)
      <3>1. op[q].key # op[p].key
        BY <1>1, <2>1, <2>5, Apart DEF Drops
      <3> QED
        BY <2>1, <2>5, <3>1, DroppedRow DEF Drops
    <2> QED
      BY <2>2, <2>3, <2>4, <2>5, PlainActs
  <1>2. \A q \in Proc : q # p => pc'[q] = pc[q] /\ op'[q] = op[q]
    BY OthersStay DEF OnlyMoves
  <1> DEFINE Done(q) ==
        /\ pc[q] = "save" => slot[op[q].key] = op[q].etag
        /\ pc[q] = "bytes" => ~(rows[op[q].key][""].id > 0)
        /\ pc[q] = "tidy" /\ op[q].kind = "put" =>
             /\ rows[op[q].key][""].id > 0 /\ rows[op[q].key][""].latest
             /\ rows[op[q].key][""].etag = op[q].etag /\ slot[op[q].key] = op[q].etag
        /\ pc[q] = "tidy" /\ op[q].kind # "put" => ~(rows[op[q].key][""].id > 0)
  <1>3. \A q \in Proc : Done(q)
    BY DEF Progress, Has
  <1>4. ASSUME NEW q \in Proc, q # p
        PROVE  Done(q)'
    <2>1. pc'[q] = pc[q] /\ op'[q] = op[q]
      BY <1>2, <1>4
    <2>2. CASE pc[q] \in {"save", "bytes", "tidy"}
      <3>1. slot'[op[q].key] = slot[op[q].key] /\ rows'[op[q].key] = rows[op[q].key]
        BY <1>1, <1>4, <2>2
      <3> QED
        BY <1>3, <2>1, <3>1
    <2>3. CASE pc[q] \notin {"save", "bytes", "tidy"}
      BY <2>1, <2>3
    <2> QED
      BY <2>2, <2>3
  <1>5. Done(p)'
    <2>1. CASE Aside(p)
      BY <2>1 DEF Aside, Reading
    <2>2. CASE Replaces(p)
      <3>1. op[p].key \in Key
        BY <2>2, RequestFields DEF Replaces
      <3> QED
        BY <2>2, <3>1 DEF Replaces, TypeOK
    <2>3. CASE Saves(p)
      <3>1. op[p].kind = "put" /\ slot[op[p].key] = op[p].etag
        BY <1>3, <2>3 DEF Saves, Plain, PlainAt
      <3> QED
        BY <2>3, <3>1, SavedRow DEF Saves
    <2>4. CASE Drops(p)
      BY <2>4, DroppedRow DEF Drops
    <2>5. CASE Lists(p)
      BY <2>5 DEF Lists
    <2>6. CASE Removes(p)
      BY <1>3, <2>6 DEF Removes
    <2>7. CASE Finishes(p)
      <3>1. op[p].kind # "put"
        BY <2>7 DEF Finishes, Plain, PlainAt, Removing
      <3> QED
        BY <1>3, <2>7, <3>1 DEF Finishes
    <2> QED
      BY <2>1, <2>2, <2>3, <2>4, <2>5, <2>6, <2>7, PlainActs
  <1>6. \A q \in Proc : Done(q)'
    BY <1>4, <1>5
  <1> QED
    BY <1>6 DEF Progress, Has

LEMMA TroubleStays ==
  ASSUME TypeOK, NEW p \in Proc, Act(p), NoTrouble'
  PROVE  NoTrouble
  <1> USE DEF bounds
  <1>1. UNCHANGED <<faults, crashes>> \/ Fault
    <2>1. CASE BeginWrite(p) \/ BeginRead(p) \/ RejectBytes(p) \/ FailRow(p) \/ FailDelete(p)
      BY <2>1 DEF BeginWrite, BeginRead, RejectBytes, FailRow, FailDelete
    <2>2. CASE Acquire(p) \/ WriteBytes(p) \/ CommitRow(p) \/ UndoBytes(p) \/ Tidy(p) \/ PutMarker(p)
      BY <2>2 DEF Acquire, WriteBytes, CommitRow, UndoBytes, Tidy, PutMarker
    <2>3. CASE DeleteVersion(p) \/ SuspendedDelete(p)
      BY <2>3 DEF DeleteVersion, SuspendedDelete, DeleteNull, DeleteSlot
    <2>4. CASE ListVersions(p) \/ DeleteRows(p) \/ RemoveBytes(p) \/ BytesGone(p)
      BY <2>4 DEF ListVersions, DeleteRows, RemoveBytes, BytesGone
    <2>5. CASE Probe(p) \/ OpenBytes(p) \/ FallBack(p) \/ CacheVariant(p) \/ Serve(p)
      BY <2>5 DEF Probe, OpenBytes, FallBack, CacheVariant, Serve
    <2> QED
      BY <2>1, <2>2, <2>3, <2>4, <2>5 DEF Act, Step
  <1>2. ~Fault
    BY FaultCounts DEF NoTrouble
  <1> QED
    BY <1>1, <1>2 DEF NoTrouble

LEMMA MatchStep ==
  ASSUME TypeOK, HoldsLock, Plain, Progress, Match, NEW p \in Proc, Act(p)
  PROVE  Match'
  <1> SUFFICES ASSUME NoTrouble'
               PROVE  /\ \A k \in Key : ~Busy(k)' => slot'[k] = IF Has(k, "")' THEN rows'[k][""].etag ELSE None
                      /\ \A q \in Proc : pc'[q] = "rows" /\ Has(op[q].key, "")' => "" \in doomed'[q]
                      /\ \A q \in Proc : pc'[q] = "bytes" /\ doomed'[q] = {} => slot'[op'[q].key] = None
    BY DEF Match
  <1>0. faults' = 0
    BY DEF NoTrouble
  <1> DEFINE key == op[p].key
  <1>1. /\ \A k \in Key : ~Busy(k) => slot[k] = IF Has(k, "") THEN rows[k][""].etag ELSE None
        /\ \A q \in Proc : pc[q] = "rows" /\ Has(op[q].key, "") => "" \in doomed[q]
        /\ \A q \in Proc : pc[q] = "bytes" /\ doomed[q] = {} => slot[op[q].key] = None
    BY TroubleStays DEF Match
  <1>2. \A q \in Proc : q # p => pc'[q] = pc[q] /\ op'[q] = op[q] /\ doomed'[q] = doomed[q]
    BY OthersStay DEF OnlyMoves
  <1>3. ASSUME pc[p] \in {"write", "save", "version", "rows", "list", "bytes"}
        PROVE  /\ key \in Key
               /\ \A q \in Proc : q # p /\ pc[q] \in {"rows", "save", "bytes"} => op[q].key \in Key \ {key}
    <2>1. \A q \in Proc : pc[q] \in {"rows", "save", "bytes"} => op[q].key \in Key /\ pc[q] \in Locked
      BY RequestFields DEF Locked
    <2> QED
      BY <1>3, <2>1, Apart, RequestFields
  <1>4. ASSUME NEW k \in Key, ~Busy(k)'
        PROVE  slot'[k] = IF rows'[k][""].id > 0 THEN rows'[k][""].etag ELSE None
    <2>1. \A q \in Proc : q # p => ~(pc[q] \in {"save", "bytes"} /\ op[q].key = k)
      BY <1>2, <1>4 DEF Busy
    <2>2. ASSUME ~(pc[p] \in {"save", "bytes"} /\ key = k)
          PROVE  slot[k] = IF rows[k][""].id > 0 THEN rows[k][""].etag ELSE None
      BY <1>1, <2>1, <2>2 DEF Busy, Has
    <2>3. CASE Aside(p) \/ Lists(p)
      BY <1>0, <2>2, <2>3 DEF Aside, Lists
    <2>4. CASE Replaces(p) \/ Drops(p) \/ Removes(p)
      <3>1. key # k /\ pc[p] \in {"write", "version", "rows", "bytes"}
        BY <1>4, <2>4 DEF Busy, Replaces, Drops, Removes
      <3>2. slot'[k] = slot[k]
        BY <2>4, <3>1 DEF Replaces, Drops, Removes, TypeOK
      <3>3. rows'[k] = rows[k]
        BY <2>4, <3>1, DroppedRow DEF Replaces, Removes
      <3> QED
        BY <2>2, <3>1, <3>2, <3>3
    <2>5. CASE Saves(p)
      <3>1. CASE key = k
        <4>1. slot'[k] = op[p].etag
          BY <2>5, <3>1 DEF Saves, Progress
        <4>2. rows'[k][""].id > 0 /\ rows'[k][""].etag = op[p].etag
          BY <2>5, <3>1, SavedRow
        <4> QED
          BY <4>1, <4>2
      <3>2. CASE key # k
        <4>1. slot'[k] = slot[k] /\ rows'[k] = rows[k]
          BY <2>5, <3>2, SavedRow DEF Saves
        <4> QED
          BY <2>2, <3>2, <4>1
      <3> QED
        BY <3>1, <3>2
    <2>6. CASE Finishes(p)
      <3>1. UNCHANGED <<rows, slot>> /\ slot[key] = None /\ ~(rows[key][""].id > 0)
        BY <1>1, <2>6 DEF Finishes, Progress, Has
      <3> QED
        BY <2>2, <3>1
    <2> QED
      BY <2>3, <2>4, <2>5, <2>6, PlainActs
  <1>5. ASSUME NEW q \in Proc, pc'[q] = "rows", rows'[op'[q].key][""].id > 0
        PROVE  "" \in doomed'[q]
    <2>1. CASE q = p
      <3>1. Lists(p)
        BY <1>5, <2>1, PlainActs DEF Aside, Replaces, Saves, Drops, Removes, Finishes, Reading
      <3> QED
        BY <1>5, <2>1, <3>1 DEF Lists, Has
    <2>2. CASE q # p
      <3>1. pc[q] = "rows" /\ op'[q] = op[q] /\ doomed'[q] = doomed[q]
        BY <1>2, <1>5, <2>2
      <3>2. CASE rows' = rows
        BY <1>1, <1>5, <3>1, <3>2 DEF Has
      <3>3. CASE Saves(p) \/ Drops(p)
        <4>1. op[q].key \in Key \ {key}
          BY <1>3, <2>2, <3>1, <3>3 DEF Saves, Drops
        <4>2. rows'[op[q].key] = rows[op[q].key]
          BY <3>3, <4>1, SavedRow, DroppedRow
        <4> QED
          BY <1>1, <1>5, <3>1, <4>2 DEF Has
      <3> QED
        BY <3>2, <3>3, PlainActs DEF Aside, Replaces, Lists, Removes, Finishes
    <2> QED
      BY <2>1, <2>2
  <1>6. ASSUME NEW q \in Proc, pc'[q] = "bytes", doomed'[q] = {}
        PROVE  slot'[op'[q].key] = None
    <2>1. CASE q = p
      <3>1. CASE Drops(p)
        <4>1. pc[p] = "rows" /\ doomed[p] = {} /\ UNCHANGED slot /\ op'[p] = op[p]
          BY <1>6, <2>1, <3>1 DEF Drops
        <4>2. key \in Key /\ ~Busy(key)
          BY <1>3, <4>1 DEF Busy
        <4>3. ~Has(key, "")
          BY <1>1, <4>1
        <4> QED
          BY <1>1, <2>1, <4>1, <4>2, <4>3
      <3>2. CASE Removes(p)
        <4>1. slot' = [slot EXCEPT ![key] = None] /\ op'[p] = op[p]
          BY <1>0, <3>2 DEF Removes
        <4>2. key \in Key
          BY <1>3, <3>2 DEF Removes
        <4> QED
          BY <2>1, <4>1, <4>2 DEF TypeOK
      <3> QED
        BY <1>6, <2>1, <3>1, <3>2, PlainActs DEF Aside, Replaces, Saves, Lists, Finishes, Reading
    <2>2. CASE q # p
      <3>1. pc[q] = "bytes" /\ op'[q] = op[q] /\ doomed[q] = {}
        BY <1>2, <1>6, <2>2
      <3>2. CASE slot' = slot
        BY <1>1, <3>1, <3>2
      <3>3. CASE Replaces(p) \/ Removes(p)
        <4>1. op[q].key \in Key \ {key}
          BY <1>3, <2>2, <3>1, <3>3 DEF Replaces, Removes
        <4>2. slot'[op[q].key] = slot[op[q].key]
          BY <3>3, <4>1 DEF Replaces, Removes, TypeOK
        <4> QED
          BY <1>1, <3>1, <4>2
      <3> QED
        BY <3>2, <3>3, PlainActs DEF Aside, Saves, Drops, Lists, Finishes
    <2> QED
      BY <2>1, <2>2
  <1> QED
    BY <1>4, <1>5, <1>6 DEF Has

-----------------------------------------------------------------------------
(* What follows. *)

LEMMA SlotInvHolds ==
  ASSUME NeverVersioned
  PROVE  Spec => []SlotInv
  <1>1. Init => SlotInv
    <2> SUFFICES ASSUME Init
                 PROVE  SlotInv
      OBVIOUS
    <2>1. \A p \in Proc : pc[p] = "idle" /\ op[p] = NoRequest /\ doomed[p] = {}
      BY DEF Init
    <2>2. \A k \in Key, v \in VersionId : ~Has(k, v)
      <3>1. ~(NoRow.id > 0)
        BY DEF NoRow
      <3>2. \A k \in Key, v \in VersionId : rows[k][v] = NoRow
        BY DEF Init
      <3> QED
        BY <3>1, <3>2 DEF Has
    <2>3. Plain
      <3>1. versioning = "" /\ used = {} /\ \A k \in Key, v \in Real : vfile[k][v] = None
        BY DEF Init, NeverVersioned
      <3>2. NoRequest.mode = ""
        BY DEF NoRequest
      <3>3. \A p \in Proc : PlainAt(p)
        BY <2>1, <3>2 DEF PlainAt, OnlyVersioned, Removing
      <3> QED
        BY <2>2, <3>1, <3>3 DEF Plain
    <2>4. Progress
      BY <2>1 DEF Progress
    <2>5. Match
      BY <2>1, <2>2 DEF Init, Match, VersionId
    <2> QED
      BY <2>3, <2>4, <2>5 DEF SlotInv
  <1>2. TypeOK /\ HoldsLock /\ SlotInv /\ [Next]_vars => SlotInv'
    <2> SUFFICES ASSUME TypeOK, HoldsLock, SlotInv, [Next]_vars
                 PROVE  SlotInv'
      OBVIOUS
    <2>1. CASE \E p \in Proc : Act(p)
      BY <2>1, PlainStep, ProgressStep, MatchStep DEF SlotInv
    <2>2. CASE UNCHANGED vars
      BY <2>2 DEF vars, db, disk, request, bounds, SlotInv, Plain, PlainAt, Progress, Match, Busy, NoTrouble, Has
    <2>3. CASE SetBucketVersioning
      BY <2>3 DEF SetBucketVersioning, NeverVersioned
    <2>4. CASE Crash
      <3>1. /\ \A p \in Proc : pc'[p] = "idle" /\ op'[p] = NoRequest /\ doomed'[p] = {}
            /\ UNCHANGED <<versioning, rows, vfile, used>>
        BY <2>4 DEF Crash, db, disk
      <3>2. crashes' # 0
        <4>1. crashes \in Nat
          BY DEF TypeOK
        <4>2. crashes' = crashes + 1
          BY <2>4 DEF Crash
        <4> QED
          BY <4>1, <4>2
      <3>3. Plain'
        <4>1. NoRequest.mode = ""
          BY DEF NoRequest
        <4>2. \A p \in Proc : PlainAt(p)'
          BY <3>1, <4>1 DEF PlainAt, OnlyVersioned, Removing
        <4> QED
          BY <3>1, <4>2 DEF SlotInv, Plain, Has
      <3>4. Progress' /\ Match'
        BY <3>1, <3>2, Zenon DEF Progress, Match, NoTrouble
      <3> QED
        BY <3>3, <3>4 DEF SlotInv
    <2> QED
      BY <2>1, <2>2, <2>3, <2>4 DEF Next, Act
  <1>3. VersionInv => HoldsLock
    BY DEF VersionInv
  <1> QED
    BY <1>1, <1>2, <1>3, TypeCorrect, VersionInvHolds, PTL DEF Spec

\* Of a key that nobody works on, the slot is what the row says.
LEMMA SlotOfQuiet ==
  ASSUME SlotInv, NoTrouble, NEW k \in Key, Quiet(k)
  PROVE  slot[k] = IF Has(k, "") THEN rows[k][""].etag ELSE None
  <1>1. ~Busy(k)
    BY DEF Busy, Quiet, Working, Locked
  <1> QED
    BY <1>1 DEF SlotInv, Match

\* SlotRowsHaveBytes: in a bucket that was never versioned, while nothing fails, the row of
\* a key that nobody works on describes the key's file.
THEOREM RowsMatchSlots ==
  ASSUME NeverVersioned
  PROVE  Spec => []SlotRowsHaveBytes
  <1>1. SlotInv => SlotRowsHaveBytes
    <2> SUFFICES ASSUME SlotInv, NoTrouble, NEW k \in Key, NEW v \in {"", "null"},
                        Quiet(k), Has(k, v)
                 PROVE  slot[k] = rows[k][v].etag
      BY DEF SlotRowsHaveBytes, NoTrouble
    <2>1. v = ""
      BY DEF SlotInv, Plain, VersionId
    <2> QED
      BY <2>1, SlotOfQuiet
  <1> QED
    BY <1>1, SlotInvHolds, PTL

\* NoOrphanBytes: in such a bucket, while nothing fails, a key that nobody works on has a
\* file only if it has a row.
THEOREM SlotsHaveRows ==
  ASSUME NeverVersioned
  PROVE  Spec => []NoOrphanBytes
  <1>1. SlotInv => NoOrphanBytes
    <2> SUFFICES ASSUME SlotInv, NoTrouble, NEW k \in Key, Quiet(k),
                        NEW v \in VersionId, BytesOf(k, v) # None
                 PROVE  \E w \in IF v \in Real THEN {v} ELSE {"", "null"} :
                          Has(k, w) /\ ~rows[k][w].marker
      BY DEF NoOrphanBytes, NoTrouble
    <2>1. v \notin Real
      BY DEF BytesOf, SlotInv, Plain
    <2>2. slot[k] # None
      BY <2>1 DEF BytesOf
    <2>3. Has(k, "")
      BY <2>2, SlotOfQuiet
    <2>4. ~rows[k][""].marker
      BY <2>3 DEF SlotInv, Plain, VersionId
    <2> QED
      BY <2>1, <2>3, <2>4
  <1> QED
    BY <1>1, SlotInvHolds, PTL

\* AcknowledgedWritesTookEffect: in such a bucket, whatever fails and whenever the process
\* dies, a put that is about to succeed has its row and bytes in place, and a delete has
\* removed the object.
THEOREM WritesTookEffect ==
  ASSUME NeverVersioned
  PROVE  Spec => []AcknowledgedWritesTookEffect
  <1>1. TypeOK /\ SlotInv => AcknowledgedWritesTookEffect
    <2> SUFFICES ASSUME TypeOK, SlotInv, NEW p \in Proc, pc[p] = "tidy"
                 PROVE  /\ op[p].kind = "put" =>
                             /\ Current(op[p].key) = {vid[p]}
                             /\ rows[op[p].key][vid[p]].etag = op[p].etag
                             /\ BytesOf(op[p].key, vid[p]) = op[p].etag
                        /\ op[p].kind = "delete" /\ op[p].target = "" =>
                             \A v \in Current(op[p].key) : rows[op[p].key][v].marker
      BY DEF AcknowledgedWritesTookEffect
    <2> DEFINE k == op[p].key
    <2>1. k \in Key /\ "" \in VersionId
      BY RequestFields DEF VersionId
    <2>2. \A v \in VersionId : Has(k, v) => v = ""
      BY <2>1 DEF SlotInv, Plain
    <2>3. CASE op[p].kind = "put"
      <3>1. vid[p] = ""
        BY <2>3 DEF SlotInv, Plain, PlainAt
      <3>2. Has(k, "") /\ rows[k][""].latest /\ rows[k][""].etag = op[p].etag /\ slot[k] = op[p].etag
        BY <2>3 DEF SlotInv, Progress
      <3>3. \A v \in VersionId : rows[k][v].id \in Nat
        <4>1. \A v \in VersionId : rows[k][v] \in Row
          BY <2>1 DEF TypeOK
        <4> QED
          BY <4>1 DEF Row
      <3>4. PICK e \in VersionId : e = ""
        BY <2>1
      <3>5. e \in Current(k)
        <4>1. Has(k, e) /\ rows[k][e].latest
          BY <3>2, <3>4
        <4>2. ASSUME NEW v \in VersionId
              PROVE  rows[k][v].id <= rows[k][e].id
          <5>1. rows[k][v].id \in Nat /\ rows[k][e].id \in Nat
            BY <3>3
          <5>2. v # e => ~(rows[k][v].id > 0)
            BY <2>2, <3>4 DEF Has
          <5> QED
            BY <5>1, <5>2
        <4> QED
          BY <4>1, <4>2 DEF Current, Newest
      <3>6. Current(k) = {""}
        BY <2>2, <3>4, <3>5 DEF Current, Newest
      <3>7. BytesOf(k, "") = slot[k]
        BY VersionIdAssumption DEF BytesOf
      <3> QED
        BY <2>3, <3>1, <3>2, <3>6, <3>7
    <2>4. CASE op[p].kind # "put"
      <3>1. ~Has(k, "")
        BY <2>4 DEF SlotInv, Progress
      <3>2. Current(k) = {}
        BY <2>2, <3>1 DEF Current, Newest
      <3> QED
        BY <2>4, <3>2
    <2> QED
      BY <2>3, <2>4
  <1> QED
    BY <1>1, TypeCorrect, SlotInvHolds, PTL
=============================================================================
