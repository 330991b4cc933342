-------------------------- MODULE Lifecycle_proofs --------------------------
(***************************************************************************)
(* OnlyExpirationIsVisible, for every set of keys, contents, version ids,   *)
(* requests and rules and every bound, when clients do not delete versions  *)
(* by their ids.                                                            *)
(*                                                                          *)
(* What a pass has listed, or is about to delete, is Harmless: its row, if   *)
(* it is still there, is hidden by another of its key or is a marker that   *)
(* hides nothing, and nobody is about to make it the latest.  So dropping it *)
(* promotes no row.                                                         *)
(***************************************************************************)
EXTENDS Lifecycle, ObjectStore_proofs

\* Every row is a version's.
OnlyVersions == \A k \in Key, v \in {"", "null"} : ~Has(k, v)

\* Where a request can be in an Enabled bucket.
InEnabled(p) ==
  pc[p] # "idle" =>
    /\ op[p].mode = "Enabled"
    /\ op[p].kind \in {"put", "delete", "purge"}
    /\ op[p].target # "" => p = Cleaner
    /\ pc[p] \notin {"null", "nullfile", "blank", "blankfile"} \cup Reading
    /\ pc[p] = "save" => vid[p] \in Real
    /\ pc[p] = "version" => op[p].target # ""

\* Where the cleaner's delete can be: the first part deletes as a client would, the
\* others name a version.
CleanerAt ==
  pc[Cleaner] # "idle" =>
    /\ part > 0 /\ op[Cleaner].kind = "delete"
    /\ part = 1 => op[Cleaner].target = "" /\ pc[Cleaner] \in {"lock", "marker", "tidy"}
    /\ part # 1 => /\ op[Cleaner].target \in Real
                   /\ pc[Cleaner] \in {"lock", "version", "bytes", "tidy"}

\* No plain read shows the row, and dropping it promotes no other.
Unseen(k, v) ==
  \/ ~rows[k][v].latest
  \/ rows[k][v].marker /\ \A w \in VersionId \ {v} : ~Has(k, w)

\* The row has been written, nobody is about to write it again, and it is unseen or gone.
Harmless(k, v) ==
  /\ k \in Key /\ v \in used
  /\ \A p \in Proc : pc[p] = "save" => op[p].key # k \/ vid[p] # v
  /\ Has(k, v) => Unseen(k, v)

TargetIsHarmless == Harmless(op[Cleaner].key, op[Cleaner].target)

DueAreHarmless ==
  part > 1 =>
    /\ \A b \in batch : Harmless(b.key, b.version)
    /\ pc[Cleaner] \in {"lock", "version"} => TargetIsHarmless

EnabledInv ==
  /\ OnlyVersions
  /\ \A p \in Proc : InEnabled(p)
  /\ CleanerAt
  /\ DueAreHarmless

\* The store's own invariants that the pass relies on.
StoreInv == TypeOK /\ HoldsLock /\ FreshIds /\ BytesBeforeRow

PassTypes ==
  /\ part \in 0 .. 3
  /\ \A b \in batch : b.key \in Key /\ b.version \in VersionId

PassInv ==
  /\ StoreInv
  /\ PassTypes
  /\ versioning = "Enabled" => EnabledInv

-----------------------------------------------------------------------------
(* The cleaner's own steps, which no client takes, keep the store's invariants. *)

LEMMA ActKeepsStore ==
  ASSUME StoreInv, NEW p \in Proc, Act(p)
  PROVE  StoreInv'
  <1>1. TypeOK'
    BY TypeStep DEF StoreInv, Next, Act
  <1> QED
    BY <1>1, HoldsLockStep, FreshIdsStep, BytesBeforeRowStep DEF StoreInv

LEMMA RefusedKeepsStore ==
  ASSUME StoreInv, Refused
  PROVE  StoreInv' /\ OnlyMoves(Cleaner) /\ pc'[Cleaner] = "idle" /\ UNCHANGED <<rows, vfile, used>>
  <1> USE CleanerAssumption
  <1>1. /\ Return(Cleaner) /\ UNCHANGED <<versioning, rows, nextId, clock, slot, vfile, variants, used>>
        /\ UNCHANGED <<requests, faults, crashes>>
    BY DEF Refused, db, disk, bounds
  <1>2. TypeOK /\ OnlyMoves(Cleaner) /\ pc'[Cleaner] = "idle"
    BY <1>1, ReturnMoves DEF StoreInv
  <1>3. TypeOK'
    BY <1>1, <1>2, ReturnType DEF TypeOK
  <1>4. HoldsLock'
    <2> SUFFICES ASSUME NEW q \in Proc, pc'[q] \in Locked PROVE lock'[StripeOf[op'[q].key]] = q
      BY DEF HoldsLock
    <2>1. q # Cleaner /\ pc[q] \in Locked /\ op'[q] = op[q]
      BY <1>2 DEF OnlyMoves, Locked
    <2>2. lock[StripeOf[op[q].key]] = q /\ StripeOf[op[q].key] \in Stripe
      BY <1>2, <2>1, RequestFields, StripeAssumption DEF StoreInv, HoldsLock, Locked
    <2> QED
      BY <1>2, <2>1, <2>2 DEF OnlyMoves
  <1>5. FreshIds'
    BY <1>1 DEF StoreInv, FreshIds, Has
  <1>6. BytesBeforeRow'
    BY <1>1, <1>2 DEF StoreInv, BytesBeforeRow, OnlyMoves, Has
  <1> QED
    BY <1>1, <1>2, <1>3, <1>4, <1>5, <1>6 DEF StoreInv

\* The cleaner asks for a delete.
Asks(b) ==
  /\ pc[Cleaner] = "idle" /\ b \in batch /\ part > 0
  /\ op' = [op EXCEPT ![Cleaner] = [kind |-> "delete", key |-> b.key, target |-> Target(b),
                                    etag |-> None, mode |-> versioning]]
  /\ pc' = [pc EXCEPT ![Cleaner] = "lock"]
  /\ batch' = batch \ {b}
  /\ UNCHANGED <<versioning, rows, nextId, clock, slot, vfile, variants, used, lock, vid, doomed, body,
                 requests, faults, crashes, part>>

LEMMA DeleteNextAsks ==
  ASSUME DeleteNext
  PROVE  \E b \in batch : Asks(b)
  BY DEF DeleteNext, Asks, db, disk, bounds

LEMMA AsksKeepsStore ==
  ASSUME StoreInv, PassTypes, NEW b \in batch, Asks(b)
  PROVE  /\ StoreInv'
         /\ \A q \in Proc \ {Cleaner} : pc'[q] = pc[q] /\ op'[q] = op[q]
         /\ pc'[Cleaner] = "lock" /\ op'[Cleaner].kind = "delete" /\ op'[Cleaner].mode = versioning
         /\ op'[Cleaner].key = b.key /\ op'[Cleaner].target = Target(b)
  <1> USE CleanerAssumption
  <1>1. b.key \in Key /\ b.version \in VersionId /\ Target(b) \in VersionId
    BY DEF PassTypes, Target, VersionId
  <1> DEFINE r == [kind |-> "delete", key |-> b.key, target |-> Target(b),
                   etag |-> None, mode |-> versioning]
  <1>2. r \in Request /\ r.kind = "delete" /\ r.mode = versioning /\ r.key = b.key /\ r.target = Target(b)
    BY <1>1 DEF Request, AllKinds, StoreInv, TypeOK
  <1>3. op' = [op EXCEPT ![Cleaner] = r] /\ pc' = [pc EXCEPT ![Cleaner] = "lock"]
    BY DEF Asks
  <1> HIDE DEF r
  <1>4. /\ op'[Cleaner] = r /\ pc'[Cleaner] = "lock"
        /\ \A q \in Proc \ {Cleaner} : pc'[q] = pc[q] /\ op'[q] = op[q]
    BY <1>3 DEF StoreInv, TypeOK
  <1>5. TypeOK'
    <2>1. op' \in [Proc -> Request] /\ pc' \in [Proc -> Where]
      BY <1>2, <1>3 DEF StoreInv, TypeOK, Where
    <2>2. \A q \in Proc : pc'[q] # "idle" => op'[q].key \in Key
      BY <1>1, <1>2, <1>4 DEF StoreInv, TypeOK
    <2> QED
      BY <2>1, <2>2 DEF StoreInv, TypeOK, Asks
  <1>6. HoldsLock'
    <2>1. lock' = lock
      BY DEF Asks
    <2> QED
      BY <1>4, <2>1 DEF StoreInv, HoldsLock, Locked
  <1>7. FreshIds' /\ BytesBeforeRow'
    <2>1. UNCHANGED <<rows, used, vid, vfile>>
      BY DEF Asks
    <2> QED
      BY <1>4, <2>1 DEF StoreInv, FreshIds, BytesBeforeRow, Has
  <1> QED
    BY <1>2, <1>4, <1>5, <1>6, <1>7 DEF StoreInv

-----------------------------------------------------------------------------
(* What a request does in an Enabled bucket. *)

\* Reads are left to ObjectStore, and clients delete no version by its id.
Allowed(p) ==
  \/ Step(p) \/ RejectBytes(p) \/ FailRow(p) \/ FailDelete(p)
  \/ BeginWrite(p) /\ p # Cleaner /\ op'[p].target = ""

LEMMA AllowedActs ==
  ASSUME NEW p, Allowed(p)
  PROVE  Act(p)
  BY DEF Allowed, Act

LEMMA AllowedKeepsMode ==
  ASSUME NEW p, Allowed(p)
  PROVE  versioning' = versioning
  <1>1. CASE BeginWrite(p) \/ Acquire(p) \/ WriteBytes(p) \/ CommitRow(p) \/ UndoBytes(p) \/ Tidy(p)
    BY <1>1 DEF BeginWrite, Acquire, WriteBytes, CommitRow, UndoBytes, Tidy
  <1>2. CASE PutMarker(p) \/ DeleteVersion(p) \/ SuspendedDelete(p) \/ ListVersions(p) \/ DeleteRows(p)
    BY <1>2 DEF PutMarker, DeleteVersion, SuspendedDelete, DeleteNull, DeleteSlot, ListVersions, DeleteRows
  <1>3. CASE RemoveBytes(p) \/ BytesGone(p) \/ RejectBytes(p) \/ FailRow(p) \/ FailDelete(p)
    BY <1>3 DEF RemoveBytes, BytesGone, RejectBytes, FailRow, FailDelete
  <1>4. CASE Probe(p) \/ OpenBytes(p) \/ FallBack(p) \/ CacheVariant(p) \/ Serve(p)
    BY <1>4 DEF Probe, OpenBytes, FallBack, CacheVariant, Serve
  <1> QED
    BY <1>1, <1>2, <1>3, <1>4 DEF Allowed, Step

LEMMA NoNullDelete ==
  ASSUME NEW p \in Proc, InEnabled(p)
  PROVE  /\ ~SuspendedDelete(p) /\ ~Probe(p) /\ ~OpenBytes(p) /\ ~FallBack(p)
         /\ ~CacheVariant(p) /\ ~Serve(p)
  BY DEF InEnabled, Reading, SuspendedDelete, DeleteNull, DeleteSlot, Probe, OpenBytes, FallBack,
         CacheVariant, Serve

LEMMA EnabledMoves ==
  ASSUME TypeOK, versioning = "Enabled", NEW p \in Proc, InEnabled(p), Allowed(p)
  PROVE  InEnabled(p)'
  <1> SUFFICES ASSUME pc'[p] # "idle"
               PROVE  /\ op'[p].mode = "Enabled"
                      /\ op'[p].kind \in {"put", "delete", "purge"}
                      /\ op'[p].target # "" => p = Cleaner
                      /\ pc'[p] \notin {"null", "nullfile", "blank", "blankfile"} \cup Reading
                      /\ pc'[p] = "save" => vid'[p] \in Real
                      /\ pc'[p] = "version" => op'[p].target # ""
    BY DEF InEnabled
  <1>1. CASE BeginWrite(p) /\ p # Cleaner /\ op'[p].target = ""
    <2>1. PICK r \in Request : /\ r.kind \in {"put", "delete", "purge"} /\ r.mode = versioning
                               /\ op' = [op EXCEPT ![p] = r]
      BY <1>1 DEF BeginWrite
    <2>2. op'[p] = r /\ pc'[p] = "lock"
      BY <1>1, <2>1 DEF BeginWrite, TypeOK
    <2> QED
      BY <1>1, <2>1, <2>2 DEF Reading
  <1>2. CASE Acquire(p)
    <2>1. pc[p] = "lock" /\ op' = op /\ pc'[p] = FirstStep(op[p])
      BY <1>2 DEF Acquire, request, TypeOK
    <2>2. op[p].mode = "Enabled" /\ op[p].kind \in {"put", "delete", "purge"}
          /\ (op[p].target # "" => p = Cleaner)
      BY <2>1 DEF InEnabled
    <2> QED
      BY <2>1, <2>2 DEF FirstStep, Reading
  <1>3. CASE WriteBytes(p)
    <2>1. pc[p] = "write" /\ op' = op /\ pc'[p] = "save"
      BY <1>3 DEF WriteBytes, Goto, TypeOK
    <2>2. op[p].mode = "Enabled" /\ op[p].kind \in {"put", "delete", "purge"}
          /\ (op[p].target # "" => p = Cleaner)
      BY <2>1 DEF InEnabled
    <2>3. vid'[p] \in Real
      BY <1>3, <2>2 DEF WriteBytes, VersionIDForPut, TypeOK
    <2> QED
      BY <2>1, <2>2, <2>3 DEF Reading
  <1>4. ASSUME NEW l \in {"tidy", "undo", "bytes", "rows"}, pc[p] # "idle", Goto(p, l)
        PROVE  /\ pc'[p] = l /\ op'[p] = op[p] /\ op[p].mode = "Enabled"
               /\ op[p].kind \in {"put", "delete", "purge"} /\ (op[p].target # "" => p = Cleaner)
    <2>1. pc'[p] = l /\ op'[p] = op[p]
      BY <1>4, GotoMoves
    <2> QED
      BY <1>4, <2>1 DEF InEnabled
  <1>5. CASE CommitRow(p) \/ FailRow(p) \/ PutMarker(p) \/ DeleteVersion(p) \/ ListVersions(p)
             \/ DeleteRows(p) \/ RemoveBytes(p) \/ BytesGone(p)
    <2>1. pc[p] # "idle" /\ (Return(p) \/ \E l \in {"tidy", "undo", "bytes", "rows"} : Goto(p, l))
      BY <1>5 DEF CommitRow, FailRow, PutMarker, DeleteVersion, ListVersions, DeleteRows, RemoveBytes, BytesGone
    <2>2. ~Return(p)
      BY ReturnMoves
    <2> QED
      BY <1>4, <2>1, <2>2 DEF Reading
  <1>6. CASE RejectBytes(p) \/ UndoBytes(p) \/ Tidy(p) \/ FailDelete(p)
    BY <1>6, ReturnMoves DEF RejectBytes, UndoBytes, Tidy, FailDelete
  <1> QED
    BY <1>1, <1>2, <1>3, <1>5, <1>6, NoNullDelete DEF Allowed, Step

\* The cleaner's delete goes its way.
LEMMA CleanerMoves ==
  ASSUME TypeOK, InEnabled(Cleaner), CleanerAt, Allowed(Cleaner),
         ~RejectBytes(Cleaner), ~FailRow(Cleaner), UNCHANGED part
  PROVE  /\ CleanerAt'
         /\ pc'[Cleaner] \in {"lock", "version"} => pc[Cleaner] = "lock" /\ op'[Cleaner] = op[Cleaner]
  <1> USE CleanerAssumption
  <1>1. CASE pc'[Cleaner] = "idle"
    BY <1>1 DEF CleanerAt
  <1>2. CASE Acquire(Cleaner)
    <2>1. pc[Cleaner] = "lock" /\ op' = op /\ pc'[Cleaner] = FirstStep(op[Cleaner])
      BY <1>2 DEF Acquire, request, TypeOK
    <2>2. op[Cleaner].mode = "Enabled" /\ op[Cleaner].kind = "delete" /\ part > 0
      BY <2>1 DEF InEnabled, CleanerAt
    <2>3. CASE part = 1
      <3>1. op[Cleaner].target = ""
        BY <2>1, <2>3 DEF CleanerAt
      <3>2. pc'[Cleaner] = "marker"
        BY <2>1, <2>2, <3>1 DEF FirstStep
      <3> QED
        BY <2>1, <2>2, <2>3, <3>1, <3>2 DEF CleanerAt
    <2>4. CASE part # 1
      <3>1. op[Cleaner].target \in Real /\ op[Cleaner].target # ""
        BY <2>1, <2>4, VersionIdAssumption DEF CleanerAt
      <3>2. pc'[Cleaner] = "version"
        BY <2>1, <2>2, <3>1 DEF FirstStep
      <3> QED
        BY <2>1, <2>2, <2>4, <3>1, <3>2 DEF CleanerAt
    <2> QED
      BY <2>3, <2>4
  <1>3. CASE PutMarker(Cleaner) \/ DeleteVersion(Cleaner) \/ RemoveBytes(Cleaner) \/ BytesGone(Cleaner)
    <2>1. /\ pc[Cleaner] \in {"marker", "version", "bytes"}
          /\ \/ Return(Cleaner)
             \/ pc[Cleaner] = "marker" /\ Goto(Cleaner, "tidy")
             \/ pc[Cleaner] # "marker" /\ \E l \in {"bytes", "tidy"} : Goto(Cleaner, l)
      BY <1>3 DEF PutMarker, DeleteVersion, RemoveBytes, BytesGone
    <2>2. \/ pc'[Cleaner] = "idle"
          \/ pc[Cleaner] = "marker" /\ pc'[Cleaner] = "tidy" /\ op' = op
          \/ pc[Cleaner] # "marker" /\ pc'[Cleaner] \in {"bytes", "tidy"} /\ op' = op
      BY <2>1, ReturnMoves, GotoMoves
    <2> QED
      BY <2>1, <2>2 DEF CleanerAt
  <1>4. CASE Tidy(Cleaner) \/ FailDelete(Cleaner) \/ UndoBytes(Cleaner)
    <2>1. pc'[Cleaner] = "idle"
      BY <1>4, ReturnMoves DEF Tidy, FailDelete, UndoBytes
    <2> QED
      BY <1>1, <2>1
  <1>5. ~WriteBytes(Cleaner) /\ ~CommitRow(Cleaner) /\ ~ListVersions(Cleaner) /\ ~DeleteRows(Cleaner)
    BY DEF WriteBytes, CommitRow, ListVersions, DeleteRows, CleanerAt
  <1> QED
    BY <1>2, <1>3, <1>4, <1>5, NoNullDelete DEF Allowed, Step

\* Requests change rows in four ways, and only the cleaner drops a single row: the one it
\* was asked to.
LEMMA EnabledRowChange ==
  ASSUME TypeOK, NEW p \in Proc, InEnabled(p), CleanerAt, Allowed(p)
  PROVE  \/ UNCHANGED rows
         \/ CommitRow(p)
         \/ PutMarker(p)
         \/ DeleteRows(p)
         \/ /\ p = Cleaner /\ pc[p] = "version" /\ part # 1 /\ op[p].target \in Real
            /\ Has(op[p].key, op[p].target) /\ DropRow(op[p].key, op[p].target)
  <1> USE DEF db
  <1>1. CASE DeleteVersion(p)
    <2>1. pc[p] = "version" /\ p = Cleaner
      BY <1>1 DEF DeleteVersion, InEnabled
    <2>2. part # 1 /\ op[p].target \in Real
      BY <2>1 DEF CleanerAt
    <2>3. op[p].target # "null"
      BY <2>2, VersionIdAssumption
    <2>4. \A v \in Newest(op[p].key, Named(op[p].key, op[p].target)) :
            v = op[p].target /\ Has(op[p].key, v)
      BY <2>3 DEF Newest, Named
    <2>5. \/ UNCHANGED rows
          \/ \E v \in Newest(op[p].key, Named(op[p].key, op[p].target)) : DropRow(op[p].key, v)
      BY <1>1 DEF DeleteVersion
    <2> QED
      BY <2>1, <2>2, <2>4, <2>5
  <1>2. CASE BeginWrite(p) \/ RejectBytes(p) \/ FailRow(p) \/ FailDelete(p)
    BY <1>2 DEF BeginWrite, RejectBytes, FailRow, FailDelete
  <1>3. CASE Acquire(p) \/ WriteBytes(p) \/ UndoBytes(p) \/ Tidy(p) \/ ListVersions(p)
    BY <1>3 DEF Acquire, WriteBytes, UndoBytes, Tidy, ListVersions
  <1>4. CASE RemoveBytes(p) \/ BytesGone(p)
    BY <1>4 DEF RemoveBytes, BytesGone
  <1> QED
    BY <1>1, <1>2, <1>3, <1>4, NoNullDelete DEF Allowed, Step

-----------------------------------------------------------------------------
(* Rows stay harmless. *)

LEMMA HarmlessType ==
  ASSUME TypeOK, NEW k, NEW v, Harmless(k, v)
  PROVE  k \in Key /\ v \in used /\ v \in Real /\ v \in VersionId
  BY DEF Harmless, TypeOK, VersionId

\* A row that was saved over is unseen.
LEMMA SavedOver ==
  ASSUME TypeOK, NEW k \in Key, NEW v \in VersionId, Has(k, v) => Unseen(k, v),
         NEW j \in Key, NEW w \in VersionId, NEW etag \in Content \cup {None}, NEW marker \in BOOLEAN,
         SaveRow(j, w, etag, marker), j # k \/ w # v
  PROVE  (Has(k, v) => Unseen(k, v))'
  <1>1. CASE j # k
    <2>1. rows'[k] = rows[k]
      BY <1>1, SaveRowEffect
    <2> QED
      BY <2>1 DEF Has, Unseen
  <1>2. CASE j = k
    <2>1. ~rows'[k][v].latest
      BY <1>2, SaveRowEffect
    <2> QED
      BY <2>1 DEF Unseen
  <1> QED
    BY <1>1, <1>2

\* Dropping an unseen row leaves the others as they are.
LEMMA UnseenGoes ==
  ASSUME TypeOK, NEW k \in Key, NEW v \in VersionId, Has(k, v), Unseen(k, v), DropRow(k, v)
  PROVE  /\ rows'[k][v] = NoRow
         /\ \A j \in Key \ {k} : rows'[j] = rows[j]
         /\ \A w \in VersionId \ {v} : rows'[k][w] = rows[k][w]
  <1>1. ~(rows[k][v].latest /\ \E w \in VersionId \ {v} : Has(k, w))
    BY DEF Unseen
  <1> QED
    BY <1>1, DropRowEffect

LEMMA DroppedBeside ==
  ASSUME TypeOK, NEW k \in Key, NEW v \in VersionId, Has(k, v) => Unseen(k, v),
         NEW j \in Key, NEW w \in VersionId, Has(j, w), Unseen(j, w), DropRow(j, w)
  PROVE  (Has(k, v) => Unseen(k, v))'
  <1>0. ~(NoRow.id > 0)
    BY DEF NoRow
  <1>1. CASE j # k
    <2>1. rows'[k] = rows[k]
      BY <1>1, UnseenGoes
    <2> QED
      BY <2>1 DEF Has, Unseen
  <1>2. CASE j = k /\ w = v
    <2>1. rows'[k][v] = NoRow
      BY <1>2, UnseenGoes
    <2> QED
      BY <1>0, <2>1 DEF Has
  <1>3. CASE j = k /\ w # v
    <2>1. rows'[k][v] = rows[k][v] /\ rows'[k][w] = NoRow
      BY <1>3, UnseenGoes
    <2>2. \A x \in VersionId : Has(k, x)' => Has(k, x)
      BY <1>0, <1>3, <2>1, UnseenGoes DEF Has
    <2> QED
      BY <2>1, <2>2 DEF Has, Unseen
  <1> QED
    BY <1>1, <1>2, <1>3

LEMMA StaysHarmless ==
  ASSUME StoreInv, NEW p \in Proc, InEnabled(p), CleanerAt, DueAreHarmless, Allowed(p), PassTypes,
         NEW k, NEW v, Harmless(k, v)
  PROVE  Harmless(k, v)'
  <1>0. TypeOK /\ k \in Key /\ v \in used /\ v \in Real /\ v \in VersionId
    BY HarmlessType DEF StoreInv
  <1>1. v \in used'
    BY <1>0, AllowedActs, UsedGrows
  <1>2. ASSUME NEW q \in Proc, pc'[q] = "save" PROVE op'[q].key # k \/ vid'[q] # v
    <2>1. CASE q # p
      <3>1. OnlyMoves(p)
        BY <1>0, AllowedActs, OthersStay
      <3>2. pc[q] = "save" /\ op'[q] = op[q] /\ vid'[q] = vid[q]
        BY <1>2, <2>1, <3>1 DEF OnlyMoves
      <3> QED
        BY <3>2 DEF Harmless
    <2>2. CASE q = p
      <3>1. WriteBytes(p)
        BY <1>0, <1>2, <2>2, AllowedActs, Moves
      <3>2. pc[p] = "write" /\ \E w \in VersionIDForPut(op[p].mode) : vid' = [vid EXCEPT ![p] = w]
        BY <3>1 DEF WriteBytes
      <3>3. op[p].mode = "Enabled"
        BY <3>2 DEF InEnabled
      <3>4. vid'[p] \notin used
        BY <1>0, <3>2, <3>3 DEF VersionIDForPut, TypeOK
      <3> QED
        BY <1>0, <2>2, <3>4
    <2> QED
      BY <2>1, <2>2
  <1>3. (Has(k, v) => Unseen(k, v))'
    <2>0. Has(k, v) => Unseen(k, v)
      BY DEF Harmless
    <2>1. CASE UNCHANGED rows
      BY <2>0, <2>1 DEF Has, Unseen
    <2>2. CASE CommitRow(p)
      <3>1. pc[p] = "save" /\ SaveRow(op[p].key, vid[p], op[p].etag, FALSE)
        BY <2>2 DEF CommitRow
      <3>2. op[p].key # k \/ vid[p] # v
        BY <3>1 DEF Harmless
      <3>3. op[p].key \in Key /\ vid[p] \in VersionId /\ op[p].etag \in Content \cup {None}
        BY <1>0, <3>1, RequestFields
      <3> QED
        BY <1>0, <2>0, <3>1, <3>2, <3>3, SavedOver
    <2>3. CASE PutMarker(p)
      <3>1. pc[p] = "marker" /\ \E w \in VersionIDForPut(op[p].mode) : SaveRow(op[p].key, w, None, TRUE)
        BY <2>3 DEF PutMarker
      <3>2. op[p].key \in Key /\ op[p].mode = "Enabled"
        BY <1>0, <3>1, RequestFields DEF InEnabled
      <3>3. PICK w \in Real \ used : SaveRow(op[p].key, w, None, TRUE)
        BY <3>1, <3>2 DEF VersionIDForPut
      <3>4. w # v /\ w \in VersionId
        BY <1>0 DEF VersionId
      <3> QED
        BY <1>0, <2>0, <3>2, <3>3, <3>4, SavedOver
    <2>4. CASE DeleteRows(p)
      <3>1. pc[p] = "rows" /\ DropAllRows(op[p].key)
        BY <2>4 DEF DeleteRows
      <3>2. op[p].key \in Key
        BY <1>0, <3>1, RequestFields
      <3>3. CASE op[p].key = k
        <4>1. rows'[k][v] = NoRow
          BY <1>0, <3>1, <3>2, <3>3, DropAllRowsEffect
        <4> QED
          BY <4>1 DEF Has, NoRow
      <3>4. CASE op[p].key # k
        <4>1. rows'[k] = rows[k]
          BY <1>0, <3>1, <3>2, <3>4, DropAllRowsEffect
        <4> QED
          BY <2>0, <4>1 DEF Has, Unseen
      <3> QED
        BY <3>3, <3>4
    <2>5. CASE /\ p = Cleaner /\ pc[p] = "version" /\ part # 1 /\ op[p].target \in Real
               /\ Has(op[p].key, op[p].target) /\ DropRow(op[p].key, op[p].target)
      <3>1. part > 1
        BY <2>5 DEF CleanerAt, PassTypes
      <3>2. Harmless(op[p].key, op[p].target)
        BY <2>5, <3>1 DEF DueAreHarmless, TargetIsHarmless
      <3>3. op[p].key \in Key /\ op[p].target \in VersionId /\ Unseen(op[p].key, op[p].target)
        BY <1>0, <2>5, <3>2, HarmlessType DEF Harmless
      <3> QED
        BY <1>0, <2>0, <2>5, <3>3, DroppedBeside
    <2> QED
      BY <1>0, <2>1, <2>2, <2>3, <2>4, <2>5, EnabledRowChange
  <1> QED
    BY <1>0, <1>1, <1>2, <1>3 DEF Harmless

\* Saves and markers have ids of their own.
LEMMA VersionsOnly ==
  ASSUME TypeOK, OnlyVersions, NEW p \in Proc, InEnabled(p), Allowed(p)
  PROVE  OnlyVersions'
  <1> SUFFICES ASSUME NEW k \in Key, NEW v \in {"", "null"}, rows'[k][v].id > 0 PROVE FALSE
    BY DEF OnlyVersions, Has
  <1>1. v \in VersionId /\ v \notin Real /\ ~Has(k, v)
    BY VersionIdAssumption DEF VersionId, OnlyVersions
  <1>2. CommitRow(p) => vid[p] \in Real
    BY DEF CommitRow, InEnabled
  <1>3. PutMarker(p) => op[p].mode = "Enabled"
    BY DEF PutMarker, InEnabled
  <1>4. \/ CommitRow(p) /\ v = vid[p]
        \/ PutMarker(p) /\ v \in VersionIDForPut(op[p].mode)
    BY <1>1, AllowedActs, RowOrigin
  <1> QED
    BY <1>1, <1>2, <1>3, <1>4 DEF VersionIDForPut

-----------------------------------------------------------------------------
(* Every step keeps PassInv. *)

LEMMA ClientOrCleanerStep ==
  ASSUME PassInv, NEW p \in Proc, Allowed(p), UNCHANGED <<versioning, part, batch>>,
         p = Cleaner /\ versioning = "Enabled" => ~RejectBytes(p) /\ ~FailRow(p)
  PROVE  PassInv'
  <1> USE CleanerAssumption
  <1>1. StoreInv' /\ PassTypes'
    BY AllowedActs, ActKeepsStore DEF PassInv, PassTypes
  <1>2. SUFFICES ASSUME versioning = "Enabled" PROVE EnabledInv'
    BY <1>1 DEF PassInv
  <1>3. StoreInv /\ TypeOK /\ PassTypes /\ EnabledInv /\ InEnabled(p) /\ InEnabled(Cleaner)
    BY <1>2 DEF PassInv, EnabledInv, StoreInv
  <1>4. OnlyVersions /\ CleanerAt /\ DueAreHarmless
    BY <1>3 DEF EnabledInv
  <1>5. OnlyVersions'
    BY <1>3, <1>4, VersionsOnly
  <1>6. ASSUME NEW q \in Proc PROVE InEnabled(q)'
    <2>1. CASE q = p
      BY <1>2, <1>3, <2>1, EnabledMoves
    <2>2. CASE q # p
      <3>1. pc'[q] = pc[q] /\ op'[q] = op[q] /\ vid'[q] = vid[q]
        BY <1>3, <2>2, AllowedActs, OthersStay DEF OnlyMoves
      <3> QED
        BY <1>3, <3>1 DEF EnabledInv, InEnabled
    <2> QED
      BY <2>1, <2>2
  <1>7. /\ CleanerAt'
        /\ pc'[Cleaner] \in {"lock", "version"} =>
             pc[Cleaner] \in {"lock", "version"} /\ op'[Cleaner] = op[Cleaner]
    <2>1. CASE p = Cleaner
      BY <1>2, <1>3, <1>4, <2>1, CleanerMoves
    <2>2. CASE p # Cleaner
      <3>1. pc'[Cleaner] = pc[Cleaner] /\ op'[Cleaner] = op[Cleaner]
        BY <1>3, <2>2, AllowedActs, OthersStay DEF OnlyMoves
      <3> QED
        BY <1>4, <3>1 DEF CleanerAt
    <2> QED
      BY <2>1, <2>2
  <1>8. DueAreHarmless'
    <2> SUFFICES ASSUME part > 1
                 PROVE  /\ \A b \in batch : Harmless(b.key, b.version)'
                        /\ pc'[Cleaner] \in {"lock", "version"} => TargetIsHarmless'
      BY DEF DueAreHarmless
    <2>1. ASSUME NEW b \in batch PROVE Harmless(b.key, b.version)'
      <3>1. Harmless(b.key, b.version)
        BY <1>4 DEF DueAreHarmless
      <3> QED
        BY <1>3, <1>4, <3>1, StaysHarmless
    <2>2. ASSUME pc'[Cleaner] \in {"lock", "version"}
          PROVE  TargetIsHarmless'
      <3>1. op'[Cleaner] = op[Cleaner] /\ Harmless(op[Cleaner].key, op[Cleaner].target)
        BY <1>4, <1>7, <2>2 DEF DueAreHarmless, TargetIsHarmless
      <3>2. PICK k, v : k = op[Cleaner].key /\ v = op[Cleaner].target
        OBVIOUS
      <3>3. Harmless(k, v)
        BY <3>1, <3>2
      <3>4. Harmless(k, v)'
        BY <1>3, <1>4, <3>3, StaysHarmless
      <3>5. op'[Cleaner].key = k /\ op'[Cleaner].target = v
        BY <3>1, <3>2
      <3> QED
        BY <3>4, <3>5 DEF Harmless, Has, Unseen, TargetIsHarmless
    <2> QED
      BY <2>1, <2>2
  <1> QED
    BY <1>5, <1>6, <1>7, <1>8 DEF EnabledInv

LEMMA RefusedStep ==
  ASSUME PassInv, Refused
  PROVE  PassInv'
  <1> USE CleanerAssumption
  <1>1. UNCHANGED <<versioning, part, batch>>
    BY DEF Refused, cleanerVars
  <1>2. StoreInv' /\ OnlyMoves(Cleaner) /\ pc'[Cleaner] = "idle" /\ UNCHANGED <<rows, used>>
    BY RefusedKeepsStore DEF PassInv
  <1>3. PassTypes'
    BY <1>1 DEF PassInv, PassTypes
  <1>4. ASSUME EnabledInv PROVE EnabledInv'
    <2>1. OnlyVersions'
      BY <1>2, <1>4 DEF EnabledInv, OnlyVersions, Has
    <2>2. ASSUME NEW q \in Proc PROVE InEnabled(q)'
      <3>1. CASE q = Cleaner
        BY <1>2, <3>1 DEF InEnabled
      <3>2. CASE q # Cleaner
        <4>1. pc'[q] = pc[q] /\ op'[q] = op[q] /\ vid'[q] = vid[q]
          BY <1>2, <3>2 DEF OnlyMoves
        <4> QED
          BY <1>4, <4>1 DEF EnabledInv, InEnabled
      <3> QED
        BY <3>1, <3>2
    <2>3. CleanerAt'
      BY <1>2 DEF CleanerAt
    <2>4. \A k, v : Harmless(k, v) => Harmless(k, v)'
      BY <1>2 DEF Harmless, Has, Unseen, OnlyMoves
    <2>5. DueAreHarmless'
      BY <1>1, <1>2, <1>4, <2>4 DEF EnabledInv, DueAreHarmless
    <2> QED
      BY <2>1, <2>2, <2>3, <2>5 DEF EnabledInv
  <1> QED
    BY <1>1, <1>2, <1>3, <1>4 DEF PassInv

LEMMA DeleteNextStep ==
  ASSUME PassInv, DeleteNext
  PROVE  PassInv'
  <1> USE CleanerAssumption
  <1>1. PICK b \in batch : Asks(b)
    BY DeleteNextAsks
  <1>2. /\ pc[Cleaner] = "idle" /\ part > 0 /\ batch' = batch \ {b}
        /\ UNCHANGED <<versioning, rows, used, vid, part>>
    BY <1>1 DEF Asks
  <1>3. /\ StoreInv'
        /\ \A q \in Proc \ {Cleaner} : pc'[q] = pc[q] /\ op'[q] = op[q]
        /\ pc'[Cleaner] = "lock" /\ op'[Cleaner].kind = "delete" /\ op'[Cleaner].mode = versioning
        /\ op'[Cleaner].key = b.key /\ op'[Cleaner].target = Target(b)
    BY <1>1, AsksKeepsStore DEF PassInv
  <1>4. PassTypes'
    BY <1>2 DEF PassInv, PassTypes
  <1>5. ASSUME versioning = "Enabled", EnabledInv PROVE EnabledInv'
    <2>1. OnlyVersions'
      BY <1>2, <1>5 DEF EnabledInv, OnlyVersions, Has
    <2>2. ASSUME NEW q \in Proc PROVE InEnabled(q)'
      <3>1. CASE q = Cleaner
        BY <1>3, <1>5, <3>1 DEF InEnabled, Reading
      <3>2. CASE q # Cleaner
        BY <1>2, <1>3, <1>5, <3>2 DEF EnabledInv, InEnabled
      <3> QED
        BY <3>1, <3>2
    <2>3. part \in 0 .. 3 /\ (part > 1 => Harmless(b.key, b.version))
      BY <1>1, <1>5 DEF PassInv, PassTypes, EnabledInv, DueAreHarmless
    <2>4. part = 1 => Target(b) = ""
      BY DEF Target, Parts
    <2>5. part # 1 => Target(b) = b.version /\ b.version \in Real
      <3>1. ASSUME part # 1 PROVE part > 1 /\ Parts[part] # "current"
        BY <1>2, <2>3, <3>1 DEF Parts
      <3>2. ASSUME part # 1 PROVE b.version \in Real /\ b.version # ""
        BY <2>3, <3>1, <3>2, HarmlessType, VersionIdAssumption DEF PassInv, StoreInv
      <3> QED
        BY <3>1, <3>2 DEF Target
    <2>6. CleanerAt'
      BY <1>2, <1>3, <2>4, <2>5 DEF CleanerAt
    <2>7. \A k, v : Harmless(k, v) => Harmless(k, v)'
      BY <1>2, <1>3 DEF Harmless, Has, Unseen
    <2>8. DueAreHarmless'
      <3> SUFFICES ASSUME part > 1
                   PROVE  /\ \A c \in batch' : Harmless(c.key, c.version)'
                          /\ TargetIsHarmless'
        BY <1>2 DEF DueAreHarmless
      <3>1. \A c \in batch' : Harmless(c.key, c.version)'
        BY <1>2, <1>5, <2>7 DEF EnabledInv, DueAreHarmless
      <3>2. op'[Cleaner].key = b.key /\ op'[Cleaner].target = b.version
        BY <1>3, <2>3, <2>5
      <3>3. Harmless(b.key, b.version)'
        BY <2>3, <2>7
      <3> QED
        BY <3>1, <3>2, <3>3 DEF Harmless, Has, Unseen, TargetIsHarmless
    <2> QED
      BY <2>1, <2>2, <2>6, <2>8 DEF EnabledInv
  <1> QED
    BY <1>2, <1>3, <1>4, <1>5 DEF PassInv

\* Only the pass moves: nothing of the store changes.
LEMMA StoreStays ==
  ASSUME PassInv, UNCHANGED <<versioning, db, disk, used, lock, pc, request>>,
         \E n \in Nat : requests' = n, \E n \in Nat : faults' = n, \E n \in Nat : crashes' = n
  PROVE  StoreInv' /\ \A k, v : Harmless(k, v)' <=> Harmless(k, v)
  <1>1. UNCHANGED <<versioning, rows, nextId, clock, slot, vfile, variants, used, lock, pc, op, vid, doomed, body>>
    BY DEF db, disk, request
  <1>2. StoreInv
    BY DEF PassInv
  <1>3. TypeOK'
    BY <1>1, <1>2 DEF StoreInv, TypeOK
  <1>4. HoldsLock' /\ FreshIds' /\ BytesBeforeRow'
    BY <1>1, <1>2 DEF StoreInv, HoldsLock, FreshIds, BytesBeforeRow, Has
  <1>5. \A k, v : Harmless(k, v)' <=> Harmless(k, v)
    BY <1>1 DEF Harmless, Has, Unseen
  <1> QED
    BY <1>3, <1>4, <1>5 DEF StoreInv

LEMMA ListStep ==
  ASSUME PassInv, List
  PROVE  PassInv'
  <1> USE CleanerAssumption
  <1>1. /\ part > 0 /\ batch = {} /\ pc[Cleaner] = "idle"
        /\ UNCHANGED <<versioning, db, disk, used, lock, pc, request>>
        /\ \/ NextPart
           \/ /\ Listed(Parts[part]) # {} /\ batch' = FirstBatch(Listed(Parts[part]))
              /\ UNCHANGED part
    BY DEF List
  <1>2. requests' \in Nat /\ faults' \in Nat /\ crashes' \in Nat
    BY FaultType DEF List, bounds, PassInv, StoreInv, TypeOK
  <1>3. StoreInv' /\ \A k, v : Harmless(k, v)' <=> Harmless(k, v)
    BY <1>1, <1>2, StoreStays
  <1>4. UNCHANGED <<versioning, rows, pc, op, vid>>
    BY <1>1 DEF db, request
  <1>5. ASSUME EnabledInv
        PROVE  OnlyVersions' /\ (\A q \in Proc : InEnabled(q)') /\ CleanerAt'
    BY <1>1, <1>4, <1>5 DEF EnabledInv, OnlyVersions, InEnabled, CleanerAt, Has
  <1>6. CASE NextPart
    <2>1. batch' = {} /\ part' \in {0, part + 1} /\ (part' = 0 \/ part # 3)
      BY <1>1, <1>6 DEF NextPart, Parts
    <2>2. PassTypes'
      BY <2>1 DEF PassInv, PassTypes
    <2>3. DueAreHarmless'
      BY <1>1, <1>4, <2>1 DEF DueAreHarmless
    <2> QED
      BY <1>3, <1>4, <1>5, <2>2, <2>3 DEF PassInv, EnabledInv
  <1>7. CASE /\ Listed(Parts[part]) # {} /\ batch' = FirstBatch(Listed(Parts[part]))
             /\ UNCHANGED part
    <2>1. ASSUME NEW b \in batch'
          PROVE  /\ b.key \in Key /\ b.version \in VersionId /\ Due(Parts[part], b.key, b.version)
      <3>1. b \in Listed(Parts[part])
        BY <1>7 DEF FirstBatch
      <3>2. PICK kv \in Key \X VersionId : /\ Due(Parts[part], kv[1], kv[2])
                                           /\ b = [id |-> rows[kv[1]][kv[2]].id, key |-> kv[1], version |-> kv[2]]
        BY <3>1 DEF Listed
      <3> QED
        BY <3>2
    <2>2. PassTypes'
      BY <1>7, <2>1 DEF PassInv, PassTypes
    <2>3. ASSUME EnabledInv, part > 1, NEW b \in batch' PROVE Harmless(b.key, b.version)
      <3>1. part \in {2, 3} /\ Parts[part] \in {"noncurrent", "markers"}
        BY <2>3 DEF PassInv, PassTypes, Parts
      <3>2. /\ Has(b.key, b.version) /\ Unseen(b.key, b.version)
        BY <2>1, <3>1 DEF Due, Noncurrent, Old, Orphan, Unseen
      <3>3. b.version \in Real
        BY <2>1, <2>3, <3>2 DEF EnabledInv, OnlyVersions, VersionId
      <3>4. b.version \in used
        BY <2>1, <3>2, <3>3 DEF PassInv, StoreInv, FreshIds
      <3>5. \A p \in Proc : pc[p] = "save" => op[p].key # b.key \/ vid[p] # b.version
        BY <3>2, <3>3 DEF PassInv, StoreInv, BytesBeforeRow
      <3> QED
        BY <2>1, <3>2, <3>4, <3>5 DEF Harmless
    <2>4. EnabledInv => DueAreHarmless'
      BY <1>1, <1>3, <1>4, <1>7, <2>3 DEF DueAreHarmless
    <2> QED
      BY <1>3, <1>4, <1>5, <2>2, <2>4 DEF PassInv, EnabledInv
  <1> QED
    BY <1>1, <1>6, <1>7

\* A step of time, or of the pass as a whole.
LEMMA ClockStep ==
  ASSUME PassInv, StartPass \/ Age \/ CancelContext \/ UNCHANGED allVars
  PROVE  PassInv'
  <1> USE CleanerAssumption
  <1>1. UNCHANGED vars /\ UNCHANGED batch /\ (UNCHANGED part \/ (part = 0 /\ part' = 1))
    BY DEF StartPass, Age, CancelContext, allVars, cleanerVars
  <1>2. /\ UNCHANGED <<versioning, db, disk, used, lock, pc, request>>
        /\ UNCHANGED <<requests, faults, crashes>> /\ UNCHANGED <<rows, op, vid>>
    BY <1>1 DEF vars, bounds, db, request
  <1>3. StoreInv' /\ \A k, v : Harmless(k, v)' <=> Harmless(k, v)
    <2>1. requests' \in Nat /\ faults' \in Nat /\ crashes' \in Nat
      BY <1>2 DEF PassInv, StoreInv, TypeOK
    <2> QED
      BY <1>2, <2>1, StoreStays
  <1>4. PassTypes'
    BY <1>1 DEF PassInv, PassTypes
  <1>5. ASSUME EnabledInv PROVE EnabledInv'
    <2>1. OnlyVersions' /\ \A q \in Proc : InEnabled(q)'
      BY <1>2, <1>5 DEF EnabledInv, OnlyVersions, InEnabled, Has
    <2>2. CleanerAt'
      <3>1. CleanerAt /\ pc' = pc /\ op' = op
        BY <1>2, <1>5 DEF EnabledInv
      <3>2. ASSUME pc[Cleaner] # "idle" PROVE part' = part
        <4>1. part > 0
          BY <3>1, <3>2 DEF CleanerAt
        <4>2. part # 0
          BY <4>1
        <4> QED
          BY <1>1, <4>2
      <3> QED
        BY <3>1, <3>2 DEF CleanerAt
    <2>3. TargetIsHarmless => TargetIsHarmless'
      BY <1>2 DEF TargetIsHarmless, Harmless, Has, Unseen
    <2>5. CASE UNCHANGED part
      <3>1. DueAreHarmless'
        BY <1>1, <1>2, <1>3, <1>5, <2>3, <2>5 DEF EnabledInv, DueAreHarmless
      <3> QED
        BY <2>1, <2>2, <3>1 DEF EnabledInv
    <2>6. part' = 1 => DueAreHarmless'
      BY DEF DueAreHarmless
    <2> QED
      BY <1>1, <2>1, <2>2, <2>5, <2>6 DEF EnabledInv
  <1> QED
    BY <1>2, <1>3, <1>4, <1>5 DEF PassInv

\* The steps of clients are allowed, and so are the cleaner's.
LEMMA ClientIsAllowed ==
  ASSUME ByVersion = FALSE, NEW p \in Proc, PassInv, Client(p)
  PROVE  Allowed(p) /\ p # Cleaner /\ UNCHANGED cleanerVars /\ UNCHANGED versioning
  <1>1. /\ p # Cleaner /\ UNCHANGED cleanerVars
        /\ \/ BeginWrite(p) /\ op'[p].target = ""
           \/ Step(p) \/ RejectBytes(p)
    BY DEF Client
  <1>2. Allowed(p)
    BY <1>1 DEF Allowed
  <1> QED
    BY <1>1, <1>2, AllowedKeepsMode

LEMMA PassInvInit ==
  ASSUME LifecycleInit
  PROVE  PassInv
  <1> USE CleanerAssumption
  <1>1. /\ Init /\ part = 0 /\ batch = {}
        /\ \A p \in Proc : pc[p] = "idle"
        /\ \A k \in Key, v \in VersionId : rows[k][v] = NoRow
    BY DEF LifecycleInit, Init
  <1>2. StoreInv
    BY <1>1, InitialType, VersionInvInit DEF StoreInv, VersionInv
  <1>3. PassTypes
    BY <1>1 DEF PassTypes
  <1>4. OnlyVersions
    <2>1. ~(NoRow.id > 0) /\ {"", "null"} \subseteq VersionId
      BY DEF NoRow, VersionId
    <2> QED
      BY <1>1, <2>1 DEF OnlyVersions, Has
  <1>5. (\A p \in Proc : InEnabled(p)) /\ CleanerAt /\ DueAreHarmless
    BY <1>1 DEF InEnabled, CleanerAt, DueAreHarmless
  <1> QED
    BY <1>2, <1>3, <1>4, <1>5 DEF PassInv, EnabledInv

\* The cleaner's delete steps.
LEMMA CleanerIsAllowed ==
  ASSUME (Step(Cleaner) \/ FailDelete(Cleaner)) /\ UNCHANGED cleanerVars, PassInv
  PROVE  Allowed(Cleaner) /\ UNCHANGED <<versioning, part, batch>>
  <1>1. Allowed(Cleaner)
    BY DEF Allowed
  <1> QED
    BY <1>1, AllowedKeepsMode DEF cleanerVars

LEMMA PassInvStep ==
  ASSUME ByVersion = FALSE, PassInv, [LifecycleNext]_allVars
  PROVE  PassInv'
  <1> USE CleanerAssumption
  <1>1. CASE List
    BY <1>1, ListStep
  <1>2. CASE DeleteNext
    BY <1>2, DeleteNextStep
  <1>3. CASE (Step(Cleaner) \/ FailDelete(Cleaner)) /\ UNCHANGED cleanerVars
    <2>1. Allowed(Cleaner) /\ UNCHANGED <<versioning, part, batch>>
      BY <1>3, CleanerIsAllowed
    <2>2. ASSUME versioning = "Enabled" PROVE ~RejectBytes(Cleaner) /\ ~FailRow(Cleaner)
      <3>1. CleanerAt
        BY <2>2 DEF PassInv, EnabledInv
      <3> QED
        BY <3>1 DEF CleanerAt, RejectBytes, FailRow
    <2> QED
      BY <2>1, <2>2, ClientOrCleanerStep
  <1>4. CASE Refused
    BY <1>4, RefusedStep
  <1>5. CASE \E p \in Proc : Client(p)
    <2>1. PICK p \in Proc : Client(p)
      BY <1>5
    <2>2. Allowed(p) /\ p # Cleaner /\ UNCHANGED <<versioning, part, batch>>
      BY <2>1, ClientIsAllowed DEF cleanerVars
    <2> QED
      BY <2>2, ClientOrCleanerStep
  <1>6. CASE StartPass \/ Age \/ CancelContext \/ UNCHANGED allVars
    BY <1>6, ClockStep
  <1> QED
    BY <1>1, <1>2, <1>3, <1>4, <1>5, <1>6 DEF LifecycleNext, CleanerStep

-----------------------------------------------------------------------------
(* What the cleaner's step does to the rows. *)

\* A row that is not shown leaves what is shown.
LEMMA ShownStays ==
  ASSUME TypeOK, NEW k \in Key, NEW v \in VersionId, Has(k, v), Unseen(k, v), DropRow(k, v)
  PROVE  \A j \in Key : Shown(j)' = Shown(j)
  <1> SUFFICES ASSUME NEW j \in Key PROVE Shown(j)' = Shown(j)
    OBVIOUS
  <1>0. ~(NoRow.id > 0) /\ ~NoRow.latest
    BY DEF NoRow
  <1>1. CASE j # k
    <2>1. rows'[j] = rows[j]
      BY <1>1, UnseenGoes
    <2> QED
      BY <2>1 DEF Shown, Current, Newest, Has
  <1>2. CASE j = k
    <2>1. rows'[k][v] = NoRow /\ \A w \in VersionId \ {v} : rows'[k][w] = rows[k][w]
      BY UnseenGoes
    <2>2. CASE ~rows[k][v].latest
      <3> DEFINE L == {w \in VersionId : rows[k][w].latest}
      <3>1. L' = L
        BY <1>0, <2>1, <2>2
      <3>2. \A w \in L : rows'[k][w] = rows[k][w]
        BY <2>1, <2>2
      <3>3. Newest(k, L)' = Newest(k, L)
        <4> HIDE DEF L
        <4> QED
          BY <3>1, <3>2 DEF Newest, Has
      <3>4. Current(k)' = Current(k) /\ \A w \in Current(k) : rows'[k][w] = rows[k][w]
        BY <3>2, <3>3 DEF Current, Newest
      <3> QED
        BY <1>2, <3>4 DEF Shown
    <2>3. CASE rows[k][v].marker /\ \A w \in VersionId \ {v} : ~Has(k, w)
      <3>1. \A w \in Current(k) : w = v
        BY <2>3 DEF Current, Newest
      <3>2. \A w \in VersionId : ~Has(k, w)'
        BY <1>0, <2>1, <2>3 DEF Has
      <3>3. Current(k)' = {}
        BY <3>2 DEF Current, Newest
      <3>4. Shown(k) = {}
        BY <2>3, <3>1 DEF Shown
      <3>5. Shown(k)' = {}
        BY <3>3 DEF Shown
      <3> QED
        BY <1>2, <3>4, <3>5
    <2> QED
      BY <2>2, <2>3 DEF Unseen
  <1> QED
    BY <1>1, <1>2

LEMMA SavesDropNothing ==
  ASSUME TypeOK, NEW j \in Key, NEW w \in VersionId, NEW etag \in Content \cup {None},
         NEW marker \in BOOLEAN, SaveRow(j, w, etag, marker),
         NEW k \in Key, NEW v \in VersionId, Has(k, v)
  PROVE  Has(k, v)'
  <1>1. /\ rows'[j][w].id > 0
        /\ \A i \in Key, x \in VersionId : i # j \/ x # w => rows'[i][x].id = rows[i][x].id
    BY SaveRowEffect
  <1>2. CASE k = j /\ v = w
    BY <1>1, <1>2 DEF Has
  <1>3. CASE k # j \/ v # w
    BY <1>1, <1>3 DEF Has
  <1> QED
    BY <1>2, <1>3

\* The rows of a step of the cleaner's delete.
LEMMA CleaningRows ==
  ASSUME PassInv, versioning = "Enabled", Allowed(Cleaner), pc[Cleaner] \in Locked
  PROVE  /\ part = 1 => \A k \in Key, v \in Real : Has(k, v) => Has(k, v)'
         /\ part # 1 => \A k \in Key : Shown(k)' = Shown(k)
  <1> USE CleanerAssumption
  <1>1. TypeOK /\ InEnabled(Cleaner) /\ CleanerAt /\ DueAreHarmless /\ pc[Cleaner] # "idle"
    BY DEF PassInv, EnabledInv, StoreInv, Locked
  <1>2. ~CommitRow(Cleaner) /\ ~DeleteRows(Cleaner)
    BY <1>1 DEF CommitRow, DeleteRows, CleanerAt
  <1>3. CASE UNCHANGED rows
    BY <1>3 DEF Has, Shown, Current, Newest
  <1>4. CASE PutMarker(Cleaner)
    <2>1. pc[Cleaner] = "marker"
      BY <1>4 DEF PutMarker
    <2>2. part = 1
      BY <1>1, <2>1 DEF CleanerAt
    <2>3. \E w \in VersionIDForPut(op[Cleaner].mode) : SaveRow(op[Cleaner].key, w, None, TRUE)
      BY <1>4 DEF PutMarker
    <2>4. op[Cleaner].key \in Key /\ op[Cleaner].mode = "Enabled"
      BY <1>1, RequestFields DEF InEnabled
    <2>5. PICK w \in VersionId : SaveRow(op[Cleaner].key, w, None, TRUE)
      BY <2>3, <2>4 DEF VersionIDForPut, VersionId
    <2>6. ASSUME NEW k \in Key, NEW v \in Real, Has(k, v) PROVE Has(k, v)'
      BY <1>1, <2>4, <2>5, <2>6, SavesDropNothing DEF VersionId
    <2> QED
      BY <2>2, <2>6
  <1>5. CASE /\ pc[Cleaner] = "version" /\ part # 1 /\ op[Cleaner].target \in Real
             /\ Has(op[Cleaner].key, op[Cleaner].target) /\ DropRow(op[Cleaner].key, op[Cleaner].target)
    <2>1. part > 1
      BY <1>1, <1>5 DEF CleanerAt, PassInv, PassTypes
    <2>2. Harmless(op[Cleaner].key, op[Cleaner].target)
      BY <1>1, <1>5, <2>1 DEF DueAreHarmless, TargetIsHarmless
    <2>3. /\ op[Cleaner].key \in Key /\ op[Cleaner].target \in VersionId
          /\ Unseen(op[Cleaner].key, op[Cleaner].target)
      BY <1>1, <1>5, <2>2, HarmlessType DEF Harmless
    <2> QED
      BY <1>1, <1>5, <2>3, ShownStays
  <1> QED
    BY <1>1, <1>2, <1>3, <1>4, <1>5, EnabledRowChange

\* Only the cleaner's own delete moves the cleaner while it holds a mutex.
LEMMA OnlyItsDeleteMovesIt ==
  ASSUME ByVersion = FALSE, PassInv, [LifecycleNext]_allVars,
         pc[Cleaner] \in Locked, pc'[Cleaner] # pc[Cleaner]
  PROVE  Allowed(Cleaner) \/ UNCHANGED rows
  <1> USE CleanerAssumption
  <1>1. ~List /\ ~DeleteNext
    BY DEF List, DeleteNext, Locked
  <1>2. ASSUME NEW p \in Proc, Client(p) PROVE FALSE
    <2>1. Act(p) /\ p # Cleaner
      BY <1>2, ClientIsAllowed, AllowedActs
    <2>2. OnlyMoves(p)
      BY <2>1, OthersStay DEF PassInv, StoreInv
    <2> QED
      BY <2>1, <2>2 DEF OnlyMoves
  <1>3. ~(StartPass \/ Age \/ CancelContext \/ UNCHANGED allVars)
    BY DEF StartPass, Age, CancelContext, allVars, vars
  <1>4. Refused => UNCHANGED rows
    BY DEF Refused, db
  <1>5. Step(Cleaner) \/ FailDelete(Cleaner) => Allowed(Cleaner)
    BY DEF Allowed
  <1> QED
    BY <1>1, <1>2, <1>3, <1>4, <1>5 DEF LifecycleNext, CleanerStep

LEMMA PassInvHolds ==
  ASSUME ByVersion = FALSE
  PROVE  LifecycleSpec => []PassInv
  <1>1. LifecycleInit => PassInv
    BY PassInvInit
  <1>2. PassInv /\ [LifecycleNext]_allVars => PassInv'
    BY PassInvStep
  <1> QED
    BY <1>1, <1>2, PTL DEF LifecycleSpec

\* OnlyExpirationIsVisible: for any set of keys, contents, versions, clients and rules, any
\* batch size and any failures, while clients delete no version by its id, a pass over an
\* Enabled bucket (lifecycle/cleaner.go:83) delete-marks what expired and keeps every
\* version, and the rows the noncurrent (lifecycle/cleaner.go:112) and marker
\* (lifecycle/cleaner.go:138) parts drop change no plain read, however old the list they
\* were taken from is.
THEOREM PassesHideOnly ==
  ASSUME ByVersion = FALSE
  PROVE  LifecycleSpec => OnlyExpirationIsVisible
  <1> DEFINE Hides ==
        versioning = "Enabled" =>
          /\ Cleans("current") =>
               \A k \in Key, v \in Real : Has(k, v) => Has(k, v)'
          /\ Cleans("noncurrent") \/ Cleans("markers") =>
               \A k \in Key : Shown(k)' = Shown(k)
  <1>1. PassInv /\ [LifecycleNext]_allVars => Hides
    <2> SUFFICES ASSUME PassInv, [LifecycleNext]_allVars, versioning = "Enabled",
                        NEW rule \in {"current", "noncurrent", "markers"}, Cleans(rule)
                 PROVE  /\ rule = "current" =>
                             \A k \in Key, v \in Real : Has(k, v) => Has(k, v)'
                        /\ rule # "current" => \A k \in Key : Shown(k)' = Shown(k)
      BY Zenon
    <2>1. pc[Cleaner] \in Locked /\ pc'[Cleaner] # pc[Cleaner] /\ part > 0 /\ Parts[part] = rule
      BY DEF Cleans
    <2>2. part \in 1 .. 3
      BY <2>1 DEF PassInv, PassTypes
    <2>3. rule = "current" <=> part = 1
      BY <2>1, <2>2 DEF Parts
    <2>4. CASE Allowed(Cleaner)
      BY <2>1, <2>3, <2>4, CleaningRows
    <2>5. CASE UNCHANGED rows
      BY <2>5 DEF Has, Shown, Current, Newest
    <2> QED
      BY <2>1, <2>4, <2>5, OnlyItsDeleteMovesIt
  <1> QED
    BY <1>1, PassInvHolds, PTL DEF LifecycleSpec, OnlyExpirationIsVisible

=============================================================================
