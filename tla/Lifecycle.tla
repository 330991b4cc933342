------------------------------ MODULE Lifecycle ------------------------------
(***************************************************************************)
(* The lifecycle cleaner (lifecycle/cleaner.go) of one bucket and one rule,  *)
(* beside the requests of clients.  A pass loads the bucket, then for every  *)
(* part of the rule lists rows in batches by id and asks the object service  *)
(* to delete each, with a list that may be old by then.  The cleaner is one  *)
(* more process of ObjectStore, whose delete steps it runs.  The bucket's    *)
(* versioning does not change: the setting a request keeps although it was   *)
(* changed meanwhile is ObjectStore's.                                       *)
(*                                                                          *)
(* Stale multipart uploads, the rule's fourth part, are in Multipart.        *)
(***************************************************************************)
EXTENDS ObjectStore, FiniteSets, Sequences

CONSTANTS
  Cleaner,    \* the cleaner's goroutine
  Rules,      \* parts of the rule that are set
  BatchSize,  \* rows a listing returns at most
  MaxPasses,  \* bound: passes over the bucket
  Refusing,   \* keys whose deletes may fail any number of times
  ByVersion   \* clients delete versions by their ids, too

Parts == <<"current", "noncurrent", "markers">>

ASSUME CleanerAssumption == Cleaner \in Proc
ASSUME RulesAssumption   == Rules \subseteq {"current", "noncurrent", "markers"}
ASSUME BatchAssumption   == BatchSize \in Nat \ {0} /\ MaxPasses \in Nat
ASSUME ClientAssumption  == Refusing \subseteq Key /\ ByVersion \in BOOLEAN

VARIABLES
  part,     \* the part of the rule being applied; 0 between passes
  batch,    \* rows listed and not yet deleted: [id, key, version]
  after,    \* the listing's id cursor
  cutoff,   \* rows last modified before it are old enough for the rule
  passes,   \* passes begun
  done      \* the server's context is done

cleanerVars == <<part, batch, after, cutoff, passes, done>>
allVars     == <<vars, cleanerVars>>

LifecycleInit ==
  /\ Init
  /\ part = 0
  /\ batch = {}
  /\ after = 0
  /\ cutoff = 1
  /\ passes = 0
  /\ done = FALSE

-----------------------------------------------------------------------------
(* The listings. *)

Old(k, v) == Has(k, v) /\ rows[k][v].modified < cutoff

\* GetExpiredObjects.
Expired(k, v) == Old(k, v) /\ rows[k][v].latest /\ ~rows[k][v].marker

\* GetExpiredNoncurrentVersions.
Noncurrent(k, v) == Old(k, v) /\ ~rows[k][v].latest

\* Faulty variant: the marker may hide versions of its key.
Orphan_OfAnyKey(k, v) ==
  Has(k, v) /\ rows[k][v].latest /\ rows[k][v].marker

\* GetOrphanDeleteMarkers: a latest marker without other rows; its age is not asked.
Orphan(k, v) ==
  /\ Has(k, v) /\ rows[k][v].latest /\ rows[k][v].marker
  /\ \A w \in VersionId \ {v} : ~Has(k, w)

Due(rule, k, v) ==
  CASE rule = "current"    -> Expired(k, v)
    [] rule = "noncurrent" -> Noncurrent(k, v)
    [] OTHER               -> Orphan(k, v)

\* The rows due past the cursor.
Listed(rule) ==
  {[id |-> rows[kv[1]][kv[2]].id, key |-> kv[1], version |-> kv[2]] :
     kv \in {kv \in Key \X VersionId : /\ Due(rule, kv[1], kv[2])
                                       /\ rows[kv[1]][kv[2]].id > after}}

\* Faulty variant: LIMIT without ORDER BY.
FirstBatch_Unordered(found) ==
  {b \in found : Cardinality({c \in found : c.id > b.id}) < BatchSize}

\* ORDER BY id LIMIT BatchSize.
FirstBatch(found) ==
  {b \in found : Cardinality({c \in found : c.id < b.id}) < BatchSize}

-----------------------------------------------------------------------------
(* The pass. *)

StartPass ==
  /\ part = 0 /\ ~done
  /\ passes < MaxPasses
  /\ passes' = passes + 1
  /\ part' = 1
  /\ after' = 0
  /\ UNCHANGED <<vars, batch, cutoff, done>>

NextPart ==
  /\ part' = IF part = Len(Parts) \/ done THEN 0 ELSE part + 1
  /\ after' = 0
  /\ UNCHANGED batch

\* The next batch, or the part is over: nothing is due, the listing failed, the
\* server stops, or the rule does not have this part.
List ==
  LET rule == Parts[part]
  IN /\ part > 0 /\ batch = {} /\ pc[Cleaner] = "idle"
     /\ \/ /\ done \/ rule \notin Rules \/ Listed(rule) = {}
           /\ NextPart
           /\ UNCHANGED bounds
        \/ /\ ~done /\ rule \in Rules
           /\ Fault
           /\ NextPart
        \/ /\ ~done /\ rule \in Rules /\ Listed(rule) # {}
           /\ batch' = FirstBatch(Listed(rule))
           /\ UNCHANGED <<part, after, bounds>>
  /\ UNCHANGED <<versioning, db, disk, used, lock, pc, request, cutoff, passes, done>>

\* Objects expire by a plain delete; the other parts name the row's version.
Target(b) ==
  IF Parts[part] = "current" THEN ""
  ELSE IF b.version = "" THEN "null"
  ELSE b.version

\* Faulty variant: the cursor stays where it is.
CursorAfter_Stays(b) == after

\* The cursor moves past the row whatever becomes of its delete.
CursorAfter(b) == b.id

\* objects.Delete(bucket, key, version) for the first row of the batch.
DeleteNext ==
  /\ part > 0 /\ pc[Cleaner] = "idle"
  /\ \E b \in batch :
       /\ \A c \in batch : b.id <= c.id
       /\ batch' = batch \ {b}
       /\ after' = CursorAfter(b)
       /\ op' = [op EXCEPT ![Cleaner] =
                   [kind |-> "delete", key |-> b.key, target |-> Target(b),
                    etag |-> None, mode |-> versioning]]
  /\ pc' = [pc EXCEPT ![Cleaner] = "lock"]
  /\ UNCHANGED <<versioning, db, disk, used, lock, vid, doomed, body, bounds,
                 part, cutoff, passes, done>>

\* The delete fails before it changes anything; the pass goes on.
Refused ==
  /\ op[Cleaner].key \in Refusing
  /\ pc[Cleaner] \in {"marker", "version", "null", "list"}
  /\ Return(Cleaner)
  /\ UNCHANGED <<versioning, db, disk, used, bounds, cleanerVars>>

\* Time passes: what has been written so far becomes old enough for the rule.
Age ==
  /\ cutoff < clock
  /\ cutoff' = clock
  /\ UNCHANGED <<vars, part, batch, after, passes, done>>

CancelContext ==
  /\ ~done
  /\ done' = TRUE
  /\ UNCHANGED <<vars, part, batch, after, cutoff, passes>>

CleanerStep ==
  \/ List \/ DeleteNext
  \/ Step(Cleaner) /\ UNCHANGED cleanerVars

Client(p) ==
  /\ p # Cleaner
  /\ \/ BeginWrite(p) /\ (op'[p].target = "" \/ ByVersion)
     \/ Step(p)
     \/ RejectBytes(p)
  /\ UNCHANGED cleanerVars

LifecycleNext ==
  \/ StartPass \/ CleanerStep \/ Refused
  \/ FailDelete(Cleaner) /\ UNCHANGED cleanerVars
  \/ \E p \in Proc : Client(p)
  \/ Age \/ CancelContext

LifecycleSpec == LifecycleInit /\ [][LifecycleNext]_allVars

\* The cleaner's goroutine keeps running and so do clients; the mutex is fair.
LifecycleFairSpec ==
  /\ LifecycleSpec
  /\ WF_allVars(CleanerStep)
  /\ SF_allVars(Acquire(Cleaner) /\ UNCHANGED cleanerVars)
  /\ \A p \in Proc : WF_allVars(p # Cleaner /\ Step(p) /\ UNCHANGED cleanerVars)

-----------------------------------------------------------------------------
\* The step is one the cleaner's own delete takes, for this part of the rule.
Cleans(rule) ==
  /\ part > 0 /\ Parts[part] = rule
  /\ pc[Cleaner] \in Locked
  /\ pc'[Cleaner] # pc[Cleaner]

\* The object a plain read of k finds: its etag and time, or nothing.
Shown(k) == {<<rows[k][v].etag, rows[k][v].modified>> :
               v \in {w \in Current(k) : ~rows[k][w].marker}}

\* In an Enabled bucket a pass hides objects and brings none back: expiration
\* (lifecycle/cleaner.go:83) delete-marks and keeps every version, while the noncurrent part
\* (lifecycle/cleaner.go:112) and the marker part (lifecycle/cleaner.go:138) delete rows
\* that no plain read shows.
OnlyExpirationIsVisible ==
  [][versioning = "Enabled" =>
       /\ Cleans("current") =>
            \A k \in Key, v \in Real : Has(k, v) => Has(k, v)'
       /\ Cleans("noncurrent") \/ Cleans("markers") =>
            \A k \in Key : Shown(k)' = Shown(k)]_allVars

\* The id cursor guarantees progress even when deletes fail (lifecycle/cleaner.go:84), and
\* every request gives the mutex of its key back (service/objects.go:68): every pass comes
\* to its end.
PassEnds == part > 0 ~> part = 0

\* However often the deletes of other keys fail (lifecycle/cleaner.go:84), an object that is
\* old enough when a pass begins is gone, or replaced, some time after, unless the server
\* stops or a query or this object's own delete fails.
ExpiredObjectsGo ==
  \A k \in Key \ Refusing :
    (/\ part = 1 /\ after = 0 /\ batch = {} /\ pc[Cleaner] = "idle"
     /\ \E v \in VersionId : Expired(k, v))
      ~> ((\A v \in VersionId : ~Expired(k, v)) \/ done \/ faults > 0)
=============================================================================
