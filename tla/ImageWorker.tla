----------------------------- MODULE ImageWorker -----------------------------
(***************************************************************************)
(* The background image optimizer (image/worker.go) and the limiter it       *)
(* shares with on-access transforms (image/limiter.go).  Writers hand over  *)
(* jobs without waiting; workers take them until the channel is closed or   *)
(* the process is told to shut down, whichever they notice first.  The image *)
(* of a small upload is processed by the request itself.  A worker's job, a  *)
(* request's and a transform each need one of the limiter's slots.           *)
(*                                                                          *)
(* Enqueue and the closing of the channel exclude each other by the same    *)
(* read-write lock discipline as the webhook dispatcher's, which is modelled *)
(* in detail there; here each is one step.                                  *)
(***************************************************************************)
EXTENDS Integers, Sequences, FiniteSets

CONSTANTS
  Job,        \* jobs, each handed over at most once
  ImgWorker,  \* worker goroutines
  Transform,  \* requests that transform an image on access
  NoJob,      \* no job
  ImgQueueSize, \* capacity of the channel
  Slots       \* slots of the limiter

ASSUME SlotsAssumption == ImgQueueSize \in Nat \ {0} /\ Slots \in Nat \ {0}
ASSUME NoJobAssumption == NoJob \notin Job
ASSUME GoroutinesAssumption == IsFiniteSet(ImgWorker) /\ IsFiniteSet(Transform) /\ IsFiniteSet(Job)

VARIABLES
  jobs,       \* the channel's buffer
  jobsClosed, \* the channel is closed
  cancelled,  \* the server's context is cancelled
  imgStop,    \* where Stop is: "no", "wait", "stopped"
  imgAt,      \* imgAt[w]: where worker w is
  imgJob,     \* imgJob[w]: the job w works on
  transform,  \* transform[t]: where transform t is
  inPlace,    \* inPlace[j]: where the request is that processes job j itself, if one does
  taken,      \* slots of the limiter that are taken
  newJobs,    \* jobs nobody has handed over yet
  queued,     \* jobs Enqueue accepted
  processed   \* jobs Process has finished with

imgVars == <<jobs, jobsClosed, cancelled, imgStop, imgAt, imgJob, transform, inPlace, taken, newJobs, queued, processed>>

ImgInit ==
  /\ jobs = <<>>
  /\ jobsClosed = FALSE
  /\ cancelled = FALSE
  /\ imgStop = "no"
  /\ imgAt = [w \in ImgWorker |-> "select"]
  /\ imgJob = [w \in ImgWorker |-> NoJob]
  /\ transform = [t \in Transform |-> "new"]
  /\ inPlace = [j \in Job |-> "no"]
  /\ taken = 0
  /\ newJobs = Job
  /\ queued = {}
  /\ processed = {}

\* Enqueue: into the channel, or dropped when it is full or closed.
Enqueue(j) ==
  /\ j \in newJobs
  /\ newJobs' = newJobs \ {j}
  /\ \/ /\ ~jobsClosed /\ Len(jobs) < ImgQueueSize
        /\ jobs' = Append(jobs, j)
        /\ queued' = queued \cup {j}
     \/ /\ jobsClosed \/ Len(jobs) = ImgQueueSize
        /\ UNCHANGED <<jobs, queued>>
  /\ UNCHANGED <<jobsClosed, cancelled, imgStop, imgAt, imgJob, transform, inPlace, taken, processed>>

\* select: a cancelled context and a waiting job are chosen between at random.
Select(w) ==
  /\ imgAt[w] = "select"
  /\ \/ /\ jobs # <<>>
        /\ imgJob' = [imgJob EXCEPT ![w] = Head(jobs)]
        /\ jobs' = Tail(jobs)
        /\ imgAt' = [imgAt EXCEPT ![w] = "acquire"]
     \/ /\ cancelled \/ (jobs = <<>> /\ jobsClosed)
        /\ imgAt' = [imgAt EXCEPT ![w] = "gone"]
        /\ UNCHANGED <<jobs, imgJob>>
  /\ UNCHANGED <<jobsClosed, cancelled, imgStop, transform, inPlace, taken, newJobs, queued, processed>>

\* Process waits for a slot; its context is never cancelled.
WorkerAcquire(w) ==
  /\ imgAt[w] = "acquire"
  /\ taken < Slots
  /\ taken' = taken + 1
  /\ imgAt' = [imgAt EXCEPT ![w] = "process"]
  /\ UNCHANGED <<jobs, jobsClosed, cancelled, imgStop, imgJob, transform, inPlace, newJobs, queued, processed>>

\* OptimizeOne succeeds, fails or panics: the deferred calls release the slot.
Process(w) ==
  /\ imgAt[w] = "process"
  /\ taken' = taken - 1
  /\ processed' = processed \cup {imgJob[w]}
  /\ imgJob' = [imgJob EXCEPT ![w] = NoJob]
  /\ imgAt' = [imgAt EXCEPT ![w] = "select"]
  /\ UNCHANGED <<jobs, jobsClosed, cancelled, imgStop, transform, inPlace, newJobs, queued>>

-----------------------------------------------------------------------------
(* serveTransformed and the limiter. *)

BeginTransform(t) ==
  /\ transform[t] = "new"
  /\ transform' = [transform EXCEPT ![t] = "acquire"]
  /\ UNCHANGED <<jobs, jobsClosed, cancelled, imgStop, imgAt, imgJob, inPlace, taken, newJobs, queued, processed>>

TransformAcquire(t) ==
  /\ transform[t] = "acquire"
  /\ taken < Slots
  /\ taken' = taken + 1
  /\ transform' = [transform EXCEPT ![t] = "work"]
  /\ UNCHANGED <<jobs, jobsClosed, cancelled, imgStop, imgAt, imgJob, inPlace, newJobs, queued, processed>>

\* Faulty variant: the release is deferred before the slot is known to be taken.
GiveUp_Releases(t) ==
  /\ transform[t] = "acquire"
  /\ taken' = IF taken > 0 THEN taken - 1 ELSE taken
  /\ transform' = [transform EXCEPT ![t] = "done"]
  /\ UNCHANGED <<jobs, jobsClosed, cancelled, imgStop, imgAt, imgJob, inPlace, newJobs, queued, processed>>

\* The client has gone before a slot was free: the original is served.
GiveUp(t) ==
  /\ transform[t] = "acquire"
  /\ transform' = [transform EXCEPT ![t] = "done"]
  /\ UNCHANGED <<jobs, jobsClosed, cancelled, imgStop, imgAt, imgJob, inPlace, taken, newJobs, queued, processed>>

EndTransform(t) ==
  /\ transform[t] = "work"
  /\ taken' = taken - 1
  /\ transform' = [transform EXCEPT ![t] = "done"]
  /\ UNCHANGED <<jobs, jobsClosed, cancelled, imgStop, imgAt, imgJob, inPlace, newJobs, queued, processed>>

-----------------------------------------------------------------------------
(* A request that processes the image it has stored (service/objects.go queueImage). *)

BeginInPlace(j) ==
  /\ j \in newJobs
  /\ newJobs' = newJobs \ {j}
  /\ inPlace' = [inPlace EXCEPT ![j] = "acquire"]
  /\ UNCHANGED <<jobs, jobsClosed, cancelled, imgStop, imgAt, imgJob, transform, taken, queued, processed>>

InPlaceAcquire(j) ==
  /\ inPlace[j] = "acquire"
  /\ taken < Slots
  /\ taken' = taken + 1
  /\ inPlace' = [inPlace EXCEPT ![j] = "process"]
  /\ UNCHANGED <<jobs, jobsClosed, cancelled, imgStop, imgAt, imgJob, transform, newJobs, queued, processed>>

\* As in Process; neither the closed channel nor the cancelled context ends it.
EndInPlace(j) ==
  /\ inPlace[j] = "process"
  /\ taken' = taken - 1
  /\ processed' = processed \cup {j}
  /\ inPlace' = [inPlace EXCEPT ![j] = "done"]
  /\ UNCHANGED <<jobs, jobsClosed, cancelled, imgStop, imgAt, imgJob, transform, newJobs, queued>>

-----------------------------------------------------------------------------
(* The end. *)

Cancel ==
  /\ ~cancelled
  /\ cancelled' = TRUE
  /\ UNCHANGED <<jobs, jobsClosed, imgStop, imgAt, imgJob, transform, inPlace, taken, newJobs, queued, processed>>

ImgStopCall ==
  /\ imgStop = "no"
  /\ jobsClosed' = TRUE
  /\ imgStop' = "wait"
  /\ UNCHANGED <<jobs, cancelled, imgAt, imgJob, transform, inPlace, taken, newJobs, queued, processed>>

ImgStopReturn ==
  /\ imgStop = "wait"
  /\ \A w \in ImgWorker : imgAt[w] = "gone"
  /\ imgStop' = "stopped"
  /\ UNCHANGED <<jobs, jobsClosed, cancelled, imgAt, imgJob, transform, inPlace, taken, newJobs, queued, processed>>

ImgStep(w) == Select(w) \/ WorkerAcquire(w) \/ Process(w)
TransformStep(t) == TransformAcquire(t) \/ EndTransform(t)
InPlaceStep(j) == InPlaceAcquire(j) \/ EndInPlace(j)

ImgNext ==
  \/ \E j \in Job : Enqueue(j) \/ BeginInPlace(j) \/ InPlaceStep(j)
  \/ \E w \in ImgWorker : ImgStep(w)
  \/ \E t \in Transform : BeginTransform(t) \/ TransformStep(t) \/ GiveUp(t)
  \/ Cancel \/ ImgStopCall \/ ImgStopReturn

ImgSpec == ImgInit /\ [][ImgNext]_imgVars

\* Goroutines run on, and those that wait for a slot of the limiter's channel are
\* served in turn (Go's channels queue their senders).
ImgFairness ==
  /\ \A w \in ImgWorker : WF_imgVars(ImgStep(w)) /\ SF_imgVars(WorkerAcquire(w))
  /\ \A t \in Transform : WF_imgVars(TransformStep(t)) /\ SF_imgVars(TransformAcquire(t))
  /\ \A j \in Job : WF_imgVars(InPlaceStep(j)) /\ SF_imgVars(InPlaceAcquire(j))
  /\ WF_imgVars(ImgStopReturn)

ImgFairSpec == ImgSpec /\ ImgFairness

-----------------------------------------------------------------------------
ImgTypeOK ==
  /\ jobs \in Seq(Job)
  /\ jobsClosed \in BOOLEAN
  /\ cancelled \in BOOLEAN
  /\ imgStop \in {"no", "wait", "stopped"}
  /\ imgAt \in [ImgWorker -> {"select", "acquire", "process", "gone"}]
  /\ imgJob \in [ImgWorker -> Job \cup {NoJob}]
  /\ \A w \in ImgWorker : imgAt[w] \in {"acquire", "process"} => imgJob[w] \in Job
  /\ transform \in [Transform -> {"new", "acquire", "work", "done"}]
  /\ inPlace \in [Job -> {"no", "acquire", "process", "done"}]
  /\ \A j \in newJobs : inPlace[j] = "no"
  /\ taken \in Nat
  /\ newJobs \subseteq Job /\ queued \subseteq Job
  /\ processed \subseteq Job

\* The limiter's slots (image/limiter.go) are those of the workers, the requests and the
\* transforms that decode an image and have not come to its end: none leaks, none is given
\* back twice, and at most Slots images are decoded at a time.  Reprocessing from the admin
\* API or the command line takes no slot.
SlotsAreAccountedFor ==
  /\ taken = Cardinality({w \in ImgWorker : imgAt[w] = "process"})
           + Cardinality({t \in Transform : transform[t] = "work"})
           + Cardinality({j \in Job : inPlace[j] = "process"})
  /\ taken <= Slots
=============================================================================
