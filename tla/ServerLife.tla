------------------------------ MODULE ServerLife ------------------------------
(***************************************************************************)
(* The life of the server process (main.go runServe, server/server.go        *)
(* RunContext): the admin and WebDAV listeners start first and stop last,    *)
(* the lifecycle cleaner starts before the dispatcher exists, and a signal   *)
(* or a listener that fails stops the S3 listener, the image workers and the *)
(* dispatcher in an order of its own.  A listener that cannot be opened ends *)
(* the process with neither of them stopped.  Composes WebhookDispatcher and *)
(* ImageWorker with the requests that feed them.                             *)
(***************************************************************************)
EXTENDS WebhookDispatcher, ImageWorker

CONSTANTS
  Front,      \* Front[m]: "s3", "other" (admin API, WebDAV) or "cleaner"
  EventOf,    \* EventOf[m]: the event m's write emits
  JobOf,      \* JobOf[m]: the image job of m's write
  MayForce,   \* requests may outlast the shutdown's 30 seconds
  MayFail     \* the S3 listener may fail, when it is opened or later

ASSUME FrontAssumption == /\ Front \in [Emitter -> {"s3", "other", "cleaner"}]
                          /\ EventOf \in [Emitter -> Event]
                          /\ JobOf \in [Emitter -> Job]
                          /\ MayForce \in BOOLEAN /\ MayFail \in BOOLEAN

VARIABLES
  phase,     \* where runServe is
  req,       \* req[m]: where request m is
  missed,    \* writes that found no dispatcher, or a stopped one
  forced     \* the shutdown did not wait for its requests

serverVars == <<phase, req, missed, forced>>
allVars    == <<vars, imgVars, serverVars>>

Phases == {"starting", "opening", "serving", "draining", "images", "events", "failevents", "failimages",
           "returned", "exited", "unopened", "aborted"}

\* The process has neither exited nor given up its start.
Alive == phase \notin {"exited", "aborted"}

LifeInit ==
  /\ Init
  /\ ImgInit
  /\ phase = "starting"
  /\ req = [m \in Emitter |-> "new"]
  /\ missed = {}
  /\ forced = FALSE

\* SetDispatcher and SetImageWorker: the fronts that are open use them at once.
SetWorkers ==
  /\ phase = "starting"
  /\ phase' = "opening"
  /\ UNCHANGED <<vars, imgVars, req, missed, forced>>

\* The S3 listener opens, or cannot be: RunContext returns and stops the context only.
Open ==
  /\ phase = "opening"
  /\ \/ phase' = "serving" /\ UNCHANGED imgVars
     \/ MayFail /\ phase' = "unopened" /\ Cancel
  /\ UNCHANGED <<vars, req, missed, forced>>

\* A front that is open takes a request; the cleaner looks at the context.
Listening(m) ==
  CASE Front[m] = "s3"    -> phase = "serving"
    [] Front[m] = "other" -> Alive
    [] OTHER              -> ~cancelled

Accept(m) ==
  /\ req[m] = "new"
  /\ Listening(m)
  /\ req' = [req EXCEPT ![m] = "running"]
  /\ UNCHANGED <<vars, imgVars, phase, missed, forced>>

\* The write has been committed: emit, unless there is no dispatcher yet.
Emit(m) ==
  /\ req[m] = "running"
  /\ Alive
  /\ \/ /\ phase = "starting"
        /\ missed' = missed \cup {m}
        /\ req' = [req EXCEPT ![m] = "done"]
        /\ UNCHANGED vars
     \/ /\ phase # "starting"
        /\ EmitLock(m, EventOf[m])
        /\ req' = [req EXCEPT ![m] = "emitting"]
        /\ UNCHANGED missed
  /\ UNCHANGED <<imgVars, phase, forced>>

Emitting(m) ==
  /\ Alive
  /\ EmitStep(m)
  /\ missed' = IF emitting[m].at = "check" /\ closed THEN missed \cup {m} ELSE missed
  /\ UNCHANGED <<imgVars, phase, req, forced>>

\* The image follows the event.  A small one is processed by the request, a large one
\* handed over; no image, or one that is too large, ends the request.
QueueImage(m) ==
  /\ req[m] = "emitting" /\ emitting[m] = Idle
  /\ Alive
  /\ \/ BeginInPlace(JobOf[m]) /\ req' = [req EXCEPT ![m] = "processing"]
     \/ Enqueue(JobOf[m]) /\ req' = [req EXCEPT ![m] = "done"]
     \/ req' = [req EXCEPT ![m] = "done"] /\ UNCHANGED imgVars
  /\ UNCHANGED <<vars, phase, missed, forced>>

\* The request waits for a slot and decodes, in whatever phase; then it returns.
ProcessInPlace(m) ==
  /\ req[m] = "processing"
  /\ Alive
  /\ \/ InPlaceAcquire(JobOf[m]) /\ UNCHANGED req
     \/ EndInPlace(JobOf[m]) /\ req' = [req EXCEPT ![m] = "done"]
  /\ UNCHANGED <<vars, phase, missed, forced>>

\* An S3 request that transforms an image.
Transforming(t) ==
  /\ Alive
  /\ \/ phase = "serving" /\ BeginTransform(t)
     \/ TransformStep(t)
     \/ GiveUp(t)
  /\ UNCHANGED <<vars, serverVars>>

Background ==
  /\ Alive
  /\ \/ (\E w \in Worker : WorkerStep(w)) /\ UNCHANGED imgVars
     \/ StopStep /\ UNCHANGED imgVars
     \/ (\E w \in ImgWorker : ImgStep(w)) /\ UNCHANGED vars
     \/ ImgStopReturn /\ UNCHANGED vars
  /\ UNCHANGED serverVars

-----------------------------------------------------------------------------
\* SIGTERM: the context of the cleaner, the image workers and the janitors is done.
Signal ==
  /\ phase = "serving"
  /\ Cancel
  /\ phase' = "draining"
  /\ UNCHANGED <<vars, req, missed, forced>>

\* Requests of a front are running; transforms on access are S3 requests.
Busy(front) ==
  \/ \E m \in Emitter : Front[m] = front /\ req[m] \in {"running", "emitting", "processing"}
  \/ front = "s3" /\ \E t \in Transform : transform[t] \in {"acquire", "work"}

\* Faulty variant: the workers are stopped before the requests are drained.
Drained_First ==
  /\ phase = "draining"
  /\ ImgStopCall
  /\ phase' = "images"
  /\ UNCHANGED <<vars, req, missed, forced>>

\* srv.Shutdown returns, with all S3 requests done or its 30 seconds over.
Drained ==
  /\ phase = "draining"
  /\ \/ ~Busy("s3") /\ UNCHANGED forced
     \/ Busy("s3") /\ MayForce /\ forced' = TRUE
  /\ ImgStopCall
  /\ phase' = "images"
  /\ UNCHANGED <<vars, req, missed>>

\* Faulty variant: the dispatcher is not told to stop.
ImagesStopped_KeepsDispatcher ==
  /\ phase = "images" /\ imgStop = "stopped"
  /\ phase' = "events"
  /\ UNCHANGED <<vars, imgVars, req, missed, forced>>

ImagesStopped ==
  /\ phase = "images" /\ imgStop = "stopped"
  /\ StopCall
  /\ phase' = "events"
  /\ UNCHANGED <<imgVars, req, missed, forced>>

\* Faulty variant: RunContext does not wait for the dispatcher's workers.
EventsStopped_NoWait ==
  /\ phase = "events"
  /\ phase' = "returned"
  /\ UNCHANGED <<vars, imgVars, req, missed, forced>>

EventsStopped ==
  /\ phase = "events" /\ stop = "stopped"
  /\ phase' = "returned"
  /\ UNCHANGED <<vars, imgVars, req, missed, forced>>

\* Serve fails: the dispatcher is stopped first, requests are not waited for.
ServeFails ==
  /\ MayFail
  /\ phase = "serving"
  /\ Cancel
  /\ StopCall
  /\ phase' = "failevents"
  /\ forced' = TRUE
  /\ UNCHANGED <<req, missed>>

FailedEvents ==
  /\ phase = "failevents" /\ stop = "stopped"
  /\ ImgStopCall
  /\ phase' = "failimages"
  /\ UNCHANGED <<vars, req, missed, forced>>

\* After an error main exits at once, without its deferred calls.
FailedImages ==
  /\ phase = "failimages" /\ imgStop = "stopped"
  /\ phase' = "exited"
  /\ UNCHANGED <<vars, imgVars, req, missed, forced>>

GiveUpStart ==
  /\ phase = "unopened"
  /\ phase' = "aborted"
  /\ UNCHANGED <<vars, imgVars, req, missed, forced>>

\* The deferred StopServer calls of runServe, each with a timeout, and the exit.
Exit ==
  /\ phase = "returned"
  /\ ~Busy("other") \/ MayForce
  /\ phase' = "exited"
  /\ UNCHANGED <<vars, imgVars, req, missed, forced>>

ShutdownStep ==
  Drained \/ ImagesStopped \/ EventsStopped \/ FailedEvents \/ FailedImages \/ GiveUpStart \/ Exit

LifeNext ==
  \/ \E m \in Emitter : Accept(m) \/ Emit(m) \/ Emitting(m) \/ QueueImage(m) \/ ProcessInPlace(m)
  \/ \E t \in Transform : Transforming(t)
  \/ Background
  \/ SetWorkers \/ Open \/ Signal \/ ServeFails
  \/ ShutdownStep

LifeSpec == LifeInit /\ [][LifeNext]_allVars

\* Every goroutine runs on and requests end.  Weak fairness is enough for those that wait
\* for a slot, since each job and each transform comes once.
Running(A) == Alive /\ A /\ UNCHANGED serverVars

LifeFairSpec ==
  /\ LifeSpec
  /\ \A m \in Emitter : WF_allVars(Emit(m) \/ Emitting(m) \/ QueueImage(m) \/ ProcessInPlace(m))
  /\ \A w \in Worker : WF_allVars(Running(WorkerStep(w) /\ UNCHANGED imgVars))
  /\ WF_allVars(Running(StopStep /\ UNCHANGED imgVars))
  /\ \A w \in ImgWorker : WF_allVars(Running(ImgStep(w) /\ UNCHANGED vars))
  /\ \A t \in Transform : WF_allVars(Running(TransformStep(t) /\ UNCHANGED vars))
  /\ WF_allVars(Running(ImgStopReturn /\ UNCHANGED vars))
  /\ WF_allVars(ShutdownStep)

-----------------------------------------------------------------------------
\* Requests are drained before the dispatcher they emit into is stopped
\* (server/server.go:134): a shutdown by signal that is not forced makes no S3 request
\* lose its event to a stopped dispatcher.
S3EventsAreNeverLate ==
  ~forced => \A m \in missed : Front[m] # "s3"

\* Once RunContext has returned from serving (server/server.go:119-145) the workers have left,
\* and every event that was accepted has been handled; unless the drain was forced no S3
\* request emits or decodes an image any more.  Requests of the other fronts go on until main
\* exits.
WorkersEndWithTheServer ==
  phase \in {"returned", "exited"} =>
    /\ \A w \in Worker : at[w] = "gone"
    /\ \A w \in ImgWorker : imgAt[w] = "gone"
    /\ accepted \subseteq handled
    /\ ~forced => ~Busy("s3")
    /\ ~panicked

\* Every accepted event is handled in the end, whatever hooks, lookups and requests do, unless
\* the process gives up its start (server/server.go:102-104).
AcceptedEventsAreHandled ==
  \A e \in Event : e \in accepted ~> e \in handled \/ phase = "aborted"

\* A signal ends the process, and so does a listener that fails or cannot be opened.
ShutdownCompletes == phase \in {"draining", "failevents", "unopened"} ~> ~Alive
===============================================================================
