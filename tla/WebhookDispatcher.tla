-------------------------- MODULE WebhookDispatcher --------------------------
(***************************************************************************)
(* The webhook dispatcher (webhook/dispatcher.go): requests hand events to a *)
(* bounded channel without ever waiting, workers deliver each event to the  *)
(* hooks that match it with up to three attempts, and Stop closes the channel *)
(* under the write lock that every Emit shares for reading, and waits until *)
(* the workers have drained it.                                             *)
(*                                                                          *)
(* A hook's endpoint answers an attempt, or does not although it may have   *)
(* taken the event (a timeout after the request was processed).             *)
(***************************************************************************)
EXTENDS Integers, Sequences, FiniteSets

CONSTANTS
  Event,      \* events, each emitted at most once
  Hook,       \* webhooks
  Matching,   \* Matching[e]: the active hooks whose pattern matches e
  Worker,     \* worker goroutines
  Emitter,    \* goroutines that emit
  None,       \* no event, no hook
  QueueSize,  \* capacity of the channel
  MaxFaults   \* bound: hook lookups that fail

Attempts == 3

ASSUME SizeAssumption  == QueueSize \in Nat \ {0} /\ MaxFaults \in Nat
ASSUME MatchAssumption == Matching \in [Event -> SUBSET Hook]
ASSUME NoneAssumption  == None \notin Event \cup Hook

VARIABLES
  queue,     \* the channel's buffer
  closed,    \* the channel and d.closed, which change together
  emitting,  \* emitting[m]: where goroutine m is in Emit, and its event
  stop,      \* where Stop is: "no", "lock", "wait", "stopped"
  at,        \* at[w]: where worker w is
  event,     \* event[w]: the event w works on
  todo,      \* todo[w]: matching hooks w has still to serve
  hook,      \* hook[w]: the hook w is delivering to
  tries,     \* tries[w]: attempts w has made for that hook
  unsent,    \* events nobody has emitted yet
  accepted,  \* events Emit put into the channel
  handled,   \* events a worker has finished with
  acked,     \* <<event, hook>>: an attempt was answered with 2xx
  sent,      \* sent[<<e, h>>]: attempts made
  panicked,  \* a send on the closed channel
  faults     \* lookups that failed

inbox    == <<queue, closed>>
working  == <<at, event, todo, hook, tries>>
record   == <<acked, sent>>
vars     == <<inbox, emitting, stop, working, unsent, accepted, handled, record, panicked, faults>>

Idle == [at |-> "out", event |-> None]

Init ==
  /\ queue = <<>>
  /\ closed = FALSE
  /\ emitting = [m \in Emitter |-> Idle]
  /\ stop = "no"
  /\ at = [w \in Worker |-> "receive"]
  /\ event = [w \in Worker |-> None]
  /\ todo = [w \in Worker |-> {}]
  /\ hook = [w \in Worker |-> None]
  /\ tries = [w \in Worker |-> 0]
  /\ unsent = Event
  /\ accepted = {}
  /\ handled = {}
  /\ acked = {}
  /\ sent = [x \in Event \X Hook |-> 0]
  /\ panicked = FALSE
  /\ faults = 0

-----------------------------------------------------------------------------
(* Emit. *)

\* RLock: shared with other Emits; a Stop that waits for the write lock goes first.
EmitLock(m, e) ==
  /\ emitting[m] = Idle
  /\ stop # "lock"
  /\ e \in unsent
  /\ unsent' = unsent \ {e}
  /\ emitting' = [emitting EXCEPT ![m] = [at |-> "check", event |-> e]]
  /\ UNCHANGED <<inbox, stop, working, accepted, handled, record, panicked, faults>>

\* A stopped dispatcher drops the event.
EmitCheck(m) ==
  /\ emitting[m].at = "check"
  /\ emitting' = [emitting EXCEPT ![m] = IF closed THEN Idle ELSE [@ EXCEPT !.at = "send"]]
  /\ UNCHANGED <<inbox, stop, working, unsent, accepted, handled, record, panicked, faults>>

\* select: into the channel, or dropped when it is full; then RUnlock.
EmitSend(m) ==
  /\ emitting[m].at = "send"
  /\ emitting' = [emitting EXCEPT ![m] = Idle]
  /\ panicked' = (panicked \/ closed)
  /\ \/ /\ ~closed /\ Len(queue) < QueueSize
        /\ queue' = Append(queue, emitting[m].event)
        /\ accepted' = accepted \cup {emitting[m].event}
     \/ /\ closed \/ Len(queue) = QueueSize
        /\ UNCHANGED <<queue, accepted>>
  /\ UNCHANGED <<closed, stop, working, unsent, handled, record, faults>>

-----------------------------------------------------------------------------
(* Stop. *)

StopCall ==
  /\ stop = "no"
  /\ stop' = "lock"
  /\ UNCHANGED <<inbox, emitting, working, unsent, accepted, handled, record, panicked, faults>>

\* Faulty variant: the channel is closed without the lock.
StopClose_NoLock ==
  /\ stop = "lock"
  /\ closed' = TRUE
  /\ stop' = "wait"
  /\ UNCHANGED <<queue, emitting, working, unsent, accepted, handled, record, panicked, faults>>

\* The write lock is free of readers: the channel is closed.
StopClose ==
  /\ stop = "lock"
  /\ \A m \in Emitter : emitting[m] = Idle
  /\ closed' = TRUE
  /\ stop' = "wait"
  /\ UNCHANGED <<queue, emitting, working, unsent, accepted, handled, record, panicked, faults>>

\* One done received; Stop returns after the last.
StopReap ==
  /\ stop = "wait"
  /\ \E w \in Worker :
       /\ at[w] = "done"
       /\ at' = [at EXCEPT ![w] = "gone"]
       /\ stop' = IF \A x \in Worker \ {w} : at[x] = "gone" THEN "stopped" ELSE "wait"
  /\ UNCHANGED <<inbox, emitting, event, todo, hook, tries, unsent, accepted, handled, record, panicked, faults>>

-----------------------------------------------------------------------------
(* A worker. *)

\* Faulty variant: a worker leaves as soon as the channel is closed.
Receive_QuitsWhenClosed(w) ==
  /\ at[w] = "receive"
  /\ \/ /\ ~closed /\ queue # <<>>
        /\ event' = [event EXCEPT ![w] = Head(queue)]
        /\ queue' = Tail(queue)
        /\ at' = [at EXCEPT ![w] = "lookup"]
     \/ /\ closed
        /\ at' = [at EXCEPT ![w] = "done"]
        /\ UNCHANGED <<queue, event>>
  /\ UNCHANGED <<closed, emitting, stop, todo, hook, tries, unsent, accepted, handled, record, panicked, faults>>

\* range over the channel: the next event, or the end once it is closed and empty.
Receive(w) ==
  /\ at[w] = "receive"
  /\ \/ /\ queue # <<>>
        /\ event' = [event EXCEPT ![w] = Head(queue)]
        /\ queue' = Tail(queue)
        /\ at' = [at EXCEPT ![w] = "lookup"]
     \/ /\ queue = <<>> /\ closed
        /\ at' = [at EXCEPT ![w] = "done"]
        /\ UNCHANGED <<queue, event>>
  /\ UNCHANGED <<closed, emitting, stop, todo, hook, tries, unsent, accepted, handled, record, panicked, faults>>

\* The worker has no hook left to serve and goes back to the channel.
Finish(w) ==
  /\ at' = [at EXCEPT ![w] = "receive"]
  /\ handled' = handled \cup {event[w]}
  /\ event' = [event EXCEPT ![w] = None]

\* GetActiveWebhooksForBucket and matchEvent; a failed lookup drops the event.
Lookup(w) ==
  /\ at[w] = "lookup"
  /\ \/ at' = [at EXCEPT ![w] = "hooks"] /\ todo' = [todo EXCEPT ![w] = Matching[event[w]]]
        /\ UNCHANGED <<event, handled, faults>>
     \/ faults < MaxFaults /\ faults' = faults + 1 /\ Finish(w) /\ UNCHANGED todo
  /\ UNCHANGED <<inbox, emitting, stop, hook, tries, unsent, accepted, record, panicked>>

\* The next matching hook, with a new delivery; none left, the next event.
NextHook(w) ==
  /\ at[w] = "hooks"
  /\ \/ \E h \in todo[w] :
          /\ hook' = [hook EXCEPT ![w] = h]
          /\ todo' = [todo EXCEPT ![w] = @ \ {h}]
          /\ tries' = [tries EXCEPT ![w] = 0]
          /\ at' = [at EXCEPT ![w] = "attempt"]
          /\ UNCHANGED <<event, handled>>
     \/ todo[w] = {} /\ Finish(w) /\ UNCHANGED <<hook, todo, tries>>
  /\ UNCHANGED <<inbox, emitting, stop, unsent, accepted, record, panicked, faults>>

\* Faulty variant: the loop goes on after an answer.
Attempt_NoReturn(w) ==
  /\ at[w] = "attempt"
  /\ tries' = [tries EXCEPT ![w] = @ + 1]
  /\ sent' = [sent EXCEPT ![<<event[w], hook[w]>>] = @ + 1]
  /\ \/ acked' = acked \cup {<<event[w], hook[w]>>}
     \/ UNCHANGED acked
  /\ at' = [at EXCEPT ![w] = IF tries[w] + 1 < Attempts THEN "attempt" ELSE "hooks"]
  /\ UNCHANGED <<inbox, emitting, stop, event, todo, hook, unsent, accepted, handled, panicked, faults>>

\* One POST, after the backoff of the previous one: an answer ends the delivery, as does
\* the third attempt.
Attempt(w) ==
  /\ at[w] = "attempt"
  /\ tries' = [tries EXCEPT ![w] = @ + 1]
  /\ sent' = [sent EXCEPT ![<<event[w], hook[w]>>] = @ + 1]
  /\ \/ /\ acked' = acked \cup {<<event[w], hook[w]>>}
        /\ at' = [at EXCEPT ![w] = "hooks"]
     \/ /\ UNCHANGED acked
        /\ at' = [at EXCEPT ![w] = IF tries[w] + 1 < Attempts THEN "attempt" ELSE "hooks"]
  /\ UNCHANGED <<inbox, emitting, stop, event, todo, hook, unsent, accepted, handled, panicked, faults>>

-----------------------------------------------------------------------------
EmitStep(m) == EmitCheck(m) \/ EmitSend(m)
WorkerStep(w) == Receive(w) \/ Lookup(w) \/ NextHook(w) \/ Attempt(w)
StopStep == StopClose \/ StopReap

Next ==
  \/ \E m \in Emitter : EmitStep(m) \/ \E e \in Event : EmitLock(m, e)
  \/ \E w \in Worker : WorkerStep(w)
  \/ StopCall \/ StopStep

Spec == Init /\ [][Next]_vars

\* Goroutines that can run do run; an attempt ends within the client's timeout.
Fairness ==
  /\ \A m \in Emitter : WF_vars(EmitStep(m))
  /\ \A w \in Worker : WF_vars(WorkerStep(w))
  /\ WF_vars(StopStep)

FairSpec == Spec /\ Fairness

-----------------------------------------------------------------------------
TypeOK ==
  /\ queue \in Seq(Event)
  /\ closed \in BOOLEAN
  /\ emitting \in [Emitter -> [at: {"out", "check", "send"}, event: Event \cup {None}]]
  /\ \A m \in Emitter : emitting[m] # Idle => emitting[m].at # "out" /\ emitting[m].event \in Event
  /\ stop \in {"no", "lock", "wait", "stopped"}
  /\ at \in [Worker -> {"receive", "lookup", "hooks", "attempt", "done", "gone"}]
  /\ event \in [Worker -> Event \cup {None}]
  /\ \A w \in Worker : at[w] \in {"lookup", "hooks", "attempt"} <=> event[w] \in Event
  /\ todo \in [Worker -> SUBSET Hook]
  /\ hook \in [Worker -> Hook \cup {None}]
  /\ \A w \in Worker : at[w] = "attempt" => hook[w] \in Hook
  /\ tries \in [Worker -> Nat]
  /\ unsent \subseteq Event /\ accepted \subseteq Event /\ handled \subseteq Event
  /\ acked \subseteq Event \X Hook
  /\ sent \in [Event \X Hook -> Nat]
  /\ panicked \in BOOLEAN
  /\ faults \in Nat

\* Emit and Stop never race into a send on a closed channel, which would kill the process.
NeverSendsOnClosedQueue == ~panicked

\* An endpoint that answered an event is not sent it again, and none is sent it more
\* than three times.
NoAttemptAfterAnAnswer ==
  [][\A e \in Event, h \in Hook :
       sent'[<<e, h>>] # sent[<<e, h>>] => <<e, h>> \notin acked /\ sent'[<<e, h>>] <= Attempts]_vars
=============================================================================
