--------------------------- MODULE ServerLife_proofs ---------------------------
(***************************************************************************)
(* Theorems about ServerLife, for every set of requests, events, jobs, hooks *)
(* and goroutines: the server only takes steps of its parts, so it inherits *)
(* what is proved of the dispatcher and of the image workers, and it stops  *)
(* them in the right order.  What is proved of the dispatcher alone, for     *)
(* every capacity of its channel, comes first, and then what is proved of    *)
(* the image workers alone.                                                 *)
(***************************************************************************)
EXTENDS ServerLife, FiniteSetTheorems, TLAPS

-----------------------------------------------------------------------------
(* The webhook dispatcher. *)

InQueue(e) == \E i \in 1..Len(queue) : queue[i] = e
InEmit(e)  == \E m \in Emitter : emitting[m] # Idle /\ emitting[m].event = e
InWork(e)  == \E w \in Worker : event[w] = e

\* An event is at one place at a time: nobody's yet, in an Emit, in the channel or with
\* a worker.
OneHolder ==
  /\ \A e \in unsent : ~InEmit(e) /\ ~InQueue(e) /\ ~InWork(e)
  /\ \A e \in Event : InEmit(e) => ~InQueue(e) /\ ~InWork(e)
  /\ \A e \in Event : InQueue(e) => ~InWork(e)
  /\ \A m, n \in Emitter :
       emitting[m] # Idle /\ emitting[n] # Idle /\ emitting[m].event = emitting[n].event => m = n
  /\ \A i, j \in 1..Len(queue) : queue[i] = queue[j] => i = j
  /\ \A w, x \in Worker : event[w] \in Event /\ event[w] = event[x] => w = x

\* What has not been tried yet for a hook: nothing was sent to it, and it has not answered.
Waiting(e, h) ==
  \/ e \in unsent \/ InEmit(e) \/ InQueue(e)
  \/ \E w \in Worker :
       event[w] = e /\ (at[w] = "lookup" \/ (at[w] # "lookup" /\ h \in todo[w]))

Untried == \A e \in Event, h \in Hook : Waiting(e, h) => sent[<<e, h>>] = 0 /\ <<e, h>> \notin acked

\* A delivery under way has no answer, and its loop counts the attempts.
InDelivery ==
  \A w \in Worker : at[w] = "attempt" =>
    /\ <<event[w], hook[w]>> \notin acked
    /\ sent[<<event[w], hook[w]>>] = tries[w]
    /\ tries[w] < Attempts
    /\ hook[w] \notin todo[w]

\* The channel closes when no Emit is past its check, and workers leave it empty.
ClosedInOrder ==
  /\ closed <=> stop \in {"wait", "stopped"}
  /\ closed => \A m \in Emitter : emitting[m].at # "send"
  /\ ~panicked
  /\ \A w \in Worker : at[w] \in {"done", "gone"} => closed /\ queue = <<>>
  /\ stop = "stopped" => queue = <<>> /\ \A w \in Worker : at[w] = "gone"

\* An accepted event is in the channel, with a worker, or handled.
NothingLost == \A e \in accepted : e \in handled \/ InQueue(e) \/ InWork(e)

DispatcherInv == TypeOK /\ OneHolder /\ Untried /\ InDelivery /\ ClosedInOrder /\ NothingLost

-----------------------------------------------------------------------------
(* The channel's buffer. *)

LEMMA TakeFirst ==
  ASSUME NEW S, NEW q \in Seq(S), q # <<>>
  PROVE  /\ Len(q) \in Nat \ {0} /\ Head(q) = q[1] /\ Head(q) \in S
         /\ Tail(q) \in Seq(S) /\ Len(Tail(q)) = Len(q) - 1
         /\ \A i \in 1..(Len(q) - 1) : Tail(q)[i] = q[i + 1]
  OBVIOUS

LEMMA PutLast ==
  ASSUME NEW S, NEW q \in Seq(S), NEW x \in S
  PROVE  /\ Len(q) \in Nat
         /\ Append(q, x) \in Seq(S) /\ Len(Append(q, x)) = Len(q) + 1
         /\ \A i \in 1..Len(q) : Append(q, x)[i] = q[i]
         /\ Append(q, x)[Len(q) + 1] = x
  OBVIOUS

\* Taking the first event of a queue without repetitions.
LEMMA Taken ==
  ASSUME TypeOK, OneHolder, queue # <<>>, queue' = Tail(queue)
  PROVE  /\ queue' \in Seq(Event) /\ Head(queue) \in Event
         /\ InQueue(Head(queue))
         /\ \A e \in Event : InQueue(e)' <=> InQueue(e) /\ e # Head(queue)
         /\ \A i, j \in 1..Len(queue') : queue'[i] = queue'[j] => i = j
  <1>1. queue \in Seq(Event)
    BY DEF TypeOK
  <1>2. /\ Len(queue) \in Nat \ {0} /\ Head(queue) = queue[1] /\ Head(queue) \in Event
        /\ queue' \in Seq(Event) /\ Len(queue') = Len(queue) - 1
        /\ \A i \in 1..(Len(queue) - 1) : queue'[i] = queue[i + 1]
    BY <1>1, TakeFirst
  <1>3. \A i, j \in 1..Len(queue) : queue[i] = queue[j] => i = j
    BY DEF OneHolder
  <1>4. \A i, j \in 1..Len(queue') : queue'[i] = queue'[j] => i = j
    BY <1>2, <1>3
  <1>5. ASSUME NEW e \in Event, InQueue(e)'
        PROVE  InQueue(e) /\ e # Head(queue)
    <2>1. PICK i \in 1..(Len(queue) - 1) : queue[i + 1] = e
      BY <1>2, <1>5 DEF InQueue
    <2> QED
      BY <2>1, <1>2, <1>3 DEF InQueue
  <1>6. ASSUME NEW e \in Event, InQueue(e), e # Head(queue)
        PROVE  InQueue(e)'
    <2>1. PICK i \in 1..Len(queue) : queue[i] = e /\ i # 1
      BY <1>2, <1>6 DEF InQueue
    <2>2. i - 1 \in 1..Len(queue') /\ queue'[i - 1] = e
      BY <2>1, <1>2
    <2> QED
      BY <2>2 DEF InQueue
  <1> QED
    BY <1>2, <1>4, <1>5, <1>6 DEF InQueue

\* Appending an event that is not in the queue.
LEMMA Put ==
  ASSUME TypeOK, OneHolder, NEW x \in Event, ~InQueue(x), queue' = Append(queue, x)
  PROVE  /\ queue' \in Seq(Event)
         /\ \A e \in Event : InQueue(e)' <=> InQueue(e) \/ e = x
         /\ \A i, j \in 1..Len(queue') : queue'[i] = queue'[j] => i = j
  <1>1. queue \in Seq(Event)
    BY DEF TypeOK
  <1>2. /\ Len(queue) \in Nat
        /\ queue' \in Seq(Event) /\ Len(queue') = Len(queue) + 1
        /\ \A i \in 1..Len(queue) : queue'[i] = queue[i]
        /\ queue'[Len(queue) + 1] = x
    BY <1>1, PutLast
  <1>3. \A i, j \in 1..Len(queue) : queue[i] = queue[j] => i = j
    BY DEF OneHolder
  <1>4. \A i \in 1..Len(queue) : queue[i] # x
    BY DEF InQueue
  <1>5. \A i, j \in 1..Len(queue') : queue'[i] = queue'[j] => i = j
    BY <1>2, <1>3, <1>4
  <1>6. ASSUME NEW e \in Event
        PROVE  InQueue(e)' <=> InQueue(e) \/ e = x
    <2>1. \A i \in 1..Len(queue') : i \in 1..Len(queue) \/ i = Len(queue) + 1
      BY <1>2
    <2>2. Len(queue) + 1 \in 1..Len(queue') /\ \A i \in 1..Len(queue) : i \in 1..Len(queue')
      BY <1>2
    <2> QED
      BY <2>1, <2>2, <1>2 DEF InQueue
  <1> QED
    BY <1>2, <1>5, <1>6

-----------------------------------------------------------------------------
(* Every step preserves the types. *)

LEMMA EmitTypes ==
  ASSUME TypeOK, NEW m \in Emitter, EmitStep(m) \/ \E e \in Event : EmitLock(m, e)
  PROVE  TypeOK'
  <1>1. ASSUME NEW e \in Event, EmitLock(m, e)
        PROVE  TypeOK'
    BY <1>1 DEF EmitLock, TypeOK, Idle, inbox, working, record
  <1>2. CASE EmitCheck(m)
    BY <1>2 DEF EmitCheck, TypeOK, Idle, inbox, working, record
  <1>3. CASE EmitSend(m)
    <2>1. emitting[m].event \in Event
      BY <1>3 DEF EmitSend, TypeOK, Idle
    <2>2. queue' \in Seq(Event) /\ accepted' \subseteq Event
      <3>1. queue \in Seq(Event) /\ Append(queue, emitting[m].event) \in Seq(Event)
        BY <2>1, PutLast DEF TypeOK
      <3> QED
        BY <2>1, <3>1, <1>3 DEF EmitSend, TypeOK
    <2> QED
      BY <2>2, <1>3 DEF EmitSend, TypeOK, Idle, working, record
  <1> QED
    BY <1>1, <1>2, <1>3 DEF EmitStep

LEMMA WorkerTypes ==
  ASSUME TypeOK, NEW w \in Worker, WorkerStep(w)
  PROVE  TypeOK'
  <1>1. CASE Receive(w)
    <2>1. queue # <<>> => Head(queue) \in Event /\ Tail(queue) \in Seq(Event)
      BY TakeFirst DEF TypeOK
    <2>2. /\ queue' \in Seq(Event) /\ event' \in [Worker -> Event \cup {None}]
          /\ at' \in [Worker -> {"receive", "lookup", "hooks", "attempt", "done", "gone"}]
          /\ \A x \in Worker : at'[x] \in {"lookup", "hooks", "attempt"} <=> event'[x] \in Event
          /\ \A x \in Worker : at'[x] = "attempt" => at[x] = "attempt"
      <3>1. CASE queue # <<>> /\ event' = [event EXCEPT ![w] = Head(queue)]
                 /\ queue' = Tail(queue) /\ at' = [at EXCEPT ![w] = "lookup"]
        BY <3>1, <2>1 DEF TypeOK
      <3>2. CASE at' = [at EXCEPT ![w] = "done"] /\ UNCHANGED <<queue, event>>
        BY <1>1, <3>2 DEF Receive, TypeOK
      <3> QED
        BY <1>1, <3>1, <3>2 DEF Receive
    <2> QED
      BY <1>1, <2>2 DEF Receive, TypeOK, record
  <1>2. CASE Lookup(w)
    <2>1. event[w] \in Event /\ Matching[event[w]] \subseteq Hook
      BY <1>2, MatchAssumption DEF Lookup, TypeOK
    <2>2. CASE at' = [at EXCEPT ![w] = "hooks"] /\ todo' = [todo EXCEPT ![w] = Matching[event[w]]]
               /\ UNCHANGED <<event, handled, faults>>
      BY <1>2, <2>1, <2>2 DEF Lookup, TypeOK, inbox, record
    <2>3. CASE faults' = faults + 1 /\ Finish(w) /\ UNCHANGED todo
      <3>1. /\ at' \in [Worker -> {"receive", "lookup", "hooks", "attempt", "done", "gone"}]
            /\ event' \in [Worker -> Event \cup {None}]
            /\ \A x \in Worker : at'[x] \in {"lookup", "hooks", "attempt"} <=> event'[x] \in Event
            /\ \A x \in Worker : at'[x] = "attempt" => hook[x] \in Hook
            /\ handled' \subseteq Event /\ faults' \in Nat
        BY <1>2, <2>1, <2>3, NoneAssumption DEF Finish, TypeOK
      <3> QED
        BY <1>2, <2>3, <3>1 DEF Lookup, TypeOK, inbox, record
    <2> QED
      BY <1>2, <2>2, <2>3 DEF Lookup
  <1>3. CASE NextHook(w)
    <2>1. event[w] \in Event /\ todo[w] \subseteq Hook
      BY <1>3 DEF NextHook, TypeOK
    <2>2. CASE todo[w] = {} /\ Finish(w) /\ UNCHANGED <<hook, todo, tries>>
      BY <1>3, <2>1, <2>2, NoneAssumption DEF NextHook, Finish, TypeOK, inbox, record
    <2>3. ASSUME NEW h \in todo[w],
                 /\ hook' = [hook EXCEPT ![w] = h]
                 /\ todo' = [todo EXCEPT ![w] = @ \ {h}]
                 /\ tries' = [tries EXCEPT ![w] = 0]
                 /\ at' = [at EXCEPT ![w] = "attempt"]
                 /\ UNCHANGED <<event, handled>>
          PROVE  TypeOK'
      <3>1. h \in Hook
        BY <2>1
      <3>2. todo' \in [Worker -> SUBSET Hook] /\ hook' \in [Worker -> Hook \cup {None}]
            /\ tries' \in [Worker -> Nat]
        BY <2>3, <3>1 DEF TypeOK
      <3>3. /\ at' \in [Worker -> {"receive", "lookup", "hooks", "attempt", "done", "gone"}]
            /\ \A x \in Worker : at'[x] \in {"lookup", "hooks", "attempt"} <=> event'[x] \in Event
            /\ \A x \in Worker : at'[x] = "attempt" => hook'[x] \in Hook
        BY <1>3, <2>3, <3>1 DEF NextHook, TypeOK
      <3> QED
        BY <1>3, <2>3, <3>2, <3>3 DEF NextHook, TypeOK, inbox, record
    <2> QED
      BY <1>3, <2>2, <2>3 DEF NextHook
  <1>4. CASE Attempt(w)
    <2>1. event[w] \in Event /\ hook[w] \in Hook
      BY <1>4 DEF Attempt, TypeOK
    <2>2. /\ sent' \in [Event \X Hook -> Nat] /\ tries' \in [Worker -> Nat]
          /\ acked' \subseteq Event \X Hook
      BY <1>4, <2>1 DEF Attempt, TypeOK
    <2>3. /\ at' \in [Worker -> {"receive", "lookup", "hooks", "attempt", "done", "gone"}]
          /\ \A x \in Worker : at'[x] \in {"lookup", "hooks", "attempt"} <=> event[x] \in Event
          /\ \A x \in Worker : at'[x] = "attempt" => hook[x] \in Hook
      BY <1>4, <2>1 DEF Attempt, TypeOK
    <2> QED
      BY <1>4, <2>2, <2>3 DEF Attempt, TypeOK, inbox
  <1> QED
    BY <1>1, <1>2, <1>3, <1>4 DEF WorkerStep

LEMMA StopTypes ==
  ASSUME TypeOK, StopCall \/ StopStep
  PROVE  TypeOK'
  <1>1. CASE StopCall
    BY <1>1 DEF StopCall, TypeOK, inbox, working, record
  <1>2. CASE StopClose
    BY <1>2 DEF StopClose, TypeOK, working, record
  <1>3. CASE StopReap
    BY <1>3 DEF StopReap, TypeOK, inbox, record
  <1> QED
    BY <1>1, <1>2, <1>3 DEF StopStep

LEMMA DispatcherTypes ==
  ASSUME TypeOK, [Next]_vars
  PROVE  TypeOK'
  <1>1. CASE Next
    BY <1>1, EmitTypes, WorkerTypes, StopTypes DEF Next
  <1>2. CASE UNCHANGED vars
    BY <1>2 DEF vars, inbox, working, record, TypeOK
  <1> QED
    BY <1>1, <1>2

-----------------------------------------------------------------------------
(* Emit. *)

LEMMA EmitLockStep ==
  ASSUME DispatcherInv, NEW m \in Emitter, NEW e \in Event, EmitLock(m, e)
  PROVE  DispatcherInv'
  <1> USE DEF DispatcherInv
  <1>1. TypeOK'
    BY EmitTypes
  <1>2. /\ emitting[m] = Idle /\ e \in unsent /\ unsent' = unsent \ {e}
        /\ emitting' = [emitting EXCEPT ![m] = [at |-> "check", event |-> e]]
        /\ UNCHANGED <<queue, closed, stop, at, event, todo, hook, tries, accepted, handled, acked, sent, panicked>>
    BY DEF EmitLock, inbox, working, record
  <1>3. /\ \A n \in Emitter : n # m => emitting'[n] = emitting[n]
        /\ emitting'[m] = [at |-> "check", event |-> e] /\ emitting'[m] # Idle
        /\ emitting'[m].event = e /\ emitting'[m].at = "check"
    BY <1>2 DEF TypeOK, Idle
  <1>4. \A x \in Event : InEmit(x)' <=> InEmit(x) \/ x = e
    BY <1>2, <1>3 DEF InEmit
  <1>5. \A x : (InQueue(x)' <=> InQueue(x)) /\ (InWork(x)' <=> InWork(x))
    BY <1>2 DEF InQueue, InWork
  <1>6. ~InEmit(e) /\ ~InQueue(e) /\ ~InWork(e) /\ unsent \subseteq Event
    BY <1>2 DEF OneHolder, TypeOK
  <1>7. OneHolder'
    <2>1. \A n, o \in Emitter :
             emitting'[n] # Idle /\ emitting'[o] # Idle /\ emitting'[n].event = emitting'[o].event => n = o
      BY <1>3, <1>6 DEF OneHolder, InEmit
    <2> QED
      BY <1>2, <1>4, <1>5, <1>6, <2>1 DEF OneHolder
  <1>8. Untried'
    <2>1. \A x \in Event, h \in Hook : Waiting(x, h)' => Waiting(x, h)
      BY <1>2, <1>4, <1>5 DEF Waiting
    <2> QED
      BY <2>1, <1>2 DEF Untried
  <1>9. InDelivery'
    BY <1>2 DEF InDelivery
  <1>10. ClosedInOrder'
    BY <1>2, <1>3 DEF ClosedInOrder
  <1>11. NothingLost'
    BY <1>2, <1>5 DEF NothingLost
  <1> QED
    BY <1>1, <1>7, <1>8, <1>9, <1>10, <1>11

LEMMA EmitCheckStep ==
  ASSUME DispatcherInv, NEW m \in Emitter, EmitCheck(m)
  PROVE  DispatcherInv'
  <1> USE DEF DispatcherInv
  <1>1. TypeOK'
    BY EmitTypes DEF EmitStep
  <1>2. /\ emitting[m].at = "check"
        /\ UNCHANGED <<queue, closed, stop, at, event, todo, hook, tries, unsent, accepted, handled, acked, sent, panicked>>
    BY DEF EmitCheck, inbox, working, record
  <1>3. /\ emitting[m] # Idle
        /\ \A n \in Emitter : n # m => emitting'[n] = emitting[n]
        /\ emitting'[m] # Idle => ~closed /\ emitting'[m].event = emitting[m].event
        /\ closed => emitting'[m] = Idle
    <2>1. emitting[m] \in [at: {"out", "check", "send"}, event: Event \cup {None}]
      BY DEF TypeOK
    <2>2. CASE closed
      BY <2>1, <2>2 DEF EmitCheck, Idle, TypeOK
    <2>3. CASE ~closed
      BY <2>1, <2>3 DEF EmitCheck, Idle, TypeOK
    <2> QED
      BY <2>2, <2>3
  <1>4. \A x \in Event : InEmit(x)' => InEmit(x)
    BY <1>3 DEF InEmit
  <1>5. \A x : (InQueue(x)' <=> InQueue(x)) /\ (InWork(x)' <=> InWork(x))
    BY <1>2 DEF InQueue, InWork
  <1>6. OneHolder'
    <2>1. \A n, o \in Emitter :
             emitting'[n] # Idle /\ emitting'[o] # Idle /\ emitting'[n].event = emitting'[o].event => n = o
      BY <1>3 DEF OneHolder
    <2>2. unsent \subseteq Event
      BY DEF TypeOK
    <2> QED
      BY <1>2, <1>4, <1>5, <2>1, <2>2 DEF OneHolder
  <1>7. Untried'
    <2>1. \A x \in Event, h \in Hook : Waiting(x, h)' => Waiting(x, h)
      BY <1>2, <1>4, <1>5 DEF Waiting
    <2> QED
      BY <2>1, <1>2 DEF Untried
  <1>8. InDelivery'
    BY <1>2 DEF InDelivery
  <1>9. ClosedInOrder'
    BY <1>2, <1>3 DEF ClosedInOrder, Idle
  <1>10. NothingLost'
    BY <1>2, <1>5 DEF NothingLost
  <1> QED
    BY <1>1, <1>6, <1>7, <1>8, <1>9, <1>10

LEMMA EmitSendStep ==
  ASSUME DispatcherInv, NEW m \in Emitter, EmitSend(m)
  PROVE  DispatcherInv'
  <1> USE DEF DispatcherInv
  <1> DEFINE e == emitting[m].event
  <1>1. TypeOK'
    BY EmitTypes DEF EmitStep
  <1>2. /\ emitting[m].at = "send" /\ emitting' = [emitting EXCEPT ![m] = Idle]
        /\ UNCHANGED <<closed, stop, at, event, todo, hook, tries, unsent, handled, acked, sent>>
    BY DEF EmitSend, working, record
  <1>3. emitting[m] # Idle /\ e \in Event /\ InEmit(e)
    BY <1>2 DEF TypeOK, Idle, InEmit
  <1>4. ~closed /\ ~panicked'
    BY <1>2 DEF ClosedInOrder, EmitSend
  <1>5. \A n \in Emitter : emitting'[n] = IF n = m THEN Idle ELSE emitting[n]
    BY <1>2 DEF TypeOK
  <1>6. \A x \in Event : InEmit(x)' => InEmit(x) /\ x # e
    BY <1>3, <1>5 DEF InEmit, OneHolder
  <1>7. ~InQueue(e) /\ ~InWork(e) /\ e \notin unsent /\ unsent \subseteq Event
    BY <1>3 DEF OneHolder, TypeOK
  <1>8. \A x : InWork(x)' <=> InWork(x)
    BY <1>2 DEF InWork
  <1>9. /\ \A x \in Event : InQueue(x)' => InQueue(x) \/ x = e
        /\ \A x \in Event : InQueue(x) => InQueue(x)'
        /\ \A x \in accepted' : x \in accepted \/ InQueue(x)'
        /\ \A i, j \in 1..Len(queue') : queue'[i] = queue'[j] => i = j
    <2>1. CASE queue' = Append(queue, e) /\ accepted' = accepted \cup {e}
      BY <2>1, <1>3, <1>7, Put
    <2>2. CASE UNCHANGED <<queue, accepted>>
      BY <2>2 DEF InQueue, OneHolder
    <2> QED
      BY <2>1, <2>2 DEF EmitSend
  <1> HIDE DEF e
  <1>10. OneHolder'
    <2>1. \A n, o \in Emitter :
             emitting'[n] # Idle /\ emitting'[o] # Idle /\ emitting'[n].event = emitting'[o].event => n = o
      BY <1>5 DEF OneHolder
    <2>2. \A x \in unsent : ~InEmit(x)' /\ ~InQueue(x)' /\ ~InWork(x)'
      BY <1>6, <1>7, <1>8, <1>9 DEF OneHolder
    <2>3. \A x \in Event : InEmit(x)' => ~InQueue(x)' /\ ~InWork(x)'
      BY <1>6, <1>8, <1>9 DEF OneHolder
    <2>4. \A x \in Event : InQueue(x)' => ~InWork(x)'
      BY <1>7, <1>8, <1>9 DEF OneHolder
    <2>5. \A w, x \in Worker : event[w] \in Event /\ event[w] = event[x] => w = x
      BY DEF OneHolder
    <2> QED
      BY <1>2, <1>9, <2>1, <2>2, <2>3, <2>4, <2>5 DEF OneHolder
  <1>11. Untried'
    <2>1. \A x \in Event, h \in Hook : Waiting(x, h)' => Waiting(x, h)
      BY <1>2, <1>3, <1>6, <1>9 DEF Waiting
    <2> QED
      BY <2>1, <1>2 DEF Untried
  <1>12. InDelivery'
    BY <1>2 DEF InDelivery
  <1>13. ClosedInOrder'
    BY <1>2, <1>4, <1>5 DEF ClosedInOrder, Idle
  <1>14. NothingLost'
    BY <1>1, <1>2, <1>8, <1>9 DEF NothingLost, TypeOK
  <1> QED
    BY <1>1, <1>10, <1>11, <1>12, <1>13, <1>14

-----------------------------------------------------------------------------
(* Stop. *)

LEMMA StopInvStep ==
  ASSUME DispatcherInv, StopCall \/ StopStep
  PROVE  DispatcherInv'
  <1> USE DEF DispatcherInv
  <1>1. TypeOK'
    BY StopTypes
  <1>2. UNCHANGED <<queue, emitting, event, todo, hook, tries, unsent, accepted, handled, acked, sent, panicked>>
    BY DEF StopCall, StopStep, StopClose, StopReap, inbox, working, record
  <1>3. \A w \in Worker : at'[w] = at[w] \/ (at[w] = "done" /\ at'[w] = "gone")
    BY DEF StopCall, StopStep, StopClose, StopReap, working, TypeOK
  <1>4. \A x : /\ (InQueue(x)' <=> InQueue(x)) /\ (InWork(x)' <=> InWork(x))
               /\ (InEmit(x)' <=> InEmit(x))
    BY <1>2 DEF InQueue, InWork, InEmit
  <1>5. OneHolder'
    BY <1>2, <1>4 DEF OneHolder
  <1>6. Untried'
    <2>1. \A w \in Worker : event[w] \in Event => at'[w] = at[w]
      BY <1>3 DEF TypeOK
    <2>2. \A x \in Event, h \in Hook : Waiting(x, h)' => Waiting(x, h)
      BY <1>2, <1>4, <2>1 DEF Waiting
    <2> QED
      BY <1>2, <2>2 DEF Untried
  <1>7. InDelivery'
    BY <1>2, <1>3 DEF InDelivery
  <1>8. ClosedInOrder'
    <2>1. CASE StopCall
      BY <2>1 DEF StopCall, ClosedInOrder, inbox, working
    <2>2. CASE StopClose
      BY <2>2 DEF StopClose, ClosedInOrder, working, Idle
    <2>3. CASE StopReap
      <3>1. PICK w \in Worker :
              /\ at[w] = "done" /\ at' = [at EXCEPT ![w] = "gone"]
              /\ stop' = IF \A x \in Worker \ {w} : at[x] = "gone" THEN "stopped" ELSE "wait"
        BY <2>3 DEF StopReap
      <3>2. closed' = closed /\ stop = "wait" /\ stop' \in {"wait", "stopped"}
        BY <2>3, <3>1 DEF StopReap, inbox
      <3>3. stop' = "stopped" => \A x \in Worker : at'[x] = "gone"
        BY <3>1 DEF TypeOK
      <3> QED
        BY <1>2, <1>3, <3>2, <3>3 DEF ClosedInOrder
    <2> QED
      BY <2>1, <2>2, <2>3 DEF StopStep
  <1>9. NothingLost'
    BY <1>2, <1>4 DEF NothingLost
  <1> QED
    BY <1>1, <1>5, <1>6, <1>7, <1>8, <1>9

-----------------------------------------------------------------------------
(* A worker. *)

LEMMA ReceiveStep ==
  ASSUME DispatcherInv, NEW w \in Worker, Receive(w)
  PROVE  DispatcherInv'
  <1> USE DEF DispatcherInv
  <1>1. TypeOK'
    BY WorkerTypes DEF WorkerStep
  <1>2. /\ at[w] = "receive" /\ event[w] \notin Event
        /\ UNCHANGED <<closed, emitting, stop, todo, hook, tries, unsent, accepted, handled, acked, sent, panicked>>
    BY DEF Receive, record, TypeOK
  <1>3. \A x : InEmit(x)' <=> InEmit(x)
    BY <1>2 DEF InEmit
  <1>4. CASE /\ queue # <<>> /\ event' = [event EXCEPT ![w] = Head(queue)]
             /\ queue' = Tail(queue) /\ at' = [at EXCEPT ![w] = "lookup"]
    <2> DEFINE e == Head(queue)
    <2>1. /\ e \in Event /\ InQueue(e)
          /\ \A x \in Event : InQueue(x)' <=> InQueue(x) /\ x # e
          /\ \A i, j \in 1..Len(queue') : queue'[i] = queue'[j] => i = j
      BY <1>4, Taken
    <2>2. \A x \in Worker : /\ event'[x] = IF x = w THEN e ELSE event[x]
                            /\ at'[x] = IF x = w THEN "lookup" ELSE at[x]
      BY <1>4 DEF TypeOK
    <2> HIDE DEF e
    <2>3. \A x \in Event : InWork(x)' <=> InWork(x) \/ x = e
      BY <1>2, <2>2 DEF InWork
    <2>4. ~InEmit(e) /\ ~InWork(e) /\ e \notin unsent /\ unsent \subseteq Event
      BY <2>1 DEF OneHolder, TypeOK
    <2>5. OneHolder'
      <3>1. \A x, y \in Worker : event'[x] \in Event /\ event'[x] = event'[y] => x = y
        BY <2>2, <2>4 DEF OneHolder, InWork
      <3>2. /\ \A x \in unsent : ~InEmit(x)' /\ ~InQueue(x)' /\ ~InWork(x)'
            /\ \A x \in Event : InEmit(x)' => ~InQueue(x)' /\ ~InWork(x)'
            /\ \A x \in Event : InQueue(x)' => ~InWork(x)'
        BY <1>3, <2>1, <2>3, <2>4 DEF OneHolder
      <3> QED
        BY <1>2, <2>1, <3>1, <3>2 DEF OneHolder
    <2>6. Untried'
      <3>1. \A x \in Event, h \in Hook : Waiting(x, h)' => Waiting(x, h)
        BY <1>2, <1>3, <2>1, <2>2 DEF Waiting
      <3> QED
        BY <1>2, <3>1 DEF Untried
    <2>7. InDelivery'
      BY <1>2, <2>2 DEF InDelivery
    <2>8. ClosedInOrder'
      <3>1. \A x \in Worker : at'[x] \notin {"done", "gone"}
        BY <1>4, <2>2 DEF ClosedInOrder
      <3>2. stop # "stopped"
        BY <1>2 DEF ClosedInOrder
      <3> QED
        BY <1>2, <3>1, <3>2 DEF ClosedInOrder
    <2>9. NothingLost'
      BY <1>2, <2>1, <2>3 DEF NothingLost, TypeOK
    <2> QED
      BY <1>1, <2>5, <2>6, <2>7, <2>8, <2>9
  <1>5. CASE /\ queue = <<>> /\ closed
             /\ at' = [at EXCEPT ![w] = "done"] /\ UNCHANGED <<queue, event>>
    <2>1. \A x \in Worker : at'[x] = IF x = w THEN "done" ELSE at[x]
      BY <1>5 DEF TypeOK
    <2>2. \A x : (InQueue(x)' <=> InQueue(x)) /\ (InWork(x)' <=> InWork(x))
      BY <1>5 DEF InQueue, InWork
    <2>3. OneHolder'
      BY <1>2, <1>3, <1>5, <2>2 DEF OneHolder
    <2>4. Untried'
      <3>1. \A x \in Event, h \in Hook : Waiting(x, h)' => Waiting(x, h)
        BY <1>2, <1>3, <1>5, <2>1, <2>2 DEF Waiting
      <3> QED
        BY <1>2, <3>1 DEF Untried
    <2>5. InDelivery'
      BY <1>2, <1>5, <2>1 DEF InDelivery
    <2>6. ClosedInOrder'
      <3>1. stop # "stopped"
        BY <1>2 DEF ClosedInOrder
      <3> QED
        BY <1>2, <1>5, <2>1, <3>1 DEF ClosedInOrder
    <2>7. NothingLost'
      BY <1>2, <2>2 DEF NothingLost
    <2> QED
      BY <1>1, <2>3, <2>4, <2>5, <2>6, <2>7
  <1> QED
    BY <1>4, <1>5 DEF Receive

\* The end of an event's handling.
LEMMA FinishStep ==
  ASSUME DispatcherInv, TypeOK', NEW w \in Worker, at[w] \in {"lookup", "hooks"}, Finish(w),
         UNCHANGED <<queue, closed, emitting, stop, todo, hook, tries, unsent, accepted, acked, sent, panicked>>
  PROVE  DispatcherInv'
  <1> USE DEF DispatcherInv
  <1>1. \A x \in Worker : /\ event'[x] = IF x = w THEN None ELSE event[x]
                          /\ at'[x] = IF x = w THEN "receive" ELSE at[x]
    BY DEF Finish, TypeOK
  <1>2. event[w] \in Event /\ handled' = handled \cup {event[w]} /\ None \notin Event
    BY NoneAssumption DEF Finish, TypeOK
  <1>3. \A x : (InQueue(x)' <=> InQueue(x)) /\ (InEmit(x)' <=> InEmit(x))
    BY DEF InQueue, InEmit
  <1>4. \A x \in Event : /\ InWork(x)' => InWork(x)
                         /\ InWork(x) => InWork(x)' \/ x = event[w]
    BY <1>1, <1>2 DEF InWork
  <1>5. OneHolder'
    <2>1. \A x, y \in Worker : event'[x] \in Event /\ event'[x] = event'[y] => x = y
      BY <1>1, <1>2 DEF OneHolder
    <2>2. unsent \subseteq Event
      BY DEF TypeOK
    <2> QED
      BY <1>3, <1>4, <2>1, <2>2 DEF OneHolder
  <1>6. Untried'
    <2>1. \A x \in Event, h \in Hook : Waiting(x, h)' => Waiting(x, h)
      BY <1>1, <1>2, <1>3 DEF Waiting
    <2> QED
      BY <2>1 DEF Untried
  <1>7. InDelivery'
    BY <1>1 DEF InDelivery
  <1>8. ClosedInOrder'
    BY <1>1 DEF ClosedInOrder
  <1>9. NothingLost'
    <2>1. accepted \subseteq Event
      BY DEF TypeOK
    <2> QED
      BY <1>2, <1>3, <1>4, <2>1 DEF NothingLost
  <1> QED
    BY <1>5, <1>6, <1>7, <1>8, <1>9

LEMMA LookupStep ==
  ASSUME DispatcherInv, NEW w \in Worker, Lookup(w)
  PROVE  DispatcherInv'
  <1> USE DEF DispatcherInv
  <1>1. TypeOK'
    BY WorkerTypes DEF WorkerStep
  <1>2. /\ at[w] = "lookup"
        /\ UNCHANGED <<queue, closed, emitting, stop, hook, tries, unsent, accepted, acked, sent, panicked>>
    BY DEF Lookup, inbox, record
  <1>3. CASE Finish(w) /\ UNCHANGED todo
    BY <1>1, <1>2, <1>3, FinishStep
  <1>4. CASE /\ at' = [at EXCEPT ![w] = "hooks"]
             /\ todo' = [todo EXCEPT ![w] = Matching[event[w]]]
             /\ UNCHANGED <<event, handled>>
    <2>1. \A x \in Worker : /\ at'[x] = IF x = w THEN "hooks" ELSE at[x]
                            /\ x # w => todo'[x] = todo[x]
      BY <1>4 DEF TypeOK
    <2>2. \A x : /\ (InQueue(x)' <=> InQueue(x)) /\ (InEmit(x)' <=> InEmit(x))
                 /\ (InWork(x)' <=> InWork(x))
      BY <1>2, <1>4 DEF InQueue, InEmit, InWork
    <2>3. OneHolder'
      BY <1>2, <1>4, <2>2 DEF OneHolder
    <2>4. Untried'
      <3>1. \A x \in Event, h \in Hook : Waiting(x, h)' => Waiting(x, h)
        BY <1>2, <1>4, <2>1, <2>2 DEF Waiting
      <3> QED
        BY <1>2, <3>1 DEF Untried
    <2>5. InDelivery'
      BY <1>2, <1>4, <2>1 DEF InDelivery
    <2>6. ClosedInOrder'
      BY <1>2, <2>1 DEF ClosedInOrder
    <2>7. NothingLost'
      BY <1>2, <1>4, <2>2 DEF NothingLost
    <2> QED
      BY <1>1, <2>3, <2>4, <2>5, <2>6, <2>7
  <1> QED
    BY <1>3, <1>4 DEF Lookup

LEMMA NextHookStep ==
  ASSUME DispatcherInv, NEW w \in Worker, NextHook(w)
  PROVE  DispatcherInv'
  <1> USE DEF DispatcherInv
  <1>1. TypeOK'
    BY WorkerTypes DEF WorkerStep
  <1>2. /\ at[w] = "hooks"
        /\ UNCHANGED <<queue, closed, emitting, stop, unsent, accepted, acked, sent, panicked>>
    BY DEF NextHook, inbox, record
  <1>3. CASE Finish(w) /\ UNCHANGED <<hook, todo, tries>>
    BY <1>1, <1>2, <1>3, FinishStep
  <1>4. ASSUME NEW h \in todo[w],
               /\ hook' = [hook EXCEPT ![w] = h]
               /\ todo' = [todo EXCEPT ![w] = @ \ {h}]
               /\ tries' = [tries EXCEPT ![w] = 0]
               /\ at' = [at EXCEPT ![w] = "attempt"]
               /\ UNCHANGED <<event, handled>>
        PROVE  DispatcherInv'
    <2>1. h \in Hook /\ event[w] \in Event
      BY <1>2, <1>4 DEF TypeOK
    <2>2. \A x \in Worker : /\ at'[x] = IF x = w THEN "attempt" ELSE at[x]
                            /\ hook'[x] = IF x = w THEN h ELSE hook[x]
                            /\ tries'[x] = IF x = w THEN 0 ELSE tries[x]
                            /\ todo'[x] = IF x = w THEN todo[w] \ {h} ELSE todo[x]
      BY <1>4 DEF TypeOK
    <2>3. \A x : /\ (InQueue(x)' <=> InQueue(x)) /\ (InEmit(x)' <=> InEmit(x))
                 /\ (InWork(x)' <=> InWork(x))
      BY <1>2, <1>4 DEF InQueue, InEmit, InWork
    <2>4. OneHolder'
      BY <1>2, <1>4, <2>3 DEF OneHolder
    <2>5. Untried'
      <3>1. \A x \in Event, g \in Hook : Waiting(x, g)' => Waiting(x, g)
        BY <1>2, <1>4, <2>2, <2>3 DEF Waiting
      <3> QED
        BY <1>2, <3>1 DEF Untried
    <2>6. InDelivery'
      <3>1. Waiting(event[w], h)
        BY <1>2, <1>4 DEF Waiting
      <3>2. sent[<<event[w], h>>] = 0 /\ <<event[w], h>> \notin acked
        BY <2>1, <3>1 DEF Untried
      <3> QED
        BY <1>2, <1>4, <2>2, <3>2 DEF InDelivery, Attempts
    <2>7. ClosedInOrder'
      BY <1>2, <2>2 DEF ClosedInOrder
    <2>8. NothingLost'
      BY <1>2, <1>4, <2>3 DEF NothingLost
    <2> QED
      BY <1>1, <2>4, <2>5, <2>6, <2>7, <2>8
  <1> QED
    BY <1>3, <1>4 DEF NextHook

LEMMA AttemptStep ==
  ASSUME DispatcherInv, NEW w \in Worker, Attempt(w)
  PROVE  DispatcherInv'
  <1> USE DEF DispatcherInv
  <1> DEFINE e == event[w]
             h == hook[w]
  <1>1. TypeOK'
    BY WorkerTypes DEF WorkerStep
  <1>2. /\ at[w] = "attempt" /\ e \in Event /\ h \in Hook
        /\ UNCHANGED <<queue, closed, emitting, stop, event, todo, hook, unsent, accepted, handled, panicked>>
    BY DEF Attempt, inbox, TypeOK
  <1>3. /\ tries[w] \in Nat /\ tries[w] < Attempts /\ sent[<<e, h>>] = tries[w] /\ h \notin todo[w]
        /\ <<e, h>> \notin acked
    BY <1>2 DEF InDelivery, TypeOK
  <1>4. /\ \A x \in Worker : tries'[x] = IF x = w THEN tries[w] + 1 ELSE tries[x]
        /\ \A x \in Event, g \in Hook :
             sent'[<<x, g>>] = IF <<x, g>> = <<e, h>> THEN sent[<<e, h>>] + 1 ELSE sent[<<x, g>>]
        /\ \A x \in Event, g \in Hook : <<x, g>> # <<e, h>> => (<<x, g>> \in acked' <=> <<x, g>> \in acked)
    BY <1>2 DEF Attempt, TypeOK
  <1>5. /\ \A x \in Worker : x # w => at'[x] = at[x]
        /\ at'[w] \in {"hooks", "attempt"}
        /\ at'[w] = "attempt" => UNCHANGED acked /\ tries[w] + 1 < Attempts
    BY DEF Attempt, TypeOK
  <1>6. \A x : /\ (InQueue(x)' <=> InQueue(x)) /\ (InEmit(x)' <=> InEmit(x))
               /\ (InWork(x)' <=> InWork(x))
    BY <1>2 DEF InQueue, InEmit, InWork
  <1>7. OneHolder'
    BY <1>2, <1>6 DEF OneHolder
  <1>8. \A x \in Worker : event[x] = e => x = w
    BY <1>2 DEF OneHolder
  <1>9. ASSUME NEW x \in Event, NEW g \in Hook, <<x, g>> = <<e, h>>
        PROVE  ~Waiting(x, g)'
    <2>1. x = event[w] /\ g = hook[w]
      BY <1>9
    <2>2. InWork(x) /\ x \notin unsent /\ ~InEmit(x) /\ ~InQueue(x)
      BY <2>1, <1>2 DEF OneHolder, InWork
    <2>3. \A y \in Worker : event[y] = x => y = w
      BY <2>1, <1>8
    <2>4. at'[w] # "lookup" /\ g \notin todo[w]
      BY <2>1, <1>3, <1>5
    <2> QED
      BY <2>2, <2>3, <2>4, <1>2, <1>6 DEF Waiting
  <1> HIDE DEF e, h
  <1>10. Untried'
    <2>1. \A x \in Event, g \in Hook : Waiting(x, g)' => Waiting(x, g)
      BY <1>2, <1>5, <1>6 DEF Waiting
    <2> QED
      BY <1>4, <1>9, <2>1 DEF Untried
  <1>11. InDelivery'
    <2>1. ASSUME NEW x \in Worker, x # w, at'[x] = "attempt"
          PROVE  /\ <<event[x], hook[x]>> \notin acked'
                 /\ sent'[<<event[x], hook[x]>>] = tries'[x]
                 /\ tries'[x] < Attempts
                 /\ hook[x] \notin todo[x]
      <3>1. at[x] = "attempt" /\ event[x] \in Event /\ hook[x] \in Hook /\ event[x] # e
        BY <2>1, <1>5, <1>8 DEF TypeOK
      <3>2. <<event[x], hook[x]>> # <<e, h>>
        BY <3>1
      <3>3. /\ sent'[<<event[x], hook[x]>>] = sent[<<event[x], hook[x]>>]
            /\ <<event[x], hook[x]>> \in acked' <=> <<event[x], hook[x]>> \in acked
            /\ tries'[x] = tries[x]
        BY <2>1, <3>1, <3>2, <1>4
      <3> QED
        BY <3>1, <3>3 DEF InDelivery
    <2>2. ASSUME at'[w] = "attempt"
          PROVE  /\ <<event[w], hook[w]>> \notin acked'
                 /\ sent'[<<event[w], hook[w]>>] = tries'[w]
                 /\ tries'[w] < Attempts
                 /\ hook[w] \notin todo[w]
      BY <2>2, <1>2, <1>3, <1>4, <1>5 DEF e, h
    <2> QED
      BY <1>2, <2>1, <2>2 DEF InDelivery
  <1>12. ClosedInOrder'
    BY <1>2, <1>5 DEF ClosedInOrder
  <1>13. NothingLost'
    BY <1>2, <1>6 DEF NothingLost
  <1> QED
    BY <1>1, <1>7, <1>10, <1>11, <1>12, <1>13

-----------------------------------------------------------------------------
(* The invariant, and what follows from it. *)

LEMMA DispatcherInit ==
  ASSUME Init
  PROVE  DispatcherInv
  <1>1. TypeOK
    <2>1. /\ queue \in Seq(Event) /\ faults \in Nat /\ stop \in {"no", "lock", "wait", "stopped"}
          /\ sent \in [Event \X Hook -> Nat] /\ tries \in [Worker -> Nat]
          /\ unsent \subseteq Event /\ accepted \subseteq Event /\ handled \subseteq Event
          /\ acked \subseteq Event \X Hook
      BY DEF Init
    <2>2. /\ emitting \in [Emitter -> [at: {"out", "check", "send"}, event: Event \cup {None}]]
          /\ \A m \in Emitter : emitting[m] = Idle
      <3>1. Idle \in [at: {"out", "check", "send"}, event: Event \cup {None}]
        BY DEF Idle
      <3> QED
        BY <3>1 DEF Init
    <2>3. /\ at \in [Worker -> {"receive", "lookup", "hooks", "attempt", "done", "gone"}]
          /\ event \in [Worker -> Event \cup {None}] /\ todo \in [Worker -> SUBSET Hook]
          /\ hook \in [Worker -> Hook \cup {None}]
          /\ \A w \in Worker : at[w] = "receive" /\ event[w] \notin Event
      BY NoneAssumption DEF Init
    <2>4. closed \in BOOLEAN /\ panicked \in BOOLEAN
      BY DEF Init
    <2> QED
      BY <2>1, <2>2, <2>3, <2>4 DEF TypeOK
  <1>2. \A x : ~InQueue(x) /\ ~InEmit(x)
    BY DEF Init, InQueue, InEmit
  <1>3. \A x \in Event : ~InWork(x)
    BY NoneAssumption DEF Init, InWork
  <1>4. OneHolder
    BY <1>2, <1>3, NoneAssumption DEF Init, OneHolder
  <1>5. Untried
    BY DEF Init, Untried
  <1>6. InDelivery /\ ClosedInOrder /\ NothingLost
    BY DEF Init, InDelivery, ClosedInOrder, NothingLost, Idle
  <1> QED
    BY <1>1, <1>4, <1>5, <1>6 DEF DispatcherInv

LEMMA DispatcherStep ==
  ASSUME DispatcherInv, [Next]_vars
  PROVE  DispatcherInv'
  <1>1. CASE UNCHANGED vars
    BY <1>1 DEF vars, inbox, working, record, DispatcherInv, TypeOK, OneHolder, Untried, Waiting,
                InDelivery, ClosedInOrder, NothingLost, InQueue, InEmit, InWork
  <1>2. ASSUME NEW m \in Emitter, EmitStep(m) \/ \E e \in Event : EmitLock(m, e)
        PROVE  DispatcherInv'
    BY <1>2, EmitLockStep, EmitCheckStep, EmitSendStep DEF EmitStep
  <1>3. ASSUME NEW w \in Worker, WorkerStep(w)
        PROVE  DispatcherInv'
    BY <1>3, ReceiveStep, LookupStep, NextHookStep, AttemptStep DEF WorkerStep
  <1>4. CASE StopCall \/ StopStep
    BY <1>4, StopInvStep
  <1> QED
    BY <1>1, <1>2, <1>3, <1>4 DEF Next

\* The invariant holds throughout.
THEOREM DispatcherInvariant == Spec => []DispatcherInv
  <1>1. Init => DispatcherInv
    BY DispatcherInit
  <1>2. DispatcherInv /\ [Next]_vars => DispatcherInv'
    BY DispatcherStep
  <1> QED
    BY <1>1, <1>2, PTL DEF Spec

\* Emit and Stop never race into a send on the closed channel (dispatcher.go Emit, Stop),
\* whatever the number of goroutines.
THEOREM NeverSendsOnClosed == Spec => []NeverSendsOnClosedQueue
  <1>1. DispatcherInv => NeverSendsOnClosedQueue
    BY DEF DispatcherInv, ClosedInOrder, NeverSendsOnClosedQueue
  <1> QED
    BY <1>1, DispatcherInvariant, PTL

\* An attempt is only ever made for a delivery that has no answer and attempts left.
LEMMA AttemptsAreFew ==
  ASSUME DispatcherInv, [Next]_vars
  PROVE  \A e \in Event, h \in Hook :
           sent'[<<e, h>>] # sent[<<e, h>>] => <<e, h>> \notin acked /\ sent'[<<e, h>>] <= Attempts
  <1>1. CASE UNCHANGED sent
    BY <1>1
  <1>2. ASSUME NEW w \in Worker, Attempt(w)
        PROVE  \A e \in Event, h \in Hook :
                 sent'[<<e, h>>] # sent[<<e, h>>] => <<e, h>> \notin acked /\ sent'[<<e, h>>] <= Attempts
    <2>1. /\ event[w] \in Event /\ hook[w] \in Hook /\ tries[w] \in Nat
          /\ <<event[w], hook[w]>> \notin acked
          /\ sent[<<event[w], hook[w]>>] = tries[w] /\ tries[w] < Attempts
      BY <1>2 DEF Attempt, DispatcherInv, InDelivery, TypeOK
    <2>2. sent' = [sent EXCEPT ![<<event[w], hook[w]>>] = @ + 1] /\ sent \in [Event \X Hook -> Nat]
      BY <1>2 DEF Attempt, DispatcherInv, TypeOK
    <2> QED
      BY <2>1, <2>2 DEF Attempts
  <1>3. UNCHANGED sent \/ \E w \in Worker : Attempt(w)
    BY DEF Next, vars, record, EmitStep, EmitLock, EmitCheck, EmitSend, WorkerStep, Receive, Lookup,
           NextHook, StopCall, StopStep, StopClose, StopReap
  <1> QED
    BY <1>1, <1>2, <1>3

\* An endpoint that answered an event is not sent it again, and none is sent it more than
\* three times (dispatcher.go deliver).
THEOREM AttemptsEnd == Spec => NoAttemptAfterAnAnswer
  <1>1. DispatcherInv /\ [Next]_vars =>
          [\A e \in Event, h \in Hook :
             sent'[<<e, h>>] # sent[<<e, h>>] => <<e, h>> \notin acked /\ sent'[<<e, h>>] <= Attempts]_vars
    BY AttemptsAreFew
  <1> QED
    BY <1>1, DispatcherInvariant, PTL DEF Spec, NoAttemptAfterAnAnswer

-----------------------------------------------------------------------------
(* The image workers. *)

Decoding == {w \in ImgWorker : imgAt[w] = "process"}
OnAccess == {t \in Transform : transform[t] = "work"}
InPlace  == {j \in Job : inPlace[j] = "process"}

\* Stop returns when every worker has left, and none comes back.
GoneWhenStopped == imgStop = "stopped" => \A w \in ImgWorker : imgAt[w] = "gone"

ImageInv == ImgTypeOK /\ SlotsAreAccountedFor /\ GoneWhenStopped

-----------------------------------------------------------------------------
(* Counting the goroutines at one place. *)

LEMMA SlotsMeans ==
  /\ SlotsAreAccountedFor <=>
       taken = Cardinality(Decoding) + Cardinality(OnAccess) + Cardinality(InPlace) /\ taken <= Slots
  /\ SlotsAreAccountedFor' <=>
       taken' = Cardinality(Decoding') + Cardinality(OnAccess') + Cardinality(InPlace') /\ taken' <= Slots
  BY DEF SlotsAreAccountedFor, Decoding, OnAccess, InPlace

LEMMA Counts ==
  /\ IsFiniteSet(Decoding) /\ Cardinality(Decoding) \in Nat
  /\ IsFiniteSet(OnAccess) /\ Cardinality(OnAccess) \in Nat
  /\ IsFiniteSet(InPlace) /\ Cardinality(InPlace) \in Nat
  <1>1. Decoding \in SUBSET ImgWorker /\ OnAccess \in SUBSET Transform /\ InPlace \in SUBSET Job
    BY DEF Decoding, OnAccess, InPlace
  <1> QED
    BY <1>1, GoroutinesAssumption, FS_Subset, FS_CardinalityType

-----------------------------------------------------------------------------
(* Steps that neither take nor release a slot. *)

LEMMA EnqueueStep ==
  ASSUME ImageInv, NEW j \in Job, Enqueue(j)
  PROVE  ImageInv'
  <1>1. jobs' \in Seq(Job) /\ newJobs' \subseteq newJobs /\ queued' \subseteq Job
    <2>1. Append(jobs, j) \in Seq(Job)
      BY DEF ImageInv, ImgTypeOK
    <2> QED
      BY <2>1 DEF Enqueue, ImageInv, ImgTypeOK
  <1>2. UNCHANGED <<jobsClosed, cancelled, imgStop, imgAt, imgJob, transform, inPlace, taken, processed>>
    BY DEF Enqueue
  <1> QED
    BY <1>1, <1>2 DEF ImageInv, ImgTypeOK, SlotsAreAccountedFor, GoneWhenStopped

LEMMA BeginInPlaceStep ==
  ASSUME ImageInv, NEW j \in Job, BeginInPlace(j)
  PROVE  ImageInv'
  <1>1. /\ UNCHANGED <<jobs, jobsClosed, cancelled, imgStop, imgAt, imgJob, transform, taken, queued, processed>>
        /\ newJobs' \subseteq Job /\ \A i \in newJobs' : inPlace'[i] = "no"
        /\ inPlace' \in [Job -> {"no", "acquire", "process", "done"}]
        /\ \A i \in Job : inPlace'[i] = "process" <=> inPlace[i] = "process"
    BY DEF BeginInPlace, ImageInv, ImgTypeOK
  <1>2. OnAccess' = OnAccess /\ Decoding' = Decoding /\ InPlace' = InPlace
    BY <1>1 DEF Decoding, OnAccess, InPlace
  <1> QED
    BY <1>1, <1>2, SlotsMeans DEF ImageInv, ImgTypeOK, GoneWhenStopped

LEMMA SelectStep ==
  ASSUME ImageInv, NEW w \in ImgWorker, Select(w)
  PROVE  ImageInv'
  <1>1. UNCHANGED <<jobsClosed, cancelled, imgStop, transform, inPlace, taken, newJobs, queued, processed>>
    BY DEF Select
  <1>2. imgAt[w] = "select" /\ imgStop # "stopped"
    BY DEF Select, ImageInv, GoneWhenStopped
  <1>3. /\ imgAt' \in [ImgWorker -> {"select", "acquire", "process", "gone"}]
        /\ \A x \in ImgWorker : imgAt'[x] = "process" <=> imgAt[x] = "process"
    BY <1>2 DEF Select, ImageInv, ImgTypeOK
  <1>4. /\ jobs' \in Seq(Job) /\ imgJob' \in [ImgWorker -> Job \cup {NoJob}]
        /\ \A x \in ImgWorker : imgAt'[x] \in {"acquire", "process"} => imgJob'[x] \in Job
    <2>1. jobs # <<>> => Head(jobs) \in Job /\ Tail(jobs) \in Seq(Job)
      BY DEF ImageInv, ImgTypeOK
    <2> QED
      BY <2>1, <1>2 DEF Select, ImageInv, ImgTypeOK
  <1>5. Decoding' = Decoding /\ OnAccess' = OnAccess /\ InPlace' = InPlace
    BY <1>1, <1>3 DEF Decoding, OnAccess, InPlace
  <1> QED
    BY <1>1, <1>2, <1>3, <1>4, <1>5, SlotsMeans DEF ImageInv, ImgTypeOK, GoneWhenStopped

LEMMA TransformMoves ==
  ASSUME ImageInv, NEW t \in Transform, BeginTransform(t) \/ GiveUp(t)
  PROVE  ImageInv'
  <1>1. /\ UNCHANGED <<jobs, jobsClosed, cancelled, imgStop, imgAt, imgJob, inPlace, taken, newJobs, queued, processed>>
        /\ transform' \in [Transform -> {"new", "acquire", "work", "done"}]
        /\ \A x \in Transform : transform'[x] = "work" <=> transform[x] = "work"
    BY DEF BeginTransform, GiveUp, ImageInv, ImgTypeOK
  <1>2. OnAccess' = OnAccess /\ Decoding' = Decoding /\ InPlace' = InPlace
    BY <1>1 DEF Decoding, OnAccess, InPlace
  <1> QED
    BY <1>1, <1>2, SlotsMeans DEF ImageInv, ImgTypeOK, GoneWhenStopped

LEMMA EndMoves ==
  ASSUME ImageInv, Cancel \/ ImgStopCall \/ ImgStopReturn
  PROVE  ImageInv'
  BY DEF Cancel, ImgStopCall, ImgStopReturn, ImageInv, ImgTypeOK, SlotsAreAccountedFor, GoneWhenStopped

-----------------------------------------------------------------------------
(* Steps that take or release a slot. *)

LEMMA WorkerAcquireStep ==
  ASSUME ImageInv, NEW w \in ImgWorker, WorkerAcquire(w)
  PROVE  ImageInv'
  <1>1. /\ UNCHANGED <<jobs, jobsClosed, cancelled, imgStop, imgJob, transform, inPlace, newJobs, queued, processed>>
        /\ imgAt[w] = "acquire" /\ taken < Slots /\ taken' = taken + 1 /\ imgAt' = [imgAt EXCEPT ![w] = "process"]
    BY DEF WorkerAcquire
  <1>2. ImgTypeOK'
    BY <1>1 DEF ImageInv, ImgTypeOK
  <1>3. Cardinality(Decoding') = Cardinality(Decoding) + 1
    <2>1. imgAt[w] # "process" /\ imgAt'[w] = "process" /\ \A x \in ImgWorker : x # w => imgAt'[x] = imgAt[x]
      BY <1>1 DEF ImageInv, ImgTypeOK
    <2>2. Decoding' = Decoding \cup {w} /\ w \notin Decoding
      BY <2>1 DEF Decoding
    <2> QED
      BY <2>2, Counts, FS_AddElement
  <1>4. SlotsAreAccountedFor'
    <2>1. OnAccess' = OnAccess /\ InPlace' = InPlace
      BY <1>1 DEF OnAccess, InPlace
    <2> QED
      BY <1>1, <1>3, <2>1, SlotsMeans, Counts, SlotsAssumption DEF ImageInv, ImgTypeOK, GoneWhenStopped
  <1>5. GoneWhenStopped'
    BY <1>1 DEF ImageInv, ImgTypeOK, GoneWhenStopped
  <1> QED
    BY <1>2, <1>4, <1>5 DEF ImageInv

LEMMA ProcessStep ==
  ASSUME ImageInv, NEW w \in ImgWorker, Process(w)
  PROVE  ImageInv'
  <1>1. /\ UNCHANGED <<jobs, jobsClosed, cancelled, imgStop, transform, inPlace, newJobs, queued>>
        /\ imgAt[w] = "process" /\ taken' = taken - 1 /\ imgAt' = [imgAt EXCEPT ![w] = "select"]
        /\ imgJob' = [imgJob EXCEPT ![w] = NoJob] /\ processed' = processed \cup {imgJob[w]}
    BY DEF Process
  <1>2. Cardinality(Decoding') = Cardinality(Decoding) - 1 /\ Cardinality(Decoding') \in Nat
    <2>1. imgAt[w] = "process" /\ imgAt'[w] # "process" /\ \A x \in ImgWorker : x # w => imgAt'[x] = imgAt[x]
      BY <1>1 DEF ImageInv, ImgTypeOK
    <2>2. Decoding' = Decoding \ {w} /\ w \in Decoding
      BY <2>1 DEF Decoding
    <2> QED
      BY <2>2, Counts, FS_RemoveElement, FS_CardinalityType
  <1>3. SlotsAreAccountedFor' /\ taken' \in Nat
    <2>1. OnAccess' = OnAccess /\ InPlace' = InPlace
      BY <1>1 DEF OnAccess, InPlace
    <2> QED
      BY <1>1, <1>2, <2>1, SlotsMeans, Counts, SlotsAssumption DEF ImageInv, ImgTypeOK, GoneWhenStopped
  <1>4. ImgTypeOK'
    BY <1>1, <1>3 DEF ImageInv, ImgTypeOK
  <1>5. GoneWhenStopped'
    BY <1>1 DEF ImageInv, ImgTypeOK, GoneWhenStopped
  <1> QED
    BY <1>3, <1>4, <1>5 DEF ImageInv

LEMMA TransformAcquireStep ==
  ASSUME ImageInv, NEW t \in Transform, TransformAcquire(t)
  PROVE  ImageInv'
  <1>1. /\ UNCHANGED <<jobs, jobsClosed, cancelled, imgStop, imgAt, imgJob, inPlace, newJobs, queued, processed>>
        /\ transform[t] = "acquire" /\ taken < Slots /\ taken' = taken + 1
        /\ transform' = [transform EXCEPT ![t] = "work"]
    BY DEF TransformAcquire
  <1>2. ImgTypeOK'
    BY <1>1 DEF ImageInv, ImgTypeOK
  <1>3. Cardinality(OnAccess') = Cardinality(OnAccess) + 1
    <2>1. transform[t] # "work" /\ transform'[t] = "work" /\ \A x \in Transform : x # t => transform'[x] = transform[x]
      BY <1>1 DEF ImageInv, ImgTypeOK
    <2>2. OnAccess' = OnAccess \cup {t} /\ t \notin OnAccess
      BY <2>1 DEF OnAccess
    <2> QED
      BY <2>2, Counts, FS_AddElement
  <1>4. SlotsAreAccountedFor' /\ GoneWhenStopped'
    <2>1. Decoding' = Decoding /\ InPlace' = InPlace
      BY <1>1 DEF Decoding, InPlace
    <2> QED
      BY <1>1, <1>3, <2>1, SlotsMeans, Counts, SlotsAssumption DEF ImageInv, ImgTypeOK, GoneWhenStopped
  <1> QED
    BY <1>2, <1>4 DEF ImageInv

LEMMA EndTransformStep ==
  ASSUME ImageInv, NEW t \in Transform, EndTransform(t)
  PROVE  ImageInv'
  <1>1. /\ UNCHANGED <<jobs, jobsClosed, cancelled, imgStop, imgAt, imgJob, inPlace, newJobs, queued, processed>>
        /\ transform[t] = "work" /\ taken' = taken - 1 /\ transform' = [transform EXCEPT ![t] = "done"]
    BY DEF EndTransform
  <1>2. Cardinality(OnAccess') = Cardinality(OnAccess) - 1 /\ Cardinality(OnAccess') \in Nat
    <2>1. transform[t] = "work" /\ transform'[t] # "work" /\ \A x \in Transform : x # t => transform'[x] = transform[x]
      BY <1>1 DEF ImageInv, ImgTypeOK
    <2>2. OnAccess' = OnAccess \ {t} /\ t \in OnAccess
      BY <2>1 DEF OnAccess
    <2> QED
      BY <2>2, Counts, FS_RemoveElement, FS_CardinalityType
  <1>3. SlotsAreAccountedFor' /\ GoneWhenStopped' /\ taken' \in Nat
    <2>1. Decoding' = Decoding /\ InPlace' = InPlace
      BY <1>1 DEF Decoding, InPlace
    <2> QED
      BY <1>1, <1>2, <2>1, SlotsMeans, Counts, SlotsAssumption DEF ImageInv, ImgTypeOK, GoneWhenStopped
  <1>4. ImgTypeOK'
    BY <1>1, <1>3 DEF ImageInv, ImgTypeOK
  <1> QED
    BY <1>3, <1>4 DEF ImageInv

LEMMA InPlaceAcquireStep ==
  ASSUME ImageInv, NEW j \in Job, InPlaceAcquire(j)
  PROVE  ImageInv'
  <1>1. /\ UNCHANGED <<jobs, jobsClosed, cancelled, imgStop, imgAt, imgJob, transform, newJobs, queued, processed>>
        /\ inPlace[j] = "acquire" /\ taken < Slots /\ taken' = taken + 1
        /\ inPlace' = [inPlace EXCEPT ![j] = "process"]
    BY DEF InPlaceAcquire
  <1>2. ImgTypeOK'
    BY <1>1 DEF ImageInv, ImgTypeOK
  <1>3. Cardinality(InPlace') = Cardinality(InPlace) + 1
    <2>1. inPlace[j] # "process" /\ inPlace'[j] = "process" /\ \A i \in Job : i # j => inPlace'[i] = inPlace[i]
      BY <1>1 DEF ImageInv, ImgTypeOK
    <2>2. InPlace' = InPlace \cup {j} /\ j \notin InPlace
      BY <2>1 DEF InPlace
    <2> QED
      BY <2>2, Counts, FS_AddElement
  <1>4. SlotsAreAccountedFor' /\ GoneWhenStopped'
    <2>1. Decoding' = Decoding /\ OnAccess' = OnAccess
      BY <1>1 DEF Decoding, OnAccess
    <2> QED
      BY <1>1, <1>3, <2>1, SlotsMeans, Counts, SlotsAssumption DEF ImageInv, ImgTypeOK, GoneWhenStopped
  <1> QED
    BY <1>2, <1>4 DEF ImageInv

LEMMA EndInPlaceStep ==
  ASSUME ImageInv, NEW j \in Job, EndInPlace(j)
  PROVE  ImageInv'
  <1>1. /\ UNCHANGED <<jobs, jobsClosed, cancelled, imgStop, imgAt, imgJob, transform, newJobs, queued>>
        /\ inPlace[j] = "process" /\ taken' = taken - 1 /\ inPlace' = [inPlace EXCEPT ![j] = "done"]
        /\ processed' = processed \cup {j}
    BY DEF EndInPlace
  <1>2. Cardinality(InPlace') = Cardinality(InPlace) - 1 /\ Cardinality(InPlace') \in Nat
    <2>1. inPlace[j] = "process" /\ inPlace'[j] # "process" /\ \A i \in Job : i # j => inPlace'[i] = inPlace[i]
      BY <1>1 DEF ImageInv, ImgTypeOK
    <2>2. InPlace' = InPlace \ {j} /\ j \in InPlace
      BY <2>1 DEF InPlace
    <2> QED
      BY <2>2, Counts, FS_RemoveElement, FS_CardinalityType
  <1>3. SlotsAreAccountedFor' /\ GoneWhenStopped' /\ taken' \in Nat
    <2>1. Decoding' = Decoding /\ OnAccess' = OnAccess
      BY <1>1 DEF Decoding, OnAccess
    <2> QED
      BY <1>1, <1>2, <2>1, SlotsMeans, Counts, SlotsAssumption DEF ImageInv, ImgTypeOK, GoneWhenStopped
  <1>4. ImgTypeOK'
    BY <1>1, <1>3 DEF ImageInv, ImgTypeOK
  <1> QED
    BY <1>3, <1>4 DEF ImageInv

-----------------------------------------------------------------------------
(* The invariant, and what follows from it. *)

LEMMA ImageInit ==
  ASSUME ImgInit
  PROVE  ImageInv
  <1>1. ImgTypeOK
    <2>1. jobsClosed \in BOOLEAN /\ cancelled \in BOOLEAN
      BY DEF ImgInit
    <2>2. /\ jobs \in Seq(Job) /\ taken \in Nat /\ imgStop = "no"
          /\ newJobs \subseteq Job /\ queued \subseteq Job /\ processed \subseteq Job
          /\ newJobs = Job
      BY DEF ImgInit
    <2>3. /\ imgAt \in [ImgWorker -> {"select", "acquire", "process", "gone"}]
          /\ imgJob \in [ImgWorker -> Job \cup {NoJob}]
          /\ \A w \in ImgWorker : imgAt[w] \notin {"acquire", "process"}
          /\ transform \in [Transform -> {"new", "acquire", "work", "done"}]
          /\ inPlace \in [Job -> {"no", "acquire", "process", "done"}]
          /\ \A j \in Job : inPlace[j] = "no"
      BY DEF ImgInit
    <2> QED
      BY <2>1, <2>2, <2>3 DEF ImgTypeOK
  <1>2. Decoding = {} /\ OnAccess = {} /\ InPlace = {}
    BY DEF ImgInit, Decoding, OnAccess, InPlace
  <1>3. SlotsAreAccountedFor
    BY <1>2, FS_EmptySet, SlotsMeans, SlotsAssumption DEF ImgInit
  <1> QED
    BY <1>1, <1>3 DEF ImgInit, ImageInv, GoneWhenStopped

LEMMA ImageStep ==
  ASSUME ImageInv, [ImgNext]_imgVars
  PROVE  ImageInv'
  <1>1. CASE UNCHANGED imgVars
    BY <1>1 DEF imgVars, ImageInv, ImgTypeOK, SlotsAreAccountedFor, GoneWhenStopped
  <1>2. ASSUME NEW w \in ImgWorker, ImgStep(w)
        PROVE  ImageInv'
    BY <1>2, SelectStep, WorkerAcquireStep, ProcessStep DEF ImgStep
  <1>3. ASSUME NEW t \in Transform, BeginTransform(t) \/ TransformStep(t) \/ GiveUp(t)
        PROVE  ImageInv'
    BY <1>3, TransformMoves, TransformAcquireStep, EndTransformStep DEF TransformStep
  <1>4. ASSUME NEW j \in Job, Enqueue(j) \/ BeginInPlace(j) \/ InPlaceStep(j)
        PROVE  ImageInv'
    BY <1>4, EnqueueStep, BeginInPlaceStep, InPlaceAcquireStep, EndInPlaceStep DEF InPlaceStep
  <1> QED
    BY <1>1, <1>2, <1>3, <1>4, EndMoves DEF ImgNext

\* The invariant holds throughout.
THEOREM ImageInvariant == ImgSpec => []ImageInv
  <1>1. ImgInit => ImageInv
    BY ImageInit
  <1>2. ImageInv /\ [ImgNext]_imgVars => ImageInv'
    BY ImageStep
  <1> QED
    BY <1>1, <1>2, PTL DEF ImgSpec

\* The slots of the limiter (image/limiter.go) are those of the workers, the requests and the
\* transforms that decode an image, and never more than there are.
THEOREM SlotsAccounted == ImgSpec => []SlotsAreAccountedFor
  <1>1. ImageInv => SlotsAreAccountedFor
    BY DEF ImageInv
  <1> QED
    BY <1>1, ImageInvariant, PTL

-----------------------------------------------------------------------------
(* The server. *)

LifeTypeOK ==
  /\ phase \in Phases
  /\ req \in [Emitter -> {"new", "running", "emitting", "processing", "done"}]
  /\ missed \subseteq Emitter
  /\ forced \in BOOLEAN

UnderWay(m) == req[m] \in {"running", "emitting", "processing"}
S3(m)       == Front[m] = "s3"

\* How far the parts have stopped in each phase.
StoppedInOrder ==
  /\ phase \in {"events", "returned", "exited"} => imgStop = "stopped"
  /\ phase \in {"returned", "failimages", "exited"} => stop = "stopped"
  /\ phase \in {"failevents", "failimages"} => forced
  /\ ~forced /\ stop # "no" => phase \in {"events", "returned", "exited"}

\* Which requests run in each phase.
S3RequestsDrained ==
  /\ phase \in {"starting", "opening"} => \A m \in Emitter : S3(m) => req[m] = "new"
  /\ ~forced /\ phase \in {"images", "events", "returned", "exited"} =>
       \A m \in Emitter : S3(m) => ~UnderWay(m)
  /\ \A m \in Emitter : emitting[m] # Idle => req[m] = "emitting"

\* A transform is a request of the S3 front too.
TransformsDrained ==
  ~forced /\ phase \in {"images", "events", "returned", "exited"} =>
    \A t \in Transform : transform[t] \notin {"acquire", "work"}

LifeInv ==
  LifeTypeOK /\ StoppedInOrder /\ S3RequestsDrained /\ TransformsDrained /\ S3EventsAreNeverLate

-----------------------------------------------------------------------------
(* A step of the server is a step, or none, of each part. *)

LEMMA EmittingIsNext ==
  ASSUME NEW m \in Emitter, EmitStep(m) \/ EmitLock(m, EventOf[m])
  PROVE  Next
  BY FrontAssumption DEF Next

LEMMA PartSteps ==
  ASSUME [LifeNext]_allVars
  PROVE  [Next]_vars /\ [ImgNext]_imgVars
  <1>1. CASE UNCHANGED allVars
    BY <1>1 DEF allVars
  <1>2. ASSUME NEW m \in Emitter, Accept(m) \/ Emit(m) \/ Emitting(m) \/ QueueImage(m) \/ ProcessInPlace(m)
        PROVE  [Next]_vars /\ [ImgNext]_imgVars
    <2>1. CASE Accept(m)
      BY <2>1 DEF Accept
    <2>2. CASE Emit(m)
      BY <2>2, EmittingIsNext DEF Emit
    <2>3. CASE Emitting(m)
      BY <2>3, EmittingIsNext DEF Emitting
    <2>4. CASE QueueImage(m)
      <3>1. /\ JobOf[m] \in Job /\ UNCHANGED vars
            /\ BeginInPlace(JobOf[m]) \/ Enqueue(JobOf[m]) \/ UNCHANGED imgVars
        BY <2>4, FrontAssumption DEF QueueImage
      <3> QED
        BY <3>1 DEF ImgNext
    <2>5. CASE ProcessInPlace(m)
      <3>1. JobOf[m] \in Job /\ InPlaceStep(JobOf[m]) /\ UNCHANGED vars
        BY <2>5, FrontAssumption DEF ProcessInPlace, InPlaceStep
      <3> QED
        BY <3>1 DEF ImgNext
    <2> QED
      BY <1>2, <2>1, <2>2, <2>3, <2>4, <2>5
  <1>3. ASSUME NEW t \in Transform, Transforming(t)
        PROVE  [Next]_vars /\ [ImgNext]_imgVars
    <2>1. (BeginTransform(t) \/ TransformStep(t) \/ GiveUp(t)) /\ UNCHANGED vars
      BY <1>3 DEF Transforming
    <2> QED
      BY <2>1 DEF ImgNext
  <1>4. CASE Background
    <2>1. \/ (\E w \in Worker : WorkerStep(w)) /\ UNCHANGED imgVars
          \/ StopStep /\ UNCHANGED imgVars
          \/ (\E w \in ImgWorker : ImgStep(w)) /\ UNCHANGED vars
          \/ ImgStopReturn /\ UNCHANGED vars
      BY <1>4 DEF Background
    <2> QED
      BY <2>1 DEF Next, ImgNext
  <1>5. CASE SetWorkers \/ Open \/ Signal \/ ServeFails
    BY <1>5 DEF SetWorkers, Open, Signal, ServeFails, Next, ImgNext
  <1>6. CASE ShutdownStep
    BY <1>6 DEF ShutdownStep, Drained, ImagesStopped, EventsStopped, FailedEvents, FailedImages, GiveUpStart, Exit,
                Next, ImgNext
  <1> QED
    BY <1>1, <1>2, <1>3, <1>4, <1>5, <1>6 DEF LifeNext

\* The server runs its dispatcher and its image workers as they are specified
\* (server/server.go RunContext).
THEOREM PartsAreRun == LifeSpec => Spec /\ ImgSpec
  <1>1. LifeInit => Init /\ ImgInit
    BY DEF LifeInit
  <1>2. [LifeNext]_allVars => [Next]_vars /\ [ImgNext]_imgVars
    BY PartSteps
  <1> QED
    BY <1>1, <1>2, PTL DEF LifeSpec, Spec, ImgSpec

\* No send on the dispatcher's closed channel, whatever the requests and the shutdown do.
THEOREM ServerNeverPanics == LifeSpec => []NeverSendsOnClosedQueue
  BY PartsAreRun, NeverSendsOnClosed, PTL

\* No hook that answered is sent an event again, whatever the requests and the shutdown do.
THEOREM ServerAttemptsEnd == LifeSpec => NoAttemptAfterAnAnswer
  BY PartsAreRun, AttemptsEnd, PTL

\* No slot of the limiter leaks, whatever the requests and the shutdown do.
THEOREM ServerSlotsAccounted == LifeSpec => []SlotsAreAccountedFor
  BY PartsAreRun, SlotsAccounted, PTL

-----------------------------------------------------------------------------
(* The order in which the server stops. *)

\* Requests and workers leave the two Stops alone.
LEMMA DispatcherKeepsStop ==
  /\ \A m \in Emitter : \A e : EmitStep(m) \/ EmitLock(m, e) => UNCHANGED stop
  /\ \A w \in Worker : WorkerStep(w) => UNCHANGED <<stop, emitting>>
  /\ StopCall \/ StopStep => UNCHANGED emitting
  /\ StopStep => stop \in {"lock", "wait"}
  /\ StopCall => stop = "no"
  BY DEF EmitStep, EmitLock, EmitCheck, EmitSend, WorkerStep, Receive, Lookup, NextHook, Attempt,
         StopCall, StopStep, StopClose, StopReap

LEMMA ImagesKeepStop ==
  /\ \A j \in Job : Enqueue(j) \/ BeginInPlace(j) \/ InPlaceStep(j) => UNCHANGED imgStop
  /\ \A w \in ImgWorker : ImgStep(w) => UNCHANGED imgStop
  /\ \A t \in Transform : BeginTransform(t) \/ TransformStep(t) \/ GiveUp(t) => UNCHANGED imgStop
  /\ Cancel => UNCHANGED imgStop
  /\ ImgStopReturn => imgStop = "wait"
  /\ ImgStopCall => imgStop = "no"
  BY DEF Enqueue, ImgStep, Select, WorkerAcquire, Process, BeginTransform, TransformStep, TransformAcquire,
         EndTransform, GiveUp, BeginInPlace, InPlaceStep, InPlaceAcquire, EndInPlace, Cancel, ImgStopCall, ImgStopReturn

\* A step of a request, of a transform or of a worker.
RequestsAndWorkers ==
  \/ \E m \in Emitter : Accept(m) \/ Emit(m) \/ Emitting(m) \/ QueueImage(m) \/ ProcessInPlace(m)
  \/ \E t \in Transform : Transforming(t)
  \/ Background

LEMMA RunningKeepsPhase ==
  ASSUME RequestsAndWorkers
  PROVE  /\ UNCHANGED <<phase, forced>>
         /\ UNCHANGED stop \/ (stop \in {"lock", "wait"} /\ StopStep)
         /\ UNCHANGED imgStop \/ imgStop = "wait"
  <1>1. ASSUME NEW m \in Emitter, Accept(m) \/ Emit(m) \/ Emitting(m) \/ QueueImage(m) \/ ProcessInPlace(m)
        PROVE  UNCHANGED <<phase, forced, stop, imgStop>>
    <2>1. CASE Accept(m)
      BY <2>1 DEF Accept, vars, imgVars
    <2>2. CASE Emit(m)
      BY <2>2, DispatcherKeepsStop DEF Emit, vars, imgVars
    <2>3. CASE Emitting(m)
      BY <2>3, DispatcherKeepsStop DEF Emitting, imgVars
    <2>4. CASE QueueImage(m)
      BY <2>4, ImagesKeepStop, FrontAssumption DEF QueueImage, vars, imgVars
    <2>5. CASE ProcessInPlace(m)
      BY <2>5, ImagesKeepStop, FrontAssumption DEF ProcessInPlace, InPlaceStep, vars
    <2> QED
      BY <1>1, <2>1, <2>2, <2>3, <2>4, <2>5
  <1>2. ASSUME NEW t \in Transform, Transforming(t)
        PROVE  UNCHANGED <<phase, forced, stop, imgStop>>
    <2>1. (BeginTransform(t) \/ TransformStep(t) \/ GiveUp(t)) /\ UNCHANGED <<vars, serverVars>>
      BY <1>2 DEF Transforming
    <2> QED
      BY <2>1, ImagesKeepStop DEF vars, serverVars
  <1>3. CASE Background
    <2>1. UNCHANGED serverVars
      BY <1>3 DEF Background
    <2>2. CASE (\E w \in Worker : WorkerStep(w)) /\ UNCHANGED imgVars
      BY <2>1, <2>2, DispatcherKeepsStop DEF imgVars, serverVars
    <2>3. CASE StopStep /\ UNCHANGED imgVars
      BY <2>1, <2>3, DispatcherKeepsStop DEF imgVars, serverVars
    <2>4. CASE ((\E w \in ImgWorker : ImgStep(w)) \/ ImgStopReturn) /\ UNCHANGED vars
      BY <2>1, <2>4, ImagesKeepStop DEF vars, serverVars
    <2> QED
      BY <1>3, <2>2, <2>3, <2>4 DEF Background
  <1> QED
    BY <1>1, <1>2, <1>3 DEF RequestsAndWorkers

LEMMA ServerTypes ==
  ASSUME LifeTypeOK, [LifeNext]_allVars
  PROVE  LifeTypeOK'
  <1>1. CASE UNCHANGED allVars
    BY <1>1 DEF allVars, serverVars, LifeTypeOK
  <1>2. ASSUME NEW m \in Emitter, Accept(m) \/ Emit(m) \/ Emitting(m) \/ QueueImage(m) \/ ProcessInPlace(m)
        PROVE  LifeTypeOK'
    BY <1>2 DEF Accept, Emit, Emitting, QueueImage, ProcessInPlace, LifeTypeOK
  <1>3. ASSUME (\E t \in Transform : Transforming(t)) \/ Background
        PROVE  LifeTypeOK'
    BY <1>3 DEF Transforming, Background, serverVars, LifeTypeOK
  <1>4. CASE SetWorkers \/ Open \/ Signal \/ ServeFails
    BY <1>4 DEF SetWorkers, Open, Signal, ServeFails, LifeTypeOK, Phases
  <1>5. CASE ShutdownStep
    BY <1>5 DEF ShutdownStep, Drained, ImagesStopped, EventsStopped, FailedEvents, FailedImages, GiveUpStart, Exit,
                LifeTypeOK, Phases
  <1> QED
    BY <1>1, <1>2, <1>3, <1>4, <1>5 DEF LifeNext

LEMMA StoppedInOrderStep ==
  ASSUME LifeTypeOK, StoppedInOrder, [LifeNext]_allVars
  PROVE  StoppedInOrder'
  <1>1. CASE UNCHANGED allVars
    BY <1>1 DEF allVars, serverVars, vars, imgVars, StoppedInOrder
  <1>2. CASE RequestsAndWorkers
    BY <1>2, RunningKeepsPhase DEF StoppedInOrder
  <1>3. CASE SetWorkers \/ Open
    BY <1>3, ImagesKeepStop DEF SetWorkers, Open, vars, imgVars, StoppedInOrder
  <1>4. CASE Signal
    BY <1>4, ImagesKeepStop DEF Signal, vars, StoppedInOrder
  <1>5. CASE Drained
    BY <1>5 DEF Drained, vars, StoppedInOrder
  <1>6. CASE ImagesStopped
    BY <1>6 DEF ImagesStopped, imgVars, StoppedInOrder
  <1>7. CASE EventsStopped
    BY <1>7 DEF EventsStopped, vars, imgVars, StoppedInOrder
  <1>8. CASE ServeFails
    BY <1>8 DEF ServeFails, StoppedInOrder
  <1>9. CASE FailedEvents
    BY <1>9 DEF FailedEvents, vars, StoppedInOrder
  <1>10. CASE FailedImages
    BY <1>10 DEF FailedImages, vars, imgVars, StoppedInOrder
  <1>11. CASE GiveUpStart \/ Exit
    BY <1>11 DEF GiveUpStart, Exit, vars, imgVars, StoppedInOrder
  <1> QED
    BY <1>1, <1>2, <1>3, <1>4, <1>5, <1>6, <1>7, <1>8, <1>9, <1>10, <1>11
    DEF LifeNext, ShutdownStep, RequestsAndWorkers

\* No request starts when its front is closed, and only a request emits.
LEMMA S3RequestsDrainedStep ==
  ASSUME TypeOK, LifeTypeOK, StoppedInOrder, S3RequestsDrained, [LifeNext]_allVars
  PROVE  S3RequestsDrained'
  <1> USE DEF S3RequestsDrained, S3, UnderWay
  <1>1. CASE UNCHANGED allVars
    BY <1>1 DEF allVars, serverVars, vars
  <1>2. ASSUME NEW m \in Emitter, Accept(m)
        PROVE  S3RequestsDrained'
    <2>1. UNCHANGED <<phase, forced, emitting>> /\ req[m] = "new" /\ req' = [req EXCEPT ![m] = "running"]
      BY <1>2 DEF Accept, vars
    <2>2. S3(m) => phase = "serving"
      BY <1>2 DEF Accept, Listening
    <2> QED
      BY <2>1, <2>2 DEF LifeTypeOK
  <1>3. ASSUME NEW m \in Emitter, Emit(m)
        PROVE  S3RequestsDrained'
    <2>1. /\ UNCHANGED <<phase, forced>> /\ req[m] = "running"
          /\ req' = [req EXCEPT ![m] = "done"] \/ req' = [req EXCEPT ![m] = "emitting"]
          /\ \A n \in Emitter : n # m => emitting'[n] = emitting[n]
          /\ emitting'[m] = emitting[m] \/ req' = [req EXCEPT ![m] = "emitting"]
      BY <1>3 DEF Emit, EmitLock, vars, TypeOK
    <2> QED
      BY <2>1 DEF LifeTypeOK
  <1>4. ASSUME NEW m \in Emitter, Emitting(m)
        PROVE  S3RequestsDrained'
    <2>1. UNCHANGED <<phase, forced, req>>
      BY <1>4 DEF Emitting
    <2>2. emitting[m] # Idle /\ \A n \in Emitter : n # m => emitting'[n] = emitting[n]
      BY <1>4 DEF Emitting, EmitStep, EmitCheck, EmitSend, TypeOK, Idle
    <2> QED
      BY <2>1, <2>2
  <1>5. ASSUME NEW m \in Emitter, QueueImage(m) \/ ProcessInPlace(m)
        PROVE  S3RequestsDrained'
    <2>1. /\ UNCHANGED <<phase, forced, emitting>> /\ req[m] \in {"emitting", "processing"} /\ emitting[m] = Idle
          /\ \/ req' = [req EXCEPT ![m] = "done"] \/ req' = [req EXCEPT ![m] = "processing"]
             \/ UNCHANGED req
      BY <1>5 DEF QueueImage, ProcessInPlace, vars
    <2> QED
      BY <2>1 DEF LifeTypeOK
  <1>6. CASE Background \/ \E t \in Transform : Transforming(t)
    <2>1. UNCHANGED <<phase, forced, req>>
      BY <1>6 DEF Background, Transforming, serverVars
    <2>2. UNCHANGED emitting
      BY <1>6, DispatcherKeepsStop DEF Background, Transforming, vars
    <2> QED
      BY <2>1, <2>2
  <1>7. CASE SetWorkers \/ Open \/ Signal \/ ImagesStopped \/ EventsStopped \/ ServeFails \/ FailedEvents \/ FailedImages \/ GiveUpStart \/ Exit
    <2>1. UNCHANGED <<req, emitting>>
      BY <1>7, DispatcherKeepsStop DEF SetWorkers, Open, Signal, ImagesStopped, EventsStopped, ServeFails, FailedEvents,
                  FailedImages, GiveUpStart, Exit, vars
    <2>2. /\ phase' \in {"starting", "opening"} => phase \in {"starting", "opening"}
          /\ forced => forced'
          /\ ~forced' /\ phase' \in {"images", "events", "returned", "exited"} =>
               phase \in {"images", "events", "returned", "exited"}
      BY <1>7 DEF SetWorkers, Open, Signal, ImagesStopped, EventsStopped, ServeFails, FailedEvents, FailedImages,
                  GiveUpStart, Exit, StoppedInOrder
    <2> QED
      BY <2>1, <2>2
  <1>8. CASE Drained
    <2>1. UNCHANGED <<req, emitting>> /\ phase' = "images" /\ (forced' \/ ~Busy("s3"))
      BY <1>8 DEF Drained, vars
    <2> QED
      BY <2>1 DEF Busy
  <1> QED
    BY <1>1, <1>2, <1>3, <1>4, <1>5, <1>6, <1>7, <1>8 DEF LifeNext, ShutdownStep

\* Only transforms change where a transform is, and none begins when the front is closed.
LEMMA ImagesKeepTransforms ==
  /\ \A j \in Job : Enqueue(j) \/ BeginInPlace(j) \/ InPlaceStep(j) => UNCHANGED transform
  /\ \A w \in ImgWorker : ImgStep(w) => UNCHANGED transform
  /\ Cancel \/ ImgStopCall \/ ImgStopReturn => UNCHANGED transform
  /\ \A t \in Transform : TransformStep(t) \/ GiveUp(t) => transform[t] \in {"acquire", "work"}
  BY DEF Enqueue, ImgStep, Select, WorkerAcquire, Process, BeginInPlace, InPlaceStep, InPlaceAcquire, EndInPlace,
         TransformStep, TransformAcquire, EndTransform, GiveUp, Cancel, ImgStopCall, ImgStopReturn

LEMMA TransformsDrainedStep ==
  ASSUME StoppedInOrder, TransformsDrained, [LifeNext]_allVars
  PROVE  TransformsDrained'
  <1> USE DEF TransformsDrained
  <1>1. CASE UNCHANGED allVars
    BY <1>1 DEF allVars, serverVars, imgVars
  <1>2. ASSUME NEW m \in Emitter, Accept(m) \/ Emit(m) \/ Emitting(m)
        PROVE  TransformsDrained'
    BY <1>2 DEF Accept, Emit, Emitting, imgVars
  <1>3. ASSUME NEW m \in Emitter, QueueImage(m) \/ ProcessInPlace(m)
        PROVE  TransformsDrained'
    <2>1. UNCHANGED <<phase, forced, transform>>
      BY <1>3, ImagesKeepTransforms, FrontAssumption DEF QueueImage, ProcessInPlace, InPlaceStep, imgVars
    <2> QED
      BY <2>1
  <1>4. ASSUME NEW t \in Transform, Transforming(t)
        PROVE  TransformsDrained'
    <2>1. UNCHANGED <<phase, forced>> /\ (phase = "serving" \/ transform[t] \in {"acquire", "work"})
      BY <1>4, ImagesKeepTransforms DEF Transforming, serverVars
    <2> QED
      BY <2>1
  <1>5. CASE Background
    <2>1. UNCHANGED <<phase, forced, transform>>
      BY <1>5, ImagesKeepTransforms DEF Background, serverVars, imgVars
    <2> QED
      BY <2>1
  <1>6. CASE SetWorkers \/ Open \/ Signal \/ ImagesStopped \/ EventsStopped \/ ServeFails \/ FailedEvents
             \/ FailedImages \/ GiveUpStart \/ Exit
    <2>1. UNCHANGED transform
      BY <1>6, ImagesKeepTransforms DEF SetWorkers, Open, Signal, ImagesStopped, EventsStopped, ServeFails,
                  FailedEvents, FailedImages, GiveUpStart, Exit, imgVars
    <2>2. /\ forced => forced'
          /\ ~forced' /\ phase' \in {"images", "events", "returned", "exited"} =>
               phase \in {"images", "events", "returned", "exited"}
      BY <1>6 DEF SetWorkers, Open, Signal, ImagesStopped, EventsStopped, ServeFails, FailedEvents, FailedImages,
                  GiveUpStart, Exit, StoppedInOrder
    <2> QED
      BY <2>1, <2>2
  <1>7. CASE Drained
    <2>1. UNCHANGED transform /\ phase' = "images" /\ (forced' \/ ~Busy("s3"))
      BY <1>7, ImagesKeepTransforms DEF Drained
    <2> QED
      BY <2>1 DEF Busy
  <1> QED
    BY <1>1, <1>2, <1>3, <1>4, <1>5, <1>6, <1>7 DEF LifeNext, ShutdownStep

\* An event is missed before the server opens, or after the dispatcher was told to stop.
LEMMA NeverLateStep ==
  ASSUME TypeOK, ClosedInOrder, LifeInv, [LifeNext]_allVars
  PROVE  S3EventsAreNeverLate'
  <1> USE DEF LifeInv, S3EventsAreNeverLate
  <1>1. CASE missed' = missed
    <2>1. forced => forced'
      BY DEF LifeNext, allVars, serverVars, Accept, Emit, Emitting, QueueImage, ProcessInPlace, Transforming, Background, SetWorkers, Open,
             Signal, ServeFails, ShutdownStep, Drained, ImagesStopped, EventsStopped, FailedEvents,
             FailedImages, GiveUpStart, Exit
    <2> QED
      BY <1>1, <2>1
  <1>2. ASSUME NEW m \in Emitter, Emit(m), missed' # missed
        PROVE  S3EventsAreNeverLate'
    <2>1. phase = "starting" /\ req[m] = "running" /\ missed' = missed \cup {m} /\ forced' = forced
      BY <1>2 DEF Emit
    <2>2. ~S3(m)
      BY <2>1 DEF S3RequestsDrained
    <2> QED
      BY <2>1, <2>2 DEF S3
  <1>3. ASSUME NEW m \in Emitter, Emitting(m), missed' # missed
        PROVE  S3EventsAreNeverLate'
    <2>1. emitting[m].at = "check" /\ closed /\ missed' = missed \cup {m} /\ forced' = forced
      BY <1>3 DEF Emitting
    <2>2. req[m] = "emitting"
      BY <2>1 DEF S3RequestsDrained, Idle
    <2>3. ~forced => phase \in {"events", "returned", "exited"}
      BY <2>1 DEF ClosedInOrder, StoppedInOrder
    <2>4. ~forced => ~S3(m)
      BY <2>2, <2>3 DEF S3RequestsDrained, UnderWay
    <2> QED
      BY <2>1, <2>4 DEF S3
  <1>4. missed' = missed \/ \E m \in Emitter : Emit(m) \/ Emitting(m)
    BY DEF LifeNext, allVars, serverVars, Accept, QueueImage, ProcessInPlace, Transforming, Background, SetWorkers, Open,
           Signal, ServeFails, ShutdownStep, Drained, ImagesStopped, EventsStopped, FailedEvents,
           FailedImages, GiveUpStart, Exit
  <1> QED
    BY <1>1, <1>2, <1>3, <1>4

-----------------------------------------------------------------------------
(* The invariant, and what follows from it. *)

ServerInv == DispatcherInv /\ ImageInv /\ LifeInv

LEMMA ServerInit ==
  ASSUME LifeInit
  PROVE  LifeInv
  <1>1. LifeTypeOK
    BY DEF LifeInit, LifeTypeOK, Phases
  <1>2. StoppedInOrder /\ S3EventsAreNeverLate
    BY DEF LifeInit, Init, StoppedInOrder, S3EventsAreNeverLate
  <1>3. S3RequestsDrained /\ TransformsDrained
    BY DEF LifeInit, Init, S3RequestsDrained, TransformsDrained
  <1> QED
    BY <1>1, <1>2, <1>3 DEF LifeInv

\* The invariant holds throughout.
THEOREM ServerInvariant == LifeSpec => []ServerInv
  <1>1. LifeInit => ServerInv
    BY ServerInit, DispatcherInit, ImageInit DEF LifeInit, ServerInv
  <1>2. ServerInv /\ [LifeNext]_allVars => ServerInv'
    <2> SUFFICES ASSUME ServerInv, [LifeNext]_allVars
                 PROVE  ServerInv'
      OBVIOUS
    <2>1. DispatcherInv' /\ ImageInv'
      BY PartSteps, DispatcherStep, ImageStep DEF ServerInv
    <2>2. TypeOK /\ ClosedInOrder /\ LifeInv
      BY DEF ServerInv, DispatcherInv
    <2>3. LifeTypeOK' /\ StoppedInOrder' /\ S3RequestsDrained' /\ TransformsDrained'
      BY <2>2, ServerTypes, StoppedInOrderStep, S3RequestsDrainedStep, TransformsDrainedStep DEF LifeInv
    <2> QED
      BY <2>1, <2>2, <2>3, NeverLateStep DEF ServerInv, LifeInv
  <1> QED
    BY <1>1, <1>2, PTL DEF LifeSpec

\* A shutdown by signal that is not forced makes no S3 request lose its event to a stopped
\* dispatcher (server/server.go RunContext drains before it stops).
THEOREM NeverLate == LifeSpec => []S3EventsAreNeverLate
  <1>1. ServerInv => S3EventsAreNeverLate
    BY DEF ServerInv, LifeInv
  <1> QED
    BY <1>1, ServerInvariant, PTL

\* Once RunContext has returned from serving every worker is gone, every accepted event was
\* handled and, unless the drain was forced, no S3 request runs on.
THEOREM WorkersEnd == LifeSpec => []WorkersEndWithTheServer
  <1>1. ASSUME ServerInv
        PROVE  WorkersEndWithTheServer
    <2> SUFFICES ASSUME phase \in {"returned", "exited"}
                 PROVE  /\ \A w \in Worker : at[w] = "gone"
                        /\ \A w \in ImgWorker : imgAt[w] = "gone"
                        /\ accepted \subseteq handled
                        /\ ~forced => ~Busy("s3")
                        /\ ~panicked
      BY DEF WorkersEndWithTheServer
    <2>1. stop = "stopped" /\ imgStop = "stopped"
      BY <1>1 DEF ServerInv, LifeInv, StoppedInOrder
    <2>2. queue = <<>> /\ ~panicked /\ \A w \in Worker : at[w] = "gone"
      BY <1>1, <2>1 DEF ServerInv, DispatcherInv, ClosedInOrder
    <2>3. \A w \in ImgWorker : imgAt[w] = "gone"
      BY <1>1, <2>1 DEF ServerInv, ImageInv, GoneWhenStopped
    <2>4. \A e \in Event : ~InQueue(e) /\ ~InWork(e)
      <3>1. \A w \in Worker : event[w] \notin Event
        BY <1>1, <2>2 DEF ServerInv, DispatcherInv, TypeOK
      <3>2. 1..Len(queue) = {}
        BY <2>2
      <3> QED
        BY <3>1, <3>2 DEF InQueue, InWork
    <2>5. accepted \subseteq handled
      BY <1>1, <2>4 DEF ServerInv, DispatcherInv, TypeOK, NothingLost
    <2>6. ~forced => ~Busy("s3")
      BY <1>1 DEF ServerInv, LifeInv, S3RequestsDrained, TransformsDrained, UnderWay, S3, Busy
    <2> QED
      BY <2>2, <2>3, <2>5, <2>6
  <1> QED
    BY <1>1, ServerInvariant, PTL
=============================================================================
