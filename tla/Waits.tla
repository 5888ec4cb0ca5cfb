------------------------------- MODULE Waits --------------------------------
(***************************************************************************)
(* The waits of the coroutines of one flow: WaitForEvent, WaitForAnyEvent  *)
(* and WaitForAllEvents with their response variants (src/src/x2net/       *)
(* Yields), the wait handles that tie a response to its request, and the   *)
(* timer of TimeFlow (Flows/TimeFlow.cs) that lets them time out.          *)
(*                                                                         *)
(* Handlers run on the thread of the flow, one after the other.  The timer *)
(* thread and whoever answers requests run beside it, and reach it through *)
(* its queue only.                                                         *)
(***************************************************************************)
EXTENDS RangedIntPool, Sequences, SequencesExt

CONSTANTS
  Waits,       \* the Yield objects, each constructed at most once
  Kind,        \* of each: "event", "any" or "all"
  Requesting,  \* those that post requests and are given a wait handle
  Timed,       \* those constructed with seconds > 0
  Parts,       \* the expected events of a wait, and its requests
  Nobody,      \* the author of an event that answers no request
  MaxPending   \* bound: plain events are posted to a shorter queue only

ASSUME SomeWaits == IsFiniteSet(Waits) /\ Waits # {} /\ Parts # {}
ASSUME WaitKinds ==
  /\ Kind \in [Waits -> {"event", "any", "all"}]
  /\ Requesting \subseteq Waits
  /\ Timed \subseteq Waits
  /\ Nobody \notin Waits
  /\ MaxPending \in Nat

VARIABLES
  pool,       \* WaitHandlePool
  status,     \* of each wait
  waitHandle, \* of each wait, 0 if it has none
  bound,      \* the pairs of wait and part whose handler is bound
  bindings,   \* waits whose OnTimeout is bound
  reserved,   \* waits whose TimeoutEvent the timer holds
  bundle,     \* waits whose TimeoutEvent Tick took out and has yet to post
  queue,      \* the queue of the flow
  current,    \* what is left of the handler chain: the event and its handlers
  asked,      \* requests nobody has answered yet
  resumed,    \* history: how often each coroutine was continued by its wait
  answerers   \* history: whose answers each wait was given

vars == <<pool, status, waitHandle, bound, bindings, reserved, bundle, queue,
          current, asked, resumed, answerers>>

(* A WaitForEvent has one expected event.                                  *)
First == CHOOSE p \in Parts : TRUE
PartsOf(w) == IF Kind[w] = "event" THEN {First} ELSE Parts

Answers == [type : {"answer"}, about : Waits \cup {Nobody}, part : Parts,
            handle : Handles \cup {0}]
Timeouts == [type : {"timeout", "expired"}, about : Waits, part : {First}, handle : {0}]

(* A TimeoutEvent whose Key is w; IntParam tells the two types apart.      *)
TimeoutEvent(w, type) == [type |-> type, about |-> w, part |-> First, handle |-> 0]

NoEvent == TimeoutEvent(CHOOSE w \in Waits : TRUE, "timeout")
Idle == [event |-> NoEvent, handlers |-> {}]

Init ==
  /\ pool = EmptyPool
  /\ status = [w \in Waits |-> "new"]
  /\ waitHandle = [w \in Waits |-> 0]
  /\ bound = {}
  /\ bindings = {}
  /\ reserved = {}
  /\ bundle = {}
  /\ queue = <<>>
  /\ current = Idle
  /\ asked = {}
  /\ resumed = [w \in Waits |-> 0]
  /\ answerers = [w \in Waits |-> {}]

Waiting(w) == status[w] = "waiting"
PairsOf(w) == {w} \X PartsOf(w)

-----------------------------------------------------------------------------
(***************************************************************************)
(* The constructor: a handle for the requests, the handlers, the timeout   *)
(* and its reservation; then the requests are posted.                      *)
(***************************************************************************)
Begin(w) ==
  /\ status[w] = "new"
  /\ IF w \in Requesting
     THEN /\ ~Exhausted(pool)
          /\ pool' = Acquired(pool)
          /\ waitHandle' = [waitHandle EXCEPT ![w] = Found(pool)]
          /\ asked' = asked \cup PairsOf(w)
     ELSE UNCHANGED <<pool, waitHandle, asked>>
  /\ status' = [status EXCEPT ![w] = "waiting"]
  /\ bound' = bound \cup PairsOf(w)
  /\ bindings' = IF w \in Timed THEN bindings \cup {w} ELSE bindings
  /\ reserved' = IF w \in Timed THEN reserved \cup {w} ELSE reserved
  /\ UNCHANGED <<bundle, queue, current, resumed, answerers>>

(* Acquire throws: the coroutine ends in its constructor.                  *)
BeginFails(w) ==
  /\ status[w] = "new"
  /\ w \in Requesting
  /\ Exhausted(pool)
  /\ status' = [status EXCEPT ![w] = "failed"]
  /\ UNCHANGED <<pool, waitHandle, bound, bindings, reserved, bundle, queue,
                 current, asked, resumed, answerers>>

-----------------------------------------------------------------------------
(* Whoever has the request posts its response, with the handle in it.      *)
Answer(w, p) ==
  /\ <<w, p>> \in asked
  /\ asked' = asked \ {<<w, p>>}
  /\ queue' = Append(queue, [type |-> "answer", about |-> w, part |-> p,
                             handle |-> waitHandle[w]])
  /\ UNCHANGED <<pool, status, waitHandle, bound, bindings, reserved, bundle,
                 current, resumed, answerers>>

(* An event that answers no request.                                       *)
Notify(p) ==
  /\ Len(queue) < MaxPending
  /\ queue' = Append(queue, [type |-> "answer", about |-> Nobody, part |-> p,
                             handle |-> 0])
  /\ UNCHANGED <<pool, status, waitHandle, bound, bindings, reserved, bundle,
                 current, asked, resumed, answerers>>

(* Tick takes the reservations of the earliest time, if that has come.     *)
Tick ==
  /\ bundle = {}
  /\ \E due \in (SUBSET reserved) \ {{}} :
       bundle' = due /\ reserved' = reserved \ due
  /\ UNCHANGED <<pool, status, waitHandle, bound, bindings, queue, current,
                 asked, resumed, answerers>>

(* Mutant of Fire: the bundle ends with its first event.                   *)
FireFirst ==
  /\ \E w \in bundle : queue' = Append(queue, TimeoutEvent(w, "timeout"))
  /\ bundle' = {}
  /\ UNCHANGED <<pool, status, waitHandle, bound, bindings, reserved, current,
                 asked, resumed, answerers>>

(* Tick posts the next one, outside its lock.                              *)
Fire ==
  /\ \E w \in bundle :
       /\ bundle' = bundle \ {w}
       /\ queue' = Append(queue, TimeoutEvent(w, "timeout"))
  /\ UNCHANGED <<pool, status, waitHandle, bound, bindings, reserved, current,
                 asked, resumed, answerers>>

(* ExpireAll, called on the flow: every waiting WaitForEvent.              *)
ExpireAll ==
  LET due == {w \in Waits : Kind[w] = "event" /\ Waiting(w)}
      expired == {TimeoutEvent(w, "expired") : w \in due}
  IN  /\ due # {}
      /\ \A i \in DOMAIN queue : queue[i].type # "expired"
      /\ queue' = queue \o SetToSeq(expired)
      /\ UNCHANGED <<pool, status, waitHandle, bound, bindings, reserved,
                     bundle, current, asked, resumed, answerers>>

-----------------------------------------------------------------------------
(* Mutant of Matches: the handle does not count.                           *)
MatchesAny(w, e) == TRUE

(* An expected event without a handle accepts any handle.                  *)
Matches(w, e) == waitHandle[w] \in {0, e.handle}

Listeners(e) ==
  IF e.type = "answer"
  THEN {pair \in bound : pair[2] = e.part /\ Matches(pair[1], e)}
  ELSE {pair \in Waits \X {First} : pair[1] = e.about /\ pair[1] \in bindings}

(* The flow takes an event and Dispatch gathers its handlers.              *)
Dispatch ==
  /\ current.handlers = {}
  /\ queue # <<>>
  /\ current' = IF Listeners(Head(queue)) = {} THEN Idle
                ELSE [event |-> Head(queue), handlers |-> Listeners(Head(queue))]
  /\ queue' = Tail(queue)
  /\ UNCHANGED <<pool, status, waitHandle, bound, bindings, reserved, bundle,
                 asked, resumed, answerers>>

(* Mutant of CancelTimer: the reservation stays.                           *)
CancelHandlerOnly(w) == bindings' = bindings \ {w} /\ UNCHANGED reserved

(* Cancel of the reservation, if it has not fired, and Unbind.             *)
CancelTimer(w) == reserved' = reserved \ {w} /\ bindings' = bindings \ {w}

(* Mutant of ReleaseHandle: forgets it.                                    *)
KeepHandle(w) == UNCHANGED pool

ReleaseHandle(w) ==
  IF waitHandle[w] = 0 THEN UNCHANGED pool ELSE pool' = Released(pool, waitHandle[w])

(* coroutine.Continue.                                                     *)
Continue(w, outcome) ==
  /\ status' = [status EXCEPT ![w] = outcome]
  /\ resumed' = [resumed EXCEPT ![w] = @ + 1]

(* What stays bound of w when part p has come.                             *)
Unmatched(w, p) ==
  IF Kind[w] = "all" THEN (bound \cap PairsOf(w)) \ {<<w, p>>} ELSE {}

(***************************************************************************)
(* OnEvent.  The first expected event that comes ends a WaitForEvent and a *)
(* WaitForAnyEvent; WaitForAllEvents unbinds one handler for each and goes *)
(* on when none is left.                                                   *)
(***************************************************************************)
OnEvent(w, p) ==
  /\ current.event.type = "answer"
  /\ bound' = (bound \ PairsOf(w)) \cup Unmatched(w, p)
  /\ answerers' = [answerers EXCEPT ![w] = @ \cup {current.event.about}]
  /\ IF Unmatched(w, p) = {}
     THEN CancelTimer(w) /\ ReleaseHandle(w) /\ Continue(w, "answered")
     ELSE UNCHANGED <<reserved, bindings, pool, status, resumed>>

(* Mutant of OnTimeout: does not unbind OnEvent.                           *)
OnTimeoutBound(w) ==
  /\ current.event.type # "answer"
  /\ bindings' = bindings \ {w}
  /\ reserved' = reserved \ {w}
  /\ ReleaseHandle(w)
  /\ Continue(w, "timeout")
  /\ UNCHANGED <<bound, answerers>>

(* OnTimeout.  Only an expired wait may still have a reservation.          *)
OnTimeout(w) ==
  /\ current.event.type # "answer"
  /\ bound' = bound \ PairsOf(w)
  /\ bindings' = bindings \ {w}
  /\ reserved' = IF current.event.type = "expired" THEN reserved \ {w} ELSE reserved
  /\ ReleaseHandle(w)
  /\ Continue(w, "timeout")
  /\ UNCHANGED answerers

(* Dispatch invokes one of the handlers it gathered.                       *)
Invoke ==
  /\ \E pair \in current.handlers :
       /\ OnEvent(pair[1], pair[2]) \/ OnTimeout(pair[1])
       /\ current' = IF current.handlers = {pair} THEN Idle
                     ELSE [current EXCEPT !.handlers = @ \ {pair}]
  /\ UNCHANGED <<waitHandle, bundle, queue, asked>>

-----------------------------------------------------------------------------
TimerStep == Tick \/ Fire
FlowStep == Dispatch \/ Invoke

Next ==
  \/ \E w \in Waits : Begin(w) \/ BeginFails(w)
  \/ \E w \in Waits, p \in Parts : Answer(w, p)
  \/ \E p \in Parts : Notify(p)
  \/ ExpireAll
  \/ TimerStep
  \/ FlowStep

(***************************************************************************)
(* Time passes and TimeFlow ticks, and the flow takes its events.  Nobody  *)
(* has to answer.                                                          *)
(***************************************************************************)
Fairness == WF_vars(TimerStep) /\ WF_vars(FlowStep)

Spec == Init /\ [][Next]_vars /\ Fairness

-----------------------------------------------------------------------------
(* Types of the waits, the timer and the queue.                            *)
TypeOK ==
  /\ pool \in Pool
  /\ status \in [Waits -> {"new", "failed", "waiting", "answered", "timeout"}]
  /\ waitHandle \in [Waits -> Handles \cup {0}]
  /\ bound \subseteq Waits \X Parts
  /\ bindings \subseteq Waits
  /\ reserved \subseteq Waits
  /\ bundle \subseteq Waits
  /\ queue \in Seq(Answers \cup Timeouts)
  /\ current \in [event : Answers \cup Timeouts, handlers : SUBSET (Waits \X Parts)]
  /\ asked \subseteq Waits \X Parts
  /\ resumed \in [Waits -> Nat]
  /\ answerers \in [Waits -> SUBSET (Waits \cup {Nobody})]

(***************************************************************************)
(* A wait continues its coroutine at most once, however its answers, its   *)
(* timeout and ExpireAll race one another.                                 *)
(***************************************************************************)
ResumedOnce ==
  \A w \in Waits : resumed[w] = IF status[w] \in {"answered", "timeout"} THEN 1 ELSE 0

(***************************************************************************)
(* The handles in use are those of the waits that are still waiting, each  *)
(* its own: none is released twice or before its time, and none leaks.     *)
(***************************************************************************)
HandlesInUse ==
  /\ pool.used = {waitHandle[w] : w \in {v \in Requesting : Waiting(v)}}
  /\ \A v, w \in Requesting :
       Waiting(v) /\ Waiting(w) /\ waitHandle[v] = waitHandle[w] => v = w

(***************************************************************************)
(* A wait that is over leaves nothing behind that could continue it, and   *)
(* one that has a timeout has it reserved, or on its way.                  *)
(***************************************************************************)
Posted(w) == \E i \in DOMAIN queue : queue[i] = TimeoutEvent(w, "timeout")
Handled(w) == \E pair \in current.handlers : pair[1] = w /\ current.event.type # "answer"

TimeoutPending ==
  /\ reserved \subseteq {w \in Timed : Waiting(w)}
  /\ \A w \in Timed : Waiting(w) => w \in reserved \cup bundle \/ Posted(w) \/ Handled(w)

(***************************************************************************)
(* The answer to another request reaches a requesting wait only when that  *)
(* request was given up by a timeout, was one of several of which any was  *)
(* enough, or was itself taken for answered by such an answer: its handle  *)
(* is free again while the answer is on its way.                           *)
(***************************************************************************)
ForeignAnswers ==
  \A w \in Requesting : \A v \in answerers[w] \ {w} :
    /\ v \in Waits /\ ~Waiting(v)
    /\ status[v] = "timeout" \/ Kind[v] = "any" \/ answerers[v] # {v}

(* A wait with a timeout ends, whatever is answered.                       *)
Ends == \A w \in Timed : Waiting(w) ~> ~Waiting(w)
=============================================================================
