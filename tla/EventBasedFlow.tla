--------------------------- MODULE EventBasedFlow ---------------------------
(***************************************************************************)
(* The life of a SingleThreadFlow or MultiThreadFlow: Start and Stop       *)
(* (src/src/x2net/Flows), the Run loop of its worker threads, Dispatch and *)
(* the FlowStart/FlowStop handlers (Flow.cs), and the case stack (Case.cs),*)
(* over either event queue: the queue class is a type parameter of the     *)
(* flow, here a variable that keeps its initial value.                     *)
(***************************************************************************)
EXTENDS Naturals, Sequences, FiniteSets

CONSTANTS
  Workers,     \* threads a flow may have
  Crews,       \* bound: the sets of them a flow has, numThreads each
  NumCases,    \* the cases in its stack, 1 .. NumCases
  QueueKinds,  \* some of "synchronized" and "concurrent"
  Events,      \* ordinary events fed to the flow
  FlowStarts,  \* the FlowStart objects, one per Start that gets that far
  FlowStops    \* the FlowStop objects, one per Stop

ASSUME NumCasesNat == NumCases \in Nat
ASSUME QueueKindsKnown == QueueKinds \subseteq {"synchronized", "concurrent"}
ASSUME CrewsOfWorkers == Crews \subseteq (SUBSET Workers) \ {{}}
ASSUME ItemsDisjoint == /\ Events \cap (FlowStarts \cup FlowStops) = {}
                        /\ FlowStarts \cap FlowStops = {}

VARIABLES
  queue, closing, half, cs, got, posted,   \* the queue, see its modules
  thread,      \* thread # null, or threads.Count # 0
  life,        \* how far the Start or Stop holding syncRoot has got
  activated,   \* caseStack.activated
  cases,       \* each case: "new", "set up" or "disposed"
  started,     \* cases whose OnStart has run
  stopped,     \* cases whose OnStop has run
  todo,        \* what each worker still has to invoke for its event
  kind,        \* the class of the queue, one of QueueKinds
  crew         \* the threads of this flow: one in a SingleThreadFlow

qvars == <<queue, closing, half, cs, got, posted>>
fvars == <<thread, life, activated, cases, started, stopped, todo, kind, crew>>
vars == <<qvars, fvars>>

Case == 1 .. NumCases
Items == Events \cup FlowStarts \cup FlowStops

(***************************************************************************)
(* syncRoot is free when life is "idle".  Start goes through "spawn" (the  *)
(* threads are being created) and "spawned" (FlowStart is not enqueued);   *)
(* Stop through "closing" (Close has begun), "join" and "teardown".        *)
(***************************************************************************)
Lives == {"idle", "spawn", "spawned", "closing", "join", "teardown"}

Sync == INSTANCE SynchronizedEventQueue
  WITH Consumers <- Workers, Pollers <- {},
       Events <- Events \cup FlowStarts, Finals <- FlowStops

Conc == INSTANCE ConcurrentEventQueue
  WITH Consumers <- Workers, Events <- Events \cup FlowStarts,
       Finals <- FlowStops

IsSync == kind = "synchronized"

QEnqueue(e) ==
  IF IsSync THEN Sync!Enqueue(e) /\ UNCHANGED half ELSE Conc!Enqueue(e)

(* Close, up to its last step in a synchronized queue.                     *)
QClose(f) ==
  IF IsSync THEN Sync!Close(f) /\ UNCHANGED half ELSE Conc!CloseEnqueue(f)

QDequeueItem(w) ==
  IF IsSync THEN Sync!DequeueItem(w) /\ UNCHANGED half ELSE Conc!DequeueItem(w)

(* The steps of Dequeue that return no event.                              *)
QDequeueNone(w) ==
  IF IsSync
  THEN (Sync!DequeueNull(w) \/ Sync!DequeueWait(w)) /\ UNCHANGED half
  ELSE Conc!DequeueMiss(w) \/ Conc!DequeueRetry(w) \/ Conc!DequeueNull(w)

QReturn(w) == IF IsSync THEN Sync!Return(w) /\ UNCHANGED half ELSE Conc!Return(w)

Init ==
  /\ queue = <<>>
  /\ closing = FALSE
  /\ half = FALSE
  /\ cs = [w \in Workers |-> "none"]
  /\ got = [w \in Workers |-> <<>>]
  /\ posted = {}
  /\ thread = FALSE
  /\ life = "idle"
  /\ activated = FALSE
  /\ cases = [c \in Case |-> "new"]
  /\ started = {}
  /\ stopped = {}
  /\ todo = [w \in Workers |-> <<>>]
  /\ kind \in QueueKinds
  /\ crew \in Crews

-----------------------------------------------------------------------------
(* Feed: any thread may post to the flow at any time, attached is enough.  *)
Feed(e) ==
  /\ QEnqueue(e)
  /\ UNCHANGED fvars

(***************************************************************************)
(* Start up to the creation of the threads.  CaseStack.Setup sets up each  *)
(* case unless the stack is activated already; a case disposed by an       *)
(* earlier Stop throws in its Flow setter, and Start ends there, leaving   *)
(* the stack activated and the flow without a thread.                      *)
(***************************************************************************)
StartSetup ==
  /\ life = "idle"
  /\ ~thread
  /\ FlowStarts \ posted # {}
  /\ activated' = TRUE
  /\ IF activated
     THEN life' = "spawn" /\ UNCHANGED cases
     ELSE IF \E c \in Case : cases[c] = "disposed"
          THEN UNCHANGED <<life, cases>>
          ELSE life' = "spawn" /\ cases' = [c \in Case |-> "set up"]
  /\ UNCHANGED <<qvars, thread, started, stopped, todo, kind, crew>>

(* new Thread(Run) and thread.Start for one worker.                        *)
Spawn(w) ==
  /\ life = "spawn"
  /\ cs[w] = "none"
  /\ cs' = [cs EXCEPT ![w] = "enter"]
  /\ thread' = TRUE
  /\ life' = IF \E v \in crew \ {w} : cs[v] = "none" THEN "spawn" ELSE "spawned"
  /\ UNCHANGED <<queue, closing, half, got, posted,
                 activated, cases, started, stopped, todo, kind, crew>>

(* queue.Enqueue(new FlowStart()), the last statement of Start.            *)
StartEnqueue ==
  /\ life = "spawned"
  /\ \E e \in FlowStarts : QEnqueue(e)
  /\ life' = "idle"
  /\ UNCHANGED <<thread, activated, cases, started, stopped, todo, kind, crew>>

(* queue.Close(new FlowStop()) by Stop.                                    *)
StopClose ==
  /\ life = "idle"
  /\ thread
  /\ \E f \in FlowStops : QClose(f)
  /\ life' = IF IsSync THEN "join" ELSE "closing"
  /\ UNCHANGED <<thread, activated, cases, started, stopped, todo, kind, crew>>

StopCloseMark ==
  /\ life = "closing"
  /\ Conc!CloseMark
  /\ life' = "join"
  /\ UNCHANGED <<thread, activated, cases, started, stopped, todo, kind, crew>>

(* Mutant of Joined: waits for one of the threads only.                    *)
JoinedOne == \E w \in crew : cs[w] = "done"

(* Mutant of Joined: does not wait.                                        *)
JoinedNone == TRUE

Joined == \A w \in crew : cs[w] = "done"

(* Thread.Join returns for the last worker; caseStack.Teardown begins.     *)
StopJoin ==
  /\ life = "join"
  /\ Joined
  /\ cs' = [w \in Workers |-> "none"]
  /\ thread' = FALSE
  /\ life' = "teardown"
  /\ activated' = FALSE
  /\ UNCHANGED <<queue, closing, half, got, posted, cases, started, stopped, todo, kind, crew>>

(* Teardown of the last case not torn down yet: the reverse order.         *)
StopTeardown(c) ==
  /\ life = "teardown"
  /\ cases[c] # "disposed"
  /\ \A d \in Case : d > c => cases[d] = "disposed"
  /\ cases' = [cases EXCEPT ![c] = "disposed"]
  /\ UNCHANGED <<qvars, thread, life, activated, started, stopped, todo, kind, crew>>

StopEnd ==
  /\ life = "teardown"
  /\ \A c \in Case : cases[c] = "disposed"
  /\ life' = "idle"
  /\ UNCHANGED <<qvars, thread, activated, cases, started, stopped, todo, kind, crew>>

-----------------------------------------------------------------------------
(***************************************************************************)
(* The handler chain of an event, as the calls it makes on the cases:      *)
(* FlowStart starts every case in order, FlowStop stops them in reverse    *)
(* order, and an ordinary event is handled by every live case, whose       *)
(* bindings Setup made and Dispose removes: the place of another case in   *)
(* the chain is left in it as a call that does nothing.                    *)
(***************************************************************************)
Upward(op) == [i \in Case |-> [op |-> op, case |-> i]]
Downward(op) == [i \in Case |-> [op |-> op, case |-> NumCases + 1 - i]]
Handling(c) == IF cases[c] = "set up" THEN "handle" ELSE "unbound"

Chain(e) ==
  IF e \in FlowStarts THEN Upward("start")
  ELSE IF e \in FlowStops THEN Downward("stop")
  ELSE [i \in Case |-> [op |-> Handling(i), case |-> i]]

(* Dequeue returns an event and Dispatch builds its handler chain.         *)
RunDequeue(w) ==
  /\ QDequeueItem(w)
  /\ todo' = [todo EXCEPT ![w] = Chain(Head(queue))]
  /\ UNCHANGED <<thread, life, activated, cases, started, stopped, kind, crew>>

RunWait(w) ==
  /\ QDequeueNone(w)
  /\ UNCHANGED fvars

(* Dispatch invokes the next handler of the chain.                         *)
RunInvoke(w) ==
  /\ cs[w] = "busy"
  /\ todo[w] # <<>>
  /\ LET call == Head(todo[w])
     IN  /\ started' = IF call.op = "start" THEN started \cup {call.case} ELSE started
         /\ stopped' = IF call.op = "stop" THEN stopped \cup {call.case} ELSE stopped
  /\ todo' = [todo EXCEPT ![w] = Tail(@)]
  /\ UNCHANGED <<qvars, thread, life, activated, cases, kind, crew>>

(* The chain is done; Run loops back to Dequeue.                           *)
RunReturn(w) ==
  /\ todo[w] = <<>>
  /\ QReturn(w)
  /\ UNCHANGED fvars

Worker(w) == RunDequeue(w) \/ RunWait(w) \/ RunInvoke(w) \/ RunReturn(w)

Caller ==
  \/ \E w \in crew : Spawn(w)
  \/ StartEnqueue
  \/ StopCloseMark
  \/ StopJoin
  \/ \E c \in Case : StopTeardown(c)
  \/ StopEnd

Next ==
  \/ \E e \in Events : Feed(e)
  \/ StartSetup
  \/ StopClose
  \/ Caller
  \/ \E w \in Workers : Worker(w)

(***************************************************************************)
(* A started Start or Stop runs on, worker threads are scheduled and       *)
(* handlers return.  Nobody has to feed, start or stop the flow.           *)
(***************************************************************************)
Fairness ==
  /\ WF_vars(Caller)
  /\ \A w \in Workers : WF_vars(Worker(w))

Spec == Init /\ [][Next]_vars /\ Fairness

-----------------------------------------------------------------------------
WorkerStates == {"none", "busy", "enter", "wait", "woken", "missed", "done"}
CallSet == [op : {"start", "stop", "handle", "unbound"}, case : Case]

(* Types of the flow's own state and of its queue.                         *)
TypeOK ==
  /\ queue \in Seq(Items)
  /\ {closing, half, thread, activated} \subseteq BOOLEAN
  /\ cs \in [Workers -> WorkerStates]
  /\ got \in [Workers -> Seq(Items)]
  /\ posted \subseteq Items
  /\ life \in Lives
  /\ cases \in [Case -> {"new", "set up", "disposed"}]
  /\ started \subseteq Case
  /\ stopped \subseteq Case
  /\ todo \in [Workers -> Seq(CallSet)]
  /\ kind \in QueueKinds
  /\ crew \in Crews

(***************************************************************************)
(* No worker is left with a handler to invoke on a case that is not set up *)
(* (yet or any more): Setup precedes the threads and Teardown waits for    *)
(* every one of them.  Only a flow started again runs on disposed cases:   *)
(* the Start that finds them leaves the stack activated for the next.      *)
(***************************************************************************)
RunsAgain == thread /\ \E c \in Case : cases[c] = "disposed"

CallsOnlyLiveCases ==
  RunsAgain \/ \A w \in Workers : \A i \in DOMAIN todo[w] :
    todo[w][i].op # "unbound" => cases[todo[w][i].case] = "set up"

(***************************************************************************)
(* ICase.Stop is "called before the holding flow stops": a case that was   *)
(* torn down had its OnStop called, if it was started at all.  Over the    *)
(* concurrent queue a thread may leave before it is handed FlowStop.       *)
(***************************************************************************)
StoppedBeforeTeardown ==
  IsSync => \A c \in Case : cases[c] = "disposed" => c \in stopped

(***************************************************************************)
(* "It receives the above FlowStop as its last event": no worker gets an   *)
(* ordinary event once one of them has been handed FlowStop.  The          *)
(* concurrent queue still accepts what is posted after Close.              *)
(***************************************************************************)
FlowStopLast ==
  [][IsSync /\ (\E w \in Workers : \E i \in DOMAIN got[w] : got[w][i] \in FlowStops)
       => \A w \in Workers : got'[w] # got[w] => got'[w][Len(got'[w])] \in FlowStops]_vars

(***************************************************************************)
(* Stop returns: every worker leaves its loop, Join ends and the cases are *)
(* torn down.                                                              *)
(***************************************************************************)
StopReturns == life \in {"closing", "join"} ~> (life = "idle" /\ ~thread)

(***************************************************************************)
(* Every event in the queue of a running flow is eventually taken, or the  *)
(* flow is stopped; the queue of a flow that runs again is closed.         *)
(***************************************************************************)
Queued(e) == \E i \in DOMAIN queue : queue[i] = e
Delivered == \A e \in Events : Queued(e) /\ thread ~> ~thread \/ RunsAgain \/ ~Queued(e)
=============================================================================
