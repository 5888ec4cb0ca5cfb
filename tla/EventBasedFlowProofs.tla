------------------------ MODULE EventBasedFlowProofs ------------------------
(***************************************************************************)
(* Theorems about EventBasedFlow for any number of workers, cases and      *)
(* events: over either queue no handler runs on a case that is not live;   *)
(* over the synchronized queue every case is stopped before it is torn     *)
(* down, and FlowStop is the last event of the flow.                       *)
(***************************************************************************)
EXTENDS EventBasedFlow, TLAPS

Posted == Events \cup FlowStarts

(* Threads in the wait set may be woken, and nothing else.                 *)
Woken == /\ cs' \in [Workers -> WorkerStates]
         /\ \A w \in Workers : cs'[w] = cs[w] \/ (cs[w] = "wait" /\ cs'[w] = "woken")

(* Worker w goes from one state to another.                                *)
Moves(w, from, to) ==
  /\ cs[w] \in from
  /\ cs'[w] \in to
  /\ cs' \in [Workers -> WorkerStates]
  /\ \A v \in Workers \ {w} : cs'[v] = cs[v]

(* Appending to a sequence, and taking its head.                           *)
LEMMA AppendType ==
  ASSUME NEW S, NEW s \in Seq(S), NEW e \in S
  PROVE  /\ Append(s, e) \in Seq(S)
         /\ Len(Append(s, e)) = Len(s) + 1
         /\ \A i \in 1 .. Len(s) : Append(s, e)[i] = s[i]
         /\ Append(s, e)[Len(s) + 1] = e
  OBVIOUS

LEMMA ElementType ==
  ASSUME NEW S, NEW s \in Seq(S), NEW i \in DOMAIN s
  PROVE  s # <<>> /\ i \in 1 .. Len(s) /\ s[i] \in S
  OBVIOUS

LEMMA HeadTailType ==
  ASSUME NEW S, NEW s \in Seq(S), s # <<>>
  PROVE  /\ Head(s) \in S /\ Head(s) = s[1]
         /\ Len(s) \in Nat \ {0} /\ DOMAIN s = 1 .. Len(s)
         /\ Tail(s) \in Seq(S)
         /\ Len(Tail(s)) = Len(s) - 1 /\ DOMAIN Tail(s) = 1 .. Len(s) - 1
         /\ \A i \in 1 .. Len(s) - 1 : Tail(s)[i] = s[i + 1]
  OBVIOUS

-----------------------------------------------------------------------------
(* What the queue does, of either class, as far as the flow depends on it. *)
LEMMA EnqueueEffect ==
  ASSUME TypeOK, NEW e \in Posted, QEnqueue(e)
  PROVE  /\ queue' \in Seq(Items) /\ posted' \subseteq Items /\ half' \in BOOLEAN
         /\ queue' \in {queue, Append(queue, e)}
         /\ IsSync /\ closing => queue' = queue
         /\ UNCHANGED <<closing, got>>
         /\ Woken
<1>0. e \in Items /\ Append(queue, e) \in Seq(Items)
  <2>1. e \in Items
    BY DEF Posted, Items
  <2> QED BY <2>1, AppendType DEF TypeOK
<1>1. CASE IsSync
  <2>1. queue' \in {queue, Append(queue, e)} /\ (closing => queue' = queue)
    BY <1>1 DEF QEnqueue, Sync!Enqueue, Sync!Open
  <2>2. posted' \subseteq Items /\ half' \in BOOLEAN /\ UNCHANGED <<closing, got>>
    BY <1>0, <1>1 DEF QEnqueue, Sync!Enqueue, TypeOK
  <2>3. UNCHANGED cs \/ \E v \in Workers : cs[v] = "wait" /\ cs' = [cs EXCEPT ![v] = "woken"]
    BY <1>1 DEF QEnqueue, Sync!Enqueue, Sync!PulseOnFirst, Sync!Pulse, Sync!Waiting
  <2>4. Woken
    BY <2>3 DEF Woken, TypeOK, WorkerStates
  <2> QED BY <1>0, <2>1, <2>2, <2>4 DEF TypeOK
<1>2. CASE ~IsSync
  <2>1. /\ queue' = Append(queue, e) /\ posted' = posted \cup {e}
        /\ UNCHANGED <<closing, half, cs, got>>
    BY <1>2 DEF QEnqueue, Conc!Enqueue
  <2>2. Woken
    BY <2>1 DEF Woken, TypeOK
  <2> QED BY <1>0, <1>2, <2>1, <2>2 DEF TypeOK
<1> QED BY <1>1, <1>2

LEMMA CloseEffect ==
  ASSUME TypeOK, NEW f \in FlowStops, QClose(f)
  PROVE  /\ queue' \in Seq(Items) /\ posted' \subseteq Items
         /\ half' \in BOOLEAN /\ closing' \in BOOLEAN
         /\ queue' = Append(queue, f)
         /\ IsSync => closing'
         /\ UNCHANGED got
         /\ Woken
<1>0. f \in Items /\ Append(queue, f) \in Seq(Items)
  <2>1. f \in Items
    BY DEF Items
  <2> QED BY <2>1, AppendType DEF TypeOK
<1>1. CASE IsSync
  <2>1. /\ queue' = Append(queue, f) /\ posted' = posted \cup {f} /\ closing' = TRUE
        /\ UNCHANGED <<half, got>>
    BY <1>1 DEF QClose, Sync!Close
  <2>2. cs' = [c \in Workers |-> IF cs[c] = "wait" THEN "woken" ELSE cs[c]]
    BY <1>1 DEF QClose, Sync!Close, Sync!PulseAll
  <2>3. Woken
    BY <2>2 DEF Woken, TypeOK, WorkerStates
  <2> QED BY <1>0, <2>1, <2>3 DEF TypeOK
<1>2. CASE ~IsSync
  <2>1. /\ queue' = Append(queue, f) /\ posted' = posted \cup {f} /\ half' = TRUE
        /\ UNCHANGED <<closing, cs, got>>
    BY <1>2 DEF QClose, Conc!CloseEnqueue
  <2>2. Woken
    BY <2>1 DEF Woken, TypeOK
  <2> QED BY <1>0, <1>2, <2>1, <2>2 DEF TypeOK
<1> QED BY <1>1, <1>2

LEMMA DequeueEffect ==
  ASSUME TypeOK, NEW w \in Workers, QDequeueItem(w)
  PROVE  /\ queue # <<>> /\ queue' = Tail(queue) /\ queue' \in Seq(Items)
         /\ got' = [got EXCEPT ![w] = Append(@, Head(queue))]
         /\ got' \in [Workers -> Seq(Items)] /\ Head(queue) \in Items
         /\ UNCHANGED <<closing, half, posted>>
         /\ Moves(w, {"enter", "woken"}, {"busy"})
<1>1. /\ queue # <<>> /\ queue' = Tail(queue)
      /\ got' = [got EXCEPT ![w] = Append(@, Head(queue))]
      /\ UNCHANGED <<closing, half, posted>>
      /\ cs[w] \in {"enter", "woken"} /\ cs' = [cs EXCEPT ![w] = "busy"]
  BY DEF QDequeueItem, Sync!DequeueItem, Sync!Take, Sync!AtMonitor, Conc!DequeueItem
<1>2. Head(queue) \in Items /\ Tail(queue) \in Seq(Items)
  BY <1>1, HeadTailType DEF TypeOK
<1>3. Moves(w, {"enter", "woken"}, {"busy"})
  BY <1>1 DEF Moves, TypeOK, WorkerStates
<1>4. got' \in [Workers -> Seq(Items)]
  <2>1. Append(got[w], Head(queue)) \in Seq(Items)
    BY <1>2, AppendType DEF TypeOK
  <2> QED BY <1>1, <2>1 DEF TypeOK
<1> QED BY <1>1, <1>2, <1>3, <1>4

LEMMA NoItemEffect ==
  ASSUME TypeOK, NEW w \in Workers, QDequeueNone(w)
  PROVE  /\ UNCHANGED <<queue, closing, half, got, posted>>
         /\ Moves(w, {"enter", "woken", "missed"}, {"wait", "missed", "enter", "done"})
         /\ IsSync /\ cs'[w] = "done" => queue = <<>> /\ closing
<1>1. CASE IsSync
  BY <1>1
    DEF QDequeueNone, Sync!DequeueNull, Sync!DequeueWait, Sync!AtMonitor, TypeOK,
       Moves,
     WorkerStates
<1>2. CASE ~IsSync
  BY <1>2
    DEF QDequeueNone, Conc!DequeueMiss, Conc!DequeueRetry, Conc!DequeueNull, TypeOK,
     Moves, WorkerStates
<1> QED BY <1>1, <1>2

LEMMA ReturnEffect ==
  ASSUME TypeOK, NEW w \in Workers, QReturn(w)
  PROVE  /\ UNCHANGED <<queue, closing, half, got, posted>>
         /\ Moves(w, {"busy"}, {"enter"})
BY DEF QReturn, Sync!Return, Conc!Return, TypeOK, Moves, WorkerStates

-----------------------------------------------------------------------------
(* A worker has handlers to invoke only while it is busy.                  *)
BusyOnly == \A w \in Workers : cs[w] # "busy" => todo[w] = <<>>

(* A worker that runs belongs to a flow that is neither torn down nor yet  *)
(* to be set up.                                                           *)
Running ==
  /\ \A w \in Workers : cs[w] # "none" => w \in crew /\ thread
  /\ thread => life # "teardown"
  /\ thread \/ life \in {"spawn", "spawned"} => activated

(* An activated stack has all its cases set up, or was disposed before.    *)
Activated ==
  activated => \/ \A c \in Case : cases[c] = "set up"
               \/ \E c \in Case : cases[c] = "disposed"

LiveInv == TypeOK /\ BusyOnly /\ Running /\ Activated

LEMMA CaseIsNat == \A c \in Case : c \in Nat /\ NumCases + 1 - c \in Case
BY NumCasesNat DEF Case

(* The handler chain of any event is a sequence of calls on cases.         *)
LEMMA ChainType ==
  ASSUME TypeOK, NEW e \in Items
  PROVE  Chain(e) \in Seq(CallSet)
<1>1. ASSUME NEW f \in [Case -> CallSet] PROVE f \in Seq(CallSet)
  BY <1>1, NumCasesNat DEF Case
<1>2. /\ Upward("start") \in [Case -> CallSet]
      /\ Downward("stop") \in [Case -> CallSet]
      /\ [i \in Case |-> [op |-> Handling(i), case |-> i]] \in [Case -> CallSet]
  BY CaseIsNat DEF Upward, Downward, Handling, CallSet
<1> QED BY <1>1, <1>2 DEF Chain

LEMMA LiveFeed ==
  ASSUME LiveInv, NEW e \in Events, Feed(e)
  PROVE  LiveInv'
<1>1. TypeOK'
  BY EnqueueEffect DEF LiveInv, TypeOK, Feed, fvars, Woken, WorkerStates, Lives, Posted
<1>2. BusyOnly'
  BY EnqueueEffect DEF LiveInv, TypeOK, BusyOnly, Running, Feed, fvars, Woken, Posted
<1>3. Running'
  BY EnqueueEffect DEF LiveInv, TypeOK, Running, Feed, fvars, Woken, Posted
<1>4. Activated'
  BY EnqueueEffect DEF LiveInv, TypeOK, Activated, Feed, fvars, Woken, Posted
<1> QED BY <1>1, <1>2, <1>3, <1>4 DEF LiveInv

LEMMA LiveStartSetup ==
  ASSUME LiveInv, StartSetup
  PROVE  LiveInv'
<1>1. TypeOK'
  BY DEF LiveInv, TypeOK, StartSetup, qvars, Lives
<1>2. BusyOnly'
  BY DEF LiveInv, TypeOK, BusyOnly, Running, StartSetup, qvars
<1>3. Running'
  BY DEF LiveInv, TypeOK, Running, StartSetup, qvars
<1>4. Activated'
  BY DEF LiveInv, TypeOK, Activated, StartSetup, qvars
<1> QED BY <1>1, <1>2, <1>3, <1>4 DEF LiveInv

LEMMA LiveSpawn ==
  ASSUME LiveInv, NEW w \in crew, Spawn(w)
  PROVE  LiveInv'
<1>1. TypeOK'
  BY CrewsOfWorkers DEF LiveInv, TypeOK, Spawn, WorkerStates, Lives
<1>2. BusyOnly'
  BY CrewsOfWorkers DEF LiveInv, TypeOK, BusyOnly, Running, Spawn
<1>3. Running'
  BY CrewsOfWorkers DEF LiveInv, TypeOK, Running, Spawn
<1>4. Activated'
  BY CrewsOfWorkers DEF LiveInv, TypeOK, Activated, Spawn
<1> QED BY <1>1, <1>2, <1>3, <1>4 DEF LiveInv

LEMMA LiveStartEnqueue ==
  ASSUME LiveInv, StartEnqueue
  PROVE  LiveInv'
<1>1. TypeOK'
  BY EnqueueEffect DEF LiveInv, TypeOK, StartEnqueue, Woken, WorkerStates, Lives, Posted
<1>2. BusyOnly'
  BY EnqueueEffect DEF LiveInv, TypeOK, BusyOnly, Running, StartEnqueue, Woken, Posted
<1>3. Running'
  BY EnqueueEffect DEF LiveInv, TypeOK, Running, StartEnqueue, Woken, Posted
<1>4. Activated'
  BY EnqueueEffect DEF LiveInv, TypeOK, Activated, StartEnqueue, Woken, Posted
<1> QED BY <1>1, <1>2, <1>3, <1>4 DEF LiveInv

LEMMA LiveStopClose ==
  ASSUME LiveInv, StopClose
  PROVE  LiveInv'
<1>1. TypeOK'
  BY CloseEffect DEF LiveInv, TypeOK, StopClose, Woken, WorkerStates, Lives
<1>2. BusyOnly'
  BY CloseEffect DEF LiveInv, TypeOK, BusyOnly, Running, StopClose, Woken
<1>3. Running'
  BY CloseEffect DEF LiveInv, TypeOK, Running, StopClose, Woken
<1>4. Activated'
  BY CloseEffect DEF LiveInv, TypeOK, Activated, StopClose, Woken
<1> QED BY <1>1, <1>2, <1>3, <1>4 DEF LiveInv

LEMMA LiveStopCloseMark ==
  ASSUME LiveInv, StopCloseMark
  PROVE  LiveInv'
<1>1. TypeOK'
  BY DEF LiveInv, TypeOK, StopCloseMark, Conc!CloseMark, Lives
<1>2. BusyOnly'
  BY DEF LiveInv, TypeOK, BusyOnly, Running, StopCloseMark, Conc!CloseMark
<1>3. Running'
  BY DEF LiveInv, TypeOK, Running, StopCloseMark, Conc!CloseMark
<1>4. Activated'
  BY DEF LiveInv, TypeOK, Activated, StopCloseMark, Conc!CloseMark
<1> QED BY <1>1, <1>2, <1>3, <1>4 DEF LiveInv

LEMMA LiveStopJoin ==
  ASSUME LiveInv, StopJoin
  PROVE  LiveInv'
<1>1. TypeOK'
  BY CrewsOfWorkers DEF LiveInv, TypeOK, StopJoin, Joined, WorkerStates, Lives
<1>2. BusyOnly'
  BY CrewsOfWorkers DEF LiveInv, TypeOK, BusyOnly, Running, StopJoin, Joined
<1>3. Running'
  BY CrewsOfWorkers DEF LiveInv, TypeOK, Running, StopJoin, Joined
<1>4. Activated'
  BY CrewsOfWorkers DEF LiveInv, TypeOK, Activated, StopJoin, Joined
<1> QED BY <1>1, <1>2, <1>3, <1>4 DEF LiveInv

LEMMA LiveStopTeardown ==
  ASSUME LiveInv, NEW c \in Case, StopTeardown(c)
  PROVE  LiveInv'
<1>1. TypeOK'
  BY DEF LiveInv, TypeOK, StopTeardown, qvars, Lives
<1>2. BusyOnly'
  BY DEF LiveInv, TypeOK, BusyOnly, Running, StopTeardown, qvars
<1>3. Running'
  BY DEF LiveInv, TypeOK, Running, StopTeardown, qvars
<1>4. Activated'
  BY DEF LiveInv, TypeOK, Activated, StopTeardown, qvars
<1> QED BY <1>1, <1>2, <1>3, <1>4 DEF LiveInv

LEMMA LiveStopEnd ==
  ASSUME LiveInv, StopEnd
  PROVE  LiveInv'
<1>1. TypeOK'
  BY DEF LiveInv, TypeOK, StopEnd, qvars, Lives
<1>2. BusyOnly'
  BY DEF LiveInv, TypeOK, BusyOnly, Running, StopEnd, qvars
<1>3. Running'
  BY DEF LiveInv, TypeOK, Running, StopEnd, qvars
<1>4. Activated'
  BY DEF LiveInv, TypeOK, Activated, StopEnd, qvars
<1> QED BY <1>1, <1>2, <1>3, <1>4 DEF LiveInv

LEMMA LiveRunDequeue ==
  ASSUME LiveInv, NEW w \in Workers, RunDequeue(w)
  PROVE  LiveInv'
<1>1. TypeOK'
  <2>1. Chain(Head(queue)) \in Seq(CallSet)
    BY DequeueEffect, ChainType DEF LiveInv, RunDequeue
  <2>2. todo' \in [Workers -> Seq(CallSet)]
    BY <2>1 DEF LiveInv, TypeOK, RunDequeue
  <2>3. cs' \in [Workers -> WorkerStates]
    BY DequeueEffect DEF LiveInv, RunDequeue, Moves
  <2>4. QED
    BY <2>2, <2>3, DequeueEffect DEF LiveInv, TypeOK, RunDequeue
<1>2. BusyOnly'
  BY DequeueEffect DEF LiveInv, TypeOK, BusyOnly, Running, RunDequeue, Moves
<1>3. Running'
  BY DequeueEffect DEF LiveInv, TypeOK, Running, RunDequeue, Moves
<1>4. Activated'
  BY DequeueEffect DEF LiveInv, TypeOK, Activated, RunDequeue, Moves
<1> QED BY <1>1, <1>2, <1>3, <1>4 DEF LiveInv

LEMMA LiveRunWait ==
  ASSUME LiveInv, NEW w \in Workers, RunWait(w)
  PROVE  LiveInv'
<1>1. TypeOK'
  BY NoItemEffect DEF LiveInv, TypeOK, RunWait, fvars, Moves, WorkerStates, Lives
<1>2. BusyOnly'
  BY NoItemEffect DEF LiveInv, TypeOK, BusyOnly, Running, RunWait, fvars, Moves
<1>3. Running'
  BY NoItemEffect DEF LiveInv, TypeOK, Running, RunWait, fvars, Moves
<1>4. Activated'
  BY NoItemEffect DEF LiveInv, TypeOK, Activated, RunWait, fvars, Moves
<1> QED BY <1>1, <1>2, <1>3, <1>4 DEF LiveInv

LEMMA LiveRunInvoke ==
  ASSUME LiveInv, NEW w \in Workers, RunInvoke(w)
  PROVE  LiveInv'
<1>1. TypeOK'
  <2>1. Head(todo[w]) \in CallSet /\ Tail(todo[w]) \in Seq(CallSet)
    BY HeadTailType DEF LiveInv, TypeOK, RunInvoke
  <2>2. todo' \in [Workers -> Seq(CallSet)]
    BY <2>1 DEF LiveInv, TypeOK, RunInvoke
  <2>3. started' \subseteq Case /\ stopped' \subseteq Case
    BY <2>1 DEF LiveInv, TypeOK, RunInvoke, CallSet
  <2>4. QED
    BY <2>2, <2>3 DEF LiveInv, TypeOK, RunInvoke, qvars
<1>2. BusyOnly'
  BY DEF LiveInv, TypeOK, BusyOnly, Running, RunInvoke, qvars
<1>3. Running'
  BY DEF LiveInv, TypeOK, Running, RunInvoke, qvars
<1>4. Activated'
  BY DEF LiveInv, TypeOK, Activated, RunInvoke, qvars
<1> QED BY <1>1, <1>2, <1>3, <1>4 DEF LiveInv

LEMMA LiveRunReturn ==
  ASSUME LiveInv, NEW w \in Workers, RunReturn(w)
  PROVE  LiveInv'
<1>1. TypeOK'
  BY ReturnEffect DEF LiveInv, TypeOK, RunReturn, fvars, Moves, WorkerStates, Lives
<1>2. BusyOnly'
  BY ReturnEffect DEF LiveInv, TypeOK, BusyOnly, Running, RunReturn, fvars, Moves
<1>3. Running'
  BY ReturnEffect DEF LiveInv, TypeOK, Running, RunReturn, fvars, Moves
<1>4. Activated'
  BY ReturnEffect DEF LiveInv, TypeOK, Activated, RunReturn, fvars, Moves
<1> QED BY <1>1, <1>2, <1>3, <1>4 DEF LiveInv

LEMMA LiveInit == Init => LiveInv
<1> SUFFICES ASSUME Init PROVE LiveInv
  OBVIOUS
<1>1. /\ queue \in Seq(Items) /\ got \in [Workers -> Seq(Items)]
      /\ todo \in [Workers -> Seq(CallSet)] /\ cs \in [Workers -> WorkerStates]
  BY DEF Init, WorkerStates
<1>2. TypeOK
  BY <1>1 DEF Init, TypeOK, Lives
<1>3. BusyOnly /\ Running /\ Activated
  BY DEF Init, BusyOnly, Running, Activated
<1> QED BY <1>2, <1>3 DEF LiveInv

LEMMA LiveStep == LiveInv /\ [Next]_vars => LiveInv'
<1> SUFFICES ASSUME LiveInv, [Next]_vars PROVE LiveInv'
  OBVIOUS
<1>1. CASE \E e \in Events : Feed(e)
  BY <1>1, LiveFeed
<1>2. CASE StartSetup \/ StopClose
  BY <1>2, LiveStartSetup, LiveStopClose
<1>3. CASE Caller
  BY <1>3, LiveSpawn, LiveStartEnqueue, LiveStopCloseMark, LiveStopJoin,
       LiveStopTeardown,
     LiveStopEnd DEF Caller
<1>4. ASSUME NEW w \in Workers, Worker(w) PROVE LiveInv'
  BY <1>4, LiveRunDequeue, LiveRunWait, LiveRunInvoke, LiveRunReturn DEF Worker
<1>5. CASE UNCHANGED vars
  BY <1>5 DEF vars, qvars, fvars, LiveInv, TypeOK, BusyOnly, Running, Activated
<1> QED BY <1>1, <1>2, <1>3, <1>4, <1>5 DEF Next

THEOREM Live == Spec => []LiveInv
<1> QED BY LiveInit, LiveStep, PTL DEF Spec

(***************************************************************************)
(* In the first life of a flow, whatever its queue and however many its    *)
(* threads, no worker has a handler to invoke on a case that is not set up *)
(* (yet or any more).                                                      *)
(***************************************************************************)
THEOREM LiveCases == Spec => []CallsOnlyLiveCases
<1>1. LiveInv => CallsOnlyLiveCases
  <2> SUFFICES ASSUME LiveInv, ~RunsAgain, NEW w \in Workers, NEW i \in DOMAIN todo[w]
               PROVE  cases[todo[w][i].case] = "set up"
    BY DEF CallsOnlyLiveCases
  <2>1. todo[w] # <<>> /\ todo[w][i] \in CallSet
    BY ElementType DEF LiveInv, TypeOK
  <2>2. thread /\ activated
    BY <2>1 DEF LiveInv, BusyOnly, Running
  <2>3. todo[w][i].case \in Case
    BY <2>1 DEF CallSet
  <2> QED BY <2>2, <2>3 DEF LiveInv, Activated, RunsAgain
<1> QED BY <1>1, Live, PTL

-----------------------------------------------------------------------------
(***************************************************************************)
(* The order of events over the synchronized queue.  Behind the first      *)
(* FlowStop of the queue there is nothing but FlowStops, and once one was  *)
(* handed out there is nothing else left.                                  *)
(***************************************************************************)
QueueOrder ==
  IsSync =>
    /\ \A i, j \in DOMAIN queue : i < j /\ queue[i] \in FlowStops => queue[j] \in FlowStops
    /\ (\E i \in DOMAIN queue : queue[i] \in FlowStops) => closing

GotStop == \E w \in Workers : \E i \in DOMAIN got[w] : got[w][i] \in FlowStops

StopsOnly ==
  IsSync /\ GotStop => closing /\ \A i \in DOMAIN queue : queue[i] \in FlowStops

(* The steps of the flow as the queue sees them.                           *)
QueueStep(old, new) ==
  \/ new = old /\ UNCHANGED got /\ (closing => closing')
  \/ \E e \in Posted : /\ new = Append(old, e) /\ UNCHANGED <<got, closing>>
                       /\ IsSync => ~closing
  \/ \E f \in FlowStops : new = Append(old, f) /\ UNCHANGED got /\ (IsSync => closing')
  \/ \E w \in Workers : /\ old # <<>> /\ new = Tail(old) /\ UNCHANGED closing
                        /\ got' = [got EXCEPT ![w] = Append(@, Head(old))]

LEMMA QueueSteps ==
  ASSUME LiveInv, [Next]_vars
  PROVE  QueueStep(queue, queue') /\ kind' = kind
<1>1. ASSUME NEW e \in Posted, QEnqueue(e), UNCHANGED kind
      PROVE  QueueStep(queue, queue')
  BY <1>1, EnqueueEffect DEF LiveInv, QueueStep
<1>2. ASSUME NEW e \in Events, Feed(e) PROVE QueueStep(queue, queue') /\ kind' = kind
  BY <1>1, <1>2 DEF Feed, fvars, Posted
<1>3. CASE StartEnqueue
  BY <1>1, <1>3 DEF StartEnqueue, Posted
<1>4. CASE StopClose
  BY <1>4, CloseEffect DEF StopClose, LiveInv, QueueStep
<1>5. CASE StopCloseMark
  BY <1>5 DEF StopCloseMark, Conc!CloseMark, QueueStep
<1>6. ASSUME NEW w \in Workers, Worker(w) PROVE QueueStep(queue, queue') /\ kind' = kind
  BY <1>6, DequeueEffect, NoItemEffect, ReturnEffect
    DEF Worker, RunDequeue, RunWait, RunInvoke, RunReturn, LiveInv, QueueStep, fvars, qvars
<1>7. CASE UNCHANGED <<queue, got, closing, kind>>
  BY <1>7 DEF QueueStep
<1> QED BY <1>2, <1>3, <1>4, <1>5, <1>6, <1>7
  DEF Next, Caller, StartSetup, Spawn, StopJoin, StopTeardown, StopEnd, vars, qvars, fvars

LEMMA OrderStep ==
  ASSUME LiveInv, QueueOrder, StopsOnly, [Next]_vars
  PROVE  QueueOrder' /\ StopsOnly'
<1>0. /\ QueueStep(queue, queue') /\ kind' = kind
      /\ queue \in Seq(Items) /\ got \in [Workers -> Seq(Items)]
  BY QueueSteps DEF LiveInv, TypeOK
<1> SUFFICES ASSUME IsSync PROVE QueueOrder' /\ StopsOnly'
  BY <1>0 DEF QueueOrder, StopsOnly, IsSync
<1>1. CASE queue' = queue /\ UNCHANGED got /\ (closing => closing')
  BY <1>1 DEF QueueOrder, StopsOnly, GotStop
<1>2. ASSUME NEW e \in Posted, queue' = Append(queue, e), UNCHANGED <<got, closing>>, ~closing
      PROVE  QueueOrder' /\ StopsOnly'
  <2>1. \A i \in DOMAIN queue : queue[i] \notin FlowStops
    BY <1>2 DEF QueueOrder
  <2>2. e \in Items /\ e \notin FlowStops
    BY ItemsDisjoint DEF Posted, Items
  <2>3. \A i \in DOMAIN queue' : queue'[i] \notin FlowStops
    BY <1>0, <1>2, <2>1, <2>2, AppendType
  <2>4. QED
    BY <1>2, <2>3 DEF QueueOrder, StopsOnly, GotStop
<1>3. ASSUME NEW f \in FlowStops, queue' = Append(queue, f), UNCHANGED got, closing'
      PROVE  QueueOrder' /\ StopsOnly'
  <2>1. f \in Items
    BY DEF Items
  <2>2. /\ DOMAIN queue = 1 .. Len(queue) /\ DOMAIN queue' = 1 .. Len(queue) + 1
        /\ Len(queue) \in Nat
        /\ \A i \in 1 .. Len(queue) : queue'[i] = queue[i]
        /\ queue'[Len(queue) + 1] = f
    BY <1>0, <1>3, <2>1, AppendType
  <2>3. QueueOrder'
    BY <1>3, <2>2 DEF QueueOrder
  <2>4. GotStop => \A i \in DOMAIN queue' : queue'[i] \in FlowStops
    BY <2>2 DEF StopsOnly
  <2>5. QED
    BY <1>3, <2>3, <2>4 DEF StopsOnly, GotStop
<1>4. ASSUME NEW w \in Workers, queue # <<>>, queue' = Tail(queue), UNCHANGED closing,
             got' = [got EXCEPT ![w] = Append(@, Head(queue))]
      PROVE  QueueOrder' /\ StopsOnly'
  <2>1. /\ Head(queue) = queue[1] /\ Head(queue) \in Items
        /\ DOMAIN queue = 1 .. Len(queue) /\ Len(queue) \in Nat \ {0}
        /\ DOMAIN queue' = 1 .. Len(queue) - 1
        /\ \A i \in 1 .. Len(queue) - 1 : queue'[i] = queue[i + 1]
    BY <1>0, <1>4, HeadTailType
  <2>2. QueueOrder'
    BY <1>4, <2>1 DEF QueueOrder
  <2>3. GotStop' => GotStop \/ Head(queue) \in FlowStops
    <3>1. \A v \in Workers : v # w => got'[v] = got[v]
      BY <1>0, <1>4
    <3>2. got'[w] = Append(got[w], Head(queue)) /\ got[w] \in Seq(Items)
      BY <1>0, <1>4
    <3>3. \A i \in DOMAIN got'[w] : got'[w][i] = Head(queue) \/ (i \in DOMAIN got[w] /\ got'[w][i] = got[w][i])
      BY <2>1, <3>2, AppendType
    <3>4. QED
      BY <3>1, <3>3 DEF GotStop
  <2>4. GotStop' => closing /\ \A i \in DOMAIN queue : i > 1 => queue[i] \in FlowStops
    BY <2>1, <2>3 DEF StopsOnly, QueueOrder
  <2>5. QED
    BY <1>4, <2>1, <2>2, <2>4 DEF StopsOnly
<1> QED BY <1>0, <1>1, <1>2, <1>3, <1>4 DEF QueueStep

(***************************************************************************)
(* "It receives the above FlowStop as its last event", for any number of   *)
(* threads, posters and lives of a flow over the synchronized queue.       *)
(***************************************************************************)
THEOREM StopIsLast == Spec => FlowStopLast
<1> DEFINE OrderInv == LiveInv /\ QueueOrder /\ StopsOnly
           Last(w) == got'[w][Len(got'[w])] \in FlowStops
<1>1. Init => OrderInv
  BY LiveInit DEF Init, QueueOrder, StopsOnly, GotStop
<1>2. OrderInv /\ [Next]_vars => OrderInv'
  BY LiveStep, OrderStep
<1>3. OrderInv /\ [Next]_vars =>
        [IsSync /\ (\E w \in Workers : \E i \in DOMAIN got[w] : got[w][i] \in FlowStops)
          => \A w \in Workers : got'[w] # got[w] => got'[w][Len(got'[w])] \in FlowStops]_vars
  <2> SUFFICES ASSUME OrderInv, [Next]_vars, IsSync, GotStop, NEW w \in Workers, got'[w] # got[w]
               PROVE  Last(w)
    BY DEF GotStop
  <2>1. /\ QueueStep(queue, queue')
        /\ queue \in Seq(Items) /\ got \in [Workers -> Seq(Items)]
    BY QueueSteps DEF LiveInv, TypeOK
  <2>2. PICK v \in Workers : /\ queue # <<>>
                             /\ got' = [got EXCEPT ![v] = Append(@, Head(queue))]
    BY <2>1 DEF QueueStep
  <2>3. v = w /\ got'[w] = Append(got[w], Head(queue)) /\ got[w] \in Seq(Items)
    BY <2>1, <2>2
  <2>4. Head(queue) \in FlowStops /\ Head(queue) \in Items
    BY <2>1, <2>2, HeadTailType DEF StopsOnly
  <2>5. Len(got'[w]) = Len(got[w]) + 1 /\ got'[w][Len(got[w]) + 1] = Head(queue)
    BY <2>3, <2>4, AppendType
  <2> QED BY <2>4, <2>5
<1> QED BY <1>1, <1>2, <1>3, PTL DEF Spec, FlowStopLast

-----------------------------------------------------------------------------
(***************************************************************************)
(* The cases are stopped before they are torn down.  From Close on,        *)
(* FlowStop is in the queue or a worker has still to stop every case that  *)
(* is not stopped; a worker leaves only an empty queue, so that when all   *)
(* have left every case is stopped, and from then on remains so.           *)
(***************************************************************************)
HasStop == \E i \in DOMAIN queue : queue[i] \in FlowStops

WillStop(w, c) == \E i \in DOMAIN todo[w] : todo[w][i] = [op |-> "stop", case |-> c]
UnderWay == \E w \in Workers : \A c \in Case \ stopped : WillStop(w, c)

AllStopped == Case \subseteq stopped

Closed == IsSync => (closing => HasStop \/ UnderWay)
Joining ==
  IsSync => /\ life # "closing"
            /\ life = "join" => closing
            /\ closing => life = "join" \/ AllStopped
Left == IsSync => \A w \in Workers : cs[w] = "done" => closing /\ (queue = <<>> \/ AllStopped)
TornDown == IsSync => (life = "teardown" \/ (\E c \in Case : cases[c] = "disposed") => AllStopped)

StopInv == LiveInv /\ Closed /\ Joining /\ Left /\ TornDown

LEMMA CrewType ==
  ASSUME TypeOK
  PROVE  crew \subseteq Workers /\ \E w \in crew : TRUE
<1>1. crew \in Crews
  BY DEF TypeOK
<1>2. crew \in (SUBSET Workers) \ {{}}
  BY <1>1, CrewsOfWorkers
<1>3. crew # {} /\ crew \subseteq Workers
  BY <1>2
<1> QED BY <1>3

LEMMA NothingLeft ==
  ASSUME NEW w \in Workers, NEW c \in Case, todo[w] = <<>>
  PROVE  ~WillStop(w, c)
<1>1. DOMAIN todo[w] = {}
  OBVIOUS
<1> QED BY <1>1 DEF WillStop

(* When every thread has left, nothing is left to stop.                    *)
LEMMA AllStoppedAtJoin ==
  ASSUME IsSync, StopInv, StopJoin
  PROVE  AllStopped
<1>1. crew \subseteq Workers /\ \E w \in crew : TRUE
  BY CrewType DEF StopInv, LiveInv
<1>2. \A w \in crew : cs[w] = "done"
  BY DEF StopJoin, Joined
<1>3. AllStopped \/ (closing /\ queue = <<>>)
  BY <1>1, <1>2 DEF StopInv, Left
<1>4. \A w \in Workers : todo[w] = <<>>
  BY <1>2 DEF StopInv, LiveInv, BusyOnly, Running
<1>5. UnderWay => AllStopped
  <2>1. \A w \in Workers, c \in Case : ~WillStop(w, c)
    BY <1>4, NothingLeft
  <2>2. QED
    BY <2>1 DEF UnderWay, AllStopped
<1>6. queue = <<>> => ~HasStop
  BY DEF HasStop
<1> QED BY <1>3, <1>5, <1>6 DEF StopInv, Closed

LEMMA HaltFeed ==
  ASSUME IsSync, StopInv, NEW e \in Events, Feed(e)
  PROVE  StopInv'
<1>0. LiveInv /\ LiveInv'
  BY LiveFeed DEF StopInv
<1>1. Closed'
  <2>1. /\ UNCHANGED <<closing, todo, stopped>>
        /\ closing => queue' = queue
    BY <1>0, EnqueueEffect DEF Feed, fvars, LiveInv, Posted
  <2>2. QED
    BY <2>1 DEF StopInv, Closed, HasStop, UnderWay, WillStop
<1>2. Joining'
  BY <1>0, EnqueueEffect
    DEF StopInv, AllStopped, Joining, LiveInv, Feed, fvars, Woken, Posted
<1>3. Left'
  BY <1>0, EnqueueEffect
    DEF StopInv, AllStopped, Left, LiveInv, Feed, fvars, Woken, Posted
<1>4. TornDown'
  BY <1>0, EnqueueEffect
    DEF StopInv, AllStopped, TornDown, LiveInv, Feed, fvars, Woken, Posted
<1> QED BY <1>0, <1>1, <1>2, <1>3, <1>4 DEF StopInv

LEMMA HaltStartSetup ==
  ASSUME IsSync, StopInv, StartSetup
  PROVE  StopInv'
<1>0. LiveInv /\ LiveInv'
  BY LiveStartSetup DEF StopInv
<1>1. Closed'
  <2>1. UNCHANGED <<queue, closing, todo, stopped>>
    BY DEF StartSetup, qvars
  <2> QED BY <2>1 DEF StopInv, HasStop, UnderWay, WillStop, Closed
<1>2. Joining'
  BY <1>0 DEF StopInv, AllStopped, Joining, LiveInv, StartSetup, qvars
<1>3. Left'
  BY <1>0 DEF StopInv, AllStopped, Left, LiveInv, StartSetup, qvars
<1>4. TornDown'
  BY <1>0 DEF StopInv, AllStopped, TornDown, LiveInv, StartSetup, qvars
<1> QED BY <1>0, <1>1, <1>2, <1>3, <1>4 DEF StopInv

LEMMA HaltSpawn ==
  ASSUME IsSync, StopInv, NEW w \in crew, Spawn(w)
  PROVE  StopInv'
<1>0. LiveInv /\ LiveInv'
  BY LiveSpawn DEF StopInv
<1>1. Closed'
  BY <1>0 DEF StopInv, HasStop, UnderWay, WillStop, Closed, LiveInv, Spawn
<1>2. Joining'
  BY <1>0 DEF StopInv, AllStopped, Joining, LiveInv, Spawn
<1>3. Left'
  BY <1>0 DEF StopInv, AllStopped, Left, LiveInv, Spawn
<1>4. TornDown'
  BY <1>0 DEF StopInv, AllStopped, TornDown, LiveInv, Spawn
<1> QED BY <1>0, <1>1, <1>2, <1>3, <1>4 DEF StopInv

LEMMA HaltStartEnqueue ==
  ASSUME IsSync, StopInv, StartEnqueue
  PROVE  StopInv'
<1>0. LiveInv /\ LiveInv'
  BY LiveStartEnqueue DEF StopInv
<1>1. Closed'
  <2>1. PICK e \in Posted : QEnqueue(e)
    BY DEF StartEnqueue, Posted
  <2>2. UNCHANGED <<closing, todo, stopped>> /\ (closing => queue' = queue)
    BY <1>0, <2>1, EnqueueEffect DEF LiveInv, StartEnqueue
  <2> QED BY <2>2 DEF StopInv, HasStop, UnderWay, WillStop, Closed
<1>2. Joining'
  BY <1>0, EnqueueEffect
    DEF StopInv, AllStopped, Joining, LiveInv, StartEnqueue, Woken, Posted
<1>3. Left'
  BY <1>0, EnqueueEffect
    DEF StopInv, AllStopped, Left, LiveInv, StartEnqueue, Woken, Posted
<1>4. TornDown'
  BY <1>0, EnqueueEffect
    DEF StopInv, AllStopped, TornDown, LiveInv, StartEnqueue, Woken, Posted
<1> QED BY <1>0, <1>1, <1>2, <1>3, <1>4 DEF StopInv

LEMMA HaltStopClose ==
  ASSUME IsSync, StopInv, StopClose
  PROVE  StopInv'
<1>0. LiveInv /\ LiveInv'
  BY LiveStopClose DEF StopInv
<1>1. Closed'
  <2>1. PICK f \in FlowStops : queue' = Append(queue, f)
    BY <1>0, CloseEffect DEF StopClose, LiveInv
  <2>2. f \in Items /\ queue \in Seq(Items)
    BY <1>0 DEF Items, LiveInv, TypeOK
  <2>3. Len(queue) + 1 \in DOMAIN queue' /\ queue'[Len(queue) + 1] = f
    BY <2>1, <2>2, AppendType
  <2>4. HasStop'
    BY <2>3 DEF HasStop
  <2>5. QED
    BY <2>4 DEF Closed
<1>2. Joining'
  BY <1>0, CloseEffect DEF StopInv, AllStopped, Joining, LiveInv, StopClose, Woken
<1>3. Left'
  BY <1>0, CloseEffect
    DEF StopInv, IsSync, HasStop, UnderWay, WillStop, AllStopped, Closed, Joining,
       Left, TornDown, LiveInv, TypeOK, StopClose, qvars, fvars, Woken, Moves,
       Posted
<1>4. TornDown'
  BY <1>0, CloseEffect DEF StopInv, AllStopped, TornDown, LiveInv, StopClose, Woken
<1> QED BY <1>0, <1>1, <1>2, <1>3, <1>4 DEF StopInv

LEMMA HaltStopCloseMark ==
  ASSUME IsSync, StopInv, StopCloseMark
  PROVE  StopInv'
<1>0. LiveInv /\ LiveInv'
  BY LiveStopCloseMark DEF StopInv
<1>1. Closed'
  BY <1>0
    DEF StopInv, IsSync, HasStop, UnderWay, WillStop, AllStopped, Closed, Joining,
       Left, TornDown, LiveInv, TypeOK, StopCloseMark, Conc!CloseMark, qvars, fvars,
       Woken, Moves, Posted
<1>2. Joining'
  BY <1>0 DEF StopInv, AllStopped, Joining, LiveInv, StopCloseMark, Conc!CloseMark
<1>3. Left'
  BY <1>0 DEF StopInv, AllStopped, Left, LiveInv, StopCloseMark, Conc!CloseMark
<1>4. TornDown'
  BY <1>0 DEF StopInv, AllStopped, TornDown, LiveInv, StopCloseMark, Conc!CloseMark
<1> QED BY <1>0, <1>1, <1>2, <1>3, <1>4 DEF StopInv

LEMMA HaltStopJoin ==
  ASSUME IsSync, StopInv, StopJoin
  PROVE  StopInv'
<1>0. LiveInv /\ LiveInv'
  BY LiveStopJoin DEF StopInv
<1>1. Closed'
  <2>1. AllStopped
    BY AllStoppedAtJoin
  <2>2. PICK w \in crew : TRUE
    BY <1>0, CrewType DEF LiveInv
  <2>3. w \in Workers
    BY <1>0, CrewType DEF LiveInv
  <2>4. UnderWay'
    BY <2>1, <2>3 DEF UnderWay, AllStopped, StopJoin
  <2>5. QED
    BY <2>4 DEF Closed
<1>2. Joining'
  BY AllStoppedAtJoin DEF Joining, AllStopped, StopJoin
<1>3. Left'
  BY <1>0 DEF StopInv, AllStopped, Left, LiveInv, StopJoin, Joined
<1>4. TornDown'
  BY AllStoppedAtJoin DEF TornDown, AllStopped, StopJoin
<1> QED BY <1>0, <1>1, <1>2, <1>3, <1>4 DEF StopInv

LEMMA HaltStopTeardown ==
  ASSUME IsSync, StopInv, NEW c \in Case, StopTeardown(c)
  PROVE  StopInv'
<1>0. LiveInv /\ LiveInv'
  BY LiveStopTeardown DEF StopInv
<1>1. Closed'
  BY <1>0 DEF StopInv, HasStop, UnderWay, WillStop, Closed, LiveInv, StopTeardown, qvars
<1>2. Joining'
  BY <1>0 DEF StopInv, AllStopped, Joining, LiveInv, StopTeardown, qvars
<1>3. Left'
  BY <1>0 DEF StopInv, AllStopped, Left, LiveInv, StopTeardown, qvars
<1>4. TornDown'
  BY <1>0 DEF StopInv, AllStopped, TornDown, LiveInv, StopTeardown, qvars
<1> QED BY <1>0, <1>1, <1>2, <1>3, <1>4 DEF StopInv

LEMMA HaltStopEnd ==
  ASSUME IsSync, StopInv, StopEnd
  PROVE  StopInv'
<1>0. LiveInv /\ LiveInv'
  BY LiveStopEnd DEF StopInv
<1>1. Closed'
  BY <1>0 DEF StopInv, HasStop, UnderWay, WillStop, Closed, LiveInv, StopEnd, qvars
<1>2. Joining'
  BY <1>0 DEF StopInv, AllStopped, Joining, LiveInv, StopEnd, qvars
<1>3. Left'
  BY <1>0 DEF StopInv, AllStopped, Left, LiveInv, StopEnd, qvars
<1>4. TornDown'
  BY <1>0 DEF StopInv, AllStopped, TornDown, LiveInv, StopEnd, qvars
<1> QED BY <1>0, <1>1, <1>2, <1>3, <1>4 DEF StopInv

LEMMA HaltRunDequeue ==
  ASSUME IsSync, StopInv, NEW w \in Workers, RunDequeue(w)
  PROVE  StopInv'
<1>0. LiveInv /\ LiveInv'
  BY LiveRunDequeue DEF StopInv
<1>1. Closed'
  <2>0. /\ queue # <<>> /\ queue' = Tail(queue) /\ queue \in Seq(Items)
        /\ UNCHANGED <<closing, stopped>>
        /\ cs[w] # "busy" /\ todo[w] = <<>>
        /\ \A v \in Workers \ {w} : todo'[v] = todo[v]
        /\ todo'[w] = Chain(Head(queue))
    BY <1>0, DequeueEffect DEF RunDequeue, LiveInv, TypeOK, BusyOnly, Moves
  <2>1. CASE UnderWay
    <3>1. PICK v \in Workers : \A c \in Case \ stopped : WillStop(v, c)
      BY <2>1 DEF UnderWay
    <3>2. v = w => AllStopped
      BY <2>0, <3>1, NothingLeft DEF AllStopped
    <3>3. \A c \in Case \ stopped' : WillStop(v, c)'
      BY <2>0, <3>1, <3>2 DEF WillStop, AllStopped
    <3>4. QED
      BY <3>3 DEF Closed, UnderWay
  <2>2. CASE HasStop /\ Head(queue) \in FlowStops
    <3>1. todo'[w] = Downward("stop")
      BY <2>0, <2>2, ItemsDisjoint DEF Chain
    <3>2. \A c \in Case : WillStop(w, c)'
      <4> SUFFICES ASSUME NEW c \in Case PROVE WillStop(w, c)'
        OBVIOUS
      <4>1. NumCases + 1 - c \in Case /\ NumCases + 1 - (NumCases + 1 - c) = c
        BY NumCasesNat DEF Case
      <4>2. QED
        BY <3>1, <4>1 DEF WillStop, Downward
    <3>3. QED
      BY <3>2 DEF Closed, UnderWay
  <2>3. CASE HasStop /\ Head(queue) \notin FlowStops
    <3>1. PICK i \in DOMAIN queue : queue[i] \in FlowStops
      BY <2>3 DEF HasStop
    <3>2. i - 1 \in DOMAIN queue' /\ queue'[i - 1] = queue[i]
      BY <2>0, <2>3, <3>1, HeadTailType
    <3>3. QED
      BY <3>1, <3>2 DEF Closed, HasStop
  <2>4. QED
    BY <2>0, <2>1, <2>2, <2>3 DEF StopInv, Closed
<1>2. Joining'
  BY <1>0, DequeueEffect DEF StopInv, AllStopped, Joining, LiveInv, RunDequeue, Moves
<1>3. Left'
  <2>0. /\ queue # <<>> /\ UNCHANGED <<closing, stopped>>
        /\ \A v \in Workers : cs'[v] = "done" => cs[v] = "done"
    BY <1>0, DequeueEffect DEF RunDequeue, LiveInv, Moves
  <2>1. QED
    BY <2>0 DEF StopInv, Left, AllStopped
<1>4. TornDown'
  BY <1>0, DequeueEffect DEF StopInv, AllStopped, TornDown, LiveInv, RunDequeue, Moves
<1> QED BY <1>0, <1>1, <1>2, <1>3, <1>4 DEF StopInv

LEMMA HaltRunWait ==
  ASSUME IsSync, StopInv, NEW w \in Workers, RunWait(w)
  PROVE  StopInv'
<1>0. LiveInv /\ LiveInv'
  BY LiveRunWait DEF StopInv
<1>1. Closed'
  <2>1. UNCHANGED <<queue, closing, todo, stopped>>
    BY <1>0, NoItemEffect DEF RunWait, fvars, LiveInv
  <2>2. QED
    BY <2>1 DEF StopInv, Closed, HasStop, UnderWay, WillStop
<1>2. Joining'
  BY <1>0, NoItemEffect DEF StopInv, AllStopped, Joining, LiveInv, RunWait, fvars, Moves
<1>3. Left'
  <2>1. /\ UNCHANGED <<queue, closing, stopped>>
        /\ \A v \in Workers : cs'[v] = "done" => cs[v] = "done" \/ (queue = <<>> /\ closing)
    BY <1>0, NoItemEffect DEF RunWait, fvars, LiveInv, Moves
  <2>2. QED
    BY <2>1 DEF StopInv, Left, AllStopped
<1>4. TornDown'
  BY <1>0, NoItemEffect
    DEF StopInv, AllStopped, TornDown, LiveInv, RunWait, fvars, Moves
<1> QED BY <1>0, <1>1, <1>2, <1>3, <1>4 DEF StopInv

LEMMA HaltRunInvoke ==
  ASSUME IsSync, StopInv, NEW w \in Workers, RunInvoke(w)
  PROVE  StopInv'
<1>0. LiveInv /\ LiveInv'
  BY LiveRunInvoke DEF StopInv
<1>1. Closed'
  <2>0. /\ UNCHANGED <<queue, closing>>
        /\ todo[w] # <<>> /\ todo[w] \in Seq(CallSet)
        /\ \A v \in Workers \ {w} : todo'[v] = todo[v]
        /\ todo'[w] = Tail(todo[w])
        /\ stopped \subseteq stopped'
        /\ Head(todo[w]).op = "stop" => Head(todo[w]).case \in stopped'
    BY <1>0 DEF RunInvoke, qvars, LiveInv, TypeOK
  <2>1. ASSUME NEW v \in Workers, \A c \in Case \ stopped : WillStop(v, c), NEW c \in Case \ stopped'
        PROVE  WillStop(v, c)'
    <3>1. PICK i \in DOMAIN todo[v] : todo[v][i] = [op |-> "stop", case |-> c]
      BY <2>0, <2>1 DEF WillStop
    <3>2. CASE v # w
      BY <2>0, <3>1, <3>2 DEF WillStop
    <3>3. CASE v = w
      <4>1. i # 1
        BY <2>0, <3>1, <3>3, HeadTailType
      <4>2. i - 1 \in DOMAIN todo'[w] /\ todo'[w][i - 1] = todo[w][i]
        BY <2>0, <3>1, <3>3, <4>1, HeadTailType
      <4>3. QED
        BY <3>1, <3>3, <4>2 DEF WillStop
    <3>4. QED
      BY <3>2, <3>3
  <2>2. UnderWay => UnderWay'
    BY <2>1 DEF UnderWay
  <2>3. QED
    BY <2>0, <2>2 DEF StopInv, Closed, HasStop
<1>2. Joining'
  BY <1>0 DEF StopInv, AllStopped, Joining, LiveInv, RunInvoke, qvars
<1>3. Left'
  BY <1>0 DEF StopInv, AllStopped, Left, LiveInv, RunInvoke, qvars
<1>4. TornDown'
  BY <1>0 DEF StopInv, AllStopped, TornDown, LiveInv, RunInvoke, qvars
<1> QED BY <1>0, <1>1, <1>2, <1>3, <1>4 DEF StopInv

LEMMA HaltRunReturn ==
  ASSUME IsSync, StopInv, NEW w \in Workers, RunReturn(w)
  PROVE  StopInv'
<1>0. LiveInv /\ LiveInv'
  BY LiveRunReturn DEF StopInv
<1>1. Closed'
  <2>1. UNCHANGED <<queue, closing, todo, stopped>>
    BY <1>0, ReturnEffect DEF RunReturn, fvars, LiveInv
  <2>2. QED
    BY <2>1 DEF StopInv, Closed, HasStop, UnderWay, WillStop
<1>2. Joining'
  BY <1>0, ReturnEffect
    DEF StopInv, AllStopped, Joining, LiveInv, RunReturn, fvars, Moves
<1>3. Left'
  <2>1. /\ UNCHANGED <<queue, closing, stopped>>
        /\ \A v \in Workers : cs'[v] = "done" => cs[v] = "done"
    BY <1>0, ReturnEffect DEF RunReturn, fvars, LiveInv, Moves
  <2>2. QED
    BY <2>1 DEF StopInv, Left, AllStopped
<1>4. TornDown'
  BY <1>0, ReturnEffect
    DEF StopInv, AllStopped, TornDown, LiveInv, RunReturn, fvars, Moves
<1> QED BY <1>0, <1>1, <1>2, <1>3, <1>4 DEF StopInv

LEMMA HaltStep ==
  ASSUME IsSync, StopInv, [Next]_vars
  PROVE  StopInv'
<1>1. CASE \E e \in Events : Feed(e)
  BY <1>1, HaltFeed
<1>2. CASE StartSetup \/ StopClose
  BY <1>2, HaltStartSetup, HaltStopClose
<1>3. CASE Caller
  BY <1>3, HaltSpawn, HaltStartEnqueue, HaltStopCloseMark, HaltStopJoin,
       HaltStopTeardown,
     HaltStopEnd DEF Caller
<1>4. ASSUME NEW w \in Workers, Worker(w) PROVE StopInv'
  BY <1>4, HaltRunDequeue, HaltRunWait, HaltRunInvoke, HaltRunReturn DEF Worker
<1>5. CASE UNCHANGED vars
  <2>1. LiveInv'
    BY LiveStep DEF StopInv
  <2>2. QED
    BY <1>5, <2>1
      DEF vars, qvars, fvars, StopInv, Closed, Joining, Left, TornDown, HasStop,
       UnderWay, WillStop, AllStopped
<1> QED BY <1>1, <1>2, <1>3, <1>4, <1>5 DEF Next

(***************************************************************************)
(* However many threads a flow over the synchronized queue has, every case *)
(* it tears down has been stopped before.                                  *)
(***************************************************************************)
THEOREM StopsFirst == Spec => []StoppedBeforeTeardown
<1> DEFINE I == LiveInv /\ (IsSync => StopInv)
<1>1. Init => I
  BY LiveInit
    DEF Init, StopInv, LiveInv, Closed, Joining, Left, TornDown, HasStop, UnderWay, AllStopped
<1>2. I /\ [Next]_vars => I'
  <2> SUFFICES ASSUME I, [Next]_vars PROVE I'
    OBVIOUS
  <2>1. kind' = kind /\ LiveInv'
    BY QueueSteps, LiveStep
  <2>2. QED
    BY <2>1, HaltStep DEF IsSync
<1>3. I => StoppedBeforeTeardown
  BY DEF StopInv, TornDown, StoppedBeforeTeardown, AllStopped
<1> QED BY <1>1, <1>2, <1>3, PTL DEF Spec
=============================================================================
