----------------------- MODULE SynchronizedEventQueue -----------------------
(***************************************************************************)
(* SynchronizedEventQueue (src/src/x2net/Queues/SynchronizedEventQueue.cs) *)
(* and the threads that use it, at the granularity of its monitor.  A      *)
(* method body runs under lock(queue), so it is one step, except that      *)
(* Monitor.Wait splits Dequeue: the thread leaves the monitor for the wait *)
(* set and, once pulsed, must take the lock again and re-test the queue.   *)
(***************************************************************************)
EXTENDS Sequences, FiniteSets, Naturals

CONSTANTS
  Consumers,   \* threads that loop on Dequeue (the workers of a flow)
  Pollers,     \* threads that loop on TryDequeue (a frame, a UI loop)
  Events,      \* event objects handed to Enqueue, each once
  Finals       \* event objects handed to Close, each once

ASSUME ThreadsDisjoint == Consumers \cap Pollers = {}
ASSUME EventsDisjoint == Events \cap Finals = {}

VARIABLES
  queue,       \* Queue<Event> queue
  closing,     \* bool closing
  cs,          \* where each consumer is, see States
  got,         \* what each thread has been handed, in order
  posted       \* the event objects already passed to Enqueue or Close

vars == <<queue, closing, cs, got, posted>>

Items == Events \cup Finals
Threads == Consumers \cup Pollers

(***************************************************************************)
(* busy: outside the queue, handling an event.  enter: calling Dequeue.    *)
(* wait: in the monitor's wait set.  woken: pulsed, waiting for the lock.  *)
(* done: Dequeue returned null and the consumer's loop ended.              *)
(***************************************************************************)
States == {"busy", "enter", "wait", "woken", "done"}

Waiting == {c \in Consumers : cs[c] = "wait"}
Active(c) == cs[c] \in {"busy", "enter", "woken"}
AtMonitor(c) == cs[c] \in {"enter", "woken"}

Init ==
  /\ queue = <<>>
  /\ closing = FALSE
  /\ cs = [c \in Consumers |-> "enter"]
  /\ got = [c \in Threads |-> <<>>]
  /\ posted = {}

-----------------------------------------------------------------------------
(* Monitor.Pulse moves one thread, if any waits, to the ready queue.       *)
Pulse ==
  IF Waiting = {}
  THEN UNCHANGED cs
  ELSE \E w \in Waiting : cs' = [cs EXCEPT ![w] = "woken"]

PulseAll == cs' = [c \in Consumers |-> IF cs[c] = "wait" THEN "woken" ELSE cs[c]]

(* Mutant of Open: accepts events while closing.                           *)
OpenAlways == TRUE

Open == ~closing

(* Mutant of PulseOnFirst: tests the count before the event is added.      *)
PulseOnSecond == IF Len(queue) = 1 THEN Pulse ELSE UNCHANGED cs

PulseOnFirst == IF Len(queue') = 1 THEN Pulse ELSE UNCHANGED cs

Enqueue(e) ==
  /\ e \notin posted
  /\ posted' = posted \cup {e}
  /\ IF Open
     THEN queue' = Append(queue, e) /\ PulseOnFirst
     ELSE UNCHANGED <<queue, cs>>
  /\ UNCHANGED <<closing, got>>

Close(f) ==
  /\ f \notin posted
  /\ posted' = posted \cup {f}
  /\ queue' = Append(queue, f)
  /\ closing' = TRUE
  /\ PulseAll
  /\ UNCHANGED got

(* Mutant of Take: hands out the newest event.                             *)
TakeNewest(t) ==
  /\ queue # <<>>
  /\ got' = [got EXCEPT ![t] = Append(@, queue[Len(queue)])]
  /\ queue' = SubSeq(queue, 1, Len(queue) - 1)
  /\ UNCHANGED <<closing, posted>>

(* The head of the queue becomes the return value of thread t.             *)
Take(t) ==
  /\ queue # <<>>
  /\ got' = [got EXCEPT ![t] = Append(@, Head(queue))]
  /\ queue' = Tail(queue)
  /\ UNCHANGED <<closing, posted>>

DequeueItem(c) ==
  /\ AtMonitor(c)
  /\ Take(c)
  /\ cs' = [cs EXCEPT ![c] = "busy"]

DequeueNull(c) ==
  /\ AtMonitor(c)
  /\ queue = <<>>
  /\ closing
  /\ cs' = [cs EXCEPT ![c] = "done"]
  /\ UNCHANGED <<queue, closing, got, posted>>

DequeueWait(c) ==
  /\ AtMonitor(c)
  /\ queue = <<>>
  /\ ~closing
  /\ cs' = [cs EXCEPT ![c] = "wait"]
  /\ UNCHANGED <<queue, closing, got, posted>>

(* TryDequeue that finds an event; one that finds none changes nothing.    *)
TryDequeue(p) ==
  /\ Take(p)
  /\ UNCHANGED cs

(* The consumer has handled its event and calls Dequeue again.             *)
Return(c) ==
  /\ cs[c] = "busy"
  /\ cs' = [cs EXCEPT ![c] = "enter"]
  /\ UNCHANGED <<queue, closing, got, posted>>

Next ==
  \/ \E e \in Events : Enqueue(e)
  \/ \E f \in Finals : Close(f)
  \/ \E c \in Consumers :
       \/ DequeueItem(c)
       \/ DequeueNull(c)
       \/ DequeueWait(c)
       \/ Return(c)
  \/ \E p \in Pollers : TryDequeue(p)

SafeSpec == Init /\ [][Next]_vars

(***************************************************************************)
(* A consumer that is not in the wait set is a runnable thread, and its    *)
(* handlers return.  Nothing is assumed of producers and pollers.          *)
(***************************************************************************)
Fairness ==
  \A c \in Consumers :
    /\ WF_vars(DequeueItem(c) \/ DequeueNull(c) \/ DequeueWait(c))
    /\ WF_vars(Return(c))

Spec == SafeSpec /\ Fairness

-----------------------------------------------------------------------------
(* The variables have their types, and a thread waits inside Dequeue only. *)
TypeOK ==
  /\ queue \in Seq(Items)
  /\ closing \in BOOLEAN
  /\ cs \in [Consumers -> States]
  /\ got \in [Threads -> Seq(Items)]
  /\ posted \subseteq Items

(***************************************************************************)
(* No lost wakeup.  Enqueue pulses only when the queue becomes non-empty,  *)
(* and a pulsed thread competes for the lock with threads that never       *)
(* waited.  Even so, a consumer sleeps in Monitor.Wait only if the queue   *)
(* is open and, should an event be in it, another consumer is on its way   *)
(* back to Dequeue.                                                        *)
(***************************************************************************)
NoLostWakeup ==
  \A c \in Waiting :
    /\ ~closing
    /\ queue # <<>> => \E d \in Consumers : Active(d)

(***************************************************************************)
(* Once a thread has been handed a final event, only further final events  *)
(* can be left: nothing fed to a closing queue slips in behind FlowStop.   *)
(***************************************************************************)
NothingAfterFinal ==
  (\E t \in Threads : \E i \in DOMAIN got[t] : got[t][i] \in Finals)
    => \A i \in DOMAIN queue : queue[i] \in Finals

(***************************************************************************)
(* No event stays in the queue for ever, whichever consumers were pulsed.  *)
(***************************************************************************)
Drains == \A e \in Items : (\E i \in DOMAIN queue : queue[i] = e)
                             ~> ~(\E i \in DOMAIN queue : queue[i] = e)

(***************************************************************************)
(* Close releases every consumer: each Dequeue loop gets its null and      *)
(* ends, which is what Flow.Stop waits for in Thread.Join.                 *)
(***************************************************************************)
CloseReleases == closing ~> \A c \in Consumers : cs[c] = "done"

(***************************************************************************)
(* The monitor implements the EventQueue contract.                         *)
(***************************************************************************)
Contract == INSTANCE EventQueue
  WITH pending <- queue, closed <- closing,
       ended <- {c \in Consumers : cs[c] = "done"}

ImplementsContract == Contract!Spec
=============================================================================
