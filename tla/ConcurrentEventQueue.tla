------------------------ MODULE ConcurrentEventQueue ------------------------
(***************************************************************************)
(* ConcurrentEventQueue (src/src/x2net/Queues/ConcurrentEventQueue.cs),    *)
(* the default queue of every flow in .NET 4 and .NET Core builds: a       *)
(* lock-free ConcurrentQueue beside a volatile flag.  The library's        *)
(* Enqueue and TryDequeue are linearizable, so each is one step; Close and *)
(* the loop of Dequeue are not atomic.                                     *)
(***************************************************************************)
EXTENDS Sequences

CONSTANTS
  Consumers,   \* threads that loop on Dequeue
  Events,      \* event objects handed to Enqueue, each once
  Finals       \* event objects handed to Close, each once

VARIABLES
  queue,       \* ConcurrentQueue<Event> queue
  closing,     \* volatile bool closing
  half,        \* Close has enqueued finalItem but not yet set closing
  cs,          \* where each consumer is, see below
  got,         \* what each consumer has been handed, in order
  posted       \* the event objects already passed to Enqueue or Close

(***************************************************************************)
(* A consumer is "busy" outside the queue, at "enter" before TryDequeue,   *)
(* "missed" between a TryDequeue that failed and the test of closing, and  *)
(* "done" once Dequeue returned null.                                      *)
(***************************************************************************)

(* Enqueue never looks at closing.                                         *)
Enqueue(e) ==
  /\ e \notin posted
  /\ posted' = posted \cup {e}
  /\ queue' = Append(queue, e)
  /\ UNCHANGED <<closing, half, cs, got>>

CloseEnqueue(f) ==
  /\ ~half
  /\ f \notin posted
  /\ posted' = posted \cup {f}
  /\ queue' = Append(queue, f)
  /\ half' = TRUE
  /\ UNCHANGED <<closing, cs, got>>

(* Mutant of CloseMark: leaves the flag alone.                             *)
CloseUnmarked ==
  /\ half
  /\ half' = FALSE
  /\ UNCHANGED <<queue, closing, cs, got, posted>>

CloseMark ==
  /\ half
  /\ half' = FALSE
  /\ closing' = TRUE
  /\ UNCHANGED <<queue, cs, got, posted>>

DequeueItem(c) ==
  /\ cs[c] = "enter"
  /\ queue # <<>>
  /\ got' = [got EXCEPT ![c] = Append(@, Head(queue))]
  /\ queue' = Tail(queue)
  /\ cs' = [cs EXCEPT ![c] = "busy"]
  /\ UNCHANGED <<closing, half, posted>>

DequeueMiss(c) ==
  /\ cs[c] = "enter"
  /\ queue = <<>>
  /\ cs' = [cs EXCEPT ![c] = "missed"]
  /\ UNCHANGED <<queue, closing, half, got, posted>>

(* The test of closing, after which the loop sleeps and retries or ends.   *)
DequeueRetry(c) ==
  /\ cs[c] = "missed"
  /\ ~closing
  /\ cs' = [cs EXCEPT ![c] = "enter"]
  /\ UNCHANGED <<queue, closing, half, got, posted>>

DequeueNull(c) ==
  /\ cs[c] = "missed"
  /\ closing
  /\ cs' = [cs EXCEPT ![c] = "done"]
  /\ UNCHANGED <<queue, closing, half, got, posted>>

Return(c) ==
  /\ cs[c] = "busy"
  /\ cs' = [cs EXCEPT ![c] = "enter"]
  /\ UNCHANGED <<queue, closing, half, got, posted>>
=============================================================================
