---------------------------- MODULE LinkSession -----------------------------
(***************************************************************************)
(* The transmission half of a link session (src/src/x2net/Links/           *)
(* LinkSession.cs) over a TCP socket: flows call Send from any thread, the *)
(* thread that finds txFlag clear begins to send, and each completion of   *)
(* the socket operation sends what was accepted meanwhile.  Only Send, the *)
(* swap of the two event lists and the tests in the completion are done    *)
(* under lock(syncRoot); the buffers are filled outside it.                *)
(***************************************************************************)
EXTENDS Naturals, SequencesExt

CONSTANTS
  Threads,     \* threads of the flows and of the I/O completion pool
  Events       \* event objects, each sent once

VARIABLES
  toSend,      \* eventsToSend
  sending,     \* eventsSending
  txFlag,
  disposed,
  pending,     \* socket operations not completed yet
  pc,          \* where each thread is, see Places
  accepted,    \* history: the events Send accepted, in order
  wire         \* history: the events handed to the socket, in order

vars == <<toSend, sending, txFlag, disposed, pending, pc, accepted, wire>>

(***************************************************************************)
(* begin: BeginSend is called, its lock not taken.  capture: BeginSend has *)
(* swapped the lists and fills the buffers.  completed: OnSendInternal is  *)
(* called.  next: it has found the session not disposed.                   *)
(***************************************************************************)
Places == {"idle", "begin", "capture", "completed", "next"}

Init ==
  /\ toSend = <<>>
  /\ sending = <<>>
  /\ txFlag = FALSE
  /\ disposed = FALSE
  /\ pending = 0
  /\ pc = [t \in Threads |-> "idle"]
  /\ accepted = <<>>
  /\ wire = <<>>

Goto(t, place) == pc' = [pc EXCEPT ![t] = place]

-----------------------------------------------------------------------------
(* Mutant of Claim: begins to send whether or not another thread does.     *)
ClaimAlways(t) == txFlag' = TRUE /\ Goto(t, "begin")

(* The test and set of txFlag in Send.                                     *)
Claim(t) ==
  /\ txFlag' = TRUE
  /\ IF txFlag THEN UNCHANGED pc ELSE Goto(t, "begin")

(* Send by a session that is not disposed; a disposed one drops the event. *)
Send(t, e) ==
  /\ pc[t] = "idle"
  /\ ~disposed
  /\ ~Contains(accepted, e)
  /\ toSend' = Append(toSend, e)
  /\ accepted' = Append(accepted, e)
  /\ Claim(t)
  /\ UNCHANGED <<sending, disposed, pending, wire>>

(* Mutant of Swap: does not clear the list it recycles.                    *)
SwapUncleared == sending' = toSend /\ toSend' = sending

Swap == sending' = toSend /\ toSend' = <<>>

(* BeginSend under the lock; with nothing to send it returns.              *)
BeginSend(t) ==
  /\ pc[t] = "begin"
  /\ IF toSend = <<>>
     THEN Goto(t, "idle") /\ UNCHANGED <<toSend, sending>>
     ELSE Goto(t, "capture") /\ Swap
  /\ UNCHANGED <<txFlag, disposed, pending, accepted, wire>>

(***************************************************************************)
(* BeginSend outside the lock and SendInternal.  When the session has been *)
(* disposed meanwhile, its buffers are gone or the socket throws           *)
(* ObjectDisposedException: either way nothing is sent.                    *)
(***************************************************************************)
SendInternal(t) ==
  /\ pc[t] = "capture"
  /\ IF disposed
     THEN UNCHANGED <<wire, pending>>
     ELSE wire' = wire \o sending /\ pending' = pending + 1
  /\ Goto(t, "idle")
  /\ UNCHANGED <<toSend, sending, txFlag, disposed, accepted>>

(* The socket refuses the operation: OnDisconnect disposes of the session. *)
SendError(t) ==
  /\ pc[t] = "capture"
  /\ disposed' = TRUE
  /\ Goto(t, "idle")
  /\ UNCHANGED <<toSend, sending, txFlag, pending, accepted, wire>>

(* A socket operation completes on a thread of the pool, or at once.       *)
OnSend(t) ==
  /\ pc[t] = "idle"
  /\ pending > 0
  /\ pending' = pending - 1
  /\ Goto(t, "completed")
  /\ UNCHANGED <<toSend, sending, txFlag, disposed, accepted, wire>>

(* It completes with an error, or because the socket was closed.           *)
OnSendError(t) ==
  /\ pc[t] = "idle"
  /\ pending > 0
  /\ pending' = pending - 1
  /\ disposed' = TRUE
  /\ UNCHANGED <<toSend, sending, txFlag, pc, accepted, wire>>

(* OnSendInternal, its first lock.                                         *)
OnSendDisposed(t) ==
  /\ pc[t] = "completed"
  /\ IF disposed
     THEN txFlag' = FALSE /\ Goto(t, "idle")
     ELSE UNCHANGED txFlag /\ Goto(t, "next")
  /\ UNCHANGED <<toSend, sending, disposed, pending, accepted, wire>>

(* Mutant of OnSendNext: leaves txFlag set.                                *)
OnSendNextFlagged(t) ==
  /\ pc[t] = "next"
  /\ IF toSend = <<>>
     THEN sending' = <<>> /\ Goto(t, "idle")
     ELSE UNCHANGED sending /\ Goto(t, "begin")
  /\ UNCHANGED <<toSend, txFlag, disposed, pending, accepted, wire>>

(* OnSendInternal, its second lock.                                        *)
OnSendNext(t) ==
  /\ pc[t] = "next"
  /\ IF toSend = <<>>
     THEN sending' = <<>> /\ txFlag' = FALSE /\ Goto(t, "idle")
     ELSE UNCHANGED <<sending, txFlag>> /\ Goto(t, "begin")
  /\ UNCHANGED <<toSend, disposed, pending, accepted, wire>>

(* Close by the application, the link, the peer or a keepalive failure.    *)
Dispose ==
  /\ ~disposed
  /\ disposed' = TRUE
  /\ UNCHANGED <<toSend, sending, txFlag, pending, pc, accepted, wire>>

Step(t) ==
  \/ BeginSend(t)
  \/ SendInternal(t)
  \/ SendError(t)
  \/ OnSendDisposed(t)
  \/ OnSendNext(t)

Completion == \E t \in Threads : OnSend(t) \/ OnSendError(t)

Next ==
  \/ \E t \in Threads, e \in Events : Send(t, e)
  \/ \E t \in Threads : Step(t)
  \/ Completion
  \/ Dispose

SafeSpec == Init /\ [][Next]_vars

(***************************************************************************)
(* A thread inside a call runs on, and a socket operation completes, with  *)
(* or without an error.  Nobody has to send or close.                      *)
(***************************************************************************)
Fairness == WF_vars(Completion) /\ \A t \in Threads : WF_vars(Step(t))

Spec == SafeSpec /\ Fairness

-----------------------------------------------------------------------------
(* Types; the socket never has two operations to complete.                 *)
TypeOK ==
  /\ toSend \in Seq(Events)
  /\ sending \in Seq(Events)
  /\ {txFlag, disposed} \subseteq BOOLEAN
  /\ pending \in {0, 1}
  /\ pc \in [Threads -> Places]
  /\ accepted \in Seq(Events)
  /\ wire \in Seq(Events)

Busy == {t \in Threads : pc[t] # "idle"}

(***************************************************************************)
(* The buffers and eventsSending are used without a lock.  That is safe    *)
(* because one thread or one socket operation at a time has them, from     *)
(* the Send that sets txFlag until the completion that clears it.          *)
(***************************************************************************)
OneTransmitter ==
  /\ \A t, u \in Busy : t = u
  /\ pending > 0 => Busy = {}
  /\ ~disposed => (txFlag <=> (Busy # {} \/ pending > 0))

(* The events of the BeginSend under way that the socket does not have.    *)
Captured == IF \E t \in Threads : pc[t] = "capture" THEN sending ELSE <<>>

(***************************************************************************)
(* Events reach the socket in the order in which Send accepted them, none  *)
(* twice, and none is dropped while the session lives.                     *)
(***************************************************************************)
InOrder ==
  /\ IsPrefix(wire, accepted)
  /\ ~disposed => accepted = wire \o Captured \o toSend

(***************************************************************************)
(* BeginSend finds something to send.  If it did not it would return with  *)
(* txFlag set, and no Send would begin again.                              *)
(***************************************************************************)
NeverBeginsEmpty == \A t \in Threads : pc[t] = "begin" => toSend # <<>>

(* Every accepted event reaches the socket, or the session is disposed.    *)
Transmitted ==
  \A e \in Events : Contains(accepted, e) ~> (Contains(wire, e) \/ disposed)
=============================================================================
