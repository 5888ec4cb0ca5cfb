----------------------------- MODULE EventQueue -----------------------------
(***************************************************************************)
(* What the abstract class EventQueue (src/src/x2net/EventQueue.cs)        *)
(* promises to the flows that own one: a FIFO of events, each handed to    *)
(* exactly one consumer in the order of acceptance, that can be closed     *)
(* with a final event, refuses events from then on, and, once drained,     *)
(* answers Dequeue with null, which ends the consumer's loop.              *)
(***************************************************************************)
EXTENDS Sequences

CONSTANTS
  Consumers,   \* threads that call Dequeue
  Pollers,     \* threads that call TryDequeue
  Events,      \* ordinary events
  Finals       \* events handed to Close

VARIABLES
  pending,     \* accepted, not yet handed out
  closed,
  got,         \* what each thread has been handed, in order
  ended        \* consumers whose Dequeue returned null

vars == <<pending, closed, got, ended>>

Init ==
  /\ pending = <<>>
  /\ closed = FALSE
  /\ got = [c \in Consumers \cup Pollers |-> <<>>]
  /\ ended = {}

Put(e) ==
  /\ ~closed
  /\ pending' = Append(pending, e)
  /\ UNCHANGED <<closed, got, ended>>

Shut(f) ==
  /\ pending' = Append(pending, f)
  /\ closed' = TRUE
  /\ UNCHANGED <<got, ended>>

Get(c) ==
  /\ pending # <<>>
  /\ c \notin ended
  /\ got' = [got EXCEPT ![c] = Append(@, Head(pending))]
  /\ pending' = Tail(pending)
  /\ UNCHANGED <<closed, ended>>

Eof(c) ==
  /\ closed
  /\ pending = <<>>
  /\ ended' = ended \cup {c}
  /\ UNCHANGED <<pending, closed, got>>

Next ==
  \/ \E e \in Events : Put(e)
  \/ \E f \in Finals : Shut(f)
  \/ \E c \in Consumers \cup Pollers : Get(c)
  \/ \E c \in Consumers : Eof(c)

(***************************************************************************)
(* An accepted event is handed out as long as a consumer is left, and a    *)
(* drained closed queue releases every consumer.                           *)
(***************************************************************************)
Fairness ==
  /\ WF_vars(\E c \in Consumers : Get(c))
  /\ \A c \in Consumers : WF_vars(Eof(c))

SafeSpec == Init /\ [][Next]_vars

Spec == SafeSpec /\ Fairness
=============================================================================
