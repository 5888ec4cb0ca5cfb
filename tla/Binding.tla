------------------------------ MODULE Binding -------------------------------
(***************************************************************************)
(* The handler bindings of one flow (src/src/x2net/Binding.cs) and the     *)
(* event sinks that own some of them (EventSink.cs), used by the threads   *)
(* of the flow.  Bind and Unbind hold the write lock of the binding and,   *)
(* inside it, take the monitor of the sink's list of bindings; Dispose     *)
(* holds that monitor and, inside it, takes the write lock for each        *)
(* binding it removes.                                                     *)
(***************************************************************************)
EXTENDS Integers, FiniteSets

CONSTANTS
  Threads,
  Sinks,
  Tokens,      \* an event key and a handler; equal tokens are one
  SinkOf,      \* the sink that is the target of each handler, or NoSink
  NoSink,
  Slots,       \* a type identifier and a fingerprint
  SlotOf,      \* the slot of each token's event key
  Touches,     \* the tokens each thread binds and unbinds
  Disposes     \* the sinks each thread disposes

ASSUME NoSinkIsNone == NoSink \notin Sinks
ASSUME NoneIsNoThread == "none" \notin Threads
ASSUME SinkOfType == SinkOf \in [Tokens -> Sinks \cup {NoSink}]
ASSUME SlotOfType == SlotOf \in [Tokens -> Slots]
ASSUME UseType == /\ Touches \in [Threads -> SUBSET Tokens]
                  /\ Disposes \in [Threads -> SUBSET Sinks]

VARIABLES
  handlerMap,  \* the tokens bound
  filter,      \* the reference count of each slot, 0 if it is not there
  writer,      \* the thread holding the write lock of the binding, or none
  bindings,    \* each sink's list of tokens
  locker,      \* the thread holding the monitor of each list, or none
  disposed,    \* EventSink.disposed
  flowSet,     \* whether EventSink.Flow still has its target
  pc,          \* where each thread is, see Places
  arg          \* the token or sink its call is about

vars == <<handlerMap, filter, writer, bindings, locker, disposed, flowSet, pc, arg>>

None == "none"

(***************************************************************************)
(* bind: Disposed was false, the write lock is next.  register: the lock   *)
(* is held and the handler is new, AddBinding is next.  deregister: the    *)
(* lock is held, RemoveBinding is next.  dispose: disposed was false.      *)
(* flow: it has been set.  enter: lock(bindings) is next.  sweep: inside.  *)
(***************************************************************************)
Places == {"idle", "bind", "register", "deregister",
           "dispose", "flow", "enter", "sweep"}

Init ==
  /\ handlerMap = {}
  /\ filter = [s \in Slots |-> 0]
  /\ writer = None
  /\ bindings = [k \in Sinks |-> {}]
  /\ locker = [k \in Sinks |-> None]
  /\ disposed = [k \in Sinks |-> FALSE]
  /\ flowSet = [k \in Sinks |-> TRUE]
  /\ pc = [t \in Threads |-> "idle"]
  /\ arg = [t \in Threads |-> None]

Goto(t, place) == pc' = [pc EXCEPT ![t] = place]
Call(t, place, x) == Goto(t, place) /\ arg' = [arg EXCEPT ![t] = x]
Return(t) == Call(t, "idle", None)

-----------------------------------------------------------------------------
(* Mutant of FilterAdd: counts a slot only when it is first added.         *)
FilterAddOnce(k) == filter' = [filter EXCEPT ![SlotOf[k]] = 1]

FilterAdd(k) == filter' = [filter EXCEPT ![SlotOf[k]] = @ + 1]

(* UnbindInternal under the write lock.                                    *)
UnbindInternal(k) ==
  IF k \in handlerMap
  THEN /\ handlerMap' = handlerMap \ {k}
       /\ filter' = [filter EXCEPT ![SlotOf[k]] = @ - 1]
  ELSE UNCHANGED <<handlerMap, filter>>

(* Bind starts by reading Disposed of its sink, outside every lock.        *)
BindCheck(t, k) ==
  /\ pc[t] = "idle"
  /\ SinkOf[k] \in Sinks => ~disposed[SinkOf[k]]
  /\ Call(t, "bind", k)
  /\ UNCHANGED <<handlerMap, filter, writer, bindings, locker, disposed, flowSet>>

(***************************************************************************)
(* It takes the write lock and adds the handler and, if it was not there,  *)
(* its slot.  A new handler of a sink keeps the lock for AddBinding.       *)
(***************************************************************************)
BindAdd(t) ==
  /\ pc[t] = "bind"
  /\ writer = None
  /\ LET k == arg[t]
     IN  IF k \in handlerMap
         THEN UNCHANGED <<handlerMap, filter, writer>> /\ Return(t)
         ELSE /\ handlerMap' = handlerMap \cup {k}
              /\ FilterAdd(k)
              /\ IF SinkOf[k] = NoSink
                 THEN UNCHANGED writer /\ Return(t)
                 ELSE writer' = t /\ Goto(t, "register") /\ UNCHANGED arg
  /\ UNCHANGED <<bindings, locker, disposed, flowSet>>

(* Mutant of BindRegister: returns with the write lock held.               *)
BindRegisterHolding(t) ==
  /\ pc[t] = "register"
  /\ locker[SinkOf[arg[t]]] = None
  /\ bindings' = [bindings EXCEPT ![SinkOf[arg[t]]] = @ \cup {arg[t]}]
  /\ Return(t)
  /\ UNCHANGED <<handlerMap, filter, writer, locker, disposed, flowSet>>

(* EventSink.AddBinding, then the write lock is released.                  *)
BindRegister(t) ==
  /\ pc[t] = "register"
  /\ locker[SinkOf[arg[t]]] = None
  /\ bindings' = [bindings EXCEPT ![SinkOf[arg[t]]] = @ \cup {arg[t]}]
  /\ writer' = None
  /\ Return(t)
  /\ UNCHANGED <<handlerMap, filter, locker, disposed, flowSet>>

(* Unbind takes the write lock and removes the handler.                    *)
UnbindRemove(t, k) ==
  /\ pc[t] = "idle"
  /\ writer = None
  /\ UnbindInternal(k)
  /\ IF SinkOf[k] = NoSink
     THEN UNCHANGED <<writer, pc, arg>>
     ELSE writer' = t /\ Call(t, "deregister", k)
  /\ UNCHANGED <<bindings, locker, disposed, flowSet>>

(* EventSink.RemoveBinding, bound before or not.                           *)
UnbindDeregister(t) ==
  /\ pc[t] = "deregister"
  /\ locker[SinkOf[arg[t]]] = None
  /\ bindings' = [bindings EXCEPT ![SinkOf[arg[t]]] = @ \ {arg[t]}]
  /\ writer' = None
  /\ Return(t)
  /\ UNCHANGED <<handlerMap, filter, locker, disposed, flowSet>>

(***************************************************************************)
(* Dispose reads disposed, sets it, reads its flow and locks its list of   *)
(* bindings, each in a step of its own.                                    *)
(***************************************************************************)
DisposeCheck(t, k) ==
  /\ pc[t] = "idle"
  /\ ~disposed[k]
  /\ Call(t, "dispose", k)
  /\ UNCHANGED <<handlerMap, filter, writer, bindings, locker, disposed, flowSet>>

DisposeSet(t) ==
  /\ pc[t] = "dispose"
  /\ disposed' = [disposed EXCEPT ![arg[t]] = TRUE]
  /\ Goto(t, "flow")
  /\ UNCHANGED <<handlerMap, filter, writer, bindings, locker, flowSet, arg>>

DisposeFlow(t) ==
  /\ pc[t] = "flow"
  /\ IF flowSet[arg[t]] THEN Goto(t, "enter") /\ UNCHANGED arg ELSE Return(t)
  /\ UNCHANGED <<handlerMap, filter, writer, bindings, locker, disposed, flowSet>>

DisposeEnter(t) ==
  /\ pc[t] = "enter"
  /\ locker[arg[t]] = None
  /\ locker' = [locker EXCEPT ![arg[t]] = t]
  /\ Goto(t, "sweep")
  /\ UNCHANGED <<handlerMap, filter, writer, bindings, disposed, flowSet, arg>>

(***************************************************************************)
(* UnsubscribeInternal of one token of the list takes and releases the     *)
(* write lock.  The loop runs over the whole list, which is cleared after  *)
(* it; removing each token here as it is unbound comes to the same, since  *)
(* no other thread sees the list while it is locked.                       *)
(***************************************************************************)
DisposeUnbind(t, k) ==
  /\ pc[t] = "sweep"
  /\ k \in bindings[arg[t]]
  /\ writer = None
  /\ UnbindInternal(k)
  /\ bindings' = [bindings EXCEPT ![arg[t]] = @ \ {k}]
  /\ UNCHANGED <<writer, locker, disposed, flowSet, pc, arg>>

(* Mutant of Swept: the loop stops one token early.                        *)
SweptEarly(t) == Cardinality(bindings[arg[t]]) <= 1

Swept(t) == bindings[arg[t]] = {}

DisposeEnd(t) ==
  /\ pc[t] = "sweep"
  /\ Swept(t)
  /\ bindings' = [bindings EXCEPT ![arg[t]] = {}]
  /\ flowSet' = [flowSet EXCEPT ![arg[t]] = FALSE]
  /\ locker' = [locker EXCEPT ![arg[t]] = None]
  /\ Return(t)
  /\ UNCHANGED <<handlerMap, filter, writer, disposed>>

(* A call that has begun goes on.                                          *)
Continue(t) ==
  \/ BindAdd(t)
  \/ BindRegister(t)
  \/ UnbindDeregister(t)
  \/ DisposeSet(t)
  \/ DisposeFlow(t)
  \/ DisposeEnter(t)
  \/ \E k \in Tokens : DisposeUnbind(t, k)
  \/ DisposeEnd(t)

Next ==
  \E t \in Threads :
    \/ \E k \in Touches[t] : BindCheck(t, k) \/ UnbindRemove(t, k)
    \/ \E s \in Disposes[t] : DisposeCheck(t, s)
    \/ Continue(t)

(***************************************************************************)
(* ReaderWriterLockSlim and Monitor queue the threads that wait for them,  *)
(* so a thread that is granted its lock again and again gets it.           *)
(***************************************************************************)
Fairness == \A t \in Threads : SF_vars(Continue(t))

Spec == Init /\ [][Next]_vars /\ Fairness

-----------------------------------------------------------------------------
(* Types of the binding, of the sinks and of the threads.                  *)
TypeOK ==
  /\ handlerMap \subseteq Tokens
  /\ filter \in [Slots -> Int]
  /\ writer \in Threads \cup {None}
  /\ bindings \in [Sinks -> SUBSET Tokens]
  /\ locker \in [Sinks -> Threads \cup {None}]
  /\ disposed \in [Sinks -> BOOLEAN]
  /\ flowSet \in [Sinks -> BOOLEAN]
  /\ pc \in [Threads -> Places]
  /\ arg \in [Threads -> Tokens \cup Sinks \cup {None}]

(***************************************************************************)
(* The filter counts the handlers bound to each slot.  BuildHandlerChain   *)
(* looks only at slots in the filter: with a count too low it would miss a *)
(* handler that is still bound, with one too high the slot would leak.     *)
(***************************************************************************)
FilterCounts ==
  \A s \in Slots :
    filter[s] = Cardinality({k \in handlerMap : SlotOf[k] = s})

(***************************************************************************)
(* "Releases all the handler bindings associated with this EventSink":     *)
(* once Dispose has returned and no call is under way, no handler of the   *)
(* sink is bound.                                                          *)
(***************************************************************************)
DisposeUnbindsAll ==
  (\A t \in Threads : pc[t] = "idle")
    => \A k \in handlerMap : SinkOf[k] # NoSink => ~disposed[SinkOf[k]]

(***************************************************************************)
(* A call of Bind, Unbind or Dispose returns: the two locks never wait for *)
(* each other.                                                             *)
(***************************************************************************)
CallsReturn == \A t \in Threads : pc[t] # "idle" ~> pc[t] = "idle"
=============================================================================
