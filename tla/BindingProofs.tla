--------------------------- MODULE BindingProofs ----------------------------
(***************************************************************************)
(* Theorems about Binding for any threads, sinks and tokens: the reference *)
(* counts of the filter, and what Dispose leaves bound when every sink is  *)
(* used by one thread.                                                     *)
(***************************************************************************)
EXTENDS Binding, FiniteSetTheorems, TLAPS

(* A call is about what its thread touches or disposes, and a thread that  *)
(* is to change a list of bindings holds the write lock.                   *)
CallsTyped ==
  \A t \in Threads :
    /\ pc[t] \in {"bind", "register", "deregister"} => arg[t] \in Touches[t]
    /\ pc[t] \in {"register", "deregister"} => SinkOf[arg[t]] \in Sinks /\ writer = t
    /\ pc[t] \in {"dispose", "flow", "enter", "sweep"} => arg[t] \in Disposes[t]

(* A bound handler is in the list of its sink or about to be entered.      *)
Listed ==
  \A k \in handlerMap :
    SinkOf[k] \in Sinks =>
      k \in bindings[SinkOf[k]] \/ \E t \in Threads : pc[t] = "register" /\ arg[t] = k

(* A handler about to be struck from a list is not bound.                  *)
Unlisting == \A t \in Threads : pc[t] = "deregister" => arg[t] \notin handlerMap

BindInv == TypeOK /\ CallsTyped /\ Listed /\ Unlisting

LEMMA BoundBindCheck ==
  ASSUME BindInv, NEW t \in Threads, NEW k \in Touches[t], BindCheck(t, k)
  PROVE  BindInv'
<1>1. TypeOK'
  <2>1. pc' \in [Threads -> Places] /\ arg' \in [Threads -> Tokens \cup Sinks \cup {None}]
    BY UseType DEF BindInv, TypeOK, CallsTyped, BindCheck, Goto, Call, Return, Places
  <2>2. QED
    BY <2>1, UseType DEF BindInv, TypeOK, CallsTyped, BindCheck, Goto, Call, Return
<1>2. CallsTyped'
  BY DEF BindInv, TypeOK, CallsTyped, BindCheck, Call, Goto
<1>3. Listed'
  BY DEF BindInv, TypeOK, Listed, BindCheck, Call, Goto
<1>4. Unlisting'
  BY DEF BindInv, TypeOK, Unlisting, BindCheck, Call, Goto
<1> QED BY <1>1, <1>2, <1>3, <1>4 DEF BindInv

LEMMA BoundBindAdd ==
  ASSUME BindInv, NEW t \in Threads, BindAdd(t)
  PROVE  BindInv'
<1>1. TypeOK'
  BY NoSinkIsNone, SinkOfType, UseType
    DEF BindInv, TypeOK, CallsTyped, Listed, Unlisting, BindAdd, FilterAdd, Return,
       Call, Goto, Places
<1>2. CallsTyped'
  <2>1. CASE arg[t] \in handlerMap \/ SinkOf[arg[t]] = NoSink
    BY <2>1, NoSinkIsNone
      DEF BindInv, TypeOK, CallsTyped, BindAdd, FilterAdd, Return, Call, Goto
  <2>2. CASE arg[t] \notin handlerMap /\ SinkOf[arg[t]] # NoSink
    <3>1. writer = None /\ writer' = t /\ pc[t] = "bind" /\ arg' = arg
      BY <2>2 DEF BindAdd, Goto
    <3>2. \A u \in Threads : pc'[u] = IF u = t THEN "register" ELSE pc[u]
      BY <2>2 DEF BindAdd, Goto, BindInv, TypeOK
    <3>3. arg[t] \in Touches[t] /\ SinkOf[arg[t]] \in Sinks
      BY <2>2, <3>1, SinkOfType, UseType DEF BindInv, CallsTyped
    <3>4. QED
      BY <3>1, <3>2, <3>3, NoneIsNoThread DEF BindInv, CallsTyped, None
  <2>3. QED
    BY <2>1, <2>2
<1>3. Listed'
  BY NoSinkIsNone, SinkOfType, UseType
    DEF BindInv, TypeOK, CallsTyped, Listed, Unlisting, BindAdd, FilterAdd, Return,
       Call, Goto
<1>4. Unlisting'
  <2>1. handlerMap' \subseteq handlerMap \cup {arg[t]} /\ writer = None
    BY DEF BindAdd
  <2>2. \A u \in Threads : pc[u] # "deregister"
    BY <2>1, NoneIsNoThread DEF BindInv, CallsTyped, None
  <2>3. \A u \in Threads : pc'[u] # "deregister"
    BY <2>2 DEF BindInv, TypeOK, BindAdd, Return, Call, Goto
  <2>4. QED
    BY <2>3 DEF Unlisting
<1> QED BY <1>1, <1>2, <1>3, <1>4 DEF BindInv

LEMMA BoundBindRegister ==
  ASSUME BindInv, NEW t \in Threads, BindRegister(t)
  PROVE  BindInv'
<1>1. TypeOK'
  <2>1. bindings' \in [Sinks -> SUBSET Tokens]
    BY UseType DEF BindInv, TypeOK, CallsTyped, BindRegister
  <2>2. pc' \in [Threads -> Places] /\ arg' \in [Threads -> Tokens \cup Sinks \cup {None}]
    BY DEF BindInv, TypeOK, BindRegister, Call, Return, Goto, Places
  <2>3. QED
    BY <2>1, <2>2 DEF BindInv, TypeOK, BindRegister
<1>2. CallsTyped'
  BY DEF BindInv, TypeOK, CallsTyped, BindRegister, Return, Call, Goto
<1>3. Listed'
  BY DEF BindInv, TypeOK, Listed, BindRegister, Return, Call, Goto
<1>4. Unlisting'
  BY DEF BindInv, TypeOK, Unlisting, BindRegister, Return, Call, Goto
<1> QED BY <1>1, <1>2, <1>3, <1>4 DEF BindInv

LEMMA BoundUnbindRemove ==
  ASSUME BindInv, NEW t \in Threads, NEW k \in Touches[t], UnbindRemove(t, k)
  PROVE  BindInv'
<1>1. TypeOK'
  BY NoSinkIsNone, SinkOfType, UseType
    DEF BindInv, TypeOK, CallsTyped, Listed, Unlisting, UnbindRemove,
       UnbindInternal, Call, Goto, Places
<1>2. CallsTyped'
  <2>1. CASE SinkOf[k] = NoSink
    BY <2>1 DEF BindInv, CallsTyped, UnbindRemove
  <2>2. CASE SinkOf[k] # NoSink
    <3>1. writer = None /\ writer' = t
      BY <2>2 DEF UnbindRemove
    <3>2. \A u \in Threads : /\ pc'[u] = IF u = t THEN "deregister" ELSE pc[u]
                            /\ arg'[u] = IF u = t THEN k ELSE arg[u]
      BY <2>2 DEF UnbindRemove, Call, Goto, BindInv, TypeOK
    <3>3. SinkOf[k] \in Sinks
      BY <2>2, SinkOfType, UseType
    <3>4. QED
      BY <3>1, <3>2, <3>3, NoneIsNoThread DEF BindInv, CallsTyped, None
  <2>3. QED
    BY <2>1, <2>2
<1>3. Listed'
  BY DEF BindInv, TypeOK, Listed, UnbindRemove, UnbindInternal, Call, Goto
<1>4. Unlisting'
  BY DEF BindInv, TypeOK, Unlisting, UnbindRemove, UnbindInternal, Call, Goto
<1> QED BY <1>1, <1>2, <1>3, <1>4 DEF BindInv

LEMMA BoundUnbindDeregister ==
  ASSUME BindInv, NEW t \in Threads, UnbindDeregister(t)
  PROVE  BindInv'
<1>1. TypeOK'
  BY DEF BindInv, TypeOK, UnbindDeregister, Return, Call, Goto, Places
<1>2. CallsTyped'
  BY DEF BindInv, TypeOK, CallsTyped, UnbindDeregister, Return, Call, Goto
<1>3. Listed'
  BY NoSinkIsNone, SinkOfType, UseType
    DEF BindInv, TypeOK, CallsTyped, Listed, Unlisting, UnbindDeregister, Return,
       Call, Goto
<1>4. Unlisting'
  BY DEF BindInv, TypeOK, Unlisting, UnbindDeregister, Return, Call, Goto
<1> QED BY <1>1, <1>2, <1>3, <1>4 DEF BindInv

LEMMA BoundDisposeCheck ==
  ASSUME BindInv, NEW t \in Threads, NEW k \in Disposes[t], DisposeCheck(t, k)
  PROVE  BindInv'
<1>1. TypeOK'
  <2>1. pc' \in [Threads -> Places] /\ arg' \in [Threads -> Tokens \cup Sinks \cup {None}]
    BY UseType DEF BindInv, TypeOK, CallsTyped, DisposeCheck, Goto, Call, Return, Places
  <2>2. QED
    BY <2>1, UseType DEF BindInv, TypeOK, CallsTyped, DisposeCheck, Goto, Call, Return
<1>2. CallsTyped'
  BY DEF BindInv, TypeOK, CallsTyped, DisposeCheck, Call, Goto
<1>3. Listed'
  BY DEF BindInv, TypeOK, Listed, DisposeCheck, Call, Goto
<1>4. Unlisting'
  BY DEF BindInv, TypeOK, Unlisting, DisposeCheck, Call, Goto
<1> QED BY <1>1, <1>2, <1>3, <1>4 DEF BindInv

LEMMA BoundDisposeSet ==
  ASSUME BindInv, NEW t \in Threads, DisposeSet(t)
  PROVE  BindInv'
<1>1. TypeOK'
  <2>1. pc' \in [Threads -> Places] /\ arg' \in [Threads -> Tokens \cup Sinks \cup {None}]
    BY UseType DEF BindInv, TypeOK, CallsTyped, DisposeSet, Goto, Call, Return, Places
  <2>2. QED
    BY <2>1, UseType DEF BindInv, TypeOK, CallsTyped, DisposeSet, Goto, Call, Return
<1>2. CallsTyped'
  BY DEF BindInv, TypeOK, CallsTyped, DisposeSet, Goto
<1>3. Listed'
  BY DEF BindInv, TypeOK, Listed, DisposeSet, Goto
<1>4. Unlisting'
  BY DEF BindInv, TypeOK, Unlisting, DisposeSet, Goto
<1> QED BY <1>1, <1>2, <1>3, <1>4 DEF BindInv

LEMMA BoundDisposeFlow ==
  ASSUME BindInv, NEW t \in Threads, DisposeFlow(t)
  PROVE  BindInv'
<1>1. TypeOK'
  BY DEF BindInv, TypeOK, DisposeFlow, Goto, Return, Call, Places
<1>2. CallsTyped'
  BY DEF BindInv, TypeOK, CallsTyped, DisposeFlow, Goto, Return, Call
<1>3. Listed'
  BY DEF BindInv, TypeOK, Listed, DisposeFlow, Goto, Return, Call
<1>4. Unlisting'
  BY DEF BindInv, TypeOK, Unlisting, DisposeFlow, Goto, Return, Call
<1> QED BY <1>1, <1>2, <1>3, <1>4 DEF BindInv

LEMMA BoundDisposeEnter ==
  ASSUME BindInv, NEW t \in Threads, DisposeEnter(t)
  PROVE  BindInv'
<1>1. TypeOK'
  <2>1. pc' \in [Threads -> Places] /\ arg' \in [Threads -> Tokens \cup Sinks \cup {None}]
    BY UseType DEF BindInv, TypeOK, CallsTyped, DisposeEnter, Goto, Call, Return, Places
  <2>2. QED
    BY <2>1, UseType DEF BindInv, TypeOK, CallsTyped, DisposeEnter, Goto, Call, Return
<1>2. CallsTyped'
  BY DEF BindInv, TypeOK, CallsTyped, DisposeEnter, Goto
<1>3. Listed'
  BY DEF BindInv, TypeOK, Listed, DisposeEnter, Goto
<1>4. Unlisting'
  BY DEF BindInv, TypeOK, Unlisting, DisposeEnter, Goto
<1> QED BY <1>1, <1>2, <1>3, <1>4 DEF BindInv

LEMMA BoundDisposeUnbind ==
  ASSUME BindInv, NEW t \in Threads, NEW k \in Tokens, DisposeUnbind(t, k)
  PROVE  BindInv'
<1>1. TypeOK'
  BY NoSinkIsNone, SinkOfType, UseType
    DEF BindInv, TypeOK, CallsTyped, Listed, Unlisting, DisposeUnbind,
       UnbindInternal, Places
<1>2. CallsTyped'
  BY DEF BindInv, TypeOK, CallsTyped, DisposeUnbind, UnbindInternal
<1>3. Listed'
  BY DEF BindInv, TypeOK, Listed, DisposeUnbind, UnbindInternal
<1>4. Unlisting'
  BY DEF BindInv, TypeOK, Unlisting, DisposeUnbind, UnbindInternal
<1> QED BY <1>1, <1>2, <1>3, <1>4 DEF BindInv

LEMMA BoundDisposeEnd ==
  ASSUME BindInv, NEW t \in Threads, DisposeEnd(t)
  PROVE  BindInv'
<1>1. TypeOK'
  <2>1. pc' \in [Threads -> Places] /\ arg' \in [Threads -> Tokens \cup Sinks \cup {None}]
    BY UseType DEF BindInv, TypeOK, CallsTyped, DisposeEnd, Goto, Call, Return, Places
  <2>2. QED
    BY <2>1, UseType DEF BindInv, TypeOK, CallsTyped, DisposeEnd, Goto, Call, Return
<1>2. CallsTyped'
  BY DEF BindInv, TypeOK, CallsTyped, DisposeEnd, Swept, Return, Call, Goto
<1>3. Listed'
  BY DEF BindInv, TypeOK, Listed, DisposeEnd, Swept, Return, Call, Goto
<1>4. Unlisting'
  BY DEF BindInv, TypeOK, Unlisting, DisposeEnd, Swept, Return, Call, Goto
<1> QED BY <1>1, <1>2, <1>3, <1>4 DEF BindInv

(* Nothing but the caller's own step changes the binding.                  *)
LEMMA BoundInit == Init => BindInv
BY NoneIsNoThread, NoSinkIsNone
  DEF Init, BindInv, TypeOK, CallsTyped, Listed, Unlisting, Places, None

LEMMA BoundStep == BindInv /\ [Next]_vars => BindInv'
<1> SUFFICES ASSUME BindInv, [Next]_vars PROVE BindInv'
  OBVIOUS
<1>1. ASSUME NEW t \in Threads, Continue(t) PROVE BindInv'
  BY <1>1, BoundBindAdd, BoundBindRegister, BoundUnbindDeregister, BoundDisposeSet,
       BoundDisposeFlow, BoundDisposeEnter, BoundDisposeUnbind, BoundDisposeEnd
    DEF Continue
<1>2. ASSUME NEW t \in Threads, NEW k \in Touches[t], BindCheck(t, k) \/ UnbindRemove(t, k) PROVE BindInv'
  BY <1>2, BoundBindCheck, BoundUnbindRemove
<1>3. ASSUME NEW t \in Threads, NEW s \in Disposes[t], DisposeCheck(t, s) PROVE BindInv'
  BY <1>3, BoundDisposeCheck
<1>4. CASE UNCHANGED vars
  BY <1>4 DEF vars, BindInv, TypeOK, CallsTyped, Listed, Unlisting
<1> QED BY <1>1, <1>2, <1>3, <1>4 DEF Next

(***************************************************************************)
(* The handlers of a binding and of their sinks' lists agree at all times. *)
(***************************************************************************)
THEOREM Bound == Spec => []BindInv
<1> QED BY BoundInit, BoundStep, PTL DEF Spec

-----------------------------------------------------------------------------
(* Binding a new handler raises the count of its slot alone by one, and    *)
(* unbinding it takes it back.                                             *)
Bearers(H, s) == {k \in H : SlotOf[k] = s}

LEMMA CountedWith ==
  ASSUME NEW H, IsFiniteSet(H), NEW k, k \notin H, NEW s
  PROVE  Cardinality(Bearers(H \cup {k}, s)) =
           Cardinality(Bearers(H, s)) + (IF SlotOf[k] = s THEN 1 ELSE 0)
<1>1. IsFiniteSet(Bearers(H, s)) /\ k \notin Bearers(H, s)
  <2>1. Bearers(H, s) \in SUBSET H
    BY DEF Bearers
  <2>2. QED
    BY <2>1, FS_Subset
<1>2. CASE SlotOf[k] = s
  <2>1. Bearers(H \cup {k}, s) = Bearers(H, s) \cup {k}
    BY <1>2 DEF Bearers
  <2>2. QED
    BY <1>1, <1>2, <2>1, FS_AddElement
<1>3. CASE SlotOf[k] # s
  <2>1. Bearers(H \cup {k}, s) = Bearers(H, s)
    BY <1>3 DEF Bearers
  <2>2. QED
    BY <1>1, <1>3, <2>1, FS_CardinalityType
<1>4. QED
  BY <1>2, <1>3

LEMMA CountedWithout ==
  ASSUME NEW H, IsFiniteSet(H), NEW k \in H, NEW s
  PROVE  Cardinality(Bearers(H \ {k}, s)) =
           Cardinality(Bearers(H, s)) - (IF SlotOf[k] = s THEN 1 ELSE 0)
<1>1. IsFiniteSet(H \ {k}) /\ k \notin H \ {k} /\ (H \ {k}) \cup {k} = H
  BY FS_RemoveElement
<1>2. IsFiniteSet(Bearers(H \ {k}, s))
  <2>1. Bearers(H \ {k}, s) \in SUBSET (H \ {k})
    BY DEF Bearers
  <2>2. QED
    BY <1>1, <2>1, FS_Subset
<1>3. Cardinality(Bearers((H \ {k}) \cup {k}, s)) =
        Cardinality(Bearers(H \ {k}, s)) + (IF SlotOf[k] = s THEN 1 ELSE 0)
  BY <1>1, CountedWith
<1>4. Cardinality(Bearers(H \ {k}, s)) \in Nat
  BY <1>2, FS_CardinalityType
<1>5. Cardinality(Bearers(H, s)) =
        Cardinality(Bearers(H \ {k}, s)) + (IF SlotOf[k] = s THEN 1 ELSE 0)
  BY <1>1, <1>3
<1>6. QED
  BY <1>4, <1>5

Counted == IsFiniteSet(handlerMap) /\ FilterCounts

LEMMA CountedInit == Init => Counted
<1> SUFFICES ASSUME Init PROVE Counted
  OBVIOUS
<1>1. \A s \in Slots : {k \in handlerMap : SlotOf[k] = s} = {}
  BY DEF Init
<1>2. QED
  BY <1>1, FS_EmptySet DEF Init, Counted, FilterCounts

(* What a step does to the handlers and the counts: nothing, or a handler  *)
(* is bound, or one is unbound.                                            *)
LEMMA Rebinding ==
  ASSUME BindInv, Counted,
         \/ UNCHANGED <<handlerMap, filter>>
         \/ \E k \in Tokens : k \notin handlerMap /\ handlerMap' = handlerMap \cup {k} /\ FilterAdd(k)
         \/ \E k \in Tokens : UnbindInternal(k)
  PROVE  Counted'
<1>1. CASE UNCHANGED <<handlerMap, filter>>
  BY <1>1 DEF Counted, FilterCounts
<1>2. ASSUME NEW k \in Tokens, k \notin handlerMap, handlerMap' = handlerMap \cup {k}, FilterAdd(k)
      PROVE  Counted'
  <2>1. IsFiniteSet(handlerMap')
    BY <1>2, FS_AddElement DEF Counted
  <2>2. ASSUME NEW s \in Slots PROVE filter'[s] = Cardinality(Bearers(handlerMap', s))
    <3>1. filter[s] = Cardinality(Bearers(handlerMap, s)) /\ filter[s] \in Int
      BY DEF Counted, FilterCounts, Bearers, BindInv, TypeOK
    <3>2. filter'[s] = filter[s] + (IF SlotOf[k] = s THEN 1 ELSE 0)
      BY <1>2, <3>1, SlotOfType DEF FilterAdd, BindInv, TypeOK
    <3>3. QED
      BY <1>2, <3>1, <3>2, CountedWith DEF Counted
  <2>3. QED
    BY <2>1, <2>2 DEF Counted, FilterCounts, Bearers
<1>3. ASSUME NEW k \in Tokens, UnbindInternal(k), k \in handlerMap
      PROVE  Counted'
  <2>1. IsFiniteSet(handlerMap') /\ handlerMap' = handlerMap \ {k}
    BY <1>3, FS_RemoveElement DEF Counted, UnbindInternal
  <2>2. ASSUME NEW s \in Slots PROVE filter'[s] = Cardinality(Bearers(handlerMap', s))
    <3>1. filter[s] = Cardinality(Bearers(handlerMap, s)) /\ filter[s] \in Int
      BY DEF Counted, FilterCounts, Bearers, BindInv, TypeOK
    <3>2. filter'[s] = filter[s] - (IF SlotOf[k] = s THEN 1 ELSE 0)
      BY <1>3, <3>1, SlotOfType DEF UnbindInternal, BindInv, TypeOK
    <3>3. QED
      BY <1>3, <2>1, <3>1, <3>2, CountedWithout DEF Counted
  <2>3. QED
    BY <2>1, <2>2 DEF Counted, FilterCounts, Bearers
<1>4. ASSUME NEW k \in Tokens, UnbindInternal(k), k \notin handlerMap
      PROVE  UNCHANGED <<handlerMap, filter>>
  BY <1>4 DEF UnbindInternal
<1>5. QED
  BY <1>1, <1>2, <1>3, <1>4

LEMMA CountedStep == BindInv /\ Counted /\ [Next]_vars => Counted'
<1> SUFFICES ASSUME BindInv, Counted, [Next]_vars PROVE Counted'
  OBVIOUS
<1>1. ASSUME NEW t \in Threads, BindAdd(t) PROVE Counted'
  <2>1. arg[t] \in Tokens
    BY <1>1, UseType DEF BindAdd, BindInv, CallsTyped
  <2>2. QED
    BY <1>1, <2>1, Rebinding DEF BindAdd
<1>2. ASSUME NEW t \in Threads, NEW k \in Touches[t], UnbindRemove(t, k) PROVE Counted'
  <2>1. k \in Tokens
    BY UseType
  <2>2. QED
    BY <1>2, <2>1, Rebinding DEF UnbindRemove
<1>3. ASSUME NEW t \in Threads, NEW k \in Tokens, DisposeUnbind(t, k) PROVE Counted'
  BY <1>3, Rebinding DEF DisposeUnbind
<1>4. CASE UNCHANGED <<handlerMap, filter>>
  BY <1>4, Rebinding
<1>5. ASSUME NEW t \in Threads, Continue(t) PROVE Counted'
  BY <1>1, <1>3, <1>4, <1>5
    DEF Continue, BindRegister, UnbindDeregister, DisposeSet, DisposeFlow, DisposeEnter, DisposeEnd
<1> QED BY <1>2, <1>4, <1>5 DEF Next, vars, BindCheck, DisposeCheck

(***************************************************************************)
(* However many threads bind, unbind and dispose, and in whatever order,   *)
(* the filter counts the handlers bound to each slot.                      *)
(***************************************************************************)
THEOREM FilterExact == Spec => []FilterCounts
<1>1. BindInv /\ Counted /\ [Next]_vars => BindInv' /\ Counted'
  BY BoundStep, CountedStep
<1>2. BindInv /\ Counted => FilterCounts
  BY DEF Counted
<1> QED BY <1>1, <1>2, BoundInit, CountedInit, PTL DEF Spec

-----------------------------------------------------------------------------
(***************************************************************************)
(* The sinks are confined: no two threads use one and the same.            *)
(***************************************************************************)
Uses(t, s) == s \in Disposes[t] \/ \E k \in Touches[t] : SinkOf[k] = s
Confined == \A t, u \in Threads : \A s \in Sinks : Uses(t, s) /\ Uses(u, s) => t = u

(* A thread that binds a handler of a sink does not dispose it meanwhile.  *)
Alive ==
  \A t \in Threads :
    pc[t] \in {"bind", "register"} /\ SinkOf[arg[t]] \in Sinks => ~disposed[SinkOf[arg[t]]]

Disposing ==
  \A t \in Threads :
    /\ pc[t] = "dispose" => ~disposed[arg[t]]
    /\ pc[t] = "flow" => flowSet[arg[t]]
    /\ pc[t] \in {"flow", "enter", "sweep"} => disposed[arg[t]]

(* The flow of a sink is reset by its Dispose only.                        *)
FlowKept == \A s \in Sinks : ~disposed[s] => flowSet[s]

(* The handlers of a disposed sink are gone, or its Dispose is under way.  *)
Cleared ==
  \A s \in Sinks :
    disposed[s] => \/ \A k \in handlerMap : SinkOf[k] # s
                   \/ \E t \in Threads : pc[t] \in {"flow", "enter", "sweep"} /\ arg[t] = s

DisposeInv == BindInv /\ Alive /\ Disposing /\ FlowKept /\ Cleared

LEMMA DisposedBindCheck ==
  ASSUME Confined, DisposeInv, NEW t \in Threads, NEW k \in Touches[t], BindCheck(t, k)
  PROVE  DisposeInv'
<1>0. BindInv /\ BindInv'
  BY BoundBindCheck DEF DisposeInv
<1>1. Alive'
  BY <1>0 DEF DisposeInv, BindInv, TypeOK, Alive, BindCheck, Call, Goto
<1>2. Disposing'
  BY <1>0 DEF DisposeInv, BindInv, TypeOK, Disposing, BindCheck, Call, Goto
<1>3. FlowKept'
  BY <1>0 DEF DisposeInv, BindInv, TypeOK, FlowKept, BindCheck, Call, Goto
<1>4. Cleared'
  BY <1>0 DEF DisposeInv, BindInv, TypeOK, Cleared, BindCheck, Call, Goto
<1> QED BY <1>0, <1>1, <1>2, <1>3, <1>4 DEF DisposeInv

LEMMA DisposedBindAdd ==
  ASSUME Confined, DisposeInv, NEW t \in Threads, BindAdd(t)
  PROVE  DisposeInv'
<1>0. BindInv /\ BindInv'
  BY BoundBindAdd DEF DisposeInv
<1>1. Alive'
  BY <1>0 DEF DisposeInv, BindInv, TypeOK, Alive, BindAdd, FilterAdd, Return, Call, Goto
<1>2. Disposing'
  BY <1>0
    DEF DisposeInv, BindInv, TypeOK, Disposing, BindAdd, FilterAdd, Return, Call,
       Goto
<1>3. FlowKept'
  BY <1>0
    DEF DisposeInv, BindInv, TypeOK, FlowKept, BindAdd, FilterAdd, Return, Call,
       Goto
<1>4. Cleared'
  BY <1>0
    DEF DisposeInv, BindInv, TypeOK, CallsTyped, Disposing, Alive, Cleared, BindAdd,
       FilterAdd, Return, Call, Goto
<1> QED BY <1>0, <1>1, <1>2, <1>3, <1>4 DEF DisposeInv

LEMMA DisposedBindRegister ==
  ASSUME Confined, DisposeInv, NEW t \in Threads, BindRegister(t)
  PROVE  DisposeInv'
<1>0. BindInv /\ BindInv'
  BY BoundBindRegister DEF DisposeInv
<1>1. Alive'
  BY <1>0 DEF DisposeInv, BindInv, TypeOK, Alive, BindRegister, Return, Call, Goto
<1>2. Disposing'
  BY <1>0 DEF DisposeInv, BindInv, TypeOK, Disposing, BindRegister, Return, Call, Goto
<1>3. FlowKept'
  BY <1>0 DEF DisposeInv, BindInv, TypeOK, FlowKept, BindRegister, Return, Call, Goto
<1>4. Cleared'
  BY <1>0 DEF DisposeInv, BindInv, TypeOK, Cleared, BindRegister, Return, Call, Goto
<1> QED BY <1>0, <1>1, <1>2, <1>3, <1>4 DEF DisposeInv

LEMMA DisposedUnbindRemove ==
  ASSUME Confined, DisposeInv, NEW t \in Threads, NEW k \in Touches[t], UnbindRemove(t, k)
  PROVE  DisposeInv'
<1>0. BindInv /\ BindInv'
  BY BoundUnbindRemove DEF DisposeInv
<1>1. Alive'
  BY <1>0
    DEF DisposeInv, BindInv, TypeOK, Alive, UnbindRemove, UnbindInternal, Call, Goto
<1>2. Disposing'
  BY <1>0
    DEF DisposeInv, BindInv, TypeOK, Disposing, UnbindRemove, UnbindInternal, Call,
       Goto
<1>3. FlowKept'
  BY <1>0
    DEF DisposeInv, BindInv, TypeOK, FlowKept, UnbindRemove, UnbindInternal, Call,
       Goto
<1>4. Cleared'
  BY <1>0
    DEF DisposeInv, BindInv, TypeOK, Cleared, UnbindRemove, UnbindInternal, Call,
       Goto
<1> QED BY <1>0, <1>1, <1>2, <1>3, <1>4 DEF DisposeInv

LEMMA DisposedUnbindDeregister ==
  ASSUME Confined, DisposeInv, NEW t \in Threads, UnbindDeregister(t)
  PROVE  DisposeInv'
<1>0. BindInv /\ BindInv'
  BY BoundUnbindDeregister DEF DisposeInv
<1>1. Alive'
  BY <1>0 DEF DisposeInv, BindInv, TypeOK, Alive, UnbindDeregister, Return, Call, Goto
<1>2. Disposing'
  BY <1>0
    DEF DisposeInv, BindInv, TypeOK, Disposing, UnbindDeregister, Return, Call, Goto
<1>3. FlowKept'
  BY <1>0
    DEF DisposeInv, BindInv, TypeOK, FlowKept, UnbindDeregister, Return, Call, Goto
<1>4. Cleared'
  BY <1>0 DEF DisposeInv, BindInv, TypeOK, Cleared, UnbindDeregister, Return, Call, Goto
<1> QED BY <1>0, <1>1, <1>2, <1>3, <1>4 DEF DisposeInv

LEMMA DisposedDisposeCheck ==
  ASSUME Confined, DisposeInv, NEW t \in Threads, NEW k \in Disposes[t], DisposeCheck(t, k)
  PROVE  DisposeInv'
<1>0. BindInv /\ BindInv'
  BY BoundDisposeCheck DEF DisposeInv
<1>1. Alive'
  BY <1>0 DEF DisposeInv, BindInv, TypeOK, Alive, DisposeCheck, Call, Goto
<1>2. Disposing'
  BY <1>0 DEF DisposeInv, BindInv, TypeOK, Disposing, DisposeCheck, Call, Goto
<1>3. FlowKept'
  BY <1>0 DEF DisposeInv, BindInv, TypeOK, FlowKept, DisposeCheck, Call, Goto
<1>4. Cleared'
  BY <1>0 DEF DisposeInv, BindInv, TypeOK, Cleared, DisposeCheck, Call, Goto
<1> QED BY <1>0, <1>1, <1>2, <1>3, <1>4 DEF DisposeInv

LEMMA DisposedDisposeSet ==
  ASSUME Confined, DisposeInv, NEW t \in Threads, DisposeSet(t)
  PROVE  DisposeInv'
<1>0. BindInv /\ BindInv'
  BY BoundDisposeSet DEF DisposeInv
<1>1. Alive'
  BY <1>0, NoSinkIsNone, SinkOfType, UseType
    DEF Confined, Uses, DisposeInv, BindInv, TypeOK, CallsTyped, Disposing, Alive,
       Cleared, FlowKept, Listed, DisposeSet, Goto
<1>2. Disposing'
  BY <1>0, NoSinkIsNone, SinkOfType, UseType
    DEF Confined, Uses, DisposeInv, BindInv, TypeOK, CallsTyped, Disposing, Alive,
       Cleared, FlowKept, Listed, DisposeSet, Goto
<1>3. FlowKept'
  BY <1>0 DEF DisposeInv, BindInv, TypeOK, FlowKept, DisposeSet, Goto
<1>4. Cleared'
  BY <1>0 DEF DisposeInv, BindInv, TypeOK, Cleared, DisposeSet, Goto
<1> QED BY <1>0, <1>1, <1>2, <1>3, <1>4 DEF DisposeInv

LEMMA DisposedDisposeFlow ==
  ASSUME Confined, DisposeInv, NEW t \in Threads, DisposeFlow(t)
  PROVE  DisposeInv'
<1>0. BindInv /\ BindInv'
  BY BoundDisposeFlow DEF DisposeInv
<1>1. Alive'
  BY <1>0 DEF DisposeInv, BindInv, TypeOK, Alive, DisposeFlow, Goto, Return, Call
<1>2. Disposing'
  BY <1>0 DEF DisposeInv, BindInv, TypeOK, Disposing, DisposeFlow, Goto, Return, Call
<1>3. FlowKept'
  BY <1>0 DEF DisposeInv, BindInv, TypeOK, FlowKept, DisposeFlow, Goto, Return, Call
<1>4. Cleared'
  BY <1>0
    DEF DisposeInv, BindInv, TypeOK, CallsTyped, Disposing, Alive, Cleared,
       DisposeFlow, Goto, Return, Call
<1> QED BY <1>0, <1>1, <1>2, <1>3, <1>4 DEF DisposeInv

LEMMA DisposedDisposeEnter ==
  ASSUME Confined, DisposeInv, NEW t \in Threads, DisposeEnter(t)
  PROVE  DisposeInv'
<1>0. BindInv /\ BindInv'
  BY BoundDisposeEnter DEF DisposeInv
<1>1. Alive'
  BY <1>0 DEF DisposeInv, BindInv, TypeOK, Alive, DisposeEnter, Goto
<1>2. Disposing'
  BY <1>0 DEF DisposeInv, BindInv, TypeOK, Disposing, DisposeEnter, Goto
<1>3. FlowKept'
  BY <1>0 DEF DisposeInv, BindInv, TypeOK, FlowKept, DisposeEnter, Goto
<1>4. Cleared'
  BY <1>0 DEF DisposeInv, BindInv, TypeOK, Cleared, DisposeEnter, Goto
<1> QED BY <1>0, <1>1, <1>2, <1>3, <1>4 DEF DisposeInv

LEMMA DisposedDisposeUnbind ==
  ASSUME Confined, DisposeInv, NEW t \in Threads, NEW k \in Tokens, DisposeUnbind(t, k)
  PROVE  DisposeInv'
<1>0. BindInv /\ BindInv'
  BY BoundDisposeUnbind DEF DisposeInv
<1>1. Alive'
  BY <1>0 DEF DisposeInv, BindInv, TypeOK, Alive, DisposeUnbind, UnbindInternal
<1>2. Disposing'
  BY <1>0 DEF DisposeInv, BindInv, TypeOK, Disposing, DisposeUnbind, UnbindInternal
<1>3. FlowKept'
  BY <1>0 DEF DisposeInv, BindInv, TypeOK, FlowKept, DisposeUnbind, UnbindInternal
<1>4. Cleared'
  BY <1>0 DEF DisposeInv, BindInv, TypeOK, Cleared, DisposeUnbind, UnbindInternal
<1> QED BY <1>0, <1>1, <1>2, <1>3, <1>4 DEF DisposeInv

LEMMA DisposedDisposeEnd ==
  ASSUME Confined, DisposeInv, NEW t \in Threads, DisposeEnd(t)
  PROVE  DisposeInv'
<1>0. BindInv /\ BindInv'
  BY BoundDisposeEnd DEF DisposeInv
<1>1. Alive'
  BY <1>0 DEF DisposeInv, BindInv, TypeOK, Alive, DisposeEnd, Swept, Return, Call, Goto
<1>2. Disposing'
  BY <1>0, NoSinkIsNone, SinkOfType, UseType
    DEF Confined, Uses, DisposeInv, BindInv, TypeOK, CallsTyped, Disposing, Alive,
       Cleared, FlowKept, Listed, DisposeEnd, Swept, Return, Call, Goto
<1>3. FlowKept'
  BY <1>0
    DEF DisposeInv, BindInv, TypeOK, CallsTyped, Disposing, Alive, FlowKept,
       DisposeEnd, Swept, Return, Call, Goto
<1>4. Cleared'
  BY <1>0, NoSinkIsNone, SinkOfType, UseType
    DEF Confined, Uses, DisposeInv, BindInv, TypeOK, CallsTyped, Disposing, Alive,
       Cleared, FlowKept, Listed, DisposeEnd, Swept, Return, Call, Goto
<1> QED BY <1>0, <1>1, <1>2, <1>3, <1>4 DEF DisposeInv

LEMMA DisposedStep ==
  ASSUME Confined, DisposeInv, [Next]_vars
  PROVE  DisposeInv'
<1>1. ASSUME NEW t \in Threads, Continue(t) PROVE DisposeInv'
  BY <1>1, DisposedBindAdd, DisposedBindRegister, DisposedUnbindDeregister,
       DisposedDisposeSet, DisposedDisposeFlow, DisposedDisposeEnter,
       DisposedDisposeUnbind, DisposedDisposeEnd
    DEF Continue
<1>2. ASSUME NEW t \in Threads, NEW k \in Touches[t], BindCheck(t, k) \/ UnbindRemove(t, k) PROVE DisposeInv'
  BY <1>2, DisposedBindCheck, DisposedUnbindRemove
<1>3. ASSUME NEW t \in Threads, NEW s \in Disposes[t], DisposeCheck(t, s) PROVE DisposeInv'
  BY <1>3, DisposedDisposeCheck
<1>4. CASE UNCHANGED vars
  <2>1. BindInv'
    BY <1>4, BoundStep DEF DisposeInv
  <2>2. QED
    BY <1>4, <2>1 DEF vars, DisposeInv, Alive, Disposing, FlowKept, Cleared
<1> QED BY <1>1, <1>2, <1>3, <1>4 DEF Next

(***************************************************************************)
(* A Dispose that has returned left no handler of its sink bound, for any  *)
(* number of threads, as long as no two of them use the same sink.         *)
(***************************************************************************)
THEOREM DisposeComplete == Confined => (Spec => []DisposeUnbindsAll)
<1> SUFFICES ASSUME Confined PROVE Spec => []DisposeUnbindsAll
  OBVIOUS
<1>1. Init => DisposeInv
  BY BoundInit DEF Init, DisposeInv, Alive, Disposing, FlowKept, Cleared
<1>2. DisposeInv /\ [Next]_vars => DisposeInv'
  BY DisposedStep
<1>3. DisposeInv => DisposeUnbindsAll
  BY SinkOfType DEF DisposeInv, BindInv, TypeOK, Cleared, DisposeUnbindsAll
<1> QED BY <1>1, <1>2, <1>3, PTL DEF Spec
=============================================================================
