---------------------------- MODULE PostingProofs ----------------------------
(***************************************************************************)
(* Theorems about the way of an event, for any flows, channels, posts and  *)
(* threads, and any events a peer sends: a session cuts it out of the      *)
(* bytes it receives as it was sent; Hub puts it in the queue of each flow *)
(* it is meant for, once; SynchronizedEventQueue hands it to a consumer of *)
(* the flow.                                                               *)
(***************************************************************************)
EXTENDS Hub, SynchronizedEventQueue, Reception, FiniteSetTheorems, SequenceTheorems,
        WellFoundedInduction, TLAPS

-----------------------------------------------------------------------------
(* The queue: its types, no lost wakeup, the finality of the closing       *)
(* event, and the EventQueue contract it implements.                       *)

(* Appending to, and removing the head of, a sequence of items.            *)
LEMMA AppendItem ==
  ASSUME NEW S, NEW s \in Seq(S), NEW e \in S
  PROVE  /\ Append(s, e) \in Seq(S)
         /\ Append(s, e) # <<>>
         /\ Len(Append(s, e)) = 1 <=> s = <<>>
         /\ DOMAIN Append(s, e) = DOMAIN s \cup {Len(s) + 1}
         /\ \A i \in DOMAIN s : Append(s, e)[i] = s[i]
         /\ Append(s, e)[Len(s) + 1] = e
  OBVIOUS

LEMMA TailItem ==
  ASSUME NEW S, NEW s \in Seq(S), s # <<>>
  PROVE  /\ Head(s) \in S
         /\ Head(s) = s[1]
         /\ 1 \in DOMAIN s
         /\ Tail(s) \in Seq(S)
         /\ \A i \in DOMAIN Tail(s) : i + 1 \in DOMAIN s /\ Tail(s)[i] = s[i + 1]
  OBVIOUS

(* A step that lets a thread take the head of the queue keeps the types.   *)
LEMMA TakeType ==
  ASSUME TypeOK, NEW t \in Threads, Take(t)
  PROVE  /\ queue' \in Seq(Items)
         /\ got' \in [Threads -> Seq(Items)]
         /\ closing' \in BOOLEAN
         /\ posted' \subseteq Items
  <1>1. Head(queue) \in Items /\ Tail(queue) \in Seq(Items)
    BY TailItem DEF TypeOK, Take
  <1>2. Append(got[t], Head(queue)) \in Seq(Items)
    BY <1>1, AppendItem DEF TypeOK
  <1> QED
    BY <1>1, <1>2 DEF TypeOK, Take

(* Every step keeps every variable in its type.                            *)
LEMMA TypeStep == TypeOK /\ [Next]_vars => TypeOK'
  <1> SUFFICES ASSUME TypeOK, [Next]_vars PROVE TypeOK'
    OBVIOUS
  <1>1. ASSUME NEW e \in Events, Enqueue(e) PROVE TypeOK'
    <2>1. Append(queue, e) \in Seq(Items)
      BY AppendItem DEF TypeOK, Items
    <2>2. cs' \in [Consumers -> States]
      BY <1>1 DEF TypeOK, Enqueue, Open, PulseOnFirst, Pulse, Waiting, States
    <2> QED
      BY <1>1, <2>1, <2>2 DEF TypeOK, Enqueue, Open, PulseOnFirst, Items
  <1>2. ASSUME NEW f \in Finals, Close(f) PROVE TypeOK'
    <2>1. Append(queue, f) \in Seq(Items)
      BY AppendItem DEF TypeOK, Items
    <2>2. cs' \in [Consumers -> States]
      BY <1>2 DEF TypeOK, Close, PulseAll, States
    <2> QED
      BY <1>2, <2>1, <2>2 DEF TypeOK, Close, Items
  <1>3. ASSUME NEW c \in Consumers, DequeueItem(c) PROVE TypeOK'
    BY <1>3, TakeType DEF TypeOK, DequeueItem, Threads, States
  <1>4. ASSUME NEW c \in Consumers, DequeueNull(c) PROVE TypeOK'
    BY <1>4 DEF TypeOK, DequeueNull, States
  <1>5. ASSUME NEW c \in Consumers, DequeueWait(c) PROVE TypeOK'
    BY <1>5 DEF TypeOK, DequeueWait, States
  <1>6. ASSUME NEW c \in Consumers, Return(c) PROVE TypeOK'
    BY <1>6 DEF TypeOK, Return, States
  <1>7. ASSUME NEW p \in Pollers, TryDequeue(p) PROVE TypeOK'
    BY <1>7, TakeType DEF TypeOK, TryDequeue, Threads
  <1>8. CASE UNCHANGED vars
    BY <1>8 DEF TypeOK, vars
  <1> QED
    BY <1>1, <1>2, <1>3, <1>4, <1>5, <1>6, <1>7, <1>8 DEF Next

(* Type correctness of the queue and of the threads that use it.           *)
THEOREM TypeCorrect == SafeSpec => []TypeOK
  <1>1. Init => TypeOK
    <2>1. <<>> \in Seq(Items)
      OBVIOUS
    <2> QED
      BY <2>1 DEF Init, TypeOK, States
  <1> QED
    BY <1>1, TypeStep, PTL DEF SafeSpec

-----------------------------------------------------------------------------
(* No step strands a waiting consumer.                                     *)
LEMMA WakeupStep ==
  TypeOK /\ NoLostWakeup /\ [Next]_vars => NoLostWakeup'
  <1> SUFFICES ASSUME TypeOK, NoLostWakeup, [Next]_vars PROVE NoLostWakeup'
    OBVIOUS
  <1> USE DEF NoLostWakeup, Waiting, Active
  <1>1. ASSUME NEW e \in Events, Enqueue(e) PROVE NoLostWakeup'
    <2>1. CASE closing
      BY <1>1, <2>1 DEF Enqueue, Open, PulseOnFirst
    <2>2. CASE ~closing /\ queue # <<>>
      <3>1. UNCHANGED cs
        BY <1>1, <2>2, AppendItem, SMTT(30) DEF Enqueue, Open, PulseOnFirst, TypeOK, Items
      <3> QED
        BY <1>1, <2>2, <3>1 DEF Enqueue, Open, PulseOnFirst
    <2>3. CASE ~closing /\ queue = <<>>
      <3>1. Pulse /\ UNCHANGED closing
        BY <1>1, <2>3, AppendItem DEF Enqueue, Open, PulseOnFirst, TypeOK, Items
      <3>2. CASE Waiting = {}
        BY <3>1, <3>2 DEF Pulse
      <3>3. CASE Waiting # {}
        <4>1. PICK w \in Consumers : cs' = [cs EXCEPT ![w] = "woken"]
          BY <3>1, <3>3 DEF Pulse
        <4>2. cs'[w] = "woken"
          BY <4>1 DEF TypeOK
        <4> QED
          BY <2>3, <3>1, <4>2
      <3> QED
        BY <3>2, <3>3
    <2> QED
      BY <2>1, <2>2, <2>3
  <1>2. ASSUME NEW f \in Finals, Close(f) PROVE NoLostWakeup'
    BY <1>2 DEF Close, PulseAll
  <1>3. ASSUME NEW c \in Consumers, DequeueItem(c) PROVE NoLostWakeup'
    <2>1. cs'[c] = "busy" /\ UNCHANGED closing
      BY <1>3 DEF DequeueItem, Take, TypeOK
    <2>2. \A d \in Consumers : cs'[d] = "wait" => cs[d] = "wait"
      BY <1>3 DEF DequeueItem, TypeOK
    <2> QED
      BY <2>1, <2>2
  <1>4. ASSUME NEW c \in Consumers, DequeueNull(c) PROVE NoLostWakeup'
    BY <1>4 DEF DequeueNull, TypeOK
  <1>5. ASSUME NEW c \in Consumers, DequeueWait(c) PROVE NoLostWakeup'
    BY <1>5 DEF DequeueWait, TypeOK
  <1>6. ASSUME NEW c \in Consumers, Return(c) PROVE NoLostWakeup'
    <2>1. cs'[c] = "enter" /\ UNCHANGED <<queue, closing>>
      BY <1>6 DEF Return, TypeOK
    <2>2. \A d \in Consumers : cs'[d] = "wait" => cs[d] = "wait"
      BY <1>6 DEF Return, TypeOK
    <2> QED
      BY <2>1, <2>2
  <1>7. ASSUME NEW p \in Pollers, TryDequeue(p) PROVE NoLostWakeup'
    BY <1>7 DEF TryDequeue, Take
  <1>8. CASE UNCHANGED vars
    BY <1>8 DEF vars
  <1> QED
    BY <1>1, <1>2, <1>3, <1>4, <1>5, <1>6, <1>7, <1>8 DEF Next

(***************************************************************************)
(* Pulsing one waiter, and only when the queue becomes non-empty, loses no *)
(* wakeup, however many consumers, pollers and producers there are.        *)
(***************************************************************************)
THEOREM NoWakeupLost == SafeSpec => []NoLostWakeup
  <1>1. Init => NoLostWakeup
    BY DEF Init, NoLostWakeup, Waiting
  <1> QED
    BY <1>1, TypeCorrect, WakeupStep, PTL DEF SafeSpec

-----------------------------------------------------------------------------
(***************************************************************************)
(* The strengthening of NothingAfterFinal: an open queue has seen no final *)
(* event, and behind a queued final event only final events are queued.    *)
(***************************************************************************)
OpenHasNoFinal ==
  ~closing => /\ \A i \in DOMAIN queue : queue[i] \notin Finals
              /\ \A t \in Threads : \A i \in DOMAIN got[t] : got[t][i] \notin Finals

FinalsAtEnd ==
  \A i, j \in DOMAIN queue : i < j /\ queue[i] \in Finals => queue[j] \in Finals

FinalInv == OpenHasNoFinal /\ FinalsAtEnd /\ NothingAfterFinal

(* Taking the head of the queue preserves FinalInv.                        *)
LEMMA TakeFinal ==
  ASSUME TypeOK, FinalInv, NEW t \in Threads, Take(t)
  PROVE  FinalInv'
  <1> DEFINE h == Head(queue)
  <1>1. /\ queue # <<>>
        /\ queue' = Tail(queue)
        /\ got' = [got EXCEPT ![t] = Append(@, h)]
        /\ UNCHANGED closing
    BY DEF Take
  <1>2. /\ h = queue[1] /\ 1 \in DOMAIN queue /\ h \in Items
        /\ queue' \in Seq(Items)
        /\ \A i \in DOMAIN queue' : i + 1 \in DOMAIN queue /\ queue'[i] = queue[i + 1]
    BY <1>1, TailItem DEF TypeOK
  <1>3. ASSUME NEW u \in Threads, NEW i \in DOMAIN got'[u]
        PROVE  \/ i \in DOMAIN got[u] /\ got'[u][i] = got[u][i]
               \/ got'[u][i] = h
    <2>1. CASE u = t
      <3>1. got'[u] = Append(got[u], h) /\ got[u] \in Seq(Items)
        BY <1>1, <2>1 DEF TypeOK
      <3> QED
        BY <1>2, <3>1, AppendItem
    <2>2. CASE u # t
      BY <1>1, <2>2 DEF TypeOK
    <2> QED
      BY <2>1, <2>2
  <1>4. OpenHasNoFinal'
    BY <1>1, <1>2, <1>3 DEF FinalInv, OpenHasNoFinal
  <1>5. ASSUME NEW i \in DOMAIN queue', NEW j \in DOMAIN queue', i < j,
               queue'[i] \in Finals
        PROVE  queue'[j] \in Finals
    <2>1. i \in Nat /\ j \in Nat /\ i + 1 < j + 1
      BY <1>2, <1>5
    <2> QED
      BY <1>2, <1>5, <2>1 DEF FinalInv, FinalsAtEnd
  <1>6. FinalsAtEnd'
    BY <1>5 DEF FinalsAtEnd
  <1>7. ASSUME NEW u \in Threads, NEW i \in DOMAIN got'[u], got'[u][i] \in Finals
        PROVE  \A k \in DOMAIN queue' : queue'[k] \in Finals
    <2>1. CASE h \in Finals
      <3>1. \A k \in DOMAIN queue' : 1 < k + 1
        BY <1>2
      <3> QED
        BY <1>2, <2>1, <3>1 DEF FinalInv, FinalsAtEnd
    <2>2. CASE h \notin Finals
      <3>1. i \in DOMAIN got[u] /\ got[u][i] \in Finals
        BY <1>3, <1>7, <2>2
      <3> QED
        BY <1>2, <3>1 DEF FinalInv, NothingAfterFinal
    <2> QED
      BY <2>1, <2>2
  <1>8. NothingAfterFinal'
    BY <1>7 DEF NothingAfterFinal
  <1> QED
    BY <1>4, <1>6, <1>8 DEF FinalInv

(* Every step preserves FinalInv.                                          *)
LEMMA FinalStep == TypeOK /\ FinalInv /\ [Next]_vars => FinalInv'
  <1> SUFFICES ASSUME TypeOK, FinalInv, [Next]_vars PROVE FinalInv'
    OBVIOUS
  <1> USE DEF FinalInv, OpenHasNoFinal, FinalsAtEnd, NothingAfterFinal
  <1>1. ASSUME NEW e \in Events, Enqueue(e) PROVE FinalInv'
    <2>1. CASE closing
      BY <1>1, <2>1 DEF Enqueue, Open, PulseOnFirst
    <2>2. CASE ~closing
      <3>1. /\ DOMAIN queue' = DOMAIN queue \cup {Len(queue) + 1}
            /\ \A i \in DOMAIN queue : queue'[i] = queue[i]
            /\ queue'[Len(queue) + 1] = e
        BY <1>1, <2>2, AppendItem, SMTT(30) DEF Enqueue, Open, PulseOnFirst, TypeOK, Items
      <3>2. e \notin Finals
        BY EventsDisjoint
      <3>3. \A i \in DOMAIN queue' : queue'[i] \notin Finals
        BY <2>2, <3>1, <3>2
      <3> QED
        BY <1>1, <2>2, <3>3 DEF Enqueue, Open, PulseOnFirst
    <2> QED
      BY <2>1, <2>2
  <1>2. ASSUME NEW f \in Finals, Close(f) PROVE FinalInv'
    <2>1. /\ DOMAIN queue' = DOMAIN queue \cup {Len(queue) + 1}
          /\ DOMAIN queue = 1 .. Len(queue) /\ Len(queue) \in Nat
          /\ \A i \in DOMAIN queue : queue'[i] = queue[i]
          /\ queue'[Len(queue) + 1] = f
          /\ closing' /\ UNCHANGED got
      BY <1>2, AppendItem DEF Close, TypeOK, Items
    <2>2. FinalsAtEnd'
      BY <2>1
    <2>3. NothingAfterFinal'
      BY <2>1
    <2> QED
      BY <2>1, <2>2, <2>3
  <1>3. ASSUME NEW c \in Consumers, DequeueItem(c) PROVE FinalInv'
    BY <1>3, TakeFinal DEF DequeueItem, Threads
  <1>4. ASSUME NEW c \in Consumers, DequeueNull(c) PROVE FinalInv'
    BY <1>4 DEF DequeueNull
  <1>5. ASSUME NEW c \in Consumers, DequeueWait(c) PROVE FinalInv'
    BY <1>5 DEF DequeueWait
  <1>6. ASSUME NEW c \in Consumers, Return(c) PROVE FinalInv'
    BY <1>6 DEF Return
  <1>7. ASSUME NEW p \in Pollers, TryDequeue(p) PROVE FinalInv'
    BY <1>7, TakeFinal DEF TryDequeue, Threads
  <1>8. CASE UNCHANGED vars
    BY <1>8 DEF vars
  <1> QED
    BY <1>1, <1>2, <1>3, <1>4, <1>5, <1>6, <1>7, <1>8 DEF Next

(***************************************************************************)
(* Whatever the interleaving of producers with Close, no ordinary event is *)
(* left in the queue once a thread has been handed a final one.            *)
(***************************************************************************)
THEOREM FinalIsLast == SafeSpec => []NothingAfterFinal
  <1>1. Init => FinalInv
    BY DEF Init, FinalInv, OpenHasNoFinal, FinalsAtEnd, NothingAfterFinal
  <1>2. FinalInv => NothingAfterFinal
    BY DEF FinalInv
  <1> QED
    BY <1>1, <1>2, TypeCorrect, FinalStep, PTL DEF SafeSpec

-----------------------------------------------------------------------------
(* A thread that takes an event from the monitor performs an abstract Get. *)
LEMMA TakeIsGet ==
  ASSUME NEW c \in Threads, Take(c),
         c \notin {d \in Consumers : cs[d] = "done"},
         {d \in Consumers : cs'[d] = "done"} = {d \in Consumers : cs[d] = "done"}
  PROVE  Contract!Get(c)
  BY DEF Take, Contract!Get

(* Every step of the monitor is a step of the contract or a stutter.       *)
LEMMA ContractStep == TypeOK /\ [Next]_vars => [Contract!Next]_Contract!vars
  <1> SUFFICES ASSUME TypeOK, [Next]_vars PROVE [Contract!Next]_Contract!vars
    OBVIOUS
  <1> DEFINE ended == {d \in Consumers : cs[d] = "done"}
  <1>1. ASSUME NEW e \in Events, Enqueue(e) PROVE [Contract!Next]_Contract!vars
    <2>1. ended' = ended
      BY <1>1 DEF Enqueue, Open, PulseOnFirst, Pulse, Waiting, TypeOK
    <2>2. CASE closing
      BY <1>1, <2>1, <2>2 DEF Enqueue, Open, PulseOnFirst, Contract!vars
    <2>3. CASE ~closing
      BY <1>1, <2>1, <2>3 DEF Enqueue, Open, PulseOnFirst, Contract!Next, Contract!Put
    <2> QED
      BY <2>2, <2>3
  <1>2. ASSUME NEW f \in Finals, Close(f) PROVE [Contract!Next]_Contract!vars
    <2>1. ended' = ended
      BY <1>2 DEF Close, PulseAll, TypeOK
    <2> QED
      BY <1>2, <2>1 DEF Close, Contract!Next, Contract!Shut
  <1>3. ASSUME NEW c \in Consumers, DequeueItem(c)
        PROVE  [Contract!Next]_Contract!vars
    <2>1. ended' = ended /\ c \notin ended
      BY <1>3 DEF DequeueItem, AtMonitor, TypeOK
    <2>2. Contract!Get(c)
      BY <1>3, <2>1, TakeIsGet DEF DequeueItem, Threads
    <2> QED
      BY <2>2 DEF Contract!Next
  <1>4. ASSUME NEW c \in Consumers, DequeueNull(c)
        PROVE  [Contract!Next]_Contract!vars
    <2>1. ended' = ended \cup {c}
      BY <1>4 DEF DequeueNull, TypeOK
    <2> QED
      BY <1>4, <2>1 DEF DequeueNull, Contract!Next, Contract!Eof
  <1>5. ASSUME NEW c \in Consumers, DequeueWait(c)
        PROVE  [Contract!Next]_Contract!vars
    <2>1. ended' = ended
      BY <1>5 DEF DequeueWait, AtMonitor, TypeOK
    <2> QED
      BY <1>5, <2>1 DEF DequeueWait, Contract!vars
  <1>6. ASSUME NEW c \in Consumers, Return(c)
        PROVE  [Contract!Next]_Contract!vars
    <2>1. ended' = ended
      BY <1>6 DEF Return, TypeOK
    <2> QED
      BY <1>6, <2>1 DEF Return, Contract!vars
  <1>7. ASSUME NEW p \in Pollers, TryDequeue(p)
        PROVE  [Contract!Next]_Contract!vars
    <2>1. p \notin ended /\ ended' = ended
      BY <1>7, ThreadsDisjoint DEF TryDequeue
    <2>2. Contract!Get(p)
      BY <1>7, <2>1, TakeIsGet DEF TryDequeue, Threads
    <2> QED
      BY <2>2 DEF Contract!Next
  <1>8. CASE UNCHANGED vars
    BY <1>8 DEF vars, Contract!vars
  <1> QED
    BY <1>1, <1>2, <1>3, <1>4, <1>5, <1>6, <1>7, <1>8 DEF Next

(***************************************************************************)
(* The monitor-based queue implements the EventQueue contract: no          *)
(* interleaving of Enqueue, Close, Dequeue and TryDequeue loses, repeats   *)
(* or reorders an event, or ends a consumer before the queue is drained.   *)
(***************************************************************************)
THEOREM Implements == SafeSpec => Contract!SafeSpec
  <1>1. Init => Contract!Init
    BY DEF Init, Contract!Init, Threads
  <1> QED
    BY <1>1, TypeCorrect, ContractStep, PTL DEF SafeSpec, Contract!SafeSpec

-----------------------------------------------------------------------------
(* The hub: who is subscribed, to whom a post is delivered, and how long a *)
(* subscription is kept.                                                   *)

(* No flow is twice in a list of the hub.                                  *)
Distinct(s) == \A i, j \in DOMAIN s : s[i] = s[j] => i = j
ListsDistinct == Distinct(flows) /\ \A ch \in Channels : Distinct(subscriptions[ch])

HubInv == HubTypeOK /\ ListsDistinct /\ SubscribersAttached

(***************************************************************************)
(* Every Feed in progress walks the list it began with, alone with its     *)
(* post, and has fed the flows it has passed and no other.                 *)
(***************************************************************************)
List(p) == Recipients(feeding[p].post)

Passed(p) == {List(p)[i] : i \in 1 .. feeding[p].next - 1}

Walks(p) ==
  /\ feeding[p].post \in DOMAIN audience
  /\ audience[feeding[p].post] = ToSet(List(p))
  /\ feeding[p].next =< Len(List(p)) + 1
  /\ \A f \in Flows :
       Times(inbox[f], feeding[p].post) = IF f \in Passed(p) THEN 1 ELSE 0

Walking == \A p \in Readers : Walks(p)

FedAlone ==
  \A p, q \in Readers : feeding[p].post = feeding[q].post => p = q

NotPosted ==
  \A e \in Posts \ DOMAIN audience : \A f \in Flows : Times(inbox[f], e) = 0

FeedInv == HubInv /\ Walking /\ FedAlone /\ NotPosted /\ DeliveredExactly

(***************************************************************************)
(* The references of a flow are at least as many as its subscriptions less *)
(* what it has unsubscribed, added up over the channels: the sum is the    *)
(* number of its claims.                                                   *)
(***************************************************************************)
Claims(b) == {c \in Channels \X (Nat \ {0}) : c[2] =< b[c[1]]}

Referenced ==
  \A f \in Flows \ careless :
    /\ IsFiniteSet(Claims(balance[f]))
    /\ refs[f] >= Cardinality(Claims(balance[f]))

KeepInv == HubInv /\ Referenced /\ SubscriptionKept

-----------------------------------------------------------------------------
(* Lists: what Append and RemoveFirst make of them.                        *)
LEMMA SmallestIndex ==
  ASSUME NEW S \in SUBSET Nat, S # {}
  PROVE  Min(S) \in S
  <1>1. PICK v \in S : \A w \in S : <<w, v>> \notin OpToRel(<, Nat)
    BY WFMin, NatLessThanWellFounded
  <1>2. ASSUME NEW w \in S PROVE v =< w
    <2>1. <<w, v>> \notin {p \in Nat \X Nat : p[1] < p[2]}
      BY <1>1, Zenon DEF OpToRel
    <2> QED
      BY <2>1
  <1> QED
    BY <1>2 DEF Min

LEMMA AppendList ==
  ASSUME NEW S, NEW s \in Seq(S), NEW e \in S
  PROVE  /\ Append(s, e) \in Seq(S)
         /\ Contains(s, e) <=> e \in ToSet(s)
         /\ ToSet(Append(s, e)) = ToSet(s) \cup {e}
         /\ Distinct(s) /\ ~Contains(s, e) => Distinct(Append(s, e))
  <1>1. /\ Append(s, e) \in Seq(S)
        /\ DOMAIN s = 1 .. Len(s) /\ Len(s) \in Nat
        /\ DOMAIN Append(s, e) = 1 .. Len(s) + 1
        /\ \A i \in 1 .. Len(s) : Append(s, e)[i] = s[i]
        /\ Append(s, e)[Len(s) + 1] = e
    OBVIOUS
  <1>2. Contains(s, e) <=> e \in ToSet(s)
    BY <1>1 DEF Contains, ToSet
  <1>3. ToSet(Append(s, e)) = ToSet(s) \cup {e}
    BY <1>1 DEF ToSet
  <1>4. ASSUME Distinct(s), ~Contains(s, e) PROVE Distinct(Append(s, e))
    BY <1>1, <1>4 DEF Distinct, Contains
  <1> QED
    BY <1>1, <1>2, <1>3, <1>4

LEMMA RemoveAtList ==
  ASSUME NEW S, NEW s \in Seq(S), NEW k \in 1 .. Len(s)
  PROVE  /\ RemoveAt(s, k) \in Seq(S)
         /\ Len(RemoveAt(s, k)) = Len(s) - 1
         /\ \A j \in 1 .. Len(s) - 1 : RemoveAt(s, k)[j] = IF j < k THEN s[j] ELSE s[j + 1]
  <1> DEFINE a == SubSeq(s, 1, k - 1)
             b == SubSeq(s, k + 1, Len(s))
  <1>0. Len(s) \in Nat /\ k \in Nat /\ \A i \in 1 .. Len(s) : s[i] \in S
    BY ElementOfSeq, LenProperties
  <1>1. a \in Seq(S) /\ Len(a) = k - 1 /\ \A i \in 1 .. k - 1 : a[i] = s[i]
    <2>1. \A i \in 1 .. k - 1 : s[i] \in S
      BY <1>0
    <2> QED
      BY <1>0, <2>1, SubSeqProperties
  <1>2. b \in Seq(S) /\ Len(b) = Len(s) - k /\ \A i \in 1 .. Len(s) - k : b[i] = s[k + i]
    <2>1. \A i \in k + 1 .. Len(s) : s[i] \in S
      BY <1>0
    <2>2. /\ b \in Seq(S) /\ Len(b) = IF k + 1 =< Len(s) THEN Len(s) - (k + 1) + 1 ELSE 0
          /\ \A i \in 1 .. Len(s) - (k + 1) + 1 : b[i] = s[k + 1 + i - 1]
      BY <1>0, <2>1, SubSeqProperties
    <2> QED
      BY <1>0, <2>2
  <1> HIDE DEF a, b
  <1>3. /\ a \o b \in Seq(S) /\ Len(a \o b) = Len(s) - 1
        /\ \A j \in 1 .. Len(s) - 1 : (a \o b)[j] = IF j =< k - 1 THEN a[j] ELSE b[j - (k - 1)]
    BY <1>0, <1>1, <1>2, ConcatProperties
  <1>4. RemoveAt(s, k) = a \o b
    BY DEF RemoveAt, a, b
  <1>5. ASSUME NEW j \in 1 .. Len(s) - 1
        PROVE  (a \o b)[j] = IF j < k THEN s[j] ELSE s[j + 1]
    <2>1. CASE j < k
      BY <1>0, <1>1, <1>3, <2>1
    <2>2. CASE ~(j < k)
      <3>1. j - (k - 1) \in 1 .. Len(s) - k /\ k + (j - (k - 1)) = j + 1
        BY <1>0, <2>2
      <3> QED
        BY <1>0, <1>2, <1>3, <2>2, <3>1
    <2> QED
      BY <2>1, <2>2
  <1> QED
    BY <1>3, <1>4, <1>5

LEMMA RemoveList ==
  ASSUME NEW S, NEW s \in Seq(S), NEW e, Distinct(s)
  PROVE  /\ RemoveFirst(s, e) \in Seq(S)
         /\ ToSet(RemoveFirst(s, e)) = ToSet(s) \ {e}
         /\ Distinct(RemoveFirst(s, e))
  <1>0. DOMAIN s = 1 .. Len(s) /\ Len(s) \in Nat
    OBVIOUS
  <1>1. CASE ~\E i \in 1 .. Len(s) : s[i] = e
    BY <1>0, <1>1 DEF RemoveFirst, ToSet
  <1>2. CASE \E i \in 1 .. Len(s) : s[i] = e
    <2>1. PICK k \in 1 .. Len(s) : s[k] = e /\ RemoveFirst(s, e) = RemoveAt(s, k)
      <3> DEFINE I == {i \in 1 .. Len(s) : s[i] = e}
      <3>1. I \in SUBSET Nat /\ I # {}
        BY <1>2
      <3>2. Min(I) \in I
        BY <3>1, SmallestIndex
      <3>3. RemoveFirst(s, e) = RemoveAt(s, Min(I))
        BY <1>2 DEF RemoveFirst, SelectInSeq
      <3> QED
        BY <3>2, <3>3
    <2>2. \A i, j \in 1 .. Len(s) : s[i] = s[j] => i = j
      BY <1>0 DEF Distinct
    <2> DEFINE t == RemoveAt(s, k)
    <2>3. /\ t \in Seq(S)
          /\ Len(t) = Len(s) - 1
          /\ \A j \in 1 .. Len(s) - 1 : t[j] = IF j < k THEN s[j] ELSE s[j + 1]
      BY RemoveAtList
    <2> HIDE DEF t
    <2>4. DOMAIN t = 1 .. Len(s) - 1
      BY <1>0, <2>3
    <2>5. Distinct(t)
      <3> SUFFICES ASSUME NEW i \in 1 .. Len(s) - 1, NEW j \in 1 .. Len(s) - 1, t[i] = t[j]
                   PROVE  i = j
        BY <2>4 DEF Distinct
      <3>1. /\ t[i] = IF i < k THEN s[i] ELSE s[i + 1]
            /\ t[j] = IF j < k THEN s[j] ELSE s[j + 1]
        BY <2>3
      <3> DEFINE u == IF i < k THEN i ELSE i + 1
                 v == IF j < k THEN j ELSE j + 1
      <3>2. u \in 1 .. Len(s) /\ v \in 1 .. Len(s)
        BY <1>0
      <3>3. s[u] = t[i] /\ s[v] = t[j]
        BY <3>1
      <3>4. u = v
        BY <2>2, <3>2, <3>3
      <3> QED
        BY <1>0, <3>4
    <2>6. ToSet(t) \subseteq ToSet(s) \ {e}
      <3> SUFFICES ASSUME NEW j \in 1 .. Len(s) - 1
                   PROVE  t[j] \in ToSet(s) \ {e}
        BY <2>4 DEF ToSet
      <3>1. PICK i \in 1 .. Len(s) : t[j] = s[i] /\ i # k
        <4>1. t[j] = IF j < k THEN s[j] ELSE s[j + 1]
          BY <2>3
        <4>2. CASE j < k
          <5>1. j \in 1 .. Len(s) /\ j # k
            BY <1>0, <4>2
          <5> QED  BY <4>1, <4>2, <5>1
        <4>3. CASE ~(j < k)
          <5>1. j + 1 \in 1 .. Len(s) /\ j + 1 # k
            BY <1>0, <4>3
          <5> QED  BY <4>1, <4>3, <5>1
        <4> QED  BY <4>2, <4>3
      <3> QED
        BY <1>0, <2>1, <2>2, <3>1 DEF ToSet
    <2>7. ToSet(s) \ {e} \subseteq ToSet(t)
      <3> SUFFICES ASSUME NEW i \in 1 .. Len(s), s[i] # e
                   PROVE  \E j \in 1 .. Len(s) - 1 : t[j] = s[i]
        BY <1>0, <2>4 DEF ToSet
      <3>1. CASE i < k
        BY <1>0, <2>3, <3>1
      <3>2. CASE i > k
        <4>1. i - 1 \in 1 .. Len(s) - 1 /\ ~(i - 1 < k) /\ i - 1 + 1 = i
          BY <1>0, <3>2
        <4>2. t[i - 1] = s[i]
          BY <2>3, <4>1
        <4> QED
          BY <4>1, <4>2
      <3> QED
        BY <1>0, <2>1, <3>1, <3>2
    <2> QED
      BY <2>1, <2>3, <2>5, <2>6, <2>7 DEF t
  <1> QED
    BY <1>1, <1>2

(* How often an event is in an inbox.                                      *)
LEMMA TimesAppend ==
  ASSUME NEW s \in Seq(Posts), NEW d \in Posts, NEW e
  PROVE  Times(Append(s, d), e) = IF d = e THEN Times(s, e) + 1 ELSE Times(s, e)
  <1> DEFINE I == {i \in 1 .. Len(s) : s[i] = e}
             J == {i \in 1 .. Len(s) + 1 : Append(s, d)[i] = e}
  <1>1. Len(s) \in Nat /\ DOMAIN s = 1 .. Len(s) /\ DOMAIN Append(s, d) = 1 .. Len(s) + 1
    OBVIOUS
  <1>2. \A i \in 1 .. Len(s) + 1 : Append(s, d)[i] = IF i = Len(s) + 1 THEN d ELSE s[i]
    OBVIOUS
  <1>3. IsFiniteSet(I)
    <2>1. IsFiniteSet(1 .. Len(s))
      BY <1>1, FS_Interval
    <2>2. I \in SUBSET (1 .. Len(s))
      OBVIOUS
    <2> QED
      BY <2>1, <2>2, FS_Subset
  <1>4. J = IF d = e THEN I \cup {Len(s) + 1} ELSE I
    BY <1>1, <1>2
  <1>5. Len(s) + 1 \notin I
    BY <1>1
  <1>6. Cardinality(J) = IF d = e THEN Cardinality(I) + 1 ELSE Cardinality(I)
    BY <1>3, <1>4, <1>5, FS_AddElement
  <1>7. Times(s, e) = Cardinality(I) /\ Times(Append(s, d), e) = Cardinality(J)
    BY <1>1 DEF Times
  <1> QED
    BY <1>6, <1>7

LEMMA TimesEmpty == \A e : Times(<<>>, e) = 0
  <1> SUFFICES ASSUME NEW e PROVE Times(<<>>, e) = 0
    OBVIOUS
  <1>1. {i \in DOMAIN <<>> : <<>>[i] = e} = {}
    OBVIOUS
  <1> QED
    BY <1>1, FS_EmptySet DEF Times

LEMMA AddList ==
  ASSUME NEW S, NEW s \in Seq(S), NEW e \in S, Distinct(s)
  PROVE  /\ AddSubscriber(s, e) \in Seq(S)
         /\ ToSet(AddSubscriber(s, e)) = ToSet(s) \cup {e}
         /\ Distinct(AddSubscriber(s, e))
  <1>1. CASE Contains(s, e)
    BY <1>1, AppendList DEF AddSubscriber
  <1>2. CASE ~Contains(s, e)
    BY <1>2, AppendList DEF AddSubscriber
  <1> QED
    BY <1>1, <1>2

LEMMA EmptyList == \A S : <<>> \in Seq(S) /\ ToSet(<<>>) = {} /\ Distinct(<<>>)
  BY DEF ToSet, Distinct

-----------------------------------------------------------------------------
(* Who is attached and subscribed.                                         *)
LEMMA HubBegins == HubInit => HubInv
  <1> SUFFICES ASSUME HubInit PROVE HubInv
    OBVIOUS
  <1>1. HubTypeOK
    BY EmptyList DEF HubInit, HubTypeOK, Uncounted
  <1>2. ListsDistinct
    BY EmptyList DEF HubInit, ListsDistinct
  <1>3. SubscribersAttached
    BY EmptyList DEF HubInit, SubscribersAttached
  <1> QED
    BY <1>1, <1>2, <1>3 DEF HubInv

LEMMA AttachKeeps ==
  ASSUME HubInv, NEW f \in Flows, Attach(f)
  PROVE  HubInv'
  <1>1. /\ flows' \in Seq(Flows) /\ Distinct(flows')
        /\ ToSet(flows) \subseteq ToSet(flows')
    BY AppendList DEF HubInv, HubTypeOK, ListsDistinct, Attach
  <1>2. HubTypeOK'
    BY <1>1 DEF HubInv, HubTypeOK, Attach
  <1>3. ListsDistinct'
    BY <1>1 DEF HubInv, ListsDistinct, Attach
  <1>4. SubscribersAttached'
    BY <1>1 DEF HubInv, SubscribersAttached, Attach
  <1> QED
    BY <1>2, <1>3, <1>4 DEF HubInv

LEMMA DetachKeeps ==
  ASSUME HubInv, NEW f \in Flows, Detach(f)
  PROVE  HubInv'
  <1>1. /\ flows' \in Seq(Flows) /\ Distinct(flows')
        /\ ToSet(flows') = ToSet(flows) \ {f}
    BY RemoveList DEF HubInv, HubTypeOK, ListsDistinct, Detach
  <1>2. ASSUME NEW ch \in Channels
        PROVE  /\ subscriptions'[ch] \in Seq(Flows) /\ Distinct(subscriptions'[ch])
               /\ ToSet(subscriptions'[ch]) = ToSet(subscriptions[ch]) \ {f}
    <2>1. subscriptions[ch] \in Seq(Flows) /\ Distinct(subscriptions[ch])
      BY DEF HubInv, HubTypeOK, ListsDistinct
    <2>2. subscriptions'[ch] = RemoveFirst(subscriptions[ch], f)
      BY DEF Detach
    <2> QED
      BY <2>1, <2>2, RemoveList
  <1>3. HubTypeOK'
    <2>1. subscriptions' \in [Channels -> Seq(Flows)]
      BY <1>2 DEF Detach
    <2>2. refs' \in [Flows -> Int] /\ balance' \in [Flows -> [Channels -> Nat]]
      BY DEF HubInv, HubTypeOK, Detach, Uncounted
    <2> QED
      BY <1>1, <2>1, <2>2 DEF HubInv, HubTypeOK, Detach
  <1>4. ListsDistinct'
    BY <1>1, <1>2 DEF ListsDistinct
  <1>5. SubscribersAttached'
    BY <1>1, <1>2 DEF HubInv, SubscribersAttached
  <1> QED
    BY <1>3, <1>4, <1>5 DEF HubInv

LEMMA DetachAllKeeps ==
  ASSUME HubInv, DetachAll
  PROVE  HubInv'
  <1>1. flows' = <<>> /\ \A ch \in Channels : subscriptions'[ch] = <<>>
    BY DEF DetachAll
  <1>2. HubTypeOK'
    BY EmptyList DEF HubInv, HubTypeOK, DetachAll, Uncounted
  <1>3. ListsDistinct'
    BY <1>1, EmptyList DEF ListsDistinct
  <1>4. SubscribersAttached'
    BY <1>1, EmptyList DEF SubscribersAttached
  <1> QED
    BY <1>2, <1>3, <1>4 DEF HubInv

LEMMA SubscribeKeeps ==
  ASSUME HubInv, NEW f \in Flows, NEW ch \in Channels, Subscribe(f, ch)
  PROVE  HubInv'
  <1>1. ASSUME NEW c \in Channels
        PROVE  /\ subscriptions'[c] \in Seq(Flows) /\ Distinct(subscriptions'[c])
               /\ ToSet(subscriptions'[c]) \subseteq ToSet(subscriptions[c]) \cup {f}
    <2>1. subscriptions[c] \in Seq(Flows) /\ Distinct(subscriptions[c])
      BY DEF HubInv, HubTypeOK, ListsDistinct
    <2>2. subscriptions'[c] \in {subscriptions[c], AddSubscriber(subscriptions[c], f)}
      BY DEF HubInv, HubTypeOK, Subscribe
    <2> QED
      BY <2>1, <2>2, AddList
  <1>2. f \in ToSet(flows)
    BY AppendList DEF HubInv, HubTypeOK, Subscribe
  <1>3. HubTypeOK'
    <2>1. subscriptions' \in [Channels -> Seq(Flows)]
      BY <1>1 DEF HubInv, HubTypeOK, Subscribe
    <2>2. refs' \in [Flows -> Int]
      BY DEF HubInv, HubTypeOK, Subscribe
    <2>3. balance' \in [Flows -> [Channels -> Nat]]
      BY DEF HubInv, HubTypeOK, Subscribe
    <2> QED
      BY <2>1, <2>2, <2>3 DEF HubInv, HubTypeOK, Subscribe
  <1>4. ListsDistinct'
    BY <1>1 DEF HubInv, ListsDistinct, Subscribe
  <1>5. SubscribersAttached'
    BY <1>1, <1>2 DEF HubInv, SubscribersAttached, Subscribe
  <1> QED
    BY <1>3, <1>4, <1>5 DEF HubInv

LEMMA UnsubscribeKeeps ==
  ASSUME HubInv, NEW f \in Flows, NEW ch \in Channels, Unsubscribe(f, ch)
  PROVE  HubInv'
  <1>1. ASSUME NEW c \in Channels
        PROVE  /\ subscriptions'[c] \in Seq(Flows) /\ Distinct(subscriptions'[c])
               /\ ToSet(subscriptions'[c]) \subseteq ToSet(subscriptions[c])
    <2>1. subscriptions[c] \in Seq(Flows) /\ Distinct(subscriptions[c])
      BY DEF HubInv, HubTypeOK, ListsDistinct
    <2>2. subscriptions'[c] \in {subscriptions[c], RemoveFirst(subscriptions[c], f)}
      BY DEF HubInv, HubTypeOK, Unsubscribe
    <2> QED
      BY <2>1, <2>2, RemoveList
  <1>2. HubTypeOK'
    <2>1. subscriptions' \in [Channels -> Seq(Flows)]
      BY <1>1 DEF HubInv, HubTypeOK, Unsubscribe
    <2>2. refs' \in [Flows -> Int]
      BY DEF HubInv, HubTypeOK, Unsubscribe
    <2>3. balance' \in [Flows -> [Channels -> Nat]]
      <3>1. balance \in [Flows -> [Channels -> Nat]] /\ Uncounted \in [Channels -> Nat]
        BY DEF HubInv, HubTypeOK, Uncounted
      <3>2. CASE balance[f][ch] > 0
        <4>1. balance[f][ch] - 1 \in Nat
          BY <3>1, <3>2
        <4>2. [balance[f] EXCEPT ![ch] = balance[f][ch] - 1] \in [Channels -> Nat]
          BY <3>1, <4>1
        <4>3. balance' = [balance EXCEPT ![f] = [balance[f] EXCEPT ![ch] = balance[f][ch] - 1]]
          BY <3>2 DEF Unsubscribe
        <4> QED
          BY <3>1, <4>2, <4>3
      <3>3. CASE ~(balance[f][ch] > 0)
        BY <3>1, <3>3 DEF Unsubscribe
      <3> QED
        BY <3>2, <3>3
    <2>4. careless' \subseteq Flows
      BY DEF HubInv, HubTypeOK, Unsubscribe
    <2> QED
      BY <2>1, <2>2, <2>3, <2>4 DEF HubInv, HubTypeOK, Unsubscribe
  <1>3. ListsDistinct'
    BY <1>1 DEF HubInv, ListsDistinct, Unsubscribe
  <1>4. SubscribersAttached'
    BY <1>1 DEF HubInv, SubscribersAttached, Unsubscribe
  <1> QED
    BY <1>2, <1>3, <1>4 DEF HubInv

(* A post a reader distributes, and the list it walks.                     *)
LEMMA ReaderType ==
  ASSUME HubTypeOK, NEW p \in Posters
  PROVE  /\ feeding[p] = Idle => feeding[p].post \notin Posts
         /\ feeding[p] # Idle => /\ feeding[p].post \in Posts
                                 /\ feeding[p].next \in Nat \ {0}
  BY NoneIsNoPost DEF HubTypeOK, Idle

LEMMA RecipientsType ==
  ASSUME HubInv, NEW e \in Posts
  PROVE  Recipients(e) \in Seq(Flows) /\ Distinct(Recipients(e))
  BY ChannelOfType DEF HubInv, HubTypeOK, ListsDistinct, Recipients

LEMMA ListsUnchanged ==
  ASSUME HubInv, HubTypeOK', UNCHANGED <<flows, subscriptions>>
  PROVE  HubInv'
  BY DEF HubInv, ListsDistinct, SubscribersAttached

(* A Feed in progress goes on walking the same list.                       *)
LEMMA SameList ==
  ASSUME UNCHANGED <<flows, subscriptions>>, NEW p, feeding'[p] = feeding[p]
  PROVE  List(p)' = List(p) /\ Passed(p)' = Passed(p)
  BY DEF List, Passed, Recipients

LEMMA FeedBeginKeeps ==
  ASSUME HubInv, NEW p \in Posters, NEW e \in Posts, FeedBegin(p, e)
  PROVE  HubInv'
  <1>1. HubTypeOK'
    BY DEF HubInv, HubTypeOK, FeedBegin
  <1> QED
    BY <1>1, ListsUnchanged DEF FeedBegin

LEMMA FeedNextKeeps ==
  ASSUME HubInv, NEW p \in Posters, FeedNext(p)
  PROVE  HubInv'
  <1> DEFINE e == feeding[p].post
             i == feeding[p].next
  <1>1. e \in Posts /\ i \in Nat \ {0}
    BY ReaderType DEF HubInv, FeedNext
  <1>2. i \in 1 .. Len(Recipients(e)) /\ Recipients(e) \in Seq(Flows)
    BY <1>1, RecipientsType DEF FeedNext
  <1>3. Recipients(e)[i] \in Flows
    BY <1>2
  <1>4. inbox' \in [Flows -> Seq(Posts)]
    BY <1>1, <1>3 DEF HubInv, HubTypeOK, FeedNext
  <1>5. feeding' \in [Posters -> {Idle} \cup [post : Posts, next : Nat \ {0}]]
    <2>1. feeding[p] \in [post : Posts, next : Nat \ {0}]
      BY DEF HubInv, HubTypeOK, FeedNext
    <2>2. [feeding[p] EXCEPT !.next = @ + 1] \in [post : Posts, next : Nat \ {0}]
      BY <2>1
    <2> QED
      BY <2>2 DEF HubInv, HubTypeOK, FeedNext
  <1>6. HubTypeOK'
    BY <1>4, <1>5 DEF HubInv, HubTypeOK, FeedNext
  <1> QED
    BY <1>6, ListsUnchanged DEF FeedNext

LEMMA FeedEndKeeps ==
  ASSUME HubInv, NEW p \in Posters, FeedEnd(p)
  PROVE  HubInv'
  <1>1. HubTypeOK'
    BY DEF HubInv, HubTypeOK, FeedEnd
  <1> QED
    BY <1>1, ListsUnchanged DEF FeedEnd

LEMMA HubKeeps == HubInv /\ [HubNext]_hubVars => HubInv'
  <1> SUFFICES ASSUME HubInv, [HubNext]_hubVars PROVE HubInv'
    OBVIOUS
  <1>1. CASE UNCHANGED hubVars
    BY <1>1 DEF hubVars, HubInv, HubTypeOK, ListsDistinct, SubscribersAttached
  <1>2. ASSUME NEW f \in Flows, Attach(f) \/ Detach(f) PROVE HubInv'
    BY <1>2, AttachKeeps, DetachKeeps
  <1>3. ASSUME NEW f \in Flows, NEW ch \in Channels, Subscribe(f, ch) \/ Unsubscribe(f, ch)
        PROVE  HubInv'
    BY <1>3, SubscribeKeeps, UnsubscribeKeeps
  <1>4. ASSUME NEW p \in Posters, NEW e \in Posts, FeedBegin(p, e) PROVE HubInv'
    BY <1>4, FeedBeginKeeps
  <1>5. ASSUME NEW p \in Posters, FeedNext(p) \/ FeedEnd(p) PROVE HubInv'
    BY <1>5, FeedNextKeeps, FeedEndKeeps
  <1> QED
    BY <1>1, <1>2, <1>3, <1>4, <1>5, DetachAllKeeps DEF HubNext

(***************************************************************************)
(* The lists, counters and feeds are always of their type, and only        *)
(* attached flows are subscribed: Detach and DetachAll (Hub.cs) leave no   *)
(* channel that would go on feeding a flow the hub no longer has.          *)
(***************************************************************************)
THEOREM SubscribersAreAttached == HubSpec => [](HubTypeOK /\ SubscribersAttached)
  <1>1. HubInv => HubTypeOK /\ SubscribersAttached
    BY DEF HubInv
  <1> QED
    BY <1>1, HubBegins, HubKeeps, PTL DEF HubSpec

-----------------------------------------------------------------------------
(* To whom a post is delivered.                                            *)
LEMMA FeedBegins == HubInit => FeedInv
  <1> SUFFICES ASSUME HubInit PROVE FeedInv
    OBVIOUS
  <1>1. Readers = {} /\ DOMAIN audience = {}
    BY DEF HubInit, Readers
  <1>2. NotPosted
    BY TimesEmpty DEF HubInit, NotPosted
  <1>3. Walking /\ FedAlone /\ DeliveredExactly
    BY <1>1 DEF Walking, FedAlone, DeliveredExactly
  <1> QED
    BY <1>2, <1>3, HubBegins DEF FeedInv

(* No Feed is in progress while the lists are written.                     *)
LEMMA WritersKeepFeeds ==
  ASSUME FeedInv, WriteLock, UNCHANGED <<feeding, inbox, audience>>
  PROVE  (Walking /\ FedAlone /\ NotPosted /\ DeliveredExactly)'
  <1>1. Readers' = {}
    BY DEF WriteLock, Readers
  <1>2. NotPosted' /\ DeliveredExactly'
    BY DEF FeedInv, NotPosted, DeliveredExactly, Times
  <1>3. Walking' /\ FedAlone'
    BY <1>1 DEF Walking, FedAlone
  <1> QED
    BY <1>2, <1>3

LEMMA FeedBeginFeeds ==
  ASSUME FeedInv, HubInv', NEW p \in Posters, NEW e \in Posts, FeedBegin(p, e)
  PROVE  (Walking /\ FedAlone /\ NotPosted /\ DeliveredExactly)'
  <1>1. UNCHANGED <<flows, subscriptions>> /\ Recipients(e) \in Seq(Flows)
    BY RecipientsType DEF FeedInv, FeedBegin
  <1>2. /\ feeding'[p] = [post |-> e, next |-> 1]
        /\ \A q \in Posters \ {p} : feeding'[q] = feeding[q]
    BY DEF FeedInv, HubInv, HubTypeOK, FeedBegin
  <1>3. /\ DOMAIN audience' = DOMAIN audience \cup {e}
        /\ audience'[e] = ToSet(Recipients(e))
        /\ \A d \in DOMAIN audience : audience'[d] = audience[d]
        /\ e \notin DOMAIN audience
        /\ inbox' = inbox
    BY DEF FeedBegin
  <1>4. ASSUME NEW q \in Readers', q # p
        PROVE  /\ q \in Readers /\ q \in Posters
               /\ feeding'[q] = feeding[q]
               /\ feeding[q].post \in DOMAIN audience /\ feeding[q].post # e
               /\ feeding[q].post \in Posts
    <2>1. q \in Posters \ {p} /\ q \in Readers
      BY <1>2, <1>4 DEF Readers
    <2>2. feeding[q].post \in DOMAIN audience
      BY <2>1 DEF FeedInv, Walking, Walks
    <2> QED
      BY <1>2, <1>3, <2>1, <2>2 DEF FeedInv, HubInv, HubTypeOK
  <1>5. Walking'
    <2>1. Walks(p)'
      <3>1. List(p)' = Recipients(e)
        BY <1>1, <1>2 DEF List, Recipients
      <3>2. Len(Recipients(e)) \in Nat
        BY <1>1
      <3>3. Passed(p)' = {}
        BY <1>2 DEF Passed
      <3>4. \A f \in Flows : Times(inbox[f], e) = 0
        BY <1>3 DEF FeedInv, NotPosted
      <3> QED
        BY <1>2, <1>3, <3>1, <3>2, <3>3, <3>4 DEF Walks
    <2>2. ASSUME NEW q \in Readers', q # p PROVE Walks(q)'
      <3>1. List(q)' = List(q) /\ Passed(q)' = Passed(q)
        BY <1>1, <1>4, <2>2, SameList
      <3>2. Walks(q)
        BY <1>4, <2>2 DEF FeedInv, Walking
      <3> QED
        BY <1>3, <1>4, <2>2, <3>1, <3>2 DEF Walks
    <2> QED
      BY <2>1, <2>2 DEF Walking
  <1>6. FedAlone'
    BY <1>2, <1>4 DEF FeedInv, FedAlone
  <1>7. NotPosted'
    BY <1>3 DEF FeedInv, NotPosted
  <1>8. DeliveredExactly'
    <2> SUFFICES ASSUME NEW d \in DOMAIN audience', NEW f \in Flows,
                        \A q \in Posters : feeding'[q].post # d
                 PROVE  Times(inbox'[f], d) = IF f \in audience'[d] THEN 1 ELSE 0
      BY DEF DeliveredExactly
    <2>1. d # e /\ d \in DOMAIN audience
      BY <1>2, <1>3
    <2>2. d \in Posts /\ feeding[p].post # d
      BY <2>1, NoneIsNoPost DEF FeedInv, HubInv, HubTypeOK, FeedBegin, Idle
    <2>3. \A q \in Posters : feeding[q].post # d
      BY <1>2, <2>2
    <2> QED
      BY <1>3, <2>1, <2>3 DEF FeedInv, DeliveredExactly
  <1> QED
    BY <1>5, <1>6, <1>7, <1>8

LEMMA FeedNextFeeds ==
  ASSUME FeedInv, HubInv', NEW p \in Posters, FeedNext(p)
  PROVE  (Walking /\ FedAlone /\ NotPosted /\ DeliveredExactly)'
  <1> DEFINE e == feeding[p].post
             i == feeding[p].next
             g == List(p)[i]
  <1>1. /\ e \in Posts /\ i \in Nat \ {0} /\ p \in Readers
        /\ i \in 1 .. Len(List(p)) /\ Len(List(p)) \in Nat
        /\ List(p) \in Seq(Flows) /\ Distinct(List(p)) /\ g \in Flows
    <2>1. e \in Posts /\ i \in Nat \ {0} /\ p \in Readers
      BY ReaderType DEF FeedInv, HubInv, FeedNext, Readers
    <2>2. List(p) \in Seq(Flows) /\ Distinct(List(p))
      BY <2>1, RecipientsType DEF FeedInv, List
    <2>3. i \in 1 .. Len(List(p)) /\ Len(List(p)) \in Nat
      BY <2>1, <2>2 DEF FeedNext, List
    <2> QED
      BY <2>1, <2>2, <2>3
  <1>2. UNCHANGED <<flows, subscriptions>>
    BY DEF FeedNext
  <1>3. /\ feeding'[p].post = e /\ feeding'[p].next = i + 1
        /\ \A q \in Posters \ {p} : feeding'[q] = feeding[q]
        /\ audience' = audience
    <2>1. feeding[p] \in [post : Posts, next : Nat \ {0}]
      BY DEF FeedInv, HubInv, HubTypeOK, FeedNext
    <2> QED
      BY <2>1 DEF FeedInv, HubInv, HubTypeOK, FeedNext
  <1>0. List(p)' = List(p)
    BY <1>2, <1>3 DEF List, Recipients
  <1>4. ASSUME NEW f \in Flows, NEW d
        PROVE  Times(inbox'[f], d) =
                 IF f = g /\ d = e THEN Times(inbox[f], d) + 1 ELSE Times(inbox[f], d)
    <2>1. inbox[f] \in Seq(Posts)
      BY DEF FeedInv, HubInv, HubTypeOK
    <2>2. inbox'[f] = IF f = g THEN Append(inbox[f], e) ELSE inbox[f]
      BY <1>1 DEF FeedInv, HubInv, HubTypeOK, FeedNext, List
    <2> QED
      BY <1>1, <2>1, <2>2, TimesAppend
  <1>5. ASSUME NEW q \in Readers', q # p
        PROVE  /\ q \in Readers /\ q \in Posters
               /\ feeding'[q] = feeding[q]
               /\ feeding[q].post \in Posts /\ feeding[q].post # e
    <2>1. q \in Posters \ {p} /\ q \in Readers
      BY <1>3, <1>5 DEF Readers
    <2>2. feeding[q].post # e
      BY <1>1, <1>5, <2>1 DEF FeedInv, FedAlone
    <2>3. feeding[q].post \in Posts
      BY <2>1, ReaderType DEF FeedInv, HubInv, Readers
    <2> QED
      BY <1>3, <2>1, <2>2, <2>3
  <1> HIDE DEF e, i, g
  <1>6. Passed(p)' = Passed(p) \cup {g} /\ g \notin Passed(p)
    <2>1. Passed(p) = {List(p)[k] : k \in 1 .. i - 1}
      BY DEF Passed, i
    <2>2. Passed(p)' = {List(p)[k] : k \in 1 .. i}
      BY <1>0, <1>1, <1>3 DEF Passed
    <2>3. 1 .. i = (1 .. i - 1) \cup {i}
      BY <1>1
    <2>4. ASSUME NEW k \in 1 .. i - 1 PROVE List(p)[k] # g
      <3>1. k \in DOMAIN List(p) /\ i \in DOMAIN List(p) /\ k # i
        BY <1>1
      <3> QED
        BY <1>1, <3>1 DEF Distinct, g
    <2> QED
      BY <2>1, <2>2, <2>3, <2>4 DEF g
  <1>7. Walking'
    <2>1. Walks(p)'
      <3>1. Walks(p)
        BY <1>1 DEF FeedInv, Walking
      <3>2. \A f \in Flows : Times(inbox[f], e) = IF f \in Passed(p) THEN 1 ELSE 0
        BY <3>1 DEF Walks, e
      <3>3. \A f \in Flows : Times(inbox'[f], e) = IF f \in Passed(p)' THEN 1 ELSE 0
        BY <1>4, <1>6, <3>2
      <3>4. e \in DOMAIN audience /\ audience[e] = ToSet(List(p))
        BY <3>1 DEF Walks, e
      <3> QED
        BY <1>0, <1>1, <1>3, <3>3, <3>4 DEF Walks
    <2>2. ASSUME NEW q \in Readers', q # p PROVE Walks(q)'
      <3>1. List(q)' = List(q) /\ Passed(q)' = Passed(q)
        BY <1>2, <1>5, <2>2, SameList
      <3>2. Walks(q)
        BY <1>5, <2>2 DEF FeedInv, Walking
      <3>3. \A f \in Flows : Times(inbox'[f], feeding[q].post) = Times(inbox[f], feeding[q].post)
        BY <1>4, <1>5, <2>2
      <3> QED
        BY <1>3, <1>5, <2>2, <3>1, <3>2, <3>3 DEF Walks
    <2> QED
      BY <2>1, <2>2 DEF Walking
  <1>8. FedAlone'
    BY <1>3, <1>5 DEF FeedInv, FedAlone
  <1>9. e \in DOMAIN audience
    BY <1>1 DEF FeedInv, Walking, Walks, e
  <1>10. NotPosted'
    BY <1>3, <1>4, <1>9 DEF FeedInv, NotPosted
  <1>11. DeliveredExactly'
    <2> SUFFICES ASSUME NEW d \in DOMAIN audience, NEW f \in Flows,
                        \A q \in Posters : feeding'[q].post # d
                 PROVE  Times(inbox'[f], d) = IF f \in audience[d] THEN 1 ELSE 0
      BY <1>3 DEF DeliveredExactly
    <2>1. d # e
      BY <1>3
    <2>2. \A q \in Posters : feeding[q].post # d
      BY <1>3, <2>1 DEF e
    <2> QED
      BY <1>4, <2>1, <2>2 DEF FeedInv, DeliveredExactly
  <1> QED
    BY <1>7, <1>8, <1>10, <1>11

LEMMA FeedEndFeeds ==
  ASSUME FeedInv, HubInv', NEW p \in Posters, FeedEnd(p)
  PROVE  (Walking /\ FedAlone /\ NotPosted /\ DeliveredExactly)'
  <1> DEFINE e == feeding[p].post
             i == feeding[p].next
  <1>1. /\ e \in Posts /\ i \in Nat \ {0} /\ p \in Readers
        /\ List(p) \in Seq(Flows) /\ Len(List(p)) \in Nat
        /\ i > Len(List(p))
    <2>1. e \in Posts /\ i \in Nat \ {0} /\ p \in Readers
      BY ReaderType DEF FeedInv, HubInv, FeedEnd, Readers
    <2> QED
      BY <2>1, RecipientsType DEF FeedInv, FeedEnd, List
  <1>2. UNCHANGED <<flows, subscriptions>>
    BY DEF FeedEnd
  <1>3. /\ feeding'[p] = Idle
        /\ \A q \in Posters \ {p} : feeding'[q] = feeding[q]
        /\ audience' = audience /\ inbox' = inbox
    BY DEF FeedInv, HubInv, HubTypeOK, FeedEnd
  <1>4. ASSUME NEW q \in Readers'
        PROVE  /\ q \in Readers /\ q \in Posters
               /\ feeding'[q] = feeding[q] /\ feeding[q].post \in Posts
    <2>1. q \in Posters \ {p} /\ q \in Readers
      BY <1>3 DEF Readers
    <2> QED
      BY <1>3, <2>1, ReaderType DEF FeedInv, HubInv, Readers
  <1>5. Walking'
    <2> SUFFICES ASSUME NEW q \in Readers' PROVE Walks(q)'
      BY DEF Walking
    <2>1. List(q)' = List(q) /\ Passed(q)' = Passed(q)
      BY <1>2, <1>4, SameList
    <2>2. Walks(q)
      BY <1>4 DEF FeedInv, Walking
    <2> QED
      BY <1>3, <1>4, <2>1, <2>2 DEF Walks
  <1>6. FedAlone'
    BY <1>4 DEF FeedInv, FedAlone
  <1>7. NotPosted'
    BY <1>3 DEF FeedInv, NotPosted
  <1>8. DeliveredExactly'
    <2> SUFFICES ASSUME NEW d \in DOMAIN audience, NEW f \in Flows,
                        \A q \in Posters : feeding'[q].post # d
                 PROVE  Times(inbox[f], d) = IF f \in audience[d] THEN 1 ELSE 0
      BY <1>3 DEF DeliveredExactly
    <2>1. CASE d # e
      <3>1. \A q \in Posters : feeding[q].post # d
        BY <1>3, <2>1
      <3> QED
        BY <3>1 DEF FeedInv, DeliveredExactly
    <2>2. CASE d = e
      <3>1. /\ audience[e] = ToSet(List(p)) /\ i =< Len(List(p)) + 1
            /\ Times(inbox[f], e) = IF f \in Passed(p) THEN 1 ELSE 0
        BY <1>1 DEF FeedInv, Walking, Walks
      <3>2. i - 1 = Len(List(p))
        BY <1>1, <3>1
      <3>3. Passed(p) = ToSet(List(p))
        BY <1>1, <3>2 DEF Passed, ToSet
      <3> QED
        BY <2>2, <3>1, <3>3
    <2> QED
      BY <2>1, <2>2
  <1> QED
    BY <1>5, <1>6, <1>7, <1>8

LEMMA FeedKeeps == FeedInv /\ [HubNext]_hubVars => FeedInv'
  <1> SUFFICES ASSUME FeedInv, [HubNext]_hubVars
               PROVE  (Walking /\ FedAlone /\ NotPosted /\ DeliveredExactly)'
    BY HubKeeps DEF FeedInv
  <1>0. HubInv'
    BY HubKeeps DEF FeedInv
  <1>1. CASE UNCHANGED hubVars
    BY <1>1 DEF hubVars, FeedInv, Walking, Walks, FedAlone, NotPosted,
                DeliveredExactly, Readers, Recipients, List, Passed
  <1>2. ASSUME NEW f \in Flows, Attach(f) \/ Detach(f)
        PROVE  (Walking /\ FedAlone /\ NotPosted /\ DeliveredExactly)'
    BY <1>2, WritersKeepFeeds DEF Attach, Detach
  <1>3. CASE DetachAll
    BY <1>3, WritersKeepFeeds DEF DetachAll
  <1>4. ASSUME NEW f \in Flows, NEW ch \in Channels, Subscribe(f, ch) \/ Unsubscribe(f, ch)
        PROVE  (Walking /\ FedAlone /\ NotPosted /\ DeliveredExactly)'
    BY <1>4, WritersKeepFeeds DEF Subscribe, Unsubscribe
  <1>5. ASSUME NEW p \in Posters, NEW e \in Posts, FeedBegin(p, e)
        PROVE  (Walking /\ FedAlone /\ NotPosted /\ DeliveredExactly)'
    BY <1>0, <1>5, FeedBeginFeeds
  <1>6. ASSUME NEW p \in Posters, FeedNext(p) \/ FeedEnd(p)
        PROVE  (Walking /\ FedAlone /\ NotPosted /\ DeliveredExactly)'
    BY <1>0, <1>6, FeedNextFeeds, FeedEndFeeds
  <1> QED
    BY <1>1, <1>2, <1>3, <1>4, <1>5, <1>6 DEF HubNext

(***************************************************************************)
(* Hub.Post delivers an event to every flow it was meant for exactly once, *)
(* and to no other, however many posts are fed at the same time and        *)
(* whatever Attach, Detach, Subscribe and Unsubscribe do between them: the *)
(* lists a Feed walks by reference stay as they are under its read lock.   *)
(***************************************************************************)
THEOREM PostsDeliveredExactly == HubSpec => []DeliveredExactly
  <1>1. FeedInv => DeliveredExactly
    BY DEF FeedInv
  <1> QED
    BY <1>1, FeedBegins, FeedKeeps, PTL DEF HubSpec

-----------------------------------------------------------------------------
(* How long a subscription is kept.                                        *)
LEMMA NoClaims ==
  ASSUME NEW b, \A c \in Channels : b[c] = 0
  PROVE  Claims(b) = {} /\ IsFiniteSet(Claims(b)) /\ Cardinality(Claims(b)) = 0
  <1>1. Claims(b) = {}
    BY DEF Claims
  <1> QED
    BY <1>1, FS_EmptySet

LEMMA OneMoreClaim ==
  ASSUME NEW b \in [Channels -> Nat], NEW ch \in Channels, IsFiniteSet(Claims(b)),
         NEW d, d = [b EXCEPT ![ch] = b[ch] + 1]
  PROVE  IsFiniteSet(Claims(d)) /\ Cardinality(Claims(d)) = Cardinality(Claims(b)) + 1
  <1> DEFINE x == <<ch, b[ch] + 1>>
  <1>1. Claims(d) = Claims(b) \cup {x}
    <2>1. ASSUME NEW c \in Channels \X (Nat \ {0})
          PROVE  c[2] =< d[c[1]] <=> c[2] =< b[c[1]] \/ c = x
      <3>1. PICK k \in Channels, n \in Nat \ {0} : c = <<k, n>>
        OBVIOUS
      <3>2. d[k] = IF k = ch THEN b[ch] + 1 ELSE b[k]
        OBVIOUS
      <3>3. n =< d[k] <=> n =< b[k] \/ (k = ch /\ n = b[ch] + 1)
        BY <3>1, <3>2
      <3> QED
        BY <3>1, <3>3
    <2>2. x \in Channels \X (Nat \ {0})
      OBVIOUS
    <2> QED
      BY <2>1, <2>2 DEF Claims
  <1>2. x \notin Claims(b)
    BY DEF Claims
  <1> HIDE DEF x
  <1>3. /\ IsFiniteSet(Claims(b) \cup {x})
        /\ Cardinality(Claims(b) \cup {x}) = Cardinality(Claims(b)) + 1
    BY <1>2, FS_AddElement
  <1> QED
    BY <1>1, <1>3

LEMMA OneClaimLess ==
  ASSUME NEW b \in [Channels -> Nat], NEW ch \in Channels, IsFiniteSet(Claims(b)),
         b[ch] > 0, NEW d, d = [b EXCEPT ![ch] = b[ch] - 1]
  PROVE  IsFiniteSet(Claims(d)) /\ Cardinality(Claims(d)) = Cardinality(Claims(b)) - 1
  <1> DEFINE x == <<ch, b[ch]>>
  <1>1. Claims(d) = Claims(b) \ {x}
    <2>1. ASSUME NEW c \in Channels \X (Nat \ {0})
          PROVE  c[2] =< d[c[1]] <=> c[2] =< b[c[1]] /\ c # x
      <3>1. PICK k \in Channels, n \in Nat \ {0} : c = <<k, n>>
        OBVIOUS
      <3>2. d[k] = IF k = ch THEN b[ch] - 1 ELSE b[k]
        OBVIOUS
      <3>3. n =< d[k] <=> n =< b[k] /\ ~(k = ch /\ n = b[ch])
        BY <3>1, <3>2
      <3> QED
        BY <3>1, <3>3
    <2> QED
      BY <2>1 DEF Claims
  <1>2. x \in Claims(b)
    BY DEF Claims
  <1> HIDE DEF x
  <1>3. IsFiniteSet(Claims(b) \ {x}) /\ Cardinality(Claims(b) \ {x}) = Cardinality(Claims(b)) - 1
    BY <1>2, FS_RemoveElement
  <1> QED
    BY <1>1, <1>3

(* A flow of which no reference is left has no claim on any channel.       *)
LEMMA ClaimsFillChannel ==
  ASSUME NEW b \in [Channels -> Nat], IsFiniteSet(Claims(b)),
         Cardinality(Claims(b)) =< 0, NEW c \in Channels
  PROVE  b[c] = 0
  <1>1. Claims(b) = {}
    BY FS_CardinalityType, FS_EmptySet
  <1>2. CASE b[c] > 0
    <2>1. <<c, b[c]>> \in Claims(b)
      BY <1>2 DEF Claims
    <2> QED
      BY <1>1, <2>1
  <1> QED
    BY <1>2

LEMMA KeepBegins == HubInit => KeepInv
  <1> SUFFICES ASSUME HubInit PROVE KeepInv
    OBVIOUS
  <1>1. \A f \in Flows : refs[f] = 0 /\ \A c \in Channels : balance[f][c] = 0
    BY DEF HubInit, Uncounted
  <1>2. Referenced
    BY <1>1, NoClaims DEF Referenced
  <1>3. SubscriptionKept
    BY <1>1 DEF SubscriptionKept
  <1> QED
    BY <1>2, <1>3, HubBegins DEF KeepInv

LEMMA CountsUnchanged ==
  ASSUME KeepInv, UNCHANGED <<subscriptions, refs, balance, careless>>
  PROVE  (Referenced /\ SubscriptionKept)'
  BY DEF KeepInv, Referenced, SubscriptionKept

LEMMA DetachCounts ==
  ASSUME KeepInv, NEW f \in Flows, Detach(f)
  PROVE  (Referenced /\ SubscriptionKept)'
  <1>1. /\ \A c \in Channels : balance'[f][c] = 0
        /\ \A g \in Flows \ {f} : balance'[g] = balance[g] /\ refs'[g] = refs[g]
        /\ refs'[f] = 0 \/ refs'[f] = refs[f]
        /\ careless' = careless
    BY DEF KeepInv, HubInv, HubTypeOK, Detach, Uncounted
  <1>2. Referenced'
    <2> SUFFICES ASSUME NEW g \in Flows \ careless
                 PROVE  /\ IsFiniteSet(Claims(balance'[g]))
                        /\ refs'[g] >= Cardinality(Claims(balance'[g]))
      BY <1>1 DEF Referenced
    <2>1. CASE g = f
      <3>1. refs[f] >= 0
        BY <2>1, FS_CardinalityType DEF KeepInv, Referenced, HubInv, HubTypeOK
      <3> QED
        BY <1>1, <2>1, <3>1, NoClaims
    <2>2. CASE g # f
      BY <1>1, <2>2 DEF KeepInv, Referenced
    <2> QED
      BY <2>1, <2>2
  <1>3. SubscriptionKept'
    <2> SUFFICES ASSUME NEW g \in Flows \ careless, NEW ch \in Channels, balance'[g][ch] > 0
                 PROVE  g \in ToSet(subscriptions'[ch])
      BY <1>1 DEF SubscriptionKept
    <2>1. g # f /\ g \in ToSet(subscriptions[ch])
      BY <1>1 DEF KeepInv, SubscriptionKept
    <2>2. subscriptions[ch] \in Seq(Flows) /\ Distinct(subscriptions[ch])
      BY DEF KeepInv, HubInv, HubTypeOK, ListsDistinct
    <2>3. subscriptions'[ch] = RemoveFirst(subscriptions[ch], f)
      BY DEF Detach
    <2> QED
      BY <2>1, <2>2, <2>3, RemoveList
  <1> QED
    BY <1>2, <1>3

LEMMA DetachAllCounts ==
  ASSUME KeepInv, DetachAll
  PROVE  (Referenced /\ SubscriptionKept)'
  <1>1. /\ \A f \in Flows : \A c \in Channels : balance'[f][c] = 0
        /\ refs' = refs /\ careless' = careless
    BY DEF DetachAll, Uncounted
  <1>2. \A f \in Flows \ careless : refs[f] >= 0
    BY FS_CardinalityType DEF KeepInv, Referenced, HubInv, HubTypeOK
  <1>3. Referenced'
    BY <1>1, <1>2, NoClaims DEF Referenced
  <1>4. SubscriptionKept'
    BY <1>1 DEF SubscriptionKept
  <1> QED
    BY <1>3, <1>4

LEMMA SubscribeCounts ==
  ASSUME KeepInv, NEW f \in Flows, NEW ch \in Channels, Subscribe(f, ch)
  PROVE  (Referenced /\ SubscriptionKept)'
  <1>1. /\ \A g \in Flows \ {f} : balance'[g] = balance[g] /\ refs'[g] = refs[g]
        /\ refs'[f] = refs[f] + 1 /\ refs[f] \in Int
        /\ f \notin careless => balance'[f] = [balance[f] EXCEPT ![ch] = balance[f][ch] + 1]
        /\ balance \in [Flows -> [Channels -> Nat]]
        /\ careless' = careless
    BY DEF KeepInv, HubInv, HubTypeOK, Subscribe
  <1>2. Referenced'
    <2> SUFFICES ASSUME NEW g \in Flows \ careless
                 PROVE  /\ IsFiniteSet(Claims(balance'[g]))
                        /\ refs'[g] >= Cardinality(Claims(balance'[g]))
      BY <1>1 DEF Referenced
    <2>0. IsFiniteSet(Claims(balance[g])) /\ refs[g] >= Cardinality(Claims(balance[g]))
      BY DEF KeepInv, Referenced
    <2>1. CASE g = f
      <3>1. /\ IsFiniteSet(Claims(balance'[f]))
            /\ Cardinality(Claims(balance'[f])) = Cardinality(Claims(balance[f])) + 1
        BY <1>1, <2>0, <2>1, OneMoreClaim
      <3>2. Cardinality(Claims(balance[f])) \in Nat
        BY <2>0, <2>1, FS_CardinalityType
      <3> QED
        BY <1>1, <2>0, <2>1, <3>1, <3>2
    <2>2. CASE g # f
      BY <1>1, <2>0, <2>2
    <2> QED
      BY <2>1, <2>2
  <1>3. SubscriptionKept'
    <2> SUFFICES ASSUME NEW g \in Flows \ careless, NEW c \in Channels, balance'[g][c] > 0
                 PROVE  g \in ToSet(subscriptions'[c])
      BY <1>1 DEF SubscriptionKept
    <2>1. subscriptions[c] \in Seq(Flows) /\ Distinct(subscriptions[c])
      BY DEF KeepInv, HubInv, HubTypeOK, ListsDistinct
    <2>2. subscriptions'[c] = IF c = ch THEN AddSubscriber(subscriptions[c], f) ELSE subscriptions[c]
      BY DEF KeepInv, HubInv, HubTypeOK, Subscribe
    <2>3. ToSet(subscriptions[c]) \subseteq ToSet(subscriptions'[c])
          /\ (c = ch => f \in ToSet(subscriptions'[c]))
      <3>1. ToSet(AddSubscriber(subscriptions[c], f)) = ToSet(subscriptions[c]) \cup {f}
        BY <2>1, AddList
      <3> QED
        BY <2>2, <3>1
    <2>4. CASE g = f /\ c = ch
      BY <2>3, <2>4
    <2>5. CASE ~(g = f /\ c = ch)
      <3>1. balance[g][c] > 0
        BY <1>1, <2>5
      <3> QED
        BY <2>3, <3>1 DEF KeepInv, SubscriptionKept
    <2> QED
      BY <2>4, <2>5
  <1> QED
    BY <1>2, <1>3

LEMMA UnsubscribeCounts ==
  ASSUME KeepInv, NEW f \in Flows, NEW ch \in Channels, Unsubscribe(f, ch)
  PROVE  (Referenced /\ SubscriptionKept)'
  <1>1. /\ \A g \in Flows \ {f} : balance'[g] = balance[g] /\ refs'[g] = refs[g]
        /\ refs \in [Flows -> Int] /\ balance \in [Flows -> [Channels -> Nat]]
        /\ careless \subseteq careless'
    BY DEF KeepInv, HubInv, HubTypeOK, Unsubscribe
  (* A flow that is not careless has a claim on the channel.               *)
  <1>2. ASSUME f \notin careless'
        PROVE  /\ f \in Flows \ careless /\ balance[f][ch] > 0
               /\ balance'[f] = [balance[f] EXCEPT ![ch] = balance[f][ch] - 1]
               /\ f \in ToSet(subscriptions[ch]) /\ refs'[f] = refs[f] - 1
               /\ subscriptions' = IF LastRef(f)
                    THEN [subscriptions EXCEPT ![ch] = RemoveFirst(subscriptions[ch], f)]
                    ELSE subscriptions
    <2>1. f \in Flows \ careless /\ balance[f][ch] > 0
      BY <1>1, <1>2 DEF Unsubscribe
    <2>2. f \in ToSet(subscriptions[ch])
      BY <2>1 DEF KeepInv, SubscriptionKept
    <2>3. Contains(subscriptions[ch], f)
      BY <2>2, AppendList DEF KeepInv, HubInv, HubTypeOK
    <2>4. balance'[f] = [balance[f] EXCEPT ![ch] = balance[f][ch] - 1]
      BY <1>1, <2>1 DEF Unsubscribe
    <2>5. refs'[f] = refs[f] - 1
      BY <1>1, <2>3 DEF Unsubscribe
    <2> QED
      BY <2>1, <2>2, <2>3, <2>4, <2>5 DEF Unsubscribe
  <1>3. Referenced'
    <2> SUFFICES ASSUME NEW g \in Flows \ careless'
                 PROVE  /\ IsFiniteSet(Claims(balance'[g]))
                        /\ refs'[g] >= Cardinality(Claims(balance'[g]))
      BY DEF Referenced
    <2>0. IsFiniteSet(Claims(balance[g])) /\ refs[g] >= Cardinality(Claims(balance[g]))
      BY <1>1 DEF KeepInv, Referenced
    <2>1. CASE g = f
      <3>1. /\ IsFiniteSet(Claims(balance'[f]))
            /\ Cardinality(Claims(balance'[f])) = Cardinality(Claims(balance[f])) - 1
        BY <1>1, <1>2, <2>0, <2>1, OneClaimLess
      <3>2. Cardinality(Claims(balance[f])) \in Nat
        BY <2>0, <2>1, FS_CardinalityType
      <3>3. refs[f] \in Int /\ refs'[f] = refs[f] - 1
        BY <1>1, <1>2, <2>1
      <3> QED
        BY <2>0, <2>1, <3>1, <3>2, <3>3
    <2>2. CASE g # f
      BY <1>1, <2>0, <2>2
    <2> QED
      BY <2>1, <2>2
  <1>4. SubscriptionKept'
    <2> SUFFICES ASSUME NEW g \in Flows \ careless', NEW c \in Channels, balance'[g][c] > 0
                 PROVE  g \in ToSet(subscriptions'[c])
      BY DEF SubscriptionKept
    <2>1. subscriptions[c] \in Seq(Flows) /\ Distinct(subscriptions[c])
      BY DEF KeepInv, HubInv, HubTypeOK, ListsDistinct
    <2>2. subscriptions'[c] \in {subscriptions[c], RemoveFirst(subscriptions[c], f)}
      BY DEF KeepInv, HubInv, HubTypeOK, Unsubscribe
    <2>3. CASE g # f
      <3>1. g \in ToSet(subscriptions[c])
        BY <1>1, <2>3 DEF KeepInv, SubscriptionKept
      <3> QED
        BY <2>1, <2>2, <2>3, <3>1, RemoveList
    <2>4. CASE g = f
      <3>1. g \in ToSet(subscriptions[c])
        <4>1. /\ balance[f] \in [Channels -> Nat] /\ balance[f][ch] > 0
              /\ balance'[f] = [balance[f] EXCEPT ![ch] = balance[f][ch] - 1]
          BY <1>1, <1>2, <2>4
        <4>2. balance[f][c] > 0
          <5>1. CASE c = ch
            BY <4>1, <5>1
          <5>2. CASE c # ch
            <6>1. balance'[f][c] = balance[f][c]
              BY <4>1, <5>2
            <6> QED
              BY <2>4, <6>1
          <5> QED
            BY <5>1, <5>2
        <4>3. g \in Flows \ careless
          BY <1>2, <2>4
        <4> QED
          BY <2>4, <4>2, <4>3 DEF KeepInv, SubscriptionKept
      <3>2. ~LastRef(f)
        <4> SUFFICES ASSUME LastRef(f) PROVE FALSE
          OBVIOUS
        <4>1. /\ IsFiniteSet(Claims(balance'[f])) /\ Cardinality(Claims(balance'[f])) =< 0
          BY <1>2, <1>3, <2>4, FS_CardinalityType DEF Referenced, LastRef
        <4>2. balance'[f] \in [Channels -> Nat]
          <5>1. balance[f] \in [Channels -> Nat]
            BY <1>1
          <5>2. balance'[f] = [balance[f] EXCEPT ![ch] = balance[f][ch] - 1] /\ balance[f][ch] > 0
            BY <1>2, <2>4
          <5>3. balance[f][ch] - 1 \in Nat
            BY <5>1, <5>2
          <5> QED
            BY <5>1, <5>2, <5>3
        <4> QED
          BY <2>4, <4>1, <4>2, ClaimsFillChannel
      <3>3. subscriptions' = subscriptions
        BY <1>2, <2>4, <3>2
      <3> QED
        BY <3>1, <3>3
    <2> QED
      BY <2>3, <2>4
  <1> QED
    BY <1>3, <1>4

LEMMA KeepKeeps == KeepInv /\ [HubNext]_hubVars => KeepInv'
  <1> SUFFICES ASSUME KeepInv, [HubNext]_hubVars PROVE (Referenced /\ SubscriptionKept)'
    BY HubKeeps DEF KeepInv
  <1>1. CASE UNCHANGED hubVars
    BY <1>1, CountsUnchanged DEF hubVars
  <1>2. ASSUME NEW f \in Flows, Attach(f) \/ Detach(f)
        PROVE  (Referenced /\ SubscriptionKept)'
    BY <1>2, CountsUnchanged, DetachCounts DEF Attach
  <1>3. CASE DetachAll
    BY <1>3, DetachAllCounts
  <1>4. ASSUME NEW f \in Flows, NEW ch \in Channels, Subscribe(f, ch) \/ Unsubscribe(f, ch)
        PROVE  (Referenced /\ SubscriptionKept)'
    BY <1>4, SubscribeCounts, UnsubscribeCounts
  <1>5. ASSUME NEW p \in Posters, NEW e \in Posts, FeedBegin(p, e)
        PROVE  (Referenced /\ SubscriptionKept)'
    BY <1>5, CountsUnchanged DEF FeedBegin
  <1>6. ASSUME NEW p \in Posters, FeedNext(p) \/ FeedEnd(p)
        PROVE  (Referenced /\ SubscriptionKept)'
    BY <1>6, CountsUnchanged DEF FeedNext, FeedEnd
  <1> QED
    BY <1>1, <1>2, <1>3, <1>4, <1>5, <1>6 DEF HubNext

(***************************************************************************)
(* A flow that unsubscribes no more often than it subscribes keeps every   *)
(* channel it still uses, although Flow.channelRefCount counts its         *)
(* subscriptions over all channels together: the count is never behind     *)
(* the subscriptions in use.                                               *)
(***************************************************************************)
THEOREM SubscriptionsAreKept == HubSpec => []SubscriptionKept
  <1>1. KeepInv => SubscriptionKept
    BY DEF KeepInv
  <1> QED
    BY <1>1, KeepBegins, KeepKeeps, PTL DEF HubSpec

-----------------------------------------------------------------------------
(* The reception: what a session cuts out of the stream is what was sent.  *)
(* The argument goes from numbers to blocks, from blocks to the bytes at   *)
(* absolute positions, from those to headers and frames, and from there to *)
(* an invariant that says which event is being received and where its frame*)
(* lies in the buffer.                                                     *)

(* Division by the size of a block.                                        *)
LEMMA Multiple ==
  ASSUME NEW m \in Int, NEW n \in Int, m < n
  PROVE  BlockSize * m + BlockSize =< BlockSize * n
<1>1. PICK d \in Nat : n = m + 1 + d
  <2>1. n - m - 1 \in Nat
    OBVIOUS
  <2>2. n = m + 1 + (n - m - 1)
    OBVIOUS
  <2> QED  BY <2>1, <2>2
<1>2. BlockSize * n = BlockSize * m + BlockSize + BlockSize * d
  BY <1>1, BlockSizePositive
<1>3. BlockSize * d >= 0
  BY <1>1, BlockSizePositive
<1> QED  BY <1>2, <1>3, BlockSizePositive

(* Whole numbers of blocks add up.                                         *)
LEMMA Distribute ==
  ASSUME NEW m \in Int, NEW n \in Int
  PROVE  /\ BlockSize * (m + n) = BlockSize * m + BlockSize * n
         /\ BlockSize * (m - n) = BlockSize * m - BlockSize * n
BY BlockSizePositive

(* A position is a number of blocks and a rest less than one.              *)
LEMMA Division ==
  ASSUME NEW a \in Int
  PROVE  /\ a \div BlockSize \in Int
         /\ a % BlockSize \in 0 .. BlockSize - 1
         /\ a = BlockSize * (a \div BlockSize) + (a % BlockSize)
BY BlockSizePositive

(* There is one such number, and one such rest.                            *)
LEMMA Quotient ==
  ASSUME NEW a \in Int, NEW q \in Int, NEW r \in 0 .. BlockSize - 1,
         a = BlockSize * q + r
  PROVE  a \div BlockSize = q /\ a % BlockSize = r
<1> DEFINE p == a \div BlockSize
<1>1. /\ p \in Int /\ a % BlockSize \in 0 .. BlockSize - 1
      /\ a = BlockSize * p + (a % BlockSize)
  BY Division
<1> HIDE DEF p
<1>2. ~(p < q)
  <2> SUFFICES ASSUME p < q PROVE FALSE
    OBVIOUS
  <2>1. BlockSize * p + BlockSize =< BlockSize * q
    BY Multiple, <1>1
  <2>2. BlockSize * p \in Int /\ BlockSize * q \in Int
    BY <1>1, BlockSizePositive
  <2> QED  BY <2>1, <2>2, <1>1, BlockSizePositive
<1>3. ~(q < p)
  <2> SUFFICES ASSUME q < p PROVE FALSE
    OBVIOUS
  <2>1. BlockSize * q + BlockSize =< BlockSize * p
    BY Multiple, <1>1
  <2>2. BlockSize * p \in Int /\ BlockSize * q \in Int
    BY <1>1, BlockSizePositive
  <2> QED  BY <2>1, <2>2, <1>1, BlockSizePositive
<1>4. p = q
  BY <1>1, <1>2, <1>3
<1>5. BlockSize * p \in Int
    BY <1>1, BlockSizePositive
<1>6. a % BlockSize = r
  BY <1>1, <1>4, <1>5, BlockSizePositive
<1> QED  BY <1>4, <1>6 DEF p

(* A power of two is a number: of the subsets of a set.                    *)
LEMMA Power ==
  ASSUME NEW n \in Nat
  PROVE  2 ^ n \in Nat
<1>1. IsFiniteSet(1 .. n) /\ Cardinality(1 .. n) = n
  BY FS_Interval
<1>2. IsFiniteSet(SUBSET (1 .. n)) /\ Cardinality(SUBSET (1 .. n)) = 2 ^ n
  BY <1>1, FS_SUBSET
<1> QED  BY <1>2, FS_CardinalityType

(* A higher room level asks for no less room.                              *)
LEMMA PowerMonotone ==
  ASSUME NEW m \in Nat, NEW n \in Nat, m =< n
  PROVE  2 ^ m =< 2 ^ n
<1>1. IsFiniteSet(1 .. m) /\ Cardinality(1 .. m) = m
  BY FS_Interval
<1>2. IsFiniteSet(1 .. n) /\ Cardinality(1 .. n) = n
  BY FS_Interval
<1>3. /\ IsFiniteSet(SUBSET (1 .. n)) /\ Cardinality(SUBSET (1 .. n)) = 2 ^ n
      /\ IsFiniteSet(SUBSET (1 .. m)) /\ Cardinality(SUBSET (1 .. m)) = 2 ^ m
  BY <1>1, <1>2, FS_SUBSET
<1>4. SUBSET (1 .. m) \subseteq SUBSET (1 .. n)
  OBVIOUS
<1> QED  BY <1>3, <1>4, FS_Subset

-----------------------------------------------------------------------------
(* The buffer.                                                             *)

(* The byte at an absolute position.                                       *)
Byte(b, p) == b.blocks[p \div BlockSize + 1][p % BlockSize]

(* The positions are in order, and the block bytes are read from is the one*)
(* the position says.                                                      *)
Placed(b) ==
  /\ b \in Buffers
  /\ b.front =< b.position /\ b.position =< b.back
  /\ b.marker =< b.back
  /\ b.current = Boundaries(b.position)

Roomy(b) == b.blocks # <<>> => b.back =< Capacity(b)

(* Blocks take a number of bytes.                                          *)
LEMMA Products ==
  ASSUME NEW n \in Int
  PROVE  BlockSize * n \in Int /\ (n >= 0 => BlockSize * n \in Nat)
BY BlockSizePositive

(* Positions below n blocks lie in one of them.                            *)
LEMMA InBlocks ==
  ASSUME NEW p \in Nat, NEW n \in Int, p < BlockSize * n
  PROVE  p \div BlockSize \in Nat /\ p \div BlockSize < n
<1> DEFINE q == p \div BlockSize
<1>1. /\ q \in Int /\ p % BlockSize \in 0 .. BlockSize - 1
      /\ p = BlockSize * q + (p % BlockSize)
  BY Division
<1> HIDE DEF q
<1>2. BlockSize * q \in Int /\ BlockSize * n \in Int
  BY <1>1, Products
<1>3. ~(q < 0)
  <2> SUFFICES ASSUME q < 0 PROVE FALSE
    OBVIOUS
  <2>1. BlockSize * q + BlockSize =< BlockSize * 0
    BY Multiple, <1>1
  <2>2. BlockSize * 0 = 0
    BY BlockSizePositive
  <2> QED  BY <2>1, <2>2, <1>1, <1>2, BlockSizePositive
<1>4. ~(n =< q)
  <2> SUFFICES ASSUME n =< q PROVE FALSE
    OBVIOUS
  <2>1. BlockSize * n + BlockSize =< BlockSize * q \/ n = q
    BY Multiple, <1>1
  <2> QED  BY <2>1, <1>1, <1>2, BlockSizePositive
<1>5. q \in Nat /\ q < n
  BY <1>1, <1>3, <1>4
<1> QED  BY <1>5 DEF q

(* The number of boundaries below a position is one.                       *)
LEMMA BoundariesType ==
  ASSUME NEW p \in Nat
  PROVE  Boundaries(p) \in Nat
<1>1. CASE p = 0
  BY <1>1 DEF Boundaries
<1>2. CASE p # 0
  <2>1. (p - 1) \div BlockSize \in Int /\ p - 1 \in Nat
    BY <1>2, Division
  <2> DEFINE q == (p - 1) \div BlockSize
  <2>2. p - 1 < BlockSize * (q + 1)
    <3>1. /\ (p - 1) % BlockSize \in 0 .. BlockSize - 1
          /\ p - 1 = BlockSize * q + ((p - 1) % BlockSize)
      BY Division, <2>1
    <3>2. q \in Int
      BY <2>1
    <3> HIDE DEF q
    <3>3. BlockSize * (q + 1) = BlockSize * q + BlockSize
      BY <3>2, BlockSizePositive
    <3>4. BlockSize * q \in Int
      BY <3>2, Products
    <3> QED  BY <3>1, <3>3, <3>4, <2>1, BlockSizePositive
  <2>3. q \in Nat
    BY <2>1, <2>2, InBlocks
  <2> QED  BY <1>2, <2>3 DEF Boundaries
<1> QED  BY <1>1, <1>2

(* The block SetPosition makes current.                                    *)
LEMMA SetPositionBlock ==
  ASSUME NEW b, NEW p \in Nat
  PROVE  SetPosition(b, p) = [b EXCEPT !.position = p, !.current = Boundaries(p)]
<1> DEFINE q == p \div BlockSize
           r == p % BlockSize
           index == IF q # 0 /\ r = 0 THEN q - 1 ELSE q
<1>1. q \in Int /\ r \in 0 .. BlockSize - 1 /\ p = BlockSize * q + r
  BY Division
<1>2. index = Boundaries(p)
  <2> HIDE DEF q, r
  <2>0. BlockSize * q \in Int
    BY <1>1, Products
  <2>1. CASE p = 0
    <3>1. 0 = BlockSize * 0 + 0 /\ 0 \in 0 .. BlockSize - 1
      BY BlockSizePositive
    <3>2. q = 0
      BY <2>1, <3>1, Quotient DEF q
    <3> QED  BY <2>1, <3>2 DEF Boundaries
  <2>2. CASE p # 0 /\ r = 0
    <3>1. p - 1 = BlockSize * (q - 1) + (BlockSize - 1)
      BY <1>1, <2>2, <2>0, BlockSizePositive
    <3>2. (p - 1) \div BlockSize = q - 1
      BY <3>1, <1>1, Quotient, BlockSizePositive
    <3>3. q # 0
      <4> SUFFICES ASSUME q = 0 PROVE FALSE
        OBVIOUS
      <4>1. BlockSize * 0 = 0
        BY BlockSizePositive
      <4> QED  BY <4>1, <1>1, <2>2
    <3> QED  BY <2>2, <3>2, <3>3 DEF Boundaries
  <2>3. CASE p # 0 /\ r # 0
    <3>1. p - 1 = BlockSize * q + (r - 1) /\ r - 1 \in 0 .. BlockSize - 1
      BY <1>1, <2>3, <2>0, BlockSizePositive
    <3>2. (p - 1) \div BlockSize = q
      BY <3>1, <1>1, Quotient, BlockSizePositive
    <3> QED  BY <2>3, <3>2 DEF Boundaries
  <2> QED  BY <2>1, <2>2, <2>3
<1> QED  BY <1>2 DEF SetPosition

(* The position may move anywhere between front and back.                  *)
LEMMA MovePlaced ==
  ASSUME NEW b, Placed(b), NEW p \in Nat, b.front =< p, p =< b.back
  PROVE  Placed([b EXCEPT !.position = p, !.current = Boundaries(p)])
<1> DEFINE c == [b EXCEPT !.position = p, !.current = Boundaries(p)]
<1>1. Boundaries(p) \in Nat
  BY BoundariesType
<1>2. c \in Buffers
  BY <1>1 DEF Placed, Buffers
<1>3. /\ c.front = b.front /\ c.back = b.back /\ c.marker = b.marker
      /\ c.position = p /\ c.current = Boundaries(p)
  BY DEF Placed, Buffers
<1> QED  BY <1>2, <1>3 DEF Placed

(* What each operation does to the fields, and that the positions stay     *)
(* placed.                                                                 *)
LEMMA RewindPlaced ==
  ASSUME NEW b, Placed(b)
  PROVE  /\ Placed(Rewind(b))
         /\ Rewind(b) = [b EXCEPT !.position = b.front, !.current = Boundaries(b.front)]
<1>1. b.front \in Nat /\ b.front =< b.front /\ b.front =< b.back
  BY DEF Placed, Buffers
<1>2. Rewind(b) = [b EXCEPT !.position = b.front, !.current = Boundaries(b.front)]
  BY <1>1, SetPositionBlock DEF Rewind
<1> QED  BY <1>1, <1>2, MovePlaced

(* Skip moves the position, by what is left to read at most.               *)
LEMMA SkipPlaced ==
  ASSUME NEW b, Placed(b), NEW n \in Nat, b.position + n =< b.back
  PROVE  /\ Placed(Skip(b, n))
         /\ Skip(b, n) = [b EXCEPT !.position = b.position + n,
                                   !.current = Boundaries(b.position + n)]
<1>1. b.position \in Nat /\ b.position + n \in Nat /\ b.front =< b.position + n
  BY DEF Placed, Buffers
<1>2. Boundaries(b.position + n) \in Nat /\ Boundaries(b.position) \in Nat
  BY <1>1, BoundariesType
<1>3. BlockOf(b, n) = Boundaries(b.position + n)
  BY <1>2 DEF Placed, BlockOf
<1>4. Skip(b, n) = [b EXCEPT !.position = b.position + n,
                            !.current = Boundaries(b.position + n)]
  BY <1>3 DEF Skip, Placed, Buffers
<1> QED  BY <1>1, <1>4, MovePlaced

(* Shrink moves the front to the position.                                 *)
LEMMA ShrinkPlaced ==
  ASSUME NEW b, Placed(b), NEW n \in Nat, b.position = b.front + n
  PROVE  /\ Placed(Shrink(b, n))
         /\ Shrink(b, n) = [b EXCEPT !.front = b.front + n]
BY DEF Placed, Buffers, Shrink

(* MarkToRead sets a marker that is not past the back.                     *)
LEMMA MarkPlaced ==
  ASSUME NEW b, Placed(b), NEW n \in Nat, b.front + n =< b.back
  PROVE  /\ Placed(MarkToRead(b, n))
         /\ MarkToRead(b, n) = [b EXCEPT !.marker = b.front + n]
<1> DEFINE c == [b EXCEPT !.marker = b.front + n]
<1>1. b \in Buffers /\ b.front + n \in Nat
  BY DEF Placed, Buffers
<1>2. c \in Buffers
  BY <1>1 DEF Buffers
<1>3. /\ c.front = b.front /\ c.back = b.back /\ c.position = b.position
      /\ c.current = b.current /\ c.marker = b.front + n
  BY <1>1 DEF Buffers
<1> QED  BY <1>2, <1>3 DEF Placed, MarkToRead

(* The bytes read are those from the position on.                          *)
LEMMA BytesRead ==
  ASSUME NEW b, Placed(b), NEW n \in Nat, b.position + n =< b.back
  PROVE  GetBytes(b, n) = [i \in 1 .. n |-> Byte(b, b.position + i - 1)]
<1> SUFFICES ASSUME NEW i \in 1 .. n
             PROVE  BlockOf(b, i) = (b.position + i - 1) \div BlockSize
  BY DEF GetBytes, Byte
<1>1. b.position \in Nat /\ b.position + i \in Nat /\ b.position + i # 0
  BY DEF Placed, Buffers
<1>2. Boundaries(b.position + i) \in Nat /\ Boundaries(b.position) \in Nat
  BY <1>1, BoundariesType
<1>3. BlockOf(b, i) = Boundaries(b.position + i)
  BY <1>2 DEF Placed, BlockOf
<1> QED  BY <1>1, <1>3 DEF Boundaries

(* What the socket writes lies from back on; what lay there stays.         *)
LEMMA ArrivalPlaced ==
  ASSUME NEW b, Placed(b), NEW bytes \in Seq(Bytes), b.back + Len(bytes) =< Capacity(b)
  PROVE  LET c == Stretch(Filled(b, bytes), Len(bytes))
         IN  /\ Placed(c) /\ Roomy(c)
             /\ c = [b EXCEPT !.blocks = c.blocks, !.back = b.back + Len(bytes)]
             /\ Len(c.blocks) = Len(b.blocks)
             /\ \A p \in Nat : p < b.back => Byte(c, p) = Byte(b, p)
             /\ \A p \in Nat : b.back =< p /\ p < b.back + Len(bytes) =>
                  Byte(c, p) = bytes[p - b.back + 1]
<1> DEFINE At(i, j) == BlockSize * (i - 1) + j - b.back + 1
           new(i) == [j \in 0 .. BlockSize - 1 |->
                        IF At(i, j) \in DOMAIN bytes THEN bytes[At(i, j)] ELSE b.blocks[i][j]]
           blocks == [i \in DOMAIN b.blocks |-> new(i)]
           c == Stretch(Filled(b, bytes), Len(bytes))
<1>1. /\ b.blocks \in Seq(Segment) /\ Len(b.blocks) \in Nat
      /\ DOMAIN b.blocks = 1 .. Len(b.blocks) /\ b.back \in Nat /\ Len(bytes) \in Nat
      /\ DOMAIN bytes = 1 .. Len(bytes)
  BY DEF Placed, Buffers
<1>2. c = [b EXCEPT !.blocks = blocks, !.back = b.back + Len(bytes)]
  BY DEF Filled, Stretch, Placed, Buffers
<1>3. \A i \in 1 .. Len(b.blocks) : new(i) \in Segment
  <2> SUFFICES ASSUME NEW i \in 1 .. Len(b.blocks), NEW j \in 0 .. BlockSize - 1
               PROVE  (IF At(i, j) \in DOMAIN bytes THEN bytes[At(i, j)] ELSE b.blocks[i][j])
                        \in Bytes
    BY DEF Segment
  <2>1. b.blocks[i] \in Segment
    BY <1>1
  <2>2. b.blocks[i][j] \in Bytes
    BY <2>1 DEF Segment
  <2> HIDE DEF At
  <2> QED  BY <2>2, <1>1
<1>4. blocks \in Seq(Segment) /\ Len(blocks) = Len(b.blocks)
  <2> HIDE DEF new
  <2> QED  BY <1>1, <1>3
<1>5. /\ c.blocks = blocks /\ c.back = b.back + Len(bytes) /\ c.front = b.front
      /\ c.position = b.position /\ c.current = b.current /\ c.marker = b.marker
      /\ c.level = b.level
  <2> HIDE DEF blocks, c
  <2> QED  BY <1>2 DEF Placed, Buffers
<1>6. c \in Buffers
  <2> HIDE DEF blocks, c
  <2>1. b \in Buffers /\ b.back + Len(bytes) \in Nat
    BY <1>1 DEF Placed
  <2> QED  BY <1>2, <1>4, <2>1 DEF Buffers
<1>7. Placed(c)
  <2> HIDE DEF blocks, c
  <2> QED  BY <1>1, <1>5, <1>6 DEF Placed, Buffers
<1>8. Roomy(c)
  <2> HIDE DEF blocks, c
  <2> QED  BY <1>5, <1>4 DEF Roomy, Capacity
<1>9. ASSUME NEW p \in Nat, p < b.back + Len(bytes)
      PROVE  Byte(c, p) = IF p >= b.back THEN bytes[p - b.back + 1] ELSE Byte(b, p)
  <2> DEFINE i == p \div BlockSize + 1
             j == p % BlockSize
  <2>1. p < BlockSize * Len(b.blocks)
    <3>1. BlockSize * Len(b.blocks) \in Nat
      BY <1>1, Products
    <3> QED  BY <1>1, <1>9, <3>1 DEF Capacity
  <2>2. p \div BlockSize \in Nat /\ p \div BlockSize < Len(b.blocks)
    BY <1>1, <2>1, InBlocks
  <2>3. i \in 1 .. Len(b.blocks)
    BY <2>2, <1>1
  <2>4. j \in 0 .. BlockSize - 1 /\ p = BlockSize * (i - 1) + j
    <3>1. i - 1 = p \div BlockSize
      BY <2>2
    <3> HIDE DEF i
    <3> QED  BY <3>1, Division
  <2>5. Byte(c, p) = new(i)[j]
    <3> HIDE DEF c, new
    <3> QED  BY <1>5, <1>1, <2>3 DEF Byte
  <2>6. new(i)[j] = IF At(i, j) \in DOMAIN bytes THEN bytes[At(i, j)] ELSE b.blocks[i][j]
    BY <2>4
  <2>7. At(i, j) = p - b.back + 1
    <3> HIDE DEF i, j
    <3>1. BlockSize * (i - 1) \in Int
      BY <2>3, <1>1, Products
    <3> QED  BY <2>4, <1>1, <3>1
  <2>8. Byte(b, p) = b.blocks[i][j]
    BY DEF Byte
  <2> HIDE DEF At, i, j, new, c
  <2> QED  BY <1>1, <1>9, <2>5, <2>6, <2>7, <2>8
<1> HIDE DEF blocks, c
<1>10. \A p \in Nat : p < b.back => Byte(c, p) = Byte(b, p)
  BY <1>1, <1>9
<1>11. \A p \in Nat : b.back =< p /\ p < b.back + Len(bytes) =>
                  Byte(c, p) = bytes[p - b.back + 1]
  BY <1>1, <1>9
<1>12. c = [b EXCEPT !.blocks = c.blocks, !.back = b.back + Len(bytes)] /\ Len(c.blocks) = Len(b.blocks)
  BY <1>2, <1>4, <1>5
<1> QED  BY <1>7, <1>8, <1>10, <1>11, <1>12 DEF c

(* A segment there is, of bytes.                                           *)
LEMMA AcquireType == Acquire \in Segment
<1>1. [j \in 0 .. BlockSize - 1 |-> 0] \in Segment
  BY HeaderBaseAssumption, ByteValues DEF Segment
<1> QED  BY <1>1 DEF Acquire

(* The room made for the next receive: what is held stays where it is, and *)
(* blocks are added only up to the room the level asks for.                *)
LEMMA RoomPlaced ==
  ASSUME NEW b, Placed(b), Roomy(b)
  PROVE  LET c == WithRoom(b)
         IN  /\ Placed(c) /\ Roomy(c)
             /\ c = [b EXCEPT !.blocks = c.blocks, !.level = c.level]
             /\ Len(b.blocks) =< Len(c.blocks)
             /\ \A p \in Nat : p < Capacity(b) => Byte(c, p) = Byte(b, p)
             /\ \/ c.blocks = b.blocks
                \/ Capacity(c) =< b.back + BlockSize * (1 + 2 ^ MaxLevel)
<1> DEFINE level == AdaptLevel(b)
           free == (Capacity(b) - b.back) \div BlockSize
           missing == 2 ^ level - free
           added == [i \in 1 .. missing |-> Acquire]
           c == WithRoom(b)
<1>1. /\ b.blocks \in Seq(Segment) /\ Len(b.blocks) \in Nat
      /\ DOMAIN b.blocks = 1 .. Len(b.blocks) /\ b.back \in Nat
  BY DEF Placed, Buffers
<1>2. level \in 0 .. MaxLevel
  BY Levels DEF AdaptLevel, Placed, Buffers
<1>3. 2 ^ level \in Nat /\ 2 ^ level =< 2 ^ MaxLevel /\ 2 ^ MaxLevel \in Nat
  BY <1>2, Levels, Power, PowerMonotone
<1>4. Capacity(b) \in Int /\ Capacity(b) = BlockSize * Len(b.blocks)
  BY <1>1, Products DEF Capacity
<1>0. Capacity(b) - b.back \in Int
  BY <1>1, <1>4
<1>5. /\ free \in Int /\ (Capacity(b) - b.back) % BlockSize \in 0 .. BlockSize - 1
      /\ Capacity(b) - b.back = BlockSize * free + ((Capacity(b) - b.back) % BlockSize)
  BY <1>0, Division
<1> DEFINE rest == (Capacity(b) - b.back) % BlockSize
<1>6. c = [b EXCEPT !.level = level, !.blocks = b.blocks \o added]
  BY DEF WithRoom, Placed, Buffers
<1> HIDE DEF c, level, free, rest
<1>7. missing \in Int
  BY <1>3, <1>5
<1> DEFINE count == IF missing > 0 THEN missing ELSE 0
<1>8. /\ added \in Seq(Segment) /\ Len(added) = count
      /\ count \in Nat
  <2>1. CASE missing > 0
    <3>1. \A i \in 1 .. missing : Acquire \in Segment
      BY AcquireType
    <3> HIDE DEF missing
    <3> QED  BY <2>1, <1>7, <3>1
  <2>2. CASE ~(missing > 0)
    <3>1. 1 .. missing = {}
      BY <2>2, <1>7
    <3>2. added = <<>>
      BY <3>1
    <3>3. count = 0
      BY <2>2, <1>7
    <3> HIDE DEF added, count
    <3> QED  BY <3>2, <3>3
  <2> QED  BY <2>1, <2>2
<1> HIDE DEF added, missing
<1>9. /\ c.blocks = b.blocks \o added /\ c.level = level /\ c.back = b.back
      /\ c.front = b.front /\ c.position = b.position /\ c.current = b.current
      /\ c.marker = b.marker
  BY <1>6 DEF Placed, Buffers
<1>10. /\ c.blocks \in Seq(Segment) /\ Len(c.blocks) = Len(b.blocks) + count
       /\ \A i \in 1 .. Len(b.blocks) : c.blocks[i] = b.blocks[i]
  <2> HIDE DEF count
  <2>1. /\ b.blocks \o added \in Seq(Segment)
        /\ Len(b.blocks \o added) = Len(b.blocks) + Len(added)
        /\ \A i \in 1 .. Len(b.blocks) + Len(added) : (b.blocks \o added)[i] =
             IF i <= Len(b.blocks) THEN b.blocks[i] ELSE added[i - Len(b.blocks)]
    BY <1>1, <1>8, ConcatProperties
  <2> QED  BY <1>1, <1>8, <1>9, <2>1
<1>11. c \in Buffers
  BY <1>1, <1>6, <1>9, <1>10, <1>2 DEF Placed, Buffers
<1>12. Placed(c)
  BY <1>9, <1>11 DEF Placed
<1>13. Capacity(c) = Capacity(b) + BlockSize * count
  <2> HIDE DEF count
  <2>1. BlockSize * (Len(b.blocks) + count) = BlockSize * Len(b.blocks) + BlockSize * count
    <3>1. Len(b.blocks) \in Int /\ count \in Int
      BY <1>1, <1>8
    <3> QED  BY <3>1, Distribute
  <2> QED  BY <2>1, <1>4, <1>10 DEF Capacity
<1> HIDE DEF count
<1>20. Capacity(c) \in Int /\ BlockSize * count \in Int
  BY <1>10, <1>8, <1>1, Products DEF Capacity
<1>14. count > 0 => Capacity(c) - b.back = BlockSize * 2 ^ level + rest
  <2> SUFFICES ASSUME count > 0
               PROVE  Capacity(c) - b.back = BlockSize * 2 ^ level + rest
    OBVIOUS
  <2>0. count = 2 ^ level - free
    BY <1>7 DEF count, missing
  <2>1. BlockSize * count = BlockSize * 2 ^ level - BlockSize * free
    BY <2>0, <1>3, <1>5, Distribute
  <2>2. BlockSize * free \in Int /\ BlockSize * 2 ^ level \in Int
    BY <1>3, <1>5, Products
  <2>3. Capacity(b) - b.back = BlockSize * free + rest
    BY <1>5 DEF rest
  <2>4. rest \in Int
    BY <1>5, BlockSizePositive DEF rest
  <2> DEFINE x == BlockSize * count
             y == BlockSize * 2 ^ level
             z == BlockSize * free
  <2>5. /\ x = y - z /\ Capacity(b) - b.back = z + rest /\ Capacity(c) = Capacity(b) + x
        /\ y \in Int /\ z \in Int /\ x \in Int
    BY <2>1, <2>2, <2>3, <1>13, <1>20
  <2>6. b.back \in Int
    BY <1>1
  <2> HIDE DEF x, y, z
  <2>7. Capacity(c) - b.back = y + rest
    <3>1. Capacity(b) \in Int
      BY <1>4
    <3> QED  BY <2>4, <2>5, <2>6, <3>1
  <2> QED  BY <2>7 DEF y
<1>15. rest \in 0 .. BlockSize - 1
  BY <1>5 DEF rest
<1>16. Roomy(c)
  <2>1. CASE count > 0
    <3>1. BlockSize * 2 ^ level \in Nat
      BY <1>3, Products
    <3> QED  BY <2>1, <1>14, <1>15, <1>9, <1>1, <3>1, <1>20 DEF Roomy
  <2>2. CASE ~(count > 0)
    <3>1. count = 0
      BY <2>2, <1>8
    <3>2. Len(c.blocks) = Len(b.blocks) /\ (c.blocks # <<>> => b.blocks # <<>>)
      BY <3>1, <1>10, <1>1
    <3> QED  BY <3>2, <1>9 DEF Roomy, Capacity
  <2> QED  BY <2>1, <2>2
<1>17. c.blocks = b.blocks \/ Capacity(c) =< b.back + BlockSize * (1 + 2 ^ MaxLevel)
  <2>1. CASE count > 0
    <3>1. BlockSize * 2 ^ level \in Nat /\ BlockSize * 2 ^ MaxLevel \in Nat
      BY <1>3, Products
    <3>2. BlockSize * 2 ^ level =< BlockSize * 2 ^ MaxLevel
      <4>1. 2 ^ level = 2 ^ MaxLevel \/ BlockSize * 2 ^ level + BlockSize =< BlockSize * 2 ^ MaxLevel
        BY <1>3, Multiple
      <4> QED  BY <4>1, <3>1, BlockSizePositive
    <3>3. BlockSize * (1 + 2 ^ MaxLevel) = BlockSize + BlockSize * 2 ^ MaxLevel
      BY <1>3, BlockSizePositive
    <3> QED  BY <2>1, <1>14, <1>15, <1>1, <1>20, <3>1, <3>2, <3>3, BlockSizePositive
  <2>2. CASE ~(count > 0)
    <3>1. added = <<>>
      BY <2>2, <1>8
    <3> QED  BY <3>1, <1>9, <1>1
  <2> QED  BY <2>1, <2>2
<1>18. ASSUME NEW p \in Nat, p < Capacity(b)
       PROVE  Byte(c, p) = Byte(b, p)
  <2>1. p \div BlockSize \in Nat /\ p \div BlockSize < Len(b.blocks)
    BY <1>18, <1>1, <1>4, InBlocks
  <2>2. p \div BlockSize + 1 \in 1 .. Len(b.blocks)
    BY <2>1, <1>1
  <2>3. c.blocks[p \div BlockSize + 1] = b.blocks[p \div BlockSize + 1]
    BY <2>2, <1>10
  <2> QED  BY <2>3 DEF Byte
<1>19. c = [b EXCEPT !.blocks = c.blocks, !.level = c.level]
  BY <1>6, <1>9
<1>21. Len(b.blocks) =< Len(c.blocks)
  BY <1>1, <1>8, <1>10
<1> QED  BY <1>12, <1>16, <1>17, <1>18, <1>19, <1>21 DEF c

(* Trim moves every position by the same distance, that of the blocks it   *)
(* gives back; what is left begins in the first block, at the marker.      *)
TrimPoint(b) == IF b.marker >= 0 THEN b.marker ELSE b.position

(* What Trim keeps of a buffer, and where: the distance is d.              *)
LEMMA TrimPlaced ==
  ASSUME NEW b, Placed(b), b.blocks # <<>>, b.back =< Capacity(b),
         b.marker >= 0 => b.front =< b.marker
  PROVE  LET c == Trim(b)
         IN  /\ Placed(c) /\ c.blocks # <<>> /\ c.back =< Capacity(c)
             /\ c.position = c.front /\ c.front < BlockSize /\ c.marker = -1
             /\ Len(c.blocks) =< Len(b.blocks)
             /\ \E d \in Nat :
                  /\ c.front = TrimPoint(b) - d /\ c.back = b.back - d
                  /\ \A p \in Nat : p < c.back => Byte(c, p) = Byte(b, p + d)
<1> DEFINE m == TrimPoint(b)
           t == ToMarker(b)
           u == Clip(t)
           c == Trim(b)
<1>1. /\ b.blocks \in Seq(Segment) /\ Len(b.blocks) \in Nat /\ Len(b.blocks) >= 1
      /\ DOMAIN b.blocks = 1 .. Len(b.blocks) /\ b.back \in Nat /\ b \in Buffers
      /\ b.front \in Nat /\ b.position \in Nat /\ b.marker \in Nat \cup {-1}
      /\ b.level \in 0 .. MaxLevel
  BY DEF Placed, Buffers
<1>2. m \in Nat /\ b.front =< m /\ m =< b.back
  BY <1>1 DEF Placed, TrimPoint
<1>3. t = [b EXCEPT !.position = m, !.current = Boundaries(m), !.marker = -1]
  <2>1. CASE b.marker >= 0
    <3>1. SetPosition(b, b.marker) = [b EXCEPT !.position = b.marker, !.current = Boundaries(b.marker)]
      <4>1. b.marker \in Nat
        BY <1>1, <2>1
      <4> QED  BY <4>1, SetPositionBlock
    <3> QED  BY <2>1, <3>1, <1>1 DEF ToMarker, TrimPoint, Buffers
  <2>2. CASE ~(b.marker >= 0)
    <3>1. b = [b EXCEPT !.position = m, !.current = Boundaries(m)]
      BY <1>1, <2>2 DEF Placed, TrimPoint, Buffers
    <3> QED  BY <2>2, <3>1, <1>1 DEF ToMarker, Buffers
  <2> QED  BY <2>1, <2>2
<1> HIDE DEF m, t
<1>4. /\ t.blocks = b.blocks /\ t.position = m /\ t.front = b.front /\ t.back = b.back
      /\ t.marker = -1 /\ t.level = b.level
  BY <1>1, <1>3 DEF Buffers
<1>5. t \in Buffers
  BY <1>1, <1>2, <1>3, BoundariesType DEF Buffers
<1>6. c = SetPosition(u, u.front)
  BY DEF Trim, Rewind, t
<1> HIDE DEF c
<1>7. ASSUME NEW blocks \in Seq(Segment), blocks # <<>>, NEW front \in Nat, NEW back \in Nat,
             front =< back, u = [t EXCEPT !.blocks = blocks, !.front = front, !.back = back]
      PROVE  /\ Placed(c) /\ c.blocks = blocks /\ c.front = front /\ c.back = back
             /\ c.position = front /\ c.marker = -1
  <2> HIDE DEF u
  <2>1. /\ u.blocks = blocks /\ u.front = front /\ u.back = back /\ u.marker = -1
        /\ u.level = b.level /\ u \in Buffers
    BY <1>4, <1>5, <1>7 DEF Buffers
  <2>2. c = [u EXCEPT !.position = front, !.current = Boundaries(front)]
    BY <1>6, <2>1, SetPositionBlock
  <2>3. Boundaries(front) \in Nat
    BY BoundariesType
  <2>4. /\ c \in Buffers /\ c.blocks = blocks /\ c.front = front /\ c.back = back
        /\ c.position = front /\ c.marker = -1 /\ c.current = Boundaries(front)
    BY <2>1, <2>2, <2>3 DEF Buffers
  <2> QED  BY <2>4, <1>7 DEF Placed
<1>8. CASE m = b.back
  <2>1. u = [t EXCEPT !.blocks = SubSeq(b.blocks, 1, 1), !.front = 0, !.back = 0]
    BY <1>4, <1>8, <1>5 DEF Clip, Buffers
  <2>2. /\ SubSeq(b.blocks, 1, 1) \in Seq(Segment) /\ Len(SubSeq(b.blocks, 1, 1)) = 1
        /\ SubSeq(b.blocks, 1, 1) # <<>>
    BY <1>1
  <2>3. /\ Placed(c) /\ c.blocks = SubSeq(b.blocks, 1, 1) /\ c.front = 0 /\ c.back = 0
        /\ c.position = 0 /\ c.marker = -1
    <3>1. 0 \in Nat /\ 0 =< 0
      OBVIOUS
    <3> HIDE DEF u
    <3> QED  BY <1>7, <2>1, <2>2, <3>1
  <2>4. c.back =< Capacity(c)
    <3>1. BlockSize * Len(c.blocks) \in Nat
      BY <2>2, <2>3, Products
    <3> QED  BY <2>3, <3>1 DEF Capacity
  <2>5. /\ b.back \in Nat /\ c.front = m - b.back /\ c.back = b.back - b.back
        /\ \A p \in Nat : p < c.back => Byte(c, p) = Byte(b, p + b.back)
    BY <2>3, <1>1, <1>8
  <2>6. Len(c.blocks) =< Len(b.blocks) /\ c.blocks # <<>> /\ c.front < BlockSize /\ c.position = c.front
    BY <2>2, <2>3, <1>1, BlockSizePositive
  <2>7. \E d \in Nat : /\ c.front = m - d /\ c.back = b.back - d
                       /\ \A p \in Nat : p < c.back => Byte(c, p) = Byte(b, p + d)
    BY <2>5
  <2> QED  BY <2>3, <2>4, <2>6, <2>7 DEF m, c
<1>9. CASE m # b.back
  <2> DEFINE count == m \div BlockSize
             rest == m % BlockSize
             d == BlockSize * count
             blocks == SubSeq(b.blocks, count + 1, Len(b.blocks))
  <2>1. /\ count \in Int /\ rest \in 0 .. BlockSize - 1 /\ m = d + rest
    BY <1>2, Division
  <2>2. u = [t EXCEPT !.blocks = blocks, !.front = rest, !.back = b.back - d]
    BY <1>4, <1>9, <1>5 DEF Clip, Buffers
  <2>3. count \in Nat /\ count < Len(b.blocks)
    <3>1. m < BlockSize * Len(b.blocks)
      <4>1. BlockSize * Len(b.blocks) \in Int
        BY <1>1, Products
      <4> QED  BY <4>1, <1>1, <1>2, <1>9 DEF Capacity
    <3> QED  BY <3>1, <1>1, <1>2, InBlocks
  <2>4. d \in Nat
    BY <2>3, Products
  <2> HIDE DEF count, rest, d
  <2>5. /\ blocks \in Seq(Segment) /\ Len(blocks) = Len(b.blocks) - count
        /\ \A i \in 1 .. Len(b.blocks) - count : blocks[i] = b.blocks[count + i]
    <3>1. \A i \in count + 1 .. Len(b.blocks) : b.blocks[i] \in Segment
      BY <2>3, <1>1
    <3>2. count + 1 \in Int /\ Len(b.blocks) \in Int /\ count + 1 =< Len(b.blocks)
      BY <2>3, <1>1
    <3>3. /\ blocks \in Seq(Segment)
          /\ Len(blocks) = IF count + 1 <= Len(b.blocks) THEN Len(b.blocks) - (count + 1) + 1 ELSE 0
          /\ \A i \in 1 .. Len(b.blocks) - (count + 1) + 1 : blocks[i] = b.blocks[count + 1 + i - 1]
      BY <3>1, <3>2, SubSeqProperties
    <3> HIDE DEF blocks
    <3>4. Len(b.blocks) - (count + 1) + 1 = Len(b.blocks) - count
      BY <3>2, <2>3
    <3>5. \A i \in 1 .. Len(b.blocks) - count : count + 1 + i - 1 = count + i
      BY <3>2, <2>3
    <3> QED  BY <3>2, <3>3, <3>4, <3>5
  <2> HIDE DEF blocks
  <2>6. blocks # <<>>
    BY <2>5, <2>3, <1>1
  <2>7. rest \in Nat /\ b.back - d \in Nat /\ rest =< b.back - d
    BY <2>1, <2>4, <1>1, <1>2, BlockSizePositive
  <2>8. /\ Placed(c) /\ c.blocks = blocks /\ c.front = rest /\ c.back = b.back - d
        /\ c.position = rest /\ c.marker = -1
    BY <1>7, <2>2, <2>5, <2>6, <2>7
  <2>9. c.back =< Capacity(c)
    <3>1. Capacity(c) = BlockSize * Len(b.blocks) - d
      <4>1. Len(b.blocks) \in Int /\ count \in Int
        BY <2>3, <1>1
      <4>2. BlockSize * (Len(b.blocks) - count) = BlockSize * Len(b.blocks) - BlockSize * count
        BY <4>1, Distribute
      <4> QED  BY <4>2, <2>8, <2>5 DEF Capacity, d
    <3>2. BlockSize * Len(b.blocks) \in Int
      BY <1>1, Products
    <3> QED  BY <3>1, <3>2, <2>4, <2>8, <1>1 DEF Capacity
  <2>10. ASSUME NEW p \in Nat, p < c.back
         PROVE  Byte(c, p) = Byte(b, p + d)
    <3>1. /\ p \div BlockSize \in Nat /\ p \div BlockSize < Len(b.blocks) - count
      <4>1. BlockSize * (Len(b.blocks) - count) \in Int
        BY <2>3, <1>1, Products
      <4>2. p < BlockSize * (Len(b.blocks) - count)
        BY <2>8, <2>9, <2>10, <2>5, <2>7, <4>1 DEF Capacity
      <4>3. Len(b.blocks) - count \in Int
        BY <2>3, <1>1
      <4> QED  BY <4>2, <4>3, InBlocks
    <3>2. /\ p % BlockSize \in 0 .. BlockSize - 1
          /\ p = BlockSize * (p \div BlockSize) + (p % BlockSize)
      <4>1. p \in Int
        OBVIOUS
      <4> QED  BY <4>1, Division
    <3> DEFINE i == p \div BlockSize
               j == p % BlockSize
    <3> HIDE DEF i, j
    <3>3. p + d = BlockSize * (i + count) + j
      <4>1. BlockSize * (i + count) = BlockSize * i + d
        BY <3>1, <2>3, Distribute DEF d, i
      <4>2. BlockSize * i \in Int /\ j \in Int /\ p = BlockSize * i + j
        BY <3>1, <3>2, Products, BlockSizePositive DEF i, j
      <4> QED  BY <4>1, <4>2, <2>4
    <3>4. (p + d) \div BlockSize = i + count /\ (p + d) % BlockSize = j
      <4>1. p + d \in Int /\ i + count \in Int /\ j \in 0 .. BlockSize - 1
        BY <3>1, <3>2, <2>3, <2>4 DEF i, j
      <4> QED  BY <3>3, <4>1, Quotient
    <3>5. i + 1 \in 1 .. Len(b.blocks) - count
      BY <3>1, <2>3, <1>1 DEF i
    <3>6. blocks[i + 1] = b.blocks[count + (i + 1)]
      BY <3>5, <2>5
    <3>7. count + (i + 1) = i + count + 1
      BY <3>1, <2>3 DEF i
    <3>8. Byte(c, p) = blocks[i + 1][j]
      BY <2>8 DEF Byte, i, j
    <3>9. Byte(b, p + d) = b.blocks[i + count + 1][j]
      BY <3>4 DEF Byte
    <3> QED  BY <3>6, <3>7, <3>8, <3>9
  <2>11. c.front = m - d /\ c.back = b.back - d
    BY <2>8, <2>1, <2>4, BlockSizePositive
  <2>12. \E dd \in Nat : /\ c.front = m - dd /\ c.back = b.back - dd
                         /\ \A p \in Nat : p < c.back => Byte(c, p) = Byte(b, p + dd)
    BY <2>4, <2>10, <2>11
  <2>13. Len(c.blocks) =< Len(b.blocks) /\ c.blocks # <<>> /\ c.front < BlockSize /\ c.position = c.front
    BY <2>5, <2>6, <2>8, <2>1, <2>3, <1>1, BlockSizePositive
  <2> QED  BY <2>8, <2>9, <2>12, <2>13 DEF m, c
<1> QED  BY <1>8, <1>9

-----------------------------------------------------------------------------
(* Headers.                                                                *)

(* A digit and what is left after it make up the number.                   *)
LEMMA LowDigit ==
  ASSUME NEW n \in Nat
  PROVE  /\ n \div HeaderBase \in Nat /\ n % HeaderBase \in 0 .. HeaderBase - 1
         /\ n = (n % HeaderBase) + HeaderBase * (n \div HeaderBase)
         /\ n < HeaderBase => n % HeaderBase = n
<1> DEFINE q == n \div HeaderBase
           r == n % HeaderBase
<1>1. q \in Int /\ r \in 0 .. HeaderBase - 1 /\ n = HeaderBase * q + r
  BY HeaderBaseAssumption
<1> HIDE DEF q, r
<1>2. HeaderBase * q \in Int
  BY <1>1, HeaderBaseAssumption
<1>3. ~(q < 0)
  <2> SUFFICES ASSUME q < 0 PROVE FALSE
    OBVIOUS
  <2>1. PICK d \in Nat : q = -1 - d
    <3>1. -1 - q \in Nat /\ q = -1 - (-1 - q)
      BY <1>1
    <3> QED  BY <3>1
  <2>2. HeaderBase * q = -HeaderBase - HeaderBase * d
    BY <2>1, HeaderBaseAssumption
  <2>3. HeaderBase * d >= 0
    BY <2>1, HeaderBaseAssumption
  <2> QED  BY <2>2, <2>3, <1>1, <1>2, HeaderBaseAssumption
<1>4. q \in Nat
  BY <1>1, <1>3
<1>5. n < HeaderBase => r = n
  <2> SUFFICES ASSUME n < HeaderBase PROVE r = n
    OBVIOUS
  <2>1. CASE q = 0
    <3>1. HeaderBase * q = 0
      BY <2>1, HeaderBaseAssumption
    <3> QED  BY <3>1, <1>1
  <2>2. CASE q # 0
    <3>1. PICK d \in Nat : q = 1 + d
      <4>1. q - 1 \in Nat /\ q = 1 + (q - 1)
        BY <2>2, <1>4
      <4> QED  BY <4>1
    <3>2. HeaderBase * q = HeaderBase + HeaderBase * d
      BY <3>1, HeaderBaseAssumption
    <3>3. HeaderBase * d >= 0
      BY <3>1, HeaderBaseAssumption
    <3> QED  BY <3>2, <3>3, <1>1, <1>2, HeaderBaseAssumption
  <2> QED  BY <2>1, <2>2
<1>6. n = r + HeaderBase * q
  BY <1>1, <1>2, HeaderBaseAssumption
<1> QED  BY <1>1, <1>4, <1>5, <1>6 DEF q, r

(* A digit is read back from the byte that carries it.                     *)
LEMMA DigitOfByte ==
  ASSUME NEW r \in 0 .. HeaderBase - 1
  PROVE  r % HeaderBase = r /\ (r + HeaderBase) % HeaderBase = r
<1>1. r \in Nat /\ r + HeaderBase \in Nat /\ r < HeaderBase
  BY HeaderBaseAssumption
<1>2. r % HeaderBase = r
  BY <1>1, LowDigit
<1>3. (r + HeaderBase) % HeaderBase = r
  <2> DEFINE n == r + HeaderBase
             q == n \div HeaderBase
             s == n % HeaderBase
  <2>1. q \in Nat /\ s \in 0 .. HeaderBase - 1 /\ n = s + HeaderBase * q
    BY <1>1, LowDigit
  <2> HIDE DEF q, s
  <2>2. CASE q = 0
    <3>1. HeaderBase * q = 0
      BY <2>2, HeaderBaseAssumption
    <3> QED  BY <3>1, <2>1, <1>1, HeaderBaseAssumption DEF s
  <2>3. CASE q = 1
    <3>1. HeaderBase * q = HeaderBase
      BY <2>3, HeaderBaseAssumption
    <3> QED  BY <3>1, <2>1, <1>1, HeaderBaseAssumption DEF s
  <2>4. CASE q # 0 /\ q # 1
    <3>1. PICK d \in Nat : q = 2 + d
      <4>1. q - 2 \in Nat /\ q = 2 + (q - 2)
        BY <2>4, <2>1
      <4> QED  BY <4>1
    <3>2. HeaderBase * q = HeaderBase + HeaderBase + HeaderBase * d
      BY <3>1, HeaderBaseAssumption
    <3>3. HeaderBase * d \in Nat
      BY <3>1, HeaderBaseAssumption
    <3> QED  BY <3>2, <3>3, <2>1, <1>1, HeaderBaseAssumption
  <2> QED  BY <2>2, <2>3, <2>4
<1> QED  BY <1>2, <1>3

(* Each quotient is the one before it without its low digit.               *)
LEMMA QuotientsType ==
  ASSUME NEW n \in Nat
  PROVE  /\ Quotients(n) \in [1 .. 5 -> Nat] /\ Quotients(n)[1] = n
         /\ \A i \in 1 .. 4 : Quotients(n)[i + 1] = Quotients(n)[i] \div HeaderBase
<1> DEFINE q1 == n \div HeaderBase
           q2 == q1 \div HeaderBase
           q3 == q2 \div HeaderBase
           q4 == q3 \div HeaderBase
<1>1. q1 \in Nat
  BY LowDigit
<1>2. q2 \in Nat
  BY <1>1, LowDigit
<1>3. q3 \in Nat
  BY <1>2, LowDigit
<1>4. q4 \in Nat
  BY <1>3, LowDigit
<1>5. Quotients(n) = <<n, q1, q2, q3, q4>>
  BY DEF Quotients
<1>6. /\ Quotients(n)[2] = Quotients(n)[1] \div HeaderBase
      /\ Quotients(n)[3] = Quotients(n)[2] \div HeaderBase
      /\ Quotients(n)[4] = Quotients(n)[3] \div HeaderBase
      /\ Quotients(n)[5] = Quotients(n)[4] \div HeaderBase
  BY <1>5
<1> HIDE DEF q1, q2, q3, q4
<1>7. Quotients(n) \in [1 .. 5 -> Nat] /\ Quotients(n)[1] = n
  BY <1>1, <1>2, <1>3, <1>4, <1>5
<1>8. \A i \in 1 .. 4 : i = 1 \/ i = 2 \/ i = 3 \/ i = 4
  OBVIOUS
<1>9. \A i \in 1 .. 4 : Quotients(n)[i + 1] = Quotients(n)[i] \div HeaderBase
  BY <1>6, <1>8
<1> QED  BY <1>7, <1>9

(* There is one number of digits, when five are enough.                    *)
LEMMA DigitsOf ==
  ASSUME NEW n \in Nat, Quotients(n)[MaxHeader] < HeaderBase
  PROVE  /\ Digits(n) \in 1 .. MaxHeader
         /\ Quotients(n)[Digits(n)] < HeaderBase
         /\ \A i \in 1 .. Digits(n) - 1 : Quotients(n)[i] >= HeaderBase
<1> DEFINE q == Quotients(n)
           P(k) == q[k] < HeaderBase /\ \A i \in 1 .. k - 1 : q[i] >= HeaderBase
<1>1. q \in [1 .. 5 -> Nat]
  BY QuotientsType
<1> HIDE DEF q
<1>2. q[5] < HeaderBase
  BY DEF q, MaxHeader
<1>3. /\ \A i \in 1 .. 5 : q[i] \in Nat
      /\ \A i \in 1 .. 0 : FALSE
      /\ \A i \in 1 .. 1 : i = 1
      /\ \A i \in 1 .. 2 : i = 1 \/ i = 2
      /\ \A i \in 1 .. 3 : i = 1 \/ i = 2 \/ i = 3
      /\ \A i \in 1 .. 4 : i = 1 \/ i = 2 \/ i = 3 \/ i = 4
  BY <1>1
<1>4. \E k \in 1 .. 5 : P(k)
  <2>0. /\ q[1] \in Nat /\ q[2] \in Nat /\ q[3] \in Nat /\ q[4] \in Nat /\ q[5] \in Nat
        /\ HeaderBase \in Nat
    BY <1>1, HeaderBaseAssumption
  <2>1. CASE q[1] < HeaderBase
    <3>1. P(1)
      BY <2>1, <1>3
    <3> HIDE DEF P
    <3> QED  BY <3>1
  <2>2. CASE q[1] >= HeaderBase /\ q[2] < HeaderBase
    <3>1. P(2)
      BY <2>2, <1>3
    <3> HIDE DEF P
    <3> QED  BY <3>1
  <2>3. CASE q[1] >= HeaderBase /\ q[2] >= HeaderBase /\ q[3] < HeaderBase
    <3>1. P(3)
      BY <2>3, <1>3
    <3> HIDE DEF P
    <3> QED  BY <3>1
  <2>4. CASE q[1] >= HeaderBase /\ q[2] >= HeaderBase /\ q[3] >= HeaderBase /\ q[4] < HeaderBase
    <3>1. P(4)
      BY <2>4, <1>3
    <3> HIDE DEF P
    <3> QED  BY <3>1
  <2>5. CASE q[1] >= HeaderBase /\ q[2] >= HeaderBase /\ q[3] >= HeaderBase /\ q[4] >= HeaderBase
    <3>1. P(5)
      BY <2>5, <1>2, <1>3
    <3> HIDE DEF P
    <3> QED  BY <3>1
  <2> QED  BY <2>0, <2>1, <2>2, <2>3, <2>4, <2>5
<1>5. Digits(n) = CHOOSE k \in 1 .. 5 : P(k)
  BY DEF Digits, MaxHeader, q
<1>6. Digits(n) \in 1 .. 5 /\ P(Digits(n))
  <2> HIDE DEF P
  <2> QED  BY <1>4, <1>5
<1> QED  BY <1>6 DEF q, MaxHeader

(* The bytes written for a number, and that they are read as it again.     *)
LEMMA WrittenIsRead ==
  ASSUME NEW n \in Nat, Quotients(n)[MaxHeader] < HeaderBase
  PROVE  LET w == WriteVariable(n)
             k == Digits(n)
         IN  /\ k \in 1 .. 5
             /\ w \in Seq(Bytes) /\ Len(w) = k /\ DOMAIN w = 1 .. k
             /\ \A i \in 1 .. k - 1 : Continues(w[i])
             /\ ~Continues(w[k])
             /\ ReadVariable(w, k) = n
<1> DEFINE q == Quotients(n)
           k == Digits(n)
           w == WriteVariable(n)
           B == HeaderBase
<1>1. q \in [1 .. 5 -> Nat] /\ q[1] = n /\ \A i \in 1 .. 4 : q[i + 1] = q[i] \div B
  BY QuotientsType
<1>2. k \in 1 .. 5 /\ q[k] < B /\ \A i \in 1 .. k - 1 : q[i] >= B
  BY DigitsOf DEF MaxHeader
<1>3. w = [i \in 1 .. k |-> (q[i] % B) + (IF i < k THEN B ELSE 0)]
  BY DEF WriteVariable
<1> HIDE DEF q, k, w
<1>4. \A i \in 1 .. 5 : q[i] % B \in 0 .. B - 1
  BY <1>1, LowDigit
<1>5. \A i \in 1 .. 4 : q[i] = (q[i] % B) + B * q[i + 1]
  BY <1>1, LowDigit
<1>6. q[k] % B = q[k]
  BY <1>1, <1>2, LowDigit
<1>7. \A i \in 1 .. k : w[i] \in Bytes
  <2> SUFFICES ASSUME NEW i \in 1 .. k PROVE w[i] \in Bytes
    OBVIOUS
  <2>1. q[i] % B \in 0 .. B - 1
    BY <1>2, <1>4
  <2>2. w[i] = (q[i] % B) + (IF i < k THEN B ELSE 0)
    BY <1>3
  <2> QED  BY <2>1, <2>2, ByteValues, HeaderBaseAssumption
<1>8. w \in Seq(Bytes) /\ Len(w) = k /\ DOMAIN w = 1 .. k
  BY <1>2, <1>3, <1>7
<1>9. ASSUME NEW i \in 1 .. k - 1
      PROVE  Continues(w[i])
  <2>1. i \in 1 .. k /\ i \in 1 .. 5 /\ i < k
    BY <1>2
  <2>2. w[i] = (q[i] % B) + B /\ q[i] % B \in 0 .. B - 1
    BY <1>3, <1>4, <2>1
  <2> DEFINE r == q[i] % B
  <2>3. r \in Nat /\ w[i] = r + B
    BY <2>2, HeaderBaseAssumption
  <2> HIDE DEF r
  <2> QED  BY <2>3, HeaderBaseAssumption DEF Continues
<1>10. ~Continues(w[k])
  <2>1. k \in 1 .. k /\ ~(k < k)
    BY <1>2
  <2>2. w[k] = (q[k] % B) + 0 /\ q[k] % B \in 0 .. B - 1
    BY <1>2, <1>3, <1>4, <2>1
  <2> DEFINE r == q[k] % B
  <2>3. r \in Nat /\ r < B /\ w[k] = r
    BY <2>2, HeaderBaseAssumption
  <2> HIDE DEF r
  <2> QED  BY <2>3, HeaderBaseAssumption DEF Continues
<1>11. \A i \in 1 .. k : w[i] % B = q[i] % B
  <2> SUFFICES ASSUME NEW i \in 1 .. k PROVE w[i] % B = q[i] % B
    OBVIOUS
  <2> DEFINE r == q[i] % B
  <2>1. r \in 0 .. B - 1
    BY <1>2, <1>4
  <2>2. w[i] = r + B \/ w[i] = r + 0
    BY <1>2, <1>3
  <2>3. r + 0 = r
    BY <2>1
  <2> HIDE DEF r
  <2>4. w[i] % B = r
    BY <2>1, <2>2, <2>3, DigitOfByte
  <2> QED  BY <2>4 DEF r
<1> DEFINE digit(i) == IF i =< k THEN w[i] % B ELSE 0
<1>12. ReadVariable(w, k)
        = digit(1) + B * (digit(2) + B * (digit(3) + B * (digit(4) + B * digit(5))))
  BY DEF ReadVariable
<1>13. \A i \in 1 .. 5 : digit(i) = IF i < k THEN q[i] % B ELSE IF i = k THEN q[k] ELSE 0
  BY <1>2, <1>6, <1>11
<1> HIDE DEF digit
<1>14. k = 1 \/ k = 2 \/ k = 3 \/ k = 4 \/ k = 5
  BY <1>2
<1>15. /\ B * 0 = 0 /\ B \in Nat /\ 0 + 0 = 0
       /\ \A x \in Nat : x + 0 = x
  BY HeaderBaseAssumption
<1>16. /\ q[1] \in Nat /\ q[2] \in Nat /\ q[3] \in Nat /\ q[4] \in Nat /\ q[5] \in Nat
  BY <1>1
<1> HIDE DEF B
<1>17. ReadVariable(w, k) = n
  <2>1. CASE k = 1
    <3>1. digit(1) = q[1] /\ digit(2) = 0 /\ digit(3) = 0 /\ digit(4) = 0 /\ digit(5) = 0
      BY <1>13, <2>1
    <3> QED  BY <3>1, <1>12, <1>15, <1>16, <1>1
  <2>2. CASE k = 2
    <3>1. digit(1) = q[1] % B /\ digit(2) = q[2] /\ digit(3) = 0 /\ digit(4) = 0 /\ digit(5) = 0
      BY <1>13, <2>2
    <3>2. q[1] = (q[1] % B) + B * q[2]
      BY <1>5
    <3>3. digit(2) + B * (digit(3) + B * (digit(4) + B * digit(5))) = q[2]
      BY <3>1, <1>15, <1>16
    <3> QED  BY <3>1, <3>2, <3>3, <1>12, <1>1
  <2>3. CASE k = 3
    <3>1. digit(1) = q[1] % B /\ digit(2) = q[2] % B /\ digit(3) = q[3] /\ digit(4) = 0 /\ digit(5) = 0
      BY <1>13, <2>3
    <3>2. q[1] = (q[1] % B) + B * q[2] /\ q[2] = (q[2] % B) + B * q[3]
      BY <1>5
    <3>3. digit(3) + B * (digit(4) + B * digit(5)) = q[3]
      BY <3>1, <1>15, <1>16
    <3> QED  BY <3>1, <3>2, <3>3, <1>12, <1>1
  <2>4. CASE k = 4
    <3>1. digit(1) = q[1] % B /\ digit(2) = q[2] % B /\ digit(3) = q[3] % B /\ digit(4) = q[4] /\ digit(5) = 0
      BY <1>13, <2>4
    <3>2. q[1] = (q[1] % B) + B * q[2] /\ q[2] = (q[2] % B) + B * q[3] /\ q[3] = (q[3] % B) + B * q[4]
      BY <1>5
    <3>3. digit(4) + B * digit(5) = q[4]
      BY <3>1, <1>15, <1>16
    <3> QED  BY <3>1, <3>2, <3>3, <1>12, <1>1
  <2>5. CASE k = 5
    <3>1. digit(1) = q[1] % B /\ digit(2) = q[2] % B /\ digit(3) = q[3] % B /\ digit(4) = q[4] % B /\ digit(5) = q[5]
      BY <1>13, <2>5
    <3>2. /\ q[1] = (q[1] % B) + B * q[2] /\ q[2] = (q[2] % B) + B * q[3] 
          /\ q[3] = (q[3] % B) + B * q[4] /\ q[4] = (q[4] % B) + B * q[5]
      BY <1>5
    <3> QED  BY <3>1, <3>2, <1>12, <1>1
  <2> QED  BY <1>14, <2>1, <2>2, <2>3, <2>4, <2>5
<1> QED  BY <1>2, <1>8, <1>9, <1>10, <1>17 DEF k, w

(* A header is found when all of it is there, and only then, whatever      *)
(* follows it.                                                             *)
LEMMA HeaderFound ==
  ASSUME NEW b, Placed(b), b.marker = -1,
         NEW n \in Nat, Quotients(n)[MaxHeader] < HeaderBase,
         \A i \in 1 .. Digits(n) : b.position + i - 1 < b.back =>
           Byte(b, b.position + i - 1) = WriteVariable(n)[i]
  PROVE  LET k == Digits(n)
         IN  /\ HeaderLengths(b) = IF b.position + k =< b.back THEN {k} ELSE {}
             /\ b.position + k =< b.back => ReadVariable(GetBytes(b, k), k) = n
<1> DEFINE k == Digits(n)
           w == WriteVariable(n)
<1>1. /\ k \in 1 .. 5 /\ w \in Seq(Bytes) /\ Len(w) = k /\ DOMAIN w = 1 .. k
      /\ \A i \in 1 .. k - 1 : Continues(w[i])
      /\ ~Continues(w[k])
      /\ ReadVariable(w, k) = n
  BY WrittenIsRead
<1> HIDE DEF k, w
<1>2. b.position \in Nat /\ b.back \in Nat
  BY DEF Placed, Buffers
<1>3. \A i \in 1 .. k : b.position + i - 1 < b.back => Byte(b, b.position + i - 1) = w[i]
  BY DEF k, w
<1>4. ASSUME NEW j \in 1 .. 5, b.position + j =< b.back
      PROVE  /\ GetBytes(b, j) = [i \in 1 .. j |-> Byte(b, b.position + i - 1)]
             /\ \A i \in 1 .. j : i =< k => GetBytes(b, j)[i] = w[i]
  <2>1. GetBytes(b, j) = [i \in 1 .. j |-> Byte(b, b.position + i - 1)]
    BY <1>4, BytesRead
  <2>2. ASSUME NEW i \in 1 .. j, i =< k
        PROVE  GetBytes(b, j)[i] = w[i]
    <3>1. i \in 1 .. k /\ b.position + i - 1 < b.back
      BY <1>1, <1>2, <1>4, <2>2
    <3> QED  BY <2>1, <3>1, <1>3
  <2> QED  BY <2>1, <2>2
<1>5. \A j \in 1 .. 5 : CanRead(b, j) <=> b.position + j =< b.back
  BY DEF CanRead, Limit
<1>6. ASSUME NEW j \in HeaderLengths(b)
      PROVE  j = k /\ b.position + j =< b.back
  <2>1. /\ j \in 1 .. 5 /\ CanRead(b, j)
        /\ \A i \in 1 .. j - 1 : Continues(GetBytes(b, j)[i])
        /\ j = 5 \/ ~Continues(GetBytes(b, j)[j])
    BY <1>6 DEF HeaderLengths, MaxHeader
  <2>2. b.position + j =< b.back
    BY <2>1, <1>5
  <2>3. \A i \in 1 .. j : i =< k => GetBytes(b, j)[i] = w[i]
    BY <2>1, <2>2, <1>4
  <2>4. ~(j < k)
    <3> SUFFICES ASSUME j < k PROVE FALSE
      OBVIOUS
    <3>1. j \in 1 .. k - 1 /\ j \in 1 .. j /\ j # 5 /\ j =< k
      BY <1>1, <2>1
    <3> QED  BY <3>1, <2>1, <2>3, <1>1
  <2>5. ~(k < j)
    <3> SUFFICES ASSUME k < j PROVE FALSE
      OBVIOUS
    <3>1. k \in 1 .. j - 1 /\ k \in 1 .. j /\ k =< k
      BY <1>1, <2>1
    <3> QED  BY <3>1, <2>1, <2>3, <1>1
  <2> QED  BY <2>1, <2>2, <2>4, <2>5, <1>1
<1>7. ASSUME b.position + k =< b.back
      PROVE  k \in HeaderLengths(b) /\ GetBytes(b, k) = w
  <2>1. /\ GetBytes(b, k) = [i \in 1 .. k |-> Byte(b, b.position + i - 1)]
        /\ \A i \in 1 .. k : i =< k => GetBytes(b, k)[i] = w[i]
    BY <1>1, <1>4, <1>7
  <2>2. \A i \in 1 .. k : GetBytes(b, k)[i] = w[i]
    BY <2>1, <1>1
  <2>3. k \in 1 .. k /\ \A i \in 1 .. k - 1 : i \in 1 .. k
    BY <1>1
  <2>4. k \in HeaderLengths(b)
    BY <1>1, <1>5, <1>7, <2>2, <2>3 DEF HeaderLengths, MaxHeader
  <2>5. GetBytes(b, k) = w
    BY <2>1, <2>2, <1>1
  <2> QED  BY <2>4, <2>5
<1>8. HeaderLengths(b) = IF b.position + k =< b.back THEN {k} ELSE {}
  BY <1>6, <1>7
<1> QED  BY <1>1, <1>7, <1>8 DEF k

-----------------------------------------------------------------------------
(* Frames in the stream.                                                   *)

(* What it means to be a prefix, by position.                              *)
LEMMA PrefixMeans ==
  ASSUME NEW S, NEW s \in Seq(S), NEW t \in Seq(S)
  PROVE  IsPrefix(s, t) <=> Len(s) =< Len(t) /\ \A i \in 1 .. Len(s) : s[i] = t[i]
<1>1. SubSeq(s, 1, Len(s)) = s
  OBVIOUS
<1>2. ASSUME Len(s) =< Len(t)
      PROVE  /\ Len(SubSeq(t, 1, Len(s))) = Len(s)
             /\ SubSeq(t, 1, Len(s)) \in Seq(S)
             /\ \A i \in 1 .. Len(s) : SubSeq(t, 1, Len(s))[i] = t[i]
  BY <1>2
<1>3. ASSUME Len(s) =< Len(t), \A i \in 1 .. Len(s) : s[i] = t[i]
      PROVE  s = SubSeq(t, 1, Len(s))
  BY <1>2, <1>3, SeqEqual
<1>4. ASSUME Len(s) =< Len(t), s = SubSeq(t, 1, Len(s))
      PROVE  \A i \in 1 .. Len(s) : s[i] = t[i]
  BY <1>2, <1>4
<1> QED  BY <1>1, <1>3, <1>4 DEF IsPrefix

(* The frame of an event: its header, which gives the length of the body   *)
(* and the flag, and the body.                                             *)
LEMMA FrameBytes ==
  ASSUME NEW m \in PeerEvents
  PROVE  LET n == HeaderOf(m)
             h == Len(BuildHeader(m))
         IN  /\ m \in Event /\ m.body \in Seq(Bytes) /\ m.transformed \in BOOLEAN
             /\ m = [body |-> m.body, transformed |-> m.transformed]
             /\ n \in Nat /\ Quotients(n)[MaxHeader] < HeaderBase
             /\ h = Digits(n) /\ h \in 1 .. 5
             /\ Frame(m) \in Seq(Bytes) /\ Len(Frame(m)) = h + Len(m.body)
             /\ \A i \in 1 .. h : Frame(m)[i] = WriteVariable(n)[i]
             /\ \A i \in 1 .. Len(m.body) : Frame(m)[h + i] = m.body[i]
             /\ n \div 2 = Len(m.body)
             /\ (n % 2 = 1) <=> m.transformed
<1> DEFINE n == HeaderOf(m)
           w == WriteVariable(n)
           h == Len(w)
<1>1. /\ m \in Event /\ m.body \in Seq(Bytes) /\ m.transformed \in BOOLEAN
      /\ m = [body |-> m.body, transformed |-> m.transformed]
      /\ Len(m.body) \in Nat
  BY PeerEventsAssumption DEF Event
<1>2. /\ n \in Nat /\ n \div 2 = Len(m.body)
      /\ (n % 2 = 1) <=> m.transformed
  BY <1>1 DEF HeaderOf
<1>3. Quotients(n)[MaxHeader] < HeaderBase
  BY HeadersFit
<1>4. BuildHeader(m) = w /\ Frame(m) = w \o m.body
  BY DEF BuildHeader, Frame
<1> HIDE DEF n, w
<1>5. w \in Seq(Bytes) /\ h = Digits(n) /\ h \in 1 .. 5
  BY <1>2, <1>3, WrittenIsRead DEF w
<1> HIDE DEF h
<1>6. h = Len(w)
  BY DEF h
<1>7. /\ w \o m.body \in Seq(Bytes) /\ Len(w \o m.body) = h + Len(m.body)
      /\ \A i \in 1 .. h + Len(m.body) :
           (w \o m.body)[i] = IF i <= h THEN w[i] ELSE m.body[i - h]
  BY <1>1, <1>5, <1>6, ConcatProperties
<1>8. \A i \in 1 .. h : (w \o m.body)[i] = w[i]
  BY <1>1, <1>5, <1>7
<1>9. ASSUME NEW i \in 1 .. Len(m.body)
      PROVE  (w \o m.body)[h + i] = m.body[i]
  <2> DEFINE x == h + i
  <2>1. x \in 1 .. h + Len(m.body) /\ ~(x <= h) /\ x - h = i
    BY <1>1, <1>5
  <2> HIDE DEF x
  <2>2. (w \o m.body)[x] = m.body[i]
    BY <2>1, <1>7
  <2> QED  BY <2>2 DEF x
<1> QED  BY <1>1, <1>2, <1>3, <1>4, <1>5, <1>6, <1>7, <1>8, <1>9 DEF n, w

(* The stream is the frames of what was sent: e[i] is where that of the    *)
(* event after the first i begins.                                         *)
FramesAt(e, events, bytes) ==
  /\ e \in [0 .. Len(events) -> Nat]
  /\ e[0] = 0 /\ e[Len(events)] = Len(bytes)
  /\ \A i \in 0 .. Len(events) : e[i] =< Len(bytes)
  /\ \A i \in 1 .. Len(events) :
       /\ e[i] = e[i - 1] + Len(Frame(events[i]))
       /\ \A j \in 1 .. Len(Frame(events[i])) : bytes[e[i - 1] + j] = Frame(events[i])[j]
Layout(e) == FramesAt(e, sent, stream)

(* The event whose frame is the next to be cut out.                        *)
Coming == sent[Len(received) + 1]

ReceiverPlaces == {"begin", "waiting", "arrived", "deliver", "next", "ended"}
Types ==
  /\ sent \in Seq(PeerEvents) /\ stream \in Seq(Bytes) /\ delivered \in 0 .. Len(stream)
  /\ received \in Seq(Event) /\ lengthToReceive \in Nat
  /\ rxBeginning \in BOOLEAN /\ rxTransformed \in BOOLEAN /\ disposed \in BOOLEAN
  /\ pc \in ReceiverPlaces
  /\ Placed(buffer) /\ Roomy(buffer)

(* The bytes b holds are the last ones delivered.                          *)
Offset(b, p) == delivered - b.back + p
Holds(b) ==
  /\ Length(b) =< delivered
  /\ \A p \in b.front .. b.back - 1 : Byte(b, p) = stream[Offset(b, p) + 1]

(* A frame begins at the front of b.                                       *)
AtHeader(b, e) ==
  /\ Placed(b) /\ b.blocks # <<>> /\ b.back =< Capacity(b)
  /\ b.position = b.front /\ b.front < BlockSize /\ b.marker = -1
  /\ Len(b.blocks) =< Len(buffer.blocks)
  /\ Offset(b, b.front) = e[Len(received)]
  /\ Holds(b)

(* What is found there: the header of the event coming, or nothing.        *)
LEMMA HeaderRead ==
  ASSUME Types, NEW e, Layout(e), Len(received) =< Len(sent), NEW b, AtHeader(b, e)
  PROVE  /\ Len(received) = Len(sent) => HeaderLengths(b) = {} /\ b.back = b.front
         /\ Len(received) < Len(sent) =>
              LET h == Len(BuildHeader(Coming))
              IN  /\ HeaderLengths(b) = IF b.front + h =< b.back THEN {h} ELSE {}
                  /\ b.front + h =< b.back => ReadVariable(GetBytes(b, h), h) = HeaderOf(Coming)
<1>1. /\ b.front \in Nat /\ b.back \in Nat /\ b.position \in Nat /\ b.front =< b.back
      /\ b.position = b.front /\ b.marker = -1 /\ Placed(b)
  BY DEF AtHeader, Placed, Buffers
<1>2. /\ delivered \in Nat /\ Len(received) \in Nat /\ Len(sent) \in Nat /\ Len(stream) \in Nat
      /\ delivered =< Len(stream)
  BY DEF Types
<1>3. e[Len(received)] = delivered - b.back + b.front /\ b.back - b.front =< delivered
  BY DEF AtHeader, Offset, Holds, Length
<1>4. CASE Len(received) = Len(sent)
  <2>1. b.back = b.front
    BY <1>1, <1>2, <1>3, <1>4 DEF Layout, FramesAt
  <2>2. \A j \in 1 .. 5 : ~CanRead(b, j)
    BY <1>1, <2>1 DEF CanRead, Limit
  <2>3. HeaderLengths(b) = {}
    BY <2>2 DEF HeaderLengths, MaxHeader
  <2> QED  BY <1>2, <1>4, <2>1, <2>3
<1>5. CASE Len(received) < Len(sent)
  <2> DEFINE k == Len(received) + 1
             m == Coming
             n == HeaderOf(m)
             h == Len(BuildHeader(m))
  <2>1. k \in 1 .. Len(sent) /\ k - 1 = Len(received) /\ m = sent[k]
    BY <1>2, <1>5 DEF Coming
  <2>2. m \in PeerEvents
    BY <2>1 DEF Types
  <2>3. /\ n \in Nat /\ Quotients(n)[MaxHeader] < HeaderBase /\ h = Digits(n) /\ h \in 1 .. 5
        /\ Len(Frame(m)) = h + Len(m.body) /\ Len(m.body) \in Nat
        /\ \A i \in 1 .. h : Frame(m)[i] = WriteVariable(n)[i]
    BY <2>2, FrameBytes
  <2> HIDE DEF k, m, n, h
  <2>4. \A j \in 1 .. Len(Frame(m)) : stream[e[Len(received)] + j] = Frame(m)[j]
    BY <2>1 DEF Layout, FramesAt
  <2>5. ASSUME NEW i \in 1 .. h, b.position + i - 1 < b.back
        PROVE  Byte(b, b.position + i - 1) = WriteVariable(n)[i]
    <3> DEFINE p == b.position + i - 1
    <3>5. i \in Nat /\ 1 =< i
      <4>1. h \in 1 .. 5
        BY <2>3
      <4> QED  BY <4>1
    <3>1. p \in b.front .. b.back - 1
      BY <1>1, <2>5, <3>5
    <3>2. Byte(b, p) = stream[delivered - b.back + p + 1]
      BY <3>1 DEF AtHeader, Holds, Offset
    <3>3. delivered - b.back + p + 1 = e[Len(received)] + i
      BY <1>1, <1>2, <1>3, <3>5
    <3>4. i \in 1 .. Len(Frame(m))
      BY <2>3
    <3> QED  BY <2>3, <2>4, <3>2, <3>3, <3>4
  <2>6. /\ HeaderLengths(b) = IF b.position + h =< b.back THEN {h} ELSE {}
        /\ b.position + h =< b.back => ReadVariable(GetBytes(b, h), h) = n
    BY <1>1, <2>3, <2>5, HeaderFound
  <2> QED  BY <1>1, <1>2, <1>5, <2>6 DEF m, n, h
<1> QED  BY <1>2, <1>4, <1>5

-----------------------------------------------------------------------------
(* The inductive invariant.                                                *)

(* The receiving thread is between two frames of the loop, or within one.  *)
Receiving == pc \in {"begin", "waiting", "arrived"}

(* The header of the event coming is parsed, its body begins at the front. *)
InBody(e) ==
  /\ Len(received) < Len(sent)
  /\ Offset(buffer, buffer.front) = e[Len(received)] + Len(BuildHeader(Coming))
  /\ lengthToReceive = Len(Coming.body)
  /\ rxTransformed = Coming.transformed

(* The last body is marked to its end.                                     *)
Consumed(e) ==
  /\ buffer.front =< buffer.marker
  /\ Offset(buffer, buffer.marker) = e[Len(received)]

Reading(e) ==
  /\ Receiving /\ rxBeginning => Offset(buffer, buffer.front) = e[Len(received)]
  /\ Receiving /\ ~rxBeginning => InBody(e)
  /\ pc = "deliver" => InBody(e) /\ lengthToReceive =< Length(buffer)
  /\ pc = "next" => Consumed(e)

(* Who holds segments, and when a marker is set.                           *)
Owned ==
  /\ ~disposed => buffer.blocks # <<>>
  /\ disposed => pc = "ended" \/ buffer.blocks = <<>>
  /\ pc = "ended" => disposed
  /\ pc \notin {"next", "ended"} => buffer.marker = -1

(* What is not consumed begins in the first block, with what is parsed.    *)
Near ==
  /\ Receiving /\ rxBeginning => buffer.front < BlockSize
  /\ Receiving /\ ~rxBeginning => buffer.front < BlockSize + Len(BuildHeader(Coming))
  /\ pc = "begin" => \E n \in FrameLengths : buffer.back < BlockSize + n

ReceptionInv ==
  /\ Types
  /\ Owned
  /\ ~disposed => Holds(buffer)
  /\ \E e : Layout(e) /\ Reading(e)
  /\ Near
  /\ Framed
  /\ SegmentsBounded

(* Fewer blocks take no more bytes.                                        *)
LEMMA FewerBlocks ==
  ASSUME NEW m \in Nat, NEW n \in Nat, m =< n
  PROVE  BlockSize * m =< BlockSize * n
<1>1. m = n \/ BlockSize * m + BlockSize =< BlockSize * n
  BY Multiple
<1>2. BlockSize * m \in Int /\ BlockSize * n \in Int
  BY Products
<1> QED  BY <1>1, <1>2, BlockSizePositive

(* The lengths of the frames are numbers.                                  *)
LEMMA FrameLengthsType == Types => FrameLengths \subseteq Nat
<1> SUFFICES ASSUME Types, NEW i \in DOMAIN sent PROVE Len(Frame(sent[i])) \in Nat
  BY DEF FrameLengths
<1>1. sent[i] \in PeerEvents
  BY DEF Types
<1> QED  BY <1>1, FrameBytes

(* The segments bound carries over to a buffer with no more blocks.        *)
LEMMA BoundKept ==
  ASSUME Types, Types', SegmentsBounded, FrameLengths \subseteq FrameLengths',
         Len(buffer'.blocks) =< Len(buffer.blocks)
  PROVE  SegmentsBounded'
<1>1. Len(buffer'.blocks) \in Nat /\ Len(buffer.blocks) \in Nat
  <2>1. buffer'.blocks \in Seq(Segment)
    BY DEF Types, Placed, Buffers
  <2>2. buffer.blocks \in Seq(Segment)
    BY DEF Types, Placed, Buffers
  <2> QED  BY <2>1, <2>2
<1>2. Capacity(buffer') =< Capacity(buffer) /\ Capacity(buffer) \in Int /\ Capacity(buffer') \in Int
  <2>1. Capacity(buffer) \in Int /\ Capacity(buffer') \in Int
    BY <1>1, Products DEF Capacity
  <2>2. Capacity(buffer') =< Capacity(buffer)
    BY <1>1, FewerBlocks DEF Capacity
  <2> QED  BY <2>1, <2>2
<1>3. PICK n \in FrameLengths : Capacity(buffer) =< n + BlockSize * (2 + 2 ^ MaxLevel)
  BY DEF SegmentsBounded
<1>4. n \in Nat /\ BlockSize * (2 + 2 ^ MaxLevel) \in Int
  BY FrameLengthsType, Levels, Power, Products
<1>5. Capacity(buffer') =< n + BlockSize * (2 + 2 ^ MaxLevel)
  BY <1>2, <1>3, <1>4
<1>6. n \in FrameLengths'
  OBVIOUS
<1> QED  BY <1>5, <1>6 DEF SegmentsBounded

(* The received events are sent ones.                                      *)
LEMMA ReceivedCount ==
  ASSUME Types, Framed
  PROVE  Len(received) \in Nat /\ Len(sent) \in Nat /\ Len(received) =< Len(sent)
BY DEF Types, Framed, IsPrefix

(* The event coming is one of those sent.                                  *)
LEMMA ComingType ==
  ASSUME Types, Len(received) < Len(sent)
  PROVE  /\ Coming \in PeerEvents /\ Len(received) + 1 \in DOMAIN sent
         /\ Len(Frame(Coming)) \in FrameLengths
<1>1. Len(received) + 1 \in 1 .. Len(sent)
  BY DEF Types
<1> QED  BY <1>1 DEF Types, Coming, FrameLengths

(* Parsing what lies at the front of a buffer keeps the invariant.         *)
LEMMA ParseStep ==
  ASSUME ReceptionInv, ~disposed, NEW e, Layout(e), NEW b, AtHeader(b, e),
         Parse(b) \/ NoHeader(b),
         UNCHANGED <<peerVars, delivered, received, disposed>>
  PROVE  ReceptionInv'
<1> USE DEF peerVars
<1>1. Types /\ Framed /\ SegmentsBounded
  BY DEF ReceptionInv
<1>2. /\ Len(received) \in Nat /\ Len(sent) \in Nat /\ Len(received) =< Len(sent)
      /\ delivered \in Nat
  BY <1>1, ReceivedCount DEF Types
<1>3. /\ Placed(b) /\ b.blocks # <<>> /\ b.back =< Capacity(b)
      /\ b.position = b.front /\ b.front < BlockSize /\ b.marker = -1
      /\ Len(b.blocks) =< Len(buffer.blocks)
      /\ Offset(b, b.front) = e[Len(received)]
      /\ Holds(b)
      /\ b.front \in Nat /\ b.back \in Nat /\ b.front =< b.back
  BY DEF AtHeader, Placed, Buffers
<1>4. Layout(e)' /\ FrameLengths' = FrameLengths /\ Framed' /\ Coming' = Coming
  <2>1. sent' = sent /\ stream' = stream /\ received' = received
    OBVIOUS
  <2>2. Layout(e)'
    BY <2>1 DEF Layout
  <2>3. FrameLengths' = FrameLengths
    BY <2>1 DEF FrameLengths
  <2>4. Framed' /\ Coming' = Coming
    BY <1>1, <2>1 DEF Framed, Coming
  <2> QED  BY <2>2, <2>3, <2>4
<1>5. CASE NoHeader(b)
  <2>1. /\ Placed(buffer')
        /\ buffer' = [b EXCEPT !.position = b.front, !.current = Boundaries(b.front)]
        /\ rxBeginning' = TRUE /\ pc' = "begin"
        /\ lengthToReceive' = lengthToReceive /\ rxTransformed' = rxTransformed
        /\ HeaderLengths(b) = {}
    BY <1>3, <1>5, RewindPlaced DEF NoHeader, headerVars
  <2>2. /\ buffer'.blocks = b.blocks /\ buffer'.front = b.front /\ buffer'.back = b.back
        /\ buffer'.marker = b.marker
    BY <1>3, <2>1 DEF Placed, Buffers
  <2>3. Types'
    BY <1>1, <1>3, <2>1, <2>2 DEF Types, ReceiverPlaces, Roomy, Capacity
  <2>4. Owned'
    BY <1>3, <2>1, <2>2 DEF Owned
  <2>5. Holds(buffer)'
    BY <1>3, <2>2 DEF Holds, Length, Offset, Byte
  <2>6. Reading(e)'
    BY <1>3, <2>1, <2>2 DEF Reading, Receiving, Offset
  <2>7. Near'
    <3>1. buffer'.front < BlockSize
      BY <1>3, <2>2
    <3>2. CASE Len(received) = Len(sent)
      <4>1. b.back = b.front
        BY <1>1, <1>2, <3>2, HeaderRead
      <4>2. 0 \in FrameLengths' /\ buffer'.back < BlockSize + 0
        BY <1>3, <2>2, <4>1, BlockSizePositive DEF FrameLengths
      <4> QED  BY <2>1, <3>1, <4>2 DEF Near, Receiving
    <3>3. CASE Len(received) < Len(sent)
      <4> DEFINE h == Len(BuildHeader(Coming))
      <4>1. HeaderLengths(b) = IF b.front + h =< b.back THEN {h} ELSE {}
        BY <1>1, <1>2, <3>3, HeaderRead
      <4>2. Coming \in PeerEvents /\ Len(Frame(Coming)) \in FrameLengths
        BY <1>1, <3>3, ComingType
      <4>3. h \in 1 .. 5 /\ Len(Frame(Coming)) = h + Len(Coming.body) /\ Len(Coming.body) \in Nat
        BY <4>2, FrameBytes
      <4>4. ~(b.front + h =< b.back)
        BY <2>1, <4>1
      <4>5. buffer'.back < BlockSize + Len(Frame(Coming))
        BY <1>3, <2>2, <4>3, <4>4, BlockSizePositive
      <4>6. \E n \in FrameLengths' : buffer'.back < BlockSize + n
        BY <1>4, <4>2, <4>5
      <4> QED  BY <2>1, <3>1, <4>6 DEF Near, Receiving
    <3> QED  BY <1>2, <3>2, <3>3
  <2>8. SegmentsBounded'
    BY <1>1, <1>3, <1>4, <2>2, <2>3, BoundKept
  <2> QED  BY <1>4, <2>3, <2>4, <2>5, <2>6, <2>7, <2>8 DEF ReceptionInv
<1>6. CASE Parse(b)
  <2>1. PICK h \in HeaderLengths(b) :
          LET value == ReadVariable(GetBytes(b, h), h)
              shrunk == Shrink(Skip(b, h), h)
          IN  /\ buffer' = shrunk
              /\ lengthToReceive' = value \div 2
              /\ rxTransformed' = (value % 2 = 1)
              /\ Await(shrunk, value \div 2)
    BY <1>6 DEF Parse
  <2>2. Len(received) < Len(sent)
    BY <1>1, <1>2, HeaderRead
  <2>3. Coming \in PeerEvents /\ Len(Frame(Coming)) \in FrameLengths
    BY <1>1, <2>2, ComingType
  <2>4. /\ h = Len(BuildHeader(Coming)) /\ b.front + h =< b.back
        /\ ReadVariable(GetBytes(b, h), h) = HeaderOf(Coming)
    BY <1>1, <1>2, <2>2, HeaderRead
  <2>5. /\ h \in 1 .. 5 /\ h \in Nat
        /\ Len(Frame(Coming)) = h + Len(Coming.body) /\ Len(Coming.body) \in Nat
        /\ HeaderOf(Coming) \div 2 = Len(Coming.body)
        /\ (HeaderOf(Coming) % 2 = 1) = Coming.transformed
        /\ Coming.transformed \in BOOLEAN
    <3> DEFINE m == Coming
    <3>1. /\ Len(BuildHeader(m)) \in 1 .. 5
          /\ Len(Frame(m)) = Len(BuildHeader(m)) + Len(m.body) /\ m.body \in Seq(Bytes)
          /\ HeaderOf(m) \div 2 = Len(m.body)
          /\ (HeaderOf(m) % 2 = 1) <=> m.transformed
          /\ m.transformed \in BOOLEAN
      BY <2>3, FrameBytes
    <3> HIDE DEF m
    <3>2. h = Len(BuildHeader(m))
      BY <2>4 DEF m
    <3> QED  BY <3>1, <3>2 DEF m
  <2> DEFINE s == Skip(b, h)
             c == Shrink(s, h)
  <2>6. /\ Placed(s)
        /\ s = [b EXCEPT !.position = b.position + h, !.current = Boundaries(b.position + h)]
    BY <1>3, <2>4, <2>5, SkipPlaced
  <2>7. /\ s.blocks = b.blocks /\ s.front = b.front /\ s.back = b.back /\ s.marker = b.marker
        /\ s.position = s.front + h
    BY <1>3, <2>6 DEF Placed, Buffers
  <2>8. Placed(c) /\ c = [s EXCEPT !.front = s.front + h]
    BY <2>5, <2>6, <2>7, ShrinkPlaced
  <2>9. /\ c.blocks = b.blocks /\ c.front = b.front + h /\ c.back = b.back /\ c.marker = -1
    BY <1>3, <2>6, <2>7, <2>8 DEF Placed, Buffers
  <2> HIDE DEF s, c
  <2>10. /\ buffer' = c
         /\ lengthToReceive' = Len(Coming.body)
         /\ rxTransformed' = Coming.transformed
         /\ Await(c, Len(Coming.body))
    BY <2>1, <2>4, <2>5 DEF c, s
  <2>11. \/ /\ Length(c) < Len(Coming.body)
            /\ pc' = "begin" /\ rxBeginning' = FALSE
         \/ /\ Len(Coming.body) =< Length(c)
            /\ pc' = "deliver" /\ rxBeginning' = rxBeginning
    BY <1>3, <2>5, <2>9, <2>10, SMTT(30) DEF Await, Length
  <2>12. Types'
    BY <1>1, <1>3, <2>5, <2>8, <2>9, <2>10, <2>11 DEF Types, ReceiverPlaces, Roomy, Capacity
  <2>13. Owned'
    BY <1>3, <2>9, <2>10, <2>11 DEF Owned
  <2>14. Holds(buffer)'
    <3>1. /\ b.back - b.front =< delivered
          /\ \A p \in b.front .. b.back - 1 :
               b.blocks[p \div BlockSize + 1][p % BlockSize] = stream[delivered - b.back + p + 1]
      BY <1>3 DEF Holds, Length, Offset, Byte
    <3>2. b.back - (b.front + h) =< delivered
      BY <1>2, <1>3, <2>5, <3>1
    <3>3. \A p \in b.front + h .. b.back - 1 : p \in b.front .. b.back - 1
      BY <1>3, <2>5
    <3> QED  BY <2>9, <2>10, <3>1, <3>2, <3>3 DEF Holds, Length, Offset, Byte
  <2>15. InBody(e)'
    <3>1. /\ buffer'.front = b.front + h /\ buffer'.back = b.back
          /\ delivered' = delivered /\ received' = received /\ sent' = sent
      BY <2>9, <2>10
    <3>2. delivered' - buffer'.back + buffer'.front = e[Len(received)] + h
      BY <1>2, <1>3, <2>5, <3>1, SMTT(30) DEF Offset
    <3> QED  BY <1>4, <2>2, <2>4, <2>10, <3>1, <3>2 DEF InBody, Offset
  <2>16. Reading(e)'
    BY <2>10, <2>11, <2>15 DEF Reading, Receiving
  <2>17. Near'
    <3>1. buffer'.front < BlockSize + Len(BuildHeader(Coming))'
      BY <1>3, <1>4, <2>4, <2>5, <2>9, <2>10, BlockSizePositive
    <3>2. pc' = "begin" => buffer'.back < BlockSize + Len(Frame(Coming))
      BY <1>3, <2>5, <2>9, <2>10, <2>11, BlockSizePositive, SMTT(30) DEF Length
    <3>3. pc' = "begin" => \E n \in FrameLengths' : buffer'.back < BlockSize + n
      BY <1>4, <2>3, <3>2
    <3> QED  BY <2>11, <3>1, <3>3 DEF Near, Receiving
  <2>18. SegmentsBounded'
    BY <1>1, <1>3, <1>4, <2>9, <2>10, <2>12, BoundKept
  <2> QED  BY <1>4, <2>12, <2>13, <2>14, <2>16, <2>17, <2>18 DEF ReceptionInv
<1> QED  BY <1>5, <1>6

(* A session begins with one empty block, and with nothing sent.           *)
LEMMA InitReception == ReceptionInit => ReceptionInv
<1> SUFFICES ASSUME ReceptionInit PROVE ReceptionInv
  OBVIOUS
<1> USE DEF ReceptionInit
<1>1. /\ NewBuffer.blocks = <<Acquire>> /\ NewBuffer.front = 0 /\ NewBuffer.back = 0
      /\ NewBuffer.position = 0 /\ NewBuffer.current = 0 /\ NewBuffer.marker = -1
      /\ NewBuffer.level = 0
  BY DEF NewBuffer
<1>2. NewBuffer \in Buffers
  <2>1. <<Acquire>> \in Seq(Segment)
    BY AcquireType
  <2> QED  BY <2>1, Levels DEF NewBuffer, Buffers
<1>3. Placed(NewBuffer)
  BY <1>1, <1>2 DEF Placed, Boundaries
<1>4. Len(NewBuffer.blocks) = 1 /\ NewBuffer.blocks # <<>>
  BY <1>1
<1>5. Capacity(NewBuffer) = BlockSize
  BY <1>4, BlockSizePositive DEF Capacity
<1>6. Types
  <2>1. Roomy(NewBuffer)
    BY <1>1, <1>5, BlockSizePositive DEF Roomy
  <2>2. <<>> \in Seq(PeerEvents) /\ <<>> \in Seq(Bytes) /\ <<>> \in Seq(Event) /\ 0 \in 0 .. Len(<<>>)
    OBVIOUS
  <2> QED  BY <1>3, <2>1, <2>2 DEF Types, ReceiverPlaces
<1>7. Owned
  BY <1>1, <1>4 DEF Owned
<1>8. Holds(buffer)
  BY <1>1 DEF Holds, Length
<1>9. \E e : Layout(e) /\ Reading(e)
  <2> DEFINE e == [i \in 0 .. 0 |-> 0]
  <2>1. Layout(e)
    BY DEF Layout, FramesAt
  <2>2. Reading(e)
    BY <1>1 DEF Reading, Receiving, Offset
  <2> QED  BY <2>1, <2>2
<1>10. 0 \in FrameLengths
  BY DEF FrameLengths
<1>11. Near
  BY <1>1, <1>10, BlockSizePositive DEF Near, Receiving
<1>12. Framed
  BY DEF Framed, IsPrefix
<1>13. SegmentsBounded
  <2>1. 2 ^ MaxLevel \in Nat
    BY Levels, Power
  <2>2. BlockSize * 1 =< BlockSize * (2 + 2 ^ MaxLevel) /\ BlockSize * (2 + 2 ^ MaxLevel) \in Int
    BY <2>1, FewerBlocks, Products
  <2> QED  BY <1>5, <1>10, <2>2, BlockSizePositive DEF SegmentsBounded
<1> QED  BY <1>6, <1>7, <1>8, <1>9, <1>11, <1>12, <1>13 DEF ReceptionInv

(* Another frame at the end of the stream.                                 *)
LEMMA LayoutGrows ==
  ASSUME Types, NEW e, Layout(e), NEW m \in PeerEvents,
         sent' = Append(sent, m), stream' = stream \o Frame(m)
  PROVE  \E f : /\ Layout(f)'
               /\ \A i \in 0 .. Len(sent) : f[i] = e[i]
<1>0. PICK n, k, l, f : /\ n = Len(sent) /\ k = Len(stream) /\ l = Len(Frame(m))
                        /\ f = [i \in 0 .. n + 1 |-> IF i =< n THEN e[i] ELSE k + l]
  OBVIOUS
<1>1. /\ sent \in Seq(PeerEvents) /\ stream \in Seq(Bytes) /\ n \in Nat /\ k \in Nat
  BY <1>0 DEF Types
<1>2. Frame(m) \in Seq(Bytes) /\ l \in Nat
  BY <1>0, FrameBytes
<1>3. /\ sent' \in Seq(PeerEvents) /\ Len(sent') = n + 1
      /\ \A i \in 1 .. n : sent'[i] = sent[i]
      /\ sent'[n + 1] = m
  BY <1>0, <1>1
<1>4. /\ stream' \in Seq(Bytes) /\ Len(stream') = k + l
      /\ \A i \in 1 .. k + l : stream'[i] = IF i <= k THEN stream[i] ELSE Frame(m)[i - k]
  BY <1>0, <1>1, <1>2, ConcatProperties
<1>5. /\ e \in [0 .. n -> Nat] /\ e[0] = 0 /\ e[n] = k
      /\ \A i \in 0 .. n : e[i] =< k
      /\ \A i \in 1 .. n :
           /\ e[i] = e[i - 1] + Len(Frame(sent[i]))
           /\ \A j \in 1 .. Len(Frame(sent[i])) : stream[e[i - 1] + j] = Frame(sent[i])[j]
  BY <1>0 DEF Layout, FramesAt
<1>6. /\ f \in [0 .. n + 1 -> Nat] /\ f[n + 1] = k + l
      /\ \A i \in 0 .. n : f[i] = e[i]
      /\ f[0] = 0
      /\ \A i \in 0 .. n + 1 : f[i] =< k + l
  <2>1. k + l \in Nat /\ k =< k + l /\ n + 1 \in 0 .. n + 1 /\ ~(n + 1 =< n) /\ 0 \in 0 .. n
    BY <1>1, <1>2
  <2>2. ASSUME NEW i \in 0 .. n + 1
        PROVE  /\ f[i] = IF i =< n THEN e[i] ELSE k + l
               /\ i =< n => i \in 0 .. n
    BY <1>0, <1>1
  <2>3. f = [i \in 0 .. n + 1 |-> f[i]]
    BY <1>0
  <2>4. \A i \in 0 .. n : i \in 0 .. n + 1 /\ i =< n
    BY <1>1
  <2>5. \A i \in 0 .. n : f[i] = e[i]
    BY <2>2, <2>4
  <2>6. ASSUME NEW i \in 0 .. n + 1
        PROVE  f[i] \in Nat /\ f[i] =< k + l
    <3>1. CASE i =< n
      <4>1. i \in 0 .. n /\ f[i] = e[i]
        BY <2>2, <3>1
      <4>2. e[i] \in Nat /\ e[i] =< k
        BY <4>1, <1>5
      <4> QED  BY <4>1, <4>2, <1>1, <1>2
    <3>2. CASE ~(i =< n)
      BY <2>1, <2>2, <3>2
    <3> QED  BY <3>1, <3>2
  <2> QED  BY <1>5, <2>1, <2>2, <2>3, <2>5, <2>6
<1>7. ASSUME NEW i \in 1 .. n + 1
      PROVE  /\ f[i] = f[i - 1] + Len(Frame(sent'[i]))
             /\ \A j \in 1 .. Len(Frame(sent'[i])) : stream'[f[i - 1] + j] = Frame(sent'[i])[j]
  <2>1. CASE i \in 1 .. n
    <3>1. /\ sent'[i] = sent[i] /\ f[i] = e[i] /\ f[i - 1] = e[i - 1] /\ i - 1 \in 0 .. n
          /\ e[i] \in Nat /\ e[i - 1] \in Nat /\ e[i] =< k
      <4>1. i \in 0 .. n /\ i - 1 \in 0 .. n
        BY <1>1, <2>1
      <4> QED  BY <4>1, <1>3, <1>5, <1>6, <2>1
    <3> DEFINE g == Frame(sent[i])
    <3>2. g \in Seq(Bytes) /\ Len(g) \in Nat
      <4>1. sent[i] \in PeerEvents
        BY <1>0, <1>1, <2>1
      <4>2. g \in Seq(Bytes)
        BY <4>1, FrameBytes
      <4> QED  BY <4>2
    <3>3. /\ e[i] = e[i - 1] + Len(g)
          /\ \A j \in 1 .. Len(g) : stream[e[i - 1] + j] = g[j]
      BY <1>5, <2>1
    <3> HIDE DEF g
    <3>4. ASSUME NEW j \in 1 .. Len(g)
          PROVE  stream'[f[i - 1] + j] = g[j]
      <4> DEFINE x == e[i - 1] + j
      <4>1. x \in 1 .. k + l /\ x <= k
        <5>1. e[i - 1] + Len(g) =< k
          BY <3>1, <3>3
        <5> HIDE DEF g
        <5>2. j \in Nat /\ 1 =< j /\ j =< Len(g)
          BY <3>2
        <5>3. e[i - 1] \in Nat /\ k \in Nat /\ l \in Nat /\ Len(g) \in Nat
          BY <1>1, <1>2, <3>1, <3>2
        <5> QED  BY <5>1, <5>2, <5>3
      <4>2. stream[x] = g[j]
        BY <3>3
      <4> HIDE DEF x
      <4>3. stream'[x] = g[j]
        BY <1>4, <4>1, <4>2
      <4> QED  BY <3>1, <4>3 DEF x
    <3> QED  BY <3>1, <3>3, <3>4 DEF g
  <2>2. CASE i = n + 1
    <3>1. sent'[i] = m /\ f[i] = k + l /\ f[i - 1] = k
      BY <1>1, <1>3, <1>5, <1>6, <2>2
    <3>2. ASSUME NEW j \in 1 .. l
          PROVE  stream'[k + j] = Frame(m)[j]
      <4> DEFINE x == k + j
      <4>1. x \in 1 .. k + l /\ ~(x <= k) /\ x - k = j
        BY <1>1, <1>2
      <4> HIDE DEF x
      <4>2. stream'[x] = Frame(m)[j]
        BY <1>4, <4>1
      <4> QED  BY <4>2 DEF x
    <3> QED  BY <1>0, <3>1, <3>2
  <2>3. i \in 1 .. n \/ i = n + 1
    BY <1>1
  <2> QED  BY <2>1, <2>2, <2>3
<1>8. Layout(f)'
  <2>1. Len(sent') = n + 1 /\ Len(stream') = k + l
    BY <1>3, <1>4
  <2>2. f \in [0 .. Len(sent') -> Nat] /\ f[0] = 0 /\ f[Len(sent')] = Len(stream')
    BY <2>1, <1>6
  <2>3. \A i \in 0 .. Len(sent') : f[i] =< Len(stream')
    BY <2>1, <1>6
  <2>4. \A i \in 1 .. Len(sent') :
          /\ f[i] = f[i - 1] + Len(Frame(sent'[i]))
          /\ \A j \in 1 .. Len(Frame(sent'[i])) : stream'[f[i - 1] + j] = Frame(sent'[i])[j]
    BY <2>1, <1>7
  <2> QED  BY <2>2, <2>3, <2>4, Zenon DEF Layout, FramesAt
<1> QED  BY <1>0, <1>6, <1>8

(* What the peer sends lies after all that is held, parsed or cut out.     *)
LEMMA PeerSendsStep == ReceptionInv /\ PeerSends => ReceptionInv'
<1> SUFFICES ASSUME ReceptionInv, PeerSends PROVE ReceptionInv'
  OBVIOUS
<1>1. Types /\ Framed /\ SegmentsBounded /\ Near /\ Owned
  BY DEF ReceptionInv
<1>2. PICK m \in PeerEvents : sent' = Append(sent, m) /\ stream' = stream \o Frame(m)
  BY DEF PeerSends
<1>3. UNCHANGED <<delivered, buffer, rxBeginning, lengthToReceive, rxTransformed, received, disposed, pc>>
  BY DEF PeerSends, headerVars
<1>4. PICK e : Layout(e) /\ Reading(e)
  BY DEF ReceptionInv
<1>5. PICK f : Layout(f)' /\ \A i \in 0 .. Len(sent) : f[i] = e[i]
  BY <1>1, <1>2, <1>4, LayoutGrows
<1>6. /\ Len(received) \in Nat /\ Len(sent) \in Nat /\ Len(received) =< Len(sent)
  BY <1>1, ReceivedCount
<1>7. /\ sent \in Seq(PeerEvents) /\ sent' \in Seq(PeerEvents) /\ Len(sent') = Len(sent) + 1
      /\ \A i \in 1 .. Len(sent) : sent'[i] = sent[i]
  BY <1>1, <1>2 DEF Types
<1>8. /\ stream' \in Seq(Bytes) /\ Len(stream) =< Len(stream')
      /\ \A i \in 1 .. Len(stream) : stream'[i] = stream[i]
  <2>1. /\ Frame(m) \in Seq(Bytes) /\ stream \in Seq(Bytes)
    BY <1>1, FrameBytes DEF Types
  <2>2. /\ stream \o Frame(m) \in Seq(Bytes)
        /\ Len(stream \o Frame(m)) = Len(stream) + Len(Frame(m))
        /\ \A i \in 1 .. Len(stream) + Len(Frame(m)) :
             (stream \o Frame(m))[i] = IF i <= Len(stream) THEN stream[i] ELSE Frame(m)[i - Len(stream)]
    BY <2>1, ConcatProperties
  <2> QED  BY <1>2, <2>1, <2>2
<1>9. Types'
  BY <1>1, <1>3, <1>7, <1>8 DEF Types
<1>10. Owned'
  BY <1>1, <1>3 DEF Owned
<1>11. Len(received) < Len(sent) => Coming' = Coming
  BY <1>3, <1>6, <1>7 DEF Coming
<1>12. ASSUME ~disposed
       PROVE  Holds(buffer)'
  <2>1. Holds(buffer)
    BY <1>12 DEF ReceptionInv
  <2>2. /\ buffer.front \in Nat /\ buffer.back \in Nat /\ delivered \in Nat /\ delivered =< Len(stream)
        /\ Len(stream) \in Nat
    BY <1>1 DEF Types, Placed, Buffers
  <2>3. ASSUME NEW p \in buffer.front .. buffer.back - 1
        PROVE  stream'[Offset(buffer, p) + 1] = stream[Offset(buffer, p) + 1]
    <3>1. Offset(buffer, p) + 1 \in 1 .. Len(stream)
      BY <2>1, <2>2 DEF Holds, Offset, Length
    <3> QED  BY <3>1, <1>8
  <2> QED  BY <1>3, <2>1, <2>3 DEF Holds, Offset, Length, Byte
<1>13. Reading(f)'
  <2>1. f[Len(received)] = e[Len(received)]
    BY <1>5, <1>6
  <2>2. InBody(e) => InBody(f)'
    BY <1>3, <1>6, <1>7, <1>11, <2>1 DEF InBody, Offset
  <2>3. Consumed(e) => Consumed(f)'
    BY <1>3, <2>1 DEF Consumed, Offset
  <2> QED  BY <1>3, <1>4, <2>1, <2>2, <2>3 DEF Reading, Receiving, Offset
<1>14. FrameLengths \subseteq FrameLengths'
  BY <1>7 DEF FrameLengths
<1>15. Near'
  <2>1. Receiving /\ ~rxBeginning => Coming' = Coming
    BY <1>4, <1>11 DEF Reading, InBody
  <2> QED  BY <1>1, <1>3, <1>14, <2>1 DEF Near, Receiving
<1>16. Framed'
  <2>1. /\ Len(received) =< Len(sent) /\ \A i \in 1 .. Len(received) : received[i] = sent[i]
    <3>1. sent \in Seq(Event) /\ received \in Seq(Event)
      BY <1>1, PeerEventsAssumption DEF Types
    <3> QED  BY <1>1, <3>1, PrefixMeans DEF Framed
  <2>2. sent' \in Seq(Event) /\ received \in Seq(Event)
    BY <1>1, <1>7, PeerEventsAssumption DEF Types
  <2>3. Len(received) =< Len(sent') /\ \A i \in 1 .. Len(received) : received[i] = sent'[i]
    BY <1>6, <1>7, <2>1
  <2>4. IsPrefix(received, sent')
    BY <2>2, <2>3, PrefixMeans
  <2> QED  BY <1>3, <2>4 DEF Framed
<1>17. SegmentsBounded'
  <2>1. Len(buffer'.blocks) =< Len(buffer.blocks)
    BY <1>1, <1>3 DEF Types, Placed, Buffers
  <2> QED  BY <1>1, <1>9, <1>14, <2>1, BoundKept
<1> QED  BY <1>3, <1>5, <1>9, <1>10, <1>12, <1>13, <1>15, <1>16, <1>17 DEF ReceptionInv

(* What a step that leaves the peer and the received events alone keeps.   *)
LEMMA Unsent ==
  ASSUME ReceptionInv, UNCHANGED <<sent, stream, received>>
  PROVE  /\ \A e : Layout(e) => Layout(e)'
         /\ FrameLengths' = FrameLengths
         /\ Framed'
         /\ Coming' = Coming
<1>1. sent' = sent /\ stream' = stream /\ received' = received
  OBVIOUS
<1>2. \A e : Layout(e) => Layout(e)'
  BY <1>1 DEF Layout
<1>3. FrameLengths' = FrameLengths
  BY <1>1 DEF FrameLengths
<1>4. Framed' /\ Coming' = Coming
  BY <1>1 DEF Framed, Coming, ReceptionInv
<1> QED  BY <1>2, <1>3, <1>4

(* The end of the receiving thread.                                        *)
LEMMA EndStep ==
  ASSUME ReceptionInv, disposed, pc' = "ended",
         UNCHANGED <<peerVars, delivered, buffer, rxBeginning, headerVars, received, disposed>>
  PROVE  ReceptionInv'
<1> USE DEF peerVars, headerVars
<1>1. Types /\ SegmentsBounded
  BY DEF ReceptionInv
<1>2. PICK e : Layout(e) /\ Reading(e)
  BY DEF ReceptionInv
<1>3. Layout(e)' /\ FrameLengths' = FrameLengths /\ Framed'
  BY <1>2, Unsent
<1>4. Types'
  BY <1>1 DEF Types, ReceiverPlaces
<1>5. Owned' /\ Reading(e)' /\ Near'
  BY DEF Owned, Reading, Receiving, Near
<1>6. SegmentsBounded'
  BY <1>1, <1>3 DEF SegmentsBounded
<1> QED  BY <1>3, <1>4, <1>5, <1>6 DEF ReceptionInv

(* Blocks are added for the next receive only up to the room it asks for.  *)
LEMMA BeginReceiveStep == ReceptionInv /\ BeginReceive => ReceptionInv'
<1> SUFFICES ASSUME ReceptionInv, BeginReceive PROVE ReceptionInv'
  OBVIOUS
<1>1. /\ pc = "begin" /\ buffer' = WithRoom(buffer)
      /\ pc' = IF disposed THEN "ended" ELSE "waiting"
      /\ sent' = sent /\ stream' = stream /\ delivered' = delivered /\ received' = received
      /\ rxBeginning' = rxBeginning /\ lengthToReceive' = lengthToReceive
      /\ rxTransformed' = rxTransformed /\ disposed' = disposed
  BY DEF BeginReceive, peerVars, headerVars
<1>2. Types /\ SegmentsBounded /\ Owned /\ Near
  BY DEF ReceptionInv
<1>3. PICK e : Layout(e) /\ Reading(e)
  BY DEF ReceptionInv
<1>4. Layout(e)' /\ FrameLengths' = FrameLengths /\ Framed' /\ Coming' = Coming
  BY <1>1, <1>3, Unsent
<1>5. Placed(buffer) /\ Roomy(buffer)
  BY <1>2 DEF Types
<1>6. /\ Placed(buffer') /\ Roomy(buffer')
      /\ buffer' = [buffer EXCEPT !.blocks = buffer'.blocks, !.level = buffer'.level]
      /\ Len(buffer.blocks) =< Len(buffer'.blocks)
      /\ \A p \in Nat : p < Capacity(buffer) => Byte(buffer', p) = Byte(buffer, p)
      /\ \/ buffer'.blocks = buffer.blocks
         \/ Capacity(buffer') =< buffer.back + BlockSize * (1 + 2 ^ MaxLevel)
  BY <1>1, <1>5, RoomPlaced
<1>7. /\ buffer'.front = buffer.front /\ buffer'.back = buffer.back
      /\ buffer'.marker = buffer.marker
  BY <1>5, <1>6 DEF Placed, Buffers
<1>8. /\ buffer.front \in Nat /\ buffer.back \in Nat /\ buffer.blocks \in Seq(Segment)
      /\ Capacity(buffer) \in Int
  <2>1. buffer.front \in Nat /\ buffer.back \in Nat /\ buffer.blocks \in Seq(Segment)
    BY <1>5 DEF Placed, Buffers
  <2>2. Len(buffer.blocks) \in Int
    BY <2>1
  <2> QED  BY <2>1, <2>2, Products DEF Capacity
<1>9. Types'
  BY <1>1, <1>2, <1>6 DEF Types, ReceiverPlaces
<1>10. ASSUME ~disposed
       PROVE  buffer'.blocks # <<>> /\ Holds(buffer)'
  <2>1. buffer.back =< Capacity(buffer) /\ Holds(buffer) /\ buffer.blocks # <<>>
    BY <1>2, <1>5, <1>10 DEF ReceptionInv, Roomy, Owned
  <2>2. \A p \in buffer.front .. buffer.back - 1 : Byte(buffer', p) = Byte(buffer, p)
    <3> SUFFICES ASSUME NEW p \in buffer.front .. buffer.back - 1
                 PROVE  p \in Nat /\ p < Capacity(buffer)
      BY <1>6
    <3> QED  BY <1>8, <2>1
  <2>3. Holds(buffer)'
    BY <1>1, <1>7, <2>1, <2>2 DEF Holds, Offset, Length
  <2>4. buffer'.blocks # <<>>
    <3>1. Len(buffer.blocks) \in Nat /\ Len(buffer.blocks) # 0
      BY <1>8, <2>1
    <3> SUFFICES ASSUME buffer'.blocks = <<>> PROVE FALSE
      OBVIOUS
    <3>2. Len(buffer'.blocks) = 0
      OBVIOUS
    <3> QED  BY <1>6, <3>1, <3>2
  <2> QED  BY <2>3, <2>4
<1>11. Owned'
  BY <1>1, <1>2, <1>7, <1>10 DEF Owned
<1>12. Reading(e)'
  BY <1>1, <1>3, <1>4, <1>7 DEF Reading, Receiving, InBody, Offset
<1>13. Near'
  BY <1>1, <1>2, <1>4, <1>7 DEF Near, Receiving
<1>14. SegmentsBounded'
  <2>1. CASE buffer'.blocks = buffer.blocks
    <3>1. Len(buffer'.blocks) =< Len(buffer.blocks)
      <4>1. Len(buffer.blocks) \in Nat
        BY <1>8
      <4> QED  BY <2>1, <4>1
    <3> QED  BY <1>2, <1>4, <1>9, <3>1, BoundKept
  <2>2. CASE Capacity(buffer') =< buffer.back + BlockSize * (1 + 2 ^ MaxLevel)
    <3>1. PICK n \in FrameLengths : buffer.back < BlockSize + n
      BY <1>1, <1>2 DEF Near
    <3>2. n \in Nat
      BY <1>2, FrameLengthsType
    <3> DEFINE x == 1 + 2 ^ MaxLevel
    <3>3. x \in Int /\ 2 + 2 ^ MaxLevel = 1 + x
      BY Levels, Power
    <3>4. BlockSize * (1 + x) = BlockSize * 1 + BlockSize * x /\ BlockSize * x \in Int
      BY <3>3, Distribute, Products
    <3>5. BlockSize * 1 = BlockSize
      BY BlockSizePositive
    <3>6. Capacity(buffer') \in Int
      <4>1. buffer'.blocks \in Seq(Segment)
        BY <1>6 DEF Placed, Buffers
      <4>2. Len(buffer'.blocks) \in Int
        BY <4>1
      <4> QED  BY <4>2, Products DEF Capacity
    <3>7. Capacity(buffer') =< buffer.back + BlockSize * x
      BY <2>2
    <3>8. Capacity(buffer') =< n + BlockSize * (1 + x)
      <4> HIDE DEF x
      <4> QED  BY <1>8, <3>1, <3>2, <3>4, <3>5, <3>6, <3>7, BlockSizePositive
    <3>9. Capacity(buffer') =< n + BlockSize * (2 + 2 ^ MaxLevel)
      BY <3>3, <3>8
    <3> QED  BY <1>4, <3>9 DEF SegmentsBounded
  <2> QED  BY <1>6, <2>1, <2>2
<1> QED  BY <1>1, <1>4, <1>9, <1>10, <1>11, <1>12, <1>13, <1>14 DEF ReceptionInv

(* What arrives follows in the buffer what was delivered before it.        *)
LEMMA ReceiveStep == ReceptionInv /\ Receive => ReceptionInv'
<1> SUFFICES ASSUME ReceptionInv, Receive PROVE ReceptionInv'
  OBVIOUS
<1>1. PICK n \in 1 .. Len(stream) - delivered :
        /\ n =< Room(buffer)
        /\ buffer' = Stretch(Filled(buffer, SubSeq(stream, delivered + 1, delivered + n)), n)
        /\ delivered' = delivered + n
  BY DEF Receive
<1>2. /\ pc = "waiting" /\ ~disposed /\ pc' = "arrived"
      /\ sent' = sent /\ stream' = stream /\ received' = received
      /\ rxBeginning' = rxBeginning /\ lengthToReceive' = lengthToReceive
      /\ rxTransformed' = rxTransformed /\ disposed' = disposed
  BY DEF Receive, peerVars, headerVars
<1>3. Types /\ SegmentsBounded /\ Owned /\ Near /\ Holds(buffer)
  BY <1>2 DEF ReceptionInv
<1>4. PICK e : Layout(e) /\ Reading(e)
  BY DEF ReceptionInv
<1>5. Layout(e)' /\ FrameLengths' = FrameLengths /\ Framed' /\ Coming' = Coming
  BY <1>2, <1>4, Unsent
<1>6. /\ stream \in Seq(Bytes) /\ Len(stream) \in Nat /\ delivered \in Nat
      /\ n \in Nat /\ 1 =< n /\ delivered + n =< Len(stream)
  BY <1>3 DEF Types
<1>7. /\ Placed(buffer) /\ buffer.front \in Nat /\ buffer.back \in Nat /\ buffer.front =< buffer.back
      /\ Len(buffer.blocks) \in Nat /\ Capacity(buffer) \in Int
  <2>1. /\ Placed(buffer) /\ buffer.front \in Nat /\ buffer.back \in Nat
        /\ buffer.front =< buffer.back /\ buffer.blocks \in Seq(Segment)
    BY <1>3 DEF Types, Placed, Buffers
  <2>2. Len(buffer.blocks) \in Nat
    BY <2>1
  <2>3. Capacity(buffer) \in Int
    <3>1. PICK m : m = Len(buffer.blocks)
      OBVIOUS
    <3>2. m \in Int
      BY <2>2, <3>1
    <3>3. BlockSize * m \in Int
      BY <3>2, Products
    <3> QED  BY <3>1, <3>3 DEF Capacity
  <2> QED  BY <2>1, <2>2, <2>3
<1> DEFINE bytes == SubSeq(stream, delivered + 1, delivered + n)
<1>8. /\ bytes \in Seq(Bytes) /\ Len(bytes) = n
      /\ \A i \in 1 .. n : bytes[i] = stream[delivered + i]
  <2>1. \A i \in delivered + 1 .. delivered + n : stream[i] \in Bytes
    BY <1>6
  <2>2. /\ delivered + 1 \in Int /\ delivered + n \in Int /\ delivered + 1 =< delivered + n
        /\ (delivered + n) - (delivered + 1) + 1 = n
    BY <1>6
  <2>3. /\ bytes \in Seq(Bytes)
        /\ Len(bytes) = IF delivered + 1 <= delivered + n
                        THEN (delivered + n) - (delivered + 1) + 1 ELSE 0
        /\ \A i \in 1 .. (delivered + n) - (delivered + 1) + 1 :
             bytes[i] = stream[delivered + 1 + i - 1]
    BY <2>1, <2>2, SubSeqProperties
  <2> HIDE DEF bytes
  <2>4. \A i \in 1 .. n : delivered + 1 + i - 1 = delivered + i
    BY <1>6
  <2> QED  BY <2>2, <2>3, <2>4
<1> HIDE DEF bytes
<1>9. buffer.back + Len(bytes) =< Capacity(buffer)
  BY <1>1, <1>6, <1>7, <1>8 DEF Room
<1>10. buffer' = Stretch(Filled(buffer, bytes), Len(bytes))
  BY <1>1, <1>8 DEF bytes
<1>11. /\ Placed(buffer') /\ Roomy(buffer')
       /\ buffer' = [buffer EXCEPT !.blocks = buffer'.blocks, !.back = buffer.back + n]
       /\ Len(buffer'.blocks) = Len(buffer.blocks)
       /\ \A p \in Nat : p < buffer.back => Byte(buffer', p) = Byte(buffer, p)
       /\ \A p \in Nat : buffer.back =< p /\ p < buffer.back + n =>
            Byte(buffer', p) = bytes[p - buffer.back + 1]
  <2>1. PICK c : c = Stretch(Filled(buffer, bytes), Len(bytes))
    OBVIOUS
  <2>2. /\ Placed(c) /\ Roomy(c)
        /\ c = [buffer EXCEPT !.blocks = c.blocks, !.back = buffer.back + Len(bytes)]
        /\ Len(c.blocks) = Len(buffer.blocks)
        /\ \A p \in Nat : p < buffer.back => Byte(c, p) = Byte(buffer, p)
        /\ \A p \in Nat : buffer.back =< p /\ p < buffer.back + Len(bytes) =>
             Byte(c, p) = bytes[p - buffer.back + 1]
    <3>1. Placed(buffer) /\ bytes \in Seq(Bytes)
      BY <1>7, <1>8
    <3> QED  BY <1>9, <2>1, <3>1, ArrivalPlaced
  <2>3. buffer' = c /\ Len(bytes) = n
    BY <1>8, <1>10, <2>1
  <2> QED  BY <2>2, <2>3
<1>12. /\ buffer'.front = buffer.front /\ buffer'.back = buffer.back + n
       /\ buffer'.marker = buffer.marker
  BY <1>7, <1>11 DEF Placed, Buffers
<1>13. Types'
  <2>1. delivered' \in 0 .. Len(stream')
    BY <1>1, <1>2, <1>6
  <2> QED  BY <1>2, <1>3, <1>11, <2>1 DEF Types, ReceiverPlaces
<1>14. Owned'
  <2>1. buffer'.blocks # <<>>
    <3>1. Len(buffer.blocks) # 0
      BY <1>2, <1>3, <1>7 DEF Owned, Types, Placed, Buffers
    <3> SUFFICES ASSUME buffer'.blocks = <<>> PROVE FALSE
      OBVIOUS
    <3>2. Len(buffer'.blocks) = 0
      OBVIOUS
    <3> QED  BY <1>11, <3>1, <3>2
  <2> QED  BY <1>2, <1>3, <1>12, <2>1 DEF Owned
<1>15. Holds(buffer)'
  <2>1. Length(buffer') =< delivered'
    <3>1. PICK f, k : f = buffer.front /\ k = buffer.back
      OBVIOUS
    <3>2. f \in Nat /\ k \in Nat /\ k - f =< delivered
      BY <1>3, <1>7, <3>1 DEF Holds, Length
    <3>3. (k + n) - f =< delivered + n
      BY <1>6, <3>2
    <3> QED  BY <1>1, <1>12, <3>1, <3>3 DEF Length
  <2>2. ASSUME NEW p \in buffer'.front .. buffer'.back - 1
        PROVE  Byte(buffer', p) = stream[delivered' - buffer'.back + p + 1]
    <3>0. PICK f, k : f = buffer.front /\ k = buffer.back
      OBVIOUS
    <3>4. f \in Nat /\ k \in Nat /\ p \in f .. (k + n) - 1
      BY <1>7, <1>12, <2>2, <3>0
    <3>5. f =< p /\ p < k + n /\ p \in Nat
      BY <1>6, <3>4
    <3>1. delivered' - buffer'.back + p + 1 = delivered - buffer.back + p + 1 /\ p \in Nat
      <4>1. (delivered + n) - (k + n) + p + 1 = delivered - k + p + 1
        BY <1>6, <3>4, <3>5
      <4> QED  BY <1>1, <1>12, <3>0, <3>5, <4>1
    <3>2. CASE p < buffer.back
      <4>1. p \in buffer.front .. buffer.back - 1
        BY <3>0, <3>2, <3>4, <3>5
      <4>2. Byte(buffer', p) = Byte(buffer, p)
        BY <1>11, <3>1, <3>2
      <4> QED  BY <1>3, <3>1, <4>1, <4>2 DEF Holds, Offset
    <3>3. CASE buffer.back =< p
      <4> DEFINE i == p - buffer.back + 1
      <4>0. i = p - k + 1 /\ k =< p
        BY <3>0, <3>3
      <4>3. i \in 1 .. n /\ p < k + n /\ delivered - k + p + 1 = delivered + i
        <5> HIDE DEF i
        <5> QED  BY <1>6, <3>4, <3>5, <4>0
      <4>1. i \in 1 .. n /\ p < buffer.back + n /\ delivered - buffer.back + p + 1 = delivered + i
        BY <3>0, <4>3
      <4>2. Byte(buffer', p) = bytes[i]
        BY <1>11, <3>1, <3>3, <4>1
      <4> HIDE DEF i
      <4>4. bytes[i] = stream[delivered + i]
        BY <1>8, <4>1
      <4> QED  BY <3>1, <4>1, <4>2, <4>4
    <3> QED  BY <1>7, <3>1, <3>2, <3>3
  <2> QED  BY <1>2, <2>1, <2>2 DEF Holds, Offset
<1>17. Offset(buffer, buffer.front)' = Offset(buffer, buffer.front)
  BY <1>1, <1>6, <1>7, <1>12 DEF Offset
<1>18. Reading(e)'
  BY <1>2, <1>4, <1>5, <1>17 DEF Reading, Receiving, InBody
<1>19. Near'
  BY <1>2, <1>3, <1>5, <1>12 DEF Near, Receiving
<1>20. SegmentsBounded'
  <2>1. Len(buffer'.blocks) =< Len(buffer.blocks)
    BY <1>7, <1>11
  <2> QED  BY <1>3, <1>5, <1>13, <2>1, BoundKept
<1> QED  BY <1>2, <1>5, <1>13, <1>14, <1>15, <1>18, <1>19, <1>20 DEF ReceptionInv

(* The thread ends only once the session is disposed.                      *)
LEMMA EndSteps == ReceptionInv /\ (Aborted \/ Stop \/ Throw) => ReceptionInv'
<1> SUFFICES ASSUME ReceptionInv, Aborted \/ Stop \/ Throw PROVE ReceptionInv'
  OBVIOUS
<1>1. /\ disposed /\ pc' = "ended"
      /\ UNCHANGED <<peerVars, delivered, buffer, rxBeginning, headerVars, received, disposed>>
  BY DEF Aborted, Stop, Throw, ReceptionInv, Owned, Live
<1> QED  BY <1>1, EndStep

(* After a receive: a header is parsed, or more of the body is there.      *)
LEMMA ArrivedStep == ReceptionInv /\ Arrived => ReceptionInv'
<1> SUFFICES ASSUME ReceptionInv, Arrived PROVE ReceptionInv'
  OBVIOUS
<1>1. /\ pc = "arrived" /\ UNCHANGED <<peerVars, delivered, received, disposed>>
      /\ sent' = sent /\ stream' = stream /\ delivered' = delivered /\ received' = received
      /\ disposed' = disposed
  BY DEF Arrived, peerVars
<1>2. Types /\ SegmentsBounded /\ Owned /\ Near /\ (~disposed => Holds(buffer))
  BY DEF ReceptionInv
<1>3. PICK e : Layout(e) /\ Reading(e)
  BY DEF ReceptionInv
<1>4. /\ Placed(buffer) /\ buffer.front \in Nat /\ buffer.back \in Nat /\ buffer.front =< buffer.back
      /\ Len(buffer.blocks) \in Nat
  <2>1. /\ Placed(buffer) /\ buffer.front \in Nat /\ buffer.back \in Nat
        /\ buffer.front =< buffer.back /\ buffer.blocks \in Seq(Segment)
    BY <1>2 DEF Types, Placed, Buffers
  <2> QED  BY <2>1
<1>5. CASE rxBeginning /\ Live /\ (Parse(Rewind(buffer)) \/ NoHeader(Rewind(buffer)))
  <2>1. ~disposed
    BY <1>1, <1>2, <1>5 DEF Owned, Live
  <2>2. PICK b : b = Rewind(buffer)
    OBVIOUS
  <2>3. /\ Placed(b)
        /\ b = [buffer EXCEPT !.position = buffer.front, !.current = Boundaries(buffer.front)]
    BY <1>4, <2>2, RewindPlaced
  <2>4. /\ b.position = buffer.front /\ b.front = buffer.front /\ b.back = buffer.back
        /\ b.marker = buffer.marker /\ b.blocks = buffer.blocks
    BY <1>4, <2>3 DEF Placed, Buffers
  <2>5. AtHeader(b, e)
    <3>1. b.back =< Capacity(b) /\ b.blocks # <<>> /\ Len(b.blocks) =< Len(buffer.blocks)
      BY <1>2, <1>4, <1>5, <2>4 DEF Types, Roomy, Capacity, Live
    <3>2. b.front < BlockSize /\ b.marker = -1 /\ b.position = b.front
      BY <1>1, <1>2, <1>5, <2>4 DEF Near, Receiving, Owned
    <3>3. Offset(b, b.front) = e[Len(received)]
      BY <1>1, <1>3, <1>5, <2>4 DEF Offset, Reading, Receiving
    <3>4. Holds(b)
      BY <1>2, <2>1, <2>4 DEF Holds, Offset, Length, Byte
    <3> QED  BY <2>3, <3>1, <3>2, <3>3, <3>4 DEF AtHeader
  <2>6. Parse(b) \/ NoHeader(b)
    BY <1>5, <2>2
  <2> QED  BY <1>1, <1>3, <2>1, <2>5, <2>6, ParseStep
<1>6. CASE ~rxBeginning /\ Await(buffer, lengthToReceive) /\ UNCHANGED <<buffer, headerVars>>
  <2>1. /\ buffer' = buffer /\ lengthToReceive' = lengthToReceive /\ rxTransformed' = rxTransformed
        /\ rxBeginning' = rxBeginning
        /\ \/ pc' = "begin" /\ Length(buffer) < lengthToReceive
           \/ pc' = "deliver" /\ ~(Length(buffer) < lengthToReceive)
    BY <1>2, <1>6 DEF Await, headerVars, Types
  <2>2. Layout(e)' /\ FrameLengths' = FrameLengths /\ Framed' /\ Coming' = Coming
    BY <1>1, <1>3, Unsent
  <2>3. Types'
    BY <1>1, <1>2, <2>1 DEF Types, ReceiverPlaces
  <2>4. Owned'
    BY <1>1, <1>2, <2>1 DEF Owned
  <2>5. (~disposed => Holds(buffer))'
    BY <1>1, <1>2, <2>1 DEF Holds, Offset, Length, Byte
  <2>6. InBody(e) /\ InBody(e)'
    BY <1>1, <1>3, <1>6, <2>1, <2>2 DEF InBody, Reading, Receiving, Offset
  <2>7. Reading(e)'
    <3>1. lengthToReceive \in Nat
      BY <1>2 DEF Types
    <3>2. pc' = "deliver" => lengthToReceive' =< Length(buffer')
      BY <1>4, <2>1, <3>1 DEF Length
    <3> QED  BY <1>6, <2>1, <2>6, <3>2 DEF Reading, Receiving
  <2>8. Near'
    <3>1. buffer.front < BlockSize + Len(BuildHeader(Coming))
      BY <1>1, <1>2, <1>6 DEF Near, Receiving
    <3>2. ASSUME Length(buffer) < lengthToReceive
          PROVE  \E n \in FrameLengths : buffer.back < BlockSize + n
      <4>1. Coming \in PeerEvents /\ Len(Frame(Coming)) \in FrameLengths
        BY <1>2, <2>6, ComingType DEF InBody
      <4>2. PICK h, l, f : h = Len(BuildHeader(Coming)) /\ l = Len(Coming.body) /\ f = Len(Frame(Coming))
        OBVIOUS
      <4>3. h \in 1 .. 5 /\ l \in Nat /\ f = h + l
        <5>1. /\ Len(BuildHeader(Coming)) \in 1 .. 5 /\ Coming.body \in Seq(Bytes)
              /\ Len(Frame(Coming)) = Len(BuildHeader(Coming)) + Len(Coming.body)
          BY <4>1, FrameBytes
        <5>2. Len(Coming.body) \in Nat
          BY <5>1
        <5> QED  BY <4>2, <5>1, <5>2, SMTT(30)
      <4>4. lengthToReceive = l /\ buffer.front < BlockSize + h
        BY <2>6, <3>1, <4>2 DEF InBody
      <4>5. buffer.back < BlockSize + f
        BY <1>4, <3>2, <4>3, <4>4, BlockSizePositive DEF Length
      <4> QED  BY <4>1, <4>2, <4>5
    <3> QED  BY <1>6, <2>1, <2>2, <3>1, <3>2 DEF Near, Receiving
  <2>9. SegmentsBounded'
    BY <1>2, <2>1, <2>2 DEF SegmentsBounded
  <2> QED  BY <1>1, <2>2, <2>3, <2>4, <2>5, <2>7, <2>8, <2>9 DEF ReceptionInv
<1> QED  BY <1>5, <1>6 DEF Arrived

(* Dispose takes the blocks at any point; the positions stay.              *)
LEMMA DisposeStep == ReceptionInv /\ Dispose => ReceptionInv'
<1> SUFFICES ASSUME ReceptionInv, Dispose PROVE ReceptionInv'
  OBVIOUS
<1>1. /\ disposed' = TRUE /\ buffer' = [buffer EXCEPT !.blocks = <<>>]
      /\ sent' = sent /\ stream' = stream /\ delivered' = delivered /\ received' = received
      /\ rxBeginning' = rxBeginning /\ lengthToReceive' = lengthToReceive
      /\ rxTransformed' = rxTransformed /\ pc' = pc
  BY DEF Dispose, Cleanup, peerVars, headerVars
<1>2. Types /\ SegmentsBounded /\ Owned /\ Near
  BY DEF ReceptionInv
<1>3. PICK e : Layout(e) /\ Reading(e)
  BY DEF ReceptionInv
<1>4. Layout(e)' /\ FrameLengths' = FrameLengths /\ Framed' /\ Coming' = Coming
  BY <1>1, <1>3, Unsent
<1>5. /\ buffer'.front = buffer.front /\ buffer'.back = buffer.back
      /\ buffer'.marker = buffer.marker /\ buffer'.position = buffer.position
      /\ buffer'.current = buffer.current /\ buffer'.blocks = <<>>
      /\ buffer' \in Buffers /\ Len(buffer'.blocks) = 0 /\ Len(buffer.blocks) \in Nat
  <2>1. buffer \in Buffers /\ buffer.blocks \in Seq(Segment)
    BY <1>2 DEF Types, Placed, Buffers
  <2>2. <<>> \in Seq(Segment) /\ Len(<<>>) = 0 /\ Len(buffer.blocks) \in Nat
    BY <2>1
  <2>3. buffer' \in Buffers /\ buffer'.blocks = <<>>
    BY <1>1, <2>1, <2>2 DEF Buffers
  <2>4. /\ buffer'.front = buffer.front /\ buffer'.back = buffer.back
        /\ buffer'.marker = buffer.marker /\ buffer'.position = buffer.position
        /\ buffer'.current = buffer.current
    BY <1>1, <2>1 DEF Buffers
  <2> QED  BY <2>2, <2>3, <2>4
<1>6. Types'
  <2>1. Placed(buffer')
    BY <1>2, <1>5 DEF Types, Placed
  <2>2. Roomy(buffer')
    BY <1>5 DEF Roomy
  <2> QED  BY <1>1, <1>2, <2>1, <2>2 DEF Types
<1>7. Owned'
  BY <1>1, <1>2, <1>5 DEF Owned
<1>8. Reading(e)'
  BY <1>1, <1>3, <1>4, <1>5 DEF Reading, Receiving, InBody, Consumed, Offset, Length
<1>9. Near'
  BY <1>1, <1>2, <1>4, <1>5 DEF Near, Receiving
<1>10. SegmentsBounded'
  BY <1>2, <1>4, <1>5, <1>6, BoundKept
<1> QED  BY <1>1, <1>4, <1>6, <1>7, <1>8, <1>9, <1>10 DEF ReceptionInv

(* The bytes marked are the body of the event coming, however many of them *)
(* Load reads.                                                             *)
LEMMA RetrieveStep == ReceptionInv /\ Retrieve => ReceptionInv'
<1> SUFFICES ASSUME ReceptionInv, Retrieve PROVE ReceptionInv'
  OBVIOUS
<1>1. /\ pc = "deliver" /\ Live /\ pc' = "next"
      /\ sent' = sent /\ stream' = stream /\ delivered' = delivered
      /\ rxBeginning' = rxBeginning /\ lengthToReceive' = lengthToReceive
      /\ rxTransformed' = rxTransformed /\ disposed' = disposed
  BY DEF Retrieve, peerVars, headerVars
<1>2. Types /\ SegmentsBounded /\ Owned /\ Framed
  BY DEF ReceptionInv
<1>3. ~disposed /\ Holds(buffer) /\ buffer.marker = -1
  BY <1>1, <1>2 DEF Owned, Live, ReceptionInv
<1>4. PICK e : Layout(e) /\ Reading(e)
  BY DEF ReceptionInv
<1>5. PICK b, l, f, k : b = buffer /\ l = lengthToReceive /\ f = buffer.front /\ k = buffer.back
  OBVIOUS
<1>6. /\ Placed(b) /\ f \in Nat /\ k \in Nat /\ f =< k /\ l \in Nat /\ l =< k - f
      /\ b.front = f /\ b.back = k /\ delivered \in Nat /\ Len(received) \in Nat
      /\ Len(sent) \in Nat /\ received \in Seq(Event)
  BY <1>1, <1>2, <1>4, <1>5 DEF Types, Placed, Buffers, Reading, Length
<1>7. PICK mark : mark = MarkToRead(b, l)
  OBVIOUS
<1>8. Placed(mark) /\ mark = [b EXCEPT !.marker = f + l]
  <2>1. b.front + l =< b.back
    BY <1>6
  <2> QED  BY <1>6, <1>7, <2>1, MarkPlaced
<1>9. /\ mark.front = f /\ mark.back = k /\ mark.blocks = b.blocks /\ mark.marker = f + l
  BY <1>6, <1>8 DEF Placed, Buffers
<1>10. PICK marked : marked = Rewind(mark)
  OBVIOUS
<1>11. Placed(marked) /\ marked = [mark EXCEPT !.position = mark.front, !.current = Boundaries(mark.front)]
  BY <1>8, <1>10, RewindPlaced
<1>12. /\ marked.front = f /\ marked.back = k /\ marked.blocks = b.blocks /\ marked.marker = f + l
       /\ marked.position = f
  BY <1>8, <1>9, <1>11 DEF Placed, Buffers
<1>13. PICK n \in 0 .. l : buffer' = Skip(marked, n)
  BY <1>5, <1>7, <1>10 DEF Retrieve
<1>14. received' = Append(received, [body |-> GetBytes(marked, l), transformed |-> rxTransformed])
  BY <1>5, <1>7, <1>10 DEF Retrieve
<1>15. /\ Placed(buffer')
       /\ buffer' = [marked EXCEPT !.position = f + n, !.current = Boundaries(f + n)]
  <2>1. marked.position + n =< marked.back /\ n \in Nat
    BY <1>6, <1>12
  <2>2. /\ Placed(Skip(marked, n))
        /\ Skip(marked, n) = [marked EXCEPT !.position = marked.position + n,
                                           !.current = Boundaries(marked.position + n)]
    BY <1>11, <2>1, SkipPlaced
  <2> QED  BY <1>12, <1>13, <2>2
<1>16. /\ buffer'.front = f /\ buffer'.back = k /\ buffer'.blocks = buffer.blocks
       /\ buffer'.marker = f + l
  BY <1>5, <1>11, <1>12, <1>15 DEF Placed, Buffers
<1>17. /\ InBody(e) /\ Len(received) < Len(sent)
  BY <1>1, <1>4 DEF Reading, InBody
<1>18. PICK i, m, h : i = Len(received) + 1 /\ m = Coming /\ h = Len(BuildHeader(Coming))
  OBVIOUS
<1>19. m \in PeerEvents /\ m = sent[i] /\ i \in 1 .. Len(sent) /\ i - 1 = Len(received)
  BY <1>2, <1>6, <1>17, <1>18, ComingType DEF Coming
<1>20. /\ m \in Event /\ m = [body |-> m.body, transformed |-> m.transformed]
       /\ m.body \in Seq(Bytes)
       /\ h \in 1 .. 5 /\ Len(Frame(m)) = h + Len(m.body)
       /\ \A j \in 1 .. Len(m.body) : Frame(m)[h + j] = m.body[j]
  <2>1. h = Len(BuildHeader(m))
    BY <1>18
  <2> QED  BY <1>19, <2>1, FrameBytes
<1>21. l = Len(m.body) /\ rxTransformed = m.transformed /\ delivered - k + f = e[i - 1] + h
  BY <1>5, <1>17, <1>18, <1>19 DEF InBody, Offset
<1>22. /\ e[i - 1] \in Nat /\ e[i] = e[i - 1] + Len(Frame(m))
       /\ \A j \in 1 .. Len(Frame(m)) : stream[e[i - 1] + j] = Frame(m)[j]
  <2>1. i - 1 \in 0 .. Len(sent)
    BY <1>6, <1>19
  <2> QED  BY <1>4, <1>19, <2>1 DEF Layout, FramesAt
<1>23. GetBytes(marked, l) = m.body
  <2>1. marked.position + l =< marked.back
    BY <1>6, <1>12
  <2>2. GetBytes(marked, l) = [j \in 1 .. l |-> Byte(marked, f + j - 1)]
    <3>1. GetBytes(marked, l) = [j \in 1 .. l |-> Byte(marked, marked.position + j - 1)]
      <4>1. l \in Nat /\ Placed(marked)
        BY <1>6, <1>11
      <4> QED  BY <4>1, <2>1, BytesRead
    <3> QED  BY <1>12, <3>1
  <2>3. ASSUME NEW j \in 1 .. l
        PROVE  Byte(marked, f + j - 1) = m.body[j]
    <3> DEFINE p == f + j - 1
    <3>1. p \in f .. k - 1 /\ delivered - k + p + 1 = e[i - 1] + (h + j)
      <4>1. PICK a : a = e[i - 1]
        OBVIOUS
      <4>2. a \in Nat /\ delivered - k + f = a + h /\ h \in Nat /\ j \in Nat /\ 1 =< j /\ j =< l
        <5>1. j \in Nat /\ 1 =< j /\ j =< l
          BY <1>6
        <5>2. h \in Nat
          BY <1>20
        <5> QED  BY <5>1, <5>2, <1>21, <1>22, <4>1
      <4>3. f + j - 1 \in f .. k - 1 /\ delivered - k + (f + j - 1) + 1 = a + (h + j)
        BY <1>6, <4>2
      <4> QED  BY <4>1, <4>3
    <3>2. Byte(marked, p) = Byte(buffer, p)
      BY <1>5, <1>12 DEF Byte
    <3> HIDE DEF p
    <3>3. Byte(buffer, p) = stream[delivered - k + p + 1]
      BY <1>3, <1>5, <3>1 DEF Holds, Offset
    <3>4. h + j \in 1 .. Len(Frame(m))
      BY <1>20, <1>21
    <3>5. stream[e[i - 1] + (h + j)] = Frame(m)[h + j]
      BY <1>22, <3>4
    <3>6. Frame(m)[h + j] = m.body[j]
      BY <1>20, <1>21
    <3>7. Byte(marked, p) = m.body[j]
      BY <3>1, <3>2, <3>3, <3>5, <3>6
    <3> QED  BY <3>7 DEF p
  <2>4. m.body = [j \in 1 .. l |-> m.body[j]]
    BY <1>20, <1>21
  <2> QED  BY <2>2, <2>3, <2>4
<1>24. received' = Append(received, m)
  BY <1>14, <1>20, <1>21, <1>23
<1>25. /\ received' \in Seq(Event) /\ Len(received') = i
       /\ \A j \in 1 .. i - 1 : received'[j] = received[j]
       /\ received'[i] = m
  BY <1>6, <1>18, <1>19, <1>20, <1>24
<1>26. Types'
  <2>1. Roomy(buffer')
    BY <1>2, <1>5, <1>16 DEF Types, Roomy, Capacity
  <2> QED  BY <1>1, <1>2, <1>15, <1>25, <2>1 DEF Types, ReceiverPlaces
<1>27. Owned'
  BY <1>1, <1>2, <1>3, <1>16 DEF Owned
<1>28. Holds(buffer)'
  BY <1>1, <1>3, <1>5, <1>16 DEF Holds, Length, Offset, Byte
<1>29. Layout(e)'
  BY <1>1, <1>4 DEF Layout
<1>30. Reading(e)'
  <2>1. f =< f + l /\ delivered - k + (f + l) = e[i]
    <3>1. PICK a, g : a = e[i - 1] /\ g = Len(Frame(m))
      OBVIOUS
    <3>2. a \in Nat /\ g = h + l /\ delivered - k + f = a + h /\ h \in Nat /\ e[i] = a + g
      BY <1>20, <1>21, <1>22, <3>1
    <3>3. f =< f + l /\ delivered - k + (f + l) = a + (h + l)
      BY <1>6, <3>2
    <3> QED  BY <3>2, <3>3
  <2>2. Consumed(e)'
    BY <1>1, <1>16, <1>25, <2>1 DEF Consumed, Offset
  <2> QED  BY <1>1, <2>2 DEF Reading, Receiving
<1>31. Near'
  BY <1>1 DEF Near, Receiving
<1>32. Framed'
  <2>1. sent \in Seq(Event)
    BY <1>2, PeerEventsAssumption DEF Types
  <2>2. \A j \in 1 .. Len(received) : received[j] = sent[j]
    BY <1>2, <1>6, <2>1, PrefixMeans DEF Framed
  <2>3. \A j \in 1 .. i : received'[j] = sent[j]
    BY <1>6, <1>18, <1>19, <1>25, <2>2
  <2>4. i =< Len(sent)
    BY <1>6, <1>19
  <2>5. IsPrefix(received', sent)
    BY <1>25, <2>1, <2>3, <2>4, PrefixMeans
  <2> QED  BY <1>1, <2>5 DEF Framed
<1>33. FrameLengths' = FrameLengths
  BY <1>1 DEF FrameLengths
<1>34. SegmentsBounded'
  BY <1>2, <1>16, <1>33 DEF SegmentsBounded, Capacity
<1> QED  BY <1>1, <1>26, <1>27, <1>28, <1>29, <1>30, <1>31, <1>32, <1>34 DEF ReceptionInv

(* Trim goes on at the end of the body, and what follows it begins with a  *)
(* header.                                                                 *)
LEMMA ContinueStep == ReceptionInv /\ Continue => ReceptionInv'
<1> SUFFICES ASSUME ReceptionInv, Continue PROVE ReceptionInv'
  OBVIOUS
<1>1. /\ pc = "next" /\ ~disposed /\ UNCHANGED <<peerVars, delivered, received, disposed>>
      /\ sent' = sent /\ stream' = stream /\ delivered' = delivered /\ received' = received
      /\ disposed' = disposed
  BY DEF Continue, peerVars
<1>2. Types /\ SegmentsBounded /\ Owned /\ Holds(buffer)
  BY <1>1 DEF ReceptionInv
<1>3. PICK e : Layout(e) /\ Reading(e)
  BY DEF ReceptionInv
<1>4. Layout(e)' /\ FrameLengths' = FrameLengths /\ Framed' /\ Coming' = Coming
  BY <1>1, <1>3, Unsent
<1>5. PICK f, k, m : f = buffer.front /\ k = buffer.back /\ m = buffer.marker
  OBVIOUS
<1>6. /\ Placed(buffer) /\ f \in Nat /\ k \in Nat /\ m \in Nat /\ f =< m /\ m =< k
      /\ delivered \in Nat /\ k - f =< delivered
      /\ delivered - k + m = e[Len(received)]
  <2>1. /\ Placed(buffer) /\ f \in Nat /\ k \in Nat /\ m \in Nat \cup {-1} /\ m =< k
        /\ delivered \in Nat /\ k - f =< delivered
    BY <1>2, <1>5 DEF Types, Placed, Buffers, Holds, Length
  <2>2. f =< m /\ delivered - k + m = e[Len(received)]
    BY <1>1, <1>3, <1>5 DEF Reading, Consumed, Offset
  <2> QED  BY <2>1, <2>2
<1>7. PICK c : c = Trim(buffer)
  OBVIOUS
<1>8. /\ Placed(c) /\ c.blocks # <<>> /\ c.back =< Capacity(c)
      /\ c.position = c.front /\ c.front < BlockSize /\ c.marker = -1
      /\ Len(c.blocks) =< Len(buffer.blocks)
      /\ \E d \in Nat :
           /\ c.front = m - d /\ c.back = k - d
           /\ \A p \in Nat : p < c.back => Byte(c, p) = Byte(buffer, p + d)
  <2>1. buffer.blocks # <<>> /\ buffer.back =< Capacity(buffer)
    BY <1>1, <1>2 DEF Owned, Types, Roomy
  <2>2. buffer.marker >= 0 => buffer.front =< buffer.marker
    BY <1>5, <1>6
  <2>3. TrimPoint(buffer) = m
    BY <1>5, <1>6 DEF TrimPoint
  <2>4. /\ Placed(c) /\ c.blocks # <<>> /\ c.back =< Capacity(c)
        /\ c.position = c.front /\ c.front < BlockSize /\ c.marker = -1
        /\ Len(c.blocks) =< Len(buffer.blocks)
        /\ \E d \in Nat :
             /\ c.front = TrimPoint(buffer) - d /\ c.back = buffer.back - d
             /\ \A p \in Nat : p < c.back => Byte(c, p) = Byte(buffer, p + d)
    BY <1>6, <1>7, <2>1, <2>2, TrimPlaced
  <2> QED  BY <1>5, <2>3, <2>4
<1>9. PICK d \in Nat : /\ c.front = m - d /\ c.back = k - d
                       /\ \A p \in Nat : p < c.back => Byte(c, p) = Byte(buffer, p + d)
  BY <1>8
<1>10. c.front \in Nat /\ c.back \in Nat /\ c.front =< c.back
  BY <1>8 DEF Placed, Buffers
<1>11. AtHeader(c, e)
  <2>1. Offset(c, c.front) = e[Len(received)]
    BY <1>6, <1>9 DEF Offset
  <2>2. Length(c) =< delivered
    BY <1>6, <1>9 DEF Length
  <2>3. ASSUME NEW p \in c.front .. c.back - 1
        PROVE  Byte(c, p) = stream[Offset(c, p) + 1]
    <3> DEFINE q == p + d
    <3>1. /\ p \in Nat /\ p < c.back /\ q \in f .. k - 1
          /\ delivered - k + q + 1 = delivered - c.back + p + 1
      BY <1>6, <1>9, <1>10, <2>3
    <3>2. Byte(c, p) = Byte(buffer, q)
      BY <1>9, <3>1
    <3> HIDE DEF q
    <3>3. Byte(buffer, q) = stream[delivered - k + q + 1]
      BY <1>2, <1>5, <3>1 DEF Holds, Offset
    <3> QED  BY <3>1, <3>2, <3>3 DEF Offset
  <2>4. Holds(c)
    BY <2>2, <2>3 DEF Holds
  <2> QED  BY <1>8, <2>1, <2>4 DEF AtHeader
<1>12. CASE ~IsEmpty(c)
  <2>1. Parse(c) \/ NoHeader(c)
    BY <1>7, <1>12 DEF Continue
  <2> QED  BY <1>1, <1>3, <1>11, <2>1, ParseStep
<1>13. CASE IsEmpty(c)
  <2>1. /\ buffer' = c /\ rxBeginning' = TRUE /\ pc' = "begin"
        /\ lengthToReceive' = lengthToReceive /\ rxTransformed' = rxTransformed
    BY <1>7, <1>13 DEF Continue, headerVars
  <2>2. Types'
    BY <1>1, <1>2, <1>8, <2>1 DEF Types, ReceiverPlaces, Roomy
  <2>3. Owned'
    BY <1>1, <1>8, <2>1 DEF Owned
  <2>4. Holds(buffer)'
    BY <1>1, <1>11, <2>1 DEF AtHeader, Holds, Offset, Length, Byte
  <2>5. Reading(e)'
    BY <1>1, <1>11, <2>1 DEF AtHeader, Reading, Receiving, Offset
  <2>6. Near'
    <3>1. 0 \in FrameLengths' /\ buffer'.back < BlockSize + 0
      BY <1>8, <1>10, <1>13, <2>1, BlockSizePositive DEF FrameLengths, IsEmpty
    <3> QED  BY <1>8, <2>1, <3>1 DEF Near, Receiving
  <2>7. SegmentsBounded'
    BY <1>2, <1>4, <1>8, <2>1, <2>2, BoundKept
  <2> QED  BY <1>1, <1>4, <2>2, <2>3, <2>4, <2>5, <2>6, <2>7 DEF ReceptionInv
<1> QED  BY <1>12, <1>13

(* A step of something else.                                               *)
LEMMA StutterStep == ReceptionInv /\ UNCHANGED receptionVars => ReceptionInv'
<1> SUFFICES ASSUME ReceptionInv, UNCHANGED receptionVars PROVE ReceptionInv'
  OBVIOUS
<1>1. /\ sent' = sent /\ stream' = stream /\ delivered' = delivered /\ received' = received
      /\ rxBeginning' = rxBeginning /\ lengthToReceive' = lengthToReceive
      /\ rxTransformed' = rxTransformed /\ disposed' = disposed /\ pc' = pc /\ buffer' = buffer
  BY DEF receptionVars
<1>2. PICK e : Layout(e) /\ Reading(e)
  BY DEF ReceptionInv
<1>3. Layout(e)' /\ FrameLengths' = FrameLengths /\ Framed' /\ Coming' = Coming
  BY <1>1, <1>2, Unsent
<1>4. Types' /\ Owned' /\ Near' /\ SegmentsBounded'
  BY <1>1, <1>3 DEF ReceptionInv, Types, Owned, Near, Receiving, SegmentsBounded
<1>5. Reading(e)'
  BY <1>1, <1>2, <1>3 DEF Reading, Receiving, InBody, Consumed, Offset, Length
<1>6. (~disposed => Holds(buffer))'
  BY <1>1 DEF ReceptionInv, Holds, Length, Offset, Byte
<1> QED  BY <1>3, <1>4, <1>5, <1>6 DEF ReceptionInv

(* The invariant holds of every behaviour of a session: of any pieces the  *)
(* stream arrives in, of what Load leaves unread, and of Dispose between   *)
(* any two steps of the receiving thread (LinkSession.OnReceiveInternal).  *)
THEOREM ReceptionInvariant == ReceptionSpec => []ReceptionInv
<1>1. ReceptionInit => ReceptionInv
  BY InitReception
<1>2. ReceptionInv /\ [ReceptionNext]_receptionVars => ReceptionInv'
  BY PeerSendsStep, BeginReceiveStep, ReceiveStep, EndSteps, ArrivedStep, RetrieveStep,
     ContinueStep, DisposeStep, StutterStep DEF ReceptionNext, Receiver
<1> QED  BY <1>1, <1>2, PTL DEF ReceptionSpec

(* The block read from is one the buffer has.                              *)
LEMMA CurrentThere ==
  ASSUME NEW b, Placed(b), b.blocks # <<>>, b.back =< Capacity(b)
  PROVE  b.current < Len(b.blocks)
<1>1. /\ b.position \in Nat /\ b.back \in Nat /\ b.position =< b.back
      /\ b.blocks \in Seq(Segment) /\ b.current = Boundaries(b.position)
  BY DEF Placed, Buffers
<1>2. PICK n : n = Len(b.blocks)
  OBVIOUS
<1>3. n \in Nat /\ n # 0 /\ BlockSize * n \in Int /\ b.back =< BlockSize * n
  <2>1. n \in Nat /\ n # 0
    BY <1>1, <1>2
  <2> QED  BY <1>2, <2>1, Products DEF Capacity
<1>4. CASE b.position = 0
  BY <1>1, <1>2, <1>3, <1>4 DEF Boundaries
<1>5. CASE b.position # 0
  <2>1. b.position - 1 \in Nat /\ b.position - 1 < BlockSize * n
    BY <1>1, <1>3, <1>5
  <2>2. (b.position - 1) \div BlockSize < n
    BY <1>3, <2>1, InBlocks
  <2> QED  BY <1>1, <1>2, <1>5, <2>2 DEF Boundaries
<1> QED  BY <1>4, <1>5

(* No position of the receive buffer leaves what it holds, and the block   *)
(* read from is one it has, as long as the session lives: no guard of      *)
(* Buffer throws in LinkSession.OnReceiveInternal.                         *)
THEOREM PositionsStayIn == ReceptionSpec => []ReceptionTypeOK
<1>1. ReceptionInv => ReceptionTypeOK
  <2> SUFFICES ASSUME ReceptionInv PROVE ReceptionTypeOK
    OBVIOUS
  <2>1. Types
    BY DEF ReceptionInv
  <2>2. Live => /\ buffer.front =< buffer.position /\ buffer.position =< buffer.back
                /\ buffer.back =< Capacity(buffer) /\ buffer.marker =< buffer.back
                /\ buffer.current < Len(buffer.blocks)
    BY <2>1, CurrentThere DEF Types, Placed, Roomy, Live
  <2> QED  BY <2>1, <2>2 DEF ReceptionTypeOK, Types, Placed, ReceiverPlaces
<1> QED  BY <1>1, ReceptionInvariant, PTL

(* What is cut out of the stream to be loaded is what the peer sent, in    *)
(* order and whole, with its flag, for any block size, any number of       *)
(* digits in a header and any events whose headers fit                     *)
(* (LinkSession.OnReceiveInternal, AbstractTcpSession.ParseHeader,         *)
(* Buffer).                                                                *)
THEOREM WhatIsSentIsReceived == ReceptionSpec => []Framed
<1>1. ReceptionInv => Framed
  BY DEF ReceptionInv
<1> QED  BY <1>1, ReceptionInvariant, PTL

(* The receive buffer never has more segments than one frame and the room  *)
(* for a receive take (Buffer.Trim, ListAvailableSegments).                *)
THEOREM SegmentsDoNotPileUp == ReceptionSpec => []SegmentsBounded
<1>1. ReceptionInv => SegmentsBounded
  BY DEF ReceptionInv
<1> QED  BY <1>1, ReceptionInvariant, PTL
=============================================================================
