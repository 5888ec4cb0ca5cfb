----------------------------- MODULE WaitsProofs -----------------------------
(***************************************************************************)
(* Theorems about Waits, for any number of waits, requests and handles: a  *)
(* coroutine is continued once, and its handle is released then and only   *)
(* then.  They rest on what the flow still knows of a wait: its handlers   *)
(* are bound exactly as long as it waits, and so are those that Dispatch   *)
(* has gathered and not yet invoked.                                       *)
(***************************************************************************)
EXTENDS Waits, FiniteSetTheorems, WellFoundedInduction, TLAPS

(* Only waits that wait have handlers bound, for their own parts; and the  *)
(* timeout of each that has one is bound.                                  *)
BoundWaiting ==
  /\ \A pair \in bound : Waiting(pair[1]) /\ pair[2] \in PartsOf(pair[1])
  /\ bindings = {w \in Timed : Waiting(w)}

(* The handlers that Dispatch gathered are still bound.                    *)
HandlersBound ==
  current.handlers \subseteq
    IF current.event.type = "answer"
    THEN {pair \in bound : pair[2] = current.event.part}
    ELSE {pair \in Waits \X {First} : pair[1] = current.event.about /\ pair[1] \in bindings}

(* A wait has a handle if it posted requests.                              *)
HandlesGiven ==
  \A w \in Waits :
    waitHandle[w] # 0 <=> w \in Requesting /\ status[w] \notin {"new", "failed"}

(* The event of a timer is on its way once: its reservation is over.       *)
Fired(w) ==
  \/ w \in bundle \/ Posted(w)
  \/ current.handlers # {} /\ current.event = TimeoutEvent(w, "timeout")
FiredOnce ==
  /\ \A w \in Waits : Fired(w) => w \notin reserved /\ status[w] # "new"
  /\ reserved \subseteq bindings

IndInv ==
  /\ TypeOK /\ BoundWaiting /\ HandlersBound /\ HandlesGiven /\ FiredOnce
  /\ ResumedOnce /\ HandlesInUse /\ TimeoutPending

-----------------------------------------------------------------------------
(* A set of natural numbers that is not empty has a smallest one.          *)
LEMMA SmallestExists ==
  ASSUME NEW S \in SUBSET Nat, S # {}
  PROVE  Smallest(S) \in S /\ \A w \in S : Smallest(S) =< w
  <1>1. PICK v \in S : \A w \in S : <<w, v>> \notin OpToRel(<, Nat)
    BY WFMin, NatLessThanWellFounded
  <1>2. ASSUME NEW w \in S PROVE ~(w < v)
    <2>1. <<w, v>> \notin {p \in Nat \X Nat : p[1] < p[2]}
      BY <1>1, Zenon DEF OpToRel
    <2> QED
      BY <2>1
  <1>3. \A w \in S : v =< w
    BY <1>2
  <1> QED
    BY <1>3 DEF Smallest

(* Acquire finds a value that is free, wherever its search begins, unless  *)
(* there is none: the wrap of the search misses nothing.                   *)
THEOREM FoundIsFree ==
  ASSUME NEW p \in Pool, ~Exhausted(p)
  PROVE  Found(p) \in Free(p)
  <1>1. Free(p) \subseteq Handles /\ Handles \subseteq Nat
    BY PoolSizePositive DEF Free, Handles
  <1>2. Candidates(p) # {} /\ Candidates(p) \subseteq Free(p)
    BY DEF Candidates, Exhausted
  <1> QED
    BY <1>1, <1>2, SmallestExists DEF Found

(* Acquire and Release keep the state of the pool within its bounds.       *)
LEMMA PoolType ==
  ASSUME NEW p \in Pool
  PROVE  /\ ~Exhausted(p) => Acquired(p) \in Pool
         /\ \A v \in Handles : Released(p, v) \in Pool
  <1>1. ASSUME ~Exhausted(p) PROVE Acquired(p) \in Pool
    <2>1. Found(p) \in Handles
      BY <1>1, FoundIsFree DEF Free
    <2>2. Found(p) % PoolSize \in 0 .. PoolSize - 1
      BY <2>1, PoolSizePositive DEF Handles
    <2> QED
      BY <2>1, <2>2 DEF Acquired, Pool
  <1>2. \A v \in Handles : Released(p, v) \in Pool
    BY DEF Released, Pool
  <1> QED
    BY <1>1, <1>2

LEMMA EmptyPoolType == EmptyPool \in Pool
  BY PoolSizePositive DEF EmptyPool, Pool

(* What the calls do to the set of values in use.                          *)
LEMMA PoolUse ==
  ASSUME NEW p \in Pool
  PROVE  /\ Acquired(p).used = p.used \cup {Found(p)}
         /\ \A v : Released(p, v).used = p.used \ {v}
  BY DEF Acquired, Released, Pool

-----------------------------------------------------------------------------
LEMMA PartsGiven ==
  /\ First \in Parts
  /\ \A w : PartsOf(w) \subseteq Parts /\ PartsOf(w) # {}
  <1>1. First \in Parts
    BY SomeWaits DEF First
  <1> QED
    BY <1>1, SomeWaits DEF PartsOf

(* The timeout events of different waits differ.                           *)
LEMMA TimeoutEvents ==
  ASSUME NEW w \in Waits, NEW type \in {"timeout", "expired"}
  PROVE  /\ TimeoutEvent(w, type) \in Timeouts
         /\ TimeoutEvent(w, type).type = type /\ TimeoutEvent(w, type).about = w
         /\ \A v \in Waits : TimeoutEvent(w, type) = TimeoutEvent(v, "timeout") <=> v = w /\ type = "timeout"
  BY PartsGiven DEF TimeoutEvent, Timeouts

LEMMA AnswerNoTimeout ==
  \A e \in Answers : \A v : e # TimeoutEvent(v, "timeout")
  BY DEF Answers, TimeoutEvent

LEMMA IdleType == Idle.handlers = {} /\ Idle.event \in Answers \cup Timeouts
  BY SomeWaits, TimeoutEvents DEF Idle, NoEvent

(* What is posted after an event was appended, or taken.                   *)
LEMMA QueueAdds ==
  ASSUME TypeOK, NEW e \in Answers \cup Timeouts, queue' = Append(queue, e)
  PROVE  /\ queue' \in Seq(Answers \cup Timeouts)
         /\ \A v \in Waits : Posted(v)' <=> Posted(v) \/ e = TimeoutEvent(v, "timeout")
  <1>1. queue \in Seq(Answers \cup Timeouts)
    BY DEF TypeOK
  <1>2. queue' \in Seq(Answers \cup Timeouts)
    BY <1>1
  <1>3. DOMAIN queue = 1 .. Len(queue) /\ DOMAIN queue' = 1 .. Len(queue) + 1 /\ Len(queue) \in Nat
    BY <1>1
  <1>4. \A i \in 1 .. Len(queue) + 1 : queue'[i] = IF i = Len(queue) + 1 THEN e ELSE queue[i]
    BY <1>1
  <1>5. ASSUME NEW v \in Waits PROVE Posted(v)' <=> Posted(v) \/ e = TimeoutEvent(v, "timeout")
    BY <1>3, <1>4 DEF Posted, TimeoutEvent
  <1> QED
    BY <1>2, <1>5

LEMMA QueueTakes ==
  ASSUME TypeOK, queue # <<>>, queue' = Tail(queue)
  PROVE  /\ Head(queue) \in Answers \cup Timeouts
         /\ queue' \in Seq(Answers \cup Timeouts)
         /\ \A v \in Waits : Posted(v) <=> Head(queue) = TimeoutEvent(v, "timeout") \/ Posted(v)'
  <1>1. queue \in Seq(Answers \cup Timeouts)
    BY DEF TypeOK
  <1>2. queue' \in Seq(Answers \cup Timeouts) /\ Head(queue) \in Answers \cup Timeouts
    BY <1>1
  <1>3. /\ DOMAIN queue = 1 .. Len(queue) /\ DOMAIN queue' = 1 .. Len(queue) - 1
        /\ Len(queue) \in Nat /\ Len(queue) >= 1 /\ Head(queue) = queue[1]
    BY <1>1
  <1>4. \A i \in 1 .. Len(queue) - 1 : queue'[i] = queue[i + 1]
    BY <1>1
  <1>5. \A j \in 2 .. Len(queue) : j - 1 \in 1 .. Len(queue) - 1 /\ queue'[j - 1] = queue[j]
    BY <1>3, <1>4
  <1>6. ASSUME NEW v \in Waits
        PROVE  Posted(v) <=> Head(queue) = TimeoutEvent(v, "timeout") \/ Posted(v)'
    <2> DEFINE t == TimeoutEvent(v, "timeout")
    <2> HIDE DEF t
    <2>1. Posted(v) <=> \E i \in DOMAIN queue : queue[i] = t
      BY DEF Posted, t
    <2>2. Posted(v)' <=> \E i \in DOMAIN queue' : queue'[i] = t
      BY DEF Posted, TimeoutEvent, t
    <2>3. ASSUME Posted(v) PROVE Head(queue) = t \/ Posted(v)'
      <3>1. PICK j \in 1 .. Len(queue) : queue[j] = t
        BY <1>3, <2>1, <2>3
      <3>2. CASE j = 1
        BY <1>3, <3>1, <3>2
      <3>3. CASE j # 1
        <4>1. j \in 2 .. Len(queue)
          BY <1>3, <3>1, <3>3
        <4>2. j - 1 \in DOMAIN queue' /\ queue'[j - 1] = t
          BY <1>3, <1>5, <3>1, <4>1
        <4> QED
          BY <2>2, <4>2
      <3> QED
        BY <3>2, <3>3
    <2>4. ASSUME Head(queue) = t \/ Posted(v)' PROVE Posted(v)
      <3>1. CASE Head(queue) = t
        BY <1>3, <2>1, <3>1
      <3>2. CASE Posted(v)'
        <4>1. PICK i \in 1 .. Len(queue) - 1 : queue'[i] = t
          BY <1>3, <2>2, <3>2
        <4>2. i + 1 \in DOMAIN queue /\ queue[i + 1] = t
          BY <1>3, <1>4, <4>1
        <4> QED
          BY <2>1, <4>2
      <3> QED
        BY <2>4, <3>1, <3>2
    <2> QED
      BY <2>3, <2>4 DEF t
  <1> QED
    BY <1>2, <1>6

(* The order in which SetToSeq lists a finite set.                         *)
LEMMA Listing ==
  ASSUME NEW S, IsFiniteSet(S)
  PROVE  SetToSeq(S) \in Seq(S)
  <1>1. Cardinality(S) \in Nat /\ ExistsBijection(1 .. Cardinality(S), S)
    BY FS_CardinalityType
  <1>2. \E f \in [1 .. Cardinality(S) -> S] : IsInjective(f)
    BY <1>1 DEF ExistsBijection, Bijection, Injection, IsInjective
  <1>3. SetToSeq(S) \in [1 .. Cardinality(S) -> S]
    BY <1>2 DEF SetToSeq
  <1> QED
    BY <1>1, <1>3

LEMMA ExpireAllPosts ==
  ASSUME TypeOK, ExpireAll
  PROVE  /\ queue' \in Seq(Answers \cup Timeouts)
         /\ \A v \in Waits : Posted(v)' <=> Posted(v)
         /\ \A i \in DOMAIN queue : i \in DOMAIN queue' /\ queue'[i] = queue[i]
         /\ \A i \in DOMAIN queue' : queue'[i].type = "answer" => i \in DOMAIN queue
  <1> DEFINE due == {w \in Waits : Kind[w] = "event" /\ Waiting(w)}
             expired == {TimeoutEvent(w, "expired") : w \in due}
             more == SetToSeq(expired)
  <1>1. IsFiniteSet(due)
    BY SomeWaits, FS_Subset
  <1>2. IsFiniteSet(expired)
    <2> DEFINE f == [w \in due |-> TimeoutEvent(w, "expired")]
    <2>1. f \in Surjection(due, expired)
      BY DEF Surjection
    <2> QED
      BY <1>1, <2>1, FS_Surjection
  <1>3. more \in Seq(expired) /\ queue' = queue \o more
    BY <1>2, Listing DEF ExpireAll
  <1>4. expired \subseteq Timeouts /\ \A x \in expired : \A v \in Waits : x # TimeoutEvent(v, "timeout")
    BY TimeoutEvents
  <1> HIDE DEF due, expired, more
  <1>5. queue \in Seq(Answers \cup Timeouts)
    BY DEF TypeOK
  <1>6. more \in Seq(Answers \cup Timeouts)
    BY <1>3, <1>4
  <1>7. /\ queue' \in Seq(Answers \cup Timeouts)
        /\ DOMAIN queue = 1 .. Len(queue) /\ DOMAIN queue' = 1 .. Len(queue) + Len(more)
        /\ Len(queue) \in Nat /\ Len(more) \in Nat
    BY <1>3, <1>5, <1>6
  <1>8. \A i \in 1 .. Len(queue) + Len(more) :
          queue'[i] = IF i =< Len(queue) THEN queue[i] ELSE more[i - Len(queue)]
    BY <1>3, <1>5, <1>6
  <1>9. \A i \in 1 .. Len(more) : more[i] \in expired
    BY <1>3
  <1>10. ASSUME NEW v \in Waits PROVE Posted(v)' <=> Posted(v)
    <2>1. \A i \in DOMAIN queue' : queue'[i] = TimeoutEvent(v, "timeout") => i \in DOMAIN queue
      BY <1>4, <1>7, <1>8, <1>9 DEF TimeoutEvent
    <2> QED
      BY <1>7, <1>8, <2>1 DEF Posted, TimeoutEvent
  <1>11. \A i \in DOMAIN queue : i \in DOMAIN queue' /\ queue'[i] = queue[i]
    BY <1>7, <1>8
  <1>12. ASSUME NEW i \in DOMAIN queue', queue'[i].type = "answer" PROVE i \in DOMAIN queue
    <2>1. \A x \in expired : x.type # "answer"
      BY <1>4 DEF Timeouts
    <2> QED
      BY <1>7, <1>8, <1>9, <1>12, <2>1
  <1> QED
    BY <1>7, <1>10, <1>11, <1>12

-----------------------------------------------------------------------------
LEMMA IndInit == Init => IndInv
  <1> SUFFICES ASSUME Init PROVE IndInv
    OBVIOUS
  <1>1. pool.used = {} /\ current.handlers = {}
    BY IdleType DEF Init, EmptyPool
  <1>2. TypeOK
    BY EmptyPoolType, IdleType DEF Init, TypeOK, Idle
  <1>3. BoundWaiting /\ HandlersBound /\ HandlesGiven
    BY <1>1, WaitKinds DEF Init, BoundWaiting, HandlersBound, HandlesGiven, Waiting
  <1>4. FiredOnce
    BY <1>1 DEF Init, FiredOnce, Fired, Posted
  <1>5. ResumedOnce
    BY DEF Init, ResumedOnce
  <1>6. HandlesInUse /\ TimeoutPending
    BY <1>1, WaitKinds DEF Init, HandlesInUse, TimeoutPending, Waiting
  <1> QED
    BY <1>2, <1>3, <1>4, <1>5, <1>6 DEF IndInv
LEMMA BeginStep ==
  ASSUME IndInv, NEW w \in Waits, Begin(w)
  PROVE  IndInv'
  <1>0. TypeOK /\ BoundWaiting /\ HandlersBound /\ HandlesGiven
        /\ FiredOnce /\ ResumedOnce /\ HandlesInUse /\ TimeoutPending
    BY DEF IndInv
  <1>a. PairsOf(w) \subseteq Waits \X Parts
    BY PartsGiven DEF PairsOf
  <1>b. /\ pool' \in Pool /\ waitHandle' \in [Waits -> Handles \cup {0}]
        /\ asked' \subseteq Waits \X Parts
    <2>1. CASE w \in Requesting
      BY <1>0, <1>a, <2>1, FoundIsFree, PoolType DEF Begin, TypeOK, Free
    <2>2. CASE w \notin Requesting
      BY <1>0, <2>2 DEF Begin, TypeOK
    <2> QED
      BY <2>1, <2>2
  <1>c. /\ status[w] = "new"
        /\ \A v \in Waits : status'[v] = IF v = w THEN "waiting" ELSE status[v]
    BY <1>0 DEF Begin, TypeOK
  <1>d. ~Waiting(w) /\ w \notin reserved /\ waitHandle[w] = 0 /\ resumed[w] = 0 /\ ~Fired(w)
    BY <1>0, <1>c DEF Waiting, FiredOnce, BoundWaiting, HandlesGiven, ResumedOnce
  <1>e. w \in Requesting =>
          /\ Found(pool) \in Handles \ pool.used /\ Found(pool) # 0
          /\ pool'.used = pool.used \cup {Found(pool)}
          /\ \A v \in Waits : waitHandle'[v] = IF v = w THEN Found(pool) ELSE waitHandle[v]
    <2>1. SUFFICES ASSUME w \in Requesting
                   PROVE  /\ Found(pool) \in Handles \ pool.used /\ Found(pool) # 0
                          /\ pool'.used = pool.used \cup {Found(pool)}
                          /\ \A v \in Waits : waitHandle'[v] = IF v = w THEN Found(pool) ELSE waitHandle[v]
      OBVIOUS
    <2>2. pool \in Pool /\ ~Exhausted(pool)
      BY <1>0, <2>1 DEF Begin, TypeOK
    <2>3. Found(pool) \in Handles \ pool.used /\ Found(pool) # 0
      BY <2>2, FoundIsFree, PoolSizePositive DEF Free, Handles
    <2> QED
      BY <1>0, <2>1, <2>2, <2>3, PoolUse DEF Begin, TypeOK
  <1>f. w \notin Requesting => UNCHANGED <<pool, waitHandle>>
    BY DEF Begin
  <1>1. TypeOK'
    BY <1>0, <1>a, <1>b DEF Begin, TypeOK
  <1>2. BoundWaiting'
    <2>1. \A pair \in bound' : Waiting(pair[1])' /\ pair[2] \in PartsOf(pair[1])
      BY <1>0, <1>a, <1>c DEF Begin, BoundWaiting, Waiting, PairsOf, TypeOK
    <2>2. bindings' = {v \in Timed : Waiting(v)'}
      BY <1>0, <1>c, <1>d, WaitKinds DEF Begin, BoundWaiting, Waiting
    <2> QED
      BY <2>1, <2>2 DEF BoundWaiting
  <1>3. HandlersBound'
    BY <1>0 DEF Begin, HandlersBound
  <1>4. HandlesGiven'
    BY <1>0, <1>c, <1>d, <1>e, <1>f DEF HandlesGiven
  <1>5. FiredOnce'
    <2>1. \A v \in Waits : Fired(v)' => Fired(v)
      BY DEF Begin, Fired, Posted
    <2> QED
      BY <1>0, <1>c, <1>d, <2>1 DEF Begin, FiredOnce
  <1>6. ResumedOnce'
    BY <1>0, <1>c, <1>d DEF Begin, ResumedOnce
  <1>7. HandlesInUse'
    <2>1. CASE w \in Requesting
      <3>1. \A v \in Requesting : Waiting(v)' <=> Waiting(v) \/ v = w
        BY <1>c, WaitKinds DEF Waiting
      <3>2. \A v \in Requesting : Waiting(v) => v # w /\ waitHandle[v] \in pool.used
        BY <1>0, <1>d DEF HandlesInUse
      <3> QED
        BY <1>0, <1>e, <2>1, <3>1, <3>2, WaitKinds DEF HandlesInUse
    <2>2. CASE w \notin Requesting
      BY <1>0, <1>c, <1>f, <2>2, WaitKinds DEF HandlesInUse, Waiting
    <2> QED
      BY <2>1, <2>2
  <1>8. TimeoutPending'
    <2>1. \A v \in Waits : (Posted(v) => Posted(v)') /\ (Handled(v) => Handled(v)')
      BY DEF Begin, Posted, Handled
    <2> QED
      BY <1>0, <1>c, <1>d, <2>1, WaitKinds DEF Begin, TimeoutPending, Waiting
  <1> QED
    BY <1>1, <1>2, <1>3, <1>4, <1>5, <1>6, <1>7, <1>8 DEF IndInv

LEMMA BeginFailsStep ==
  ASSUME IndInv, NEW w \in Waits, BeginFails(w)
  PROVE  IndInv'
  <1>0. TypeOK /\ BoundWaiting /\ HandlersBound /\ HandlesGiven
        /\ FiredOnce /\ ResumedOnce /\ HandlesInUse /\ TimeoutPending
    BY DEF IndInv
  <1>1. TypeOK'
    BY <1>0, WaitKinds DEF BeginFails, TypeOK
  <1>2. BoundWaiting'
    BY <1>0, WaitKinds DEF BeginFails, TypeOK, BoundWaiting, Waiting, PairsOf
  <1>3. HandlersBound'
    BY <1>0, WaitKinds DEF BeginFails, TypeOK, HandlersBound
  <1>4. HandlesGiven'
    BY <1>0, WaitKinds DEF BeginFails, TypeOK, HandlesGiven
  <1>5. FiredOnce'
    BY <1>0, WaitKinds DEF BeginFails, TypeOK, FiredOnce, Fired, Posted
  <1>6. ResumedOnce'
    BY <1>0, WaitKinds DEF BeginFails, TypeOK, ResumedOnce
  <1>7. HandlesInUse'
    BY <1>0, WaitKinds DEF BeginFails, TypeOK, HandlesInUse, Waiting
  <1>8. TimeoutPending'
    BY <1>0, WaitKinds DEF BeginFails, TypeOK, TimeoutPending, Waiting, Posted, Handled
  <1> QED
    BY <1>1, <1>2, <1>3, <1>4, <1>5, <1>6, <1>7, <1>8 DEF IndInv

LEMMA AnswerStep ==
  ASSUME IndInv, NEW w \in Waits, NEW p \in Parts, Answer(w, p)
  PROVE  IndInv'
  <1>0. TypeOK /\ BoundWaiting /\ HandlersBound /\ HandlesGiven
        /\ FiredOnce /\ ResumedOnce /\ HandlesInUse /\ TimeoutPending
    BY DEF IndInv
  <1>a. PICK e \in Answers : queue' = Append(queue, e)
    BY <1>0 DEF Answer, Answers, TypeOK
  <1>b. /\ queue' \in Seq(Answers \cup Timeouts)
        /\ \A v \in Waits : Posted(v)' <=> Posted(v)
    BY <1>0, <1>a, QueueAdds, AnswerNoTimeout
  <1>1. TypeOK'
    BY <1>0, <1>b DEF Answer, TypeOK
  <1>2. BoundWaiting'
    BY <1>0 DEF Answer, TypeOK, BoundWaiting, Waiting, PairsOf
  <1>3. HandlersBound'
    BY <1>0 DEF Answer, TypeOK, HandlersBound
  <1>4. HandlesGiven'
    BY <1>0 DEF Answer, TypeOK, HandlesGiven
  <1>5. FiredOnce'
    BY <1>0, <1>b DEF Answer, FiredOnce, Fired
  <1>6. ResumedOnce'
    BY <1>0 DEF Answer, TypeOK, ResumedOnce
  <1>7. HandlesInUse'
    BY <1>0 DEF Answer, TypeOK, HandlesInUse, Waiting
  <1>8. TimeoutPending'
    BY <1>0, <1>b, WaitKinds DEF Answer, TimeoutPending, Waiting, Handled
  <1> QED
    BY <1>1, <1>2, <1>3, <1>4, <1>5, <1>6, <1>7, <1>8 DEF IndInv

LEMMA NotifyStep ==
  ASSUME IndInv, NEW p \in Parts, Notify(p)
  PROVE  IndInv'
  <1>0. TypeOK /\ BoundWaiting /\ HandlersBound /\ HandlesGiven
        /\ FiredOnce /\ ResumedOnce /\ HandlesInUse /\ TimeoutPending
    BY DEF IndInv
  <1>a. PICK e \in Answers : queue' = Append(queue, e)
    BY <1>0 DEF Notify, Answers, TypeOK
  <1>b. /\ queue' \in Seq(Answers \cup Timeouts)
        /\ \A v \in Waits : Posted(v)' <=> Posted(v)
    BY <1>0, <1>a, QueueAdds, AnswerNoTimeout
  <1>1. TypeOK'
    BY <1>0, <1>b DEF Notify, TypeOK
  <1>2. BoundWaiting'
    BY <1>0 DEF Notify, TypeOK, BoundWaiting, Waiting, PairsOf
  <1>3. HandlersBound'
    BY <1>0 DEF Notify, TypeOK, HandlersBound
  <1>4. HandlesGiven'
    BY <1>0 DEF Notify, TypeOK, HandlesGiven
  <1>5. FiredOnce'
    BY <1>0, <1>b DEF Notify, FiredOnce, Fired
  <1>6. ResumedOnce'
    BY <1>0 DEF Notify, TypeOK, ResumedOnce
  <1>7. HandlesInUse'
    BY <1>0 DEF Notify, TypeOK, HandlesInUse, Waiting
  <1>8. TimeoutPending'
    BY <1>0, <1>b, WaitKinds DEF Notify, TimeoutPending, Waiting, Handled
  <1> QED
    BY <1>1, <1>2, <1>3, <1>4, <1>5, <1>6, <1>7, <1>8 DEF IndInv

LEMMA TickStep ==
  ASSUME IndInv, Tick
  PROVE  IndInv'
  <1>0. TypeOK /\ BoundWaiting /\ HandlersBound /\ HandlesGiven
        /\ FiredOnce /\ ResumedOnce /\ HandlesInUse /\ TimeoutPending
    BY DEF IndInv
  <1>a. PICK due \in SUBSET reserved : bundle' = due /\ reserved' = reserved \ due
    BY DEF Tick
  <1>b. UNCHANGED <<pool, status, waitHandle, bound, bindings, queue, current, asked, resumed, answerers>>
        /\ bundle = {}
    BY DEF Tick
  <1>1. TypeOK'
    BY <1>0, <1>a, <1>b DEF TypeOK
  <1>2. BoundWaiting'
    BY <1>0, WaitKinds DEF Tick, TypeOK, BoundWaiting, Waiting, PairsOf
  <1>3. HandlersBound'
    BY <1>0, WaitKinds DEF Tick, TypeOK, HandlersBound
  <1>4. HandlesGiven'
    BY <1>0, WaitKinds DEF Tick, TypeOK, HandlesGiven
  <1>5. FiredOnce'
    <2>1. \A w \in Waits : Fired(w)' => Fired(w) \/ w \in due
      BY <1>a, <1>b DEF Fired, Posted
    <2>2. \A w \in due : status[w] # "new"
      BY <1>0 DEF FiredOnce, BoundWaiting, Waiting
    <2> QED
      BY <1>0, <1>a, <1>b, <2>1, <2>2 DEF FiredOnce
  <1>6. ResumedOnce'
    BY <1>0, WaitKinds DEF Tick, TypeOK, ResumedOnce
  <1>7. HandlesInUse'
    BY <1>0, WaitKinds DEF Tick, TypeOK, HandlesInUse, Waiting
  <1>8. TimeoutPending'
    BY <1>0, <1>a, <1>b DEF TimeoutPending, Waiting, Posted, Handled
  <1> QED
    BY <1>1, <1>2, <1>3, <1>4, <1>5, <1>6, <1>7, <1>8 DEF IndInv

LEMMA FireStep ==
  ASSUME IndInv, Fire
  PROVE  IndInv'
  <1>0. TypeOK /\ BoundWaiting /\ HandlersBound /\ HandlesGiven
        /\ FiredOnce /\ ResumedOnce /\ HandlesInUse /\ TimeoutPending
    BY DEF IndInv
  <1>a. PICK w \in bundle : bundle' = bundle \ {w} /\ queue' = Append(queue, TimeoutEvent(w, "timeout"))
    BY DEF Fire
  <1>b. UNCHANGED <<pool, status, waitHandle, bound, bindings, reserved, current, asked, resumed, answerers>>
    BY DEF Fire
  <1>c. w \in Waits
    BY <1>0, <1>a DEF TypeOK
  <1>d. /\ queue' \in Seq(Answers \cup Timeouts)
        /\ \A v \in Waits : Posted(v)' <=> Posted(v) \/ v = w
    BY <1>0, <1>a, <1>c, QueueAdds, TimeoutEvents
  <1>1. TypeOK'
    BY <1>0, <1>a, <1>b, <1>d DEF TypeOK
  <1>2. BoundWaiting'
    BY <1>0 DEF Fire, TypeOK, BoundWaiting, Waiting, PairsOf
  <1>3. HandlersBound'
    BY <1>0 DEF Fire, TypeOK, HandlersBound
  <1>4. HandlesGiven'
    BY <1>0 DEF Fire, TypeOK, HandlesGiven
  <1>5. FiredOnce'
    <2>1. \A v \in Waits : Fired(v)' => Fired(v)
      BY <1>a, <1>b, <1>d DEF Fired
    <2> QED
      BY <1>0, <1>b, <2>1 DEF FiredOnce
  <1>6. ResumedOnce'
    BY <1>0 DEF Fire, TypeOK, ResumedOnce
  <1>7. HandlesInUse'
    BY <1>0 DEF Fire, TypeOK, HandlesInUse, Waiting
  <1>8. TimeoutPending'
    BY <1>0, <1>a, <1>b, <1>d, WaitKinds DEF TimeoutPending, Waiting, Handled
  <1> QED
    BY <1>1, <1>2, <1>3, <1>4, <1>5, <1>6, <1>7, <1>8 DEF IndInv

LEMMA ExpireAllStep ==
  ASSUME IndInv, ExpireAll
  PROVE  IndInv'
  <1>0. TypeOK /\ BoundWaiting /\ HandlersBound /\ HandlesGiven
        /\ FiredOnce /\ ResumedOnce /\ HandlesInUse /\ TimeoutPending
    BY DEF IndInv
  <1>a. /\ queue' \in Seq(Answers \cup Timeouts)
        /\ \A v \in Waits : Posted(v)' <=> Posted(v)
    BY <1>0, ExpireAllPosts
  <1>1. TypeOK'
    BY <1>0, <1>a DEF ExpireAll, TypeOK
  <1>2. BoundWaiting'
    BY <1>0 DEF ExpireAll, TypeOK, BoundWaiting, Waiting, PairsOf
  <1>3. HandlersBound'
    BY <1>0 DEF ExpireAll, TypeOK, HandlersBound
  <1>4. HandlesGiven'
    BY <1>0 DEF ExpireAll, TypeOK, HandlesGiven
  <1>5. FiredOnce'
    BY <1>0, <1>a DEF ExpireAll, FiredOnce, Fired
  <1>6. ResumedOnce'
    BY <1>0 DEF ExpireAll, TypeOK, ResumedOnce
  <1>7. HandlesInUse'
    BY <1>0 DEF ExpireAll, TypeOK, HandlesInUse, Waiting
  <1>8. TimeoutPending'
    BY <1>0, <1>a, WaitKinds DEF ExpireAll, TimeoutPending, Waiting, Handled
  <1> QED
    BY <1>1, <1>2, <1>3, <1>4, <1>5, <1>6, <1>7, <1>8 DEF IndInv

LEMMA DispatchStep ==
  ASSUME IndInv, Dispatch
  PROVE  IndInv'
  <1>0. TypeOK /\ BoundWaiting /\ HandlersBound /\ HandlesGiven
        /\ FiredOnce /\ ResumedOnce /\ HandlesInUse /\ TimeoutPending
    BY DEF IndInv
  <1> DEFINE e == Head(queue)
  <1>a. /\ queue # <<>> /\ queue' = Tail(queue) /\ current.handlers = {}
        /\ current' = IF Listeners(e) = {} THEN Idle ELSE [event |-> e, handlers |-> Listeners(e)]
    BY DEF Dispatch
  <1>b. UNCHANGED <<pool, status, waitHandle, bound, bindings, reserved, bundle, asked, resumed, answerers>>
    BY DEF Dispatch
  <1>c. /\ e \in Answers \cup Timeouts /\ queue' \in Seq(Answers \cup Timeouts)
        /\ \A v \in Waits : Posted(v) <=> e = TimeoutEvent(v, "timeout") \/ Posted(v)'
    BY <1>0, <1>a, QueueTakes
  <1> HIDE DEF e
  <1>d. Idle.handlers = {} /\ Idle.event \in Answers \cup Timeouts
    BY IdleType
  <1>e. /\ Listeners(e) \subseteq Waits \X Parts
        /\ Listeners(e) \subseteq
             IF e.type = "answer" THEN {pair \in bound : pair[2] = e.part}
             ELSE {pair \in Waits \X {First} : pair[1] = e.about /\ pair[1] \in bindings}
    BY <1>0, PartsGiven DEF Listeners, TypeOK
  <1>1. TypeOK'
    <2>1. current' \in [event : Answers \cup Timeouts, handlers : SUBSET (Waits \X Parts)]
      BY <1>a, <1>c, <1>d, <1>e DEF Idle
    <2> QED
      BY <1>0, <1>b, <1>c, <2>1 DEF TypeOK
  <1>2. BoundWaiting'
    BY <1>0 DEF Dispatch, TypeOK, BoundWaiting, Waiting, PairsOf
  <1>3. HandlersBound'
    BY <1>a, <1>b, <1>d, <1>e DEF HandlersBound
  <1>4. HandlesGiven'
    BY <1>0 DEF Dispatch, TypeOK, HandlesGiven
  <1>5. FiredOnce'
    <2>1. \A v \in Waits : Fired(v)' => Fired(v)
      BY <1>a, <1>b, <1>c, <1>d DEF Fired
    <2> QED
      BY <1>0, <1>b, <2>1 DEF FiredOnce
  <1>6. ResumedOnce'
    BY <1>0 DEF Dispatch, TypeOK, ResumedOnce
  <1>7. HandlesInUse'
    BY <1>0 DEF Dispatch, TypeOK, HandlesInUse, Waiting
  <1>8. TimeoutPending'
    <2>1. ASSUME NEW v \in Timed, Waiting(v), e = TimeoutEvent(v, "timeout") PROVE Handled(v)'
      <3>1. e.type = "timeout" /\ e.about = v /\ v \in Waits
        BY <2>1, TimeoutEvents, WaitKinds
      <3>2. <<v, First>> \in Listeners(e)
        BY <1>0, <2>1, <3>1 DEF Listeners, BoundWaiting
      <3> QED
        BY <1>a, <3>1, <3>2 DEF Handled
    <2>2. \A v \in Waits : ~Handled(v)
      BY <1>a DEF Handled
    <2> QED
      BY <1>0, <1>b, <1>c, <2>1, <2>2, WaitKinds DEF TimeoutPending, Waiting
  <1> QED
    BY <1>1, <1>2, <1>3, <1>4, <1>5, <1>6, <1>7, <1>8 DEF IndInv

(* What is left to invoke after a handler has been.                        *)
Rest(pair) ==
  IF current.handlers = {pair} THEN Idle ELSE [current EXCEPT !.handlers = @ \ {pair}]

LEMMA RestOfHandlers ==
  ASSUME TypeOK, HandlersBound, NEW pair \in current.handlers
  PROVE  /\ Rest(pair) \in [event : Answers \cup Timeouts, handlers : SUBSET (Waits \X Parts)]
         /\ Rest(pair).handlers = current.handlers \ {pair}
         /\ Rest(pair).handlers # {} => Rest(pair).event = current.event
         /\ \A other \in Rest(pair).handlers : other[1] # pair[1]
  <1>1. /\ Rest(pair) \in [event : Answers \cup Timeouts, handlers : SUBSET (Waits \X Parts)]
        /\ Rest(pair).handlers = current.handlers \ {pair}
        /\ Rest(pair).handlers # {} => Rest(pair).event = current.event
    <2>1. CASE current.handlers = {pair}
      BY <2>1, IdleType DEF Rest, Idle
    <2>2. CASE current.handlers # {pair}
      BY <2>2 DEF Rest, TypeOK
    <2> QED
      BY <2>1, <2>2
  <1>2. ASSUME NEW other \in current.handlers, other # pair PROVE other[1] # pair[1]
    <2>1. other[2] = pair[2]
      BY <1>2 DEF HandlersBound
    <2>2. other = <<other[1], other[2]>> /\ pair = <<pair[1], pair[2]>>
      BY <1>2 DEF TypeOK
    <2> QED
      BY <1>2, <2>1, <2>2
  <1> QED
    BY <1>1, <1>2

(* The end of a wait, by an answer or a timeout.                           *)
LEMMA EndStep ==
  ASSUME IndInv, NEW pair \in current.handlers, NEW w \in Waits, w = pair[1], Waiting(w),
         current' = Rest(pair), bound' = bound \ PairsOf(w),
         bindings' = bindings \ {w}, reserved' = reserved \ {w}, ReleaseHandle(w),
         NEW outcome \in {"answered", "timeout"}, Continue(w, outcome),
         answerers' \in [Waits -> SUBSET (Waits \cup {Nobody})],
         UNCHANGED <<waitHandle, bundle, queue, asked>>
  PROVE  IndInv'
  <1>0. TypeOK /\ BoundWaiting /\ HandlersBound /\ HandlesGiven
        /\ FiredOnce /\ ResumedOnce /\ HandlesInUse /\ TimeoutPending
    BY DEF IndInv
  <1>a. /\ current' \in [event : Answers \cup Timeouts, handlers : SUBSET (Waits \X Parts)]
        /\ current'.handlers = current.handlers \ {pair}
        /\ current'.handlers # {} => current'.event = current.event
        /\ \A other \in current'.handlers : other[1] # w
    BY <1>0, RestOfHandlers
  <1>b. /\ \A v \in Waits : status'[v] = IF v = w THEN outcome ELSE status[v]
        /\ \A v \in Waits : resumed'[v] = IF v = w THEN resumed[v] + 1 ELSE resumed[v]
        /\ status' \in [Waits -> {"new", "failed", "waiting", "answered", "timeout"}]
        /\ resumed' \in [Waits -> Nat]
    BY <1>0 DEF Continue, TypeOK
  <1>c. \A v \in Waits : Waiting(v)' <=> Waiting(v) /\ v # w
    BY <1>b DEF Waiting
  <1>d. /\ pool' \in Pool
        /\ pool'.used = IF w \in Requesting THEN pool.used \ {waitHandle[w]} ELSE pool.used
    <2>1. w \in Requesting <=> waitHandle[w] # 0
      BY <1>0 DEF HandlesGiven, Waiting
    <2>2. CASE w \in Requesting
      <3>1. waitHandle[w] \in Handles /\ pool \in Pool /\ pool' = Released(pool, waitHandle[w])
        BY <1>0, <2>1, <2>2 DEF ReleaseHandle, TypeOK
      <3> QED
        BY <2>2, <3>1, PoolType, PoolUse
    <2>3. CASE w \notin Requesting
      BY <1>0, <2>1, <2>3 DEF ReleaseHandle, TypeOK
    <2> QED
      BY <2>2, <2>3
  <1>1. TypeOK'
    BY <1>0, <1>a, <1>b, <1>d DEF TypeOK
  <1>2. BoundWaiting'
    <2>1. \A q \in bound' : q \in bound /\ q[1] \in Waits /\ q[1] # w
      BY <1>0 DEF BoundWaiting, TypeOK, PairsOf
    <2>2. bindings' = {v \in Timed : Waiting(v)'}
      BY <1>0, <1>c, WaitKinds DEF BoundWaiting
    <2> QED
      BY <1>0, <1>c, <2>1, <2>2 DEF BoundWaiting
  <1>3. HandlersBound'
    <2>1. ASSUME NEW q \in current'.handlers
          PROVE  /\ q \in current.handlers /\ current'.event = current.event /\ q[1] # w
                 /\ q \in bound => q \in bound'
      BY <1>a DEF PairsOf
    <2> QED
      BY <1>0, <2>1 DEF HandlersBound
  <1>4. HandlesGiven'
    BY <1>0, <1>b DEF HandlesGiven, Waiting
  <1>5. FiredOnce'
    <2>1. \A v \in Waits : Fired(v)' => Fired(v)
      BY <1>a DEF Fired, Posted, TimeoutEvent
    <2> QED
      BY <1>0, <1>b, <2>1 DEF FiredOnce
  <1>6. ResumedOnce'
    BY <1>0, <1>b DEF ResumedOnce, Waiting
  <1>7. HandlesInUse'
    BY <1>0, <1>c, <1>d, WaitKinds DEF HandlesInUse
  <1>8. TimeoutPending'
    <2>1. \A v \in Waits \ {w} : Handled(v) => Handled(v)'
      BY <1>a DEF Handled
    <2>2. \A v \in Waits : Posted(v)' <=> Posted(v)
      BY DEF Posted, TimeoutEvent
    <2> QED
      BY <1>0, <1>c, <2>1, <2>2, WaitKinds DEF TimeoutPending
  <1> QED
    BY <1>1, <1>2, <1>3, <1>4, <1>5, <1>6, <1>7, <1>8 DEF IndInv

(* An answer to a WaitForAllEvents that is not the last.                   *)
LEMMA PartStep ==
  ASSUME IndInv, NEW pair \in current.handlers, NEW w \in Waits, NEW p \in Parts, pair = <<w, p>>,
         current' = Rest(pair), bound' = (bound \ PairsOf(w)) \cup Unmatched(w, p),
         answerers' \in [Waits -> SUBSET (Waits \cup {Nobody})],
         current.event.type = "answer",
         UNCHANGED <<pool, status, waitHandle, bindings, reserved, bundle, queue, asked, resumed>>
  PROVE  IndInv'
  <1>0. TypeOK /\ BoundWaiting /\ HandlersBound /\ HandlesGiven
        /\ FiredOnce /\ ResumedOnce /\ HandlesInUse /\ TimeoutPending
    BY DEF IndInv
  <1>a. /\ current' \in [event : Answers \cup Timeouts, handlers : SUBSET (Waits \X Parts)]
        /\ current'.handlers = current.handlers \ {pair}
        /\ current'.handlers # {} => current'.event = current.event
        /\ \A other \in current'.handlers : other[1] # w
    BY <1>0, RestOfHandlers
  <1>b. bound' \subseteq bound /\ \A q \in bound : q[1] # w => q \in bound'
    BY DEF Unmatched, PairsOf
  <1>1. TypeOK'
    BY <1>0, <1>a, <1>b DEF TypeOK
  <1>2. BoundWaiting'
    BY <1>0, <1>b DEF BoundWaiting, Waiting
  <1>3. HandlersBound'
    BY <1>0, <1>a, <1>b DEF HandlersBound
  <1>4. FiredOnce'
    <2>1. \A v \in Waits : Fired(v)' => Fired(v)
      BY <1>a DEF Fired, Posted, TimeoutEvent
    <2> QED
      BY <1>0, <2>1 DEF FiredOnce
  <1>5. HandlesGiven' /\ ResumedOnce' /\ HandlesInUse'
    BY <1>0 DEF HandlesGiven, ResumedOnce, HandlesInUse, Waiting
  <1>6. TimeoutPending'
    <2>1. \A v \in Waits : ~Handled(v) /\ (Posted(v) => Posted(v)')
      BY DEF Handled, Posted, TimeoutEvent
    <2> QED
      BY <1>0, <2>1, WaitKinds DEF TimeoutPending, Waiting
  <1> QED
    BY <1>1, <1>2, <1>3, <1>4, <1>5, <1>6 DEF IndInv

LEMMA InvokeStep ==
  ASSUME IndInv, Invoke
  PROVE  IndInv'
  <1>0. TypeOK /\ BoundWaiting /\ HandlersBound /\ FiredOnce
    BY DEF IndInv
  <1>1. PICK pair \in current.handlers :
          /\ OnEvent(pair[1], pair[2]) \/ OnTimeout(pair[1])
          /\ current' = Rest(pair)
    BY DEF Invoke, Rest
  <1>2. UNCHANGED <<waitHandle, bundle, queue, asked>>
    BY DEF Invoke
  <1>3. PICK w \in Waits, p \in Parts : pair = <<w, p>>
    BY <1>0 DEF TypeOK
  <1>4. pair[1] = w /\ pair[2] = p
    BY <1>3
  <1>5. CASE OnEvent(w, p)
    <2>1. Waiting(w)
      BY <1>0, <1>4, <1>5 DEF OnEvent, HandlersBound, BoundWaiting
    <2>2. answerers' \in [Waits -> SUBSET (Waits \cup {Nobody})]
      BY <1>0, <1>5 DEF OnEvent, TypeOK, Answers, Timeouts
    <2>3. CASE Unmatched(w, p) = {}
      BY <1>1, <1>2, <1>4, <1>5, <2>1, <2>2, <2>3, EndStep DEF OnEvent, CancelTimer
    <2>4. CASE Unmatched(w, p) # {}
      BY <1>1, <1>2, <1>3, <1>5, <2>2, <2>4, PartStep DEF OnEvent
    <2> QED
      BY <2>3, <2>4
  <1>6. CASE OnTimeout(w)
    <2>1. w \in bindings /\ current.event.about = w
      BY <1>0, <1>4, <1>6 DEF OnTimeout, HandlersBound
    <2>2. Waiting(w)
      BY <1>0, <2>1 DEF BoundWaiting
    <2>3. reserved' = reserved \ {w}
      <3>1. CASE current.event.type = "expired"
        BY <1>6, <3>1 DEF OnTimeout
      <3>2. CASE current.event.type # "expired"
        <4>1. current.event \in Timeouts /\ current.event.type = "timeout"
          BY <1>0, <1>6, <3>2 DEF OnTimeout, TypeOK, Answers, Timeouts
        <4>2. current.event = TimeoutEvent(w, "timeout")
          BY <2>1, <4>1 DEF Timeouts, TimeoutEvent
        <4>3. w \notin reserved
          BY <1>0, <4>2 DEF FiredOnce, Fired
        <4> QED
          BY <1>6, <3>2, <4>3 DEF OnTimeout
      <3> QED
        BY <3>1, <3>2
    <2>4. answerers' \in [Waits -> SUBSET (Waits \cup {Nobody})]
      BY <1>0, <1>6 DEF OnTimeout, TypeOK
    <2> QED
      BY <1>1, <1>2, <1>4, <1>6, <2>2, <2>3, <2>4, EndStep DEF OnTimeout
  <1> QED
    BY <1>1, <1>4, <1>5, <1>6

-----------------------------------------------------------------------------
LEMMA IndStep == IndInv /\ [Next]_vars => IndInv'
  <1> SUFFICES ASSUME IndInv, [Next]_vars PROVE IndInv'
    OBVIOUS
  <1>1. CASE UNCHANGED vars
    BY <1>1
      DEF vars, IndInv, TypeOK, BoundWaiting, HandlersBound, HandlesGiven,
         FiredOnce, Fired, Posted,
       ResumedOnce, HandlesInUse, TimeoutPending, Handled, Waiting, TimeoutEvent
  <1>2. ASSUME NEW w \in Waits, Begin(w) \/ BeginFails(w) PROVE IndInv'
    BY <1>2, BeginStep, BeginFailsStep
  <1>3. ASSUME NEW w \in Waits, NEW p \in Parts, Answer(w, p) \/ Notify(p) PROVE IndInv'
    BY <1>3, AnswerStep, NotifyStep
  <1>4. CASE TimerStep \/ ExpireAll
    BY <1>4, TickStep, FireStep, ExpireAllStep DEF TimerStep
  <1>5. CASE FlowStep
    BY <1>5, DispatchStep, InvokeStep DEF FlowStep
  <1> QED
    BY <1>1, <1>2, <1>3, <1>4, <1>5, SomeWaits DEF Next

(* The inductive invariant, for any number of waits, parts and handles.    *)
THEOREM Inductive == Spec => []IndInv
  BY IndInit, IndStep, PTL DEF Spec

(* No race of answers, timeouts and ExpireAll continues a coroutine twice. *)
THEOREM NeverResumedTwice == Spec => []ResumedOnce
  <1>1. IndInv => ResumedOnce
    BY DEF IndInv
  <1> QED
    BY <1>1, Inductive, PTL

(* A wait handle is in the pool's use exactly while its wait waits, and no *)
(* two waits that wait have the same.                                      *)
THEOREM HandlesWhileWaiting == Spec => []HandlesInUse
  <1>1. IndInv => HandlesInUse
    BY DEF IndInv
  <1> QED
    BY <1>1, Inductive, PTL

(* The timer holds reservations of waits that wait only, and those of a    *)
(* wait that has a timeout are never lost on the way.                      *)
THEOREM TimeoutsKept == Spec => []TimeoutPending
  <1>1. IndInv => TimeoutPending
    BY DEF IndInv
  <1> QED
    BY <1>1, Inductive, PTL

-----------------------------------------------------------------------------
(***************************************************************************)
(* Whose answers reach a wait.  Each request is answered once, with the    *)
(* handle its wait has or had; and as long as a wait was neither timed out *)
(* nor given the answer to another request, the parts of which the answers *)
(* have still to come are the parts it is still bound for.                 *)
(***************************************************************************)
IsAnswer(e, v, p) == e.type = "answer" /\ e.about = v /\ e.part = p
InQueue(v, p) == \E i \in DOMAIN queue : IsAnswer(queue[i], v, p)
Underway(v, p) == current.handlers # {} /\ IsAnswer(current.event, v, p)

Started(w) == w \in Requesting /\ status[w] \notin {"new", "failed"}
Origin(e) ==
  e.type = "answer" =>
    IF e.about = Nobody THEN e.handle = 0
    ELSE Started(e.about) /\ e.handle = waitHandle[e.about]
Origins ==
  /\ \A pair \in asked : Started(pair[1])
  /\ \A i \in DOMAIN queue : Origin(queue[i])
  /\ current.handlers # {} => Origin(current.event)

SentOnce ==
  /\ \A v \in Waits, p \in Parts :
       /\ InQueue(v, p) => <<v, p>> \notin asked
       /\ Underway(v, p) => <<v, p>> \notin asked /\ ~InQueue(v, p)
  /\ \A v \in Waits, p \in Parts : \A i, j \in DOMAIN queue :
       IsAnswer(queue[i], v, p) /\ IsAnswer(queue[j], v, p) => i = j

Tainted(v) == status[v] = "timeout" \/ Kind[v] = "any" \/ ~(answerers[v] \subseteq {v})
OwnBound ==
  \A v \in Requesting, p \in Parts :
    (<<v, p>> \in asked \/ InQueue(v, p)) /\ ~Tainted(v) => <<v, p>> \in bound

GivenUp(v) == v \in Waits /\ status[v] \in {"answered", "timeout"} /\ Tainted(v)
ForeignUnderway ==
  current.event.type = "answer" =>
    \A pair \in current.handlers :
      pair[1] \in Requesting /\ current.event.about # pair[1] => GivenUp(current.event.about)
ForeignTaken ==
  \A w \in Requesting : \A v \in answerers[w] \ {w} : GivenUp(v)

Answering == Origins /\ SentOnce /\ OwnBound /\ ForeignUnderway /\ ForeignTaken
AnsInv == IndInv /\ Answering

LEMMA AnsBegins == Init => AnsInv
  <1> SUFFICES ASSUME Init PROVE Answering
    BY IndInit DEF AnsInv
  <1>1. /\ asked = {} /\ DOMAIN queue = {} /\ current.handlers = {}
        /\ \A w \in Waits : answerers[w] = {}
    BY IdleType DEF Init
  <1>2. Origins /\ SentOnce /\ OwnBound
    BY <1>1 DEF Origins, SentOnce, OwnBound, InQueue, Underway
  <1>3. ForeignUnderway /\ ForeignTaken
    BY <1>1, WaitKinds DEF ForeignUnderway, ForeignTaken
  <1> QED
    BY <1>2, <1>3 DEF Answering

(* A step that posts no answer and ends no wait.                           *)
LEMMA NothingAnswered ==
  ASSUME AnsInv, UNCHANGED <<status, waitHandle, bound, current, asked, answerers>>,
         \A i \in DOMAIN queue : i \in DOMAIN queue' /\ queue'[i] = queue[i],
         \A i \in DOMAIN queue' : queue'[i].type = "answer" => i \in DOMAIN queue
  PROVE  Answering'
  <1>1. \A v \in Waits, p \in Parts :
          (InQueue(v, p)' <=> InQueue(v, p)) /\ (Underway(v, p)' <=> Underway(v, p))
    BY DEF InQueue, Underway, IsAnswer
  <1>2. Origins'
    BY DEF AnsInv, Answering, Origins, Origin, Started
  <1>3. SentOnce'
    BY <1>1 DEF AnsInv, Answering, SentOnce, IsAnswer
  <1>4. OwnBound'
    BY <1>1, WaitKinds DEF AnsInv, Answering, OwnBound, Tainted
  <1>5. ForeignUnderway' /\ ForeignTaken'
    BY DEF AnsInv, Answering, ForeignUnderway, ForeignTaken, GivenUp, Tainted
  <1> QED
    BY <1>2, <1>3, <1>4, <1>5 DEF Answering

(* Of a wait that has not begun there are no requests and no answers.      *)
LEMMA NotBegun ==
  ASSUME AnsInv, NEW w \in Waits, status[w] = "new", NEW p \in Parts
  PROVE  <<w, p>> \notin asked /\ ~InQueue(w, p) /\ ~Underway(w, p)
  BY WaitKinds DEF AnsInv, Answering, Origins, Origin, Started, InQueue, Underway, IsAnswer

LEMMA BeginAnswers ==
  ASSUME AnsInv, NEW w \in Waits, Begin(w)
  PROVE  Answering'
  <1>1. /\ status[w] = "new"
        /\ \A v \in Waits \ {w} : status'[v] = status[v] /\ waitHandle'[v] = waitHandle[v]
        /\ status'[w] = "waiting"
        /\ asked \subseteq asked'
        /\ \A pair \in asked' : pair \in asked \/ (pair \in PairsOf(w) /\ w \in Requesting)
        /\ bound' = bound \cup PairsOf(w)
        /\ UNCHANGED <<queue, current, answerers>>
    BY DEF AnsInv, IndInv, TypeOK, Begin
  <1>2. \A p \in Parts : <<w, p>> \notin asked /\ ~InQueue(w, p) /\ ~Underway(w, p)
    BY <1>1, NotBegun
  <1>3. \A v \in Waits, p \in Parts :
          (InQueue(v, p)' <=> InQueue(v, p)) /\ (Underway(v, p)' <=> Underway(v, p))
    BY <1>1 DEF InQueue, Underway, IsAnswer
  <1>4. \A v : Started(v) => v # w /\ Started(v)' /\ waitHandle'[v] = waitHandle[v]
    BY <1>1, WaitKinds DEF Started
  <1>5. \A v : GivenUp(v) => GivenUp(v)'
    BY <1>1 DEF GivenUp, Tainted
  <1>6. Origins'
    <2>1. \A e : Origin(e) => Origin(e)'
      BY <1>4 DEF Origin
    <2>2. \A pair \in asked' : Started(pair[1])'
      BY <1>1, <1>4 DEF AnsInv, Answering, Origins, Started, PairsOf
    <2> QED
      BY <1>1, <2>1, <2>2 DEF AnsInv, Answering, Origins
  <1>7. SentOnce'
    <2>1. ASSUME NEW v \in Waits, NEW p \in Parts
          PROVE  /\ InQueue(v, p) => <<v, p>> \notin asked'
                 /\ Underway(v, p) => <<v, p>> \notin asked' /\ ~InQueue(v, p)
      BY <1>1, <1>2 DEF AnsInv, Answering, SentOnce, PairsOf
    <2> QED
      BY <1>1, <1>3, <2>1 DEF AnsInv, Answering, SentOnce, IsAnswer
  <1>8. OwnBound'
    <2> SUFFICES ASSUME NEW v \in Requesting, NEW p \in Parts,
                        <<v, p>> \in asked' \/ InQueue(v, p), ~Tainted(v)'
                 PROVE  <<v, p>> \in bound'
      BY <1>3, WaitKinds DEF OwnBound
    <2>1. CASE v = w
      BY <1>1, <1>2, <2>1
    <2>2. CASE v # w
      <3>1. <<v, p>> \in asked \/ InQueue(v, p)
        BY <1>1, <2>2 DEF PairsOf
      <3>2. ~Tainted(v)
        BY <1>1, <2>2, WaitKinds DEF Tainted
      <3> QED
        BY <1>1, <3>1, <3>2 DEF AnsInv, Answering, OwnBound
    <2> QED
      BY <2>1, <2>2
  <1>9. ForeignUnderway' /\ ForeignTaken'
    BY <1>1, <1>5 DEF AnsInv, Answering, ForeignUnderway, ForeignTaken
  <1> QED
    BY <1>6, <1>7, <1>8, <1>9 DEF Answering

LEMMA BeginFailsAnswers ==
  ASSUME AnsInv, NEW w \in Waits, BeginFails(w)
  PROVE  Answering'
  <1>1. /\ status[w] = "new" /\ status'[w] = "failed"
        /\ \A v \in Waits \ {w} : status'[v] = status[v]
        /\ UNCHANGED <<waitHandle, bound, queue, current, asked, answerers>>
    BY DEF AnsInv, IndInv, TypeOK, BeginFails
  <1>2. \A v \in Waits, p \in Parts :
          (InQueue(v, p)' <=> InQueue(v, p)) /\ (Underway(v, p)' <=> Underway(v, p))
    BY <1>1 DEF InQueue, Underway, IsAnswer
  <1>3. \A v : Started(v) => Started(v)'
    BY <1>1, WaitKinds DEF Started
  <1>4. \A v \in Waits : (GivenUp(v) => GivenUp(v)') /\ (Tainted(v) <=> Tainted(v)')
    BY <1>1 DEF GivenUp, Tainted
  <1>5. Origins'
    <2>1. \A e : Origin(e) => Origin(e)'
      BY <1>1, <1>3 DEF Origin
    <2> QED
      BY <1>1, <1>3, <2>1 DEF AnsInv, Answering, Origins
  <1>6. SentOnce'
    BY <1>1, <1>2 DEF AnsInv, Answering, SentOnce, IsAnswer
  <1>7. OwnBound'
    BY <1>1, <1>2, <1>4, WaitKinds DEF AnsInv, Answering, OwnBound
  <1>8. ForeignUnderway' /\ ForeignTaken'
    BY <1>1, <1>4 DEF AnsInv, Answering, ForeignUnderway, ForeignTaken, GivenUp
  <1> QED
    BY <1>5, <1>6, <1>7, <1>8 DEF Answering

(* The response to a request is posted, or an event that is not one.       *)
LEMMA PostAnswers ==
  ASSUME AnsInv, NEW e \in Answers, Origin(e), queue' = Append(queue, e),
         asked' = asked \ {<<e.about, e.part>>},
         e.about \in Waits => <<e.about, e.part>> \in asked,
         UNCHANGED <<status, waitHandle, bound, current, answerers>>
  PROVE  Answering'
  <1>1. /\ DOMAIN queue' = 1 .. Len(queue) + 1 /\ DOMAIN queue = 1 .. Len(queue)
        /\ Len(queue) \in Nat
        /\ \A i \in 1 .. Len(queue) + 1 : queue'[i] = IF i = Len(queue) + 1 THEN e ELSE queue[i]
    BY DEF AnsInv, IndInv, TypeOK
  <1>2. e.type = "answer" /\ e.part \in Parts
    BY DEF Answers
  <1>3. \A v, p : InQueue(v, p)' <=> InQueue(v, p) \/ (v = e.about /\ p = e.part)
    BY <1>1, <1>2 DEF InQueue, IsAnswer
  <1>4. \A v, p : Underway(v, p)' <=> Underway(v, p)
    BY DEF Underway, IsAnswer
  <1>5. Origins'
    BY <1>1 DEF AnsInv, Answering, Origins, Origin, Started
  <1>6. SentOnce'
    <2>1. ASSUME NEW v \in Waits, NEW p \in Parts
          PROVE  /\ InQueue(v, p)' => <<v, p>> \notin asked'
                 /\ Underway(v, p)' => <<v, p>> \notin asked' /\ ~InQueue(v, p)'
      BY <1>3, <1>4 DEF AnsInv, Answering, SentOnce
    <2>2. ASSUME NEW v \in Waits, NEW p \in Parts, NEW i \in DOMAIN queue', NEW j \in DOMAIN queue',
                 IsAnswer(queue'[i], v, p), IsAnswer(queue'[j], v, p)
          PROVE  i = j
      <3>1. CASE v = e.about /\ p = e.part
        <4>1. ~InQueue(v, p)
          BY <3>1 DEF AnsInv, Answering, SentOnce
        <4> QED
          BY <1>1, <2>2, <4>1 DEF InQueue
      <3>2. CASE ~(v = e.about /\ p = e.part)
        <4>1. i \in DOMAIN queue /\ j \in DOMAIN queue /\ queue'[i] = queue[i] /\ queue'[j] = queue[j]
          BY <1>1, <2>2, <3>2 DEF IsAnswer
        <4> QED
          BY <2>2, <4>1 DEF AnsInv, Answering, SentOnce
      <3> QED
        BY <3>1, <3>2
    <2> QED
      BY <2>1, <2>2 DEF SentOnce, IsAnswer
  <1>7. OwnBound'
    <2>1. \A v \in Requesting, p \in Parts :
            (<<v, p>> \in asked' \/ InQueue(v, p)') => <<v, p>> \in asked \/ InQueue(v, p)
      BY <1>3, WaitKinds
    <2> QED
      BY <2>1 DEF AnsInv, Answering, OwnBound, Tainted
  <1>8. ForeignUnderway' /\ ForeignTaken'
    BY DEF AnsInv, Answering, ForeignUnderway, ForeignTaken, GivenUp, Tainted
  <1> QED
    BY <1>5, <1>6, <1>7, <1>8 DEF Answering

LEMMA DispatchAnswers ==
  ASSUME AnsInv, Dispatch
  PROVE  Answering'
  <1> DEFINE e == Head(queue)
  <1>1. /\ DOMAIN queue = 1 .. Len(queue) /\ DOMAIN queue' = 1 .. Len(queue) - 1
        /\ Len(queue) \in Nat \ {0} /\ 1 \in DOMAIN queue /\ e = queue[1]
        /\ \A i \in DOMAIN queue' : i + 1 \in DOMAIN queue /\ queue'[i] = queue[i + 1] /\ i + 1 # 1
        /\ e \in Answers \cup Timeouts
    <2>1. queue \in Seq(Answers \cup Timeouts) /\ queue # <<>> /\ queue' = Tail(queue)
      BY DEF AnsInv, IndInv, TypeOK, Dispatch
    <2> QED
      BY <2>1
  <1>2. UNCHANGED <<status, waitHandle, bound, asked, answerers>>
    BY DEF Dispatch
  <1> HIDE DEF e
  <1>3. \/ current' = Idle
        \/ current' = [event |-> e, handlers |-> Listeners(e)]
    BY DEF Dispatch, e
  <1>4. \A v \in Waits, p \in Parts :
          /\ InQueue(v, p)' => InQueue(v, p)
          /\ IsAnswer(e, v, p) => InQueue(v, p) /\ ~InQueue(v, p)'
          /\ Underway(v, p)' => IsAnswer(e, v, p)
    <2> TAKE v \in Waits, p \in Parts
    <2>1. InQueue(v, p)' <=> \E i \in DOMAIN queue' : IsAnswer(queue'[i], v, p)
      BY DEF InQueue, IsAnswer
    <2>2. ASSUME IsAnswer(e, v, p) PROVE InQueue(v, p) /\ ~InQueue(v, p)'
      <3>1. \A i \in DOMAIN queue : IsAnswer(queue[i], v, p) => i = 1
        BY <1>1, <2>2 DEF AnsInv, Answering, SentOnce
      <3> QED
        BY <1>1, <2>1, <2>2, <3>1 DEF InQueue
    <2>3. Underway(v, p)' => IsAnswer(e, v, p)
      BY <1>3, IdleType DEF Underway, IsAnswer
    <2> QED
      BY <1>1, <2>1, <2>2, <2>3 DEF InQueue
  <1>5. Origins'
    <2>1. \A d : Origin(d)' <=> Origin(d)
      BY <1>2 DEF Origin, Started
    <2>2. Origin(e) /\ \A i \in DOMAIN queue' : Origin(queue'[i])
      BY <1>1 DEF AnsInv, Answering, Origins
    <2>3. current'.handlers # {} => Origin(current'.event)
      BY <1>3, <2>2, IdleType
    <2> QED
      BY <1>2, <2>2, <2>3 DEF AnsInv, Answering, Origins, Origin, Started
  <1>6. SentOnce'
    <2>1. ASSUME NEW v \in Waits, NEW p \in Parts, NEW i \in DOMAIN queue', NEW j \in DOMAIN queue',
                 IsAnswer(queue'[i], v, p), IsAnswer(queue'[j], v, p)
          PROVE  i = j
      <3>1. i + 1 = j + 1
        BY <1>1, <2>1 DEF AnsInv, Answering, SentOnce
      <3> QED
        BY <1>1, <3>1
    <2>2. ASSUME NEW v \in Waits, NEW p \in Parts
          PROVE  /\ InQueue(v, p)' => <<v, p>> \notin asked
                 /\ Underway(v, p)' => <<v, p>> \notin asked /\ ~InQueue(v, p)'
      BY <1>4 DEF AnsInv, Answering, SentOnce
    <2> QED
      BY <1>2, <2>1, <2>2 DEF SentOnce, IsAnswer
  <1>7. OwnBound'
    BY <1>2, <1>4, WaitKinds DEF AnsInv, Answering, OwnBound, Tainted
  <1>8. ForeignUnderway'
    <2> SUFFICES ASSUME current'.event.type = "answer", NEW pair \in current'.handlers,
                        pair[1] \in Requesting, current'.event.about # pair[1]
                 PROVE  GivenUp(current'.event.about)
      BY <1>2 DEF ForeignUnderway, GivenUp, Tainted
    <2>1. current'.event = e /\ pair \in Listeners(e) /\ e.type = "answer"
      BY <1>3, IdleType
    <2>2. e \in Answers /\ e.part \in Parts
      BY <1>1, <2>1 DEF Answers, Timeouts
    <2>3. /\ Waiting(pair[1]) /\ pair[1] \in Waits
          /\ waitHandle[pair[1]] # 0 /\ waitHandle[pair[1]] = e.handle
      <3>1. pair \in bound /\ Matches(pair[1], e)
        BY <2>1 DEF Listeners
      <3>2. Waiting(pair[1]) /\ pair[1] \in Waits
        BY <3>1 DEF AnsInv, IndInv, BoundWaiting, TypeOK
      <3>3. waitHandle[pair[1]] # 0
        BY <3>2 DEF AnsInv, IndInv, HandlesGiven, Waiting
      <3> QED
        BY <3>1, <3>2, <3>3 DEF Matches
    <2>4. Origin(e)
      BY <1>1 DEF AnsInv, Answering, Origins
    <2>5. /\ e.about \in Requesting /\ e.about \in Waits
          /\ status[e.about] \notin {"new", "failed"} /\ waitHandle[e.about] = waitHandle[pair[1]]
      BY <2>1, <2>3, <2>4, WaitKinds DEF Origin, Started
    <2>6. ~Waiting(e.about)
      BY <2>1, <2>3, <2>5 DEF AnsInv, IndInv, HandlesInUse
    <2>7. status[e.about] \in {"answered", "timeout"}
      BY <2>5, <2>6 DEF AnsInv, IndInv, TypeOK, Waiting
    <2>8. Tainted(e.about)
      <3>1. InQueue(e.about, e.part)
        BY <1>4, <2>1, <2>2, <2>5 DEF IsAnswer
      <3>2. <<e.about, e.part>> \notin bound
        BY <2>6 DEF AnsInv, IndInv, BoundWaiting
      <3> QED
        BY <2>2, <2>5, <3>1, <3>2 DEF AnsInv, Answering, OwnBound
    <2> QED
      BY <2>1, <2>5, <2>7, <2>8 DEF GivenUp
  <1>9. ForeignTaken'
    BY <1>2 DEF AnsInv, Answering, ForeignTaken, GivenUp, Tainted
  <1> QED
    BY <1>5, <1>6, <1>7, <1>8, <1>9 DEF Answering

(* A handler of a wait that waits takes the event of the chain.            *)
LEMMA HandleAnswers ==
  ASSUME AnsInv, NEW pair \in current.handlers, NEW w \in Waits, NEW p \in Parts,
         pair = <<w, p>>, Waiting(w), current' = Rest(pair),
         status'[w] \in {"waiting", "answered", "timeout"},
         \A v \in Waits \ {w} : status'[v] = status[v] /\ answerers'[v] = answerers[v],
         \A q \in bound : q[1] # w => q \in bound',
         \/ status'[w] = "timeout" /\ answerers'[w] = answerers[w]
         \/ /\ current.event.type = "answer"
            /\ status'[w] # "timeout"
            /\ answerers'[w] = answerers[w] \cup {current.event.about}
            /\ \A k \in Parts \ {p} : <<w, k>> \in bound => Kind[w] = "any" \/ <<w, k>> \in bound',
         UNCHANGED <<waitHandle, queue, asked>>
  PROVE  Answering'
  <1>1. /\ current'.handlers \subseteq current.handlers
        /\ current'.handlers # {} => current'.event = current.event
    BY RestOfHandlers DEF AnsInv, IndInv
  <1>2. \A v \in Waits, k \in Parts :
          (InQueue(v, k)' <=> InQueue(v, k)) /\ (Underway(v, k)' => Underway(v, k))
    BY <1>1 DEF InQueue, Underway, IsAnswer
  <1>3. \A v : Started(v) => Started(v)'
    BY WaitKinds DEF Started
  <1>4. \A v : GivenUp(v) => v # w /\ GivenUp(v)'
    BY DEF GivenUp, Tainted, Waiting
  <1>5. Origins'
    <2>1. \A e : Origin(e) => Origin(e)'
      BY <1>3 DEF Origin
    <2> QED
      BY <1>1, <1>3, <2>1 DEF AnsInv, Answering, Origins
  <1>6. SentOnce'
    BY <1>2 DEF AnsInv, Answering, SentOnce, IsAnswer
  <1>7. OwnBound'
    <2> SUFFICES ASSUME NEW v \in Requesting, NEW k \in Parts,
                        <<v, k>> \in asked \/ InQueue(v, k), ~Tainted(v)'
                 PROVE  <<v, k>> \in bound'
      BY <1>2, WaitKinds DEF OwnBound
    <2>1. CASE v # w
      <3>1. ~Tainted(v)
        BY <2>1, WaitKinds DEF Tainted
      <3>2. <<v, k>> \in bound
        BY <3>1 DEF AnsInv, Answering, OwnBound
      <3> QED
        BY <2>1, <3>2
    <2>2. CASE v = w
      <3>1. /\ current.event.type = "answer" /\ current.event.about = w
            /\ Kind[w] # "any" /\ ~Tainted(w)
            /\ k # p /\ <<w, k>> \in bound => <<w, k>> \in bound'
        BY <2>2 DEF Tainted, Waiting
      <3>2. current.event.part = p
        BY <3>1 DEF AnsInv, IndInv, HandlersBound
      <3>3. <<w, p>> \notin asked /\ ~InQueue(w, p)
        BY <3>1, <3>2 DEF AnsInv, Answering, SentOnce, Underway, IsAnswer
      <3>4. k # p
        BY <2>2, <3>3
      <3>5. <<w, k>> \in bound
        BY <2>2, <3>1 DEF AnsInv, Answering, OwnBound
      <3> QED
        BY <2>2, <3>1, <3>4, <3>5
    <2> QED
      BY <2>1, <2>2
  <1>8. ForeignUnderway'
    <2> SUFFICES ASSUME current'.event.type = "answer", NEW other \in current'.handlers,
                        NEW v, v = current'.event.about,
                        other[1] \in Requesting, v # other[1]
                 PROVE  GivenUp(v)'
      BY DEF ForeignUnderway, GivenUp, Tainted
    <2>1. current'.event = current.event /\ other \in current.handlers
      BY <1>1
    <2>2. GivenUp(v)
      BY <2>1 DEF AnsInv, Answering, ForeignUnderway
    <2> QED
      BY <1>4, <2>1, <2>2
  <1>9. ForeignTaken'
    <2> SUFFICES ASSUME NEW u \in Requesting, NEW v \in answerers'[u] \ {u}
                 PROVE  GivenUp(v)'
      BY DEF ForeignTaken
    <2>1. CASE v \in answerers[u]
      BY <1>4, <2>1 DEF AnsInv, Answering, ForeignTaken
    <2>2. CASE v \notin answerers[u]
      <3>1. u = w /\ current.event.type = "answer" /\ v = current.event.about
        BY <2>2, WaitKinds
      <3>2. GivenUp(v)
        BY <3>1 DEF AnsInv, Answering, ForeignUnderway
      <3> QED
        BY <1>4, <3>2
    <2> QED
      BY <2>1, <2>2
  <1> QED
    BY <1>5, <1>6, <1>7, <1>8, <1>9 DEF Answering

LEMMA InvokeAnswers ==
  ASSUME AnsInv, Invoke
  PROVE  Answering'
  <1>0. TypeOK /\ BoundWaiting /\ HandlersBound
    BY DEF AnsInv, IndInv
  <1>1. PICK pair \in current.handlers :
          /\ OnEvent(pair[1], pair[2]) \/ OnTimeout(pair[1])
          /\ current' = Rest(pair)
    BY DEF Invoke, Rest
  <1>2. UNCHANGED <<waitHandle, queue, asked>>
    BY DEF Invoke
  <1>3. PICK w \in Waits, p \in Parts : pair = <<w, p>>
    BY <1>0, <1>1 DEF TypeOK
  <1>4. pair[1] = w /\ pair[2] = p
    BY <1>3
  <1>5. CASE OnEvent(w, p)
    <2>1. pair \in bound /\ Waiting(w) /\ p \in PartsOf(w)
      BY <1>0, <1>1, <1>4, <1>5 DEF OnEvent, HandlersBound, BoundWaiting
    <2>2. /\ \A v \in Waits \ {w} : status'[v] = status[v] /\ answerers'[v] = answerers[v]
          /\ status'[w] \in {"waiting", "answered"}
          /\ answerers'[w] = answerers[w] \cup {current.event.about}
          /\ current.event.type = "answer"
      BY <1>0, <1>5, <2>1 DEF OnEvent, TypeOK, Continue, Waiting
    <2>3. \A q \in bound : q[1] # w => q \in bound'
      BY <1>5 DEF OnEvent, PairsOf
    <2>4. ASSUME NEW k \in Parts \ {p}, <<w, k>> \in bound
          PROVE  Kind[w] = "any" \/ <<w, k>> \in bound'
      <3>1. k \in PartsOf(w)
        BY <1>0, <2>4 DEF BoundWaiting
      <3>2. Kind[w] # "event"
        BY <2>1, <2>4, <3>1 DEF PartsOf
      <3>3. CASE Kind[w] = "all"
        BY <1>5, <2>4, <3>1, <3>3 DEF OnEvent, Unmatched, PairsOf
      <3> QED
        BY <3>2, <3>3, WaitKinds
    <2> QED
      BY <1>1, <1>2, <1>3, <2>1, <2>2, <2>3, <2>4, HandleAnswers
  <1>6. CASE OnTimeout(w)
    <2>1. Waiting(w)
      BY <1>0, <1>1, <1>4, <1>6 DEF OnTimeout, HandlersBound, BoundWaiting
    <2>2. /\ \A v \in Waits \ {w} : status'[v] = status[v] /\ answerers'[v] = answerers[v]
          /\ status'[w] = "timeout" /\ answerers'[w] = answerers[w]
      BY <1>0, <1>6 DEF OnTimeout, TypeOK, Continue
    <2>3. \A q \in bound : q[1] # w => q \in bound'
      BY <1>6 DEF OnTimeout, PairsOf
    <2> QED
      BY <1>1, <1>2, <1>3, <2>1, <2>2, <2>3, HandleAnswers
  <1> QED
    BY <1>1, <1>4, <1>5, <1>6

LEMMA AnsKeeps == AnsInv /\ [Next]_vars => AnsInv'
  <1> SUFFICES ASSUME AnsInv, [Next]_vars PROVE Answering'
    BY IndStep DEF AnsInv
  <1>0. TypeOK
    BY DEF AnsInv, IndInv
  <1>1. CASE UNCHANGED vars
    BY <1>1, NothingAnswered DEF vars
  <1>2. ASSUME NEW w \in Waits, Begin(w) \/ BeginFails(w) PROVE Answering'
    BY <1>2, BeginAnswers, BeginFailsAnswers
  <1>3. ASSUME NEW w \in Waits, NEW p \in Parts, Answer(w, p) PROVE Answering'
    <2> DEFINE e == [type |-> "answer", about |-> w, part |-> p, handle |-> waitHandle[w]]
    <2>1. e \in Answers
      BY <1>0 DEF Answers, TypeOK
    <2>2. Origin(e)
      BY <1>3, WaitKinds DEF Answer, AnsInv, Answering, Origins, Origin
    <2>3. /\ queue' = Append(queue, e)
          /\ asked' = asked \ {<<e.about, e.part>>} /\ <<e.about, e.part>> \in asked
          /\ UNCHANGED <<status, waitHandle, bound, current, answerers>>
      BY <1>3 DEF Answer
    <2> HIDE DEF e
    <2> QED
      BY <2>1, <2>2, <2>3, PostAnswers
  <1>4. ASSUME NEW p \in Parts, Notify(p) PROVE Answering'
    <2> DEFINE e == [type |-> "answer", about |-> Nobody, part |-> p, handle |-> 0]
    <2>1. e \in Answers /\ Origin(e) /\ e.about \notin Waits
      BY WaitKinds DEF Answers, Origin
    <2>2. <<e.about, e.part>> \notin asked
      BY <1>0, WaitKinds DEF TypeOK
    <2>3. queue' = Append(queue, e) /\ UNCHANGED <<status, waitHandle, bound, current, asked, answerers>>
      BY <1>4 DEF Notify
    <2> HIDE DEF e
    <2> QED
      BY <2>1, <2>2, <2>3, PostAnswers
  <1>5. CASE Tick
    BY <1>5, NothingAnswered DEF Tick
  <1>6. CASE Fire
    <2>1. PICK w \in bundle : queue' = Append(queue, TimeoutEvent(w, "timeout"))
      BY <1>6 DEF Fire
    <2>2. /\ DOMAIN queue' = 1 .. Len(queue) + 1 /\ DOMAIN queue = 1 .. Len(queue)
          /\ Len(queue) \in Nat
          /\ \A i \in 1 .. Len(queue) + 1 :
               queue'[i] = IF i = Len(queue) + 1 THEN TimeoutEvent(w, "timeout") ELSE queue[i]
      BY <1>0, <2>1 DEF TypeOK
    <2>3. TimeoutEvent(w, "timeout").type # "answer"
      BY DEF TimeoutEvent
    <2>4. UNCHANGED <<status, waitHandle, bound, current, asked, answerers>>
      BY <1>6 DEF Fire
    <2> QED
      BY <2>2, <2>3, <2>4, NothingAnswered
  <1>7. CASE ExpireAll
    BY <1>0, <1>7, ExpireAllPosts, NothingAnswered DEF ExpireAll
  <1>8. CASE FlowStep
    BY <1>8, DispatchAnswers, InvokeAnswers DEF FlowStep
  <1> QED
    BY <1>1, <1>2, <1>3, <1>4, <1>5, <1>6, <1>7, <1>8 DEF Next, TimerStep

(***************************************************************************)
(* The handle in a response (Event._WaitHandle) tells the requests apart   *)
(* that are waited for at the same time.  A wait is given the answer to    *)
(* another request only when that one was given up: by a timeout, because  *)
(* any of several was enough, or for such an answer to yet another.        *)
(***************************************************************************)
THEOREM ForeignAnswersGivenUp == Spec => []ForeignAnswers
  <1>1. AnsInv => ForeignAnswers
    BY DEF AnsInv, Answering, ForeignTaken, GivenUp, Tainted, ForeignAnswers, Waiting
  <1> QED
    BY <1>1, AnsBegins, AnsKeeps, PTL DEF Spec
==============================================================================
