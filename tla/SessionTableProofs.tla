------------------------- MODULE SessionTableProofs --------------------------
(***************************************************************************)
(* Theorems about SessionTable, for any number of sessions and handles:    *)
(* what its safety invariants rest on is which strand has yet to release   *)
(* the handle of a session and to remove its entry.                        *)
(***************************************************************************)
EXTENDS SessionTable, WellFoundedInduction, TLAPS

(* Where each strand may be: only a callback tests disposed first.         *)
ClosePlaces == {"none", "tell", "remove", "announce", "dispose", "done"}
Closers == {"user", "link"}
StrandsPlaced ==
  \A s \in Sessions :
    /\ \A t \in Closers : at[s][t] \in ClosePlaces
    /\ at[s]["tx"] \in ClosePlaces \cup {"test"}

(* A session acquires its handle once, before anybody can release it.      *)
Fresh(s) == at[s]["rx"] \in {"none", "shaking", "acquire"}
HandlesGiven ==
  \A s \in Sessions :
    /\ Fresh(s) => handle[s] = 0
    /\ at[s]["rx"] = "add" => handle[s] # 0
    /\ s \in released => handle[s] # 0
    /\ \A t \in Strands : at[s][t] \in {"remove", "announce"} => handle[s] # 0

(* What is in the table, and what a closer has found there, has its handle *)
(* and has been entered already.                                           *)
Entered(s) == handle[s] # 0 /\ at[s]["rx"] \notin {"none", "shaking", "acquire", "add"}
EntriesRegistered ==
  /\ \A h \in Handles : table[h] # NoSession => Entered(table[h]) /\ handle[table[h]] = h
  /\ \A s \in Sessions :
       s \in toClose \/ (\E t \in Closers : at[s][t] # "none") => Entered(s)

(* A closer releases the handle and removes the entry before it disposes.  *)
ClosersTell ==
  \A s \in Sessions : \A t \in Closers :
    /\ at[s][t] \in {"remove", "announce", "dispose", "done"} => s \in released
    /\ at[s][t] \in {"announce", "dispose", "done"} /\ link # "disposed" => s \notin Listed

(* Every handle in use has not been released by some session that has it,  *)
(* and who has a handle to release is alive, astray, or about to do so.    *)
Held(s) == handle[s] # 0 /\ s \notin released
HandlesHeld ==
  /\ \A h \in pool.used : \E s \in Sessions : handle[s] = h /\ s \notin released
  /\ \A s \in Sessions :
       Held(s) => s \notin disposed \/ s \in stray \/ \E t \in Strands : at[s][t] = "tell"

(* As long as no handle is released twice, those not released are in use   *)
(* and differ.                                                             *)
HandlesApart ==
  ~twice => (\A s \in Sessions : Held(s) => handle[s] \in pool.used) /\ Distinct(Sessions \ released)

IndInv ==
  /\ TypeOK /\ StrandsPlaced /\ HandlesGiven /\ EntriesRegistered /\ ClosersTell
  /\ HandlesHeld /\ HandlesApart /\ NoDeadEntries

-----------------------------------------------------------------------------
(* A set of natural numbers that is not empty has a smallest one.          *)
LEMMA SmallestExists ==
  ASSUME NEW S \in SUBSET Nat, S # {}
  PROVE  Smallest(S) \in S /\ \A w \in S : Smallest(S) =< w
  <1>1. PICK v \in S : \A w \in S : <<w, v>> \notin OpToRel(<, Nat)
    BY WFMin, NatLessThanWellFounded
  <1>2. ASSUME NEW w \in S PROVE ~(w < v)
    <2>1. <<w, v>> \notin {p \in Nat \X Nat : p[1] < p[2]}
      BY <1>1, Zenon DEF OpToRel
    <2> QED
      BY <2>1
  <1>3. \A w \in S : v =< w
    BY <1>2
  <1> QED
    BY <1>3 DEF Smallest

(* Acquire finds a value that is free, wherever its search begins, unless  *)
(* there is none: the wrap of the search misses nothing.                   *)
THEOREM FoundIsFree ==
  ASSUME NEW p \in Pool, ~Exhausted(p)
  PROVE  Found(p) \in Free(p)
  <1>1. Free(p) \subseteq Handles /\ Handles \subseteq Nat
    BY PoolSizePositive DEF Free, Handles
  <1>2. Candidates(p) # {} /\ Candidates(p) \subseteq Free(p)
    BY DEF Candidates, Exhausted
  <1> QED
    BY <1>1, <1>2, SmallestExists DEF Found

(* Acquire and Release keep the state of the pool within its bounds.       *)
LEMMA PoolType ==
  ASSUME NEW p \in Pool
  PROVE  /\ ~Exhausted(p) => Acquired(p) \in Pool
         /\ \A v \in Handles : Released(p, v) \in Pool
  <1>1. ASSUME ~Exhausted(p) PROVE Acquired(p) \in Pool
    <2>1. Found(p) \in Handles
      BY <1>1, FoundIsFree DEF Free
    <2>2. Found(p) % PoolSize \in 0 .. PoolSize - 1
      BY <2>1, PoolSizePositive DEF Handles
    <2> QED
      BY <2>1, <2>2 DEF Acquired, Pool
  <1>2. \A v \in Handles : Released(p, v) \in Pool
    BY DEF Released, Pool
  <1> QED
    BY <1>1, <1>2

LEMMA EmptyPoolType == EmptyPool \in Pool
  BY PoolSizePositive DEF EmptyPool, Pool

(* What the calls do to the set of values in use.                          *)
LEMMA PoolUse ==
  ASSUME NEW p \in Pool
  PROVE  /\ Acquired(p).used = p.used \cup {Found(p)}
         /\ \A v : Released(p, v).used = p.used \ {v}
  BY DEF Acquired, Released, Pool

-----------------------------------------------------------------------------
(* A step of one strand leaves the others where they are.                  *)
LEMMA GotoOne ==
  ASSUME TypeOK, NEW s \in Sessions, NEW t \in Strands, NEW place, Goto(s, t, place)
  PROVE  /\ \A r \in Sessions : \A u \in Strands :
              at'[r][u] = IF r = s /\ u = t THEN place ELSE at[r][u]
         /\ place \in RxPlaces \cup LeavingPlaces
              => at' \in [Sessions -> [Strands -> RxPlaces \cup LeavingPlaces]]
  BY DEF TypeOK, Goto

LEMMA IndInit == Init => IndInv
  <1> SUFFICES ASSUME Init PROVE IndInv
    OBVIOUS
  <1>0. pool.used = {}
    BY DEF Init, EmptyPool
  <1>1. TypeOK
    BY <1>0, EmptyPoolType, SessionKinds DEF Init, TypeOK, RxPlaces, LeavingPlaces
  <1>2. StrandsPlaced
    BY <1>0, EmptyPoolType, SessionKinds
      DEF Init, StrandsPlaced, ClosePlaces, Closers, Strands
  <1>3. HandlesGiven
    BY <1>0, EmptyPoolType, SessionKinds DEF Init, HandlesGiven, Fresh, Strands
  <1>4. EntriesRegistered
    BY <1>0, EmptyPoolType, SessionKinds
      DEF Init, EntriesRegistered, Entered, Closers, Strands
  <1>5. ClosersTell
    BY <1>0, EmptyPoolType, SessionKinds DEF Init, ClosersTell, Closers, Listed, Strands
  <1>6. HandlesHeld
    BY <1>0, EmptyPoolType, SessionKinds DEF Init, HandlesHeld, Held, Strands
  <1>7. HandlesApart
    BY <1>0, EmptyPoolType, SessionKinds DEF Init, HandlesApart, Held, Distinct
  <1>8. NoDeadEntries
    BY <1>0, EmptyPoolType, SessionKinds DEF Init, NoDeadEntries, Leaving, Strands
  <1> QED
    BY <1>1, <1>2, <1>3, <1>4, <1>5, <1>6, <1>7, <1>8 DEF IndInv

LEMMA AcceptStep ==
  ASSUME IndInv, NEW s \in Sessions, Accept(s)
  PROVE  IndInv'
  <1>0. TypeOK /\ StrandsPlaced /\ HandlesGiven /\ EntriesRegistered
        /\ ClosersTell /\ HandlesHeld /\ HandlesApart /\ NoDeadEntries
    BY DEF IndInv
  <1>1. TypeOK'
    BY <1>0, SessionKinds DEF Accept, TypeOK, Goto, RxPlaces, LeavingPlaces
  <1>2. StrandsPlaced'
    BY <1>0 DEF Accept, TypeOK, Goto, StrandsPlaced, ClosePlaces, Closers, Strands
  <1>3. HandlesGiven'
    BY <1>0 DEF Accept, TypeOK, Goto, HandlesGiven, Fresh, Strands
  <1>4. EntriesRegistered'
    BY <1>0, SessionKinds
      DEF Accept, TypeOK, Goto, EntriesRegistered, Entered, Closers, Strands
  <1>5. ClosersTell'
    BY <1>0, SessionKinds
      DEF Accept, TypeOK, Goto, ClosersTell, Closers, Listed, Strands
  <1>6. HandlesHeld'
    BY <1>0 DEF Accept, TypeOK, Goto, HandlesHeld, Held, Strands
  <1>7. HandlesApart'
    BY <1>0 DEF Accept, HandlesApart, Held, Distinct
  <1>8. NoDeadEntries'
    BY <1>0, SessionKinds DEF Accept, TypeOK, Goto, NoDeadEntries, Leaving, Strands
  <1> QED
    BY <1>1, <1>2, <1>3, <1>4, <1>5, <1>6, <1>7, <1>8 DEF IndInv

LEMMA AcknowledgedStep ==
  ASSUME IndInv, NEW s \in Sessions, Acknowledged(s)
  PROVE  IndInv'
  <1>0. TypeOK /\ StrandsPlaced /\ HandlesGiven /\ EntriesRegistered
        /\ ClosersTell /\ HandlesHeld /\ HandlesApart /\ NoDeadEntries
    BY DEF IndInv
  <1>1. TypeOK'
    BY <1>0, SessionKinds DEF Acknowledged, TypeOK, Goto, RxPlaces, LeavingPlaces
  <1>2. StrandsPlaced'
    BY <1>0 DEF Acknowledged, TypeOK, Goto, StrandsPlaced, ClosePlaces, Closers, Strands
  <1>3. HandlesGiven'
    BY <1>0 DEF Acknowledged, TypeOK, Goto, HandlesGiven, Fresh, Strands
  <1>4. EntriesRegistered'
    BY <1>0, SessionKinds
      DEF Acknowledged, TypeOK, Goto, EntriesRegistered, Entered, Closers, Strands
  <1>5. ClosersTell'
    BY <1>0, SessionKinds
      DEF Acknowledged, TypeOK, Goto, ClosersTell, Closers, Listed, Strands
  <1>6. HandlesHeld'
    BY <1>0 DEF Acknowledged, TypeOK, Goto, HandlesHeld, Held, Strands
  <1>7. HandlesApart'
    BY <1>0 DEF Acknowledged, HandlesApart, Held, Distinct
  <1>8. NoDeadEntries'
    BY <1>0, SessionKinds
      DEF Acknowledged, TypeOK, Goto, NoDeadEntries, Leaving, Strands
  <1> QED
    BY <1>1, <1>2, <1>3, <1>4, <1>5, <1>6, <1>7, <1>8 DEF IndInv

LEMMA SetupStep ==
  ASSUME IndInv, NEW s \in Sessions, Setup(s)
  PROVE  IndInv'
  <1>0. TypeOK /\ StrandsPlaced /\ HandlesGiven /\ EntriesRegistered
        /\ ClosersTell /\ HandlesHeld /\ HandlesApart /\ NoDeadEntries
    BY DEF IndInv
  <1>1. TypeOK'
    BY <1>0, SessionKinds DEF Setup, TypeOK, Goto, RxPlaces, LeavingPlaces
  <1>2. StrandsPlaced'
    BY <1>0 DEF Setup, TypeOK, Goto, StrandsPlaced, ClosePlaces, Closers, Strands
  <1>3. HandlesGiven'
    BY <1>0 DEF Setup, TypeOK, Goto, HandlesGiven, Fresh, Strands
  <1>4. EntriesRegistered'
    BY <1>0, SessionKinds
      DEF Setup, TypeOK, Goto, EntriesRegistered, Entered, Closers, Strands
  <1>5. ClosersTell'
    BY <1>0, SessionKinds DEF Setup, TypeOK, Goto, ClosersTell, Closers, Listed, Strands
  <1>6. HandlesHeld'
    BY <1>0 DEF Setup, TypeOK, Goto, HandlesHeld, Held, Strands
  <1>7. HandlesApart'
    BY <1>0 DEF Setup, HandlesApart, Held, Distinct
  <1>8. NoDeadEntries'
    BY <1>0, SessionKinds DEF Setup, TypeOK, Goto, NoDeadEntries, Leaving, Strands
  <1> QED
    BY <1>1, <1>2, <1>3, <1>4, <1>5, <1>6, <1>7, <1>8 DEF IndInv

LEMMA RxErrorStep ==
  ASSUME IndInv, NEW s \in Sessions, RxError(s)
  PROVE  IndInv'
  <1>0. TypeOK /\ StrandsPlaced /\ HandlesGiven /\ EntriesRegistered
        /\ ClosersTell /\ HandlesHeld /\ HandlesApart /\ NoDeadEntries
    BY DEF IndInv
  <1>1. TypeOK'
    BY <1>0, SessionKinds DEF RxError, TypeOK, Goto, RxPlaces, LeavingPlaces
  <1>2. StrandsPlaced'
    BY <1>0 DEF RxError, TypeOK, Goto, StrandsPlaced, ClosePlaces, Closers, Strands
  <1>3. HandlesGiven'
    BY <1>0 DEF RxError, TypeOK, Goto, HandlesGiven, Fresh, Strands
  <1>4. EntriesRegistered'
    BY <1>0, SessionKinds
      DEF RxError, TypeOK, Goto, EntriesRegistered, Entered, Closers, Strands
  <1>5. ClosersTell'
    BY <1>0, SessionKinds
      DEF RxError, TypeOK, Goto, ClosersTell, Closers, Listed, Strands
  <1>6. HandlesHeld'
    BY <1>0 DEF RxError, TypeOK, Goto, HandlesHeld, Held, Strands
  <1>7. HandlesApart'
    BY <1>0 DEF RxError, HandlesApart, Held, Distinct
  <1>8. NoDeadEntries'
    BY <1>0, SessionKinds DEF RxError, TypeOK, Goto, NoDeadEntries, Leaving, Strands
  <1> QED
    BY <1>1, <1>2, <1>3, <1>4, <1>5, <1>6, <1>7, <1>8 DEF IndInv

LEMMA TxErrorStep ==
  ASSUME IndInv, NEW s \in Sessions, TxError(s)
  PROVE  IndInv'
  <1>0. TypeOK /\ StrandsPlaced /\ HandlesGiven /\ EntriesRegistered
        /\ ClosersTell /\ HandlesHeld /\ HandlesApart /\ NoDeadEntries
    BY DEF IndInv
  <1>1. TypeOK'
    BY <1>0, SessionKinds DEF TxError, Listed, TypeOK, Goto, RxPlaces, LeavingPlaces
  <1>2. StrandsPlaced'
    BY <1>0
      DEF TxError, Listed, TypeOK, Goto, StrandsPlaced, ClosePlaces, Closers,
         Strands
  <1>3. HandlesGiven'
    BY <1>0 DEF TxError, Listed, TypeOK, Goto, HandlesGiven, Fresh, Strands
  <1>4. EntriesRegistered'
    BY <1>0, SessionKinds
      DEF TxError, Listed, TypeOK, Goto, EntriesRegistered, Entered, Closers,
         Strands
  <1>5. ClosersTell'
    BY <1>0, SessionKinds
      DEF TxError, Listed, TypeOK, Goto, ClosersTell, Closers, Strands
  <1>6. HandlesHeld'
    BY <1>0 DEF TxError, Listed, TypeOK, Goto, HandlesHeld, Held, Strands
  <1>7. HandlesApart'
    BY <1>0 DEF TxError, Listed, HandlesApart, Held, Distinct
  <1>8. NoDeadEntries'
    BY <1>0, SessionKinds
      DEF TxError, Listed, TypeOK, Goto, NoDeadEntries, Leaving, Strands
  <1> QED
    BY <1>1, <1>2, <1>3, <1>4, <1>5, <1>6, <1>7, <1>8 DEF IndInv

LEMMA UserCloseStep ==
  ASSUME IndInv, NEW s \in Sessions, UserClose(s)
  PROVE  IndInv'
  <1>0. TypeOK /\ StrandsPlaced /\ HandlesGiven /\ EntriesRegistered
        /\ ClosersTell /\ HandlesHeld /\ HandlesApart /\ NoDeadEntries
    BY DEF IndInv
  <1>1. TypeOK'
    BY <1>0, SessionKinds DEF UserClose, TypeOK, Goto, RxPlaces, LeavingPlaces
  <1>2. StrandsPlaced'
    BY <1>0 DEF UserClose, TypeOK, Goto, StrandsPlaced, ClosePlaces, Closers, Strands
  <1>3. HandlesGiven'
    BY <1>0 DEF UserClose, TypeOK, Goto, HandlesGiven, Fresh, Strands
  <1>4. EntriesRegistered'
    BY <1>0, SessionKinds
      DEF UserClose, TypeOK, Goto, EntriesRegistered, Entered, Closers, Strands
  <1>5. ClosersTell'
    BY <1>0, SessionKinds
      DEF UserClose, TypeOK, Goto, ClosersTell, Closers, Listed, Strands
  <1>6. HandlesHeld'
    BY <1>0 DEF UserClose, TypeOK, Goto, HandlesHeld, Held, Strands
  <1>7. HandlesApart'
    BY <1>0 DEF UserClose, HandlesApart, Held, Distinct
  <1>8. NoDeadEntries'
    BY <1>0, SessionKinds DEF UserClose, TypeOK, Goto, NoDeadEntries, Leaving, Strands
  <1> QED
    BY <1>1, <1>2, <1>3, <1>4, <1>5, <1>6, <1>7, <1>8 DEF IndInv

LEMMA TestStep ==
  ASSUME IndInv, NEW s \in Sessions, NEW t \in Strands, Test(s, t)
  PROVE  IndInv'
  <1>0. TypeOK /\ StrandsPlaced /\ HandlesGiven /\ EntriesRegistered
        /\ ClosersTell /\ HandlesHeld /\ HandlesApart /\ NoDeadEntries
    BY DEF IndInv
  <1>a. \A r \in Sessions : \A u \in Strands : at'[r][u] # at[r][u] => r = s /\ u \notin Closers
    BY <1>0 DEF Test, Goto, TypeOK, StrandsPlaced, Closers, ClosePlaces, Strands
  <1>1. TypeOK'
    BY <1>0, SessionKinds DEF Test, TypeOK, Goto, RxPlaces, LeavingPlaces
  <1>2. StrandsPlaced'
    BY <1>0 DEF Test, TypeOK, Goto, StrandsPlaced, ClosePlaces, Closers, Strands
  <1>3. HandlesGiven'
    BY <1>0 DEF Test, TypeOK, Goto, HandlesGiven, Fresh, Strands
  <1>4. EntriesRegistered'
    BY <1>0, SessionKinds
      DEF Test, TypeOK, Goto, EntriesRegistered, Entered, Closers, Strands
  <1>5. ClosersTell'
    <2>1. Closers \subseteq Strands
      BY DEF Closers, Strands
    <2>2. \A r \in Sessions : \A u \in Closers : at'[r][u] = at[r][u]
      BY <1>a, <2>1
    <2> QED
      BY <1>0, <2>2 DEF Test, ClosersTell, Listed
  <1>6. HandlesHeld'
    BY <1>0 DEF Test, TypeOK, Goto, HandlesHeld, Held, Strands
  <1>7. HandlesApart'
    BY <1>0 DEF Test, HandlesApart, Held, Distinct
  <1>8. NoDeadEntries'
    BY <1>0, SessionKinds DEF Test, TypeOK, Goto, NoDeadEntries, Leaving, Strands
  <1> QED
    BY <1>1, <1>2, <1>3, <1>4, <1>5, <1>6, <1>7, <1>8 DEF IndInv

LEMMA AcquireStep ==
  ASSUME IndInv, NEW s \in Sessions, Acquire(s)
  PROVE  IndInv'
  <1>0. TypeOK /\ StrandsPlaced /\ HandlesGiven /\ EntriesRegistered
        /\ ClosersTell /\ HandlesHeld /\ HandlesApart /\ NoDeadEntries
    BY DEF IndInv
  <1>a. /\ \A r \in Sessions : \A u \in Strands :
             at'[r][u] = IF r = s /\ u = "rx" THEN "add" ELSE at[r][u]
        /\ at' \in [Sessions -> [Strands -> RxPlaces \cup LeavingPlaces]]
    BY <1>0, GotoOne DEF Acquire, Strands, RxPlaces
  <1>b. /\ Found(pool) \in Handles \ pool.used /\ pool' \in Pool
        /\ pool'.used = pool.used \cup {Found(pool)}
    BY <1>0, FoundIsFree, PoolType, PoolUse DEF Acquire, TypeOK, Free
  <1>c. /\ handle[s] = 0 /\ s \notin released
        /\ \A r \in Sessions : handle'[r] = IF r = s THEN Found(pool) ELSE handle[r]
    BY <1>0 DEF Acquire, TypeOK, HandlesGiven, Fresh
  <1>d. \A h \in Handles : h # 0
    BY PoolSizePositive DEF Handles
  <1>1. TypeOK'
    BY <1>0, <1>a, <1>b DEF Acquire, TypeOK
  <1>2. StrandsPlaced'
    BY <1>0 DEF Acquire, TypeOK, Goto, StrandsPlaced, ClosePlaces, Closers, Strands
  <1>3. HandlesGiven'
    BY <1>0, <1>a, <1>b, <1>c, <1>d DEF Acquire, HandlesGiven, Fresh, Strands
  <1>4. EntriesRegistered'
    BY <1>0, SessionKinds
      DEF Acquire, TypeOK, Goto, EntriesRegistered, Entered, Closers, Strands
  <1>5. ClosersTell'
    BY <1>0, SessionKinds
      DEF Acquire, TypeOK, Goto, ClosersTell, Closers, Listed, Strands
  <1>6. HandlesHeld'
    <2>1. ASSUME NEW h \in pool'.used PROVE \E r \in Sessions : handle'[r] = h /\ r \notin released'
      <3>1. CASE h = Found(pool)
        BY <1>c, <3>1 DEF Acquire
      <3>2. CASE h \in pool.used
        BY <1>0, <1>c, <1>d, <3>2 DEF Acquire, HandlesHeld, TypeOK, Pool
      <3> QED
        BY <1>b, <3>1, <3>2
    <2>2. ASSUME NEW r \in Sessions, Held(r)', r \in disposed'
          PROVE  r \in stray' \/ \E u \in Strands : at'[r][u] = "tell"
      <3>1. CASE r = s
        BY <1>0, <1>a, <1>c, <2>2, <3>1 DEF Acquire, Leaving, HandlesGiven
      <3>2. CASE r # s
        BY <1>0, <1>a, <1>c, <2>2, <3>2 DEF Acquire, Held, HandlesHeld
      <3> QED
        BY <3>1, <3>2
    <2> QED
      BY <2>1, <2>2 DEF HandlesHeld
  <1>7. HandlesApart'
    BY <1>0, <1>b, <1>c DEF Acquire, HandlesApart, Held, Distinct
  <1>8. NoDeadEntries'
    BY <1>0, SessionKinds DEF Acquire, TypeOK, Goto, NoDeadEntries, Leaving, Strands
  <1> QED
    BY <1>1, <1>2, <1>3, <1>4, <1>5, <1>6, <1>7, <1>8 DEF IndInv

LEMMA AcquireFailsStep ==
  ASSUME IndInv, NEW s \in Sessions, AcquireFails(s)
  PROVE  IndInv'
  <1>0. TypeOK /\ StrandsPlaced /\ HandlesGiven /\ EntriesRegistered
        /\ ClosersTell /\ HandlesHeld /\ HandlesApart /\ NoDeadEntries
    BY DEF IndInv
  <1>p. PICK place \in {"test", "done"} : Goto(s, "rx", place)
    BY DEF AcquireFails
  <1>a. /\ \A r \in Sessions : \A u \in Strands :
             at'[r][u] = IF r = s /\ u = "rx" THEN place ELSE at[r][u]
        /\ at' \in [Sessions -> [Strands -> RxPlaces \cup LeavingPlaces]]
    BY <1>0, <1>p, GotoOne DEF Strands, LeavingPlaces
  <1>b. handle[s] = 0
    BY <1>0 DEF AcquireFails, HandlesGiven, Fresh
  <1>c. disposed' \subseteq disposed \cup {s} /\ disposed \subseteq disposed'
    BY DEF AcquireFails
  <1>d. at[s]["rx"] = "acquire"
    BY DEF AcquireFails
  <1>1. TypeOK'
    BY <1>0, <1>a DEF AcquireFails, Post, TypeOK
  <1>2. StrandsPlaced'
    BY <1>0
      DEF AcquireFails, Post, TypeOK, Goto, StrandsPlaced, ClosePlaces, Closers,
         Strands
  <1>3. HandlesGiven'
    BY <1>0 DEF AcquireFails, Post, TypeOK, Goto, HandlesGiven, Fresh, Strands
  <1>4. EntriesRegistered'
    <2>1. \A r \in Sessions : \A u \in Closers : at'[r][u] = at[r][u]
      BY <1>a DEF Closers, Strands
    <2>2. UNCHANGED <<handle, table, toClose>>
      BY DEF AcquireFails
    <2>3. ~Entered(s) /\ \A r \in Sessions \ {s} : Entered(r)' <=> Entered(r)
      BY <1>a, <1>d, <2>2 DEF Entered, Strands
    <2>4. \A h \in Handles : table[h] # NoSession => table[h] \in Sessions
      BY <1>0 DEF TypeOK
    <2> QED
      BY <1>0, <2>1, <2>2, <2>3, <2>4 DEF EntriesRegistered
  <1>5. ClosersTell'
    <2>1. \A r \in Sessions : \A u \in Closers : at'[r][u] = at[r][u]
      BY <1>a DEF Closers, Strands
    <2> QED
      BY <1>0, <2>1 DEF AcquireFails, ClosersTell, Listed
  <1>6. HandlesHeld'
    BY <1>0, <1>a, <1>b, <1>c, <1>d DEF AcquireFails, HandlesHeld, Held
  <1>7. HandlesApart'
    BY <1>0 DEF AcquireFails, Post, HandlesApart, Held, Distinct
  <1>8. NoDeadEntries'
    <2>1. \A h \in Handles : table[h] # s
      BY <1>0, <1>b, SessionKinds DEF EntriesRegistered, Entered
    <2>2. \A r \in Sessions : Leaving(r) => Leaving(r)'
      BY <1>a, <1>d DEF Leaving
    <2> QED
      BY <1>0, <1>c, <2>1, <2>2, SessionKinds DEF AcquireFails, NoDeadEntries, TypeOK
  <1> QED
    BY <1>1, <1>2, <1>3, <1>4, <1>5, <1>6, <1>7, <1>8 DEF IndInv

LEMMA AddStep ==
  ASSUME IndInv, NEW s \in Sessions, Add(s)
  PROVE  IndInv'
  <1>0. TypeOK /\ StrandsPlaced /\ HandlesGiven /\ EntriesRegistered
        /\ ClosersTell /\ HandlesHeld /\ HandlesApart /\ NoDeadEntries
    BY DEF IndInv
  <1>p. PICK place \in {"post", "on", "setup"} : Goto(s, "rx", place)
    BY DEF Add
  <1>a. /\ \A r \in Sessions : \A u \in Strands :
             at'[r][u] = IF r = s /\ u = "rx" THEN place ELSE at[r][u]
        /\ at' \in [Sessions -> [Strands -> RxPlaces \cup LeavingPlaces]]
    BY <1>0, <1>p, GotoOne DEF Strands, RxPlaces
  <1>b. /\ \A t \in Closers : at[s][t] = "none"
        /\ \A h \in Handles : table[h] # s
    BY <1>0, SessionKinds DEF Add, EntriesRegistered, Entered
  <1>c. \A h \in Handles : table'[h] # table[h] =>
          h = handle[s] /\ table'[h] = s /\ link # "disposed"
    BY <1>0 DEF Add, TypeOK
  <1>1. TypeOK'
    <2>1. table' \in [Handles -> Sessions \cup {NoSession}] /\ stray' \subseteq Sessions
      BY <1>0 DEF Add, TypeOK
    <2> QED
      BY <1>0, <1>a, <2>1 DEF Add, TypeOK
  <1>2. StrandsPlaced'
    BY <1>0 DEF Add, TypeOK, Goto, StrandsPlaced, ClosePlaces, Closers, Strands
  <1>3. HandlesGiven'
    BY <1>0 DEF Add, TypeOK, Goto, HandlesGiven, Fresh, Strands
  <1>4. EntriesRegistered'
    <2>1. \A r \in Sessions : \A u \in Closers : at'[r][u] = at[r][u]
      BY <1>a DEF Closers, Strands
    <2>2. /\ \A r \in Sessions : Entered(r) => Entered(r)'
          /\ Entered(s)'
      BY <1>0, <1>a DEF Add, Entered, Strands, HandlesGiven, Fresh
    <2> QED
      BY <1>0, <1>c, <2>1, <2>2, SessionKinds DEF Add, EntriesRegistered, TypeOK
  <1>5. ClosersTell'
    <2>1. \A r \in Sessions : \A u \in Closers : at'[r][u] = at[r][u]
      BY <1>a DEF Closers, Strands
    <2>2. \A r \in Sessions : r \in Listed' => r \in Listed \/ r = s
      BY <1>c DEF Listed
    <2> QED
      BY <1>0, <1>b, <2>1, <2>2 DEF Add, ClosersTell
  <1>6. HandlesHeld'
    <2>1. \A r \in Sessions : \A u \in Strands : at[r][u] = "tell" => at'[r][u] = "tell"
      BY <1>a DEF Add
    <2>2. stray \subseteq stray'
      BY DEF Add
    <2> QED
      BY <1>0, <2>1, <2>2 DEF Add, HandlesHeld, Held
  <1>7. HandlesApart'
    BY <1>0 DEF Add, HandlesApart, Held, Distinct
  <1>8. NoDeadEntries'
    BY <1>0, SessionKinds DEF Add, TypeOK, Goto, NoDeadEntries, Leaving, Strands
  <1> QED
    BY <1>1, <1>2, <1>3, <1>4, <1>5, <1>6, <1>7, <1>8 DEF IndInv

LEMMA PostConnectedStep ==
  ASSUME IndInv, NEW s \in Sessions, PostConnected(s)
  PROVE  IndInv'
  <1>0. TypeOK /\ StrandsPlaced /\ HandlesGiven /\ EntriesRegistered
        /\ ClosersTell /\ HandlesHeld /\ HandlesApart /\ NoDeadEntries
    BY DEF IndInv
  <1>1. TypeOK'
    BY <1>0, SessionKinds DEF PostConnected, Post, TypeOK, Goto, RxPlaces, LeavingPlaces
  <1>2. StrandsPlaced'
    BY <1>0
      DEF PostConnected, Post, TypeOK, Goto, StrandsPlaced, ClosePlaces, Closers,
         Strands
  <1>3. HandlesGiven'
    BY <1>0 DEF PostConnected, Post, TypeOK, Goto, HandlesGiven, Fresh, Strands
  <1>4. EntriesRegistered'
    BY <1>0, SessionKinds
      DEF PostConnected, Post, TypeOK, Goto, EntriesRegistered, Entered, Closers,
         Strands
  <1>5. ClosersTell'
    BY <1>0, SessionKinds
      DEF PostConnected, Post, TypeOK, Goto, ClosersTell, Closers, Listed, Strands
  <1>6. HandlesHeld'
    BY <1>0 DEF PostConnected, Post, TypeOK, Goto, HandlesHeld, Held, Strands
  <1>7. HandlesApart'
    BY <1>0 DEF PostConnected, Post, HandlesApart, Held, Distinct
  <1>8. NoDeadEntries'
    BY <1>0, SessionKinds
      DEF PostConnected, Post, TypeOK, Goto, NoDeadEntries, Leaving, Strands
  <1> QED
    BY <1>1, <1>2, <1>3, <1>4, <1>5, <1>6, <1>7, <1>8 DEF IndInv

LEMMA SetupFailsStep ==
  ASSUME IndInv, NEW s \in Sessions, SetupFails(s)
  PROVE  IndInv'
  <1>0. TypeOK /\ StrandsPlaced /\ HandlesGiven /\ EntriesRegistered
        /\ ClosersTell /\ HandlesHeld /\ HandlesApart /\ NoDeadEntries
    BY DEF IndInv
  <1>1. TypeOK'
    BY <1>0, SessionKinds DEF SetupFails, Post, TypeOK, Goto, RxPlaces, LeavingPlaces
  <1>2. StrandsPlaced'
    BY <1>0
      DEF SetupFails, Post, TypeOK, Goto, StrandsPlaced, ClosePlaces, Closers,
         Strands
  <1>3. HandlesGiven'
    BY <1>0 DEF SetupFails, Post, TypeOK, Goto, HandlesGiven, Fresh, Strands
  <1>4. EntriesRegistered'
    BY <1>0, SessionKinds
      DEF SetupFails, Post, TypeOK, Goto, EntriesRegistered, Entered, Closers,
         Strands
  <1>5. ClosersTell'
    BY <1>0, SessionKinds
      DEF SetupFails, Post, TypeOK, Goto, ClosersTell, Closers, Listed, Strands
  <1>6. HandlesHeld'
    BY <1>0 DEF SetupFails, Post, TypeOK, Goto, HandlesHeld, Held, Strands
  <1>7. HandlesApart'
    BY <1>0 DEF SetupFails, Post, HandlesApart, Held, Distinct
  <1>8. NoDeadEntries'
    BY <1>0, SessionKinds
      DEF SetupFails, Post, TypeOK, Goto, NoDeadEntries, Leaving, Strands
  <1> QED
    BY <1>1, <1>2, <1>3, <1>4, <1>5, <1>6, <1>7, <1>8 DEF IndInv

LEMMA DisposeStep ==
  ASSUME IndInv, NEW s \in Sessions, NEW t \in Strands, Dispose(s, t)
  PROVE  IndInv'
  <1>0. TypeOK /\ StrandsPlaced /\ HandlesGiven /\ EntriesRegistered
        /\ ClosersTell /\ HandlesHeld /\ HandlesApart /\ NoDeadEntries
    BY DEF IndInv
  <1>a. /\ \A r \in Sessions : \A u \in Strands : at'[r][u] # at[r][u] =>
               r = s /\ u = t /\ at[r][u] = "dispose"
        /\ t \in Errors => at'[s][t] = "tell"
    BY <1>0 DEF Dispose, Goto, TypeOK
  <1>b. t \notin Errors => t \in Closers /\ s \in released /\ (link # "disposed" => s \notin Listed)
    BY <1>0 DEF Dispose, Errors, Closers, Strands, ClosersTell
  <1>1. TypeOK'
    BY <1>0, SessionKinds DEF Dispose, Errors, TypeOK, Goto, RxPlaces, LeavingPlaces
  <1>2. StrandsPlaced'
    BY <1>0
      DEF Dispose, Errors, TypeOK, Goto, StrandsPlaced, ClosePlaces, Closers,
         Strands
  <1>3. HandlesGiven'
    BY <1>0 DEF Dispose, Errors, TypeOK, Goto, HandlesGiven, Fresh, Strands
  <1>4. EntriesRegistered'
    BY <1>0, SessionKinds
      DEF Dispose, Errors, TypeOK, Goto, EntriesRegistered, Entered, Closers,
         Strands
  <1>5. ClosersTell'
    BY <1>0, SessionKinds
      DEF Dispose, Errors, TypeOK, Goto, ClosersTell, Closers, Listed, Strands
  <1>6. HandlesHeld'
    BY <1>0, <1>a, <1>b DEF Dispose, HandlesHeld, Held
  <1>7. HandlesApart'
    BY <1>0 DEF Dispose, Errors, HandlesApart, Held, Distinct
  <1>8. NoDeadEntries'
    <2>1. \A r \in Sessions : Leaving(r) => Leaving(r)'
      BY <1>a DEF Leaving
    <2>2. link # "disposed" /\ s \in Listed => Leaving(s)'
      BY <1>a, <1>b DEF Leaving
    <2> QED
      BY <1>0, <2>1, <2>2, SessionKinds DEF Dispose, NoDeadEntries, Listed, TypeOK
  <1> QED
    BY <1>1, <1>2, <1>3, <1>4, <1>5, <1>6, <1>7, <1>8 DEF IndInv

LEMMA ReleaseStep ==
  ASSUME IndInv, NEW s \in Sessions, NEW t \in Strands, Release(s, t)
  PROVE  IndInv'
  <1>0. TypeOK /\ StrandsPlaced /\ HandlesGiven /\ EntriesRegistered
        /\ ClosersTell /\ HandlesHeld /\ HandlesApart /\ NoDeadEntries
    BY DEF IndInv
  <1>a. /\ \A r \in Sessions : \A u \in Strands : at'[r][u] =
               IF r = s /\ u = t THEN (IF handle[s] = 0 THEN AfterTelling(t) ELSE "remove") ELSE at[r][u]
        /\ at' \in [Sessions -> [Strands -> RxPlaces \cup LeavingPlaces]]
    <2>1. Goto(s, t, IF handle[s] = 0 THEN AfterTelling(t) ELSE "remove")
      BY DEF Release
    <2> QED
      BY <1>0, <2>1, GotoOne DEF AfterTelling, LeavingPlaces
  <1>b. t \in Closers => handle[s] # 0
    BY <1>0 DEF Release, EntriesRegistered, Entered
  <1>c. t \in Closers \/ t \in Errors
    BY DEF Strands, Closers, Errors
  <1>d. handle[s] # 0 =>
          /\ handle[s] \in Handles
          /\ pool' \in Pool /\ pool'.used = pool.used \ {handle[s]}
          /\ released' = released \cup {s}
    <2>1. SUFFICES ASSUME handle[s] # 0
                   PROVE  /\ handle[s] \in Handles
                          /\ pool' \in Pool /\ pool'.used = pool.used \ {handle[s]}
                          /\ released' = released \cup {s}
      OBVIOUS
    <2>2. handle[s] \in Handles /\ pool \in Pool
      BY <1>0, <2>1 DEF TypeOK
    <2> QED
      BY <2>1, <2>2, PoolType, PoolUse DEF Release
  <1>e. handle[s] = 0 => UNCHANGED <<pool, released, twice>>
    BY DEF Release
  <1>1. TypeOK'
    BY <1>0, <1>a, <1>d DEF Release, TypeOK
  <1>2. StrandsPlaced'
    BY <1>0
      DEF Release, AfterTelling, Errors, TypeOK, Goto, StrandsPlaced, ClosePlaces,
         Closers, Strands
  <1>3. HandlesGiven'
    BY <1>0
      DEF Release, AfterTelling, Errors, TypeOK, Goto, HandlesGiven, Fresh, Strands
  <1>4. EntriesRegistered'
    <2>1. \A r \in Sessions : at[r]["rx"] \in {"none", "shaking", "acquire", "add"} <=> at'[r]["rx"] \in {"none", "shaking", "acquire", "add"}
      BY <1>a DEF Release, AfterTelling, Errors, Strands
    <2>2. \A r \in Sessions : \A u \in Closers : at'[r][u] # "none" => at[r][u] # "none"
      BY <1>a DEF Release, Closers, Strands
    <2> QED
      BY <1>0, <2>1, <2>2, SessionKinds DEF Release, EntriesRegistered, Entered, TypeOK
  <1>5. ClosersTell'
    <2>1. \A r \in Sessions : \A u \in Closers :
            at'[r][u] = IF r = s /\ u = t THEN "remove" ELSE at[r][u]
      BY <1>a, <1>b DEF Closers, Strands
    <2>2. t \in Closers => s \in released'
      BY <1>b, <1>d
    <2> QED
      BY <1>0, <1>d, <1>e, <2>1, <2>2 DEF Release, ClosersTell, Listed
  <1>6. HandlesHeld'
    <2>1. ASSUME NEW h \in pool'.used PROVE \E r \in Sessions : handle'[r] = h /\ r \notin released'
      BY <1>0, <1>d, <1>e DEF Release, HandlesHeld
    <2>2. ASSUME NEW r \in Sessions, Held(r)', r \in disposed'
          PROVE  r \in stray' \/ \E u \in Strands : at'[r][u] = "tell"
      <3>1. Held(r) /\ r \in disposed /\ r # s
        BY <1>d, <1>e, <2>2 DEF Release, Held
      <3> QED
        BY <1>0, <1>a, <3>1 DEF Release, HandlesHeld
    <2> QED
      BY <2>1, <2>2 DEF HandlesHeld
  <1>7. HandlesApart'
    <2>1. CASE handle[s] = 0
      BY <1>0, <1>e, <2>1 DEF Release, HandlesApart, Held, Distinct
    <2>2. CASE handle[s] # 0 /\ ~twice'
      <3>1. ~twice /\ s \notin released
        BY <2>2 DEF Release
      <3>2. \A r \in Sessions : Held(r)' => Held(r) /\ handle[r] # handle[s]
        BY <1>0, <1>d, <2>2, <3>1 DEF Release, Held, HandlesApart, Distinct
      <3> QED
        BY <1>0, <1>d, <2>2, <3>1, <3>2 DEF Release, HandlesApart, Held, Distinct
    <2> QED
      BY <2>1, <2>2 DEF HandlesApart
  <1>8. NoDeadEntries'
    <2>1. \A r \in Sessions : handle[r] # 0 /\ Leaving(r) => Leaving(r)'
      BY <1>a DEF Release, Leaving
    <2> QED
      BY <1>0, <2>1, SessionKinds
        DEF Release, NoDeadEntries, EntriesRegistered, Entered, TypeOK
  <1> QED
    BY <1>1, <1>2, <1>3, <1>4, <1>5, <1>6, <1>7, <1>8 DEF IndInv

LEMMA RemoveStep ==
  ASSUME IndInv, NEW s \in Sessions, NEW t \in Strands, Remove(s, t)
  PROVE  IndInv'
  <1>0. TypeOK /\ StrandsPlaced /\ HandlesGiven /\ EntriesRegistered
        /\ ClosersTell /\ HandlesHeld /\ HandlesApart /\ NoDeadEntries
    BY DEF IndInv
  <1>a. \A r \in Sessions : \A u \in Strands :
          at'[r][u] = IF r = s /\ u = t THEN "announce" ELSE at[r][u]
    BY <1>0, GotoOne DEF Remove
  <1>b. /\ handle[s] \in Handles
        /\ \A h \in Handles : table[h] = s => h = handle[s]
        /\ link # "disposed" =>
             table' = [h \in Handles |-> IF h = handle[s] THEN NoSession ELSE table[h]]
    BY <1>0, SessionKinds DEF Remove, TypeOK, HandlesGiven, EntriesRegistered
  <1>1. TypeOK'
    BY <1>0, SessionKinds DEF Remove, TypeOK, Goto, RxPlaces, LeavingPlaces
  <1>2. StrandsPlaced'
    BY <1>0 DEF Remove, TypeOK, Goto, StrandsPlaced, ClosePlaces, Closers, Strands
  <1>3. HandlesGiven'
    BY <1>0 DEF Remove, TypeOK, Goto, HandlesGiven, Fresh, Strands
  <1>4. EntriesRegistered'
    BY <1>0, SessionKinds
      DEF Remove, TypeOK, Goto, EntriesRegistered, Entered, Closers, Strands
  <1>5. ClosersTell'
    <2>1. link # "disposed" => Listed' \subseteq Listed \ {s}
      BY <1>0, <1>b, SessionKinds DEF Listed, TypeOK
    <2> QED
      BY <1>0, <1>a, <2>1 DEF Remove, ClosersTell, Closers, Strands
  <1>6. HandlesHeld'
    BY <1>0 DEF Remove, TypeOK, Goto, HandlesHeld, Held, Strands
  <1>7. HandlesApart'
    BY <1>0 DEF Remove, HandlesApart, Held, Distinct
  <1>8. NoDeadEntries'
    <2>1. ASSUME link # "disposed", NEW h \in Handles, table'[h] # NoSession
          PROVE  table'[h] = table[h] /\ table[h] # s
      BY <1>0, <1>b, <2>1 DEF TypeOK
    <2>2. \A r \in Sessions \ {s} : Leaving(r) => Leaving(r)'
      BY <1>a DEF Leaving
    <2> QED
      BY <1>0, <2>1, <2>2 DEF Remove, NoDeadEntries, TypeOK
  <1> QED
    BY <1>1, <1>2, <1>3, <1>4, <1>5, <1>6, <1>7, <1>8 DEF IndInv

LEMMA AnnounceStep ==
  ASSUME IndInv, NEW s \in Sessions, NEW t \in Strands, Announce(s, t)
  PROVE  IndInv'
  <1>0. TypeOK /\ StrandsPlaced /\ HandlesGiven /\ EntriesRegistered
        /\ ClosersTell /\ HandlesHeld /\ HandlesApart /\ NoDeadEntries
    BY DEF IndInv
  <1>1. TypeOK'
    BY <1>0, SessionKinds
      DEF Announce, AfterTelling, Errors, Post, TypeOK, Goto, RxPlaces,
         LeavingPlaces
  <1>2. StrandsPlaced'
    BY <1>0
      DEF Announce, AfterTelling, Errors, Post, TypeOK, Goto, StrandsPlaced,
         ClosePlaces, Closers, Strands
  <1>3. HandlesGiven'
    BY <1>0
      DEF Announce, AfterTelling, Errors, Post, TypeOK, Goto, HandlesGiven, Fresh,
         Strands
  <1>4. EntriesRegistered'
    BY <1>0, SessionKinds
      DEF Announce, AfterTelling, Errors, Post, TypeOK, Goto, EntriesRegistered,
         Entered, Closers, Strands
  <1>5. ClosersTell'
    BY <1>0, SessionKinds
      DEF Announce, AfterTelling, Errors, Post, TypeOK, Goto, ClosersTell, Closers,
         Listed, Strands
  <1>6. HandlesHeld'
    BY <1>0
      DEF Announce, AfterTelling, Errors, Post, TypeOK, Goto, HandlesHeld, Held,
         Strands
  <1>7. HandlesApart'
    BY <1>0 DEF Announce, AfterTelling, Errors, Post, HandlesApart, Held, Distinct
  <1>8. NoDeadEntries'
    BY <1>0, SessionKinds
      DEF Announce, AfterTelling, Errors, Post, TypeOK, Goto, NoDeadEntries,
         Leaving, Strands
  <1> QED
    BY <1>1, <1>2, <1>3, <1>4, <1>5, <1>6, <1>7, <1>8 DEF IndInv

LEMMA LinkCloseStep ==
  ASSUME IndInv, LinkClose
  PROVE  IndInv'
  <1>0. TypeOK /\ StrandsPlaced /\ HandlesGiven /\ EntriesRegistered
        /\ ClosersTell /\ HandlesHeld /\ HandlesApart /\ NoDeadEntries
    BY DEF IndInv
  <1>1. TypeOK'
    BY <1>0, SessionKinds DEF LinkClose, Listed, TypeOK, Goto, RxPlaces, LeavingPlaces
  <1>2. StrandsPlaced'
    BY <1>0
      DEF LinkClose, Listed, TypeOK, Goto, StrandsPlaced, ClosePlaces, Closers,
         Strands
  <1>3. HandlesGiven'
    BY <1>0 DEF LinkClose, Listed, TypeOK, Goto, HandlesGiven, Fresh, Strands
  <1>4. EntriesRegistered'
    BY <1>0, SessionKinds
      DEF LinkClose, Listed, TypeOK, Goto, EntriesRegistered, Entered, Closers,
         Strands
  <1>5. ClosersTell'
    BY <1>0, SessionKinds
      DEF LinkClose, Listed, TypeOK, Goto, ClosersTell, Closers, Strands
  <1>6. HandlesHeld'
    BY <1>0 DEF LinkClose, Listed, TypeOK, Goto, HandlesHeld, Held, Strands
  <1>7. HandlesApart'
    BY <1>0 DEF LinkClose, Listed, HandlesApart, Held, Distinct
  <1>8. NoDeadEntries'
    BY <1>0, SessionKinds
      DEF LinkClose, Listed, TypeOK, Goto, NoDeadEntries, Leaving, Strands
  <1> QED
    BY <1>1, <1>2, <1>3, <1>4, <1>5, <1>6, <1>7, <1>8 DEF IndInv

LEMMA LinkCloseNextStep ==
  ASSUME IndInv, LinkCloseNext
  PROVE  IndInv'
  <1>0. TypeOK /\ StrandsPlaced /\ HandlesGiven /\ EntriesRegistered
        /\ ClosersTell /\ HandlesHeld /\ HandlesApart /\ NoDeadEntries
    BY DEF IndInv
  <1>a. PICK s \in toClose : toClose' = toClose \ {s} /\ Goto(s, "link", "tell")
    BY DEF LinkCloseNext
  <1>1. TypeOK'
    BY <1>0, <1>a, GotoOne DEF LinkCloseNext, TypeOK, Strands, LeavingPlaces
  <1>2. StrandsPlaced'
    BY <1>0
      DEF LinkCloseNext, LinkBusy, TypeOK, Goto, StrandsPlaced, ClosePlaces,
         Closers, Strands
  <1>3. HandlesGiven'
    BY <1>0 DEF LinkCloseNext, LinkBusy, TypeOK, Goto, HandlesGiven, Fresh, Strands
  <1>4. EntriesRegistered'
    BY <1>0, SessionKinds
      DEF LinkCloseNext, LinkBusy, TypeOK, Goto, EntriesRegistered, Entered,
         Closers, Strands
  <1>5. ClosersTell'
    BY <1>0, SessionKinds
      DEF LinkCloseNext, LinkBusy, TypeOK, Goto, ClosersTell, Closers, Listed,
         Strands
  <1>6. HandlesHeld'
    BY <1>0 DEF LinkCloseNext, LinkBusy, TypeOK, Goto, HandlesHeld, Held, Strands
  <1>7. HandlesApart'
    BY <1>0 DEF LinkCloseNext, LinkBusy, HandlesApart, Held, Distinct
  <1>8. NoDeadEntries'
    BY <1>0, SessionKinds
      DEF LinkCloseNext, LinkBusy, TypeOK, Goto, NoDeadEntries, Leaving, Strands
  <1> QED
    BY <1>1, <1>2, <1>3, <1>4, <1>5, <1>6, <1>7, <1>8 DEF IndInv

LEMMA LinkClearStep ==
  ASSUME IndInv, LinkClear
  PROVE  IndInv'
  <1>0. TypeOK /\ StrandsPlaced /\ HandlesGiven /\ EntriesRegistered
        /\ ClosersTell /\ HandlesHeld /\ HandlesApart /\ NoDeadEntries
    BY DEF IndInv
  <1>1. TypeOK'
    BY <1>0, SessionKinds DEF LinkClear, LinkBusy, TypeOK, Goto, RxPlaces, LeavingPlaces
  <1>2. StrandsPlaced'
    BY <1>0
      DEF LinkClear, LinkBusy, TypeOK, Goto, StrandsPlaced, ClosePlaces, Closers,
         Strands
  <1>3. HandlesGiven'
    BY <1>0 DEF LinkClear, LinkBusy, TypeOK, Goto, HandlesGiven, Fresh, Strands
  <1>4. EntriesRegistered'
    BY <1>0, SessionKinds
      DEF LinkClear, LinkBusy, TypeOK, Goto, EntriesRegistered, Entered, Closers,
         Strands
  <1>5. ClosersTell'
    BY <1>0, SessionKinds
      DEF LinkClear, LinkBusy, TypeOK, Goto, ClosersTell, Closers, Listed, Strands
  <1>6. HandlesHeld'
    BY <1>0 DEF LinkClear, LinkBusy, TypeOK, Goto, HandlesHeld, Held, Strands
  <1>7. HandlesApart'
    BY <1>0 DEF LinkClear, LinkBusy, HandlesApart, Held, Distinct
  <1>8. NoDeadEntries'
    BY <1>0, SessionKinds
      DEF LinkClear, LinkBusy, TypeOK, Goto, NoDeadEntries, Leaving, Strands
  <1> QED
    BY <1>1, <1>2, <1>3, <1>4, <1>5, <1>6, <1>7, <1>8 DEF IndInv

LEMMA LinkDisposeStep ==
  ASSUME IndInv, LinkDispose
  PROVE  IndInv'
  <1>0. TypeOK /\ StrandsPlaced /\ HandlesGiven /\ EntriesRegistered
        /\ ClosersTell /\ HandlesHeld /\ HandlesApart /\ NoDeadEntries
    BY DEF IndInv
  <1>1. TypeOK'
    BY <1>0, SessionKinds DEF LinkDispose, TypeOK, Goto, RxPlaces, LeavingPlaces
  <1>2. StrandsPlaced'
    BY <1>0 DEF LinkDispose, TypeOK, Goto, StrandsPlaced, ClosePlaces, Closers, Strands
  <1>3. HandlesGiven'
    BY <1>0 DEF LinkDispose, TypeOK, Goto, HandlesGiven, Fresh, Strands
  <1>4. EntriesRegistered'
    BY <1>0, SessionKinds
      DEF LinkDispose, TypeOK, Goto, EntriesRegistered, Entered, Closers, Strands
  <1>5. ClosersTell'
    BY <1>0, SessionKinds
      DEF LinkDispose, TypeOK, Goto, ClosersTell, Closers, Listed, Strands
  <1>6. HandlesHeld'
    BY <1>0 DEF LinkDispose, TypeOK, Goto, HandlesHeld, Held, Strands
  <1>7. HandlesApart'
    BY <1>0 DEF LinkDispose, HandlesApart, Held, Distinct
  <1>8. NoDeadEntries'
    BY <1>0, SessionKinds DEF LinkDispose, TypeOK, Goto, NoDeadEntries, Leaving, Strands
  <1> QED
    BY <1>1, <1>2, <1>3, <1>4, <1>5, <1>6, <1>7, <1>8 DEF IndInv

-----------------------------------------------------------------------------
LEMMA IndStep == IndInv /\ [Next]_vars => IndInv'
  <1> SUFFICES ASSUME IndInv, [Next]_vars PROVE IndInv'
    OBVIOUS
  <1>1. CASE UNCHANGED vars
    BY <1>1
      DEF vars, IndInv, TypeOK, StrandsPlaced, HandlesGiven, Fresh,
         EntriesRegistered, Entered,
       ClosersTell, Listed, HandlesHeld, Held, HandlesApart, Distinct, NoDeadEntries, Leaving
  <1>2. ASSUME NEW s \in Sessions,
               Accept(s) \/ Acknowledged(s) \/ RxError(s) \/ TxError(s) \/ UserClose(s)
        PROVE  IndInv'
    BY <1>2, AcceptStep, AcknowledgedStep, RxErrorStep, TxErrorStep, UserCloseStep
  <1>3. ASSUME NEW s \in Sessions, Rx(s) PROVE IndInv'
    BY <1>3, AcquireStep, AcquireFailsStep, AddStep, PostConnectedStep, SetupStep,
         SetupFailsStep
      DEF Rx
  <1>4. ASSUME NEW s \in Sessions, NEW t \in Strands, Leave(s, t) PROVE IndInv'
    BY <1>4, TestStep, DisposeStep, ReleaseStep, RemoveStep, AnnounceStep DEF Leave
  <1>5. CASE LinkClose \/ LinkStep
    BY <1>5, LinkCloseStep, LinkCloseNextStep, LinkClearStep, LinkDisposeStep
      DEF LinkStep
  <1> QED
    BY <1>1, <1>2, <1>3, <1>4, <1>5 DEF Next, Running

-----------------------------------------------------------------------------
(* The inductive invariant, for any number of sessions and handles and     *)
(* whatever callbacks, senders, users and the link do in any order.        *)
THEOREM Inductive == Spec => []IndInv
  BY IndInit, IndStep, PTL DEF Spec

THEOREM TypeCorrect == Spec => []TypeOK
  <1>1. IndInv => TypeOK
    BY DEF IndInv
  <1> QED
    BY <1>1, Inductive, PTL

(* An entry of the table is a live session, one that a thread is about to  *)
(* remove, or one of those that OnAccept or a late acknowledgement left    *)
(* behind: the table goes stale in no other way.                           *)
THEOREM TableSound == Spec => []NoDeadEntries
  <1>1. IndInv => NoDeadEntries
    BY DEF IndInv
  <1> QED
    BY <1>1, Inductive, PTL

(* A handle taken from the pool stays with a session that will release it, *)
(* save for the sessions that went astray.                                 *)
THEOREM HandlesReleased == Spec => []NoHandleLeak
  <1>1. IndInv => NoHandleLeak
    <2> SUFFICES ASSUME IndInv, NEW h \in pool.used
                 PROVE  \E s \in Sessions :
                          /\ handle[s] = h
                          /\ s \notin disposed \/ s \in stray \/ \E t \in Strands : at[s][t] = "tell"
      BY DEF NoHandleLeak
    <2>1. PICK s \in Sessions : handle[s] = h /\ s \notin released
      BY DEF IndInv, HandlesHeld
    <2>2. h # 0
      BY PoolSizePositive DEF IndInv, TypeOK, Pool, Handles
    <2> QED
      BY <2>1, <2>2 DEF IndInv, HandlesHeld, Held
  <1> QED
    BY <1>1, Inductive, PTL

(* Two sessions that nobody has begun to disconnect share a handle only    *)
(* after some session released its handle twice.                           *)
THEOREM SharedOnlyAfterDoubleRelease == Spec => []OnlyDoubleRelease
  <1>1. IndInv => OnlyDoubleRelease
    BY DEF IndInv, HandlesApart, OnlyDoubleRelease
  <1> QED
    BY <1>1, Inductive, PTL
=============================================================================
