--------------------------- MODULE TcpClientProofs ---------------------------
(***************************************************************************)
(* Theorems about TcpClient, for any number of sockets and any values of   *)
(* MaxRetryCount: no connection is forgotten while the link is in use, and *)
(* none that is lost remains the session of the link.                      *)
(***************************************************************************)
EXTENDS TcpClient, TLAPS

Callback(s) == <<"callback", s>>
Ending(s) == <<"ending", s>>

(* What a list of operations has in it, and what thread t has left to do.  *)
In(q, name, s) == \E i \in DOMAIN q : q[i] = Op(name, s)
Has(t, name, s) == In(todo[t], name, s)

(* The callback of s has connected s and has yet to make it the session.   *)
Opening(s) == Has(Callback(s), "install", s) \/ Has(Callback(s), "set", s)

(* A socket that is being connected has no other business.                 *)
Fresh(s) ==
  /\ s \notin open /\ s # session
  /\ Idle(Callback(s)) /\ Idle(Ending(s))
  /\ \A t \in Threads, n \in {"disconnected", "close", "install", "set", "connected"} :
       ~Has(t, n, s)
PendingFresh == \A s \in pending : Fresh(s)

(* One that is about to become the session is open, and nobody closes it.  *)
OpenedFresh ==
  \A s \in Sockets : Opening(s) =>
    /\ s \in open /\ s # session /\ s \notin receiving /\ Idle(Ending(s))
    /\ \A t \in Threads : ~Has(t, "close", s) /\ ~Has(t, "disconnected", s)

(* Each kind of operation belongs to a thread.                             *)
OwnOps ==
  \A t \in Threads, s \in Sockets \cup {NoSocket} :
    /\ \A n \in {"install", "set", "connected"} : Has(t, n, s) => t = Callback(s)
    /\ \A n \in {"disconnect", "dispose"} : Has(t, n, s) => t = User

(* A session is installed once, and only then connected.                   *)
Making(s) == {Op("install", s), Op("set", s)}
MadeOnce(q, s) ==
  \A i, j \in DOMAIN q :
    q[i] \in Making(s) =>
      /\ q[j] \in Making(s) => i = j
      /\ q[j] = Op("connected", s) => i < j
MadeFirst == \A s \in Sockets : MadeOnce(todo[Callback(s)], s)

ReceivingOpen == receiving \subseteq open

(* Who holds the lock is about to set the session, and the old one is gone *)
(* unless it is told first.                                                *)
Locked ==
  /\ \A s \in Sockets : Has(Callback(s), "set", s) => lock = Callback(s)
  /\ lock # NoSocket =>
       /\ ~disposed /\ lock \in Callbacks
       /\ session # NoSocket => At(lock, "disconnected") /\ Subject(lock) = session

(* A session is told of its end and then closed; by the peer, the other    *)
(* way round.                                                              *)
ClosedNext(q) ==
  \A i \in DOMAIN q : q[i].op = "disconnected" =>
    i + 1 \in DOMAIN q /\ q[i + 1] = Op("close", q[i].socket)
ToldNext(q, s) ==
  \A i \in DOMAIN q :
    /\ q[i].op = "close" =>
         /\ q[i] = Op("close", s)
         /\ i + 1 \in DOMAIN q /\ q[i + 1] = Op("disconnected", s)
    /\ q[i].op = "disconnected" => q[i] = Op("disconnected", s)
Paired ==
  /\ \A t \in Threads \ Endings : ClosedNext(todo[t])
  /\ \A s \in Sockets : ToldNext(todo[Ending(s)], s)

(* What another thread than its own closes is not the session any more.    *)
ClosedOld ==
  \A t \in Threads, s \in Sockets :
    Has(t, "close", s) /\ t # Ending(s) => session # s \/ lock = t

EndedClosed ==
  \A s \in Sockets : ~Idle(Ending(s)) => s \notin open \/ Has(Ending(s), "close", s)

DisposedClosing ==
  disposed \/ (\E t \in Threads : Has(t, "dispose", NoSocket)) => closing

Held(s) == Opening(s) \/ \E t \in Threads : Has(t, "close", s)
OrphansHeld == ~closing => \A s \in open : s = session \/ Held(s)

SessionLives ==
  ~disposed /\ session # NoSocket =>
    session \in open \/ Has(Ending(session), "disconnected", session)

IndInv ==
  /\ TypeOK /\ PendingFresh /\ OpenedFresh /\ OwnOps /\ MadeFirst /\ ReceivingOpen
  /\ Locked /\ Paired /\ ClosedOld /\ EndedClosed /\ DisposedClosing
  /\ OrphansHeld /\ SessionLives

-----------------------------------------------------------------------------
(* Threads and operations.                                                 *)
LEMMA ThreadNames ==
  /\ User \in Threads /\ User \notin Callbacks \cup Endings
  /\ \A s \in Sockets : Callback(s) \in Callbacks /\ Ending(s) \in Endings
  /\ \A t \in Callbacks : t \in Threads \ Endings /\ \E s \in Sockets : t = Callback(s)
  /\ \A t \in Endings : t \in Threads /\ \E s \in Sockets : t = Ending(s)
  /\ \A s, r : Callback(s) = Callback(r) <=> s = r
  /\ \A s, r : Ending(s) = Ending(r) <=> s = r
  BY DEF User, Callbacks, Endings, Threads, Callback, Ending

LEMMA OpNames ==
  /\ \A m, n, r, s : Op(m, r) = Op(n, s) <=> m = n /\ r = s
  /\ \A n, s : Op(n, s).op = n /\ Op(n, s).socket = s
  /\ \A n, s : Op(n, s) \in Ops <=>
       \/ /\ n \in {"disconnected", "close", "assign", "install", "set", "connected"}
          /\ s \in Sockets
       \/ /\ n \in {"disconnect", "dispose", "reconnect", "begin", "fail", "forget", "finish",
                   "refused"}
          /\ s = NoSocket
  /\ \A o \in Ops : o = Op(o.op, o.socket)
  BY DEF Op, Ops

(* The list after ops were put before what follows the head of q.          *)
LEMMA Replaced ==
  ASSUME NEW q \in Seq(Ops), q # <<>>, NEW ops \in Seq(Ops)
  PROVE  LET u == ops \o Tail(q)
         IN  /\ u \in Seq(Ops) /\ Len(ops) \in Nat /\ Len(q) \in Nat \ {0}
             /\ DOMAIN u = 1 .. Len(ops) + Len(q) - 1
             /\ DOMAIN q = 1 .. Len(q) /\ DOMAIN ops = 1 .. Len(ops)
             /\ \A i \in DOMAIN u : u[i] = IF i =< Len(ops) THEN ops[i] ELSE q[i - Len(ops) + 1]
  <1>1. /\ Tail(q) \in Seq(Ops) /\ Len(q) \in Nat \ {0} /\ Len(Tail(q)) = Len(q) - 1
        /\ \A i \in 1 .. Len(q) - 1 : Tail(q)[i] = q[i + 1]
    OBVIOUS
  <1>2. /\ ops \o Tail(q) \in Seq(Ops)
        /\ Len(ops) \in Nat
        /\ Len(ops \o Tail(q)) = Len(ops) + Len(Tail(q))
        /\ \A i \in 1 .. Len(ops) + Len(Tail(q)) :
             (ops \o Tail(q))[i] = IF i =< Len(ops) THEN ops[i] ELSE Tail(q)[i - Len(ops)]
    BY <1>1
  <1>3. \A i \in 1 .. Len(ops) + Len(q) - 1 : i > Len(ops) =>
          i - Len(ops) \in 1 .. Len(q) - 1 /\ i - Len(ops) + 1 = i - Len(ops) + 1
    BY <1>1, <1>2
  <1>4. DOMAIN (ops \o Tail(q)) = 1 .. Len(ops) + Len(q) - 1
    BY <1>1, <1>2
  <1>5. DOMAIN q = 1 .. Len(q) /\ DOMAIN ops = 1 .. Len(ops)
    OBVIOUS
  <1> QED
    BY <1>1, <1>2, <1>3, <1>4, <1>5

LEMMA ReplacedHas ==
  ASSUME NEW q \in Seq(Ops), q # <<>>, NEW ops \in Seq(Ops), NEW n, NEW s
  PROVE  LET u == ops \o Tail(q)
         IN  /\ In(u, n, s) => In(q, n, s) \/ In(ops, n, s)
             /\ In(q, n, s) => In(u, n, s) \/ Head(q) = Op(n, s)
             /\ In(ops, n, s) => In(u, n, s)
  <1> DEFINE u == ops \o Tail(q)
  <1>1. /\ Len(ops) \in Nat /\ Len(q) \in Nat \ {0} /\ Head(q) = q[1]
        /\ DOMAIN u = 1 .. Len(ops) + Len(q) - 1
        /\ DOMAIN q = 1 .. Len(q) /\ DOMAIN ops = 1 .. Len(ops)
        /\ \A i \in DOMAIN u : u[i] = IF i =< Len(ops) THEN ops[i] ELSE q[i - Len(ops) + 1]
    BY Replaced
  <1> HIDE DEF u
  <1>2. ASSUME In(u, n, s) PROVE In(q, n, s) \/ In(ops, n, s)
    <2>1. PICK i \in DOMAIN u : u[i] = Op(n, s)
      BY <1>2 DEF In
    <2>2. CASE i =< Len(ops)
      BY <1>1, <2>1, <2>2 DEF In
    <2>3. CASE i > Len(ops)
      <3>1. i - Len(ops) + 1 \in DOMAIN q /\ q[i - Len(ops) + 1] = Op(n, s)
        BY <1>1, <2>1, <2>3
      <3> QED
        BY <3>1 DEF In
    <2> QED
      BY <1>1, <2>1, <2>2, <2>3
  <1>3. ASSUME In(q, n, s), Head(q) # Op(n, s) PROVE In(u, n, s)
    <2>1. PICK i \in DOMAIN q : q[i] = Op(n, s)
      BY <1>3 DEF In
    <2>2. i # 1 /\ i + Len(ops) - 1 \in DOMAIN u
      BY <1>1, <1>3, <2>1
    <2>3. ~(i + Len(ops) - 1 =< Len(ops)) /\ (i + Len(ops) - 1) - Len(ops) + 1 = i
      BY <1>1, <2>1, <2>2
    <2>4. u[i + Len(ops) - 1] = q[i]
      BY <1>1, <2>2, <2>3
    <2> QED
      BY <2>1, <2>2, <2>4 DEF In
  <1>4. ASSUME In(ops, n, s) PROVE In(u, n, s)
    <2>1. PICK i \in DOMAIN ops : ops[i] = Op(n, s)
      BY <1>4 DEF In
    <2>2. i \in DOMAIN u /\ u[i] = ops[i]
      BY <1>1, <2>1
    <2> QED
      BY <2>1, <2>2 DEF In
  <1> QED
    BY <1>2, <1>3, <1>4 DEF u

LEMMA ReplacedClosedNext ==
  ASSUME NEW q \in Seq(Ops), q # <<>>, NEW ops \in Seq(Ops), ClosedNext(q), ClosedNext(ops)
  PROVE  ClosedNext(ops \o Tail(q))
  <1> DEFINE u == ops \o Tail(q)
  <1>1. /\ Len(ops) \in Nat /\ Len(q) \in Nat \ {0}
        /\ DOMAIN u = 1 .. Len(ops) + Len(q) - 1
        /\ DOMAIN q = 1 .. Len(q) /\ DOMAIN ops = 1 .. Len(ops)
        /\ \A i \in DOMAIN u : u[i] = IF i =< Len(ops) THEN ops[i] ELSE q[i - Len(ops) + 1]
    BY Replaced
  <1> HIDE DEF u
  <1>2. SUFFICES ASSUME NEW i \in DOMAIN u, u[i].op = "disconnected"
                 PROVE  i + 1 \in DOMAIN u /\ u[i + 1] = Op("close", u[i].socket)
    BY DEF ClosedNext, u
  <1>3. CASE i =< Len(ops)
    <2>1. i \in DOMAIN ops /\ u[i] = ops[i]
      BY <1>1, <1>3
    <2>2. i + 1 \in DOMAIN ops /\ ops[i + 1] = Op("close", u[i].socket)
      BY <1>2, <2>1 DEF ClosedNext
    <2> QED
      BY <1>1, <2>2
  <1>4. CASE i > Len(ops)
    <2> DEFINE k == i - Len(ops) + 1
    <2>1. k \in DOMAIN q /\ u[i] = q[k]
      BY <1>1, <1>4
    <2>2. k + 1 \in DOMAIN q /\ q[k + 1] = Op("close", u[i].socket)
      BY <1>2, <2>1 DEF ClosedNext
    <2>3. i + 1 \in DOMAIN u /\ ~(i + 1 =< Len(ops)) /\ (i + 1) - Len(ops) + 1 = k + 1
      BY <1>1, <1>4, <2>2
    <2>4. u[i + 1] = q[k + 1]
      BY <1>1, <2>3
    <2> QED
      BY <2>2, <2>3, <2>4
  <1> QED
    BY <1>1, <1>3, <1>4

LEMMA ReplacedToldNext ==
  ASSUME NEW q \in Seq(Ops), q # <<>>, NEW ops \in Seq(Ops), NEW s, ToldNext(q, s), ToldNext(ops, s)
  PROVE  ToldNext(ops \o Tail(q), s)
  <1> DEFINE u == ops \o Tail(q)
  <1>1. /\ Len(ops) \in Nat /\ Len(q) \in Nat \ {0}
        /\ DOMAIN u = 1 .. Len(ops) + Len(q) - 1
        /\ DOMAIN q = 1 .. Len(q) /\ DOMAIN ops = 1 .. Len(ops)
        /\ \A i \in DOMAIN u : u[i] = IF i =< Len(ops) THEN ops[i] ELSE q[i - Len(ops) + 1]
    BY Replaced
  <1> HIDE DEF u
  <1>2. SUFFICES ASSUME NEW i \in DOMAIN u
                 PROVE  /\ u[i].op = "close" =>
                             /\ u[i] = Op("close", s)
                             /\ i + 1 \in DOMAIN u /\ u[i + 1] = Op("disconnected", s)
                        /\ u[i].op = "disconnected" => u[i] = Op("disconnected", s)
    BY DEF ToldNext, u
  <1>3. CASE i =< Len(ops)
    <2>1. i \in DOMAIN ops /\ u[i] = ops[i]
      BY <1>1, <1>3
    <2>2. ASSUME u[i].op = "close"
          PROVE  i + 1 \in DOMAIN u /\ u[i + 1] = Op("disconnected", s)
      <3>1. i + 1 \in DOMAIN ops /\ ops[i + 1] = Op("disconnected", s)
        BY <2>1, <2>2 DEF ToldNext
      <3> QED
        BY <1>1, <3>1
    <2> QED
      BY <2>1, <2>2 DEF ToldNext
  <1>4. CASE i > Len(ops)
    <2> DEFINE k == i - Len(ops) + 1
    <2>1. k \in DOMAIN q /\ u[i] = q[k]
      BY <1>1, <1>4
    <2>2. ASSUME u[i].op = "close"
          PROVE  i + 1 \in DOMAIN u /\ u[i + 1] = Op("disconnected", s)
      <3>1. k + 1 \in DOMAIN q /\ q[k + 1] = Op("disconnected", s)
        BY <2>1, <2>2 DEF ToldNext
      <3>2. i + 1 \in DOMAIN u /\ ~(i + 1 =< Len(ops)) /\ (i + 1) - Len(ops) + 1 = k + 1
        BY <1>1, <1>4, <3>1
      <3>3. u[i + 1] = q[k + 1]
        BY <1>1, <3>2
      <3> QED
        BY <3>1, <3>2, <3>3
    <2> QED
      BY <2>1, <2>2 DEF ToldNext
  <1> QED
    BY <1>1, <1>3, <1>4

(* Either nothing is put before, or the head was to make the session.      *)
LEMMA ReplacedMade ==
  ASSUME NEW q \in Seq(Ops), q # <<>>, NEW ops \in Seq(Ops), NEW s, MadeOnce(q, s),
         \/ \A i \in DOMAIN ops : ops[i] \notin Making(s) \cup {Op("connected", s)}
         \/ Head(q) \in Making(s) /\ MadeOnce(ops, s)
  PROVE  MadeOnce(ops \o Tail(q), s)
  <1> DEFINE u == ops \o Tail(q)
  <1>1. /\ Len(ops) \in Nat /\ Len(q) \in Nat \ {0} /\ Head(q) = q[1]
        /\ DOMAIN u = 1 .. Len(ops) + Len(q) - 1
        /\ DOMAIN q = 1 .. Len(q) /\ DOMAIN ops = 1 .. Len(ops)
        /\ \A i \in DOMAIN u : u[i] = IF i =< Len(ops) THEN ops[i] ELSE q[i - Len(ops) + 1]
    BY Replaced
  <1> HIDE DEF u
  <1>2. SUFFICES ASSUME NEW i \in DOMAIN u, NEW j \in DOMAIN u, u[i] \in Making(s)
                 PROVE  /\ u[j] \in Making(s) => i = j
                        /\ u[j] = Op("connected", s) => i < j
    BY DEF MadeOnce, u
  <1>3. /\ i > Len(ops) => i - Len(ops) + 1 \in DOMAIN q /\ u[i] = q[i - Len(ops) + 1] /\ i - Len(ops) + 1 # 1
        /\ j > Len(ops) => j - Len(ops) + 1 \in DOMAIN q /\ u[j] = q[j - Len(ops) + 1] /\ j - Len(ops) + 1 # 1
        /\ i =< Len(ops) => i \in DOMAIN ops /\ u[i] = ops[i]
        /\ j =< Len(ops) => j \in DOMAIN ops /\ u[j] = ops[j]
    BY <1>1
  <1>4. CASE \A k \in DOMAIN ops : ops[k] \notin Making(s) \cup {Op("connected", s)}
    <2>1. i > Len(ops)
      BY <1>1, <1>2, <1>3, <1>4
    <2>2. CASE j > Len(ops)
      <3>1. /\ q[j - Len(ops) + 1] \in Making(s) => i - Len(ops) + 1 = j - Len(ops) + 1
            /\ q[j - Len(ops) + 1] = Op("connected", s) => i - Len(ops) + 1 < j - Len(ops) + 1
        BY <1>2, <1>3, <2>1, <2>2 DEF MadeOnce
      <3> QED
        BY <1>1, <1>3, <2>2, <3>1
    <2>3. CASE j =< Len(ops)
      BY <1>3, <1>4, <2>3
    <2> QED
      BY <1>1, <2>2, <2>3
  <1>5. CASE Head(q) \in Making(s) /\ MadeOnce(ops, s)
    <2>1. \A k \in DOMAIN q : q[k] \in Making(s) => k = 1
      BY <1>1, <1>5 DEF MadeOnce
    <2>2. i =< Len(ops)
      BY <1>1, <1>2, <1>3, <2>1
    <2>3. CASE j =< Len(ops)
      BY <1>2, <1>3, <1>5, <2>2, <2>3 DEF MadeOnce
    <2>4. CASE j > Len(ops)
      BY <1>1, <1>3, <2>1, <2>2, <2>4
    <2> QED
      BY <1>1, <2>3, <2>4
  <1> QED
    BY <1>4, <1>5

(* Once the session is made nothing is left to make it again.              *)
LEMMA ReplacedMaking ==
  ASSUME NEW q \in Seq(Ops), q # <<>>, NEW ops \in Seq(Ops), NEW s, MadeOnce(q, s),
         Head(q) \in Making(s), \A i \in DOMAIN ops : ops[i] \notin Making(s)
  PROVE  ~In(ops \o Tail(q), "install", s) /\ ~In(ops \o Tail(q), "set", s)
  <1> DEFINE u == ops \o Tail(q)
  <1>1. /\ Len(ops) \in Nat /\ Len(q) \in Nat \ {0} /\ Head(q) = q[1]
        /\ DOMAIN u = 1 .. Len(ops) + Len(q) - 1
        /\ DOMAIN q = 1 .. Len(q) /\ DOMAIN ops = 1 .. Len(ops)
        /\ \A i \in DOMAIN u : u[i] = IF i =< Len(ops) THEN ops[i] ELSE q[i - Len(ops) + 1]
    BY Replaced
  <1> HIDE DEF u
  <1>2. ASSUME NEW i \in DOMAIN u PROVE u[i] \notin Making(s)
    <2>1. \A k \in DOMAIN q : q[k] \in Making(s) => k = 1
      BY <1>1 DEF MadeOnce
    <2>2. CASE i =< Len(ops)
      BY <1>1, <1>2, <2>2
    <2>3. CASE i > Len(ops)
      <3>1. i - Len(ops) + 1 \in DOMAIN q /\ i - Len(ops) + 1 # 1 /\ u[i] = q[i - Len(ops) + 1]
        BY <1>1, <1>2, <2>3
      <3> QED
        BY <2>1, <3>1
    <2> QED
      BY <1>1, <1>2, <2>2, <2>3
  <1> QED
    BY <1>2 DEF In, Making, u

LEMMA ConnectedLast ==
  ASSUME NEW q \in Seq(Ops), q # <<>>, NEW s, MadeOnce(q, s), Head(q) = Op("connected", s)
  PROVE  ~In(q, "install", s) /\ ~In(q, "set", s)
  <1>1. 1 \in DOMAIN q /\ q[1] = Op("connected", s) /\ \A i \in DOMAIN q : ~(i < 1)
    OBVIOUS
  <1> QED
    BY <1>1 DEF In, Making, MadeOnce

-----------------------------------------------------------------------------
(* Short lists.                                                            *)
LEMMA Lists ==
  /\ \A n, s : ~In(<<>>, n, s)
  /\ \A a, n, s : In(<<a>>, n, s) <=> a = Op(n, s)
  /\ \A a, b, n, s : In(<<a, b>>, n, s) <=> a = Op(n, s) \/ b = Op(n, s)
  /\ <<>> \in Seq(Ops)
  /\ \A a \in Ops : <<a>> \in Seq(Ops)
  /\ \A a \in Ops, b \in Ops : <<a, b>> \in Seq(Ops)
  BY DEF In

LEMMA TwoInARow == ASSUME NEW a, NEW b PROVE <<a>> \o <<b>> = <<a, b>>
  <1> DEFINE u == <<a>> \o <<b>>
             v == <<a, b>>
  <1>1. u \in Seq({a, b}) /\ v \in Seq({a, b}) /\ Len(u) = 2 /\ Len(v) = 2
    OBVIOUS
  <1>2. u[1] = a /\ u[2] = b /\ v[1] = a /\ v[2] = b
    OBVIOUS
  <1>3. DOMAIN u = 1 .. 2 /\ DOMAIN v = 1 .. 2
    BY <1>1
  <1>4. u = [i \in 1 .. 2 |-> u[i]] /\ v = [i \in 1 .. 2 |-> v[i]]
    BY <1>1, <1>3
  <1> HIDE DEF u, v
  <1>5. \A i \in 1 .. 2 : u[i] = v[i]
    BY <1>2
  <1> QED
    BY <1>4, <1>5 DEF u, v

(* Nothing in it is about the making or the end of a session.              *)
Plain(ops) ==
  \A i \in DOMAIN ops :
    ops[i].op \notin {"install", "set", "connected", "disconnected", "close"}

LEMMA PlainLists ==
  ASSUME NEW n \in {"dispose", "disconnect", "reconnect", "begin", "fail", "forget", "finish",
                   "refused", "assign"}, NEW s
  PROVE  Plain(<<>>) /\ Plain(<<Op(n, s)>>)
  BY OpNames DEF Plain

LEMMA PlainLists2 ==
  ASSUME NEW n \in {"dispose", "disconnect", "reconnect", "begin", "fail", "forget", "finish",
                   "refused", "assign"}, NEW s,
         NEW m \in {"dispose", "disconnect", "reconnect", "begin", "fail", "forget", "finish",
                   "refused", "assign"}, NEW r
  PROVE  Plain(<<Op(n, s), Op(m, r)>>)
  BY OpNames DEF Plain

LEMMA PlainHas ==
  ASSUME NEW ops, Plain(ops),
         NEW n \in {"install", "set", "connected", "disconnected", "close"}, NEW s
  PROVE  ~In(ops, n, s) /\ \A i \in DOMAIN ops : ops[i] # Op(n, s)
  BY OpNames DEF Plain, In

-----------------------------------------------------------------------------
(* What a step does to the lists.                                          *)
Moved(t, ops) ==
  /\ todo' \in [Threads -> Seq(Ops)]
  /\ \A u \in Threads \ {t} : todo'[u] = todo[u]
  /\ \A u \in Threads \ {t} : \A n, s : Has(u, n, s)' <=> Has(u, n, s)
  /\ \A n, s : Has(t, n, s)' => Has(t, n, s) \/ In(ops, n, s)
  /\ \A n, s : In(ops, n, s) => Has(t, n, s)'
  /\ \A n, s : Has(t, n, s) => Has(t, n, s)' \/ (At(t, n) /\ Subject(t) = s)

Orderly(t, ops) ==
  /\ t \notin Endings => ClosedNext(ops)
  /\ \A s \in Sockets : t = Ending(s) => ToldNext(ops, s)
  /\ \A s \in Sockets : t = Callback(s) =>
       \/ \A i \in DOMAIN ops : ops[i] \notin Making(s) \cup {Op("connected", s)}
       \/ MadeOnce(ops, s) /\ (Idle(t) \/ Head(todo[t]) \in Making(s))

LEMMA ThenMoved ==
  ASSUME TypeOK, NEW t \in Threads, ~Idle(t), NEW ops \in Seq(Ops), Then(t, ops)
  PROVE  /\ Moved(t, ops)
         /\ todo'[t] = ops \o Tail(todo[t])
         /\ todo[t] \in Seq(Ops) /\ todo[t] # <<>> /\ Head(todo[t]) \in Ops
  <1>1. /\ todo \in [Threads -> Seq(Ops)] /\ todo[t] \in Seq(Ops) /\ todo[t] # <<>>
        /\ Head(todo[t]) \in Ops
    BY DEF TypeOK, Idle
  <1>2. ops \o Tail(todo[t]) \in Seq(Ops)
    BY <1>1, Replaced
  <1>3. /\ todo' \in [Threads -> Seq(Ops)]
        /\ todo'[t] = ops \o Tail(todo[t])
        /\ \A u \in Threads \ {t} : todo'[u] = todo[u]
    BY <1>1, <1>2 DEF Then
  <1>4. \A u \in Threads \ {t} : \A n, s : Has(u, n, s)' <=> Has(u, n, s)
    BY <1>3 DEF Has
  <1>5. ASSUME NEW n, NEW s
        PROVE  /\ Has(t, n, s)' => Has(t, n, s) \/ In(ops, n, s)
               /\ In(ops, n, s) => Has(t, n, s)'
               /\ Has(t, n, s) => Has(t, n, s)' \/ (At(t, n) /\ Subject(t) = s)
    <2>1. Head(todo[t]) = Op(n, s) => At(t, n) /\ Subject(t) = s
      BY OpNames DEF At, Subject
    <2>2. /\ In(todo'[t], n, s) => In(todo[t], n, s) \/ In(ops, n, s)
          /\ In(todo[t], n, s) => In(todo'[t], n, s) \/ Head(todo[t]) = Op(n, s)
          /\ In(ops, n, s) => In(todo'[t], n, s)
      BY <1>1, <1>3, ReplacedHas
    <2> QED
      BY <2>1, <2>2 DEF Has
  <1> QED
    BY <1>1, <1>3, <1>4, <1>5 DEF Moved

LEMMA StartMoved ==
  ASSUME TypeOK, NEW t \in Threads, Idle(t), NEW ops \in Seq(Ops), Start(t, ops)
  PROVE  Moved(t, ops) /\ todo'[t] = ops /\ \A n, s : ~Has(t, n, s)
  <1>1. /\ todo \in [Threads -> Seq(Ops)] /\ todo[t] = <<>>
    BY DEF TypeOK, Idle
  <1>2. /\ todo' \in [Threads -> Seq(Ops)]
        /\ todo'[t] = ops
        /\ \A u \in Threads \ {t} : todo'[u] = todo[u]
    BY <1>1 DEF Start
  <1>3. \A u \in Threads \ {t} : \A n, s : Has(u, n, s)' <=> Has(u, n, s)
    BY <1>2 DEF Has
  <1>4. \A n, s : ~Has(t, n, s) /\ (Has(t, n, s)' <=> In(ops, n, s))
    BY <1>1, <1>2, Lists DEF Has
  <1> QED
    BY <1>2, <1>3, <1>4 DEF Moved

LEMMA ThenOrderly ==
  ASSUME TypeOK, Paired, MadeFirst, NEW t \in Threads, ~Idle(t),
         NEW ops \in Seq(Ops), Then(t, ops), Orderly(t, ops)
  PROVE  Paired' /\ MadeFirst'
  <1>1. /\ \A u \in Threads \ {t} : todo'[u] = todo[u]
        /\ todo'[t] = ops \o Tail(todo[t])
        /\ todo[t] \in Seq(Ops) /\ todo[t] # <<>>
    BY ThenMoved DEF Moved
  <1>2. ASSUME NEW u \in Threads \ Endings PROVE ClosedNext(todo'[u])
    <2>1. CASE u # t
      BY <1>1, <1>2, <2>1 DEF Paired
    <2>2. CASE u = t
      <3>1. ClosedNext(todo[t]) /\ ClosedNext(ops)
        BY <1>2, <2>2 DEF Paired, Orderly
      <3> QED
        BY <1>1, <2>2, <3>1, ReplacedClosedNext
    <2> QED
      BY <2>1, <2>2
  <1>3. ASSUME NEW s \in Sockets PROVE ToldNext(todo'[Ending(s)], s)
    <2>1. CASE Ending(s) # t
      BY <1>1, <1>3, <2>1, ThreadNames DEF Paired
    <2>2. CASE Ending(s) = t
      <3>1. ToldNext(todo[t], s) /\ ToldNext(ops, s)
        BY <1>3, <2>2 DEF Paired, Orderly
      <3> QED
        BY <1>1, <2>2, <3>1, ReplacedToldNext
    <2> QED
      BY <2>1, <2>2
  <1>4. ASSUME NEW s \in Sockets PROVE MadeOnce(todo'[Callback(s)], s)
    <2>1. CASE Callback(s) # t
      BY <1>1, <1>4, <2>1, ThreadNames DEF MadeFirst
    <2>2. CASE Callback(s) = t
      <3>1. /\ MadeOnce(todo[t], s)
            /\ \/ \A i \in DOMAIN ops : ops[i] \notin Making(s) \cup {Op("connected", s)}
               \/ Head(todo[t]) \in Making(s) /\ MadeOnce(ops, s)
        BY <1>4, <2>2 DEF MadeFirst, Orderly
      <3> QED
        BY <1>1, <2>2, <3>1, ReplacedMade
    <2> QED
      BY <2>1, <2>2
  <1> QED
    BY <1>2, <1>3, <1>4 DEF Paired, MadeFirst

LEMMA StartOrderly ==
  ASSUME TypeOK, Paired, MadeFirst, NEW t \in Threads, Idle(t),
         NEW ops \in Seq(Ops), Start(t, ops), Orderly(t, ops)
  PROVE  Paired' /\ MadeFirst'
  <1>1. todo'[t] = ops /\ \A u \in Threads \ {t} : todo'[u] = todo[u]
    BY StartMoved DEF Moved
  <1>2. ASSUME NEW u \in Threads \ Endings PROVE ClosedNext(todo'[u])
    BY <1>1, <1>2 DEF Paired, Orderly
  <1>3. ASSUME NEW s \in Sockets PROVE ToldNext(todo'[Ending(s)], s)
    BY <1>1, <1>3, ThreadNames DEF Paired, Orderly
  <1>4. ASSUME NEW s \in Sockets PROVE MadeOnce(todo'[Callback(s)], s)
    <2>1. CASE Callback(s) # t
      BY <1>1, <1>4, <2>1, ThreadNames DEF MadeFirst
    <2>2. CASE Callback(s) = t
      <3>1. \/ \A i \in DOMAIN ops : ops[i] \notin Making(s)
            \/ MadeOnce(ops, s)
        BY <1>4, <2>2 DEF Orderly
      <3> QED
        BY <1>1, <2>2, <3>1 DEF MadeOnce
    <2> QED
      BY <2>1, <2>2
  <1> QED
    BY <1>2, <1>3, <1>4 DEF Paired, MadeFirst

LEMMA PlainOrderly ==
  ASSUME NEW t \in Threads, NEW ops, Plain(ops)
  PROVE  Orderly(t, ops)
  <1>1. \A s : \A i \in DOMAIN ops : ops[i] \notin Making(s) \cup {Op("connected", s)}
    BY PlainHas DEF Making
  <1> QED
    BY <1>1 DEF Orderly, Plain, ClosedNext, ToldNext

-----------------------------------------------------------------------------
(***************************************************************************)
(* A step of thread t that makes no session: what it may put in its list   *)
(* and take from it, and what it may do to the sockets and the link.       *)
(***************************************************************************)
LightLists(t) ==
  /\ \A s \in Sockets, n \in {"install", "set", "connected"} : Has(t, n, s)' => Has(t, n, s)
  /\ \A s \in Sockets, n \in {"close", "disconnected"} :
       Has(t, n, s)' =>
         \/ Has(t, n, s)
         \/ s \notin pending' /\ ~Opening(s) /\ (t = Ending(s) \/ s # session')
  /\ \A s \in Sockets \cup {NoSocket}, n \in {"disconnect", "dispose"} :
       Has(t, n, s)' => t = User
  /\ \A s \in Sockets, n \in {"install", "set"} :
       Has(t, n, s) => Has(t, n, s)' \/ closing'
  /\ \A s \in Sockets : Has(t, "close", s) => Has(t, "close", s)' \/ s \notin open'
  /\ \A s \in Sockets :
       Has(t, "disconnected", s) => Has(t, "disconnected", s)' \/ disposed' \/ s # session'
  /\ Has(t, "dispose", NoSocket)' => closing'

LightSockets(t) ==
  /\ open' \subseteq open /\ receiving' \subseteq open'
  /\ \A s \in pending' : t \notin {Callback(s), Ending(s)} /\ Fresh(s)
  /\ \A s \in open \ open' : ~Opening(s)
  /\ \A s \in receiving' : s \in receiving \/ ~Opening(s)'
  /\ \A s \in Sockets : t = Ending(s) =>
       ~Idle(t) \/ (s \notin pending' /\ ~Opening(s) /\ Has(t, "close", s)')

LightLink(t) ==
  /\ lock' = lock /\ (lock = t => session' = NoSocket)
  /\ session' \in {session, NoSocket}
  /\ \A s \in Sockets :
       /\ s = session /\ s \in open' => s = session' \/ Held(s)'
       /\ s = session' /\ s \in open \ open' => Has(Ending(s), "disconnected", s)'
  /\ closing => closing'
  /\ disposed => disposed'
  /\ disposed' => disposed \/ (lock = NoSocket /\ closing')

Light(t) == LightLists(t) /\ LightSockets(t) /\ LightLink(t)

LEMMA LightStep ==
  ASSUME IndInv, NEW t \in Threads, NEW ops, Moved(t, ops),
         TypeOK', Paired', MadeFirst', Light(t)
  PROVE  IndInv'
  <1> USE DEF Moved
  <1> USE ThreadNames
  <1>a. /\ \A u \in Threads \ {t} : todo'[u] = todo[u]
        /\ \A u \in Threads \ {t} : \A n, s : Has(u, n, s)' <=> Has(u, n, s)
    OBVIOUS
  <1>b. /\ TypeOK /\ PendingFresh /\ OpenedFresh /\ OwnOps /\ ReceivingOpen
        /\ Locked /\ ClosedOld /\ EndedClosed /\ DisposedClosing /\ OrphansHeld /\ SessionLives
        /\ NoSocket \notin Sockets
    BY NoSocketIsNone DEF IndInv
  <1>c. \A s \in Sockets : Callback(s) \in Threads /\ Ending(s) \in Threads
    BY DEF Threads
  <1>d. \A s \in Sockets : Opening(s)' => Opening(s)
    BY <1>a, <1>c DEF Opening, Light, LightLists
  <1>e. pending' \subseteq Sockets /\ open \subseteq Sockets
    BY <1>b DEF TypeOK
  <1>1. PendingFresh'
    <2> SUFFICES ASSUME NEW s \in pending' PROVE Fresh(s)'
      BY DEF PendingFresh
    <2>1. s \in Sockets /\ Fresh(s) /\ t \notin {Callback(s), Ending(s)}
      BY <1>e DEF Light, LightSockets
    <2>2. s \notin open' /\ s # session'
      BY <1>b, <2>1 DEF Light, LightSockets, LightLink, Fresh
    <2>3. Idle(Callback(s))' /\ Idle(Ending(s))'
      BY <1>a, <1>c, <2>1 DEF Fresh, Idle
    <2>4. ASSUME NEW u \in Threads,
                 NEW n \in {"disconnected", "close", "install", "set", "connected"}
          PROVE  ~Has(u, n, s)'
      <3>1. ~Has(u, n, s)
        BY <2>1 DEF Fresh
      <3>2. CASE u # t
        BY <1>a, <3>1, <3>2
      <3>3. CASE u = t
        BY <2>1, <3>1, <3>3 DEF Light, LightLists
      <3> QED
        BY <3>2, <3>3
    <2> QED
      BY <2>2, <2>3, <2>4 DEF Fresh
  <1>2. OpenedFresh'
    <2> SUFFICES ASSUME NEW s \in Sockets, Opening(s)'
                 PROVE  /\ s \in open' /\ s # session' /\ s \notin receiving' /\ Idle(Ending(s))'
                        /\ \A u \in Threads : ~Has(u, "close", s)' /\ ~Has(u, "disconnected", s)'
      BY DEF OpenedFresh
    <2>1. /\ Opening(s)
          /\ s \in open /\ s # session /\ s \notin receiving /\ Idle(Ending(s))
          /\ \A u \in Threads : ~Has(u, "close", s) /\ ~Has(u, "disconnected", s)
      BY <1>b, <1>d DEF OpenedFresh
    <2>2. s \in open' /\ s # session' /\ s \notin receiving'
      BY <1>b, <2>1 DEF Light, LightSockets, LightLink
    <2>3. t # Ending(s)
      BY <2>1 DEF Light, LightSockets
    <2>4. Idle(Ending(s))'
      BY <1>a, <1>c, <2>1, <2>3 DEF Idle
    <2>5. ASSUME NEW u \in Threads PROVE ~Has(u, "close", s)' /\ ~Has(u, "disconnected", s)'
      <3>2. CASE u # t
        BY <1>a, <2>1, <3>2
      <3>3. CASE u = t
        BY <2>1, <3>3 DEF Light, LightLists
      <3> QED
        BY <3>2, <3>3
    <2> QED
      BY <2>2, <2>4, <2>5
  <1>3. OwnOps'
    <2> SUFFICES ASSUME NEW u \in Threads, NEW s \in Sockets \cup {NoSocket}
                 PROVE  /\ \A n \in {"install", "set", "connected"} :
                             Has(u, n, s)' => u = Callback(s)
                        /\ \A n \in {"disconnect", "dispose"} : Has(u, n, s)' => u = User
      BY DEF OwnOps
    <2>1. CASE u # t
      BY <1>a, <1>b, <2>1 DEF OwnOps
    <2>2. CASE u = t
      <3>1. \A n \in {"disconnect", "dispose"} : Has(t, n, s)' => t = User
        BY DEF Light, LightLists
      <3>2. CASE s \in Sockets
        BY <1>b, <2>2, <3>1, <3>2 DEF OwnOps, Light, LightLists
      <3>3. CASE s = NoSocket
        <4>1. ASSUME NEW n \in {"install", "set", "connected"} PROVE ~Has(t, n, NoSocket)'
          <5>1. todo'[t] \in Seq(Ops) /\ Op(n, NoSocket) \notin Ops
            BY <1>b, OpNames
          <5>2. \A i \in DOMAIN todo'[t] : todo'[t][i] \in Ops
            BY <5>1
          <5> QED
            BY <5>1, <5>2 DEF Has, In
        <4> QED
          BY <2>2, <3>1, <3>3, <4>1
      <3> QED
        BY <3>2, <3>3
    <2> QED
      BY <2>1, <2>2
  <1>4. ReceivingOpen'
    BY DEF ReceivingOpen, Light, LightSockets
  <1>5. Locked'
    <2>1. ASSUME NEW s \in Sockets, Has(Callback(s), "set", s)' PROVE lock' = Callback(s)
      <3>1. Has(Callback(s), "set", s)
        BY <1>a, <1>c, <2>1 DEF Light, LightLists
      <3> QED
        BY <1>b, <2>1, <3>1 DEF Locked, Light, LightLink
    <2>2. ASSUME NEW l, l = lock', l # NoSocket
          PROVE  /\ ~disposed' /\ l \in Callbacks
                 /\ session' # NoSocket => At(l, "disconnected")' /\ Subject(l)' = session'
      <3>1. /\ lock # NoSocket /\ l = lock /\ ~disposed /\ l \in Callbacks /\ l \in Threads
            /\ session # NoSocket => At(l, "disconnected") /\ Subject(l) = session
        BY <1>b, <2>2 DEF Locked, Light, LightLink
      <3>2. ~disposed'
        BY <3>1 DEF Light, LightLink
      <3>3. ASSUME session' # NoSocket
            PROVE  At(l, "disconnected")' /\ Subject(l)' = session'
        <4>1. session' = session /\ l # t
          BY <3>1, <3>3 DEF Light, LightLink
        <4>2. todo'[l] = todo[l]
          BY <1>a, <3>1, <4>1
        <4> QED
          BY <3>1, <3>3, <4>1, <4>2 DEF At, Subject, Idle
      <3> QED
        BY <3>1, <3>2, <3>3
    <2> QED
      BY <2>1, <2>2 DEF Locked
  <1>6. ClosedOld'
    <2> SUFFICES ASSUME NEW u \in Threads, NEW s \in Sockets,
                        Has(u, "close", s)', u # Ending(s), session' = s
                 PROVE  lock' = u
      BY DEF ClosedOld
    <2>1. session = s
      BY <1>b DEF Light, LightLink
    <2>2. Has(u, "close", s)
      <3>1. CASE u = t
        BY <3>1 DEF Light, LightLists
      <3>2. CASE u # t
        BY <1>a, <3>2
      <3> QED
        BY <3>1, <3>2
    <2> QED
      BY <1>b, <2>1, <2>2 DEF ClosedOld, Light, LightLink
  <1>7. EndedClosed'
    <2> SUFFICES ASSUME NEW s \in Sockets, ~Idle(Ending(s))', s \in open'
                 PROVE  Has(Ending(s), "close", s)'
      BY DEF EndedClosed
    <2>1. s \in open
      BY DEF Light, LightSockets
    <2>2. CASE t # Ending(s)
      <3>1. ~Idle(Ending(s))
        BY <1>a, <1>c, <2>2 DEF Idle
      <3> QED
        BY <1>a, <1>b, <1>c, <2>1, <2>2, <3>1 DEF EndedClosed
    <2>3. CASE t = Ending(s) /\ ~Idle(t)
      BY <1>b, <2>1, <2>3 DEF EndedClosed, Light, LightLists
    <2>4. CASE t = Ending(s) /\ Idle(t)
      BY <2>4 DEF Light, LightSockets
    <2> QED
      BY <2>2, <2>3, <2>4
  <1>8. DisposedClosing'
    <2>1. disposed' => closing'
      BY <1>b DEF DisposedClosing, Light, LightLink
    <2>2. ASSUME NEW u \in Threads, Has(u, "dispose", NoSocket)' PROVE closing'
      <3>1. CASE u = t
        BY <2>2, <3>1 DEF Light, LightLists
      <3>2. CASE u # t
        <4>1. Has(u, "dispose", NoSocket)
          BY <1>a, <2>2, <3>2
        <4> QED
          BY <1>b, <4>1 DEF DisposedClosing, Light, LightLink
      <3> QED
        BY <3>1, <3>2
    <2> QED
      BY <2>1, <2>2 DEF DisposedClosing
  <1>9. OrphansHeld'
    <2> SUFFICES ASSUME ~closing', NEW s \in open', s # session' PROVE Held(s)'
      BY DEF OrphansHeld
    <2>1. s \in open /\ s \in Sockets /\ ~closing
      BY <1>e DEF Light, LightSockets, LightLink
    <2>2. CASE s = session
      BY <2>1, <2>2 DEF Light, LightLink
    <2>3. CASE Opening(s)
      <3>1. ASSUME NEW n \in {"install", "set"}, Has(Callback(s), n, s)
            PROVE  Has(Callback(s), n, s)'
        <4>1. CASE Callback(s) # t
          BY <1>a, <1>c, <2>1, <3>1, <4>1
        <4>2. CASE Callback(s) = t
          BY <2>1, <3>1, <4>2 DEF Light, LightLists
        <4> QED
          BY <4>1, <4>2
      <3>2. Opening(s)'
        BY <2>3, <3>1 DEF Opening
      <3> QED
        BY <3>2 DEF Held
    <2>4. ASSUME NEW u \in Threads, Has(u, "close", s) PROVE Held(s)'
      <3>1. Has(u, "close", s)'
        BY <1>a, <2>1, <2>4 DEF Light, LightLists
      <3> QED
        BY <3>1 DEF Held
    <2> QED
      BY <1>b, <2>1, <2>2, <2>3, <2>4 DEF OrphansHeld, Held
  <1>10. SessionLives'
    <2> SUFFICES ASSUME NEW s, s = session', ~disposed', s # NoSocket, s \notin open'
                 PROVE  Has(Ending(s), "disconnected", s)'
      BY DEF SessionLives
    <2>1. session = s /\ ~disposed /\ s \in Sockets
      BY <1>b DEF Light, LightLink, TypeOK
    <2>2. CASE s \in open
      BY <2>1, <2>2 DEF Light, LightLink
    <2>3. CASE Has(Ending(s), "disconnected", s)
      <3>1. CASE t # Ending(s)
        BY <1>a, <1>c, <2>1, <2>3, <3>1
      <3>2. CASE t = Ending(s)
        BY <2>1, <2>3, <3>2 DEF Light, LightLists
      <3> QED
        BY <3>1, <3>2
    <2> QED
      BY <1>b, <2>1, <2>2, <2>3 DEF SessionLives
  <1> QED
    BY <1>1, <1>2, <1>3, <1>4, <1>5, <1>6, <1>7, <1>8, <1>9, <1>10 DEF IndInv

(* Nothing is left to do by another thread than that of t.                 *)
LEMMA PlainThen ==
  ASSUME IndInv, NEW t \in Threads, ~Idle(t), NEW ops \in Seq(Ops), Plain(ops), Then(t, ops)
  PROVE  /\ Moved(t, ops) /\ Paired' /\ MadeFirst'
         /\ \A s : \A n \in {"install", "set", "connected", "disconnected", "close"} :
              Has(t, n, s)' => Has(t, n, s)
  <1>1. TypeOK /\ Paired /\ MadeFirst
    BY DEF IndInv
  <1>2. Moved(t, ops)
    BY <1>1, ThenMoved
  <1>3. Paired' /\ MadeFirst'
    BY <1>1, ThenOrderly, PlainOrderly
  <1> QED
    BY <1>2, <1>3, PlainHas DEF Moved

LEMMA PlainStart ==
  ASSUME IndInv, NEW t \in Threads, Idle(t), NEW ops \in Seq(Ops), Plain(ops), Start(t, ops)
  PROVE  /\ Moved(t, ops) /\ Paired' /\ MadeFirst'
         /\ \A s, n : ~Has(t, n, s)
         /\ \A s : \A n \in {"install", "set", "connected", "disconnected", "close"} : ~Has(t, n, s)'
  <1>1. TypeOK /\ Paired /\ MadeFirst
    BY DEF IndInv
  <1>2. Moved(t, ops) /\ \A s, n : ~Has(t, n, s)
    BY <1>1, StartMoved
  <1>3. Paired' /\ MadeFirst'
    BY <1>1, StartOrderly, PlainOrderly
  <1>4. ASSUME NEW s, NEW n \in {"install", "set", "connected", "disconnected", "close"}
        PROVE  ~Has(t, n, s)'
    <2>1. ~In(ops, n, s)
      BY PlainHas
    <2> QED
      BY <1>2, <2>1 DEF Moved
  <1> QED
    BY <1>2, <1>3, <1>4

(* A step that is neither about the making nor the end of a session.       *)
LEMMA QuietThen ==
  ASSUME IndInv, TypeOK', NEW t \in Threads, NEW ops \in Seq(Ops), Plain(ops), Then(t, ops),
         NEW name \in {"disconnect", "dispose", "reconnect", "begin", "assign", "fail",
                       "forget", "finish", "refused", "connected"}, At(t, name),
         \A s : \A n \in {"disconnect", "dispose"} : ~In(ops, n, s),
         UNCHANGED <<lock, session, open, closing>>,
         receiving' \subseteq open, \A s \in receiving' \ receiving : ~Opening(s)',
         \A s \in pending' \ pending : Fresh(s),
         disposed => disposed', disposed' => disposed \/ (lock = NoSocket /\ closing)
  PROVE  IndInv'
  <1>1. ~Idle(t)
    BY DEF At
  <1>2. /\ Moved(t, ops) /\ Paired' /\ MadeFirst'
        /\ \A s : \A n \in {"install", "set", "connected", "disconnected", "close"} :
             Has(t, n, s)' => Has(t, n, s)
    BY <1>1, PlainThen
  <1>3. LightLists(t)
    <2>1. \A s : \A n \in {"install", "set", "disconnected", "close"} : Has(t, n, s) => Has(t, n, s)'
      BY <1>2 DEF Moved, At
    <2>2. \A s \in Sockets \cup {NoSocket}, n \in {"disconnect", "dispose"} :
            Has(t, n, s)' => Has(t, n, s) /\ t = User
      BY <1>2 DEF Moved, IndInv, OwnOps
    <2>3. Has(t, "dispose", NoSocket)' => closing'
      BY <2>2 DEF IndInv, DisposedClosing
    <2> QED
      BY <1>2, <2>1, <2>2, <2>3 DEF LightLists
  <1>4. LightSockets(t)
    <2>1. \A s \in pending' : Fresh(s) /\ t \notin {Callback(s), Ending(s)}
      BY <1>1 DEF IndInv, PendingFresh, Fresh
    <2> QED
      BY <1>1, <2>1 DEF LightSockets
  <1>5. LightLink(t)
    <2>1. lock = t => session = NoSocket
      <3>1. t # NoSocket
        BY NoSocketIsNone
      <3> QED
        BY <3>1 DEF IndInv, Locked, At
    <2> QED
      BY <2>1 DEF LightLink
  <1> QED
    BY <1>2, <1>3, <1>4, <1>5, LightStep DEF Light

LEMMA QuietStart ==
  ASSUME IndInv, TypeOK', NEW t \in Threads \ Endings, NEW ops \in Seq(Ops), Plain(ops),
         Idle(t), Start(t, ops),
         \A s : \A n \in {"disconnect", "dispose"} : In(ops, n, s) => t = User,
         In(ops, "dispose", NoSocket) => closing',
         UNCHANGED <<lock, session, open, receiving, disposed>>, closing => closing',
         pending' \subseteq pending, \A s \in pending' : t # Callback(s)
  PROVE  IndInv'
  <1>2. /\ Moved(t, ops) /\ Paired' /\ MadeFirst'
        /\ \A s, n : ~Has(t, n, s)
        /\ \A s : \A n \in {"install", "set", "connected", "disconnected", "close"} : ~Has(t, n, s)'
    BY PlainStart
  <1>3. LightLists(t)
    <2>1. \A s : \A n \in {"disconnect", "dispose"} : Has(t, n, s)' => In(ops, n, s)
      BY <1>2 DEF Moved
    <2> QED
      BY <1>2, <2>1 DEF LightLists
  <1>4. LightSockets(t)
    <2>1. \A s \in Sockets : t # Ending(s)
      BY ThreadNames
    <2>2. \A s \in pending' : s \in Sockets /\ Fresh(s)
      BY DEF IndInv, PendingFresh, TypeOK
    <2>3. receiving \subseteq open
      BY DEF IndInv, ReceivingOpen
    <2> QED
      BY <2>1, <2>2, <2>3 DEF LightSockets
  <1>5. LightLink(t)
    <2>1. lock = t => session = NoSocket
      <3>1. t # NoSocket
        BY NoSocketIsNone
      <3> QED
        BY <3>1 DEF IndInv, Locked, At
    <2> QED
      BY <2>1 DEF LightLink
  <1> QED
    BY <1>2, <1>3, <1>4, <1>5, LightStep DEF Light

LEMMA QuietAnswer ==
  ASSUME IndInv, TypeOK', pending' \subseteq pending,
         UNCHANGED <<todo, lock, session, open, receiving, closing, disposed>>
  PROVE  IndInv'
  <1>1. /\ Paired' /\ MadeFirst' /\ OwnOps' /\ ReceivingOpen' /\ Locked' /\ ClosedOld'
        /\ EndedClosed' /\ DisposedClosing' /\ SessionLives'
    BY DEF IndInv, Paired, MadeFirst, OwnOps, ReceivingOpen, Locked, ClosedOld, EndedClosed,
           DisposedClosing, SessionLives, Has, Idle, At, Subject
  <1>2. PendingFresh' /\ OpenedFresh' /\ OrphansHeld'
    BY DEF IndInv, PendingFresh, Fresh, OpenedFresh, OrphansHeld, Held, Opening, Has, Idle
  <1> QED
    BY <1>1, <1>2 DEF IndInv

-----------------------------------------------------------------------------
LEMMA DoList ==
  ASSUME NEW n \in {"disconnect", "dispose", "reconnect", "begin", "fail", "forget", "finish",
                   "refused"}
  PROVE  /\ <<Do(n)>> \in Seq(Ops) /\ Plain(<<Do(n)>>)
         /\ \A m, s : In(<<Do(n)>>, m, s) <=> m = n /\ s = NoSocket
  <1>1. Do(n) = Op(n, NoSocket) /\ Op(n, NoSocket) \in Ops
    BY OpNames DEF Do
  <1>2. Plain(<<Op(n, NoSocket)>>)
    BY PlainLists
  <1>3. \A m, s : In(<<Op(n, NoSocket)>>, m, s) <=> m = n /\ s = NoSocket
    BY Lists, OpNames
  <1> QED
    BY <1>1, <1>2, <1>3, Lists

Doings ==
  {"disconnect", "dispose", "reconnect", "begin", "fail", "forget", "finish", "refused"}
LEMMA DoList2 ==
  ASSUME NEW n \in Doings, NEW k \in Doings, NEW q, q = <<Do(n), Do(k)>>
  PROVE  /\ q \in Seq(Ops) /\ Plain(q)
         /\ \A m, s : In(q, m, s) <=> m \in {n, k} /\ s = NoSocket
  <1>1. /\ Do(n) = Op(n, NoSocket) /\ Op(n, NoSocket) \in Ops
        /\ Do(k) = Op(k, NoSocket) /\ Op(k, NoSocket) \in Ops
    BY OpNames DEF Do, Doings
  <1>2. Plain(<<Op(n, NoSocket), Op(k, NoSocket)>>)
    BY PlainLists2 DEF Doings
  <1>3. \A m, s : In(<<Op(n, NoSocket), Op(k, NoSocket)>>, m, s) <=> m \in {n, k} /\ s = NoSocket
    BY Lists, OpNames
  <1> QED
    BY <1>1, <1>2, <1>3, Lists

(* The application.                                                        *)
LEMMA UserIsApart ==
  User \in Threads \ Endings /\ (TypeOK => \A s \in pending : User # Callback(s))
  BY ThreadNames DEF TypeOK

LEMMA ConnectKeeps == IndInv /\ Connect => IndInv'
  <1> SUFFICES ASSUME IndInv, Connect PROVE IndInv'
    OBVIOUS
  <1> DEFINE ops == (IF session \in open THEN <<Do("disconnect")>> ELSE <<>>) \o <<Do("begin")>>
  <1>1. ops \in {<<Do("begin")>>, <<Do("disconnect"), Do("begin")>>}
    <2>1. \A a : <<>> \o <<a>> = <<a>>
      OBVIOUS
    <2> QED
      BY <2>1, TwoInARow
  <1> DEFINE q == ops
  <1>2. Start(User, q)
    BY DEF Connect
  <1> HIDE DEF ops
  <1>3. q \in Seq(Ops) /\ Plain(q) /\ ~In(q, "dispose", NoSocket)
    <2>1. CASE q = <<Do("begin")>>
      BY <2>1, DoList
    <2>2. CASE q = <<Do("disconnect"), Do("begin")>>
      <3>1. "disconnect" \in Doings /\ "begin" \in Doings
        BY DEF Doings
      <3> HIDE DEF q
      <3>2. /\ q \in Seq(Ops) /\ Plain(q)
            /\ \A m, s : In(q, m, s) => m \in {"disconnect", "begin"}
        BY <2>2, <3>1, DoList2
      <3> QED
        BY <3>2
    <2> QED
      BY <1>1, <2>1, <2>2
  <1> HIDE DEF q
  <1>4. Idle(User) /\ TypeOK
    BY DEF Connect, IndInv
  <1>5. TypeOK'
    <2>1. todo' \in [Threads -> Seq(Ops)]
      BY <1>2, <1>3, <1>4, StartMoved, ThreadNames DEF Moved
    <2> QED
      BY <1>4, <2>1 DEF Connect, TypeOK, config, sockets
  <1>6. UNCHANGED <<lock, session, open, receiving, disposed, pending, closing>>
    BY DEF Connect, sockets
  <1> QED
    BY <1>2, <1>3, <1>4, <1>5, <1>6, QuietStart, UserIsApart

LEMMA UserDisconnectKeeps == IndInv /\ UserDisconnect => IndInv'
  <1> SUFFICES ASSUME IndInv, UserDisconnect PROVE IndInv'
    OBVIOUS
  <1> DEFINE q == <<Do("disconnect")>>
  <1>2. q \in Seq(Ops) /\ Plain(q) /\ Start(User, q)
    BY Lists, PlainLists, OpNames DEF Do, UserDisconnect
  <1>3. ~In(q, "dispose", NoSocket)
    BY Lists, OpNames DEF Do
  <1>4. Idle(User) /\ TypeOK
    BY DEF UserDisconnect, IndInv
  <1> HIDE DEF q
  <1>5. TypeOK'
    <2>1. todo' \in [Threads -> Seq(Ops)]
      BY <1>2, <1>4, StartMoved, ThreadNames DEF Moved
    <2> QED
      BY <1>4, <2>1 DEF UserDisconnect, TypeOK, config, sockets, link
  <1>6. UNCHANGED <<lock, session, open, receiving, disposed, pending, closing>>
    BY DEF UserDisconnect, sockets, link
  <1> QED
    BY <1>2, <1>3, <1>4, <1>5, <1>6, QuietStart, UserIsApart

LEMMA CloseKeeps == IndInv /\ Close => IndInv'
  <1> SUFFICES ASSUME IndInv, Close PROVE IndInv'
    OBVIOUS
  <1> DEFINE q == <<Do("disconnect"), Do("dispose")>>
  <1>2. q \in Seq(Ops) /\ Plain(q) /\ Start(User, q)
    BY Lists, PlainLists2, OpNames DEF Do, Close
  <1>4. Idle(User) /\ TypeOK
    BY DEF Close, IndInv
  <1> HIDE DEF q
  <1>5. TypeOK'
    <2>1. todo' \in [Threads -> Seq(Ops)]
      BY <1>2, <1>4, StartMoved, ThreadNames DEF Moved
    <2> QED
      BY <1>4, <2>1 DEF Close, TypeOK, config, sockets, link
  <1>6. UNCHANGED <<lock, session, open, receiving, disposed, pending>> /\ closing'
    BY DEF Close, sockets, link
  <1> QED
    BY <1>2, <1>4, <1>5, <1>6, QuietStart, UserIsApart

-----------------------------------------------------------------------------
(* Steps of a thread that are neither about the making nor the end of a    *)
(* session.                                                                *)
LEMMA DisposeKeeps == ASSUME NEW t \in Threads, IndInv, Dispose(t) PROVE IndInv'
  <1>1. <<>> \in Seq(Ops) /\ Plain(<<>>) /\ \A n, s : ~In(<<>>, n, s)
    BY Lists, PlainLists
  <1>2. Then(t, <<>>) /\ At(t, "dispose") /\ TypeOK
    BY DEF Dispose, IndInv
  <1>3. TypeOK'
    <2>1. todo' \in [Threads -> Seq(Ops)]
      BY <1>1, <1>2, ThenMoved DEF Moved, At
    <2> QED
      BY <1>2, <2>1 DEF Dispose, TypeOK, config, sockets, link
  <1>4. closing
    <2>1. Has(t, "dispose", NoSocket)
      <3>1. todo[t] \in Seq(Ops) /\ todo[t] # <<>> /\ Head(todo[t]).op = "dispose"
        BY <1>2 DEF At, Idle, TypeOK
      <3>2. todo[t][1] = Op("dispose", NoSocket) /\ 1 \in DOMAIN todo[t]
        <4>1. Head(todo[t]) \in Ops /\ Head(todo[t]) = todo[t][1] /\ 1 \in DOMAIN todo[t]
          BY <3>1
        <4> QED
          BY <3>1, <4>1, OpNames DEF Ops, Op
      <3> QED
        BY <3>2 DEF Has, In
    <2> QED
      BY <2>1 DEF IndInv, DisposedClosing
  <1>5. disposed => disposed'
    BY DEF IndInv, Locked, Dispose
  <1>6. /\ UNCHANGED <<lock, session, open, receiving, pending, closing>>
        /\ disposed' => lock = NoSocket
        /\ receiving \subseteq open
    BY DEF Dispose, sockets, link, IndInv, ReceivingOpen
  <1> QED
    BY <1>1, <1>2, <1>3, <1>4, <1>5, <1>6, QuietThen

LEMMA ReconnectKeeps == ASSUME NEW t \in Threads, IndInv, Reconnect(t) PROVE IndInv'
  <1>1. PICK q \in {<<>>, <<Do("begin")>>} : Then(t, q)
    BY DEF Reconnect
  <1>2. q \in Seq(Ops) /\ Plain(q) /\ \A s : \A n \in {"disconnect", "dispose"} : ~In(q, n, s)
    <2>1. CASE q = <<>>
      BY <2>1, Lists, PlainLists
    <2>2. CASE q = <<Do("begin")>>
      BY <2>2, DoList
    <2> QED
      BY <1>1, <2>1, <2>2
  <1>3. At(t, "reconnect") /\ TypeOK
    BY DEF Reconnect, IndInv
  <1>4. TypeOK'
    <2>1. todo' \in [Threads -> Seq(Ops)]
      BY <1>1, <1>2, <1>3, ThenMoved DEF Moved, At
    <2> QED
      BY <1>3, <2>1 DEF Reconnect, TypeOK, config, sockets, link
  <1>5. UNCHANGED <<lock, session, open, receiving, pending, closing, disposed>> /\ receiving \subseteq open
    BY DEF Reconnect, sockets, link, IndInv, ReceivingOpen
  <1> QED
    BY <1>1, <1>2, <1>3, <1>4, <1>5, QuietThen

LEMMA NewIsFresh == TypeOK /\ SocketLeft => New \in Sockets /\ Fresh(New)
  <1> SUFFICES ASSUME TypeOK, SocketLeft PROVE New \in Sockets /\ Fresh(New)
    OBVIOUS
  <1>1. New \in Sockets /\ Over(New)
    BY DEF New, SocketLeft
  <1>2. ASSUME NEW t \in Threads, NEW n PROVE ~Has(t, n, New)
    BY <1>1, OpNames DEF Over, Mentioned, Has, In
  <1> QED
    BY <1>1, <1>2 DEF Over, Fresh, Callback, Ending

LEMMA BeginKeeps == ASSUME NEW t \in Threads, IndInv, Begin(t) PROVE IndInv'
  <1> DEFINE q == <<Op("assign", New)>>
  <1>1. TypeOK /\ New \in Sockets /\ Fresh(New) /\ At(t, "begin")
    BY NewIsFresh DEF Begin, IndInv
  <1>2. /\ q \in Seq(Ops) /\ Plain(q) /\ Then(t, q)
        /\ \A s : \A n \in {"disconnect", "dispose"} : ~In(q, n, s)
    <2>1. Op("assign", New) \in Ops
      BY <1>1, OpNames
    <2> QED
      BY <2>1, Lists, PlainLists, OpNames DEF Begin
  <1> HIDE DEF q
  <1>3. TypeOK'
    <2>1. todo' \in [Threads -> Seq(Ops)]
      BY <1>1, <1>2, ThenMoved DEF Moved, At
    <2> QED
      BY <1>1, <2>1 DEF Begin, TypeOK, config, link
  <1>4. /\ UNCHANGED <<lock, session, open, receiving, closing, disposed>> /\ receiving \subseteq open
        /\ pending' \ pending \subseteq {New}
    BY DEF Begin, link, IndInv, ReceivingOpen
  <1> QED
    BY <1>1, <1>2, <1>3, <1>4, QuietThen

LEMMA SubjectOfHead ==
  ASSUME TypeOK, NEW t \in Threads, NEW n, At(t, n)
  PROVE  /\ Op(n, Subject(t)) \in Ops /\ Has(t, n, Subject(t)) /\ Head(todo[t]) = Op(n, Subject(t))
         /\ todo[t] \in Seq(Ops) /\ todo[t] # <<>> /\ 1 \in DOMAIN todo[t]
         /\ todo[t][1] = Op(n, Subject(t))
  <1>1. todo[t] \in Seq(Ops) /\ todo[t] # <<>> /\ Head(todo[t]).op = n
    BY DEF At, Idle, TypeOK
  <1>2. Head(todo[t]) \in Ops /\ Head(todo[t]) = todo[t][1] /\ 1 \in DOMAIN todo[t]
    BY <1>1
  <1>3. Head(todo[t]) = Op(n, Subject(t))
    BY <1>1, <1>2, OpNames DEF Subject
  <1> QED
    BY <1>1, <1>2, <1>3 DEF Has, In

LEMMA AssignKeeps == ASSUME NEW t \in Threads, IndInv, Assign(t) PROVE IndInv'
  <1>1. <<>> \in Seq(Ops) /\ Plain(<<>>) /\ \A n, s : ~In(<<>>, n, s)
    BY Lists, PlainLists
  <1>2. Then(t, <<>>) /\ At(t, "assign") /\ TypeOK
    BY DEF Assign, IndInv
  <1>3. Subject(t) \in Sockets
    <2>1. Op("assign", Subject(t)) \in Ops
      BY <1>2, SubjectOfHead
    <2> QED
      BY <2>1, OpNames
  <1>4. TypeOK'
    <2>1. todo' \in [Threads -> Seq(Ops)]
      BY <1>1, <1>2, ThenMoved DEF Moved, At
    <2> QED
      BY <1>2, <1>3, <2>1 DEF Assign, TypeOK, config, sockets
  <1>5. /\ UNCHANGED <<lock, session, open, receiving, pending, closing, disposed>>
        /\ receiving \subseteq open
    BY DEF Assign, sockets, IndInv, ReceivingOpen
  <1> QED
    BY <1>1, <1>2, <1>4, <1>5, QuietThen

LEMMA FailKeeps == ASSUME NEW t \in Threads, IndInv, Fail(t) PROVE IndInv'
  <1>1. <<>> \in Seq(Ops) /\ Plain(<<>>) /\ \A n, s : ~In(<<>>, n, s)
    BY Lists, PlainLists
  <1>2. Then(t, <<>>) /\ At(t, "fail") /\ TypeOK
    BY DEF Fail, IndInv
  <1>4. TypeOK'
    <2>1. todo' \in [Threads -> Seq(Ops)]
      BY <1>1, <1>2, ThenMoved DEF Moved, At
    <2> QED
      BY <1>2, <2>1 DEF Fail, TypeOK, config, sockets
  <1>5. /\ UNCHANGED <<lock, session, open, receiving, pending, closing, disposed>>
        /\ receiving \subseteq open
    BY DEF Fail, sockets, IndInv, ReceivingOpen
  <1> QED
    BY <1>1, <1>2, <1>4, <1>5, QuietThen

LEMMA ForgetKeeps == ASSUME NEW t \in Threads, IndInv, Forget(t) PROVE IndInv'
  <1>1. <<>> \in Seq(Ops) /\ Plain(<<>>) /\ \A n, s : ~In(<<>>, n, s)
    BY Lists, PlainLists
  <1>2. Then(t, <<>>) /\ At(t, "forget") /\ TypeOK
    BY DEF Forget, IndInv
  <1>4. TypeOK'
    <2>1. todo' \in [Threads -> Seq(Ops)]
      BY <1>1, <1>2, ThenMoved DEF Moved, At
    <2> QED
      BY <1>2, <2>1 DEF Forget, TypeOK, config, sockets
  <1>5. /\ UNCHANGED <<lock, session, open, receiving, pending, closing, disposed>>
        /\ receiving \subseteq open
    BY DEF Forget, sockets, IndInv, ReceivingOpen
  <1> QED
    BY <1>1, <1>2, <1>4, <1>5, QuietThen

LEMMA ConnectedKeeps == ASSUME NEW t \in Threads, IndInv, Connected(t) PROVE IndInv'
  <1>0. PICK s : s = Subject(t)
    OBVIOUS
  <1>1. <<>> \in Seq(Ops) /\ Plain(<<>>) /\ \A n, r : ~In(<<>>, n, r)
    BY Lists, PlainLists
  <1>2. Then(t, <<>>) /\ At(t, "connected") /\ TypeOK
    BY DEF Connected, IndInv
  <1>3. /\ s \in Sockets /\ Has(t, "connected", s) /\ Head(todo[t]) = Op("connected", s)
        /\ todo[t] \in Seq(Ops) /\ todo[t] # <<>>
    <2>1. Op("connected", s) \in Ops
      BY <1>0, <1>2, SubjectOfHead
    <2> QED
      BY <1>0, <1>2, <2>1, SubjectOfHead, OpNames
  <1>4. TypeOK'
    <2>1. todo' \in [Threads -> Seq(Ops)]
      BY <1>1, <1>2, ThenMoved DEF Moved, At
    <2> QED
      BY <1>0, <1>2, <1>3, <2>1 DEF Connected, TypeOK, config
  <1>5. /\ UNCHANGED <<lock, session, open, pending, closing, disposed>>
        /\ receiving' \subseteq open /\ receiving' \ receiving \subseteq {s}
    BY <1>0 DEF Connected, IndInv, ReceivingOpen
  <1>6. ~Opening(s)'
    <2>1. t = Callback(s)
      BY <1>3 DEF IndInv, OwnOps
    <2>2. ~Has(t, "install", s) /\ ~Has(t, "set", s)
      BY <1>3, <2>1, ConnectedLast DEF IndInv, MadeFirst, Has
    <2>3. \A n : Has(t, n, s)' => Has(t, n, s)
      BY <1>1, <1>2, ThenMoved DEF Moved, At
    <2> QED
      BY <2>1, <2>2, <2>3 DEF Opening
  <1> QED
    BY <1>1, <1>2, <1>4, <1>5, <1>6, QuietThen

LEMMA FinishKeeps == ASSUME NEW t \in Threads, IndInv, Finish(t) PROVE IndInv'
  <1>1. PICK q \in {<<>>, <<Do("forget")>>, <<Do("refused"), Do("forget")>>} : Then(t, q)
    BY DEF Finish
  <1>2. q \in Seq(Ops) /\ Plain(q) /\ \A s : \A n \in {"disconnect", "dispose"} : ~In(q, n, s)
    <2>1. CASE q = <<>>
      BY <2>1, Lists, PlainLists
    <2>2. CASE q = <<Do("forget")>>
      BY <2>2, DoList
    <2>3. CASE q = <<Do("refused"), Do("forget")>>
      <3>1. "refused" \in Doings /\ "forget" \in Doings
        BY DEF Doings
      <3>2. q \in Seq(Ops) /\ Plain(q) /\ \A m, s : In(q, m, s) => m \in {"refused", "forget"}
        BY <2>3, <3>1, DoList2
      <3> QED
        BY <3>2
    <2> QED
      BY <1>1, <2>1, <2>2, <2>3
  <1>3. At(t, "finish") /\ TypeOK
    BY DEF Finish, IndInv
  <1>4. TypeOK'
    <2>1. todo' \in [Threads -> Seq(Ops)]
      BY <1>1, <1>2, <1>3, ThenMoved DEF Moved, At
    <2> QED
      BY <1>3, <2>1 DEF Finish, TypeOK, config, sockets, link
  <1>5. /\ UNCHANGED <<lock, session, open, receiving, pending, closing, disposed>>
        /\ receiving \subseteq open
    BY DEF Finish, sockets, link, IndInv, ReceivingOpen
  <1> QED
    BY <1>1, <1>2, <1>3, <1>4, <1>5, QuietThen

LEMMA RefusedKeeps == ASSUME NEW t \in Threads, IndInv, Refused(t) PROVE IndInv'
  <1>1. <<>> \in Seq(Ops) /\ Plain(<<>>) /\ \A n, s : ~In(<<>>, n, s)
    BY Lists, PlainLists
  <1>2. At(t, "refused") /\ TypeOK
    BY DEF Refused, IndInv
  <1>3. /\ UNCHANGED <<lock, session, open, receiving, pending, closing, disposed>>
        /\ receiving \subseteq open
    BY DEF Refused, sockets, IndInv, ReceivingOpen
  <1>4. retryCount' \in Nat /\ (connecting' = connecting \/ connecting' = FALSE)
    <2>1. retryCount' \in Nat
      BY <1>2 DEF Refused, TypeOK
    <2>2. connecting' = connecting \/ connecting' = FALSE
      BY DEF Refused
    <2> QED
      BY <2>1, <2>2
  <1>5. CASE todo' = todo
    <2>1. TypeOK'
      BY <1>2, <1>4, <1>5 DEF Refused, TypeOK, config, sockets
    <2> QED
      BY <1>3, <1>5, <2>1, QuietAnswer
  <1>6. CASE Then(t, <<>>)
    <2>1. TypeOK'
      <3>1. todo' \in [Threads -> Seq(Ops)]
        BY <1>1, <1>2, <1>6, ThenMoved DEF Moved, At
      <3> QED
        BY <1>2, <1>4, <3>1 DEF Refused, TypeOK, config, sockets
    <2> QED
      BY <1>1, <1>2, <1>3, <1>6, <2>1, QuietThen
  <1> QED
    BY <1>5, <1>6 DEF Refused

-----------------------------------------------------------------------------
(* A connection attempt that fails, or that nobody expects any more.       *)
LEMMA OnConnectErrorKeeps == ASSUME NEW s \in Sockets, IndInv, OnConnectError(s) PROVE IndInv'
  <1> DEFINE t == Callback(s)
  <1>1. TypeOK /\ Idle(t) /\ t \in Threads \ Endings /\ s \in pending /\ pending' = pending \ {s}
    BY ThreadNames DEF OnConnectError, Answered, IndInv, Callback
  <1>2. UNCHANGED <<lock, session, open, receiving, closing, disposed>>
    BY DEF OnConnectError
  <1>3. CASE todo' = todo
    <2>1. TypeOK'
      BY <1>1, <1>3 DEF OnConnectError, TypeOK, config, Retrying
    <2> QED
      BY <1>1, <1>2, <1>3, <2>1, QuietAnswer
  <1>4. CASE \E q \in {<<Do("begin"), Do("forget")>>, <<Do("fail"), Do("forget")>>} : Start(t, q)
    <2>0. ASSUME NEW n \in {"begin", "fail"}, NEW q, q = <<Do(n), Do("forget")>>
          PROVE  /\ q \in Seq(Ops) /\ Plain(q)
                 /\ \A r : ~In(q, "disconnect", r) /\ ~In(q, "dispose", r)
      <3>1. n \in Doings /\ "forget" \in Doings
        BY DEF Doings
      <3>2. q \in Seq(Ops) /\ Plain(q) /\ \A m, r : In(q, m, r) => m \in {n, "forget"}
        BY <2>0, <3>1, DoList2
      <3> QED
        BY <3>2
    <2>1. PICK q \in {<<Do("begin"), Do("forget")>>, <<Do("fail"), Do("forget")>>} : Start(t, q)
      BY <1>4
    <2>2. /\ q \in Seq(Ops) /\ Plain(q)
          /\ \A r : \A n \in {"disconnect", "dispose"} : ~In(q, n, r)
      <3>1. CASE q = <<Do("begin"), Do("forget")>>
        BY <2>0, <3>1
      <3>2. CASE q = <<Do("fail"), Do("forget")>>
        BY <2>0, <3>2
      <3> QED
        BY <2>1, <3>1, <3>2
    <2>4. TypeOK'
      <3>1. todo' \in [Threads -> Seq(Ops)]
        BY <1>1, <2>1, <2>2, StartMoved DEF Moved
      <3> QED
        BY <1>1, <3>1 DEF OnConnectError, TypeOK, config, Retrying
    <2>5. \A r \in pending' : t # Callback(r)
      BY <1>1, ThreadNames
    <2> HIDE DEF t
    <2> QED
      BY <1>1, <1>2, <2>1, <2>2, <2>4, <2>5, QuietStart
  <1> QED
    BY <1>3, <1>4 DEF OnConnectError, Callback

-----------------------------------------------------------------------------
(* The end of a session.                                                   *)
LEMMA EndList ==
  ASSUME NEW s \in Sockets, NEW m \in {"disconnected", "close"}, NEW k \in {"disconnected", "close"}
  PROVE  /\ <<Op(m, s), Op(k, s)>> \in Seq(Ops)
         /\ \A n, r : In(<<Op(m, s), Op(k, s)>>, n, r) <=> n \in {m, k} /\ r = s
         /\ m = "disconnected" /\ k = "close" => ClosedNext(<<Op(m, s), Op(k, s)>>)
         /\ m = "close" /\ k = "disconnected" => ToldNext(<<Op(m, s), Op(k, s)>>, s)
         /\ \A r : \A i \in DOMAIN <<Op(m, s), Op(k, s)>> :
              <<Op(m, s), Op(k, s)>>[i] \notin Making(r) \cup {Op("connected", r)}
  <1> DEFINE q == <<Op(m, s), Op(k, s)>>
  <1>1. Op(m, s) \in Ops /\ Op(k, s) \in Ops
    BY OpNames
  <1>2. q \in Seq(Ops)
    BY <1>1, Lists
  <1>3. \A n, r : In(q, n, r) <=> n \in {m, k} /\ r = s
    BY Lists, OpNames
  <1>4. /\ DOMAIN q = {1, 2} /\ q[1] = Op(m, s) /\ q[2] = Op(k, s)
        /\ Op(m, s).op = m /\ Op(k, s).op = k /\ Op(m, s).socket = s /\ Op(k, s).socket = s
    BY OpNames
  <1> HIDE DEF q
  <1>5. m = "disconnected" /\ k = "close" => ClosedNext(q)
    BY <1>4 DEF ClosedNext
  <1>6. m = "close" /\ k = "disconnected" => ToldNext(q, s)
    BY <1>4 DEF ToldNext
  <1>7. \A r : \A i \in DOMAIN q : q[i] \notin Making(r) \cup {Op("connected", r)}
    BY <1>4, OpNames DEF Making
  <1> QED
    BY <1>2, <1>3, <1>5, <1>6, <1>7 DEF q

LEMMA DisconnectKeeps == ASSUME NEW t \in Threads, IndInv, Disconnect(t) PROVE IndInv'
  <1>0. PICK s : s = session
    OBVIOUS
  <1>1. TypeOK /\ At(t, "disconnect") /\ ~Idle(t) /\ (s = NoSocket \/ s \in Sockets)
    BY <1>0 DEF Disconnect, IndInv, TypeOK, At
  <1>2. /\ UNCHANGED <<lock, open, receiving, pending, closing, disposed>>
        /\ receiving \subseteq open /\ session' = NoSocket
    BY DEF Disconnect, sockets, IndInv, ReceivingOpen
  <1>3. CASE s = NoSocket
    <2>1. <<>> \in Seq(Ops) /\ Plain(<<>>) /\ \A n, r : ~In(<<>>, n, r)
      BY Lists, PlainLists
    <2>2. Then(t, <<>>)
      BY <1>0, <1>3 DEF Disconnect
    <2>3. TypeOK'
      <3>1. todo' \in [Threads -> Seq(Ops)]
        BY <1>1, <2>1, <2>2, ThenMoved DEF Moved
      <3> QED
        BY <1>1, <3>1 DEF Disconnect, TypeOK, config, sockets
    <2> QED
      BY <1>0, <1>1, <1>2, <1>3, <2>1, <2>2, <2>3, QuietThen
  <1>4. CASE s # NoSocket
    <2> DEFINE q == <<Op("disconnected", s), Op("close", s)>>
    <2>1. Then(t, q) /\ s \in Sockets
      BY <1>0, <1>1, <1>4 DEF Disconnect
    <2>2. /\ q \in Seq(Ops) /\ ClosedNext(q)
          /\ \A n, r : In(q, n, r) <=> n \in {"disconnected", "close"} /\ r = s
          /\ \A r : \A i \in DOMAIN q : q[i] \notin Making(r) \cup {Op("connected", r)}
      BY <2>1, EndList
    <2> HIDE DEF q
    <2>3. t = User
      <3>1. Op("disconnect", Subject(t)) \in Ops /\ Has(t, "disconnect", Subject(t))
        BY <1>1, SubjectOfHead
      <3>2. Subject(t) = NoSocket
        BY <3>1, OpNames
      <3> QED
        BY <3>1, <3>2 DEF IndInv, OwnOps
    <2>4. Moved(t, q) /\ Paired' /\ MadeFirst'
      <3>1. Orderly(t, q)
        BY <2>2, <2>3, ThreadNames DEF Orderly
      <3> QED
        BY <1>1, <2>1, <2>2, <3>1, ThenMoved, ThenOrderly DEF IndInv
    <2>5. TypeOK'
      BY <1>1, <2>4 DEF Disconnect, TypeOK, Moved, config, sockets
    <2>6. s \notin pending /\ ~Opening(s) /\ s # NoSocket
      BY <1>0, <1>4, <2>1 DEF IndInv, PendingFresh, Fresh, OpenedFresh
    <2>7. lock # t
      <3>1. t \notin Callbacks /\ t # NoSocket
        BY <2>3, ThreadNames, NoSocketIsNone
      <3> QED
        BY <3>1 DEF IndInv, Locked
    <2>8. LightLists(t)
      <3>1. \A n, r : Has(t, n, r)' => Has(t, n, r) \/ (n \in {"disconnected", "close"} /\ r = s)
        BY <2>2, <2>4 DEF Moved
      <3>2. \A n, r : n # "disconnect" /\ Has(t, n, r) => Has(t, n, r)'
        BY <1>1, <2>4 DEF Moved, At
      <3>3. Has(t, "dispose", NoSocket)' => closing'
        BY <1>2, <3>1 DEF IndInv, DisposedClosing
      <3> QED
        BY <1>2, <2>3, <2>6, <3>1, <3>2, <3>3 DEF LightLists
    <2>9. LightSockets(t)
      <3>1. \A r \in pending : Fresh(r) /\ t \notin {Callback(r), Ending(r)}
        BY <1>1, <2>3 DEF IndInv, PendingFresh, Fresh
      <3>2. \A r \in Sockets : t # Ending(r)
        BY <2>3, ThreadNames
      <3> QED
        BY <1>2, <3>1, <3>2 DEF LightSockets
    <2>10. LightLink(t)
      <3>1. Has(t, "close", s)'
        BY <2>2, <2>4 DEF Moved
      <3>2. Held(s)'
        BY <3>1 DEF Held
      <3> QED
        BY <1>0, <1>2, <2>7, <3>2, NoSocketIsNone DEF LightLink
    <2> QED
      BY <2>4, <2>5, <2>8, <2>9, <2>10, LightStep DEF Light
  <1> QED
    BY <1>3, <1>4

LEMMA CloseSocketKeeps == ASSUME NEW t \in Threads, IndInv, CloseSocket(t) PROVE IndInv'
  <1>0. PICK s : s = Subject(t)
    OBVIOUS
  <1>1. TypeOK /\ At(t, "close") /\ ~Idle(t) /\ Then(t, <<>>) /\ todo \in [Threads -> Seq(Ops)]
    BY DEF CloseSocket, IndInv, TypeOK, At
  <1>2. /\ s \in Sockets /\ Has(t, "close", s) /\ Head(todo[t]) = Op("close", s)
        /\ todo[t] \in Seq(Ops) /\ todo[t] # <<>>
        /\ 1 \in DOMAIN todo[t] /\ todo[t][1] = Op("close", s)
    <2>1. Op("close", s) \in Ops
      BY <1>0, <1>1, SubjectOfHead
    <2> QED
      BY <1>0, <1>1, <2>1, SubjectOfHead, OpNames
  <1>3. /\ UNCHANGED <<lock, pending, session, closing, disposed>>
        /\ open' = open \ {s} /\ receiving' = receiving \ {s}
        /\ receiving \subseteq open
    BY <1>0 DEF CloseSocket, link, IndInv, ReceivingOpen
  <1>4. /\ <<>> \in Seq(Ops) /\ Plain(<<>>) /\ \A n, r : ~In(<<>>, n, r)
    BY Lists, PlainLists
  <1>5. /\ Moved(t, <<>>) /\ Paired' /\ MadeFirst'
        /\ todo'[t] = <<>> \o Tail(todo[t])
    BY <1>1, <1>4, PlainThen, ThenMoved
  <1>6. TypeOK'
    BY <1>0, <1>1, <1>3, <1>5 DEF CloseSocket, TypeOK, Moved, config, link
  <1>7. /\ \A n, r : Has(t, n, r)' => Has(t, n, r)
        /\ \A n, r : Has(t, n, r) => Has(t, n, r)' \/ (n = "close" /\ r = s)
    BY <1>0, <1>1, <1>4, <1>5 DEF Moved, At
  <1>8. ~Opening(s)
    BY <1>2 DEF IndInv, OpenedFresh
  <1>9. lock = t => session = NoSocket
    <2>1. t # NoSocket
      BY NoSocketIsNone
    <2> QED
      BY <1>1, <2>1 DEF IndInv, Locked, At
  <1>10. LightLists(t)
    <2>1. \A r \in Sockets \cup {NoSocket} : \A n \in {"disconnect", "dispose"} :
            Has(t, n, r)' => t = User
      BY <1>7 DEF IndInv, OwnOps
    <2>2. Has(t, "dispose", NoSocket)' => closing'
      BY <1>3, <1>7 DEF IndInv, DisposedClosing
    <2> QED
      BY <1>3, <1>7, <2>1, <2>2 DEF LightLists
  <1>11. LightSockets(t)
    <2>1. \A r \in pending : Fresh(r) /\ t \notin {Callback(r), Ending(r)}
      BY <1>1 DEF IndInv, PendingFresh, Fresh
    <2> QED
      BY <1>1, <1>3, <1>8, <2>1 DEF LightSockets
  <1>12. LightLink(t)
    <2>1. ASSUME s = session, s \in open PROVE Has(Ending(s), "disconnected", s)'
      <3>1. t = Ending(s)
        BY <1>2, <1>9, <2>1, NoSocketIsNone DEF IndInv, ClosedOld
      <3>2. 2 \in DOMAIN todo[t] /\ todo[t][2] = Op("disconnected", s)
        <4>1. ToldNext(todo[t], s)
          BY <1>2, <3>1 DEF IndInv, Paired
        <4>2. todo[t][1].op = "close"
          BY <1>2, OpNames
        <4>3. 1 + 1 = 2
          OBVIOUS
        <4> QED
          BY <1>2, <4>1, <4>2, <4>3 DEF ToldNext
      <3>3. Has(t, "disconnected", s)
        BY <3>2 DEF Has, In
      <3> QED
        BY <1>7, <3>1, <3>3
    <2> QED
      BY <1>3, <1>9, <2>1 DEF LightLink
  <1> QED
    BY <1>5, <1>6, <1>10, <1>11, <1>12, LightStep DEF Light

LEMMA DropKeeps == ASSUME NEW s \in Sockets, IndInv, Drop(s) PROVE IndInv'
  <1> DEFINE t == Ending(s)
             q == <<Op("close", s), Op("disconnected", s)>>
  <1>1. TypeOK /\ Idle(t) /\ Start(t, q) /\ t \in Threads /\ t \in Endings
    BY ThreadNames DEF Drop, IndInv, Ending
  <1>2. /\ q \in Seq(Ops) /\ ToldNext(q, s)
        /\ \A n, r : In(q, n, r) <=> n \in {"disconnected", "close"} /\ r = s
        /\ \A r : \A i \in DOMAIN q : q[i] \notin Making(r) \cup {Op("connected", r)}
    BY EndList
  <1> HIDE DEF q
  <1>3. /\ UNCHANGED <<lock, open, receiving, pending, session, closing, disposed>>
        /\ receiving \subseteq open /\ s \in receiving
    BY DEF Drop, sockets, link, IndInv, ReceivingOpen
  <1>4. Moved(t, q) /\ Paired' /\ MadeFirst' /\ \A n, r : ~Has(t, n, r)
    <2>1. Orderly(t, q)
      BY <1>1, <1>2, ThreadNames DEF Orderly
    <2> HIDE DEF t
    <2> QED
      BY <1>1, <1>2, <2>1, StartMoved, StartOrderly DEF IndInv
  <1>5. TypeOK'
    BY <1>1, <1>4 DEF Drop, TypeOK, Moved, config, sockets, link
  <1>6. s \notin pending /\ ~Opening(s)
    BY <1>3 DEF IndInv, PendingFresh, Fresh, OpenedFresh
  <1>7. \A n, r : Has(t, n, r)' <=> n \in {"disconnected", "close"} /\ r = s
    BY <1>2, <1>4 DEF Moved
  <1>8. lock # t
    <2>1. t \notin Callbacks /\ t # NoSocket
      BY <1>1, ThreadNames, NoSocketIsNone
    <2> QED
      BY <2>1 DEF IndInv, Locked
  <1>9. LightLists(t)
    BY <1>3, <1>4, <1>6, <1>7 DEF LightLists
  <1>10. LightSockets(t)
    <2>1. \A r \in pending : Fresh(r) /\ r # s /\ r \in Sockets
      BY <1>1, <1>6 DEF IndInv, PendingFresh, TypeOK
    <2>2. \A r \in pending : t \notin {Callback(r), Ending(r)}
      BY <1>1, <2>1, ThreadNames
    <2>3. \A r \in Sockets : t = Ending(r) => r = s
      BY ThreadNames
    <2> QED
      BY <1>3, <1>6, <1>7, <2>1, <2>2, <2>3 DEF LightSockets
  <1>11. LightLink(t)
    BY <1>3, <1>8 DEF LightLink
  <1> HIDE DEF t
  <1> QED
    BY <1>1, <1>4, <1>5, <1>9, <1>10, <1>11, LightStep DEF Light

LEMMA DisconnectedKeeps == ASSUME NEW t \in Threads, IndInv, Disconnected(t) PROVE IndInv'
  <1>0. PICK s : s = Subject(t)
    OBVIOUS
  <1>1. TypeOK /\ At(t, "disconnected") /\ ~Idle(t)
    BY DEF Disconnected, IndInv, At
  <1>2. /\ s \in Sockets /\ Has(t, "disconnected", s) /\ Head(todo[t]) = Op("disconnected", s)
        /\ 1 \in DOMAIN todo[t] /\ todo[t][1] = Op("disconnected", s)
    <2>1. Op("disconnected", s) \in Ops
      BY <1>0, <1>1, SubjectOfHead
    <2> QED
      BY <1>0, <1>1, <2>1, SubjectOfHead, OpNames
  <1>3. /\ UNCHANGED <<lock, pending, open, receiving, closing, disposed>>
        /\ receiving \subseteq open
    BY DEF Disconnected, sockets, IndInv, ReceivingOpen
  <1>4. PICK q \in {<<>>, <<Do("reconnect")>>} :
          /\ Then(t, q)
          /\ \/ ~disposed /\ Writable(t) /\ session' = Cleared(s)
             \/ disposed /\ session' = session
    BY <1>0 DEF Disconnected, AfterDisconnect
  <1>5. /\ q \in Seq(Ops) /\ Plain(q)
        /\ \A n, r : In(q, n, r) => n = "reconnect"
    <2>1. CASE q = <<>>
      BY <2>1, Lists, PlainLists
    <2>2. CASE q = <<Do("reconnect")>>
      BY <2>2, DoList
    <2> QED
      BY <1>4, <2>1, <2>2
  <1>6. Moved(t, q) /\ Paired' /\ MadeFirst'
    BY <1>1, <1>4, <1>5, PlainThen
  <1>7. session' \in {session, NoSocket} /\ (session' = s => disposed /\ session' = session)
    BY <1>2, <1>4, NoSocketIsNone DEF Cleared
  <1>8. TypeOK'
    BY <1>1, <1>6, <1>7 DEF Disconnected, TypeOK, Moved, config, sockets
  <1>9. /\ \A n, r : n # "reconnect" /\ Has(t, n, r)' => Has(t, n, r)
        /\ \A n, r : Has(t, n, r) => Has(t, n, r)' \/ (n = "disconnected" /\ r = s)
    BY <1>0, <1>1, <1>5, <1>6 DEF Moved, At
  <1>10. LightLists(t)
    <2>1. \A r \in Sockets \cup {NoSocket} : \A n \in {"disconnect", "dispose"} :
            Has(t, n, r)' => t = User
      BY <1>9 DEF IndInv, OwnOps
    <2>2. Has(t, "dispose", NoSocket)' => closing'
      BY <1>3, <1>9 DEF IndInv, DisposedClosing
    <2> QED
      BY <1>3, <1>7, <1>9, <2>1, <2>2 DEF LightLists
  <1>11. LightSockets(t)
    <2>1. \A r \in pending : Fresh(r) /\ t \notin {Callback(r), Ending(r)}
      BY <1>1 DEF IndInv, PendingFresh, Fresh
    <2> QED
      BY <1>1, <1>3, <2>1 DEF LightSockets
  <1>12. LightLink(t)
    <2>1. t # NoSocket
      BY NoSocketIsNone
    <2>2. lock = t => session' = NoSocket
      <3>1. ASSUME lock = t, session # NoSocket PROVE session = s /\ ~disposed
        BY <1>0, <2>1, <3>1 DEF IndInv, Locked
      <3> QED
        BY <1>4, <1>7, <2>1, <3>1 DEF IndInv, Locked, Cleared
    <2>3. ASSUME s = session, s \in open PROVE Held(s)'
      <3>1. Has(t, "close", s)
        <4>1. CASE t \notin Endings
          <5>1. ClosedNext(todo[t])
            BY <4>1 DEF IndInv, Paired
          <5>2. 1 + 1 \in DOMAIN todo[t] /\ todo[t][1 + 1] = Op("close", s)
            BY <1>2, <5>1, OpNames DEF ClosedNext
          <5> QED
            BY <5>2 DEF Has, In
        <4>2. CASE t \in Endings
          <5>1. PICK r \in Sockets : t = Ending(r)
            BY <4>2, ThreadNames
          <5>2. ToldNext(todo[t], r)
            BY <5>1 DEF IndInv, Paired
          <5>3. Op("disconnected", s) = Op("disconnected", r)
            BY <1>2, <5>2, OpNames DEF ToldNext
          <5>4. t = Ending(s)
            BY <5>1, <5>3, OpNames
          <5> QED
            BY <1>1, <1>2, <2>3, <5>4 DEF IndInv, EndedClosed
        <4> QED
          BY <4>1, <4>2
      <3>2. Has(t, "close", s)'
        BY <1>9, <3>1
      <3> QED
        BY <3>2 DEF Held
    <2>4. session' = session \/ session = s
      BY <1>4 DEF Cleared
    <2> QED
      BY <1>3, <1>7, <2>2, <2>3, <2>4 DEF LightLink
  <1> QED
    BY <1>6, <1>8, <1>10, <1>11, <1>12, LightStep DEF Light

-----------------------------------------------------------------------------
(* The making of a session.                                                *)
LEMMA OnConnectKeeps == ASSUME NEW s \in Sockets, IndInv, OnConnect(s) PROVE IndInv'
  <1> DEFINE t == Callback(s)
             q == <<Op("install", s), Do("finish")>>
  <1>1. /\ TypeOK /\ Idle(t) /\ t \in Threads \ Endings /\ t \in Callbacks
        /\ s \in pending /\ pending' = pending \ {s}
    BY ThreadNames DEF OnConnect, Answered, IndInv, Callback
  <1>2. UNCHANGED <<lock, session, receiving, closing, disposed>>
    BY DEF OnConnect, link
  <1>3. CASE UNCHANGED <<open, todo>>
    <2>1. TypeOK'
      BY <1>1, <1>3 DEF OnConnect, TypeOK, config, link
    <2> QED
      BY <1>1, <1>2, <1>3, <2>1, QuietAnswer
  <1>4. CASE open' = open \cup {s} /\ ~disposed /\ Start(t, q)
    <2>1. Do("finish") = Op("finish", NoSocket)
      BY DEF Do
    <2>2. /\ q \in Seq(Ops)
          /\ \A n, r : In(q, n, r) <=> (n = "install" /\ r = s) \/ (n = "finish" /\ r = NoSocket)
      <3>1. Op("install", s) \in Ops /\ Do("finish") \in Ops
        BY <2>1, OpNames
      <3> QED
        BY <2>1, <3>1, Lists, OpNames
    <2>3. ClosedNext(q) /\ MadeOnce(q, s)
      <3>1. DOMAIN q = {1, 2} /\ q[1] = Op("install", s) /\ q[2] = Op("finish", NoSocket)
        BY <2>1
      <3>2. q[1].op = "install" /\ q[2].op = "finish"
        BY <3>1, OpNames
      <3> HIDE DEF q
      <3>3. ClosedNext(q)
        BY <3>1, <3>2 DEF ClosedNext
      <3>4. \A i \in DOMAIN q : (q[i] \in Making(s) => i = 1) /\ q[i] # Op("connected", s)
        BY <3>1, OpNames DEF Making
      <3> QED
        BY <3>3, <3>4 DEF MadeOnce
    <2> HIDE DEF q
    <2>4. Moved(t, q) /\ Paired' /\ MadeFirst' /\ \A n, r : ~Has(t, n, r)
      <3>1. \A r \in Sockets : t # Ending(r)
        BY <1>1, ThreadNames
      <3>2. Orderly(t, q)
        BY <1>1, <2>3, <3>1, ThreadNames DEF Orderly
      <3> HIDE DEF t
      <3> QED
        BY <1>1, <1>4, <2>2, <3>2, StartMoved, StartOrderly DEF IndInv
    <2>5. /\ \A n, r : Has(t, n, r)' <=> (n = "install" /\ r = s) \/ (n = "finish" /\ r = NoSocket)
          /\ \A u \in Threads \ {t} : todo'[u] = todo[u]
          /\ \A u \in Threads \ {t} : \A n, r : Has(u, n, r)' <=> Has(u, n, r)
      BY <2>2, <2>4 DEF Moved
    <2>6. TypeOK'
      BY <1>1, <1>4, <2>4 DEF OnConnect, TypeOK, Moved, config, link
    <2>7. Fresh(s) /\ s \notin receiving
      BY <1>1 DEF IndInv, PendingFresh, Fresh, ReceivingOpen
    <2>8. \A r \in Sockets : /\ Callback(r) \in Threads /\ Ending(r) \in Threads /\ Ending(r) # t
                             /\ Callback(r) = t <=> r = s
      BY <1>1, ThreadNames
    <2>9. pending \subseteq Sockets /\ open \subseteq Sockets /\ t # NoSocket
      BY <1>1, NoSocketIsNone DEF TypeOK
    <2>10. \A u \in Threads : \A n \in {"disconnected", "close", "set", "connected", "disconnect", "dispose"} :
             \A r : Has(u, n, r)' => Has(u, n, r) /\ u # t
      BY <2>5
    <2> HIDE DEF t
    <2>11. PendingFresh'
      <3> SUFFICES ASSUME NEW r \in pending' PROVE Fresh(r)'
        BY DEF PendingFresh
      <3>1. r \in Sockets /\ r # s /\ Fresh(r)
        BY <1>1, <2>9 DEF IndInv, PendingFresh
      <3>2. Idle(Callback(r))' /\ Idle(Ending(r))' /\ r \notin open' /\ r # session'
        BY <1>2, <1>4, <2>5, <2>8, <3>1 DEF Fresh, Idle
      <3>3. \A u \in Threads : \A n \in {"disconnected", "close", "install", "set", "connected"} :
              ~Has(u, n, r)'
        BY <2>5, <3>1 DEF Fresh
      <3> QED
        BY <3>2, <3>3 DEF Fresh
    <2>12. OpenedFresh'
      <3> SUFFICES ASSUME NEW r \in Sockets, Opening(r)'
                   PROVE  /\ r \in open' /\ r # session' /\ r \notin receiving' /\ Idle(Ending(r))'
                          /\ \A u \in Threads : ~Has(u, "close", r)' /\ ~Has(u, "disconnected", r)'
        BY DEF OpenedFresh
      <3>1. CASE r = s
        BY <1>2, <1>4, <2>5, <2>7, <2>8, <2>10, <3>1 DEF Fresh, Idle
      <3>2. CASE r # s
        <4>1. Opening(r)
          BY <2>5, <2>8, <3>2 DEF Opening
        <4> QED
          BY <1>2, <1>4, <2>5, <2>8, <2>10, <4>1 DEF IndInv, OpenedFresh, Idle
      <3> QED
        BY <3>1, <3>2
    <2>13. OwnOps'
      <3>1. \A r \in Sockets \cup {NoSocket} : Has(t, "install", r)' => t = Callback(r)
        BY <2>5, <2>8, <2>9
      <3>2. \A u \in Threads, r \in Sockets \cup {NoSocket} : Has(u, "install", r)' => u = Callback(r)
        BY <2>5, <3>1 DEF IndInv, OwnOps
      <3> QED
        BY <2>10, <3>2 DEF IndInv, OwnOps
    <2>14. ReceivingOpen'
      BY <1>2, <1>4 DEF IndInv, ReceivingOpen
    <2>15. Locked'
      <3>1. \A r \in Sockets : Has(Callback(r), "set", r)' => lock' = Callback(r)
        BY <1>2, <2>8, <2>10 DEF IndInv, Locked
      <3>2. ASSUME NEW l, l = lock', l # NoSocket
            PROVE  /\ ~disposed' /\ l \in Callbacks
                   /\ session' # NoSocket => At(l, "disconnected")' /\ Subject(l)' = session'
        <4>1. /\ ~disposed /\ l \in Callbacks /\ l \in Threads
              /\ session # NoSocket => At(l, "disconnected") /\ Subject(l) = session
          BY <1>2, <3>2, ThreadNames DEF IndInv, Locked
        <4>2. session # NoSocket => todo'[l] = todo[l]
          BY <1>1, <2>5, <4>1 DEF At
        <4> QED
          BY <1>2, <4>1, <4>2 DEF At, Idle, Subject
      <3> QED
        BY <3>1, <3>2 DEF Locked
    <2>16. ClosedOld'
      BY <1>2, <2>10 DEF IndInv, ClosedOld
    <2>17. EndedClosed'
      <3> SUFFICES ASSUME NEW r \in Sockets, ~Idle(Ending(r))', r \in open'
                   PROVE  Has(Ending(r), "close", r)'
        BY DEF EndedClosed
      <3>1. ~Idle(Ending(r))
        BY <2>5, <2>8 DEF Idle
      <3>2. r # s
        BY <2>7, <3>1 DEF Fresh
      <3> QED
        BY <1>4, <2>5, <2>8, <3>1, <3>2 DEF IndInv, EndedClosed
    <2>18. DisposedClosing'
      BY <1>2, <2>10 DEF IndInv, DisposedClosing
    <2>19. OrphansHeld'
      <3> SUFFICES ASSUME ~closing', NEW r \in open', r # session' PROVE Held(r)'
        BY DEF OrphansHeld
      <3>0. Has(t, "install", s)'
        BY <2>5
      <3>1. CASE r = s
        BY <2>8, <3>0, <3>1 DEF Held, Opening
      <3>2. CASE r # s
        <4>1. Held(r) /\ r \in Sockets
          BY <1>2, <1>4, <2>9, <3>2 DEF IndInv, OrphansHeld
        <4>2. \A u \in Threads : Has(u, "close", r) => Has(u, "close", r)'
          BY <2>4, <2>5
        <4>3. Opening(r) => Opening(r)'
          BY <2>5, <2>8, <3>2, <4>1 DEF Opening
        <4> QED
          BY <4>1, <4>2, <4>3 DEF Held
      <3> QED
        BY <3>1, <3>2
    <2>20. SessionLives'
      <3> SUFFICES ASSUME NEW r, r = session', ~disposed', r # NoSocket, r \notin open'
                   PROVE  Has(Ending(r), "disconnected", r)'
        BY DEF SessionLives
      <3>1. r \in Sockets /\ Has(Ending(r), "disconnected", r)
        BY <1>1, <1>2, <1>4 DEF IndInv, SessionLives, TypeOK
      <3> QED
        BY <2>5, <2>8, <3>1
    <2> QED
      BY <2>4, <2>6, <2>11, <2>12, <2>13, <2>14, <2>15, <2>16, <2>17, <2>18, <2>19, <2>20 DEF IndInv
  <1> QED
    BY <1>3, <1>4 DEF OnConnect, Callback

(* What the installing thread does to an old session o and to the new s.   *)
LEMMA InstallList ==
  ASSUME NEW s \in Sockets, NEW o \in Sockets, NEW q,
         q = <<Op("disconnected", o), Op("close", o)>> \o <<Op("set", s), Op("connected", s)>>
  PROVE  /\ q \in Seq(Ops) /\ Len(q) = 4
         /\ q[1] = Op("disconnected", o) /\ q[2] = Op("close", o)
         /\ q[3] = Op("set", s) /\ q[4] = Op("connected", s)
  <1>1. /\ Op("disconnected", o) \in Ops /\ Op("close", o) \in Ops
        /\ Op("set", s) \in Ops /\ Op("connected", s) \in Ops
    BY OpNames
  <1> DEFINE a == Op("disconnected", o)
             b == Op("close", o)
             c == Op("set", s)
             d == Op("connected", s)
  <1> HIDE DEF a, b, c, d
  <1>2. q = <<a, b>> \o <<c, d>>
    BY Zenon DEF a, b, c, d
  <1>3. a \in Ops /\ b \in Ops /\ c \in Ops /\ d \in Ops
    BY <1>1, Zenon DEF a, b, c, d
  <1>4. q \in Seq(Ops) /\ Len(q) = 4 /\ q[1] = a /\ q[2] = b /\ q[3] = c /\ q[4] = d
    BY <1>2, <1>3
  <1> QED
    BY <1>4, Zenon DEF a, b, c, d

LEMMA InstallOps ==
  ASSUME TypeOK, NEW s \in Sockets
  PROVE  LET q == OldSession \o <<Op("set", s), Op("connected", s)>>
         IN  /\ q \in Seq(Ops) /\ ClosedNext(q) /\ MadeOnce(q, s) /\ q # <<>>
             /\ \A n, r : In(q, n, r) <=>
                  \/ n \in {"set", "connected"} /\ r = s
                  \/ n \in {"disconnected", "close"} /\ r = session /\ session # NoSocket
             /\ session # NoSocket => 1 \in DOMAIN q /\ q[1] = Op("disconnected", session)
  <1> DEFINE q == OldSession \o <<Op("set", s), Op("connected", s)>>
  <1>1. CASE session = NoSocket
    <2>1. \A a, b : <<>> \o <<a, b>> = <<a, b>>
      OBVIOUS
    <2>2. q = <<Op("set", s), Op("connected", s)>>
      BY <1>1, <2>1 DEF OldSession
    <2>3. Op("set", s) \in Ops /\ Op("connected", s) \in Ops
      BY OpNames
    <2> HIDE DEF q
    <2>4. q \in Seq(Ops) /\ DOMAIN q = {1, 2} /\ q[1] = Op("set", s) /\ q[2] = Op("connected", s)
      BY <2>2, <2>3, Lists
    <2>5. \A n, r : In(q, n, r) <=> n \in {"set", "connected"} /\ r = s
      BY <2>4, OpNames DEF In
    <2>6. q[1].op = "set" /\ q[2].op = "connected"
      BY <2>4, OpNames
    <2>7. ClosedNext(q)
      BY <2>4, <2>6 DEF ClosedNext
    <2>8. \A i \in DOMAIN q : (q[i] \in Making(s) => i = 1) /\ (q[i] = Op("connected", s) => i = 2)
      BY <2>4, OpNames DEF Making
    <2>9. MadeOnce(q, s)
      BY <2>4, <2>8 DEF MadeOnce
    <2> QED
      BY <1>1, <2>4, <2>5, <2>7, <2>9 DEF q
  <1>2. CASE session # NoSocket
    <2> DEFINE o == session
    <2>1. o \in Sockets
      BY <1>2 DEF TypeOK
    <2>2. q = <<Op("disconnected", o), Op("close", o)>> \o <<Op("set", s), Op("connected", s)>>
      BY <1>2 DEF OldSession
    <2> HIDE DEF q, o
    <2>3. /\ q \in Seq(Ops) /\ Len(q) = 4
          /\ q[1] = Op("disconnected", o) /\ q[2] = Op("close", o)
          /\ q[3] = Op("set", s) /\ q[4] = Op("connected", s)
      BY <2>1, <2>2, InstallList
    <2>4. DOMAIN q = {1, 2, 3, 4}
      <3>1. DOMAIN q = 1 .. 4
        BY <2>3
      <3> QED
        BY <3>1
    <2>5. \A n, r : In(q, n, r) <=>
            (n \in {"set", "connected"} /\ r = s) \/ (n \in {"disconnected", "close"} /\ r = o)
      BY <2>3, <2>4, OpNames DEF In
    <2>6. /\ q[1].op = "disconnected" /\ q[1].socket = o /\ q[2].op = "close"
          /\ q[3].op = "set" /\ q[4].op = "connected"
      BY <2>3, OpNames
    <2>7. ClosedNext(q)
      BY <2>3, <2>4, <2>6 DEF ClosedNext
    <2>8. \A i \in DOMAIN q : (q[i] \in Making(s) => i = 3) /\ (q[i] = Op("connected", s) => i = 4)
      BY <2>3, <2>4, OpNames DEF Making
    <2>9. MadeOnce(q, s)
      BY <2>4, <2>8 DEF MadeOnce
    <2> QED
      BY <1>2, <2>3, <2>4, <2>5, <2>7, <2>9 DEF q, o
  <1> QED
    BY <1>1, <1>2

LEMMA InstallKeeps == ASSUME NEW t \in Threads, IndInv, Install(t) PROVE IndInv'
  <1>0. PICK s : s = Subject(t)
    OBVIOUS
  <1>1. TypeOK /\ At(t, "install") /\ ~Idle(t) /\ t # NoSocket
    BY NoSocketIsNone DEF Install, IndInv, At
  <1>2. /\ s \in Sockets /\ Has(t, "install", s) /\ Head(todo[t]) = Op("install", s)
        /\ todo[t] \in Seq(Ops) /\ todo[t] # <<>>
    <2>1. Op("install", s) \in Ops
      BY <1>0, <1>1, SubjectOfHead
    <2> QED
      BY <1>0, <1>1, <2>1, SubjectOfHead, OpNames
  <1>3. t = Callback(s) /\ t \in Callbacks /\ t \in Threads \ Endings
    BY <1>2, ThreadNames DEF IndInv, OwnOps
  <1>4. /\ UNCHANGED <<pending, open, session, closing, disposed>>
        /\ receiving \subseteq open
    BY DEF Install, IndInv, ReceivingOpen
  <1>5. /\ Opening(s) /\ s \in open /\ s # session /\ s \notin receiving /\ Idle(Ending(s))
        /\ \A u \in Threads : ~Has(u, "close", s) /\ ~Has(u, "disconnected", s)
    BY <1>2, <1>3 DEF IndInv, OpenedFresh, Opening
  <1>6. \A r \in pending : Fresh(r) /\ r \in Sockets /\ t \notin {Callback(r), Ending(r)}
    BY <1>1 DEF IndInv, PendingFresh, Fresh, TypeOK
  <1>7. \A r \in Sockets : /\ Callback(r) \in Threads /\ Ending(r) \in Threads /\ Ending(r) # t
                           /\ Callback(r) = t <=> r = s
    BY <1>3, ThreadNames
  <1>8. Head(todo[t]) \in Making(s) /\ MadeOnce(todo[t], s)
    BY <1>2, <1>3 DEF Making, IndInv, MadeFirst
  <1>9. CASE disposed /\ receiving' = receiving \cup {s} /\ retryCount' = 0
             /\ Then(t, <<>>) /\ lock' = lock
    <2>1. <<>> \in Seq(Ops) /\ Plain(<<>>) /\ \A n, r : ~In(<<>>, n, r)
      BY Lists, PlainLists
    <2>2. /\ Moved(t, <<>>) /\ Paired' /\ MadeFirst'
          /\ todo'[t] = <<>> \o Tail(todo[t])
      BY <1>1, <1>9, <2>1, PlainThen, ThenMoved
    <2>3. TypeOK'
      BY <1>1, <1>2, <1>9, <2>2 DEF Install, TypeOK, Moved, config
    <2>4. /\ \A n, r : Has(t, n, r)' => Has(t, n, r)
          /\ \A n, r : Has(t, n, r) => Has(t, n, r)' \/ (n = "install" /\ r = s)
      BY <1>0, <1>1, <2>1, <2>2 DEF Moved, At
    <2>5. ~Opening(s)'
      <3>1. \A i \in DOMAIN <<>> : <<>>[i] \notin Making(s)
        OBVIOUS
      <3>2. ~In(todo'[t], "install", s) /\ ~In(todo'[t], "set", s)
        BY <1>2, <1>8, <2>1, <2>2, <3>1, ReplacedMaking
      <3> QED
        BY <1>3, <3>2 DEF Opening, Has
    <2>6. closing /\ lock = NoSocket
      BY <1>9 DEF IndInv, DisposedClosing, Locked
    <2>7. LightLists(t)
      <3>1. \A r \in Sockets \cup {NoSocket} : \A n \in {"disconnect", "dispose"} :
              Has(t, n, r)' => t = User
        BY <2>4 DEF IndInv, OwnOps
      <3> QED
        BY <1>4, <2>4, <2>6, <3>1 DEF LightLists
    <2>8. LightSockets(t)
      BY <1>1, <1>4, <1>5, <1>6, <1>9, <2>5 DEF LightSockets
    <2>9. LightLink(t)
      BY <1>1, <1>4, <1>9, <2>6 DEF LightLink
    <2> QED
      BY <2>2, <2>3, <2>7, <2>8, <2>9, LightStep DEF Light
  <1>10. CASE /\ ~disposed /\ lock = NoSocket /\ lock' = t
              /\ Then(t, OldSession \o <<Op("set", s), Op("connected", s)>>)
              /\ UNCHANGED <<receiving, retryCount>>
    <2> DEFINE q == OldSession \o <<Op("set", s), Op("connected", s)>>
    <2>1. /\ q \in Seq(Ops) /\ ClosedNext(q) /\ MadeOnce(q, s) /\ q # <<>>
          /\ \A n, r : In(q, n, r) <=>
               \/ n \in {"set", "connected"} /\ r = s
               \/ n \in {"disconnected", "close"} /\ r = session /\ session # NoSocket
          /\ session # NoSocket => 1 \in DOMAIN q /\ q[1] = Op("disconnected", session)
      BY <1>1, <1>2, InstallOps
    <2>2. Then(t, q)
      BY <1>10
    <2> HIDE DEF q
    <2>3. /\ Moved(t, q) /\ Paired' /\ MadeFirst'
          /\ todo'[t] = q \o Tail(todo[t])
      <3>1. Orderly(t, q)
        BY <1>3, <1>7, <1>8, <2>1, ThreadNames DEF Orderly
      <3> QED
        BY <1>1, <2>1, <2>2, <3>1, ThenMoved, ThenOrderly DEF IndInv
    <2>4. TypeOK'
      BY <1>1, <1>10, <2>3 DEF Install, TypeOK, Moved, config
    <2>5. /\ \A n, r : Has(t, n, r)' =>
               \/ Has(t, n, r)
               \/ n \in {"set", "connected"} /\ r = s
               \/ n \in {"disconnected", "close"} /\ r = session /\ session # NoSocket
          /\ \A n, r : Has(t, n, r) => Has(t, n, r)' \/ (n = "install" /\ r = s)
          /\ Has(t, "set", s)'
          /\ \A u \in Threads \ {t} : todo'[u] = todo[u]
          /\ \A u \in Threads \ {t} : \A n, r : Has(u, n, r)' <=> Has(u, n, r)
      BY <1>0, <1>1, <2>1, <2>3 DEF Moved, At
    <2>6. session # NoSocket => At(t, "disconnected")' /\ Subject(t)' = session
      <3> SUFFICES ASSUME session # NoSocket PROVE At(t, "disconnected")' /\ Subject(t)' = session
        OBVIOUS
      <3>1. 1 \in DOMAIN q /\ q[1] = Op("disconnected", session)
        BY <2>1
      <3>2. todo'[t] \in Seq(Ops) /\ 1 \in DOMAIN todo'[t] /\ todo'[t][1] = q[1]
        <4>1. /\ todo'[t] \in Seq(Ops) /\ Len(q) \in Nat /\ Len(todo[t]) \in Nat \ {0}
              /\ DOMAIN q = 1 .. Len(q)
              /\ DOMAIN todo'[t] = 1 .. Len(q) + Len(todo[t]) - 1
              /\ \A i \in DOMAIN todo'[t] :
                   todo'[t][i] = IF i =< Len(q) THEN q[i] ELSE todo[t][i - Len(q) + 1]
          BY <1>2, <2>1, <2>3, Replaced
        <4> QED
          BY <3>1, <4>1
      <3>3. todo'[t] # <<>> /\ Head(todo'[t]) = Op("disconnected", session)
        BY <3>1, <3>2
      <3> QED
        BY <3>3, OpNames DEF At, Idle, Subject
    <2>7. PendingFresh'
      <3> SUFFICES ASSUME NEW r \in pending' PROVE Fresh(r)'
        BY DEF PendingFresh
      <3>1. Fresh(r) /\ r \in Sockets /\ t \notin {Callback(r), Ending(r)} /\ r # s
        BY <1>3, <1>4, <1>6
      <3>2. r \notin open' /\ r # session' /\ Idle(Callback(r))' /\ Idle(Ending(r))'
        BY <1>4, <1>7, <2>5, <3>1 DEF Fresh, Idle
      <3>3. ASSUME NEW u \in Threads,
                   NEW n \in {"disconnected", "close", "install", "set", "connected"}
            PROVE  ~Has(u, n, r)'
        BY <2>5, <3>1 DEF Fresh
      <3> QED
        BY <3>2, <3>3 DEF Fresh
    <2>8. OpenedFresh'
      <3> SUFFICES ASSUME NEW r \in Sockets, Opening(r)'
                   PROVE  /\ r \in open' /\ r # session' /\ r \notin receiving' /\ Idle(Ending(r))'
                          /\ \A u \in Threads : ~Has(u, "close", r)' /\ ~Has(u, "disconnected", r)'
        BY DEF OpenedFresh
      <3>1. Opening(r)
        <4>1. CASE r = s
          BY <1>5, <4>1
        <4>2. CASE r # s
          BY <1>7, <2>5, <4>2 DEF Opening
        <4> QED
          BY <4>1, <4>2
      <3>2. /\ r \in open /\ r # session /\ r \notin receiving /\ Idle(Ending(r))
            /\ \A u \in Threads : ~Has(u, "close", r) /\ ~Has(u, "disconnected", r)
        BY <3>1 DEF IndInv, OpenedFresh
      <3>3. Idle(Ending(r))'
        BY <1>7, <2>5, <3>2 DEF Idle
      <3>4. \A u \in Threads : ~Has(u, "close", r)' /\ ~Has(u, "disconnected", r)'
        BY <2>5, <3>2
      <3> QED
        BY <1>4, <1>10, <3>2, <3>3, <3>4
    <2>9. OwnOps'
      <3> SUFFICES ASSUME NEW u \in Threads, NEW r \in Sockets \cup {NoSocket}
                   PROVE  /\ \A n \in {"install", "set", "connected"} :
                               Has(u, n, r)' => u = Callback(r)
                          /\ \A n \in {"disconnect", "dispose"} : Has(u, n, r)' => u = User
        BY DEF OwnOps
      <3> QED
        BY <1>3, <2>5 DEF IndInv, OwnOps
    <2>10. ReceivingOpen'
      BY <1>4, <1>10 DEF ReceivingOpen
    <2>11. Locked'
      <3>1. ASSUME NEW r \in Sockets, Has(Callback(r), "set", r)' PROVE lock' = Callback(r)
        <4>1. CASE r = s
          BY <1>3, <1>10, <4>1
        <4>2. CASE r # s
          <5>1. Has(Callback(r), "set", r) /\ Callback(r) # NoSocket
            BY <1>7, <2>5, <3>1, <4>2, NoSocketIsNone
          <5> QED
            BY <1>10, <5>1 DEF IndInv, Locked
        <4> QED
          BY <4>1, <4>2
      <3>2. ASSUME NEW l, l = lock', l # NoSocket
            PROVE  /\ ~disposed' /\ l \in Callbacks
                   /\ session' # NoSocket => At(l, "disconnected")' /\ Subject(l)' = session'
        BY <1>3, <1>4, <1>10, <2>6, <3>2
      <3> QED
        BY <3>1, <3>2 DEF Locked
    <2>12. ClosedOld'
      <3> SUFFICES ASSUME NEW u \in Threads, NEW r \in Sockets, Has(u, "close", r)', u # Ending(r)
                   PROVE  session' # r \/ lock' = u
        BY DEF ClosedOld
      <3>1. CASE u = t
        BY <1>10, <3>1
      <3>2. CASE u # t
        <4>1. Has(u, "close", r) /\ u # NoSocket
          BY <2>5, <3>2, NoSocketIsNone
        <4> QED
          BY <1>4, <1>10, <4>1 DEF IndInv, ClosedOld
      <3> QED
        BY <3>1, <3>2
    <2>13. EndedClosed'
      BY <1>4, <1>7, <2>5 DEF IndInv, EndedClosed, Idle
    <2>14. DisposedClosing'
      <3>1. \A u \in Threads : Has(u, "dispose", NoSocket)' => Has(u, "dispose", NoSocket)
        BY <2>5
      <3> QED
        BY <1>4, <3>1 DEF IndInv, DisposedClosing
    <2>15. OrphansHeld'
      <3> SUFFICES ASSUME ~closing', NEW r \in open', r # session' PROVE Held(r)'
        BY DEF OrphansHeld
      <3>1. Held(r) /\ r \in Sockets
        BY <1>1, <1>4 DEF IndInv, OrphansHeld, TypeOK
      <3>2. \A u \in Threads : Has(u, "close", r) => Has(u, "close", r)'
        BY <2>5
      <3>3. Opening(r) => Opening(r)'
        <4>1. CASE r = s
          BY <1>3, <2>5, <4>1 DEF Opening
        <4>2. CASE r # s
          BY <1>7, <2>5, <3>1, <4>2 DEF Opening
        <4> QED
          BY <4>1, <4>2
      <3> QED
        BY <3>1, <3>2, <3>3 DEF Held
    <2>16. SessionLives'
      <3> SUFFICES ASSUME NEW r, r = session', ~disposed', r # NoSocket, r \notin open'
                   PROVE  Has(Ending(r), "disconnected", r)'
        BY DEF SessionLives
      <3>1. r \in Sockets /\ Has(Ending(r), "disconnected", r)
        BY <1>1, <1>4 DEF IndInv, SessionLives, TypeOK
      <3> QED
        BY <1>7, <2>5, <3>1
    <2> QED
      BY <2>3, <2>4, <2>7, <2>8, <2>9, <2>10, <2>11, <2>12, <2>13, <2>14, <2>15, <2>16 DEF IndInv
  <1> QED
    BY <1>0, <1>9, <1>10 DEF Install

LEMMA SetKeeps == ASSUME NEW t \in Threads, IndInv, Set(t) PROVE IndInv'
  <1>0. PICK s : s = Subject(t)
    OBVIOUS
  <1>1. TypeOK /\ At(t, "set") /\ ~Idle(t) /\ t # NoSocket /\ Then(t, <<>>)
    BY NoSocketIsNone DEF Set, IndInv, At
  <1>2. /\ s \in Sockets /\ Has(t, "set", s) /\ Head(todo[t]) = Op("set", s)
        /\ todo[t] \in Seq(Ops) /\ todo[t] # <<>>
    <2>1. Op("set", s) \in Ops
      BY <1>0, <1>1, SubjectOfHead
    <2> QED
      BY <1>0, <1>1, <2>1, SubjectOfHead, OpNames
  <1>3. t = Callback(s) /\ t \in Callbacks /\ lock = t /\ session = NoSocket
    <2>1. t = Callback(s)
      BY <1>2 DEF IndInv, OwnOps
    <2>2. lock = t
      BY <1>2, <2>1 DEF IndInv, Locked
    <2> QED
      BY <1>1, <1>2, <2>1, <2>2, ThreadNames DEF IndInv, Locked, At
  <1>4. /\ UNCHANGED <<pending, open, receiving, closing, disposed>>
        /\ session' = s /\ lock' = NoSocket
    BY <1>0 DEF Set, sockets
  <1>5. /\ s \in open /\ s \notin receiving /\ Idle(Ending(s))
        /\ \A u \in Threads : ~Has(u, "close", s) /\ ~Has(u, "disconnected", s)
    BY <1>2, <1>3 DEF IndInv, OpenedFresh, Opening
  <1>6. \A r \in pending : Fresh(r) /\ r \in Sockets /\ r # s /\ t \notin {Callback(r), Ending(r)}
    BY <1>1, <1>5 DEF IndInv, PendingFresh, Fresh, TypeOK
  <1>7. \A r \in Sockets : /\ Callback(r) \in Threads /\ Ending(r) \in Threads /\ Ending(r) # t
                           /\ Callback(r) = t <=> r = s
    BY <1>3, ThreadNames
  <1>8. /\ <<>> \in Seq(Ops) /\ \A n, r : ~In(<<>>, n, r)
        /\ Plain(<<>>)
    BY Lists, PlainLists
  <1>9. /\ Moved(t, <<>>) /\ Paired' /\ MadeFirst'
        /\ todo'[t] = <<>> \o Tail(todo[t])
    BY <1>1, <1>8, PlainThen, ThenMoved
  <1>10. /\ \A u \in Threads : \A n, r : Has(u, n, r)' => Has(u, n, r)
         /\ \A n, r : Has(t, n, r) => Has(t, n, r)' \/ (n = "set" /\ r = s)
         /\ \A u \in Threads \ {t} : todo'[u] = todo[u]
         /\ \A u \in Threads \ {t} : \A n, r : Has(u, n, r)' <=> Has(u, n, r)
    BY <1>0, <1>1, <1>8, <1>9 DEF Moved, At
  <1>11. TypeOK'
    BY <1>1, <1>2, <1>4, <1>9 DEF Set, TypeOK, Moved, config, sockets
  <1>12. ~Opening(s)'
    <2>1. Op("set", s) \in Making(s) /\ MadeOnce(todo[t], s)
      BY <1>2, <1>3 DEF Making, IndInv, MadeFirst
    <2>2. \A i \in DOMAIN <<>> : <<>>[i] \notin Making(s)
      OBVIOUS
    <2>3. ~In(todo'[t], "install", s) /\ ~In(todo'[t], "set", s)
      BY <1>2, <1>8, <1>9, <2>1, <2>2, ReplacedMaking
    <2> QED
      BY <1>3, <2>3 DEF Opening, Has
  <1>13. \A r \in Sockets : Opening(r)' => Opening(r) /\ r # s
    BY <1>7, <1>10, <1>12 DEF Opening
  <1>14. PendingFresh'
    <2> SUFFICES ASSUME NEW r \in pending' PROVE Fresh(r)'
      BY DEF PendingFresh
    <2>1. Fresh(r) /\ r \in Sockets /\ r # s /\ t \notin {Callback(r), Ending(r)}
      BY <1>4, <1>6
    <2>2. r \notin open' /\ r # session' /\ Idle(Callback(r))' /\ Idle(Ending(r))'
      BY <1>4, <1>7, <1>10, <2>1 DEF Fresh, Idle
    <2>3. \A u \in Threads : \A n \in {"disconnected", "close", "install", "set", "connected"} :
            ~Has(u, n, r)'
      BY <1>10, <2>1 DEF Fresh
    <2> QED
      BY <2>2, <2>3 DEF Fresh
  <1>15. OpenedFresh'
    <2> SUFFICES ASSUME NEW r \in Sockets, Opening(r)'
                 PROVE  /\ r \in open' /\ r # session' /\ r \notin receiving' /\ Idle(Ending(r))'
                        /\ \A u \in Threads : ~Has(u, "close", r)' /\ ~Has(u, "disconnected", r)'
      BY DEF OpenedFresh
    <2>1. /\ r # s /\ r \in open /\ r \notin receiving /\ Idle(Ending(r))
          /\ \A u \in Threads : ~Has(u, "close", r) /\ ~Has(u, "disconnected", r)
      BY <1>13 DEF IndInv, OpenedFresh
    <2>2. Idle(Ending(r))'
      BY <1>7, <1>10, <2>1 DEF Idle
    <2> QED
      BY <1>4, <1>10, <2>1, <2>2
  <1>16. OwnOps' /\ ReceivingOpen'
    BY <1>4, <1>10 DEF IndInv, OwnOps, ReceivingOpen
  <1>17. Locked'
    <2>1. ASSUME NEW r \in Sockets, Has(Callback(r), "set", r)' PROVE FALSE
      <3>1. Has(Callback(r), "set", r) /\ r # s
        BY <1>7, <1>10, <1>13, <2>1 DEF Opening
      <3>2. lock = Callback(r)
        BY <3>1 DEF IndInv, Locked
      <3> QED
        BY <1>3, <1>7, <3>1, <3>2
    <2> QED
      BY <1>4, <2>1 DEF Locked
  <1>18. ClosedOld'
    BY <1>4, <1>5, <1>10 DEF ClosedOld
  <1>19. EndedClosed'
    BY <1>4, <1>7, <1>10 DEF IndInv, EndedClosed, Idle
  <1>20. DisposedClosing'
    BY <1>4, <1>10 DEF IndInv, DisposedClosing
  <1>21. OrphansHeld'
    <2> SUFFICES ASSUME ~closing', NEW r \in open', r # session' PROVE Held(r)'
      BY DEF OrphansHeld
    <2>1. Held(r) /\ r \in Sockets /\ r # s
      BY <1>1, <1>3, <1>4, NoSocketIsNone DEF IndInv, OrphansHeld, TypeOK
    <2>2. \A u \in Threads : Has(u, "close", r) => Has(u, "close", r)'
      BY <1>10
    <2>3. Opening(r) => Opening(r)'
      BY <1>7, <1>10, <2>1 DEF Opening
    <2> QED
      BY <2>1, <2>2, <2>3 DEF Held
  <1>22. SessionLives'
    BY <1>4, <1>5 DEF SessionLives
  <1> QED
    BY <1>9, <1>11, <1>14, <1>15, <1>16, <1>17, <1>18, <1>19, <1>20, <1>21, <1>22 DEF IndInv

-----------------------------------------------------------------------------
LEMMA InitHolds == Init => IndInv
  <1> SUFFICES ASSUME Init PROVE IndInv
    OBVIOUS
  <1>1. \A t \in Threads : Idle(t) /\ todo[t] = <<>> /\ \A n, s : ~Has(t, n, s)
    BY Lists DEF Init, Idle, Has
  <1>2. TypeOK
    BY RetryCounts, HurryBoolean, Lists DEF Init, TypeOK
  <1>3. \A s \in Sockets : Callback(s) \in Threads /\ Ending(s) \in Threads
    BY ThreadNames
  <1>4. Paired /\ MadeFirst
    BY <1>1, <1>3 DEF Paired, MadeFirst, ClosedNext, ToldNext, MadeOnce
  <1>5. OpenedFresh /\ Locked
    BY <1>1, <1>3 DEF OpenedFresh, Locked, Opening, Init
  <1>6. /\ PendingFresh /\ OwnOps /\ ReceivingOpen /\ ClosedOld /\ EndedClosed /\ DisposedClosing
        /\ OrphansHeld /\ SessionLives
    BY <1>1, <1>3 DEF Init, PendingFresh, OwnOps, ReceivingOpen, ClosedOld, EndedClosed,
                      DisposedClosing, OrphansHeld, SessionLives
  <1> QED
    BY <1>2, <1>4, <1>5, <1>6 DEF IndInv

LEMMA NextKeeps == IndInv /\ [Next]_vars => IndInv'
  <1> SUFFICES ASSUME IndInv, [Next]_vars PROVE IndInv'
    OBVIOUS
  <1>1. CASE UNCHANGED vars
    <2>1. TypeOK'
      BY <1>1 DEF IndInv, TypeOK, vars
    <2> QED
      BY <1>1, <2>1, QuietAnswer DEF vars
  <1>2. CASE Connect \/ UserDisconnect \/ Close
    BY <1>2, ConnectKeeps, UserDisconnectKeeps, CloseKeeps
  <1>3. ASSUME NEW s \in Sockets, Answer(s) \/ Drop(s) PROVE IndInv'
    BY <1>3, OnConnectKeeps, OnConnectErrorKeeps, DropKeeps DEF Answer
  <1>4. ASSUME NEW t \in Threads, Step(t) PROVE IndInv'
    BY <1>4, DisconnectKeeps, DisposeKeeps, CloseSocketKeeps, DisconnectedKeeps, ReconnectKeeps,
       BeginKeeps, AssignKeeps, FailKeeps, ForgetKeeps, InstallKeeps, SetKeeps, ConnectedKeeps,
       FinishKeeps, RefusedKeeps
       DEF Step
  <1> QED
    BY <1>1, <1>2, <1>3, <1>4 DEF Next

LEMMA HasMentions == ASSUME NEW t \in Threads, NEW n, NEW s, Has(t, n, s) PROVE Mentioned(s)
  BY OpNames DEF Has, In, Mentioned

LEMMA Invariant == Spec => []IndInv
  BY InitHolds, NextKeeps, PTL DEF Spec

(***************************************************************************)
(* What the threads of a client have left to do is always well formed: the *)
(* handlers of AbstractTcpClient and ClientLink run in the order of their  *)
(* code, whatever overtakes what.                                          *)
(***************************************************************************)
THEOREM TypeCorrect == Spec => []TypeOK
  <1>1. IndInv => TypeOK
    BY DEF IndInv
  <1> QED
    BY <1>1, Invariant, PTL

(***************************************************************************)
(* No connection is forgotten (ClientLink.OnSessionConnectedInternal and   *)
(* OnSessionDisconnectedInternal): as long as the link is not being        *)
(* closed, every open socket is its session or has a thread that will make *)
(* it so or close it.                                                      *)
(***************************************************************************)
THEOREM NoConnectionForgotten == Spec => []NoOrphan
  <1>1. IndInv => NoOrphan
    <2> SUFFICES ASSUME IndInv, ~closing, NEW s \in open, s # session PROVE Mentioned(s)
      BY DEF NoOrphan
    <2>1. Held(s) /\ s \in Sockets
      BY DEF IndInv, OrphansHeld, TypeOK
    <2> QED
      BY <2>1, HasMentions, ThreadNames DEF Held, Opening
  <1> QED
    BY <1>1, Invariant, PTL

(***************************************************************************)
(* The session of a link that is not disposed is open, or the callback of  *)
(* its end has yet to tell the link (ClientLink.OnSessionDisconnected-     *)
(* Internal): nobody sends for ever on a session that is closed.           *)
(***************************************************************************)
THEOREM NoSessionIsDead == Spec => []NoDeadSession
  <1>1. IndInv => NoDeadSession
    <2> SUFFICES ASSUME IndInv, ~disposed, session # NoSocket, session \notin open
                 PROVE  Mentioned(session)
      BY DEF NoDeadSession
    <2>1. session \in Sockets /\ Has(Ending(session), "disconnected", session)
      BY DEF IndInv, SessionLives, TypeOK
    <2> QED
      BY <2>1, HasMentions, ThreadNames
  <1> QED
    BY <1>1, Invariant, PTL
=============================================================================
