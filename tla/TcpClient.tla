------------------------------ MODULE TcpClient ------------------------------
(***************************************************************************)
(* How a client link connects, retries and reconnects: AbstractTcpClient   *)
(* and ClientLink (src/src/x2net/Links) over the BeginEnd TcpClient.       *)
(*                                                                         *)
(* A socket stands for a connection attempt and for the session it becomes.*)
(* A thread is a list of what it has left to do, the next step first: that *)
(* of the application, and those on which the callback of a socket and the *)
(* end of a session run.  What a call does is put before what follows it.  *)
(***************************************************************************)
EXTENDS Naturals, Sequences, FiniteSets, SequencesExt

CONSTANTS
  Sockets,         \* bound: sockets there may be at a time, reused when over
  MaxRetryCounts,  \* the values of MaxRetryCount to consider
  Hurry,           \* whether callbacks and calls of the application come early
  NoSocket

ASSUME RetryCounts == MaxRetryCounts \subseteq Nat
ASSUME HurryBoolean == Hurry \subseteq BOOLEAN

User == <<"user", NoSocket>>
Callbacks == {<<"callback", s>> : s \in Sockets}
Endings == {<<"ending", s>> : s \in Sockets}
Threads == {User} \cup Callbacks \cup Endings

ASSUME NoSocketIsNone == NoSocket \notin Sockets \cup Threads

VARIABLES
  maxRetryCount,  \* MaxRetryCount, constant
  hurried,        \* a callback may overtake BeginConnect, Connect an attempt
  todo,           \* what each thread has left to do
  lock,           \* thread that holds rwlock to upgrade, or NoSocket
  pending,        \* sockets being connected
  open,           \* sockets that are connected and not closed
  receiving,      \* sessions that have begun to receive
  context,        \* socket of the context the client expects, or NoSocket
  session,        \* the session of the link, or NoSocket
  connecting, retryCount,
  closing,        \* Close has been called
  disposed        \* and has disposed the link

vars == <<maxRetryCount, hurried, todo, lock, pending, open, receiving, context,
          session, connecting, retryCount, closing, disposed>>
config == <<maxRetryCount, hurried>>
sockets == <<pending, open, receiving>>
link == <<context, session, connecting, retryCount>>

Op(name, s) == [op |-> name, socket |-> s]
Do(name) == Op(name, NoSocket)

Init ==
  /\ maxRetryCount \in MaxRetryCounts
  /\ hurried \in Hurry
  /\ todo = [t \in Threads |-> <<>>]
  /\ lock = NoSocket
  /\ pending = {} /\ open = {} /\ receiving = {}
  /\ context = NoSocket /\ session = NoSocket
  /\ connecting = FALSE /\ retryCount = 0
  /\ closing = FALSE /\ disposed = FALSE

---------------------------------------------------------------------------
(* Thread t takes its next step, and has ops to do before the rest.        *)
Idle(t) == todo[t] = <<>>
At(t, name) == ~Idle(t) /\ Head(todo[t]).op = name
Subject(t) == Head(todo[t]).socket
Then(t, ops) == todo' = [todo EXCEPT ![t] = ops \o Tail(@)]
Start(t, ops) == todo' = [todo EXCEPT ![t] = ops]

(* A writer waits for the thread that may upgrade; on a disposed link the  *)
(* lock throws instead.                                                    *)
Writable(t) == lock \in {NoSocket, t}

(* Socket s is over and may stand for a new one.                           *)
Mentioned(s) == \E t \in Threads : \E i \in DOMAIN todo[t] : todo[t][i].socket = s
Over(s) ==
  /\ s \notin pending \cup open
  /\ Idle(<<"callback", s>>) /\ Idle(<<"ending", s>>)
  /\ s \notin {context, session} /\ ~Mentioned(s)
(* Sockets are without bound in the code: a thread that the bound leaves   *)
(* none to begin with is starved, and what it owes is not.                 *)
New == CHOOSE s \in Sockets : Over(s)
SocketLeft == \E s \in Sockets : Over(s)
Starved(t) == At(t, "begin") /\ ~SocketLeft

---------------------------------------------------------------------------
(* The application *)

(* Connect(ip, port), up to the reading of Session: a connected one is     *)
(* disconnected first.                                                     *)
Quiet == pending = {} /\ \A t \in Threads : Idle(t)
Connect ==
  /\ Idle(User) /\ ~closing /\ (Quiet \/ hurried)
  /\ connecting' = TRUE
  /\ Start(User, (IF session \in open THEN <<Do("disconnect")>> ELSE <<>>) \o <<Do("begin")>>)
  /\ UNCHANGED <<config, lock, sockets, context, session, retryCount, closing, disposed>>

UserDisconnect ==
  /\ Idle(User) /\ ~closing
  /\ Start(User, <<Do("disconnect")>>)
  /\ UNCHANGED <<config, lock, sockets, link, closing, disposed>>

(* Link.Close *)
Close ==
  /\ Idle(User) /\ ~closing
  /\ closing' = TRUE
  /\ Start(User, <<Do("disconnect"), Do("dispose")>>)
  /\ UNCHANGED <<config, lock, sockets, link, disposed>>

(* Disconnect, and the same steps of ClientLink.Dispose.                   *)
Disconnect(t) ==
  /\ At(t, "disconnect") /\ Writable(t)
  /\ session' = NoSocket
  /\ Then(t, IF session = NoSocket THEN <<>>
             ELSE <<Op("disconnected", session), Op("close", session)>>)
  /\ UNCHANGED <<config, lock, sockets, context, connecting, retryCount, closing, disposed>>

(* ReaderWriterLockSlim.Dispose throws out of Close when the lock is held. *)
Dispose(t) ==
  /\ At(t, "dispose")
  /\ disposed' = (lock = NoSocket)
  /\ Then(t, <<>>)
  /\ UNCHANGED <<config, lock, sockets, link, closing>>

---------------------------------------------------------------------------
(* The end of a session *)

(* CloseInternal *)
CloseSocket(t) ==
  /\ At(t, "close")
  /\ open' = open \ {Subject(t)}
  /\ receiving' = receiving \ {Subject(t)}
  /\ Then(t, <<>>)
  /\ UNCHANGED <<config, lock, pending, link, closing, disposed>>

(* The peer or the network ends a session: OnDisconnect, which tests       *)
(* disposed, closes the socket and tells the link.                         *)
Drop(s) ==
  /\ s \in receiving /\ Idle(<<"ending", s>>)
  /\ Start(<<"ending", s>>, <<Op("close", s), Op("disconnected", s)>>)
  /\ UNCHANGED <<config, lock, sockets, link, closing, disposed>>

(* Mutant of Cleared: the session is not forgotten.                        *)
ClearedNone(s) == session

(* ClientLink.OnSessionDisconnectedInternal: only its own session.         *)
Cleared(s) == IF session = s THEN NoSocket ELSE session


(* AutoReconnect, unless the link is being closed.                         *)
AfterDisconnect == IF closing THEN <<>> ELSE <<Do("reconnect")>>

Disconnected(t) ==
  /\ At(t, "disconnected")
  /\ \/ ~disposed /\ Writable(t) /\ session' = Cleared(Subject(t)) /\ Then(t, AfterDisconnect)
     \/ disposed /\ UNCHANGED session /\ Then(t, <<>>)
  /\ UNCHANGED <<config, lock, sockets, context, connecting, retryCount, closing, disposed>>

(* Reconnect, after the delay; connecting is tested but not set.           *)
Reconnect(t) ==
  /\ At(t, "reconnect")
  /\ Then(t, IF connecting THEN <<>> ELSE <<Do("begin")>>)
  /\ UNCHANGED <<config, lock, sockets, link, closing, disposed>>

---------------------------------------------------------------------------
(* A connection attempt *)

(* TcpClient.ConnectInternal: the context is set after BeginConnect.       *)
Begin(t) ==
  /\ At(t, "begin") /\ SocketLeft
  /\ pending' = pending \cup {New}
  /\ Then(t, <<Op("assign", New)>>)
  /\ UNCHANGED <<config, lock, open, receiving, link, closing, disposed>>

Assign(t) ==
  /\ At(t, "assign")
  /\ context' = Subject(t)
  /\ Then(t, <<>>)
  /\ UNCHANGED <<config, lock, sockets, session, connecting, retryCount, closing, disposed>>

(* OnConnect, which does nothing on a disposed link.                       *)
Answered(s) ==
  /\ s \in pending /\ Idle(<<"callback", s>>)
  /\ hurried \/ ~\E t \in Threads : At(t, "assign") /\ Subject(t) = s
  /\ pending' = pending \ {s}

OnConnect(s) ==
  /\ Answered(s)
  /\ IF context = s /\ ~disposed
     THEN /\ open' = open \cup {s}
          /\ Start(<<"callback", s>>, <<Op("install", s), Do("finish")>>)
     ELSE UNCHANGED <<open, todo>>
  /\ UNCHANGED <<config, lock, receiving, link, closing, disposed>>

Retrying == retryCount < maxRetryCount

(* The exception of EndConnect, and OnConnectError.                        *)
OnConnectError(s) ==
  /\ Answered(s)
  /\ IF context = s /\ ~disposed
     THEN IF Retrying
          THEN /\ retryCount' = retryCount + 1
               /\ Start(<<"callback", s>>, <<Do("begin"), Do("forget")>>)
          ELSE /\ Start(<<"callback", s>>, <<Do("fail"), Do("forget")>>)
               /\ UNCHANGED retryCount
     ELSE UNCHANGED <<todo, retryCount>>
  /\ UNCHANGED <<config, lock, open, receiving, context, session, connecting, closing, disposed>>

Fail(t) ==
  /\ At(t, "fail")
  /\ connecting' = FALSE
  /\ Then(t, <<>>)
  /\ UNCHANGED <<config, lock, sockets, context, session, retryCount, closing, disposed>>

(* The context is forgotten, whichever it is by now.                       *)
Forget(t) ==
  /\ At(t, "forget")
  /\ context' = NoSocket
  /\ Then(t, <<>>)
  /\ UNCHANGED <<config, lock, sockets, session, connecting, retryCount, closing, disposed>>

(* Mutant of OldSession: the session that is replaced is left open.        *)
OldSessionLeft == <<>>

(* ClientLink.OnSessionConnectedInternal holds the lock while it closes the*)
(* old session and sets the new one; an exception of a disposed lock skips *)
(* it and what AbstractTcpClient does after.                               *)
OldSession ==
  IF session = NoSocket THEN <<>>
  ELSE <<Op("disconnected", session), Op("close", session)>>

Install(t) ==
  /\ At(t, "install")
  /\ \/ /\ ~disposed /\ lock = NoSocket
        /\ lock' = t
        /\ Then(t, OldSession \o <<Op("set", Subject(t)), Op("connected", Subject(t))>>)
        /\ UNCHANGED <<receiving, retryCount>>
     \/ /\ disposed
        /\ retryCount' = 0
        /\ receiving' = receiving \cup {Subject(t)}
        /\ Then(t, <<>>)
        /\ UNCHANGED lock
  /\ UNCHANGED <<config, pending, open, context, session, connecting, closing, disposed>>

Set(t) ==
  /\ At(t, "set")
  /\ session' = Subject(t)
  /\ lock' = NoSocket
  /\ Then(t, <<>>)
  /\ UNCHANGED <<config, sockets, context, connecting, retryCount, closing, disposed>>

(* Mutant of Connected: the link remains connecting.                       *)
ConnectedStill(t) ==
  /\ At(t, "connected")
  /\ retryCount' = 0
  /\ receiving' = receiving \cup ({Subject(t)} \cap open)
  /\ Then(t, <<>>)
  /\ UNCHANGED <<config, lock, pending, open, context, session, connecting, closing, disposed>>

(* The end of OnSessionConnectedInternal, and OnConnectInternal up to      *)
(* BeginReceive: the socket may have been closed since it was installed.   *)
Connected(t) ==
  /\ At(t, "connected")
  /\ connecting' = FALSE
  /\ retryCount' = 0
  /\ receiving' = receiving \cup ({Subject(t)} \cap open)
  /\ Then(t, <<>>)
  /\ UNCHANGED <<config, lock, pending, open, context, session, closing, disposed>>

(* The end of OnConnectInternal in the callback of a socket. On a closed   *)
(* one its options or its end point throw, and OnConnect takes it for an   *)
(* attempt that failed, unless another context is expected by now.         *)
Finish(t) ==
  /\ At(t, "finish")
  /\ LET s == t[2]
     IN  \/ s \in open /\ Then(t, <<Do("forget")>>)
         \/ s \notin open /\ context = s /\ Then(t, <<Do("refused"), Do("forget")>>)
         \/ s \notin open /\ context # s /\ Then(t, <<>>)
  /\ UNCHANGED <<config, lock, sockets, link, closing, disposed>>

(* OnConnectError with a closed socket: BeginConnect throws at every retry.*)
Refused(t) ==
  /\ At(t, "refused")
  /\ IF Retrying
     THEN retryCount' = retryCount + 1 /\ UNCHANGED <<todo, connecting>>
     ELSE connecting' = FALSE /\ Then(t, <<>>) /\ UNCHANGED retryCount
  /\ UNCHANGED <<config, lock, sockets, context, session, closing, disposed>>

---------------------------------------------------------------------------
Step(t) ==
  \/ Disconnect(t) \/ Dispose(t) \/ CloseSocket(t) \/ Disconnected(t) \/ Reconnect(t)
  \/ Begin(t) \/ Assign(t) \/ Fail(t) \/ Forget(t) \/ Install(t) \/ Set(t) \/ Connected(t)
  \/ Finish(t) \/ Refused(t)

Answer(s) == OnConnect(s) \/ OnConnectError(s)

Next ==
  \/ Connect \/ UserDisconnect \/ Close
  \/ \E s \in Sockets : Answer(s) \/ Drop(s)
  \/ \E t \in Threads : Step(t)

(* Threads run, and every connection attempt is answered in the end, which *)
(* is what its callback thread, idle until then, does first.               *)
Fairness ==
  /\ \A t \in Threads \ Callbacks : WF_vars(Step(t))
  /\ \A s \in Sockets : WF_vars(Answer(s) \/ Step(<<"callback", s>>))

Spec == Init /\ [][Next]_vars /\ Fairness
---------------------------------------------------------------------------
(* Types of the sockets, the link and what the threads have left to do.    *)
Ops ==
  [op : {"disconnected", "close", "assign", "install", "set", "connected"},
   socket : Sockets]
  \cup
  [op : {"disconnect", "dispose", "reconnect", "begin", "fail", "forget", "finish",
        "refused"},
   socket : {NoSocket}]

TypeOK ==
  /\ maxRetryCount \in Nat
  /\ todo \in [Threads -> Seq(Ops)]
  /\ lock \in Threads \cup {NoSocket}
  /\ pending \subseteq Sockets /\ open \subseteq Sockets /\ receiving \subseteq Sockets
  /\ {context, session} \subseteq Sockets \cup {NoSocket}
  /\ {hurried, connecting, closing, disposed} \subseteq BOOLEAN
  /\ retryCount \in Nat

(* Every open session is the one of the link, or a thread is at work on it:*)
(* no connection is left that nobody sends on and nobody will close, as    *)
(* long as the link is not being closed.                                   *)
NoOrphan == ~closing => \A s \in open : s = session \/ Mentioned(s)

(* The session of a link in use is open, or a thread is closing it.        *)
NoDeadSession == ~disposed /\ session # NoSocket => session \in open \/ Mentioned(session)

(* An application that waits for an attempt to end before the next gets an *)
(* answer: the link is connected or has failed to, unless it is closed.    *)
FailureDeclared == connecting ~> ~connecting \/ closing
Calm == maxRetryCount = 0 /\ ~hurried

(* A callback that holds the lock to make its socket the session releases  *)
(* it, though the old session is closed and told of under the same lock.   *)
InstallationsEnd == lock # NoSocket ~> lock = NoSocket \/ Starved(lock)

(* An attempt ends: it is installed, and with neither retries nor early    *)
(* callbacks whoever waits for it learns of its success or its failure.    *)
AttemptsEnd == (Calm => FailureDeclared) /\ InstallationsEnd

=============================================================================
