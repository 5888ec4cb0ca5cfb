---------------------------- MODULE SessionTable -----------------------------
(***************************************************************************)
(* The life of the sessions of a TCP server link, from the accepted socket *)
(* to the last notification: SessionBasedLink.cs, ServerLink.cs, the       *)
(* closing half of LinkSession.cs and AbstractTcpSession.cs, and the       *)
(* accept loop of AbstractTcpServer.cs and BeginEnd/TcpServer.cs           *)
(* (src/src/x2net/Links).                                                  *)
(*                                                                         *)
(* Four strands of execution touch a session: the accept or receive        *)
(* callback (rx), a sender or the send completion (tx), a caller of        *)
(* LinkSession.Close (user) and the Close of the link (link).  They meet   *)
(* in the lock of the session, in the lock of the table and in the pool of *)
(* handles, and nowhere else.                                              *)
(***************************************************************************)
EXTENDS RangedIntPool

CONSTANTS
  Sessions,     \* sockets that clients connect
  Handshaking,  \* those accepted under a channel strategy
  Resetting,    \* those whose socket may refuse its options after accept
  Sending,      \* those on which a send may fail
  Closable,     \* those that a user may close
  NoSession     \* an empty entry of the table

ASSUME SessionKinds ==
  /\ Handshaking \subseteq Sessions
  /\ Resetting \subseteq Sessions \ Handshaking
  /\ Sending \subseteq Sessions
  /\ Closable \subseteq Sessions
  /\ NoSession \notin Sessions

VARIABLES
  pool,       \* LinkHandlePool
  handle,     \* each session's Handle, 0 before it has one
  disposed,   \* sessions whose disposed flag is set
  table,      \* ServerLink.sessions, by handle
  at,         \* where each strand of each session is
  link,       \* "open", "closing", "cleared" or "disposed" (the table's lock too)
  toClose,    \* what is left of the snapshot of ServerLink.Dispose
  announced,  \* what was posted about each session
  stray,      \* history: sessions registered dead, or dropped by accept
  released,   \* history: sessions whose handle was released
  twice       \* history: some session's handle was released twice

vars == <<pool, handle, disposed, table, at, link, toClose, announced, stray, released, twice>>

Strands == {"rx", "tx", "user", "link"}
Errors == {"rx", "tx"}

Init ==
  /\ pool = EmptyPool
  /\ handle = [s \in Sessions |-> 0]
  /\ disposed = {}
  /\ table = [h \in Handles |-> NoSession]
  /\ at = [s \in Sessions |-> [t \in Strands |-> "none"]]
  /\ link = "open"
  /\ toClose = {}
  /\ announced = [s \in Sessions |-> {}]
  /\ stray = {}
  /\ released = {}
  /\ twice = FALSE

Goto(s, t, place) == at' = [at EXCEPT ![s][t] = place]
Post(s, news) == announced' = [announced EXCEPT ![s] = @ \cup {news}]

(* Some strand of s is going to release its handle, or to remove it.       *)
Leaving(s) == \E t \in Strands : at[s][t] \in {"tell", "remove"}

-----------------------------------------------------------------------------
(* BeginAccept is called again only when OnAccept has returned.            *)
Accepting == \E s \in Sessions : at[s]["rx"] \in {"acquire", "add", "post", "setup"}
                                   /\ s \notin Handshaking

(***************************************************************************)
(* OnAccept.  Under a channel strategy InitiateSession sends the handshake *)
(* request and begins to receive; else it registers the session at once.   *)
(***************************************************************************)
Accept(s) ==
  /\ link = "open"
  /\ ~Accepting
  /\ at[s]["rx"] = "none"
  /\ Goto(s, "rx", IF s \in Handshaking THEN "shaking" ELSE "acquire")
  /\ UNCHANGED <<pool, handle, disposed, table, link, toClose, announced, stray, released, twice>>

(* A HandshakeAck comes: OnReceiveInternal has tested disposed before.     *)
Acknowledged(s) ==
  /\ at[s]["rx"] = "shaking"
  /\ s \notin disposed
  /\ Goto(s, "rx", "acquire")
  /\ UNCHANGED <<pool, handle, disposed, table, link, toClose, announced, stray, released, twice>>

(* OnLinkSessionConnectedInternal gives the session its handle.            *)
Acquire(s) ==
  /\ at[s]["rx"] = "acquire"
  /\ ~Exhausted(pool)
  /\ pool' = Acquired(pool)
  /\ handle' = [handle EXCEPT ![s] = Found(pool)]
  /\ stray' = IF s \in disposed /\ ~Leaving(s) THEN stray \cup {s} ELSE stray
  /\ Goto(s, "rx", "add")
  /\ UNCHANGED <<disposed, table, link, toClose, announced, released, twice>>

(***************************************************************************)
(* The pool is exhausted: Acquire throws.  OnAcceptInternal returns false, *)
(* so that OnAccept announces the failure and closes the session; in a     *)
(* receive callback it is a receive error.                                 *)
(***************************************************************************)
AcquireFails(s) ==
  /\ at[s]["rx"] = "acquire"
  /\ Exhausted(pool)
  /\ IF s \in Handshaking
     THEN Goto(s, "rx", "test") /\ UNCHANGED <<disposed, announced>>
     ELSE /\ Goto(s, "rx", "done")
          /\ Post(s, "failed")
          /\ disposed' = disposed \cup {s}
  /\ UNCHANGED <<pool, handle, table, link, toClose, stray, released, twice>>

(***************************************************************************)
(* OnSessionConnectedInternal adds the session under the write lock.  Add  *)
(* throws when the key is there already, and the lock when the link has    *)
(* disposed it; the exception is logged and nothing is announced.          *)
(***************************************************************************)
Add(s) ==
  /\ at[s]["rx"] = "add"
  /\ IF link # "disposed" /\ table[handle[s]] = NoSession
     THEN /\ table' = [table EXCEPT ![handle[s]] = s]
          /\ stray' = IF s \in disposed /\ ~Leaving(s) THEN stray \cup {s} ELSE stray
          /\ Goto(s, "rx", "post")
     ELSE /\ Goto(s, "rx", IF s \in Handshaking THEN "on" ELSE "setup")
          /\ UNCHANGED <<table, stray>>
  /\ UNCHANGED <<pool, handle, disposed, link, toClose, announced, released, twice>>

PostConnected(s) ==
  /\ at[s]["rx"] = "post"
  /\ Post(s, "connected")
  /\ Goto(s, "rx", IF s \in Handshaking THEN "on" ELSE "setup")
  /\ UNCHANGED <<pool, handle, disposed, table, link, toClose, stray, released, twice>>

(***************************************************************************)
(* The rest of OnAcceptInternal: socket options and the first receive.  On *)
(* a disposed socket they throw, and so does the attempt to announce it;   *)
(* when the socket refuses, OnAccept announces the failure of a session    *)
(* that is in the table, and closes it without a word to the link.         *)
(***************************************************************************)
Setup(s) ==
  /\ at[s]["rx"] = "setup"
  /\ Goto(s, "rx", IF s \in disposed THEN "done" ELSE "on")
  /\ UNCHANGED <<pool, handle, disposed, table, link, toClose, announced, stray, released, twice>>

SetupFails(s) ==
  /\ at[s]["rx"] = "setup"
  /\ s \in Resetting \ disposed
  /\ disposed' = disposed \cup {s}
  /\ stray' = stray \cup {s}
  /\ Post(s, "failed")
  /\ Goto(s, "rx", "done")
  /\ UNCHANGED <<pool, handle, table, link, toClose, released, twice>>

-----------------------------------------------------------------------------
(* The receive callback reports an error or the end of the stream.         *)
RxError(s) ==
  /\ at[s]["rx"] \in {"shaking", "on"}
  /\ s \notin disposed
  /\ Goto(s, "rx", "test")
  /\ UNCHANGED <<pool, handle, disposed, table, link, toClose, announced, stray, released, twice>>

(* A send fails: somebody found the session in the table, or the handshake *)
(* request itself does.                                                    *)
TxError(s) ==
  /\ s \in Sending
  /\ at[s]["tx"] = "none"
  /\ \/ \E h \in Handles : table[h] = s
     \/ s \in Handshaking /\ at[s]["rx"] # "none"
  /\ s \notin disposed
  /\ Goto(s, "tx", "test")
  /\ UNCHANGED <<pool, handle, disposed, table, link, toClose, announced, stray, released, twice>>

(* AbstractTcpSession.OnDisconnect looks at disposed without the lock.     *)
Test(s, t) ==
  /\ at[s][t] = "test"
  /\ Goto(s, t, IF s \in disposed THEN "done" ELSE "dispose")
  /\ UNCHANGED <<pool, handle, disposed, table, link, toClose, announced, stray, released, twice>>

(* Close by a user of the session: OnClose first, then CloseInternal.      *)
UserClose(s) ==
  /\ s \in Closable
  /\ at[s]["user"] = "none"
  /\ \E h \in Handles : table[h] = s
  /\ Goto(s, "user", "tell")
  /\ UNCHANGED <<pool, handle, disposed, table, link, toClose, announced, stray, released, twice>>

(* Dispose under the lock of the session; the second one returns at once.  *)
Dispose(s, t) ==
  /\ at[s][t] = "dispose"
  /\ disposed' = disposed \cup {s}
  /\ Goto(s, t, IF t \in Errors THEN "tell" ELSE "done")
  /\ UNCHANGED <<pool, handle, table, link, toClose, announced, stray, released, twice>>

AfterTelling(t) == IF t \in Errors THEN "done" ELSE "dispose"

(* LinkSession.OnDisconnect, and the release of the handle by the link.    *)
Release(s, t) ==
  /\ at[s][t] = "tell"
  /\ IF handle[s] = 0
     THEN /\ Goto(s, t, AfterTelling(t))
          /\ UNCHANGED <<pool, released, twice>>
     ELSE /\ Goto(s, t, "remove")
          /\ pool' = Released(pool, handle[s])
          /\ released' = released \cup {s}
          /\ twice' = (twice \/ s \in released)
  /\ UNCHANGED <<handle, disposed, table, link, toClose, announced, stray>>

(* Mutant of Remove: leaves the entry.                                     *)
RemoveNothing(s, t) ==
  /\ at[s][t] = "remove"
  /\ Goto(s, t, "announce")
  /\ UNCHANGED <<pool, handle, disposed, table, link, toClose, announced, stray, released, twice>>

(* OnSessionDisconnectedInternal: by key, whoever is there.                *)
Remove(s, t) ==
  /\ at[s][t] = "remove"
  /\ table' = IF link = "disposed" THEN table
              ELSE [table EXCEPT ![handle[s]] = NoSession]
  /\ Goto(s, t, "announce")
  /\ UNCHANGED <<pool, handle, disposed, link, toClose, announced, stray, released, twice>>

Announce(s, t) ==
  /\ at[s][t] = "announce"
  /\ Post(s, "disconnected")
  /\ Goto(s, t, AfterTelling(t))
  /\ UNCHANGED <<pool, handle, disposed, table, link, toClose, stray, released, twice>>

-----------------------------------------------------------------------------
Listed == {s \in Sessions : \E h \in Handles : table[h] = s}

(* Close of the link: the listening socket, then a snapshot of the table.  *)
LinkClose ==
  /\ link = "open"
  /\ link' = "closing"
  /\ toClose' = Listed
  /\ UNCHANGED <<pool, handle, disposed, table, at, announced, stray, released, twice>>

LinkBusy == \E s \in Sessions : at[s]["link"] \notin {"none", "done"}

(* Close of the next session of the snapshot.                              *)
LinkCloseNext ==
  /\ link = "closing"
  /\ ~LinkBusy
  /\ \E s \in toClose : toClose' = toClose \ {s} /\ Goto(s, "link", "tell")
  /\ UNCHANGED <<pool, handle, disposed, table, link, announced, stray, released, twice>>

(* Mutant of LinkClear: does not wait for the closing of the snapshot.     *)
LinkClearEarly ==
  /\ link = "closing"
  /\ table' = [h \in Handles |-> NoSession]
  /\ link' = "cleared"
  /\ UNCHANGED <<pool, handle, disposed, at, toClose, announced, stray, released, twice>>

LinkClear ==
  /\ link = "closing"
  /\ toClose = {}
  /\ ~LinkBusy
  /\ table' = [h \in Handles |-> NoSession]
  /\ link' = "cleared"
  /\ UNCHANGED <<pool, handle, disposed, at, toClose, announced, stray, released, twice>>

LinkDispose ==
  /\ link = "cleared"
  /\ link' = "disposed"
  /\ UNCHANGED <<pool, handle, disposed, table, at, toClose, announced, stray, released, twice>>

-----------------------------------------------------------------------------
(* The steps of a callback or a call that has begun.                       *)
Rx(s) ==
  \/ Acquire(s) \/ AcquireFails(s) \/ Add(s) \/ PostConnected(s)
  \/ Setup(s) \/ SetupFails(s)

Leave(s, t) ==
  \/ Test(s, t) \/ Dispose(s, t) \/ Release(s, t) \/ Remove(s, t) \/ Announce(s, t)

LinkStep == LinkCloseNext \/ LinkClear \/ LinkDispose

Running ==
  \/ \E s \in Sessions : Rx(s) \/ \E t \in Strands : Leave(s, t)
  \/ LinkStep

Next ==
  \/ \E s \in Sessions :
       Accept(s) \/ Acknowledged(s) \/ RxError(s) \/ TxError(s) \/ UserClose(s)
  \/ LinkClose
  \/ Running

(***************************************************************************)
(* Threads that are in a call run on: as every call has finitely many      *)
(* steps, it is enough that some thread that can go on does.  Nobody has   *)
(* to connect, fail or close.                                              *)
(***************************************************************************)
Fairness == WF_vars(Running)

Spec == Init /\ [][Next]_vars /\ Fairness

-----------------------------------------------------------------------------
RxPlaces == {"none", "shaking", "acquire", "add", "post", "setup", "on"}
LeavingPlaces == {"test", "dispose", "tell", "remove", "announce", "done"}

(* Types of the sessions, their strands and the table.                     *)
TypeOK ==
  /\ pool \in Pool
  /\ handle \in [Sessions -> Handles \cup {0}]
  /\ disposed \subseteq Sessions
  /\ table \in [Handles -> Sessions \cup {NoSession}]
  /\ at \in [Sessions -> [Strands -> RxPlaces \cup LeavingPlaces]]
  /\ link \in {"open", "closing", "cleared", "disposed"}
  /\ toClose \subseteq Sessions
  /\ announced \in [Sessions -> SUBSET {"connected", "failed", "disconnected"}]
  /\ stray \subseteq Sessions
  /\ released \subseteq Sessions
  /\ twice \in BOOLEAN

(***************************************************************************)
(* "Searchable set of active sessions": an entry of the table is a live    *)
(* session, or somebody is about to remove it.  What the code loses track  *)
(* of is stray: a session whose acknowledgement came when it was dead, or  *)
(* which the accept callback dropped after it was registered.  A table     *)
(* whose lock is disposed cannot be looked at any more.                    *)
(***************************************************************************)
NoDeadEntries ==
  link # "disposed" => \A h \in Handles : table[h] # NoSession =>
    \/ table[h] \notin disposed
    \/ table[h] \in stray
    \/ Leaving(table[h])

(* A handle in use belongs to a live session, or to one that is about to   *)
(* release it, or to a stray one: nothing else leaks from the pool.        *)
NoHandleLeak ==
  \A h \in pool.used : \E s \in Sessions :
    /\ handle[s] = h
    /\ s \notin disposed \/ s \in stray \/ \E t \in Strands : at[s][t] = "tell"

(***************************************************************************)
(* Handles are unique among the sessions that nobody has begun to          *)
(* disconnect, as long as no handle was released twice: the release by two *)
(* strands is the one way in which two live sessions come to share one.    *)
(***************************************************************************)
Distinct(S) == \A s, r \in S : handle[s] = handle[r] /\ handle[s] # 0 => s = r

OnlyDoubleRelease == ~twice => Distinct(Sessions \ released)

(* The handle of a session "is unique in the current process".             *)
HandlesUnique == Distinct(Sessions \ (disposed \cup released))

(* A session that closes with a handle leaves the table and is announced   *)
(* as disconnected in the end, unless it goes astray.                      *)
Announced ==
  \A s \in Sessions :
    s \in disposed /\ handle[s] # 0
      ~> \/ s \in stray
         \/ /\ "disconnected" \in announced[s]
            /\ s \notin Listed \/ link = "disposed"

(* Close of the link ends, and every session of its snapshot is closed.    *)
LinkCloses ==
  \A s \in Sessions : s \in toClose ~> (link = "disposed" /\ s \in disposed)
=============================================================================
