----------------------------- MODULE Handshake ------------------------------
(***************************************************************************)
(* The handshake that BufferTransformStrategy (src/src/x2net/Links/        *)
(* Strategies) runs over a session between two peers, and the frames that  *)
(* LinkSession marks as transformed before, during and after it.           *)
(*                                                                         *)
(* Each peer sends a request with the key of its own direction, proves     *)
(* with a response that it can read the other's, and acknowledges the      *)
(* response it gets.  The keys themselves are left out: what counts is     *)
(* whether a peer has got the key of the direction it receives.            *)
(***************************************************************************)
EXTENDS Naturals, Sequences

CONSTANTS
  Peers,     \* the two ends of the connection
  Faulty,    \* peers whose BufferTransform.Handshake may throw
  MaxEvents  \* bound: events of the application each peer sends

ASSUME TwoPeers == \E p, q \in Peers : p # q /\ Peers = {p, q}
ASSUME FaultyPeers == Faulty \subseteq Peers
ASSUME MaxEventsNat == MaxEvents \in Nat

VARIABLES
  open,        \* peers whose session is not disposed
  begun,       \* peers that have initiated the handshake, and so receive
  outbox,      \* events that Send accepted and BeginSend has not serialized
  channel,     \* frames on their way to each peer
  keyed,       \* peers that have the key of the direction they receive
  threw,       \* peers whose transform has thrown instead
  rxReady,     \* peers with rxTransformReady
  txReady,     \* peers with txTransformReady
  connected,   \* what each peer's LinkSessionConnected events said, in order
  sent,        \* events of the application each peer has sent
  lost         \* history: peers that dropped a frame they could not read

vars == <<open, begun, outbox, channel, keyed, threw, rxReady, txReady, connected, sent, lost>>

Other(p) == CHOOSE q \in Peers : q # p

(* Handshake events have _Transform reset; ok is whether the response has  *)
(* data, and the result in an acknowledgement.                             *)
Event(type, ok) == [type |-> type, ok |-> ok]
Events == [type : {"req", "resp", "ack", "app"}, ok : BOOLEAN]
Frames == [event : Events, transformed : BOOLEAN]
ToTransform(e) == e.type = "app"

Init ==
  /\ open = Peers
  /\ begun = {}
  /\ outbox = [p \in Peers |-> <<>>]
  /\ channel = [p \in Peers |-> <<>>]
  /\ keyed = {}
  /\ threw = {}
  /\ rxReady = {}
  /\ txReady = {}
  /\ connected = [p \in Peers |-> <<>>]
  /\ sent = [p \in Peers |-> 0]
  /\ lost = {}

(* LinkSession.Send, which drops the event when the session is disposed.   *)
Send(p, e) ==
  outbox' = IF p \in open THEN [outbox EXCEPT ![p] = Append(@, e)] ELSE outbox

(* InitiateHandshake; the caller begins to receive after it.               *)
InitiateHandshake(p) ==
  /\ p \in open \ begun
  /\ begun' = begun \cup {p}
  /\ Send(p, Event("req", TRUE))
  /\ UNCHANGED <<open, channel, keyed, threw, rxReady, txReady, connected, sent, lost>>

(* A user of the session sends an event, once it was told of the session.  *)
SendEvent(p) ==
  /\ \E i \in DOMAIN connected[p] : connected[p][i]
  /\ p \in open
  /\ sent[p] < MaxEvents
  /\ sent' = [sent EXCEPT ![p] = @ + 1]
  /\ Send(p, Event("app", TRUE))
  /\ UNCHANGED <<open, begun, channel, keyed, threw, rxReady, txReady, connected, lost>>

(* BeginSend serializes the next event; BeforeSend looks at the flag then. *)
Serialize(p) ==
  /\ outbox[p] # <<>>
  /\ LET e == Head(outbox[p])
         frame == [event |-> e, transformed |-> ToTransform(e) /\ p \in txReady]
     IN  channel' = [channel EXCEPT ![Other(p)] = Append(@, frame)]
  /\ outbox' = [outbox EXCEPT ![p] = Tail(@)]
  /\ UNCHANGED <<open, begun, keyed, threw, rxReady, txReady, connected, sent, lost>>

-----------------------------------------------------------------------------
(* The head of the channel is read as it was sent: untransformed, or       *)
(* AfterReceive inverts it with the right key.                             *)
Incoming(p, type) ==
  /\ p \in open \cap begun
  /\ channel[p] # <<>>
  /\ LET frame == Head(channel[p])
     IN  /\ frame.event.type = type
         /\ frame.transformed => p \in rxReady \cap keyed
  /\ channel' = [channel EXCEPT ![p] = Tail(@)]

(* Mutant of ProcessReq: does not keep the key.                            *)
ProcessReqKeyless(p) ==
  /\ Incoming(p, "req")
  /\ Send(p, Event("resp", TRUE))
  /\ UNCHANGED <<open, begun, keyed, threw, rxReady, txReady, connected, sent, lost>>

(***************************************************************************)
(* Process of a HandshakeReq: the signal it waits for was set by this      *)
(* peer's own InitiateHandshake.  When the transform throws the response   *)
(* carries no data.                                                        *)
(***************************************************************************)
ProcessReq(p) ==
  /\ Incoming(p, "req")
  /\ \E ok \in (IF p \in Faulty THEN BOOLEAN ELSE {TRUE}) :
       /\ keyed' = IF ok THEN keyed \cup {p} ELSE keyed
       /\ threw' = IF ok THEN threw ELSE threw \cup {p}
       /\ Send(p, Event("resp", ok))
  /\ UNCHANGED <<open, begun, rxReady, txReady, connected, sent, lost>>

(* Mutants of ProcessResp: acknowledges what it could not verify; does not *)
(* acknowledge a failure.                                                  *)
ProcessRespUnverified(p) ==
  /\ Incoming(p, "resp")
  /\ rxReady' = IF Head(channel[p]).event.ok THEN rxReady \cup {p} ELSE rxReady
  /\ Send(p, Event("ack", TRUE))
  /\ UNCHANGED <<open, begun, keyed, threw, txReady, connected, sent, lost>>
ProcessRespSilently(p) ==
  /\ Incoming(p, "resp")
  /\ rxReady' = IF Head(channel[p]).event.ok THEN rxReady \cup {p} ELSE rxReady
  /\ IF Head(channel[p]).event.ok THEN Send(p, Event("ack", TRUE)) ELSE UNCHANGED outbox
  /\ UNCHANGED <<open, begun, keyed, threw, txReady, connected, sent, lost>>

(* Process of a HandshakeResp: FinalizeHandshake verifies the replay.      *)
ProcessResp(p) ==
  /\ Incoming(p, "resp")
  /\ LET result == Head(channel[p]).event.ok
     IN  /\ rxReady' = IF result THEN rxReady \cup {p} ELSE rxReady
         /\ Send(p, Event("ack", result))
  /\ UNCHANGED <<open, begun, keyed, threw, txReady, connected, sent, lost>>

(* Mutant of ProcessAck: announces the session and forgets the flag.       *)
ProcessAckUnready(p) ==
  /\ Incoming(p, "ack")
  /\ connected' = [connected EXCEPT ![p] = Append(@, Head(channel[p]).event.ok)]
  /\ UNCHANGED <<open, begun, outbox, keyed, threw, rxReady, txReady, sent, lost>>

(* Process of a HandshakeAck: the session is announced, or its failure.    *)
ProcessAck(p) ==
  /\ Incoming(p, "ack")
  /\ LET result == Head(channel[p]).event.ok
     IN  /\ txReady' = IF result THEN txReady \cup {p} ELSE txReady
         /\ connected' = [connected EXCEPT ![p] = Append(@, result)]
  /\ UNCHANGED <<open, begun, outbox, keyed, threw, rxReady, sent, lost>>

(* An event of the application is posted.                                  *)
ProcessApp(p) ==
  /\ Incoming(p, "app")
  /\ UNCHANGED <<open, begun, outbox, keyed, threw, rxReady, txReady, connected, sent, lost>>

(***************************************************************************)
(* A transformed frame for a peer that is not ready is taken as it is, and *)
(* one for which it has no key makes AfterReceive throw: neither is the    *)
(* event that was sent, and both are dropped.                              *)
(***************************************************************************)
ReceiveUnreadable(p) ==
  /\ p \in open \cap begun
  /\ channel[p] # <<>>
  /\ Head(channel[p]).transformed
  /\ p \notin rxReady \cap keyed
  /\ lost' = lost \cup {p}
  /\ channel' = [channel EXCEPT ![p] = Tail(@)]
  /\ UNCHANGED <<open, begun, outbox, keyed, threw, rxReady, txReady, connected, sent>>

(* The session is disposed: what is not sent yet is dropped, and nothing   *)
(* is received any more.  The other end may go on for a while.             *)
Dispose(p) ==
  /\ p \in open
  /\ open' = open \ {p}
  /\ outbox' = [outbox EXCEPT ![p] = <<>>]
  /\ UNCHANGED <<begun, channel, keyed, threw, rxReady, txReady, connected, sent, lost>>

-----------------------------------------------------------------------------
Receive(p) ==
  ProcessReq(p) \/ ProcessResp(p) \/ ProcessAck(p) \/ ProcessApp(p) \/ ReceiveUnreadable(p)

Next == \E p \in Peers :
  InitiateHandshake(p) \/ SendEvent(p) \/ Serialize(p) \/ Receive(p) \/ Dispose(p)

(* Both ends initiate, and the socket completes sends and receives.        *)
Fairness == \A p \in Peers :
  WF_vars(InitiateHandshake(p)) /\ WF_vars(Serialize(p)) /\ WF_vars(Receive(p))

Spec == Init /\ [][Next]_vars /\ Fairness

-----------------------------------------------------------------------------
(* Types of the peers' state and of the frames.                            *)
TypeOK ==
  /\ open \subseteq Peers
  /\ begun \subseteq Peers
  /\ outbox \in [Peers -> Seq(Events)]
  /\ channel \in [Peers -> Seq(Frames)]
  /\ keyed \subseteq Peers
  /\ threw \subseteq Peers
  /\ rxReady \subseteq Peers
  /\ txReady \subseteq Peers
  /\ connected \in [Peers -> Seq(BOOLEAN)]
  /\ sent \in [Peers -> 0 .. MaxEvents]
  /\ lost \subseteq Peers

(***************************************************************************)
(* A peer begins to transform only when the other is ready to receive what *)
(* it transforms: its flag is set before it acknowledges, and frames       *)
(* arrive in order.  No transformed frame is ever read as if it were not.  *)
(***************************************************************************)
ReadyBeforeTransformed ==
  /\ \A p \in txReady : Other(p) \in rxReady
  /\ \A p \in Peers : \A i \in DOMAIN channel[p] :
       channel[p][i].transformed => p \in rxReady

(***************************************************************************)
(* A frame is dropped as unreadable only by a peer whose own transform     *)
(* threw: that a peer is acknowledged once the other has answered it shows *)
(* only together with the order of the frames that the other has the key.  *)
(***************************************************************************)
Decodable == lost \subseteq threw

(* No event of the application travels as it is: it cannot be sent before  *)
(* the session is announced, and by then its sender transforms.            *)
AppTransformed ==
  \A p \in Peers :
    /\ \A i \in DOMAIN outbox[p] : outbox[p][i].type = "app" => p \in txReady
    /\ \A i \in DOMAIN channel[p] :
         channel[p][i].event.type = "app" => channel[p][i].transformed

(***************************************************************************)
(* Each peer is told in the end whether the session is connected, unless   *)
(* one of the two closes it; a handshake that fails is told as well.       *)
(***************************************************************************)
Told == \A p \in Peers : <>(connected[p] # <<>> \/ open # Peers)
=============================================================================
