--------------------------- MODULE HandshakeProofs ---------------------------
(***************************************************************************)
(* Theorems about Handshake, for any number of events of the application   *)
(* and any failure of the transforms: no peer transforms before the other  *)
(* is ready, and no event of the application travels untransformed.        *)
(***************************************************************************)
EXTENDS Handshake, TLAPS

(* A positive acknowledgement on its way was sent by a peer that is ready. *)
AcksReady ==
  \A p \in Peers :
    /\ \A i \in DOMAIN outbox[p] : outbox[p][i] = Event("ack", TRUE) => p \in rxReady
    /\ \A i \in DOMAIN channel[p] :
         channel[p][i].event = Event("ack", TRUE) => Other(p) \in rxReady

(* A peer that was told of the session transforms, and has begun.          *)
ToldReady ==
  /\ \A p \in Peers : \A i \in DOMAIN connected[p] : connected[p][i] => p \in txReady
  /\ txReady \subseteq begun

(* Only events of the application are transformed.                         *)
OnlyAppTransformed ==
  \A p \in Peers : \A i \in DOMAIN channel[p] :
    channel[p][i].transformed => channel[p][i].event.type = "app"

(* What the other end sends to p begins with its request; what p is        *)
(* waiting for, when it has not processed it, is ahead of everything else. *)
AwaitsRequest(p) ==
  LET q == Other(p)
  IN  \/ channel[p] # <<>> /\ Head(channel[p]).event.type = "req"
      \/ channel[p] = <<>> /\ outbox[q] # <<>> /\ Head(outbox[q]).type = "req"
      \/ channel[p] = <<>> /\ outbox[q] = <<>> /\ ~(q \in begun /\ q \in open)

RequestFirst ==
  \A p \in Peers :
    /\ p \notin begun => outbox[p] = <<>> /\ channel[Other(p)] = <<>>
    /\ p \notin keyed \cup threw => AwaitsRequest(p)

IndInv ==
  /\ TypeOK /\ AcksReady /\ ToldReady /\ OnlyAppTransformed /\ RequestFirst
  /\ ReadyBeforeTransformed /\ AppTransformed /\ Decodable

-----------------------------------------------------------------------------
LEMMA OtherPeer ==
  /\ \A p \in Peers : Other(p) \in Peers /\ Other(p) # p /\ Other(Other(p)) = p
  /\ \A p, q \in Peers : q = p \/ q = Other(p)
  <1>1. PICK p, q \in Peers : p # q /\ Peers = {p, q}
    BY TwoPeers
  <1>2. Other(p) = q /\ Other(q) = p
    BY <1>1 DEF Other
  <1> QED
    BY <1>1, <1>2

(* What is in a queue after a step that appends to it, or takes its head.  *)
LEMMA AppendHas ==
  ASSUME NEW S, NEW s \in Seq(S), NEW e \in S
  PROVE  /\ Append(s, e) \in Seq(S) /\ Append(s, e) # <<>>
         /\ Head(Append(s, e)) = IF s = <<>> THEN e ELSE Head(s)
         /\ \A i \in DOMAIN Append(s, e) :
              (i \in DOMAIN s /\ Append(s, e)[i] = s[i]) \/ Append(s, e)[i] = e
  <1>1. Append(s, e) \in Seq(S) /\ Len(Append(s, e)) = Len(s) + 1
    OBVIOUS
  <1>2. \A i \in 1 .. Len(s) + 1 : Append(s, e)[i] = IF i = Len(s) + 1 THEN e ELSE s[i]
    OBVIOUS
  <1>3. s = <<>> <=> Len(s) = 0
    OBVIOUS
  <1>4. Append(s, e) # <<>> /\ Head(Append(s, e)) = Append(s, e)[1]
    BY <1>1
  <1>5. Head(s) = s[1] \/ s = <<>>
    OBVIOUS
  <1> QED
    BY <1>1, <1>2, <1>3, <1>4, <1>5

LEMMA TailHas ==
  ASSUME NEW S, NEW s \in Seq(S), s # <<>>
  PROVE  /\ Tail(s) \in Seq(S) /\ Head(s) \in S
         /\ 1 \in DOMAIN s /\ Head(s) = s[1]
         /\ \A i \in DOMAIN Tail(s) : i + 1 \in DOMAIN s /\ Tail(s)[i] = s[i + 1]
  OBVIOUS

LEMMA EventTypes ==
  /\ \A type \in {"req", "resp", "ack", "app"} : \A ok \in BOOLEAN :
       /\ Event(type, ok) \in Events
       /\ Event(type, ok).type = type /\ Event(type, ok).ok = ok
  /\ \A e \in Events : e.ok \in BOOLEAN /\ e = Event(e.type, e.ok)
  BY DEF Event, Events

(* Send adds its event to the queue of its peer, or drops it.              *)
LEMMA SendAdds ==
  ASSUME TypeOK, NEW p \in Peers, NEW e \in Events, Send(p, e)
  PROVE  /\ outbox' \in [Peers -> Seq(Events)]
         /\ \A q \in Peers : q # p => outbox'[q] = outbox[q]
         /\ \A i \in DOMAIN outbox'[p] :
              (i \in DOMAIN outbox[p] /\ outbox'[p][i] = outbox[p][i]) \/ outbox'[p][i] = e
         /\ outbox[p] # <<>> => outbox'[p] # <<>> /\ Head(outbox'[p]) = Head(outbox[p])
         /\ outbox[p] = <<>> =>
              IF p \in open THEN outbox'[p] # <<>> /\ Head(outbox'[p]) = e ELSE outbox'[p] = <<>>
  <1>1. outbox[p] \in Seq(Events)
    BY DEF TypeOK
  <1>2. CASE p \in open
    <2>1. outbox' \in [Peers -> Seq(Events)] /\ outbox'[p] = Append(outbox[p], e)
          /\ \A q \in Peers : q # p => outbox'[q] = outbox[q]
      BY <1>1, <1>2, AppendHas DEF Send, TypeOK
    <2> QED
      BY <1>1, <1>2, <2>1, AppendHas
  <1>3. CASE p \notin open
    BY <1>3 DEF Send, TypeOK
  <1> QED
    BY <1>2, <1>3

(* A receive takes the head of the channel.                                *)
LEMMA ChannelTakes ==
  ASSUME TypeOK, NEW p \in Peers, channel[p] # <<>>,
         channel' = [channel EXCEPT ![p] = Tail(@)]
  PROVE  /\ channel' \in [Peers -> Seq(Frames)]
         /\ \A q \in Peers : q # p => channel'[q] = channel[q]
         /\ Head(channel[p]) = channel[p][1] /\ 1 \in DOMAIN channel[p]
         /\ Head(channel[p]) \in Frames
         /\ \A q \in Peers : \A i \in DOMAIN channel'[q] :
              \E j \in DOMAIN channel[q] : channel'[q][i] = channel[q][j]
  <1>1. channel[p] \in Seq(Frames)
    BY DEF TypeOK
  <1>2. /\ channel'[p] = Tail(channel[p])
        /\ \A q \in Peers : q # p => channel'[q] = channel[q]
        /\ channel' \in [Peers -> Seq(Frames)]
    BY <1>1, TailHas DEF TypeOK
  <1> QED
    BY <1>1, <1>2, TailHas

-----------------------------------------------------------------------------
LEMMA IndInit == Init => IndInv
  <1> SUFFICES ASSUME Init PROVE IndInv
    OBVIOUS
  <1>1. TypeOK
    BY MaxEventsNat DEF Init, TypeOK
  <1>2. AcksReady /\ ToldReady /\ OnlyAppTransformed
    BY DEF Init, AcksReady, ToldReady, OnlyAppTransformed
  <1>3. RequestFirst
    BY OtherPeer DEF Init, RequestFirst, AwaitsRequest
  <1>4. ReadyBeforeTransformed /\ AppTransformed /\ Decodable
    BY DEF Init, ReadyBeforeTransformed, AppTransformed, Decodable
  <1> QED
    BY <1>1, <1>2, <1>3, <1>4 DEF IndInv

(* What a peer that has begun sends goes after its request.                *)
LEMMA SendKeepsRequestFirst ==
  ASSUME TypeOK, RequestFirst, NEW p \in begun, NEW e \in Events, Send(p, e),
         UNCHANGED <<open, begun>>, \A q \in Peers : q # p => channel'[q] = channel[q],
         keyed \subseteq keyed', threw \subseteq threw', p \in keyed' \cup threw',
         channel[p] # <<>>
  PROVE  RequestFirst'
  <1>0. p \in Peers
    BY DEF TypeOK
  <1>1. ASSUME NEW q \in Peers \ begun PROVE outbox'[q] = <<>> /\ channel'[Other(q)] = <<>>
    BY <1>0, <1>1, SendAdds, OtherPeer DEF RequestFirst
  <1>2. ASSUME NEW q \in Peers, q \notin keyed' \cup threw' PROVE AwaitsRequest(q)'
    <2>1. Other(q) = p /\ q # p /\ AwaitsRequest(q) /\ channel'[q] = channel[q]
      BY <1>0, <1>2, OtherPeer DEF RequestFirst
    <2> QED
      BY <1>0, <2>1, SendAdds DEF AwaitsRequest
  <1> QED
    BY <1>1, <1>2 DEF RequestFirst

(* A peer that takes anything but a request has processed the request.     *)
LEMMA TakesAfterRequest ==
  ASSUME RequestFirst, NEW p \in Peers, channel[p] # <<>>, Head(channel[p]).event.type # "req"
  PROVE  p \in keyed \cup threw
  BY DEF RequestFirst, AwaitsRequest

LEMMA InitiateStep ==
  ASSUME IndInv, NEW p \in Peers, InitiateHandshake(p)
  PROVE  IndInv'
  <1> DEFINE e == Event("req", TRUE)
  <1>0. TypeOK /\ e \in Events /\ e.type = "req" /\ Send(p, e) /\ p \in open
    BY EventTypes DEF InitiateHandshake, IndInv
  <1>1. e # Event("ack", TRUE)
    BY EventTypes, <1>0
  <1> HIDE DEF e
  <1>2. TypeOK'
    BY <1>0, SendAdds DEF InitiateHandshake, TypeOK
  <1>3. AcksReady'
    <2>1. AcksReady /\ UNCHANGED <<channel, rxReady>>
      BY DEF InitiateHandshake, IndInv
    <2>2. \A q \in Peers : \A i \in DOMAIN outbox'[q] :
            outbox'[q][i] # Event("ack", TRUE) \/ (i \in DOMAIN outbox[q] /\ outbox'[q][i] = outbox[q][i])
      BY <1>0, <1>1, SendAdds
    <2> QED
      BY <2>1, <2>2 DEF AcksReady
  <1>4. ToldReady' /\ OnlyAppTransformed'
    BY DEF InitiateHandshake, IndInv, ToldReady, OnlyAppTransformed
  <1>5. RequestFirst'
    <2>1. outbox[p] = <<>> /\ channel[Other(p)] = <<>> /\ outbox'[p] # <<>> /\ Head(outbox'[p]) = e
      BY <1>0, SendAdds DEF InitiateHandshake, IndInv, RequestFirst
    <2>2. ASSUME NEW q \in Peers \ begun' PROVE outbox'[q] = <<>> /\ channel'[Other(q)] = <<>>
      BY <1>0, <2>2, SendAdds DEF InitiateHandshake, IndInv, RequestFirst
    <2>3. ASSUME NEW q \in Peers, q \notin keyed' \cup threw' PROVE AwaitsRequest(q)'
      <3>1. CASE q = p
        BY <1>0, <2>3, <3>1, SendAdds, OtherPeer
          DEF InitiateHandshake, IndInv, RequestFirst, AwaitsRequest
      <3>2. CASE q = Other(p)
        BY <1>0, <2>1, <3>2, OtherPeer DEF InitiateHandshake, AwaitsRequest
      <3> QED
        BY <3>1, <3>2, OtherPeer
    <2> QED
      BY <2>2, <2>3 DEF RequestFirst
  <1>6. ReadyBeforeTransformed' /\ Decodable'
    BY DEF InitiateHandshake, IndInv, ReadyBeforeTransformed, Decodable
  <1>7. AppTransformed'
    BY <1>0, SendAdds DEF InitiateHandshake, IndInv, AppTransformed
  <1> QED
    BY <1>2, <1>3, <1>4, <1>5, <1>6, <1>7 DEF IndInv

LEMMA SendEventStep ==
  ASSUME IndInv, NEW p \in Peers, SendEvent(p)
  PROVE  IndInv'
  <1> DEFINE e == Event("app", TRUE)
  <1>0. TypeOK /\ e \in Events /\ e.type = "app" /\ Send(p, e) /\ p \in open
    BY EventTypes DEF SendEvent, IndInv
  <1>1. e # Event("ack", TRUE)
    BY EventTypes, <1>0
  <1> HIDE DEF e
  <1>r. p \in txReady /\ p \in begun
    BY DEF SendEvent, IndInv, ToldReady
  <1>2. TypeOK'
    BY <1>0, SendAdds, MaxEventsNat DEF SendEvent, TypeOK
  <1>3. AcksReady'
    <2>1. AcksReady /\ UNCHANGED <<channel, rxReady>>
      BY DEF SendEvent, IndInv
    <2>2. \A q \in Peers : \A i \in DOMAIN outbox'[q] :
            outbox'[q][i] # Event("ack", TRUE) \/ (i \in DOMAIN outbox[q] /\ outbox'[q][i] = outbox[q][i])
      BY <1>0, <1>1, SendAdds
    <2> QED
      BY <2>1, <2>2 DEF AcksReady
  <1>4. ToldReady' /\ OnlyAppTransformed'
    BY DEF SendEvent, IndInv, ToldReady, OnlyAppTransformed
  <1>5. RequestFirst'
    <2>1. ASSUME NEW q \in Peers \ begun PROVE outbox'[q] = <<>> /\ channel'[Other(q)] = <<>>
      BY <1>0, <1>r, <2>1, SendAdds DEF SendEvent, IndInv, RequestFirst
    <2>2. ASSUME NEW q \in Peers, q \notin keyed \cup threw PROVE AwaitsRequest(q)'
      <3>1. AwaitsRequest(q) /\ channel' = channel /\ begun' = begun /\ open' = open
        BY <2>2 DEF SendEvent, IndInv, RequestFirst
      <3>2. CASE q = p
        BY <1>0, <3>1, <3>2, SendAdds, OtherPeer DEF AwaitsRequest
      <3>3. CASE q = Other(p)
        BY <1>0, <1>r, <3>1, <3>3, SendAdds, OtherPeer DEF AwaitsRequest
      <3> QED
        BY <3>2, <3>3, OtherPeer
    <2> QED
      BY <2>1, <2>2 DEF RequestFirst, SendEvent
  <1>6. ReadyBeforeTransformed' /\ Decodable'
    BY DEF SendEvent, IndInv, ReadyBeforeTransformed, Decodable
  <1>7. AppTransformed'
    BY <1>0, <1>r, SendAdds DEF SendEvent, IndInv, AppTransformed
  <1> QED
    BY <1>2, <1>3, <1>4, <1>5, <1>6, <1>7 DEF IndInv

LEMMA SerializeStep ==
  ASSUME IndInv, NEW p \in Peers, Serialize(p)
  PROVE  IndInv'
  <1> DEFINE e == Head(outbox[p])
             frame == [event |-> e, transformed |-> ToTransform(e) /\ p \in txReady]
             q == Other(p)
  <1>0. TypeOK /\ q \in Peers /\ q # p /\ Other(q) = p
    BY OtherPeer DEF IndInv
  <1>1. outbox[p] # <<>> /\ outbox[p] \in Seq(Events) /\ channel[q] \in Seq(Frames)
    BY <1>0 DEF Serialize, TypeOK
  <1>2. e \in Events /\ 1 \in DOMAIN outbox[p] /\ e = outbox[p][1]
    BY <1>1, TailHas
  <1>3. frame \in Frames /\ frame.event = e /\ (frame.transformed <=> e.type = "app" /\ p \in txReady)
    BY <1>2 DEF Frames, ToTransform
  <1>4. channel' = [channel EXCEPT ![q] = Append(@, frame)] /\ outbox' = [outbox EXCEPT ![p] = Tail(@)]
    BY DEF Serialize
  <1> HIDE DEF e, frame, q
  <1>5. /\ outbox' \in [Peers -> Seq(Events)]
        /\ \A r \in Peers : r # p => outbox'[r] = outbox[r]
        /\ \A r \in Peers : \A i \in DOMAIN outbox'[r] :
             \E j \in DOMAIN outbox[r] : outbox'[r][i] = outbox[r][j]
    <2>1. outbox'[p] = Tail(outbox[p]) /\ \A r \in Peers : r # p => outbox'[r] = outbox[r]
      BY <1>0, <1>4 DEF TypeOK
    <2> QED
      BY <1>0, <1>1, <1>4, <2>1, TailHas DEF TypeOK
  <1>6. /\ channel' \in [Peers -> Seq(Frames)]
        /\ \A r \in Peers : r # q => channel'[r] = channel[r]
        /\ channel'[q] # <<>>
        /\ Head(channel'[q]) = IF channel[q] = <<>> THEN frame ELSE Head(channel[q])
        /\ \A i \in DOMAIN channel'[q] :
             (i \in DOMAIN channel[q] /\ channel'[q][i] = channel[q][i]) \/ channel'[q][i] = frame
    <2>1. channel'[q] = Append(channel[q], frame) /\ \A r \in Peers : r # q => channel'[r] = channel[r]
      BY <1>0, <1>4 DEF TypeOK
    <2>2. channel'[q] \in Seq(Frames)
      BY <1>1, <1>3, <2>1, AppendHas
    <2>3. channel' \in [Peers -> Seq(Frames)]
      BY <1>0, <1>4, <2>1, <2>2 DEF TypeOK
    <2> QED
      BY <1>1, <1>3, <2>1, <2>3, AppendHas
  <1>7. TypeOK'
    BY <1>0, <1>5, <1>6 DEF Serialize, TypeOK
  <1>8. AcksReady'
    <2>1. AcksReady /\ UNCHANGED rxReady
      BY DEF Serialize, IndInv
    <2>2. \A r \in Peers : \A i \in DOMAIN outbox'[r] : outbox'[r][i] = Event("ack", TRUE) => r \in rxReady
      BY <1>5, <2>1 DEF AcksReady
    <2>3. e = Event("ack", TRUE) => Other(q) \in rxReady
      BY <1>0, <1>2, <2>1 DEF AcksReady
    <2>4. \A r \in Peers : \A i \in DOMAIN channel'[r] :
            channel'[r][i].event = Event("ack", TRUE) => Other(r) \in rxReady
      <3> SUFFICES ASSUME NEW r \in Peers, NEW i \in DOMAIN channel'[r],
                          channel'[r][i].event = Event("ack", TRUE)
                   PROVE  Other(r) \in rxReady
        OBVIOUS
      <3>1. CASE i \in DOMAIN channel[r] /\ channel'[r][i] = channel[r][i]
        BY <2>1, <3>1 DEF AcksReady
      <3>2. CASE r = q /\ channel'[r][i] = frame
        BY <1>3, <2>3, <3>2
      <3> QED
        BY <1>6, <3>1, <3>2
    <2> QED
      BY <2>1, <2>2, <2>4 DEF AcksReady
  <1>9. ToldReady'
    BY DEF Serialize, IndInv, ToldReady
  <1>10. OnlyAppTransformed'
    <2>1. OnlyAppTransformed
      BY DEF IndInv
    <2> QED
      <3>1. ASSUME NEW r \in Peers, NEW i \in DOMAIN channel'[r], channel'[r][i].transformed
            PROVE  channel'[r][i].event.type = "app"
        <4>1. CASE i \in DOMAIN channel[r] /\ channel'[r][i] = channel[r][i]
          BY <2>1, <3>1, <4>1 DEF OnlyAppTransformed
        <4>2. CASE channel'[r][i] = frame
          BY <1>3, <3>1, <4>2
        <4> QED
          BY <1>6, <3>1, <4>1, <4>2
      <3> QED
        BY <3>1 DEF OnlyAppTransformed
  <1>11. RequestFirst'
    <2>1. ASSUME NEW r \in Peers \ begun PROVE outbox'[r] = <<>> /\ channel'[Other(r)] = <<>>
      <3>1. r # p /\ Other(r) # q
        BY <1>0, <1>1, <2>1, OtherPeer DEF IndInv, RequestFirst
      <3> QED
        BY <1>5, <1>6, <2>1, <3>1, OtherPeer DEF IndInv, RequestFirst
    <2>2. ASSUME NEW r \in Peers, r \notin keyed \cup threw PROVE AwaitsRequest(r)'
      <3>1. AwaitsRequest(r) /\ begun' = begun /\ open' = open
        BY <2>2 DEF Serialize, IndInv, RequestFirst
      <3>2. CASE r = q
        BY <1>0, <1>1, <1>2, <1>3, <1>6, <3>1, <3>2 DEF AwaitsRequest, e
      <3>3. CASE r = p
        BY <1>0, <1>5, <1>6, <3>1, <3>3, OtherPeer DEF AwaitsRequest, q
      <3> QED
        BY <3>2, <3>3, OtherPeer DEF q
    <2> QED
      BY <2>1, <2>2 DEF RequestFirst, Serialize
  <1>12. ReadyBeforeTransformed'
    BY <1>0, <1>3, <1>6 DEF Serialize, IndInv, ReadyBeforeTransformed
  <1>13. AppTransformed'
    BY <1>0, <1>2, <1>3, <1>5, <1>6 DEF Serialize, IndInv, AppTransformed
  <1>14. Decodable'
    BY DEF Serialize, IndInv, Decodable
  <1> QED
    BY <1>7, <1>8, <1>9, <1>10, <1>11, <1>12, <1>13, <1>14 DEF IndInv

(* What the invariants say of the frames still holds of those that remain. *)
LEMMA TakeKeepsFrames ==
  ASSUME IndInv, NEW p \in Peers, channel[p] # <<>>,
         channel' = [channel EXCEPT ![p] = Tail(@)], rxReady \subseteq rxReady'
  PROVE  /\ OnlyAppTransformed'
         /\ \A q \in Peers : \A i \in DOMAIN channel'[q] :
              /\ channel'[q][i].event = Event("ack", TRUE) => Other(q) \in rxReady'
              /\ channel'[q][i].event.type = "app" => channel'[q][i].transformed
              /\ channel'[q][i].transformed => q \in rxReady'
  <1>0. TypeOK
    BY DEF IndInv
  <1>1. ASSUME NEW q \in Peers, NEW i \in DOMAIN channel'[q]
        PROVE  /\ channel'[q][i].transformed => channel'[q][i].event.type = "app"
               /\ channel'[q][i].event = Event("ack", TRUE) => Other(q) \in rxReady'
               /\ channel'[q][i].event.type = "app" => channel'[q][i].transformed
               /\ channel'[q][i].transformed => q \in rxReady'
    <2>1. PICK j \in DOMAIN channel[q] : channel'[q][i] = channel[q][j]
      BY <1>0, ChannelTakes
    <2>2. /\ channel[q][j].transformed => channel[q][j].event.type = "app"
          /\ channel[q][j].event = Event("ack", TRUE) => Other(q) \in rxReady
          /\ channel[q][j].event.type = "app" => channel[q][j].transformed
          /\ channel[q][j].transformed => q \in rxReady
      BY DEF IndInv, OnlyAppTransformed, AcksReady, AppTransformed,
           ReadyBeforeTransformed
    <2> DEFINE f == channel'[q][i]
               g == channel[q][j]
    <2>3. f = g /\ f.event = g.event /\ f.transformed = g.transformed
      BY <2>1
    <2> HIDE DEF f, g
    <2>4. /\ f.transformed => f.event.type = "app"
          /\ f.event = Event("ack", TRUE) => Other(q) \in rxReady
          /\ f.event.type = "app" => f.transformed
          /\ f.transformed => q \in rxReady
      BY <2>2, <2>3, Zenon DEF g
    <2>5. \A r \in rxReady : r \in rxReady'
      OBVIOUS
    <2> QED
      BY <2>4, <2>5, Zenon DEF f
  <1> QED
    BY <1>1 DEF OnlyAppTransformed

(* The peer that receives has begun, and is open.                          *)
LEMMA IncomingHas ==
  ASSUME NEW p \in Peers, NEW type, Incoming(p, type)
  PROVE  /\ p \in open /\ p \in begun /\ channel[p] # <<>>
         /\ Head(channel[p]).event.type = type
         /\ channel' = [channel EXCEPT ![p] = Tail(@)]
  BY DEF Incoming

LEMMA ProcessReqStep ==
  ASSUME IndInv, NEW p \in Peers, ProcessReq(p)
  PROVE  IndInv'
  <1>0. TypeOK /\ AcksReady /\ RequestFirst
    BY DEF IndInv
  <1>1. /\ p \in open /\ p \in begun /\ channel[p] # <<>>
        /\ channel' = [channel EXCEPT ![p] = Tail(@)]
    BY IncomingHas DEF ProcessReq
  <1>2. PICK ok \in BOOLEAN :
          /\ keyed' = IF ok THEN keyed \cup {p} ELSE keyed
          /\ threw' = IF ok THEN threw ELSE threw \cup {p}
          /\ Send(p, Event("resp", ok))
    BY DEF ProcessReq
  <1> DEFINE e == Event("resp", ok)
  <1>3. e \in Events /\ e.type = "resp" /\ e # Event("ack", TRUE) /\ Send(p, e)
    BY <1>2, EventTypes
  <1> HIDE DEF e
  <1>t. /\ OnlyAppTransformed'
        /\ \A q \in Peers : \A i \in DOMAIN channel'[q] :
             /\ channel'[q][i].event = Event("ack", TRUE) => Other(q) \in rxReady'
             /\ channel'[q][i].event.type = "app" => channel'[q][i].transformed
             /\ channel'[q][i].transformed => q \in rxReady'
    BY <1>1, TakeKeepsFrames DEF ProcessReq
  <1>4. TypeOK'
    BY <1>0, <1>1, <1>2, <1>3, SendAdds, ChannelTakes DEF ProcessReq, TypeOK
  <1>5. AcksReady'
    <2>1. \A q \in Peers : \A i \in DOMAIN outbox'[q] :
            outbox'[q][i] # Event("ack", TRUE) \/ (i \in DOMAIN outbox[q] /\ outbox'[q][i] = outbox[q][i])
      BY <1>0, <1>3, SendAdds
    <2> QED
      <3>1. rxReady' = rxReady
        BY DEF ProcessReq
      <3>2. \A q \in Peers : \A i \in DOMAIN outbox'[q] : outbox'[q][i] = Event("ack", TRUE) => q \in rxReady'
        BY <1>0, <2>1, <3>1, Zenon DEF AcksReady
      <3> QED
        BY <1>t, <3>2, Zenon DEF AcksReady
  <1>6. ToldReady'
    BY DEF ProcessReq, IndInv, ToldReady
  <1>7. OnlyAppTransformed'
    BY <1>t
  <1>8. RequestFirst'
    BY <1>0, <1>1, <1>2, <1>3, ChannelTakes, SendKeepsRequestFirst DEF ProcessReq
  <1>9. ReadyBeforeTransformed'
    BY <1>t DEF ProcessReq, IndInv, ReadyBeforeTransformed
  <1>10. AppTransformed'
    <2>1. AppTransformed /\ UNCHANGED txReady
      BY DEF ProcessReq, IndInv
    <2>2. \A q \in Peers : \A i \in DOMAIN outbox'[q] :
            outbox'[q][i].type # "app" \/ (i \in DOMAIN outbox[q] /\ outbox'[q][i] = outbox[q][i])
      BY <1>0, <1>3, SendAdds
    <2> QED
      BY <1>t, <2>1, <2>2 DEF AppTransformed
  <1>11. Decodable'
    BY <1>2 DEF ProcessReq, IndInv, Decodable
  <1> QED
    BY <1>4, <1>5, <1>6, <1>7, <1>8, <1>9, <1>10, <1>11 DEF IndInv

LEMMA ProcessRespStep ==
  ASSUME IndInv, NEW p \in Peers, ProcessResp(p)
  PROVE  IndInv'
  <1>0. TypeOK /\ AcksReady /\ RequestFirst
    BY DEF IndInv
  <1>1. /\ p \in open /\ p \in begun /\ channel[p] # <<>>
        /\ Head(channel[p]).event.type = "resp"
        /\ channel' = [channel EXCEPT ![p] = Tail(@)]
    BY IncomingHas DEF ProcessResp
  <1> DEFINE ok == Head(channel[p]).event.ok
             e == Event("ack", ok)
  <1>2. ok \in BOOLEAN
    BY <1>0, <1>1, ChannelTakes DEF Frames, Events
  <1>3. e \in Events /\ e.type = "ack" /\ e.ok = ok /\ Send(p, e)
    BY <1>2, EventTypes DEF ProcessResp
  <1>4. (e = Event("ack", TRUE) => p \in rxReady') /\ rxReady \subseteq rxReady'
    BY <1>3, EventTypes DEF ProcessResp
  <1>5. rxReady' \subseteq Peers
    BY <1>0 DEF ProcessResp, TypeOK
  <1> HIDE DEF e, ok
  <1>t. /\ OnlyAppTransformed'
        /\ \A q \in Peers : \A i \in DOMAIN channel'[q] :
             /\ channel'[q][i].event = Event("ack", TRUE) => Other(q) \in rxReady'
             /\ channel'[q][i].event.type = "app" => channel'[q][i].transformed
             /\ channel'[q][i].transformed => q \in rxReady'
    BY <1>1, <1>4, TakeKeepsFrames DEF ProcessResp
  <1>6. TypeOK'
    BY <1>0, <1>1, <1>3, <1>5, SendAdds, ChannelTakes DEF ProcessResp, TypeOK
  <1>7. AcksReady'
    <2>1. \A q \in Peers : \A i \in DOMAIN outbox'[q] :
            (outbox'[q][i] = e /\ q = p) \/ (i \in DOMAIN outbox[q] /\ outbox'[q][i] = outbox[q][i])
      BY <1>0, <1>3, SendAdds
    <2> QED
      <3>1. \A q \in rxReady : q \in rxReady'
        BY <1>4
      <3>2. \A q \in Peers : \A i \in DOMAIN outbox'[q] : outbox'[q][i] = Event("ack", TRUE) => q \in rxReady'
        BY <1>0, <1>4, <2>1, <3>1, Zenon DEF AcksReady
      <3> QED
        BY <1>t, <3>2, Zenon DEF AcksReady
  <1>8. ToldReady'
    BY DEF ProcessResp, IndInv, ToldReady
  <1>9. OnlyAppTransformed'
    BY <1>t
  <1>10. RequestFirst'
    BY <1>0, <1>1, <1>3, ChannelTakes, TakesAfterRequest, SendKeepsRequestFirst
      DEF ProcessResp
  <1>11. ReadyBeforeTransformed'
    BY <1>4, <1>t DEF ProcessResp, IndInv, ReadyBeforeTransformed
  <1>12. AppTransformed'
    <2>1. AppTransformed /\ UNCHANGED txReady
      BY DEF ProcessResp, IndInv
    <2>2. \A q \in Peers : \A i \in DOMAIN outbox'[q] :
            outbox'[q][i].type # "app" \/ (i \in DOMAIN outbox[q] /\ outbox'[q][i] = outbox[q][i])
      BY <1>0, <1>3, SendAdds
    <2> QED
      BY <1>t, <2>1, <2>2 DEF AppTransformed
  <1>13. Decodable'
    BY DEF ProcessResp, IndInv, Decodable
  <1> QED
    BY <1>6, <1>7, <1>8, <1>9, <1>10, <1>11, <1>12, <1>13 DEF IndInv

(* A step that only takes a frame and sends nothing.                       *)
LEMMA TakeKeepsRequestFirst ==
  ASSUME TypeOK, RequestFirst, NEW p \in begun, channel[p] # <<>>,
         channel' = [channel EXCEPT ![p] = Tail(@)], p \in keyed \cup threw,
         UNCHANGED <<open, begun, outbox, keyed, threw>>
  PROVE  RequestFirst'
  <1>1. p \in Peers /\ \A q \in Peers : q # p => channel'[q] = channel[q]
    BY ChannelTakes DEF TypeOK
  <1>2. ASSUME NEW q \in Peers \ begun PROVE outbox'[q] = <<>> /\ channel'[Other(q)] = <<>>
    BY <1>1, <1>2, OtherPeer DEF RequestFirst
  <1>3. ASSUME NEW q \in Peers, q \notin keyed' \cup threw' PROVE AwaitsRequest(q)'
    BY <1>1, <1>3 DEF RequestFirst, AwaitsRequest
  <1> QED
    BY <1>2, <1>3 DEF RequestFirst

LEMMA ProcessAckStep ==
  ASSUME IndInv, NEW p \in Peers, ProcessAck(p)
  PROVE  IndInv'
  <1>0. TypeOK /\ AcksReady /\ RequestFirst
    BY DEF IndInv
  <1>1. /\ p \in open /\ p \in begun /\ channel[p] # <<>>
        /\ Head(channel[p]).event.type = "ack"
        /\ channel' = [channel EXCEPT ![p] = Tail(@)]
    BY IncomingHas DEF ProcessAck
  <1> DEFINE ok == Head(channel[p]).event.ok
  <1>2. ok \in BOOLEAN /\ (ok => Other(p) \in rxReady)
    <2>1. Head(channel[p]) = channel[p][1] /\ 1 \in DOMAIN channel[p] /\ Head(channel[p]).event \in Events
      BY <1>0, <1>1, ChannelTakes DEF Frames
    <2>2. ok \in BOOLEAN /\ (ok => Head(channel[p]).event = Event("ack", TRUE))
      <3>1. ok \in BOOLEAN /\ Head(channel[p]).event = Event("ack", ok)
        <4>1. Head(channel[p]).event = Event(Head(channel[p]).event.type, ok)
          BY <2>1, EventTypes DEF ok
        <4> QED
          BY <1>1, <2>1, <4>1, EventTypes
      <3> QED
        BY <3>1
    <2> QED
      BY <1>0, <2>1, <2>2 DEF AcksReady
  <1>3. /\ txReady' = IF ok THEN txReady \cup {p} ELSE txReady
        /\ connected' = [connected EXCEPT ![p] = Append(@, ok)]
    BY DEF ProcessAck
  <1> HIDE DEF ok
  <1>4. /\ connected' \in [Peers -> Seq(BOOLEAN)]
        /\ \A q \in Peers : \A i \in DOMAIN connected'[q] :
             \/ i \in DOMAIN connected[q] /\ connected'[q][i] = connected[q][i]
             \/ q = p /\ connected'[q][i] = ok
    <2>1. connected'[p] = Append(connected[p], ok) /\ \A q \in Peers : q # p => connected'[q] = connected[q]
      BY <1>0, <1>3 DEF TypeOK
    <2>2. connected[p] \in Seq(BOOLEAN)
      BY <1>0 DEF TypeOK
    <2>3. connected'[p] \in Seq(BOOLEAN)
      BY <1>2, <2>1, <2>2, AppendHas
    <2>4. connected' \in [Peers -> Seq(BOOLEAN)]
      BY <1>0, <1>3, <2>1, <2>3 DEF TypeOK
    <2>5. \A i \in DOMAIN connected'[p] :
            (i \in DOMAIN connected[p] /\ connected'[p][i] = connected[p][i]) \/ connected'[p][i] = ok
      BY <1>2, <2>1, <2>2, AppendHas
    <2> QED
      BY <2>1, <2>4, <2>5
  <1>t. /\ OnlyAppTransformed'
        /\ \A q \in Peers : \A i \in DOMAIN channel'[q] :
             /\ channel'[q][i].event = Event("ack", TRUE) => Other(q) \in rxReady'
             /\ channel'[q][i].event.type = "app" => channel'[q][i].transformed
             /\ channel'[q][i].transformed => q \in rxReady'
    BY <1>1, TakeKeepsFrames DEF ProcessAck
  <1>5. TypeOK'
    BY <1>0, <1>1, <1>3, <1>4, ChannelTakes DEF ProcessAck, TypeOK
  <1>6. AcksReady'
    BY <1>0, <1>t DEF ProcessAck, AcksReady
  <1>7. ToldReady'
    BY <1>1, <1>3, <1>4 DEF ProcessAck, IndInv, ToldReady
  <1>8. OnlyAppTransformed'
    BY <1>t
  <1>9. RequestFirst'
    BY <1>0, <1>1, TakesAfterRequest, TakeKeepsRequestFirst DEF ProcessAck
  <1>10. ReadyBeforeTransformed'
    BY <1>2, <1>3, <1>t DEF ProcessAck, IndInv, ReadyBeforeTransformed
  <1>11. AppTransformed'
    BY <1>3, <1>t DEF ProcessAck, IndInv, AppTransformed
  <1>12. Decodable'
    BY DEF ProcessAck, IndInv, Decodable
  <1> QED
    BY <1>5, <1>6, <1>7, <1>8, <1>9, <1>10, <1>11, <1>12 DEF IndInv

LEMMA ProcessAppStep ==
  ASSUME IndInv, NEW p \in Peers, ProcessApp(p)
  PROVE  IndInv'
  <1>0. TypeOK /\ RequestFirst /\ AcksReady /\ AppTransformed
    BY DEF IndInv
  <1>1. /\ p \in begun /\ channel[p] # <<>> /\ Head(channel[p]).event.type = "app"
        /\ channel' = [channel EXCEPT ![p] = Tail(@)]
    BY IncomingHas DEF ProcessApp
  <1>2. UNCHANGED <<open, begun, outbox, keyed, threw, rxReady, txReady, connected, sent, lost>>
    BY DEF ProcessApp
  <1>t. /\ OnlyAppTransformed'
        /\ \A q \in Peers : \A i \in DOMAIN channel'[q] :
             /\ channel'[q][i].event = Event("ack", TRUE) => Other(q) \in rxReady'
             /\ channel'[q][i].event.type = "app" => channel'[q][i].transformed
             /\ channel'[q][i].transformed => q \in rxReady'
    BY <1>1, <1>2, TakeKeepsFrames
  <1>3. TypeOK'
    BY <1>0, <1>1, <1>2, ChannelTakes DEF TypeOK
  <1>4. AcksReady'
    BY <1>0, <1>2, <1>t DEF AcksReady
  <1>5. ToldReady' /\ Decodable'
    BY <1>2 DEF IndInv, ToldReady, Decodable
  <1>6. RequestFirst'
    BY <1>0, <1>1, <1>2, TakesAfterRequest, TakeKeepsRequestFirst
  <1>7. ReadyBeforeTransformed'
    BY <1>2, <1>t DEF IndInv, ReadyBeforeTransformed
  <1>8. AppTransformed'
    BY <1>0, <1>2, <1>t DEF AppTransformed
  <1> QED
    BY <1>t, <1>3, <1>4, <1>5, <1>6, <1>7, <1>8 DEF IndInv

(* The frame is an event of the application, so that the request was       *)
(* processed; p is ready, so it lacks the key because its transform threw. *)
LEMMA UnreadableStep ==
  ASSUME IndInv, NEW p \in Peers, ReceiveUnreadable(p)
  PROVE  IndInv'
  <1>0. TypeOK /\ RequestFirst /\ AcksReady /\ AppTransformed
    BY DEF IndInv
  <1>1. /\ p \in begun /\ channel[p] # <<>> /\ Head(channel[p]).transformed
        /\ p \notin rxReady \cap keyed
        /\ channel' = [channel EXCEPT ![p] = Tail(@)]
        /\ lost' = lost \cup {p}
    BY DEF ReceiveUnreadable
  <1>2. UNCHANGED <<open, begun, outbox, keyed, threw, rxReady, txReady, connected, sent>>
    BY DEF ReceiveUnreadable
  <1>3. Head(channel[p]).event.type = "app" /\ p \in rxReady
    <2>1. Head(channel[p]) = channel[p][1] /\ 1 \in DOMAIN channel[p]
      BY <1>0, <1>1, ChannelTakes
    <2> QED
      BY <1>1, <2>1, Zenon DEF IndInv, OnlyAppTransformed, ReadyBeforeTransformed
  <1>4. p \in keyed \cup threw
    BY <1>0, <1>1, <1>3, TakesAfterRequest
  <1>5. p \in threw
    BY <1>1, <1>3, <1>4
  <1>t. /\ OnlyAppTransformed'
        /\ \A q \in Peers : \A i \in DOMAIN channel'[q] :
             /\ channel'[q][i].event = Event("ack", TRUE) => Other(q) \in rxReady'
             /\ channel'[q][i].event.type = "app" => channel'[q][i].transformed
             /\ channel'[q][i].transformed => q \in rxReady'
    BY <1>1, <1>2, TakeKeepsFrames
  <1>6. TypeOK'
    BY <1>0, <1>1, <1>2, ChannelTakes DEF TypeOK
  <1>7. AcksReady'
    BY <1>0, <1>2, <1>t DEF AcksReady
  <1>8. ToldReady' /\ Decodable'
    BY <1>1, <1>2, <1>5 DEF IndInv, ToldReady, Decodable
  <1>9. RequestFirst'
    BY <1>0, <1>1, <1>2, <1>4, TakeKeepsRequestFirst
  <1>10. ReadyBeforeTransformed'
    BY <1>2, <1>t DEF IndInv, ReadyBeforeTransformed
  <1>11. AppTransformed'
    BY <1>0, <1>2, <1>t DEF AppTransformed
  <1> QED
    BY <1>t, <1>6, <1>7, <1>8, <1>9, <1>10, <1>11 DEF IndInv

LEMMA DisposeStep ==
  ASSUME IndInv, NEW p \in Peers, Dispose(p)
  PROVE  IndInv'
  <1>0. TypeOK /\ RequestFirst /\ AcksReady /\ AppTransformed
    BY DEF IndInv
  <1>1. /\ open' = open \ {p} /\ outbox' \in [Peers -> Seq(Events)]
        /\ outbox'[p] = <<>> /\ \A q \in Peers : q # p => outbox'[q] = outbox[q]
    BY <1>0 DEF Dispose, TypeOK
  <1>2. UNCHANGED <<begun, channel, keyed, threw, rxReady, txReady, connected, sent, lost>>
    BY DEF Dispose
  <1>3. TypeOK'
    BY <1>0, <1>1, <1>2 DEF TypeOK
  <1>4. AcksReady'
    <2>1. \A q \in Peers : \A i \in DOMAIN outbox'[q] : q # p /\ i \in DOMAIN outbox[q] /\ outbox'[q][i] = outbox[q][i]
      BY <1>1
    <2> QED
      BY <1>0, <1>2, <2>1 DEF AcksReady
  <1>5. ToldReady' /\ OnlyAppTransformed' /\ Decodable' /\ ReadyBeforeTransformed'
    BY <1>2 DEF IndInv, ToldReady, OnlyAppTransformed, Decodable, ReadyBeforeTransformed
  <1>6. RequestFirst'
    <2>1. ASSUME NEW q \in Peers \ begun PROVE outbox'[q] = <<>> /\ channel'[Other(q)] = <<>>
      BY <1>0, <1>1, <1>2, <2>1 DEF RequestFirst
    <2>2. ASSUME NEW q \in Peers, q \notin keyed \cup threw PROVE AwaitsRequest(q)'
      <3>1. AwaitsRequest(q) /\ Other(q) \in Peers
        BY <1>0, <2>2, OtherPeer DEF RequestFirst
      <3>2. CASE Other(q) = p
        BY <1>1, <1>2, <3>1, <3>2 DEF AwaitsRequest
      <3>3. CASE Other(q) # p
        BY <1>1, <1>2, <3>1, <3>3 DEF AwaitsRequest
      <3> QED
        BY <3>2, <3>3
    <2> QED
      BY <1>2, <2>1, <2>2 DEF RequestFirst
  <1>7. AppTransformed'
    BY <1>0, <1>1, <1>2 DEF AppTransformed
  <1> QED
    BY <1>3, <1>4, <1>5, <1>6, <1>7 DEF IndInv

LEMMA IndStep == IndInv /\ [Next]_vars => IndInv'
  <1> SUFFICES ASSUME IndInv, [Next]_vars PROVE IndInv'
    OBVIOUS
  <1>1. CASE UNCHANGED vars
    BY <1>1
      DEF vars, IndInv, TypeOK, AcksReady, ToldReady, OnlyAppTransformed,
         RequestFirst, AwaitsRequest,
       ReadyBeforeTransformed, AppTransformed, Decodable
  <1>2. ASSUME NEW p \in Peers, InitiateHandshake(p) \/ SendEvent(p) \/ Serialize(p) \/ Dispose(p)
        PROVE  IndInv'
    BY <1>2, InitiateStep, SendEventStep, SerializeStep, DisposeStep
  <1>3. ASSUME NEW p \in Peers, Receive(p) PROVE IndInv'
    BY <1>3, ProcessReqStep, ProcessRespStep, ProcessAckStep, ProcessAppStep,
         UnreadableStep
      DEF Receive
  <1> QED
    BY <1>1, <1>2, <1>3 DEF Next

-----------------------------------------------------------------------------
(* The inductive invariant, whatever fails and in any order of the two     *)
(* ends' steps.                                                            *)
THEOREM Inductive == Spec => []IndInv
  BY IndInit, IndStep, PTL DEF Spec

(* No peer transforms what it sends before the other can invert it, and a  *)
(* transformed frame never reaches a peer that takes it as it is.          *)
THEOREM NeverTransformsEarly == Spec => []ReadyBeforeTransformed
  <1>1. IndInv => ReadyBeforeTransformed
    BY DEF IndInv
  <1> QED
    BY <1>1, Inductive, PTL

(* Every event of the application is transformed on its way.               *)
THEOREM NothingInTheClear == Spec => []AppTransformed
  <1>1. IndInv => AppTransformed
    BY DEF IndInv
  <1> QED
    BY <1>1, Inductive, PTL

(* Only a peer whose own transform threw ever drops a transformed frame.   *)
THEOREM LostOnlyByFailure == Spec => []Decodable
  <1>1. IndInv => Decodable
    BY DEF IndInv
  <1> QED
    BY <1>1, Inductive, PTL
=============================================================================
