------------------------------ MODULE Reception -------------------------------
(***************************************************************************)
(* How a session cuts the bytes it receives into events: LinkSession.      *)
(* OnReceiveInternal and BeginReceive with the header of AbstractTcpSession*)
(* over the blocks of its Buffer, while the socket delivers the stream in  *)
(* pieces of any size and another thread may dispose the session.          *)
(*                                                                         *)
(* One receive is outstanding at a time, so that the callback runs alone;  *)
(* it takes the lock of the session only to stretch the buffer and to set  *)
(* rxBeginning, and Dispose may come between any two of its steps.         *)
(***************************************************************************)
EXTENDS Buffer, SequencesExt

CONSTANTS
  HeaderBase,  \* 128: what a byte of a header holds
  PeerEvents,  \* the events the peer may send
  MaxSent      \* bound: how many it sends

(* The most bytes of a header: what ReadVariableInternal reads of it.      *)
MaxHeader == 5

(* An event is the body it is written as, and whether that is transformed. *)
Event == [body : Seq(Bytes), transformed : BOOLEAN]

ASSUME HeaderBaseAssumption == HeaderBase \in Nat /\ HeaderBase >= 2
ASSUME ByteValues == Bytes = 0 .. 2 * HeaderBase - 1
ASSUME PeerEventsAssumption == PeerEvents \subseteq Event

VARIABLES
  sent,             \* history: the events the peer has sent, in order
  stream,           \* history: the bytes it has sent
  delivered,        \* how many of those the socket has delivered
  buffer,           \* rxBuffer
  rxBeginning,      \* a header is expected first
  lengthToReceive,  \* length in the header parsed last
  rxTransformed,    \* flag in that header
  received,         \* history: the bodies cut out to be loaded, in order
  disposed,         \* Dispose has run
  pc                \* where the receiving thread is

peerVars == <<sent, stream>>
headerVars == <<lengthToReceive, rxTransformed>>
receptionVars ==
  <<sent, stream, delivered, buffer, rxBeginning, lengthToReceive, rxTransformed,
    received, disposed, pc>>

---------------------------------------------------------------------------
(* Headers: the length and the flag, least significant digits first, every *)
(* digit but the last with the high bit set.                               *)

HeaderOf(e) == 2 * Len(e.body) + (IF e.transformed THEN 1 ELSE 0)

(* What is left of n after each of the digits written.                     *)
Quotients(n) ==
  LET q1 == n \div HeaderBase
      q2 == q1 \div HeaderBase
      q3 == q2 \div HeaderBase
      q4 == q3 \div HeaderBase
  IN  <<n, q1, q2, q3, q4>>

Digits(n) ==
  CHOOSE k \in 1 .. MaxHeader :
    /\ Quotients(n)[k] < HeaderBase
    /\ \A i \in 1 .. k - 1 : Quotients(n)[i] >= HeaderBase

WriteVariable(n) ==
  [i \in 1 .. Digits(n) |->
     (Quotients(n)[i] % HeaderBase) + (IF i < Digits(n) THEN HeaderBase ELSE 0)]

BuildHeader(e) == WriteVariable(HeaderOf(e))
Frame(e) == BuildHeader(e) \o e.body

(* A header of more than MaxHeader bytes would not fit the 32 bits it is   *)
(* computed in.                                                            *)
ASSUME HeadersFit == \A e \in PeerEvents : Quotients(HeaderOf(e))[MaxHeader] < HeaderBase

(* The bytes a header takes, one number when all of it is there to read    *)
(* and none otherwise.                                                     *)
Continues(byte) == byte >= HeaderBase
HeaderLengths(b) ==
  {k \in 1 .. MaxHeader :
     /\ CanRead(b, k)
     /\ \A i \in 1 .. k - 1 : Continues(GetBytes(b, k)[i])
     /\ k = MaxHeader \/ ~Continues(GetBytes(b, k)[k])}

(* The value of the first k digits of those bytes.                         *)
ReadVariable(bytes, k) ==
  LET digit(i) == IF i =< k THEN bytes[i] % HeaderBase ELSE 0
  IN  digit(1) + HeaderBase * (digit(2) + HeaderBase * (digit(3)
        + HeaderBase * (digit(4) + HeaderBase * digit(5))))

---------------------------------------------------------------------------
ReceptionInit ==
  /\ sent = <<>>
  /\ stream = <<>>
  /\ delivered = 0
  /\ buffer = NewBuffer
  /\ rxBeginning = TRUE
  /\ lengthToReceive = 0
  /\ rxTransformed = FALSE
  /\ received = <<>>
  /\ disposed = FALSE
  /\ pc = "begin"

(* The peer sends the frame of an event, at any time.                      *)
PeerSends ==
  /\ Len(sent) < MaxSent
  /\ \E e \in PeerEvents : sent' = Append(sent, e) /\ stream' = stream \o Frame(e)
  /\ UNCHANGED <<delivered, buffer, rxBeginning, headerVars, received, disposed, pc>>

(* BeginReceive and ReceiveInternal: on a disposed session the buffer still*)
(* takes segments before the socket throws, and the thread is done.        *)
BeginReceive ==
  /\ pc = "begin"
  /\ buffer' = WithRoom(buffer)
  /\ pc' = IF disposed THEN "ended" ELSE "waiting"
  /\ UNCHANGED <<peerVars, delivered, rxBeginning, headerVars, received, disposed>>

(* OnReceive and the beginning of OnReceiveInternal, under the lock.       *)
Receive ==
  /\ pc = "waiting" /\ ~disposed
  /\ \E n \in 1 .. Len(stream) - delivered :
       /\ n =< Room(buffer)
       /\ buffer' = Stretch(Filled(buffer, SubSeq(stream, delivered + 1, delivered + n)), n)
       /\ delivered' = delivered + n
  /\ pc' = "arrived"
  /\ UNCHANGED <<peerVars, rxBeginning, headerVars, received, disposed>>

(* The callback of a socket that Dispose has closed.                       *)
Aborted ==
  /\ pc = "waiting" /\ disposed
  /\ pc' = "ended"
  /\ UNCHANGED <<peerVars, delivered, buffer, rxBeginning, headerVars, received, disposed>>

(* What follows once a header is known: wait for the rest, or deliver.     *)
Await(b, length) ==
  IF Length(b) < length
  THEN pc' = "begin" /\ rxBeginning' = FALSE
  ELSE pc' = "deliver" /\ UNCHANGED rxBeginning

(* ParseHeader on b, and its outcome.                                      *)
Parse(b) ==
  \E n \in HeaderLengths(b) :
    LET value == ReadVariable(GetBytes(b, n), n)
        shrunk == Shrink(Skip(b, n), n)
    IN  /\ buffer' = shrunk
        /\ lengthToReceive' = value \div 2
        /\ rxTransformed' = (value % 2 = 1)
        /\ Await(shrunk, value \div 2)

(* Mutant of NoHeader: the bytes of a part of a header are not restored.   *)
NoHeaderUnrestored(b) ==
  /\ HeaderLengths(b) = {}
  /\ buffer' = [b EXCEPT !.front = @ + Length(b), !.position = @ + Length(b)]
  /\ rxBeginning' = TRUE
  /\ pc' = "begin"
  /\ UNCHANGED headerVars

NoHeader(b) ==
  /\ HeaderLengths(b) = {}
  /\ buffer' = Rewind(b)
  /\ rxBeginning' = TRUE
  /\ pc' = "begin"
  /\ UNCHANGED headerVars

Live == buffer.blocks # <<>>

Arrived ==
  /\ pc = "arrived"
  /\ \/ rxBeginning /\ Live /\ (Parse(Rewind(buffer)) \/ NoHeader(Rewind(buffer)))
     \/ ~rxBeginning /\ Await(buffer, lengthToReceive)
        /\ UNCHANGED <<buffer, headerVars>>
  /\ UNCHANGED <<peerVars, delivered, received, disposed>>

(* The bytes marked are transformed back in place and loaded, which reads  *)
(* all of them or stops where it fails: at none when they cannot be        *)
(* transformed back, after their type when it is unknown.  What is not read*)
(* is left to Trim.                                                        *)
Retrieve ==
  /\ pc = "deliver" /\ Live
  /\ LET marked == Rewind(MarkToRead(buffer, lengthToReceive))
         body == GetBytes(marked, lengthToReceive)
     IN  /\ \E n \in 0 .. lengthToReceive : buffer' = Skip(marked, n)
         /\ received' = Append(received, [body |-> body, transformed |-> rxTransformed])
  /\ pc' = "next"
  /\ UNCHANGED <<peerVars, delivered, rxBeginning, headerVars, disposed>>

(* The end of the loop; BeginReceive comes after the test of disposed.     *)
Continue ==
  /\ pc = "next" /\ ~disposed
  /\ LET trimmed == Trim(buffer)
     IN  IF IsEmpty(trimmed)
         THEN /\ buffer' = trimmed /\ rxBeginning' = TRUE /\ pc' = "begin"
              /\ UNCHANGED headerVars
         ELSE Parse(trimmed) \/ NoHeader(trimmed)
  /\ UNCHANGED <<peerVars, delivered, received, disposed>>

Stop ==
  /\ pc = "next" /\ disposed
  /\ pc' = "ended"
  /\ UNCHANGED <<peerVars, delivered, buffer, rxBeginning, headerVars, received, disposed>>

(* The buffer throws without its blocks: OnReceive catches, OnDisconnect   *)
(* finds the session disposed.                                             *)
Throw ==
  /\ ~Live
  /\ pc = "deliver" \/ (pc = "arrived" /\ rxBeginning)
  /\ pc' = "ended"
  /\ UNCHANGED <<peerVars, delivered, buffer, rxBeginning, headerVars, received, disposed>>

(* LinkSession.Dispose on another thread.                                  *)
Dispose ==
  /\ ~disposed
  /\ disposed' = TRUE
  /\ buffer' = Cleanup(buffer)
  /\ UNCHANGED <<peerVars, delivered, rxBeginning, headerVars, received, pc>>

Receiver == BeginReceive \/ Receive \/ Aborted \/ Arrived \/ Retrieve \/ Continue \/ Stop \/ Throw
ReceptionNext == PeerSends \/ Receiver \/ Dispose

ReceptionSpec ==
  ReceptionInit /\ [][ReceptionNext]_receptionVars /\ WF_receptionVars(Receiver)
---------------------------------------------------------------------------
(* No position leaves the buffer, so none of Position, Shrink, Stretch and *)
(* MarkToRead throws while the session lives.                              *)
ReceptionTypeOK ==
  /\ sent \in Seq(PeerEvents)
  /\ stream \in Seq(Bytes) /\ delivered \in 0 .. Len(stream)
  /\ buffer \in Buffers
  /\ Live => /\ buffer.front =< buffer.position /\ buffer.position =< buffer.back
             /\ buffer.back =< Capacity(buffer) /\ buffer.marker =< buffer.back
             /\ buffer.current < Len(buffer.blocks)
  /\ received \in Seq(Event)
  /\ lengthToReceive \in Nat
  /\ rxBeginning \in BOOLEAN /\ rxTransformed \in BOOLEAN /\ disposed \in BOOLEAN
  /\ pc \in {"begin", "waiting", "arrived", "deliver", "next", "ended"}

(* What is cut out to be loaded is what was sent, in order and whole, with *)
(* its flag, whatever the pieces it came in, the blocks it lies across and *)
(* how much was read of the events before it.                              *)
Framed == IsPrefix(received, sent)

(* Segments do not pile up over the life of a session: besides the room for*)
(* the next receive a buffer has no more bytes than some unfinished frame  *)
(* takes, with a block begun before it and one after it.                   *)
FrameLengths == {0} \cup {Len(Frame(sent[i])) : i \in DOMAIN sent}
SegmentsBounded ==
  \E n \in FrameLengths : Capacity(buffer) =< n + BlockSize * (2 + 2 ^ MaxLevel)

(* Every event sent is cut out in the end, unless the session is disposed. *)
AllReceived ==
  \A i \in 1 .. MaxSent : Len(sent) >= i ~> (disposed \/ Len(received) >= i)
=============================================================================
