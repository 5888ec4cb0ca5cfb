------------------------- MODULE LinkSessionProofs --------------------------
(***************************************************************************)
(* Theorems about LinkSession for any number of threads and events: its    *)
(* types, the exclusion on which its unlocked buffers rest, and the order  *)
(* and integrity of what it hands to the socket.                           *)
(***************************************************************************)
EXTENDS LinkSession, TLAPS

(* Appending to and concatenating sequences.                               *)
LEMMA AppendType ==
  ASSUME NEW S, NEW s \in Seq(S), NEW e \in S
  PROVE  /\ Append(s, e) \in Seq(S)
         /\ Append(s, e) # <<>>
         /\ Len(Append(s, e)) = Len(s) + 1
         /\ Append(s, e)[Len(s) + 1] = e
  OBVIOUS

LEMMA ConcatType ==
  ASSUME NEW S, NEW s \in Seq(S), NEW u \in Seq(S)
  PROVE  /\ s \o u \in Seq(S)
         /\ s \o <<>> = s
         /\ <<>> \o s = s
  OBVIOUS

(* A sequence is a prefix of whatever extends it.                          *)
LEMMA PrefixOfConcat ==
  ASSUME NEW S, NEW s \in Seq(S), NEW u \in Seq(S)
  PROVE  IsPrefix(s, s \o u)
  BY DEF IsPrefix

LEMMA PrefixOfAppend ==
  ASSUME NEW S, NEW s \in Seq(S), NEW u \in Seq(S), NEW e \in S, IsPrefix(s, u)
  PROVE  IsPrefix(s, Append(u, e))
  BY DEF IsPrefix

-----------------------------------------------------------------------------
(***************************************************************************)
(* The inductive invariant of the exclusion.  NeverBeginsEmpty belongs to  *)
(* it: a BeginSend that found nothing would leave txFlag set with no one   *)
(* busy.                                                                   *)
(***************************************************************************)
Exclusion == TypeOK /\ OneTransmitter /\ NeverBeginsEmpty

(* A thread inside a call is the one transmitter.                          *)
LEMMA StepAlone ==
  ASSUME Exclusion, NEW t \in Threads, pc[t] # "idle"
  PROVE  /\ \A u \in Threads : u # t => pc[u] = "idle"
         /\ pending = 0
         /\ ~disposed => txFlag
  BY DEF Exclusion, OneTransmitter, Busy, TypeOK

(* An operation to complete means that no thread is inside a call.         *)
LEMMA CompletionAlone ==
  ASSUME Exclusion, pending > 0
  PROVE  /\ \A u \in Threads : pc[u] = "idle"
         /\ pending = 1
         /\ ~disposed => txFlag
  BY DEF Exclusion, OneTransmitter, Busy, TypeOK

LEMMA ExclusionStep == Exclusion /\ [Next]_vars => Exclusion'
  <1> SUFFICES ASSUME Exclusion, [Next]_vars PROVE Exclusion'
    OBVIOUS
  <1> USE DEF Exclusion, OneTransmitter, NeverBeginsEmpty, Busy, TypeOK, Places, Goto
  <1>1. ASSUME NEW t \in Threads, NEW e \in Events, Send(t, e) PROVE Exclusion'
    <2>1. /\ toSend' \in Seq(Events) /\ toSend' # <<>>
          /\ accepted' \in Seq(Events)
      BY <1>1, AppendType DEF Send
    <2>2. CASE txFlag
      BY <1>1, <2>1, <2>2 DEF Send, Claim
    <2>3. CASE ~txFlag
      <3>1. (\A u \in Threads : pc[u] = "idle") /\ pending = 0
        BY <1>1, <2>3 DEF Send
      <3> QED
        BY <1>1, <2>1, <2>3, <3>1 DEF Send, Claim
    <2> QED
      BY <2>2, <2>3
  <1>2. ASSUME NEW t \in Threads, BeginSend(t) PROVE Exclusion'
    <2>1. toSend # <<>>
      BY <1>2 DEF BeginSend
    <2>2. toSend' \in Seq(Events)
      BY <1>2, <2>1 DEF BeginSend, Swap
    <2> QED
      BY <1>2, <2>1, <2>2, StepAlone DEF BeginSend, Swap
  <1>3. ASSUME NEW t \in Threads, SendInternal(t) PROVE Exclusion'
    <2>1. wire \o sending \in Seq(Events)
      BY ConcatType
    <2>2. (\A u \in Threads : u # t => pc[u] = "idle") /\ pending = 0
          /\ (~disposed => txFlag)
      BY <1>3, StepAlone DEF SendInternal
    <2>3. wire' \in Seq(Events) /\ pending' \in {0, 1}
      <3>1. CASE disposed
        <4>1. wire' = wire /\ pending' = pending
          BY <1>3, <3>1 DEF SendInternal
        <4> QED
          BY <4>1
      <3>2. CASE ~disposed
        <4>1. wire' = wire \o sending /\ pending' = pending + 1
          BY <1>3, <3>2 DEF SendInternal
        <4> HIDE DEF Exclusion
        <4> QED
          BY <4>1, <2>1, <2>2
      <3> QED
        BY <3>1, <3>2
    <2>4. \A u \in Threads : pc'[u] = "idle"
      BY <1>3, <2>2 DEF SendInternal
    <2>5. CASE disposed
      BY <1>3, <2>2, <2>3, <2>4, <2>5 DEF SendInternal
    <2>6. CASE ~disposed
      <3>1. pending' = 1 /\ txFlag' = TRUE
        BY <1>3, <2>2, <2>6 DEF SendInternal
      <3> QED
        BY <1>3, <2>3, <2>4, <3>1 DEF SendInternal
    <2> QED
      BY <2>5, <2>6
  <1>4. ASSUME NEW t \in Threads, SendError(t) PROVE Exclusion'
    BY <1>4, StepAlone DEF SendError
  <1>5. ASSUME NEW t \in Threads, OnSendDisposed(t) PROVE Exclusion'
    BY <1>5, StepAlone DEF OnSendDisposed
  <1>6. ASSUME NEW t \in Threads, OnSendNext(t) PROVE Exclusion'
    <2>1. sending' \in Seq(Events)
      BY <1>6 DEF OnSendNext
    <2> QED
      BY <1>6, <2>1, StepAlone DEF OnSendNext
  <1>7. ASSUME NEW t \in Threads, OnSend(t) PROVE Exclusion'
    BY <1>7, CompletionAlone DEF OnSend
  <1>8. ASSUME NEW t \in Threads, OnSendError(t) PROVE Exclusion'
    BY <1>8, CompletionAlone DEF OnSendError
  <1>9. CASE Dispose
    BY <1>9 DEF Dispose
  <1>10. CASE UNCHANGED vars
    BY <1>10 DEF vars
  <1> QED
    BY <1>1, <1>2, <1>3, <1>4, <1>5, <1>6, <1>7, <1>8, <1>9, <1>10
    DEF Next, Step, Completion

LEMMA ExclusionInit == Init => Exclusion
  <1> SUFFICES ASSUME Init PROVE Exclusion
    OBVIOUS
  <1>1. <<>> \in Seq(Events)
    OBVIOUS
  <1>2. TypeOK
    BY <1>1 DEF Init, TypeOK, Places
  <1>3. Busy = {} /\ pending = 0 /\ txFlag = FALSE
    BY DEF Init, Busy
  <1>4. OneTransmitter
    BY <1>3 DEF OneTransmitter
  <1>5. NeverBeginsEmpty
    BY DEF Init, NeverBeginsEmpty
  <1> QED
    BY <1>2, <1>4, <1>5 DEF Exclusion

(* Type correctness of the session and of the threads that use it.         *)
THEOREM TypeCorrect == SafeSpec => []TypeOK
  <1>1. Exclusion => TypeOK
    BY DEF Exclusion
  <1> QED
    BY <1>1, ExclusionInit, ExclusionStep, PTL DEF SafeSpec

(***************************************************************************)
(* However many threads send and complete, one at a time uses the buffers, *)
(* and txFlag tells whether one does.                                      *)
(***************************************************************************)
THEOREM OneTransmits == SafeSpec => []OneTransmitter
  <1>1. Exclusion => OneTransmitter
    BY DEF Exclusion
  <1> QED
    BY <1>1, ExclusionInit, ExclusionStep, PTL DEF SafeSpec

(* A BeginSend has something to send, so it never jams the session.        *)
THEOREM BeginsNonEmpty == SafeSpec => []NeverBeginsEmpty
  <1>1. Exclusion => NeverBeginsEmpty
    BY DEF Exclusion
  <1> QED
    BY <1>1, ExclusionInit, ExclusionStep, PTL DEF SafeSpec

-----------------------------------------------------------------------------
(* Nothing is captured unless some thread is between swap and socket.      *)
LEMMA CapturedType ==
  ASSUME TypeOK
  PROVE  /\ Captured \in Seq(Events)
         /\ (\A u \in Threads : pc[u] # "capture") => Captured = <<>>
         /\ (\E u \in Threads : pc[u] = "capture") => Captured = sending
  BY DEF Captured, TypeOK

(* A step that keeps every thread out of, or in, "capture" keeps Captured. *)
LEMMA CapturedSame ==
  ASSUME sending' = sending,
         \A u \in Threads : pc'[u] = "capture" <=> pc[u] = "capture"
  PROVE  Captured' = Captured
  BY DEF Captured

(* The same when no thread is in "capture", whatever the list holds.       *)
LEMMA CapturedNone ==
  ASSUME \A u \in Threads : pc[u] # "capture",
         \A u \in Threads : pc'[u] # "capture"
  PROVE  Captured' = <<>> /\ Captured = <<>>
  BY DEF Captured

LEMMA InOrderStep == Exclusion /\ InOrder /\ [Next]_vars => InOrder'
  <1> SUFFICES ASSUME Exclusion, InOrder, [Next]_vars PROVE InOrder'
    OBVIOUS
  <1>0. TypeOK /\ pc \in [Threads -> Places]
    BY DEF Exclusion, TypeOK
  <1>a. /\ toSend \in Seq(Events) /\ sending \in Seq(Events)
        /\ accepted \in Seq(Events) /\ wire \in Seq(Events)
        /\ Captured \in Seq(Events)
    BY <1>0, CapturedType DEF TypeOK
  <1>1. ASSUME NEW t \in Threads, NEW e \in Events, Send(t, e) PROVE InOrder'
    <2>1. Captured' = Captured
      BY <1>1, <1>0, CapturedSame DEF Send, Claim, Goto
    <2>2. IsPrefix(wire', accepted')
      BY <1>1, <1>a, PrefixOfAppend DEF Send, InOrder
    <2>3. wire \o Captured \in Seq(Events)
      BY <1>a, ConcatType
    <2>4. Append((wire \o Captured) \o toSend, e)
            = (wire \o Captured) \o Append(toSend, e)
      <3> DEFINE given == wire \o Captured
      <3>1. given \in Seq(Events) /\ toSend \in Seq(Events) /\ e \in Events
        BY <1>1, <1>a, <2>3
      <3> HIDE DEF given
      <3>2. Append(given \o toSend, e) = given \o Append(toSend, e)
        BY <3>1
      <3> QED
        BY <3>2 DEF given
    <2>5. accepted' = (wire' \o Captured') \o toSend'
      BY <1>1, <2>1, <2>4 DEF Send, InOrder
    <2> QED
      BY <2>2, <2>5 DEF InOrder
  <1>2. ASSUME NEW t \in Threads, BeginSend(t) PROVE InOrder'
    <2>1. \A u \in Threads : pc[u] # "capture"
      BY <1>2, StepAlone DEF BeginSend
    <2>2. Captured = <<>>
      BY <2>1, <1>0, CapturedType
    <2>3. toSend # <<>>
      BY <1>2 DEF BeginSend, Exclusion, NeverBeginsEmpty
    <2>4. Captured' = toSend /\ toSend' = <<>>
      BY <1>2, <1>0, <2>3 DEF BeginSend, Swap, Goto, Captured
    <2>5. (wire \o <<>>) \o toSend = (wire \o toSend) \o <<>>
      BY <1>a, ConcatType
    <2> QED
      BY <1>2, <2>2, <2>4, <2>5 DEF BeginSend, InOrder
  <1>3. ASSUME NEW t \in Threads, SendInternal(t) PROVE InOrder'
    <2>1. Captured = sending
      BY <1>3, <1>0, CapturedType DEF SendInternal
    <2>2. \A u \in Threads : pc'[u] # "capture"
      BY <1>3, <1>0, StepAlone DEF SendInternal, Goto
    <2>3. Captured' = <<>>
      BY <2>2 DEF Captured
    <2>4. CASE disposed
      BY <1>3, <2>4 DEF SendInternal, InOrder
    <2>5. CASE ~disposed
      <3>1. wire' = wire \o sending /\ toSend' = toSend /\ accepted' = accepted
        BY <1>3, <2>5 DEF SendInternal
      <3>2. accepted = (wire \o sending) \o toSend
        BY <2>1, <2>5 DEF InOrder
      <3>3. wire \o sending \in Seq(Events) /\ (wire \o sending) \o <<>> = wire \o sending
        BY <1>a, ConcatType
      <3>4. IsPrefix(wire', accepted')
        BY <1>a, <3>1, <3>2, <3>3, PrefixOfConcat
      <3>5. accepted' = (wire' \o Captured') \o toSend'
        BY <2>3, <3>1, <3>2, <3>3
      <3> QED
        BY <3>4, <3>5 DEF InOrder
    <2> QED
      BY <2>4, <2>5
  <1>4. ASSUME NEW t \in Threads, SendError(t) PROVE InOrder'
    BY <1>4 DEF SendError, InOrder
  <1>5. ASSUME NEW t \in Threads, OnSendDisposed(t) PROVE InOrder'
    <2>1. Captured' = Captured
      BY <1>5, <1>0, CapturedSame DEF OnSendDisposed, Goto
    <2> QED
      BY <1>5, <2>1 DEF OnSendDisposed, InOrder
  <1>6. ASSUME NEW t \in Threads, OnSendNext(t) PROVE InOrder'
    <2>1. \A u \in Threads : pc[u] # "capture" /\ pc'[u] # "capture"
      BY <1>6, <1>0, StepAlone DEF OnSendNext, Goto
    <2>2. Captured' = Captured
      BY <2>1, CapturedNone
    <2> QED
      BY <1>6, <2>2 DEF OnSendNext, InOrder
  <1>7. ASSUME NEW t \in Threads, OnSend(t) PROVE InOrder'
    <2>1. Captured' = Captured
      BY <1>7, <1>0, CapturedSame DEF OnSend, Goto
    <2> QED
      BY <1>7, <2>1 DEF OnSend, InOrder
  <1>8. ASSUME NEW t \in Threads, OnSendError(t) PROVE InOrder'
    BY <1>8 DEF OnSendError, InOrder
  <1>9. CASE Dispose
    BY <1>9 DEF Dispose, InOrder
  <1>10. CASE UNCHANGED vars
    <2>1. Captured' = Captured
      BY <1>10 DEF vars, Captured
    <2> QED
      BY <1>10, <2>1 DEF vars, InOrder
  <1> QED
    BY <1>1, <1>2, <1>3, <1>4, <1>5, <1>6, <1>7, <1>8, <1>9, <1>10
    DEF Next, Step, Completion

(***************************************************************************)
(* For any number of threads and events: what the socket has been given is *)
(* a prefix of what Send accepted, and until the session is disposed the   *)
(* rest is captured or still to send, in order.                            *)
(***************************************************************************)
THEOREM SentInOrder == SafeSpec => []InOrder
  <1>1. Init => InOrder
    <2> SUFFICES ASSUME Init PROVE InOrder
      OBVIOUS
    <2>1. Captured = <<>>
      BY DEF Init, Captured
    <2>2. <<>> \in Seq(Events) /\ <<>> \o <<>> = <<>>
      OBVIOUS
    <2>3. IsPrefix(wire, accepted)
      BY <2>2, PrefixOfConcat DEF Init
    <2>4. accepted = wire \o Captured \o toSend
      BY <2>1, <2>2 DEF Init
    <2> QED
      BY <2>3, <2>4 DEF InOrder
  <1> QED
    BY <1>1, ExclusionInit, ExclusionStep, InOrderStep, PTL DEF SafeSpec
=============================================================================
