--------------------------- MODULE MuxCallProofs ----------------------------
(***************************************************************************)
(* Theorems about a call over a multiplexed connection, for every window,  *)
(* every set of methods, handlers, payloads and errors, and every length   *)
(* of the exchange: type correctness, the inductive invariant Inv and with *)
(* it the safety properties of a call, the refinement of DuplexPipe, and   *)
(* how a call ends.                                                        *)
(***************************************************************************)
EXTENDS MuxCall, TLAPS

-----------------------------------------------------------------------------
(* Type correctness.                                                       *)

\* An INVOKE message is a message: the type of a method has a digit.
LEMMA CallMessageType ==
    ASSUME NEW m \in Methods
    PROVE  NewCallMessage(m) \in Messages /\ ~IsError(NewCallMessage(m))
<1>1. Digit(m.type) \in Text
  <2>1. m.type \in 0 .. 5
    BY DEF Methods, MethodTypes
  <2>2. Digit(m.type) \in Digits
    BY <2>1 DEF Digit, Digits, MethodTypeUnary, MethodTypeServerStream,
      MethodTypeClientStream, MethodTypeBidiStream, MethodTypePublisher,
      MethodTypeConsumer
  <2> QED
    BY <2>2, DigitsAssumption
<1>2. String(m) \in Segments
  BY <1>1 DEF String, Methods, Segments
<1> QED
  BY <1>2 DEF NewCallMessage, Messages, MessageTypes, IsError

\* Every message a user of a call sends is a message, and only NewErrorMessage
\* makes an ERROR.
LEMMA UserMessageType ==
    ASSUME NEW m \in {NewDataMessage(d) : d \in Payloads} \cup {NewCloseMessage}
    PROVE  m \in Messages /\ ~IsError(m)
<1>1. NewCloseMessage \in Messages /\ ~IsError(NewCloseMessage)
  BY DEF NewCloseMessage, Messages, MessageTypes, Segments, IsError
<1>2. ASSUME NEW d \in Payloads
      PROVE  NewDataMessage(d) \in Messages /\ ~IsError(NewDataMessage(d))
  BY ConstantsAssumption DEF NewDataMessage, Messages, MessageTypes, IsError
<1> QED
  BY <1>1, <1>2

LEMMA ErrorMessageType ==
    ASSUME NEW e \in ErrorTexts
    PROVE  /\ NewErrorMessage(e) \in Messages
           /\ IsError(NewErrorMessage(e)) /\ NewErrorMessage(e).data = e
BY ConstantsAssumption DEF NewErrorMessage, Messages, MessageTypes, IsError

\* The two sides are each other's peers.
LEMMA PeerType ==
    /\ \A s \in Sides : Peer(s) \in Sides /\ Peer(s) # s /\ Peer(Peer(s)) = s
    /\ \A s \in Sides, t \in Sides : s = t \/ s = Peer(t)
    /\ Peer("client") = "server" /\ Peer("server") = "client"
    /\ "client" \in Sides /\ "server" \in Sides
BY DEF Sides, Peer

-----------------------------------------------------------------------------
(* Type correctness.                                                       *)

LEMMA InterpretType ==
    ASSUME NEW m \in Messages, NEW want
    PROVE  Interpret(m, want) \in Results
BY DEF Interpret, Result, Results, Messages, Segments

\* The errors that conn.go makes itself are texts, and none is another.
LEMMA TextsType ==
    /\ NoErr \in Segments /\ Torn \in Segments /\ ReadErr \in Segments
    /\ NoErr # Torn /\ NoErr # ReadErr /\ Torn # ReadErr
<1>1. "TornError" \in Text /\ "UnexpectedEOF" \in Text
  BY ErrorsAssumption
<1>2. <<>> \in Seq(Text) /\ <<"TornError">> \in Seq(Text) /\ <<"UnexpectedEOF">> \in Seq(Text)
  BY <1>1
<1>3. <<>> # <<"TornError">> /\ <<>> # <<"UnexpectedEOF">>
  <2>1. Len(<<>>) = 0 /\ Len(<<"TornError">>) = 1 /\ Len(<<"UnexpectedEOF">>) = 1
    OBVIOUS
  <2> QED
    BY <2>1
<1>4. <<"TornError">> # <<"UnexpectedEOF">>
  <2>1. <<"TornError">>[1] = "TornError" /\ <<"UnexpectedEOF">>[1] = "UnexpectedEOF"
    OBVIOUS
  <2> QED
    BY <2>1
<1> QED
  BY <1>2, <1>3, <1>4 DEF NoErr, Torn, ReadErr, Segments

\* The errors a read of the field may find are texts.
LEMMA ErrReadsType ==
    ASSUME TypeOK, NEW s \in Sides
    PROVE  ErrReads(s) \subseteq Segments
<1>1. rd[s] = "store" => Head(hand[s]).data \in Segments
  <2>1. rd[s] = "store" => hand[s] \in Seq(Messages) /\ Len(hand[s]) = 1
    BY DEF TypeOK
  <2>2. rd[s] = "store" => Head(hand[s]) \in Messages
    BY <2>1
  <2> QED
    BY <2>2 DEF Messages
<1>2. err[s] \in Segments /\ ret[s].val \in Segments
  BY DEF TypeOK, Results
<1> QED
  BY <1>1, <1>2, TextsType DEF ErrReads

\* A prefix of a sequence of messages is one, and holds the same messages.
LEMMA SubSeqType ==
    ASSUME NEW q \in Seq(Messages), NEW n \in 0 .. Len(q)
    PROVE  /\ SubSeq(q, 1, n) \in Seq(Messages) /\ Len(SubSeq(q, 1, n)) = n
           /\ \A i \in 1 .. n : SubSeq(q, 1, n)[i] = q[i]
OBVIOUS

LEMMA SingletonType ==
    ASSUME NEW m \in Messages
    PROVE  <<m>> \in Seq(Messages) /\ Len(<<m>>) = 1 /\ Head(<<m>>) = m
OBVIOUS

\* Handing a message to Encode keeps the type of snd.
LEMMA SndType ==
    ASSUME TypeOK, NEW s \in Sides, NEW m \in Messages,
           snd' = [snd EXCEPT ![s] = <<m>>]
    PROVE  snd' \in [Sides -> Seq(Messages)] /\ \A t \in Sides : Len(snd'[t]) <= 1
<1>1. <<m>> \in Seq(Messages) /\ Len(<<m>>) = 1
  BY SingletonType
<1>2. snd \in [Sides -> Seq(Messages)] /\ \A t \in Sides : Len(snd[t]) <= 1
  BY DEF TypeOK
<1>3. \A t \in Sides : snd'[t] = IF t = s THEN <<m>> ELSE snd[t]
  BY <1>2
<1> QED
  BY <1>1, <1>2, <1>3

\* So does the check of err that comes first.
LEMMA BeginSendType ==
    ASSUME TypeOK, NEW s \in Sides, NEW m \in Messages, BeginSend(s, m)
    PROVE  /\ snd' \in [Sides -> Seq(Messages)] /\ \A t \in Sides : Len(snd'[t]) <= 1
           /\ sret' \in [Sides -> {"none", "ok", "err", "failed"}]
<1>1. CASE snd' = [snd EXCEPT ![s] = <<m>>] /\ UNCHANGED sret
  BY <1>1, SndType DEF TypeOK
<1>2. CASE sret' = [sret EXCEPT ![s] = "err"] /\ UNCHANGED snd
  BY <1>2 DEF TypeOK
<1> QED
  BY <1>1, <1>2 DEF BeginSend

LEMMA TypeInit == Init => TypeOK
<1> SUFFICES ASSUME Init PROVE TypeOK
  OBVIOUS
<1>1. NoResult \in Results
  BY TextsType DEF NoResult, Result, Results, NoErr
<1>2. <<>> \in Seq(Messages) /\ Len(<<>>) = 0
  OBVIOUS
<1>3. [s \in Sides |-> <<>>] \in [Sides -> Seq(Messages)]
  BY <1>2
<1>4. /\ hand \in [Sides -> Seq(Messages)] /\ rd \in [Sides -> ReaderStates]
      /\ \A s \in Sides : hand[s] = <<>> /\ rd[s] = "none"
  BY <1>3 DEF Init, ConnInit, ReaderStates
<1>5. /\ wire \in [Sides -> Seq(Messages)] /\ sent \in [Sides -> Seq(Messages)]
      /\ taken \in [Sides -> Seq(Messages)] /\ snd \in [Sides -> Seq(Messages)]
      /\ \A s \in Sides : snd[s] = <<>>
  BY <1>3 DEF Init, StreamInit, ConnInit
<1>6. /\ err \in [Sides -> Segments] /\ rcv \in [Sides -> RecvStates]
      /\ ret \in [Sides -> Results] /\ sret \in [Sides -> {"none", "ok", "err", "failed"}]
  BY <1>1, TextsType DEF Init, ConnInit, RecvStates
<1>7. /\ link \in {"up", "down"} /\ fin \in [Sides -> BOOLEAN]
      /\ rst \in [Sides -> BOOLEAN] /\ cut \in [Sides -> BOOLEAN]
  BY DEF Init, StreamInit
<1> QED
  BY <1>2, <1>4, <1>5, <1>6, <1>7, PeerType DEF Init, TypeOK, CallerStates,
    ServerStates

LEMMA TypeStep == TypeOK /\ [Next]_vars => TypeOK'
<1> SUFFICES ASSUME TypeOK, [Next]_vars PROVE TypeOK'
  OBVIOUS
<1>1. CASE Caller \/ Server
  <2>1. CASE Invoke
    <3>1. PICK m \in Invoked : snd' = [snd EXCEPT !["client"] = <<NewCallMessage(m)>>]
      BY <2>1 DEF Invoke
    <3>2. NewCallMessage(m) \in Messages
      BY CallMessageType, ConstantsAssumption
    <3>3. snd' \in [Sides -> Seq(Messages)] /\ \A t \in Sides : Len(snd'[t]) <= 1
      BY <3>1, <3>2, SndType, PeerType
    <3>4. rd' \in [Sides -> ReaderStates]
      BY <2>1 DEF Invoke, StartReader, TypeOK, ReaderStates
    <3>5. \A t \in Sides :
             Len(hand'[t]) = IF rd'[t] \in {"store", "offer", "last"} THEN 1 ELSE 0
      BY <2>1 DEF Invoke, StartReader, TypeOK
    <3> QED
      BY <2>1, <3>3, <3>4, <3>5 DEF Invoke, StartReader, TypeOK, streamVars,
        CallerStates
  <2>2. CASE InvokeFails
    BY <2>2 DEF TypeOK, InvokeFails, streamVars, connVars, callVars,
      ReaderStates, RecvStates, CallerStates, ServerStates
  <2>3. CASE InvokeSent
    BY <2>3 DEF TypeOK, InvokeSent, streamVars, connVars, callVars,
      ReaderStates, RecvStates, CallerStates, ServerStates
  <2>4. CASE InvokeSendFails
    BY <2>4 DEF TypeOK, InvokeSendFails, CloseHalf, streamVars, connVars, callVars,
      ReaderStates, RecvStates, CallerStates, ServerStates
  <2>5. CASE CallerCloses
    BY <2>5 DEF TypeOK, CallerCloses, CloseHalf, Sending, streamVars, connVars,
      callVars, ReaderStates, RecvStates, CallerStates, ServerStates
  <2>6. CASE Accept
    BY <2>6 DEF TypeOK, Accept, StartReader, streamVars, connVars, callVars,
      ReaderStates, RecvStates, CallerStates, ServerStates
  <2>7. CASE Dispatch
    BY <2>7 DEF TypeOK, Dispatch, streamVars, connVars, callVars,
      ReaderStates, RecvStates, CallerStates, ServerStates
  <2>8. CASE Reject
    BY <2>8 DEF TypeOK, Reject, CloseHalf, streamVars, connVars, callVars,
      ReaderStates, RecvStates, CallerStates, ServerStates
  <2>9. CASE HandlerReturns
    BY <2>9 DEF TypeOK, HandlerReturns, streamVars, connVars, callVars,
      ReaderStates, RecvStates, CallerStates, ServerStates
  <2>10. CASE ErrorSent
    BY <2>10 DEF TypeOK, ErrorSent, ErrorWritten, streamVars, connVars, callVars,
      ReaderStates, RecvStates, CallerStates, ServerStates
  <2>11. CASE ServerCloses
    BY <2>11 DEF TypeOK, ServerCloses, CloseHalf, streamVars, connVars, callVars,
      ReaderStates, RecvStates, CallerStates, ServerStates
  <2>12. CASE HandlerFails
    <3>1. PICK e \in ErrorTexts : BeginSend("server", NewErrorMessage(e))
      BY <2>12 DEF HandlerFails
    <3>2. NewErrorMessage(e) \in Messages
      BY ErrorMessageType
    <3>3. /\ snd' \in [Sides -> Seq(Messages)] /\ \A s \in Sides : Len(snd'[s]) <= 1
          /\ sret' \in [Sides -> {"none", "ok", "err", "failed"}]
      BY <3>1, <3>2, BeginSendType, PeerType
    <3> QED
      BY <2>12, <3>3 DEF HandlerFails, TypeOK, streamVars, ServerStates
  <2> QED
    BY <1>1, <2>1, <2>2, <2>3, <2>4, <2>5, <2>6, <2>7, <2>8, <2>9, <2>10, <2>11,
       <2>12 DEF Caller, Server
<1>2. CASE Drop
  <2>1. LinkDown(Sending)
    BY <1>2 DEF Drop
  <2>2. wire' \in [Sides -> Seq(Messages)]
    BY <2>1 DEF LinkDown, TypeOK
  <2> QED
    BY <1>2, <2>1, <2>2 DEF Drop, LinkDown, TypeOK, connVars, callVars
<1>3. ASSUME NEW s \in Sides, Send(s)
      PROVE  TypeOK'
  <2>1. PICK m \in {NewDataMessage(d) : d \in Payloads} \cup {NewCloseMessage} :
             BeginSend(s, m)
    BY <1>3 DEF Send
  <2>2. m \in Messages
    BY UserMessageType
  <2>3. /\ snd' \in [Sides -> Seq(Messages)] /\ \A t \in Sides : Len(snd'[t]) <= 1
        /\ sret' \in [Sides -> {"none", "ok", "err", "failed"}]
    BY <2>1, <2>2, BeginSendType
  <2> QED
    BY <1>3, <2>3 DEF Send, TypeOK, streamVars, callVars
<1>4. ASSUME NEW s \in Sides, Recv(s)
      PROVE  TypeOK'
  <2>1. PICK e \in ErrReads(s) :
          IF e # NoErr THEN RecvReturns(s, Result("error", e))
          ELSE /\ rcv' = [rcv EXCEPT ![s] = "wait"]
               /\ ret' = [ret EXCEPT ![s] = NoResult]
    BY <1>4 DEF Recv, RecvBegin
  <2>2. Result("error", e) \in Results /\ NoResult \in Results
    BY ErrReadsType, TextsType DEF Result, Results, NoResult, NoErr
  <2>3. ret' \in [Sides -> Results] /\ rcv' \in [Sides -> RecvStates]
    BY <2>1, <2>2 DEF RecvReturns, TypeOK, RecvStates
  <2> QED
    BY <1>4, <2>3 DEF Recv, RecvBegin, TypeOK, streamVars, callVars
<1>5. ASSUME NEW s \in Sides, Cancel(s)
      PROVE  TypeOK'
  <2>1. Result("ctx", <<>>) \in Results
    BY TextsType DEF Result, Results, NoErr
  <2> QED
    BY <1>5, <2>1 DEF Cancel, RecvCancel, RecvReturns, TypeOK, RecvStates,
      streamVars, callVars
<1>6. ASSUME NEW s \in Sides, ReaderStep(s)
      PROVE  TypeOK'
  <2>1. CASE Decode(s)
    <3>1. /\ wire[Peer(s)] \in Seq(Messages) /\ wire[Peer(s)] # <<>>
          /\ hand' = [hand EXCEPT ![s] = <<Head(wire[Peer(s)])>>]
          /\ rd' = [rd EXCEPT ![s] = IF IsError(Head(wire[Peer(s)]))
                                     THEN "store" ELSE "offer"]
          /\ wire' = [wire EXCEPT ![Peer(s)] = Tail(@)]
      BY <2>1, PeerType DEF Decode, Readable, Read, TypeOK
    <3>2. Head(wire[Peer(s)]) \in Messages /\ Tail(wire[Peer(s)]) \in Seq(Messages)
      BY <3>1
    <3> DEFINE m == Head(wire[Peer(s)])
    <3>3. <<m>> \in Seq(Messages) /\ Len(<<m>>) = 1
      BY <3>2, SingletonType
    <3>4. wire' \in [Sides -> Seq(Messages)]
      BY <3>1, <3>2, PeerType DEF TypeOK
    <3>5. hand' \in [Sides -> Seq(Messages)]
      BY <3>1, <3>3 DEF TypeOK
    <3>6. rd' \in [Sides -> ReaderStates]
      BY <3>1 DEF TypeOK, ReaderStates
    <3>7. \A t \in Sides :
             Len(hand'[t]) = IF rd'[t] \in {"store", "offer", "last"} THEN 1 ELSE 0
      BY <3>1, <3>3 DEF TypeOK
    <3>8. rd[s] = "run" /\ \A t \in Sides : t # s => rd'[t] = rd[t]
      BY <2>1, <3>1 DEF Decode, AtDecode, TypeOK
    <3> QED
      BY <1>6, <2>1, <3>4, <3>5, <3>6, <3>7, <3>8, PeerType
      DEF ReaderStep, Decode, TypeOK, callVars
  <2>2. CASE ReaderStored(s)
    <3>1. hand[s] \in Seq(Messages) /\ Len(hand[s]) = 1
      BY <2>2 DEF ReaderStored, TypeOK
    <3>2. Head(hand[s]) \in Messages
      BY <3>1
    <3>3. Head(hand[s]).data \in Segments
      BY <3>2 DEF Messages
    <3> QED
      BY <1>6, <2>2, <3>3 DEF ReaderStep, ReaderStored, Keep, TypeOK, ReaderStates,
        streamVars, callVars
  <2>3. CASE DecodeEof(s)
    BY <1>6, <2>3 DEF ReaderStep, DecodeEof, AtDecode, CloseChannel, TypeOK,
      ReaderStates, streamVars, callVars
  <2>4. CASE DecodeFail(s)
    BY <1>6, <2>4 DEF ReaderStep, DecodeFail, AtDecode, TypeOK, ReaderStates,
      streamVars, callVars
  <2> QED
    BY <1>6, <2>1, <2>2, <2>3, <2>4 DEF ReaderStep, Reader
<1>7. ASSUME NEW s \in Sides, RecvStep(s)
      PROVE  TypeOK'
  <2>1. CASE RecvTake(s, Want(s))
    <3>1. hand[s] \in Seq(Messages) /\ Len(hand[s]) = 1
      BY <2>1 DEF RecvTake, TypeOK
    <3>2. Head(hand[s]) \in Messages
      BY <3>1
    <3>3. Interpret(Head(hand[s]), Want(s)) \in Results
      BY <3>2, InterpretType
    <3>4. /\ ret' \in [Sides -> Results] /\ rcv' \in [Sides -> RecvStates]
          /\ taken' \in [Sides -> Seq(Messages)]
      BY <2>1, <3>2, <3>3 DEF RecvTake, TypeOK, RecvStates
    <3>5. hand' \in [Sides -> Seq(Messages)]
      <4>1. <<>> \in Seq(Messages)
        OBVIOUS
      <4> QED
        BY <2>1, <4>1 DEF RecvTake, HandOver, TypeOK
    <3>6. rd' \in [Sides -> ReaderStates]
      BY <2>1 DEF RecvTake, HandOver, TypeOK, ReaderStates
    <3>7. \A t \in Sides :
             Len(hand'[t]) = IF rd'[t] \in {"store", "offer", "last"} THEN 1 ELSE 0
      BY <2>1 DEF RecvTake, HandOver, TypeOK
    <3>8. rd[s] # "none" /\ \A t \in Sides : t # s => rd'[t] = rd[t]
      BY <2>1 DEF RecvTake, HandOver, TypeOK
    <3> QED
      BY <1>7, <2>1, <3>4, <3>5, <3>6, <3>7, <3>8, PeerType DEF RecvStep, RecvTake,
        TypeOK, streamVars, callVars
  <2>2. CASE RecvTakeFailure(s)
    <3>1. Result("error", ReadErr) \in Results
      BY TextsType DEF Result, Results
    <3> QED
      BY <1>7, <2>2, <3>1 DEF RecvStep, RecvTakeFailure, CloseChannel, TypeOK,
        ReaderStates, RecvStates, streamVars, callVars
  <2>3. CASE RecvStored(s)
    <3>1. ret[s].val \in Segments
      BY DEF TypeOK, Results
    <3> QED
      BY <1>7, <2>3, <3>1 DEF RecvStep, RecvStored, Keep, TypeOK, RecvStates,
        streamVars, callVars
  <2>4. CASE RecvClosed(s)
    <3>1. Result("eof", <<>>) \in Results
      BY TextsType DEF Result, Results, NoErr
    <3> QED
      BY <1>7, <2>4, <3>1 DEF RecvStep, RecvClosed, RecvReturns, TypeOK, RecvStates,
        streamVars, callVars
  <2> QED
    BY <1>7, <2>1, <2>2, <2>3, <2>4 DEF RecvStep, RecvProceeds
<1>8. ASSUME NEW s \in Sides, SendStep(s)
      PROVE  TypeOK'
  <2>1. CASE Encode(s)
    <3>1. snd[s] \in Seq(Messages) /\ snd[s] # <<>>
      BY <2>1 DEF Encode, TypeOK
    <3>2. Head(snd[s]) \in Messages
      BY <3>1
    <3>3. wire' \in [Sides -> Seq(Messages)] /\ sent' \in [Sides -> Seq(Messages)]
      BY <2>1, <3>2 DEF Encode, Write, TypeOK
    <3>4. snd' \in [Sides -> Seq(Messages)] /\ \A t \in Sides : Len(snd'[t]) <= 1
      <4>1. <<>> \in Seq(Messages) /\ Len(<<>>) = 0
        OBVIOUS
      <4> QED
        BY <2>1, <4>1 DEF Encode, TypeOK
    <3> QED
      BY <1>8, <2>1, <3>3, <3>4 DEF SendStep, Encode, TypeOK, callVars
  <2>2. CASE EncodeFails(s)
    BY <1>8, <2>2 DEF SendStep, EncodeFails, TypeOK, streamVars, callVars
  <2> QED
    BY <1>8, <2>1, <2>2 DEF SendStep, SendProceeds
<1>9. ASSUME NEW s \in Sides, Expire(s)
      PROVE  TypeOK'
  <2>1. PICK kept \in 0 .. Len(wire[Peer(s)]) :
             wire' = [wire EXCEPT ![s] = <<>>, ![Peer(s)] = SubSeq(@, 1, kept)]
    BY <1>9 DEF Expire, CloseTimeout
  <2>2. SubSeq(wire[Peer(s)], 1, kept) \in Seq(Messages)
    <3>1. wire[Peer(s)] \in Seq(Messages) /\ kept \in 0 .. Len(wire[Peer(s)])
      BY PeerType DEF TypeOK
    <3> QED
      BY <3>1, SubSeqType
  <2>3. wire' \in [Sides -> Seq(Messages)]
    <3>1. <<>> \in Seq(Messages) /\ wire \in [Sides -> Seq(Messages)]
      BY DEF TypeOK
    <3>2. [wire EXCEPT ![s] = <<>>] \in [Sides -> Seq(Messages)]
      BY <3>1
    <3>3. [wire EXCEPT ![s] = <<>>][Peer(s)] = wire[Peer(s)]
      BY <3>1, PeerType
    <3>4. wire' = [[wire EXCEPT ![s] = <<>>] EXCEPT
                      ![Peer(s)] = SubSeq(wire[Peer(s)], 1, kept)]
      BY <2>1, <3>3
    <3> QED
      BY <2>2, <3>2, <3>4
  <2> QED
    BY <1>9, <2>3, PeerType DEF Expire, CloseTimeout, TypeOK, connVars, callVars
<1>10. CASE UNCHANGED vars
  BY <1>10 DEF TypeOK, vars, streamVars, connVars, callVars
<1> QED
  BY <1>1, <1>2, <1>3, <1>4, <1>5, <1>6, <1>7, <1>8, <1>9, <1>10 DEF Next

\* The variables of a call keep their types (TypeOK), for every window and every
\* length of the exchange: run holds a message exactly while it has one to offer.
THEOREM TypeCorrect == Spec => []TypeOK
<1>1. Init => TypeOK
  BY TypeInit
<1>2. TypeOK /\ [Next]_vars => TypeOK'
  BY TypeStep
<1> QED
  BY <1>1, <1>2, PTL DEF Spec

-----------------------------------------------------------------------------
(* The inductive invariant: no error overtakes data, and the first error is *)
(* final.                                                                  *)

\* The variables that InOrder relates, and whether the stream broke.
flow == <<link, rst, sent, wire, hand, taken>>

\* The steps that move a message or break the stream, and all the others.
LEMMA FlowSteps ==
    ASSUME [Next]_vars
    PROVE  \/ UNCHANGED flow
           \/ Drop
           \/ \E s \in Sides : Expire(s)
           \/ \E s \in Sides : ReaderStep(s) /\ Decode(s)
           \/ \E s \in Sides : RecvStep(s) /\ RecvTake(s, Want(s))
           \/ \E s \in Sides : SendStep(s) /\ Encode(s)
<1>1. CASE Caller
  BY <1>1 DEF Caller, Invoke, InvokeFails, InvokeSent, InvokeSendFails, CallerCloses,
    CloseHalf, flow, streamVars, connVars
<1>2. CASE Server
  BY <1>2 DEF Server, Accept, Dispatch, Reject, HandlerReturns, HandlerFails,
    ErrorSent, ServerCloses, CloseHalf, flow, streamVars, connVars
<1>3. ASSUME NEW s \in Sides, Send(s) \/ Recv(s) \/ Cancel(s)
      PROVE  UNCHANGED flow
  BY <1>3 DEF Send, Recv, RecvBegin, Cancel, RecvCancel, flow, streamVars
<1>4. ASSUME NEW s \in Sides, ReaderStep(s), ~Decode(s)
      PROVE  UNCHANGED flow
  BY <1>4 DEF ReaderStep, Reader, ReaderStored, DecodeEof, DecodeFail, flow,
    streamVars
<1>5. ASSUME NEW s \in Sides, RecvStep(s), ~RecvTake(s, Want(s))
      PROVE  UNCHANGED flow
  BY <1>5 DEF RecvStep, RecvProceeds, RecvTakeFailure, RecvStored, RecvClosed, flow,
    streamVars
<1>6. ASSUME NEW s \in Sides, SendStep(s), ~Encode(s)
      PROVE  UNCHANGED flow
  BY <1>6 DEF SendStep, SendProceeds, EncodeFails, flow, streamVars
<1>7. CASE UNCHANGED vars
  BY <1>7 DEF vars, flow, streamVars, connVars
<1> QED
  BY <1>1, <1>2, <1>3, <1>4, <1>5, <1>6, <1>7 DEF Next

\* Whoever can write, nothing broke: a reset hits only the peer of a side that
\* has closed its half.
LEMMA WritableNotBroken ==
    ASSUME Inv, NEW s \in Sides, Writable(s)
    PROVE  ~Broken
<1>1. link = "up" /\ ~rst[s] /\ ~fin[s]
  BY DEF Writable
<1>2. ~rst[Peer(s)]
  BY <1>1 DEF Inv
<1> QED
  BY <1>1, <1>2, PeerType DEF Broken

-----------------------------------------------------------------------------
(* Order.  First the four ways a message moves, for any sequences.         *)

LEMMA AlignedWrite ==
    ASSUME NEW got \in Seq(Messages), NEW held \in Seq(Messages),
           NEW queued \in Seq(Messages), NEW out \in Seq(Messages),
           NEW m \in Messages, Aligned(got, held, queued, out, TRUE), NEW whole
    PROVE  Aligned(got, held, Append(queued, m), Append(out, m), whole)
<1>1. /\ Len(got) + Len(held) + Len(queued) <= Len(out)
      /\ Len(got) + Len(held) + Len(queued) >= Len(out)
  BY DEF Aligned
<1>2. /\ Len(Append(queued, m)) = Len(queued) + 1 /\ Len(Append(out, m)) = Len(out) + 1
      /\ \A i \in 1 .. Len(queued) : Append(queued, m)[i] = queued[i]
      /\ \A i \in 1 .. Len(out) : Append(out, m)[i] = out[i]
      /\ Append(queued, m)[Len(queued) + 1] = m /\ Append(out, m)[Len(out) + 1] = m
  OBVIOUS
<1>3. /\ Len(got) \in Nat /\ Len(held) \in Nat
      /\ Len(queued) \in Nat /\ Len(out) \in Nat
  OBVIOUS
<1>4. \A i \in 1 .. Len(queued) : queued[i] = Append(out, m)[Len(got) + Len(held) + i]
  BY <1>1, <1>2, <1>3 DEF Aligned
<1>5. \A i \in 1 .. Len(got) : got[i] = Append(out, m)[i]
  BY <1>1, <1>2, <1>3 DEF Aligned
<1>6. \A i \in 1 .. Len(held) : held[i] = Append(out, m)[Len(got) + i]
  BY <1>1, <1>2, <1>3 DEF Aligned
<1>7. /\ Len(got) + Len(held) + Len(Append(queued, m)) <= Len(Append(out, m))
      /\ Len(got) + Len(held) + Len(Append(queued, m)) >= Len(Append(out, m))
  BY <1>1, <1>2, <1>3
<1>8. m = Append(out, m)[Len(got) + Len(held) + (Len(queued) + 1)]
  <2>1. Len(got) + Len(held) + (Len(queued) + 1) = Len(out) + 1
    BY <1>1, <1>3
  <2> QED
    BY <1>2, <2>1
<1>9. \A i \in 1 .. Len(Append(queued, m)) :
         Append(queued, m)[i] = Append(out, m)[Len(got) + Len(held) + i]
  <2> SUFFICES ASSUME NEW i \in 1 .. Len(Append(queued, m))
               PROVE  Append(queued, m)[i] = Append(out, m)[Len(got) + Len(held) + i]
    OBVIOUS
  <2>1. i \in 1 .. Len(queued) \/ i = Len(queued) + 1
    BY <1>2, <1>3
  <2> QED
    BY <1>2, <1>4, <1>8, <2>1
<1>10. Len(Append(out, m)) \in Nat
  BY <1>2, <1>3
<1> QED
  BY <1>5, <1>6, <1>7, <1>9, <1>10 DEF Aligned

LEMMA AlignedDecode ==
    ASSUME NEW got \in Seq(Messages), NEW queued \in Seq(Messages),
           NEW out \in Seq(Messages), NEW whole,
           queued # <<>>, Aligned(got, <<>>, queued, out, whole)
    PROVE  Aligned(got, <<Head(queued)>>, Tail(queued), out, whole)
<1>1. /\ Len(queued) > 0 /\ Len(Tail(queued)) = Len(queued) - 1
      /\ \A i \in 1 .. Len(queued) - 1 : Tail(queued)[i] = queued[i + 1]
      /\ Head(queued) = queued[1]
      /\ Len(<<>>) = 0 /\ Len(<<Head(queued)>>) = 1 /\ <<Head(queued)>>[1] = queued[1]
  OBVIOUS
<1>2. Len(got) \in Nat /\ Len(queued) \in Nat /\ Len(out) \in Nat
  OBVIOUS
<1>3. queued[1] = out[Len(got) + 1]
  BY <1>1, <1>2 DEF Aligned
<1>4. \A i \in 1 .. Len(queued) - 1 : Tail(queued)[i] = out[Len(got) + 1 + i]
  <2> SUFFICES ASSUME NEW i \in 1 .. Len(queued) - 1
               PROVE  Tail(queued)[i] = out[Len(got) + 1 + i]
    OBVIOUS
  <2>1. i + 1 \in 1 .. Len(queued)
    BY <1>2
  <2>2. queued[i + 1] = out[Len(got) + 0 + (i + 1)]
    BY <1>1, <2>1 DEF Aligned
  <2> QED
    BY <1>1, <1>2, <2>1, <2>2
<1> QED
  BY <1>1, <1>2, <1>3, <1>4 DEF Aligned

LEMMA AlignedTake ==
    ASSUME NEW got \in Seq(Messages), NEW held \in Seq(Messages),
           NEW queued \in Seq(Messages), NEW out \in Seq(Messages), NEW whole,
           Len(held) = 1, Aligned(got, held, queued, out, whole)
    PROVE  Aligned(Append(got, Head(held)), <<>>, queued, out, whole)
<1>1. /\ Len(<<>>) = 0
      /\ Len(Append(got, Head(held))) = Len(got) + 1
      /\ \A i \in 1 .. Len(got) : Append(got, Head(held))[i] = got[i]
      /\ Append(got, Head(held))[Len(got) + 1] = held[1]
  <2>1. Head(held) \in Messages /\ Head(held) = held[1]
    OBVIOUS
  <2>2. Len(<<>>) = 0
    OBVIOUS
  <2> QED
    BY <2>1, <2>2
<1>2. Len(got) \in Nat /\ Len(queued) \in Nat /\ Len(out) \in Nat
  OBVIOUS
<1>3. held[1] = out[Len(got) + 1]
  BY <1>2 DEF Aligned
<1>4. \A i \in 1 .. Len(got) + 1 : Append(got, Head(held))[i] = out[i]
  BY <1>1, <1>2, <1>3 DEF Aligned
<1>5. \A i \in 1 .. Len(queued) : queued[i] = out[Len(got) + 1 + 0 + i]
  BY <1>2 DEF Aligned
<1> QED
  BY <1>1, <1>2, <1>4, <1>5 DEF Aligned

LEMMA AlignedLose ==
    ASSUME NEW got \in Seq(Messages), NEW held \in Seq(Messages),
           NEW queued \in Seq(Messages), NEW out \in Seq(Messages), NEW whole,
           NEW n \in 0 .. Len(queued), Aligned(got, held, queued, out, whole)
    PROVE  Aligned(got, held, SubSeq(queued, 1, n), out, FALSE)
<1>1. /\ Len(SubSeq(queued, 1, n)) = n
      /\ \A i \in 1 .. n : SubSeq(queued, 1, n)[i] = queued[i]
  BY SubSeqType
<1>2. /\ Len(got) \in Nat /\ Len(held) \in Nat
      /\ Len(queued) \in Nat /\ Len(out) \in Nat
  OBVIOUS
<1> QED
  BY <1>1, <1>2 DEF Aligned

LEMMA FlowTypes ==
    ASSUME TypeOK, NEW s \in Sides
    PROVE  /\ taken[s] \in Seq(Messages) /\ hand[s] \in Seq(Messages)
           /\ wire[Peer(s)] \in Seq(Messages) /\ sent[Peer(s)] \in Seq(Messages)
BY PeerType DEF TypeOK

\* A reader holds one message or none.
LEMMA HandLength ==
    ASSUME TypeOK, NEW s \in Sides
    PROVE  /\ hand[s] \in Seq(Messages) /\ Len(hand[s]) \in Nat
           /\ rd[s] \in {"store", "offer", "last"} => Len(hand[s]) >= 1 /\ Len(hand[s]) <= 1
           /\ rd[s] \notin {"store", "offer", "last"} => Len(hand[s]) <= 0
<1> DEFINE l == Len(hand[s])
<1>1. hand[s] \in Seq(Messages) /\ l \in Nat
  BY DEF TypeOK
<1>2. l = IF rd[s] \in {"store", "offer", "last"} THEN 1 ELSE 0
  BY DEF TypeOK
<1> HIDE DEF l
<1>3. /\ rd[s] \in {"store", "offer", "last"} => l >= 1 /\ l <= 1
      /\ rd[s] \notin {"store", "offer", "last"} => l <= 0
  BY <1>2
<1> QED
  BY <1>1, <1>3 DEF l

\* Every step keeps the order of what is written, read, held and taken.
LEMMA InOrderStep ==
    ASSUME TypeOK, Inv, [Next]_vars, NEW s \in Sides
    PROVE  InOrder(s)'
<1>0. InOrder(s)
  BY DEF Inv
<1>1. CASE UNCHANGED flow
  BY <1>0, <1>1 DEF flow, InOrder, Broken
<1>2. CASE Drop
  <2>1. PICK kept \in [Sides -> 0 .. Window] :
           /\ \A t \in Sides : kept[t] <= Len(wire[t])
           /\ wire' = [t \in Sides |-> SubSeq(wire[t], 1, kept[t])]
    BY <1>2 DEF Drop, LinkDown
  <2>2. Broken' /\ UNCHANGED <<sent, hand, taken>>
    BY <1>2 DEF Drop, LinkDown, Broken, connVars
  <2>3. /\ wire'[Peer(s)] = SubSeq(wire[Peer(s)], 1, kept[Peer(s)])
        /\ kept[Peer(s)] \in 0 .. Len(wire[Peer(s)])
    <3>1. kept[Peer(s)] \in Nat /\ Len(wire[Peer(s)]) \in Nat
      BY PeerType, FlowTypes, WindowAssumption
    <3> QED
      BY <2>1, <3>1, PeerType
  <2>4. Aligned(taken[s], hand[s], wire'[Peer(s)], sent[Peer(s)], FALSE)
    BY <1>0, <2>3, FlowTypes, AlignedLose DEF InOrder
  <2> QED
    BY <2>2, <2>4 DEF InOrder
<1>3. ASSUME NEW t \in Sides, Expire(t)
      PROVE  InOrder(s)'
  <2>1. PICK kept \in 0 .. Len(wire[Peer(t)]) :
             wire' = [wire EXCEPT ![t] = <<>>, ![Peer(t)] = SubSeq(@, 1, kept)]
    BY <1>3 DEF Expire, CloseTimeout
  <2>2. Broken' /\ UNCHANGED <<sent, hand, taken>>
    BY <1>3, PeerType DEF Expire, CloseTimeout, Broken, connVars, TypeOK
  <2>3. \E n \in 0 .. Len(wire[Peer(s)]) : wire'[Peer(s)] = SubSeq(wire[Peer(s)], 1, n)
    <3>1. CASE s = t
      BY <2>1, <3>1, PeerType DEF TypeOK
    <3>2. CASE t = Peer(s)
      <4>1. wire'[t] = <<>>
        BY <2>1, PeerType DEF TypeOK
      <4>2. SubSeq(wire[t], 1, 0) = <<>> /\ 0 \in 0 .. Len(wire[t])
        BY FlowTypes, <3>2
      <4> QED
        BY <3>2, <4>1, <4>2
    <3> QED
      BY <3>1, <3>2, PeerType
  <2>4. Aligned(taken[s], hand[s], wire'[Peer(s)], sent[Peer(s)], FALSE)
    BY <1>0, <2>3, FlowTypes, AlignedLose DEF InOrder
  <2> QED
    BY <2>2, <2>4 DEF InOrder
<1>4. ASSUME NEW t \in Sides, Decode(t)
      PROVE  InOrder(s)'
  <2>1. /\ hand' = [hand EXCEPT ![t] = <<Head(wire[Peer(t)])>>]
        /\ wire' = [wire EXCEPT ![Peer(t)] = Tail(@)]
        /\ UNCHANGED <<link, rst, sent, taken>>
    BY <1>4 DEF Decode, Read
  <2>2. CASE s # t
    <3>1. hand'[s] = hand[s] /\ wire'[Peer(s)] = wire[Peer(s)]
      BY <2>1, <2>2, PeerType DEF TypeOK
    <3> QED
      BY <1>0, <2>1, <3>1 DEF InOrder, Broken
  <2>3. CASE s = t
    <3>1. hand[s] = <<>> /\ wire[Peer(s)] # <<>>
      <4>1. Len(hand[s]) = 0 /\ hand[s] \in Seq(Messages)
        BY <1>4, <2>3 DEF Decode, AtDecode, TypeOK
      <4> QED
        BY <1>4, <2>3, <4>1 DEF Decode, Readable
    <3>2. hand'[s] = <<Head(wire[Peer(s)])>> /\ wire'[Peer(s)] = Tail(wire[Peer(s)])
      BY <2>1, <2>3, PeerType DEF TypeOK
    <3>3. Aligned(taken[s], hand'[s], wire'[Peer(s)], sent[Peer(s)], ~Broken)
      BY <1>0, <3>1, <3>2, FlowTypes, AlignedDecode DEF InOrder
    <3> QED
      BY <2>1, <3>3 DEF InOrder, Broken
  <2> QED
    BY <2>2, <2>3
<1>5. ASSUME NEW t \in Sides, NEW want, RecvTake(t, want)
      PROVE  InOrder(s)'
  <2>1. /\ taken' = [taken EXCEPT ![t] = Append(@, Head(hand[t]))]
        /\ hand' = [hand EXCEPT ![t] = <<>>]
        /\ UNCHANGED <<link, rst, sent, wire>>
    BY <1>5 DEF RecvTake, HandOver, streamVars
  <2>2. CASE s # t
    <3>1. hand'[s] = hand[s] /\ taken'[s] = taken[s]
      BY <2>1, <2>2 DEF TypeOK
    <3> QED
      BY <1>0, <2>1, <3>1 DEF InOrder, Broken
  <2>3. CASE s = t
    <3>1. Len(hand[s]) = 1
      BY <1>5, <2>3 DEF RecvTake, TypeOK
    <3>2. hand'[s] = <<>> /\ taken'[s] = Append(taken[s], Head(hand[s]))
      BY <2>1, <2>3 DEF TypeOK
    <3>3. Aligned(taken'[s], hand'[s], wire[Peer(s)], sent[Peer(s)], ~Broken)
      BY <1>0, <3>1, <3>2, FlowTypes, AlignedTake DEF InOrder
    <3> QED
      BY <2>1, <3>3 DEF InOrder, Broken
  <2> QED
    BY <2>2, <2>3
<1>6. ASSUME NEW t \in Sides, Encode(t)
      PROVE  InOrder(s)'
  <2>1. /\ wire' = [wire EXCEPT ![t] = Append(@, Head(snd[t]))]
        /\ sent' = [sent EXCEPT ![t] = Append(@, Head(snd[t]))]
        /\ UNCHANGED <<link, rst, hand, taken>>
    BY <1>6 DEF Encode, Write
  <2>2. CASE s = t
    <3>1. wire'[Peer(s)] = wire[Peer(s)] /\ sent'[Peer(s)] = sent[Peer(s)]
      BY <2>1, <2>2, PeerType DEF TypeOK
    <3> QED
      BY <1>0, <2>1, <3>1 DEF InOrder, Broken
  <2>3. CASE t = Peer(s)
    <3>1. Head(snd[t]) \in Messages
      BY <1>6 DEF Encode, TypeOK
    <3>2. ~Broken
      BY <1>6, WritableNotBroken DEF Encode
    <3>3. /\ wire'[t] = Append(wire[t], Head(snd[t]))
          /\ sent'[t] = Append(sent[t], Head(snd[t]))
      BY <2>1 DEF TypeOK
    <3>4. Aligned(taken[s], hand[s], wire[t], sent[t], TRUE)
      BY <1>0, <2>3, <3>2 DEF InOrder, Aligned
    <3>5. Aligned(taken[s], hand[s], wire'[t], sent'[t], ~Broken)
      <4>1. /\ taken[s] \in Seq(Messages) /\ hand[s] \in Seq(Messages)
            /\ wire[t] \in Seq(Messages) /\ sent[t] \in Seq(Messages)
        BY <2>3, FlowTypes
      <4> QED
        BY <3>1, <3>3, <3>4, <4>1, AlignedWrite
    <3> QED
      BY <2>1, <2>3, <3>5 DEF InOrder, Broken
  <2> QED
    BY <2>2, <2>3, PeerType
<1> QED
  BY <1>1, <1>2, <1>3, <1>4, <1>5, <1>6, FlowSteps

-----------------------------------------------------------------------------
(* The end of a stream.                                                    *)

LEMMA AlignedAll ==
    ASSUME NEW got \in Seq(Messages), NEW out \in Seq(Messages),
           Aligned(got, <<>>, <<>>, out, TRUE)
    PROVE  got = out
<1>1. Len(got) <= Len(out) /\ Len(got) >= Len(out)
  <2>1. Len(<<>>) = 0 /\ Len(got) \in Nat /\ Len(out) \in Nat
    OBVIOUS
  <2> QED
    BY <2>1 DEF Aligned
<1>2. \A i \in 1 .. Len(got) : got[i] = out[i]
  BY DEF Aligned
<1> QED
  BY <1>1, <1>2

\* A closed half stays closed and a broken stream broken; a reset still hits
\* only the peer of a side that has closed its half.
LEMMA EndsGrow ==
    ASSUME TypeOK, [Next]_vars, NEW s \in Sides
    PROVE  /\ fin[s] => fin'[s]
           /\ Broken => Broken'
           /\ (rst[Peer(s)] => fin[s]) => (rst'[Peer(s)] => fin'[s])
<1>1. CASE Caller
  BY <1>1 DEF Caller, Invoke, InvokeFails, InvokeSent, InvokeSendFails, CallerCloses,
    CloseHalf, Broken, streamVars, TypeOK
<1>2. CASE Server
  BY <1>2 DEF Server, Accept, Dispatch, Reject, HandlerReturns, HandlerFails,
    ErrorSent, ServerCloses, CloseHalf, Broken, streamVars, TypeOK
<1>3. CASE Drop
  BY <1>3 DEF Drop, LinkDown, Broken
<1>4. ASSUME NEW t \in Sides, Expire(t)
      PROVE  /\ fin[s] => fin'[s]
             /\ Broken => Broken'
             /\ (rst[Peer(s)] => fin[s]) => (rst'[Peer(s)] => fin'[s])
  <2>1. rst' = [rst EXCEPT ![Peer(t)] = TRUE] /\ fin[t] /\ fin' = fin /\ link' = link
    BY <1>4 DEF Expire, CloseTimeout
  <2>2. rst \in [Sides -> BOOLEAN]
    BY DEF TypeOK
  <2>3. Broken'
    BY <2>1, <2>2, PeerType DEF Broken
  <2>4. CASE s = t
    BY <2>1, <2>3, <2>4
  <2>5. CASE s # t
    BY <2>1, <2>2, <2>3, <2>5, PeerType
  <2> QED
    BY <2>4, <2>5
<1>5. CASE UNCHANGED streamVars
  BY <1>5 DEF streamVars, Broken
<1>6. ASSUME NEW t \in Sides,
             Send(t) \/ Recv(t) \/ Cancel(t) \/ ReaderStep(t) \/ RecvStep(t) \/ SendStep(t)
      PROVE  UNCHANGED <<fin, rst, link>>
  BY <1>6 DEF Send, Recv, RecvBegin, Cancel, RecvCancel, ReaderStep, Reader, Decode,
    ReaderStored, DecodeEof, DecodeFail, RecvStep, RecvProceeds, RecvTake,
    RecvTakeFailure, RecvStored, RecvClosed, SendStep, SendProceeds, Encode,
    EncodeFails, Write, Read, streamVars
<1>7. CASE UNCHANGED <<fin, rst, link>>
  BY <1>7 DEF Broken
<1> QED
  BY <1>1, <1>2, <1>3, <1>4, <1>5, <1>6, <1>7 DEF Next, vars

\* Who changes the callConn of s.
LEMMA ConnSteps ==
    ASSUME TypeOK, [Next]_vars, NEW s \in Sides
    PROVE  \/ /\ rd'[s] = rd[s] /\ hand'[s] = hand[s] /\ err'[s] = err[s]
              /\ rcv'[s] = rcv[s] /\ ret'[s] = ret[s] /\ taken'[s] = taken[s]
           \/ RecvBegin(s) \/ RecvCancel(s) \/ Reader(s) \/ RecvProceeds(s, Want(s))
           \/ s = "client" /\ Invoke
           \/ s = "server" /\ Accept
<1> DEFINE Same == /\ rd'[s] = rd[s] /\ hand'[s] = hand[s] /\ err'[s] = err[s]
                   /\ rcv'[s] = rcv[s] /\ ret'[s] = ret[s] /\ taken'[s] = taken[s]
<1>1. CASE Caller
  <2>1. Invoke => s = "client" \/ Same
    BY DEF Invoke, StartReader, streamVars, TypeOK
  <2>2. InvokeFails \/ InvokeSent \/ InvokeSendFails \/ CallerCloses => Same
    BY DEF InvokeFails, InvokeSent, InvokeSendFails, CallerCloses, connVars
  <2> QED
    BY <1>1, <2>1, <2>2 DEF Caller
<1>2. CASE Server
  <2>1. Accept => s = "server" \/ Same
    BY DEF Accept, StartReader, TypeOK
  <2>2. Dispatch \/ Reject \/ HandlerReturns \/ HandlerFails \/ ErrorSent \/ ServerCloses
          => Same
    BY DEF Dispatch, Reject, HandlerReturns, HandlerFails, ErrorSent, ServerCloses,
      connVars
  <2> QED
    BY <1>2, <2>1, <2>2 DEF Server
<1>3. ASSUME Drop \/ UNCHANGED vars \/ \E t \in Sides : Send(t) \/ Expire(t) \/ SendStep(t)
      PROVE  Same
  BY <1>3 DEF Drop, Send, Expire, SendStep, SendProceeds, Encode, EncodeFails,
    vars, connVars
<1>4. ASSUME NEW t \in Sides, t # s, Recv(t) \/ Cancel(t)
      PROVE  Same
  BY <1>4 DEF Recv, RecvBegin, Cancel, RecvCancel, RecvReturns, TypeOK
<1>5. ASSUME NEW t \in Sides, t # s, ReaderStep(t)
      PROVE  Same
  BY <1>5 DEF ReaderStep, Reader, Decode, ReaderStored, DecodeEof, DecodeFail, Keep,
    CloseChannel, TypeOK
<1>6. ASSUME NEW t \in Sides, t # s, RecvStep(t)
      PROVE  Same
  BY <1>6 DEF RecvStep, RecvProceeds, RecvTake, RecvTakeFailure, RecvStored,
    RecvClosed, RecvReturns, HandOver, Keep, CloseChannel, TypeOK
<1> QED
  BY <1>1, <1>2, <1>3, <1>4, <1>5, <1>6 DEF Next, Recv, Cancel, ReaderStep, RecvStep

\* What the reader holds is the next message its peer wrote.
LEMMA HeldMessage ==
    ASSUME TypeOK, Inv, NEW s \in Sides, Len(hand[s]) = 1
    PROVE  /\ hand[s][1] = Head(hand[s])
           /\ Len(taken[s]) + 1 \in 1 .. Len(sent[Peer(s)])
           /\ hand[s][1] = sent[Peer(s)][Len(taken[s]) + 1]
<1>1. InOrder(s)
  BY DEF Inv
<1>2. /\ Len(taken[s]) \in Nat /\ Len(wire[Peer(s)]) \in Nat
      /\ Len(sent[Peer(s)]) \in Nat /\ hand[s] \in Seq(Messages)
  BY FlowTypes
<1>3. hand[s][1] = Head(hand[s]) /\ 1 \in 1 .. Len(hand[s])
  BY <1>2
<1>4. Len(taken[s]) + 1 + Len(wire[Peer(s)]) <= Len(sent[Peer(s)])
  BY <1>1 DEF InOrder, Aligned
<1>5. hand[s][1] = sent[Peer(s)][Len(taken[s]) + 1]
  BY <1>1, <1>3 DEF InOrder, Aligned
<1>6. Len(taken[s]) + 1 \in 1 .. Len(sent[Peer(s)])
  <2>1. \A a, b, c \in Nat : a + 1 + b <= c => a + 1 \in 1 .. c
    OBVIOUS
  <2> QED
    BY <1>2, <1>4, <2>1
<1> QED
  BY <1>3, <1>5, <1>6

\* An ERROR that the reader holds came from the handler, and nothing follows it.
LEMMA HeldError ==
    ASSUME TypeOK, Inv, NEW s \in Sides, Len(hand[s]) = 1, IsError(hand[s][1])
    PROVE  /\ s = "client"
           /\ hand[s][1].data \in ErrorTexts
           /\ ErrorReached
<1>1. /\ Len(taken[s]) + 1 \in 1 .. Len(sent[Peer(s)])
      /\ IsError(sent[Peer(s)][Len(taken[s]) + 1])
      /\ hand[s][1] = sent[Peer(s)][Len(taken[s]) + 1]
  BY HeldMessage
<1>2. s = "client"
  <2>1. CASE s = "server"
    BY <1>1, <2>1, PeerType DEF Inv, ErrorsInOrder
  <2> QED
    BY <2>1 DEF Sides
<1>3. /\ Len(taken[s]) + 1 = Len(sent["server"])
      /\ sent["server"][Len(taken[s]) + 1].data \in ErrorTexts
  BY <1>1, <1>2, PeerType DEF Inv, ErrorsInOrder
<1>4. Len(taken[s]) \in Nat /\ Len(sent["server"]) \in Nat
  BY <1>2, FlowTypes, PeerType
<1>5. ErrorReached
  <2>1. Len(sent["server"]) > 0 /\ IsError(sent["server"][Len(sent["server"])])
    BY <1>1, <1>2, <1>3, <1>4, PeerType
  <2>2. Len(taken["client"]) + Len(hand["client"]) >= Len(sent["server"])
    <3> DEFINE h == Len(hand["client"])
               k == Len(taken["client"])
               n == Len(sent["server"])
    <3>1. h \in Nat /\ k \in Nat /\ n \in Nat /\ k + 1 = n
      BY <1>2, <1>3, <1>4, FlowTypes
    <3>2. h = 1
      BY <1>2
    <3> HIDE DEF h, k, n
    <3>3. k + h >= n
      BY <3>1, <3>2
    <3> QED
      BY <3>3 DEF h, k, n
  <2> QED
    BY <2>1, <2>2 DEF ErrorReached
<1> QED
  BY <1>1, <1>2, <1>3, <1>5, PeerType

LEMMA ErrorTextsNotNil ==
    ASSUME NEW e \in ErrorTexts
    PROVE  e # NoErr /\ e # Torn /\ e # ReadErr
BY ConstantsAssumption

\* A reader that is gone takes nothing more: the end stays the end.
LEMMA EndedStable ==
    ASSUME TypeOK, Inv, [Next]_vars, NEW s \in Sides, rd[s] = "exit", Ended(s)
    PROVE  Ended(s)'
<1>1. CASE Broken
  BY <1>1, EndsGrow DEF Ended
<1>2. CASE ~Broken
  <2>1. fin[Peer(s)] /\ taken[s] = sent[Peer(s)]
    BY <1>2 DEF Ended
  <2>2. fin'[Peer(s)]
    BY <2>1, EndsGrow, PeerType
  <2>3. taken'[s] = taken[s]
    BY ConnSteps DEF RecvBegin, RecvCancel, Reader, Decode, ReaderStored, DecodeEof,
      DecodeFail, RecvProceeds, RecvTake, RecvTakeFailure, RecvStored, RecvClosed,
      Invoke, Accept
  <2>4. sent'[Peer(s)] = sent[Peer(s)]
    <3>1. ASSUME NEW t \in Sides, Encode(t)
          PROVE  sent'[Peer(s)] = sent[Peer(s)]
      <4>1. t # Peer(s)
        BY <2>1, <3>1 DEF Encode, Writable
      <4> QED
        BY <3>1, <4>1, PeerType DEF Encode, Write, TypeOK
    <3>2. ASSUME NEW t \in Sides, Decode(t) \/ RecvTake(t, Want(t)) \/ Expire(t)
          PROVE  sent' = sent
      BY <3>2 DEF Decode, RecvTake, Expire, CloseTimeout, streamVars
    <3>3. Drop => sent' = sent
      BY DEF Drop, LinkDown
    <3> QED
      BY <3>1, <3>2, <3>3, FlowSteps DEF flow
  <2> QED
    BY <2>1, <2>2, <2>3, <2>4 DEF Ended
<1> QED
  BY <1>1, <1>2

LEMMA ReaderGoneStep ==
    ASSUME TypeOK, Inv, [Next]_vars, NEW s \in Sides
    PROVE  ReaderGone(s)'
<1>0. ReaderGone(s) /\ ErrorKept(s)
  BY DEF Inv
<1>1. CASE /\ rd'[s] = rd[s] /\ hand'[s] = hand[s] /\ err'[s] = err[s]
           /\ rcv'[s] = rcv[s] /\ ret'[s] = ret[s] /\ taken'[s] = taken[s]
  BY <1>0, <1>1, EndedStable DEF ReaderGone
<1>2. CASE RecvBegin(s)
  <2>1. rd' = rd /\ err' = err /\ rcv[s] = "idle"
    BY <1>2 DEF RecvBegin
  <2>2. rd[s] = "exit" /\ rcv'[s] = "wait" => err[s] = NoErr
    BY <1>2 DEF RecvBegin, RecvReturns, ErrReads, TypeOK
  <2> QED
    BY <1>0, <2>1, <2>2, EndedStable DEF ReaderGone
<1>3. CASE RecvCancel(s)
  BY <1>0, <1>3, EndedStable DEF ReaderGone, RecvCancel, RecvReturns, TypeOK
<1>4. CASE Decode(s)
  BY <1>4 DEF ReaderGone, Decode, TypeOK
<1>5. CASE ReaderStored(s)
  <2>1. Len(hand[s]) = 1 /\ IsError(hand[s][1])
    BY <1>0, <1>5 DEF ReaderStored, ErrorKept, TypeOK
  <2>2. Head(hand[s]).data # NoErr
    BY <2>1, HeldError, HeldMessage, ErrorTextsNotNil
  <2> QED
    BY <1>5, <2>2 DEF ReaderGone, ReaderStored, Keep, TypeOK
<1>6. CASE DecodeEof(s)
  <2>1. Ended(s)
    <3>1. CASE ~Broken
      <4>1. fin[Peer(s)] /\ wire[Peer(s)] = <<>>
        BY <1>6, <3>1, PeerType DEF DecodeEof, ReadsEof, PeerEnded, Broken
      <4>2. hand[s] = <<>>
        <5>1. Len(hand[s]) = 0 /\ hand[s] \in Seq(Messages)
          BY <1>6 DEF DecodeEof, AtDecode, TypeOK
        <5> QED
          BY <5>1
      <4>3. Aligned(taken[s], <<>>, <<>>, sent[Peer(s)], TRUE)
        BY <3>1, <4>1, <4>2 DEF Inv, InOrder
      <4> QED
        BY <4>1, <4>3, AlignedAll, FlowTypes DEF Ended
    <3> QED
      BY <3>1 DEF Ended
  <2>2. Ended(s)'
    BY <1>6, <2>1 DEF DecodeEof, Ended, Broken, streamVars
  <2> QED
    BY <1>6, <2>2 DEF ReaderGone, DecodeEof, CloseChannel, TypeOK
<1>7. CASE DecodeFail(s)
  BY <1>7 DEF ReaderGone, DecodeFail, TypeOK
<1>8. CASE RecvTake(s, Want(s))
  <2>1. rcv'[s] # "wait" /\ err' = err
    BY <1>8 DEF RecvTake, TypeOK
  <2>2. rd'[s] # "last" /\ (rd'[s] = "exit" => rd[s] = "last")
    BY <1>8 DEF RecvTake, HandOver, TypeOK
  <2> QED
    BY <1>0, <2>1, <2>2 DEF ReaderGone
<1>9. CASE RecvTakeFailure(s)
  BY <1>9 DEF ReaderGone, RecvTakeFailure, CloseChannel, TypeOK
<1>10. CASE RecvStored(s)
  BY <1>0, <1>10, EndedStable DEF ReaderGone, ErrorKept, RecvStored, Keep, TypeOK
<1>11. CASE RecvClosed(s)
  BY <1>0, <1>11, EndedStable DEF ReaderGone, RecvClosed, RecvReturns, TypeOK
<1>12. CASE s = "client" /\ Invoke
  BY <1>12, PeerType DEF ReaderGone, Invoke, StartReader, TypeOK
<1>13. CASE s = "server" /\ Accept
  BY <1>13, PeerType DEF ReaderGone, Accept, StartReader, TypeOK
<1> QED
  BY <1>1, <1>2, <1>3, <1>4, <1>5, <1>6, <1>7, <1>8, <1>9, <1>10, <1>11, <1>12, <1>13,
     ConnSteps DEF Reader, RecvProceeds

-----------------------------------------------------------------------------
(* Errors.                                                                 *)

\* Recv and RecvMethod return the error of an ERROR message.
LEMMA InterpretError ==
    ASSUME NEW m, IsError(m), NEW s
    PROVE  Interpret(m, Want(s)) = Result("error", m.data)
<1>1. m.type = "ERROR" /\ Want(s) \in {"INVOKE", "DATA"}
  BY DEF IsError, Want
<1>2. ~IsClose(m) /\ m.type # Want(s)
  BY <1>1 DEF IsClose
<1> QED
  BY <1>2 DEF Interpret

LEMMA ErrorKeptStep ==
    ASSUME TypeOK, Inv, [Next]_vars, NEW s \in Sides
    PROVE  ErrorKept(s)'
<1>0. ErrorKept(s)
  BY DEF Inv
<1>1. CASE /\ rd'[s] = rd[s] /\ hand'[s] = hand[s] /\ err'[s] = err[s]
           /\ rcv'[s] = rcv[s] /\ ret'[s] = ret[s] /\ taken'[s] = taken[s]
  BY <1>0, <1>1 DEF ErrorKept
<1>2. CASE RecvBegin(s)
  <2>1. /\ rd' = rd /\ err' = err /\ hand' = hand
        /\ rcv[s] = "idle" /\ rcv'[s] \in {"idle", "wait"}
    BY <1>2 DEF RecvBegin, RecvReturns, TypeOK
  <2>2. ret'[s].kind = "error" /\ rd[s] # "store" => err[s] # NoErr
    BY <1>2 DEF RecvBegin, RecvReturns, ErrReads, Result, NoResult, TypeOK
  <2> QED
    BY <1>0, <2>1, <2>2 DEF ErrorKept
<1>3. CASE RecvCancel(s)
  BY <1>0, <1>3 DEF ErrorKept, RecvCancel, RecvReturns, Result, TypeOK
<1>4. CASE Decode(s)
  <2>1. /\ hand'[s] = <<Head(wire[Peer(s)])>> /\ rd[s] = "run"
        /\ rd'[s] = IF IsError(Head(wire[Peer(s)])) THEN "store" ELSE "offer"
        /\ UNCHANGED <<err, rcv, ret>>
    BY <1>4 DEF Decode, AtDecode, TypeOK
  <2>2. hand'[s][1] = Head(wire[Peer(s)])
    BY <2>1
  <2> QED
    BY <1>0, <2>1, <2>2 DEF ErrorKept
<1>5. CASE ReaderStored(s)
  <2>1. Len(hand[s]) = 1 /\ IsError(hand[s][1])
    BY <1>0, <1>5 DEF ReaderStored, ErrorKept, TypeOK
  <2>2. Head(hand[s]).data \notin {NoErr, Torn}
    BY <2>1, HeldError, HeldMessage, ErrorTextsNotNil
  <2> QED
    BY <1>0, <1>5, <2>2 DEF ErrorKept, ReaderStored, Keep, TypeOK
<1>6. CASE DecodeEof(s) \/ DecodeFail(s)
  BY <1>0, <1>6 DEF ErrorKept, DecodeEof, DecodeFail, AtDecode, CloseChannel, TypeOK
<1>7. CASE RecvTake(s, Want(s))
  <2>1. Len(hand[s]) = 1
    BY <1>7 DEF RecvTake, TypeOK
  <2>2. CASE IsError(Head(hand[s]))
    <3>1. Head(hand[s]).data \notin {NoErr, Torn}
      BY <2>1, <2>2, HeldError, HeldMessage, ErrorTextsNotNil
    <3>2. ret'[s] = Result("error", Head(hand[s]).data) /\ rcv'[s] = "store"
      BY <1>7, <2>2, InterpretError DEF RecvTake, TypeOK
    <3>3. err' = err /\ rd'[s] # "store"
      BY <1>7 DEF RecvTake, HandOver, TypeOK
    <3> QED
      BY <1>0, <3>1, <3>2, <3>3 DEF ErrorKept, Result
  <2>3. CASE ~IsError(Head(hand[s]))
    <3>1. ret'[s].kind # "error" /\ rcv'[s] = "idle"
      BY <1>7, <2>3 DEF RecvTake, Interpret, IsError, IsClose, Result, TypeOK
    <3>2. err' = err /\ rd'[s] # "store"
      BY <1>7 DEF RecvTake, HandOver, TypeOK
    <3> QED
      BY <1>0, <3>1, <3>2 DEF ErrorKept
  <2> QED
    BY <2>2, <2>3
<1>8. CASE RecvTakeFailure(s)
  BY <1>0, <1>8, TextsType DEF ErrorKept, RecvTakeFailure, CloseChannel, Result,
    TypeOK
<1>9. CASE RecvStored(s)
  BY <1>0, <1>9 DEF ErrorKept, RecvStored, Keep, TypeOK
<1>10. CASE RecvClosed(s)
  BY <1>0, <1>10 DEF ErrorKept, RecvClosed, RecvReturns, Result, TypeOK
<1>11. CASE s = "client" /\ Invoke
  <2>1. cl = "init" /\ rd' = [rd EXCEPT !["client"] = "run"]
          /\ UNCHANGED <<err, rcv, ret, hand>>
    BY <1>11 DEF Invoke, StartReader
  <2>2. rd[s] = "none" /\ rd'[s] = "run"
    BY <1>11, <2>1, PeerType DEF TypeOK
  <2> QED
    BY <1>0, <2>1, <2>2 DEF ErrorKept
<1>12. CASE s = "server" /\ Accept
  BY <1>0, <1>12, PeerType DEF ErrorKept, Accept, StartReader, TypeOK
<1> QED
  BY <1>1, <1>2, <1>3, <1>4, <1>5, <1>6, <1>7, <1>8, <1>9, <1>10, <1>11, <1>12,
     ConnSteps DEF Reader, RecvProceeds

LEMMA ReaderDoneStep ==
    ASSUME TypeOK, Inv, [Next]_vars, NEW s \in Sides
    PROVE  ReaderDone(s)'
<1>0. ReaderDone(s) /\ ErrorKept(s)
  BY DEF Inv
<1>1. CASE /\ rd'[s] = rd[s] /\ hand'[s] = hand[s] /\ err'[s] = err[s]
           /\ rcv'[s] = rcv[s] /\ ret'[s] = ret[s] /\ taken'[s] = taken[s]
  BY <1>0, <1>1 DEF ReaderDone
<1>2. CASE RecvBegin(s) \/ RecvCancel(s) \/ RecvStored(s) \/ RecvClosed(s)
  <2>1. rd' = rd /\ hand' = hand
    BY <1>2 DEF RecvBegin, RecvCancel, RecvStored, RecvClosed
  <2>2. rcv'[s] # "store" /\ (err' = err \/ rcv[s] = "store")
    BY <1>2 DEF RecvBegin, RecvCancel, RecvStored, RecvClosed, RecvReturns, TypeOK
  <2> QED
    BY <1>0, <2>1, <2>2 DEF ReaderDone
<1>3. CASE Decode(s)
  <2>1. /\ hand'[s] = <<Head(wire[Peer(s)])>> /\ rd[s] = "run"
        /\ rd'[s] = IF IsError(Head(wire[Peer(s)])) THEN "store" ELSE "offer"
        /\ UNCHANGED <<err, rcv>>
    BY <1>3 DEF Decode, AtDecode, TypeOK
  <2>2. hand'[s][1] = Head(wire[Peer(s)])
    BY <2>1
  <2> QED
    BY <1>0, <2>1, <2>2 DEF ReaderDone
<1>4. CASE ReaderStored(s)
  BY <1>4 DEF ReaderDone, ReaderStored, TypeOK
<1>5. CASE DecodeEof(s) \/ DecodeFail(s)
  BY <1>0, <1>5 DEF ReaderDone, DecodeEof, DecodeFail, AtDecode, CloseChannel, TypeOK
<1>6. CASE RecvTake(s, Want(s))
  <2>1. /\ rd[s] \in {"offer", "last"} /\ Len(hand[s]) = 1 /\ err' = err
        /\ rcv'[s] = IF IsError(Head(hand[s])) THEN "store" ELSE "idle"
        /\ rd'[s] = IF rd[s] = "last" THEN "exit" ELSE "run"
    BY <1>6 DEF RecvTake, HandOver, TypeOK
  <2>2. hand[s][1] = Head(hand[s])
    BY <2>1, HeldMessage
  <2> QED
    BY <1>0, <2>1, <2>2 DEF ReaderDone
<1>7. CASE RecvTakeFailure(s)
  BY <1>7 DEF ReaderDone, RecvTakeFailure, CloseChannel, TypeOK
<1>8. CASE s = "client" /\ Invoke
  <2>1. rd[s] = "none" /\ rd'[s] = "run" /\ UNCHANGED <<err, rcv>>
    BY <1>8, PeerType DEF Invoke, StartReader, TypeOK
  <2> QED
    BY <1>0, <2>1 DEF ReaderDone
<1>9. CASE s = "server" /\ Accept
  <2>1. /\ rd[s] = "none" /\ rd'[s] = "run" /\ rcv'[s] = "wait" /\ err' = err
    BY <1>9, PeerType DEF Accept, StartReader, TypeOK
  <2> QED
    BY <1>0, <2>1 DEF ReaderDone
<1> QED
  BY <1>1, <1>2, <1>3, <1>4, <1>5, <1>6, <1>7, <1>8, <1>9, ConnSteps
  DEF Reader, RecvProceeds

\* The variables that ErrorsInOrder is about.
errorFlow == <<sent, snd, srv>>

LEMMA ErrorsInOrderEncode ==
    ASSUME TypeOK, Inv, NEW s \in Sides, SendStep(s), Encode(s)
    PROVE  ErrorsInOrder'
<1> DEFINE m == Head(snd[s])
<1>1. /\ sent' = [sent EXCEPT ![s] = Append(@, m)] /\ snd' = [snd EXCEPT ![s] = <<>>]
      /\ srv' = srv
  BY DEF SendStep, Encode, Write, callVars
<1>2. snd[s] \in Seq(Messages) /\ snd[s] # <<>>
  BY DEF Encode, TypeOK
<1>3. m \in Messages /\ m = snd[s][1] /\ 1 \in 1 .. Len(snd[s])
  BY <1>2
<1>4. sent[s] \in Seq(Messages) /\ sent'[s] = Append(sent[s], m) /\ snd'[s] = <<>>
  BY <1>1 DEF TypeOK
<1>5. /\ Len(sent'[s]) = Len(sent[s]) + 1 /\ sent'[s][Len(sent[s]) + 1] = m
      /\ \A i \in 1 .. Len(sent[s]) : sent'[s][i] = sent[s][i]
      /\ Len(snd'[s]) = 0 /\ Len(sent[s]) \in Nat
  BY <1>3, <1>4
<1>6. \A i \in 1 .. Len(sent'[s]) : i \in 1 .. Len(sent[s]) \/ i = Len(sent[s]) + 1
  BY <1>5
<1>7. ErrorsInOrder
  BY DEF Inv
<1>8. CASE s = "client"
  <2>1. sent'["server"] = sent["server"] /\ snd'["server"] = snd["server"]
    BY <1>1, <1>8, PeerType DEF TypeOK
  <2>2. ~IsError(m)
    BY <1>3, <1>7, <1>8 DEF ErrorsInOrder
  <2>3. \A i \in 1 .. Len(sent'["client"]) : ~IsError(sent'["client"][i])
    BY <1>5, <1>6, <1>7, <1>8, <2>2 DEF ErrorsInOrder
  <2>4. \A i \in 1 .. Len(snd'["client"]) : ~IsError(snd'["client"][i])
    BY <1>5, <1>8
  <2> QED
    BY <1>1, <1>7, <2>1, <2>3, <2>4 DEF ErrorsInOrder
<1>9. CASE s = "server"
  <2>1. sent'["client"] = sent["client"] /\ snd'["client"] = snd["client"]
    BY <1>1, <1>9, PeerType DEF TypeOK
  <2>2. \A i \in 1 .. Len(sent["server"]) : ~IsError(sent["server"][i])
    BY <1>2, <1>7, <1>9 DEF ErrorsInOrder
  <2>3. IsError(m) => srv = "error" /\ m.data \in ErrorTexts
    BY <1>3, <1>7, <1>9 DEF ErrorsInOrder
  <2>4. \A i \in 1 .. Len(sent'["server"]) :
           IsError(sent'["server"][i]) =>
              i = Len(sent'["server"]) /\ sent'["server"][i].data \in ErrorTexts /\ srv = "error"
    BY <1>5, <1>6, <1>9, <2>2, <2>3
  <2>5. snd'["server"] = <<>> /\ \A i \in 1 .. Len(snd'["server"]) : FALSE
    BY <1>4, <1>5, <1>9
  <2> QED
    BY <1>1, <1>7, <2>1, <2>4, <2>5 DEF ErrorsInOrder
<1> QED
  BY <1>8, <1>9 DEF Sides

\* Handing a message to Encode: BeginSend leaves snd alone or fills it with m.
LEMMA BeginSendFills ==
    ASSUME TypeOK, NEW s \in Sides, NEW m \in Messages, BeginSend(s, m)
    PROVE  /\ snd[s] = <<>>
           /\ snd'[Peer(s)] = snd[Peer(s)]
           /\ \A i \in 1 .. Len(snd'[s]) : snd'[s][i] = m
<1>1. CASE UNCHANGED snd
  <2>1. Len(snd[s]) = 0
    BY DEF BeginSend
  <2> QED
    BY <1>1, <2>1 DEF BeginSend
<1>2. CASE snd' = [snd EXCEPT ![s] = <<m>>]
  <2>1. snd'[s] = <<m>> /\ snd'[Peer(s)] = snd[Peer(s)]
    BY <1>2, PeerType DEF TypeOK
  <2>2. \A i \in 1 .. Len(<<m>>) : <<m>>[i] = m
    OBVIOUS
  <2> QED
    BY <2>1, <2>2 DEF BeginSend
<1> QED
  BY <1>1, <1>2 DEF BeginSend

LEMMA ErrorsInOrderStep ==
    ASSUME TypeOK, Inv, [Next]_vars
    PROVE  ErrorsInOrder'
<1>0. ErrorsInOrder
  BY DEF Inv
<1>1. CASE UNCHANGED errorFlow
  BY <1>0, <1>1 DEF ErrorsInOrder, errorFlow
<1>2. CASE Invoke
  <2>1. PICK m \in Invoked : snd' = [snd EXCEPT !["client"] = <<NewCallMessage(m)>>]
    BY <1>2 DEF Invoke
  <2>2. ~IsError(NewCallMessage(m))
    BY CallMessageType, ConstantsAssumption
  <2>3. snd'["client"] = <<NewCallMessage(m)>> /\ snd'["server"] = snd["server"]
    BY <2>1, PeerType DEF TypeOK
  <2>4. \A i \in 1 .. Len(snd'["client"]) : ~IsError(snd'["client"][i])
    BY <2>2, <2>3
  <2> QED
    BY <1>0, <1>2, <2>3, <2>4 DEF ErrorsInOrder, Invoke, streamVars
<1>3. CASE InvokeFails \/ InvokeSent \/ InvokeSendFails \/ CallerCloses \/ Drop
  BY <1>1, <1>3 DEF InvokeFails, InvokeSent, InvokeSendFails, CallerCloses, CloseHalf,
    Drop, LinkDown, errorFlow, streamVars, connVars, callVars
<1>4. CASE Accept \/ Dispatch \/ Reject \/ ServerCloses
  <2>1. UNCHANGED <<sent, snd>>
    BY <1>4 DEF Accept, Dispatch, Reject, ServerCloses, CloseHalf, streamVars,
      connVars
  <2>2. \/ srv \in {"none", "method"} /\ srv' \in {"method", "handler", "done"}
        \/ srv = "closing" /\ srv' = "done"
    BY <1>4 DEF Accept, Dispatch, MethodReceived, Reject, ServerCloses
  <2>3. snd["server"] = <<>>
    BY <1>0, <2>2 DEF ErrorsInOrder
  <2>4. \A i \in 1 .. Len(snd["server"]) : FALSE
    BY <2>3
  <2> QED
    BY <1>0, <2>1, <2>2, <2>3, <2>4 DEF ErrorsInOrder
<1>5. CASE HandlerReturns
  <2>1. /\ srv = "handler" /\ srv' = "closing" /\ snd["server"] = <<>>
        /\ UNCHANGED <<sent, snd>>
    BY <1>5 DEF HandlerReturns, HandlerIdle, streamVars, connVars
  <2>2. \A i \in 1 .. Len(snd["server"]) : FALSE
    BY <2>1
  <2> QED
    BY <1>0, <2>1, <2>2 DEF ErrorsInOrder
<1>6. CASE HandlerFails
  <2>1. PICK e \in ErrorTexts : BeginSend("server", NewErrorMessage(e))
    BY <1>6 DEF HandlerFails
  <2>2. \A i \in 1 .. Len(snd'["server"]) : snd'["server"][i] = NewErrorMessage(e)
    BY <2>1, ErrorMessageType, BeginSendFills, PeerType
  <2>3. snd'["client"] = snd["client"]
    BY <2>1, ErrorMessageType, BeginSendFills, PeerType
  <2>4. srv = "handler" /\ srv' = "error" /\ sent' = sent
    BY <1>6 DEF HandlerFails, HandlerIdle, streamVars
  <2> QED
    BY <1>0, <2>2, <2>3, <2>4, ErrorMessageType DEF ErrorsInOrder
<1>7. CASE ErrorSent
  <2>1. /\ srv = "error" /\ srv' = "closing" /\ snd["server"] = <<>>
        /\ UNCHANGED <<sent, snd>>
    BY <1>7 DEF ErrorSent, ErrorWritten, streamVars, connVars
  <2>2. \A i \in 1 .. Len(snd["server"]) : FALSE
    BY <2>1
  <2> QED
    BY <1>0, <2>1, <2>2 DEF ErrorsInOrder
<1>8. ASSUME NEW s \in Sides, Send(s)
      PROVE  ErrorsInOrder'
  <2>1. PICK m \in {NewDataMessage(d) : d \in Payloads} \cup {NewCloseMessage} :
             BeginSend(s, m)
    BY <1>8 DEF Send
  <2>2. m \in Messages /\ ~IsError(m)
    BY UserMessageType
  <2>3. /\ snd'[Peer(s)] = snd[Peer(s)]
        /\ \A i \in 1 .. Len(snd'[s]) : ~IsError(snd'[s][i])
    BY <2>1, <2>2, BeginSendFills
  <2>4. sent' = sent /\ srv' = srv /\ (s = "server" => srv = "handler")
    BY <1>8, PeerType DEF Send, InUse, streamVars, callVars
  <2>5. CASE s = "client"
    BY <1>0, <2>3, <2>4, <2>5, PeerType DEF ErrorsInOrder
  <2>6. CASE s = "server"
    BY <1>0, <2>3, <2>4, <2>6, PeerType DEF ErrorsInOrder
  <2> QED
    BY <2>5, <2>6 DEF Sides
<1>9. ASSUME NEW s \in Sides, SendStep(s), Encode(s)
      PROVE  ErrorsInOrder'
  BY <1>9, ErrorsInOrderEncode
<1>10. ASSUME NEW s \in Sides, SendStep(s), EncodeFails(s)
       PROVE  ErrorsInOrder'
  <2>1. sent' = sent /\ srv' = srv /\ snd' = [snd EXCEPT ![s] = <<>>]
    BY <1>10 DEF SendStep, EncodeFails, streamVars, callVars
  <2>2. snd'[s] = <<>> /\ snd'[Peer(s)] = snd[Peer(s)]
    BY <2>1, PeerType DEF TypeOK
  <2>3. \A i \in 1 .. Len(snd'[s]) : FALSE
    BY <2>2
  <2>4. CASE s = "client"
    BY <1>0, <2>1, <2>2, <2>3, <2>4, PeerType DEF ErrorsInOrder
  <2>5. CASE s = "server"
    BY <1>0, <2>1, <2>2, <2>3, <2>5, PeerType DEF ErrorsInOrder
  <2> QED
    BY <2>4, <2>5 DEF Sides
<1>11. ASSUME NEW s \in Sides, Recv(s) \/ Cancel(s) \/ ReaderStep(s) \/ RecvStep(s) \/ Expire(s)
       PROVE  UNCHANGED errorFlow
  BY <1>11 DEF Recv, RecvBegin, Cancel, RecvCancel, ReaderStep, Reader, Decode,
    ReaderStored, DecodeEof, DecodeFail, RecvStep, RecvProceeds, RecvTake,
    RecvTakeFailure, RecvStored, RecvClosed, Expire, CloseTimeout, errorFlow,
    streamVars, connVars, callVars
<1>12. CASE UNCHANGED vars
  BY <1>1, <1>12 DEF vars, streamVars, connVars, callVars, errorFlow
<1> QED
  BY <1>1, <1>2, <1>3, <1>4, <1>5, <1>6, <1>7, <1>8, <1>9, <1>10, <1>11, <1>12
  DEF Next, Caller, Server, SendStep, SendProceeds

\* Once the client has decoded the ERROR of the server there is nothing more to
\* come: what was reached stays reached.
LEMMA ErrorReachedStep ==
    ASSUME TypeOK, Inv, [Next]_vars, ErrorReached
    PROVE  ErrorReached'
<1> DEFINE n == Len(sent["server"])
           k == Len(taken["client"])
           h == Len(hand["client"])
<1>1. n > 0 /\ IsError(sent["server"][n]) /\ k + h >= n
  BY DEF ErrorReached
<1>2. n \in Nat /\ k \in Nat /\ h \in Nat /\ wire["server"] \in Seq(Messages)
  BY FlowTypes, PeerType
<1>3. snd["server"] = <<>>
  <2>1. n \in 1 .. n
    BY <1>1, <1>2
  <2> QED
    BY <1>1, <2>1 DEF Inv, ErrorsInOrder
<1>4. CASE UNCHANGED flow \/ Drop
  BY <1>1, <1>4 DEF flow, Drop, LinkDown, connVars, ErrorReached
<1>5. ASSUME NEW t \in Sides, Expire(t)
      PROVE  ErrorReached'
  BY <1>1, <1>5 DEF Expire, CloseTimeout, connVars, ErrorReached
<1>6. ASSUME NEW t \in Sides, Decode(t)
      PROVE  ErrorReached'
  <2>1. sent' = sent /\ taken' = taken
    BY <1>6 DEF Decode
  <2>2. ASSUME t = "client"
        PROVE  FALSE
    <3> DEFINE w == Len(wire["server"])
    <3>1. wire["server"] # <<>>
      BY <1>6, <2>2, PeerType DEF Decode, Readable
    <3>2. w \in Nat /\ w > 0
      BY <1>2, <3>1
    <3>3. InOrder("client")
      BY PeerType DEF Inv
    <3>4. k + h + w <= n
      BY <3>3, PeerType DEF InOrder, Aligned
    <3> HIDE DEF k, h, w, n
    <3> QED
      BY <1>1, <1>2, <3>2, <3>4
  <2>3. hand'["client"] = hand["client"]
    BY <1>6, <2>2, PeerType DEF Decode, TypeOK
  <2> QED
    BY <1>1, <2>1, <2>3 DEF ErrorReached
<1>7. ASSUME NEW t \in Sides, RecvTake(t, Want(t))
      PROVE  ErrorReached'
  <2>1. /\ sent' = sent /\ taken' = [taken EXCEPT ![t] = Append(@, Head(hand[t]))]
        /\ hand' = [hand EXCEPT ![t] = <<>>] /\ rd[t] \in {"offer", "last"}
    BY <1>7 DEF RecvTake, HandOver, streamVars
  <2>2. CASE t # "client"
    <3>1. taken'["client"] = taken["client"] /\ hand'["client"] = hand["client"]
      BY <2>1, <2>2, PeerType DEF TypeOK
    <3> QED
      BY <1>1, <2>1, <3>1 DEF ErrorReached
  <2>3. CASE t = "client"
    <3> DEFINE k1 == Len(taken'["client"])
               h1 == Len(hand'["client"])
    <3>1. h >= 1 /\ h <= 1 /\ hand["client"] \in Seq(Messages)
      BY <2>1, <2>3, HandLength
    <3>2. Head(hand["client"]) \in Messages
      BY <3>1
    <3>3. taken'["client"] = Append(taken["client"], Head(hand["client"]))
      BY <2>1, <2>3, PeerType DEF TypeOK
    <3>4. k1 = k + 1
      BY <3>2, <3>3, FlowTypes, PeerType
    <3>5. h1 \in Nat
      BY <2>1, <2>3, PeerType DEF TypeOK
    <3> HIDE DEF k, h, n, k1, h1
    <3>6. k1 + h1 >= n
      BY <1>1, <1>2, <3>1, <3>4, <3>5
    <3> USE DEF k1, h1, n
    <3> QED
      BY <1>1, <2>1, <3>6 DEF ErrorReached
  <2> QED
    BY <2>2, <2>3
<1>8. ASSUME NEW t \in Sides, Encode(t)
      PROVE  ErrorReached'
  <2>1. t # "server" /\ hand' = hand /\ taken' = taken
    BY <1>3, <1>8 DEF Encode
  <2>2. sent'["server"] = sent["server"]
    BY <1>8, <2>1, PeerType DEF Encode, Write, TypeOK
  <2> QED
    BY <1>1, <2>1, <2>2 DEF ErrorReached
<1> QED
  BY <1>4, <1>5, <1>6, <1>7, <1>8, FlowSteps

\* When the client decodes an ERROR it has decoded everything.
LEMMA ErrorDecoded ==
    ASSUME TypeOK, Inv, Decode("client"), rd'["client"] = "store"
    PROVE  ErrorReached'
<1> DEFINE m == Head(wire["server"])
           n == Len(sent["server"])
           k == Len(taken["client"])
           h == Len(hand["client"])
           w == Len(wire["server"])
<1>1. /\ wire["server"] # <<>> /\ rd["client"] = "run"
      /\ IsError(m) /\ hand' = [hand EXCEPT !["client"] = <<m>>]
      /\ sent' = sent /\ taken' = taken
  <2>1. rd' = [rd EXCEPT !["client"] = IF IsError(m) THEN "store" ELSE "offer"]
    BY PeerType DEF Decode
  <2>2. IsError(m)
    BY <2>1, PeerType DEF TypeOK
  <2> QED
    BY <2>2, PeerType DEF Decode, AtDecode, Readable
<1>2. /\ n \in Nat /\ k \in Nat /\ w \in Nat /\ h \in Nat
      /\ wire["server"] \in Seq(Messages)
  BY FlowTypes, PeerType
<1>3. h <= 0
  BY <1>1, HandLength, PeerType
<1>4. w >= 1 /\ m = wire["server"][1]
  BY <1>1, <1>2
<1>5. InOrder("client")
  BY PeerType DEF Inv
<1>6. k + h + w <= n /\ \A i \in 1 .. w : wire["server"][i] = sent["server"][k + h + i]
  BY <1>5, PeerType DEF InOrder, Aligned
<1>7. k + h + 1 = k + 1 /\ k + 1 \in 1 .. n /\ 1 \in 1 .. w
  <2> HIDE DEF k, h, w, n
  <2> QED
    BY <1>2, <1>3, <1>4, <1>6
<1>8. m = sent["server"][k + 1]
  BY <1>4, <1>6, <1>7
<1>9. k + 1 = n
  BY <1>1, <1>7, <1>8 DEF Inv, ErrorsInOrder
<1>10. hand'["client"] = <<m>>
  BY <1>1, PeerType DEF TypeOK
<1>11. Len(hand'["client"]) >= 1 /\ Len(hand'["client"]) \in Nat
  BY <1>10
<1>12. IsError(sent["server"][n])
  BY <1>1, <1>8, <1>9
<1>13. n > 0 /\ k + Len(hand'["client"]) >= n
  <2> DEFINE h1 == Len(hand'["client"])
  <2>1. h1 >= 1 /\ h1 \in Nat
    BY <1>11
  <2> HIDE DEF k, n, h1
  <2>2. n > 0 /\ k + h1 >= n
    BY <1>2, <1>9, <2>1
  <2> QED
    BY <2>2 DEF h1
<1> QED
  BY <1>1, <1>12, <1>13 DEF ErrorReached

LEMMA ErrorKnownStep ==
    ASSUME TypeOK, Inv, [Next]_vars
    PROVE  ErrorKnown'
<1> DEFINE c == "client"
<1>0. ErrorKnown /\ ErrorKept(c) /\ c \in Sides
  BY PeerType DEF Inv
<1>1. ErrorReached => ErrorKnown'
  BY ErrorReachedStep DEF ErrorKnown
<1>2. CASE ~ErrorReached
  <2>0. /\ rd[c] # "store" /\ err[c] \notin ErrorTexts
        /\ ~(ret[c].kind = "error" /\ ret[c].val \in ErrorTexts \cup {Torn})
    BY <1>0, <1>2 DEF ErrorKnown
  <2>1. CASE /\ rd'[c] = rd[c] /\ hand'[c] = hand[c] /\ err'[c] = err[c]
             /\ rcv'[c] = rcv[c] /\ ret'[c] = ret[c] /\ taken'[c] = taken[c]
    BY <2>0, <2>1 DEF ErrorKnown
  <2>2. CASE RecvBegin(c)
    <3>1. rd' = rd /\ err' = err /\ rcv[c] = "idle"
      BY <2>2 DEF RecvBegin
    <3>2. ErrReads(c) = {err[c]}
      BY <2>0, <3>1 DEF ErrReads
    <3>3. ret'[c].kind = "error" => ret'[c].val = err[c]
      BY <2>2, <3>2, PeerType DEF RecvBegin, RecvReturns, Result, NoResult, TypeOK
    <3> QED
      BY <1>0, <2>0, <3>1, <3>3 DEF ErrorKnown, ErrorKept
  <2>3. CASE RecvCancel(c)
    BY <2>0, <2>3, PeerType DEF ErrorKnown, RecvCancel, RecvReturns, Result, TypeOK
  <2>4. CASE Decode(c)
    <3>1. rd'[c] = "store" => ErrorReached'
      BY <2>4, ErrorDecoded
    <3>2. err' = err /\ ret' = ret
      BY <2>4 DEF Decode
    <3> QED
      BY <2>0, <3>1, <3>2 DEF ErrorKnown
  <2>5. CASE ReaderStored(c)
    BY <2>0, <2>5 DEF ReaderStored
  <2>6. CASE DecodeEof(c) \/ DecodeFail(c)
    BY <2>0, <2>6, PeerType DEF ErrorKnown, DecodeEof, DecodeFail, CloseChannel,
      TypeOK
  <2>7. CASE RecvTake(c, Want(c))
    <3>1. Len(hand[c]) = 1
      BY <1>0, <2>7 DEF RecvTake, TypeOK
    <3>2. ~IsError(Head(hand[c]))
      BY <1>0, <1>2, <3>1, HeldError, HeldMessage
    <3>3. ret'[c].kind # "error"
      BY <1>0, <2>7, <3>2 DEF RecvTake, Interpret, IsError, IsClose, Result, TypeOK
    <3>4. err' = err /\ rd'[c] # "store"
      BY <1>0, <2>7 DEF RecvTake, HandOver, TypeOK
    <3> QED
      BY <2>0, <3>3, <3>4 DEF ErrorKnown
  <2>8. CASE RecvTakeFailure(c)
    <3>1. /\ ret'[c] = Result("error", ReadErr) /\ err' = err /\ rd'[c] = "exit"
      BY <1>0, <2>8 DEF RecvTakeFailure, CloseChannel, TypeOK
    <3>2. ReadErr \notin ErrorTexts \cup {Torn}
      BY ConstantsAssumption, TextsType
    <3> QED
      BY <2>0, <3>1, <3>2 DEF ErrorKnown, Result
  <2>9. CASE RecvStored(c)
    <3>1. err'[c] = ret[c].val /\ ret' = ret /\ rd' = rd /\ rcv[c] = "store"
      BY <1>0, <2>9 DEF RecvStored, Keep, TypeOK
    <3> QED
      BY <1>0, <2>0, <3>1 DEF ErrorKnown, ErrorKept
  <2>10. CASE RecvClosed(c)
    BY <2>0, <2>10, PeerType DEF ErrorKnown, RecvClosed, RecvReturns, Result, TypeOK
  <2>11. CASE Invoke
    BY <2>0, <2>11, PeerType DEF ErrorKnown, Invoke, StartReader, TypeOK
  <2> QED
    BY <1>0, <2>1, <2>2, <2>3, <2>4, <2>5, <2>6, <2>7, <2>8, <2>9, <2>10, <2>11,
       ConnSteps DEF Reader, RecvProceeds
<1> QED
  BY <1>1, <1>2
-----------------------------------------------------------------------------
(* The theorems.                                                           *)

LEMMA InvInit ==
    ASSUME Init
    PROVE  Inv
<1>1. ASSUME NEW s \in Sides
      PROVE  /\ InOrder(s) /\ ReaderGone(s) /\ ErrorKept(s) /\ ReaderDone(s)
             /\ rst[Peer(s)] => fin[s]
  <2>1. /\ taken[s] = <<>> /\ hand[s] = <<>> /\ wire[Peer(s)] = <<>>
        /\ sent[Peer(s)] = <<>> /\ rst[Peer(s)] = FALSE
        /\ rd[s] = "none" /\ rcv[s] = "idle" /\ ret[s] = NoResult /\ err[s] = NoErr
    BY PeerType DEF Init, StreamInit, ConnInit
  <2>2. InOrder(s)
    <3>1. Len(<<>>) = 0 /\ \A i \in 1 .. Len(<<>>) : FALSE
      OBVIOUS
    <3> QED
      BY <2>1, <3>1 DEF InOrder, Aligned
  <2>3. ReaderGone(s) /\ ErrorKept(s) /\ ReaderDone(s)
    BY <2>1, TextsType DEF ReaderGone, ErrorKept, ReaderDone, NoResult, Result
  <2> QED
    BY <2>1, <2>2, <2>3
<1>2. ErrorsInOrder
  <2>1. /\ sent["client"] = <<>> /\ sent["server"] = <<>>
        /\ snd["client"] = <<>> /\ snd["server"] = <<>>
    BY PeerType DEF Init, StreamInit, ConnInit
  <2>2. \A i \in 1 .. Len(<<>>) : FALSE
    OBVIOUS
  <2> QED
    BY <2>1, <2>2 DEF ErrorsInOrder
<1>3. ErrorKnown
  <2>1. rd["client"] = "none" /\ err["client"] = NoErr /\ ret["client"] = NoResult
    BY PeerType DEF Init, ConnInit
  <2> QED
    BY <2>1, ErrorTextsNotNil DEF ErrorKnown, NoResult, Result
<1> QED
  BY <1>1, <1>2, <1>3 DEF Inv

LEMMA InvStep ==
    ASSUME TypeOK, Inv, [Next]_vars
    PROVE  Inv'
<1>1. ASSUME NEW s \in Sides
      PROVE  /\ InOrder(s)' /\ ReaderGone(s)' /\ ErrorKept(s)' /\ ReaderDone(s)'
             /\ rst'[Peer(s)] => fin'[s]
  <2>1. rst'[Peer(s)] => fin'[s]
    BY EndsGrow DEF Inv
  <2> QED
    BY <2>1, InOrderStep, ReaderGoneStep, ErrorKeptStep, ReaderDoneStep
<1> QED
  BY <1>1, ErrorsInOrderStep, ErrorKnownStep DEF Inv

\* Inv holds of every call: messages keep their order, a reader that is gone
\* leaves a reason, and errors are kept.
THEOREM Invariance == Spec => []Inv
<1>1. Init => Inv
  BY InvInit
<1>2. TypeOK /\ Inv /\ [Next]_vars => Inv'
  BY InvStep
<1> QED
  BY <1>1, <1>2, TypeCorrect, PTL DEF Spec

\* When Recv returns the error of the handler, everything the handler sent
\* before it was received (run and Recv of conn.go).
THEOREM ErrorAfterDataHolds == Spec => []ErrorAfterData
<1>1. TypeOK /\ Inv => ErrorAfterData
  <2> SUFFICES ASSUME TypeOK, Inv, ret["client"].kind = "error",
                      ret["client"].val \in ErrorTexts \cup {Torn}
               PROVE  Len(taken["client"]) + 1 >= Len(sent["server"])
    BY DEF ErrorAfterData
  <2> DEFINE k == Len(taken["client"])
             h == Len(hand["client"])
             n == Len(sent["server"])
  <2>1. k + h >= n
    BY DEF Inv, ErrorKnown, ErrorReached
  <2>2. h \in Nat /\ h <= 1
    <3>1. rd["client"] \in {"store", "offer", "last"} \/ rd["client"] \notin {"store", "offer", "last"}
      OBVIOUS
    <3> QED
      BY <3>1, HandLength, PeerType
  <2>3. k \in Nat /\ n \in Nat
    BY FlowTypes, PeerType
  <2> HIDE DEF k, h, n
  <2>4. k + 1 >= n
    BY <2>1, <2>2, <2>3
  <2> QED
    BY <2>4 DEF k, n
<1> QED
  BY <1>1, TypeCorrect, Invariance, PTL

\* The first error that Recv returns is the last word on the call.
LEMMA FailedStep ==
    ASSUME TypeOK, Inv, [Next]_vars, NEW s \in Sides, Failed(s)
    PROVE  Failed(s)'
<1>1. /\ ret[s].kind = "error" /\ rcv[s] = "idle" /\ rd[s] # "store" /\ snd[s] = <<>>
      /\ err[s] # NoErr
  BY DEF Failed, Inv, ErrorKept
<1>2. ErrReads(s) = {err[s]}
  BY <1>1 DEF ErrReads
<1>3. rd[s] \in {"last", "exit"}
  BY <1>1 DEF Inv, ReaderDone
<1>4. ret'[s].kind = "error" /\ rcv'[s] = "idle" /\ rd'[s] # "store"
  <2>1. CASE rd'[s] = rd[s] /\ rcv'[s] = rcv[s] /\ ret'[s] = ret[s]
    BY <1>1, <2>1
  <2>2. CASE RecvBegin(s)
    BY <1>1, <1>2, <2>2 DEF RecvBegin, RecvReturns, Result, TypeOK
  <2>3. ~RecvCancel(s) /\ ~RecvProceeds(s, Want(s)) /\ ~Reader(s)
    BY <1>1, <1>3 DEF RecvCancel, RecvProceeds, RecvTake, RecvTakeFailure, RecvStored,
      RecvClosed, Reader, Decode, AtDecode, ReaderStored, DecodeEof, DecodeFail
  <2>4. ~(s = "client" /\ Invoke) /\ ~(s = "server" /\ Accept)
    BY <1>3, PeerType DEF Invoke, Accept, TypeOK
  <2> QED
    BY <2>1, <2>2, <2>3, <2>4, ConnSteps
<1>5. snd'[s] = <<>>
  <2>1. ASSUME NEW m, BeginSend(s, m)
        PROVE  snd' = snd
    BY <1>1, <1>2, <2>1 DEF BeginSend
  <2>2. ASSUME NEW t \in Sides, t # s, NEW m, BeginSend(t, m)
        PROVE  snd'[s] = snd[s]
    BY <2>2 DEF BeginSend, TypeOK
  <2>3. CASE Caller
    <3>1. Invoke => snd'[s] = snd[s]
      BY <1>3, PeerType DEF Invoke, TypeOK
    <3> QED
      BY <1>1, <2>3, <3>1 DEF Caller, InvokeFails, InvokeSent, InvokeSendFails,
        CallerCloses, connVars
  <2>4. CASE Server
    <3>1. HandlerFails => snd'[s] = snd[s]
      BY <2>1, <2>2, PeerType DEF HandlerFails
    <3> QED
      BY <1>1, <2>4, <3>1 DEF Server, Accept, Dispatch, Reject, HandlerReturns,
        ErrorSent, ServerCloses, connVars
  <2>5. ASSUME NEW t \in Sides, Send(t)
        PROVE  snd'[s] = snd[s]
    BY <2>1, <2>2, <2>5 DEF Send
  <2>6. ASSUME NEW t \in Sides, SendStep(t)
        PROVE  snd'[s] = snd[s]
    BY <1>1, <2>6 DEF SendStep, SendProceeds, Encode, EncodeFails, TypeOK
  <2>7. ASSUME NEW t \in Sides, Recv(t) \/ Cancel(t) \/ ReaderStep(t) \/ RecvStep(t) \/ Expire(t)
        PROVE  snd' = snd
    BY <2>7 DEF Recv, RecvBegin, Cancel, RecvCancel, ReaderStep, Reader, Decode,
      ReaderStored, DecodeEof, DecodeFail, RecvStep, RecvProceeds, RecvTake,
      RecvTakeFailure, RecvStored, RecvClosed, Expire, connVars
  <2>8. Drop \/ UNCHANGED vars => snd' = snd
    BY DEF Drop, vars, connVars
  <2> QED
    BY <1>1, <2>3, <2>4, <2>5, <2>6, <2>7, <2>8 DEF Next
<1> QED
  BY <1>4, <1>5 DEF Failed

\* After the first error every Recv returns an error and no Send passes on
\* (the field err of conn.go, set by run and by Recv).
THEOREM ErrorIsFinalHolds == Spec => ErrorIsFinal
<1>1. TypeOK /\ Inv /\ [Next]_vars => [\A s \in Sides : Failed(s) => Failed(s)']_vars
  BY FailedStep
<1> QED
  BY <1>1, TypeCorrect, Invariance, PTL DEF Spec, ErrorIsFinal

-----------------------------------------------------------------------------
(* The refinement: every step of the goroutines, of the users and of yamux *)
(* is a step of the pipe or leaves what the users see of it alone.         *)

LEMMA PipeInit == Init => Pipe!Init
<1> SUFFICES ASSUME Init PROVE Pipe!Init
  OBVIOUS
<1>1. ~Broken
  BY PeerType DEF Init, StreamInit, Broken
<1>2. AtEnd = [s \in Sides |-> FALSE]
  BY DEF Init, ConnInit, NoResult, Result, AtEnd
<1> QED
  BY <1>1, <1>2 DEF Init, StreamInit, ConnInit, Pipe!Init, AtEnd

\* The steps that the users do not notice.
LEMMA PipeStutters ==
    ASSUME UNCHANGED <<link, rst, sent, taken, fin, ret>>
    PROVE  UNCHANGED Pipe!pipeVars
BY DEF Pipe!pipeVars, Broken, AtEnd

\* Stream.Close ends a direction of the pipe.
LEMMA PipeCloses ==
    ASSUME NEW s \in Sides, NEW busy, CloseHalf(s, busy), UNCHANGED connVars
    PROVE  Pipe!Close(s)
BY DEF CloseHalf, connVars, Pipe!Close, Broken, AtEnd

\* Encode sends.
LEMMA PipeSends ==
    ASSUME TypeOK, Inv, NEW s \in Sides, Encode(s)
    PROVE  Pipe!Send(s)
<1> DEFINE m == Head(snd[s])
<1>1. /\ sent' = [sent EXCEPT ![s] = Append(@, m)]
      /\ UNCHANGED <<link, fin, rst, ret, taken>>
  BY DEF Encode, Write
<1>2. m \in Messages /\ sent[s] \in Seq(Messages) /\ sent'[s] = Append(sent[s], m)
  BY <1>1 DEF Encode, TypeOK
<1>3. /\ sent'[s] \in Seq(Messages) /\ Len(sent'[s]) = Len(sent[s]) + 1
      /\ sent'[s][Len(sent[s]) + 1] = m
  BY <1>2
<1>4. ~fin[s] /\ ~Broken
  BY WritableNotBroken DEF Encode, Writable
<1>5. UNCHANGED <<taken, fin, Broken, AtEnd>>
  BY <1>1 DEF Broken, AtEnd
<1>6. sent' = [sent EXCEPT ![s] = Append(sent[s], sent'[s][Len(sent[s]) + 1])]
  BY <1>1, <1>3
<1> QED
  BY <1>3, <1>4, <1>5, <1>6 DEF Pipe!Send

\* What a Recv returns decides whether it reported the end.
LEMMA AtEndStep ==
    ASSUME TypeOK, NEW s \in Sides, NEW r, ret' = [ret EXCEPT ![s] = r],
           NEW b \in BOOLEAN, b <=> r.kind = "eof"
    PROVE  AtEnd' = [AtEnd EXCEPT ![s] = b]
<1>1. b = (r.kind = "eof")
  OBVIOUS
<1> QED
  BY <1>1 DEF AtEnd, TypeOK

\* The rendezvous with the reader receives the next message.
LEMMA PipeReceives ==
    ASSUME TypeOK, Inv, NEW s \in Sides, RecvTake(s, Want(s))
    PROVE  Pipe!Receive(s)
<1> DEFINE m == Head(hand[s])
<1>1. /\ rd[s] \in {"offer", "last"}
      /\ ret' = [ret EXCEPT ![s] = Interpret(m, Want(s))]
      /\ taken' = [taken EXCEPT ![s] = Append(@, m)]
      /\ UNCHANGED <<link, fin, rst, sent>>
  BY DEF RecvTake, streamVars
<1>2. Len(hand[s]) = 1
  BY <1>1 DEF TypeOK
<1>3. /\ m = sent[Peer(s)][Len(taken[s]) + 1]
      /\ Len(taken[s]) + 1 \in 1 .. Len(sent[Peer(s)])
  BY <1>2, HeldMessage
<1>4. Len(taken[s]) < Len(sent[Peer(s)])
  BY <1>3, FlowTypes
<1>5. IsClose(m) \in BOOLEAN /\ (IsClose(m) <=> Interpret(m, Want(s)).kind = "eof")
  <2>1. IsClose(m) => Interpret(m, Want(s)).kind = "eof"
    BY DEF Interpret, IsClose, IsError, Want, Result
  <2>2. ~IsClose(m) => Interpret(m, Want(s)) \in
           {Result("error", m.data), Result("message", m.data), Result("protocol", <<>>)}
    BY DEF Interpret, IsError, Want
  <2>3. ~IsClose(m) => Interpret(m, Want(s)).kind # "eof"
    BY <2>2 DEF Result
  <2> QED
    BY <2>1, <2>3 DEF IsClose
<1>6. AtEnd' = [AtEnd EXCEPT ![s] = IsClose(m)]
  BY <1>1, <1>5, AtEndStep
<1> QED
  BY <1>1, <1>3, <1>4, <1>6 DEF Pipe!Receive, Broken

\* The closed channel reports the end.
LEMMA PipeReceivesEnd ==
    ASSUME TypeOK, Inv, NEW s \in Sides, RecvClosed(s)
    PROVE  Pipe!ReceiveEnd(s)
<1>1. ret' = [ret EXCEPT ![s] = Result("eof", <<>>)] /\ UNCHANGED <<streamVars, taken>>
  BY DEF RecvClosed, RecvReturns
<1>2. AtEnd' = [AtEnd EXCEPT ![s] = TRUE]
  <2>1. TRUE <=> Result("eof", <<>>).kind = "eof"
    BY DEF Result
  <2> QED
    BY <1>1, <2>1, AtEndStep
<1>3. Ended(s)
  BY DEF RecvClosed, Inv, ReaderGone
<1> QED
  BY <1>1, <1>2, <1>3 DEF Pipe!ReceiveEnd, Ended, Broken, streamVars

\* The other outcomes of Recv neither receive nor report the end.
LEMMA PipeReceivesNothing ==
    ASSUME TypeOK, NEW s \in Sides, RecvBegin(s) \/ RecvCancel(s) \/ RecvTakeFailure(s)
    PROVE  Pipe!ReceiveNothing(s)
<1>1. PICK r : ret' = [ret EXCEPT ![s] = r] /\ r.kind # "eof"
  <2>1. CASE RecvBegin(s)
    <3>1. PICK e : \/ ret' = [ret EXCEPT ![s] = Result("error", e)]
                   \/ ret' = [ret EXCEPT ![s] = NoResult]
      BY <2>1 DEF RecvBegin, RecvReturns
    <3>2. Result("error", e).kind # "eof" /\ NoResult.kind # "eof"
      BY DEF Result, NoResult
    <3> QED
      BY <3>1, <3>2
  <2>2. CASE RecvCancel(s)
    <3>1. Result("ctx", <<>>).kind # "eof"
      BY DEF Result
    <3> QED
      BY <2>2, <3>1 DEF RecvCancel, RecvReturns
  <2>3. CASE RecvTakeFailure(s)
    <3>1. Result("error", ReadErr).kind # "eof"
      BY DEF Result
    <3> QED
      BY <2>3, <3>1 DEF RecvTakeFailure
  <2> QED
    BY <2>1, <2>2, <2>3
<1>2. AtEnd' = [AtEnd EXCEPT ![s] = FALSE]
  BY <1>1, AtEndStep
<1>3. UNCHANGED <<streamVars, taken>>
  BY DEF RecvBegin, RecvCancel, RecvTakeFailure
<1> QED
  BY <1>2, <1>3 DEF Pipe!ReceiveNothing, Broken, streamVars

LEMMA PipeStep ==
    ASSUME TypeOK, Inv, [Next]_vars
    PROVE  [Pipe!Next]_Pipe!pipeVars
<1>1. CASE Caller
  <2>1. CASE InvokeSendFails \/ CallerCloses
    <3>1. Pipe!Close("client")
      BY <2>1, PipeCloses, PeerType DEF InvokeSendFails, CallerCloses
    <3> QED
      BY <3>1, PeerType DEF Pipe!Next
  <2>2. CASE Invoke \/ InvokeFails \/ InvokeSent
    BY <2>2, PipeStutters DEF Invoke, InvokeFails, InvokeSent, streamVars, connVars
  <2> QED
    BY <1>1, <2>1, <2>2 DEF Caller
<1>2. CASE Server
  <2>1. CASE Reject \/ ServerCloses
    <3>1. Pipe!Close("server")
      BY <2>1, PipeCloses, PeerType DEF Reject, ServerCloses
    <3> QED
      BY <3>1, PeerType DEF Pipe!Next
  <2>2. CASE Accept \/ Dispatch \/ HandlerReturns \/ HandlerFails \/ ErrorSent
    BY <2>2, PipeStutters DEF Accept, Dispatch, HandlerReturns, HandlerFails,
      ErrorSent, streamVars, connVars
  <2> QED
    BY <1>2, <2>1, <2>2 DEF Server
<1>3. CASE Drop \/ \E s \in Sides : Expire(s)
  <2>1. Broken' /\ UNCHANGED <<sent, fin, connVars>>
    BY <1>3, PeerType DEF Drop, LinkDown, Expire, CloseTimeout, Broken, TypeOK
  <2>2. Pipe!Break
    BY <2>1 DEF Pipe!Break, connVars, AtEnd
  <2> QED
    BY <2>2 DEF Pipe!Next
<1>4. ASSUME NEW s \in Sides, Recv(s) \/ Cancel(s) \/ RecvStep(s)
      PROVE  [Pipe!Next]_Pipe!pipeVars
  <2>1. \/ RecvBegin(s) \/ RecvCancel(s) \/ RecvTakeFailure(s)
        \/ RecvTake(s, Want(s)) \/ RecvClosed(s) \/ RecvStored(s)
    BY <1>4 DEF Recv, Cancel, RecvStep, RecvProceeds
  <2>2. RecvStored(s) => UNCHANGED Pipe!pipeVars
    BY PipeStutters DEF RecvStored, streamVars
  <2> QED
    BY <2>1, <2>2, PipeReceives, PipeReceivesEnd, PipeReceivesNothing DEF Pipe!Next
<1>5. ASSUME NEW s \in Sides, Send(s) \/ ReaderStep(s)
      PROVE  UNCHANGED Pipe!pipeVars
  BY <1>5, PipeStutters DEF Send, ReaderStep, Reader, Decode, ReaderStored, DecodeEof,
    DecodeFail, streamVars
<1>6. ASSUME NEW s \in Sides, SendStep(s)
      PROVE  [Pipe!Next]_Pipe!pipeVars
  <2>1. EncodeFails(s) => UNCHANGED Pipe!pipeVars
    BY PipeStutters DEF EncodeFails, streamVars
  <2> QED
    BY <1>6, <2>1, PipeSends DEF SendStep, SendProceeds, Pipe!Next
<1>7. CASE UNCHANGED vars
  BY <1>7, PipeStutters DEF vars, streamVars, connVars
<1> QED
  BY <1>1, <1>2, <1>3, <1>4, <1>5, <1>6, <1>7 DEF Next

\* A call over a multiplexed connection implements a DuplexPipe: Recv hands out
\* what the peer sent, once and in order, and reports io.EOF for nothing but its
\* end.
THEOREM PipeRefined == Spec => PipeSpec
<1>1. Init => Pipe!Init
  BY PipeInit
<1>2. TypeOK /\ Inv /\ [Next]_vars => [Pipe!Next]_Pipe!pipeVars
  BY PipeStep
<1> QED
  BY <1>1, <1>2, TypeCorrect, Invariance, PTL DEF Spec, PipeSpec, Pipe!Spec

-----------------------------------------------------------------------------
(* How a call ends: EndInv is inductive together with Inv, and with it a   *)
(* handler's error is on the wire before the stream is closed and the      *)
(* caller never takes it for the end of the call.                          *)

\* The pipe is whole and every message of the caller as well.
Healthy == ~Broken /\ ~cut["client"]

\* Who changes where caller and handler are, and what the caller's half carries.
LEMMA EndSteps ==
    ASSUME TypeOK, [Next]_vars
    PROVE  \/ UNCHANGED <<callVars, fin, cut>>
           \/ Caller /\ UNCHANGED <<srv, hres, fin["server"], snd["server"]>>
           \/ Server /\ UNCHANGED <<cl, cut["client"]>>
           \/ Broken' /\ UNCHANGED <<callVars, fin>>
<1>1. CASE Caller
  BY <1>1, PeerType DEF Caller, Invoke, InvokeFails, InvokeSent, InvokeSendFails,
    CallerCloses, CloseHalf, streamVars, connVars, TypeOK
<1>2. CASE Server
  BY <1>2, PeerType DEF Server, Accept, Dispatch, Reject, HandlerReturns,
    HandlerFails, ErrorSent, ServerCloses, CloseHalf, streamVars, connVars, TypeOK
<1>3. CASE Drop \/ \E s \in Sides : Expire(s)
  <2>1. CASE Drop
    BY <2>1 DEF Drop, LinkDown, Broken
  <2>2. ASSUME NEW s \in Sides, Expire(s)
        PROVE  Broken' /\ UNCHANGED <<callVars, fin>>
    BY <2>2, PeerType DEF Expire, CloseTimeout, Broken, TypeOK
  <2> QED BY <1>3, <2>1, <2>2
<1>4. ASSUME NEW s \in Sides,
             Send(s) \/ Recv(s) \/ Cancel(s) \/ ReaderStep(s) \/ RecvStep(s) \/ SendStep(s)
      PROVE  UNCHANGED <<callVars, fin, cut>>
  BY <1>4 DEF Send, Recv, RecvBegin, Cancel, RecvCancel, ReaderStep, Reader, Decode,
    ReaderStored, DecodeEof, DecodeFail, RecvStep, RecvProceeds, RecvTake,
    RecvTakeFailure, RecvStored, RecvClosed, SendStep, SendProceeds, Encode,
    EncodeFails, streamVars
<1>5. CASE UNCHANGED vars
  BY <1>5 DEF vars, streamVars
<1> QED
  BY <1>1, <1>2, <1>3, <1>4, <1>5 DEF Next

\* What is broken or cut stays so, and the caller cuts only by closing.
LEMMA HealthStep ==
    ASSUME TypeOK, [Next]_vars, Healthy'
    PROVE  Healthy
<1>1. ~Broken
  BY EndsGrow, PeerType DEF Healthy
<1>2. cut["client"] => cut'["client"]
  <2>1. CASE Caller
    BY <2>1, PeerType DEF Caller, Invoke, InvokeFails, InvokeSent, InvokeSendFails,
      CallerCloses, CloseHalf, streamVars, TypeOK
  <2> QED BY <2>1, EndSteps DEF Healthy
<1> QED BY <1>1, <1>2 DEF Healthy

LEMMA EndsInOrderStep ==
    ASSUME TypeOK, Inv, EndsInOrder, [Next]_vars
    PROVE  EndsInOrder'
<1>0. Broken => Broken'
  BY EndsGrow, PeerType
<1>1. CASE UNCHANGED <<callVars, fin, cut>>
  BY <1>0, <1>1 DEF EndsInOrder, callVars
<1>2. CASE Caller /\ UNCHANGED <<srv, hres, fin["server"], snd["server"]>>
  BY <1>0, <1>2, PeerType DEF EndsInOrder, Caller, Invoke, InvokeFails,
    InvokeSent, InvokeSendFails, CallerCloses, CloseHalf, streamVars, TypeOK
<1>3. CASE Server /\ UNCHANGED <<cl, cut["client"]>>
  <2>1. fin'["server"] => srv' = "done"
    BY <1>3, PeerType DEF EndsInOrder, Server, Accept, Dispatch, Reject,
      HandlerReturns, HandlerIdle, MethodReceived, HandlerFails, ErrorSent,
      ServerCloses, CloseHalf, streamVars, TypeOK
  <2>2. fin'["client"] = fin["client"] /\ cut'["server"] = cut["server"]
    BY <1>3, PeerType DEF Server, Accept, Dispatch, Reject, HandlerReturns,
      HandlerFails, ErrorSent, ServerCloses, CloseHalf, streamVars, TypeOK
  <2> QED BY <1>0, <1>3, <2>1, <2>2 DEF EndsInOrder
<1>4. CASE Broken' /\ UNCHANGED <<callVars, fin>>
  BY <1>4 DEF EndsInOrder, callVars
<1> QED BY <1>1, <1>2, <1>3, <1>4, EndSteps

\* The reader of the server never decodes an ERROR.
LEMMA ServerReadsNoError ==
    ASSUME TypeOK, Inv
    PROVE  /\ \A i \in 1 .. Len(wire["client"]) : ~IsError(wire["client"][i])
           /\ Len(hand["server"]) = 1 => ~IsError(Head(hand["server"]))
<1>1. InOrder("server")
  BY PeerType DEF Inv
<1>2. /\ Len(taken["server"]) \in Nat /\ Len(hand["server"]) \in Nat
      /\ Len(wire["client"]) \in Nat /\ Len(sent["client"]) \in Nat
  BY FlowTypes, PeerType
<1>3. ASSUME NEW i \in 1 .. Len(wire["client"])
      PROVE  ~IsError(wire["client"][i])
  <2>1. /\ Len(taken["server"]) + Len(hand["server"]) + Len(wire["client"])
             <= Len(sent["client"])
        /\ wire["client"][i]
             = sent["client"][Len(taken["server"]) + Len(hand["server"]) + i]
    BY <1>1, PeerType DEF InOrder, Aligned
  <2>2. \A a, b, c, d \in Nat : \A j \in 1 .. c : a + b + c <= d => a + b + j \in 1 .. d
    OBVIOUS
  <2>3. Len(taken["server"]) + Len(hand["server"]) + i \in 1 .. Len(sent["client"])
    BY <1>2, <2>1, <2>2
  <2> QED BY <2>1, <2>3 DEF Inv, ErrorsInOrder
<1>4. Len(hand["server"]) = 1 => ~IsError(Head(hand["server"]))
  BY HeldMessage, HeldError, PeerType
<1> QED BY <1>3, <1>4

\* Nothing goes wrong for a server as long as its caller sends whole messages.
LEMMA ServerReadsStep ==
    ASSUME TypeOK, Inv, ServerReads, [Next]_vars
    PROVE  ServerReads'
<1> SUFFICES ASSUME Healthy'
             PROVE  /\ err'["server"] = NoErr /\ rcv'["server"] # "store"
                    /\ rd'["server"] \notin {"store", "failed"}
  BY DEF ServerReads, Healthy
<1>0. /\ err["server"] = NoErr /\ rcv["server"] # "store"
      /\ rd["server"] \notin {"store", "failed"} /\ ~Broken /\ ~cut["client"]
  BY HealthStep DEF ServerReads, Healthy
<1>1. CASE rd'["server"] = rd["server"] /\ err'["server"] = err["server"]
             /\ rcv'["server"] = rcv["server"]
  BY <1>0, <1>1
<1>2. CASE RecvBegin("server") \/ RecvCancel("server") \/ Accept
  BY <1>0, <1>2, PeerType DEF RecvBegin, RecvCancel, RecvReturns, Accept,
    StartReader, TypeOK
<1>3. CASE Decode("server")
  <2>1. Head(wire["client"]) = wire["client"][1] /\ 1 \in 1 .. Len(wire["client"])
    BY <1>3, PeerType DEF Decode, Readable, TypeOK
  <2>2. ~IsError(Head(wire["client"]))
    BY <2>1, ServerReadsNoError
  <2> QED BY <1>0, <1>3, <2>2, PeerType DEF Decode, TypeOK
<1>4. CASE ReaderStored("server")
  BY <1>0, <1>4 DEF ReaderStored
<1>5. CASE DecodeEof("server")
  BY <1>0, <1>5, PeerType DEF DecodeEof, CloseChannel, TypeOK
<1>6. CASE DecodeFail("server")
  BY <1>0, <1>6, PeerType DEF DecodeFail, ReadsError, Broken
<1>7. CASE RecvTake("server", Want("server"))
  <2>1. Len(hand["server"]) = 1
    BY <1>7, PeerType DEF RecvTake, TypeOK
  <2>2. ~IsError(Head(hand["server"]))
    BY <2>1, ServerReadsNoError
  <2> QED BY <1>0, <1>7, <2>2, PeerType DEF RecvTake, HandOver, TypeOK
<1>8. CASE RecvTakeFailure("server") \/ RecvStored("server")
  BY <1>0, <1>8 DEF RecvTakeFailure, RecvStored
<1>9. CASE RecvClosed("server")
  BY <1>0, <1>9, PeerType DEF RecvClosed, RecvReturns, TypeOK
<1> QED
  BY <1>1, <1>2, <1>3, <1>4, <1>5, <1>6, <1>7, <1>8, <1>9, ConnSteps, PeerType
    DEF Reader, RecvProceeds

\* Appending a message makes it the last.
LEMMA LastAppended ==
    ASSUME NEW q \in Seq(Messages), NEW m \in Messages
    PROVE  Append(q, m) # <<>> /\ Append(q, m)[Len(Append(q, m))] = m
<1>1. Len(Append(q, m)) = Len(q) + 1 /\ Len(q) \in Nat /\ Append(q, m)[Len(q) + 1] = m
  OBVIOUS
<1>2. Len(<<>>) = 0
  OBVIOUS
<1>3. Append(q, m) # <<>>
  <2>1. \A n \in Nat : n + 1 # 0
    OBVIOUS
  <2> QED BY <1>1, <1>2, <2>1
<1> QED BY <1>1, <1>3

\* A handler that fails starts to send its error, if nothing went wrong before.
LEMMA FailureIsSending ==
    ASSUME TypeOK, ServerReads, HandlerFails, Healthy
    PROVE  srv' = "error" /\ snd'["server"] # <<>> /\ IsError(Head(snd'["server"]))
<1>1. PICK e \in ErrorTexts : BeginSend("server", NewErrorMessage(e))
  BY DEF HandlerFails
<1>2. ErrReads("server") = {NoErr}
  BY DEF ServerReads, ErrReads, Healthy
<1>3. snd' = [snd EXCEPT !["server"] = <<NewErrorMessage(e)>>]
  BY <1>1, <1>2 DEF BeginSend
<1>4. snd'["server"] = <<NewErrorMessage(e)>>
  BY <1>3, PeerType DEF TypeOK
<1>5. Head(<<NewErrorMessage(e)>>) = NewErrorMessage(e) /\ IsError(NewErrorMessage(e))
  BY ErrorMessageType, SingletonType
<1>6. <<NewErrorMessage(e)>> # <<>>
  OBVIOUS
<1> QED BY <1>4, <1>5, <1>6 DEF HandlerFails

\* The error of the handler is on its way or sent.
LEMMA ErrorDueStep ==
    ASSUME TypeOK, Inv, EndsInOrder, ServerReads, ErrorDue, [Next]_vars
    PROVE  ErrorDue'
<1> SUFFICES ASSUME Healthy', hres' = "error"
             PROVE  \/ /\ srv' = "error" /\ snd'["server"] # <<>>
                       /\ IsError(Head(snd'["server"]))
                    \/ srv' \in {"error", "closing", "done"} /\ LastIsError'
  BY DEF ErrorDue, Healthy
<1>0. Healthy
  BY HealthStep
<1>1. ASSUME hres = "error"
      PROVE  \/ srv = "error" /\ snd["server"] # <<>> /\ IsError(Head(snd["server"]))
             \/ srv \in {"error", "closing", "done"} /\ LastIsError
  BY <1>0, <1>1 DEF ErrorDue, Healthy
<1>2. CASE hres = "error" /\ UNCHANGED <<srv, sent["server"], snd["server"]>>
  BY <1>1, <1>2 DEF LastIsError
<1>3. CASE Caller
  <2>1. UNCHANGED <<srv, hres, sent["server"], snd["server"]>>
    BY <1>3, PeerType DEF Caller, Invoke, InvokeFails, InvokeSent, InvokeSendFails,
      CallerCloses, CloseHalf, streamVars, connVars, TypeOK
  <2> QED BY <1>2, <2>1
<1>4. CASE Server
  <2>1. CASE HandlerFails
    BY <1>0, <2>1, FailureIsSending
  <2>2. CASE HandlerReturns
    BY <2>2 DEF HandlerReturns
  <2>3. CASE Accept \/ Dispatch \/ Reject
    <3>1. hres' = hres /\ srv \in {"none", "method"}
      BY <2>3 DEF Accept, Dispatch, Reject, MethodReceived
    <3> QED BY <1>1, <3>1
  <2>4. CASE ErrorSent
    BY <1>1, <2>4 DEF ErrorSent, ErrorWritten, streamVars, connVars, LastIsError
  <2>5. CASE ServerCloses
    BY <1>1, <2>5 DEF ServerCloses, CloseHalf, connVars, LastIsError
  <2> QED BY <1>4, <2>1, <2>2, <2>3, <2>4, <2>5 DEF Server
<1>5. ASSUME NEW s \in Sides, Send(s)
      PROVE  UNCHANGED <<hres, srv, sent["server"], snd["server"]>>
  <2>1. hres' = hres /\ srv' = srv /\ sent' = sent
    BY <1>5 DEF Send, callVars, streamVars
  <2>2. s # "server"
    BY <1>1, <1>5, <2>1 DEF Send, InUse
  <2>3. snd'["server"] = snd["server"]
    BY <1>5, <2>2, PeerType DEF Send, BeginSend, TypeOK
  <2> QED BY <2>1, <2>3
<1>6. ASSUME NEW s \in Sides, SendStep(s)
      PROVE  \/ srv' = "error" /\ snd'["server"] # <<>> /\ IsError(Head(snd'["server"]))
             \/ srv' \in {"error", "closing", "done"} /\ LastIsError'
  <2>0. hres' = hres /\ srv' = srv
    BY <1>6 DEF SendStep, callVars
  <2>1. CASE s # "server"
    <3>1. UNCHANGED <<sent["server"], snd["server"]>>
      BY <1>6, <2>1, PeerType DEF SendStep, SendProceeds, Encode, EncodeFails, Write,
        streamVars, TypeOK
    <3> QED BY <1>2, <2>0, <3>1
  <2>2. CASE s = "server" /\ Encode("server")
    <3>1. snd["server"] # <<>> /\ sent'["server"] = Append(sent["server"], Head(snd["server"]))
      BY <2>2, PeerType DEF Encode, Write, TypeOK
    <3>2. sent["server"] \in Seq(Messages) /\ Head(snd["server"]) \in Messages
      BY <3>1, PeerType DEF TypeOK
    <3>3. srv = "error" /\ IsError(Head(snd["server"]))
      <4>1. srv # "done" /\ srv # "closing"
        BY <3>1 DEF Inv, ErrorsInOrder
      <4>2. CASE LastIsError
        <5>1. Len(sent["server"]) \in 1 .. Len(sent["server"])
          BY <3>2, <4>2 DEF LastIsError
        <5>2. snd["server"] = <<>>
          BY <4>2, <5>1 DEF LastIsError, Inv, ErrorsInOrder
        <5> QED BY <3>1, <5>2
      <4> QED BY <1>1, <2>0, <4>1, <4>2
    <3>4. LastIsError'
      BY <3>1, <3>2, <3>3, LastAppended DEF LastIsError
    <3> QED BY <2>0, <3>3, <3>4
  <2>3. CASE s = "server" /\ EncodeFails("server")
    <3>1. snd["server"] # <<>> /\ fin["server"]
      BY <1>0, <2>3, PeerType DEF EncodeFails, Writable, Healthy, Broken, TypeOK
    <3>2. srv = "done" /\ snd["server"] = <<>>
      BY <3>1 DEF EndsInOrder, Inv, ErrorsInOrder
    <3> QED BY <3>1, <3>2
  <2> QED BY <1>6, <2>1, <2>2, <2>3 DEF SendStep, SendProceeds
<1>7. ASSUME NEW s \in Sides,
             Recv(s) \/ Cancel(s) \/ ReaderStep(s) \/ RecvStep(s) \/ Expire(s)
      PROVE  UNCHANGED <<hres, srv, sent["server"], snd["server"]>>
  BY <1>7 DEF Recv, RecvBegin, Cancel, RecvCancel, ReaderStep, Reader, Decode,
    ReaderStored, DecodeEof, DecodeFail, RecvStep, RecvProceeds, RecvTake,
    RecvTakeFailure, RecvStored, RecvClosed, Expire, CloseTimeout, connVars,
    streamVars, callVars
<1>8. CASE Drop \/ UNCHANGED vars
  BY <1>2, <1>8 DEF Drop, LinkDown, vars, streamVars, connVars, callVars
<1> QED BY <1>2, <1>3, <1>4, <1>5, <1>6, <1>7, <1>8 DEF Next

\* Whoever took an ERROR is told of nothing else.
LEMMA ErrorTakenStep ==
    ASSUME TypeOK, Inv, ErrorTaken, [Next]_vars
    PROVE  ErrorTaken'
<1>0. ReaderDone("client") /\ ErrorKept("client")
  BY PeerType DEF Inv
<1> DEFINE Took == \E i \in 1 .. Len(taken["client"]) : IsError(taken["client"][i])
<1>1. ASSUME Took
      PROVE  /\ ret["client"].kind = "error"
             /\ rcv["client"] = "store" \/ (rcv["client"] = "idle" /\ err["client"] # NoErr)
             /\ rd["client"] \in {"last", "exit"}
  BY <1>0, <1>1 DEF ErrorTaken, ReaderDone
<1>2. CASE /\ taken'["client"] = taken["client"] /\ rcv'["client"] = rcv["client"]
           /\ err'["client"] = err["client"] /\ ret'["client"] = ret["client"]
  BY <1>1, <1>2 DEF ErrorTaken
<1>3. CASE RecvBegin("client")
  <2>1. taken' = taken /\ err' = err /\ rcv["client"] = "idle"
    BY <1>3 DEF RecvBegin
  <2>2. Took => ErrReads("client") = {err["client"]} /\ err["client"] # NoErr
    BY <1>1, <2>1 DEF ErrReads
  <2>3. Took => ret'["client"].kind = "error" /\ rcv'["client"] = "idle"
    BY <1>3, <2>2, PeerType DEF RecvBegin, RecvReturns, Result, TypeOK
  <2> HIDE DEF Took
  <2>4. Took' = Took
    BY <2>1 DEF Took
  <2> QED BY <2>1, <2>2, <2>3, <2>4 DEF ErrorTaken, Took
<1>4. CASE RecvCancel("client") \/ RecvTakeFailure("client") \/ RecvClosed("client")
  BY <1>1, <1>4 DEF RecvCancel, RecvTakeFailure, RecvClosed, ErrorTaken
<1>5. CASE Decode("client") \/ DecodeEof("client") \/ DecodeFail("client")
  BY <1>2, <1>5 DEF Decode, DecodeEof, DecodeFail
<1>6. CASE ReaderStored("client")
  BY <1>1, <1>6 DEF ReaderStored, ErrorTaken
<1>7. CASE RecvTake("client", Want("client"))
  <2> DEFINE m == Head(hand["client"])
  <2>1. ~Took
    BY <1>1, <1>7 DEF RecvTake
  <2>2. taken'["client"] = Append(taken["client"], m)
    BY <1>7, PeerType DEF RecvTake, TypeOK
  <2>3. taken["client"] \in Seq(Messages) /\ m \in Messages
    <3>1. hand["client"] \in Seq(Messages) /\ Len(hand["client"]) = 1
      BY <1>7, PeerType DEF RecvTake, TypeOK
    <3> QED BY <3>1, PeerType DEF TypeOK
  <2>4. (\E i \in 1 .. Len(taken'["client"]) : IsError(taken'["client"][i])) => IsError(m)
    BY <2>1, <2>2, <2>3
  <2>5. IsError(m) => ret'["client"].kind = "error" /\ rcv'["client"] = "store"
    BY <1>7, InterpretError, PeerType DEF RecvTake, Result, TypeOK
  <2> QED BY <2>4, <2>5 DEF ErrorTaken
<1>8. CASE RecvStored("client")
  <2>1. ret["client"].kind = "error" /\ ret["client"].val # NoErr
    BY <1>0, <1>8 DEF RecvStored, ErrorKept
  <2> QED BY <1>8, <2>1, PeerType DEF RecvStored, Keep, ErrorTaken, TypeOK
<1>9. CASE Invoke
  BY <1>2, <1>9 DEF Invoke
<1> QED
  BY <1>2, <1>3, <1>4, <1>5, <1>6, <1>7, <1>8, <1>9, ConnSteps, PeerType
    DEF Reader, RecvProceeds

\* The ERROR of the handler is the last thing the server writes.
LEMMA LastStays ==
    ASSUME TypeOK, Inv, [Next]_vars, LastIsError
    PROVE  sent'["server"] = sent["server"]
<1>1. Len(sent["server"]) \in 1 .. Len(sent["server"])
  BY PeerType DEF LastIsError, TypeOK
<1>2. snd["server"] = <<>>
  BY <1>1 DEF LastIsError, Inv, ErrorsInOrder
<1>3. ASSUME NEW t \in Sides, Encode(t)
      PROVE  sent'["server"] = sent["server"]
  BY <1>2, <1>3, PeerType DEF Encode, Write, TypeOK
<1>4. ASSUME NEW t \in Sides, Decode(t) \/ RecvTake(t, Want(t)) \/ Expire(t)
      PROVE  sent' = sent
  BY <1>4 DEF Decode, RecvTake, Expire, CloseTimeout, streamVars
<1>5. Drop => sent' = sent
  BY DEF Drop, LinkDown
<1> QED BY <1>3, <1>4, <1>5, FlowSteps DEF flow

\* An ERROR in the hands of the client's reader is the last message.
LEMMA HeldIsLast ==
    ASSUME TypeOK, Inv, Len(hand["client"]) = 1, IsError(hand["client"][1])
    PROVE  LastIsError /\ Head(hand["client"]) = sent["server"][Len(sent["server"])]
<1> DEFINE k == Len(taken["client"]) + 1
<1>1. /\ hand["client"][1] = Head(hand["client"]) /\ k \in 1 .. Len(sent["server"])
      /\ hand["client"][1] = sent["server"][k]
  BY HeldMessage, PeerType
<1>2. k = Len(sent["server"])
  BY <1>1 DEF Inv, ErrorsInOrder
<1> HIDE DEF k
<1>3. sent["server"] # <<>>
  BY <1>1, PeerType DEF TypeOK
<1> QED BY <1>1, <1>2, <1>3 DEF LastIsError

\* Recv makes an error of nothing but an ERROR.
LEMMA InterpretOther ==
    ASSUME NEW m, NEW s, ~IsError(m)
    PROVE  Interpret(m, Want(s)).kind # "error"
<1>0. IsClose(m) => m.type # Want(s)
  BY DEF IsClose, Want
<1>1. IsClose(m) => Interpret(m, Want(s)) = Result("eof", <<>>)
  BY <1>0, Zenon DEF Interpret
<1>2. ~IsClose(m) /\ m.type = Want(s) => Interpret(m, Want(s)) = Result("message", m.data)
  BY Zenon DEF Interpret
<1>3. ~IsClose(m) /\ m.type # Want(s) => Interpret(m, Want(s)) = Result("protocol", <<>>)
  BY Zenon DEF Interpret
<1>4. /\ Result("eof", <<>>).kind # "error" /\ Result("message", m.data).kind # "error"
      /\ Result("protocol", <<>>).kind # "error"
  BY DEF Result
<1> QED BY <1>1, <1>2, <1>3, <1>4

\* An error the client is told of is the handler's, unless the pipe broke.
LEMMA ErrorToldStep ==
    ASSUME TypeOK, Inv, EndsInOrder, ErrorTold, [Next]_vars
    PROVE  ErrorTold'
<1> DEFINE last == sent["server"][Len(sent["server"])]
           Told(e) == LastIsError /\ e = last.data
           TornOrTold(e) == LastIsError /\ e \in {last.data, Torn}
<1> SUFFICES ASSUME ~Broken'
             PROVE  /\ rd'["client"] # "failed"
                    /\ err'["client"] # NoErr => Told(err["client"])'
                    /\ ret'["client"].kind = "error" => TornOrTold(ret["client"].val)'
  BY DEF ErrorTold
<1>0. ~Broken
  BY EndsGrow, PeerType
<1>1. /\ rd["client"] # "failed"
      /\ err["client"] # NoErr => Told(err["client"])
      /\ ret["client"].kind = "error" => TornOrTold(ret["client"].val)
  BY <1>0 DEF ErrorTold
<1>2. LastIsError => LastIsError' /\ last' = last
  BY LastStays DEF LastIsError
<1>3. rd["client"] \in {"store", "offer", "last"} => Len(hand["client"]) = 1
  BY PeerType DEF TypeOK
<1>4. rd["client"] = "store" => Told(Head(hand["client"]).data)
  BY <1>3, HeldIsLast, PeerType DEF Inv, ErrorKept
<1> HIDE DEF last
<1>5. \A e : Told(e) => Told(e)'
  BY <1>2
<1>6. \A e : TornOrTold(e) => TornOrTold(e)'
  BY <1>2
<1>7. CASE /\ rd'["client"] = rd["client"] /\ err'["client"] = err["client"]
           /\ ret'["client"] = ret["client"]
  BY <1>1, <1>2, <1>7
<1>8. CASE RecvBegin("client")
  <2>1. rd' = rd /\ err' = err /\ rcv["client"] = "idle"
    BY <1>8 DEF RecvBegin
  <2>2. PICK e \in ErrReads("client") :
              ret'["client"] = IF e # NoErr THEN Result("error", e) ELSE NoResult
    BY <1>8, PeerType DEF RecvBegin, RecvReturns, TypeOK
  <2>3. e # NoErr => TornOrTold(e)
    BY <1>1, <1>4, <2>1 DEF ErrReads, ErrorTold
  <2>4. CASE e # NoErr
    BY <1>1, <1>2, <2>1, <2>2, <2>3, <2>4 DEF Result
  <2>5. CASE e = NoErr
    BY <1>1, <1>2, <2>1, <2>2, <2>5 DEF Result, NoResult
  <2> QED BY <2>4, <2>5
<1>9. CASE Decode("client") \/ DecodeEof("client") \/ Invoke
  <2>1. err' = err /\ ret' = ret
    BY <1>9 DEF Decode, DecodeEof, Invoke
  <2>2. rd'["client"] # "failed"
    BY <1>9, PeerType DEF Decode, DecodeEof, CloseChannel, Invoke, StartReader, TypeOK
  <2> QED BY <1>1, <1>2, <2>1, <2>2
<1>10. ~DecodeFail("client")
  BY <1>0, PeerType DEF DecodeFail, ReadsError, EndsInOrder, Broken
<1>11. CASE ReaderStored("client")
  <2>1. /\ err'["client"] = Head(hand["client"]).data /\ rd["client"] = "store"
        /\ rd'["client"] = "last" /\ ret' = ret
    BY <1>11, PeerType DEF ReaderStored, Keep, TypeOK
  <2>2. Told(err'["client"])
    BY <1>4, <2>1
  <2> QED BY <1>1, <1>2, <2>1, <2>2
<1>12. CASE RecvCancel("client") \/ RecvClosed("client")
  <2>1. rd' = rd /\ err' = err /\ ret'["client"].kind # "error"
    BY <1>12, PeerType DEF RecvCancel, RecvClosed, RecvReturns, Result, TypeOK
  <2> QED BY <1>1, <1>2, <2>1
<1>13. ~RecvTakeFailure("client")
  BY <1>1 DEF RecvTakeFailure
<1>14. CASE RecvStored("client")
  <2>1. /\ ret["client"].kind = "error" /\ ret["client"].val \notin {NoErr, Torn}
    BY <1>14, PeerType DEF RecvStored, Inv, ErrorKept
  <2>2. err'["client"] = ret["client"].val /\ rd' = rd /\ ret' = ret
    BY <1>14, PeerType DEF RecvStored, Keep, TypeOK
  <2>3. Told(err'["client"])
    BY <1>1, <2>1, <2>2
  <2> QED BY <1>1, <1>2, <2>2, <2>3
<1>15. CASE RecvTake("client", Want("client"))
  <2> DEFINE m == Head(hand["client"])
  <2>1. /\ ret'["client"] = Interpret(m, Want("client")) /\ err' = err
        /\ rd'["client"] # "failed" /\ rd["client"] \in {"offer", "last"}
    BY <1>15, PeerType DEF RecvTake, HandOver, TypeOK
  <2>2. ret'["client"].kind = "error" => IsError(m)
    BY <2>1, InterpretOther
  <2>3. IsError(m) => ret'["client"].val = m.data
    BY <2>1, InterpretError DEF Result
  <2>4. hand["client"][1] = m
    BY <1>3, <2>1, HeldMessage, PeerType
  <2>5. IsError(m) => Told(m.data)
    BY <1>3, <2>1, <2>4, HeldIsLast DEF last
  <2> QED BY <1>1, <1>2, <2>1, <2>2, <2>3, <2>5
<1> QED
  BY <1>7, <1>8, <1>9, <1>10, <1>11, <1>12, <1>13, <1>14, <1>15, ConnSteps, PeerType
    DEF Reader, RecvProceeds

\* Recv makes an end of nothing but a CLOSE.
LEMMA InterpretEof ==
    ASSUME NEW m, NEW s, Interpret(m, Want(s)).kind = "eof"
    PROVE  IsClose(m)
<1> SUFFICES ASSUME ~IsClose(m) PROVE FALSE
  OBVIOUS
<1>1. IsError(m) => Interpret(m, Want(s)) = Result("error", m.data)
  BY InterpretError
<1>2. ~IsError(m) /\ m.type = Want(s) => Interpret(m, Want(s)) = Result("message", m.data)
  BY Zenon DEF Interpret
<1>3. ~IsError(m) /\ m.type # Want(s) => Interpret(m, Want(s)) = Result("protocol", <<>>)
  BY Zenon DEF Interpret
<1>4. Result("error", m.data).kind # "eof" /\ Result("message", m.data).kind # "eof"
        /\ Result("protocol", <<>>).kind # "eof"
  BY DEF Result
<1> QED BY <1>1, <1>2, <1>3, <1>4

\* A Close that was taken stays taken, and an end without one stays the end.
LEMMA EofStays ==
    ASSUME TypeOK, [Next]_vars, UNCHANGED taken["client"], ~Broken',
           \/ \E i \in 1 .. Len(taken["client"]) : IsClose(taken["client"][i])
           \/ fin["server"] /\ taken["client"] = sent["server"]
    PROVE  \/ \E i \in 1 .. Len(taken'["client"]) : IsClose(taken'["client"][i])
           \/ fin'["server"] /\ taken'["client"] = sent'["server"]
<1>1. CASE \E i \in 1 .. Len(taken["client"]) : IsClose(taken["client"][i])
  BY <1>1
<1>2. CASE fin["server"] /\ taken["client"] = sent["server"]
  <2>1. fin'["server"]
    BY <1>2, EndsGrow, PeerType
  <2>2. sent'["server"] = sent["server"]
    <3>1. ASSUME NEW t \in Sides, Encode(t)
          PROVE  sent'["server"] = sent["server"]
      BY <1>2, <3>1, PeerType DEF Encode, Writable, Write, TypeOK
    <3>2. ASSUME NEW t \in Sides, Decode(t) \/ RecvTake(t, Want(t)) \/ Expire(t)
          PROVE  sent' = sent
      BY <3>2 DEF Decode, RecvTake, Expire, CloseTimeout, streamVars
    <3>3. Drop => sent' = sent
      BY DEF Drop, LinkDown
    <3> QED BY <3>1, <3>2, <3>3, FlowSteps DEF flow
  <2> QED BY <1>2, <2>1, <2>2
<1> QED BY <1>1, <1>2

\* io.EOF stands for a CLOSE or for the end of the stream.
LEMMA EofIsEndStep ==
    ASSUME TypeOK, Inv, EofIsEnd, [Next]_vars
    PROVE  EofIsEnd'
<1> SUFFICES ASSUME ~Broken', ret'["client"].kind = "eof"
             PROVE  \/ \E i \in 1 .. Len(taken'["client"]) : IsClose(taken'["client"][i])
                    \/ fin'["server"] /\ taken'["client"] = sent'["server"]
  BY DEF EofIsEnd
<1>0. ~Broken
  BY EndsGrow, PeerType
<1>1. CASE ret'["client"] = ret["client"] /\ taken'["client"] = taken["client"]
  BY <1>0, <1>1, EofStays DEF EofIsEnd
<1>2. CASE RecvBegin("client") \/ RecvCancel("client") \/ RecvTakeFailure("client")
  <2>1. ret'["client"].kind # "eof"
    BY <1>2, PeerType DEF RecvBegin, RecvCancel, RecvTakeFailure, RecvReturns, Result,
      NoResult, TypeOK
  <2> QED BY <2>1
<1>3. CASE Decode("client") \/ DecodeEof("client") \/ DecodeFail("client")
             \/ ReaderStored("client") \/ RecvStored("client") \/ Invoke
  BY <1>1, <1>3 DEF Decode, DecodeEof, DecodeFail, ReaderStored, RecvStored, Invoke
<1>4. CASE RecvTake("client", Want("client"))
  <2> DEFINE m == Head(hand["client"])
  <2>1. /\ taken'["client"] = Append(taken["client"], m)
        /\ ret'["client"] = Interpret(m, Want("client"))
    BY <1>4, PeerType DEF RecvTake, TypeOK
  <2>2. taken["client"] \in Seq(Messages) /\ m \in Messages
    <3>1. hand["client"] \in Seq(Messages) /\ Len(hand["client"]) = 1
      BY <1>4, PeerType DEF RecvTake, TypeOK
    <3> QED BY <3>1, PeerType DEF TypeOK
  <2>3. IsClose(m)
    BY <2>1, InterpretEof
  <2>4. Len(taken'["client"]) \in 1 .. Len(taken'["client"])
          /\ taken'["client"][Len(taken'["client"])] = m
    BY <2>1, <2>2
  <2> QED BY <2>3, <2>4
<1>5. CASE RecvClosed("client")
  <2>1. Ended("client")
    BY <1>5, PeerType DEF RecvClosed, Inv, ReaderGone
  <2>2. fin["server"] /\ taken["client"] = sent["server"]
    BY <1>0, <2>1, PeerType DEF Ended
  <2> QED BY <1>5, <2>2 DEF RecvClosed, streamVars
<1> QED
  BY <1>1, <1>2, <1>3, <1>4, <1>5, ConnSteps, PeerType DEF Reader, RecvProceeds

LEMMA EndInvInit == Init => EndInv
<1> SUFFICES ASSUME Init PROVE EndInv
  OBVIOUS
<1>1. taken["client"] = <<>> /\ Len(<<>>) = 0 /\ ret["client"].kind = "none"
  BY PeerType DEF Init, ConnInit, NoResult, Result
<1>2. ErrorTaken
  BY <1>1 DEF ErrorTaken
<1> QED
  BY <1>1, <1>2, PeerType DEF Init, StreamInit, ConnInit, EndInv, EndsInOrder,
    ServerReads, ErrorDue, ErrorTold, EofIsEnd

\* EndInv is inductive, given Inv.
THEOREM EndInvariance == Spec => []EndInv
<1>1. TypeOK /\ Inv /\ EndInv /\ [Next]_vars => EndInv'
  BY EndsInOrderStep, ServerReadsStep, ErrorDueStep, ErrorTakenStep, ErrorToldStep,
    EofIsEndStep
    DEF EndInv
<1> QED
  BY <1>1, EndInvInit, TypeCorrect, Invariance, PTL DEF Spec

\* An error that the handler returns is written before the deferred Close, unless
\* the pipe broke or its caller cut a message short (acceptor.go).
THEOREM HandlerErrorIsSentHolds == Spec => []HandlerErrorIsSent
<1>1. EndInv => HandlerErrorIsSent
  BY DEF EndInv, ErrorDue, LastIsError, HandlerErrorIsSent
<1> QED
  BY <1>1, EndInvariance, PTL

\* The caller never takes a handler's failure for the end of the call: io.EOF
\* without a CLOSE means that the handler returned no error (Recv of conn.go).
THEOREM CleanEndMeansNoErrorHolds == Spec => []CleanEndMeansNoError
<1>1. TypeOK /\ EndInv => CleanEndMeansNoError
  <2> SUFFICES ASSUME TypeOK, EndInv, ret["client"].kind = "eof", cl = "open", ~Broken,
                      \A i \in 1 .. Len(taken["client"]) : ~IsClose(taken["client"][i])
               PROVE  srv = "done" /\ hres # "error"
    BY DEF CleanEndMeansNoError
  <2>1. fin["server"] /\ taken["client"] = sent["server"] /\ srv = "done"
    BY DEF EndInv, EofIsEnd, EndsInOrder
  <2>2. ~cut["client"]
    BY DEF EndInv, EndsInOrder
  <2>3. ASSUME hres = "error"
        PROVE  FALSE
    <3>1. LastIsError
      BY <2>1, <2>2, <2>3 DEF EndInv, ErrorDue
    <3>2. Len(taken["client"]) \in 1 .. Len(taken["client"])
      BY <2>1, <3>1, PeerType DEF LastIsError, TypeOK
    <3> QED BY <2>1, <3>1, <3>2 DEF LastIsError, EndInv, ErrorTaken
  <2> QED BY <2>1, <2>3
<1> QED
  BY <1>1, EndInvariance, TypeCorrect, PTL
=============================================================================
