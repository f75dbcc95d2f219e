-------------------------- MODULE StreamCallProofs --------------------------
(***************************************************************************)
(* Streaming calls: a stream's operations are under way only where its     *)
(* call is, and they use the call the way MuxCall lets any two users do,   *)
(* so that the theorems about every call hold of theirs.  What a stream    *)
(* yields is what its peer sent before it closed.                          *)
(***************************************************************************)
EXTENDS StreamCall, MuxCallProofs, PicksProofs

\* The messages a stream sends are among those any user of a call may send.
LEMMA StartIsSend ==
    ASSUME TypeOK, load \in Loads, NEW s \in Sides, NEW op, NEW m,
           m \in {NewDataMessage(d) : d \in load.payloads} \cup {NewCloseMessage},
           InUse(s), Within(s, 1), Start(s, op, m)
    PROVE  Send(s)
<1>1. load.most[s] <= MaxSent[s] /\ load.most[s] \in Nat /\ load.payloads \subseteq Payloads
  BY StreamAssumption
<1>2. Len(sent[s]) \in Nat /\ MaxSent[s] \in Nat
  BY ConstantsAssumption DEF TypeOK
<1>3. Len(sent[s]) < MaxSent[s]
  BY <1>1, <1>2 DEF Within
<1>4. m \in {NewDataMessage(d) : d \in Payloads} \cup {NewCloseMessage}
  BY <1>1
<1> QED BY <1>3, <1>4 DEF Start, Send

\* A step of a stream is a step of its call or leaves it alone.
LEMMA StreamSimulates == StreamInv /\ [StreamNext]_<<vars, streamCallVars>> => [Next]_vars
<1> SUFFICES ASSUME StreamInv, [StreamNext]_<<vars, streamCallVars>> PROVE [Next]_vars
  OBVIOUS
<1>0. TypeOK /\ load \in Loads
  BY DEF StreamInv, StreamTypeOK
<1>a. ASSUME NEW s \in Sides, Send(s) PROVE Next
  BY <1>a DEF Next
<1>b. ASSUME NEW s \in Sides, Recv(s) PROVE Next
  BY <1>b DEF Next
<1>1. CASE NewServerStreamClient
  <2>1. CASE Finish("client", "failed")
    BY <2>1 DEF Finish
  <2>2. CASE Within("client", 1) /\ StartData("client", "request")
    <3>1. InUse("client")
      BY <1>1 DEF NewServerStreamClient, InUse
    <3> QED BY <1>0, <1>a, <2>2, <3>1, StartIsSend, PeerType DEF StartData
  <2> QED BY <1>1, <2>1, <2>2 DEF NewServerStreamClient
<1>2. CASE NewServerStreamServer
  BY <1>2, <1>b, PeerType DEF NewServerStreamServer
<1>3. CASE SendAndClose
  <2>1. Within("server", 1)
    <3>1. Len(sent["server"]) \in Nat /\ load.most["server"] \in Nat
      BY <1>0, StreamAssumption, PeerType DEF TypeOK
    <3> QED BY <1>3, <3>1 DEF SendAndClose, Within
  <2> QED BY <1>0, <1>3, <1>a, <2>1, StartIsSend, PeerType DEF SendAndClose,
    StartData, Ready
<1>4. CASE CloseAndRecv
  BY <1>0, <1>4, <1>a, StartIsSend, PeerType DEF CloseAndRecv, Ready
<1>5. CASE HandlerEnds
  BY <1>5 DEF HandlerEnds, Next, Server
<1>6. ASSUME NEW s \in Sides, StreamSend(s) \/ CloseSend(s) PROVE Next
  BY <1>0, <1>6, <1>a, StartIsSend DEF StreamSend, CloseSend, StartData, Ready
<1>7. ASSUME NEW s \in Sides, StreamRecv(s) \/ StreamCancel(s) PROVE Next
  BY <1>7, <1>b DEF StreamRecv, StartRecv, StreamCancel, Next
<1>8. ASSUME NEW s \in Sides, SendReturns(s) \/ RecvReturned(s) PROVE UNCHANGED vars
  BY <1>8 DEF SendReturns, RecvReturned, Finish
<1>9. CASE ServerStreamClientMade
  BY <1>9 DEF ServerStreamClientMade, Finish
<1>10. CASE CloseAndRecvGoesOn
  BY <1>10, <1>b, PeerType DEF CloseAndRecvGoesOn, StartRecv
<1>11. CASE SendAndCloseGoesOn
  <2>1. CASE Start("server", "close", NewCloseMessage)
    <3>1. sop["server"] = "reply" /\ snd["server"] = <<>>
      BY <1>11 DEF SendAndCloseGoesOn, Returned
    <3>2. InUse("server")
      BY <3>1, PeerType DEF StreamInv, StreamTypeOK
    <3>3. Within("server", 1)
      <4>1. Len(sent["server"]) \in Nat /\ load.most["server"] \in Nat
        BY <1>0, StreamAssumption, PeerType DEF TypeOK
      <4> QED BY <3>1, <4>1 DEF StreamInv, Replying, Within
    <3> QED BY <1>0, <1>a, <2>1, <3>2, <3>3, StartIsSend, PeerType
  <2>2. CASE Finish("server", "idle")
    BY <2>2 DEF Finish
  <2> QED BY <1>11, <2>1, <2>2 DEF SendAndCloseGoesOn
<1>12. CASE ServerStreamServerMade
  BY <1>12 DEF ServerStreamServerMade, Next, Server
<1>13. CASE Below
  BY <1>13 DEF Below, Next, Caller, Server
<1>14. CASE UNCHANGED <<vars, streamCallVars>>
  BY <1>14
<1> QED
  BY <1>1, <1>2, <1>3, <1>4, <1>5, <1>6, <1>7, <1>8, <1>9, <1>10, <1>11, <1>12,
    <1>13, <1>14 DEF StreamNext, User, Wrappers, Sender, Receiver

-----------------------------------------------------------------------------
(* Payloads.                                                               *)

\* The messages users, InvokeMux and AcceptMux send.
LEMMA SoundMessages ==
    /\ \A m \in {NewDataMessage(d) : d \in Payloads} \cup {NewCloseMessage} : Sound(m)
    /\ \A m \in Methods : Sound(NewCallMessage(m))
    /\ \A e \in ErrorTexts : Sound(NewErrorMessage(e))
BY DEF Sound, NewDataMessage, NewCloseMessage, NewCallMessage, NewErrorMessage

\* BeginSend leaves snd alone or fills it with m.
LEMMA BeginSendOne ==
    ASSUME TypeOK, NEW s \in Sides, NEW m, BeginSend(s, m), NEW t \in Sides
    PROVE  snd'[t] = snd[t] \/ (t = s /\ snd[t] = <<>> /\ snd'[t] = <<m>>)
BY DEF BeginSend, TypeOK

\* A step of a call leaves what t sends alone, begins to send something, or
\* ends it, with the message written or not.
LEMMA SendSteps ==
    ASSUME TypeOK, [Next]_vars, NEW t \in Sides
    PROVE  \/ UNCHANGED <<sent[t], snd[t]>>
           \/ /\ sent'[t] = sent[t]
              /\ \E m \in Messages : Sound(m) /\ snd'[t] = <<m>>
           \/ /\ snd[t] # <<>> /\ snd'[t] = <<>>
              /\ sent'[t] = sent[t] \/ sent'[t] = Append(sent[t], Head(snd[t]))
<1>1. CASE Caller
  <2>1. CASE Invoke
    <3>1. PICK m \in Invoked : snd' = [snd EXCEPT !["client"] = <<NewCallMessage(m)>>]
      BY <2>1 DEF Invoke
    <3>2. m \in Methods /\ NewCallMessage(m) \in Messages /\ Sound(NewCallMessage(m))
      BY SoundMessages, CallMessageType, ConstantsAssumption
    <3> QED
      BY <2>1, <3>1, <3>2 DEF Invoke, streamVars, TypeOK
  <2>2. CASE InvokeFails \/ InvokeSent \/ InvokeSendFails \/ CallerCloses
    BY <2>2 DEF InvokeFails, InvokeSent, InvokeSendFails, CallerCloses, CloseHalf,
      streamVars, connVars
  <2> QED BY <1>1, <2>1, <2>2 DEF Caller
<1>2. CASE Server
  <2>1. CASE HandlerFails
    <3>1. PICK e \in ErrorTexts : BeginSend("server", NewErrorMessage(e))
      BY <2>1 DEF HandlerFails
    <3>2. NewErrorMessage(e) \in Messages /\ Sound(NewErrorMessage(e))
      BY SoundMessages, ErrorMessageType
    <3> QED
      BY <2>1, <3>1, <3>2, BeginSendOne, PeerType DEF HandlerFails, streamVars
  <2>2. CASE ~HandlerFails
    BY <1>2, <2>2 DEF Server, Accept, Dispatch, Reject, HandlerReturns, ErrorSent,
      ServerCloses, CloseHalf, streamVars, connVars
  <2> QED BY <2>1, <2>2
<1>3. ASSUME NEW s \in Sides, Send(s)
      PROVE  \/ UNCHANGED <<sent[t], snd[t]>>
             \/ /\ sent'[t] = sent[t]
                /\ \E m \in Messages : Sound(m) /\ snd'[t] = <<m>>
  <2>1. PICK m \in {NewDataMessage(d) : d \in Payloads} \cup {NewCloseMessage} :
          BeginSend(s, m)
    BY <1>3 DEF Send
  <2>2. m \in Messages /\ Sound(m)
    BY SoundMessages, UserMessageType
  <2> QED
    BY <1>3, <2>1, <2>2, BeginSendOne DEF Send, streamVars
<1>4. ASSUME NEW s \in Sides, SendStep(s)
      PROVE  \/ UNCHANGED <<sent[t], snd[t]>>
             \/ /\ snd[t] # <<>> /\ snd'[t] = <<>>
                /\ sent'[t] = sent[t] \/ sent'[t] = Append(sent[t], Head(snd[t]))
  BY <1>4 DEF SendStep, SendProceeds, Encode, EncodeFails, Write, TypeOK, streamVars
<1>5. ASSUME NEW s \in Sides,
             Recv(s) \/ Cancel(s) \/ ReaderStep(s) \/ RecvStep(s) \/ Expire(s)
      PROVE  UNCHANGED <<sent, snd>>
  BY <1>5 DEF Recv, RecvBegin, Cancel, RecvCancel, ReaderStep, Reader, Decode,
    ReaderStored, DecodeEof, DecodeFail, RecvStep, RecvProceeds, RecvTake,
    RecvTakeFailure, RecvStored, RecvClosed, Expire, CloseTimeout, streamVars,
    connVars
<1>6. Drop \/ UNCHANGED vars => UNCHANGED <<sent, snd>>
  BY DEF Drop, LinkDown, vars, streamVars, connVars
<1> QED
  BY <1>1, <1>2, <1>3, <1>4, <1>5, <1>6 DEF Next

\* Every step of a call keeps what is sent to payloads.
LEMMA PayloadsSentStep ==
    ASSUME TypeOK, [Next]_vars, PayloadsSent
    PROVE  PayloadsSent'
<1> SUFFICES ASSUME NEW t \in Sides
             PROVE  /\ \A i \in 1 .. Len(sent'[t]) : Sound(sent'[t][i])
                    /\ \A i \in 1 .. Len(snd'[t]) : Sound(snd'[t][i])
  BY DEF PayloadsSent, Sound
<1>1. /\ sent[t] \in Seq(Messages) /\ snd[t] \in Seq(Messages)
      /\ \A i \in 1 .. Len(sent[t]) : Sound(sent[t][i])
      /\ \A i \in 1 .. Len(snd[t]) : Sound(snd[t][i])
  BY DEF PayloadsSent, TypeOK
<1>2. ASSUME NEW m, Sound(m) PROVE \A i \in 1 .. Len(<<m>>) : Sound(<<m>>[i])
  BY <1>2
<1>3. \A i \in 1 .. Len(<<>>) : Sound(<<>>[i])
  OBVIOUS
<1>4. CASE snd[t] # <<>> /\ sent'[t] = Append(sent[t], Head(snd[t]))
  <2>1. Sound(Head(snd[t])) /\ Head(snd[t]) \in Messages
    BY <1>1, <1>4
  <2>2. \A i \in 1 .. Len(sent'[t]) : Sound(sent'[t][i])
    <3>1. Len(sent'[t]) = Len(sent[t]) + 1
      BY <1>1, <1>4, <2>1
    <3>2. \A i \in 1 .. Len(sent[t]) : sent'[t][i] = sent[t][i]
      BY <1>1, <1>4, <2>1
    <3>3. sent'[t][Len(sent[t]) + 1] = Head(snd[t])
      BY <1>1, <1>4, <2>1
    <3> QED BY <1>1, <2>1, <3>1, <3>2, <3>3
  <2>3. snd'[t] = <<>>
    BY <1>4, SendSteps, <1>1
  <2> QED BY <1>3, <2>2, <2>3
<1>5. CASE sent'[t] = sent[t]
  BY <1>1, <1>2, <1>3, <1>5, SendSteps
<1> QED
  BY <1>4, <1>5, SendSteps

\* What a Recv returns as a message is what it took from the reader.
LEMMA ReturnedMessage ==
    ASSUME TypeOK, Inv, [Next]_vars, PayloadsSent, NEW s \in Sides,
           ret'[s].kind = "message"
    PROVE  \/ ret'[s] = ret[s]
           \/ s = "server" /\ srv = "method"
           \/ ret'[s].val \in Payloads
<1>1. CASE RecvTake(s, Want(s)) /\ Want(s) = "DATA"
  <2> DEFINE m == Head(hand[s])
  <2>1. ret'[s] = Interpret(m, "DATA")
    BY <1>1 DEF RecvTake, TypeOK
  <2>2. m = hand[s][1] /\ m \in Messages /\ Sound(m)
    <3>1. Len(hand[s]) = 1
      BY <1>1 DEF RecvTake, TypeOK
    <3>2. /\ hand[s][1] = Head(hand[s])
          /\ Len(taken[s]) + 1 \in 1 .. Len(sent[Peer(s)])
          /\ hand[s][1] = sent[Peer(s)][Len(taken[s]) + 1]
      BY <3>1, HeldMessage
    <3>3. sent[Peer(s)] \in Seq(Messages)
      BY FlowTypes
    <3> QED BY <3>2, <3>3, PeerType DEF PayloadsSent
  <2> HIDE DEF m
  <2>3. \A k, v : Result(k, v).kind = k /\ Result(k, v).val = v
    BY DEF Result
  <2>4. CASE IsClose(m)
    <3>1. ~IsError(m) /\ m.type # "DATA"
      BY <2>4 DEF IsClose, IsError
    <3>2. Interpret(m, "DATA") = Result("eof", <<>>)
      BY <2>4, <3>1, Zenon DEF Interpret
    <3> QED BY <2>1, <2>3, <3>2
  <2>5. CASE IsError(m) /\ ~IsClose(m)
    <3>1. m.type # "DATA"
      BY <2>5 DEF IsError
    <3>2. Interpret(m, "DATA") = Result("error", m.data)
      BY <2>5, <3>1, Zenon DEF Interpret
    <3> QED BY <2>1, <2>3, <3>2
  <2>6. CASE m.type = "DATA" /\ ~IsClose(m) /\ ~IsError(m)
    <3>1. Interpret(m, "DATA") = Result("message", m.data)
      BY <2>6, Zenon DEF Interpret
    <3> QED BY <2>1, <2>2, <2>3, <2>6, <3>1 DEF Sound
  <2>7. CASE m.type # "DATA" /\ ~IsClose(m) /\ ~IsError(m)
    <3>1. Interpret(m, "DATA") = Result("protocol", <<>>)
      BY <2>7, Zenon DEF Interpret
    <3> QED BY <2>1, <2>3, <3>1
  <2> QED BY <2>4, <2>5, <2>6, <2>7
<1>2. CASE RecvTake(s, Want(s)) /\ Want(s) # "DATA"
  BY <1>2 DEF Want
<1>3. CASE RecvBegin(s) \/ RecvCancel(s) \/ RecvTakeFailure(s) \/ RecvClosed(s)
  BY <1>3 DEF RecvBegin, RecvCancel, RecvTakeFailure, RecvClosed, RecvReturns, Result,
    NoResult, TypeOK
<1>4. CASE RecvStored(s) \/ Reader(s)
  BY <1>4 DEF RecvStored, Reader, Decode, ReaderStored, DecodeEof, DecodeFail
<1>5. Invoke \/ Accept => ret' = ret
  BY DEF Invoke, Accept
<1> QED
  BY <1>1, <1>2, <1>3, <1>4, <1>5, ConnSteps DEF RecvProceeds

-----------------------------------------------------------------------------
(* The steps of the wrappers and below them.                               *)

\* What the steps below the wrappers leave as it is.
LEMMA BelowKeeps ==
    ASSUME TypeOK, Below
    PROVE  /\ InUse("client") => InUse("client")'
           /\ srv = "handler" => srv' = "handler"
           /\ srv' \in {"none", "method"} => srv \in {"none", "method"}
           /\ \A s \in Sides :
                 rcv'[s] # "idle" => rcv[s] # "idle" \/ (s = "server" /\ srv' = "method")
           /\ srv = "method" => srv' = "method" \/ rcv'["server"] = "idle"
           /\ \/ UNCHANGED <<sent["server"], snd["server"]>>
              \/ /\ snd["server"] # <<>> /\ snd'["server"] = <<>>
                 /\ \/ sent'["server"] = sent["server"]
                    \/ sent'["server"] = Append(sent["server"], Head(snd["server"]))
<1>1. CASE Invoke \/ InvokeFails \/ InvokeSent \/ InvokeSendFails
  BY <1>1, PeerType DEF Invoke, InvokeFails, InvokeSent, InvokeSendFails,
    CloseHalf, InUse, streamVars, connVars, TypeOK
<1>2. CASE Accept \/ Dispatch \/ Reject \/ ErrorSent \/ ServerCloses \/ Drop
  BY <1>2 DEF Accept, Dispatch, Reject, MethodReceived, ErrorSent, ServerCloses,
    CloseHalf, Drop, LinkDown, InUse, connVars, streamVars, callVars, TypeOK
<1>3. ASSUME NEW s \in Sides, ReaderStep(s) \/ Expire(s)
      PROVE  UNCHANGED <<sent, snd, rcv, callVars>>
  BY <1>3 DEF ReaderStep, Reader, Decode, ReaderStored, DecodeEof, DecodeFail, Expire,
    CloseTimeout, streamVars, connVars
<1>5. ASSUME NEW s \in Sides, RecvStep(s)
      PROVE  /\ UNCHANGED <<sent, snd, callVars>>
             /\ \A t \in Sides : rcv'[t] = rcv[t] \/ rcv[t] # "idle"
  BY <1>5 DEF RecvStep, RecvProceeds, RecvTake, RecvTakeFailure, RecvStored,
    RecvClosed, RecvReturns, streamVars, TypeOK
<1>4. ASSUME NEW s \in Sides, SendStep(s)
      PROVE  /\ UNCHANGED <<rcv, callVars>>
             /\ \/ UNCHANGED <<sent["server"], snd["server"]>>
                \/ /\ snd["server"] # <<>> /\ snd'["server"] = <<>>
                   /\ \/ sent'["server"] = sent["server"]
                      \/ sent'["server"] = Append(sent["server"], Head(snd["server"]))
  <2>1. CASE Encode(s)
    BY <1>4, <2>1, PeerType DEF SendStep, Encode, Write, TypeOK
  <2>2. CASE EncodeFails(s)
    BY <1>4, <2>2, PeerType DEF SendStep, EncodeFails, TypeOK, streamVars
  <2> QED BY <1>4, <2>1, <2>2 DEF SendStep, SendProceeds
<1> QED
  BY <1>1, <1>2, <1>3, <1>4, <1>5 DEF Below, InUse, callVars

\* A sending operation begins, or goes on to its second message.
LEMMA StartSteps ==
    ASSUME StreamInv, NEW s \in Sides, NEW op \in SendOps, NEW m \in Messages,
           Start(s, op, m), InUse(s),
           op = "reply" => s = "server" /\ Within("server", 2)
    PROVE  StreamTypeOK' /\ PayloadsReceived' /\ Replying'
<1>1. /\ sop' = [sop EXCEPT ![s] = op] /\ BeginSend(s, m)
      /\ UNCHANGED <<sent, rcv, ret, callVars, load, rop, eof, got>>
  BY DEF Start, streamVars
<1>2. StreamTypeOK' /\ PayloadsReceived'
  BY <1>1 DEF StreamInv, StreamTypeOK, PayloadsReceived, InUse, callVars
<1>3. Replying'
  <2>0. TypeOK /\ load \in Loads
    BY DEF StreamInv, StreamTypeOK
  <2>1. CASE op = "reply"
    <3>1. /\ Len(sent["server"]) \in Nat /\ load.most["server"] \in Nat
      <4>1. sent["server"] \in Seq(Messages) /\ "server" \in Sides
        BY <2>0, PeerType DEF TypeOK
      <4>2. load.most \in [Sides -> Nat]
        BY <2>0, StreamAssumption
      <4> QED BY <4>1, <4>2, LenProperties
    <3>2. snd["server"] = <<>> /\ snd'["server"] \in {<<>>, <<m>>}
      <4>1. snd["server"] = <<>>
        BY <1>1, <2>1 DEF BeginSend
      <4> QED BY <1>1, <2>0, <2>1, <4>1, BeginSendOne, PeerType
    <3>3. Len(<<m>>) = 1 /\ Len(<<>>) = 0
      OBVIOUS
    <3>4. Len(snd'["server"]) \in 0 .. 1
      BY <3>2, <3>3
    <3>5. Len(sent["server"]) + 2 <= load.most["server"] /\ sent' = sent /\ load' = load
      BY <1>1, <2>1 DEF Within
    <3> DEFINE l == Len(snd'["server"])
    <3> HIDE DEF l
    <3>6. l \in 0 .. 1
      BY <3>4 DEF l
    <3>7. Len(sent["server"]) + l + 1 <= load.most["server"]
      BY <3>1, <3>5, <3>6
    <3> QED BY <3>5, <3>7 DEF Replying, l
  <2>2. CASE op # "reply" /\ s = "server"
    BY <1>1, <2>2 DEF StreamInv, StreamTypeOK, Replying
  <2>3. CASE s # "server"
    <3>1. sop'["server"] = sop["server"] /\ snd'["server"] = snd["server"]
      BY <1>1, <2>3, BeginSendOne, PeerType DEF StreamInv, StreamTypeOK
    <3> QED BY <1>1, <3>1 DEF StreamInv, Replying
  <2> QED BY <2>1, <2>2, <2>3
<1> QED BY <1>2, <1>3

\* A sending operation ends.
LEMMA FinishSteps ==
    ASSUME StreamInv, NEW s \in Sides, NEW op \in {"idle", "failed"}, Finish(s, op)
    PROVE  StreamTypeOK' /\ PayloadsReceived' /\ Replying'
<1>1. /\ sop' = [sop EXCEPT ![s] = op]
      /\ UNCHANGED <<sent, snd, rcv, ret, callVars, load, rop, eof, got>>
  BY DEF Finish, vars, streamVars, connVars
<1>2. StreamTypeOK' /\ PayloadsReceived'
  BY <1>1 DEF StreamInv, StreamTypeOK, PayloadsReceived, InUse, callVars, SendOps
<1>3. Replying'
  <2>1. sop'["server"] = "reply" => sop["server"] = "reply"
    BY <1>1, PeerType DEF StreamInv, StreamTypeOK
  <2> QED BY <1>1, <2>1 DEF StreamInv, Replying
<1> QED BY <1>2, <1>3

\* The data and the CLOSE that a stream sends are messages.
LEMMA StreamMessages ==
    ASSUME load \in Loads
    PROVE  /\ NewCloseMessage \in Messages
           /\ \A d \in load.payloads : NewDataMessage(d) \in Messages
<1>1. load.payloads \subseteq Payloads
  BY StreamAssumption
<1> QED BY <1>1, UserMessageType

\* The same for a payload.
LEMMA StartDataSteps ==
    ASSUME StreamInv, NEW s \in Sides, NEW op \in SendOps, StartData(s, op), InUse(s),
           op = "reply" => s = "server" /\ Within("server", 2)
    PROVE  StreamTypeOK' /\ PayloadsReceived' /\ Replying'
<1>1. load \in Loads
  BY DEF StreamInv, StreamTypeOK
<1>2. PICK d \in load.payloads : Start(s, op, NewDataMessage(d))
  BY DEF StartData
<1> QED BY <1>1, <1>2, StartSteps, StreamMessages

\* The operations that send.
LEMMA SendingSteps ==
    ASSUME StreamInv,
           \/ NewServerStreamClient \/ SendAndClose \/ CloseAndRecv
           \/ \E s \in Sides : StreamSend(s) \/ CloseSend(s) \/ SendReturns(s)
           \/ ServerStreamClientMade \/ SendAndCloseGoesOn
    PROVE  StreamTypeOK' /\ PayloadsReceived' /\ Replying'
<1>0. /\ load \in Loads /\ NewCloseMessage \in Messages
      /\ {"request", "send", "reply", "close", "final"} \subseteq SendOps
  BY StreamMessages DEF StreamInv, StreamTypeOK, SendOps
<1>1. CASE NewServerStreamClient
  BY <1>0, <1>1, FinishSteps, StartDataSteps, PeerType DEF NewServerStreamClient,
    InUse
<1>2. CASE SendAndClose
  BY <1>0, <1>2, StartDataSteps, PeerType DEF SendAndClose, Ready
<1>3. CASE CloseAndRecv
  BY <1>0, <1>3, StartSteps, PeerType DEF CloseAndRecv, Ready
<1>4. ASSUME NEW s \in Sides, StreamSend(s)
      PROVE  StreamTypeOK' /\ PayloadsReceived' /\ Replying'
  BY <1>0, <1>4, StartDataSteps DEF StreamSend, Ready
<1>5. ASSUME NEW s \in Sides, CloseSend(s)
      PROVE  StreamTypeOK' /\ PayloadsReceived' /\ Replying'
  BY <1>0, <1>5, StartSteps DEF CloseSend, Ready
<1>6. ASSUME NEW s \in Sides, SendReturns(s)
      PROVE  StreamTypeOK' /\ PayloadsReceived' /\ Replying'
  BY <1>6, FinishSteps DEF SendReturns
<1>7. CASE ServerStreamClientMade
  BY <1>7, FinishSteps, PeerType DEF ServerStreamClientMade
<1>8. CASE SendAndCloseGoesOn
  <2>1. InUse("server")
    BY <1>8, PeerType DEF SendAndCloseGoesOn, Returned, StreamInv, StreamTypeOK
  <2> QED
    BY <1>0, <1>8, <2>1, StartSteps, FinishSteps, PeerType DEF SendAndCloseGoesOn
<1> QED
  BY <1>1, <1>2, <1>3, <1>4, <1>5, <1>6, <1>7, <1>8

\* Recv asks the call for a message.
LEMMA AsksSteps ==
    ASSUME StreamInv, NEW s \in Sides, Recv(s), rop' = [rop EXCEPT ![s] = "recv"],
           UNCHANGED <<load, eof, got>>,
           sop' = sop \/ sop' = [sop EXCEPT !["client"] = "idle"]
    PROVE  StreamTypeOK' /\ PayloadsReceived' /\ Replying'
<1>1. /\ UNCHANGED <<sent, snd, callVars>> /\ InUse(s)
      /\ \A t \in Sides : t # s => ret'[t] = ret[t] /\ rcv'[t] = rcv[t]
      /\ ret'[s].kind # "message"
  BY DEF Recv, RecvBegin, RecvReturns, NoResult, Result, streamVars, StreamInv, TypeOK
<1>2. sop' \in [Sides -> SendOps] /\ \A t \in Sides : sop'[t] \in {sop[t], "idle"}
  BY PeerType DEF StreamInv, StreamTypeOK, SendOps
<1>3. \A t \in Sides : rop'[t] = IF t = s THEN "recv" ELSE rop[t]
  BY DEF StreamInv, StreamTypeOK
<1>5. rop' \in [Sides -> {"idle", "recv"}]
  BY DEF StreamInv, StreamTypeOK
<1>6. StreamTypeOK'
  BY <1>1, <1>2, <1>3, <1>5 DEF StreamInv, StreamTypeOK, InUse, callVars
<1>7. PayloadsReceived'
  <2>1. \A t \in Sides :
           rop'[t] = "recv" /\ ret'[t].kind = "message" => ret'[t].val \in Payloads
    BY <1>1, <1>3 DEF StreamInv, PayloadsReceived
  <2>2. srv' \in {"none", "method"} => rop'["server"] = "idle"
    BY <1>1, <1>3, PeerType DEF StreamInv, PayloadsReceived, InUse, callVars
  <2> QED BY <2>1, <2>2 DEF PayloadsReceived
<1>4. Replying'
  <2>1. sop'["server"] = sop["server"]
    BY PeerType DEF StreamInv, StreamTypeOK
  <2> QED BY <1>1, <2>1 DEF StreamInv, Replying
<1> QED BY <1>4, <1>6, <1>7

\* The handler ends, of its own or because its request does not arrive.
LEMMA HandlerSteps ==
    ASSUME StreamInv, HandlerReturns \/ HandlerFails, UNCHANGED <<load, rop, eof>>,
           got' \in [Sides -> Seq(Payloads)],
           \/ sop["server"] = "idle" /\ sop' = sop
           \/ sop' = [sop EXCEPT !["server"] = "failed"]
    PROVE  StreamTypeOK' /\ PayloadsReceived' /\ Replying'
<1>1. /\ UNCHANGED <<sent, rcv, ret, cl>> /\ srv' \in {"closing", "error"}
      /\ srv = "handler"
  BY DEF HandlerReturns, HandlerFails, HandlerIdle, streamVars, connVars
<1>2. StreamTypeOK'
  BY <1>1, PeerType DEF StreamInv, StreamTypeOK, InUse, SendOps, Sides
<1>3. PayloadsReceived'
  BY <1>1 DEF StreamInv, PayloadsReceived
<1>4. Replying'
  BY <1>1, PeerType DEF StreamInv, StreamTypeOK, Replying
<1> QED BY <1>2, <1>3, <1>4

\* The operations that receive, and the end of the handler.
LEMMA ReceivingSteps ==
    ASSUME StreamInv,
           \/ NewServerStreamServer \/ CloseAndRecvGoesOn \/ ServerStreamServerMade
           \/ \E s \in Sides : StreamRecv(s) \/ RecvReturned(s) \/ StreamCancel(s)
           \/ HandlerEnds
    PROVE  StreamTypeOK' /\ PayloadsReceived' /\ Replying'
<1>1. CASE NewServerStreamServer
  BY <1>1, AsksSteps, PeerType DEF NewServerStreamServer
<1>2. CASE CloseAndRecvGoesOn
  <2>1. CASE StartRecv("client")
    BY <1>2, <2>1, AsksSteps, PeerType DEF CloseAndRecvGoesOn, StartRecv
  <2>2. CASE UNCHANGED <<vars, rop>>
    <3>1. Finish("client", "idle")
      BY <1>2, <2>2 DEF CloseAndRecvGoesOn, Finish
    <3> QED BY <3>1, FinishSteps, PeerType
  <2> QED BY <1>2, <2>1, <2>2 DEF CloseAndRecvGoesOn
<1>3. ASSUME NEW s \in Sides, StreamRecv(s)
      PROVE  StreamTypeOK' /\ PayloadsReceived' /\ Replying'
  BY <1>3, AsksSteps DEF StreamRecv, StartRecv
<1>4. ASSUME NEW s \in Sides, StreamCancel(s)
      PROVE  StreamTypeOK' /\ PayloadsReceived' /\ Replying'
  <2>1. /\ UNCHANGED <<sent, snd, callVars, streamCallVars>>
        /\ \A t \in Sides : t # s => ret'[t] = ret[t] /\ rcv'[t] = rcv[t]
        /\ ret'[s].kind = "ctx" /\ rcv'[s] = "idle"
    BY <1>4 DEF StreamCancel, Cancel, RecvCancel, RecvReturns, Result, streamVars,
      StreamInv, TypeOK
  <2>2. StreamTypeOK' /\ PayloadsReceived'
    BY <2>1 DEF StreamInv, StreamTypeOK, PayloadsReceived, InUse, callVars,
      streamCallVars
  <2>3. Replying'
    BY <2>1 DEF StreamInv, Replying, streamCallVars
  <2> QED BY <2>2, <2>3
<1>5. CASE HandlerEnds
  <2>1. got' \in [Sides -> Seq(Payloads)] /\ sop["server"] = "idle"
    BY <1>5 DEF HandlerEnds, streamCallVars, StreamInv, StreamTypeOK
  <2> QED BY <1>5, <2>1, HandlerSteps DEF HandlerEnds, streamCallVars
<1>6. ASSUME NEW s \in Sides, Decoded(ret[s]), rop[s] = "recv"
      PROVE  [got EXCEPT ![s] = Append(@, ret[s].val)] \in [Sides -> Seq(Payloads)]
  BY <1>6 DEF Decoded, StreamInv, StreamTypeOK, PayloadsReceived
<1>7. ASSUME NEW s \in Sides, RecvReturned(s)
      PROVE  StreamTypeOK' /\ PayloadsReceived' /\ Replying'
  <2>1. /\ rop' = [rop EXCEPT ![s] = "idle"] /\ rop[s] = "recv" /\ rcv[s] = "idle"
        /\ UNCHANGED <<sent, snd, rcv, ret, callVars, load, sop>>
    BY <1>7 DEF RecvReturned, vars, streamVars, connVars
  <2>2. got' \in [Sides -> Seq(Payloads)]
    BY <1>6, <1>7 DEF RecvReturned, StreamInv, StreamTypeOK
  <2>3. eof' \in [Sides -> BOOLEAN]
    BY <1>7 DEF RecvReturned, SeesEof, StreamInv, StreamTypeOK
  <2>4. StreamTypeOK'
    BY <2>1, <2>2, <2>3 DEF StreamInv, StreamTypeOK, InUse, callVars
  <2>6. PayloadsReceived'
    BY <2>1 DEF StreamInv, StreamTypeOK, PayloadsReceived, callVars
  <2>5. Replying'
    BY <2>1 DEF StreamInv, Replying
  <2> QED BY <2>4, <2>5, <2>6
<1>8. CASE ServerStreamServerMade
  <2>1. /\ rop' = [rop EXCEPT !["server"] = "idle"] /\ rop["server"] = "recv"
        /\ rcv["server"] = "idle" /\ UNCHANGED <<load, eof>>
    BY <1>8 DEF ServerStreamServerMade
  <2>2. CASE Decoded(ret["server"])
    <3>1. /\ sop' = [sop EXCEPT !["server"] = "idle"]
          /\ UNCHANGED <<sent, snd, rcv, ret, callVars>>
          /\ got' \in [Sides -> Seq(Payloads)]
      BY <1>6, <1>8, <2>1, <2>2, PeerType
        DEF ServerStreamServerMade, vars, streamVars, connVars
    <3>2. StreamTypeOK' /\ PayloadsReceived'
      BY <2>1, <3>1, PeerType DEF StreamInv, StreamTypeOK, PayloadsReceived, InUse,
        callVars, SendOps
    <3>3. Replying'
      BY <3>1, PeerType DEF StreamInv, StreamTypeOK, Replying
    <3> QED BY <3>2, <3>3
  <2>3. CASE ~Decoded(ret["server"])
    <3>1. /\ sop' = [sop EXCEPT !["server"] = "failed"] /\ got' = got
          /\ HandlerFails
      BY <1>8, <2>3 DEF ServerStreamServerMade
    <3>2. /\ UNCHANGED <<sent, rcv, ret, cl>> /\ srv' = "error" /\ srv = "handler"
      BY <3>1 DEF HandlerFails, HandlerIdle, streamVars
    <3>3. StreamTypeOK' /\ PayloadsReceived'
      BY <2>1, <3>1, <3>2, PeerType DEF StreamInv, StreamTypeOK, PayloadsReceived,
        InUse, SendOps, Sides
    <3>4. Replying'
      BY <3>1, PeerType DEF StreamInv, StreamTypeOK, Replying
    <3> QED BY <3>3, <3>4
  <2> QED BY <2>2, <2>3
<1> QED
  BY <1>1, <1>2, <1>3, <1>4, <1>5, <1>7, <1>8

\* The steps below keep what the wrappers rely on.
LEMMA BelowSteps ==
    ASSUME StreamInv, [Next]_vars, Below, UNCHANGED streamCallVars
    PROVE  StreamTypeOK' /\ PayloadsReceived' /\ Replying'
<1>0. TypeOK /\ Inv /\ PayloadsSent /\ UNCHANGED <<load, sop, rop, eof, got>>
  BY DEF StreamInv, streamCallVars
<1>1. StreamTypeOK'
  BY <1>0, BelowKeeps, PeerType DEF StreamInv, StreamTypeOK, InUse, Sides
<1>2. PayloadsReceived'
  BY <1>0, BelowKeeps, ReturnedMessage DEF StreamInv, PayloadsReceived
<1>3. Replying'
  <2> DEFINE l == Len(sent["server"])
             n == Len(snd["server"])
  <2>1. CASE UNCHANGED <<sent["server"], snd["server"]>>
    BY <1>0, <2>1 DEF StreamInv, Replying
  <2>2. CASE /\ snd["server"] # <<>> /\ snd'["server"] = <<>>
             /\ \/ sent'["server"] = sent["server"]
                \/ sent'["server"] = Append(sent["server"], Head(snd["server"]))
    <3>1. sent["server"] \in Seq(Messages) /\ snd["server"] \in Seq(Messages)
      BY <1>0, PeerType DEF TypeOK
    <3>2. l \in Nat /\ n \in Nat /\ n >= 1
      BY <2>2, <3>1
    <3>3. Head(snd["server"]) \in Messages
      BY <2>2, <3>1
    <3>4. Len(Append(sent["server"], Head(snd["server"]))) = l + 1
      BY <3>1, <3>3
    <3>5. Len(snd'["server"]) = 0
      BY <2>2
    <3>6. Len(sent'["server"]) \in {l, l + 1}
      BY <2>2, <3>4
    <3>7. load.most["server"] \in Nat
      BY <1>0, StreamAssumption, PeerType DEF StreamInv, StreamTypeOK
    <3>8. sop["server"] = "reply" => l + n + 1 <= load.most["server"]
      BY DEF StreamInv, Replying
    <3> DEFINE k == Len(sent'["server"])
    <3> HIDE DEF l, n, k
    <3>9. sop["server"] = "reply" => k + 0 + 1 <= load.most["server"]
      BY <3>2, <3>6, <3>7, <3>8 DEF k
    <3> QED BY <1>0, <3>5, <3>9 DEF Replying, k
  <2> QED BY <1>0, <2>1, <2>2, BelowKeeps
<1> QED BY <1>1, <1>2, <1>3

-----------------------------------------------------------------------------
(* What Stream makes of a growing sequence, and of its beginning.          *)

\* The messages before the first CLOSE are a beginning of the sequence.
LEMMA OpenIs ==
    ASSUME NEW q \in Seq(Messages)
    PROVE  \E k \in 0 .. Len(q) :
              /\ Open(q) = SubSeq(q, 1, k)
              /\ \A i \in 1 .. k : ~IsClose(q[i])
              /\ k = Len(q) \/ IsClose(q[k + 1])
<1>1. Len(q) \in Nat /\ q = SubSeq(q, 1, Len(q))
  BY LenProperties, SubSeqFull
<1>2. CASE Closes(q) = {}
  <2>1. Open(q) = SubSeq(q, 1, Len(q)) /\ \A i \in 1 .. Len(q) : ~IsClose(q[i])
    BY <1>1, <1>2 DEF Open, Closes
  <2>2. Len(q) \in 0 .. Len(q)
    BY <1>1
  <2> QED
    BY <2>1, <2>2
<1>3. CASE Closes(q) # {}
  <2> DEFINE W == {m \in Messages : IsClose(m)}
             c == Min(Closes(q))
  <2>1. Closes(q) = Places(q, W)
    <3>1. \A i \in 1 .. Len(q) : q[i] \in Messages
      OBVIOUS
    <3> QED
      BY <3>1 DEF Closes, Places
  <2>2. \E i \in Closes(q) : \A j \in Closes(q) : i <= j
    <3>1. Places(q, W) # {}
      BY <1>3, <2>1
    <3> HIDE DEF W
    <3>2. \E i \in Places(q, W) : \A j \in Places(q, W) : i <= j
      BY <3>1, FirstPlace
    <3> QED
      BY <2>1, <3>2
  <2>3. c \in Closes(q) /\ \A j \in Closes(q) : c <= j
    BY <2>2 DEF Min
  <2> HIDE DEF c
  <2>4. c \in 1 .. Len(q) /\ IsClose(q[c])
    BY <2>3 DEF Closes
  <2>5. ASSUME NEW i \in 1 .. c - 1 PROVE ~IsClose(q[i])
    <3>1. i \in 1 .. Len(q) /\ ~(c <= i)
      BY <1>1, <2>4
    <3> QED
      BY <2>3, <3>1 DEF Closes
  <2>6. c - 1 \in 0 .. Len(q) /\ (c - 1) + 1 = c
    BY <1>1, <2>4
  <2>7. Open(q) = SubSeq(q, 1, c - 1)
    BY <1>3 DEF Open, c
  <2> QED
    BY <2>4, <2>5, <2>6, <2>7
<1> QED
  BY <1>2, <1>3

\* Only one beginning ends before the first CLOSE.
LEMMA OpenOnly ==
    ASSUME NEW q \in Seq(Messages), NEW k \in 0 .. Len(q),
           \A i \in 1 .. k : ~IsClose(q[i]), k = Len(q) \/ IsClose(q[k + 1])
    PROVE  Open(q) = SubSeq(q, 1, k)
<1>1. Len(q) \in Nat
  BY LenProperties
<1>2. PICK l \in 0 .. Len(q) :
        /\ Open(q) = SubSeq(q, 1, l)
        /\ \A i \in 1 .. l : ~IsClose(q[i])
        /\ l = Len(q) \/ IsClose(q[l + 1])
  BY OpenIs
<1>3. ~(k < l)
  <2>1. k < l => k + 1 \in 1 .. l /\ k # Len(q)
    BY <1>1
  <2> QED
    BY <1>2, <2>1
<1>4. ~(l < k)
  <2>1. l < k => l + 1 \in 1 .. k /\ l # Len(q)
    BY <1>1
  <2> QED
    BY <1>2, <2>1
<1>5. k = l
  BY <1>1, <1>3, <1>4
<1> QED
  BY <1>2, <1>5

\* What is open is a sequence of messages.
LEMMA OpenType ==
    ASSUME NEW q \in Seq(Messages)
    PROVE  Open(q) \in Seq(Messages) /\ Len(Open(q)) \in Nat
BY OpenIs, BeginningType

\* A CLOSE ends what is open; everything before it is.
LEMMA OpenAppend ==
    ASSUME NEW q \in Seq(Messages), NEW m \in Messages
    PROVE  /\ Closes(q) # {} => Open(Append(q, m)) = Open(q)
           /\ Closes(q) = {} => Open(q) = q
           /\ Closes(q) = {} /\ IsClose(m) => Open(Append(q, m)) = q
           /\ Closes(q) = {} /\ ~IsClose(m) => Open(Append(q, m)) = Append(q, m)
           /\ Closes(Append(q, m)) # {} <=> Closes(q) # {} \/ IsClose(m)
<1> DEFINE Q == Append(q, m)
           n == Len(q)
<1>1. /\ Q \in Seq(Messages) /\ Len(Q) = n + 1 /\ n \in Nat /\ Q[n + 1] = m
      /\ \A i \in 1 .. n : Q[i] = q[i]
  BY AppendProperties, LenProperties
<1>2. ASSUME NEW k \in 0 .. n PROVE SubSeq(Q, 1, k) = SubSeq(q, 1, k)
  <2> HIDE DEF Q
  <2>1. k \in 0 .. Len(Q) /\ \A i \in 1 .. k : Q[i] = q[i]
    BY <1>1
  <2>2. /\ SubSeq(Q, 1, k) \in Seq(Messages) /\ Len(SubSeq(Q, 1, k)) = k
        /\ \A i \in 1 .. k : SubSeq(Q, 1, k)[i] = Q[i]
    BY <1>1, <2>1, BeginningType
  <2>3. /\ SubSeq(q, 1, k) \in Seq(Messages) /\ Len(SubSeq(q, 1, k)) = k
        /\ \A i \in 1 .. k : SubSeq(q, 1, k)[i] = q[i]
    BY BeginningType
  <2> QED
    BY <2>1, <2>2, <2>3, SeqEqual
<1>3. PICK k \in 0 .. n :
        /\ Open(q) = SubSeq(q, 1, k)
        /\ \A i \in 1 .. k : ~IsClose(q[i])
        /\ k = n \/ IsClose(q[k + 1])
  BY OpenIs
<1>4. Closes(q) = {} <=> \A i \in 1 .. n : ~IsClose(q[i])
  BY DEF Closes
<1> HIDE DEF Q
<1>5. CASE Closes(q) # {}
  <2>1. k # n
    BY <1>3, <1>4, <1>5
  <2>2. /\ k \in 0 .. Len(Q) /\ k + 1 \in 1 .. n
        /\ \A i \in 1 .. k : i \in 1 .. n
    BY <1>1, <2>1
  <2>3. IsClose(Q[k + 1]) /\ \A i \in 1 .. k : ~IsClose(Q[i])
    BY <1>1, <1>3, <2>1, <2>2
  <2>4. Open(Q) = Open(q)
    BY <1>1, <1>2, <1>3, <2>2, <2>3, OpenOnly
  <2>5. Closes(Q) # {}
    <3>1. k + 1 \in 1 .. Len(Q)
      BY <1>1, <2>2
    <3> QED
      BY <2>3, <3>1 DEF Closes
  <2> QED
    BY <1>5, <2>4, <2>5 DEF Q
<1>6. CASE Closes(q) = {}
  <2>1. Open(q) = q
    BY <1>6 DEF Open
  <2>2. n \in 0 .. Len(Q) /\ \A i \in 1 .. n : ~IsClose(Q[i])
    BY <1>1, <1>4, <1>6
  <2>3. CASE IsClose(m)
    <3>1. Open(Q) = SubSeq(Q, 1, n)
      BY <1>1, <2>2, <2>3, OpenOnly
    <3>2. SubSeq(q, 1, n) = q
      BY SubSeqFull
    <3>3. Open(Q) = q
      <4>1. n \in 0 .. n
        BY <1>1
      <4> QED
        BY <1>2, <3>1, <3>2, <4>1
    <3>4. Closes(Q) # {}
      <4>1. n + 1 \in 1 .. Len(Q)
        BY <1>1
      <4> QED
        BY <1>1, <2>3, <4>1 DEF Closes
    <3> QED
      BY <1>6, <2>1, <2>3, <3>3, <3>4 DEF Q
  <2>4. CASE ~IsClose(m)
    <3>1. \A i \in 1 .. Len(Q) : i = n + 1 \/ i \in 1 .. n
      BY <1>1
    <3>2. Closes(Q) = {}
      BY <1>1, <2>2, <2>4, <3>1 DEF Closes
    <3>3. Open(Q) = Q
      BY <3>2 DEF Open
    <3> QED
      BY <1>6, <2>1, <2>4, <3>2, <3>3 DEF Q
  <2> QED
    BY <2>3, <2>4
<1> QED
  BY <1>5, <1>6

\* Of a beginning, a beginning is open, and everything that is, if it holds a
\* CLOSE.
LEMMA OpenPrefix ==
    ASSUME NEW q \in Seq(Messages), NEW n \in 0 .. Len(q)
    PROVE  /\ \E l \in 0 .. Len(Open(q)) : Open(SubSeq(q, 1, n)) = SubSeq(Open(q), 1, l)
           /\ Closes(SubSeq(q, 1, n)) # {} => Open(SubSeq(q, 1, n)) = Open(q)
<1> DEFINE p == SubSeq(q, 1, n)
<1>1. /\ p \in Seq(Messages) /\ Len(p) = n /\ n \in Nat /\ Len(q) \in Nat
      /\ \A i \in 1 .. n : p[i] = q[i]
  BY BeginningType
<1>2. PICK k \in 0 .. Len(q) :
        /\ Open(q) = SubSeq(q, 1, k)
        /\ \A i \in 1 .. k : ~IsClose(q[i])
        /\ k = Len(q) \/ IsClose(q[k + 1])
  BY OpenIs
<1>3. \A l \in 0 .. n : SubSeq(p, 1, l) = SubSeq(q, 1, l)
  BY BeginningOf
<1> HIDE DEF p
<1>4. CASE n <= k
  <2>1. \A i \in 1 .. n : ~IsClose(p[i])
    <3>1. \A i \in 1 .. n : i \in 1 .. k
      BY <1>1, <1>4
    <3> QED
      BY <1>1, <1>2, <3>1
  <2>2. Closes(p) = {} /\ Open(p) = p
    BY <1>1, <2>1 DEF Closes, Open
  <2>3. Len(Open(q)) = k
    BY <1>2, BeginningType
  <2>4. n \in 0 .. k
    BY <1>1, <1>4
  <2>5. SubSeq(Open(q), 1, n) = p
    BY <1>2, <2>4, BeginningOf DEF p
  <2> QED
    BY <2>2, <2>3, <2>4, <2>5 DEF p
<1>5. CASE ~(n <= k)
  <2>1. /\ k \in 0 .. Len(p) /\ k + 1 \in 1 .. n /\ k # Len(q)
        /\ \A i \in 1 .. k : i \in 1 .. n
    BY <1>1, <1>5
  <2>2. IsClose(p[k + 1]) /\ \A i \in 1 .. k : ~IsClose(p[i])
    BY <1>1, <1>2, <2>1
  <2>3. Open(p) = SubSeq(p, 1, k)
    BY <1>1, <2>1, <2>2, OpenOnly
  <2>4. Open(p) = Open(q)
    BY <1>1, <1>2, <1>3, <2>1, <2>3
  <2>5. Len(Open(q)) = k /\ k \in 0 .. k /\ SubSeq(Open(q), 1, k) = Open(q)
    <3>1. Len(Open(q)) = k
      BY <1>2, BeginningType
    <3> QED
      BY <1>1, <3>1, OpenType, SubSeqFull
  <2> QED
    BY <2>4, <2>5 DEF p
<1> QED
  BY <1>4, <1>5

-----------------------------------------------------------------------------
(* The payloads.                                                           *)

LEMMA StreamType ==
    ASSUME NEW q \in Seq(Messages)
    PROVE  /\ Stream(q) \in Seq(Segments)
           /\ Len(Stream(q)) = Len(Picked(Open(q), Readings))
           /\ \A n \in 1 .. Len(Stream(q)) : Stream(q)[n] = Picked(Open(q), Readings)[n].data
<1> DEFINE r == Picked(Open(q), Readings)
<1>1. r \in Seq(Messages)
  BY OpenType, PickedType
<1>2. Stream(q) = [n \in DOMAIN r |-> r[n].data]
  BY DEF Stream
<1> HIDE DEF r
<1>3. DOMAIN r = 1 .. Len(r) /\ Len(r) \in Nat /\ \A n \in 1 .. Len(r) : r[n].data \in Segments
  <2>1. DOMAIN r = 1 .. Len(r) /\ Len(r) \in Nat /\ \A n \in 1 .. Len(r) : r[n] \in Messages
    BY <1>1
  <2>2. \A m \in Messages : m.data \in Segments
    BY DEF Messages
  <2> QED
    BY <2>1, <2>2
<1> QED
  BY <1>2, <1>3 DEF r

\* A message that is read, and one that is not.
LEMMA StreamAppend ==
    ASSUME NEW q \in Seq(Messages), NEW m \in Messages
    PROVE  Stream(Append(q, m)) =
              IF Closes(q) = {} /\ m \in Readings
              THEN Append(Stream(q), m.data) ELSE Stream(q)
<1> DEFINE Q == Append(q, m)
           r == Picked(Open(q), Readings)
<1>1. Q \in Seq(Messages) /\ Open(q) \in Seq(Messages) /\ m.data \in Segments
  BY AppendProperties, OpenType DEF Messages
<1>2. m \in Readings => ~IsClose(m)
  BY DEF Readings, IsClose
<1>3. CASE Closes(q) = {} /\ m \in Readings
  <2>1. Open(Q) = Append(Open(q), m)
    BY <1>2, <1>3, OpenAppend
  <2>2. Picked(Open(Q), Readings) = Append(r, m)
    BY <1>1, <1>3, <2>1, PickedAppend
  <2>3. r \in Seq(Messages)
    BY <1>1, PickedType
  <2> HIDE DEF r, Q
  <2>4. /\ Len(Append(r, m)) = Len(r) + 1 /\ Append(r, m)[Len(r) + 1] = m /\ Len(r) \in Nat
        /\ \A i \in 1 .. Len(r) : Append(r, m)[i] = r[i]
    BY <2>3, AppendProperties, LenProperties
  <2>5. /\ Stream(Q) \in Seq(Segments) /\ Len(Stream(Q)) = Len(r) + 1
        /\ \A n \in 1 .. Len(r) + 1 : Stream(Q)[n] = Append(r, m)[n].data
    <3>1. Len(Picked(Open(Q), Readings)) = Len(r) + 1
      BY <2>2, <2>4
    <3> QED
      BY <1>1, <2>2, <3>1, StreamType
  <2>6. /\ Stream(q) \in Seq(Segments) /\ Len(Stream(q)) = Len(r)
        /\ \A n \in 1 .. Len(r) : Stream(q)[n] = r[n].data
    BY StreamType DEF r
  <2>7. /\ Append(Stream(q), m.data) \in Seq(Segments)
        /\ Len(Append(Stream(q), m.data)) = Len(r) + 1
        /\ Append(Stream(q), m.data)[Len(r) + 1] = m.data
        /\ \A i \in 1 .. Len(r) : Append(Stream(q), m.data)[i] = Stream(q)[i]
    BY <1>1, <2>6, AppendProperties
  <2>8. \A n \in 1 .. Len(r) + 1 : Stream(Q)[n] = Append(Stream(q), m.data)[n]
    <3>1. \A n \in 1 .. Len(r) + 1 : n = Len(r) + 1 \/ n \in 1 .. Len(r)
      BY <2>4
    <3> QED
      BY <2>4, <2>5, <2>6, <2>7, <3>1
  <2>9. Stream(Q) = Append(Stream(q), m.data)
    BY <2>5, <2>7, <2>8, SeqEqual
  <2> QED
    BY <1>3, <2>9 DEF Q
<1>4. CASE ~(Closes(q) = {} /\ m \in Readings)
  <2>1. Picked(Open(Q), Readings) = r
    <3>1. CASE Closes(q) # {} \/ IsClose(m)
      BY <3>1, OpenAppend
    <3>2. CASE Closes(q) = {} /\ ~IsClose(m)
      <4>1. Open(Q) = Append(Open(q), m)
        BY <3>2, OpenAppend
      <4> QED
        BY <1>1, <1>4, <3>2, <4>1, PickedAppend
    <3> QED
      BY <3>1, <3>2
  <2>2. Stream(Q) = Stream(q)
    BY <2>1 DEF Stream
  <2> QED
    BY <1>4, <2>2
<1> QED
  BY <1>3, <1>4

\* Of a beginning, a beginning is yielded, and everything that ever is, if it
\* holds a CLOSE.
LEMMA StreamPrefix ==
    ASSUME NEW q \in Seq(Messages), NEW n \in 0 .. Len(q)
    PROVE  LET p == SubSeq(q, 1, n)
           IN  /\ Len(Stream(p)) <= Len(Stream(q))
               /\ \A k \in 1 .. Len(Stream(p)) : Stream(p)[k] = Stream(q)[k]
               /\ Closes(p) # {} => Stream(p) = Stream(q)
<1> DEFINE p == SubSeq(q, 1, n)
<1>1. p \in Seq(Messages) /\ Open(q) \in Seq(Messages)
  BY BeginningType, OpenType
<1>2. PICK l \in 0 .. Len(Open(q)) : Open(p) = SubSeq(Open(q), 1, l)
  BY OpenPrefix
<1>3. Closes(p) # {} => Stream(p) = Stream(q)
  BY OpenPrefix DEF Stream
<1> HIDE DEF p
<1> DEFINE r == Picked(Open(p), Readings)
           s == Picked(Open(q), Readings)
<1>4. Len(r) <= Len(s) /\ \A k \in 1 .. Len(r) : r[k] = s[k]
  BY <1>1, <1>2, PickedPrefix
<1>5. /\ Len(Stream(p)) = Len(r) /\ Len(Stream(q)) = Len(s)
      /\ \A k \in 1 .. Len(r) : Stream(p)[k] = r[k].data
      /\ \A k \in 1 .. Len(s) : Stream(q)[k] = s[k].data
  BY <1>1, StreamType
<1>6. Len(r) \in Nat /\ Len(s) \in Nat
  BY <1>1, OpenType, PickedType, LenProperties
<1> HIDE DEF r, s
<1>7. \A k \in 1 .. Len(r) : k \in 1 .. Len(s)
  BY <1>4, <1>6
<1> QED
  BY <1>3, <1>4, <1>5, <1>7 DEF p

\* Nothing is yielded of nothing.
LEMMA StreamEmpty == Stream(<<>>) = <<>> /\ Closes(<<>>) = {}
<1>1. Closes(<<>>) = {}
  BY DEF Closes
<1>2. Picked(Open(<<>>), Readings) = <<>>
  BY <1>1, PickedEmpty DEF Open
<1>3. <<>> \in Seq(Messages)
  OBVIOUS
<1>4. Len(Stream(<<>>)) = 0 /\ Stream(<<>>) \in Seq(Segments)
  BY <1>2, <1>3, StreamType
<1> QED
  BY <1>1, <1>4, EmptySeq

-----------------------------------------------------------------------------
(* What a stream has yielded of what it took.                              *)

\* A reader that is gone stays so.
LEMMA ExitStays ==
    ASSUME TypeOK, [Next]_vars, NEW s \in Sides, rd[s] = "exit"
    PROVE  rd'[s] = "exit"
<1>1. RecvBegin(s) \/ RecvCancel(s) => rd'[s] = rd[s]
  BY DEF RecvBegin, RecvCancel
<1>2. Reader(s) => FALSE
  BY DEF Reader, Decode, ReaderStored, DecodeEof, DecodeFail, AtDecode, TypeOK
<1>3. RecvProceeds(s, Want(s)) => rd'[s] = rd[s]
  BY DEF RecvProceeds, RecvTake, RecvTakeFailure, RecvStored, RecvClosed, TypeOK
<1>4. (s = "client" /\ Invoke => FALSE) /\ (s = "server" /\ Accept => FALSE)
  BY DEF Invoke, Accept, TypeOK
<1> QED
  BY <1>1, <1>2, <1>3, <1>4, ConnSteps

\* The end of the stream stays its end.
LEMMA EndStays ==
    ASSUME TypeOK, Inv, [Next]_vars, NEW s \in Sides, rd[s] = "exit" /\ Ended(s)
    PROVE  rd'[s] = "exit" /\ Ended(s)'
BY ExitStays, EndedStable

\* A step that does not concern the receiving end of s.
LEMMA FollowsKept ==
    ASSUME TypeOK, Inv, [Next]_vars, NEW s \in Sides, Follows(s),
           UNCHANGED <<got[s], eof[s], rop[s], taken[s], ret[s]>>,
           rcv'[s] \in {rcv[s], "idle"}, sop[s] = "failed" => sop'[s] = "failed"
    PROVE  Follows(s)'
<1>1. Coming(s)' = Coming(s) /\ AtEof(s)' = AtEof(s)
  BY DEF Coming, AtEof, Decoded
<1>2. rd[s] = "exit" /\ Ended(s) => rd'[s] = "exit" /\ Ended(s)'
  BY EndStays
<1> QED
  BY <1>1, <1>2 DEF Follows

\* What Recv makes of a message, and what it adds to the stream.
LEMMA InterpretData ==
    ASSUME NEW m \in Messages
    PROVE  /\ m \in Readings => Interpret(m, "DATA") = Result("message", m.data)
           /\ m \notin Readings => ~Decoded(Interpret(m, "DATA"))
           /\ IsClose(m) <=> Interpret(m, "DATA").kind = "eof"
           /\ IsClose(m) => ~IsError(m)
<1>1. \A k, v : Result(k, v).kind = k /\ Result(k, v).val = v
  BY DEF Result
<1>2. CASE IsClose(m)
  <2>1. ~IsError(m) /\ m.type # "DATA"
    BY <1>2 DEF IsClose, IsError
  <2>2. Interpret(m, "DATA") = Result("eof", <<>>)
    BY <1>2, <2>1, Zenon DEF Interpret
  <2> QED
    BY <1>1, <1>2, <2>1, <2>2 DEF Readings, Decoded
<1>3. CASE IsError(m) /\ ~IsClose(m)
  <2>1. m.type # "DATA"
    BY <1>3 DEF IsError
  <2>2. Interpret(m, "DATA") = Result("error", m.data)
    BY <1>3, <2>1, Zenon DEF Interpret
  <2> QED
    BY <1>1, <1>3, <2>1, <2>2 DEF Readings, Decoded
<1>4. CASE m.type = "DATA" /\ ~IsClose(m) /\ ~IsError(m)
  <2>1. Interpret(m, "DATA") = Result("message", m.data)
    BY <1>4, Zenon DEF Interpret
  <2> QED
    BY <1>1, <1>4, <2>1 DEF Readings, Decoded
<1>5. CASE m.type # "DATA" /\ ~IsClose(m) /\ ~IsError(m)
  <2>1. Interpret(m, "DATA") = Result("protocol", <<>>)
    BY <1>5, Zenon DEF Interpret
  <2> QED
    BY <1>1, <1>5, <2>1 DEF Readings, Decoded
<1> QED
  BY <1>2, <1>3, <1>4, <1>5

\* While a Recv of the stream waits, nothing is coming yet and no CLOSE came.
LEMMA Waiting ==
    ASSUME Asking, NEW s \in Sides, Follows(s), got[s] \in Seq(Payloads),
           rcv[s] = "wait", rop[s] = "recv"
    PROVE  got[s] = Stream(taken[s]) /\ Closes(taken[s]) = {} /\ ~eof[s]
<1>1. ret[s].kind # "message"
  BY DEF Asking, NoResult, Result
<1>2. Coming(s) = <<>>
  BY <1>1 DEF Coming, Decoded
<1> QED
  BY <1>2, ConcatEmptySeq DEF Follows, Asking

\* Recv of a stream takes a message.
LEMMA FollowsTake ==
    ASSUME TypeOK, Asking, NEW s \in Sides, Follows(s), got[s] \in Seq(Payloads),
           rop[s] = "recv", RecvTake(s, "DATA"),
           UNCHANGED <<got[s], eof[s], rop[s]>>
    PROVE  Follows(s)'
<1> DEFINE m == Head(hand[s])
<1>1. m \in Messages
  BY HandLength DEF RecvTake
<1>2. /\ ret'[s] = Interpret(m, "DATA") /\ taken'[s] = Append(taken[s], m)
      /\ rcv'[s] = IF IsError(m) THEN "store" ELSE "idle"
      /\ taken[s] \in Seq(Messages)
  BY DEF RecvTake, TypeOK
<1>3. got[s] = Stream(taken[s]) /\ Closes(taken[s]) = {} /\ ~eof[s]
  BY Waiting DEF RecvTake
<1> HIDE DEF m
<1>4. Closes(taken'[s]) # {} <=> IsClose(m)
  BY <1>1, <1>2, <1>3, OpenAppend
<1>5. Stream(taken'[s]) = IF m \in Readings THEN Append(got[s], m.data) ELSE got[s]
  BY <1>1, <1>2, <1>3, StreamAppend
<1>6. AtEof(s)' <=> IsClose(m)
  BY <1>1, <1>2, <1>3, InterpretData DEF AtEof
<1>7. IsClose(m) => rcv'[s] = "idle"
  BY <1>1, <1>2, InterpretData
<1>8. got'[s] \o Coming(s)' = Stream(taken'[s])
  <2>1. CASE m \in Readings
    <3>1. ret'[s] = Result("message", m.data) /\ m.data \notin Garbled
      BY <1>1, <1>2, <2>1, InterpretData DEF Readings
    <3>2. Coming(s)' = <<m.data>>
      BY <3>1 DEF Coming, Decoded, Result
    <3>3. got[s] \o <<m.data>> = Append(got[s], m.data)
      BY AppendIsConcat
    <3> QED
      BY <1>5, <2>1, <3>2, <3>3
  <2>2. CASE m \notin Readings
    <3>1. ~Decoded(ret'[s])
      BY <1>1, <1>2, <2>2, InterpretData
    <3>2. Coming(s)' = <<>>
      BY <3>1 DEF Coming, Decoded
    <3> QED
      BY <1>5, <2>2, <3>2, ConcatEmptySeq
  <2> QED
    BY <2>1, <2>2
<1> QED
  BY <1>4, <1>6, <1>7, <1>8 DEF Follows

\* Recv of a stream proceeds.
LEMMA FollowsProceeds ==
    ASSUME TypeOK, Inv, [Next]_vars, Asking, NEW s \in Sides, Follows(s),
           got[s] \in Seq(Payloads), rop[s] = "recv", RecvProceeds(s, "DATA"),
           UNCHANGED <<got[s], eof[s], rop[s], sop[s]>>
    PROVE  Follows(s)'
<1>1. CASE RecvTake(s, "DATA")
  BY <1>1, FollowsTake
<1>2. CASE RecvTakeFailure(s)
  <2>1. got[s] = Stream(taken[s]) /\ Closes(taken[s]) = {} /\ ~eof[s]
    BY <1>2, Waiting DEF RecvTakeFailure
  <2>2. taken' = taken /\ ret'[s].kind = "error"
    BY <1>2 DEF RecvTakeFailure, Result, TypeOK
  <2>3. Coming(s)' = <<>> /\ ~AtEof(s)'
    BY <2>1, <2>2 DEF Coming, Decoded, AtEof
  <2> QED
    BY <2>1, <2>2, <2>3, ConcatEmptySeq DEF Follows
<1>3. CASE RecvStored(s)
  <2>1. taken' = taken /\ ret' = ret /\ rcv'[s] = "idle"
    BY <1>3 DEF RecvStored, TypeOK
  <2> QED
    BY <2>1, FollowsKept
<1>4. CASE RecvClosed(s)
  <2>1. got[s] = Stream(taken[s]) /\ Closes(taken[s]) = {} /\ ~eof[s]
    BY <1>4, Waiting DEF RecvClosed
  <2>2. taken' = taken /\ ret'[s].kind = "eof" /\ rd[s] = "exit" /\ rcv[s] = "wait"
    BY <1>4 DEF RecvClosed, RecvReturns, Result, TypeOK
  <2>3. Ended(s)
    BY <2>2 DEF Inv, ReaderGone
  <2>4. rd'[s] = "exit" /\ Ended(s)'
    BY <2>2, <2>3, EndStays
  <2>5. Coming(s)' = <<>>
    BY <2>2 DEF Coming, Decoded
  <2> QED
    BY <2>1, <2>2, <2>4, <2>5, ConcatEmptySeq DEF Follows
<1> QED
  BY <1>1, <1>2, <1>3, <1>4 DEF RecvProceeds

\* Who changes what the streams rely on of s, below them.
LEMMA BelowConn ==
    ASSUME TypeOK, Below, NEW s \in Sides
    PROVE  \/ UNCHANGED <<rcv[s], ret[s], taken[s]>>
           \/ RecvProceeds(s, Want(s)) /\ UNCHANGED callVars
           \/ s = "server" /\ Accept
<1> DEFINE Same == rcv'[s] = rcv[s] /\ ret'[s] = ret[s] /\ taken'[s] = taken[s]
<1>1. Invoke \/ InvokeFails \/ InvokeSent \/ InvokeSendFails \/ Drop => Same
  BY DEF Invoke, InvokeFails, InvokeSent, InvokeSendFails, Drop, connVars
<1>2. Accept => s = "server" \/ Same
  BY DEF Accept, TypeOK
<1>3. Dispatch \/ Reject \/ ErrorSent \/ ServerCloses => Same
  BY DEF Dispatch, Reject, ErrorSent, ServerCloses, connVars
<1>4. ASSUME NEW t \in Sides, ReaderStep(t) \/ SendStep(t) \/ Expire(t) PROVE Same
  BY <1>4 DEF ReaderStep, Reader, Decode, ReaderStored, DecodeEof, DecodeFail,
    SendStep, SendProceeds, Encode, EncodeFails, Expire, connVars
<1>5. ASSUME NEW t \in Sides, t # s, RecvStep(t) PROVE Same
  BY <1>5 DEF RecvStep, RecvProceeds, RecvTake, RecvTakeFailure, RecvStored,
    RecvClosed, RecvReturns, TypeOK
<1> QED
  BY <1>1, <1>2, <1>3, <1>4, <1>5 DEF Below, RecvStep

\* The server goroutine, below the streams.
LEMMA BelowServer ==
    ASSUME TypeOK, Below
    PROVE  \/ srv' = srv
           \/ srv = "none" /\ srv' = "method" /\ Accept
           \/ srv = "method" /\ srv' \in {"handler", "done"} /\ UNCHANGED connVars
              /\ (srv' = "handler" => ret["server"].kind = "message")
           \/ srv = "error" /\ srv' = "closing"
           \/ srv = "closing" /\ srv' = "done"
BY DEF Below, Invoke, InvokeFails, InvokeSent, InvokeSendFails, Accept, Dispatch,
  Reject, MethodReceived, ErrorSent, ServerCloses, Drop, ReaderStep, RecvStep,
  SendStep, Expire, callVars

\* RecvMethod takes the first message, and nothing else.
LEMMA MethodFirstBelow ==
    ASSUME TypeOK, Inv, MethodFirst, Asking, Below
    PROVE  MethodFirst'
<1>1. "server" \in Sides
  BY PeerType
<1>2. CASE UNCHANGED <<rcv["server"], ret["server"], taken["server"]>>
  BY <1>2, BelowServer DEF MethodFirst, Accept, NoResult, Result
<1>3. CASE Accept
  BY <1>1, <1>3 DEF Accept, MethodFirst, NoResult, Result
<1>4. CASE RecvProceeds("server", Want("server")) /\ UNCHANGED callVars
  <2>1. CASE srv # "method"
    <3>1. CASE srv = "none"
      <4>1. rd["server"] = "none"
        BY <3>1 DEF TypeOK
      <4>2. rcv["server"] # "store"
        BY <1>1, <3>1 DEF Inv, ErrorKept, MethodFirst, NoResult, Result
      <4> QED
        BY <1>4, <4>1, <4>2 DEF RecvProceeds, RecvTake, RecvTakeFailure, RecvStored,
          RecvClosed
    <3>2. CASE srv # "none"
      BY <1>4, <2>1, <3>2 DEF MethodFirst, callVars
    <3> QED
      BY <3>1, <3>2
  <2>2. CASE srv = "method"
    <3>1. CASE RecvTake("server", "INVOKE")
      <4> DEFINE m == Head(hand["server"])
      <4>1. /\ taken["server"] = <<>> /\ taken'["server"] = Append(<<>>, m)
            /\ ret'["server"] = Interpret(m, "INVOKE") /\ rcv'["server"] # "wait"
        BY <1>1, <2>2, <3>1 DEF RecvTake, MethodFirst, TypeOK
      <4> HIDE DEF m
      <4>2. taken'["server"] = <<m>>
        BY <4>1
      <4>3. ret'["server"].kind = "message" => m.type = "INVOKE"
        <5>1. \A k, v : Result(k, v).kind = k
          BY DEF Result
        <5>2. CASE IsClose(m)
          <6>1. ~IsError(m) /\ m.type # "INVOKE"
            BY <5>2 DEF IsClose, IsError
          <6>2. Interpret(m, "INVOKE") = Result("eof", <<>>)
            BY <5>2, <6>1, Zenon DEF Interpret
          <6> QED
            BY <4>1, <5>1, <6>2
        <5>3. CASE IsError(m) /\ ~IsClose(m)
          <6>1. m.type # "INVOKE"
            BY <5>3 DEF IsError
          <6>2. Interpret(m, "INVOKE") = Result("error", m.data)
            BY <5>3, <6>1, Zenon DEF Interpret
          <6> QED
            BY <4>1, <5>1, <6>2
        <5>4. CASE m.type # "INVOKE" /\ ~IsClose(m) /\ ~IsError(m)
          <6>1. Interpret(m, "INVOKE") = Result("protocol", <<>>)
            BY <5>4, Zenon DEF Interpret
          <6> QED
            BY <4>1, <5>1, <6>1
        <5> QED
          BY <5>2, <5>3, <5>4
      <4>4. srv' = "method"
        BY <1>4, <2>2 DEF callVars
      <4>5. Len(<<m>>) = 1 /\ <<m>>[1] = m
        OBVIOUS
      <4> QED
        BY <4>1, <4>2, <4>3, <4>4, <4>5 DEF MethodFirst
    <3>2. CASE RecvTakeFailure("server") \/ RecvClosed("server")
      BY <1>1, <1>4, <2>2, <3>2 DEF RecvTakeFailure, RecvClosed, RecvReturns,
        MethodFirst, Result, TypeOK, callVars
    <3>3. CASE RecvStored("server")
      BY <1>1, <1>4, <2>2, <3>3 DEF RecvStored, MethodFirst, TypeOK, callVars
    <3> QED
      BY <1>4, <2>2, <3>1, <3>2, <3>3 DEF RecvProceeds, Want
  <2> QED
    BY <2>1, <2>2
<1> QED
  BY <1>1, <1>2, <1>3, <1>4, BelowConn

\* An end that follows goes on to, below the streams.
LEMMA FollowsBelow ==
    ASSUME StreamInv, [Next]_vars, Below, UNCHANGED streamCallVars,
           NEW s \in Sides, Follows(s), s = "server" => srv \notin {"none", "method"}
    PROVE  Follows(s)'
<1>1. /\ TypeOK /\ Inv /\ Asking /\ got[s] \in Seq(Payloads)
      /\ UNCHANGED <<got[s], eof[s], rop[s], sop[s]>>
      /\ rop[s] \in {"idle", "recv"}
  BY DEF StreamInv, YieldInv, StreamTypeOK, streamCallVars
<1>2. Want(s) = "DATA"
  BY DEF Want
<1>3. CASE UNCHANGED <<rcv[s], ret[s], taken[s]>>
  BY <1>1, <1>3, FollowsKept
<1>4. CASE RecvProceeds(s, "DATA")
  <2>1. rcv[s] # "idle"
    BY <1>4 DEF RecvProceeds, RecvTake, RecvTakeFailure, RecvStored, RecvClosed
  <2>2. rop[s] = "recv"
    BY <1>1, <2>1 DEF StreamInv, StreamTypeOK
  <2> QED
    BY <1>1, <1>4, <2>2, FollowsProceeds
<1> QED
  BY <1>2, <1>3, <1>4, BelowConn, <1>1 DEF Accept

\* The handler finds nothing but the name of its method taken.
LEMMA FollowsFirst ==
    ASSUME TypeOK, Untouched, Len(taken["server"]) = 1,
           taken["server"][1].type = "INVOKE"
    PROVE  Follows("server")
<1> DEFINE q == taken["server"]
           m == q[1]
<1>1. q \in Seq(Messages) /\ Len(q) = 1
  BY PeerType DEF TypeOK
<1>2. m \in Messages /\ q = Append(<<>>, m)
  BY <1>1
<1>3. ~IsClose(m) /\ m \notin Readings
  BY DEF IsClose, Readings
<1> HIDE DEF m, q
<1>4. <<>> \in Seq(Messages)
  OBVIOUS
<1>5. Stream(q) = <<>> /\ Closes(q) = {}
  BY <1>2, <1>3, <1>4, StreamEmpty, StreamAppend, OpenAppend
<1>6. Coming("server") = <<>> /\ ~AtEof("server") /\ got["server"] = <<>>
  BY DEF Untouched, Coming, AtEof
<1>7. <<>> \o <<>> = <<>>
  OBVIOUS
<1> QED
  BY <1>5, <1>6, <1>7 DEF Follows, q

\* The steps below keep what is yielded.
LEMMA YieldBelow ==
    ASSUME StreamInv, [Next]_vars, Below, UNCHANGED streamCallVars
    PROVE  YieldInv'
<1>0. /\ TypeOK /\ Inv /\ MethodFirst /\ Asking /\ Yielding
      /\ UNCHANGED <<got, eof, rop, sop>>
  BY DEF StreamInv, YieldInv, streamCallVars
<1>1. MethodFirst'
  BY <1>0, MethodFirstBelow
<1>2. Asking'
  <2> SUFFICES ASSUME NEW s \in Sides PROVE rcv'[s] = "wait" => ret'[s] = NoResult
    BY <1>0 DEF Asking
  <2>1. RecvProceeds(s, Want(s)) => rcv'[s] # "wait"
    BY <1>0 DEF RecvProceeds, RecvTake, RecvTakeFailure, RecvStored, RecvClosed,
      RecvReturns, TypeOK
  <2>2. Accept /\ s = "server" => ret'[s] = NoResult
    BY <1>0 DEF Accept, MethodFirst
  <2> QED
    BY <1>0, <2>1, <2>2, BelowConn DEF Asking
<1>3. Follows("client")'
  BY <1>0, FollowsBelow, PeerType DEF Yielding
<1>4. Untouched => Untouched'
  BY <1>0 DEF Untouched
<1>5. Follows("server") /\ srv \notin {"none", "method"} => Follows("server")'
  BY FollowsBelow, PeerType
<1>6. srv = "method" /\ srv' = "handler" => Follows("server")'
  <2> HAVE srv = "method" /\ srv' = "handler"
  <2>1. UNCHANGED connVars /\ ret["server"].kind = "message"
    BY <1>0, BelowServer
  <2>2. Follows("server")
    BY <1>0, <2>1, FollowsFirst DEF MethodFirst, Yielding
  <2> QED
    BY <1>0, <2>1, <2>2, FollowsKept, PeerType DEF connVars
<1>7. Yielding'
  BY <1>0, <1>3, <1>4, <1>5, <1>6, BelowServer DEF Yielding, TypeOK, ServerStates
<1> QED
  BY <1>1, <1>2, <1>7 DEF YieldInv

\* A Recv of s is under way, has an end or a message to report, and reports it.
Reports(s) ==
    /\ rop[s] = "recv" /\ rcv[s] = "idle" /\ rop'[s] = "idle"
    /\ got'[s] = got[s] \o Coming(s)
    /\ \/ (eof'[s] <=> AtEof(s)) /\ sop[s] # "new"
       \/ eof'[s] = eof[s] /\ (ret[s].kind = "eof" => sop'[s] = "failed")

\* What the users of a stream do to the receiving end of s: nothing, or they
\* begin a Recv, give it up, or have it return.
LEMMA UserSteps ==
    ASSUME StreamInv, User \/ Wrappers, NEW s \in Sides
    PROVE  /\ sop[s] = "failed" => sop'[s] = "failed"
           /\ sop'[s] = "new" => sop[s] = "new"
           /\ \/ UNCHANGED <<rcv[s], ret[s], taken[s], rop[s], eof[s], got[s]>>
              \/ /\ InUse(s) /\ RecvBegin(s) /\ rop[s] = "idle" /\ ~eof[s]
                 /\ sop[s] # "failed" /\ UNCHANGED <<eof[s], got[s]>>
              \/ InUse(s) /\ RecvCancel(s) /\ UNCHANGED <<rop[s], eof[s], got[s]>>
              \/ Reports(s) /\ UNCHANGED <<rcv[s], ret[s], taken[s]>>
<1> DEFINE Kept == UNCHANGED <<rcv[s], ret[s], taken[s], rop[s], eof[s], got[s]>>
           Begun == /\ InUse(s) /\ RecvBegin(s) /\ rop[s] = "idle" /\ ~eof[s]
                    /\ sop[s] # "failed" /\ UNCHANGED <<eof[s], got[s]>>
           Given == InUse(s) /\ RecvCancel(s) /\ UNCHANGED <<rop[s], eof[s], got[s]>>
           Reported == Reports(s) /\ UNCHANGED <<rcv[s], ret[s], taken[s]>>
           Goes == /\ sop[s] = "failed" => sop'[s] = "failed"
                   /\ sop'[s] = "new" => sop[s] = "new"
<1>0. /\ TypeOK /\ Asking
      /\ sop \in [Sides -> SendOps] /\ rop \in [Sides -> {"idle", "recv"}]
      /\ eof \in [Sides -> BOOLEAN] /\ got \in [Sides -> Seq(Payloads)]
  BY DEF StreamInv, YieldInv, StreamTypeOK
<1>1. ASSUME NEW t \in Sides, NEW op, NEW m, Start(t, op, m), sop[t] # "failed", op # "new"
      PROVE  Kept /\ Goes
  BY <1>0, <1>1 DEF Start
<1>2. ASSUME NEW t \in Sides, NEW op, Finish(t, op),
             op = "failed" \/ (sop[t] # "failed" /\ op # "new")
      PROVE  Kept /\ Goes
  BY <1>0, <1>2 DEF Finish, vars, connVars
<1>3. ASSUME NEW t \in Sides, Recv(t), rop[t] = "idle", ~eof[t], sop[t] # "failed",
             rop' = [rop EXCEPT ![t] = "recv"], UNCHANGED <<eof, got>>
      PROVE  Kept \/ Begun
  <2>1. CASE t = s
    BY <1>3, <2>1 DEF Recv
  <2>2. CASE t # s
    BY <1>0, <1>3, <2>2 DEF Recv, RecvBegin, RecvReturns, TypeOK
  <2> QED
    BY <2>1, <2>2
<1>4. CASE \/ NewServerStreamClient \/ SendAndClose \/ CloseAndRecv \/ ServerStreamClientMade
           \/ SendAndCloseGoesOn
           \/ \E t \in Sides : StreamSend(t) \/ CloseSend(t) \/ SendReturns(t)
  <2>1. ASSUME NEW t \in Sides, StreamSend(t) \/ CloseSend(t) \/ SendReturns(t)
        PROVE  Kept /\ Goes
    BY <1>1, <1>2, <2>1 DEF StreamSend, CloseSend, SendReturns, StartData, Returned
  <2>2. NewServerStreamClient \/ ServerStreamClientMade => Kept /\ Goes
    BY <1>1, <1>2, PeerType DEF NewServerStreamClient, ServerStreamClientMade,
      StartData, Returned
  <2>3. SendAndClose \/ CloseAndRecv \/ SendAndCloseGoesOn => Kept /\ Goes
    BY <1>1, <1>2, PeerType DEF SendAndClose, CloseAndRecv, SendAndCloseGoesOn,
      StartData, Returned
  <2> QED
    BY <1>4, <2>1, <2>2, <2>3
<1>5. CASE NewServerStreamServer
  <2>1. ~eof["server"]
    BY <1>0, <1>5, PeerType DEF NewServerStreamServer, Asking
  <2>2. Kept \/ Begun
    BY <1>3, <1>5, <2>1, PeerType DEF NewServerStreamServer
  <2> QED
    BY <1>5, <2>2 DEF NewServerStreamServer
<1>6. CASE CloseAndRecvGoesOn
  <2>1. Goes
    BY <1>0, <1>6, PeerType DEF CloseAndRecvGoesOn, Returned
  <2>2. CASE StartRecv("client")
    BY <1>3, <1>6, <2>1, <2>2, PeerType DEF CloseAndRecvGoesOn, StartRecv, Returned
  <2>3. CASE UNCHANGED <<vars, rop>>
    BY <1>6, <2>1, <2>3 DEF CloseAndRecvGoesOn, vars, connVars
  <2> QED
    BY <1>6, <2>2, <2>3 DEF CloseAndRecvGoesOn
<1>7. ASSUME NEW t \in Sides, StreamRecv(t) PROVE Goes /\ (Kept \/ Begun)
  <2>1. Kept \/ Begun
    BY <1>3, <1>7 DEF StreamRecv, StartRecv, Ready
  <2> QED
    BY <1>7, <2>1 DEF StreamRecv
<1>8. ASSUME NEW t \in Sides, StreamCancel(t) PROVE Goes /\ (Kept \/ Given)
  <2>1. CASE t = s
    BY <1>8, <2>1 DEF StreamCancel, Cancel, streamCallVars
  <2>2. CASE t # s
    BY <1>0, <1>8, <2>2 DEF StreamCancel, Cancel, RecvCancel, RecvReturns,
      streamCallVars, TypeOK
  <2> QED
    BY <2>1, <2>2
<1>9. ASSUME NEW t \in Sides
      PROVE  /\ got[t] \in Seq(Payloads)
             /\ rop[t] = "recv" =>
                   got[t] \o Coming(t) =
                      IF Decoded(ret[t]) THEN Append(got[t], ret[t].val) ELSE got[t]
  <2>1. got[t] \in Seq(Payloads)
    BY <1>0
  <2>2. /\ got[t] \o <<>> = got[t]
        /\ got[t] \o <<ret[t].val>> = Append(got[t], ret[t].val)
    BY <2>1, ConcatEmptySeq, AppendIsConcat
  <2> QED
    BY <2>1, <2>2 DEF Coming
<1>10. ASSUME NEW t \in Sides, RecvReturned(t) PROVE Goes /\ (Kept \/ Reported)
  <2>1. /\ rop' = [rop EXCEPT ![t] = "idle"] /\ rop[t] = "recv" /\ rcv[t] = "idle"
        /\ eof' = [eof EXCEPT ![t] = @ \/ ret[t].kind = "eof"]
        /\ got' = [got EXCEPT ![t] = IF Decoded(ret[t]) THEN Append(@, ret[t].val) ELSE @]
        /\ UNCHANGED <<rcv, ret, taken, sop>> /\ sop[t] # "new"
    BY <1>10 DEF RecvReturned, SeesEof, vars, connVars
  <2>2. CASE t = s
    <3>1. got'[s] = got[s] \o Coming(s)
      BY <1>0, <1>9, <2>1, <2>2
    <3>2. eof'[s] <=> AtEof(s)
      BY <1>0, <2>1, <2>2 DEF AtEof
    <3> QED
      BY <1>0, <2>1, <2>2, <3>1, <3>2 DEF Reports
  <2>3. CASE t # s
    BY <1>0, <2>1, <2>3
  <2> QED
    BY <2>2, <2>3
<1>11. CASE ServerStreamServerMade
  <2>0. "server" \in Sides
    BY PeerType
  <2>1. /\ rop' = [rop EXCEPT !["server"] = "idle"] /\ rop["server"] = "recv"
        /\ rcv["server"] = "idle" /\ eof' = eof /\ sop["server"] = "new"
        /\ got' = [got EXCEPT !["server"] =
                     IF Decoded(ret["server"]) THEN Append(@, ret["server"].val) ELSE @]
        /\ UNCHANGED <<rcv, ret, taken>>
        /\ sop' = [sop EXCEPT !["server"] =
                     IF Decoded(ret["server"]) THEN "idle" ELSE "failed"]
    BY <1>0, <1>11, <2>0 DEF ServerStreamServerMade, HandlerFails, vars, connVars
  <2>2. Goes
    BY <1>0, <2>1
  <2>3. CASE s = "server"
    <3>1. got'[s] = got[s] \o Coming(s)
      BY <1>0, <1>9, <2>1, <2>3
    <3>2. ret[s].kind = "eof" => sop'[s] = "failed"
      BY <1>0, <2>1, <2>3 DEF Decoded
    <3> QED
      BY <1>0, <2>1, <2>2, <2>3, <3>1, <3>2 DEF Reports
  <2>4. CASE s # "server"
    BY <1>0, <2>1, <2>2, <2>4
  <2> QED
    BY <2>3, <2>4
<1>12. CASE HandlerEnds
  BY <1>12 DEF HandlerEnds, HandlerReturns, HandlerFails, connVars, streamCallVars
<1>13. CASE User
  <2>1. CASE \E t \in Sides : StreamRecv(t) \/ StreamCancel(t)
    BY <1>7, <1>8, <2>1
  <2> QED
    BY <1>4, <1>5, <1>12, <1>13, <2>1 DEF User
<1>14. CASE Wrappers
  <2>1. CASE \E t \in Sides : RecvReturned(t)
    BY <1>10, <2>1
  <2> QED
    BY <1>4, <1>6, <1>11, <1>14, <2>1 DEF Wrappers, Sender, Receiver
<1> QED
  BY <1>13, <1>14

\* An end that follows goes on to, whatever the users do.
LEMMA FollowsUser ==
    ASSUME StreamInv, [Next]_vars, User \/ Wrappers, NEW s \in Sides, Follows(s)
    PROVE  Follows(s)'
<1>0. /\ TypeOK /\ Inv /\ Asking /\ got[s] \in Seq(Payloads)
      /\ rop[s] \in {"idle", "recv"} /\ eof[s] \in BOOLEAN
  BY DEF StreamInv, YieldInv, StreamTypeOK
<1>1. sop[s] = "failed" => sop'[s] = "failed"
  BY UserSteps
<1>2. CASE UNCHANGED <<rcv[s], ret[s], taken[s], rop[s], eof[s], got[s]>>
  BY <1>0, <1>1, <1>2, FollowsKept
<1>3. CASE /\ InUse(s) /\ RecvBegin(s) /\ rop[s] = "idle" /\ ~eof[s]
           /\ sop[s] # "failed" /\ UNCHANGED <<eof[s], got[s]>>
  <2>1. Coming(s) = <<>> /\ ~AtEof(s)
    BY <1>3 DEF Coming, AtEof
  <2>2. Closes(taken[s]) = {} /\ got[s] = Stream(taken[s])
    BY <1>0, <1>3, <2>1, ConcatEmptySeq DEF Follows
  <2>3. taken' = taken /\ ret'[s].kind \in {"none", "error"}
    BY <1>0, <1>3 DEF RecvBegin, RecvReturns, NoResult, Result, TypeOK
  <2>4. Coming(s)' = <<>> /\ ~AtEof(s)'
    BY <1>3, <2>3 DEF Coming, Decoded, AtEof
  <2> QED
    BY <1>0, <1>3, <2>2, <2>3, <2>4, ConcatEmptySeq DEF Follows
<1>4. CASE InUse(s) /\ RecvCancel(s) /\ UNCHANGED <<rop[s], eof[s], got[s]>>
  <2>1. ret[s] = NoResult
    BY <1>0, <1>4 DEF Asking, RecvCancel
  <2>2. taken' = taken /\ ret'[s].kind = "ctx" /\ rcv'[s] = "idle" /\ rcv[s] = "wait"
    BY <1>0, <1>4 DEF RecvCancel, RecvReturns, Result, TypeOK
  <2>3. /\ Coming(s) = <<>> /\ Coming(s)' = <<>>
        /\ (AtEof(s) <=> eof[s]) /\ (AtEof(s)' <=> eof[s])
    BY <1>4, <2>1, <2>2 DEF Coming, Decoded, AtEof, NoResult, Result
  <2>4. rd[s] = "exit" /\ Ended(s) => rd'[s] = "exit" /\ Ended(s)'
    BY <1>0, EndStays
  <2> QED
    BY <1>4, <2>2, <2>3, <2>4 DEF Follows
<1>5. CASE Reports(s) /\ UNCHANGED <<rcv[s], ret[s], taken[s]>>
  <2>1. Coming(s)' = <<>> /\ (AtEof(s)' <=> eof'[s])
    BY <1>5 DEF Reports, Coming, AtEof
  <2>2. got'[s] = Stream(taken[s])
    BY <1>5 DEF Reports, Follows
  <2>3. \E S : got'[s] \in Seq(S)
    <3>1. taken[s] \in Seq(Messages)
      BY <1>0 DEF TypeOK
    <3> QED
      BY <2>2, <3>1, StreamType
  <2>4. got'[s] \o <<>> = got'[s]
    BY <2>3, ConcatEmptySeq
  <2>5. eof'[s] => AtEof(s)
    BY <1>5 DEF Reports, AtEof
  <2>6. Closes(taken[s]) # {} => rcv[s] = "idle" /\ (eof'[s] \/ sop'[s] = "failed")
    BY <1>1, <1>5 DEF Reports, Follows, AtEof
  <2>7. rd[s] = "exit" /\ Ended(s) => rd'[s] = "exit" /\ Ended(s)'
    BY <1>0, EndStays
  <2> QED
    BY <1>5, <2>1, <2>2, <2>4, <2>5, <2>6, <2>7 DEF Follows
<1> QED
  BY <1>2, <1>3, <1>4, <1>5, UserSteps

\* The steps of the users keep what is yielded.
LEMMA YieldUser ==
    ASSUME StreamInv, [Next]_vars, User \/ Wrappers
    PROVE  YieldInv'
<1>0. /\ TypeOK /\ Inv /\ MethodFirst /\ Asking /\ Yielding /\ "server" \in Sides
  BY PeerType DEF StreamInv, YieldInv
<1>1. srv' = srv \/ (srv = "handler" /\ srv' \in {"closing", "error"})
  <2>1. \A t \in Sides : Recv(t) \/ Cancel(t) => srv' = srv
    BY DEF Recv, Cancel, callVars
  <2>2. HandlerReturns \/ HandlerFails
          => srv = "handler" /\ srv' \in {"closing", "error"}
    BY DEF HandlerReturns, HandlerFails, HandlerIdle
  <2>3. ASSUME NEW t \in Sides, StreamRecv(t) \/ StreamCancel(t) \/ RecvReturned(t)
        PROVE  srv' = srv
    BY <2>1, <2>3 DEF StreamRecv, StartRecv, StreamCancel, RecvReturned, vars,
      callVars
  <2>4. NewServerStreamServer \/ CloseAndRecvGoesOn => srv' = srv
    BY <2>1, PeerType DEF NewServerStreamServer, CloseAndRecvGoesOn, StartRecv,
      vars, callVars
  <2>5. ServerStreamServerMade \/ HandlerEnds
          => srv' = srv \/ (srv = "handler" /\ srv' \in {"closing", "error"})
    BY <2>2 DEF ServerStreamServerMade, HandlerEnds, vars, callVars
  <2>6. \A t \in Sides : \A op, m : Start(t, op, m) \/ Finish(t, op) => srv' = srv
    BY DEF Start, Finish, vars, callVars
  <2>7. ASSUME NEW t \in Sides, StreamSend(t) \/ CloseSend(t) \/ SendReturns(t)
        PROVE  srv' = srv
    BY <2>6, <2>7 DEF StreamSend, CloseSend, SendReturns, StartData
  <2>8. NewServerStreamClient \/ SendAndClose \/ CloseAndRecv \/ ServerStreamClientMade
          \/ SendAndCloseGoesOn => srv' = srv
    BY <2>6, PeerType DEF NewServerStreamClient, SendAndClose, CloseAndRecv,
      ServerStreamClientMade, SendAndCloseGoesOn, StartData
  <2>9. CASE User
    BY <2>3, <2>4, <2>5, <2>7, <2>8, <2>9 DEF User
  <2>10. CASE Wrappers
    BY <2>3, <2>4, <2>5, <2>7, <2>8, <2>10 DEF Wrappers, Sender, Receiver
  <2> QED
    BY <2>9, <2>10
<1>2. ASSUME srv # "handler"
      PROVE  /\ UNCHANGED <<rcv["server"], ret["server"], taken["server"]>>
             /\ Untouched => Untouched'
  BY <1>0, <1>2, UserSteps DEF InUse, Reports, Untouched
<1>3. MethodFirst'
  BY <1>1, <1>2 DEF StreamInv, YieldInv, MethodFirst
<1>4. Asking'
  <2> SUFFICES ASSUME NEW s \in Sides
               PROVE  /\ rcv'[s] = "wait" => ret'[s] = NoResult
                      /\ eof'[s] => rop'[s] = "idle" /\ sop'[s] # "new"
    BY DEF Asking
  <2>0. sop'[s] = "new" => sop[s] = "new"
    BY UserSteps
  <2>1. CASE UNCHANGED <<rcv[s], ret[s], taken[s], rop[s], eof[s], got[s]>>
    BY <1>0, <2>0, <2>1 DEF Asking
  <2>2. CASE /\ InUse(s) /\ RecvBegin(s) /\ rop[s] = "idle" /\ ~eof[s]
             /\ sop[s] # "failed" /\ UNCHANGED <<eof[s], got[s]>>
    BY <1>0, <2>2 DEF RecvBegin, RecvReturns, TypeOK
  <2>3. CASE InUse(s) /\ RecvCancel(s) /\ UNCHANGED <<rop[s], eof[s], got[s]>>
    BY <1>0, <2>0, <2>3 DEF RecvCancel, RecvReturns, TypeOK, Asking
  <2>4. CASE Reports(s) /\ UNCHANGED <<rcv[s], ret[s], taken[s]>>
    <3>1. eof'[s] => sop'[s] # "new"
      BY <1>0, <2>0, <2>4 DEF Reports, Asking
    <3> QED
      BY <1>0, <2>4, <3>1 DEF Reports
  <2> QED
    BY <2>1, <2>2, <2>3, <2>4, UserSteps
<1>5. Yielding'
  <2>1. Follows("client")'
    BY <1>0, FollowsUser, PeerType DEF Yielding
  <2>2. Follows("server") => Follows("server")'
    BY <1>0, FollowsUser
  <2>3. srv' \in {"none", "method"} => Untouched'
    BY <1>0, <1>1, <1>2 DEF Yielding
  <2>4. srv' \in {"handler", "error", "closing"} => Follows("server")'
    BY <1>0, <1>1, <2>2 DEF Yielding
  <2>5. srv' = "done" => Follows("server")' \/ Untouched'
    BY <1>0, <1>1, <1>2, <2>2 DEF Yielding
  <2> QED
    BY <2>1, <2>3, <2>4, <2>5 DEF Yielding
<1> QED
  BY <1>3, <1>4, <1>5 DEF YieldInv

LEMMA YieldStutters ==
    ASSUME YieldInv, UNCHANGED <<vars, streamCallVars>>
    PROVE  YieldInv'
<1>1. UNCHANGED <<rd, rcv, ret, taken, fin, rst, link, sent, srv, rop, sop, eof, got>>
  BY DEF vars, streamVars, connVars, callVars, streamCallVars
<1>2. \A s \in Sides : Follows(s) => Follows(s)'
  BY <1>1 DEF Follows, Coming, AtEof, Decoded, Ended, Broken
<1> QED
  BY <1>1, <1>2, PeerType DEF YieldInv, MethodFirst, Yielding, Untouched, Asking

LEMMA YieldInit == StreamCallInit => YieldInv
<1> SUFFICES ASSUME StreamCallInit PROVE YieldInv
  OBVIOUS
<1>1. /\ \A s \in Sides : /\ got[s] = <<>> /\ eof[s] = FALSE /\ rop[s] = "idle"
                          /\ taken[s] = <<>> /\ ret[s] = NoResult /\ rcv[s] = "idle"
      /\ srv = "none" /\ "client" \in Sides /\ "server" \in Sides
  BY PeerType DEF StreamCallInit, WrapperInit, Init, ConnInit
<1>2. Follows("client")
  <2>1. Coming("client") = <<>> /\ ~AtEof("client") /\ <<>> \o <<>> = <<>>
    BY <1>1 DEF Coming, AtEof
  <2> QED
    BY <1>1, <2>1, StreamEmpty DEF Follows
<1>3. MethodFirst /\ Asking
  BY <1>1 DEF MethodFirst, Asking
<1>4. Yielding
  BY <1>1, <1>2 DEF Yielding, Untouched
<1> QED
  BY <1>3, <1>4 DEF YieldInv

\* What was yielded is a beginning of what the peer sent before its CLOSE, and
\* with the end of the stream all of it.
LEMMA YieldedAll ==
    ASSUME StreamInv, NEW s \in Sides, Follows(s)
    PROVE  LET all == Stream(sent[Peer(s)])
           IN  /\ Len(got[s]) <= Len(all) /\ got[s] = SubSeq(all, 1, Len(got[s]))
               /\ eof[s] /\ ~Broken => got[s] = all
<1> DEFINE all == Stream(sent[Peer(s)])
           had == Stream(taken[s])
           n == Len(taken[s])
<1>1. /\ taken[s] \in Seq(Messages) /\ sent[Peer(s)] \in Seq(Messages)
      /\ got[s] \in Seq(Payloads) /\ Coming(s) \in Seq({ret[s].val})
      /\ eof[s] => rop[s] = "idle"
  <2>1. Coming(s) \in Seq({ret[s].val})
    BY DEF Coming
  <2>2. TypeOK /\ StreamTypeOK /\ Asking
    BY DEF StreamInv, YieldInv
  <2> QED
    BY <2>1, <2>2, FlowTypes DEF Asking, StreamTypeOK
<1>2. n \in 0 .. Len(sent[Peer(s)]) /\ taken[s] = SubSeq(sent[Peer(s)], 1, n)
  <2>1. n \in Nat /\ Len(sent[Peer(s)]) \in Nat /\ Len(hand[s]) \in Nat
          /\ Len(wire[Peer(s)]) \in Nat
    BY FlowTypes, LenProperties DEF StreamInv
  <2>2. /\ n + Len(hand[s]) + Len(wire[Peer(s)]) <= Len(sent[Peer(s)])
        /\ \A i \in 1 .. n : taken[s][i] = sent[Peer(s)][i]
    BY DEF StreamInv, Inv, InOrder, Aligned
  <2>3. n \in 0 .. Len(sent[Peer(s)])
    <3>1. \A a, b, c, d \in Nat : a + b + c <= d => a \in 0 .. d
      OBVIOUS
    <3> HIDE DEF n
    <3> QED
      BY <2>1, <2>2, <3>1
  <2>4. /\ SubSeq(sent[Peer(s)], 1, n) \in Seq(Messages)
        /\ Len(SubSeq(sent[Peer(s)], 1, n)) = n
        /\ \A i \in 1 .. n : SubSeq(sent[Peer(s)], 1, n)[i] = sent[Peer(s)][i]
    BY <1>1, <2>3, BeginningType
  <2> QED
    BY <1>1, <2>2, <2>3, <2>4, SeqEqual
<1>3. /\ Len(had) <= Len(all) /\ \A k \in 1 .. Len(had) : had[k] = all[k]
      /\ Closes(taken[s]) # {} => had = all
  <2> DEFINE q == sent[Peer(s)]
             t == taken[s]
  <2>1. q \in Seq(Messages) /\ n \in 0 .. Len(q) /\ t = SubSeq(q, 1, n)
    BY <1>1, <1>2
  <2> HIDE DEF q, t, n
  <2>2. /\ Len(Stream(t)) <= Len(Stream(q))
        /\ \A k \in 1 .. Len(Stream(t)) : Stream(t)[k] = Stream(q)[k]
        /\ Closes(t) # {} => Stream(t) = Stream(q)
    BY <2>1, StreamPrefix
  <2> QED
    BY <2>2 DEF q, t
<1>4. had \in Seq(Segments) /\ all \in Seq(Segments)
  BY <1>1, StreamType
<1>5. got[s] \o Coming(s) = had
  BY DEF Follows
<1>6. eof[s] /\ ~Broken => got[s] = all
  <2> HAVE eof[s] /\ ~Broken
  <2>1. Coming(s) = <<>>
    BY <1>1 DEF Coming
  <2>2. got[s] = had
    BY <1>1, <1>5, <2>1, ConcatEmptySeq
  <2>3. Closes(taken[s]) # {} \/ taken[s] = sent[Peer(s)]
    BY DEF Follows, AtEof, Ended
  <2> QED
    BY <1>3, <2>2, <2>3
<1> HIDE DEF had, all
<1>7. Len(got[s]) <= Len(had) /\ \A k \in 1 .. Len(got[s]) : had[k] = got[s][k]
  <2>1. /\ got[s] \in Seq(Payloads \cup {ret[s].val})
        /\ Coming(s) \in Seq(Payloads \cup {ret[s].val})
    BY <1>1
  <2>2. /\ Len(had) = Len(got[s]) + Len(Coming(s))
        /\ \A k \in 1 .. Len(got[s]) + Len(Coming(s)) :
              had[k] = IF k <= Len(got[s]) THEN got[s][k] ELSE Coming(s)[k - Len(got[s])]
    BY <1>5, <2>1, ConcatProperties
  <2>3. Len(got[s]) \in Nat /\ Len(Coming(s)) \in Nat
    BY <1>1, LenProperties
  <2> DEFINE g == Len(got[s])
             c == Len(Coming(s))
  <2> HIDE DEF g, c
  <2>4. \A k \in 1 .. g : k \in 1 .. g + c /\ k <= g
    BY <2>3 DEF g, c
  <2>5. g <= g + c
    BY <2>3 DEF g, c
  <2> QED
    BY <2>2, <2>4, <2>5 DEF g, c
<1>8. Len(got[s]) <= Len(all) /\ got[s] = SubSeq(all, 1, Len(got[s]))
  <2>1. Len(got[s]) \in Nat /\ Len(had) \in Nat /\ Len(all) \in Nat
    BY <1>1, <1>4, LenProperties
  <2>2. Len(got[s]) \in 0 .. Len(all)
    BY <1>3, <1>7, <2>1
  <2>3. \A k \in 1 .. Len(got[s]) : k \in 1 .. Len(had)
    BY <1>7, <2>1
  <2>4. \A k \in 1 .. Len(got[s]) : all[k] = got[s][k]
    BY <1>3, <1>7, <2>3
  <2> DEFINE b == SubSeq(all, 1, Len(got[s]))
  <2>5. /\ b \in Seq(Segments) /\ Len(b) = Len(got[s])
        /\ \A k \in 1 .. Len(got[s]) : b[k] = all[k]
    BY <1>4, <2>2, BeginningType
  <2> HIDE DEF b
  <2>6. got[s] = b
    <3>1. got[s] \in Seq(Payloads \cup Segments) /\ b \in Seq(Payloads \cup Segments)
      BY <1>1, <2>5
    <3> QED
      BY <2>1, <2>4, <2>5, <3>1, SeqEqual
  <2> QED
    BY <2>1, <2>2, <2>6 DEF b
<1> QED
  BY <1>6, <1>8 DEF all

-----------------------------------------------------------------------------
(* The invariant.                                                          *)

LEMMA StreamInvStep == StreamInv /\ [StreamNext]_<<vars, streamCallVars>> => StreamInv'
<1> SUFFICES ASSUME StreamInv, [StreamNext]_<<vars, streamCallVars>> PROVE StreamInv'
  OBVIOUS
<1>1. [Next]_vars
  BY StreamSimulates
<1>2. TypeOK' /\ Inv' /\ PayloadsSent'
  BY <1>1, TypeStep, InvStep, PayloadsSentStep DEF StreamInv
<1>3. StreamTypeOK' /\ PayloadsReceived' /\ Replying'
  <2>1. CASE User \/ Wrappers
    BY <2>1, SendingSteps, ReceivingSteps DEF User, Wrappers, Sender, Receiver
  <2>2. CASE Below /\ UNCHANGED streamCallVars
    BY <1>1, <2>2, BelowSteps
  <2>3. CASE UNCHANGED <<vars, streamCallVars>>
    BY <2>3 DEF StreamInv, StreamTypeOK, PayloadsReceived, Replying, InUse, vars,
      streamVars, connVars, callVars, streamCallVars
  <2> QED BY <2>1, <2>2, <2>3 DEF StreamNext
<1>4. YieldInv'
  <2>1. CASE User \/ Wrappers
    BY <1>1, <2>1, YieldUser
  <2>2. CASE Below /\ UNCHANGED streamCallVars
    BY <1>1, <2>2, YieldBelow
  <2>3. CASE UNCHANGED <<vars, streamCallVars>>
    BY <2>3, YieldStutters DEF StreamInv
  <2> QED BY <2>1, <2>2, <2>3 DEF StreamNext
<1> QED BY <1>2, <1>3, <1>4 DEF StreamInv

LEMMA StreamInvInit == StreamCallInit => StreamInv
<1> SUFFICES ASSUME StreamCallInit PROVE StreamInv
  OBVIOUS
<1>1. TypeOK /\ Inv
  BY TypeInit, InvInit DEF StreamCallInit
<1>2. StreamTypeOK /\ PayloadsReceived /\ Replying
  BY PeerType DEF StreamCallInit, WrapperInit, Init, ConnInit, StreamTypeOK,
    PayloadsReceived, Replying, SendOps
<1>3. PayloadsSent
  <2>1. \A s \in Sides : sent[s] = <<>> /\ snd[s] = <<>>
    BY DEF StreamCallInit, Init, StreamInit, ConnInit
  <2> QED BY <2>1 DEF PayloadsSent
<1> QED BY <1>1, <1>2, <1>3, YieldInit DEF StreamInv

\* StreamInv is inductive.
THEOREM StreamInvariance == StreamSpec => []StreamInv
BY StreamInvInit, StreamInvStep, PTL DEF StreamSpec

\* No operation of a stream is under way without its call (the constructors and
\* two-step operations of stream.go), and Recv yields payloads only.
THEOREM StreamTypeCorrect == StreamSpec => []StreamTypeOK
<1>1. StreamInv => StreamTypeOK
  BY DEF StreamInv
<1> QED
  BY <1>1, StreamInvariance, PTL

\* A stream yields what its peer sent before closing, in order and nothing after
\* it, and has yielded everything, unless the pipe broke, once its Recv reports
\* io.EOF (Recv of clientStreamImpl and of serverStreamImpl).
THEOREM StreamYieldsAllHolds == StreamSpec => []StreamYieldsAll
<1>1. StreamInv => StreamYieldsAll
  <2> SUFFICES ASSUME StreamInv, NEW s \in Sides
               PROVE  LET all == Stream(sent[Peer(s)])
                      IN  /\ Len(got[s]) <= Len(all)
                          /\ got[s] = SubSeq(all, 1, Len(got[s]))
                          /\ eof[s] /\ ~Broken => got[s] = all
    BY DEF StreamYieldsAll
  <2>1. CASE Follows(s)
    BY <2>1, YieldedAll
  <2>2. CASE ~Follows(s)
    <3>1. s = "server" /\ Untouched
      BY <2>2 DEF StreamInv, YieldInv, Yielding, TypeOK, ServerStates, Sides
    <3>2. got[s] = <<>> /\ ~eof[s] /\ Len(<<>>) = 0
      BY <3>1 DEF Untouched
    <3>3. Len(Stream(sent[Peer(s)])) \in Nat
      BY FlowTypes, StreamType, LenProperties DEF StreamInv
    <3>4. SubSeq(Stream(sent[Peer(s)]), 1, 0) = <<>>
      BY SubSeqEmpty
    <3> QED
      BY <3>2, <3>3, <3>4
  <2> QED
    BY <2>1, <2>2
<1> QED
  BY <1>1, StreamInvariance, PTL

\* The stream objects use a call the way MuxCall lets any two users do, two-step
\* operations included: every step of theirs is one of MuxCall's or leaves the
\* call alone.
THEOREM StreamRefines == StreamSpec => StreamIsACall
<1>1. StreamCallInit => Init
  BY DEF StreamCallInit
<1> QED
  BY <1>1, StreamInvariance, StreamSimulates, PTL DEF StreamSpec, StreamIsACall, Spec

\* What is proved of every call holds of those under a stream: its errors and
\* ends (Inv), and that it is a duplex pipe.
THEOREM StreamInherits == StreamSpec => []Inv /\ PipeSpec
BY StreamRefines, Invariance, PipeRefined, PTL DEF StreamIsACall
=============================================================================
