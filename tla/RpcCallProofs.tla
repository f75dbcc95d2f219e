--------------------------- MODULE RpcCallProofs ----------------------------
(***************************************************************************)
(* Unary calls: where Rpc and RpcServer are agrees with the state of the   *)
(* call, and they use it the way MuxCall lets any two users do, so that    *)
(* the theorems about every call hold of theirs; and what Rpc returns      *)
(* tells what the handler did with the request, as long as nothing broke.  *)
(***************************************************************************)
EXTENDS RpcCall, MuxCallProofs

-----------------------------------------------------------------------------
(* What holds of every call holds of a unary one.                          *)

\* What the goroutines below Rpc and RpcServer and the environment do to what
\* side s has sent and is sending.
LEMMA BelowSends ==
    ASSUME Goroutine \/ Environment, NEW s \in Sides, TypeOK
    PROVE  /\ cl' = cl /\ hres' = hres
           /\ srv = "handler" => srv' = "handler"
           /\ \/ UNCHANGED <<sent[s], snd[s], sret[s]>>
              \/ /\ snd[s] # <<>> /\ snd'[s] = <<>>
                 /\ \/ sent'[s] = Append(sent[s], Head(snd[s])) /\ sret'[s] = "ok"
                    \/ sent'[s] = sent[s] /\ sret'[s] = "failed" /\ ~Writable(s)
<1>1. CASE Accept \/ Dispatch \/ Reject \/ ErrorSent \/ ServerCloses
  BY <1>1 DEF Accept, Dispatch, Reject, MethodReceived, ErrorSent, ServerCloses,
    CloseHalf, connVars, streamVars
<1>2. ASSUME NEW t \in Sides, ReaderStep(t)
      PROVE  UNCHANGED <<sent, snd, sret, callVars>>
  BY <1>2 DEF ReaderStep, Reader, Decode, ReaderStored, DecodeEof, DecodeFail,
    streamVars, callVars
<1>3. ASSUME NEW t \in Sides, RecvStep(t)
      PROVE  UNCHANGED <<sent, snd, sret, callVars>>
  BY <1>3 DEF RecvStep, RecvProceeds, RecvTake, RecvTakeFailure, RecvStored,
    RecvClosed, RecvReturns, streamVars, callVars
<1>4. ASSUME NEW t \in Sides, SendStep(t)
      PROVE  /\ UNCHANGED callVars
             /\ \/ UNCHANGED <<sent[s], snd[s], sret[s]>>
                \/ /\ snd[s] # <<>> /\ snd'[s] = <<>>
                   /\ \/ sent'[s] = Append(sent[s], Head(snd[s])) /\ sret'[s] = "ok"
                      \/ sent'[s] = sent[s] /\ sret'[s] = "failed" /\ ~Writable(s)
  BY <1>4 DEF SendStep, SendProceeds, Encode, EncodeFails, Write, TypeOK,
    streamVars, callVars
<1>5. CASE Environment
  BY <1>5 DEF Environment, Drop, LinkDown, Expire, CloseTimeout, connVars, callVars
<1> QED
  BY <1>1, <1>2, <1>3, <1>4, <1>5 DEF Goroutine, callVars

\* A step of Rpc or RpcServer is a step of their call or leaves it alone.
LEMMA RpcSimulates == RpcInv /\ [RpcNext]_<<vars, rpcVars>> => [Next]_vars
<1> SUFFICES ASSUME RpcInv, [RpcNext]_<<vars, rpcVars>> PROVE [Next]_vars
  OBVIOUS
<1>1. CASE RpcInvokes \/ RpcInvoked \/ RpcInvokeFails \/ RpcCloses
  BY <1>1 DEF RpcInvokes, RpcInvoked, RpcInvokeFails, RpcCloses, Next, Caller
<1>2. CASE NilRequest \/ RpcMarshalFails \/ RpcSendFails \/ RpcReceived
  BY <1>2 DEF NilRequest, RpcMarshalFails, RpcSendFails, RpcReceived
<1>3. CASE RpcSends
  <2>1. cl = "open" /\ Len(sent["client"]) <= 1 /\ Len(sent["client"]) \in Nat
    BY <1>3, PeerType DEF RpcSends, RpcInv, RpcTypeOK, Invoking, Unsent, TypeOK
  <2>2. Len(sent["client"]) < MaxSent["client"]
    BY <2>1, RoomAssumption, ConstantsAssumption, PeerType
  <2>3. Send("client")
    BY <1>3, <2>1, <2>2 DEF RpcSends, Send, InUse
  <2> QED BY <2>3, PeerType DEF Next
<1>4. CASE RpcReceives \/ RpcCancelled
  <2>1. InUse("client")
    BY <1>4 DEF RpcInv, RpcTypeOK, Invoking, InUse, RpcReceives, RpcCancelled, Cancel
  <2> QED BY <1>4, <2>1, PeerType DEF RpcReceives, RpcCancelled, Recv, Next
<1>5. CASE ServerReceives \/ ServerReceived
  BY <1>5, PeerType DEF ServerReceives, ServerReceived, Next
<1>6. CASE RequestFails \/ CallFails \/ CallPanics \/ ServerReplied \/ ReplyFails
  BY <1>6 DEF RequestFails, CallFails, CallPanics, ServerReplied, ReplyFails, Next,
    Server
<1>7. CASE ServerReplies
  <2>1. srv = "handler" /\ sent["server"] = <<>>
    BY <1>7 DEF ServerReplies, RpcInv, RpcTypeOK, Invoking, Unsent
  <2>2. Len(sent["server"]) < MaxSent["server"]
    BY <2>1, RoomAssumption, ConstantsAssumption, PeerType
  <2>3. Send("server")
    BY <1>7, <2>1, <2>2 DEF ServerReplies, Send, InUse
  <2> QED BY <2>3, PeerType DEF Next
<1>8. CASE Goroutine \/ Environment
  BY <1>8 DEF Goroutine, Environment, Next, Server
<1>9. CASE UNCHANGED <<vars, rpcVars>>
  BY <1>9
<1> QED
  BY <1>1, <1>2, <1>3, <1>4, <1>5, <1>6, <1>7, <1>8, <1>9 DEF RpcNext, Rpc, RpcServer

\* The value Rpc returns.
LEMMA OutcomeType ==
    ASSUME NEW r \in Results
    PROVE  Outcome(r).val \in Segments
<1>1. \A k, v : Result(k, v).val = v
  BY DEF Result
<1>2. r.val \in Segments
  BY DEF Results
<1>3. CASE r.kind = "message" /\ r.val \notin Garbled
  <2>1. Outcome(r) = Result("reply", r.val)
    BY <1>3, Zenon DEF Outcome
  <2> QED BY <1>1, <1>2, <2>1
<1>4. CASE r.kind = "message" /\ r.val \in Garbled
  <2>1. Outcome(r) = Result("garbled", r.val)
    BY <1>4, Zenon DEF Outcome
  <2> QED BY <1>1, <1>2, <2>1
<1>5. CASE r.kind # "message"
  <2>1. Outcome(r) = r
    BY <1>5, Zenon DEF Outcome
  <2> QED BY <1>2, <2>1
<1> QED BY <1>3, <1>4, <1>5

LEMMA EmptyResultType ==
    /\ NoResult.val \in Segments
    /\ \A k : Result(k, <<>>).val \in Segments
BY TextsType DEF NoResult, Result, NoErr

LEMMA RpcInvInit == RpcInit => RpcInv
BY TypeInit, PeerType, EmptyResultType DEF RpcInit, RpcInv, RpcTypeOK, Invoking,
  Unsent, Init, StreamInit, ConnInit, RpcStates, HandlerStates

\* A message is handed to Encode, or Send fails at once.
LEMMA BeginSendSays ==
    ASSUME TypeOK, NEW s \in Sides, NEW m, BeginSend(s, m)
    PROVE  /\ snd[s] = <<>> /\ (snd'[s] = <<>> \/ snd'[s] = <<m>>)
           /\ snd'[Peer(s)] = snd[Peer(s)]
<1>1. snd \in [Sides -> Seq(Messages)]
  BY DEF TypeOK
<1>2. snd' = snd \/ snd' = [snd EXCEPT ![s] = <<m>>]
  BY DEF BeginSend
<1>3. snd[s] = <<>>
  BY DEF BeginSend
<1> QED BY <1>1, <1>2, <1>3, PeerType

\* A step of Rpc keeps the invariant.
LEMMA RpcSteps == ASSUME RpcInv, TypeOK', Rpc \/ RpcCancelled PROVE RpcInv'
<1>1. CASE NilRequest \/ RpcInvokes \/ RpcInvoked \/ RpcInvokeFails
  <2>1. CASE NilRequest
    BY <2>1, EmptyResultType DEF RpcInv, RpcTypeOK, Invoking, Unsent, NilRequest,
      Returns, streamVars, connVars, callVars, vars, RpcStates, HandlerStates
  <2>2. CASE RpcInvokes
    BY <2>2, PeerType DEF RpcInv, RpcTypeOK, Invoking, Unsent, TypeOK, RpcInvokes,
      Goes, Invoke, streamVars, RpcStates, HandlerStates
  <2>3. CASE RpcInvoked
    BY <2>3 DEF RpcInv, RpcTypeOK, Invoking, Unsent, RpcInvoked, Goes, InvokeSent,
      streamVars, connVars, RpcStates, HandlerStates
  <2>4. CASE RpcInvokeFails
    BY <2>4, EmptyResultType DEF RpcInv, RpcTypeOK, Invoking, Unsent,
      RpcInvokeFails, Returns, InvokeFails, InvokeSendFails, CloseHalf, streamVars,
      connVars, RpcStates, HandlerStates
  <2> QED BY <1>1, <2>1, <2>2, <2>3, <2>4
<1>2. CASE RpcMarshalFails \/ RpcSendFails \/ RpcReceived
  <2>1. /\ rpc \in {"marshal", "send", "recv"} /\ rpc' = "close"
        /\ UNCHANGED <<vars, hdl>>
    BY <1>2 DEF RpcMarshalFails, RpcSendFails, RpcReceived, Returns
  <2>2. ret["client"] \in Results
    BY PeerType DEF RpcInv, TypeOK
  <2>3. rres'.val \in Segments
    BY <1>2, <2>2, OutcomeType, EmptyResultType
      DEF RpcMarshalFails, RpcSendFails, RpcReceived, Returns
  <2> QED
    BY <2>1, <2>3 DEF RpcInv, RpcTypeOK, Invoking, Unsent, vars, streamVars, connVars,
      callVars, RpcStates
<1>5. CASE RpcCloses
  BY <1>5 DEF RpcInv, RpcTypeOK, Invoking, Unsent, RpcCloses, Goes, CallerCloses,
    CloseHalf, streamVars, connVars, RpcStates
<1>3. CASE RpcSends
  <2>1. /\ rpc = "marshal" /\ rpc' = "send" /\ UNCHANGED <<rres, hdl, sent, callVars>>
    BY <1>3 DEF RpcSends, Goes, streamVars
  <2>2. snd'["server"] = snd["server"]
    BY <1>3, BeginSendSays, PeerType DEF RpcSends, RpcInv
  <2> QED
    BY <2>1, <2>2 DEF RpcInv, RpcTypeOK, Invoking, Unsent, callVars, RpcStates
<1>4. CASE RpcReceives \/ RpcCancelled
  BY <1>4, PeerType DEF RpcInv, RpcTypeOK, Invoking, Unsent, TypeOK, RpcReceives,
    RpcCancelled, Cancel, RecvBegin, RecvCancel, RecvReturns, Goes, streamVars,
    callVars, rpcVars, RpcStates, HandlerStates
<1> QED BY <1>1, <1>2, <1>3, <1>4, <1>5 DEF Rpc

\* A step of RpcServer keeps it.
LEMMA RpcServerSteps == ASSUME RpcInv, TypeOK', RpcServer PROVE RpcInv'
<1>1. CASE ServerReceives \/ ServerReceived
  BY <1>1, PeerType DEF RpcInv, RpcTypeOK, Invoking, Unsent, TypeOK,
    ServerReceives, ServerReceived, Recv, RecvBegin, RecvReturns, InUse,
    HandlerGoes, streamVars, connVars, callVars, vars, RpcStates, HandlerStates
<1>2. CASE RequestFails \/ CallFails \/ ReplyFails
  <2>1. hdl' = "done" /\ UNCHANGED <<rpc, rres>>
    BY <1>2 DEF RequestFails, CallFails, ReplyFails, HandlerGoes
  <2>2. HandlerFails
    BY <1>2 DEF RequestFails, CallFails, ReplyFails
  <2>3. cl' = cl /\ sent' = sent /\ snd'["client"] = snd["client"]
    BY <2>2, BeginSendSays, PeerType DEF HandlerFails, RpcInv, streamVars
  <2> QED
    BY <2>1, <2>3 DEF RpcInv, RpcTypeOK, Invoking, Unsent, HandlerStates
<1>3. CASE CallPanics \/ ServerReplied
  <2>1. /\ hdl' = "done" /\ UNCHANGED <<rpc, rres, cl, sent, snd>>
    BY <1>3 DEF CallPanics, ServerReplied, HandlerReturns, HandlerGoes, streamVars,
      connVars
  <2> QED
    BY <2>1 DEF RpcInv, RpcTypeOK, Invoking, Unsent, HandlerStates
<1>4. CASE ServerReplies
  <2>1. /\ hdl = "call" /\ hdl' = "reply" /\ UNCHANGED <<rpc, rres, sent, callVars>>
    BY <1>4 DEF ServerReplies, HandlerGoes, streamVars
  <2>2. snd'["client"] = snd["client"]
    BY <1>4, BeginSendSays, PeerType DEF ServerReplies, RpcInv
  <2> QED
    BY <2>1, <2>2 DEF RpcInv, RpcTypeOK, Invoking, Unsent, callVars, HandlerStates
<1> QED BY <1>1, <1>2, <1>3, <1>4 DEF RpcServer

\* So does one of the goroutines below and of the environment.
LEMMA BelowSteps ==
    ASSUME RpcInv, TypeOK', Goroutine \/ Environment, UNCHANGED rpcVars PROVE RpcInv'
<1>1. RpcTypeOK' /\ Invoking'
  BY BelowSends, PeerType DEF RpcInv, RpcTypeOK, Invoking, rpcVars
<1>2. \A s \in Sides : sent[s] = <<>> => Len(Append(sent[s], Head(snd[s]))) <= 1
  OBVIOUS
<1>3. Unsent'
  BY <1>2, BelowSends, PeerType DEF RpcInv, RpcTypeOK, Invoking, Unsent, rpcVars
<1> QED BY <1>1, <1>3 DEF RpcInv

LEMMA RpcInvStep == RpcInv /\ [RpcNext]_<<vars, rpcVars>> => RpcInv'
<1> SUFFICES ASSUME RpcInv, [RpcNext]_<<vars, rpcVars>> PROVE RpcInv'
  OBVIOUS
<1>1. TypeOK'
  BY RpcSimulates, TypeStep DEF RpcInv
<1>2. CASE Rpc \/ RpcCancelled
  BY <1>1, <1>2, RpcSteps
<1>3. CASE RpcServer
  BY <1>1, <1>3, RpcServerSteps
<1>4. CASE (Goroutine \/ Environment) /\ UNCHANGED rpcVars
  BY <1>1, <1>4, BelowSteps
<1>5. CASE UNCHANGED <<vars, rpcVars>>
  BY <1>1, <1>5 DEF RpcInv, RpcTypeOK, Invoking, Unsent, vars, streamVars,
    connVars, callVars, rpcVars
<1> QED
  BY <1>2, <1>3, <1>4, <1>5 DEF RpcNext

\* RpcInv is inductive.
THEOREM RpcInvariance == RpcSpec => []RpcInv
BY RpcInvInit, RpcInvStep, PTL DEF RpcSpec

\* Where Rpc and RpcServer are tells what became of the stream and of the
\* goroutine of AcceptMux.
THEOREM RpcTypeCorrect == RpcSpec => []RpcTypeOK
<1>1. RpcInv => RpcTypeOK
  BY DEF RpcInv
<1> QED
  BY <1>1, RpcInvariance, PTL

\* Rpc and RpcServer use a call the way MuxCall lets any two users do: every
\* step of theirs is one of MuxCall's or leaves the call alone.
THEOREM RpcRefines == RpcSpec => RpcIsACall
<1>1. RpcInit => Init
  BY DEF RpcInit
<1> QED
  BY <1>1, RpcInvariance, RpcSimulates, PTL DEF RpcSpec, RpcIsACall, Spec

\* What is proved of every call holds of those of Rpc: its errors and ends
\* (Inv), and that it is a duplex pipe.
THEOREM RpcInherits == RpcSpec => []Inv /\ PipeSpec
BY RpcRefines, Invariance, PipeRefined, PTL DEF RpcIsACall

-----------------------------------------------------------------------------
(* OutcomeInv of module RpcCall is inductive, given what holds of every    *)
(* call.                                                                   *)

\* Who else than RpcServer changes what RpcServer has sent.
LEMMA RpcLeavesReplies ==
    ASSUME RpcInv, Rpc \/ RpcCancelled
    PROVE  UNCHANGED <<hdl, hres, srv, sent["server"], snd["server"], sret["server"]>>
<1>1. CASE RpcSends
  BY <1>1, PeerType DEF RpcSends, BeginSend, Goes, RpcInv, TypeOK, streamVars,
    callVars
<1>2. CASE RpcInvokes
  BY <1>2, PeerType DEF RpcInvokes, Invoke, Goes, RpcInv, TypeOK, streamVars
<1>3. CASE NilRequest \/ RpcInvoked \/ RpcInvokeFails \/ RpcMarshalFails
             \/ RpcSendFails \/ RpcReceived \/ RpcCloses
  BY <1>3 DEF NilRequest, RpcInvoked, RpcInvokeFails, RpcMarshalFails, RpcSendFails,
    RpcReceived, RpcCloses, InvokeSent, InvokeFails, InvokeSendFails, CallerCloses,
    CloseHalf, Returns, Goes, vars, streamVars, connVars, callVars
<1>4. CASE RpcReceives \/ RpcCancelled
  BY <1>4 DEF RpcReceives, RpcCancelled, RecvBegin, Cancel, RecvCancel, Goes,
    rpcVars, streamVars, callVars
<1> QED BY <1>1, <1>2, <1>3, <1>4 DEF Rpc

\* Encode writes the one message that was held.
LEMMA OneWritten ==
    ASSUME NEW q \in Seq(Messages), NEW t, q # <<>>, OneOrNone(q, t)
    PROVE  OneOrNone(Append(<<>>, Head(q)), t) /\ Append(<<>>, Head(q)) # <<>>
<1>1. Head(q) = q[1] /\ 1 \in 1 .. Len(q)
  OBVIOUS
<1>2. /\ Len(Append(<<>>, Head(q))) = 1
      /\ Append(<<>>, Head(q))[1] = Head(q)
  OBVIOUS
<1> QED BY <1>1, <1>2 DEF OneOrNone

\* Messages of one type, of which there is one or none.
LEMMA OneOfAType ==
    /\ \A t : OneOrNone(<<>>, t)
    /\ \A d : OneOrNone(<<NewDataMessage(d)>>, "DATA")
    /\ \A e : OneOrNone(<<NewErrorMessage(e)>>, "ERROR")
<1>1. Len(<<>>) = 0
  OBVIOUS
<1>2. \A m : Len(<<m>>) = 1 /\ <<m>>[1] = m
  OBVIOUS
<1> QED BY <1>1, <1>2 DEF OneOrNone, NewDataMessage, NewErrorMessage

\* What RpcServer has sent and is sending tells where it is.
LEMMA RepliesStep ==
    ASSUME RpcInv, Replies, [RpcNext]_<<vars, rpcVars>>
    PROVE  Replies'
<1>1. CASE UNCHANGED <<hdl, hres, sent["server"], snd["server"], sret["server"]>>
  BY <1>1 DEF Replies
<1>2. CASE Rpc \/ RpcCancelled
  BY <1>1, <1>2, RpcLeavesReplies
<1>3. CASE (Goroutine \/ Environment) /\ UNCHANGED rpcVars
  <2> DEFINE out == sent["server"]
             held == snd["server"]
  <2>1. hdl' = hdl /\ hres' = hres
    BY <1>3, BelowSends, PeerType DEF RpcInv, rpcVars
  <2>2. CASE /\ held # <<>> /\ held' = <<>>
             /\ out' = Append(out, Head(held)) /\ sret'["server"] = "ok"
    <3>1. out = <<>> /\ held \in Seq(Messages)
      BY <2>2, PeerType DEF Replies, RpcInv, TypeOK
    <3>2. \A t : OneOrNone(held, t) => OneOrNone(out', t)
      BY <2>2, <3>1, OneWritten
    <3>3. out' # <<>>
      BY <2>2, <3>1
    <3> QED BY <2>1, <2>2, <3>1, <3>2, <3>3, OneOfAType DEF Replies
  <2>3. CASE held # <<>> /\ held' = <<>> /\ out' = out /\ sret'["server"] = "failed"
    BY <2>1, <2>3, OneOfAType DEF Replies
  <2> QED BY <1>1, <1>3, <2>1, <2>2, <2>3, BelowSends, PeerType DEF RpcInv
<1>4. CASE ServerReceives \/ ServerReceived
  BY <1>4 DEF ServerReceives, ServerReceived, Recv, RecvBegin, HandlerGoes, Replies,
    RpcInv, RpcTypeOK, vars, streamVars, connVars, callVars
<1>5. CASE RequestFails \/ CallFails \/ ReplyFails
  <2>1. /\ HandlerFails /\ hdl' = "done" /\ sent["server"] = <<>>
        /\ snd["server"] = <<>>
    BY <1>5 DEF RequestFails, CallFails, ReplyFails, HandlerGoes, HandlerFails,
      HandlerIdle, Replies
  <2>2. sent'["server"] = <<>> /\ hres' = "error"
    BY <2>1 DEF HandlerFails, streamVars
  <2>3. \/ snd'["server"] = <<>>
        \/ \E e \in ErrorTexts : snd'["server"] = <<NewErrorMessage(e)>>
    BY <2>1, BeginSendSays, PeerType DEF HandlerFails, RpcInv
  <2>4. OneOrNone(snd'["server"], "ERROR") /\ OneOrNone(sent'["server"], "ERROR")
    BY <2>2, <2>3, OneOfAType
  <2> QED BY <2>1, <2>2, <2>4 DEF Replies
<1>6. CASE CallPanics \/ ServerReplied
  BY <1>6 DEF CallPanics, ServerReplied, HandlerReturns, HandlerIdle, HandlerGoes,
    Replies, streamVars, connVars
<1>7. CASE ServerReplies
  <2>1. /\ hdl' = "reply" /\ hres' = hres /\ sent'["server"] = <<>> /\ hdl = "call"
        /\ snd["server"] = <<>> /\ sret["server"] = "none"
    BY <1>7 DEF ServerReplies, HandlerGoes, Replies, streamVars, callVars
  <2>2. \/ snd'["server"] = <<>> /\ sret'["server"] = "err"
        \/ /\ \E d \in Payloads : snd'["server"] = <<NewDataMessage(d)>>
           /\ sret'["server"] = "none"
    <3>1. /\ snd \in [Sides -> Seq(Messages)]
          /\ sret \in [Sides -> {"none", "ok", "err", "failed"}]
      BY DEF RpcInv, TypeOK
    <3>2. PICK d \in Payloads : BeginSend("server", NewDataMessage(d))
      BY <1>7 DEF ServerReplies
    <3> QED BY <2>1, <3>1, <3>2, PeerType DEF BeginSend
  <2>3. OneOrNone(snd'["server"], "DATA") /\ OneOrNone(sent'["server"], "DATA")
    BY <2>1, <2>2, OneOfAType
  <2> QED BY <2>1, <2>2, <2>3 DEF Replies
<1>8. CASE UNCHANGED <<vars, rpcVars>>
  BY <1>1, <1>8 DEF vars, rpcVars, streamVars, connVars, callVars
<1> QED
  BY <1>2, <1>3, <1>4, <1>5, <1>6, <1>7, <1>8 DEF RpcNext, RpcServer

\* What the goroutines below Rpc and RpcServer and the environment do to the
\* goroutine of s in Recv.
LEMMA BelowReads ==
    ASSUME Goroutine \/ Environment, NEW s \in Sides, TypeOK
    PROVE  /\ cl' = cl /\ hres' = hres
           /\ \/ UNCHANGED <<srv, rcv[s], ret[s], taken[s]>>
              \/ UNCHANGED srv /\ RecvProceeds(s, Want(s))
              \/ /\ Accept \/ Dispatch \/ Reject \/ ErrorSent \/ ServerCloses
                 /\ UNCHANGED <<ret[s], taken[s]>>
                 /\ UNCHANGED rcv[s] \/ (s = "server" /\ Accept)
<1>1. CASE Accept
  BY <1>1, PeerType DEF Accept, streamVars, TypeOK
<1>2. CASE Dispatch \/ Reject \/ ErrorSent \/ ServerCloses
  BY <1>2 DEF Dispatch, Reject, MethodReceived, ErrorSent, ServerCloses,
    CloseHalf, connVars, streamVars
<1>3. ASSUME NEW t \in Sides, ReaderStep(t) \/ SendStep(t)
      PROVE  UNCHANGED <<rcv, ret, taken, callVars>>
  BY <1>3 DEF ReaderStep, Reader, Decode, ReaderStored, DecodeEof, DecodeFail,
    SendStep, SendProceeds, Encode, EncodeFails, streamVars, callVars
<1>4. ASSUME NEW t \in Sides, RecvStep(t)
      PROVE  /\ UNCHANGED callVars
             /\ UNCHANGED <<rcv[s], ret[s], taken[s]>> \/ RecvProceeds(s, Want(s))
  BY <1>4 DEF RecvStep, RecvProceeds, RecvTake, RecvTakeFailure, RecvStored,
    RecvClosed, RecvReturns, TypeOK, callVars
<1>5. CASE Environment
  BY <1>5 DEF Environment, Drop, LinkDown, Expire, CloseTimeout, connVars, callVars
<1> QED
  BY <1>1, <1>2, <1>3, <1>4, <1>5 DEF Goroutine, callVars

\* Rpc leaves what RpcServer receives alone, and never opens a call anew.
LEMMA RpcLeavesServed ==
    ASSUME RpcInv, Rpc \/ RpcCancelled
    PROVE  /\ UNCHANGED <<rcv["server"], ret["server"], taken["server"]>>
           /\ cl \in {"closed", "failed"} => cl' \in {"closed", "failed"}
<1>1. CASE RpcSends \/ RpcInvokes
  BY <1>1, PeerType DEF RpcSends, BeginSend, RpcInvokes, Invoke, Goes, RpcInv, TypeOK,
    streamVars, callVars
<1>2. CASE NilRequest \/ RpcInvoked \/ RpcInvokeFails \/ RpcMarshalFails
             \/ RpcSendFails \/ RpcReceived \/ RpcCloses
  BY <1>2 DEF NilRequest, RpcInvoked, RpcInvokeFails, RpcMarshalFails, RpcSendFails,
    RpcReceived, RpcCloses, InvokeSent, InvokeFails, InvokeSendFails, CallerCloses,
    CloseHalf, Returns, Goes, vars, streamVars, connVars, callVars
<1>3. CASE RpcReceives \/ RpcCancelled
  BY <1>3, PeerType DEF RpcReceives, RpcCancelled, RecvBegin, Cancel, RecvCancel,
    RecvReturns, Goes, RpcInv, TypeOK, rpcVars, streamVars, callVars
<1> QED BY <1>1, <1>2, <1>3 DEF Rpc

\* Recv yields the data of a message of the type it wants, and no other.
LEMMA InterpretMessage ==
    ASSUME NEW m, NEW s, Interpret(m, Want(s)).kind = "message"
    PROVE  m.type = Want(s) /\ Interpret(m, Want(s)).val = m.data
<1>0. (IsClose(m) => m.type # Want(s)) /\ (IsError(m) => m.type # Want(s) /\ ~IsClose(m))
  BY DEF IsClose, IsError, Want
<1>1. IsClose(m) => Interpret(m, Want(s)) = Result("eof", <<>>)
  BY <1>0, Zenon DEF Interpret
<1>2. IsError(m) => Interpret(m, Want(s)) = Result("error", m.data)
  BY InterpretError
<1>3. m.type = Want(s) => Interpret(m, Want(s)) = Result("message", m.data)
  BY <1>0, Zenon DEF Interpret
<1>4. ~IsClose(m) /\ ~IsError(m) /\ m.type # Want(s)
        => Interpret(m, Want(s)) = Result("protocol", <<>>)
  BY Zenon DEF Interpret
<1>5. /\ Result("eof", <<>>).kind # "message" /\ Result("error", m.data).kind # "message"
      /\ Result("message", m.data).val = m.data
      /\ Result("protocol", <<>>).kind # "message"
  BY DEF Result
<1> QED BY <1>1, <1>2, <1>3, <1>4, <1>5

\* Where RpcServer is tells what it has taken: INVOKE and the request.
LEMMA ServedStep ==
    ASSUME RpcInv, Inv, EndInv, Replies, Sends, Served,
           [RpcNext]_<<vars, rpcVars>>, Replies'
    PROVE  Served'
<1> DEFINE in == taken["server"]
           told == ret["server"]
<1>a. TypeOK /\ [Next]_vars
  BY RpcSimulates DEF RpcInv
<1>b. Broken => Broken'
  BY <1>a, EndsGrow, PeerType
<1>c. ~Broken => err["server"] = NoErr /\ rd["server"] # "store" /\ rcv["server"] # "store"
  BY DEF Sends, EndInv, ServerReads
<1>d. in \in Seq(Messages) /\ Len(in) \in Nat /\ rcv["server"] \in RecvStates
  BY <1>a, PeerType DEF TypeOK
<1>1. CASE Rpc \/ RpcCancelled
  BY <1>b, <1>1, RpcLeavesReplies, RpcLeavesServed DEF Served, Request
<1>2. CASE (Goroutine \/ Environment) /\ UNCHANGED rpcVars
  <2>1. cl' = cl /\ hres' = hres /\ hdl' = hdl
    BY <1>a, <1>2, BelowReads, PeerType DEF rpcVars
  <2>2. CASE UNCHANGED <<srv, rcv["server"], ret["server"], taken["server"]>>
    BY <1>b, <2>1, <2>2 DEF Served, Request
  <2>3. CASE Accept
    BY <1>b, <1>a, <2>1, <2>3, PeerType DEF Accept, Served, Request, NoResult,
      Result, TypeOK, RpcInv, RpcTypeOK
  <2>4. CASE /\ Dispatch \/ Reject \/ ErrorSent \/ ServerCloses
             /\ UNCHANGED <<rcv["server"], ret["server"], taken["server"]>>
    BY <1>b, <2>1, <2>4 DEF Dispatch, Reject, MethodReceived, ErrorSent, ServerCloses,
      Served, Request
  <2>5. CASE UNCHANGED srv /\ RecvTake("server", Want("server"))
    <3> DEFINE m == Head(hand["server"])
    <3>1. /\ rcv["server"] = "wait" /\ rcv'["server"] # "wait"
          /\ in' = Append(in, m) /\ told' = Interpret(m, Want("server"))
      BY <1>a, <2>5, PeerType DEF RecvTake, TypeOK
    <3>2. m \in Messages
      <4>1. hand["server"] \in Seq(Messages) /\ Len(hand["server"]) = 1
        BY <1>a, <2>5, PeerType DEF RecvTake, TypeOK
      <4> QED BY <4>1
    <3>3. told'.kind = "message" => told'.val = m.data
      BY <3>1, InterpretMessage
    <3>4. CASE srv = "method" /\ in = <<>>
      <4>1. in' # <<>> /\ Len(in') <= 1 /\ hdl = "start" /\ hres = "none"
        BY <3>1, <3>2, <3>4 DEF Served, RpcInv, RpcTypeOK
      <4> HIDE DEF in
      <4> QED BY <2>1, <2>5, <3>1, <4>1 DEF Served, Request, in
    <3>5. CASE hdl = "recv" /\ Len(in) <= 1
      <4>1. srv = "handler" /\ in # <<>> /\ hres = "none"
        BY <3>5 DEF Served, RpcInv, RpcTypeOK, Replies
      <4>2. Len(in') >= 2 /\ Len(in') <= 2 /\ in'[2] = m /\ in' # <<>>
        BY <1>d, <3>1, <3>2, <3>5, <4>1
      <4> HIDE DEF in
      <4> QED BY <2>1, <2>5, <3>1, <3>3, <3>5, <4>1, <4>2 DEF Served, Request, in
    <3> QED BY <3>1, <3>4, <3>5 DEF Served
  <2>6. CASE UNCHANGED srv /\ RecvTakeFailure("server")
    <3>1. /\ rcv["server"] = "wait" /\ rcv'["server"] = "store" /\ taken' = taken
          /\ told'.kind = "error"
      BY <1>a, <2>6, PeerType DEF RecvTakeFailure, Result, TypeOK
    <3>2. srv # "none"
      BY <3>1 DEF Served, RpcInv, RpcTypeOK
    <3> QED BY <1>b, <2>1, <2>6, <3>1, <3>2 DEF Served, Request
  <2>7. CASE UNCHANGED srv /\ RecvStored("server")
    <3>1. /\ rcv["server"] = "store" /\ rcv'["server"] = "idle" /\ taken' = taken
          /\ ret' = ret
      BY <1>a, <2>7, PeerType DEF RecvStored, TypeOK
    <3>2. told.kind = "error" /\ Broken
      BY <1>c, <3>1, PeerType DEF Inv, ErrorKept
    <3> QED BY <1>b, <2>1, <2>7, <3>1, <3>2 DEF Served, Request
  <2>8. CASE UNCHANGED srv /\ RecvClosed("server")
    <3>1. /\ rcv["server"] = "wait" /\ rcv'["server"] = "idle" /\ taken' = taken
          /\ told'.kind = "eof"
      BY <1>a, <2>8, PeerType DEF RecvClosed, RecvReturns, Result, TypeOK
    <3>2. srv # "none"
      BY <3>1 DEF Served, RpcInv, RpcTypeOK
    <3>3. Ended("server")
      BY <2>8, PeerType DEF RecvClosed, Inv, ReaderGone
    <3>4. Broken \/ cl \in {"closed", "failed"}
      BY <3>3, PeerType DEF Ended, EndInv, EndsInOrder
    <3> QED BY <1>b, <2>1, <2>8, <3>1, <3>2, <3>4 DEF Served, Request
  <2> QED
    BY <1>a, <1>2, <2>2, <2>3, <2>4, <2>5, <2>6, <2>7, <2>8, BelowReads, PeerType
      DEF RecvProceeds
<1>3. CASE ServerReceives
  <2>1. /\ hdl = "start" /\ hdl' = "recv" /\ srv = "handler" /\ taken' = taken
        /\ cl' = cl /\ srv' = srv /\ hres' = hres
    BY <1>3 DEF ServerReceives, Recv, RecvBegin, InUse, HandlerGoes, callVars
  <2>2. \/ rcv'["server"] = "wait" /\ told' = NoResult
        \/ rcv'["server"] = "idle" /\ told'.kind = "error" /\ Broken
    BY <1>a, <1>c, <1>3, PeerType DEF ServerReceives, Recv, RecvBegin, RecvReturns,
      ErrReads, Result, TypeOK
  <2>3. hres = "none"
    BY <2>1 DEF RpcInv, RpcTypeOK
  <2> QED BY <1>b, <2>1, <2>2, <2>3 DEF Served, Request, NoResult, Result
<1>4. CASE RpcServer /\ ~ServerReceives
  <2>1. UNCHANGED <<rcv["server"], ret["server"], taken["server"], cl>>
    BY <1>4 DEF RpcServer, ServerReceived, RequestFails, CallFails, ReplyFails,
      CallPanics, ServerReplied, ServerReplies, HandlerFails, HandlerReturns,
      vars, streamVars, connVars, callVars
  <2>2. CASE ServerReceived
    <3>1. /\ hdl = "recv" /\ hdl' = "call" /\ srv' = srv /\ hres' = hres
          /\ rcv["server"] = "idle" /\ told.kind = "message" /\ told.val \notin Garbled
      BY <2>2 DEF ServerReceived, Decoded, HandlerGoes, vars, callVars
    <3> QED BY <1>b, <2>1, <3>1 DEF Served, Request
  <2>3. CASE RequestFails \/ CallFails \/ ReplyFails
    <3>1. /\ hdl \in {"recv", "call", "reply"} /\ hdl' = "done" /\ srv' = "error"
          /\ hres' = "error" /\ rcv["server"] = "idle"
      BY <2>3 DEF RequestFails, CallFails, ReplyFails, HandlerFails, HandlerIdle,
        HandlerGoes
    <3> QED BY <1>b, <2>1, <3>1 DEF Served, Request
  <2>4. CASE CallPanics \/ ServerReplied
    <3>1. /\ hdl \in {"call", "reply"} /\ hdl' = "done" /\ srv' = "closing"
          /\ hres' \in {"nil", "panic"} /\ rcv["server"] = "idle"
      BY <2>4 DEF CallPanics, ServerReplied, HandlerReturns, HandlerIdle, HandlerGoes
    <3> QED BY <1>b, <2>1, <3>1 DEF Served, Request
  <2>5. CASE ServerReplies
    <3>1. hdl = "call" /\ hdl' = "reply" /\ srv' = srv /\ hres' = hres
      BY <2>5 DEF ServerReplies, HandlerGoes, callVars
    <3> QED BY <1>b, <2>1, <3>1 DEF Served, Request
  <2> QED BY <1>4, <2>2, <2>3, <2>4, <2>5 DEF RpcServer
<1>5. CASE UNCHANGED <<vars, rpcVars>>
  BY <1>b, <1>5 DEF Served, Request, vars, rpcVars, streamVars, connVars, callVars
<1> QED
  BY <1>1, <1>2, <1>3, <1>4, <1>5 DEF RpcNext

\* RpcServer leaves the client's end alone.
LEMMA ServerLeavesClient ==
    ASSUME TypeOK, RpcServer
    PROVE  UNCHANGED <<cl, cut, snd["client"], sret["client"], rcv["client"],
                       ret["client"], taken["client"], rpc, rres>>
<1>1. CASE ServerReceives \/ ServerReceived
  BY <1>1, PeerType DEF ServerReceives, ServerReceived, Recv, RecvBegin, RecvReturns,
    HandlerGoes, vars, streamVars, connVars, callVars, TypeOK
<1>2. CASE RequestFails \/ CallFails \/ ReplyFails
  BY <1>2, PeerType DEF RequestFails, CallFails, ReplyFails, HandlerFails, BeginSend,
    HandlerGoes, streamVars, TypeOK
<1>3. CASE CallPanics \/ ServerReplied
  BY <1>3 DEF CallPanics, ServerReplied, HandlerReturns, HandlerGoes, streamVars,
    connVars
<1>4. CASE ServerReplies
  BY <1>4, PeerType DEF ServerReplies, BeginSend, HandlerGoes, streamVars, callVars,
    TypeOK
<1> QED BY <1>1, <1>2, <1>3, <1>4 DEF RpcServer

\* The goroutines below cut no message of the caller.
LEMMA BelowCuts ==
    ASSUME TypeOK, Goroutine \/ Environment, ~Broken'
    PROVE  cut'["client"] = cut["client"]
<1>1. CASE Accept \/ Dispatch \/ Reject \/ ErrorSent \/ ServerCloses
  BY <1>1, PeerType DEF Accept, Dispatch, Reject, ErrorSent, ServerCloses, CloseHalf,
    streamVars, TypeOK
<1>2. ASSUME NEW s \in Sides, ReaderStep(s) \/ RecvStep(s) \/ SendStep(s)
      PROVE  cut' = cut
  BY <1>2 DEF ReaderStep, Reader, Decode, ReaderStored, DecodeEof, DecodeFail,
    RecvStep, RecvProceeds, RecvTake, RecvTakeFailure, RecvStored, RecvClosed,
    SendStep, SendProceeds, Encode, EncodeFails, streamVars
<1>3. ~Environment
  BY PeerType DEF Environment, Drop, LinkDown, Expire, CloseTimeout, Broken, TypeOK
<1> QED BY <1>1, <1>2, <1>3 DEF Goroutine

\* What s took, its peer sent.
LEMMA TakenWasSent ==
    ASSUME TypeOK, Inv, NEW s \in Sides
    PROVE  /\ Len(taken[s]) \in Nat /\ Len(sent[Peer(s)]) \in Nat
           /\ Len(taken[s]) <= Len(sent[Peer(s)])
           /\ \A i \in 1 .. Len(taken[s]) : taken[s][i] = sent[Peer(s)][i]
<1>1. InOrder(s)
  BY DEF Inv
<1>2. /\ Len(taken[s]) \in Nat /\ Len(hand[s]) \in Nat
      /\ Len(wire[Peer(s)]) \in Nat /\ Len(sent[Peer(s)]) \in Nat
  BY FlowTypes
<1>3. Len(taken[s]) + Len(hand[s]) + Len(wire[Peer(s)]) <= Len(sent[Peer(s)])
  BY <1>1 DEF InOrder, Aligned
<1>4. Len(taken[s]) <= Len(sent[Peer(s)])
  <2>1. \A a, b, c, d \in Nat : a + b + c <= d => a <= d
    OBVIOUS
  <2> QED BY <1>2, <1>3, <2>1
<1> QED BY <1>1, <1>2, <1>4 DEF InOrder, Aligned

\* No error can be known before the request is sent.
LEMMA NothingReadEarly ==
    ASSUME RpcInv, Inv, EndInv, Replies, Served, Receives, rpc = "marshal", ~Broken
    PROVE  ErrReads("client") = {NoErr}
<1>1. Len(sent["client"]) <= 1 /\ cl = "open" /\ rcv["client"] = "idle"
  BY DEF RpcInv, RpcTypeOK, Unsent, Receives
<1>2. /\ Len(taken["server"]) \in Nat /\ Len(sent["client"]) \in Nat
      /\ hres \in {"none", "nil", "error", "panic"}
  BY PeerType DEF RpcInv, TypeOK
<1>3. ~(Len(taken["server"]) >= 2)
  BY <1>1, <1>2, TakenWasSent, PeerType DEF RpcInv
<1>4. sent["server"] = <<>>
  BY <1>1, <1>2, <1>3 DEF Replies, Served, RpcInv, RpcTypeOK, HandlerStates
<1>5. Len(<<>>) = 0 /\ ~(0 > 0)
  OBVIOUS
<1>6. rd["client"] # "store"
  BY <1>4, <1>5 DEF Inv, ErrorKnown, ErrorReached
<1>7. err["client"] = NoErr
  BY <1>4 DEF EndInv, ErrorTold, LastIsError
<1> QED BY <1>1, <1>6, <1>7 DEF ErrReads

\* The message of Rpc is sent whole, or something broke.
LEMMA SendsStep ==
    ASSUME RpcInv, Inv, EndInv, Replies, Served, Receives, Sends,
           [RpcNext]_<<vars, rpcVars>>
    PROVE  Sends'
<1>a. TypeOK /\ [Next]_vars
  BY RpcSimulates DEF RpcInv
<1>b. Broken => Broken'
  BY <1>a, EndsGrow, PeerType
<1>0. CASE UNCHANGED <<cut["client"], snd["client"], sret["client"], rpc>>
  BY <1>b, <1>0 DEF Sends
<1>1. CASE NilRequest \/ RpcMarshalFails \/ RpcSendFails \/ RpcReceived
             \/ RpcReceives \/ RpcCancelled
  <2>1. UNCHANGED <<cut, snd, sret>>
    BY <1>1 DEF NilRequest, RpcMarshalFails, RpcSendFails, RpcReceived, RpcReceives,
      RpcCancelled, RecvBegin, Cancel, RecvCancel, vars, streamVars, connVars
  <2>2. rpc' # "send" /\ (rpc' # rpc => snd["client"] = <<>>)
    BY <1>1 DEF NilRequest, RpcMarshalFails, RpcSendFails, RpcReceived, RpcReceives,
      RpcCancelled, Returns, Goes, rpcVars, Sends, RpcInv, Unsent
  <2> QED BY <1>b, <2>1, <2>2 DEF Sends
<1>2. CASE RpcInvokes \/ RpcInvoked
  <2>1. cut' = cut /\ rpc' \in {"invoke", "marshal"}
    BY <1>2 DEF RpcInvokes, RpcInvoked, Invoke, InvokeSent, Goes, streamVars
  <2> QED BY <1>b, <2>1 DEF Sends
<1>3. CASE RpcInvokeFails
  <2>1. rpc' = "done" /\ snd' = snd /\ snd["client"] = <<>>
    BY <1>3 DEF RpcInvokeFails, Returns, InvokeFails, InvokeSendFails, connVars,
      RpcInv, Invoking, Unsent, RpcTypeOK
  <2>2. cut'["client"] = cut["client"]
    BY <1>a, <1>3, PeerType DEF RpcInvokeFails, InvokeFails, InvokeSendFails,
      CloseHalf, streamVars, TypeOK
  <2> QED BY <1>b, <2>1, <2>2 DEF Sends
<1>4. CASE RpcCloses
  <2>1. rpc' = "done" /\ snd' = snd /\ snd["client"] = <<>>
    BY <1>4 DEF RpcCloses, Goes, CallerCloses, connVars, Sends
  <2>2. cut'["client"] = cut["client"]
    BY <1>a, <1>4, <2>1, PeerType DEF RpcCloses, CallerCloses, CloseHalf, Sending,
      TypeOK
  <2> QED BY <1>b, <2>1, <2>2 DEF Sends
<1>5. CASE RpcSends
  <2>1. cut' = cut /\ rpc' = "send" /\ rpc = "marshal"
    BY <1>5 DEF RpcSends, Goes, streamVars
  <2>2. ~Broken => snd'["client"] # <<>>
    <3>1. snd \in [Sides -> Seq(Messages)]
      BY <1>a DEF TypeOK
    <3>2. PICK d \in Payloads : BeginSend("client", NewDataMessage(d))
      BY <1>5 DEF RpcSends
    <3>3. ~Broken => ErrReads("client") = {NoErr}
      BY <2>1, NothingReadEarly
    <3>4. ~Broken => snd' = [snd EXCEPT !["client"] = <<NewDataMessage(d)>>]
      BY <3>2, <3>3 DEF BeginSend
    <3>5. snd' = [snd EXCEPT !["client"] = <<NewDataMessage(d)>>]
            => snd'["client"] = <<NewDataMessage(d)>>
      BY <3>1, PeerType
    <3>6. <<NewDataMessage(d)>> # <<>>
      OBVIOUS
    <3> QED BY <3>4, <3>5, <3>6
  <2> QED BY <1>b, <2>1, <2>2 DEF Sends
<1>6. CASE RpcServer
  BY <1>0, <1>a, <1>6, ServerLeavesClient
<1>7. CASE (Goroutine \/ Environment) /\ UNCHANGED rpcVars
  <2>1. ~Broken' => cut'["client"] = cut["client"]
    BY <1>a, <1>7, BelowCuts
  <2>2. \/ UNCHANGED <<snd["client"], sret["client"]>>
        \/ /\ snd'["client"] = <<>>
           /\ sret'["client"] = "ok" \/ ~Writable("client")
    BY <1>a, <1>7, BelowSends, PeerType
  <2>3. rpc = "send" /\ ~Broken => Writable("client")
    <3>1. rpc = "send" => cl = "open"
      BY DEF RpcInv, RpcTypeOK
    <3>2. link \in {"up", "down"}
      BY <1>a DEF TypeOK
    <3> QED BY <3>1, <3>2, PeerType DEF Writable, Broken, EndInv, EndsInOrder
  <2> QED BY <1>b, <1>7, <2>1, <2>2, <2>3 DEF Sends, rpcVars
<1>8. CASE UNCHANGED <<vars, rpcVars>>
  BY <1>0, <1>8 DEF vars, rpcVars, streamVars, connVars
<1> QED
  BY <1>1, <1>2, <1>3, <1>4, <1>5, <1>6, <1>7, <1>8 DEF RpcNext, Rpc

\* The one Recv of Rpc takes the reply, an error, or the end.
LEMMA TakesOne ==
    ASSUME RpcInv, Inv, Replies, Receives, RecvTake("client", Want("client"))
    PROVE  LET in == taken'["client"]
               told == ret'["client"]
           IN  \/ told.kind = "error"
               \/ told.kind = "message" /\ in = <<NewDataMessage(told.val)>>
<1> DEFINE m == Head(hand["client"])
<1>a. TypeOK
  BY DEF RpcInv
<1>1. /\ rcv["client"] = "wait" /\ rd["client"] \in {"offer", "last"}
      /\ ret'["client"] = Interpret(m, Want("client"))
      /\ taken'["client"] = Append(taken["client"], m)
  BY <1>a, PeerType DEF RecvTake, TypeOK
<1>2. taken["client"] = <<>>
  BY <1>1 DEF Receives, NoResult, Result
<1>3. /\ Len(hand["client"]) = 1 /\ Len(taken["client"]) = 0
      /\ hand["client"] \in Seq(Messages)
  BY <1>1, <1>2, <1>a, PeerType DEF TypeOK
<1>4. m \in Messages
  BY <1>3
<1>5. /\ Len(taken["client"]) + 1 \in 1 .. Len(sent["server"])
      /\ m = sent["server"][Len(taken["client"]) + 1]
  BY <1>3, <1>a, HeldMessage, PeerType
<1>6. 1 \in 1 .. Len(sent["server"]) /\ m = sent["server"][1]
  BY <1>3, <1>5
<1>7. sent["server"] # <<>> /\ hres \in {"none", "nil", "error", "panic"} /\ hdl \in HandlerStates
  BY <1>6, <1>a DEF RpcInv, RpcTypeOK, TypeOK
<1>8. OneOrNone(sent["server"], "DATA") \/ OneOrNone(sent["server"], "ERROR")
  BY <1>7 DEF Replies, HandlerStates
<1>9. m.type = "DATA" \/ m.type = "ERROR"
  BY <1>6, <1>8 DEF OneOrNone
<1>10. CASE m.type = "ERROR"
  BY <1>1, <1>10, InterpretError DEF IsError, Result
<1>11. CASE m.type = "DATA"
  <2>1. m.type = Want("client") /\ ~IsClose(m) /\ ~IsError(m)
    BY <1>11 DEF Want, IsClose, IsError
  <2>2. Interpret(m, Want("client")) = Result("message", m.data)
    BY <2>1, Zenon DEF Interpret
  <2>3. m = NewDataMessage(m.data)
    BY <1>4, <1>11 DEF Messages, NewDataMessage
  <2>4. Append(<<>>, m) = <<m>>
    OBVIOUS
  <2> QED BY <1>1, <1>2, <2>2, <2>3, <2>4 DEF Result
<1> QED BY <1>9, <1>10, <1>11

\* What the one Recv of Rpc has returned tells what it took.
LEMMA ReceivesStep ==
    ASSUME RpcInv, Inv, Replies, Receives, [RpcNext]_<<vars, rpcVars>>
    PROVE  Receives'
<1> DEFINE mine == <<rcv["client"], ret["client"], taken["client"]>>
<1>a. TypeOK
  BY DEF RpcInv
<1>1. CASE UNCHANGED mine /\ (rpc' = rpc \/ rpc' \notin {"start", "invoke", "marshal", "send"})
  BY <1>1 DEF Receives
<1>2. CASE RpcInvokes \/ RpcInvoked \/ RpcSends
  <2>1. UNCHANGED mine /\ rpc \in {"start", "invoke", "marshal"}
    BY <1>2 DEF RpcInvokes, RpcInvoked, RpcSends, Invoke, InvokeSent, connVars
  <2> QED BY <2>1 DEF Receives
<1>3. CASE NilRequest \/ RpcInvokeFails \/ RpcMarshalFails \/ RpcSendFails
             \/ RpcReceived \/ RpcCloses
  <2>1. UNCHANGED mine /\ rpc' \in {"close", "done"}
    BY <1>3 DEF NilRequest, RpcInvokeFails, RpcMarshalFails, RpcSendFails,
      RpcReceived, RpcCloses, InvokeFails, InvokeSendFails, CallerCloses, Returns,
      Goes, vars, connVars
  <2> QED BY <1>1, <2>1
<1>4. CASE RpcReceives
  <2>1. rpc' = "recv" /\ UNCHANGED taken /\ taken["client"] = <<>>
    BY <1>4 DEF RpcReceives, Goes, RecvBegin, Receives, NoResult, Result
  <2>2. \/ rcv'["client"] = "wait" /\ ret'["client"] = NoResult
        \/ rcv'["client"] = "idle" /\ ret'["client"].kind = "error"
    BY <1>4, <1>a, PeerType DEF RpcReceives, RecvBegin, RecvReturns, Result, TypeOK
  <2> QED BY <2>1, <2>2 DEF Receives, NoResult, Result
<1>5. CASE RpcCancelled
  <2>1. /\ rpc' = "recv" /\ UNCHANGED taken /\ taken["client"] = <<>>
        /\ rcv'["client"] = "idle" /\ ret'["client"].kind = "ctx"
    BY <1>5, <1>a, PeerType DEF RpcCancelled, Cancel, RecvCancel, RecvReturns,
      rpcVars, Receives, NoResult, Result, TypeOK
  <2> QED BY <2>1 DEF Receives
<1>6. CASE RpcServer
  BY <1>1, <1>6, <1>a, ServerLeavesClient
<1>7. CASE (Goroutine \/ Environment) /\ UNCHANGED rpcVars
  <2>0. rpc' = rpc
    BY <1>7 DEF rpcVars
  <2>1. CASE UNCHANGED mine
    BY <1>1, <2>0, <2>1
  <2>2. CASE RecvTake("client", Want("client"))
    <3>1. rcv["client"] = "wait" /\ rcv'["client"] # "wait"
      BY <2>2, <1>a, PeerType DEF RecvTake, TypeOK
    <3> QED BY <2>0, <2>2, <3>1, TakesOne DEF Receives
  <2>3. CASE RecvTakeFailure("client")
    <3>1. /\ rcv["client"] = "wait" /\ rcv'["client"] = "store"
          /\ ret'["client"].kind = "error"
      BY <2>3, <1>a, PeerType DEF RecvTakeFailure, Result, TypeOK
    <3> QED BY <2>0, <3>1 DEF Receives
  <2>4. CASE RecvStored("client")
    <3>1. /\ rcv["client"] = "store" /\ rcv'["client"] = "idle"
          /\ ret' = ret /\ taken' = taken
      BY <2>4, <1>a, PeerType DEF RecvStored, TypeOK
    <3> QED BY <2>0, <3>1 DEF Receives
  <2>5. CASE RecvClosed("client")
    <3>1. /\ rcv["client"] = "wait" /\ rcv'["client"] = "idle"
          /\ ret'["client"].kind = "eof" /\ taken' = taken
      BY <2>5, <1>a, PeerType DEF RecvClosed, RecvReturns, Result, TypeOK
    <3> QED BY <2>0, <3>1 DEF Receives, NoResult, Result
  <2> QED
    BY <1>7, <1>a, <2>1, <2>2, <2>3, <2>4, <2>5, BelowReads, PeerType DEF RecvProceeds
<1>8. CASE UNCHANGED <<vars, rpcVars>>
  BY <1>1, <1>8 DEF vars, rpcVars, connVars
<1> QED
  BY <1>2, <1>3, <1>4, <1>5, <1>6, <1>7, <1>8 DEF RpcNext, Rpc

\* What became of a Rpc that never came to its Recv.
LEMMA EarlyKinds ==
    /\ \A v : Result("nil request", v).kind = "nil request"
    /\ \A v : Result("invoke", v).kind = "invoke"
    /\ \A v : Result("marshal", v).kind = "marshal"
    /\ \A v : Result("send", v).kind = "send"
BY Zenon DEF Result

\* Rpc returns what became of its one Recv, or why it never came to it.
LEMMA ReturnedStep ==
    ASSUME RpcInv, Inv, Sends, Receives, Returned, [RpcNext]_<<vars, rpcVars>>
    PROVE  Returned'
<1>a. TypeOK /\ [Next]_vars
  BY RpcSimulates DEF RpcInv
<1>b. Broken => Broken'
  BY <1>a, EndsGrow, PeerType
<1>0. CASE UNCHANGED <<rcv["client"], ret["client"], rres>> /\ rpc' # "close"
             /\ (rpc' = "done" => rpc \in {"close", "done"})
  BY <1>b, <1>0 DEF Returned
<1>1. CASE UNCHANGED <<rcv["client"], ret["client"], rres, rpc>>
  BY <1>b, <1>1 DEF Returned
<1>2. CASE NilRequest
  <2>1. rres'.kind = "nil request"
    BY <1>2, EarlyKinds, Zenon DEF NilRequest, Returns
  <2> QED BY <2>1, Zenon DEF Returned
<1>3. CASE RpcInvokeFails \/ RpcMarshalFails
  <2>1. rres'.kind \in {"invoke", "marshal"}
    BY <1>3, EarlyKinds DEF RpcInvokeFails, RpcMarshalFails, Returns
  <2> QED BY <2>1 DEF Returned
<1>4. CASE RpcSendFails
  <2>1. rres'.kind = "send" /\ UNCHANGED vars
    BY <1>4, EarlyKinds DEF RpcSendFails, Returns
  <2>2. Broken
    BY <1>4 DEF RpcSendFails, Sends
  <2> QED BY <1>b, <2>1, <2>2 DEF Returned
<1>5. CASE RpcReceived
  <2>1. rres' = Outcome(ret["client"]) /\ rcv["client"] = "idle" /\ UNCHANGED vars
    BY <1>5 DEF RpcReceived, Returns
  <2>2. ret' = ret /\ rcv' = rcv
    BY <2>1 DEF vars, connVars
  <2> QED BY <2>1, <2>2 DEF Returned, Outcome
<1>6. CASE RpcCloses
  BY <1>0, <1>6 DEF RpcCloses, CallerCloses, Goes, connVars
<1>7. CASE RpcInvokes \/ RpcInvoked \/ RpcSends \/ RpcReceives \/ RpcCancelled
  <2>1. rpc' \in {"invoke", "marshal", "send", "recv"}
    BY <1>7 DEF RpcInvokes, RpcInvoked, RpcSends, RpcReceives, RpcCancelled, Goes,
      rpcVars
  <2> QED BY <2>1 DEF Returned
<1>8. CASE RpcServer
  BY <1>1, <1>8, <1>a, ServerLeavesClient
<1>9. CASE (Goroutine \/ Environment) /\ UNCHANGED rpcVars
  <2>0. rpc' = rpc /\ rres' = rres
    BY <1>9 DEF rpcVars
  <2>1. CASE UNCHANGED <<rcv["client"], ret["client"]>>
    BY <1>1, <2>0, <2>1
  <2>2. CASE RecvProceeds("client", Want("client"))
    <3>1. rcv["client"] # "idle"
      BY <2>2 DEF RecvProceeds, RecvTake, RecvTakeFailure, RecvStored, RecvClosed
    <3> QED BY <1>b, <2>0, <3>1 DEF Returned
  <2> QED BY <1>9, <1>a, <2>1, <2>2, BelowReads, PeerType
<1>10. CASE UNCHANGED <<vars, rpcVars>>
  BY <1>1, <1>10 DEF vars, rpcVars, connVars
<1> QED
  BY <1>2, <1>3, <1>4, <1>5, <1>6, <1>7, <1>8, <1>9, <1>10 DEF RpcNext, Rpc

\* Before the call nothing is sent, taken or returned.
LEMMA OutcomeInit == RpcInit => OutcomeInv
<1> SUFFICES ASSUME RpcInit PROVE OutcomeInv
  OBVIOUS
<1> USE PeerType DEF RpcInit, Init, StreamInit, ConnInit
<1>1. /\ sent["server"] = <<>> /\ snd["server"] = <<>> /\ sret["server"] = "none"
      /\ snd["client"] = <<>> /\ cut["client"] = FALSE
      /\ \A s \in Sides : rcv[s] = "idle" /\ ret[s] = NoResult /\ taken[s] = <<>>
  OBVIOUS
<1>2. NoResult.kind = "none" /\ Len(<<>>) = 0
  BY DEF NoResult, Result
<1>3. Replies
  BY <1>1 DEF Replies
<1>4. Served
  BY <1>1, <1>2 DEF Served
<1>5. Sends
  BY <1>1 DEF Sends
<1>6. Receives
  BY <1>1, <1>2 DEF Receives
<1>7. Returned
  BY DEF Returned
<1> QED BY <1>3, <1>4, <1>5, <1>6, <1>7 DEF OutcomeInv

\* OutcomeInv is inductive, given what holds of every call.
LEMMA OutcomeStep ==
    RpcInv /\ Inv /\ EndInv /\ OutcomeInv /\ [RpcNext]_<<vars, rpcVars>> => OutcomeInv'
BY RepliesStep, ServedStep, SendsStep, ReceivesStep, ReturnedStep DEF OutcomeInv

\* What holds of how every call ends, and where Rpc and RpcServer are with their
\* messages (rpc.go), stays true together.
THEOREM OutcomeInvariance == RpcSpec => [](RpcInv /\ Inv /\ EndInv /\ OutcomeInv)
<1>1. RpcSpec => []RpcInv /\ []Inv /\ []EndInv
  BY RpcInvariance, RpcInherits, RpcRefines, EndInvariance, PTL DEF RpcIsACall
<1> QED BY <1>1, OutcomeInit, OutcomeStep, PTL DEF RpcSpec

\* Unmarshal makes a reply or a mess of a message, and passes the rest on.
LEMMA OutcomeCases ==
    ASSUME NEW r
    PROVE  /\ r.kind = "message" => /\ Outcome(r).kind \in {"reply", "garbled"}
                                    /\ Outcome(r).val = r.val
           /\ r.kind # "message" => Outcome(r) = r
<1>1. \A k, v : Result(k, v).kind = k /\ Result(k, v).val = v
  BY DEF Result
<1>2. CASE r.kind = "message" /\ r.val \notin Garbled
  <2>1. Outcome(r) = Result("reply", r.val)
    BY <1>2, Zenon DEF Outcome
  <2> QED BY <1>1, <1>2, <2>1
<1>3. CASE r.kind = "message" /\ r.val \in Garbled
  <2>1. Outcome(r) = Result("garbled", r.val)
    BY <1>3, Zenon DEF Outcome
  <2> QED BY <1>1, <1>3, <2>1
<1>4. CASE r.kind # "message"
  BY <1>4, Zenon DEF Outcome
<1> QED BY <1>2, <1>3, <1>4

\* One reply was sent, to the request the handler was run with.
LEMMA ReplyTaken ==
    ASSUME RpcInv, Inv, OutcomeInv, ret["client"].kind = "message"
    PROVE  LET val == ret["client"].val
           IN  /\ sent["server"] = <<NewDataMessage(val)>>
               /\ Len(taken["server"]) = 2
               /\ Request = sent["client"][2].data /\ Request \notin Garbled
               /\ hres \in {"none", "nil"}
<1> DEFINE val == ret["client"].val
           out == sent["server"]
           got == taken["server"]
<1>a. TypeOK
  BY DEF RpcInv
<1>1. taken["client"] = <<NewDataMessage(val)>>
  BY DEF OutcomeInv, Receives
<1>2. Len(<<NewDataMessage(val)>>) = 1 /\ <<NewDataMessage(val)>>[1] = NewDataMessage(val)
  OBVIOUS
<1>3. Len(out) \in Nat /\ 1 <= Len(out) /\ out[1] = NewDataMessage(val)
  BY <1>a, <1>1, <1>2, TakenWasSent, PeerType
<1>4. out # <<>> /\ out \in Seq(Messages) /\ out[1].type # "ERROR"
  BY <1>a, <1>3, PeerType DEF NewDataMessage, TypeOK
<1>5. hdl = "reply" \/ hres = "nil"
  BY <1>3, <1>4 DEF OutcomeInv, Replies, OneOrNone, RpcInv, RpcTypeOK, TypeOK,
    HandlerStates
<1>6. hres \in {"none", "nil"}
  BY <1>5 DEF OutcomeInv, Replies
<1>7. Len(out) <= 1
  BY <1>5 DEF OutcomeInv, Replies, OneOrNone
<1>8. out = <<NewDataMessage(val)>>
  BY <1>3, <1>4, <1>7
<1>9. Len(got) >= 2 /\ Len(got) <= 2 /\ Request \notin Garbled
  BY <1>5 DEF OutcomeInv, Served
<1>10. Len(got) \in Nat
  BY <1>a, PeerType DEF TypeOK
<1>11. Request = sent["client"][2].data
  BY <1>a, <1>9, <1>10, TakenWasSent, PeerType DEF Request
<1>12. Len(got) = 2
  <2>1. \A k \in Nat : k >= 2 /\ k <= 2 => k = 2
    OBVIOUS
  <2> QED BY <1>9, <1>10, <2>1, Zenon
<1> QED BY <1>6, <1>8, <1>9, <1>11, <1>12

\* The error Rpc is told of is the one reply, and the handler's.
LEMMA ErrorReturned ==
    ASSUME RpcInv, Inv, EndInv, OutcomeInv, ~Broken, ret["client"].kind = "error"
    PROVE  LET out == sent["server"]
           IN  /\ hres = "error" /\ Len(out) = 1
               /\ ret["client"].val \in {Head(out).data, Torn}
<1> DEFINE out == sent["server"]
           n == Len(out)
<1>1. LastIsError /\ ret["client"].val \in {out[n].data, Torn}
  BY DEF EndInv, ErrorTold
<1>2. out # <<>> /\ out[n].type = "ERROR"
  BY <1>1 DEF LastIsError, IsError
<1>3. n \in Nat /\ n >= 1 /\ n \in 1 .. Len(out)
  BY <1>2, PeerType DEF RpcInv, TypeOK
<1>4. ~OneOrNone(out, "DATA")
  BY <1>2, <1>3 DEF OneOrNone
<1>5. hres = "error"
  BY <1>2, <1>4 DEF OutcomeInv, Replies, RpcInv, RpcTypeOK, TypeOK, HandlerStates
<1>6. n <= 1
  BY <1>5 DEF OutcomeInv, Replies, OneOrNone
<1>7. n = 1 /\ Head(out) = out[1]
  <2>1. out \in Seq(Messages)
    BY PeerType DEF RpcInv, TypeOK
  <2>2. Head(out) = out[1]
    BY <1>2, <2>1
  <2> HIDE DEF n
  <2> QED BY <1>3, <1>6, <2>2
<1> QED BY <1>1, <1>5, <1>7

\* io.EOF without a message: the handler sent nothing and the stream is closed.
LEMMA EndReturned ==
    ASSUME RpcInv, Inv, EndInv, OutcomeInv, ~Broken, ret["client"].kind = "eof"
    PROVE  sent["server"] = <<>> /\ srv = "done" /\ hres \in {"none", "panic"}
<1>1. taken["client"] = <<>> /\ Len(<<>>) = 0
  BY DEF OutcomeInv, Receives
<1>2. fin["server"] /\ sent["server"] = <<>>
  BY <1>1 DEF EndInv, EofIsEnd
<1>3. srv = "done"
  BY <1>2 DEF EndInv, EndsInOrder
<1>4. hres # "nil"
  BY <1>2 DEF OutcomeInv, Replies
<1>5. hres # "error"
  BY <1>2, <1>3 DEF EndInv, ErrorDue, LastIsError, OutcomeInv, Sends
<1>6. hres \in {"none", "nil", "error", "panic"}
  BY DEF RpcInv, TypeOK
<1> QED BY <1>2, <1>3, <1>4, <1>5, <1>6

\* While nothing broke, what Rpc (rpc.go) returns tells what the handler did with
\* this very request: a reply is the one it sent for it, an error is its error,
\* and io.EOF means that it panicked or that nobody handles the method.
THEOREM RpcOutcomeHolds == RpcSpec => []RpcOutcome
<1>1. ASSUME RpcInv, Inv, EndInv, OutcomeInv
      PROVE  RpcOutcome
  <2> SUFFICES ASSUME rpc = "done", ~Broken PROVE RpcOutcome
    BY DEF RpcOutcome
  <2>1. CASE rres.kind = "nil request"
    BY <2>1, Zenon DEF RpcOutcome
  <2>2. CASE rres.kind \in {"invoke", "marshal"}
    BY <2>2 DEF RpcOutcome
  <2>3. CASE rres = Outcome(ret["client"])
    <3> DEFINE told == ret["client"]
    <3>1. CASE told.kind = "message"
      <4>1. rres.kind \in {"reply", "garbled"} /\ rres.val = told.val
        BY <2>3, <3>1, OutcomeCases
      <4> QED BY <1>1, <3>1, <4>1, ReplyTaken DEF RpcOutcome
    <3>2. CASE told.kind = "error"
      <4>1. rres = told
        BY <2>3, <3>2, OutcomeCases
      <4> QED BY <1>1, <3>2, <4>1, ErrorReturned DEF RpcOutcome
    <3>3. CASE told.kind = "eof"
      <4>1. rres = told
        BY <2>3, <3>3, OutcomeCases
      <4> QED BY <1>1, <3>3, <4>1, EndReturned DEF RpcOutcome
    <3>4. CASE told.kind \in {"none", "ctx"}
      <4>1. rres = told
        BY <2>3, <3>4, OutcomeCases
      <4> QED BY <3>4, <4>1 DEF RpcOutcome
    <3>5. told.kind \in {"none", "message", "eof", "error", "ctx"}
      <4>1. told \in Results
        BY <1>1, PeerType DEF RpcInv, TypeOK
      <4> QED BY <1>1, <4>1 DEF Results, OutcomeInv, Receives
    <3> QED BY <3>1, <3>2, <3>3, <3>4, <3>5
  <2>4. \/ rres.kind \in {"nil request", "invoke", "marshal"}
        \/ rres = Outcome(ret["client"])
    BY <1>1, Zenon DEF OutcomeInv, Returned
  <2> QED BY <2>1, <2>2, <2>3, <2>4, Zenon
<1> QED BY <1>1, OutcomeInvariance, PTL
=============================================================================
