------------------------------ MODULE RpcCall ------------------------------
(***************************************************************************)
(* A unary call: Rpc on one side of a MuxCall and RpcServer, which the     *)
(* generated stub registers as the handler, on the other (rpc.go).  Each   *)
(* is a sequential program that uses the operations of its Conn one after  *)
(* the other, so every step here is a step of MuxCall or a step inside one *)
(* of the two functions.                                                   *)
(***************************************************************************)
EXTENDS MuxCall

CONSTANT Garbled    \* payloads the receiver's Unmarshal rejects

ASSUME GarbledAssumption == Garbled \subseteq Payloads

\* The bounds leave room for INVOKE and a request, and for a response.
ASSUME RoomAssumption == MaxSent["client"] >= 2 /\ MaxSent["server"] >= 1

VARIABLES
    rpc,    \* Rpc: where it is
    rres,   \* what Rpc returns
    hdl     \* RpcServer: where it is

rpcVars == <<rpc, rres, hdl>>

RpcStates == {"start", "invoke", "marshal", "send", "recv", "close", "done"}
HandlerStates == {"start", "recv", "call", "reply", "done"}

RpcInit == Init /\ rpc = "start" /\ rres = NoResult /\ hdl = "start"

Returns(state, result) == rpc' = state /\ rres' = result /\ UNCHANGED hdl

Goes(state) == rpc' = state /\ UNCHANGED <<rres, hdl>>

(* --------------------------------- Rpc ---------------------------------- *)

NilRequest ==
    /\ rpc = "start"
    /\ Returns("done", Result("nil request", <<>>))
    /\ UNCHANGED vars

RpcInvokes == rpc = "start" /\ Invoke /\ Goes("invoke")

RpcInvoked == rpc = "invoke" /\ InvokeSent /\ Goes("marshal")

\* Mutant: Rpc goes on with a stream whose INVOKE message was not sent.
RpcInvokeFails_Ignored ==
    rpc = "invoke" /\ InvokeSendFails /\ Goes("marshal")

\* transport.Invoke fails: there is no stream that Rpc would have to close.
RpcInvokeFails ==
    /\ rpc \in {"start", "invoke"}
    /\ InvokeFails \/ InvokeSendFails
    /\ Returns("done", Result("invoke", <<>>))

RpcMarshalFails ==
    /\ rpc = "marshal"
    /\ Returns("close", Result("marshal", <<>>))
    /\ UNCHANGED vars

RpcSends ==
    /\ rpc = "marshal"
    /\ \E req \in Payloads : BeginSend("client", NewDataMessage(req))
    /\ Goes("send")
    /\ UNCHANGED <<streamVars, rd, hand, err, rcv, ret, taken, callVars>>

RpcSendFails ==
    /\ rpc = "send" /\ snd["client"] = <<>> /\ sret["client"] # "ok"
    /\ Returns("close", Result("send", <<>>))
    /\ UNCHANGED vars

RpcReceives ==
    /\ rpc = "send" /\ snd["client"] = <<>> /\ sret["client"] = "ok"
    /\ RecvBegin("client")
    /\ Goes("recv")
    /\ UNCHANGED callVars

\* The deadline or the cancellation of ctx.
RpcCancelled == rpc = "recv" /\ Cancel("client") /\ UNCHANGED rpcVars

\* Mutant: the end of the stream is taken for an empty response.
Outcome_EofIsReply(r) ==
    IF r.kind \in {"message", "eof"} /\ r.val \notin Garbled
    THEN Result("reply", r.val) ELSE r

\* Unmarshal of what Recv returned, or its error.
Outcome(r) ==
    CASE r.kind = "message" /\ r.val \notin Garbled -> Result("reply", r.val)
      [] r.kind = "message" /\ r.val \in Garbled -> Result("garbled", r.val)
      [] OTHER -> r

RpcReceived ==
    /\ rpc = "recv" /\ rcv["client"] = "idle"
    /\ Returns("close", Outcome(ret["client"]))
    /\ UNCHANGED vars

\* Mutant: the deferred Close is missing.
RpcCloses_Not == rpc = "close" /\ Goes("done") /\ UNCHANGED vars

\* The deferred stream.Close.
RpcCloses == rpc = "close" /\ CallerCloses /\ Goes("done")

Rpc ==
    \/ NilRequest \/ RpcInvokes \/ RpcInvoked \/ RpcInvokeFails
    \/ RpcMarshalFails \/ RpcSends \/ RpcSendFails
    \/ RpcReceives \/ RpcReceived \/ RpcCloses

(* ------------------------------- RpcServer ------------------------------ *)

HandlerGoes(state) == hdl' = state /\ UNCHANGED <<rpc, rres>>

ServerReceives ==
    /\ hdl = "start" /\ Recv("server") /\ HandlerGoes("recv")

Decoded(r) == r.kind = "message" /\ r.val \notin Garbled

ServerReceived ==
    /\ hdl = "recv" /\ rcv["server"] = "idle" /\ Decoded(ret["server"])
    /\ HandlerGoes("call")
    /\ UNCHANGED vars

\* Recv or Unmarshal failed: RpcServer returns the error.
RequestFails ==
    /\ hdl = "recv" /\ rcv["server"] = "idle" /\ ~Decoded(ret["server"])
    /\ HandlerFails /\ HandlerGoes("done")

\* The handler returns an error, or a response that does not marshal.
CallFails == hdl = "call" /\ HandlerFails /\ HandlerGoes("done")

CallPanics ==
    /\ hdl = "call" /\ HandlerReturns /\ hres' = "panic"
    /\ HandlerGoes("done")

ServerReplies ==
    /\ hdl = "call"
    /\ \E res \in Payloads : BeginSend("server", NewDataMessage(res))
    /\ HandlerGoes("reply")
    /\ UNCHANGED <<streamVars, rd, hand, err, rcv, ret, taken, callVars>>

ServerReplied ==
    /\ hdl = "reply" /\ sret["server"] = "ok"
    /\ HandlerReturns /\ hres' = "nil"
    /\ HandlerGoes("done")

\* The error of Send is the error of the handler.
ReplyFails ==
    /\ hdl = "reply" /\ sret["server"] # "ok"
    /\ HandlerFails /\ HandlerGoes("done")

RpcServer ==
    \/ ServerReceives \/ ServerReceived \/ RequestFails
    \/ CallFails \/ CallPanics \/ ServerReplies \/ ServerReplied \/ ReplyFails

(* ------------------------------ The system ------------------------------ *)

Goroutine ==
    \/ Accept \/ Dispatch \/ Reject \/ ErrorSent \/ ServerCloses
    \/ \E s \in Sides : ReaderStep(s) \/ RecvStep(s) \/ SendStep(s)

Environment == Drop \/ \E s \in Sides : Expire(s)

RpcNext ==
    \/ Rpc \/ RpcCancelled \/ RpcServer
    \/ (Goroutine \/ Environment) /\ UNCHANGED rpcVars

\* Rpc and the handler's function do not stop half way.
RpcFairness ==
    /\ Fairness
    /\ WF_<<vars, rpcVars>>(Rpc)
    /\ WF_<<vars, rpcVars>>(RpcServer)

RpcSpec == RpcInit /\ [][RpcNext]_<<vars, rpcVars>>
RpcFairSpec == RpcSpec /\ RpcFairness

(* ------------------------------ Properties ------------------------------ *)

\* Where Rpc and RpcServer are tells what became of the stream and of the
\* goroutine of AcceptMux: Rpc leaves no path without Close, and RpcServer runs
\* only in a dispatched handler.
RpcTypeOK ==
    /\ rpc \in RpcStates /\ hdl \in HandlerStates
    /\ rres.val \in Segments
    /\ rpc \in {"marshal", "send", "recv", "close"} <=> cl = "open"
    /\ rpc = "done" => cl \in {"init", "closed", "failed"}
    /\ hdl \in {"recv", "call", "reply"} => srv = "handler"
    /\ hdl = "start" => hres = "none"

\* Rpc and RpcServer use a call the way MuxCall lets any two users do: what is
\* proved of every call holds of theirs.
RpcIsACall == Spec

\* The request the handler was run with, if it was run.
Request == taken["server"][2].data

\* While nothing broke, what Rpc returns tells what the handler did with this
\* very request: a reply is the one it sent, an error is its error, and io.EOF
\* means that it panicked or that nobody handles the method.  (An error may
\* have been read while run was storing it.)
RpcOutcome ==
    rpc = "done" /\ ~Broken =>
       LET replies == sent["server"]
       IN  /\ rres.kind \notin {"send", "protocol"}
           /\ rres.kind \in {"reply", "garbled"} =>
                 /\ replies = <<NewDataMessage(rres.val)>>
                 /\ Len(taken["server"]) = 2
                 /\ Request = sent["client"][2].data /\ Request \notin Garbled
                 /\ hres \in {"none", "nil"}
           /\ rres.kind = "error" =>
                 /\ hres = "error" /\ Len(replies) = 1
                 /\ rres.val \in {Head(replies).data, Torn}
           /\ rres.kind = "eof" =>
                 replies = <<>> /\ srv = "done" /\ hres \in {"none", "panic"}

\* Rpc returns, whatever becomes of the connection, the server and the handler.
RpcReturns == rpc # "start" ~> rpc = "done"

\* A unary call that was answered leaves no goroutine behind, on either side,
\* once both have closed the stream.  Answered means that Recv took the last
\* message or saw the end: an error that Recv returns at once, because run had
\* stored it already, leaves run offering its ERROR message for ever.
Answered ==
    \/ rres.kind \in {"reply", "garbled", "eof"}
    \/ rres.kind = "error" /\ taken["client"] # <<>>

RpcLeavesNoReader ==
    rpc = "done" /\ srv = "done" /\ hres # "none" /\ Answered
    ~> (\A s \in Sides : rd[s] = "exit") \/ Broken

(* ----------------------- The inductive invariant ------------------------ *)

\* Until it has its stream, Rpc is where InvokeMux is.
Invoking ==
    /\ rpc = "start" => cl = "init"
    /\ rpc = "invoke" => cl = "invoking"

\* Rpc has sent at most INVOKE before the request, RpcServer nothing before the
\* response.
Unsent ==
    /\ rpc = "start" => sent["client"] = <<>> /\ snd["client"] = <<>>
    /\ rpc = "invoke" /\ snd["client"] # <<>> => sent["client"] = <<>>
    /\ rpc = "marshal" => snd["client"] = <<>>
    /\ rpc \in {"invoke", "marshal"} => Len(sent["client"]) <= 1
    /\ hdl \in {"start", "recv", "call"} => sent["server"] = <<>> /\ snd["server"] = <<>>

RpcInv == TypeOK /\ RpcTypeOK /\ Invoking /\ Unsent

(* ------------------ The invariant of what Rpc returns ------------------- *)

\* q is one message of the given type, or empty.
OneOrNone(q, type) == Len(q) <= 1 /\ \A i \in 1 .. Len(q) : q[i].type = type

\* What RpcServer has sent and is sending tells where it is.
Replies ==
    LET out == sent["server"]
        held == snd["server"]
    IN  /\ hdl = "done" <=> hres # "none"
        /\ hdl \in {"start", "recv", "call"} \/ hres = "panic" =>
              out = <<>> /\ held = <<>>
        /\ hdl \in {"start", "recv", "call"} \/ (hdl = "reply" /\ held # <<>>) =>
              sret["server"] = "none"
        /\ hdl = "reply" \/ hres = "nil" =>
              OneOrNone(out, "DATA") /\ OneOrNone(held, "DATA")
        /\ hdl = "reply" => (out # <<>> <=> sret["server"] = "ok")
        /\ hres = "nil" => out # <<>>
        /\ hres = "error" => OneOrNone(out, "ERROR") /\ OneOrNone(held, "ERROR")
        /\ out # <<>> => held = <<>>

\* Where RpcServer is tells what it has taken: INVOKE and the request.
Served ==
    LET in == taken["server"]
        told == ret["server"]
        received == hdl = "recv" /\ rcv["server"] = "idle"
    IN  /\ srv \in {"none", "method"} => hdl = "start"
        /\ srv = "none" => in = <<>> /\ told = NoResult
        /\ rcv["server"] = "wait" =>
              (srv = "method" /\ in = <<>>) \/ (hdl = "recv" /\ Len(in) <= 1)
        /\ rcv["server"] # "idle" => srv = "method" \/ hdl = "recv"
        /\ srv = "method" /\ told.kind = "message" => in # <<>>
        /\ srv = "handler" => in # <<>>
        /\ hdl = "start" => Len(in) <= 1
        /\ Len(in) <= 2
        /\ received /\ told.kind = "message" => Len(in) >= 2 /\ Request = told.val
        /\ hdl \in {"call", "reply"} \/ hres = "nil" =>
              Len(in) >= 2 /\ Request \notin Garbled
        /\ received \/ hres = "error" =>
              Broken \/ Len(in) >= 2 \/ cl \in {"closed", "failed"}

\* Rpc has one message under way at most, and it ends with its Send.
Sends ==
    /\ ~Broken => ~cut["client"]
    /\ rpc \in {"recv", "close", "done"} => snd["client"] = <<>>
    /\ rpc = "send" /\ ~Broken => snd["client"] # <<>> \/ sret["client"] = "ok"

\* The one Recv of Rpc.
Receives ==
    LET in == taken["client"]
        told == ret["client"]
    IN  /\ rpc \in {"start", "invoke", "marshal", "send"} =>
              rcv["client"] = "idle" /\ told = NoResult
        /\ rcv["client"] = "wait" => told = NoResult
        /\ told.kind \in {"none", "eof", "ctx"} => in = <<>>
        /\ told.kind = "message" => in = <<NewDataMessage(told.val)>>
        /\ told.kind # "protocol"

\* What Rpc returns.
Returned ==
    rpc \in {"close", "done"} =>
       \/ rres.kind \in {"nil request", "invoke", "marshal"}
       \/ rres.kind = "send" /\ Broken
       \/ rres = Outcome(ret["client"]) /\ rcv["client"] = "idle"

OutcomeInv == Replies /\ Served /\ Sends /\ Receives /\ Returned
=============================================================================
