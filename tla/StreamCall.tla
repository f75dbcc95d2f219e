----------------------------- MODULE StreamCall -----------------------------
(***************************************************************************)
(* The three kinds of streaming calls: clientStreamImpl on one side of a   *)
(* MuxCall and serverStreamImpl on the other (stream.go), made by the      *)
(* generated stubs.  Both are the same thin layer: Send marshals, Recv     *)
(* unmarshals and remembers io.EOF, SendAndClose and CloseAndRecv make two *)
(* calls of their Conn.  Which operations exist depends on the kind.       *)
(*                                                                         *)
(* Each side is used by at most one goroutine that sends and one that      *)
(* receives; an operation whose Marshal fails, or a Recv after io.EOF,     *)
(* returns without a step.                                                 *)
(***************************************************************************)
EXTENDS MuxCall, FiniteSetsExt, Picks

CONSTANTS
    Garbled,    \* payloads the receiver's Unmarshal rejects
    Loads       \* streams under consideration: which side streams ("client",
                \* "server" or both, "bidi"), what is sent and how much of it

ASSUME StreamAssumption ==
    /\ Garbled \subseteq Payloads
    /\ Loads \subseteq [kind : {"client", "server", "bidi"},
                        payloads : SUBSET Payloads, most : [Sides -> Nat]]
    /\ \A l \in Loads, s \in Sides : l.most[s] <= MaxSent[s]

VARIABLES
    load,   \* the stream, one of Loads
    sop,    \* sop[s]: the sending operation of s under way
    rop,    \* rop[s]: the receiving operation of s under way
    eof,    \* eof[s]: the field eof
    got     \* got[s]: what Recv of s returned without an error (history)

streamCallVars == <<load, sop, rop, eof, got>>

kind == load.kind

\* "new": the constructor has not returned; "request": it is in its Send.
SendOps == {"new", "request", "idle", "send", "reply", "close", "final", "failed"}

WrapperInit ==
    /\ load \in Loads
    /\ sop = [s \in Sides |-> IF kind = "server" THEN "new" ELSE "idle"]
    /\ rop = [s \in Sides |-> "idle"]
    /\ eof = [s \in Sides |-> FALSE]
    /\ got = [s \in Sides |-> <<>>]

StreamCallInit == Init /\ WrapperInit

\* Mutant: a stream may be used whose constructor failed or was left early.
Ready_Any(s) == sop[s] \notin {"new", "request", "failed"}

Ready(s) == InUse(s) /\ sop[s] \notin {"new", "request", "failed"}

Sends(s) == kind \in {"bidi", s}
Receives(s) == kind \in {"bidi", Peer(s)}

\* n more messages of s stay within its bound.
Within(s, n) == Len(sent[s]) + n <= load.most[s]

Start(s, op, m) ==
    /\ BeginSend(s, m)
    /\ sop' = [sop EXCEPT ![s] = op]
    /\ UNCHANGED <<streamVars, rd, hand, err, rcv, ret, taken, callVars>>
    /\ UNCHANGED <<load, rop, eof, got>>

StartData(s, op) == \E d \in load.payloads : Start(s, op, NewDataMessage(d))

\* The Send or SendClose that operation op started has returned.
Returned(s, op) == sop[s] = op /\ snd[s] = <<>>

Finish(s, op) ==
    /\ sop' = [sop EXCEPT ![s] = op]
    /\ UNCHANGED <<vars, load, rop, eof, got>>

(* ---------------------------- The constructors -------------------------- *)

\* NewServerStreamClient has its call and marshals and sends the request.  If
\* either fails, nobody is left to close the call.
NewServerStreamClient ==
    /\ cl = "open" /\ sop["client"] = "new"
    /\ \/ Finish("client", "failed")
       \/ Within("client", 1) /\ StartData("client", "request")

ServerStreamClientMade ==
    /\ Returned("client", "request")
    /\ Finish("client", IF sret["client"] = "ok" THEN "idle" ELSE "failed")

\* NewServerStreamServer receives the request.
NewServerStreamServer ==
    /\ srv = "handler" /\ sop["server"] = "new" /\ rop["server"] = "idle"
    /\ Recv("server")
    /\ rop' = [rop EXCEPT !["server"] = "recv"]
    /\ UNCHANGED <<load, sop, eof, got>>

Decoded(r) == r.kind = "message" /\ r.val \notin Garbled

ServerStreamServerMade ==
    /\ sop["server"] = "new"
    /\ rop["server"] = "recv" /\ rcv["server"] = "idle"
    /\ rop' = [rop EXCEPT !["server"] = "idle"]
    /\ IF Decoded(ret["server"])
       THEN /\ sop' = [sop EXCEPT !["server"] = "idle"]
            /\ got' = [got EXCEPT !["server"] = Append(@, ret["server"].val)]
            /\ UNCHANGED vars
       ELSE /\ sop' = [sop EXCEPT !["server"] = "failed"]
            /\ HandlerFails
            /\ UNCHANGED got
    /\ UNCHANGED <<load, eof>>

(* ------------------------------- Sending -------------------------------- *)

StreamSend(s) ==
    /\ Ready(s) /\ Sends(s) /\ sop[s] = "idle" /\ Within(s, 1)
    /\ StartData(s, "send")

CloseSend(s) ==
    /\ Ready(s) /\ kind = "bidi" /\ sop[s] = "idle" /\ Within(s, 1)
    /\ Start(s, "close", NewCloseMessage)

SendAndClose ==
    /\ Ready("server") /\ kind = "client" /\ sop["server"] = "idle"
    /\ Within("server", 2)
    /\ StartData("server", "reply")

\* CloseAndRecv, up to its SendClose.
CloseAndRecv ==
    /\ Ready("client") /\ kind = "client"
    /\ sop["client"] = "idle" /\ rop["client"] = "idle"
    /\ Within("client", 1)
    /\ Start("client", "final", NewCloseMessage)

SendReturns(s) ==
    /\ Returned(s, "send") \/ Returned(s, "close")
    /\ Finish(s, "idle")

SendAndCloseGoesOn ==
    /\ Returned("server", "reply")
    /\ IF sret["server"] = "ok"
       THEN Start("server", "close", NewCloseMessage)
       ELSE Finish("server", "idle")

(* ------------------------------ Receiving ------------------------------- *)

\* Recv: nothing is asked of the call any more once eof is set.
StartRecv(s) ==
    /\ rop[s] = "idle" /\ ~eof[s]
    /\ Recv(s)
    /\ rop' = [rop EXCEPT ![s] = "recv"]

StreamRecv(s) ==
    /\ Ready(s) /\ Receives(s)
    /\ StartRecv(s)
    /\ UNCHANGED <<load, sop, eof, got>>

\* The Recv of CloseAndRecv.
CloseAndRecvGoesOn ==
    /\ Returned("client", "final")
    /\ sop' = [sop EXCEPT !["client"] = "idle"]
    /\ IF sret["client"] = "ok" /\ ~eof["client"]
       THEN StartRecv("client")
       ELSE UNCHANGED <<vars, rop>>
    /\ UNCHANGED <<load, eof, got>>

\* Mutant: io.EOF is returned and forgotten.
SeesEof_Not(s) == FALSE

SeesEof(s) == ret[s].kind = "eof"

RecvReturned(s) ==
    /\ sop[s] # "new" /\ rop[s] = "recv" /\ rcv[s] = "idle"
    /\ rop' = [rop EXCEPT ![s] = "idle"]
    /\ eof' = [eof EXCEPT ![s] = @ \/ SeesEof(s)]
    /\ got' = [got EXCEPT ![s] = IF Decoded(ret[s]) THEN Append(@, ret[s].val) ELSE @]
    /\ UNCHANGED <<vars, load, sop>>

StreamCancel(s) == Cancel(s) /\ UNCHANGED streamCallVars

(* ------------------------------ The system ------------------------------ *)

\* The handler returns while no operation of its stream is under way.
HandlerEnds ==
    /\ Ready("server") /\ sop["server"] = "idle" /\ rop["server"] = "idle"
    /\ HandlerReturns \/ HandlerFails
    /\ UNCHANGED streamCallVars

\* What the goroutines that send and receive do when their Conn has returned.
Sender(s) ==
    \/ SendReturns(s)
    \/ s = "client" /\ (ServerStreamClientMade \/ CloseAndRecvGoesOn)
    \/ s = "server" /\ SendAndCloseGoesOn

Receiver(s) ==
    \/ RecvReturned(s)
    \/ s = "server" /\ ServerStreamServerMade

Wrappers == \E s \in Sides : Sender(s) \/ Receiver(s)

User ==
    \/ NewServerStreamClient \/ NewServerStreamServer
    \/ SendAndClose \/ CloseAndRecv \/ HandlerEnds
    \/ \E s \in Sides :
          StreamSend(s) \/ CloseSend(s) \/ StreamRecv(s) \/ StreamCancel(s)

Below ==
    \/ Invoke \/ InvokeFails \/ InvokeSent \/ InvokeSendFails
    \/ Accept \/ Dispatch \/ Reject \/ ErrorSent \/ ServerCloses \/ Drop
    \/ \E s \in Sides :
          ReaderStep(s) \/ RecvStep(s) \/ SendStep(s) \/ Expire(s)

StreamNext == User \/ Wrappers \/ (Below /\ UNCHANGED streamCallVars)

StreamSpec == StreamCallInit /\ [][StreamNext]_<<vars, streamCallVars>>

StreamFairSpec ==
    /\ StreamSpec /\ Fairness
    /\ \A s \in Sides :
          /\ WF_<<vars, streamCallVars>>(Sender(s))
          /\ WF_<<vars, streamCallVars>>(Receiver(s))

(* ------------------------------ Properties ------------------------------ *)

\* The fields keep their types, and an operation of a stream is under way only
\* where its interface has it: no stream object exists without its call.
StreamTypeOK ==
    /\ load \in Loads
    /\ sop \in [Sides -> SendOps] /\ rop \in [Sides -> {"idle", "recv"}]
    /\ eof \in [Sides -> BOOLEAN] /\ got \in [Sides -> Seq(Payloads)]
    /\ \A s \in Sides : sop[s] \notin {"idle", "new", "failed"} => InUse(s)
    /\ \A s \in Sides :
          rop[s] = "idle" => rcv[s] = "idle" \/ (s = "server" /\ srv = "method")

\* The stream objects use a call the way MuxCall lets any two users do.
StreamIsACall == Spec

\* The messages of q up to its first CLOSE, without it.
Closes(q) == {i \in 1 .. Len(q) : IsClose(q[i])}
Open(q) == IF Closes(q) = {} THEN q ELSE SubSeq(q, 1, Min(Closes(q)) - 1)

\* The messages whose payload decodes.
Readings == {m \in Messages : m.type = "DATA" /\ m.data \notin Garbled}

\* What Recv of a stream makes of the messages in q: the payloads up to the
\* first CLOSE, without those that do not decode.
Stream(q) ==
    LET readings == Picked(Open(q), Readings)
    IN  [n \in DOMAIN readings |-> readings[n].data]

\* A stream yields what its peer sent before closing, in order and nothing
\* after it; when it reports io.EOF, for the first time or again, it has yielded
\* everything, unless the pipe broke.
StreamYieldsAll ==
    \A s \in Sides :
       LET all == Stream(sent[Peer(s)])
       IN  /\ Len(got[s]) <= Len(all) /\ got[s] = SubSeq(all, 1, Len(got[s]))
           /\ eof[s] /\ ~Broken => got[s] = all

\* CloseAndRecv returns once the handler is done, or the connection gone: it
\* blocks neither in its SendClose nor in its Recv.
CloseAndRecvReturns ==
    /\ kind = "client" /\ PeerEnded("client")
    /\ sop["client"] = "final" \/ rop["client"] = "recv"
    ~> sop["client"] # "final" /\ rop["client"] # "recv"

(* ----------------------- The inductive invariant ------------------------ *)

\* The data of a DATA message is a payload.
Sound(m) == m.type = "DATA" => m.data \in Payloads

\* Only payloads are sent as DATA, and only they are received.
PayloadsSent ==
    \A s \in Sides :
       /\ \A i \in 1 .. Len(sent[s]) : Sound(sent[s][i])
       /\ \A i \in 1 .. Len(snd[s]) : Sound(snd[s][i])

PayloadsReceived ==
    /\ \A s \in Sides :
          rop[s] = "recv" /\ ret[s].kind = "message" => ret[s].val \in Payloads
    /\ srv \in {"none", "method"} => rop["server"] = "idle"

\* SendAndClose has room for its CLOSE.
Replying ==
    sop["server"] = "reply" =>
        Len(sent["server"]) + Len(snd["server"]) + 1 <= load.most["server"]

\* What the Recv under way has to add to got, and that it has come to the end.
Coming(s) == IF rop[s] = "recv" /\ Decoded(ret[s]) THEN <<ret[s].val>> ELSE <<>>
AtEof(s) == eof[s] \/ (rop[s] = "recv" /\ ret[s].kind = "eof")

\* s has made of what it took what Stream makes of it, asks for nothing after a
\* CLOSE, and is at the end of the stream for one of two reasons only.
Follows(s) ==
    /\ got[s] \o Coming(s) = Stream(taken[s])
    /\ Closes(taken[s]) # {} => rcv[s] = "idle" /\ (AtEof(s) \/ sop[s] = "failed")
    /\ AtEof(s) => Closes(taken[s]) # {} \/ (rd[s] = "exit" /\ Ended(s))

\* There was no handler so far.
Untouched == got["server"] = <<>> /\ ~eof["server"] /\ rop["server"] = "idle"

\* All that RecvMethod takes is one message, INVOKE if a handler is looked up.
MethodFirst ==
    /\ srv = "none" => taken["server"] = <<>> /\ ret["server"] = NoResult
    /\ srv = "method" /\ rcv["server"] = "wait" => taken["server"] = <<>>
    /\ srv = "method" /\ ret["server"].kind = "message" =>
          Len(taken["server"]) = 1 /\ taken["server"][1].type = "INVOKE"

Yielding ==
    /\ Follows("client")
    /\ srv \in {"none", "method"} => Untouched
    /\ srv \in {"handler", "error", "closing"} => Follows("server")
    /\ srv = "done" => Follows("server") \/ Untouched

\* A Recv that waits has no result yet, and none is started after io.EOF.
Asking ==
    \A s \in Sides :
       /\ rcv[s] = "wait" => ret[s] = NoResult
       /\ eof[s] => rop[s] = "idle" /\ sop[s] # "new"

YieldInv == MethodFirst /\ Yielding /\ Asking

StreamInv ==
    /\ TypeOK /\ Inv /\ StreamTypeOK
    /\ PayloadsSent /\ PayloadsReceived /\ Replying
    /\ YieldInv
=============================================================================
