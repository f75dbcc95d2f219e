------------------------------ MODULE MuxCall ------------------------------
(***************************************************************************)
(* One call over a multiplexed connection, the way the tcp, unix and       *)
(* websocket transports make it (transport/common): InvokeMux opens a      *)
(* stream and names the method, a goroutine of AcceptMux looks its handler *)
(* up, runs it, reports its error and closes the stream.                   *)
(*                                                                         *)
(* The caller and the handler are as general as the interface Conn allows: *)
(* each may send payloads, send CLOSE and receive, in any order and both   *)
(* at once; the caller may close the stream at any moment, and either may  *)
(* give a Recv up.  The session under the stream may end at any moment.    *)
(***************************************************************************)
EXTENDS CallConn

CONSTANTS
    Invoked,    \* methods the caller may invoke
    Handlers,   \* keys of the map BaseTransport.Handlers, fixed during a call
    Payloads,   \* encodings of requests and responses
    ErrorTexts, \* texts of the errors a handler may return
    MaxSent     \* bounds the messages a side has written, INVOKE included, when
                \* its user starts to send another

ASSUME ConstantsAssumption ==
    /\ Invoked \subseteq Methods /\ Handlers \subseteq Methods
    /\ Payloads \subseteq Segments /\ ErrorTexts \subseteq Segments
    /\ {NoErr, Torn, ReadErr} \cap ErrorTexts = {}
    /\ MaxSent \in [Sides -> Nat]

VARIABLES
    cl,     \* the caller: "init", "invoking", "open", "closed" or "failed"
    srv,    \* the goroutine of AcceptMux: where it is
    hres    \* what the handler returned: "none", "nil", "error" or "panic"

callVars == <<cl, srv, hres>>
vars == <<streamVars, connVars, callVars>>

CallerStates == {"init", "invoking", "open", "closed", "failed"}
ServerStates == {"none", "method", "handler", "error", "closing", "done"}

Init ==
    /\ StreamInit /\ ConnInit
    /\ cl = "init" /\ srv = "none" /\ hres = "none"

(* -------------------------- InvokeMux, caller --------------------------- *)

\* mux.Open and NewConn succeed; SendMethod is under way.  Nothing can have
\* set err in between: the peer has not been told of the stream's method yet.
Invoke ==
    /\ cl = "init" /\ link = "up"
    /\ cl' = "invoking"
    /\ StartReader("client")
    /\ \E m \in Invoked : snd' = [snd EXCEPT !["client"] = <<NewCallMessage(m)>>]
    /\ UNCHANGED <<streamVars, hand, err, rcv, ret, taken, sret, srv, hres>>

InvokeFails ==
    /\ cl = "init" /\ link = "down"
    /\ cl' = "failed"
    /\ UNCHANGED <<streamVars, connVars, srv, hres>>

InvokeSent ==
    /\ cl = "invoking" /\ snd["client"] = <<>> /\ sret["client"] = "ok"
    /\ cl' = "open"
    /\ UNCHANGED <<streamVars, connVars, srv, hres>>

InvokeSendFails ==
    /\ cl = "invoking" /\ snd["client"] = <<>> /\ sret["client"] # "ok"
    /\ cl' = "failed"
    /\ CloseHalf("client", FALSE)
    /\ UNCHANGED <<connVars, srv, hres>>

\* Conn.Close, also while a Send or a Recv is under way.
CallerCloses ==
    /\ cl = "open"
    /\ cl' = "closed"
    /\ CloseHalf("client", Sending["client"])
    /\ UNCHANGED <<connVars, srv, hres>>

(* ----------------------- AcceptMux, one goroutine ----------------------- *)

\* mux.Accept, NewConn and the entry to RecvMethod: err is still nil.
Accept ==
    /\ srv = "none" /\ cl # "init" /\ link = "up"
    /\ srv' = "method"
    /\ StartReader("server")
    /\ rcv' = [rcv EXCEPT !["server"] = "wait"]
    /\ UNCHANGED <<streamVars, hand, err, ret, taken, snd, sret, cl, hres>>

\* The bytes of the INVOKE message, read as a method, are a key of Handlers.
Found == NewMethodFromString(ret["server"].val) \in Handlers

\* The whole server goroutine waits for RecvMethod.
MethodReceived ==
    /\ srv = "method" /\ rcv["server"] = "idle"
    /\ ret["server"].kind = "message"

Dispatch ==
    /\ MethodReceived /\ Found
    /\ srv' = "handler"
    /\ UNCHANGED <<streamVars, connVars, cl, hres>>

\* No method arrived or nobody handles it: the stream is closed in silence.
Reject ==
    /\ srv = "method" /\ rcv["server"] = "idle"
    /\ ~(MethodReceived /\ Found)
    /\ srv' = "done"
    /\ CloseHalf("server", FALSE)
    /\ UNCHANGED <<connVars, cl, hres>>

HandlerIdle == srv = "handler" /\ rcv["server"] = "idle" /\ snd["server"] = <<>>

\* The handler returns nil, or panics: recover swallows the panic.
HandlerReturns ==
    /\ HandlerIdle
    /\ hres' \in {"nil", "panic"}
    /\ srv' = "closing"
    /\ UNCHANGED <<streamVars, connVars, cl>>

\* The handler returns an error: SendError.
HandlerFails ==
    /\ HandlerIdle
    /\ hres' = "error"
    /\ srv' = "error"
    /\ \E e \in ErrorTexts : BeginSend("server", NewErrorMessage(e))
    /\ UNCHANGED <<streamVars, rd, hand, err, rcv, ret, taken, cl>>

\* Mutant: SendError is started (go call.SendError) and not waited for.
ErrorWritten_NoWait == TRUE

\* SendError has returned.
ErrorWritten == snd["server"] = <<>>

ErrorSent ==
    /\ srv = "error" /\ ErrorWritten
    /\ srv' = "closing"
    /\ UNCHANGED <<streamVars, connVars, cl, hres>>

\* The deferred conn.Close.
ServerCloses ==
    /\ srv = "closing"
    /\ srv' = "done"
    /\ CloseHalf("server", FALSE)
    /\ UNCHANGED <<connVars, cl, hres>>

(* ------------------------ The users of both ends ------------------------ *)

InUse(s) == IF s = "client" THEN cl \in {"open", "closed"} ELSE srv = "handler"

\* Conn.Send and Conn.SendClose.
Send(s) ==
    /\ InUse(s) /\ Len(sent[s]) < MaxSent[s]
    /\ \E m \in {NewDataMessage(d) : d \in Payloads} \cup {NewCloseMessage} :
          BeginSend(s, m)
    /\ UNCHANGED <<streamVars, rd, hand, err, rcv, ret, taken, callVars>>

\* Conn.Recv.
Recv(s) == InUse(s) /\ RecvBegin(s) /\ UNCHANGED callVars

Cancel(s) == InUse(s) /\ RecvCancel(s) /\ UNCHANGED callVars

Want(s) == IF s = "server" /\ srv = "method" THEN "INVOKE" ELSE "DATA"

(* ------------------------------ The system ------------------------------ *)

ReaderStep(s) == Reader(s) /\ UNCHANGED callVars
RecvStep(s) == RecvProceeds(s, Want(s)) /\ UNCHANGED callVars
SendStep(s) == SendProceeds(s) /\ UNCHANGED callVars
Drop == LinkDown(Sending) /\ UNCHANGED <<connVars, callVars>>
Expire(s) == CloseTimeout(s, Sending) /\ UNCHANGED <<connVars, callVars>>

Caller == Invoke \/ InvokeFails \/ InvokeSent \/ InvokeSendFails \/ CallerCloses

Server ==
    \/ Accept \/ Dispatch \/ Reject
    \/ HandlerReturns \/ HandlerFails \/ ErrorSent \/ ServerCloses

Next ==
    \/ Caller \/ Server \/ Drop
    \/ \E s \in Sides :
          \/ Send(s) \/ Recv(s) \/ Cancel(s)
          \/ ReaderStep(s) \/ RecvStep(s) \/ SendStep(s) \/ Expire(s)

\* Goroutines that can run do run, and yamux's timer goes off.  Nothing is
\* assumed of the users of the call, nor of the network.
Fairness ==
    /\ WF_vars(InvokeSent \/ InvokeSendFails)
    /\ WF_vars(Accept \/ Dispatch \/ Reject \/ ErrorSent \/ ServerCloses)
    /\ \A s \in Sides :
          /\ WF_vars(ReaderStep(s)) /\ WF_vars(RecvStep(s))
          /\ WF_vars(SendStep(s)) /\ WF_vars(Expire(s))

Spec == Init /\ [][Next]_vars
FairSpec == Spec /\ Fairness

(* ------------------------------ Properties ------------------------------ *)

\* No variable leaves its type, and each reader holds a message exactly while it
\* has one to offer (run of conn.go); it is started with its end of the stream.
TypeOK ==
    /\ link \in {"up", "down"}
    /\ fin \in [Sides -> BOOLEAN] /\ rst \in [Sides -> BOOLEAN]
    /\ cut \in [Sides -> BOOLEAN]
    /\ wire \in [Sides -> Seq(Messages)] /\ sent \in [Sides -> Seq(Messages)]
    /\ rd \in [Sides -> ReaderStates]
    /\ hand \in [Sides -> Seq(Messages)]
    /\ \A s \in Sides : Len(hand[s]) = IF rd[s] \in {"store", "offer", "last"} THEN 1 ELSE 0
    /\ cl = "init" => rd["client"] = "none"
    /\ srv = "none" => rd["server"] = "none"
    /\ err \in [Sides -> Segments]
    /\ rcv \in [Sides -> RecvStates]
    /\ ret \in [Sides -> Results]
    /\ taken \in [Sides -> Seq(Messages)]
    /\ snd \in [Sides -> Seq(Messages)] /\ \A s \in Sides : Len(snd[s]) <= 1
    /\ sret \in [Sides -> {"none", "ok", "err", "failed"}]
    /\ cl \in CallerStates /\ srv \in ServerStates
    /\ hres \in {"none", "nil", "error", "panic"}

\* The pipe broke: the session ended or the stream was reset.
Broken == link = "down" \/ \E s \in Sides : rst[s]

\* The last Recv of s reported the end of the call.
AtEnd == [s \in Sides |-> ret[s].kind = "eof"]

\* Seen from its users a call is a reliable duplex pipe, between whatever run,
\* the channel and yamux do below Send and Recv.
Pipe == INSTANCE DuplexPipe WITH
    Ends <- Sides, Other <- Peer, Message <- Messages,
    IsClose <- IsClose,
    out <- sent, in <- taken, closed <- fin, broken <- Broken,
    eof <- AtEnd

\* A method the caller names and a handler is registered for is dispatched.
RegisteredIsDispatched ==
    \A m \in Invoked \cap Handlers :
       MethodReceived /\ Head(sent["client"]) = NewCallMessage(m) => Found

\* Every call behaves as a DuplexPipe: callConn.Recv hands out the messages of
\* the peer once and in order, and reports io.EOF for nothing but their end.
PipeSpec == Pipe!Spec

\* An error never overtakes data.  run sets the field err before it offers the
\* ERROR message, and Send and Recv look at err first; still, when Recv returns
\* the error of the handler, everything sent before it has been received.
ErrorAfterData ==
    ret["client"].kind = "error" /\ ret["client"].val \in ErrorTexts \cup {Torn}
        => Len(taken["client"]) + 1 >= Len(sent["server"])

\* While the caller keeps the call open and nothing broke, it never takes the
\* failure of a handler for the end of the call: io.EOF without a CLOSE message
\* means that the handler returned nil, panicked or was never found.
CleanEndMeansNoError ==
    /\ ret["client"].kind = "eof" /\ cl = "open" /\ ~Broken
    /\ \A i \in 1 .. Len(taken["client"]) : ~IsClose(taken["client"][i])
    => srv = "done" /\ hres # "error"

\* Recv has returned an error and no other goroutine is still at it.
Failed(s) ==
    /\ ret[s].kind = "error" /\ rcv[s] = "idle" /\ rd[s] # "store"
    /\ snd[s] = <<>>

\* The first error Recv returns is the last word on the call: every later Recv
\* returns an error too and no later Send passes a message on, whether the error
\* came from the peer (stored by run and by Recv) or from Decode (by Recv only).
ErrorIsFinal == [][\A s \in Sides : Failed(s) => Failed(s)']_vars

\* A handler that fails has its error on the wire before the stream is closed,
\* unless the stream broke or the caller closed its half in mid-message.
HandlerErrorIsSent ==
    srv = "done" /\ hres = "error" /\ ~Broken /\ ~cut["client"]
        => sent["server"] # <<>> /\ IsError(sent["server"][Len(sent["server"])])

\* A blocked Recv returns once its peer has closed the stream or the session is
\* gone, whatever is still buffered and whichever goroutine is behind.
BlockedRecvReturns ==
    \A s \in Sides : rcv[s] = "wait" /\ PeerEnded(s) ~> rcv[s] # "wait"

\* A Send blocked on a peer that does not read returns once that peer has closed
\* its half: at the latest when yamux resets the stream.
BlockedSendReturns ==
    \A s \in Sides : snd[s] # <<>> /\ PeerEnded(s) ~> snd[s] = <<>>

(* ----------------------- The inductive invariant ------------------------ *)

\* got, then held, then queued are a prefix of out: all of it, if whole.
Aligned(got, held, queued, out, whole) ==
    /\ Len(got) + Len(held) + Len(queued) <= Len(out)
    /\ whole => Len(got) + Len(held) + Len(queued) >= Len(out)
    /\ \A i \in 1 .. Len(got) : got[i] = out[i]
    /\ \A i \in 1 .. Len(held) : held[i] = out[Len(got) + i]
    /\ \A i \in 1 .. Len(queued) : queued[i] = out[Len(got) + Len(held) + i]

\* What s took, holds and has still to read is, in this order, what its peer
\* wrote, and all of it as long as nothing broke.
InOrder(s) == Aligned(taken[s], hand[s], wire[Peer(s)], sent[Peer(s)], ~Broken)

\* The only true end of what s receives.
Ended(s) == Broken \/ (fin[Peer(s)] /\ taken[s] = sent[Peer(s)])

\* A reader is gone for one of two reasons, and only the end of the stream lets
\* a Recv wait for the closed channel.
ReaderGone(s) ==
    /\ rd[s] = "exit" => Ended(s) \/ err[s] # NoErr \/ rcv[s] = "store"
    /\ rd[s] = "exit" /\ rcv[s] = "wait" => Ended(s)
    /\ rd[s] = "last" => err[s] # NoErr

\* An error that was returned is kept, once the goroutine storing it is done.
ErrorKept(s) ==
    /\ rcv[s] = "store" => ret[s].kind = "error" /\ ret[s].val \notin {NoErr, Torn}
    /\ rd[s] = "store" => IsError(hand[s][1])
    /\ err[s] # Torn
    /\ ret[s].kind = "error" /\ rcv[s] = "idle" /\ rd[s] # "store" => err[s] # NoErr

\* With an error the reader is done: it decodes nothing more.
ReaderDone(s) ==
    /\ rd[s] = "offer" => ~IsError(hand[s][1])
    /\ rcv[s] = "store" \/ err[s] # NoErr => rd[s] \in {"last", "exit"}

\* Only the server sends an ERROR, its last message, and its text is not empty.
ErrorsInOrder ==
    /\ \A i \in 1 .. Len(sent["client"]) : ~IsError(sent["client"][i])
    /\ \A i \in 1 .. Len(snd["client"]) : ~IsError(snd["client"][i])
    /\ \A i \in 1 .. Len(snd["server"]) :
          IsError(snd["server"][i]) => srv = "error" /\ snd["server"][i].data \in ErrorTexts
    /\ \A i \in 1 .. Len(sent["server"]) :
          IsError(sent["server"][i]) =>
             /\ i = Len(sent["server"])
             /\ sent["server"][i].data \in ErrorTexts
             /\ snd["server"] = <<>> /\ srv \in {"error", "closing", "done"}
    /\ srv \in {"none", "method", "closing", "done"} => snd["server"] = <<>>

\* The client has decoded the ERROR of the server, hence everything.
ErrorReached ==
    LET n == Len(sent["server"])
    IN  /\ n > 0 /\ IsError(sent["server"][n])
        /\ Len(taken["client"]) + Len(hand["client"]) >= n

ErrorKnown ==
    /\ rd["client"] = "store" => ErrorReached
    /\ err["client"] \in ErrorTexts => ErrorReached
    /\ ret["client"].kind = "error" /\ ret["client"].val \in ErrorTexts \cup {Torn}
          => ErrorReached

Inv ==
    /\ \A s \in Sides :
          /\ InOrder(s) /\ ReaderGone(s) /\ ErrorKept(s) /\ ReaderDone(s)
          /\ rst[Peer(s)] => fin[s]
    /\ ErrorsInOrder
    /\ ErrorKnown

(* ------------------ The invariant of how a call ends -------------------- *)

\* The server closes its half last and whole; the caller's is open while the
\* call is, and only its Close can cut it short.
EndsInOrder ==
    /\ fin["server"] => srv = "done"
    /\ cut["server"] => Broken
    /\ fin["client"] => cl \in {"closed", "failed"}
    /\ cut["client"] /\ ~Broken => cl \in {"closed", "failed"}

\* Nothing goes wrong for a server whose caller sends whole messages.
ServerReads ==
    ~Broken /\ ~cut["client"] =>
       /\ err["server"] = NoErr /\ rcv["server"] # "store"
       /\ rd["server"] \notin {"store", "failed"}

LastIsError == sent["server"] # <<>> /\ IsError(sent["server"][Len(sent["server"])])

\* The error of the handler is on its way or sent.
ErrorDue ==
    hres = "error" /\ ~Broken /\ ~cut["client"] =>
       \/ srv = "error" /\ snd["server"] # <<>> /\ IsError(Head(snd["server"]))
       \/ srv \in {"error", "closing", "done"} /\ LastIsError

\* Whoever took an ERROR is told of nothing else.
ErrorTaken ==
    (\E i \in 1 .. Len(taken["client"]) : IsError(taken["client"][i])) =>
       /\ ret["client"].kind = "error"
       /\ rcv["client"] = "store" \/ (rcv["client"] = "idle" /\ err["client"] # NoErr)

\* An error the client is told of, and not for a pipe that broke, is the one the
\* handler returned (or torn).
ErrorTold ==
    ~Broken =>
       LET last == sent["server"][Len(sent["server"])]
       IN  /\ rd["client"] # "failed"
           /\ err["client"] # NoErr => LastIsError /\ err["client"] = last.data
           /\ ret["client"].kind = "error" =>
                 LastIsError /\ ret["client"].val \in {last.data, Torn}

\* io.EOF stands for a CLOSE or for the end of the stream.
EofIsEnd ==
    ret["client"].kind = "eof" /\ ~Broken =>
       \/ \E i \in 1 .. Len(taken["client"]) : IsClose(taken["client"][i])
       \/ fin["server"] /\ taken["client"] = sent["server"]

EndInv ==
    EndsInOrder /\ ServerReads /\ ErrorDue /\ ErrorTaken /\ ErrorTold /\ EofIsEnd
=============================================================================
