------------------------------ MODULE MqttCall ------------------------------
(***************************************************************************)
(* One call over MQTT: Invoke and Close on the client (transport/mqtt,     *)
(* paho.go and conn.go) and, on the server, the callback of the method's   *)
(* topic and the goroutine that runs the handler (paho.go).  The client    *)
(* subscribes, publishes an INVOKE on a topic the servers share and waits  *)
(* for an ACK, which the server sends once it has subscribed.              *)
(*                                                                         *)
(* The caller and the handler use their Conn as they like; the goroutine   *)
(* that closes the client's is the one that sends and receives.            *)
(*                                                                         *)
(* Method.String and NewMethodFromString do not fit together (see module   *)
(* Method), so no lookup succeeds in this version; here it is left open    *)
(* whether the server finds a handler.                                     *)
(***************************************************************************)
EXTENDS MqttConn, Picks

CONSTANTS
    Payloads,       \* encodings of requests and responses
    ErrorTexts,     \* texts of the errors a handler may return
    MaxSent         \* bounds how many messages a side has published on the call

ASSUME MqttAssumption ==
    /\ Payloads \subseteq Segments /\ ErrorTexts \subseteq Segments
    /\ MaxSent \in [Sides -> Nat]

VARIABLES
    cl,     \* Invoke and Close of the client: where they are
    srv,    \* the server's goroutine, or the callback before it: where it is
    hres    \* what the handler returned: "none", "nil", "error" or "panic"

callVars == <<cl, srv, hres>>
vars == <<netVars, routerVars, userVars, callVars>>

ClientStates == {"init", "subControl", "subData", "invoke", "ack", "open",
                 "unsubControl", "unsubData", "closed"}
ServerStates == {"none", "subControl", "subData", "start", "ack", "handler", "final",
                 "unsubControl", "unsubData", "done"}

Init == ConnInit /\ cl = "init" /\ srv = "none" /\ hres = "none"

ClientGoes(state) == cl' = state /\ UNCHANGED <<srv, hres>>
ServerGoes(state) == srv' = state /\ UNCHANGED <<cl, hres>>

(* ------------------------------ The client ------------------------------ *)

\* newConn, not for the server.
NewClientConn ==
    \/ /\ cl = "init"
       /\ Subscribe("client", Control("server")) /\ ClientGoes("subControl")
       /\ UNCHANGED <<routerVars, userVars>>
    \/ /\ cl = "subControl" /\ AllAcked("client")
       /\ Subscribe("client", Data("server")) /\ ClientGoes("subData")
       /\ UNCHANGED <<routerVars, userVars>>

\* Mutant: the INVOKE leaves before the data topic is subscribed to.
InvokeStarts_Early ==
    /\ cl = "subControl" /\ AllAcked("client")
    /\ Publish("client", Invocation) /\ ClientGoes("invoke")
    /\ UNCHANGED <<routerVars, userVars>>

\* callConn.Invoke publishes the INVOKE, which is not a message of the call yet.
InvokeStarts ==
    /\ cl = "subData" /\ AllAcked("client")
    /\ Publish("client", Invocation) /\ ClientGoes("invoke")
    /\ UNCHANGED <<routerVars, userVars>>

\* The token is done; RecvAck.
InvokeSent ==
    /\ cl = "invoke" /\ AllAcked("client")
    /\ RecvBegin("client") /\ ClientGoes("ack")

InvokeReturns ==
    /\ cl = "ack" /\ rcv["client"] = "idle" /\ ret["client"] = "ack"
    /\ ClientGoes("open")
    /\ UNCHANGED <<netVars, routerVars, userVars>>

\* Close: by Invoke, when there was no ACK in time, or by the caller.
ClientCloses ==
    /\ \/ cl = "ack" /\ ret["client"] # "ack"
       \/ cl = "open"
    /\ rcv["client"] = "idle" /\ snd["client"] = 0
    /\ Unsubscribe("client", Control("server")) /\ ClientGoes("unsubControl")
    /\ UNCHANGED <<routerVars, userVars>>

ClientClosing ==
    /\ cl \in {"unsubControl", "unsubData"} /\ AllAcked("client")
    /\ IF cl = "unsubControl"
       THEN Unsubscribe("client", Data("server")) /\ ClientGoes("unsubData")
       ELSE ClientGoes("closed") /\ UNCHANGED netVars
    /\ UNCHANGED <<routerVars, userVars>>

(* ------------------------------ The server ------------------------------ *)

\* The callback of the method's topic, which has found no handler.
Ignore ==
    /\ cb["server"] = "invoke" /\ srv = "none"
    /\ CallbackDone("server")
    /\ UNCHANGED <<netVars, buf, err, userVars, callVars>>

\* The callback runs newConn, and the router waits for it.
NewServerConn ==
    \/ /\ cb["server"] = "invoke" /\ srv = "none"
       /\ Subscribe("server", Control("client")) /\ ServerGoes("subControl")
       /\ UNCHANGED <<routerVars, userVars>>
    \/ /\ srv = "subControl" /\ AllAcked("server")
       /\ Subscribe("server", Data("client")) /\ ServerGoes("subData")
       /\ UNCHANGED <<routerVars, userVars>>

\* The callback starts the goroutine and returns.
CallbackReturns ==
    /\ srv = "subData" /\ AllAcked("server")
    /\ CallbackDone("server")
    /\ ServerGoes("start")
    /\ UNCHANGED <<netVars, buf, err, userVars>>

SendAck ==
    /\ srv = "start"
    /\ BeginSend("server", NewAckMessage)
    /\ ServerGoes("ack")
    /\ UNCHANGED <<routerVars, rcv, ret, taken>>

\* The handler runs if the broker has the ACK in time.
RunHandler == srv = "ack" /\ SendAcked("server") /\ ServerGoes("handler")

AckExpires == srv = "ack" /\ SendExpires("server") /\ ServerGoes("final")

HandlerIdle == srv = "handler" /\ rcv["server"] = "idle" /\ snd["server"] = 0

\* SendClose or SendError, with a deadline set before the handler started.
HandlerReturns ==
    /\ HandlerIdle
    /\ \/ hres' = "nil" /\ BeginSend("server", NewCloseMessage)
       \/ hres' = "error" /\ \E e \in ErrorTexts : BeginSend("server", NewErrorMessage(e))
    /\ srv' = "final"
    /\ UNCHANGED <<routerVars, rcv, ret, taken, cl>>

\* The deferred Close, also after an ACK that was not sent in time.
CloseServerConn ==
    /\ srv = "final" /\ snd["server"] = 0
    /\ Unsubscribe("server", Control("client")) /\ ServerGoes("unsubControl")
    /\ UNCHANGED <<routerVars, userVars>>

\* The handler panics: recover, and nothing is sent.
HandlerPanics ==
    /\ HandlerIdle
    /\ hres' = "panic" /\ srv' = "unsubControl"
    /\ Unsubscribe("server", Control("client"))
    /\ UNCHANGED <<routerVars, userVars, cl>>

ServerClosing ==
    /\ srv \in {"unsubControl", "unsubData"} /\ AllAcked("server")
    /\ IF srv = "unsubControl"
       THEN Unsubscribe("server", Data("client")) /\ ServerGoes("unsubData")
       ELSE ServerGoes("done") /\ UNCHANGED netVars
    /\ UNCHANGED <<routerVars, userVars>>

(* ------------------------ The users of both ends ------------------------ *)

InUse(s) == IF s = "client" THEN cl = "open" ELSE srv = "handler"

Send(s) ==
    /\ InUse(s) /\ Len(sent[s]) < MaxSent[s]
    /\ \E m \in {NewDataMessage(d) : d \in Payloads} \cup {NewCloseMessage} :
          BeginSend(s, m)
    /\ UNCHANGED <<routerVars, rcv, ret, taken, callVars>>

\* A Send other than that of the ACK is under way.
Sending(s) == ~(s = "server" /\ srv = "ack")

Recv(s) == InUse(s) /\ RecvBegin(s) /\ UNCHANGED callVars

(* ------------------------------ The system ------------------------------ *)

Router(s) == (Callback(s) \/ CallbackStores(s) \/ CallbackPushes(s)) /\ UNCHANGED callVars
Network(s) == Incoming(s) /\ UNCHANGED callVars
RecvStep(s) == RecvTakes(s) /\ UNCHANGED callVars
SendStep(s) == Sending(s) /\ SendAcked(s) /\ UNCHANGED callVars
SendDeadline(s) == Sending(s) /\ SendExpires(s) /\ UNCHANGED callVars
RecvDeadline(s) == RecvExpires(s) /\ UNCHANGED callVars

Client == NewClientConn \/ InvokeStarts \/ InvokeSent \/ InvokeReturns \/ ClientClosing
Server ==
    \/ NewServerConn \/ CallbackReturns \/ SendAck \/ RunHandler
    \/ CloseServerConn \/ ServerClosing

Untimed ==
    \/ Client \/ ClientCloses
    \/ Server \/ Ignore \/ AckExpires \/ HandlerReturns \/ HandlerPanics
    \/ \E s \in Sides :
          Send(s) \/ Recv(s) \/ Router(s) \/ Network(s) \/ RecvStep(s) \/ SendStep(s)

Next == Untimed \/ \E s \in Sides : SendDeadline(s) \/ RecvDeadline(s)

Fairness ==
    /\ WF_vars(Client) /\ WF_vars(Server)
    /\ \A s \in Sides :
          /\ WF_vars(Router(s)) /\ WF_vars(Network(s))
          /\ WF_vars(RecvStep(s)) /\ WF_vars(SendStep(s))

Spec == Init /\ [][Next]_vars

\* Users that keep receiving, with contexts that do not expire.
ReadingSpec ==
    Init /\ [][Untimed]_vars /\ Fairness /\ \A s \in Sides : WF_vars(Recv(s))

(* ------------------------------ Properties ------------------------------ *)

\* No variable leaves its type; a callback is under way only with a message in
\* the router, and no more messages than RouterAhead wait behind it.
TypeOK ==
    /\ inb \in [Sides -> Seq(Packets)]
    /\ subs \subseteq Topics /\ routes \subseteq Topics
    /\ issued \in [Sides -> Nat] /\ acked \in [Sides -> Nat] /\ snd \in [Sides -> Nat]
    /\ \A s \in Sides : acked[s] <= issued[s] /\ snd[s] <= issued[s]
    /\ lost \in [Sides -> BOOLEAN]
    /\ rtr \in [Sides -> Seq(Packets)]
    /\ cb \in [Sides -> {"idle", "invoke", "store", "push"}]
    /\ \A s \in Sides : cb[s] # "idle" => rtr[s] # <<>>
    /\ \A s \in Sides : Len(rtr[s]) <= RouterAhead + 1 /\ Len(buf[s]) <= 1
    /\ buf \in [Sides -> Seq(Messages)] /\ err \in [Sides -> BOOLEAN]
    /\ sent \in [Sides -> Seq(Messages)] /\ taken \in [Sides -> Seq(Messages)]
    /\ rcv \in [Sides -> {"idle", "wait"}] /\ ret \in [Sides -> RecvResults]
    /\ cl \in ClientStates /\ srv \in ServerStates
    /\ hres \in {"none", "nil", "error", "panic"}

\* The ACK is a promise: nothing either side publishes, ACK and INVOKE included,
\* arrives before its receiver has subscribed, so nothing is lost before that
\* receiver closes.  (newConn subscribes before Invoke and before SendAck.)
NothingLost ==
    /\ lost["server"] => cl \in {"unsubControl", "unsubData", "closed"}
    /\ lost["client"] => srv \in {"unsubControl", "unsubData", "done"}

(* ------------------------- The inductive invariant ---------------------- *)

\* The packets of a queue that answer a packet of its reader, and those that
\* carry a message of the call.
Acks == {p \in Packets : p.kind = "ack"}
Carriers == {p \in Packets : p.kind = "publish" /\ p.topic # CallTopic}

AcksComing(s) == Len(Picked(inb[s], Acks))
Carried(q) == LET own == Picked(q, Carriers) IN [n \in DOMAIN own |-> own[n].msg]

\* An end that is subscribed to both its topics, or is about to be.
Receiving(s) ==
    IF s = "client" THEN cl \notin {"unsubControl", "unsubData", "closed"}
                    ELSE srv \notin {"unsubControl", "unsubData", "done"}

\* Where the two ends are tells what they are subscribed to.
Subscribed ==
    /\ routes = subs /\ CallTopic \in subs
    /\ Control("server") \in subs <=> cl \notin {"init", "unsubControl", "unsubData", "closed"}
    /\ Data("server") \in subs <=> cl \notin {"init", "subControl", "unsubData", "closed"}
    /\ Control("client") \in subs <=> srv \notin {"none", "unsubControl", "unsubData", "done"}
    /\ Data("client") \in subs <=> srv \notin {"none", "subControl", "unsubData", "done"}

\* Every packet is acknowledged once.
AcksDue == \A s \in Sides : acked[s] + AcksComing(s) = issued[s]

\* What is published for s goes to its topics, or is the INVOKE for the server.
Meant(s) ==
    {p \in Packets :
       /\ p.kind = "publish"
       /\ \/ p.topic \in {Control(Peer(s)), Data(Peer(s))}
          \/ p.topic = CallTopic /\ s = "server"}

Addressed ==
    \A s \in Sides : inb[s] \in Seq(Meant(s) \cup Acks) /\ rtr[s] \in Seq(Meant(s))

\* A callback under way is that of the topic of the message it is called with.
InCallback ==
    /\ \A s \in Sides :
          cb[s] # "idle" => (cb[s] = "invoke" <=> Head(rtr[s]).topic = CallTopic)
    /\ srv \in {"subControl", "subData"} => cb["server"] = "invoke"

\* Neither end is ahead of the other: the server starts with the INVOKE, the
\* client goes on with the ACK.
Handshake ==
    /\ cl \in {"init", "subControl", "subData"} =>
          srv = "none" /\ inb["server"] = <<>> /\ rtr["server"] = <<>>
    /\ srv \in {"none", "subControl", "subData", "start"} =>
          /\ sent = Both(<<>>)
          /\ cl # "open" /\ ret["client"] # "ack"

\* A Recv runs only for a user of the call, or for Invoke.
Receivers ==
    /\ rcv["client"] = "wait" => cl \in {"ack", "open"}
    /\ rcv["server"] = "wait" => srv = "handler"

\* What an end has taken, has in its channel, in its router and coming is what
\* the other has sent; once it unsubscribes, it takes no more.
Coming(s) == Carried(rtr[s]) \o Carried(inb[s])
Transit(s) == (taken[s] \o buf[s]) \o Coming(s)

Flow ==
    \A s \in Sides :
       IF Receiving(s)
       THEN Transit(s) = sent[Peer(s)] /\ ~lost[Peer(s)]
       ELSE \E n \in 0 .. Len(sent[Peer(s)]) : taken[s] = SubSeq(sent[Peer(s)], 1, n)

\* The inductive invariant of a call over MQTT: types and bounds, acknowledgements
\* are counted, the handshake orders the two ends, and no message is lost,
\* repeated or overtaken on its way through the two topics.
Inv ==
    /\ TypeOK
    /\ Subscribed /\ AcksDue /\ Addressed /\ InCallback
    /\ Handshake /\ Receivers /\ Flow

AtEnd == [s \in Sides |-> ret[s] = "eof"]

Pipe == INSTANCE DuplexPipe WITH
    Ends <- Sides, Other <- Peer, Message <- Messages, IsClose <- IsClose,
    out <- sent, in <- taken, closed <- Both(FALSE), broken <- FALSE,
    eof <- AtEnd

\* Over MQTT, too, a call is a reliable duplex pipe, through two topics, two
\* callbacks and a one-place channel per side; here io.EOF is never reported
\* but for a CLOSE message.
PipeSpec == Pipe!Spec

\* A user that keeps receiving keeps the router going: no message of its call
\* blocks the callback for ever, and with it every other call, unless an error
\* has made Recv turn away from the channel.
ReaderFreesRouter ==
    \A s \in Sides :
       cb[s] = "push" /\ InUse(s) ~> cb[s] # "push" \/ ~InUse(s) \/ err[s]

\* Two users that keep receiving never block each other's Send, though the
\* acknowledgement a Send waits for queues up behind received messages.
ReadersCanSend ==
    \A s \in Sides :
       snd[s] # 0 /\ InUse(s) ~> snd[s] = 0 \/ ~InUse(s) \/ err[s]

\* A call that is over does not keep the router of the server, which has the
\* next INVOKE to handle.
RouterOutlivesCall ==
    srv = "done" /\ cb["server"] = "push" ~> cb["server"] # "push"
=============================================================================
