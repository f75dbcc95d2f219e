---------------------------- MODULE TcpTransport ----------------------------
(***************************************************************************)
(* The tcp and unix transports (transport/tcp): how the client connects    *)
(* when it has no connection, and the goroutines that the server starts    *)
(* in Serve, one per connection.  OnConnect is called before the streams   *)
(* of a new connection are accepted; it may call a method of the client    *)
(* that has connected (examples/client_service), whose handler may in turn *)
(* call a method of the server.  Close of a transport that serves finds its *)
(* fields conn and mux nil and changes nothing.                            *)
(***************************************************************************)
EXTENDS MuxTransport

VARIABLES
    acc,    \* sessions for which AcceptMux of the client runs
    nest    \* nest[i]: the call that OnConnect makes over connection i

tcpVars == <<acc, nest>>

\* "asked": invoked; "back": the client's handler has invoked a method of the
\* server over the same connection and waits for it.
NestStates == {"none", "asked", "back", "answered"}

TcpInit ==
    /\ acc = {} /\ nest = [i \in Sessions |-> "none"]

(* ------------------------------ The client ------------------------------ *)

\* Users also let a Dial and an Invoke that may have to dial run alone; Invokes
\* on a session may overlap.
MayBegin(u, o) ==
    \A v \in Users \ {u} :
       op[v] # "none" => o = "Invoke" /\ op[v] = "Invoke" /\ mux # Nil

\* Dial first checks t.conn.
TcpBegin(u, o) ==
    /\ kind = "tcp" /\ At(u, "idle") /\ MayBegin(u, o)
    /\ IF o = "Dial" /\ conn # Nil
       THEN Returns(u)
       ELSE Enters(u, o, "ensure")
    /\ UNCHANGED <<kind, conn, mux, state, serve, srv, tcpVars>>

\* Mutant: ensureConnected dials again, whatever t.conn holds.
NotConnected_Always == TRUE

NotConnected == conn = Nil

EnsureConnected(u) ==
    /\ At(u, "ensure")
    /\ IF NotConnected THEN Goes(u, "dial") /\ UNCHANGED ws ELSE Connected(u)
    /\ UNCHANGED <<kind, conn, mux, state, serve, srv, tcpVars>>

\* net.Dial or tls.Dial succeeds; the server accepts the connection later.
TcpDialSucceeds(u) ==
    /\ kind = "tcp" /\ At(u, "dial") /\ NewConnection(u)
    /\ conn' = ws'[u] /\ Goes(u, "session")
    /\ UNCHANGED <<kind, mux, serve, srv, tcpVars>>

\* The result is assigned to t.conn before err is looked at: net.Dial returns
\* nil, tls.Dial a nil *tls.Conn, which is no nil net.Conn.
TcpDialFails(u) ==
    /\ kind = "tcp" /\ At(u, "dial")
    /\ conn' = IF Tls THEN TypedNil ELSE Nil
    /\ Returns(u)
    /\ UNCHANGED <<kind, mux, state, serve, srv, tcpVars>>

\* Mutant: the client accepts no calls of the server.
ClientAccepts_Not(i) == acc' = acc

\* AcceptMux in a goroutine of its own.
ClientAccepts(i) == acc' = acc \cup {i}

\* A second session on a connection, or one on none, is not survived.
TcpSession(u) ==
    /\ kind = "tcp" /\ At(u, "session")
    /\ IF conn \in Sessions
       THEN NewSession(conn) /\ ClientAccepts(conn) /\ Connected(u)
       ELSE Panics(u) /\ UNCHANGED <<state, mux, acc>>
    /\ UNCHANGED <<kind, conn, serve, srv, nest>>

\* AcceptMux of the client returns.
ClientEndsAcceptMux(i) ==
    /\ i \in acc /\ Ended(i)
    /\ acc' = acc \ {i}
    /\ UNCHANGED <<muxVars, nest>>

(* ------------------------------ The server ------------------------------ *)

\* Accept, and a goroutine that makes the session and calls OnConnect, if there
\* is one; it invokes a method of the client or does not.
AcceptConn(i) ==
    /\ kind = "tcp" /\ serve = "accepting" /\ state[i] # "free" /\ srv[i] = "none"
    /\ \E call \in {"none", "asked"} : nest' = [nest EXCEPT ![i] = call]
    /\ ServerGoes(i, "onConnect")
    /\ UNCHANGED acc

\* The client accepts the stream and its handler answers, or calls back first:
\* a call of the server's methods waits until AcceptMux runs there.
Nested(i) ==
    /\ \/ nest[i] = "asked" /\ i \in acc /\ ~Ended(i)
          /\ nest' = [nest EXCEPT ![i] = "answered"]
       \/ nest[i] = "back" /\ srv[i] = "acceptMux" /\ ~Ended(i)
          /\ nest' = [nest EXCEPT ![i] = "answered"]
    /\ UNCHANGED <<muxVars, acc>>

CallsBack(i) ==
    /\ nest[i] = "asked" /\ i \in acc /\ ~Ended(i)
    /\ nest' = [nest EXCEPT ![i] = "back"]
    /\ UNCHANGED <<muxVars, acc>>

\* OnConnect returns once its call has, with an answer or an error: AcceptMux.
StartAcceptMux(i) ==
    /\ srv[i] = "onConnect"
    /\ nest[i] \in {"none", "answered"} \/ Ended(i)
    /\ ServerGoes(i, "acceptMux") /\ UNCHANGED tcpVars

TcpOperation(u) ==
    EnsureConnected(u) \/ TcpDialSucceeds(u) \/ TcpDialFails(u) \/ TcpSession(u)

\* The steps of the goroutines for connection i.
TcpGoroutines(i) ==
    AcceptConn(i) \/ Nested(i) \/ StartAcceptMux(i) \/ ClientEndsAcceptMux(i)

TcpNext ==
    \/ \E u \in Users : TcpOperation(u) \/ \E o \in {"Dial", "Invoke"} : TcpBegin(u, o)
    \/ \E i \in Sessions : TcpGoroutines(i) \/ CallsBack(i)
=============================================================================
