-------------------------- MODULE WebsocketTransport --------------------------
(***************************************************************************)
(* The websocket transport (transport/http): every Dial and every Invoke   *)
(* of the client makes a connection of its own and puts it in the fields   *)
(* conn and mux over what was there; the server accepts the streams of     *)
(* each connection in the handler of its HTTP request.                     *)
(***************************************************************************)
EXTENDS MuxTransport

\* Dials and Invokes may overlap: ensureConnected keeps its connection in a
\* variable of its own.  Close they leave to run alone.
WsBegin(u, o) ==
    /\ kind = "websocket" /\ At(u, "idle")
    /\ \A v \in Users : op[v] # "Close"
    /\ Enters(u, o, "dial")
    /\ UNCHANGED <<kind, conn, mux, state, serve, srv>>

WsDialSucceeds(u) ==
    /\ kind = "websocket" /\ At(u, "dial")
    /\ NewConnection(u) /\ Goes(u, "assign")
    /\ UNCHANGED <<kind, conn, mux, serve, srv>>

\* Nothing is assigned.
WsDialFails(u) ==
    /\ kind = "websocket" /\ At(u, "dial")
    /\ Returns(u)
    /\ UNCHANGED <<kind, conn, mux, state, serve, srv>>

AssignConn(u) ==
    /\ At(u, "assign")
    /\ conn' = ws[u] /\ Goes(u, "session")
    /\ UNCHANGED <<kind, mux, state, serve, srv, ws>>

\* Mutant: a transport that has a session keeps it.
WsSession_Kept(u) ==
    /\ kind = "websocket" /\ At(u, "session")
    /\ IF mux = Nil THEN NewSession(ws[u]) ELSE UNCHANGED <<state, mux>>
    /\ Connected(u)
    /\ UNCHANGED <<kind, conn, serve, srv>>

WsSession(u) ==
    /\ kind = "websocket" /\ At(u, "session")
    /\ NewSession(ws[u]) /\ Connected(u)
    /\ UNCHANGED <<kind, conn, serve, srv>>

\* The HTTP server has taken the request over: NewHandler's function.
HandleWebsocket(i) ==
    /\ kind = "websocket" /\ serve = "accepting"
    /\ state[i] # "free" /\ srv[i] = "none"
    /\ ServerGoes(i, "acceptMux")

WsOperation(u) ==
    WsDialSucceeds(u) \/ WsDialFails(u) \/ AssignConn(u) \/ WsSession(u)

WsNext ==
    \/ \E u \in Users : WsOperation(u) \/ \E o \in {"Dial", "Invoke"} : WsBegin(u, o)
    \/ \E i \in Sessions : HandleWebsocket(i)
=============================================================================
