---------------------------- MODULE MuxTransport ----------------------------
(***************************************************************************)
(* What the transports with a connection of their own share (transport/tcp *)
(* and transport/http): a client transport with the fields conn and mux,   *)
(* whose users call Dial, Invoke and Close, and the connections and yamux  *)
(* sessions they make.  Each step is one access of one goroutine to the    *)
(* fields, which no lock protects.                                         *)
(*                                                                         *)
(* Calls are left to module MuxCall: here an Invoke ends once its stream   *)
(* is open or could not be opened.                                         *)
(***************************************************************************)
EXTENDS Naturals, FiniteSets

CONSTANTS
    Users,      \* goroutines that use the client transport
    Sessions,   \* identities of connections; bounds how many there can be
    Tls,        \* whether the transports have a TlsConfig
    Kinds       \* the transports looked at: "tcp" (or unix) and "websocket"

Nil == "nil"
TypedNil == "typedNil"     \* a nil *tls.Conn in the interface t.conn

ASSUME TransportAssumption ==
    /\ Tls \in BOOLEAN /\ {Nil, TypedNil} \cap Sessions = {}
    /\ Kinds \subseteq {"tcp", "websocket"}

VARIABLES
    kind,   \* what the transport is
    conn,   \* the field t.conn of the client
    mux,    \* the field t.mux of the client
    state,  \* state[i]: connection i and the yamux session over it
    serve,  \* Serve of the server: "idle", "accepting" or "failed"
    srv,    \* srv[i]: the server's goroutine for connection i
    op,     \* op[u]: the operation u is in, "none" between two
    pc,     \* pc[u]: where in it
    ws,     \* ws[u]: the connection that this operation has dialled
    alone,  \* users in an operation that no other has overlapped with (history)
    panicked \* an operation has used a connection that is not there

userVars == <<op, pc, ws, alone, panicked>>
muxVars == <<kind, conn, mux, state, serve, srv, userVars>>

\* "tcp": connected, no session yet; "ended": closed, by either side, or lost.
SessionStates == {"free", "tcp", "up", "ended"}
Open == {i \in Sessions : state[i] \in {"tcp", "up"}}

MuxInit ==
    /\ kind \in Kinds /\ conn = Nil /\ mux = Nil
    /\ state = [i \in Sessions |-> "free"]
    /\ serve = "idle" /\ srv = [i \in Sessions |-> "none"]
    /\ op = [u \in Users |-> "none"] /\ pc = [u \in Users |-> "idle"]
    /\ ws = [u \in Users |-> Nil] /\ alone = {}
    /\ panicked = FALSE

At(u, where) == pc[u] = where
Goes(u, where) == pc' = [pc EXCEPT ![u] = where] /\ UNCHANGED <<op, alone, panicked>>

\* The operation is over, with a result or an error.
Ends(u) ==
    /\ op' = [op EXCEPT ![u] = "none"] /\ pc' = [pc EXCEPT ![u] = "idle"]
    /\ ws' = [ws EXCEPT ![u] = Nil] /\ alone' = alone \ {u}

Returns(u) == Ends(u) /\ UNCHANGED panicked
Panics(u) == Ends(u) /\ panicked' = TRUE

\* A call of operation o begins, at its step where.
Enters(u, o, where) ==
    /\ op' = [op EXCEPT ![u] = o] /\ pc' = [pc EXCEPT ![u] = where]
    /\ alone' = IF \A v \in Users : op[v] = "none" THEN {u} ELSE {}
    /\ UNCHANGED <<ws, panicked>>

\* Nothing protects the fields, so users let Close run alone.
BeginClose(u) ==
    /\ At(u, "idle") /\ \A v \in Users : op[v] = "none"
    /\ Enters(u, "Close", "closeMux")
    /\ UNCHANGED <<kind, conn, mux, state, serve, srv>>

\* ensureConnected returns nil.
Connected(u) ==
    IF op[u] = "Dial" THEN Returns(u) ELSE Goes(u, "open") /\ UNCHANGED ws

\* The network connects u to a server that accepts connections.
NewConnection(u) ==
    /\ serve = "accepting"
    /\ \E i \in Sessions :
          /\ state[i] = "free"
          /\ state' = [state EXCEPT ![i] = "tcp"]
          /\ ws' = [ws EXCEPT ![u] = i]

\* yamux.Client over connection i; it fails only for a bad configuration.
NewSession(i) ==
    /\ state' = [state EXCEPT ![i] = IF @ = "tcp" THEN "up" ELSE @]
    /\ mux' = i

\* InvokeMux opens a stream of t.mux: of nil, that is a nil dereference;
\* of a session that has ended, the error "session shutdown".
OpenStream(u) ==
    /\ At(u, "open")
    /\ IF mux = Nil THEN Panics(u) ELSE Returns(u)
    /\ UNCHANGED <<kind, conn, mux, state, serve, srv>>

CloseSession(i) == state' = [state EXCEPT ![i] = "ended"]

CloseMux(u) ==
    /\ At(u, "closeMux")
    /\ IF mux # Nil THEN CloseSession(mux) ELSE UNCHANGED state
    /\ mux' = Nil /\ Goes(u, "closeConn")
    /\ UNCHANGED <<kind, conn, serve, srv, ws>>

\* Mutant: Close forgets to clear the field t.conn.
ClearConn_Not == conn' = conn

ClearConn == conn' = Nil

\* Close of a nil *tls.Conn is a nil dereference.
CloseConn(u) ==
    /\ At(u, "closeConn")
    /\ IF conn = TypedNil
       THEN Panics(u) /\ UNCHANGED <<conn, state>>
       ELSE /\ IF conn # Nil THEN CloseSession(conn) ELSE UNCHANGED state
            /\ ClearConn /\ Returns(u)
    /\ UNCHANGED <<kind, mux, serve, srv>>

\* Serve listens, or cannot.
Listen ==
    /\ serve = "idle"
    /\ serve' \in {"accepting", "failed"}
    /\ UNCHANGED <<kind, conn, mux, state, srv, userVars>>

ServerGoes(i, where) ==
    /\ srv' = [srv EXCEPT ![i] = where]
    /\ UNCHANGED <<kind, conn, mux, state, serve, userVars>>

\* Mutant: AcceptMux retries when mux.Accept fails.
Ended_Not(i) == FALSE

Ended(i) == state[i] = "ended"

\* mux.Accept fails: AcceptMux returns, and session and connection are closed.
EndAcceptMux(i) == srv[i] = "acceptMux" /\ Ended(i) /\ ServerGoes(i, "done")

\* The network fails or the peer goes away.
Lose(i) ==
    /\ state[i] \in {"tcp", "up"}
    /\ state' = [state EXCEPT ![i] = "ended"]
    /\ UNCHANGED <<kind, conn, mux, serve, srv, userVars>>

MuxOperation(u) == OpenStream(u) \/ CloseMux(u) \/ CloseConn(u)
=============================================================================
