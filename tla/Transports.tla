----------------------------- MODULE Transports -----------------------------
(***************************************************************************)
(* A client and a server of one of the transports with connections of      *)
(* their own: the operations that TcpTransport and WebsocketTransport      *)
(* share, and those of the one or the other.                               *)
(***************************************************************************)
EXTENDS TcpTransport, WebsocketTransport

vars == <<muxVars, tcpVars>>

Init == MuxInit /\ TcpInit

Shared ==
    \/ \E u \in Users : BeginClose(u) \/ MuxOperation(u)
    \/ \E i \in Sessions : EndAcceptMux(i) \/ Lose(i)
    \/ Listen

Next ==
    \/ Shared /\ UNCHANGED tcpVars
    \/ TcpNext
    \/ WsNext /\ UNCHANGED tcpVars

Spec == Init /\ [][Next]_vars

\* The steps of an operation of u under way, and those of the goroutines for
\* connection i.
Operation(u) ==
    \/ (MuxOperation(u) \/ WsOperation(u)) /\ UNCHANGED tcpVars
    \/ TcpOperation(u)

Goroutines(i) ==
    \/ (EndAcceptMux(i) \/ HandleWebsocket(i)) /\ UNCHANGED tcpVars
    \/ TcpGoroutines(i)

\* The scheduler runs every goroutine, and OnConnect returns when its call has.
FairSpec ==
    /\ Spec
    /\ \A u \in Users : WF_vars(Operation(u))
    /\ \A i \in Sessions : WF_vars(Goroutines(i))

(* ------------------------------ Properties ------------------------------ *)

\* The fields keep their types; and but for the steps between the two
\* assignments, mux of a tcp client is the session over conn, whatever the
\* connection suffers.
TypeOK ==
    /\ kind \in Kinds
    /\ conn \in Sessions \cup {Nil, TypedNil} /\ mux \in Sessions \cup {Nil}
    /\ state \in [Sessions -> SessionStates] /\ acc \subseteq Sessions
    /\ ws \in [Users -> Sessions \cup {Nil}] /\ alone \subseteq Users
    /\ serve \in {"idle", "accepting", "failed"} /\ panicked \in BOOLEAN
    /\ srv \in [Sessions -> {"none", "onConnect", "acceptMux", "done"}]
    /\ nest \in [Sessions -> NestStates]
    /\ kind = "tcp" /\ (\A u \in Users : pc[u] \notin {"session", "closeConn"})
          => mux = conn \/ (conn = TypedNil /\ mux = Nil)

\* A tcp client owns at most one open connection, and it is the one a Close
\* would close: failed, repeated and overlapping operations leave none behind.
\* (A websocket client leaves one behind with every Invoke, http.go:46.)
NothingLeaks == kind = "tcp" => Open \subseteq {conn}

\* An Invoke needs no Dial before it (transport.go:19), whatever Dials, Invokes
\* and Closes came before: it never runs into a missing connection.
InvokeDials == ~panicked

\* What came before an Invoke of a websocket client does not reach it: unless
\* another operation overlaps with it, its stream is one of the connection it
\* has made, even if earlier ones are dead or were left behind.  (Of a tcp
\* client it may be one that died long ago, tcp.go:53.)
InvokesOnItsOwn ==
    \A u \in Users :
       kind = "websocket" /\ pc[u] = "open" /\ u \in alone => mux = ws[u] /\ ws[u] # Nil

\* When a connection has ended, the goroutines of both sides that serve it end.
EndedIsLeft ==
    \A i \in Sessions :
       state[i] = "ended" ~> i \notin acc /\ srv[i] \notin {"onConnect", "acceptMux"}

\* OnConnect may call the client that has connected, although the server does
\* not accept streams yet (tcp.go:150): it returns and the server goes on to
\* accept, unless the client's handler waits for the server in its turn.
OnConnectReturns ==
    \A i \in Sessions : srv[i] = "onConnect" ~> srv[i] # "onConnect" \/ nest[i] = "back"

(* ----------------------- The inductive invariant ------------------------ *)

PcStates ==
    {"idle", "ensure", "dial", "assign", "session", "open", "closeMux", "closeConn"}

\* An operation is where it can be, and a websocket has a connection by then.
Located ==
    /\ op \in [Users -> {"none", "Dial", "Invoke", "Close"}]
    /\ pc \in [Users -> PcStates]
    /\ \A u \in Users :
       /\ pc[u] = "idle" <=> op[u] = "none"
       /\ pc[u] \in {"closeMux", "closeConn"} <=> op[u] = "Close"
       /\ pc[u] = "open" => op[u] = "Invoke"
       /\ kind = "tcp" => pc[u] # "assign"
       /\ kind = "websocket" => pc[u] # "ensure"
       /\ kind = "websocket" /\ pc[u] \in {"assign", "session"} => ws[u] \in Sessions

\* Close runs alone; of a tcp client, only Invokes on a session overlap.
Exclusive ==
    \A u, v \in Users :
       u # v /\ op[u] # "none" /\ op[v] # "none" =>
          /\ op[u] # "Close" /\ u \notin alone
          /\ kind = "tcp" => op[u] = "Invoke" /\ mux # Nil

\* While it connects or closes, a tcp client has no session.
NoSession ==
    \A u \in Users :
       /\ kind = "tcp" /\ pc[u] = "dial" => conn = Nil /\ mux = Nil
       /\ kind = "tcp" /\ pc[u] = "session" => conn \in Sessions /\ mux = Nil
       /\ pc[u] = "closeConn" => mux = Nil

\* Without TLS no connection is nil that looks like one.
HasSession ==
    ~Tls => /\ ~panicked /\ conn # TypedNil
            /\ \A u \in Users : pc[u] = "open" => mux # Nil

TransportInv ==
    /\ TypeOK /\ Located /\ Exclusive /\ NoSession /\ HasSession
    /\ NothingLeaks /\ InvokesOnItsOwn
=============================================================================
