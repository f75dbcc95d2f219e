-------------------------- MODULE TransportsProofs --------------------------
(***************************************************************************)
(* TransportInv is inductive, for every set of users and of connections:   *)
(* whatever fails, a tcp client owns no connection but its own, an Invoke  *)
(* of a websocket client runs on the connection it has made, and without   *)
(* TLS no operation needs a Dial before it.                                *)
(***************************************************************************)
EXTENDS Transports, TLAPS

-----------------------------------------------------------------------------
(* The operations of the client.                                           *)

\* Close begins when nothing else is under way.
LEMMA BeginCloseKeeps ==
    ASSUME TransportInv, NEW u \in Users, BeginClose(u), UNCHANGED tcpVars
    PROVE  TransportInv'
<1> USE TransportAssumption DEF TransportInv, TypeOK, Nil, TypedNil, BeginClose,
      Enters, At, userVars
<1>1. TypeOK'
  BY DEF NoSession, Exclusive, Located, SessionStates, PcStates, tcpVars
<1>2. Located'
  BY DEF Located, PcStates
<1>3. Exclusive'
  BY DEF Exclusive, Located
<1>4. NoSession'
  BY DEF NoSession, Exclusive, Located
<1>5. HasSession'
  BY DEF HasSession, NoSession, Exclusive, Located
<1>6. NothingLeaks'
  BY DEF NothingLeaks, NoSession, Exclusive, Located, Open, SessionStates
<1>7. InvokesOnItsOwn'
  BY DEF InvokesOnItsOwn, Exclusive, Located
<1> QED BY <1>1, <1>2, <1>3, <1>4, <1>5, <1>6, <1>7

\* An Invoke has a session to open its stream in, or panics.
LEMMA OpenStreamKeeps ==
    ASSUME TransportInv, NEW u \in Users, OpenStream(u), UNCHANGED tcpVars
    PROVE  TransportInv'
<1> USE TransportAssumption DEF TransportInv, TypeOK, Nil, TypedNil, OpenStream, At,
      Panics, Returns, Ends, userVars
<1>1. TypeOK'
  <2>1. CASE mux = Nil
    BY <2>1 DEF NoSession, Exclusive, Located, SessionStates, PcStates, tcpVars
  <2>2. CASE mux # Nil
    BY <2>2 DEF NoSession, Exclusive, Located, SessionStates, PcStates, tcpVars
  <2> QED BY <2>1, <2>2
<1>2. Located'
  BY DEF Located, PcStates
<1>3. Exclusive'
  BY DEF Exclusive, Located
<1>4. NoSession'
  BY DEF NoSession, Exclusive, Located
<1>5. HasSession'
  BY DEF HasSession, NoSession, Exclusive, Located
<1>6. NothingLeaks'
  BY DEF NothingLeaks, NoSession, Exclusive, Located, Open, SessionStates
<1>7. InvokesOnItsOwn'
  BY DEF InvokesOnItsOwn, Exclusive, Located
<1> QED BY <1>1, <1>2, <1>3, <1>4, <1>5, <1>6, <1>7

\* Close ends the session before the connection.
LEMMA CloseMuxKeeps ==
    ASSUME TransportInv, NEW u \in Users, CloseMux(u), UNCHANGED tcpVars
    PROVE  TransportInv'
<1> USE TransportAssumption DEF TransportInv, TypeOK, Nil, TypedNil, CloseMux, At,
      Goes, CloseSession, userVars
<1>1. TypeOK'
  BY DEF NoSession, Exclusive, Located, SessionStates, PcStates, tcpVars
<1>2. Located'
  BY DEF Located, PcStates
<1>3. Exclusive'
  BY DEF Exclusive, Located
<1>4. NoSession'
  BY DEF NoSession, Exclusive, Located
<1>5. HasSession'
  BY DEF HasSession, NoSession, Exclusive, Located
<1>6. NothingLeaks'
  BY DEF NothingLeaks, NoSession, Exclusive, Located, Open, SessionStates
<1>7. InvokesOnItsOwn'
  BY DEF InvokesOnItsOwn, Exclusive, Located
<1> QED BY <1>1, <1>2, <1>3, <1>4, <1>5, <1>6, <1>7

\* Close leaves no connection behind.
LEMMA CloseConnKeeps ==
    ASSUME TransportInv, NEW u \in Users, CloseConn(u), UNCHANGED tcpVars
    PROVE  TransportInv'
<1> USE TransportAssumption DEF TransportInv, TypeOK, Nil, TypedNil, CloseConn, At,
      Panics, Returns, Ends, CloseSession, ClearConn, userVars
<1>1. TypeOK'
  <2>1. CASE conn = TypedNil
    BY <2>1 DEF NoSession, Exclusive, Located, SessionStates, PcStates, tcpVars
  <2>2. CASE conn # TypedNil
    BY <2>2 DEF NoSession, Exclusive, Located, SessionStates, PcStates, tcpVars
  <2> QED BY <2>1, <2>2
<1>2. Located'
  BY DEF Located, PcStates
<1>3. Exclusive'
  BY DEF Exclusive, Located
<1>4. NoSession'
  BY DEF NoSession, Exclusive, Located
<1>5. HasSession'
  BY DEF HasSession, NoSession, Exclusive, Located
<1>6. NothingLeaks'
  BY DEF NothingLeaks, NoSession, Exclusive, Located, Open, SessionStates
<1>7. InvokesOnItsOwn'
  BY DEF InvokesOnItsOwn, Exclusive, Located
<1> QED BY <1>1, <1>2, <1>3, <1>4, <1>5, <1>6, <1>7

\* An operation of a tcp client has a connection already or goes on to dial.
LEMMA EnsureConnectedKeeps ==
    ASSUME TransportInv, NEW u \in Users, EnsureConnected(u)
    PROVE  TransportInv'
<1> USE TransportAssumption DEF TransportInv, TypeOK, Nil, TypedNil,
      EnsureConnected, At, Goes, Connected, Returns, Ends, NotConnected, userVars
<1>1. TypeOK'
  BY DEF NoSession, Exclusive, Located, SessionStates, PcStates, tcpVars
<1>2. Located'
  BY DEF Located, PcStates
<1>3. Exclusive'
  BY DEF Exclusive, Located
<1>4. NoSession'
  BY DEF NoSession, Exclusive, Located
<1>5. HasSession'
  BY DEF HasSession, NoSession, Exclusive, Located
<1>6. NothingLeaks'
  BY DEF NothingLeaks, NoSession, Exclusive, Located, Open, SessionStates
<1>7. InvokesOnItsOwn'
  BY DEF InvokesOnItsOwn, Exclusive, Located
<1> QED BY <1>1, <1>2, <1>3, <1>4, <1>5, <1>6, <1>7

\* The new connection of a tcp client is its only one: it dials with none.
LEMMA TcpDialSucceedsKeeps ==
    ASSUME TransportInv, NEW u \in Users, TcpDialSucceeds(u)
    PROVE  TransportInv'
<1> USE TransportAssumption DEF TransportInv, TypeOK, Nil, TypedNil,
      TcpDialSucceeds, At, Goes, NewConnection, userVars
<1>1. TypeOK'
  BY DEF NoSession, Exclusive, Located, SessionStates, PcStates, tcpVars
<1>2. Located'
  BY DEF Located, PcStates
<1>3. Exclusive'
  BY DEF Exclusive, Located
<1>4. NoSession'
  BY DEF NoSession, Exclusive, Located
<1>5. HasSession'
  BY DEF HasSession, NoSession, Exclusive, Located
<1>6. NothingLeaks'
  BY DEF NothingLeaks, NoSession, Exclusive, Located, Open, SessionStates
<1>7. InvokesOnItsOwn'
  BY DEF InvokesOnItsOwn, Exclusive, Located
<1> QED BY <1>1, <1>2, <1>3, <1>4, <1>5, <1>6, <1>7

\* A dial that fails leaves no connection, or with TLS the typed nil.
LEMMA TcpDialFailsKeeps ==
    ASSUME TransportInv, NEW u \in Users, TcpDialFails(u)
    PROVE  TransportInv'
<1> USE TransportAssumption DEF TransportInv, TypeOK, Nil, TypedNil, TcpDialFails,
      At, Returns, Ends, userVars
<1>1. TypeOK'
  BY DEF NoSession, Exclusive, Located, SessionStates, PcStates, tcpVars
<1>2. Located'
  BY DEF Located, PcStates
<1>3. Exclusive'
  BY DEF Exclusive, Located
<1>4. NoSession'
  BY DEF NoSession, Exclusive, Located
<1>5. HasSession'
  BY DEF HasSession, NoSession, Exclusive, Located
<1>6. NothingLeaks'
  BY DEF NothingLeaks, NoSession, Exclusive, Located, Open, SessionStates
<1>7. InvokesOnItsOwn'
  BY DEF InvokesOnItsOwn, Exclusive, Located
<1> QED BY <1>1, <1>2, <1>3, <1>4, <1>5, <1>6, <1>7

\* The session of a tcp client is that over its connection.
LEMMA TcpSessionKeeps ==
    ASSUME TransportInv, NEW u \in Users, TcpSession(u)
    PROVE  TransportInv'
<1> USE TransportAssumption DEF TransportInv, TypeOK, Nil, TypedNil, TcpSession, At,
      Goes, Connected, Returns, Panics, Ends, NewSession, ClientAccepts, userVars
<1>1. TypeOK'
  BY DEF NoSession, Exclusive, Located, SessionStates, PcStates, tcpVars
<1>2. Located'
  BY DEF Located, PcStates
<1>3. Exclusive'
  BY DEF Exclusive, Located
<1>4. NoSession'
  BY DEF NoSession, Exclusive, Located
<1>5. HasSession'
  BY DEF HasSession, NoSession, Exclusive, Located
<1>6. NothingLeaks'
  BY DEF NothingLeaks, NoSession, Exclusive, Located, Open, SessionStates
<1>7. InvokesOnItsOwn'
  BY DEF InvokesOnItsOwn, Exclusive, Located
<1> QED BY <1>1, <1>2, <1>3, <1>4, <1>5, <1>6, <1>7

\* A Dial or Invoke of a tcp client begins.
LEMMA TcpBeginKeeps ==
    ASSUME TransportInv, NEW u \in Users, NEW o \in {"Dial", "Invoke"}, TcpBegin(u, o)
    PROVE  TransportInv'
<1> USE TransportAssumption DEF TransportInv, TypeOK, Nil, TypedNil, TcpBegin, At,
      Enters, Returns, Ends, MayBegin, userVars
<1>1. TypeOK'
  BY DEF NoSession, Exclusive, Located, SessionStates, PcStates, tcpVars
<1>2. Located'
  BY DEF Located, PcStates
<1>3. Exclusive'
  BY DEF Exclusive, Located
<1>4. NoSession'
  BY DEF NoSession, Exclusive, Located
<1>5. HasSession'
  BY DEF HasSession, NoSession, Exclusive, Located
<1>6. NothingLeaks'
  BY DEF NothingLeaks, NoSession, Exclusive, Located, Open, SessionStates
<1>7. InvokesOnItsOwn'
  BY DEF InvokesOnItsOwn, Exclusive, Located
<1> QED BY <1>1, <1>2, <1>3, <1>4, <1>5, <1>6, <1>7

\* A Dial or Invoke of a websocket client begins.
LEMMA WsBeginKeeps ==
    ASSUME TransportInv, NEW u \in Users, NEW o \in {"Dial", "Invoke"}, WsBegin(u, o), UNCHANGED tcpVars
    PROVE  TransportInv'
<1> USE TransportAssumption DEF TransportInv, TypeOK, Nil, TypedNil, WsBegin, At,
      Enters, userVars
<1>1. TypeOK'
  BY DEF NoSession, Exclusive, Located, SessionStates, PcStates, tcpVars
<1>2. Located'
  BY DEF Located, PcStates
<1>3. Exclusive'
  BY DEF Exclusive, Located
<1>4. NoSession'
  BY DEF NoSession, Exclusive, Located
<1>5. HasSession'
  BY DEF HasSession, NoSession, Exclusive, Located
<1>6. NothingLeaks'
  BY DEF NothingLeaks, NoSession, Exclusive, Located, Open, SessionStates
<1>7. InvokesOnItsOwn'
  BY DEF InvokesOnItsOwn, Exclusive, Located
<1> QED BY <1>1, <1>2, <1>3, <1>4, <1>5, <1>6, <1>7

\* A websocket client knows its own connection.
LEMMA WsDialSucceedsKeeps ==
    ASSUME TransportInv, NEW u \in Users, WsDialSucceeds(u), UNCHANGED tcpVars
    PROVE  TransportInv'
<1> USE TransportAssumption DEF TransportInv, TypeOK, Nil, TypedNil, WsDialSucceeds,
      At, Goes, NewConnection, userVars
<1>1. TypeOK'
  BY DEF NoSession, Exclusive, Located, SessionStates, PcStates, tcpVars
<1>2. Located'
  BY DEF Located, PcStates
<1>3. Exclusive'
  BY DEF Exclusive, Located
<1>4. NoSession'
  BY DEF NoSession, Exclusive, Located
<1>5. HasSession'
  BY DEF HasSession, NoSession, Exclusive, Located
<1>6. NothingLeaks'
  BY DEF NothingLeaks, NoSession, Exclusive, Located, Open, SessionStates
<1>7. InvokesOnItsOwn'
  BY DEF InvokesOnItsOwn, Exclusive, Located
<1> QED BY <1>1, <1>2, <1>3, <1>4, <1>5, <1>6, <1>7

\* A dial of a websocket client that fails changes nothing.
LEMMA WsDialFailsKeeps ==
    ASSUME TransportInv, NEW u \in Users, WsDialFails(u), UNCHANGED tcpVars
    PROVE  TransportInv'
<1> USE TransportAssumption DEF TransportInv, TypeOK, Nil, TypedNil, WsDialFails,
      At, Returns, Ends, userVars
<1>1. TypeOK'
  BY DEF NoSession, Exclusive, Located, SessionStates, PcStates, tcpVars
<1>2. Located'
  BY DEF Located, PcStates
<1>3. Exclusive'
  BY DEF Exclusive, Located
<1>4. NoSession'
  BY DEF NoSession, Exclusive, Located
<1>5. HasSession'
  BY DEF HasSession, NoSession, Exclusive, Located
<1>6. NothingLeaks'
  BY DEF NothingLeaks, NoSession, Exclusive, Located, Open, SessionStates
<1>7. InvokesOnItsOwn'
  BY DEF InvokesOnItsOwn, Exclusive, Located
<1> QED BY <1>1, <1>2, <1>3, <1>4, <1>5, <1>6, <1>7

\* A websocket client puts its connection in the field.
LEMMA AssignConnKeeps ==
    ASSUME TransportInv, NEW u \in Users, AssignConn(u), UNCHANGED tcpVars
    PROVE  TransportInv'
<1> USE TransportAssumption DEF TransportInv, TypeOK, Nil, TypedNil, AssignConn, At,
      Goes, userVars
<1>1. TypeOK'
  BY DEF NoSession, Exclusive, Located, SessionStates, PcStates, tcpVars
<1>2. Located'
  BY DEF Located, PcStates
<1>3. Exclusive'
  BY DEF Exclusive, Located
<1>4. NoSession'
  BY DEF NoSession, Exclusive, Located
<1>5. HasSession'
  BY DEF HasSession, NoSession, Exclusive, Located
<1>6. NothingLeaks'
  BY DEF NothingLeaks, NoSession, Exclusive, Located, Open, SessionStates
<1>7. InvokesOnItsOwn'
  BY DEF InvokesOnItsOwn, Exclusive, Located
<1> QED BY <1>1, <1>2, <1>3, <1>4, <1>5, <1>6, <1>7

\* The session that a websocket client puts in the field is its own.
LEMMA WsSessionKeeps ==
    ASSUME TransportInv, NEW u \in Users, WsSession(u), UNCHANGED tcpVars
    PROVE  TransportInv'
<1> USE TransportAssumption DEF TransportInv, TypeOK, Nil, TypedNil, WsSession, At,
      Goes, Connected, Returns, Ends, NewSession, userVars
<1>1. TypeOK'
  BY DEF NoSession, Exclusive, Located, SessionStates, PcStates, tcpVars
<1>2. Located'
  BY DEF Located, PcStates
<1>3. Exclusive'
  BY DEF Exclusive, Located
<1>4. NoSession'
  BY DEF NoSession, Exclusive, Located
<1>5. HasSession'
  BY DEF HasSession, NoSession, Exclusive, Located
<1>6. NothingLeaks'
  BY DEF NothingLeaks, NoSession, Exclusive, Located, Open, SessionStates
<1>7. InvokesOnItsOwn'
  BY DEF InvokesOnItsOwn, Exclusive, Located
<1> QED BY <1>1, <1>2, <1>3, <1>4, <1>5, <1>6, <1>7

-----------------------------------------------------------------------------
(* The goroutines of both sides, and the network.                          *)

\* They leave the client's fields and operations alone and open no connection.
LEMMA OthersKeep ==
    ASSUME TransportInv,
           UNCHANGED <<kind, conn, mux, userVars>>,
           state' = state \/ \E i \in Sessions : Lose(i),
           TypeOK'
    PROVE  TransportInv'
<1>1. Open' \subseteq Open
  BY DEF Open, Lose, TransportInv, TypeOK
<1>2. Located' /\ Exclusive' /\ NoSession' /\ HasSession' /\ InvokesOnItsOwn'
  BY DEF TransportInv, userVars, Located, Exclusive, NoSession, HasSession,
    InvokesOnItsOwn
<1>3. NothingLeaks'
  BY <1>1 DEF TransportInv, NothingLeaks
<1> QED BY <1>2, <1>3 DEF TransportInv

\* The goroutines of the server start and end; its state is not the client's.
LEMMA ServerKeeps ==
    ASSUME TransportInv, NEW i \in Sessions,
           \/ EndAcceptMux(i) /\ UNCHANGED tcpVars
           \/ HandleWebsocket(i) /\ UNCHANGED tcpVars
           \/ AcceptConn(i) \/ StartAcceptMux(i)
    PROVE  TransportInv'
<1>1. UNCHANGED <<kind, conn, mux, state, userVars, serve>>
  BY DEF EndAcceptMux, HandleWebsocket, AcceptConn, StartAcceptMux, ServerGoes
<1>2. TypeOK'
  BY <1>1 DEF EndAcceptMux, HandleWebsocket, AcceptConn, StartAcceptMux, ServerGoes,
    TransportInv, TypeOK, userVars, tcpVars, NestStates
<1> QED BY <1>1, <1>2, OthersKeep

\* A call that OnConnect makes, and the end of AcceptMux of the client.
LEMMA CallsKeep ==
    ASSUME TransportInv, NEW i \in Sessions,
           Nested(i) \/ CallsBack(i) \/ ClientEndsAcceptMux(i)
    PROVE  TransportInv'
<1>1. UNCHANGED muxVars
  BY DEF Nested, CallsBack, ClientEndsAcceptMux
<1>2. TypeOK'
  BY <1>1 DEF Nested, CallsBack, ClientEndsAcceptMux, TransportInv, TypeOK, muxVars,
    userVars, NestStates
<1> QED BY <1>1, <1>2, OthersKeep DEF muxVars

\* Serve listens or fails; a connection is lost.
LEMMA NetworkKeeps ==
    ASSUME TransportInv, Listen \/ \E i \in Sessions : Lose(i), UNCHANGED tcpVars
    PROVE  TransportInv'
<1>1. UNCHANGED <<kind, conn, mux, userVars>>
  BY DEF Listen, Lose
<1>2. TypeOK'
  BY DEF Listen, Lose, TransportInv, TypeOK, userVars, tcpVars, SessionStates
<1>3. state' = state \/ \E i \in Sessions : Lose(i)
  BY DEF Listen
<1> QED BY <1>1, <1>2, <1>3, OthersKeep

-----------------------------------------------------------------------------
(* The theorems.                                                           *)

\* Nothing is connected at first.
LEMMA TransportInvInit == Init => TransportInv
<1> SUFFICES ASSUME Init PROVE TransportInv
  OBVIOUS
<1>1. TypeOK /\ NothingLeaks
  BY DEF Init, MuxInit, TcpInit, TypeOK, NothingLeaks, SessionStates, NestStates, Open
<1>2. Located /\ Exclusive /\ NoSession /\ HasSession /\ InvokesOnItsOwn
  BY DEF Init, MuxInit, Located, PcStates, Exclusive, NoSession, HasSession,
    InvokesOnItsOwn, Nil, TypedNil
<1> QED BY <1>1, <1>2 DEF TransportInv

\* One case per disjunct of Next.
LEMMA TransportInvStep == TransportInv /\ [Next]_vars => TransportInv'
<1> SUFFICES ASSUME TransportInv, [Next]_vars PROVE TransportInv'
  OBVIOUS
<1>1. CASE Shared /\ UNCHANGED tcpVars
  BY <1>1, BeginCloseKeeps, OpenStreamKeeps, CloseMuxKeeps, CloseConnKeeps,
    ServerKeeps, NetworkKeeps DEF Shared, MuxOperation
<1>2. CASE TcpNext
  BY <1>2, EnsureConnectedKeeps, TcpDialSucceedsKeeps, TcpDialFailsKeeps,
    TcpSessionKeeps, TcpBeginKeeps, ServerKeeps, CallsKeep
    DEF TcpNext, TcpOperation, TcpGoroutines
<1>3. CASE WsNext /\ UNCHANGED tcpVars
  BY <1>3, WsBeginKeeps, WsDialSucceedsKeeps, WsDialFailsKeeps, AssignConnKeeps,
    WsSessionKeeps, ServerKeeps DEF WsNext, WsOperation
<1>4. CASE UNCHANGED vars
  <2>1. UNCHANGED <<kind, conn, mux, userVars>> /\ state' = state
    BY <1>4 DEF vars, muxVars
  <2>2. TypeOK'
    BY <1>4 DEF vars, muxVars, tcpVars, userVars, TransportInv, TypeOK
  <2> QED BY <2>1, <2>2, OthersKeep
<1> QED BY <1>1, <1>2, <1>3, <1>4 DEF Next

\* TransportInv is inductive.
THEOREM TransportInvariance == Spec => []TransportInv
BY TransportInvInit, TransportInvStep, PTL DEF Spec

\* The fields conn and mux of a tcp client agree whenever no operation is between
\* the two assignments (tcp.go), and every variable keeps its type.
THEOREM TypeCorrect == Spec => []TypeOK
<1>1. TransportInv => TypeOK
  BY DEF TransportInv
<1> QED BY <1>1, TransportInvariance, PTL

\* No failed, repeated or permitted overlapping operation of a tcp client leaves a
\* connection open that no Close will close (ensureConnected and Close of tcp.go).
THEOREM NothingLeaksHolds == Spec => []NothingLeaks
<1>1. TransportInv => NothingLeaks
  BY DEF TransportInv
<1> QED BY <1>1, TransportInvariance, PTL

\* An Invoke of a websocket client that nothing overlaps opens its stream over the
\* connection it has made (ensureConnected of http.go).
THEOREM InvokesOnItsOwnHolds == Spec => []InvokesOnItsOwn
<1>1. TransportInv => InvokesOnItsOwn
  BY DEF TransportInv
<1> QED BY <1>1, TransportInvariance, PTL

\* Without TLS no Invoke runs into a missing connection (transport.go:19).  With
\* TLS one does: run tcp_tls.
THEOREM InvokeDialsHolds == ASSUME ~Tls PROVE Spec => []InvokeDials
<1>1. TransportInv => InvokeDials
  BY DEF TransportInv, HasSession, InvokeDials
<1> QED BY <1>1, TransportInvariance, PTL
=============================================================================
