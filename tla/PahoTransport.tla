---------------------------- MODULE PahoTransport ----------------------------
(***************************************************************************)
(* The MQTT transports of several programs (transport/mqtt/paho.go): how   *)
(* each connects and subscribes for its handlers, what a lost connection   *)
(* and a late RegisterHandler leave of that, and how its only router takes *)
(* the INVOKEs that callers publish.  What follows on a call is the        *)
(* subject of MqttCall; here a call ends up with the goroutine that runs   *)
(* its handler, or it does not.  That no method an INVOKE names is found   *)
(* (see Method.tla) is left out: the method named is the one looked up.    *)
(*                                                                         *)
(* The broker and paho are not part of the repository.  paho reconnects by *)
(* itself, with a clean session: the broker has forgotten what was         *)
(* subscribed, the callbacks are kept.  While it does so it says that it   *)
(* is connected, but Subscribe and Unsubscribe fail.  Its router runs one  *)
(* callback at a time; meanwhile it reads RouterAhead messages more and    *)
(* then nothing, acknowledgements included.  When a connection ends, paho  *)
(* waits for its router before it does anything else: only then do tokens  *)
(* fail that nobody will answer, and only then does it connect again.      *)
(***************************************************************************)
EXTENDS Naturals, Sequences, FiniteSets, SequencesExt

CONSTANTS
    Programs,       \* each has one transport
    Methods,        \* methods that handlers may be registered for
    Calls,          \* calls that are made
    MethodOf,       \* MethodOf[c]: the method that c invokes
    Consumers,      \* pubsubConns that receive
    RouterAhead     \* messages paho reads while a callback blocks

News == "news"      \* the topic of the only publisher method

ASSUME PahoAssumption ==
    /\ RouterAhead \in Nat /\ MethodOf \in [Calls -> Methods]
    /\ News \notin Methods

\* The shared control topic of a method is named after the method.
Topics == Methods \cup {News}

VARIABLES
    link,   \* link[p]: paho is "down", "up" or "lost", which is reconnecting
    subs,   \* subs[p]: topics the broker has a subscription of p for
    route,  \* route[p]: the callback of each topic, in paho
    inb,    \* inb[p]: packets on their way from the broker to p
    rtr,    \* rtr[p]: messages in the router, the first in its callback
    tok     \* tok[p]: tokens waited for, "wait" or "failed", else "none"

pahoVars == <<link, subs, route, inb, rtr, tok>>

VARIABLES
    handlers,   \* handlers[p]: the methods in the map handlers
    ens,        \* ens[p]: where ensureConnected is
    todo,       \* todo[p]: methods it has not subscribed to yet
    sure,       \* sure[p]: the methods that were handled when the connection of
                \* p was made, until it is lost (history)
    cb,         \* cb[p]: what the callback in the router waits for
    fate        \* fate[c]: what has become of the call c

transportVars == <<handlers, ens, todo, sure, cb, fate>>

\* Who waits for a token of paho.
Waiters == {"ensure", "callback", "publisher"} \cup Consumers

NoRoute == "none"

\* The handlers of methods that nobody calls make no difference: a bound.
Called == {MethodOf[c] : c \in {d \in Calls : fate[d] # "absent"}}
All(x) == [p \in Programs |-> x]

PahoInit ==
    /\ link = All("down") /\ subs = All({}) /\ inb = All(<<>>) /\ rtr = All(<<>>)
    /\ route = All([t \in Topics |-> NoRoute])
    /\ tok = All([w \in Waiters |-> "none"])
    /\ handlers \in [Programs -> SUBSET Called]
    /\ ens = All("idle") /\ todo = All({}) /\ sure = All({}) /\ cb = All("idle")

(* ------------------------- paho and the broker -------------------------- *)

AckFor(w) == [kind |-> "ack", of |-> w]
Invocation(c) == [kind |-> "invoke", of |-> c]

\* Token.Wait has something to return.
Answered(p, w) == tok[p][w] # "wait"
Failed(p, w) == tok[p][w] = "failed"

\* Subscribe on an open connection; w waits for the SUBACK.
Subscribe(p, topics, callback, w) ==
    /\ subs' = [subs EXCEPT ![p] = @ \cup topics]
    /\ route' = [route EXCEPT ![p] = [t \in Topics |-> IF t \in topics THEN callback ELSE @[t]]]
    /\ inb' = [inb EXCEPT ![p] = Append(@, AckFor(w))]
    /\ tok' = [tok EXCEPT ![p][w] = "wait"]
    /\ UNCHANGED <<link, rtr>>

\* Mutant: no message has to wait for room in the router.
Incoming_Unbounded(p) ==
    /\ inb[p] # <<>> /\ inb' = [inb EXCEPT ![p] = Tail(@)]
    /\ LET pkt == Head(inb[p])
       IN  IF pkt.kind = "ack"
           THEN tok' = [tok EXCEPT ![p][pkt.of] = "none"] /\ UNCHANGED rtr
           ELSE rtr' = [rtr EXCEPT ![p] = Append(@, pkt)] /\ UNCHANGED tok
    /\ UNCHANGED <<link, subs, route, transportVars>>

\* The client reads the next packet; a message needs room in the router.
Incoming(p) ==
    /\ inb[p] # <<>> /\ inb' = [inb EXCEPT ![p] = Tail(@)]
    /\ LET pkt == Head(inb[p])
       IN  IF pkt.kind = "ack"
           THEN tok' = [tok EXCEPT ![p][pkt.of] = "none"] /\ UNCHANGED rtr
           ELSE /\ Len(rtr[p]) <= RouterAhead
                /\ rtr' = [rtr EXCEPT ![p] = Append(@, pkt)] /\ UNCHANGED tok
    /\ UNCHANGED <<link, subs, route, transportVars>>

\* The connection of p is gone, and what was on its way.
Disconnected(p, state) ==
    /\ link' = [link EXCEPT ![p] = state]
    /\ subs' = [subs EXCEPT ![p] = {}] /\ inb' = [inb EXCEPT ![p] = <<>>]
    /\ sure' = [sure EXCEPT ![p] = {}]
    /\ UNCHANGED <<route, rtr, tok, handlers, ens, todo, cb, fate>>

Lose(p) == link[p] = "up" /\ Disconnected(p, "lost")

\* Once the router has no message left, its callback included, the tokens fail.
TokensFail(p) ==
    /\ link[p] # "up" /\ rtr[p] = <<>>
    /\ \E w \in Waiters : tok[p][w] = "wait"
    /\ tok' = [tok EXCEPT ![p] = [w \in Waiters |-> IF @[w] = "wait" THEN "failed" ELSE @[w]]]
    /\ UNCHANGED <<link, subs, route, inb, rtr, transportVars>>

\* The client is done with its last connection.
Stopped(p) == rtr[p] = <<>> /\ \A w \in Waiters : tok[p][w] # "wait"

Reconnect(p) ==
    /\ link[p] = "lost" /\ Stopped(p) /\ link' = [link EXCEPT ![p] = "up"]
    /\ UNCHANGED <<subs, route, inb, rtr, tok, transportVars>>

(* --------------------- Dial, Serve, Invoke, Close ----------------------- *)

RegisterHandler(p, m) ==
    /\ ens[p] \notin {"subscribe", "suback"}  \* else the map is being iterated
    /\ m \in Called \ handlers[p] /\ handlers' = [handlers EXCEPT ![p] = @ \cup {m}]
    /\ UNCHANGED <<pahoVars, ens, todo, sure, cb, fate>>

\* The subscription stays.
UnregisterHandler(p, m) ==
    /\ ens[p] \notin {"subscribe", "suback"}
    /\ m \in handlers[p] /\ handlers' = [handlers EXCEPT ![p] = @ \ {m}]
    /\ UNCHANGED <<pahoVars, ens, todo, sure, cb, fate>>

EnsureGoes(p, where) == ens' = [ens EXCEPT ![p] = where]

\* ensureConnected, if IsConnected is false; else it does nothing and Dial
\* returns an error.  Connect succeeds, or the call returns an error, as it
\* always does while a client that was closed has not stopped.
EnsureConnected(p) ==
    /\ ens[p] = "idle" /\ link[p] = "down" /\ Stopped(p)
    /\ link' = [link EXCEPT ![p] = "up"]
    /\ EnsureGoes(p, "subscribe") /\ todo' = [todo EXCEPT ![p] = handlers[p]]
    /\ sure' = [sure EXCEPT ![p] = handlers[p]]
    /\ UNCHANGED <<subs, route, inb, rtr, tok, handlers, cb, fate>>

\* Without a connection a subscription fails, and with it ensureConnected: the
\* methods left over are never subscribed to, for paho may be connected again
\* when the next one looks.
SubscribeNext(p, m) ==
    /\ ens[p] = "subscribe" /\ m \in todo[p]
    /\ IF link[p] = "up"
       THEN /\ Subscribe(p, {m}, "invoke", "ensure") /\ EnsureGoes(p, "suback")
            /\ todo' = [todo EXCEPT ![p] = @ \ {m}]
       ELSE /\ EnsureGoes(p, "idle") /\ todo' = [todo EXCEPT ![p] = {}]
            /\ UNCHANGED pahoVars
    /\ UNCHANGED <<handlers, sure, cb, fate>>

Subscribed(p) ==
    /\ ens[p] = "suback" /\ Answered(p, "ensure")
    /\ tok' = [tok EXCEPT ![p]["ensure"] = "none"]
    /\ EnsureGoes(p, IF Failed(p, "ensure") THEN "idle" ELSE "subscribe")
    /\ todo' = [todo EXCEPT ![p] = IF Failed(p, "ensure") THEN {} ELSE @]
    /\ UNCHANGED <<link, subs, route, inb, rtr, handlers, sure, cb, fate>>

\* Mutant: ensureConnected leaves the last handler out.
AllSubscribed_Early(p) == ens[p] = "subscribe" /\ Cardinality(todo[p]) <= 1

AllSubscribed(p) == ens[p] = "subscribe" /\ todo[p] = {}

\* OnConnect, and ensureConnected returns nil.
OnConnect(p) ==
    /\ AllSubscribed(p)
    /\ EnsureGoes(p, "idle") /\ todo' = [todo EXCEPT ![p] = {}]
    /\ UNCHANGED <<pahoVars, handlers, sure, cb, fate>>

Close(p) == link[p] # "down" /\ Disconnected(p, "down")

(* -------------------------- The calls of others ------------------------- *)

\* A caller publishes its INVOKE: the broker gives it to one subscriber.
Invoke(c) ==
    /\ fate[c] = "none"
    /\ LET takers == {p \in Programs : MethodOf[c] \in subs[p]}
       IN  \/ /\ takers = {} /\ fate' = [fate EXCEPT ![c] = "dropped"]
              /\ UNCHANGED inb
           \/ \E p \in takers :
                 /\ inb' = [inb EXCEPT ![p] = Append(@, Invocation(c))]
                 /\ fate' = [fate EXCEPT ![c] = "sent"]
    /\ UNCHANGED <<link, subs, route, rtr, tok, handlers, ens, todo, sure, cb>>

\* The callback returns.
CallbackReturns(p, c, outcome) ==
    /\ rtr' = [rtr EXCEPT ![p] = Tail(@)] /\ cb' = [cb EXCEPT ![p] = "idle"]
    /\ fate' = [fate EXCEPT ![c] = outcome]

InCallback(p, c) == rtr[p] # <<>> /\ Head(rtr[p]) = Invocation(c)

\* newConn waits for two subscriptions, to the topics of the call; the router
\* waits with it.
NewConn(p, where) ==
    /\ Subscribe(p, {}, NoRoute, "callback") /\ cb' = [cb EXCEPT ![p] = where]
    /\ UNCHANGED fate

\* The callback of a method's topic: the handler is looked up, newConn begins.
Callback(p, c) ==
    /\ InCallback(p, c) /\ cb[p] = "idle"
    /\ \/ /\ MethodOf[c] \notin handlers[p]
          /\ CallbackReturns(p, c, "ignored") /\ UNCHANGED <<link, subs, route, inb, tok>>
       \/ /\ MethodOf[c] \in handlers[p] /\ link[p] # "up"
          /\ CallbackReturns(p, c, "refused") /\ UNCHANGED <<link, subs, route, inb, tok>>
       \/ MethodOf[c] \in handlers[p] /\ link[p] = "up" /\ NewConn(p, "control")
    /\ UNCHANGED <<handlers, ens, todo, sure>>

\* Mutant: the callback runs the handler itself.
HandlerStarts_Inside(p, c) ==
    cb' = [cb EXCEPT ![p] = "handler"] /\ fate' = [fate EXCEPT ![c] = "running"] /\ UNCHANGED rtr

\* The handler runs in a goroutine of its own.
HandlerStarts(p, c) == CallbackReturns(p, c, "running")

\* A SUBACK has come.  That the token fails is not among the outcomes: while
\* the callback waits for it, it cannot (TokensFail).
NewConnGoesOn(p, c) ==
    /\ InCallback(p, c) /\ cb[p] \in {"control", "data"} /\ tok[p]["callback"] = "none"
    /\ \/ cb[p] = "control" /\ link[p] = "up" /\ NewConn(p, "data")
       \/ /\ cb[p] = "control" /\ link[p] # "up"
          /\ CallbackReturns(p, c, "refused") /\ UNCHANGED <<link, subs, route, inb, tok>>
       \/ cb[p] = "data" /\ HandlerStarts(p, c) /\ UNCHANGED <<link, subs, route, inb, tok>>
    /\ UNCHANGED <<handlers, ens, todo, sure>>

(* ------------------------------ The system ------------------------------ *)

\* The goroutines of p: ensureConnected, the router and paho's reader.
Ensures(p) == (\E m \in Methods : SubscribeNext(p, m)) \/ Subscribed(p) \/ OnConnect(p)
Router(p) == \E c \in Calls : Callback(p, c) \/ NewConnGoesOn(p, c)

TransportNext ==
    \/ \E p \in Programs :
          \/ EnsureConnected(p) \/ Ensures(p) \/ Close(p)
          \/ \E m \in Methods : RegisterHandler(p, m) \/ UnregisterHandler(p, m)
          \/ Incoming(p) \/ Lose(p) \/ TokensFail(p) \/ Reconnect(p) \/ Router(p)
    \/ \E c \in Calls : Invoke(c)
=============================================================================
