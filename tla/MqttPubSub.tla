------------------------------ MODULE MqttPubSub ------------------------------
(***************************************************************************)
(* Publishers and consumers over MQTT (transport/mqtt/pubsub.go, and       *)
(* pubsub.go, whose PubSubClient adds the decoding of payloads): Conns     *)
(* that share the transport of their program, and its router, with the     *)
(* calls of PahoTransport.  All of them are of one method, so of one       *)
(* topic; the n-th publication stands for its payload.                     *)
(*                                                                         *)
(* A publication goes out with QoS 0.  A subscription puts its callback in *)
(* the place of the one that paho has for the topic, and every Close, a    *)
(* publisher's too, unsubscribes from the topic for the whole program.     *)
(***************************************************************************)
EXTENDS PahoTransport

CONSTANTS
    Home,       \* Home[k]: the program of consumer k
    MaxNews,    \* bounds how many publications there are
    Scenes      \* which programs, calls and consumers there are, and how many
                \* publications: each a choice for a whole behaviour

ASSUME PubSubAssumption ==
    /\ Home \in [Consumers -> Programs] /\ MaxNews \in Nat
    /\ Consumers \cap {NoRoute, "invoke", "ensure", "callback", "publisher"} = {}
    /\ Scenes \subseteq [calls : SUBSET Calls, consumers : SUBSET Consumers,
                        news : 0 .. MaxNews]

VARIABLES
    news,   \* publications the broker has passed on
    con,    \* con[k]: consumer k
    ch,     \* ch[k]: its channel receiver, of capacity one
    got,    \* got[k]: what its Recv has returned (history)
    since,  \* since[k]: news when it had subscribed (history)
    intact, \* intact[k]: nobody has taken its subscription away (history)
    to      \* to[p]: the consumer whose channel the callback of p sends to

newsVars == <<news, con, ch, got, since, intact, to>>
vars == <<pahoVars, transportVars, newsVars>>

ConsumerStates == {"absent", "none", "subscribe", "on", "closing", "closed"}
NewsItem(n) == [kind |-> "news", of |-> n]

Init ==
    /\ \E scene \in Scenes :
          /\ news = MaxNews - scene.news
          /\ fate = [c \in Calls |-> IF c \in scene.calls THEN "none" ELSE "absent"]
          /\ con = [k \in Consumers |-> IF k \in scene.consumers THEN "none" ELSE "absent"]
    /\ PahoInit
    /\ ch = [k \in Consumers |-> <<>>]
    /\ got = [k \in Consumers |-> <<>>] /\ since = [k \in Consumers |-> 0]
    /\ intact = [k \in Consumers |-> FALSE] /\ to = All(NoRoute)

\* The subscriptions of program p to the topic that k had no hand in.
Disturbed(p, k) == [l \in Consumers |-> intact[l] /\ (Home[l] # p \/ l = k)]

(* --------------------------- pubsubConn --------------------------------- *)

\* newPubSubConn of a consumer, on a transport that has connected.
NewConsumer(k) ==
    LET p == Home[k]
    IN  /\ con[k] = "none" /\ link[p] = "up" /\ ens[p] = "idle"
        /\ Subscribe(p, {News}, k, k)
        /\ con' = [con EXCEPT ![k] = "subscribe"]
        /\ since' = [since EXCEPT ![k] = news]
        /\ intact' = [Disturbed(p, k) EXCEPT ![k] = TRUE]
        /\ UNCHANGED <<transportVars, news, ch, got, to>>

ConsumerSubscribed(k) ==
    LET p == Home[k]
    IN  /\ con[k] = "subscribe" /\ Answered(p, k)
        /\ con' = [con EXCEPT ![k] = IF Failed(p, k) THEN "closed" ELSE "on"]
        /\ tok' = [tok EXCEPT ![p][k] = "none"]
        /\ UNCHANGED <<link, subs, route, inb, rtr, transportVars,
                       news, ch, got, since, intact, to>>

\* Send of a publisher of program p.  Without a connection nothing goes out:
\* while paho reconnects the token is done at once, and Send returns nil too.
Publish(p) ==
    /\ link[p] = "up" /\ news < MaxNews
    /\ news' = news + 1
    /\ inb' = [q \in Programs |->
                 IF News \in subs[q] THEN Append(inb[q], NewsItem(news')) ELSE inb[q]]
    /\ UNCHANGED <<link, subs, route, rtr, tok, transportVars,
                   con, ch, got, since, intact, to>>

\* The Unsubscribe of a Close in program p takes the topic from all consumers
\* there; w waits for the UNSUBACK.
UnsubscribeNews(p, w) ==
    /\ link[p] = "up" /\ subs' = [subs EXCEPT ![p] = @ \ {News}]
    /\ route' = [route EXCEPT ![p][News] = NoRoute]
    /\ inb' = [inb EXCEPT ![p] = Append(@, AckFor(w))]
    /\ tok' = [tok EXCEPT ![p][w] = "wait"]
    /\ intact' = Disturbed(p, NoRoute)
    /\ UNCHANGED <<link, rtr, transportVars, news, ch, got, since, to>>

\* A user who closes has stopped receiving.  Without a connection Unsubscribe
\* fails at once.
CloseConsumer(k) ==
    /\ con[k] = "on"
    /\ \/ UnsubscribeNews(Home[k], k) /\ con' = [con EXCEPT ![k] = "closing"]
       \/ /\ link[Home[k]] # "up" /\ con' = [con EXCEPT ![k] = "closed"]
          /\ UNCHANGED <<pahoVars, transportVars, news, ch, got, since, intact, to>>

ConsumerClosed(k) ==
    LET p == Home[k]
    IN  /\ con[k] = "closing" /\ Answered(p, k)
        /\ con' = [con EXCEPT ![k] = "closed"] /\ tok' = [tok EXCEPT ![p][k] = "none"]
        /\ UNCHANGED <<link, subs, route, inb, rtr, transportVars,
                       news, ch, got, since, intact, to>>

\* A bound: one publisher of the program closes at a time, and not where nobody
\* is subscribed.
ClosePublisher(p) ==
    /\ Answered(p, "publisher") /\ News \in subs[p]
    /\ UnsubscribeNews(p, "publisher") /\ UNCHANGED con

\* Mutant: Recv is done after the first message.
Recv_Once(k) ==
    /\ con[k] = "on" /\ ch[k] # <<>> /\ got[k] = <<>>
    /\ got' = [got EXCEPT ![k] = Append(@, Head(ch[k]))]
    /\ ch' = [ch EXCEPT ![k] = <<>>]
    /\ UNCHANGED <<pahoVars, transportVars, news, con, since, intact, to>>

Recv(k) ==
    /\ con[k] = "on" /\ ch[k] # <<>>
    /\ got' = [got EXCEPT ![k] = Append(@, Head(ch[k]))]
    /\ ch' = [ch EXCEPT ![k] = <<>>]
    /\ UNCHANGED <<pahoVars, transportVars, news, con, since, intact, to>>

(* ------------------------------ The router ------------------------------ *)

IsNews(p) == rtr[p] # <<>> /\ Head(rtr[p]).kind = "news"

\* The callback that the topic has by now; without one the message is dropped.
NewsCallback(p) ==
    /\ IsNews(p) /\ cb[p] = "idle"
    /\ IF route[p][News] = NoRoute
       THEN rtr' = [rtr EXCEPT ![p] = Tail(@)] /\ UNCHANGED <<cb, to>>
       ELSE /\ cb' = [cb EXCEPT ![p] = "push"]
            /\ to' = [to EXCEPT ![p] = route[p][News]] /\ UNCHANGED rtr
    /\ UNCHANGED <<link, subs, route, inb, tok, handlers, ens, todo, sure, fate,
                   news, con, ch, got, since, intact>>

\* Mutant: a message for which there is no room is dropped.
HasRoom_Drop(k) == TRUE

HasRoom(k) == ch[k] = <<>>

\* Mutant: the callback leaves the channel to a goroutine, and a later message
\* may come first.
PushIndex_Any(p) == {i \in 1 .. Len(rtr[p]) : rtr[p][i].kind = "news"}

PushIndex(p) == {1}

\* c.receiver <- &m, and the callback returns.
PushNews(p) ==
    /\ cb[p] = "push" /\ HasRoom(to[p])
    /\ \E i \in PushIndex(p) :
          /\ ch' = [ch EXCEPT ![to[p]] = IF @ = <<>> THEN <<rtr[p][i].of>> ELSE @]
          /\ rtr' = [rtr EXCEPT ![p] = RemoveAt(@, i)]
    /\ cb' = [cb EXCEPT ![p] = "idle"] /\ to' = [to EXCEPT ![p] = NoRoute]
    /\ UNCHANGED <<link, subs, route, inb, tok, handlers, ens, todo, sure, fate,
                   news, con, got, since, intact>>

(* ------------------------------ The system ------------------------------ *)

Breaks(p) ==
    /\ Lose(p) \/ Close(p)
    /\ intact' = Disturbed(p, NoRoute)
    /\ UNCHANGED <<news, con, ch, got, since, to>>

\* The goroutines of p, whatever its users do: ensureConnected, the router and
\* paho's reader.
Connecting(p) == Ensures(p) /\ UNCHANGED newsVars
Routing(p) == (Router(p) /\ UNCHANGED newsVars) \/ NewsCallback(p) \/ PushNews(p)
Reading(p) == (Incoming(p) \/ TokensFail(p)) /\ UNCHANGED newsVars

\* What the users of p and its surroundings do.
Uses(p) ==
    \/ EnsureConnected(p) \/ Reconnect(p)
    \/ \E m \in Methods : RegisterHandler(p, m) \/ UnregisterHandler(p, m)

Next ==
    \/ \E p \in Programs :
          \/ Connecting(p) \/ Routing(p) \/ Reading(p)
          \/ Breaks(p) \/ Publish(p) \/ ClosePublisher(p)
          \/ Uses(p) /\ UNCHANGED newsVars
    \/ \E c \in Calls : Invoke(c) /\ UNCHANGED newsVars
    \/ \E k \in Consumers :
          \/ NewConsumer(k) \/ ConsumerSubscribed(k) \/ Recv(k)
          \/ CloseConsumer(k) \/ ConsumerClosed(k)

Spec == Init /\ [][Next]_vars

\* The goroutines run, and each consumer keeps receiving.
FairSpec ==
    /\ Spec
    /\ \A p \in Programs :
          WF_vars(Connecting(p)) /\ WF_vars(Routing(p)) /\ WF_vars(Reading(p))
    /\ \A k \in Consumers : WF_vars(Recv(k))

(* ------------------------------ Properties ------------------------------ *)

\* What may be on its way to a program.
Packets ==
    {AckFor(w) : w \in Waiters} \cup {Invocation(c) : c \in Calls}
        \cup {NewsItem(n) : n \in 1 .. MaxNews}

\* No variable leaves its type; a callback waits only with its message in the
\* router, and no more messages than RouterAhead wait behind it.
TypeOK ==
    /\ link \in [Programs -> {"down", "up", "lost"}]
    /\ subs \in [Programs -> SUBSET Topics]
    /\ route \in [Programs -> [Topics -> Consumers \cup {NoRoute, "invoke"}]]
    /\ inb \in [Programs -> Seq(Packets)] /\ rtr \in [Programs -> Seq(Packets)]
    /\ tok \in [Programs -> [Waiters -> {"none", "wait", "failed"}]]
    /\ handlers \in [Programs -> SUBSET Methods] /\ todo \in [Programs -> SUBSET Methods]
    /\ sure \in [Programs -> SUBSET Methods]
    /\ ens \in [Programs -> {"idle", "subscribe", "suback"}]
    /\ cb \in [Programs -> {"idle", "control", "data", "push"}]
    /\ fate \in [Calls -> {"none", "dropped", "sent", "ignored", "refused", "running", "absent"}]
    /\ news \in 0 .. MaxNews /\ con \in [Consumers -> ConsumerStates]
    /\ ch \in [Consumers -> Seq(1 .. MaxNews)] /\ got \in [Consumers -> Seq(1 .. MaxNews)]
    /\ since \in [Consumers -> 0 .. MaxNews] /\ intact \in [Consumers -> BOOLEAN]
    /\ to \in [Programs -> Consumers \cup {NoRoute}]
    /\ \A p \in Programs :
          /\ Len(rtr[p]) <= RouterAhead + 1 /\ (cb[p] # "idle" => rtr[p] # <<>>)
          /\ to[p] \in Consumers <=> cb[p] = "push"
    /\ \A k \in Consumers : Len(ch[k]) <= 1

\* An INVOKE is dropped for want of a subscriber only if each program that is
\* done connecting registered its handler after the connection was made, or
\* has lost that connection since: paho's reconnect subscribes to nothing, and
\* ensureConnected takes it for a connection (paho.go:64).
DroppedHasReason ==
    [][\A c \in Calls : fate'[c] = "dropped" /\ fate[c] # "dropped" =>
          \A p \in Programs : ens[p] = "idle" => MethodOf[c] \notin sure[p]]_vars

\* The publications in a queue of packets.
NewsOf(q) == {q[i].of : i \in {j \in 1 .. Len(q) : q[j].kind = "news"}}

\* The publications since its subscription that k has received or that are on
\* their way to its channel, unless the callback has taken one for another.
Reached(k) ==
    LET p == Home[k]
        queue == IF to[p] \notin {k, NoRoute} THEN Tail(rtr[p]) ELSE rtr[p]
    IN  {n \in Range(got[k]) \cup Range(ch[k]) \cup NewsOf(queue) \cup NewsOf(inb[p]) :
           n > since[k]}

\* A consumer gets every publication since its subscription, and no other, as
\* long as no Close in its program, no second consumer there and no lost
\* connection takes the subscription away.
NothingMissed ==
    \A k \in Consumers :
       con[k] = "on" /\ intact[k] => Reached(k) = (since[k] + 1) .. news

\* Whatever happens to its subscription, what a consumer gets is in the order
\* it was published, and nothing comes twice.
NewsInOrder ==
    \A k \in Consumers :
       LET seen == got[k] \o ch[k]
       IN  \A i, j \in 1 .. Len(seen) : i < j => seen[i] < seen[j]

(* ------------------------- The inductive invariant ---------------------- *)

\* Every publication of A came before every one of B.
Before(A, B) == \A m \in A, n \in B : m < n

\* The publications in a queue of packets are in order.
Ordered(q) ==
    \A i, j \in 1 .. Len(q) :
       i < j /\ q[i].kind = "news" /\ q[j].kind = "news" => q[i].of < q[j].of

\* The callback of the topic, and the one that is under way, are those of a
\* consumer of the program, and the latter has a publication to hand over.
Placed ==
    \A p \in Programs :
       /\ route[p][News] \in Consumers \cup {NoRoute} /\ to[p] \in Consumers \cup {NoRoute}
       /\ route[p][News] \in Consumers => Home[route[p][News]] = p
       /\ to[p] \in Consumers => Home[to[p]] = p
       /\ cb[p] = "push" => Head(rtr[p]).kind = "news"

\* Publications come to the program in order, and stay so.
QueuesInOrder ==
    \A p \in Programs :
       /\ Ordered(rtr[p]) /\ Ordered(inb[p]) /\ Before(NewsOf(rtr[p]), NewsOf(inb[p]))
       /\ NewsOf(rtr[p]) \cup NewsOf(inb[p]) \subseteq 1 .. news

\* What a consumer has received, has in its channel, in the router of its
\* program and on its way there is in this order.
SeenInOrder ==
    \A k \in Consumers :
       /\ \A i, j \in 1 .. Len(got[k]) : i < j => got[k][i] < got[k][j]
       /\ Before(Range(got[k]), Range(ch[k]))
       /\ Before(Range(got[k]) \cup Range(ch[k]),
                 NewsOf(rtr[Home[k]]) \cup NewsOf(inb[Home[k]]))
       /\ Range(got[k]) \cup Range(ch[k]) \subseteq 1 .. news

\* As long as nobody has taken the subscription of k away, it has all that was
\* published since then, or it is on its way.
Undisturbed ==
    \A k \in Consumers :
       LET p == Home[k]
       IN  intact[k] =>
              /\ link[p] = "up" /\ News \in subs[p] /\ route[p][News] = k
              /\ to[p] \notin {k, NoRoute} => Head(rtr[p]).of <= since[k]
              /\ since[k] <= news
              /\ (since[k] + 1) .. news \subseteq
                     Range(got[k]) \cup Range(ch[k]) \cup NewsOf(rtr[p]) \cup NewsOf(inb[p])

\* What ensureConnected has not subscribed to yet it is about to subscribe to.
Connected ==
    \A p \in Programs :
       /\ sure[p] \subseteq subs[p] \cup todo[p]
       /\ ens[p] = "idle" => todo[p] = {}
       /\ link[p] # "up" => sure[p] = {}
       /\ tok[p]["ensure"] # "none" => ens[p] = "suback"
       /\ tok[p]["ensure"] = "failed" => sure[p] = {}

\* Only a callback waits for the token of newConn, and it is never failed: the
\* router, which has to end first, does not end while the callback waits.
NewConnWaits ==
    \A p \in Programs :
       tok[p]["callback"] # "none" =>
          tok[p]["callback"] = "wait" /\ cb[p] \in {"control", "data"}

\* The inductive invariant of the programs and their consumers.
Inv ==
    /\ Placed /\ QueuesInOrder /\ SeenInOrder /\ Undisturbed
    /\ Connected /\ NewConnWaits

(* ------------------------------- Liveness ------------------------------- *)

\* A consumer that keeps receiving does not keep the router, which calls and
\* other consumers need.
ReadNewsFreesRouter ==
    \A p \in Programs, k \in Consumers :
       to[p] = k /\ con[k] = "on" ~> to[p] # k \/ con[k] # "on"

\* A message that the router has no room for is in front of the others.
Stuck(p) == Len(rtr[p]) > RouterAhead /\ inb[p] # <<>> /\ Head(inb[p]).kind # "ack"

\* The connection has gone while newConn waits: nobody will answer it, and paho
\* lets its token fail only when the router has ended, which waits for newConn.
Orphaned(p) == link[p] # "up" /\ tok[p]["callback"] = "wait"

\* The router gets done with an INVOKE unless newConn, which waits in it for two
\* SUBACKs (conn.go:74, paho.go:166), waits for ever: because more messages
\* have arrived before them than paho reads ahead, or the connection has gone.
RouterServes ==
    \A p \in Programs, c \in Calls :
       InCallback(p, c) ~> ~InCallback(p, c) \/ Stuck(p) \/ Orphaned(p)
=============================================================================
