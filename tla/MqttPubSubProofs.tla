-------------------------- MODULE MqttPubSubProofs --------------------------
(***************************************************************************)
(* Theorems about publishers and consumers over MQTT, and about how a      *)
(* transport connects, for any number of programs, consumers, calls and    *)
(* publications.                                                           *)
(***************************************************************************)
EXTENDS MqttPubSub, SequenceTheorems, TLAPS

LEMMA NamesType ==
    /\ News \in Topics /\ Methods \subseteq Topics /\ News \notin Methods
    /\ Consumers \subseteq Waiters /\ "ensure" \in Waiters /\ "callback" \in Waiters
    /\ "publisher" \in Waiters /\ "publisher" # "ensure" /\ "publisher" # "callback"
    /\ NoRoute \notin Consumers
    /\ "invoke" \notin Consumers /\ "ensure" \notin Consumers /\ "callback" \notin Consumers
    /\ "ensure" # "callback" /\ MaxNews \in Nat /\ RouterAhead \in Nat
    /\ \A k \in Consumers : Home[k] \in Programs
    /\ \A c \in Calls : MethodOf[c] \in Methods
BY PahoAssumption, PubSubAssumption DEF Topics, Waiters, NoRoute

\* The packets, by their kinds.
LEMMA PacketsType ==
    /\ \A w \in Waiters : AckFor(w) \in Packets /\ AckFor(w).kind = "ack"
    /\ \A c \in Calls : Invocation(c) \in Packets /\ Invocation(c).kind = "invoke"
    /\ \A n \in 1 .. MaxNews : /\ NewsItem(n) \in Packets /\ NewsItem(n).kind = "news"
                               /\ NewsItem(n).of = n
    /\ \A x \in Packets : /\ x.kind = "ack" => x.of \in Waiters
                          /\ x.kind = "news" => x.of \in 1 .. MaxNews
<1>1. \A w \in Waiters : AckFor(w) \in Packets /\ AckFor(w).kind = "ack"
  BY DEF Packets, AckFor
<1>2. \A c \in Calls : Invocation(c) \in Packets /\ Invocation(c).kind = "invoke"
  BY DEF Packets, Invocation
<1>3. \A n \in 1 .. MaxNews : /\ NewsItem(n) \in Packets /\ NewsItem(n).kind = "news"
                              /\ NewsItem(n).of = n
  BY DEF Packets, NewsItem
<1>4. ASSUME NEW x \in Packets
      PROVE  (x.kind = "ack" => x.of \in Waiters) /\ (x.kind = "news" => x.of \in 1 .. MaxNews)
  <2>1. CASE \E w \in Waiters : x = AckFor(w)
    BY <2>1 DEF AckFor
  <2>2. CASE \E c \in Calls : x = Invocation(c)
    BY <2>2 DEF Invocation
  <2>3. CASE \E n \in 1 .. MaxNews : x = NewsItem(n)
    BY <2>3 DEF NewsItem
  <2> QED
    BY <2>1, <2>2, <2>3 DEF Packets
<1> QED
  BY <1>1, <1>2, <1>3, <1>4

-----------------------------------------------------------------------------
(* Queues of packets.                                                      *)

LEMMA NewsNone == NewsOf(<<>>) = {} /\ Ordered(<<>>)
<1>1. Len(<<>>) = 0
  OBVIOUS
<1> QED
  BY <1>1 DEF NewsOf, Ordered

LEMMA NewsIs ==
    ASSUME NEW q \in Seq(Packets), NEW n
    PROVE  n \in NewsOf(q) <=> \E i \in 1 .. Len(q) : q[i].kind = "news" /\ n = q[i].of
BY DEF NewsOf

LEMMA NewsRange ==
    ASSUME NEW q \in Seq(Packets)
    PROVE  NewsOf(q) \subseteq 1 .. MaxNews
<1>1. \A i \in 1 .. Len(q) : q[i] \in Packets
  OBVIOUS
<1> QED
  BY <1>1, NewsIs, PacketsType

LEMMA NewsAppend ==
    ASSUME NEW q \in Seq(Packets), NEW x \in Packets
    PROVE  /\ x.kind # "news" => NewsOf(Append(q, x)) = NewsOf(q)
           /\ x.kind = "news" => NewsOf(Append(q, x)) = NewsOf(q) \cup {x.of}
<1> DEFINE r == Append(q, x)
<1>1. /\ r \in Seq(Packets) /\ Len(r) = Len(q) + 1 /\ r[Len(q) + 1] = x
      /\ \A i \in 1 .. Len(q) : r[i] = q[i]
      /\ Len(q) \in Nat
  BY AppendProperties, LenProperties
<1> HIDE DEF r
<1>2. \A i : i \in 1 .. Len(r) <=> i \in 1 .. Len(q) \/ i = Len(q) + 1
  BY <1>1
<1>3. ASSUME NEW n
      PROVE  n \in NewsOf(r) <=> n \in NewsOf(q) \/ (x.kind = "news" /\ n = x.of)
  BY <1>1, <1>2, NewsIs
<1> QED
  BY <1>3 DEF r

LEMMA OrderedAppend ==
    ASSUME NEW q \in Seq(Packets), NEW x \in Packets, Ordered(q),
           x.kind = "news" => \A n \in NewsOf(q) : n < x.of
    PROVE  Ordered(Append(q, x))
<1> DEFINE r == Append(q, x)
<1>1. /\ r \in Seq(Packets) /\ Len(r) = Len(q) + 1 /\ r[Len(q) + 1] = x
      /\ \A i \in 1 .. Len(q) : r[i] = q[i]
      /\ Len(q) \in Nat
  BY AppendProperties, LenProperties
<1> HIDE DEF r
<1>2. ASSUME NEW i \in 1 .. Len(r), NEW j \in 1 .. Len(r), i < j,
             r[i].kind = "news", r[j].kind = "news"
      PROVE  r[i].of < r[j].of
  <2>1. i \in 1 .. Len(q)
    BY <1>1, <1>2
  <2>2. CASE j \in 1 .. Len(q)
    BY <1>1, <1>2, <2>1, <2>2 DEF Ordered
  <2>3. CASE j = Len(q) + 1
    <3>1. q[i].of \in NewsOf(q)
      BY <1>1, <1>2, <2>1, NewsIs
    <3> QED
      BY <1>1, <1>2, <2>1, <2>3, <3>1
  <2> QED
    BY <1>1, <2>2, <2>3
<1> QED
  BY <1>2 DEF Ordered, r

LEMMA NewsTail ==
    ASSUME NEW q \in Seq(Packets), q # <<>>
    PROVE  /\ Head(q) \in Packets /\ Tail(q) \in Seq(Packets)
           /\ Len(Tail(q)) = Len(q) - 1
           /\ Head(q).kind # "news" => NewsOf(q) = NewsOf(Tail(q))
           /\ Head(q).kind = "news" => NewsOf(q) = NewsOf(Tail(q)) \cup {Head(q).of}
           /\ Ordered(q) => Ordered(Tail(q))
           /\ Ordered(q) /\ Head(q).kind = "news" => \A n \in NewsOf(Tail(q)) : Head(q).of < n
<1> DEFINE t == Tail(q)
           x == Head(q)
<1>1. /\ x \in Packets /\ t \in Seq(Packets) /\ Len(t) = Len(q) - 1
      /\ x = q[1] /\ Len(q) \in Nat \ {0} /\ Len(t) \in Nat
      /\ \A i \in 1 .. Len(t) : t[i] = q[i + 1]
  BY HeadTailProperties, LenProperties, EmptySeq
<1> HIDE DEF t, x
<1>2. /\ \A j \in 1 .. Len(t) : j + 1 \in 1 .. Len(q)
      /\ \A i \in 1 .. Len(q) : i # 1 => i - 1 \in 1 .. Len(t) /\ (i - 1) + 1 = i
      /\ 1 \in 1 .. Len(q)
  <2> DEFINE k == Len(q)
             l == Len(t)
  <2>1. k \in Nat \ {0} /\ l \in Nat /\ l = k - 1
    BY <1>1
  <2> HIDE DEF k, l
  <2>2. /\ \A j \in 1 .. l : j + 1 \in 1 .. k
        /\ \A i \in 1 .. k : i # 1 => i - 1 \in 1 .. l /\ (i - 1) + 1 = i
        /\ 1 \in 1 .. k
    BY <2>1
  <2> QED
    BY <2>2 DEF k, l
<1>3. ASSUME NEW n
      PROVE  n \in NewsOf(q) <=> n \in NewsOf(t) \/ (x.kind = "news" /\ n = x.of)
  <2>1. ASSUME n \in NewsOf(q)
        PROVE  n \in NewsOf(t) \/ (x.kind = "news" /\ n = x.of)
    <3>1. PICK i \in 1 .. Len(q) : q[i].kind = "news" /\ n = q[i].of
      BY <2>1, NewsIs
    <3>2. CASE i = 1
      BY <1>1, <3>1, <3>2
    <3>3. CASE i # 1
      <4>1. i - 1 \in 1 .. Len(t) /\ t[i - 1] = q[i]
        BY <1>1, <1>2, <3>3
      <4> QED
        BY <1>1, <3>1, <4>1, NewsIs
    <3> QED
      BY <3>2, <3>3
  <2>2. ASSUME n \in NewsOf(t)
        PROVE  n \in NewsOf(q)
    <3>1. PICK j \in 1 .. Len(t) : t[j].kind = "news" /\ n = t[j].of
      BY <1>1, <2>2, NewsIs
    <3>2. j + 1 \in 1 .. Len(q) /\ q[j + 1] = t[j]
      BY <1>1, <1>2
    <3> QED
      BY <3>1, <3>2, NewsIs
  <2>3. x.kind = "news" => x.of \in NewsOf(q)
    BY <1>1, <1>2, NewsIs
  <2> QED
    BY <2>1, <2>2, <2>3
<1>4. ASSUME Ordered(q), NEW i \in 1 .. Len(t), NEW j \in 1 .. Len(t), i < j,
             t[i].kind = "news", t[j].kind = "news"
      PROVE  t[i].of < t[j].of
  <2>1. i + 1 \in 1 .. Len(q) /\ j + 1 \in 1 .. Len(q) /\ i + 1 < j + 1
    BY <1>1, <1>4
  <2> QED
    BY <1>1, <1>4, <2>1 DEF Ordered
<1>5. ASSUME Ordered(q), x.kind = "news", NEW n \in NewsOf(t)
      PROVE  x.of < n
  <2>1. PICK i \in 1 .. Len(t) : t[i].kind = "news" /\ n = t[i].of
    BY <1>1, NewsIs
  <2>2. 1 \in 1 .. Len(q) /\ i + 1 \in 1 .. Len(q) /\ 1 < i + 1
    BY <1>1
  <2> QED
    BY <1>1, <1>5, <2>1, <2>2 DEF Ordered
<1>6. Ordered(q) => Ordered(t)
  BY <1>4 DEF Ordered
<1> QED
  BY <1>1, <1>3, <1>5, <1>6 DEF t, x

LEMMA RangeFacts ==
    ASSUME NEW s \in Seq(1 .. MaxNews), NEW n \in 1 .. MaxNews
    PROVE  /\ Range(Append(s, n)) = Range(s) \cup {n}
           /\ Range(<<n>>) = {n} /\ Range(<<>>) = {}
           /\ Range(s) \subseteq 1 .. MaxNews
<1> DEFINE r == Append(s, n)
<1>1. /\ r \in Seq(1 .. MaxNews) /\ Len(r) = Len(s) + 1 /\ r[Len(s) + 1] = n
      /\ \A i \in 1 .. Len(s) : r[i] = s[i]
      /\ Len(s) \in Nat /\ DOMAIN s = 1 .. Len(s) /\ DOMAIN r = 1 .. Len(r)
  BY AppendProperties, LenProperties
<1> HIDE DEF r
<1>2. \A i : i \in 1 .. Len(r) <=> i \in 1 .. Len(s) \/ i = Len(s) + 1
  BY <1>1
<1>3. Range(r) = Range(s) \cup {n}
  BY <1>1, <1>2 DEF Range
<1>4. DOMAIN <<n>> = {1} /\ <<n>>[1] = n
  OBVIOUS
<1>5. DOMAIN <<>> = {}
  OBVIOUS
<1>6. Range(<<n>>) = {n}
  BY <1>4 DEF Range
<1>7. Range(<<>>) = {}
  BY <1>5 DEF Range
<1>8. Range(s) \subseteq 1 .. MaxNews
  <2>1. \A i \in 1 .. Len(s) : s[i] \in 1 .. MaxNews
    BY ElementOfSeq
  <2>2. DOMAIN s = 1 .. Len(s)
    OBVIOUS
  <2> QED
    BY <2>1, <2>2 DEF Range
<1> QED
  BY <1>3, <1>6, <1>7, <1>8 DEF r

\* The callback is done with the first message.
LEMMA FirstRemoved ==
    ASSUME NEW S, NEW q \in Seq(S), q # <<>>
    PROVE  RemoveAt(q, 1) = Tail(q)
<1>1. SubSeq(q, 1, 0) = <<>>
  BY SubSeqEmpty
<1>2. SubSeq(q, 2, Len(q)) = Tail(q)
  BY TailIsSubSeq
<1>3. Tail(q) \in Seq(S)
  BY HeadTailProperties
<1> DEFINE t == Tail(q)
<1> HIDE DEF t
<1>4. <<>> \o t = t
  BY <1>3, ConcatEmptySeq DEF t
<1>5. RemoveAt(q, 1) = SubSeq(q, 1, 0) \o SubSeq(q, 2, Len(q))
  BY DEF RemoveAt
<1> QED
  BY <1>1, <1>2, <1>4, <1>5 DEF t

-----------------------------------------------------------------------------
(* What a step does to the queues, whoever takes it.                       *)

\* A packet other than a publication is on its way to program p.
Posts(p) ==
    /\ \E x \in Packets : x.kind # "news" /\ inb' = [inb EXCEPT ![p] = Append(@, x)]
    /\ UNCHANGED <<rtr, to, news, ch, got>>

\* All that is on its way to p is lost, with its connection.
Cuts(p) ==
    /\ inb' = [inb EXCEPT ![p] = <<>>] /\ link'[p] # "up"
    /\ UNCHANGED <<rtr, to, news, ch, got>>

\* The callback is done with a message that is not a publication for a consumer.
Skips(p) ==
    /\ rtr[p] # <<>> /\ rtr' = [rtr EXCEPT ![p] = Tail(@)] /\ cb[p] # "push"
    /\ Head(rtr[p]).kind = "news" => route[p][News] = NoRoute
    /\ UNCHANGED <<inb, to, news, ch, got, link, subs, route, since, intact>>

\* Paho reads the next packet; that tokens fail does nothing to the queues.
Reads(p) == Incoming(p) /\ UNCHANGED newsVars

\* An Unsubscribe sends a packet; without a connection a Close does nothing.
LEMMA UnsubscribePosts ==
    ASSUME NEW p \in Programs, NEW w \in Waiters, UnsubscribeNews(p, w)
    PROVE  Posts(p)
BY PacketsType DEF UnsubscribeNews, Posts

LEMMA CloseSteps ==
    ASSUME NEW k \in Consumers, CloseConsumer(k)
    PROVE  \/ UnsubscribeNews(Home[k], k)
           \/ UNCHANGED <<pahoVars, transportVars, news, ch, got, since, intact, to>>
BY DEF CloseConsumer

LEMMA QueueSteps ==
    ASSUME TypeOK, Inv, [Next]_vars
    PROVE  \/ UNCHANGED <<rtr, inb, to, news, ch, got>>
           \/ \E p \in Programs :
                 \/ Posts(p) \/ Cuts(p) \/ Skips(p) \/ Reads(p) \/ Publish(p) \/ PushNews(p)
                 \/ NewsCallback(p) /\ route[p][News] # NoRoute
           \/ \E k \in Consumers : Recv(k)
<1>1. ASSUME NEW p \in Programs, NEW topics, NEW callback, NEW w \in Waiters,
             Subscribe(p, topics, callback, w), UNCHANGED <<to, news, ch, got>>
      PROVE  Posts(p)
  BY <1>1, PacketsType DEF Subscribe, Posts
<1>2. ASSUME NEW p \in Programs, Ensures(p), UNCHANGED newsVars
      PROVE  Posts(p) \/ UNCHANGED <<rtr, inb, to, news, ch, got>>
  <2>1. CASE \E m \in Methods : SubscribeNext(p, m)
    <3>1. PICK m \in Methods : SubscribeNext(p, m)
      BY <2>1
    <3>2. CASE link[p] = "up"
      <4>1. Subscribe(p, {m}, "invoke", "ensure")
        BY <3>1, <3>2 DEF SubscribeNext
      <4> QED
        BY <1>1, <1>2, <4>1, NamesType DEF newsVars
    <3>3. CASE link[p] # "up"
      BY <1>2, <3>1, <3>3 DEF SubscribeNext, pahoVars, newsVars
    <3> QED
      BY <3>2, <3>3
  <2>2. CASE Subscribed(p) \/ OnConnect(p)
    BY <1>2, <2>2 DEF Subscribed, OnConnect, pahoVars, newsVars
  <2> QED
    BY <1>2, <2>1, <2>2 DEF Ensures
<1>3. ASSUME NEW p \in Programs, Router(p), UNCHANGED newsVars
      PROVE  Posts(p) \/ Skips(p)
  <2>1. PICK c \in Calls : Callback(p, c) \/ NewConnGoesOn(p, c)
    BY <1>3 DEF Router
  <2>2. rtr[p] # <<>> /\ Head(rtr[p]).kind # "news" /\ cb[p] # "push"
    BY <2>1, PacketsType DEF Callback, NewConnGoesOn, InCallback
  <2>3. ASSUME NEW where, NewConn(p, where)
        PROVE  Posts(p)
    BY <1>1, <1>3, <2>3, NamesType DEF NewConn, newsVars
  <2>4. ASSUME NEW outcome, CallbackReturns(p, c, outcome),
               UNCHANGED <<inb, link, subs, route>>
        PROVE  Skips(p)
    BY <1>3, <2>2, <2>4 DEF CallbackReturns, Skips, newsVars
  <2> QED
    BY <2>1, <2>3, <2>4 DEF Callback, NewConnGoesOn, HandlerStarts
<1>4. ASSUME NEW p \in Programs, NewsCallback(p)
      PROVE  Skips(p) \/ route[p][News] # NoRoute
  BY <1>4 DEF NewsCallback, IsNews, Skips
<1>5. ASSUME NEW p \in Programs, Breaks(p)
      PROVE  Cuts(p)
  BY <1>5 DEF Breaks, Lose, Close, Disconnected, Cuts, TypeOK
<1>6. ASSUME NEW p \in Programs, Uses(p) \/ TokensFail(p), UNCHANGED newsVars
      PROVE  UNCHANGED <<rtr, inb, to, news, ch, got>>
  BY <1>6 DEF Uses, EnsureConnected, Reconnect, TokensFail, RegisterHandler,
    UnregisterHandler, pahoVars, newsVars
<1>7. ASSUME NEW c \in Calls, Invoke(c), UNCHANGED newsVars
      PROVE  UNCHANGED <<rtr, inb, to, news, ch, got>> \/ \E p \in Programs : Posts(p)
  BY <1>7, PacketsType DEF Invoke, newsVars, Posts
<1>8. ASSUME NEW k \in Consumers, NewConsumer(k)
      PROVE  \E p \in Programs : Posts(p)
  BY <1>1, <1>8, NamesType DEF NewConsumer
<1>9. ASSUME NEW k \in Consumers, ConsumerSubscribed(k) \/ ConsumerClosed(k)
      PROVE  UNCHANGED <<rtr, inb, to, news, ch, got>>
  BY <1>9 DEF ConsumerSubscribed, ConsumerClosed
<1>10. ASSUME NEW k \in Consumers, CloseConsumer(k)
       PROVE  UNCHANGED <<rtr, inb, to, news, ch, got>> \/ \E p \in Programs : Posts(p)
  BY <1>10, CloseSteps, UnsubscribePosts, NamesType DEF pahoVars
<1>11. ASSUME NEW p \in Programs, ClosePublisher(p)
       PROVE  Posts(p)
  BY <1>11, UnsubscribePosts, NamesType DEF ClosePublisher
<1>12. CASE UNCHANGED vars
  BY <1>12 DEF vars, pahoVars, newsVars
<1>13. CASE \E p \in Programs : Connecting(p) \/ Routing(p) \/ Reading(p) \/ Breaks(p)
                                \/ Publish(p) \/ ClosePublisher(p) \/ (Uses(p) /\ UNCHANGED newsVars)
  BY <1>2, <1>3, <1>4, <1>5, <1>6, <1>11, <1>13 DEF Connecting, Routing, Reading,
    Reads
<1>14. CASE \E k \in Consumers : \/ NewConsumer(k) \/ ConsumerSubscribed(k) \/ Recv(k)
                                 \/ CloseConsumer(k) \/ ConsumerClosed(k)
  BY <1>8, <1>9, <1>10, <1>14
<1> QED
  BY <1>7, <1>12, <1>13, <1>14 DEF Next

-----------------------------------------------------------------------------
(* Types.                                                                  *)

LEMMA TypeInit ==
    ASSUME Init
    PROVE  TypeOK
<1>1. PICK scene \in Scenes :
          /\ news = MaxNews - scene.news
          /\ fate = [c \in Calls |-> IF c \in scene.calls THEN "none" ELSE "absent"]
          /\ con = [k \in Consumers |-> IF k \in scene.consumers THEN "none" ELSE "absent"]
  BY DEF Init
<1>2. scene.news \in 0 .. MaxNews
  BY PubSubAssumption
<1>3. /\ news \in 0 .. MaxNews
      /\ fate \in [Calls -> {"none", "dropped", "sent", "ignored", "refused", "running", "absent"}]
      /\ con \in [Consumers -> ConsumerStates]
  BY <1>1, <1>2, NamesType DEF ConsumerStates
<1>4. Called \subseteq Methods
  BY NamesType DEF Called
<1>5. /\ link \in [Programs -> {"down", "up", "lost"}]
      /\ subs \in [Programs -> SUBSET Topics]
      /\ route \in [Programs -> [Topics -> Consumers \cup {NoRoute, "invoke"}]]
      /\ inb \in [Programs -> Seq(Packets)] /\ rtr \in [Programs -> Seq(Packets)]
      /\ tok \in [Programs -> [Waiters -> {"none", "wait", "failed"}]]
      /\ handlers \in [Programs -> SUBSET Methods] /\ todo \in [Programs -> SUBSET Methods]
      /\ sure \in [Programs -> SUBSET Methods]
      /\ ens \in [Programs -> {"idle", "subscribe", "suback"}]
      /\ cb \in [Programs -> {"idle", "control", "data", "push"}]
  BY <1>4 DEF Init, PahoInit, All
<1>6. /\ ch \in [Consumers -> Seq(1 .. MaxNews)] /\ got \in [Consumers -> Seq(1 .. MaxNews)]
      /\ since \in [Consumers -> 0 .. MaxNews] /\ intact \in [Consumers -> BOOLEAN]
      /\ to \in [Programs -> Consumers \cup {NoRoute}]
  BY NamesType DEF Init, All
<1>7. \A p \in Programs :
          /\ Len(rtr[p]) <= RouterAhead + 1 /\ (cb[p] # "idle" => rtr[p] # <<>>)
          /\ to[p] \in Consumers <=> cb[p] = "push"
  <2> SUFFICES ASSUME NEW p \in Programs
      PROVE  /\ Len(rtr[p]) <= RouterAhead + 1 /\ (cb[p] # "idle" => rtr[p] # <<>>)
             /\ to[p] \in Consumers <=> cb[p] = "push"
    OBVIOUS
  <2>1. rtr[p] = <<>> /\ cb[p] = "idle" /\ to[p] = NoRoute
    BY DEF Init, PahoInit, All
  <2>2. Len(<<>>) = 0
    OBVIOUS
  <2> QED
    BY <2>1, <2>2, NamesType
<1>8. \A k \in Consumers : Len(ch[k]) <= 1
  BY DEF Init
<1> QED
  BY <1>3, <1>5, <1>6, <1>7, <1>8 DEF TypeOK

LEMMA SubscribeType ==
    ASSUME TypeOK, NEW p \in Programs, NEW topics \in SUBSET Topics,
           NEW callback \in Consumers \cup {NoRoute, "invoke"}, NEW w \in Waiters,
           Subscribe(p, topics, callback, w)
    PROVE  /\ link' = link /\ rtr' = rtr
           /\ subs' \in [Programs -> SUBSET Topics]
           /\ route' \in [Programs -> [Topics -> Consumers \cup {NoRoute, "invoke"}]]
           /\ inb' \in [Programs -> Seq(Packets)]
           /\ tok' \in [Programs -> [Waiters -> {"none", "wait", "failed"}]]
<1>1. inb[p] \in Seq(Packets) /\ subs[p] \subseteq Topics
      /\ route[p] \in [Topics -> Consumers \cup {NoRoute, "invoke"}]
      /\ tok[p] \in [Waiters -> {"none", "wait", "failed"}]
  BY DEF TypeOK
<1>2. Append(inb[p], AckFor(w)) \in Seq(Packets)
  BY <1>1, PacketsType, AppendProperties
<1>3. [t \in Topics |-> IF t \in topics THEN callback ELSE route[p][t]]
          \in [Topics -> Consumers \cup {NoRoute, "invoke"}]
  BY <1>1
<1>4. [tok[p] EXCEPT ![w] = "wait"] \in [Waiters -> {"none", "wait", "failed"}]
  BY <1>1
<1>5. /\ link' = link /\ rtr' = rtr
      /\ inb' = [inb EXCEPT ![p] = Append(inb[p], AckFor(w))]
      /\ subs' = [subs EXCEPT ![p] = subs[p] \cup topics]
      /\ route' = [route EXCEPT ![p] = [t \in Topics |->
                      IF t \in topics THEN callback ELSE route[p][t]]]
      /\ tok' = [tok EXCEPT ![p] = [tok[p] EXCEPT ![w] = "wait"]]
  BY DEF Subscribe
<1>6. subs' \in [Programs -> SUBSET Topics]
  BY <1>1, <1>5 DEF TypeOK
<1>7. route' \in [Programs -> [Topics -> Consumers \cup {NoRoute, "invoke"}]]
  BY <1>3, <1>5 DEF TypeOK
<1>8. inb' \in [Programs -> Seq(Packets)]
  BY <1>2, <1>5 DEF TypeOK
<1>9. tok' \in [Programs -> [Waiters -> {"none", "wait", "failed"}]]
  BY <1>4, <1>5 DEF TypeOK
<1> QED
  BY <1>5, <1>6, <1>7, <1>8, <1>9

\* The callback returns, with its message out of the router.
LEMMA ReturnType ==
    ASSUME TypeOK, NEW p \in Programs, rtr[p] # <<>>, cb[p] # "push",
           rtr' = [rtr EXCEPT ![p] = Tail(@)], UNCHANGED to,
           cb' = [cb EXCEPT ![p] = "idle"] \/ (UNCHANGED cb /\ cb[p] = "idle")
    PROVE  /\ rtr' \in [Programs -> Seq(Packets)]
           /\ cb' \in [Programs -> {"idle", "control", "data", "push"}]
           /\ \A q \in Programs :
                 /\ Len(rtr'[q]) <= RouterAhead + 1 /\ (cb'[q] # "idle" => rtr'[q] # <<>>)
                 /\ to'[q] \in Consumers <=> cb'[q] = "push"
<1>1. /\ rtr[p] \in Seq(Packets) /\ Len(rtr[p]) <= RouterAhead + 1
      /\ rtr \in [Programs -> Seq(Packets)] /\ ~(to[p] \in Consumers)
      /\ cb \in [Programs -> {"idle", "control", "data", "push"}]
  BY DEF TypeOK
<1>2. Tail(rtr[p]) \in Seq(Packets) /\ Len(Tail(rtr[p])) <= RouterAhead + 1
  <2>1. Tail(rtr[p]) \in Seq(Packets) /\ Len(Tail(rtr[p])) = Len(rtr[p]) - 1
    BY <1>1, HeadTailProperties
  <2>2. Len(rtr[p]) \in Nat
    BY <1>1, LenProperties
  <2>3. \A a, b \in Nat : a <= b + 1 => a - 1 <= b + 1
    OBVIOUS
  <2> QED
    BY <1>1, <2>1, <2>2, <2>3, NamesType
<1>3. cb'[p] = "idle" /\ \A q \in Programs : q # p => cb'[q] = cb[q]
  BY <1>1
<1>4. rtr'[p] = Tail(rtr[p]) /\ \A q \in Programs : q # p => rtr'[q] = rtr[q]
  BY <1>1
<1>5. rtr' \in [Programs -> Seq(Packets)]
  BY <1>1, <1>2
<1>6. cb' \in [Programs -> {"idle", "control", "data", "push"}]
  BY <1>1
<1>7. ASSUME NEW q \in Programs
      PROVE  /\ Len(rtr'[q]) <= RouterAhead + 1 /\ (cb'[q] # "idle" => rtr'[q] # <<>>)
             /\ to'[q] \in Consumers <=> cb'[q] = "push"
  <2>1. CASE q = p
    BY <1>1, <1>2, <1>3, <1>4, <2>1
  <2>2. CASE q # p
    BY <1>3, <1>4, <2>2 DEF TypeOK
  <2> QED
    BY <2>1, <2>2
<1> QED
  BY <1>5, <1>6, <1>7

LEMMA EnsuresType ==
    ASSUME TypeOK, NEW p \in Programs, Ensures(p), UNCHANGED newsVars
    PROVE  TypeOK'
<1>1. CASE \E m \in Methods : SubscribeNext(p, m)
  <2>1. PICK m \in Methods : SubscribeNext(p, m)
    BY <1>1
  <2>2. CASE link[p] = "up"
    <3>1. Subscribe(p, {m}, "invoke", "ensure")
      BY <2>1, <2>2 DEF SubscribeNext
    <3>2. {m} \subseteq Topics /\ "ensure" \in Waiters
      BY NamesType
    <3>3. /\ link' = link /\ rtr' = rtr
          /\ subs' \in [Programs -> SUBSET Topics]
          /\ route' \in [Programs -> [Topics -> Consumers \cup {NoRoute, "invoke"}]]
          /\ inb' \in [Programs -> Seq(Packets)]
          /\ tok' \in [Programs -> [Waiters -> {"none", "wait", "failed"}]]
      BY <3>1, <3>2, SubscribeType
    <3>4. /\ ens' \in [Programs -> {"idle", "subscribe", "suback"}]
          /\ todo' \in [Programs -> SUBSET Methods]
      <4>1. ens' = [ens EXCEPT ![p] = "suback"] /\ todo' = [todo EXCEPT ![p] = todo[p] \ {m}]
        BY <2>1, <2>2 DEF SubscribeNext, EnsureGoes
      <4> QED
        BY <4>1 DEF TypeOK
    <3>5. UNCHANGED <<handlers, sure, cb, fate>> /\ UNCHANGED newsVars
      BY <2>1 DEF SubscribeNext
    <3> QED
      BY <3>3, <3>4, <3>5 DEF TypeOK, newsVars
  <2>3. CASE link[p] # "up"
    <3>1. /\ ens' \in [Programs -> {"idle", "subscribe", "suback"}]
          /\ todo' \in [Programs -> SUBSET Methods]
      <4>1. ens' = [ens EXCEPT ![p] = "idle"] /\ todo' = [todo EXCEPT ![p] = {}]
        BY <2>1, <2>3 DEF SubscribeNext, EnsureGoes
      <4> QED
        BY <4>1 DEF TypeOK
    <3>2. UNCHANGED <<handlers, sure, cb, fate>> /\ UNCHANGED pahoVars
      BY <2>1, <2>3 DEF SubscribeNext
    <3> QED
      BY <3>1, <3>2 DEF TypeOK, newsVars, pahoVars
  <2> QED
    BY <2>2, <2>3
<1>2. CASE Subscribed(p)
  <2>1. /\ ens' \in [Programs -> {"idle", "subscribe", "suback"}]
        /\ todo' \in [Programs -> SUBSET Methods]
    BY <1>2 DEF Subscribed, EnsureGoes, TypeOK
  <2>2. tok' \in [Programs -> [Waiters -> {"none", "wait", "failed"}]]
    BY <1>2, NamesType DEF Subscribed, TypeOK
  <2> QED
    BY <1>2, <2>1, <2>2 DEF Subscribed, TypeOK, newsVars
<1>3. CASE OnConnect(p)
  <2>1. /\ ens' \in [Programs -> {"idle", "subscribe", "suback"}]
        /\ todo' \in [Programs -> SUBSET Methods]
    BY <1>3 DEF OnConnect, EnsureGoes, TypeOK
  <2> QED
    BY <1>3, <2>1 DEF OnConnect, TypeOK, newsVars, pahoVars
<1> QED
  BY <1>1, <1>2, <1>3 DEF Ensures

LEMMA RouterType ==
    ASSUME TypeOK, NEW p \in Programs, Router(p), UNCHANGED newsVars
    PROVE  TypeOK'
<1>1. PICK c \in Calls : Callback(p, c) \/ NewConnGoesOn(p, c)
  BY DEF Router
<1>2. /\ rtr[p] # <<>> /\ cb[p] # "push" /\ UNCHANGED <<handlers, ens, todo, sure>>
      /\ to[p] \notin Consumers
  BY <1>1 DEF Callback, NewConnGoesOn, InCallback, TypeOK
<1>3. UNCHANGED <<news, con, ch, got, since, intact, to>>
  BY DEF newsVars
<1>4. ASSUME NEW where \in {"control", "data"}, NewConn(p, where)
      PROVE  TypeOK'
  <2>1. Subscribe(p, {}, NoRoute, "callback") /\ {} \subseteq Topics /\ "callback" \in Waiters
    BY <1>4, NamesType DEF NewConn
  <2>2. /\ link' = link /\ rtr' = rtr
        /\ subs' \in [Programs -> SUBSET Topics]
        /\ route' \in [Programs -> [Topics -> Consumers \cup {NoRoute, "invoke"}]]
        /\ inb' \in [Programs -> Seq(Packets)]
        /\ tok' \in [Programs -> [Waiters -> {"none", "wait", "failed"}]]
    BY <2>1, SubscribeType
  <2>3. /\ cb' = [cb EXCEPT ![p] = where] /\ UNCHANGED fate
        /\ cb' \in [Programs -> {"idle", "control", "data", "push"}]
    BY <1>4 DEF NewConn, TypeOK
  <2>4. \A q \in Programs : /\ cb'[q] # "idle" => rtr[q] # <<>>
                            /\ to[q] \in Consumers <=> cb'[q] = "push"
    BY <1>2, <2>3 DEF TypeOK
  <2> QED
    BY <1>2, <1>3, <2>2, <2>3, <2>4 DEF TypeOK
<1>5. ASSUME NEW outcome \in {"ignored", "refused", "running"},
             CallbackReturns(p, c, outcome), UNCHANGED <<link, subs, route, inb>>,
             tok' \in [Programs -> [Waiters -> {"none", "wait", "failed"}]]
      PROVE  TypeOK'
  <2>1. /\ rtr' \in [Programs -> Seq(Packets)]
        /\ cb' \in [Programs -> {"idle", "control", "data", "push"}]
        /\ \A q \in Programs :
              /\ Len(rtr'[q]) <= RouterAhead + 1 /\ (cb'[q] # "idle" => rtr'[q] # <<>>)
              /\ to'[q] \in Consumers <=> cb'[q] = "push"
    BY <1>2, <1>3, <1>5, ReturnType DEF CallbackReturns
  <2>2. fate' \in [Calls -> {"none", "dropped", "sent", "ignored", "refused", "running", "absent"}]
    BY <1>5 DEF CallbackReturns, TypeOK
  <2> QED
    BY <1>2, <1>3, <1>5, <2>1, <2>2 DEF TypeOK
<1>6. CASE Callback(p, c)
  BY <1>4, <1>5, <1>6 DEF Callback, TypeOK
<1>7. CASE NewConnGoesOn(p, c)
  BY <1>4, <1>5, <1>7 DEF NewConnGoesOn, HandlerStarts, TypeOK
<1> QED
  BY <1>1, <1>6, <1>7

LEMMA PushType ==
    ASSUME TypeOK, Inv, NEW p \in Programs, PushNews(p)
    PROVE  /\ to[p] \in Consumers /\ Home[to[p]] = p /\ rtr[p] # <<>> /\ ch[to[p]] = <<>>
           /\ Head(rtr[p]) \in Packets /\ Head(rtr[p]).kind = "news"
           /\ Head(rtr[p]).of \in 1 .. MaxNews
           /\ ch' = [ch EXCEPT ![to[p]] = <<Head(rtr[p]).of>>]
           /\ rtr' = [rtr EXCEPT ![p] = Tail(rtr[p])]
           /\ cb' = [cb EXCEPT ![p] = "idle"] /\ to' = [to EXCEPT ![p] = NoRoute]
<1>1. cb[p] = "push" /\ HasRoom(to[p]) /\ cb' = [cb EXCEPT ![p] = "idle"]
      /\ to' = [to EXCEPT ![p] = NoRoute]
  BY DEF PushNews
<1>2. to[p] \in Consumers /\ Home[to[p]] = p /\ rtr[p] # <<>> /\ Head(rtr[p]).kind = "news"
  BY <1>1 DEF TypeOK, Inv, Placed
<1>3. ch[to[p]] = <<>>
  BY <1>1 DEF HasRoom
<1>4. rtr[p] \in Seq(Packets)
  BY DEF TypeOK
<1>5. Head(rtr[p]) \in Packets /\ Head(rtr[p]).of \in 1 .. MaxNews
  BY <1>2, <1>4, PacketsType, NewsTail
<1>6. PICK i \in PushIndex(p) :
          /\ ch' = [ch EXCEPT ![to[p]] = IF @ = <<>> THEN <<rtr[p][i].of>> ELSE @]
          /\ rtr' = [rtr EXCEPT ![p] = RemoveAt(@, i)]
  BY DEF PushNews
<1>7. i = 1
  BY DEF PushIndex
<1>8. RemoveAt(rtr[p], 1) = Tail(rtr[p])
  BY <1>2, <1>4, FirstRemoved
<1>9. rtr[p][1] = Head(rtr[p])
  BY <1>2, <1>4
<1>10. ch' = [ch EXCEPT ![to[p]] = <<Head(rtr[p]).of>>]
  BY <1>3, <1>6, <1>7, <1>9
<1>11. rtr' = [rtr EXCEPT ![p] = Tail(rtr[p])]
  BY <1>6, <1>7, <1>8
<1> QED
  BY <1>1, <1>2, <1>3, <1>5, <1>10, <1>11

LEMMA RoutingType ==
    ASSUME TypeOK, Inv, NEW p \in Programs, NewsCallback(p) \/ PushNews(p)
    PROVE  TypeOK'
<1>1. CASE NewsCallback(p)
  <2>1. /\ rtr[p] # <<>> /\ cb[p] = "idle"
        /\ UNCHANGED <<link, subs, route, inb, tok, handlers, ens, todo, sure, fate,
                       news, con, ch, got, since, intact>>
    BY <1>1 DEF NewsCallback, IsNews
  <2>2. CASE route[p][News] = NoRoute
    <3>1. rtr' = [rtr EXCEPT ![p] = Tail(@)] /\ UNCHANGED <<cb, to>>
      BY <1>1, <2>2 DEF NewsCallback
    <3>2. /\ rtr' \in [Programs -> Seq(Packets)]
          /\ cb' \in [Programs -> {"idle", "control", "data", "push"}]
          /\ \A q \in Programs :
                /\ Len(rtr'[q]) <= RouterAhead + 1 /\ (cb'[q] # "idle" => rtr'[q] # <<>>)
                /\ to'[q] \in Consumers <=> cb'[q] = "push"
      BY <2>1, <3>1, ReturnType
    <3> QED
      BY <2>1, <3>1, <3>2 DEF TypeOK
  <2>3. CASE route[p][News] # NoRoute
    <3>1. /\ cb' = [cb EXCEPT ![p] = "push"] /\ to' = [to EXCEPT ![p] = route[p][News]]
          /\ UNCHANGED rtr
      BY <1>1, <2>3 DEF NewsCallback
    <3>2. route[p][News] \in Consumers
      BY <2>3 DEF Inv, Placed
    <3>3. /\ cb' \in [Programs -> {"idle", "control", "data", "push"}]
          /\ to' \in [Programs -> Consumers \cup {NoRoute}]
      BY <3>1, <3>2 DEF TypeOK
    <3>4. \A q \in Programs : /\ cb'[q] # "idle" => rtr[q] # <<>>
                              /\ to'[q] \in Consumers <=> cb'[q] = "push"
      BY <2>1, <3>1, <3>2 DEF TypeOK
    <3> QED
      BY <2>1, <3>1, <3>3, <3>4 DEF TypeOK
  <2> QED
    BY <2>2, <2>3
<1>2. CASE PushNews(p)
  <2>1. /\ to[p] \in Consumers /\ rtr[p] # <<>> /\ Head(rtr[p]).of \in 1 .. MaxNews
        /\ ch' = [ch EXCEPT ![to[p]] = <<Head(rtr[p]).of>>]
        /\ rtr' = [rtr EXCEPT ![p] = Tail(rtr[p])]
        /\ cb' = [cb EXCEPT ![p] = "idle"] /\ to' = [to EXCEPT ![p] = NoRoute]
    BY <1>2, PushType
  <2>2. UNCHANGED <<link, subs, route, inb, tok, handlers, ens, todo, sure, fate,
                    news, con, got, since, intact>>
    BY <1>2 DEF PushNews
  <2>3. rtr[p] \in Seq(Packets) /\ Len(rtr[p]) <= RouterAhead + 1
    BY DEF TypeOK
  <2>4. Tail(rtr[p]) \in Seq(Packets) /\ Len(Tail(rtr[p])) <= RouterAhead + 1
    <3>1. Tail(rtr[p]) \in Seq(Packets) /\ Len(Tail(rtr[p])) = Len(rtr[p]) - 1
      BY <2>1, <2>3, HeadTailProperties
    <3>2. Len(rtr[p]) \in Nat
      BY <2>3, LenProperties
    <3>3. \A a, b \in Nat : a <= b + 1 => a - 1 <= b + 1
      OBVIOUS
    <3> QED
      BY <2>3, <3>1, <3>2, <3>3, NamesType
  <2>5. rtr' \in [Programs -> Seq(Packets)]
    BY <2>1, <2>4 DEF TypeOK
  <2>6. /\ cb' \in [Programs -> {"idle", "control", "data", "push"}]
        /\ to' \in [Programs -> Consumers \cup {NoRoute}]
    BY <2>1 DEF TypeOK
  <2>7. ASSUME NEW q \in Programs
        PROVE  /\ Len(rtr'[q]) <= RouterAhead + 1 /\ (cb'[q] # "idle" => rtr'[q] # <<>>)
               /\ to'[q] \in Consumers <=> cb'[q] = "push"
    <3>1. CASE q = p
      <4>1. rtr'[q] = Tail(rtr[p]) /\ cb'[q] = "idle" /\ to'[q] = NoRoute
        BY <2>1, <3>1 DEF TypeOK
      <4> QED
        BY <2>4, <4>1, NamesType
    <3>2. CASE q # p
      <4>1. rtr'[q] = rtr[q] /\ cb'[q] = cb[q] /\ to'[q] = to[q]
        BY <2>1, <3>2 DEF TypeOK
      <4> QED
        BY <4>1 DEF TypeOK
    <3> QED
      BY <3>1, <3>2
  <2>8. DEFINE n == Head(rtr[p]).of
  <2>9. <<n>> \in Seq(1 .. MaxNews) /\ Len(<<n>>) = 1
    BY <2>1
  <2>10. ch' \in [Consumers -> Seq(1 .. MaxNews)] /\ \A k \in Consumers : Len(ch'[k]) <= 1
    <3> HIDE DEF n
    <3>1. ch' = [ch EXCEPT ![to[p]] = <<n>>]
      BY <2>1 DEF n
    <3>2. ch' \in [Consumers -> Seq(1 .. MaxNews)]
      BY <2>9, <3>1 DEF TypeOK
    <3>3. ASSUME NEW k \in Consumers
          PROVE  Len(ch'[k]) <= 1
      <4>1. CASE k = to[p]
        BY <2>9, <3>1, <4>1 DEF TypeOK
      <4>2. CASE k # to[p]
        BY <3>1, <4>2 DEF TypeOK
      <4> QED
        BY <4>1, <4>2
    <3> QED
      BY <3>2, <3>3
  <2> QED
    BY <2>2, <2>5, <2>6, <2>7, <2>10 DEF TypeOK
<1> QED
  BY <1>1, <1>2

LEMMA ReadsType ==
    ASSUME TypeOK, NEW p \in Programs, Reads(p)
    PROVE  TypeOK'
<1> DEFINE x == Head(inb[p])
<1>1. /\ inb[p] # <<>> /\ inb[p] \in Seq(Packets) /\ rtr[p] \in Seq(Packets)
      /\ inb' = [inb EXCEPT ![p] = Tail(inb[p])]
      /\ UNCHANGED <<link, subs, route, handlers, ens, todo, sure, cb, fate,
                     news, con, ch, got, since, intact, to>>
      /\ tok[p] \in [Waiters -> {"none", "wait", "failed"}]
  BY DEF Reads, Incoming, TypeOK, transportVars, newsVars
<1>2. x \in Packets /\ Tail(inb[p]) \in Seq(Packets)
  BY <1>1, HeadTailProperties
<1>3. inb' \in [Programs -> Seq(Packets)]
  BY <1>1, <1>2 DEF TypeOK
<1>4. CASE x.kind = "ack"
  <2>1. tok' = [tok EXCEPT ![p] = [tok[p] EXCEPT ![x.of] = "none"]] /\ UNCHANGED rtr
    BY <1>4 DEF Reads, Incoming
  <2>2. x.of \in Waiters
    BY <1>2, <1>4, PacketsType
  <2>3. [tok[p] EXCEPT ![x.of] = "none"] \in [Waiters -> {"none", "wait", "failed"}]
    BY <1>1
  <2>4. tok' \in [Programs -> [Waiters -> {"none", "wait", "failed"}]]
    BY <2>1, <2>3 DEF TypeOK
  <2> QED
    BY <1>1, <1>3, <2>1, <2>4 DEF TypeOK
<1>5. CASE x.kind # "ack"
  <2>1. /\ Len(rtr[p]) <= RouterAhead /\ rtr' = [rtr EXCEPT ![p] = Append(rtr[p], x)]
        /\ UNCHANGED tok
    BY <1>5 DEF Reads, Incoming
  <2> DEFINE r == Append(rtr[p], x)
  <2>2. r \in Seq(Packets) /\ Len(r) = Len(rtr[p]) + 1 /\ Len(rtr[p]) \in Nat
    BY <1>1, <1>2, AppendProperties, LenProperties
  <2> HIDE DEF r
  <2>3. \A a, b \in Nat : a <= b => a + 1 <= b + 1 /\ a + 1 # 0
    OBVIOUS
  <2>4. Len(r) <= RouterAhead + 1 /\ Len(r) # 0
    BY <2>1, <2>2, <2>3, NamesType
  <2>5. r # <<>>
    BY <2>4, EmptySeq
  <2>6. rtr' = [rtr EXCEPT ![p] = r]
    BY <2>1 DEF r
  <2>7. rtr' \in [Programs -> Seq(Packets)]
    BY <2>2, <2>6 DEF TypeOK
  <2>8. ASSUME NEW q \in Programs
        PROVE  Len(rtr'[q]) <= RouterAhead + 1 /\ (cb'[q] # "idle" => rtr'[q] # <<>>)
    <3>1. CASE q = p
      <4>1. rtr'[q] = r
        BY <2>6, <3>1 DEF TypeOK
      <4> QED
        BY <2>4, <2>5, <4>1
    <3>2. CASE q # p
      <4>1. rtr'[q] = rtr[q] /\ cb'[q] = cb[q]
        BY <1>1, <2>6, <3>2 DEF TypeOK
      <4> QED
        BY <4>1 DEF TypeOK
    <3> QED
      BY <3>1, <3>2
  <2>9. \A q \in Programs : to'[q] \in Consumers <=> cb'[q] = "push"
    BY <1>1 DEF TypeOK
  <2> QED
    BY <1>1, <1>3, <2>1, <2>7, <2>8, <2>9 DEF TypeOK
<1> QED
  BY <1>4, <1>5

LEMMA FailType ==
    ASSUME TypeOK, NEW p \in Programs, TokensFail(p), UNCHANGED newsVars
    PROVE  TypeOK'
<1>1. tok' = [tok EXCEPT ![p] =
                [w \in Waiters |-> IF tok[p][w] = "wait" THEN "failed" ELSE tok[p][w]]]
  BY DEF TokensFail
<1>2. tok[p] \in [Waiters -> {"none", "wait", "failed"}]
  BY DEF TypeOK
<1>3. [w \in Waiters |-> IF tok[p][w] = "wait" THEN "failed" ELSE tok[p][w]]
         \in [Waiters -> {"none", "wait", "failed"}]
  BY <1>2
<1>4. tok' \in [Programs -> [Waiters -> {"none", "wait", "failed"}]]
  BY <1>1, <1>3 DEF TypeOK
<1> QED
  BY <1>4 DEF TokensFail, TypeOK, transportVars, newsVars

LEMMA UnsubscribeType ==
    ASSUME TypeOK, NEW p \in Programs, NEW w \in Waiters, UnsubscribeNews(p, w)
    PROVE  /\ UNCHANGED <<link, rtr, handlers, ens, todo, sure, cb, fate,
                          news, ch, got, since, to>>
           /\ subs' \in [Programs -> SUBSET Topics]
           /\ route' \in [Programs -> [Topics -> Consumers \cup {NoRoute, "invoke"}]]
           /\ inb' \in [Programs -> Seq(Packets)]
           /\ tok' \in [Programs -> [Waiters -> {"none", "wait", "failed"}]]
           /\ intact' \in [Consumers -> BOOLEAN]
<1>1. /\ UNCHANGED <<link, rtr, handlers, ens, todo, sure, cb, fate,
                     news, ch, got, since, to>>
      /\ subs' = [subs EXCEPT ![p] = subs[p] \ {News}]
      /\ route' = [route EXCEPT ![p] = [route[p] EXCEPT ![News] = NoRoute]]
      /\ inb' = [inb EXCEPT ![p] = Append(inb[p], AckFor(w))]
      /\ tok' = [tok EXCEPT ![p] = [tok[p] EXCEPT ![w] = "wait"]]
      /\ intact' = [l \in Consumers |-> intact[l] /\ (Home[l] # p \/ l = NoRoute)]
  BY DEF UnsubscribeNews, Disturbed, transportVars
<1>2. /\ subs[p] \subseteq Topics
      /\ [route[p] EXCEPT ![News] = NoRoute] \in [Topics -> Consumers \cup {NoRoute, "invoke"}]
      /\ [tok[p] EXCEPT ![w] = "wait"] \in [Waiters -> {"none", "wait", "failed"}]
  BY DEF TypeOK
<1>3. inb[p] \in Seq(Packets)
  BY DEF TypeOK
<1>4. Append(inb[p], AckFor(w)) \in Seq(Packets)
  BY <1>3, PacketsType, AppendProperties
<1> QED
  BY <1>1, <1>2, <1>4 DEF TypeOK

LEMMA UserType ==
    ASSUME TypeOK, NEW p \in Programs,
           Breaks(p) \/ Publish(p) \/ ClosePublisher(p) \/ (Uses(p) /\ UNCHANGED newsVars)
    PROVE  TypeOK'
<1>1. CASE Breaks(p)
  <2>1. PICK state \in {"lost", "down"} : Disconnected(p, state)
    BY <1>1 DEF Breaks, Lose, Close
  <2>2. UNCHANGED <<route, rtr, tok, handlers, ens, todo, cb, fate>>
        /\ UNCHANGED <<news, con, ch, got, since, to>>
    BY <1>1, <2>1 DEF Breaks, Disconnected
  <2>3. /\ link' \in [Programs -> {"down", "up", "lost"}]
        /\ subs' \in [Programs -> SUBSET Topics] /\ sure' \in [Programs -> SUBSET Methods]
        /\ inb' \in [Programs -> Seq(Packets)]
    BY <2>1 DEF Disconnected, TypeOK
  <2>4. intact' \in [Consumers -> BOOLEAN]
    <3>1. intact' = [l \in Consumers |-> intact[l] /\ (Home[l] # p \/ l = NoRoute)]
      BY <1>1 DEF Breaks, Disturbed
    <3> QED
      BY <3>1
  <2> QED
    BY <2>2, <2>3, <2>4 DEF TypeOK
<1>2. CASE Publish(p)
  <2>1. /\ news < MaxNews /\ news' = news + 1
        /\ inb' = [q \in Programs |->
                     IF News \in subs[q] THEN Append(inb[q], NewsItem(news + 1)) ELSE inb[q]]
        /\ UNCHANGED <<link, subs, route, rtr, tok, handlers, ens, todo, sure, cb, fate,
                       con, ch, got, since, intact, to>>
    BY <1>2 DEF Publish, transportVars
  <2>2. news + 1 \in 1 .. MaxNews /\ news' \in 0 .. MaxNews
    BY <2>1, NamesType DEF TypeOK
  <2>3. NewsItem(news + 1) \in Packets
    BY <2>2, PacketsType
  <2> DEFINE x == NewsItem(news + 1)
  <2> HIDE DEF x
  <2>4. \A q \in Programs : Append(inb[q], x) \in Seq(Packets)
    <3> SUFFICES ASSUME NEW q \in Programs PROVE Append(inb[q], x) \in Seq(Packets)
      OBVIOUS
    <3>1. inb[q] \in Seq(Packets)
      BY DEF TypeOK
    <3> QED
      BY <2>3, <3>1, AppendProperties DEF x
  <2>5. inb' \in [Programs -> Seq(Packets)]
    BY <2>1, <2>4 DEF x, TypeOK
  <2> QED
    BY <2>1, <2>2, <2>5 DEF TypeOK
<1>3. CASE ClosePublisher(p)
  BY <1>3, UnsubscribeType, NamesType DEF ClosePublisher, TypeOK
<1>4. CASE Uses(p) /\ UNCHANGED newsVars
  <2>1. Called \subseteq Methods
    BY NamesType DEF Called
  <2>2. CASE EnsureConnected(p)
    BY <1>4, <2>2 DEF EnsureConnected, EnsureGoes, TypeOK, newsVars
  <2>3. CASE Reconnect(p)
    BY <1>4, <2>3 DEF Reconnect, TypeOK, newsVars, transportVars
  <2>4. CASE \E m \in Methods : RegisterHandler(p, m) \/ UnregisterHandler(p, m)
    <3>1. /\ handlers' \in [Programs -> SUBSET Methods]
          /\ UNCHANGED <<pahoVars, ens, todo, sure, cb, fate>>
      <4>1. PICK m \in Methods : RegisterHandler(p, m) \/ UnregisterHandler(p, m)
        BY <2>4
      <4>2. \/ handlers' = [handlers EXCEPT ![p] = handlers[p] \cup {m}]
            \/ handlers' = [handlers EXCEPT ![p] = handlers[p] \ {m}]
        BY <4>1 DEF RegisterHandler, UnregisterHandler
      <4>3. handlers' \in [Programs -> SUBSET Methods]
        <5>1. handlers \in [Programs -> SUBSET Methods]
          BY DEF TypeOK
        <5>2. handlers[p] \cup {m} \in SUBSET Methods /\ handlers[p] \ {m} \in SUBSET Methods
          BY <5>1
        <5> QED
          BY <4>2, <5>1, <5>2
      <4> QED
        BY <4>1, <4>3 DEF RegisterHandler, UnregisterHandler
    <3> QED
      BY <1>4, <3>1 DEF TypeOK, newsVars, pahoVars
  <2> QED
    BY <1>4, <2>2, <2>3, <2>4 DEF Uses
<1> QED
  BY <1>1, <1>2, <1>3, <1>4

LEMMA InvokeType ==
    ASSUME TypeOK, NEW c \in Calls, Invoke(c), UNCHANGED newsVars
    PROVE  TypeOK'
<1>1. UNCHANGED <<link, subs, route, rtr, tok, handlers, ens, todo, sure, cb>>
      /\ UNCHANGED <<news, con, ch, got, since, intact, to>>
  BY DEF Invoke, newsVars
<1>2. fate' \in [Calls -> {"none", "dropped", "sent", "ignored", "refused", "running", "absent"}]
  <2>1. fate' = [fate EXCEPT ![c] = "dropped"] \/ fate' = [fate EXCEPT ![c] = "sent"]
    BY DEF Invoke
  <2> QED
    BY <2>1 DEF TypeOK
<1>3. inb' \in [Programs -> Seq(Packets)]
  <2>1. CASE UNCHANGED inb
    BY <2>1 DEF TypeOK
  <2>2. CASE \E p \in Programs : inb' = [inb EXCEPT ![p] = Append(@, Invocation(c))]
    <3>1. PICK p \in Programs : inb' = [inb EXCEPT ![p] = Append(inb[p], Invocation(c))]
      BY <2>2
    <3>2. inb[p] \in Seq(Packets)
      BY DEF TypeOK
    <3>3. Append(inb[p], Invocation(c)) \in Seq(Packets)
      BY <3>2, PacketsType, AppendProperties
    <3> QED
      BY <3>1, <3>3 DEF TypeOK
  <2> QED
    BY <2>1, <2>2 DEF Invoke
<1> QED
  BY <1>1, <1>2, <1>3 DEF TypeOK

LEMMA ConsumerType ==
    ASSUME TypeOK, NEW k \in Consumers,
           \/ NewConsumer(k) \/ ConsumerSubscribed(k) \/ Recv(k)
           \/ CloseConsumer(k) \/ ConsumerClosed(k)
    PROVE  TypeOK'
<1>1. Home[k] \in Programs /\ k \in Waiters /\ {News} \subseteq Topics
  BY NamesType
<1>2. CASE NewConsumer(k)
  <2>1. Subscribe(Home[k], {News}, k, k)
    BY <1>2 DEF NewConsumer
  <2>2. /\ link' = link /\ rtr' = rtr
        /\ subs' \in [Programs -> SUBSET Topics]
        /\ route' \in [Programs -> [Topics -> Consumers \cup {NoRoute, "invoke"}]]
        /\ inb' \in [Programs -> Seq(Packets)]
        /\ tok' \in [Programs -> [Waiters -> {"none", "wait", "failed"}]]
    BY <1>1, <2>1, SubscribeType
  <2>3. /\ con' \in [Consumers -> ConsumerStates] /\ since' \in [Consumers -> 0 .. MaxNews]
        /\ intact' \in [Consumers -> BOOLEAN]
        /\ UNCHANGED <<handlers, ens, todo, sure, cb, fate, news, ch, got, to>>
    BY <1>2 DEF NewConsumer, Disturbed, TypeOK, transportVars, ConsumerStates
  <2> QED
    BY <2>2, <2>3 DEF TypeOK
<1>3. CASE ConsumerSubscribed(k) \/ ConsumerClosed(k)
  <2>1. con' \in [Consumers -> ConsumerStates]
    BY <1>3 DEF ConsumerSubscribed, ConsumerClosed, TypeOK, ConsumerStates
  <2>2. tok' \in [Programs -> [Waiters -> {"none", "wait", "failed"}]]
    <3>1. tok' = [tok EXCEPT ![Home[k]] = [tok[Home[k]] EXCEPT ![k] = "none"]]
      BY <1>3 DEF ConsumerSubscribed, ConsumerClosed
    <3>2. [tok[Home[k]] EXCEPT ![k] = "none"] \in [Waiters -> {"none", "wait", "failed"}]
      BY <1>1 DEF TypeOK
    <3> QED
      BY <1>1, <3>1, <3>2 DEF TypeOK
  <2> QED
    BY <1>3, <2>1, <2>2 DEF ConsumerSubscribed, ConsumerClosed, TypeOK, transportVars
<1>4. CASE CloseConsumer(k)
  <2>1. con' \in [Consumers -> ConsumerStates]
    BY <1>4 DEF CloseConsumer, TypeOK, ConsumerStates
  <2>2. CASE UnsubscribeNews(Home[k], k)
    BY <1>1, <2>1, <2>2, UnsubscribeType DEF TypeOK
  <2>3. CASE UNCHANGED <<pahoVars, transportVars, news, ch, got, since, intact, to>>
    BY <2>1, <2>3 DEF TypeOK, pahoVars, transportVars
  <2> QED
    BY <1>4, <2>2, <2>3, CloseSteps
<1>5. CASE Recv(k)
  <2>1. /\ ch[k] # <<>> /\ got' = [got EXCEPT ![k] = Append(got[k], Head(ch[k]))]
        /\ ch' = [ch EXCEPT ![k] = <<>>]
        /\ UNCHANGED <<link, subs, route, inb, rtr, tok, handlers, ens, todo, sure, cb, fate,
                       news, con, since, intact, to>>
    BY <1>5 DEF Recv, pahoVars, transportVars
  <2>2. ch[k] \in Seq(1 .. MaxNews) /\ got[k] \in Seq(1 .. MaxNews)
    BY DEF TypeOK
  <2>3. Head(ch[k]) \in 1 .. MaxNews
    BY <2>1, <2>2, HeadTailProperties
  <2>4. Append(got[k], Head(ch[k])) \in Seq(1 .. MaxNews)
    BY <2>2, <2>3, AppendProperties
  <2>5. got' \in [Consumers -> Seq(1 .. MaxNews)]
    BY <2>1, <2>4 DEF TypeOK
  <2>6. ch' \in [Consumers -> Seq(1 .. MaxNews)] /\ \A l \in Consumers : Len(ch'[l]) <= 1
    <3>1. Len(<<>>) = 0
      OBVIOUS
    <3> QED
      BY <2>1, <3>1 DEF TypeOK
  <2> QED
    BY <2>1, <2>5, <2>6 DEF TypeOK
<1> QED
  BY <1>2, <1>3, <1>4, <1>5

LEMMA TypeStep ==
    ASSUME TypeOK, Inv, [Next]_vars
    PROVE  TypeOK'
<1>1. CASE UNCHANGED vars
  BY <1>1 DEF TypeOK, vars, pahoVars, transportVars, newsVars
<1>2. CASE \E p \in Programs : Connecting(p) \/ Routing(p)
  BY <1>2, EnsuresType, RouterType, RoutingType DEF Connecting, Routing
<1>3. CASE \E p \in Programs : Reading(p)
  BY <1>3, ReadsType, FailType DEF Reading, Reads
<1>4. CASE \E p \in Programs : Breaks(p) \/ Publish(p) \/ ClosePublisher(p)
                               \/ (Uses(p) /\ UNCHANGED newsVars)
  BY <1>4, UserType
<1>5. CASE \E c \in Calls : Invoke(c) /\ UNCHANGED newsVars
  BY <1>5, InvokeType
<1>6. CASE \E k \in Consumers :
              \/ NewConsumer(k) \/ ConsumerSubscribed(k) \/ Recv(k)
              \/ CloseConsumer(k) \/ ConsumerClosed(k)
  BY <1>6, ConsumerType
<1> QED
  BY <1>1, <1>2, <1>3, <1>4, <1>5, <1>6 DEF Next

-----------------------------------------------------------------------------
(* The callbacks of the topic.                                             *)

LEMMA HeadAppend ==
    ASSUME NEW S, NEW q \in Seq(S), q # <<>>, NEW x \in S
    PROVE  Head(Append(q, x)) = Head(q)
<1>1. Len(q) \in Nat \ {0}
  BY EmptySeq
<1> DEFINE r == Append(q, x)
<1>2. r \in Seq(S) /\ r[1] = q[1] /\ Len(r) = Len(q) + 1
  BY <1>1, AppendProperties
<1>3. Len(r) # 0
  BY <1>1, <1>2
<1> HIDE DEF r
<1>4. r # <<>>
  BY <1>3, EmptySeq
<1>5. Head(r) = r[1] /\ Head(q) = q[1]
  BY <1>2, <1>4
<1> QED
  BY <1>2, <1>5 DEF r

LEMMA SubscribeRoute ==
    ASSUME TypeOK, NEW p \in Programs, NEW topics, NEW callback, NEW w,
           Subscribe(p, topics, callback, w), NEW q \in Programs
    PROVE  /\ q # p => route'[q] = route[q] /\ subs'[q] = subs[q]
           /\ News \notin topics => route'[q][News] = route[q][News]
           /\ News \in topics /\ q = p => route'[q][News] = callback
           /\ subs[q] \subseteq subs'[q] /\ (q = p => subs'[q] = subs[q] \cup topics)
<1>1. /\ subs' = [subs EXCEPT ![p] = subs[p] \cup topics]
      /\ route' = [route EXCEPT ![p] = [t \in Topics |->
                      IF t \in topics THEN callback ELSE route[p][t]]]
  BY DEF Subscribe
<1>2. route \in [Programs -> [Topics -> Consumers \cup {NoRoute, "invoke"}]]
      /\ subs \in [Programs -> SUBSET Topics] /\ News \in Topics
  BY NamesType DEF TypeOK
<1>3. CASE q = p
  BY <1>1, <1>2, <1>3
<1>4. CASE q # p
  BY <1>1, <1>2, <1>4
<1> QED
  BY <1>3, <1>4

\* The callback of the topic stays, unless a Close or a new consumer of the
\* program takes its place.
LEMMA RouteSteps ==
    ASSUME TypeOK, [Next]_vars, NEW q \in Programs
    PROVE  \/ route'[q][News] = route[q][News]
           \/ route'[q][News] = NoRoute /\ \E w \in Waiters : UnsubscribeNews(q, w)
           \/ \E k \in Consumers : NewConsumer(k) /\ Home[k] = q /\ route'[q][News] = k
<1>1. ASSUME NEW p \in Programs, Ensures(p)
      PROVE  route'[q][News] = route[q][News]
  <2>1. CASE \E m \in Methods : SubscribeNext(p, m)
    <3>1. PICK m \in Methods : SubscribeNext(p, m)
      BY <2>1
    <3>2. CASE link[p] = "up"
      <4>1. Subscribe(p, {m}, "invoke", "ensure") /\ News \notin {m}
        BY <3>1, <3>2, NamesType DEF SubscribeNext
      <4> QED
        BY <4>1, SubscribeRoute
    <3>3. CASE link[p] # "up"
      BY <3>1, <3>3 DEF SubscribeNext, pahoVars
    <3> QED
      BY <3>2, <3>3
  <2>2. CASE Subscribed(p) \/ OnConnect(p)
    BY <2>2 DEF Subscribed, OnConnect, pahoVars
  <2> QED
    BY <1>1, <2>1, <2>2 DEF Ensures
<1>2. ASSUME NEW p \in Programs, Router(p)
      PROVE  route'[q][News] = route[q][News]
  <2>1. PICK c \in Calls : Callback(p, c) \/ NewConnGoesOn(p, c)
    BY <1>2 DEF Router
  <2>2. ASSUME NEW where, NewConn(p, where)
        PROVE  route'[q][News] = route[q][News]
    <3>1. Subscribe(p, {}, NoRoute, "callback") /\ News \notin {}
      BY <2>2 DEF NewConn
    <3> QED
      BY <3>1, SubscribeRoute
  <2>3. CASE UNCHANGED route
    BY <2>3
  <2> QED
    BY <2>1, <2>2, <2>3 DEF Callback, NewConnGoesOn
<1>3. ASSUME NEW p \in Programs, NEW w \in Waiters, UnsubscribeNews(p, w)
      PROVE  \/ route'[q][News] = route[q][News]
             \/ route'[q][News] = NoRoute /\ UnsubscribeNews(q, w)
  <2>1. route' = [route EXCEPT ![p] = [route[p] EXCEPT ![News] = NoRoute]]
    BY <1>3 DEF UnsubscribeNews
  <2>2. route \in [Programs -> [Topics -> Consumers \cup {NoRoute, "invoke"}]]
        /\ News \in Topics
    BY NamesType DEF TypeOK
  <2>3. CASE q = p
    BY <1>3, <2>1, <2>2, <2>3
  <2>4. CASE q # p
    BY <2>1, <2>2, <2>4
  <2> QED
    BY <2>3, <2>4
<1>4. ASSUME NEW k \in Consumers, NewConsumer(k)
      PROVE  route'[q][News] = route[q][News] \/ (Home[k] = q /\ route'[q][News] = k)
  <2>1. Subscribe(Home[k], {News}, k, k) /\ Home[k] \in Programs
    BY <1>4, NamesType DEF NewConsumer
  <2>2. CASE Home[k] = q
    BY <2>1, <2>2, SubscribeRoute
  <2>3. CASE Home[k] # q
    BY <2>1, <2>3, SubscribeRoute
  <2> QED
    BY <2>2, <2>3
<1>5. ASSUME NEW p \in Programs,
             \/ NewsCallback(p) \/ PushNews(p) \/ Reading(p) \/ Breaks(p) \/ Publish(p) \/ Uses(p)
      PROVE  UNCHANGED route
  BY <1>5 DEF NewsCallback, PushNews, Reading, Incoming, TokensFail, Breaks, Lose,
    Close, Disconnected, Publish, Uses, EnsureConnected, Reconnect,
    RegisterHandler, UnregisterHandler, pahoVars
<1>6. ASSUME NEW k \in Consumers, ConsumerSubscribed(k) \/ ConsumerClosed(k) \/ Recv(k)
      PROVE  UNCHANGED route
  BY <1>6 DEF ConsumerSubscribed, ConsumerClosed, Recv, pahoVars
<1>7. ASSUME NEW c \in Calls, Invoke(c)
      PROVE  UNCHANGED route
  BY <1>7 DEF Invoke
<1>8. CASE UNCHANGED vars
  BY <1>8 DEF vars, pahoVars
<1>9. CASE \E p \in Programs : Connecting(p) \/ Routing(p) \/ Reading(p) \/ Breaks(p)
                               \/ Publish(p) \/ ClosePublisher(p) \/ (Uses(p) /\ UNCHANGED newsVars)
  BY <1>1, <1>2, <1>3, <1>5, <1>9, NamesType DEF Connecting, Routing, ClosePublisher
<1>10. CASE \E k \in Consumers :
              \/ NewConsumer(k) \/ ConsumerSubscribed(k) \/ Recv(k)
              \/ CloseConsumer(k) \/ ConsumerClosed(k)
  BY <1>3, <1>4, <1>6, <1>10, CloseSteps, NamesType DEF pahoVars
<1>11. CASE \E c \in Calls : Invoke(c) /\ UNCHANGED newsVars
  BY <1>7, <1>11
<1> QED
  BY <1>8, <1>9, <1>10, <1>11 DEF Next

LEMMA PlacedStep ==
    ASSUME TypeOK, Inv, [Next]_vars
    PROVE  Placed'
<1> SUFFICES ASSUME NEW q \in Programs
    PROVE  /\ route'[q][News] \in Consumers \cup {NoRoute} /\ to'[q] \in Consumers \cup {NoRoute}
           /\ route'[q][News] \in Consumers => Home[route'[q][News]] = q
           /\ to'[q] \in Consumers => Home[to'[q]] = q
           /\ cb'[q] = "push" => Head(rtr'[q]).kind = "news"
  BY DEF Placed
<1>1. /\ route[q][News] \in Consumers \cup {NoRoute} /\ to[q] \in Consumers \cup {NoRoute}
      /\ route[q][News] \in Consumers => Home[route[q][News]] = q
      /\ to[q] \in Consumers => Home[to[q]] = q
      /\ cb[q] = "push" => Head(rtr[q]).kind = "news"
      /\ cb[q] = "push" => rtr[q] # <<>>
      /\ to[q] \in Consumers <=> cb[q] = "push"
      /\ rtr[q] \in Seq(Packets)
  BY DEF Inv, Placed, TypeOK
<1>2. to'[q] \in Consumers <=> cb'[q] = "push"
  BY TypeStep DEF TypeOK
<1>3. /\ route'[q][News] \in Consumers \cup {NoRoute}
      /\ route'[q][News] \in Consumers => Home[route'[q][News]] = q
  BY <1>1, NamesType, RouteSteps
<1>4. /\ to'[q] \in Consumers \cup {NoRoute}
      /\ to'[q] \in Consumers => Home[to'[q]] = q
      /\ to'[q] \in Consumers => Head(rtr'[q]).kind = "news"
  <2>1. ASSUME UNCHANGED to, rtr'[q] = rtr[q] \/ to[q] \notin Consumers
        PROVE  /\ to'[q] \in Consumers \cup {NoRoute}
               /\ to'[q] \in Consumers => Home[to'[q]] = q
               /\ to'[q] \in Consumers => Head(rtr'[q]).kind = "news"
    BY <1>1, <2>1
  <2>2. CASE UNCHANGED <<rtr, inb, to, news, ch, got>>
    BY <2>1, <2>2
  <2>3. ASSUME NEW p \in Programs, Posts(p) \/ Cuts(p) \/ Publish(p)
        PROVE  UNCHANGED <<rtr, to>>
    BY <2>3 DEF Posts, Cuts, Publish
  <2>4. ASSUME NEW k \in Consumers, Recv(k)
        PROVE  UNCHANGED <<rtr, to>>
    BY <2>4 DEF Recv, pahoVars
  <2>5. ASSUME NEW p \in Programs, Skips(p)
        PROVE  UNCHANGED to /\ (rtr'[q] = rtr[q] \/ to[q] \notin Consumers)
    BY <1>1, <2>5 DEF Skips, TypeOK
  <2>6. ASSUME NEW p \in Programs, Reads(p)
        PROVE  /\ to'[q] \in Consumers \cup {NoRoute}
               /\ to'[q] \in Consumers => Home[to'[q]] = q
               /\ to'[q] \in Consumers => Head(rtr'[q]).kind = "news"
    <3>1. UNCHANGED to
      BY <2>6 DEF Reads, newsVars
    <3>2. CASE rtr'[q] = rtr[q]
      BY <1>1, <3>1, <3>2
    <3>3. CASE rtr'[q] # rtr[q]
      <4>1. q = p /\ rtr'[q] = Append(rtr[q], Head(inb[q])) /\ inb[q] # <<>>
        BY <2>6, <3>3 DEF Reads, Incoming, TypeOK
      <4>2. inb[q] \in Seq(Packets)
        BY DEF TypeOK
      <4>3. Head(inb[q]) \in Packets
        BY <4>1, <4>2, HeadTailProperties
      <4>4. to[q] \in Consumers => Head(rtr'[q]) = Head(rtr[q])
        BY <1>1, <4>1, <4>3, HeadAppend
      <4> QED
        BY <1>1, <3>1, <4>4
    <3> QED
      BY <3>2, <3>3
  <2>7. ASSUME NEW p \in Programs, NewsCallback(p), route[p][News] # NoRoute
        PROVE  /\ to'[q] \in Consumers \cup {NoRoute}
               /\ to'[q] \in Consumers => Home[to'[q]] = q
               /\ to'[q] \in Consumers => Head(rtr'[q]).kind = "news"
    <3>1. to' = [to EXCEPT ![p] = route[p][News]] /\ UNCHANGED rtr /\ Head(rtr[p]).kind = "news"
      BY <2>7 DEF NewsCallback, IsNews
    <3>2. to \in [Programs -> Consumers \cup {NoRoute}]
      BY DEF TypeOK
    <3>3. CASE q = p
      BY <1>1, <3>1, <3>2, <3>3
    <3>4. CASE q # p
      BY <1>1, <3>1, <3>2, <3>4
    <3> QED
      BY <3>3, <3>4
  <2>8. ASSUME NEW p \in Programs, PushNews(p)
        PROVE  /\ to'[q] \in Consumers \cup {NoRoute}
               /\ to'[q] \in Consumers => Home[to'[q]] = q
               /\ to'[q] \in Consumers => Head(rtr'[q]).kind = "news"
    <3>1. to' = [to EXCEPT ![p] = NoRoute] /\ rtr' = [rtr EXCEPT ![p] = Tail(rtr[p])]
      BY <2>8, PushType
    <3>2. to \in [Programs -> Consumers \cup {NoRoute}] /\ rtr \in [Programs -> Seq(Packets)]
      BY DEF TypeOK
    <3>3. CASE q = p
      BY <3>1, <3>2, <3>3, NamesType
    <3>4. CASE q # p
      BY <1>1, <3>1, <3>2, <3>4
    <3> QED
      BY <3>3, <3>4
  <2> QED
    BY <2>1, <2>2, <2>3, <2>4, <2>5, <2>6, <2>7, <2>8, QueueSteps
<1> QED
  BY <1>1, <1>2, <1>3, <1>4

-----------------------------------------------------------------------------
(* The order of publications.                                              *)

LEMMA QueuesInOrderStep ==
    ASSUME TypeOK, Inv, [Next]_vars
    PROVE  QueuesInOrder'
<1> DEFINE Goal(q) ==
      /\ Ordered(rtr'[q]) /\ Ordered(inb'[q]) /\ Before(NewsOf(rtr'[q]), NewsOf(inb'[q]))
      /\ NewsOf(rtr'[q]) \cup NewsOf(inb'[q]) \subseteq 1 .. news'
<1> SUFFICES ASSUME NEW q \in Programs
    PROVE  Goal(q)
  BY DEF QueuesInOrder, Ordered, NewsOf
<1> USE DEF Before
<1>1. /\ Ordered(rtr[q]) /\ Ordered(inb[q]) /\ Before(NewsOf(rtr[q]), NewsOf(inb[q]))
      /\ NewsOf(rtr[q]) \cup NewsOf(inb[q]) \subseteq 1 .. news
  BY DEF Inv, QueuesInOrder
<1>2. /\ rtr \in [Programs -> Seq(Packets)] /\ inb \in [Programs -> Seq(Packets)]
      /\ rtr[q] \in Seq(Packets) /\ inb[q] \in Seq(Packets) /\ news \in Nat
  BY NamesType DEF TypeOK
<1>3. CASE UNCHANGED <<rtr, inb, to, news, ch, got>>
  BY <1>1, <1>3
<1>4. ASSUME NEW p \in Programs, Posts(p)
      PROVE  Goal(q)
  <2>1. PICK x \in Packets : x.kind # "news" /\ inb' = [inb EXCEPT ![p] = Append(inb[p], x)]
    BY <1>4 DEF Posts
  <2>2. UNCHANGED <<rtr, news>>
    BY <1>4 DEF Posts
  <2>3. CASE q = p
    <3>1. inb'[q] = Append(inb[q], x)
      BY <1>2, <2>1, <2>3
    <3>2. NewsOf(Append(inb[q], x)) = NewsOf(inb[q])
      BY <1>2, <2>1, NewsAppend
    <3>3. Ordered(Append(inb[q], x))
      BY <1>1, <1>2, <2>1, OrderedAppend
    <3> QED
      BY <1>1, <2>2, <3>1, <3>2, <3>3
  <2>4. CASE q # p
    BY <1>1, <1>2, <2>1, <2>2, <2>4
  <2> QED
    BY <2>3, <2>4
<1>5. ASSUME NEW p \in Programs, Cuts(p)
      PROVE  Goal(q)
  <2>1. inb' = [inb EXCEPT ![p] = <<>>] /\ UNCHANGED <<rtr, news>>
    BY <1>5 DEF Cuts
  <2>2. CASE q = p
    <3>1. inb'[q] = <<>>
      BY <1>2, <2>1, <2>2
    <3> QED
      BY <1>1, <2>1, <3>1, NewsNone
  <2>3. CASE q # p
    BY <1>1, <1>2, <2>1, <2>3
  <2> QED
    BY <2>2, <2>3
<1>6. ASSUME NEW p \in Programs, rtr[p] # <<>>, rtr' = [rtr EXCEPT ![p] = Tail(rtr[p])],
             UNCHANGED <<inb, news>>
      PROVE  Goal(q)
  <2>1. CASE q = p
    <3>1. rtr'[q] = Tail(rtr[q])
      BY <1>2, <1>6, <2>1
    <3>2. Ordered(Tail(rtr[q])) /\ NewsOf(Tail(rtr[q])) \subseteq NewsOf(rtr[q])
      <4> DEFINE s == rtr[q]
      <4>1. s \in Seq(Packets) /\ s # <<>> /\ Ordered(s)
        BY <1>1, <1>2, <1>6, <2>1
      <4> HIDE DEF s
      <4>2. Ordered(Tail(s)) /\ NewsOf(Tail(s)) \subseteq NewsOf(s)
        BY <4>1, NewsTail
      <4> QED
        BY <4>2 DEF s
    <3> QED
      BY <1>1, <1>6, <3>1, <3>2
  <2>2. CASE q # p
    BY <1>1, <1>2, <1>6, <2>2
  <2> QED
    BY <2>1, <2>2
<1>7. ASSUME NEW p \in Programs, Reads(p)
      PROVE  Goal(q)
  <2> DEFINE x == Head(inb[q])
             t == Tail(inb[q])
  <2>1. /\ inb[p] # <<>> /\ inb' = [inb EXCEPT ![p] = Tail(inb[p])] /\ UNCHANGED news
        /\ Head(inb[p]).kind = "ack" => UNCHANGED rtr
        /\ Head(inb[p]).kind # "ack" => rtr' = [rtr EXCEPT ![p] = Append(rtr[p], Head(inb[p]))]
    BY <1>7 DEF Reads, Incoming, newsVars
  <2>2. CASE q = p
    <3>1. /\ x \in Packets /\ Ordered(t)
          /\ x.kind # "news" => NewsOf(inb[q]) = NewsOf(t)
          /\ x.kind = "news" => NewsOf(inb[q]) = NewsOf(t) \cup {x.of}
          /\ x.kind = "news" => \A n \in NewsOf(t) : x.of < n
      BY <1>1, <1>2, <2>1, <2>2, NewsTail
    <3>2. inb'[q] = t
      BY <1>2, <2>1, <2>2
    <3>3. CASE x.kind = "ack"
      <4>1. rtr'[q] = rtr[q]
        BY <2>1, <2>2, <3>3
      <4> QED
        BY <1>1, <2>1, <3>1, <3>2, <3>3, <4>1
    <3>4. CASE x.kind # "ack"
      <4>1. rtr'[q] = Append(rtr[q], x)
        BY <1>2, <2>1, <2>2, <3>4
      <4> HIDE DEF x, t
      <4>2. Ordered(Append(rtr[q], x))
        BY <1>1, <1>2, <3>1, OrderedAppend
      <4>3. /\ x.kind # "news" => NewsOf(Append(rtr[q], x)) = NewsOf(rtr[q])
            /\ x.kind = "news" => NewsOf(Append(rtr[q], x)) = NewsOf(rtr[q]) \cup {x.of}
        BY <1>2, <3>1, NewsAppend
      <4>4. CASE x.kind = "news"
        BY <1>1, <2>1, <3>1, <3>2, <4>1, <4>2, <4>3, <4>4
      <4>5. CASE x.kind # "news"
        BY <1>1, <2>1, <3>1, <3>2, <4>1, <4>2, <4>3, <4>5
      <4> QED
        BY <4>4, <4>5
    <3> QED
      BY <3>3, <3>4
  <2>3. CASE q # p
    <3>1. inb'[q] = inb[q] /\ rtr'[q] = rtr[q]
      BY <1>2, <2>1, <2>3
    <3> QED
      BY <1>1, <2>1, <3>1
  <2> QED
    BY <2>2, <2>3
<1>8. ASSUME NEW p \in Programs, Publish(p)
      PROVE  Goal(q)
  <2> DEFINE x == NewsItem(news + 1)
  <2>1. /\ news < MaxNews /\ news' = news + 1 /\ UNCHANGED rtr
        /\ inb'[q] = IF News \in subs[q] THEN Append(inb[q], x) ELSE inb[q]
    BY <1>8 DEF Publish
  <2>2. news + 1 \in 1 .. MaxNews /\ 1 .. news \subseteq 1 .. news + 1
    BY <1>2, <2>1, NamesType
  <2>3. x \in Packets /\ x.kind = "news" /\ x.of = news + 1
    BY <2>2, PacketsType
  <2>4. \A n \in 1 .. news : n < news + 1
    BY <1>2
  <2> HIDE DEF x
  <2>5. Ordered(Append(inb[q], x))
    BY <1>1, <1>2, <2>3, <2>4, OrderedAppend
  <2>6. NewsOf(Append(inb[q], x)) = NewsOf(inb[q]) \cup {news + 1}
    BY <1>2, <2>3, NewsAppend
  <2>7. CASE News \in subs[q]
    BY <1>1, <2>1, <2>2, <2>4, <2>5, <2>6, <2>7
  <2>8. CASE News \notin subs[q]
    BY <1>1, <2>1, <2>2, <2>8
  <2> QED
    BY <2>7, <2>8
<1>9. ASSUME NEW k \in Consumers, Recv(k)
      PROVE  Goal(q)
  BY <1>1, <1>9 DEF Recv, pahoVars
<1>10. ASSUME NEW p \in Programs, Skips(p)
       PROVE  Goal(q)
  BY <1>6, <1>10 DEF Skips
<1>11. ASSUME NEW p \in Programs, PushNews(p)
       PROVE  Goal(q)
  <2>1. rtr[p] # <<>> /\ rtr' = [rtr EXCEPT ![p] = Tail(rtr[p])] /\ UNCHANGED <<inb, news>>
    BY <1>11, PushType DEF PushNews
  <2> QED
    BY <1>6, <2>1
<1>12. ASSUME NEW p \in Programs, NewsCallback(p), route[p][News] # NoRoute
       PROVE  Goal(q)
  BY <1>1, <1>12 DEF NewsCallback
<1> QED
  BY <1>3, <1>4, <1>5, <1>7, <1>8, <1>9, <1>10, <1>11, <1>12, QueueSteps

\* What a consumer receives next is all that its channel holds.
LEMMA OneInChannel ==
    ASSUME TypeOK, NEW k \in Consumers, ch[k] # <<>>
    PROVE  Head(ch[k]) \in 1 .. MaxNews /\ Range(ch[k]) = {Head(ch[k])}
<1> DEFINE s == ch[k]
<1>1. s \in Seq(1 .. MaxNews) /\ s # <<>> /\ Len(s) <= 1
  BY DEF TypeOK
<1> HIDE DEF s
<1>2. Len(s) \in Nat \ {0}
  BY <1>1, EmptySeq
<1>3. \A a \in Nat \ {0} : a <= 1 => a = 1
  OBVIOUS
<1>4. Len(s) = 1
  BY <1>1, <1>2, <1>3
<1>5. DOMAIN s = {1}
  BY <1>1, <1>4
<1>6. Head(s) = s[1]
  BY <1>1
<1>7. Head(s) \in 1 .. MaxNews
  BY <1>1, HeadTailProperties
<1> QED
  BY <1>5, <1>6, <1>7 DEF Range, s

LEMMA RisingAppend ==
    ASSUME NEW s \in Seq(1 .. MaxNews), NEW n \in 1 .. MaxNews,
           \A i, j \in 1 .. Len(s) : i < j => s[i] < s[j],
           \A m \in Range(s) : m < n
    PROVE  \A i, j \in 1 .. Len(Append(s, n)) : i < j => Append(s, n)[i] < Append(s, n)[j]
<1> DEFINE r == Append(s, n)
<1>1. /\ Len(r) = Len(s) + 1 /\ r[Len(s) + 1] = n
      /\ \A i \in 1 .. Len(s) : r[i] = s[i]
      /\ Len(s) \in Nat /\ DOMAIN s = 1 .. Len(s)
  BY AppendProperties, LenProperties
<1> HIDE DEF r
<1>2. \A i \in 1 .. Len(s) : s[i] < n
  BY <1>1 DEF Range
<1>3. ASSUME NEW i \in 1 .. Len(r), NEW j \in 1 .. Len(r), i < j
      PROVE  r[i] < r[j]
  <2>1. i \in 1 .. Len(s)
    BY <1>1, <1>3
  <2>2. CASE j \in 1 .. Len(s)
    BY <1>1, <1>3, <2>1, <2>2
  <2>3. CASE j = Len(s) + 1
    BY <1>1, <1>2, <2>1, <2>3
  <2> QED
    BY <1>1, <2>2, <2>3
<1> QED
  BY <1>3 DEF r

\* What a consumer has seen is in order, and what is still to come is later.
LEMMA SeenInOrderStep ==
    ASSUME TypeOK, Inv, [Next]_vars
    PROVE  SeenInOrder'
<1> DEFINE Goal(k) ==
      /\ \A i, j \in 1 .. Len(got'[k]) : i < j => got'[k][i] < got'[k][j]
      /\ Before(Range(got'[k]), Range(ch'[k]))
      /\ Before(Range(got'[k]) \cup Range(ch'[k]),
                NewsOf(rtr'[Home[k]]) \cup NewsOf(inb'[Home[k]]))
      /\ Range(got'[k]) \cup Range(ch'[k]) \subseteq 1 .. news'
<1> SUFFICES ASSUME NEW k \in Consumers
    PROVE  Goal(k)
  BY DEF SeenInOrder, Before, NewsOf
<1> DEFINE q == Home[k]
<1> USE DEF Before
<1>1. /\ \A i, j \in 1 .. Len(got[k]) : i < j => got[k][i] < got[k][j]
      /\ Before(Range(got[k]), Range(ch[k]))
      /\ Before(Range(got[k]) \cup Range(ch[k]), NewsOf(rtr[q]) \cup NewsOf(inb[q]))
      /\ Range(got[k]) \cup Range(ch[k]) \subseteq 1 .. news
  BY DEF Inv, SeenInOrder
<1>2. /\ q \in Programs
      /\ rtr \in [Programs -> Seq(Packets)] /\ inb \in [Programs -> Seq(Packets)]
      /\ rtr[q] \in Seq(Packets) /\ inb[q] \in Seq(Packets) /\ news \in Nat
      /\ ch \in [Consumers -> Seq(1 .. MaxNews)] /\ got \in [Consumers -> Seq(1 .. MaxNews)]
      /\ ch[k] \in Seq(1 .. MaxNews) /\ got[k] \in Seq(1 .. MaxNews)
  BY NamesType DEF TypeOK
<1>3. /\ Ordered(rtr[q]) /\ Ordered(inb[q]) /\ Before(NewsOf(rtr[q]), NewsOf(inb[q]))
      /\ NewsOf(rtr[q]) \cup NewsOf(inb[q]) \subseteq 1 .. news
  BY <1>2 DEF Inv, QueuesInOrder
<1> HIDE DEF q, Goal
\* Nothing but its way to the consumer changes, and there nothing is new.
<1>4. ASSUME UNCHANGED <<news, ch, got>>,
             NewsOf(rtr'[q]) \cup NewsOf(inb'[q]) \subseteq NewsOf(rtr[q]) \cup NewsOf(inb[q])
      PROVE  Goal(k)
  BY <1>1, <1>4 DEF Goal, q
<1>5. CASE UNCHANGED <<rtr, inb, to, news, ch, got>>
  BY <1>4, <1>5
<1>6. ASSUME NEW p \in Programs, Posts(p)
      PROVE  Goal(k)
  <2>1. PICK x \in Packets : x.kind # "news" /\ inb' = [inb EXCEPT ![p] = Append(inb[p], x)]
    BY <1>6 DEF Posts
  <2>2. UNCHANGED <<rtr, news, ch, got>>
    BY <1>6 DEF Posts
  <2>3. CASE q = p
    <3>1. inb'[q] = Append(inb[q], x)
      BY <1>2, <2>1, <2>3
    <3>2. NewsOf(Append(inb[q], x)) = NewsOf(inb[q])
      BY <1>2, <2>1, NewsAppend
    <3> QED
      BY <1>4, <2>2, <3>1, <3>2
  <2>4. CASE q # p
    BY <1>2, <1>4, <2>1, <2>2, <2>4
  <2> QED
    BY <2>3, <2>4
<1>7. ASSUME NEW p \in Programs, Cuts(p)
      PROVE  Goal(k)
  <2>1. inb' = [inb EXCEPT ![p] = <<>>] /\ UNCHANGED <<rtr, news, ch, got>>
    BY <1>7 DEF Cuts
  <2>2. inb'[q] = <<>> \/ inb'[q] = inb[q]
    BY <1>2, <2>1
  <2> QED
    BY <1>4, <2>1, <2>2, NewsNone
<1>8. ASSUME NEW p \in Programs, rtr[p] # <<>>, rtr' = [rtr EXCEPT ![p] = Tail(rtr[p])]
      PROVE  /\ NewsOf(rtr'[q]) \subseteq NewsOf(rtr[q])
             /\ q = p /\ Head(rtr[p]).kind = "news" =>
                   /\ Head(rtr[p]).of \in NewsOf(rtr[q])
                   /\ \A n \in NewsOf(rtr'[q]) : Head(rtr[p]).of < n
  <2>1. CASE q = p
    <3> DEFINE s == rtr[q]
    <3>1. s \in Seq(Packets) /\ s # <<>> /\ Ordered(s) /\ rtr'[q] = Tail(s)
      BY <1>2, <1>3, <1>8, <2>1
    <3> HIDE DEF s
    <3>2. NewsOf(Tail(s)) \subseteq NewsOf(s)
      BY <3>1, NewsTail
    <3>3. Head(s).kind = "news" => /\ Head(s).of \in NewsOf(s)
                                   /\ \A n \in NewsOf(Tail(s)) : Head(s).of < n
      BY <3>1, NewsTail
    <3> QED
      BY <2>1, <3>1, <3>2, <3>3 DEF s
  <2>2. CASE q # p
    BY <1>2, <1>8, <2>2
  <2> QED
    BY <2>1, <2>2
<1>9. ASSUME NEW p \in Programs, Skips(p)
      PROVE  Goal(k)
  BY <1>4, <1>8, <1>9 DEF Skips
<1>10. ASSUME NEW p \in Programs, Reads(p)
       PROVE  Goal(k)
  <2> DEFINE x == Head(inb[q])
             t == Tail(inb[q])
  <2>1. /\ inb[p] # <<>> /\ inb' = [inb EXCEPT ![p] = Tail(inb[p])] /\ UNCHANGED <<news, ch, got>>
        /\ Head(inb[p]).kind = "ack" => UNCHANGED rtr
        /\ Head(inb[p]).kind # "ack" => rtr' = [rtr EXCEPT ![p] = Append(rtr[p], Head(inb[p]))]
    BY <1>10 DEF Reads, Incoming, newsVars
  <2>2. CASE q = p
    <3>1. /\ x \in Packets
          /\ x.kind # "news" => NewsOf(inb[q]) = NewsOf(t)
          /\ x.kind = "news" => NewsOf(inb[q]) = NewsOf(t) \cup {x.of}
      BY <1>2, <2>1, <2>2, NewsTail
    <3>2. inb'[q] = t
      BY <1>2, <2>1, <2>2
    <3>3. CASE x.kind = "ack"
      <4>1. rtr'[q] = rtr[q]
        BY <2>1, <2>2, <3>3
      <4> QED
        BY <1>4, <2>1, <3>1, <3>2, <3>3, <4>1
    <3>4. CASE x.kind # "ack"
      <4>1. rtr'[q] = Append(rtr[q], x)
        BY <1>2, <2>1, <2>2, <3>4
      <4> HIDE DEF x, t
      <4>2. /\ x.kind # "news" => NewsOf(Append(rtr[q], x)) = NewsOf(rtr[q])
            /\ x.kind = "news" => NewsOf(Append(rtr[q], x)) = NewsOf(rtr[q]) \cup {x.of}
        BY <1>2, <3>1, NewsAppend
      <4>3. NewsOf(rtr'[q]) \cup NewsOf(inb'[q]) = NewsOf(rtr[q]) \cup NewsOf(inb[q])
        BY <3>1, <3>2, <4>1, <4>2
      <4> QED
        BY <1>4, <2>1, <4>3
    <3> QED
      BY <3>3, <3>4
  <2>3. CASE q # p
    <3>1. inb'[q] = inb[q] /\ rtr'[q] = rtr[q]
      BY <1>2, <2>1, <2>3
    <3> QED
      BY <1>4, <2>1, <3>1
  <2> QED
    BY <2>2, <2>3
<1>11. ASSUME NEW p \in Programs, Publish(p)
       PROVE  Goal(k)
  <2> DEFINE x == NewsItem(news + 1)
  <2>1. /\ news < MaxNews /\ news' = news + 1 /\ UNCHANGED <<rtr, ch, got>>
        /\ inb'[q] = IF News \in subs[q] THEN Append(inb[q], x) ELSE inb[q]
    BY <1>2, <1>11 DEF Publish
  <2>2. news + 1 \in 1 .. MaxNews /\ 1 .. news \subseteq 1 .. news + 1
    BY <1>2, <2>1, NamesType
  <2>3. x \in Packets /\ x.kind = "news" /\ x.of = news + 1
    BY <2>2, PacketsType
  <2>4. \A n \in 1 .. news : n < news + 1
    BY <1>2
  <2> HIDE DEF x
  <2>5. NewsOf(Append(inb[q], x)) = NewsOf(inb[q]) \cup {news + 1}
    BY <1>2, <2>3, NewsAppend
  <2>6. NewsOf(inb'[q]) \subseteq NewsOf(inb[q]) \cup {news + 1}
    BY <2>1, <2>5
  <2> QED
    BY <1>1, <2>1, <2>2, <2>4, <2>6 DEF Goal, q
<1>12. ASSUME NEW p \in Programs, PushNews(p)
       PROVE  Goal(k)
  <2> DEFINE n == Head(rtr[p]).of
  <2>1. /\ to[p] \in Consumers /\ Home[to[p]] = p /\ rtr[p] # <<>> /\ ch[to[p]] = <<>>
        /\ Head(rtr[p]).kind = "news" /\ n \in 1 .. MaxNews
        /\ ch' = [ch EXCEPT ![to[p]] = <<n>>]
        /\ rtr' = [rtr EXCEPT ![p] = Tail(rtr[p])]
        /\ UNCHANGED <<inb, news, got>>
    BY <1>12, PushType DEF PushNews
  <2>2. /\ NewsOf(rtr'[q]) \subseteq NewsOf(rtr[q])
        /\ q = p => n \in NewsOf(rtr[q]) /\ \A m \in NewsOf(rtr'[q]) : n < m
    BY <1>8, <2>1
  <2> HIDE DEF n
  <2>3. CASE to[p] = k
    <3>1. q = p
      BY <2>1, <2>3 DEF q
    <3>2. ch'[k] = <<n>> /\ ch[k] = <<>>
      BY <1>2, <2>1, <2>3
    <3>3. Range(ch'[k]) = {n} /\ Range(ch[k]) = {}
      BY <1>2, <2>1, <3>2, RangeFacts
    <3>4. n \in NewsOf(rtr[q]) /\ \A m \in NewsOf(inb[q]) : n < m
      BY <1>3, <2>2, <3>1
    <3>5. \A m \in Range(got[k]) : m < n
      BY <1>1, <3>4
    <3> QED
      BY <1>1, <1>3, <2>1, <2>2, <3>1, <3>3, <3>4, <3>5 DEF Goal, q
  <2>4. CASE to[p] # k
    <3>1. ch'[k] = ch[k]
      BY <1>2, <2>1, <2>4
    <3> QED
      BY <1>1, <2>1, <2>2, <3>1 DEF Goal, q
  <2> QED
    BY <2>3, <2>4
<1>13. ASSUME NEW l \in Consumers, Recv(l)
       PROVE  Goal(k)
  <2>1. /\ ch[l] # <<>> /\ got' = [got EXCEPT ![l] = Append(got[l], Head(ch[l]))]
        /\ ch' = [ch EXCEPT ![l] = <<>>] /\ UNCHANGED <<inb, rtr, news>>
    BY <1>13 DEF Recv, pahoVars
  <2>2. CASE l = k
    <3> DEFINE n == Head(ch[k])
    <3>1. got'[k] = Append(got[k], n) /\ ch'[k] = <<>>
      BY <1>2, <2>1, <2>2
    <3>2. n \in 1 .. MaxNews /\ Range(ch[k]) = {n}
      BY <1>2, <2>1, <2>2, OneInChannel
    <3> HIDE DEF n
    <3>3. Range(got'[k]) = Range(got[k]) \cup {n} /\ Range(ch'[k]) = {}
      BY <1>2, <3>1, <3>2, RangeFacts
    <3>4. \A m \in Range(got[k]) : m < n
      BY <1>1, <3>2
    <3>5. \A i, j \in 1 .. Len(got'[k]) : i < j => got'[k][i] < got'[k][j]
      BY <1>1, <1>2, <3>1, <3>2, <3>4, RisingAppend
    <3> QED
      BY <1>1, <2>1, <3>2, <3>3, <3>4, <3>5 DEF Goal, q
  <2>3. CASE l # k
    <3>1. ch'[k] = ch[k] /\ got'[k] = got[k]
      BY <1>2, <2>1, <2>3
    <3> QED
      BY <1>1, <2>1, <3>1 DEF Goal, q
  <2> QED
    BY <2>2, <2>3
<1>14. ASSUME NEW p \in Programs, NewsCallback(p), route[p][News] # NoRoute
       PROVE  Goal(k)
  BY <1>4, <1>14 DEF NewsCallback
<1> QED
  BY <1>5, <1>6, <1>7, <1>9, <1>10, <1>11, <1>12, <1>13, <1>14, QueueSteps

-----------------------------------------------------------------------------
(* The subscription of a consumer.                                         *)

\* Nobody takes the subscription of k away in a step that leaves it intact.
LEMMA IntactSteps ==
    ASSUME TypeOK, Inv, [Next]_vars, NEW k \in Consumers, intact'[k], ~NewConsumer(k)
    PROVE  /\ intact[k] /\ since'[k] = since[k]
           /\ link'[Home[k]] = "up" /\ News \in subs'[Home[k]] /\ route'[Home[k]][News] = k
<1> DEFINE q == Home[k]
           Goal == /\ intact[k] /\ since'[k] = since[k]
                   /\ link'[q] = "up" /\ News \in subs'[q] /\ route'[q][News] = k
<1> SUFFICES Goal
  OBVIOUS
<1>1. /\ q \in Programs /\ k # NoRoute /\ News \in Topics
      /\ intact[k] => link[q] = "up" /\ News \in subs[q] /\ route[q][News] = k
  BY NamesType DEF Inv, Undisturbed
<1>2. /\ link \in [Programs -> {"down", "up", "lost"}]
      /\ subs \in [Programs -> SUBSET Topics]
      /\ route \in [Programs -> [Topics -> Consumers \cup {NoRoute, "invoke"}]]
      /\ since \in [Consumers -> 0 .. MaxNews]
  BY DEF TypeOK
<1>3. ASSUME UNCHANGED <<intact, since>>, link'[q] = link[q] \/ link'[q] = "up",
             subs[q] \subseteq subs'[q], route'[q][News] = route[q][News]
      PROVE  Goal
  BY <1>1, <1>3
<1> HIDE DEF Goal
<1>4. ASSUME NEW p \in Programs, NEW topics, News \notin topics, NEW callback, NEW w,
             Subscribe(p, topics, callback, w), UNCHANGED <<intact, since>>
      PROVE  Goal
  <2>1. subs[q] \subseteq subs'[q] /\ route'[q][News] = route[q][News]
    BY <1>1, <1>4, SubscribeRoute
  <2>2. UNCHANGED link
    BY <1>4 DEF Subscribe
  <2> QED
    BY <1>3, <1>4, <2>1, <2>2
<1>5. ASSUME NEW p \in Programs, Connecting(p)
      PROVE  Goal
  <2>1. UNCHANGED <<intact, since>>
    BY <1>5 DEF Connecting, newsVars
  <2>2. CASE \E m \in Methods : SubscribeNext(p, m)
    <3>1. PICK m \in Methods : SubscribeNext(p, m)
      BY <2>2
    <3>2. CASE link[p] = "up"
      <4>1. Subscribe(p, {m}, "invoke", "ensure") /\ News \notin {m}
        BY <3>1, <3>2, NamesType DEF SubscribeNext
      <4> QED
        BY <1>4, <2>1, <4>1
    <3>3. CASE link[p] # "up"
      BY <1>3, <2>1, <3>1, <3>3 DEF SubscribeNext, pahoVars
    <3> QED
      BY <3>2, <3>3
  <2>3. CASE Subscribed(p) \/ OnConnect(p)
    BY <1>3, <2>1, <2>3 DEF Subscribed, OnConnect, pahoVars
  <2> QED
    BY <1>5, <2>2, <2>3 DEF Connecting, Ensures
<1>6. ASSUME NEW p \in Programs, Router(p), UNCHANGED newsVars
      PROVE  Goal
  <2>1. UNCHANGED <<intact, since>>
    BY <1>6 DEF newsVars
  <2>2. PICK c \in Calls : Callback(p, c) \/ NewConnGoesOn(p, c)
    BY <1>6 DEF Router
  <2>3. ASSUME NEW where, NewConn(p, where)
        PROVE  Goal
    BY <1>4, <2>1, <2>3 DEF NewConn
  <2>4. CASE UNCHANGED <<link, subs, route>>
    BY <1>3, <2>1, <2>4
  <2> QED
    BY <2>2, <2>3, <2>4 DEF Callback, NewConnGoesOn
<1>7. ASSUME UNCHANGED <<link, subs, route, intact, since>>
      PROVE  Goal
  BY <1>3, <1>7
<1>8. ASSUME NEW p \in Programs, NewsCallback(p) \/ PushNews(p) \/ Reading(p) \/ Publish(p)
      PROVE  Goal
  <2>1. UNCHANGED <<link, subs, route, intact, since>>
    BY <1>8 DEF NewsCallback, PushNews, Reading, Incoming, TokensFail, Publish,
      newsVars
  <2> QED
    BY <1>7, <2>1
<1>9. ASSUME NEW p \in Programs, Breaks(p)
      PROVE  Goal
  <2>1. /\ intact' = [l \in Consumers |-> intact[l] /\ (Home[l] # p \/ l = NoRoute)]
        /\ UNCHANGED <<since, route>>
        /\ \E state : link' = [link EXCEPT ![p] = state]
        /\ subs' = [subs EXCEPT ![p] = {}]
    BY <1>9 DEF Breaks, Disturbed, Lose, Close, Disconnected
  <2>2. intact[k] /\ q # p
    BY <1>1, <2>1
  <2>3. link'[q] = link[q] /\ subs'[q] = subs[q]
    BY <1>1, <1>2, <2>1, <2>2
  <2> QED
    BY <1>1, <2>1, <2>2, <2>3 DEF Goal
<1>10. ASSUME NEW p \in Programs, NEW w \in Waiters, UnsubscribeNews(p, w)
       PROVE  Goal
  <2>1. /\ intact' = [l \in Consumers |-> intact[l] /\ (Home[l] # p \/ l = NoRoute)]
        /\ subs' = [subs EXCEPT ![p] = subs[p] \ {News}]
        /\ route' = [route EXCEPT ![p] = [route[p] EXCEPT ![News] = NoRoute]]
        /\ UNCHANGED <<link, since>>
    BY <1>10 DEF UnsubscribeNews, Disturbed
  <2>2. intact[k] /\ q # p
    BY <1>1, <2>1
  <2>3. route'[q] = route[q] /\ subs'[q] = subs[q]
    BY <1>1, <1>2, <2>1, <2>2
  <2> QED
    BY <1>1, <2>1, <2>2, <2>3 DEF Goal
<1>11. ASSUME NEW p \in Programs, Uses(p), UNCHANGED newsVars
       PROVE  Goal
  <2>1. UNCHANGED <<subs, route, intact, since>>
    BY <1>11 DEF newsVars, Uses, EnsureConnected, Reconnect, RegisterHandler,
      UnregisterHandler, pahoVars
  <2>2. UNCHANGED link \/ link' = [link EXCEPT ![p] = "up"]
    BY <1>11 DEF Uses, EnsureConnected, Reconnect, RegisterHandler,
      UnregisterHandler, pahoVars
  <2>3. link'[q] = link[q] \/ link'[q] = "up"
    BY <1>1, <1>2, <2>2
  <2> QED
    BY <1>3, <2>1, <2>3
<1>12. ASSUME NEW c \in Calls, Invoke(c), UNCHANGED newsVars
       PROVE  Goal
  <2>1. UNCHANGED <<link, subs, route, intact, since>>
    BY <1>12 DEF newsVars, Invoke
  <2> QED
    BY <1>7, <2>1
<1>13. ASSUME NEW l \in Consumers, NewConsumer(l)
       PROVE  Goal
  <2>1. /\ intact' = [[m \in Consumers |-> intact[m] /\ (Home[m] # Home[l] \/ m = l)]
                        EXCEPT ![l] = TRUE]
        /\ since' = [since EXCEPT ![l] = news]
        /\ Subscribe(Home[l], {News}, l, l) /\ Home[l] \in Programs
    BY <1>13, NamesType DEF NewConsumer, Disturbed
  <2>2. l # k
    BY <1>13
  <2>3. intact[k] /\ q # Home[l] /\ since'[k] = since[k]
    BY <1>2, <2>1, <2>2
  <2>4. route'[q] = route[q] /\ subs'[q] = subs[q]
    BY <1>1, <2>1, <2>3, SubscribeRoute
  <2>5. UNCHANGED link
    BY <2>1 DEF Subscribe
  <2> QED
    BY <1>1, <2>3, <2>4, <2>5 DEF Goal
<1>14. ASSUME NEW l \in Consumers, ConsumerSubscribed(l) \/ ConsumerClosed(l) \/ Recv(l)
       PROVE  Goal
  <2>1. UNCHANGED <<link, subs, route, intact, since>>
    BY <1>14 DEF ConsumerSubscribed, ConsumerClosed, Recv, pahoVars
  <2> QED
    BY <1>7, <2>1
<1>15. CASE UNCHANGED vars
  <2>1. UNCHANGED <<link, subs, route, intact, since>>
    BY <1>15 DEF vars, pahoVars, newsVars
  <2> QED
    BY <1>7, <2>1
<1>16. CASE \E p \in Programs : Connecting(p) \/ Routing(p) \/ Reading(p) \/ Breaks(p)
                                \/ Publish(p) \/ ClosePublisher(p) \/ (Uses(p) /\ UNCHANGED newsVars)
  BY <1>5, <1>6, <1>8, <1>9, <1>10, <1>11, <1>16, NamesType DEF Routing,
    ClosePublisher
<1>17. CASE \E l \in Consumers :
               \/ NewConsumer(l) \/ ConsumerSubscribed(l) \/ Recv(l)
               \/ CloseConsumer(l) \/ ConsumerClosed(l)
  <2>1. ASSUME NEW l \in Consumers, CloseConsumer(l)
        PROVE  Goal
    BY <1>7, <1>10, <2>1, CloseSteps, NamesType DEF pahoVars
  <2> QED
    BY <1>13, <1>14, <1>17, <2>1
<1> QED
  BY <1>12, <1>15, <1>16, <1>17 DEF Next

LEMMA UndisturbedStep ==
    ASSUME TypeOK, Inv, [Next]_vars
    PROVE  Undisturbed'
<1> DEFINE Goal(k) ==
      LET p == Home[k]
      IN  /\ link'[p] = "up" /\ News \in subs'[p] /\ route'[p][News] = k
          /\ to'[p] \notin {k, NoRoute} => Head(rtr'[p]).of <= since'[k]
          /\ since'[k] <= news'
          /\ (since'[k] + 1) .. news' \subseteq
                 Range(got'[k]) \cup Range(ch'[k]) \cup NewsOf(rtr'[p]) \cup NewsOf(inb'[p])
<1> SUFFICES ASSUME NEW k \in Consumers, intact'[k]
    PROVE  Goal(k)
  BY DEF Undisturbed, NewsOf
<1> DEFINE q == Home[k]
<1>1. /\ q \in Programs /\ k # NoRoute
      /\ rtr \in [Programs -> Seq(Packets)] /\ inb \in [Programs -> Seq(Packets)]
      /\ rtr[q] \in Seq(Packets) /\ inb[q] \in Seq(Packets) /\ news \in Nat
      /\ ch \in [Consumers -> Seq(1 .. MaxNews)] /\ got \in [Consumers -> Seq(1 .. MaxNews)]
      /\ ch[k] \in Seq(1 .. MaxNews) /\ got[k] \in Seq(1 .. MaxNews)
      /\ since[k] \in Nat /\ to \in [Programs -> Consumers \cup {NoRoute}]
  BY NamesType DEF TypeOK
<1>2. /\ NewsOf(rtr[q]) \subseteq 1 .. news
      /\ to[q] \in Consumers => /\ rtr[q] # <<>> /\ Head(rtr[q]).kind = "news"
                                /\ cb[q] = "push"
  BY <1>1 DEF TypeOK, Inv, Placed, QueuesInOrder
<1>3. CASE NewConsumer(k)
  <2>1. /\ Subscribe(q, {News}, k, k) /\ link[q] = "up" /\ since' = [since EXCEPT ![k] = news]
        /\ UNCHANGED <<news, to>>
    BY <1>3 DEF NewConsumer
  <2>2. link'[q] = "up" /\ UNCHANGED rtr
    BY <2>1 DEF Subscribe
  <2>3. News \in subs'[q] /\ route'[q][News] = k
    BY <1>1, <2>1, SubscribeRoute
  <2>4. since'[k] = news
    BY <2>1 DEF TypeOK
  <2>5. to[q] \notin {k, NoRoute} => Head(rtr[q]).of <= news
    <3>1. SUFFICES ASSUME to[q] \in Consumers
          PROVE  Head(rtr[q]).of <= news
      BY <1>1
    <3>2. Head(rtr[q]).of \in NewsOf(rtr[q])
      <4> DEFINE s == rtr[q]
      <4>1. s \in Seq(Packets) /\ s # <<>> /\ Head(s).kind = "news"
        BY <1>1, <1>2, <3>1
      <4> HIDE DEF s
      <4>2. NewsOf(s) = NewsOf(Tail(s)) \cup {Head(s).of}
        BY <4>1, NewsTail
      <4> QED
        BY <4>2 DEF s
    <3> QED
      BY <1>1, <1>2, <3>2
  <2>6. (news + 1) .. news = {}
    BY <1>1
  <2>7. news <= news
    BY <1>1
  <2> QED
    BY <2>1, <2>2, <2>3, <2>4, <2>5, <2>6, <2>7
<1>4. CASE ~NewConsumer(k)
  <2>1. /\ intact[k] /\ since'[k] = since[k]
        /\ link'[q] = "up" /\ News \in subs'[q] /\ route'[q][News] = k
    BY <1>4, IntactSteps
  <2>2. /\ link[q] = "up" /\ News \in subs[q] /\ route[q][News] = k
        /\ to[q] \notin {k, NoRoute} => Head(rtr[q]).of <= since[k]
        /\ since[k] <= news
        /\ (since[k] + 1) .. news \subseteq
               Range(got[k]) \cup Range(ch[k]) \cup NewsOf(rtr[q]) \cup NewsOf(inb[q])
    BY <2>1 DEF Inv, Undisturbed
  <2> HIDE DEF q
  <2> DEFINE All1 == (since[k] + 1) .. news
             Has == Range(got[k]) \cup Range(ch[k]) \cup NewsOf(rtr[q]) \cup NewsOf(inb[q])
             Has1 == Range(got'[k]) \cup Range(ch'[k]) \cup NewsOf(rtr'[q]) \cup NewsOf(inb'[q])
  <2>3. ASSUME to'[q] \notin {k, NoRoute} => Head(rtr'[q]).of <= since[k],
               UNCHANGED news, All1 \subseteq Has1
        PROVE  Goal(k)
    BY <2>1, <2>2, <2>3 DEF q
  <2>4. CASE UNCHANGED <<rtr, inb, to, news, ch, got>>
    BY <2>2, <2>3, <2>4
  <2>5. ASSUME NEW p \in Programs, Posts(p)
        PROVE  Goal(k)
    <3>1. PICK x \in Packets : x.kind # "news" /\ inb' = [inb EXCEPT ![p] = Append(inb[p], x)]
      BY <2>5 DEF Posts
    <3>2. UNCHANGED <<rtr, to, news, ch, got>>
      BY <2>5 DEF Posts
    <3>3. inb'[q] = inb[q] \/ inb'[q] = Append(inb[q], x)
      BY <1>1, <3>1
    <3>4. NewsOf(Append(inb[q], x)) = NewsOf(inb[q])
      BY <1>1, <3>1, NewsAppend
    <3>5. NewsOf(inb'[q]) = NewsOf(inb[q])
      BY <3>3, <3>4
    <3> QED
      BY <2>2, <2>3, <3>2, <3>5
  <2>6. ASSUME NEW p \in Programs, Cuts(p)
        PROVE  Goal(k)
    <3>1. p # q /\ inb' = [inb EXCEPT ![p] = <<>>] /\ UNCHANGED <<rtr, to, news, ch, got>>
      BY <2>1, <2>6 DEF Cuts
    <3>2. inb'[q] = inb[q]
      BY <1>1, <3>1
    <3> QED
      BY <2>2, <2>3, <3>1, <3>2
  <2>7. ASSUME NEW p \in Programs, Skips(p)
        PROVE  Goal(k)
    <3>1. /\ rtr[p] # <<>> /\ rtr' = [rtr EXCEPT ![p] = Tail(rtr[p])] /\ cb[p] # "push"
          /\ Head(rtr[p]).kind = "news" => route[p][News] = NoRoute
          /\ UNCHANGED <<inb, to, news, ch, got>>
      BY <2>7 DEF Skips
    <3>2. CASE p = q
      <4>1. rtr'[q] = Tail(rtr[q]) /\ Head(rtr[q]).kind # "news"
        BY <1>1, <2>2, <3>1, <3>2
      <4>2. NewsOf(Tail(rtr[q])) = NewsOf(rtr[q])
        BY <1>1, <3>1, <3>2, <4>1, NewsTail
      <4>3. to[q] = NoRoute
        BY <1>1, <1>2, <3>1, <3>2
      <4> QED
        BY <2>2, <2>3, <3>1, <4>1, <4>2, <4>3
    <3>3. CASE p # q
      <4>1. rtr'[q] = rtr[q]
        BY <1>1, <3>1, <3>3
      <4> QED
        BY <2>2, <2>3, <3>1, <4>1
    <3> QED
      BY <3>2, <3>3
  <2>8. ASSUME NEW p \in Programs, Reads(p)
        PROVE  Goal(k)
    <3> DEFINE x == Head(inb[q])
               t == Tail(inb[q])
    <3>1. /\ inb[p] # <<>> /\ inb' = [inb EXCEPT ![p] = Tail(inb[p])]
          /\ UNCHANGED <<to, news, ch, got>>
          /\ Head(inb[p]).kind = "ack" => UNCHANGED rtr
          /\ Head(inb[p]).kind # "ack" => rtr' = [rtr EXCEPT ![p] = Append(rtr[p], Head(inb[p]))]
      BY <2>8 DEF Reads, Incoming, newsVars
    <3>2. CASE q = p
      <4>1. /\ x \in Packets
            /\ x.kind # "news" => NewsOf(inb[q]) = NewsOf(t)
            /\ x.kind = "news" => NewsOf(inb[q]) = NewsOf(t) \cup {x.of}
        BY <1>1, <3>1, <3>2, NewsTail
      <4>2. inb'[q] = t
        BY <1>1, <3>1, <3>2
      <4>3. CASE x.kind = "ack"
        <5>1. rtr'[q] = rtr[q]
          BY <3>1, <3>2, <4>3
        <5> QED
          BY <2>2, <2>3, <3>1, <4>1, <4>2, <4>3, <5>1
      <4>4. CASE x.kind # "ack"
        <5>1. rtr'[q] = Append(rtr[q], x)
          BY <1>1, <3>1, <3>2, <4>4
        <5> HIDE DEF x, t
        <5>2. /\ x.kind # "news" => NewsOf(Append(rtr[q], x)) = NewsOf(rtr[q])
              /\ x.kind = "news" => NewsOf(Append(rtr[q], x)) = NewsOf(rtr[q]) \cup {x.of}
          BY <1>1, <4>1, NewsAppend
        <5>3. NewsOf(rtr'[q]) \cup NewsOf(inb'[q]) = NewsOf(rtr[q]) \cup NewsOf(inb[q])
          BY <4>1, <4>2, <5>1, <5>2
        <5>4. to'[q] \notin {k, NoRoute} => Head(rtr'[q]).of <= since[k]
          <6>1. SUFFICES ASSUME to[q] \notin {k, NoRoute}
                PROVE  Head(rtr'[q]).of <= since[k]
            BY <3>1
          <6>2. rtr[q] # <<>>
            BY <1>1, <1>2, <6>1
          <6>3. Head(Append(rtr[q], x)) = Head(rtr[q])
            BY <1>1, <4>1, <6>2, HeadAppend
          <6> QED
            BY <2>2, <5>1, <6>1, <6>3
        <5>5. All1 \subseteq Has1
          BY <2>2, <3>1, <5>3
        <5> QED
          BY <2>3, <3>1, <5>4, <5>5
      <4> QED
        BY <4>3, <4>4
    <3>3. CASE q # p
      <4>1. inb'[q] = inb[q] /\ rtr'[q] = rtr[q]
        BY <1>1, <3>1, <3>3
      <4> QED
        BY <2>2, <2>3, <3>1, <4>1
    <3> QED
      BY <3>2, <3>3
  <2>9. ASSUME NEW p \in Programs, Publish(p)
        PROVE  Goal(k)
    <3> DEFINE x == NewsItem(news + 1)
    <3>1. /\ news < MaxNews /\ news' = news + 1 /\ UNCHANGED <<rtr, to, ch, got>>
          /\ inb'[q] = Append(inb[q], x)
      BY <1>1, <2>2, <2>9 DEF Publish
    <3>2. news + 1 \in 1 .. MaxNews
      BY <1>1, <3>1, NamesType
    <3>3. x \in Packets /\ x.kind = "news" /\ x.of = news + 1
      BY <3>2, PacketsType
    <3> HIDE DEF x
    <3>4. NewsOf(inb'[q]) = NewsOf(inb[q]) \cup {news + 1}
      BY <1>1, <3>1, <3>3, NewsAppend
    <3>5. /\ (since[k] + 1) .. (news + 1) \subseteq ((since[k] + 1) .. news) \cup {news + 1}
          /\ since[k] <= news + 1
      BY <1>1, <2>2
    <3>6. (since[k] + 1) .. (news + 1) \subseteq Has1
      BY <2>2, <3>1, <3>4, <3>5
    <3> QED
      BY <2>1, <2>2, <3>1, <3>5, <3>6 DEF q
  <2>10. ASSUME NEW p \in Programs, NewsCallback(p), route[p][News] # NoRoute
         PROVE  Goal(k)
    <3>1. to' = [to EXCEPT ![p] = route[p][News]] /\ UNCHANGED <<rtr, inb, news, ch, got>>
      BY <2>10 DEF NewsCallback
    <3>2. to'[q] = to[q] \/ to'[q] = k
      BY <1>1, <2>2, <3>1
    <3> QED
      BY <2>2, <2>3, <3>1, <3>2
  <2>11. ASSUME NEW p \in Programs, PushNews(p)
         PROVE  Goal(k)
    <3> DEFINE n == Head(rtr[p]).of
    <3>1. /\ to[p] \in Consumers /\ Home[to[p]] = p /\ rtr[p] # <<>> /\ ch[to[p]] = <<>>
          /\ Head(rtr[p]).kind = "news" /\ n \in 1 .. MaxNews
          /\ ch' = [ch EXCEPT ![to[p]] = <<n>>]
          /\ rtr' = [rtr EXCEPT ![p] = Tail(rtr[p])]
          /\ to' = [to EXCEPT ![p] = NoRoute]
          /\ UNCHANGED <<inb, news, got>>
      BY <2>11, PushType DEF PushNews
    <3>2. CASE q = p
      <4>1. rtr'[q] = Tail(rtr[q]) /\ to'[q] = NoRoute
        BY <1>1, <3>1, <3>2
      <4>2. NewsOf(rtr[q]) = NewsOf(Tail(rtr[q])) \cup {n}
        BY <1>1, <3>1, <3>2, NewsTail
      <4> HIDE DEF n
      <4>3. CASE to[p] = k
        <5>1. ch'[k] = <<n>> /\ ch[k] = <<>>
          BY <1>1, <3>1, <4>3
        <5>2. Range(ch'[k]) = {n} /\ Range(ch[k]) = {}
          BY <1>1, <3>1, <5>1, RangeFacts
        <5>3. All1 \subseteq Has1
          BY <2>2, <3>1, <4>1, <4>2, <5>2
        <5> QED
          BY <2>3, <3>1, <4>1, <5>3
      <4>4. CASE to[p] # k
        <5>1. ch'[k] = ch[k]
          BY <1>1, <3>1, <4>4
        <5>2. n <= since[k]
          BY <2>2, <3>1, <3>2, <4>4, NamesType DEF n
        <5>3. n \notin All1
          BY <1>1, <3>1, <5>2
        <5>4. All1 \subseteq Has1
          BY <2>2, <3>1, <4>1, <4>2, <5>1, <5>3
        <5> QED
          BY <2>3, <3>1, <4>1, <5>4
      <4> QED
        BY <4>3, <4>4
    <3>3. CASE q # p
      <4>1. to[p] # k
        BY <3>1, <3>3 DEF q
      <4>2. rtr'[q] = rtr[q] /\ to'[q] = to[q] /\ ch'[k] = ch[k]
        BY <1>1, <3>1, <3>3, <4>1
      <4> QED
        BY <2>2, <2>3, <3>1, <4>2
    <3> QED
      BY <3>2, <3>3
  <2>12. ASSUME NEW l \in Consumers, Recv(l)
         PROVE  Goal(k)
    <3>1. /\ ch[l] # <<>> /\ got' = [got EXCEPT ![l] = Append(got[l], Head(ch[l]))]
          /\ ch' = [ch EXCEPT ![l] = <<>>] /\ UNCHANGED <<inb, rtr, to, news>>
      BY <2>12 DEF Recv, pahoVars
    <3>2. CASE l = k
      <4> DEFINE n == Head(ch[k])
      <4>1. got'[k] = Append(got[k], n) /\ ch'[k] = <<>>
        BY <1>1, <3>1, <3>2
      <4>2. n \in 1 .. MaxNews /\ Range(ch[k]) = {n}
        BY <3>1, <3>2, OneInChannel
      <4> HIDE DEF n
      <4>3. Range(got'[k]) = Range(got[k]) \cup {n}
        BY <1>1, <4>1, <4>2, RangeFacts
      <4>4. All1 \subseteq Has1
        BY <2>2, <3>1, <4>2, <4>3
      <4> QED
        BY <2>2, <2>3, <3>1, <4>4
    <3>3. CASE l # k
      <4>1. ch'[k] = ch[k] /\ got'[k] = got[k]
        BY <1>1, <3>1, <3>3
      <4> QED
        BY <2>2, <2>3, <3>1, <4>1
    <3> QED
      BY <3>2, <3>3
  <2> QED
    BY <2>4, <2>5, <2>6, <2>7, <2>8, <2>9, <2>10, <2>11, <2>12, QueueSteps
<1> QED
  BY <1>3, <1>4

-----------------------------------------------------------------------------
(* Connecting.                                                             *)

LEMMA ConnectedStep ==
    ASSUME TypeOK, Inv, [Next]_vars
    PROVE  Connected'
<1> DEFINE Goal(q) ==
      /\ sure'[q] \subseteq subs'[q] \cup todo'[q]
      /\ ens'[q] = "idle" => todo'[q] = {}
      /\ link'[q] # "up" => sure'[q] = {}
      /\ tok'[q]["ensure"] # "none" => ens'[q] = "suback"
      /\ tok'[q]["ensure"] = "failed" => sure'[q] = {}
<1> SUFFICES ASSUME NEW q \in Programs
    PROVE  Goal(q)
  BY DEF Connected
<1>1. /\ sure[q] \subseteq subs[q] \cup todo[q]
      /\ ens[q] = "idle" => todo[q] = {}
      /\ link[q] # "up" => sure[q] = {}
      /\ tok[q]["ensure"] # "none" => ens[q] = "suback"
      /\ tok[q]["ensure"] = "failed" => sure[q] = {}
  BY DEF Inv, Connected
<1>2. /\ link \in [Programs -> {"down", "up", "lost"}]
      /\ subs \in [Programs -> SUBSET Topics]
      /\ tok \in [Programs -> [Waiters -> {"none", "wait", "failed"}]]
      /\ todo \in [Programs -> SUBSET Methods]
      /\ sure \in [Programs -> SUBSET Methods]
      /\ ens \in [Programs -> {"idle", "subscribe", "suback"}]
  BY DEF TypeOK
\* The transport goes on as before: subscriptions may come, and an answer.
<1>3. ASSUME sure'[q] = sure[q], todo'[q] = todo[q], ens'[q] = ens[q], link'[q] = link[q],
             sure[q] \cap subs[q] \subseteq subs'[q],
             tok'[q]["ensure"] = tok[q]["ensure"] \/ tok'[q]["ensure"] = "none"
      PROVE  Goal(q)
  BY <1>1, <1>3
<1> HIDE DEF Goal
<1>4. ASSUME NEW p \in Programs, NEW topics, NEW callback, NEW w \in Waiters, w # "ensure",
             Subscribe(p, topics, callback, w), UNCHANGED <<ens, todo, sure>>
      PROVE  Goal(q)
  <2>1. subs[q] \subseteq subs'[q]
    BY <1>4, SubscribeRoute
  <2>2. tok' = [tok EXCEPT ![p] = [tok[p] EXCEPT ![w] = "wait"]] /\ UNCHANGED link
    BY <1>4 DEF Subscribe
  <2>3. tok'[q]["ensure"] = tok[q]["ensure"]
    BY <1>2, <1>4, <2>2, NamesType
  <2> QED
    BY <1>3, <1>4, <2>1, <2>2, <2>3
<1>5. ASSUME NEW p \in Programs, NEW w \in Waiters, tok' = [tok EXCEPT ![p][w] = "none"],
             UNCHANGED <<link, subs, ens, todo, sure>>
      PROVE  Goal(q)
  <2>1. tok'[q]["ensure"] = tok[q]["ensure"] \/ tok'[q]["ensure"] = "none"
    BY <1>2, <1>5, NamesType
  <2> QED
    BY <1>3, <1>5, <2>1
<1>6. ASSUME UNCHANGED <<link, subs, tok, ens, todo, sure>>
      PROVE  Goal(q)
  BY <1>3, <1>6
<1>7. ASSUME NEW p \in Programs, Ensures(p)
      PROVE  Goal(q)
  <2>1. CASE p # q
    <3>1. /\ sure'[q] = sure[q] /\ todo'[q] = todo[q] /\ ens'[q] = ens[q]
      BY <1>2, <1>7, <2>1 DEF Ensures, SubscribeNext, Subscribed, OnConnect,
        EnsureGoes
    <3>2. link'[q] = link[q] /\ subs'[q] = subs[q] /\ tok'[q] = tok[q]
      BY <1>2, <1>7, <2>1 DEF Ensures, SubscribeNext, Subscribed, OnConnect,
        Subscribe, pahoVars
    <3> QED
      BY <1>3, <3>1, <3>2
  <2>2. CASE p = q
    <3>1. CASE \E m \in Methods : SubscribeNext(q, m)
      <4>1. PICK m \in Methods : SubscribeNext(q, m)
        BY <3>1
      <4>2. ens[q] = "subscribe" /\ tok[q]["ensure"] = "none" /\ UNCHANGED sure
        BY <1>1, <1>2, <4>1, NamesType DEF SubscribeNext
      <4>3. CASE link[q] = "up"
        <5>1. /\ Subscribe(q, {m}, "invoke", "ensure") /\ ens' = [ens EXCEPT ![q] = "suback"]
              /\ todo' = [todo EXCEPT ![q] = todo[q] \ {m}]
          BY <4>1, <4>3 DEF SubscribeNext, EnsureGoes
        <5>2. subs'[q] = subs[q] \cup {m}
          BY <5>1, SubscribeRoute
        <5>3. tok'[q]["ensure"] = "wait" /\ link'[q] = link[q]
          BY <1>2, <5>1, NamesType DEF Subscribe
        <5>4. ens'[q] = "suback" /\ todo'[q] = todo[q] \ {m}
          BY <1>2, <5>1
        <5> QED
          BY <1>1, <4>2, <4>3, <5>2, <5>3, <5>4 DEF Goal
      <4>4. CASE link[q] # "up"
        <5>1. /\ ens' = [ens EXCEPT ![q] = "idle"] /\ todo' = [todo EXCEPT ![q] = {}]
              /\ UNCHANGED <<link, subs, tok>>
          BY <4>1, <4>4 DEF SubscribeNext, EnsureGoes, pahoVars
        <5>2. ens'[q] = "idle" /\ todo'[q] = {}
          BY <1>2, <5>1
        <5> QED
          BY <1>1, <4>2, <4>4, <5>1, <5>2 DEF Goal
      <4> QED
        BY <4>3, <4>4
    <3>2. CASE Subscribed(q)
      <4>1. tok'[q]["ensure"] = "none" /\ UNCHANGED <<link, subs, sure>>
        BY <1>2, <3>2, NamesType DEF Subscribed
      <4>2. CASE Failed(q, "ensure")
        <5>1. todo'[q] = {}
          BY <1>2, <3>2, <4>2 DEF Subscribed
        <5> QED
          BY <1>1, <4>1, <4>2, <5>1 DEF Goal, Failed
      <4>3. CASE ~Failed(q, "ensure")
        <5>1. todo'[q] = todo[q] /\ ens'[q] = "subscribe"
          BY <1>2, <3>2, <4>3 DEF Subscribed, EnsureGoes
        <5> QED
          BY <1>1, <4>1, <5>1 DEF Goal
      <4> QED
        BY <4>2, <4>3
    <3>3. CASE OnConnect(q)
      <4>1. /\ ens[q] = "subscribe" /\ todo[q] = {} /\ UNCHANGED <<link, subs, tok, sure>>
            /\ ens' = [ens EXCEPT ![q] = "idle"] /\ todo' = [todo EXCEPT ![q] = {}]
        BY <3>3 DEF OnConnect, AllSubscribed, EnsureGoes, pahoVars
      <4>2. ens'[q] = "idle" /\ todo'[q] = {}
        BY <1>2, <4>1
      <4> QED
        BY <1>1, <4>1, <4>2 DEF Goal
    <3> QED
      BY <1>7, <2>2, <3>1, <3>2, <3>3 DEF Ensures
  <2> QED
    BY <2>1, <2>2
<1>8. ASSUME NEW p \in Programs, Router(p)
      PROVE  Goal(q)
  <2>1. PICK c \in Calls : Callback(p, c) \/ NewConnGoesOn(p, c)
    BY <1>8 DEF Router
  <2>2. UNCHANGED <<ens, todo, sure>>
    BY <2>1 DEF Callback, NewConnGoesOn
  <2>3. ASSUME NEW where, NewConn(p, where)
        PROVE  Goal(q)
    BY <1>4, <2>2, <2>3, NamesType DEF NewConn
  <2>4. CASE UNCHANGED <<link, subs, tok>>
    BY <1>6, <2>2, <2>4
  <2> QED
    BY <2>1, <2>3, <2>4 DEF Callback, NewConnGoesOn
<1>9. ASSUME NEW p \in Programs, Reads(p)
      PROVE  Goal(q)
  <2>1. UNCHANGED <<link, subs, ens, todo, sure>> /\ inb[p] # <<>>
    BY <1>9 DEF Reads, Incoming, transportVars
  <2>2. CASE UNCHANGED tok
    BY <1>6, <2>1, <2>2
  <2>3. CASE tok' # tok
    <3>1. tok' = [tok EXCEPT ![p][Head(inb[p]).of] = "none"] /\ Head(inb[p]).kind = "ack"
      BY <1>9, <2>3 DEF Reads, Incoming
    <3>2. inb[p] \in Seq(Packets)
      BY DEF TypeOK
    <3>3. Head(inb[p]).of \in Waiters
      BY <2>1, <3>1, <3>2, HeadTailProperties, PacketsType
    <3> QED
      BY <1>5, <2>1, <3>1, <3>3
  <2> QED
    BY <2>2, <2>3
<1>10. ASSUME NEW p \in Programs, Breaks(p)
       PROVE  Goal(q)
  <2>1. PICK state \in {"lost", "down"} : Disconnected(p, state)
    BY <1>10 DEF Breaks, Lose, Close
  <2>2. /\ link' = [link EXCEPT ![p] = state] /\ subs' = [subs EXCEPT ![p] = {}]
        /\ sure' = [sure EXCEPT ![p] = {}] /\ UNCHANGED <<tok, ens, todo>>
    BY <2>1 DEF Disconnected
  <2>3. CASE p = q
    <3>1. sure'[q] = {}
      BY <1>2, <2>2, <2>3
    <3> QED
      BY <1>1, <2>2, <3>1 DEF Goal
  <2>4. CASE p # q
    BY <1>2, <1>3, <2>2, <2>4
  <2> QED
    BY <2>3, <2>4
<1>11. ASSUME NEW p \in Programs, NEW w \in Waiters, w # "ensure", UnsubscribeNews(p, w)
       PROVE  Goal(q)
  <2>1. UNCHANGED <<link, ens, todo, sure>> /\ subs' = [subs EXCEPT ![p] = subs[p] \ {News}]
        /\ tok' = [tok EXCEPT ![p] = [tok[p] EXCEPT ![w] = "wait"]]
    BY <1>11 DEF UnsubscribeNews, transportVars
  <2>2. News \notin sure[q]
    BY <1>2, NamesType
  <2>3. sure[q] \cap subs[q] \subseteq subs'[q]
    BY <1>2, <2>1, <2>2
  <2>4. tok'[q]["ensure"] = tok[q]["ensure"]
    BY <1>2, <1>11, <2>1, NamesType
  <2> QED
    BY <1>3, <2>1, <2>3, <2>4
<1>12. ASSUME NEW p \in Programs, Uses(p)
       PROVE  Goal(q)
  <2>1. CASE EnsureConnected(p)
    <3>1. /\ ens[p] = "idle" /\ link' = [link EXCEPT ![p] = "up"]
          /\ ens' = [ens EXCEPT ![p] = "subscribe"] /\ todo' = [todo EXCEPT ![p] = handlers[p]]
          /\ sure' = [sure EXCEPT ![p] = handlers[p]] /\ UNCHANGED <<subs, tok>>
      BY <2>1 DEF EnsureConnected, EnsureGoes
    <3>2. CASE p = q
      <4>1. /\ link'[q] = "up" /\ ens'[q] = "subscribe" /\ todo'[q] = handlers[q]
            /\ sure'[q] = handlers[q]
        BY <1>2, <3>1, <3>2
      <4>2. tok'[q]["ensure"] = "none"
        BY <1>1, <3>1, <3>2
      <4> QED
        BY <4>1, <4>2 DEF Goal
    <3>3. CASE p # q
      BY <1>2, <1>3, <3>1, <3>3
    <3> QED
      BY <3>2, <3>3
  <2>2. CASE Reconnect(p)
    <3>1. link' = [link EXCEPT ![p] = "up"] /\ UNCHANGED <<subs, tok, ens, todo, sure>>
      BY <2>2 DEF Reconnect, transportVars
    <3>2. link'[q] # "up" => link[q] # "up"
      BY <1>2, <3>1
    <3> QED
      BY <1>1, <3>1, <3>2 DEF Goal
  <2>3. CASE \E m \in Methods : RegisterHandler(p, m) \/ UnregisterHandler(p, m)
    BY <1>6, <2>3 DEF RegisterHandler, UnregisterHandler, pahoVars
  <2> QED
    BY <1>12, <2>1, <2>2, <2>3 DEF Uses
<1>13. ASSUME NEW k \in Consumers, NewConsumer(k)
       PROVE  Goal(q)
  <2>1. Subscribe(Home[k], {News}, k, k) /\ UNCHANGED <<ens, todo, sure>>
    BY <1>13 DEF NewConsumer, transportVars
  <2> QED
    BY <1>4, <2>1, NamesType
<1>14. ASSUME NEW k \in Consumers, ConsumerSubscribed(k) \/ ConsumerClosed(k)
       PROVE  Goal(q)
  <2>1. /\ tok' = [tok EXCEPT ![Home[k]][k] = "none"] /\ UNCHANGED <<link, subs, ens, todo, sure>>
    BY <1>14 DEF ConsumerSubscribed, ConsumerClosed, transportVars
  <2> QED
    BY <1>5, <2>1, NamesType
<1>15. ASSUME NEW p \in Programs, NewsCallback(p) \/ PushNews(p) \/ Publish(p)
       PROVE  Goal(q)
  BY <1>6, <1>15 DEF NewsCallback, PushNews, Publish, transportVars
<1>16. ASSUME NEW k \in Consumers, Recv(k)
       PROVE  Goal(q)
  BY <1>6, <1>16 DEF Recv, pahoVars, transportVars
<1>17. ASSUME NEW c \in Calls, Invoke(c)
       PROVE  Goal(q)
  BY <1>6, <1>17 DEF Invoke
<1>18. CASE UNCHANGED vars
  BY <1>6, <1>18 DEF vars, pahoVars, transportVars
\* Tokens fail where the connection has gone.
<1>19. ASSUME NEW p \in Programs, TokensFail(p)
       PROVE  Goal(q)
  <2>1. /\ link[p] # "up" /\ UNCHANGED <<link, subs, ens, todo, sure>>
        /\ tok' = [tok EXCEPT ![p] =
                     [w \in Waiters |-> IF tok[p][w] = "wait" THEN "failed" ELSE tok[p][w]]]
    BY <1>19 DEF TokensFail, transportVars
  <2>2. CASE p = q
    <3>1. tok'[q]["ensure"] # "none" => tok[q]["ensure"] # "none"
      BY <1>2, <2>1, <2>2, NamesType
    <3> QED
      BY <1>1, <2>1, <2>2, <3>1 DEF Goal
  <2>3. CASE p # q
    BY <1>2, <1>3, <2>1, <2>3
  <2> QED
    BY <2>2, <2>3
<1>20. ASSUME NEW p \in Programs, Reading(p)
       PROVE  Goal(q)
  BY <1>9, <1>19, <1>20 DEF Reading, Reads
<1>21. CASE \E p \in Programs : Connecting(p) \/ Routing(p) \/ Reading(p) \/ Breaks(p)
                                \/ Publish(p) \/ ClosePublisher(p) \/ (Uses(p) /\ UNCHANGED newsVars)
  BY <1>7, <1>8, <1>10, <1>11, <1>12, <1>15, <1>20, <1>21, NamesType DEF Connecting,
    Routing, ClosePublisher
<1>22. CASE \E k \in Consumers :
               \/ NewConsumer(k) \/ ConsumerSubscribed(k) \/ Recv(k)
               \/ CloseConsumer(k) \/ ConsumerClosed(k)
  <2>1. ASSUME NEW k \in Consumers, CloseConsumer(k)
        PROVE  Goal(q)
    <3>1. CASE UnsubscribeNews(Home[k], k)
      BY <1>11, <3>1, NamesType
    <3>2. CASE UNCHANGED <<pahoVars, transportVars>>
      BY <1>6, <3>2 DEF pahoVars, transportVars
    <3> QED
      BY <2>1, <3>1, <3>2, CloseSteps
  <2> QED
    BY <1>13, <1>14, <1>16, <1>22, <2>1
<1> QED
  BY <1>17, <1>18, <1>21, <1>22 DEF Next

-----------------------------------------------------------------------------
(* The token of newConn.                                                   *)

LEMMA NewConnWaitsStep ==
    ASSUME TypeOK, Inv, [Next]_vars
    PROVE  NewConnWaits'
<1> DEFINE Goal(q) ==
      tok'[q]["callback"] # "none" =>
         tok'[q]["callback"] = "wait" /\ cb'[q] \in {"control", "data"}
<1> SUFFICES ASSUME NEW q \in Programs
    PROVE  Goal(q)
  BY DEF NewConnWaits
<1>1. tok[q]["callback"] # "none" =>
         tok[q]["callback"] = "wait" /\ cb[q] \in {"control", "data"}
  BY DEF Inv, NewConnWaits
<1>2. /\ tok \in [Programs -> [Waiters -> {"none", "wait", "failed"}]]
      /\ cb \in [Programs -> {"idle", "control", "data", "push"}]
  BY DEF TypeOK
<1>3. ASSUME cb'[q] = cb[q],
             tok'[q]["callback"] = tok[q]["callback"] \/ tok'[q]["callback"] = "none"
      PROVE  Goal(q)
  BY <1>1, <1>3
\* The callback returns, or another one begins: nobody waits.
<1>4. ASSUME tok[q]["callback"] = "none", UNCHANGED tok
      PROVE  Goal(q)
  BY <1>4
<1> HIDE DEF Goal
<1>5. ASSUME UNCHANGED <<tok, cb>>
      PROVE  Goal(q)
  BY <1>3, <1>5
<1>6. ASSUME NEW p \in Programs, NEW w \in Waiters, NEW s, w # "callback",
             tok' = [tok EXCEPT ![p][w] = s], UNCHANGED cb
      PROVE  Goal(q)
  <2>1. tok'[q]["callback"] = tok[q]["callback"]
    BY <1>2, <1>6, NamesType
  <2> QED
    BY <1>3, <1>6, <2>1
<1>7. ASSUME NEW p \in Programs, Ensures(p)
      PROVE  Goal(q)
  <2>1. UNCHANGED cb /\ (UNCHANGED tok \/ \E s : tok' = [tok EXCEPT ![p]["ensure"] = s])
    BY <1>7 DEF Ensures, SubscribeNext, Subscribe, Subscribed, OnConnect, pahoVars
  <2> QED
    BY <1>5, <1>6, <2>1, NamesType
<1>8. ASSUME NEW p \in Programs, Router(p)
      PROVE  Goal(q)
  <2>1. PICK c \in Calls : Callback(p, c) \/ NewConnGoesOn(p, c)
    BY <1>8 DEF Router
  <2>2. tok[p]["callback"] = "none"
    <3>1. cb[p] = "idle" \/ tok[p]["callback"] = "none"
      BY <2>1 DEF Callback, NewConnGoesOn
    <3> QED
      BY <3>1 DEF Inv, NewConnWaits
  <2>3. ASSUME NEW where \in {"control", "data"}, NewConn(p, where)
        PROVE  Goal(q)
    <3>1. /\ tok' = [tok EXCEPT ![p] = [tok[p] EXCEPT !["callback"] = "wait"]]
          /\ cb' = [cb EXCEPT ![p] = where]
      BY <2>3 DEF NewConn, Subscribe
    <3>2. CASE p = q
      <4>1. tok'[q]["callback"] = "wait" /\ cb'[q] = where
        BY <1>2, <3>1, <3>2, NamesType
      <4> QED
        BY <4>1 DEF Goal
    <3>3. CASE p # q
      BY <1>2, <1>3, <3>1, <3>3
    <3> QED
      BY <3>2, <3>3
  <2>4. ASSUME NEW outcome, CallbackReturns(p, c, outcome), UNCHANGED tok
        PROVE  Goal(q)
    <3>1. cb' = [cb EXCEPT ![p] = "idle"]
      BY <2>4 DEF CallbackReturns
    <3>2. CASE p = q
      BY <1>4, <2>2, <2>4, <3>2
    <3>3. CASE p # q
      BY <1>2, <1>3, <2>4, <3>1, <3>3
    <3> QED
      BY <3>2, <3>3
  <2> QED
    BY <2>1, <2>3, <2>4 DEF Callback, NewConnGoesOn, HandlerStarts
<1>9. ASSUME NEW p \in Programs, NewsCallback(p) \/ PushNews(p)
      PROVE  Goal(q)
  <2>1. cb[p] \in {"idle", "push"} /\ UNCHANGED tok
        /\ (UNCHANGED cb \/ \E s : cb' = [cb EXCEPT ![p] = s])
    BY <1>9 DEF NewsCallback, PushNews
  <2>2. CASE p = q
    <3>1. tok[q]["callback"] = "none"
      BY <1>1, <2>1, <2>2
    <3> QED
      BY <1>4, <2>1, <3>1
  <2>3. CASE p # q
    BY <1>2, <1>3, <2>1, <2>3
  <2> QED
    BY <2>2, <2>3
<1>10. ASSUME NEW p \in Programs, Incoming(p)
       PROVE  Goal(q)
  <2>1. UNCHANGED cb /\ inb[p] # <<>>
    BY <1>10 DEF Incoming, transportVars
  <2>2. CASE UNCHANGED tok
    BY <1>5, <2>1, <2>2
  <2>3. CASE tok' # tok
    <3>1. tok' = [tok EXCEPT ![p][Head(inb[p]).of] = "none"] /\ Head(inb[p]).kind = "ack"
      BY <1>10, <2>3 DEF Incoming
    <3>2. inb[p] \in Seq(Packets)
      BY DEF TypeOK
    <3>3. Head(inb[p]).of \in Waiters
      BY <2>1, <3>1, <3>2, HeadTailProperties, PacketsType
    <3>4. tok'[q]["callback"] = tok[q]["callback"] \/ tok'[q]["callback"] = "none"
      BY <1>2, <3>1, <3>3, NamesType
    <3> QED
      BY <1>3, <2>1, <3>4
  <2> QED
    BY <2>2, <2>3
\* The router has ended, so no callback waits.
<1>11. ASSUME NEW p \in Programs, TokensFail(p)
       PROVE  Goal(q)
  <2>1. /\ rtr[p] = <<>> /\ UNCHANGED cb
        /\ tok' = [tok EXCEPT ![p] =
                     [w \in Waiters |-> IF tok[p][w] = "wait" THEN "failed" ELSE tok[p][w]]]
    BY <1>11 DEF TokensFail, transportVars
  <2>2. CASE p = q
    <3>1. tok[q]["callback"] = "none"
      BY <1>1, <2>1, <2>2 DEF TypeOK
    <3>2. tok'[q]["callback"] = "none"
      BY <1>2, <2>1, <2>2, <3>1, NamesType
    <3> QED
      BY <1>3, <2>1, <3>2
  <2>3. CASE p # q
    BY <1>2, <1>3, <2>1, <2>3
  <2> QED
    BY <2>2, <2>3
<1>12. ASSUME NEW p \in Programs, Breaks(p) \/ Publish(p) \/ Uses(p)
       PROVE  Goal(q)
  BY <1>5, <1>12 DEF Breaks, Lose, Close, Disconnected, Publish, Uses,
    EnsureConnected, Reconnect, RegisterHandler, UnregisterHandler, pahoVars,
    transportVars
<1>13. ASSUME NEW p \in Programs, NEW w \in Waiters, w # "callback", UnsubscribeNews(p, w)
       PROVE  Goal(q)
  BY <1>6, <1>13 DEF UnsubscribeNews, transportVars
<1>14. ASSUME NEW k \in Consumers, NewConsumer(k) \/ ConsumerSubscribed(k) \/ ConsumerClosed(k)
       PROVE  Goal(q)
  <2>1. UNCHANGED cb /\ \E s : tok' = [tok EXCEPT ![Home[k]][k] = s]
    BY <1>14 DEF NewConsumer, Subscribe, ConsumerSubscribed, ConsumerClosed,
      transportVars
  <2> QED
    BY <1>6, <2>1, NamesType
<1>15. ASSUME NEW k \in Consumers, CloseConsumer(k)
       PROVE  Goal(q)
  <2>1. CASE UnsubscribeNews(Home[k], k)
    BY <1>13, <2>1, NamesType
  <2>2. CASE UNCHANGED <<pahoVars, transportVars>>
    BY <1>5, <2>2 DEF pahoVars, transportVars
  <2> QED
    BY <1>15, <2>1, <2>2, CloseSteps
<1>16. ASSUME NEW k \in Consumers, Recv(k)
       PROVE  Goal(q)
  BY <1>5, <1>16 DEF Recv, pahoVars, transportVars
<1>17. ASSUME NEW c \in Calls, Invoke(c)
       PROVE  Goal(q)
  BY <1>5, <1>17 DEF Invoke
<1>18. CASE UNCHANGED vars
  BY <1>5, <1>18 DEF vars, pahoVars, transportVars
<1>19. CASE \E p \in Programs : Connecting(p) \/ Routing(p) \/ Reading(p) \/ Breaks(p)
                                \/ Publish(p) \/ ClosePublisher(p) \/ (Uses(p) /\ UNCHANGED newsVars)
  BY <1>7, <1>8, <1>9, <1>10, <1>11, <1>12, <1>13, <1>19, NamesType DEF Connecting,
    Routing, Reading, ClosePublisher
<1>20. CASE \E k \in Consumers :
               \/ NewConsumer(k) \/ ConsumerSubscribed(k) \/ Recv(k)
               \/ CloseConsumer(k) \/ ConsumerClosed(k)
  BY <1>14, <1>15, <1>16, <1>20
<1> QED
  BY <1>17, <1>18, <1>19, <1>20 DEF Next

-----------------------------------------------------------------------------
(* The theorems.                                                           *)

LEMMA InvInit ==
    ASSUME Init
    PROVE  Inv
<1>1. /\ \A p \in Programs :
            /\ link[p] = "down" /\ subs[p] = {} /\ inb[p] = <<>> /\ rtr[p] = <<>>
            /\ route[p][News] = NoRoute /\ to[p] = NoRoute
            /\ tok[p]["ensure"] = "none" /\ tok[p]["callback"] = "none"
            /\ ens[p] = "idle" /\ todo[p] = {} /\ sure[p] = {} /\ cb[p] = "idle"
      /\ \A k \in Consumers : ch[k] = <<>> /\ got[k] = <<>> /\ ~intact[k]
  BY NamesType DEF Init, PahoInit, All
<1>2. Placed
  BY <1>1, NamesType DEF Placed
<1>3. QueuesInOrder
  BY <1>1, NewsNone DEF QueuesInOrder, Before
<1>4. SeenInOrder
  <2>1. Range(<<>>) = {} /\ Len(<<>>) = 0 /\ 1 .. 0 = {}
    <3>1. DOMAIN <<>> = {}
      OBVIOUS
    <3> QED
      BY <3>1 DEF Range
  <2> QED
    BY <1>1, <2>1 DEF SeenInOrder, Before
<1>5. Undisturbed
  BY <1>1 DEF Undisturbed
<1>6. Connected
  BY <1>1 DEF Connected
<1>7. NewConnWaits
  BY <1>1 DEF NewConnWaits
<1> QED
  BY <1>2, <1>3, <1>4, <1>5, <1>6, <1>7 DEF Inv

\* Whatever programs, calls, consumers and connections do, the callbacks of the
\* topic, the queues of packets, what consumers have seen, their subscriptions
\* and ensureConnected keep the inductive invariant (paho.go, pubsub.go).
THEOREM Invariance == Spec => [](TypeOK /\ Inv)
<1>1. Init => TypeOK /\ Inv
  BY TypeInit, InvInit
<1>2. TypeOK /\ Inv /\ [Next]_vars => TypeOK' /\ Inv'
  BY TypeStep, PlacedStep, QueuesInOrderStep, SeenInOrderStep, UndisturbedStep,
    ConnectedStep, NewConnWaitsStep DEF Inv
<1> QED
  BY <1>1, <1>2, PTL DEF Spec

\* No variable leaves its type, and the router is never further ahead of its
\* callback than paho reads.
THEOREM TypeCorrect == Spec => []TypeOK
BY Invariance, PTL

\* A consumer gets every publication since its subscription, and no other, as
\* long as nothing in its program takes the subscription away.
THEOREM NothingMissedHolds == Spec => []NothingMissed
<1>1. ASSUME TypeOK, Inv
      PROVE  NothingMissed
  <2> SUFFICES ASSUME NEW k \in Consumers, intact[k]
      PROVE  Reached(k) = (since[k] + 1) .. news
    BY DEF NothingMissed
  <2> DEFINE p == Home[k]
             queue == IF to[p] \notin {k, NoRoute} THEN Tail(rtr[p]) ELSE rtr[p]
             Has == Range(got[k]) \cup Range(ch[k]) \cup NewsOf(queue) \cup NewsOf(inb[p])
  <2>1. /\ p \in Programs /\ rtr[p] \in Seq(Packets) /\ since[k] \in Nat /\ news \in Nat
        /\ to[p] \in Consumers \cup {NoRoute}
        /\ to[p] \in Consumers => rtr[p] # <<>> /\ Head(rtr[p]).kind = "news"
    BY <1>1, NamesType DEF TypeOK, Inv, Placed
  <2>2. /\ to[p] \notin {k, NoRoute} => Head(rtr[p]).of <= since[k]
        /\ (since[k] + 1) .. news \subseteq
               Range(got[k]) \cup Range(ch[k]) \cup NewsOf(rtr[p]) \cup NewsOf(inb[p])
    BY <1>1 DEF Inv, Undisturbed
  <2>3. /\ Range(got[k]) \cup Range(ch[k]) \subseteq 1 .. news
        /\ NewsOf(rtr[p]) \cup NewsOf(inb[p]) \subseteq 1 .. news
    BY <1>1, <2>1 DEF Inv, SeenInOrder, QueuesInOrder
  <2> HIDE DEF p
  <2>4. /\ NewsOf(queue) \subseteq NewsOf(rtr[p])
        /\ \A n \in NewsOf(rtr[p]) : n \in NewsOf(queue) \/ n <= since[k]
    <3>1. CASE to[p] \in {k, NoRoute}
      BY <3>1
    <3>2. CASE to[p] \notin {k, NoRoute}
      <4> DEFINE s == rtr[p]
      <4>1. s \in Seq(Packets) /\ s # <<>> /\ Head(s).kind = "news" /\ Head(s).of <= since[k]
        BY <2>1, <2>2, <3>2
      <4>2. queue = Tail(s)
        BY <3>2
      <4> HIDE DEF s
      <4>3. NewsOf(s) = NewsOf(Tail(s)) \cup {Head(s).of}
        BY <4>1, NewsTail
      <4> HIDE DEF queue
      <4>4. NewsOf(queue) \subseteq NewsOf(s) /\ \A n \in NewsOf(s) : n \in NewsOf(queue) \/ n <= since[k]
        BY <4>1, <4>2, <4>3
      <4> QED
        BY <4>4 DEF s
    <3> QED
      BY <3>1, <3>2
  <2>5. Reached(k) = {n \in Has : n > since[k]}
    BY DEF Reached, p
  <2> HIDE DEF queue
  <2>6. ASSUME NEW n \in (since[k] + 1) .. news
        PROVE  n \in Has /\ n > since[k]
    <3>1. n > since[k] /\ ~(n <= since[k])
      BY <2>1
    <3> QED
      BY <2>2, <2>4, <3>1
  <2>7. ASSUME NEW n \in Has, n > since[k]
        PROVE  n \in (since[k] + 1) .. news
    <3>1. n \in 1 .. news
      BY <2>3, <2>4
    <3> QED
      BY <2>1, <2>7, <3>1
  <2> QED
    BY <2>5, <2>6, <2>7
<1> QED
  BY <1>1, Invariance, PTL

\* What a consumer gets is in the order it was published, and nothing comes
\* twice, whatever happens to its subscription.
THEOREM NewsInOrderHolds == Spec => []NewsInOrder
<1>1. ASSUME TypeOK, Inv
      PROVE  NewsInOrder
  <2> SUFFICES ASSUME NEW k \in Consumers,
                      NEW i \in 1 .. Len(got[k] \o ch[k]), NEW j \in 1 .. Len(got[k] \o ch[k]),
                      i < j
      PROVE  (got[k] \o ch[k])[i] < (got[k] \o ch[k])[j]
    BY DEF NewsInOrder
  <2> DEFINE g == got[k]
             c == ch[k]
             s == g \o c
             a == Len(g)
  <2>1. g \in Seq(1 .. MaxNews) /\ c \in Seq(1 .. MaxNews) /\ Len(c) <= 1
    BY <1>1 DEF TypeOK
  <2>2. /\ \A x, y \in 1 .. Len(g) : x < y => g[x] < g[y]
        /\ \A m \in Range(g), n \in Range(c) : m < n
    BY <1>1 DEF Inv, SeenInOrder, Before
  <2> HIDE DEF g, c
  <2>3. /\ Len(s) = Len(g) + Len(c) /\ Len(g) \in Nat /\ Len(c) \in Nat
        /\ \A x \in 1 .. Len(g) + Len(c) : s[x] = IF x <= Len(g) THEN g[x] ELSE c[x - Len(g)]
    BY <2>1, ConcatProperties, LenProperties
  <2>4. /\ \A x \in 1 .. Len(g) : g[x] \in Range(g)
        /\ \A x \in 1 .. Len(c) : c[x] \in Range(c)
    <3>1. DOMAIN g = 1 .. Len(g) /\ DOMAIN c = 1 .. Len(c)
      BY <2>1, LenProperties
    <3> QED
      BY <3>1 DEF Range
  <2>5. i \in 1 .. Len(g) + Len(c) /\ j \in 1 .. Len(g) + Len(c)
    BY <2>3 DEF g, c
  <2> DEFINE b == Len(c)
  <2>6. /\ a \in Nat /\ b \in Nat /\ b <= 1 /\ i \in 1 .. a + b /\ j \in 1 .. a + b
        /\ \A x \in 1 .. a + b : s[x] = IF x <= a THEN g[x] ELSE c[x - a]
        /\ \A x, y \in 1 .. a : x < y => g[x] < g[y]
        /\ \A x \in 1 .. a : g[x] \in Range(g)
        /\ \A x \in 1 .. b : c[x] \in Range(c)
    BY <2>1, <2>2, <2>3, <2>4, <2>5
  <2> HIDE DEF a, b, s
  <2>7. CASE j <= a
    <3>1. i \in 1 .. a /\ j \in 1 .. a
      BY <2>6, <2>7
    <3>2. s[i] = g[i] /\ s[j] = g[j]
      BY <2>6, <2>7, <3>1
    <3> QED
      BY <2>6, <3>1, <3>2 DEF s, g, c
  <2>8. CASE j > a
    <3>1. i \in 1 .. a /\ j - a \in 1 .. b
      BY <2>6, <2>8
    <3>2. s[i] = g[i] /\ s[j] = c[j - a]
      BY <2>6, <2>8, <3>1
    <3>3. g[i] < c[j - a]
      BY <2>2, <2>6, <3>1
    <3> QED
      BY <3>2, <3>3 DEF s, g, c
  <2> QED
    BY <2>6, <2>7, <2>8
<1> QED
  BY <1>1, Invariance, PTL

\* An INVOKE is dropped only if each program that is done connecting registered
\* the handler too late, or has lost the connection (paho.go:64).
THEOREM DroppedHasReasonHolds == Spec => DroppedHasReason
<1> DEFINE Reason ==
      \A c \in Calls : fate'[c] = "dropped" /\ fate[c] # "dropped" =>
         \A p \in Programs : ens[p] = "idle" => MethodOf[c] \notin sure[p]
<1>1. ASSUME TypeOK, Inv, [Next]_vars
      PROVE  Reason
  <2> SUFFICES ASSUME NEW c \in Calls, fate'[c] = "dropped", fate[c] # "dropped",
                      NEW p \in Programs, ens[p] = "idle"
      PROVE  MethodOf[c] \notin sure[p]
    OBVIOUS
  <2>1. Invoke(c) /\ fate' = [fate EXCEPT ![c] = "dropped"]
    <3>1. fate \in [Calls -> {"none", "dropped", "sent", "ignored", "refused", "running", "absent"}]
      BY <1>1 DEF TypeOK
    <3>2. ASSUME NEW d \in Calls, Invoke(d)
          PROVE  Invoke(c) /\ fate' = [fate EXCEPT ![c] = "dropped"]
      BY <3>1, <3>2 DEF Invoke
    <3>3. ASSUME NEW q \in Programs, Router(q)
          PROVE  FALSE
      <4>1. PICK d \in Calls : Callback(q, d) \/ NewConnGoesOn(q, d)
        BY <3>3 DEF Router
      <4>2. UNCHANGED fate \/ \E outcome \in {"ignored", "refused", "running"} :
                                 fate' = [fate EXCEPT ![d] = outcome]
        BY <4>1 DEF Callback, NewConnGoesOn, CallbackReturns, NewConn, HandlerStarts
      <4> QED
        BY <3>1, <4>2
    <3>4. ASSUME UNCHANGED fate
          PROVE  FALSE
      BY <3>4
    <3>5. ASSUME NEW q \in Programs,
                 \/ Ensures(q) \/ NewsCallback(q) \/ PushNews(q) \/ Reading(q) \/ Breaks(q)
                 \/ Publish(q) \/ ClosePublisher(q) \/ Uses(q)
          PROVE  UNCHANGED fate
      BY <3>5 DEF Ensures, SubscribeNext, Subscribed, OnConnect, NewsCallback,
        PushNews, Reading, Incoming, TokensFail, Breaks, Lose, Close, Disconnected,
        Publish, ClosePublisher, UnsubscribeNews, Uses, EnsureConnected, Reconnect,
        RegisterHandler, UnregisterHandler, transportVars
    <3>6. ASSUME NEW k \in Consumers,
                 \/ NewConsumer(k) \/ ConsumerSubscribed(k) \/ Recv(k)
                 \/ CloseConsumer(k) \/ ConsumerClosed(k)
          PROVE  UNCHANGED fate
      BY <3>6 DEF NewConsumer, ConsumerSubscribed, ConsumerClosed, CloseConsumer,
        UnsubscribeNews, Recv, transportVars
    <3>7. CASE UNCHANGED vars
      BY <3>4, <3>7 DEF vars, transportVars
    <3>8. CASE Next
      BY <3>2, <3>3, <3>4, <3>5, <3>6, <3>8 DEF Next, Connecting, Routing
    <3> QED
      BY <1>1, <3>7, <3>8
  <2>2. fate[c] = "none" /\ ({q \in Programs : MethodOf[c] \in subs[q]} = {} \/ UNCHANGED fate
                              \/ fate' = [fate EXCEPT ![c] = "sent"])
    BY <2>1 DEF Invoke
  <2>3. MethodOf[c] \notin subs[p]
    BY <1>1, <2>2 DEF TypeOK
  <2>4. sure[p] \subseteq subs[p] \cup todo[p] /\ todo[p] = {}
    BY <1>1 DEF Inv, Connected
  <2> QED
    BY <2>3, <2>4
<1>2. TypeOK /\ Inv /\ [Next]_vars => [Reason]_vars
  BY <1>1
<1> QED
  BY <1>2, Invariance, PTL DEF Spec, DroppedHasReason
=============================================================================
