--------------------------- MODULE MqttCallProofs ---------------------------
(***************************************************************************)
(* Theorems about a call over MQTT, for every set of payloads and errors,  *)
(* every length of the exchange and every number of messages that the paho *)
(* client reads ahead.                                                     *)
(***************************************************************************)
EXTENDS MqttCall, PicksProofs

\* The two sides are each other's peers.
LEMMA PeerType ==
    /\ \A s \in Sides : Peer(s) \in Sides /\ Peer(s) # s /\ Peer(Peer(s)) = s
    /\ \A s \in Sides, t \in Sides : s = t \/ s = Peer(t)
    /\ Peer("client") = "server" /\ Peer("server") = "client"
    /\ "client" \in Sides /\ "server" \in Sides
    /\ \A s \in Sides : s = "client" \/ s = "server"
BY DEF Sides, Peer

\* The topics of a call, each with its own name.
LEMMA TopicsType ==
    /\ CallTopic \in Topics
    /\ \A s \in Sides : Control(s) \in Topics /\ Data(s) \in Topics
    /\ \A s \in Sides : Control(s) # CallTopic /\ Data(s) # CallTopic
    /\ \A s, t \in Sides : Control(s) # Data(t)
    /\ \A s, t \in Sides : s # t => Control(s) # Control(t) /\ Data(s) # Data(t)
BY DEF Topics, Sides, Control, Data, CallTopic

\* The topic a message of the call is published on.
LEMMA TopicOfType ==
    ASSUME NEW s \in Sides, NEW m \in Messages
    PROVE  /\ m.type = "INVOKE" => TopicOf(s, m) = CallTopic
           /\ m.type # "INVOKE" => TopicOf(s, m) \in {Control(s), Data(s)}
           /\ TopicOf(s, m) \in Topics
<1>1. m.type = "INVOKE" => TopicOf(s, m) = CallTopic
  BY DEF TopicOf
<1>2. m.type # "INVOKE" => TopicOf(s, m) \in {Control(s), Data(s)}
  BY DEF TopicOf
<1> QED
  BY <1>1, <1>2, TopicsType

\* The messages of a call, of the user and of the transport.
LEMMA MessagesType ==
    /\ Invocation \in Messages /\ Invocation.type = "INVOKE"
    /\ NewAckMessage \in Messages /\ NewAckMessage.type # "INVOKE"
    /\ NewCloseMessage \in Messages /\ NewCloseMessage.type # "INVOKE"
    /\ \A e \in ErrorTexts :
          NewErrorMessage(e) \in Messages /\ NewErrorMessage(e).type # "INVOKE"
    /\ \A d \in Payloads :
          NewDataMessage(d) \in Messages /\ NewDataMessage(d).type # "INVOKE"
<1>1. Invocation \in Messages /\ Invocation.type = "INVOKE"
  <2> DEFINE m == NewMethod(<<>>, MethodTypeUnary)
  <2>1. Digit(m.type) \in Text
    <3>1. m.type \in 0 .. 5
      BY DEF NewMethod, MethodTypeUnary
    <3> HIDE DEF m
    <3>2. Digit(m.type) \in Digits
      BY <3>1 DEF Digit, Digits, MethodTypeUnary, MethodTypeServerStream,
        MethodTypeClientStream, MethodTypeBidiStream, MethodTypePublisher,
        MethodTypeConsumer
    <3> QED
      BY <3>2, DigitsAssumption
  <2>2. m.name = <<>>
    BY DEF NewMethod
  <2>3. String(m) \in Segments
    <3> HIDE DEF m
    <3>1. <<>> \in Seq(Text)
      OBVIOUS
    <3> QED
      BY <2>1, <2>2, <3>1, AppendProperties DEF String, Segments
  <2> QED
    BY <2>3 DEF Invocation, NewCallMessage, Messages, MessageTypes
<1>2. <<>> \in Segments
  BY DEF Segments
<1>3. /\ NewAckMessage \in Messages /\ NewAckMessage.type # "INVOKE"
      /\ NewCloseMessage \in Messages /\ NewCloseMessage.type # "INVOKE"
  BY <1>2 DEF NewAckMessage, NewCloseMessage, Messages, MessageTypes
<1>4. ASSUME NEW e \in ErrorTexts
      PROVE  NewErrorMessage(e) \in Messages /\ NewErrorMessage(e).type # "INVOKE"
  BY MqttAssumption DEF NewErrorMessage, Messages, MessageTypes
<1>5. ASSUME NEW d \in Payloads
      PROVE  NewDataMessage(d) \in Messages /\ NewDataMessage(d).type # "INVOKE"
  BY MqttAssumption DEF NewDataMessage, Messages, MessageTypes
<1> QED
  BY <1>1, <1>3, <1>4, <1>5

\* A packet is an acknowledgement or carries a message.
LEMMA PacketsType ==
    /\ Ack \in Acks /\ Ack \in Packets /\ Ack \notin Carriers
    /\ \A p \in Packets :
          /\ p.msg \in Messages /\ p.topic \in Topics
          /\ p \in Acks <=> p.kind = "ack"
          /\ p \in Carriers <=> p.kind = "publish" /\ p.topic # CallTopic
          /\ p \in Acks <=> p.kind # "publish"
<1>1. Ack \in Packets
  BY MessagesType, TopicsType DEF Ack, Packets
<1>2. Ack.kind = "ack"
  BY DEF Ack
<1> QED
  BY <1>1, <1>2 DEF Packets, Acks, Carriers

\* What a message is packed in.
LEMMA PackType ==
    ASSUME NEW s \in Sides, NEW m \in Messages, NEW p,
           p = [kind |-> "publish", topic |-> TopicOf(s, m), msg |-> m]
    PROVE  /\ p \in Packets /\ p.kind = "publish" /\ p.topic = TopicOf(s, m) /\ p.msg = m
           /\ p \notin Acks /\ (p \in Carriers <=> m.type # "INVOKE")
           /\ m.type # "INVOKE" \/ s = "client" => p \in Meant(Peer(s))
<1>1. /\ p \in Packets /\ p.kind = "publish" /\ p.topic = TopicOf(s, m) /\ p.msg = m
  BY TopicOfType DEF Packets
<1>2. p \in Carriers <=> m.type # "INVOKE"
  BY <1>1, TopicOfType, TopicsType, PacketsType
<1> QED
  BY <1>1, <1>2, TopicOfType, PacketsType, PeerType DEF Meant

-----------------------------------------------------------------------------
(* Queues.                                                                 *)

LEMMA CarriedIs ==
    ASSUME NEW q \in Seq(Packets)
    PROVE  /\ Picked(q, Carriers) \in Seq(Packets)
           /\ Carried(q) \in Seq(Messages)
           /\ Len(Carried(q)) = Len(Picked(q, Carriers))
           /\ \A n \in 1 .. Len(Carried(q)) : Carried(q)[n] = Picked(q, Carriers)[n].msg
<1> DEFINE own == Picked(q, Carriers)
<1>1. own \in Seq(Packets)
  BY PickedType
<1>2. \A n \in 1 .. Len(own) : own[n].msg \in Messages
  BY <1>1, PacketsType
<1>3. Carried(q) = [n \in 1 .. Len(own) |-> own[n].msg]
  BY <1>1 DEF Carried
<1> HIDE DEF own
<1>4. /\ [n \in 1 .. Len(own) |-> own[n].msg] \in Seq(Messages)
      /\ Len([n \in 1 .. Len(own) |-> own[n].msg]) = Len(own)
  BY <1>1, <1>2
<1> QED
  BY <1>1, <1>3, <1>4 DEF own

LEMMA CarriedEmpty == Carried(<<>>) = <<>>
<1>1. <<>> \in Seq(Packets) /\ Picked(<<>>, Carriers) = <<>> /\ Len(<<>>) = 0
  BY PickedEmpty
<1>2. Carried(<<>>) \in Seq(Messages) /\ Len(Carried(<<>>)) = 0
  BY <1>1, CarriedIs
<1> QED
  BY <1>2, EmptySeq

LEMMA CarriedAppend ==
    ASSUME NEW q \in Seq(Packets), NEW p \in Packets
    PROVE  Carried(Append(q, p)) =
              IF p \in Carriers THEN Append(Carried(q), p.msg) ELSE Carried(q)
<1> DEFINE own == Picked(q, Carriers)
           Q == Append(q, p)
<1>1. Picked(Q, Carriers) = IF p \in Carriers THEN Append(own, p) ELSE own
  BY PickedAppend
<1>2. Q \in Seq(Packets) /\ own \in Seq(Packets)
  BY AppendProperties, PickedType
<1>3. CASE p \notin Carriers
  <2>1. Picked(Q, Carriers) = own
    BY <1>1, <1>3
  <2>2. Carried(Q) = Carried(q)
    BY <2>1 DEF Carried
  <2> QED
    BY <1>3, <2>2
<1>4. CASE p \in Carriers
  <2> DEFINE r == Append(Carried(q), p.msg)
  <2>1. Picked(Q, Carriers) = Append(own, p)
    BY <1>1, <1>4
  <2>2. /\ Len(Append(own, p)) = Len(own) + 1 /\ Append(own, p)[Len(own) + 1] = p
        /\ \A n \in 1 .. Len(own) : Append(own, p)[n] = own[n]
        /\ Len(own) \in Nat
    BY <1>2, AppendProperties
  <2>3. /\ Carried(q) \in Seq(Messages) /\ Len(Carried(q)) = Len(own)
        /\ \A n \in 1 .. Len(own) : Carried(q)[n] = own[n].msg
    BY CarriedIs
  <2>4. /\ r \in Seq(Messages) /\ Len(r) = Len(own) + 1 /\ r[Len(own) + 1] = p.msg
        /\ \A n \in 1 .. Len(own) : r[n] = Carried(q)[n]
    BY <2>3, PacketsType, AppendProperties
  <2>5. /\ Carried(Q) \in Seq(Messages) /\ Len(Carried(Q)) = Len(own) + 1
        /\ \A n \in 1 .. Len(own) + 1 : Carried(Q)[n] = Append(own, p)[n].msg
    <3> HIDE DEF Q
    <3>1. /\ Carried(Q) \in Seq(Messages) /\ Len(Carried(Q)) = Len(Picked(Q, Carriers))
          /\ \A n \in 1 .. Len(Carried(Q)) : Carried(Q)[n] = Picked(Q, Carriers)[n].msg
      BY <1>2, CarriedIs
    <3> QED
      BY <2>1, <2>2, <3>1
  <2> HIDE DEF Q, r, own
  <2>6. \A n \in 1 .. Len(own) + 1 : Carried(Q)[n] = r[n]
    <3> TAKE n \in 1 .. Len(own) + 1
    <3>1. CASE n = Len(own) + 1
      BY <2>2, <2>4, <2>5, <3>1
    <3>2. CASE n # Len(own) + 1
      <4>1. n \in 1 .. Len(own)
        BY <2>2, <3>2
      <4> QED
        BY <2>2, <2>3, <2>4, <2>5, <4>1
    <3> QED
      BY <3>1, <3>2
  <2>7. Carried(Q) = r
    BY <2>4, <2>5, <2>6, SeqEqual
  <2> QED
    BY <1>4, <2>7 DEF Q, r
<1> QED
  BY <1>3, <1>4

LEMMA CarriedTail ==
    ASSUME NEW q \in Seq(Packets), q # <<>>
    PROVE  Carried(q) = IF Head(q) \in Carriers
                        THEN <<Head(q).msg>> \o Carried(Tail(q))
                        ELSE Carried(Tail(q))
<1> DEFINE h == Head(q)
           t == Tail(q)
           own == Picked(t, Carriers)
<1>1. Picked(q, Carriers) = IF h \in Carriers THEN <<h>> \o own ELSE own
  BY PickedTail
<1>2. h \in Packets /\ t \in Seq(Packets)
  BY HeadTailProperties
<1> HIDE DEF h, t
<1>3. own \in Seq(Packets)
  BY <1>2, PickedType
<1>4. CASE h \notin Carriers
  <2>1. Picked(q, Carriers) = own
    BY <1>1, <1>4
  <2>2. Carried(q) = Carried(t)
    BY <2>1 DEF Carried
  <2> QED
    BY <1>4, <2>2 DEF h, t
<1>5. CASE h \in Carriers
  <2> DEFINE r == <<h.msg>> \o Carried(t)
  <2>1. Picked(q, Carriers) = <<h>> \o own
    BY <1>1, <1>5
  <2>2. /\ <<h>> \in Seq(Packets) /\ Len(<<h>>) = 1 /\ <<h>>[1] = h
        /\ <<h.msg>> \in Seq(Messages) /\ Len(<<h.msg>>) = 1 /\ <<h.msg>>[1] = h.msg
    BY <1>2, PacketsType
  <2>3. /\ Len(<<h>> \o own) = 1 + Len(own) /\ Len(own) \in Nat
        /\ \A n \in 1 .. 1 + Len(own) :
              (<<h>> \o own)[n] = IF n <= 1 THEN <<h>>[n] ELSE own[n - 1]
    BY <1>3, <2>2, ConcatProperties
  <2>4. /\ Carried(t) \in Seq(Messages) /\ Len(Carried(t)) = Len(own)
        /\ \A n \in 1 .. Len(own) : Carried(t)[n] = own[n].msg
    BY <1>2, CarriedIs
  <2>5. /\ r \in Seq(Messages) /\ Len(r) = 1 + Len(own)
        /\ \A n \in 1 .. 1 + Len(own) :
              r[n] = IF n <= 1 THEN <<h.msg>>[n] ELSE Carried(t)[n - 1]
    BY <2>2, <2>4, ConcatProperties
  <2>6. /\ Carried(q) \in Seq(Messages) /\ Len(Carried(q)) = 1 + Len(own)
        /\ \A n \in 1 .. 1 + Len(own) : Carried(q)[n] = (<<h>> \o own)[n].msg
    BY <2>1, <2>3, CarriedIs
  <2> HIDE DEF r, own
  <2>7. \A n \in 1 .. 1 + Len(own) : Carried(q)[n] = r[n]
    <3> TAKE n \in 1 .. 1 + Len(own)
    <3>1. CASE n <= 1
      <4>1. n = 1
        BY <2>3, <3>1
      <4> QED
        BY <2>2, <2>3, <2>5, <2>6, <4>1
    <3>2. CASE ~(n <= 1)
      <4>1. n - 1 \in 1 .. Len(own)
        BY <2>3, <3>2
      <4>2. (<<h>> \o own)[n] = own[n - 1] /\ r[n] = Carried(t)[n - 1]
        BY <2>3, <2>5, <3>2
      <4> QED
        BY <2>4, <2>6, <4>1, <4>2
    <3> QED
      BY <3>1, <3>2
  <2>8. Carried(q) = r
    BY <2>5, <2>6, <2>7, SeqEqual
  <2> QED
    BY <1>5, <2>8 DEF r, h, t
<1> QED
  BY <1>4, <1>5 DEF h

\* How many acknowledgements a queue holds.
LEMMA AcksAppend ==
    ASSUME NEW q \in Seq(Packets), NEW p \in Packets
    PROVE  /\ Len(Picked(q, Acks)) \in Nat
           /\ Append(q, p) \in Seq(Packets)
           /\ p \in Acks =>
                 Len(Picked(Append(q, p), Acks)) = Len(Picked(q, Acks)) + 1
           /\ p \notin Acks => Len(Picked(Append(q, p), Acks)) = Len(Picked(q, Acks))
<1>1. Picked(q, Acks) \in Seq(Packets)
  BY PickedType
<1>2. Picked(Append(q, p), Acks) =
         IF p \in Acks THEN Append(Picked(q, Acks), p) ELSE Picked(q, Acks)
  BY PickedAppend
<1>3. p \in Acks => Picked(Append(q, p), Acks) = Append(Picked(q, Acks), p)
  BY <1>2
<1>4. Len(Append(Picked(q, Acks), p)) = Len(Picked(q, Acks)) + 1
  BY <1>1, AppendProperties
<1> QED
  BY <1>1, <1>2, <1>3, <1>4, AppendProperties, LenProperties

LEMMA AcksTail ==
    ASSUME NEW q \in Seq(Packets), q # <<>>
    PROVE  /\ Len(Picked(q, Acks)) \in Nat /\ Len(Picked(Tail(q), Acks)) \in Nat
           /\ Tail(q) \in Seq(Packets) /\ Head(q) \in Packets
           /\ Head(q) \in Acks =>
                 Len(Picked(q, Acks)) = Len(Picked(Tail(q), Acks)) + 1
           /\ Head(q) \notin Acks =>
                 Len(Picked(q, Acks)) = Len(Picked(Tail(q), Acks))
<1> DEFINE h == Head(q)
           own == Picked(Tail(q), Acks)
<1>1. h \in Packets /\ Tail(q) \in Seq(Packets)
  BY HeadTailProperties
<1>2. own \in Seq(Packets) /\ Picked(q, Acks) \in Seq(Packets)
  BY <1>1, PickedType
<1>3. Picked(q, Acks) = IF h \in Acks THEN <<h>> \o own ELSE own
  BY PickedTail
<1> HIDE DEF h, own
<1>4. <<h>> \in Seq(Packets) /\ Len(<<h>>) = 1
  BY <1>1
<1>5. Len(<<h>> \o own) = Len(own) + 1 /\ Len(own) \in Nat
  BY <1>2, <1>4, ConcatProperties
<1>6. h \in Acks => Len(Picked(q, Acks)) = Len(own) + 1
  BY <1>3, <1>5
<1>7. h \notin Acks => Len(Picked(q, Acks)) = Len(own)
  BY <1>3
<1> QED
  BY <1>1, <1>2, <1>5, <1>6, <1>7, LenProperties DEF h, own

-----------------------------------------------------------------------------
(* What a step does, whoever takes it.                                     *)

\* A side that is about to publish a message of the call.
MaySend(s) ==
    \/ s = "server" /\ srv \in {"start", "handler"} /\ srv' \in {"ack", "handler", "final"}
    \/ s = "client" /\ cl = "open" /\ UNCHANGED srv

Subscription(s) ==
    /\ \E topic \in Topics : Subscribe(s, topic) \/ Unsubscribe(s, topic)
    /\ UNCHANGED <<routerVars, userVars>>

Starting(s) ==
    /\ s = "client" /\ Publish(s, Invocation)
    /\ UNCHANGED <<routerVars, userVars>>

Publishing(s) ==
    /\ MaySend(s)
    /\ \E m \in Messages : m.type # "INVOKE" /\ BeginSend(s, m)
    /\ UNCHANGED <<routerVars, rcv, ret, taken>>

InvokeDone(s) ==
    /\ cb[s] = "invoke" /\ CallbackDone(s)
    /\ UNCHANGED <<netVars, buf, err, userVars>>

LEMMA Steps ==
    ASSUME TypeOK, Inv, [Next]_vars
    PROVE  \/ UNCHANGED <<netVars, routerVars, userVars>>
           \/ \E s \in Sides :
                 \/ Subscription(s) \/ Starting(s) \/ Publishing(s) \/ InvokeDone(s)
                 \/ Incoming(s) \/ Callback(s) \/ CallbackStores(s) \/ CallbackPushes(s)
                 \/ SendEnds(s) \/ RecvBegin(s) \/ RecvExpires(s)
                 \/ RecvTakes(s) /\ UNCHANGED callVars
<1>1. CASE Client \/ ClientCloses
  BY <1>1, PeerType, TopicsType DEF Client, NewClientConn, InvokeStarts, InvokeSent,
    InvokeReturns, ClientClosing, ClientCloses, Subscription, Starting
<1>2. CASE Server \/ Ignore \/ HandlerPanics
  <2>1. CASE SendAck
    BY <2>1, PeerType, MessagesType DEF SendAck, Publishing, MaySend, ServerGoes
  <2>2. CASE RunHandler
    BY <2>2, PeerType DEF RunHandler, SendAcked
  <2>3. CASE CallbackReturns
    BY <2>3, PeerType DEF CallbackReturns, InvokeDone, Inv, InCallback
  <2>4. CASE NewServerConn \/ CloseServerConn \/ ServerClosing \/ HandlerPanics
    BY <2>4, PeerType, TopicsType DEF NewServerConn, CloseServerConn, ServerClosing,
      HandlerPanics, Subscription
  <2>5. CASE Ignore
    BY <2>5, PeerType DEF Ignore, InvokeDone
  <2> QED
    BY <1>2, <2>1, <2>2, <2>3, <2>4, <2>5 DEF Server
<1>3. CASE AckExpires \/ \E s \in Sides : SendStep(s) \/ SendDeadline(s)
  BY <1>3, PeerType DEF AckExpires, SendStep, SendDeadline, SendAcked, SendExpires
<1>4. CASE HandlerReturns
  BY <1>4, PeerType, MessagesType DEF HandlerReturns, HandlerIdle, Publishing, MaySend
<1>5. ASSUME NEW s \in Sides, Send(s)
      PROVE  Publishing(s)
  <2>1. \A m \in {NewDataMessage(d) : d \in Payloads} \cup {NewCloseMessage} :
           m \in Messages /\ m.type # "INVOKE"
    BY MessagesType
  <2>2. MaySend(s)
    BY <1>5, PeerType DEF Send, InUse, MaySend, callVars
  <2> QED
    BY <1>5, <2>1, <2>2 DEF Send, Publishing
<1>6. CASE \E s \in Sides : Recv(s) \/ RecvStep(s) \/ RecvDeadline(s)
  BY <1>6 DEF Recv, RecvStep, RecvDeadline
<1>7. CASE \E s \in Sides : Router(s) \/ Network(s)
  BY <1>7 DEF Router, Network
<1>8. CASE UNCHANGED vars
  BY <1>8 DEF vars
<1> QED
  BY <1>1, <1>2, <1>3, <1>4, <1>5, <1>6, <1>7, <1>8 DEF Next, Untimed

\* What Publish leaves on the way.
LEMMA PublishDoes ==
    ASSUME TypeOK, NEW s \in Sides, NEW m \in Messages, Publish(s, m),
           NEW p, p = [kind |-> "publish", topic |-> TopicOf(s, m), msg |-> m]
    PROVE  /\ issued' = [issued EXCEPT ![s] = @ + 1]
           /\ inb' \in [Sides -> Seq(Packets)]
           /\ inb'[s] = Append(inb[s], Ack)
           /\ \/ /\ p.topic \in subs /\ inb'[Peer(s)] = Append(inb[Peer(s)], p)
                 /\ UNCHANGED lost
              \/ /\ p.topic \notin subs /\ inb'[Peer(s)] = inb[Peer(s)]
                 /\ lost' = [lost EXCEPT ![s] = TRUE]
           /\ UNCHANGED <<subs, routes, acked>>
<1>1. inb \in [Sides -> Seq(Packets)] /\ Peer(s) \in Sides /\ Peer(s) # s
  BY PeerType DEF TypeOK
<1>2. p \in Packets /\ Ack \in Packets
  BY PackType, PacketsType
<1>3. /\ Append(inb[s], Ack) \in Seq(Packets)
      /\ Append(inb[Peer(s)], p) \in Seq(Packets)
  BY <1>1, <1>2, AppendProperties
<1>4. CASE p.topic \in subs
  <2>1. inb' = [inb EXCEPT ![s] = Append(inb[s], Ack),
                           ![Peer(s)] = Append(inb[Peer(s)], p)] /\ UNCHANGED lost
    BY <1>1, <1>4 DEF Publish
  <2> QED
    BY <1>1, <1>3, <1>4, <2>1 DEF Publish, Acknowledge
<1>5. CASE p.topic \notin subs
  <2>1. inb' = [inb EXCEPT ![s] = Append(inb[s], Ack)] /\ lost' = [lost EXCEPT ![s] = TRUE]
    BY <1>5 DEF Publish
  <2> QED
    BY <1>1, <1>3, <1>5, <2>1 DEF Publish, Acknowledge
<1> QED
  BY <1>4, <1>5

LEMMA SubscriptionDoes ==
    ASSUME TypeOK, NEW s \in Sides, Subscription(s)
    PROVE  /\ issued' = [issued EXCEPT ![s] = @ + 1]
           /\ inb' \in [Sides -> Seq(Packets)]
           /\ inb' = [inb EXCEPT ![s] = Append(inb[s], Ack)]
           /\ UNCHANGED <<acked, lost, routerVars, userVars>>
           /\ subs' \subseteq Topics /\ routes' \subseteq Topics
<1>1. inb \in [Sides -> Seq(Packets)]
  BY DEF TypeOK
<1>2. Append(inb[s], Ack) \in Seq(Packets)
  BY <1>1, PacketsType, AppendProperties
<1>3. /\ issued' = [issued EXCEPT ![s] = @ + 1]
      /\ inb' = [inb EXCEPT ![s] = Append(inb[s], Ack)]
      /\ UNCHANGED <<acked, lost, routerVars, userVars>>
  BY DEF Subscription, Subscribe, Unsubscribe, Acknowledge
<1>4. subs' \subseteq Topics /\ routes' \subseteq Topics
  BY DEF Subscription, Subscribe, Unsubscribe, TypeOK
<1> QED
  BY <1>1, <1>2, <1>3, <1>4

\* A packet of s is counted and its acknowledgement is on the way.
LEMMA Noted ==
    ASSUME TypeOK, Inv, NEW s \in Sides,
           issued' = [issued EXCEPT ![s] = @ + 1], UNCHANGED acked,
           inb' \in [Sides -> Seq(Packets)],
           inb'[s] = Append(inb[s], Ack),
           Len(Picked(inb'[Peer(s)], Acks)) = Len(Picked(inb[Peer(s)], Acks))
    PROVE  /\ issued' \in [Sides -> Nat] /\ AcksDue'
           /\ \A t \in Sides : issued[t] <= issued'[t]
           /\ issued'[s] = issued[s] + 1
<1>1. /\ inb \in [Sides -> Seq(Packets)] /\ issued \in [Sides -> Nat]
      /\ acked \in [Sides -> Nat]
  BY DEF TypeOK
<1>2. Len(Picked(inb'[s], Acks)) = Len(Picked(inb[s], Acks)) + 1
  BY <1>1, AcksAppend, PacketsType
<1>3. \A t \in Sides : Len(Picked(inb[t], Acks)) \in Nat
  BY <1>1, AcksAppend, PacketsType
<1>4. \A t \in Sides : acked[t] + Len(Picked(inb[t], Acks)) = issued[t]
  BY DEF Inv, AcksDue, AcksComing
<1>5. issued'[s] = issued[s] + 1 /\ \A t \in Sides : t # s => issued'[t] = issued[t]
  BY <1>1
<1>6. ASSUME NEW t \in Sides
      PROVE  acked[t] + Len(Picked(inb'[t], Acks)) = issued'[t]
  <2> DEFINE a == acked[s]
             c == Len(Picked(inb[s], Acks))
  <2>1. CASE t = s
    <3>1. a \in Nat /\ c \in Nat /\ a + c = issued[s] /\ issued[s] \in Nat
      BY <1>1, <1>3, <1>4
    <3>2. Len(Picked(inb'[s], Acks)) = c + 1
      BY <1>2
    <3> HIDE DEF a, c
    <3>3. a + (c + 1) = issued[s] + 1
      BY <3>1
    <3>4. a + Len(Picked(inb'[s], Acks)) = issued[s] + 1
      BY <3>2, <3>3
    <3> QED
      BY <1>5, <2>1, <3>4 DEF a
  <2>2. CASE t # s
    <3>1. t = Peer(s)
      BY <2>2, PeerType
    <3> QED
      BY <1>4, <1>5, <2>2, <3>1
  <2> QED
    BY <2>1, <2>2
<1>7. AcksDue'
  BY <1>6 DEF AcksDue, AcksComing
<1> QED
  BY <1>1, <1>5, <1>7

\* The packets and their acknowledgements.
LEMMA NetStep ==
    ASSUME TypeOK, Inv, [Next]_vars
    PROVE  /\ inb' \in [Sides -> Seq(Packets)]
           /\ subs' \subseteq Topics /\ routes' \subseteq Topics
           /\ issued' \in [Sides -> Nat] /\ acked' \in [Sides -> Nat]
           /\ lost' \in [Sides -> BOOLEAN]
           /\ \A t \in Sides : issued[t] <= issued'[t]
           /\ AcksDue'
<1> DEFINE Goal ==
           /\ inb' \in [Sides -> Seq(Packets)]
           /\ subs' \subseteq Topics /\ routes' \subseteq Topics
           /\ issued' \in [Sides -> Nat] /\ acked' \in [Sides -> Nat]
           /\ lost' \in [Sides -> BOOLEAN]
           /\ \A t \in Sides : issued[t] <= issued'[t]
           /\ AcksDue'
<1>1. /\ inb \in [Sides -> Seq(Packets)] /\ subs \subseteq Topics /\ routes \subseteq Topics
      /\ issued \in [Sides -> Nat] /\ acked \in [Sides -> Nat]
      /\ lost \in [Sides -> BOOLEAN] /\ AcksDue
      /\ \A t \in Sides : Peer(t) \in Sides /\ Peer(t) # t
  BY PeerType DEF TypeOK, Inv
<1>2. ASSUME UNCHANGED <<inb, subs, routes, issued, acked>>,
             UNCHANGED lost \/ \E s \in Sides : lost' = [lost EXCEPT ![s] = TRUE]
      PROVE  Goal
  <2>1. AcksDue'
    BY <1>1, <1>2 DEF AcksDue, AcksComing
  <2>2. lost' \in [Sides -> BOOLEAN]
    BY <1>1, <1>2
  <2>3. \A t \in Sides : issued[t] <= issued'[t]
    BY <1>1, <1>2
  <2> QED
    BY <1>1, <1>2, <2>1, <2>2, <2>3
<1>3. ASSUME NEW s \in Sides, Subscription(s)
      PROVE  Goal
  <2>1. inb'[s] = Append(inb[s], Ack) /\ inb'[Peer(s)] = inb[Peer(s)]
    BY <1>1, <1>3, SubscriptionDoes
  <2> QED
    BY <1>1, <1>3, <2>1, SubscriptionDoes, Noted
<1>4. ASSUME NEW s \in Sides, NEW m \in Messages, Publish(s, m)
      PROVE  Goal
  <2> DEFINE p == [kind |-> "publish", topic |-> TopicOf(s, m), msg |-> m]
  <2>1. p \in Packets /\ p \notin Acks
    BY PackType
  <2>2. /\ issued' = [issued EXCEPT ![s] = @ + 1] /\ inb' \in [Sides -> Seq(Packets)]
        /\ inb'[s] = Append(inb[s], Ack)
        /\ inb'[Peer(s)] = Append(inb[Peer(s)], p) \/ inb'[Peer(s)] = inb[Peer(s)]
        /\ UNCHANGED lost \/ lost' = [lost EXCEPT ![s] = TRUE]
        /\ UNCHANGED <<subs, routes, acked>>
    BY <1>4, PublishDoes
  <2> HIDE DEF p
  <2>3. Len(Picked(inb'[Peer(s)], Acks)) = Len(Picked(inb[Peer(s)], Acks))
    BY <1>1, <2>1, <2>2, AcksAppend
  <2>4. issued' \in [Sides -> Nat] /\ AcksDue' /\ \A t \in Sides : issued[t] <= issued'[t]
    BY <2>2, <2>3, Noted
  <2> QED
    BY <1>1, <2>2, <2>4
<1>5. ASSUME NEW s \in Sides, Incoming(s)
      PROVE  Goal
  <2> DEFINE q == inb[s]
  <2>1. q \in Seq(Packets) /\ q # <<>> /\ inb' = [inb EXCEPT ![s] = Tail(q)]
    BY <1>1, <1>5 DEF Incoming
  <2>2. Tail(q) \in Seq(Packets) /\ Head(q) \in Packets
    BY <2>1, AcksTail
  <2>3. inb' \in [Sides -> Seq(Packets)] /\ inb'[s] = Tail(q)
        /\ \A t \in Sides : t # s => inb'[t] = inb[t]
    BY <1>1, <2>1, <2>2
  <2>4. \/ Head(q) \in Acks /\ acked' = [acked EXCEPT ![s] = @ + 1]
        \/ Head(q) \notin Acks /\ UNCHANGED acked
    BY <1>5, <2>2, PacketsType DEF Incoming
  <2>5. UNCHANGED <<subs, routes, issued, lost>>
    BY <1>5 DEF Incoming
  <2>6. acked' \in [Sides -> Nat] /\ \A t \in Sides : t # s => acked'[t] = acked[t]
    <3>1. acked \in [Sides -> Nat]
      BY <1>1
    <3>2. ASSUME acked' = [acked EXCEPT ![s] = @ + 1]
          PROVE  acked' \in [Sides -> Nat] /\ \A t \in Sides : t # s => acked'[t] = acked[t]
      BY <3>1, <3>2
    <3> QED
      BY <2>4, <3>1, <3>2
  <2>7. acked'[s] + Len(Picked(inb'[s], Acks)) = issued[s]
    <3> DEFINE a == acked[s]
               c == Len(Picked(q, Acks))
               d == Len(Picked(Tail(q), Acks))
    <3>1. a \in Nat /\ c \in Nat /\ d \in Nat /\ a + c = issued[s]
      BY <1>1, <2>1, AcksTail DEF AcksDue, AcksComing
    <3>2. CASE Head(q) \in Acks
      <4>1. c = d + 1 /\ acked'[s] = a + 1
        BY <1>1, <2>1, <2>4, <3>2, AcksTail
      <4> HIDE DEF a, c, d
      <4>2. (a + 1) + d = issued[s]
        BY <3>1, <4>1
      <4> QED
        BY <2>3, <4>1, <4>2 DEF d
    <3>3. CASE Head(q) \notin Acks
      <4>1. c = d /\ acked'[s] = a
        BY <1>1, <2>1, <2>4, <3>3, AcksTail
      <4> QED
        BY <2>3, <3>1, <4>1
    <3> QED
      BY <3>2, <3>3
  <2>8. AcksDue'
    <3>1. \A t \in Sides : acked'[t] + Len(Picked(inb'[t], Acks)) = issued[t]
      BY <1>1, <2>3, <2>6, <2>7 DEF AcksDue, AcksComing
    <3> QED
      BY <2>5, <3>1 DEF AcksDue, AcksComing
  <2> QED
    BY <1>1, <2>3, <2>5, <2>6, <2>8
<1>6. ASSUME NEW s \in Sides, Publishing(s)
      PROVE  Goal
  <2>1. PICK m \in Messages : BeginSend(s, m)
    BY <1>6 DEF Publishing
  <2>2. UNCHANGED netVars \/ Publish(s, m)
    BY <2>1 DEF BeginSend
  <2> QED
    BY <1>2, <1>4, <2>2 DEF netVars
<1>7. ASSUME NEW s \in Sides, Callback(s)
      PROVE  Goal
  BY <1>1, <1>2, <1>7 DEF Callback
<1>8. ASSUME NEW s \in Sides,
             \/ InvokeDone(s) \/ CallbackStores(s) \/ CallbackPushes(s)
             \/ SendEnds(s) \/ RecvBegin(s) \/ RecvTakes(s) \/ RecvExpires(s)
      PROVE  UNCHANGED netVars
  BY <1>8 DEF InvokeDone, CallbackStores, CallbackPushes, SendEnds, RecvBegin,
    RecvTakes, RecvExpires
<1>9. \A s \in Sides : Starting(s) => Publish(s, Invocation)
  BY DEF Starting
<1> HIDE DEF Goal
<1>10. UNCHANGED netVars => Goal
  BY <1>2 DEF netVars
<1> QED
  BY <1>3, <1>4, <1>5, <1>6, <1>7, <1>8, <1>9, <1>10, Steps, MessagesType DEF Goal

LEMMA SndStep ==
    ASSUME TypeOK, Inv, [Next]_vars
    PROVE  snd' \in [Sides -> Nat] /\ \A t \in Sides : snd'[t] <= issued'[t]
<1>1. /\ snd \in [Sides -> Nat] /\ issued \in [Sides -> Nat]
      /\ issued' \in [Sides -> Nat]
      /\ \A t \in Sides : snd[t] <= issued[t] /\ issued[t] <= issued'[t]
  BY NetStep DEF TypeOK
<1>2. ASSUME UNCHANGED snd
      PROVE  snd' \in [Sides -> Nat] /\ \A t \in Sides : snd'[t] <= issued'[t]
  BY <1>1, <1>2
<1>3. ASSUME NEW s \in Sides, NEW n \in Nat, snd' = [snd EXCEPT ![s] = n],
             n <= issued'[s]
      PROVE  snd' \in [Sides -> Nat] /\ \A t \in Sides : snd'[t] <= issued'[t]
  BY <1>1, <1>3
<1>4. ASSUME NEW s \in Sides, Publishing(s)
      PROVE  snd' \in [Sides -> Nat] /\ \A t \in Sides : snd'[t] <= issued'[t]
  <2>1. PICK m \in Messages : BeginSend(s, m)
    BY <1>4 DEF Publishing
  <2>2. \/ UNCHANGED snd
        \/ Publish(s, m) /\ snd' = [snd EXCEPT ![s] = issued[s] + 1]
    BY <2>1 DEF BeginSend
  <2>3. Publish(s, m) => issued'[s] = issued[s] + 1
    BY <1>1 DEF Publish, Acknowledge
  <2> QED
    BY <1>1, <1>2, <1>3, <2>2, <2>3
<1>5. ASSUME NEW s \in Sides, SendEnds(s)
      PROVE  snd' \in [Sides -> Nat] /\ \A t \in Sides : snd'[t] <= issued'[t]
  <2>1. snd' = [snd EXCEPT ![s] = 0]
    BY <1>5 DEF SendEnds
  <2> QED
    BY <1>1, <1>3, <2>1
<1>6. ASSUME NEW s \in Sides,
             \/ Subscription(s) \/ Starting(s) \/ InvokeDone(s) \/ Incoming(s)
             \/ Callback(s) \/ CallbackStores(s) \/ CallbackPushes(s)
             \/ RecvBegin(s) \/ RecvTakes(s) \/ RecvExpires(s)
      PROVE  UNCHANGED snd
  BY <1>6 DEF Subscription, Starting, InvokeDone, Incoming, Callback, CallbackStores,
    CallbackPushes, RecvBegin, RecvTakes, RecvExpires, userVars
<1>7. UNCHANGED userVars => UNCHANGED snd
  BY DEF userVars
<1> QED
  BY <1>2, <1>4, <1>5, <1>6, <1>7, Steps

\* The router, its callbacks and the channels.
LEMMA RouterStep ==
    ASSUME TypeOK, Inv, [Next]_vars
    PROVE  /\ rtr' \in [Sides -> Seq(Packets)]
           /\ cb' \in [Sides -> {"idle", "invoke", "store", "push"}]
           /\ \A s \in Sides : cb'[s] # "idle" => rtr'[s] # <<>>
           /\ \A s \in Sides : Len(rtr'[s]) <= RouterAhead + 1 /\ Len(buf'[s]) <= 1
           /\ buf' \in [Sides -> Seq(Messages)] /\ err' \in [Sides -> BOOLEAN]
<1> DEFINE CbStates == {"idle", "invoke", "store", "push"}
           Callbacks ==
              /\ rtr' \in [Sides -> Seq(Packets)]
              /\ cb' \in [Sides -> CbStates]
              /\ \A t \in Sides : cb'[t] # "idle" => rtr'[t] # <<>>
              /\ \A t \in Sides : Len(rtr'[t]) <= RouterAhead + 1
           Channels ==
              /\ \A t \in Sides : Len(buf'[t]) <= 1
              /\ buf' \in [Sides -> Seq(Messages)] /\ err' \in [Sides -> BOOLEAN]
<1>1. /\ rtr \in [Sides -> Seq(Packets)] /\ cb \in [Sides -> CbStates]
      /\ \A t \in Sides : cb[t] # "idle" => rtr[t] # <<>>
      /\ \A t \in Sides : Len(rtr[t]) <= RouterAhead + 1 /\ Len(buf[t]) <= 1
      /\ buf \in [Sides -> Seq(Messages)] /\ err \in [Sides -> BOOLEAN]
      /\ inb \in [Sides -> Seq(Packets)] /\ RouterAhead \in Nat
  BY RouterAssumption DEF TypeOK
<1>2. UNCHANGED <<rtr, cb>> => Callbacks
  BY <1>1
<1>3. UNCHANGED <<buf, err>> => Channels
  BY <1>1
<1>4. ASSUME NEW s \in Sides, NEW c \in CbStates,
             UNCHANGED rtr, cb' = [cb EXCEPT ![s] = c], rtr[s] # <<>>
      PROVE  Callbacks
  BY <1>1, <1>4
<1>5. ASSUME NEW s \in Sides, rtr[s] # <<>>,
             rtr' = [rtr EXCEPT ![s] = Tail(@)], cb' = [cb EXCEPT ![s] = "idle"]
      PROVE  Callbacks
  <2>1. Tail(rtr[s]) \in Seq(Packets) /\ Len(Tail(rtr[s])) <= RouterAhead + 1
    BY <1>1, <1>5
  <2> QED
    BY <1>1, <1>5, <2>1
<1>6. ASSUME NEW s \in Sides, Incoming(s)
      PROVE  Callbacks /\ Channels
  <2>1. inb[s] # <<>> /\ UNCHANGED <<cb, buf, err>>
    BY <1>6 DEF Incoming
  <2>2. Head(inb[s]) \in Packets
    BY <1>1, <2>1
  <2>3. \/ UNCHANGED rtr
        \/ /\ Len(rtr[s]) <= RouterAhead
           /\ rtr' = [rtr EXCEPT ![s] = Append(rtr[s], Head(inb[s]))]
    BY <1>6 DEF Incoming
  <2> DEFINE q == Append(rtr[s], Head(inb[s]))
  <2>4. /\ q \in Seq(Packets) /\ q # <<>>
        /\ Len(rtr[s]) <= RouterAhead => Len(q) <= RouterAhead + 1
    <3>1. rtr[s] \in Seq(Packets) /\ Len(rtr[s]) \in Nat
      BY <1>1
    <3>2. q \in Seq(Packets) /\ q # <<>> /\ Len(q) = Len(rtr[s]) + 1
      BY <2>2, <3>1, AppendProperties
    <3> HIDE DEF q
    <3>3. \A n \in Nat : n <= RouterAhead => n + 1 <= RouterAhead + 1
      BY <1>1
    <3> QED
      BY <3>1, <3>2, <3>3
  <2> HIDE DEF q
  <2>5. CASE rtr' = [rtr EXCEPT ![s] = q] /\ Len(rtr[s]) <= RouterAhead
    BY <1>1, <2>1, <2>4, <2>5
  <2> QED
    BY <1>2, <1>3, <2>1, <2>3, <2>5 DEF q
<1>7. ASSUME NEW s \in Sides, Callback(s)
      PROVE  Callbacks /\ Channels
  <2>1. /\ rtr[s] # <<>> /\ cb[s] = "idle" /\ UNCHANGED <<buf, err>>
    BY <1>7 DEF Callback
  <2>2. \/ rtr' = [rtr EXCEPT ![s] = Tail(@)] /\ UNCHANGED cb
        \/ /\ UNCHANGED rtr
           /\ \/ cb' = [cb EXCEPT ![s] = "invoke"] \/ cb' = [cb EXCEPT ![s] = "store"]
              \/ cb' = [cb EXCEPT ![s] = "push"]
    BY <1>7 DEF Callback
  <2>3. UNCHANGED cb => cb' = [cb EXCEPT ![s] = "idle"]
    BY <1>1, <2>1
  <2> HIDE DEF Callbacks, Channels
  <2> QED
    BY <1>3, <1>4, <1>5, <2>1, <2>2, <2>3
<1>8. ASSUME NEW s \in Sides, InvokeDone(s)
      PROVE  Callbacks /\ Channels
  <2>1. /\ rtr' = [rtr EXCEPT ![s] = Tail(@)] /\ cb' = [cb EXCEPT ![s] = "idle"]
        /\ UNCHANGED <<buf, err>> /\ cb[s] = "invoke"
    BY <1>8 DEF InvokeDone, CallbackDone
  <2>2. rtr[s] # <<>>
    BY <1>1, <2>1
  <2> QED
    BY <1>3, <1>5, <2>1, <2>2
<1>9. ASSUME NEW s \in Sides, CallbackStores(s)
      PROVE  Callbacks /\ Channels
  <2>1. /\ cb[s] = "store" /\ err' = [err EXCEPT ![s] = TRUE]
        /\ cb' = [cb EXCEPT ![s] = "push"] /\ UNCHANGED <<rtr, buf>>
    BY <1>9 DEF CallbackStores
  <2>2. rtr[s] # <<>>
    BY <1>1, <2>1
  <2>3. Channels
    BY <1>1, <2>1
  <2> QED
    BY <1>4, <2>1, <2>2, <2>3
<1>10. ASSUME NEW s \in Sides, CallbackPushes(s)
       PROVE  Callbacks /\ Channels
  <2>1. /\ cb[s] = "push" /\ buf' = [buf EXCEPT ![s] = <<Head(rtr[s]).msg>>]
        /\ rtr' = [rtr EXCEPT ![s] = Tail(@)] /\ cb' = [cb EXCEPT ![s] = "idle"]
        /\ UNCHANGED err
    BY <1>10 DEF CallbackPushes, CallbackDone
  <2>2. rtr[s] # <<>>
    BY <1>1, <2>1
  <2>3. Head(rtr[s]).msg \in Messages
    BY <1>1, <2>2, PacketsType, HeadTailProperties
  <2>4. <<Head(rtr[s]).msg>> \in Seq(Messages) /\ Len(<<Head(rtr[s]).msg>>) = 1
    BY <2>3
  <2>5. Channels
    BY <1>1, <2>1, <2>4
  <2> QED
    BY <1>5, <2>1, <2>2, <2>5
<1>11. ASSUME NEW s \in Sides, RecvTakes(s)
       PROVE  Callbacks /\ Channels
  <2>1. buf' = [buf EXCEPT ![s] = <<>>] /\ UNCHANGED <<rtr, cb, err>>
    BY <1>11 DEF RecvTakes
  <2>2. <<>> \in Seq(Messages) /\ Len(<<>>) = 0
    OBVIOUS
  <2>3. Channels
    BY <1>1, <2>1, <2>2
  <2> QED
    BY <1>2, <2>1, <2>3
<1>12. UNCHANGED routerVars => Callbacks /\ Channels
  BY <1>2, <1>3 DEF routerVars
<1>13. ASSUME NEW s \in Sides,
              \/ Subscription(s) \/ Starting(s) \/ Publishing(s) \/ SendEnds(s)
              \/ RecvBegin(s) \/ RecvExpires(s)
       PROVE  UNCHANGED routerVars
  BY <1>13 DEF Subscription, Starting, Publishing, SendEnds, RecvBegin, RecvExpires
<1> HIDE DEF Callbacks, Channels
<1>14. Callbacks /\ Channels
  BY <1>6, <1>7, <1>8, <1>9, <1>10, <1>11, <1>12, <1>13, Steps
<1> QED
  BY <1>14 DEF Callbacks, Channels

\* What the users of the call have sent and received.
LEMMA UserStep ==
    ASSUME TypeOK, Inv, [Next]_vars
    PROVE  /\ sent' \in [Sides -> Seq(Messages)] /\ taken' \in [Sides -> Seq(Messages)]
           /\ rcv' \in [Sides -> {"idle", "wait"}] /\ ret' \in [Sides -> RecvResults]
<1> DEFINE Goal ==
              /\ sent' \in [Sides -> Seq(Messages)] /\ taken' \in [Sides -> Seq(Messages)]
              /\ rcv' \in [Sides -> {"idle", "wait"}] /\ ret' \in [Sides -> RecvResults]
<1>1. /\ sent \in [Sides -> Seq(Messages)] /\ taken \in [Sides -> Seq(Messages)]
      /\ rcv \in [Sides -> {"idle", "wait"}] /\ ret \in [Sides -> RecvResults]
      /\ buf \in [Sides -> Seq(Messages)]
  BY DEF TypeOK
<1>2. UNCHANGED <<sent, rcv, ret, taken>> => Goal
  BY <1>1
<1>3. ASSUME NEW s \in Sides, Publishing(s)
      PROVE  Goal
  <2>1. PICK m \in Messages : BeginSend(s, m)
    BY <1>3 DEF Publishing
  <2>2. UNCHANGED <<rcv, ret, taken>>
    BY <1>3 DEF Publishing
  <2>3. UNCHANGED sent \/ sent' = [sent EXCEPT ![s] = Append(sent[s], m)]
    BY <2>1 DEF BeginSend
  <2>4. Append(sent[s], m) \in Seq(Messages)
    BY <1>1
  <2>5. sent' \in [Sides -> Seq(Messages)]
    BY <1>1, <2>3, <2>4
  <2> QED
    BY <1>1, <2>2, <2>5
<1>4. ASSUME NEW s \in Sides, RecvTakes(s)
      PROVE  Goal
  <2> DEFINE m == Head(buf[s])
  <2>1. /\ buf[s] # <<>> /\ rcv' = [rcv EXCEPT ![s] = "idle"] /\ UNCHANGED sent
        /\ ret' = [ret EXCEPT ![s] = Interpret(m)]
        /\ taken' = [taken EXCEPT ![s] = Append(taken[s], m)]
    BY <1>4 DEF RecvTakes
  <2>2. m \in Messages
    BY <1>1, <2>1, HeadTailProperties
  <2>3. Append(taken[s], m) \in Seq(Messages)
    BY <1>1, <2>2
  <2>4. Interpret(m) \in RecvResults
    BY DEF Interpret, RecvResults
  <2> HIDE DEF m
  <2> QED
    BY <1>1, <2>1, <2>3, <2>4
<1>5. ASSUME NEW s \in Sides, RecvBegin(s) \/ RecvExpires(s)
      PROVE  Goal
  <2>1. /\ UNCHANGED <<sent, taken>>
        /\ \/ UNCHANGED ret \/ ret' = [ret EXCEPT ![s] = "error"]
           \/ ret' = [ret EXCEPT ![s] = "none"]
        /\ \/ UNCHANGED rcv \/ rcv' = [rcv EXCEPT ![s] = "wait"]
           \/ rcv' = [rcv EXCEPT ![s] = "idle"]
    BY <1>5 DEF RecvBegin, RecvExpires
  <2> QED
    BY <1>1, <2>1 DEF RecvResults
<1>6. ASSUME NEW s \in Sides,
             \/ Subscription(s) \/ Starting(s) \/ InvokeDone(s) \/ Incoming(s)
             \/ Callback(s) \/ CallbackStores(s) \/ CallbackPushes(s) \/ SendEnds(s)
      PROVE  UNCHANGED <<sent, rcv, ret, taken>>
  BY <1>6 DEF Subscription, Starting, InvokeDone, Incoming, Callback, CallbackStores,
    CallbackPushes, SendEnds, userVars
<1>7. UNCHANGED userVars => UNCHANGED <<sent, rcv, ret, taken>>
  BY DEF userVars
<1> HIDE DEF Goal
<1>8. Goal
  BY <1>2, <1>3, <1>4, <1>5, <1>6, <1>7, Steps
<1> QED
  BY <1>8 DEF Goal

\* Where Invoke, Close and the goroutine of the server are.
LEMMA PlaceStep ==
    ASSUME TypeOK, Inv, [Next]_vars
    PROVE  /\ cl' \in ClientStates /\ srv' \in ServerStates
           /\ hres' \in {"none", "nil", "error", "panic"}
<1>1. /\ cl \in ClientStates /\ srv \in ServerStates
      /\ hres \in {"none", "nil", "error", "panic"}
  BY DEF TypeOK
<1>2. CASE Client \/ ClientCloses
  BY <1>1, <1>2 DEF Client, NewClientConn, InvokeStarts, InvokeSent, InvokeReturns,
    ClientClosing, ClientCloses, ClientGoes, ClientStates
<1>3. CASE Server \/ HandlerPanics \/ HandlerReturns \/ AckExpires
  BY <1>1, <1>3 DEF Server, NewServerConn, CallbackReturns, SendAck, RunHandler,
    CloseServerConn, ServerClosing, HandlerPanics, HandlerReturns, AckExpires,
    ServerGoes, ServerStates
<1>4. CASE Ignore \/ \E s \in Sides : \/ Send(s) \/ Recv(s) \/ Router(s) \/ Network(s)
                                      \/ RecvStep(s) \/ SendStep(s)
                                      \/ SendDeadline(s) \/ RecvDeadline(s)
  BY <1>1, <1>4 DEF Ignore, Send, Recv, Router, Network, RecvStep, SendStep,
    SendDeadline, RecvDeadline, callVars
<1>5. CASE UNCHANGED vars
  BY <1>1, <1>5 DEF vars, callVars
<1> QED
  BY <1>2, <1>3, <1>4, <1>5 DEF Next, Untimed

LEMMA TypeStep == TypeOK /\ Inv /\ [Next]_vars => TypeOK'
<1> SUFFICES ASSUME TypeOK, Inv, [Next]_vars PROVE TypeOK'
  OBVIOUS
<1>1. \A s \in Sides : acked'[s] <= issued'[s]
  <2> TAKE s \in Sides
  <2> DEFINE a == acked'[s]
             c == Len(Picked(inb'[s], Acks))
  <2>1. inb'[s] \in Seq(Packets) /\ a \in Nat /\ a + c = issued'[s]
    BY NetStep DEF AcksDue, AcksComing
  <2>2. c \in Nat
    BY <2>1, AcksAppend, PacketsType
  <2> HIDE DEF a, c
  <2>3. a <= issued'[s]
    BY <2>1, <2>2
  <2> QED
    BY <2>3 DEF a
<1> QED
  BY <1>1, NetStep, SndStep, RouterStep, UserStep, PlaceStep DEF TypeOK

LEMMA TypeInit == Init => TypeOK
<1> SUFFICES ASSUME Init PROVE TypeOK
  OBVIOUS
<1>1. /\ <<>> \in Seq(Messages) /\ <<>> \in Seq(Packets) /\ Len(<<>>) = 0
      /\ RouterAhead + 1 \in Nat /\ 0 <= RouterAhead + 1
  BY RouterAssumption
<1>2. /\ inb \in [Sides -> Seq(Packets)] /\ rtr \in [Sides -> Seq(Packets)]
      /\ buf \in [Sides -> Seq(Messages)] /\ sent \in [Sides -> Seq(Messages)]
      /\ taken \in [Sides -> Seq(Messages)]
      /\ \A s \in Sides : rtr[s] = <<>> /\ buf[s] = <<>>
  BY <1>1 DEF Init, ConnInit, Both
<1>3. /\ issued \in [Sides -> Nat] /\ acked \in [Sides -> Nat] /\ snd \in [Sides -> Nat]
      /\ \A s \in Sides : acked[s] <= issued[s] /\ snd[s] <= issued[s]
  BY DEF Init, ConnInit, Both
<1>4. /\ lost \in [Sides -> BOOLEAN] /\ err \in [Sides -> BOOLEAN]
      /\ cb \in [Sides -> {"idle", "invoke", "store", "push"}]
      /\ \A s \in Sides : cb[s] = "idle"
      /\ rcv \in [Sides -> {"idle", "wait"}] /\ ret \in [Sides -> RecvResults]
  BY DEF Init, ConnInit, Both, RecvResults
<1>5. /\ cl \in ClientStates /\ srv \in ServerStates
      /\ hres \in {"none", "nil", "error", "panic"}
      /\ subs \subseteq Topics /\ routes \subseteq Topics
  BY TopicsType DEF Init, ConnInit, ClientStates, ServerStates
<1>6. \A s \in Sides : Len(rtr[s]) <= RouterAhead + 1 /\ Len(buf[s]) <= 1
  BY <1>1, <1>2
<1> QED
  BY <1>2, <1>3, <1>4, <1>5, <1>6 DEF TypeOK

-----------------------------------------------------------------------------
(* The parts of the invariant.                                             *)

LEMMA SubscribedStep ==
    ASSUME TypeOK, Inv, [Next]_vars
    PROVE  Subscribed'
<1> USE DEF Subscribed
<1>1. /\ Subscribed /\ cl \in ClientStates /\ srv \in ServerStates
      /\ cl \in {"init", "subControl", "subData"} => srv = "none"
  BY DEF Inv, TypeOK, Handshake
<1>2. /\ Control("client") # CallTopic /\ Data("client") # CallTopic
      /\ Control("server") # CallTopic /\ Data("server") # CallTopic
      /\ Control("client") # Data("client") /\ Control("client") # Data("server")
      /\ Control("server") # Data("client") /\ Control("server") # Data("server")
      /\ Control("client") # Control("server") /\ Data("client") # Data("server")
  BY TopicsType, PeerType
<1>3. CASE NewClientConn
  BY <1>1, <1>2, <1>3 DEF NewClientConn, Subscribe, ClientGoes
<1>4. CASE ClientCloses
  BY <1>1, <1>2, <1>4 DEF ClientCloses, Unsubscribe, ClientGoes
<1>5. CASE ClientClosing
  BY <1>1, <1>2, <1>5 DEF ClientClosing, Unsubscribe, ClientGoes, netVars
<1>6. CASE InvokeStarts \/ InvokeSent \/ InvokeReturns
  BY <1>1, <1>6 DEF InvokeStarts, InvokeSent, InvokeReturns, ClientGoes, Publish,
    RecvBegin, netVars
<1>7. CASE NewServerConn
  BY <1>1, <1>2, <1>7 DEF NewServerConn, Subscribe, ServerGoes
<1>8. CASE CloseServerConn \/ HandlerPanics
  BY <1>1, <1>2, <1>8 DEF CloseServerConn, HandlerPanics, HandlerIdle, Unsubscribe,
    ServerGoes
<1>9. CASE ServerClosing
  BY <1>1, <1>2, <1>9 DEF ServerClosing, Unsubscribe, ServerGoes, netVars
<1>10. CASE SendAck \/ HandlerReturns
  <2>1. UNCHANGED <<subs, routes, cl>>
    BY <1>10 DEF SendAck, HandlerReturns, BeginSend, Publish, netVars, ServerGoes
  <2>2. (srv = "start" /\ srv' = "ack") \/ (srv = "handler" /\ srv' = "final")
    BY <1>10 DEF SendAck, HandlerReturns, HandlerIdle, ServerGoes
  <2> QED
    BY <1>1, <2>1, <2>2
<1>11. CASE CallbackReturns \/ RunHandler \/ AckExpires
  BY <1>1, <1>11 DEF CallbackReturns, RunHandler, AckExpires, SendAcked,
    SendExpires, SendEnds, ServerGoes, netVars
<1>12. CASE Ignore \/ \E s \in Sides : \/ Send(s) \/ Recv(s) \/ Router(s) \/ Network(s)
                                       \/ RecvStep(s) \/ SendStep(s)
                                       \/ SendDeadline(s) \/ RecvDeadline(s)
  <2>1. UNCHANGED <<cl, srv>>
    BY <1>12 DEF Ignore, Send, Recv, Router, Network, RecvStep, SendStep,
      SendDeadline, RecvDeadline, callVars
  <2>2. UNCHANGED <<subs, routes>>
    <3>1. ASSUME NEW s \in Sides, Send(s) PROVE UNCHANGED <<subs, routes>>
      BY <3>1 DEF Send, BeginSend, Publish, netVars
    <3>2. ASSUME NEW s \in Sides, Router(s) \/ Network(s) PROVE UNCHANGED <<subs, routes>>
      BY <3>2 DEF Router, Network, Callback, CallbackStores, CallbackPushes,
        Incoming, netVars
    <3>3. ASSUME NEW s \in Sides,
                 Recv(s) \/ RecvStep(s) \/ SendStep(s) \/ SendDeadline(s) \/ RecvDeadline(s)
          PROVE  UNCHANGED <<subs, routes>>
      BY <3>3 DEF Recv, RecvStep, SendStep, SendDeadline, RecvDeadline, RecvBegin,
        RecvTakes, SendAcked, SendExpires, SendEnds, RecvExpires, netVars
    <3>4. CASE Ignore
      BY <3>4 DEF Ignore, netVars
    <3> QED
      BY <1>12, <3>1, <3>2, <3>3, <3>4
  <2> QED
    BY <1>1, <2>1, <2>2
<1>13. CASE UNCHANGED vars
  BY <1>1, <1>13 DEF vars, callVars, netVars
<1> QED
  BY <1>3, <1>4, <1>5, <1>6, <1>7, <1>8, <1>9, <1>10, <1>11, <1>12, <1>13
    DEF Next, Untimed, Client, Server

LEMMA AddressedStep ==
    ASSUME TypeOK, Inv, [Next]_vars
    PROVE  Addressed'
<1> DEFINE In(t) == inb[t] \in Seq(Meant(t) \cup Acks)
           Out(t) == rtr[t] \in Seq(Meant(t))
           Goal == \A t \in Sides : In(t)' /\ Out(t)'
<1>1. /\ inb \in [Sides -> Seq(Packets)] /\ rtr \in [Sides -> Seq(Packets)]
      /\ \A t \in Sides : In(t) /\ Out(t)
  BY DEF TypeOK, Inv, Addressed
<1>2. UNCHANGED <<inb, rtr>> => Goal
  BY <1>1
<1>3. \A t \in Sides : Append(inb[t], Ack) \in Seq(Meant(t) \cup Acks)
  BY <1>1, PacketsType
<1>4. ASSUME NEW s \in Sides, Subscription(s)
      PROVE  Goal
  BY <1>1, <1>3, <1>4, SubscriptionDoes DEF routerVars
<1>5. ASSUME NEW s \in Sides, NEW m \in Messages, Publish(s, m), UNCHANGED rtr,
             m.type # "INVOKE" \/ s = "client"
      PROVE  Goal
  <2> DEFINE p == [kind |-> "publish", topic |-> TopicOf(s, m), msg |-> m]
  <2>1. p \in Meant(Peer(s))
    BY <1>5, PackType
  <2>2. /\ inb'[s] = Append(inb[s], Ack)
        /\ inb'[Peer(s)] = Append(inb[Peer(s)], p) \/ inb'[Peer(s)] = inb[Peer(s)]
    BY <1>5, PublishDoes
  <2> HIDE DEF p
  <2>3. Peer(s) \in Sides /\ \A t \in Sides : t = s \/ t = Peer(s)
    BY PeerType
  <2>4. In(Peer(s))'
    <3>1. Append(inb[Peer(s)], p) \in Seq(Meant(Peer(s)) \cup Acks)
      BY <1>1, <2>1, <2>3, AppendProperties
    <3> QED
      BY <1>1, <2>2, <2>3, <3>1
  <2>5. In(s)'
    BY <1>3, <2>2
  <2> QED
    BY <1>1, <1>5, <2>3, <2>4, <2>5
<1>6. ASSUME NEW s \in Sides, Incoming(s)
      PROVE  Goal
  <2>1. /\ inb[s] # <<>> /\ inb' = [inb EXCEPT ![s] = Tail(@)]
        /\ \/ UNCHANGED rtr
           \/ /\ Head(inb[s]).kind = "publish"
              /\ rtr' = [rtr EXCEPT ![s] = Append(@, Head(inb[s]))]
    BY <1>6 DEF Incoming
  <2>2. /\ Head(inb[s]) \in Meant(s) \cup Acks
        /\ Tail(inb[s]) \in Seq(Meant(s) \cup Acks)
    BY <1>1, <2>1, HeadTailProperties
  <2>3. Head(inb[s]).kind = "publish" => Head(inb[s]) \in Meant(s)
    BY <2>2 DEF Acks
  <2>4. Head(inb[s]).kind = "publish" => Append(rtr[s], Head(inb[s])) \in Seq(Meant(s))
    BY <1>1, <2>3, AppendProperties
  <2> QED
    BY <1>1, <2>1, <2>2, <2>4
<1>7. ASSUME NEW s \in Sides, UNCHANGED inb, rtr[s] # <<>>,
             UNCHANGED rtr \/ rtr' = [rtr EXCEPT ![s] = Tail(@)]
      PROVE  Goal
  <2>1. Tail(rtr[s]) \in Seq(Meant(s))
    BY <1>1, <1>7, HeadTailProperties
  <2> QED
    BY <1>1, <1>7, <2>1
<1>8. ASSUME NEW s \in Sides, InvokeDone(s) \/ Callback(s) \/ CallbackPushes(s)
      PROVE  Goal
  <2>1. /\ UNCHANGED inb
        /\ UNCHANGED rtr \/ rtr' = [rtr EXCEPT ![s] = Tail(@)]
        /\ rtr[s] # <<>> \/ cb[s] # "idle"
    BY <1>8 DEF InvokeDone, Callback, CallbackPushes, CallbackDone, netVars
  <2>2. rtr[s] # <<>>
    BY <2>1 DEF TypeOK
  <2> QED
    BY <1>7, <2>1, <2>2
<1>9. ASSUME NEW s \in Sides, Publishing(s)
      PROVE  Goal
  <2>1. PICK m \in Messages : m.type # "INVOKE" /\ BeginSend(s, m) /\ UNCHANGED rtr
    BY <1>9 DEF Publishing, routerVars
  <2>2. UNCHANGED inb \/ Publish(s, m)
    BY <2>1 DEF BeginSend, netVars
  <2> QED
    BY <1>2, <1>5, <2>1, <2>2
<1>10. ASSUME NEW s \in Sides, Starting(s)
       PROVE  Goal
  BY <1>5, <1>10, MessagesType DEF Starting, routerVars
<1>11. ASSUME NEW s \in Sides,
              \/ CallbackStores(s) \/ SendEnds(s) \/ RecvBegin(s) \/ RecvTakes(s)
              \/ RecvExpires(s)
       PROVE  UNCHANGED <<inb, rtr>>
  BY <1>11 DEF CallbackStores, SendEnds, RecvBegin, RecvTakes, RecvExpires,
    netVars, routerVars
<1>12. UNCHANGED <<netVars, routerVars, userVars>> => UNCHANGED <<inb, rtr>>
  BY DEF netVars, routerVars
<1> HIDE DEF Goal
<1>13. Goal
  BY <1>2, <1>4, <1>6, <1>8, <1>9, <1>10, <1>11, <1>12, Steps
<1> QED
  BY <1>13 DEF Goal, Addressed

LEMMA InCallbackStep ==
    ASSUME TypeOK, Inv, [Next]_vars
    PROVE  InCallback'
<1> DEFINE At(t) == cb[t] # "idle" => (cb[t] = "invoke" <=> Head(rtr[t]).topic = CallTopic)
<1>1. /\ \A t \in Sides : At(t)
      /\ rtr \in [Sides -> Seq(Packets)]
      /\ cb \in [Sides -> {"idle", "invoke", "store", "push"}]
      /\ \A t \in Sides : cb[t] # "idle" => rtr[t] # <<>>
      /\ inb \in [Sides -> Seq(Packets)]
  BY DEF TypeOK, Inv, InCallback
<1>2. \A t \in Sides : At(t)'
  <2>1. ASSUME NEW s \in Sides, Incoming(s), NEW t \in Sides
        PROVE  At(t)'
    <3>1. /\ UNCHANGED cb
          /\ UNCHANGED rtr \/ rtr' = [rtr EXCEPT ![s] = Append(@, Head(inb[s]))]
      BY <2>1 DEF Incoming
    <3>2. rtr[t] # <<>> => Head(Append(rtr[t], Head(inb[s]))) = Head(rtr[t])
      BY <1>1, HeadTailAppend
    <3> QED
      BY <1>1, <3>1, <3>2
  <2>2. ASSUME NEW s \in Sides, Callback(s), NEW t \in Sides
        PROVE  At(t)'
    <3>1. /\ cb[s] = "idle"
          /\ \A u \in Sides : u # s => rtr'[u] = rtr[u]
          /\ \/ UNCHANGED cb
             \/ /\ UNCHANGED rtr
                /\ cb' = [cb EXCEPT ![s] =
                             IF Head(rtr[s]).topic = CallTopic THEN "invoke"
                             ELSE IF IsError(Head(rtr[s]).msg) THEN "store" ELSE "push"]
      BY <1>1, <2>2 DEF Callback
    <3> QED
      BY <1>1, <3>1
  <2>3. ASSUME NEW s \in Sides, InvokeDone(s) \/ CallbackPushes(s), NEW t \in Sides
        PROVE  At(t)'
    <3>1. rtr' = [rtr EXCEPT ![s] = Tail(@)] /\ cb' = [cb EXCEPT ![s] = "idle"]
      BY <2>3 DEF InvokeDone, CallbackPushes, CallbackDone
    <3> QED
      BY <1>1, <3>1
  <2>4. ASSUME NEW s \in Sides, CallbackStores(s), NEW t \in Sides
        PROVE  At(t)'
    <3>1. cb[s] = "store" /\ cb' = [cb EXCEPT ![s] = "push"] /\ UNCHANGED rtr
      BY <2>4 DEF CallbackStores
    <3> QED
      BY <1>1, <3>1
  <2>5. ASSUME NEW s \in Sides,
               \/ Subscription(s) \/ Starting(s) \/ Publishing(s) \/ SendEnds(s)
               \/ RecvBegin(s) \/ RecvTakes(s) \/ RecvExpires(s)
        PROVE  UNCHANGED <<rtr, cb>>
    BY <2>5 DEF Subscription, Starting, Publishing, SendEnds, RecvBegin, RecvTakes,
      RecvExpires, routerVars
  <2>6. UNCHANGED <<netVars, routerVars, userVars>> => UNCHANGED <<rtr, cb>>
    BY DEF routerVars
  <2>7. UNCHANGED <<rtr, cb>> => \A t \in Sides : At(t)'
    BY <1>1
  <2> HIDE DEF At
  <2> QED
    BY <2>1, <2>2, <2>3, <2>4, <2>5, <2>6, <2>7, Steps
<1>3. (srv \in {"subControl", "subData"} => cb["server"] = "invoke")'
  <2> DEFINE Serving == srv \in {"subControl", "subData"} => cb["server"] = "invoke"
  <2>1. Serving
    BY DEF Inv, InCallback
  <2>2. CASE Client \/ ClientCloses
    BY <2>1, <2>2 DEF Client, NewClientConn, InvokeStarts, InvokeSent, InvokeReturns,
      ClientClosing, ClientCloses, ClientGoes, RecvBegin, routerVars
  <2>3. CASE Server \/ HandlerPanics \/ HandlerReturns \/ AckExpires
    BY <2>1, <2>3 DEF Server, NewServerConn, CallbackReturns, SendAck, RunHandler,
      CloseServerConn, ServerClosing, HandlerPanics, HandlerReturns, AckExpires,
      ServerGoes, routerVars
  <2>4. CASE Ignore
    BY <2>1, <2>4 DEF Ignore, callVars
  <2>5. ASSUME NEW s \in Sides,
               Send(s) \/ Recv(s) \/ RecvStep(s) \/ SendStep(s) \/ SendDeadline(s)
               \/ RecvDeadline(s) \/ Network(s)
        PROVE  UNCHANGED <<srv, cb>>
    BY <2>5 DEF Send, Recv, RecvStep, SendStep, SendDeadline, RecvDeadline,
      Network, Incoming, RecvBegin, RecvTakes, RecvExpires, SendAcked, SendExpires,
      SendEnds, callVars, routerVars
  <2>6. ASSUME NEW s \in Sides, Router(s)
        PROVE  UNCHANGED srv /\ cb[s] # "invoke"
               /\ \A t \in Sides : t # s => cb'[t] = cb[t]
    BY <1>1, <2>6 DEF Router, Callback, CallbackStores, CallbackPushes,
      CallbackDone, callVars
  <2>7. CASE UNCHANGED vars
    BY <2>1, <2>7 DEF vars, callVars, routerVars
  <2> QED
    BY <2>1, <2>2, <2>3, <2>4, <2>5, <2>6, <2>7, PeerType DEF Next, Untimed
<1> QED
  BY <1>2, <1>3 DEF InCallback

LEMMA ReceiversStep ==
    ASSUME TypeOK, Inv, [Next]_vars
    PROVE  Receivers'
<1>1. Receivers /\ rcv \in [Sides -> {"idle", "wait"}]
  BY DEF Inv, TypeOK
<1>2. CASE Client \/ ClientCloses
  BY <1>1, <1>2, PeerType DEF Receivers, Client, NewClientConn, InvokeStarts,
    InvokeSent, InvokeReturns, ClientClosing, ClientCloses, ClientGoes, RecvBegin,
    userVars
<1>3. CASE Server \/ HandlerPanics \/ HandlerReturns \/ AckExpires \/ Ignore
  BY <1>1, <1>3, PeerType DEF Receivers, Server, NewServerConn, CallbackReturns,
    SendAck, RunHandler, CloseServerConn, ServerClosing, HandlerPanics,
    HandlerReturns, AckExpires, Ignore, HandlerIdle, SendAcked, SendExpires,
    SendEnds, ServerGoes, userVars, callVars
<1>4. ASSUME NEW s \in Sides, Recv(s)
      PROVE  Receivers'
  BY <1>1, <1>4, PeerType DEF Receivers, Recv, InUse, RecvBegin, callVars
<1>5. ASSUME NEW s \in Sides, RecvStep(s) \/ RecvDeadline(s)
      PROVE  Receivers'
  BY <1>1, <1>5, PeerType DEF Receivers, RecvStep, RecvDeadline, RecvTakes,
    RecvExpires, callVars
<1>6. ASSUME NEW s \in Sides,
             Send(s) \/ SendStep(s) \/ SendDeadline(s) \/ Network(s) \/ Router(s)
      PROVE  UNCHANGED <<cl, srv, rcv>>
  BY <1>6 DEF Send, SendStep, SendDeadline, Network, Router, Incoming, Callback,
    CallbackStores, CallbackPushes, SendAcked, SendExpires, SendEnds, callVars,
    userVars
<1>7. CASE UNCHANGED vars
  BY <1>1, <1>7 DEF Receivers, vars, callVars, userVars
<1> QED
  BY <1>1, <1>2, <1>3, <1>4, <1>5, <1>6, <1>7 DEF Next, Untimed, Receivers

-----------------------------------------------------------------------------
(* The flow of the messages.                                               *)

LEMMA Associative ==
    ASSUME NEW x \in Seq(Messages), NEW y \in Seq(Messages), NEW z \in Seq(Messages)
    PROVE  (x \o y) \o z = x \o (y \o z)
BY ConcatAssociative

\* Two queues in a row: how they grow, and how they pass a message on.
LEMMA QueueFacts ==
    ASSUME NEW c \in Seq(Messages), NEW d \in Seq(Messages), NEW m \in Messages
    PROVE  /\ c \o d \in Seq(Messages)
           /\ c \o Append(d, m) = Append(c \o d, m)
           /\ Append(c, m) \o d = c \o (<<m>> \o d)
           /\ (<<m>> \o c) \o d = <<m>> \o (c \o d)
           /\ c \o d = <<>> => c = <<>> /\ d = <<>>
<1>0. (<<m>> \o c) \o d = <<m>> \o (c \o d)
  <2>1. <<m>> \in Seq(Messages)
    OBVIOUS
  <2> QED
    BY <2>1, Associative
<1> DEFINE n == <<m>>
           e == c \o d
<1>1. n \in Seq(Messages) /\ e \in Seq(Messages)
  BY ConcatProperties
<1>2. /\ Append(d, m) = d \o n /\ Append(c, m) = c \o n
      /\ Append(e, m) = e \o n
  BY <1>1, AppendIsConcat
<1>3. e = <<>> => c = <<>> /\ d = <<>>
  BY ConcatEqualIffEmpty
<1> HIDE DEF n
<1>4. (c \o d) \o n = c \o (d \o n)
  BY <1>1, Associative
<1>5. (c \o n) \o d = c \o (n \o d)
  BY <1>1, Associative
<1>6. c \o Append(d, m) = Append(e, m)
  BY <1>2, <1>4
<1>7. Append(c, m) \o d = c \o (n \o d)
  BY <1>2, <1>5
<1> QED
  BY <1>0, <1>1, <1>3, <1>6, <1>7 DEF n

LEMMA TransitParts ==
    ASSUME NEW a \in Seq(Messages), NEW b \in Seq(Messages), NEW e \in Seq(Messages),
           NEW q, q = (a \o b) \o e
    PROVE  /\ q \in Seq(Messages) /\ Len(a) \in 0 .. Len(q) /\ a = SubSeq(q, 1, Len(a))
           /\ q = <<>> => b = <<>> /\ e = <<>>
           /\ b # <<>> => Len(a) + 1 \in 1 .. Len(q) /\ q[Len(a) + 1] = Head(b)
<1> DEFINE r == b \o e
<1>1. r \in Seq(Messages)
  BY ConcatProperties
<1>2. (a \o b) \o e = a \o r
  BY Associative
<1> HIDE DEF r
<1>3. q = a \o r /\ q \in Seq(Messages)
  BY <1>1, <1>2, ConcatProperties
<1>4. /\ Len(q) = Len(a) + Len(r) /\ Len(a) \in Nat /\ Len(r) \in Nat
      /\ \A i \in 1 .. Len(a) + Len(r) : q[i] = IF i <= Len(a) THEN a[i] ELSE r[i - Len(a)]
  BY <1>1, <1>3, ConcatProperties, LenProperties
<1>5. Len(a) \in 0 .. Len(q)
  BY <1>4
<1>6. a = SubSeq(q, 1, Len(a))
  <2>1. /\ SubSeq(q, 1, Len(a)) \in Seq(Messages) /\ Len(SubSeq(q, 1, Len(a))) = Len(a)
        /\ \A i \in 1 .. Len(a) : SubSeq(q, 1, Len(a))[i] = q[i]
    BY <1>3, <1>5
  <2>2. \A i \in 1 .. Len(a) : q[i] = a[i]
    BY <1>4
  <2> QED
    BY <2>1, <2>2, SeqEqual
<1>7. q = <<>> => b = <<>> /\ e = <<>>
  <2>1. r = <<>> => b = <<>> /\ e = <<>>
    BY ConcatEqualIffEmpty DEF r
  <2>2. q = <<>> => r = <<>>
    <3>1. \A k, n \in Nat : k + n = 0 => n = 0
      OBVIOUS
    <3>2. q = <<>> => Len(q) = 0
      OBVIOUS
    <3>3. q = <<>> => Len(r) = 0
      BY <1>4, <3>1, <3>2
    <3> QED
      BY <1>1, <3>3, EmptySeq
  <2> QED
    BY <2>1, <2>2
<1>8. ASSUME b # <<>>
      PROVE  Len(a) + 1 \in 1 .. Len(q) /\ q[Len(a) + 1] = Head(b)
  <2>1. /\ Len(r) = Len(b) + Len(e) /\ Len(e) \in Nat
        /\ Len(b) \in Nat \ {0} /\ Head(b) = b[1]
        /\ \A i \in 1 .. Len(b) + Len(e) :
              r[i] = IF i <= Len(b) THEN b[i] ELSE e[i - Len(b)]
    BY <1>8, ConcatProperties, LenProperties, EmptySeq DEF r
  <2>2. r[1] = Head(b) /\ Len(r) >= 1
    BY <2>1
  <2>3. \A k, n \in Nat : n >= 1 => /\ k + 1 \in 1 .. k + n /\ ~(k + 1 <= k)
                                    /\ (k + 1) - k = 1
    OBVIOUS
  <2>4. /\ Len(a) + 1 \in 1 .. Len(a) + Len(r) /\ ~(Len(a) + 1 <= Len(a))
        /\ (Len(a) + 1) - Len(a) = 1
    BY <1>4, <2>2, <2>3
  <2>5. q[Len(a) + 1] = r[(Len(a) + 1) - Len(a)]
    BY <1>4, <2>4
  <2> QED
    BY <1>4, <2>2, <2>4, <2>5
<1> QED
  BY <1>3, <1>5, <1>6, <1>7, <1>8

LEMMA FlowTypes ==
    ASSUME TypeOK, NEW t \in Sides
    PROVE  /\ taken[t] \in Seq(Messages) /\ buf[t] \in Seq(Messages)
           /\ rtr[t] \in Seq(Packets) /\ inb[t] \in Seq(Packets)
           /\ Carried(rtr[t]) \in Seq(Messages) /\ Carried(inb[t]) \in Seq(Messages)
           /\ Coming(t) \in Seq(Messages)
           /\ sent[Peer(t)] \in Seq(Messages) /\ Peer(t) \in Sides
           /\ lost[Peer(t)] \in BOOLEAN
<1>1. Carried(rtr[t]) \in Seq(Messages) /\ Carried(inb[t]) \in Seq(Messages)
  BY CarriedIs DEF TypeOK
<1>2. Coming(t) \in Seq(Messages)
  BY <1>1, ConcatProperties DEF Coming
<1> QED
  BY <1>1, <1>2, PeerType DEF TypeOK

\* Before the server has the ACK on its way nothing is on its way.
LEMMA NothingYet ==
    ASSUME TypeOK, Inv, srv \in {"none", "subControl", "subData", "start"}, NEW t \in Sides,
           Receiving(t)
    PROVE  buf[t] = <<>> /\ Carried(rtr[t]) = <<>> /\ Carried(inb[t]) = <<>>
<1>1. sent[Peer(t)] = <<>> /\ Transit(t) = sent[Peer(t)]
  BY PeerType DEF Inv, Handshake, Flow, Both
<1>2. buf[t] = <<>> /\ Coming(t) = <<>>
  BY <1>1, FlowTypes, TransitParts DEF Transit
<1> QED
  BY <1>2, FlowTypes, ConcatEqualIffEmpty DEF Coming

LEMMA HandshakeStep ==
    ASSUME TypeOK, Inv, [Next]_vars
    PROVE  Handshake'
<1> DEFINE Young == {"init", "subControl", "subData"}
           Early == {"none", "subControl", "subData", "start"}
           ClientFirst == cl \in Young =>
                             srv = "none" /\ inb["server"] = <<>> /\ rtr["server"] = <<>>
           ServerFirst == srv \in Early =>
                             sent = Both(<<>>) /\ cl # "open" /\ ret["client"] # "ack"
<1>1. ClientFirst /\ ServerFirst
  BY DEF Inv, Handshake
<1>2. ClientFirst'
  <2> SUFFICES ASSUME cl' \in Young
               PROVE  (srv = "none" /\ inb["server"] = <<>> /\ rtr["server"] = <<>>)'
    OBVIOUS
  <2>1. cl \in Young
    BY DEF Next, Untimed, Client, NewClientConn, InvokeStarts, InvokeSent,
      InvokeReturns, ClientClosing, ClientCloses, ClientGoes, Server,
      NewServerConn, CallbackReturns, SendAck, RunHandler, CloseServerConn,
      ServerClosing, HandlerPanics, HandlerReturns, AckExpires, Ignore, ServerGoes,
      Send, Recv, Router, Network, RecvStep, SendStep, SendDeadline, RecvDeadline,
      callVars, vars
  <2>2. /\ srv = "none" /\ inb["server"] = <<>> /\ rtr["server"] = <<>>
        /\ cb["server"] = "idle"
    BY <1>1, <2>1, PeerType DEF TypeOK
  <2>3. CASE NewClientConn
    <3>1. UNCHANGED <<srv, rtr>> /\ \E q : inb' = [inb EXCEPT !["client"] = q]
      BY <2>3 DEF NewClientConn, Subscribe, ClientGoes, routerVars
    <3> QED
      BY <2>2, <3>1, PeerType DEF TypeOK
  <2>4. ~(InvokeStarts \/ InvokeSent \/ InvokeReturns \/ ClientClosing \/ ClientCloses)
    BY <2>1 DEF InvokeStarts, InvokeSent, InvokeReturns, ClientClosing,
      ClientCloses, ClientGoes
  <2>5. ~(Server \/ Ignore \/ HandlerPanics \/ HandlerReturns \/ AckExpires)
    BY <2>2 DEF Server, NewServerConn, CallbackReturns, SendAck, RunHandler,
      CloseServerConn, ServerClosing, HandlerPanics, HandlerReturns, HandlerIdle,
      AckExpires, Ignore
  <2>6. ASSUME NEW s \in Sides, \/ Recv(s) \/ RecvStep(s) \/ RecvDeadline(s)
                                \/ SendStep(s) \/ SendDeadline(s)
        PROVE  UNCHANGED <<srv, inb, rtr>>
    BY <2>6 DEF Recv, RecvStep, SendStep, SendDeadline, RecvDeadline, RecvBegin,
      RecvTakes, RecvExpires, SendAcked, SendExpires, SendEnds, callVars, netVars,
      routerVars
  <2>7. ASSUME NEW s \in Sides, Send(s)
        PROVE  FALSE
    BY <2>1, <2>2, <2>7 DEF Send, InUse
  <2>8. ASSUME NEW s \in Sides, Router(s) \/ Network(s)
        PROVE  UNCHANGED srv /\ inb'["server"] = <<>> /\ rtr'["server"] = <<>>
    <3>1. s # "server"
      BY <2>2, <2>8 DEF Router, Network, Callback, CallbackStores, CallbackPushes,
        Incoming
    <3>2. /\ UNCHANGED inb \/ \E q : inb' = [inb EXCEPT ![s] = q]
          /\ UNCHANGED rtr \/ \E q : rtr' = [rtr EXCEPT ![s] = q]
          /\ UNCHANGED srv
      BY <2>8 DEF Router, Network, Callback, CallbackStores, CallbackPushes,
        CallbackDone, Incoming, netVars, callVars
    <3>3. /\ inb \in [Sides -> Seq(Packets)] /\ rtr \in [Sides -> Seq(Packets)]
          /\ "server" \in Sides
      BY PeerType DEF TypeOK
    <3>4. inb'["server"] = inb["server"] /\ rtr'["server"] = rtr["server"]
      BY <3>1, <3>2, <3>3
    <3> QED
      BY <2>2, <3>2, <3>4
  <2>9. CASE UNCHANGED vars
    BY <2>2, <2>9 DEF vars, callVars, netVars, routerVars
  <2> QED
    BY <2>2, <2>3, <2>4, <2>5, <2>6, <2>7, <2>8, <2>9 DEF Next, Untimed, Client
<1>3. ServerFirst'
  <2> SUFFICES ASSUME srv' \in Early
               PROVE  (sent = Both(<<>>) /\ cl # "open" /\ ret["client"] # "ack")'
    OBVIOUS
  <2>1. srv \in Early
    BY DEF Next, Untimed, Client, NewClientConn, InvokeStarts, InvokeSent,
      InvokeReturns, ClientClosing, ClientCloses, ClientGoes, Server,
      NewServerConn, CallbackReturns, SendAck, RunHandler, CloseServerConn,
      ServerClosing, HandlerPanics, HandlerReturns, AckExpires, Ignore, ServerGoes,
      Send, Recv, Router, Network, RecvStep, SendStep, SendDeadline, RecvDeadline,
      callVars, vars
  <2>2. sent = Both(<<>>) /\ cl # "open" /\ ret["client"] # "ack"
    BY <1>1, <2>1
  <2>3. cl' # "open"
    BY <2>2 DEF Next, Untimed, Client, NewClientConn, InvokeStarts, InvokeSent,
      InvokeReturns, ClientClosing, ClientCloses, ClientGoes, Server,
      NewServerConn, CallbackReturns, SendAck, RunHandler, CloseServerConn,
      ServerClosing, HandlerPanics, HandlerReturns, AckExpires, Ignore, ServerGoes,
      Send, Recv, Router, Network, RecvStep, SendStep, SendDeadline, RecvDeadline,
      callVars, vars
  <2>4. ASSUME NEW s \in Sides, RecvTakes(s)
        PROVE  UNCHANGED sent /\ ret'["client"] # "ack"
    <3>1. UNCHANGED sent /\ \A t \in Sides : t # s => ret'[t] = ret[t]
      BY <2>4 DEF RecvTakes, TypeOK
    <3>2. s # "client"
      <4> SUFFICES ASSUME s = "client" PROVE FALSE
        OBVIOUS
      <4>1. cl \in {"ack", "open"} /\ buf[s] # <<>>
        BY <2>4 DEF RecvTakes, Inv, Receivers
      <4>2. Receiving(s)
        BY <4>1 DEF Receiving
      <4> QED
        BY <2>1, <4>1, <4>2, NothingYet
    <3> QED
      BY <2>2, <3>1, <3>2, PeerType
  <2>5. ASSUME NEW s \in Sides, Publishing(s)
        PROVE  FALSE
    BY <2>1, <2>2, <2>5 DEF Publishing, MaySend
  <2>6. ASSUME NEW s \in Sides, RecvBegin(s)
        PROVE  UNCHANGED sent /\ ret'["client"] # "ack"
    <3>1. /\ UNCHANGED sent
          /\ ret' = [ret EXCEPT ![s] = "error"] \/ ret' = [ret EXCEPT ![s] = "none"]
      BY <2>6 DEF RecvBegin
    <3>2. "client" \in Sides /\ ret \in [Sides -> RecvResults]
      BY PeerType DEF TypeOK
    <3>3. ret'["client"] \in {"error", "none", ret["client"]}
      BY <3>1, <3>2
    <3> QED
      BY <2>2, <3>1, <3>3
  <2>7. ASSUME NEW s \in Sides,
               \/ Subscription(s) \/ Starting(s) \/ InvokeDone(s) \/ Incoming(s)
               \/ Callback(s) \/ CallbackStores(s) \/ CallbackPushes(s) \/ SendEnds(s)
               \/ RecvExpires(s)
        PROVE  UNCHANGED <<sent, ret>>
    BY <2>7 DEF Subscription, Starting, InvokeDone, Incoming, Callback,
      CallbackStores, CallbackPushes, SendEnds, RecvExpires, userVars
  <2>8. UNCHANGED userVars => UNCHANGED <<sent, ret>>
    BY DEF userVars
  <2>9. sent' = Both(<<>>) /\ ret'["client"] # "ack"
    BY <2>2, <2>4, <2>5, <2>6, <2>7, <2>8, Steps
  <2> QED
    BY <2>3, <2>9 DEF Both
<1> QED
  BY <1>2, <1>3 DEF Handshake

\* An end that has stopped receiving has taken a prefix and takes no more.
LEMMA FlowEnds ==
    ASSUME TypeOK, Inv, [Next]_vars, NEW t \in Sides, ~Receiving(t)'
    PROVE  \E n \in 0 .. Len(sent'[Peer(t)]) : taken'[t] = SubSeq(sent'[Peer(t)], 1, n)
<1> DEFINE q == sent[Peer(t)]
<1>1. q \in Seq(Messages) /\ Peer(t) \in Sides
  BY FlowTypes
<1>2. \E n \in 0 .. Len(q) : taken[t] = SubSeq(q, 1, n)
  <2>1. CASE Receiving(t)
    <3> DEFINE a == taken[t]
               b == buf[t]
               e == Coming(t)
    <3>1. q = (a \o b) \o e
      BY <2>1 DEF Inv, Flow, Transit
    <3>2. a \in Seq(Messages) /\ b \in Seq(Messages) /\ e \in Seq(Messages)
      BY FlowTypes
    <3> HIDE DEF q, a, b, e
    <3>3. Len(a) \in 0 .. Len(q) /\ a = SubSeq(q, 1, Len(a))
      BY <3>1, <3>2, TransitParts
    <3>4. Len(taken[t]) \in 0 .. Len(q) /\ taken[t] = SubSeq(q, 1, Len(taken[t]))
      BY <3>3 DEF a
    <3> QED
      BY <3>4
  <2>2. CASE ~Receiving(t)
    BY <2>2 DEF Inv, Flow
  <2> QED
    BY <2>1, <2>2
<1>3. taken'[t] = taken[t]
  <2>1. ASSUME NEW s \in Sides, RecvTakes(s), UNCHANGED callVars
        PROVE  taken'[t] = taken[t]
    <3>1. rcv[s] = "wait" /\ \A u \in Sides : u # s => taken'[u] = taken[u]
      BY <2>1 DEF RecvTakes, TypeOK
    <3>2. Receiving(s)'
      BY <2>1, <3>1, PeerType DEF Receiving, Inv, Receivers, callVars
    <3> QED
      BY <3>1, <3>2
  <2>2. ASSUME NEW s \in Sides,
               \/ Subscription(s) \/ Starting(s) \/ Publishing(s) \/ InvokeDone(s)
               \/ Incoming(s) \/ Callback(s) \/ CallbackStores(s) \/ CallbackPushes(s)
               \/ SendEnds(s) \/ RecvBegin(s) \/ RecvExpires(s)
        PROVE  UNCHANGED taken
    BY <2>2 DEF Subscription, Starting, Publishing, InvokeDone, Incoming, Callback,
      CallbackStores, CallbackPushes, SendEnds, RecvBegin, RecvExpires, userVars
  <2>3. UNCHANGED userVars => UNCHANGED taken
    BY DEF userVars
  <2> QED
    BY <2>1, <2>2, <2>3, Steps
<1>4. sent'[Peer(t)] = q \/ \E m \in Messages : sent'[Peer(t)] = Append(q, m)
  <2>1. ASSUME NEW s \in Sides, Publishing(s)
        PROVE  sent'[Peer(t)] = q \/ \E m \in Messages : sent'[Peer(t)] = Append(q, m)
    <3>1. PICK m \in Messages : BeginSend(s, m)
      BY <2>1 DEF Publishing
    <3>2. UNCHANGED sent \/ sent' = [sent EXCEPT ![s] = Append(@, m)]
      BY <3>1 DEF BeginSend
    <3> QED
      BY <1>1, <3>2 DEF TypeOK
  <2>2. ASSUME NEW s \in Sides,
               \/ Subscription(s) \/ Starting(s) \/ InvokeDone(s) \/ Incoming(s)
               \/ Callback(s) \/ CallbackStores(s) \/ CallbackPushes(s) \/ SendEnds(s)
               \/ RecvBegin(s) \/ RecvTakes(s) \/ RecvExpires(s)
        PROVE  UNCHANGED sent
    BY <2>2 DEF Subscription, Starting, InvokeDone, Incoming, Callback,
      CallbackStores, CallbackPushes, SendEnds, RecvBegin, RecvTakes, RecvExpires,
      userVars
  <2>3. UNCHANGED userVars => UNCHANGED sent
    BY DEF userVars
  <2> QED
    BY <2>1, <2>2, <2>3, Steps
<1>5. PICK n \in 0 .. Len(q) : taken[t] = SubSeq(q, 1, n)
  BY <1>2
<1>6. ASSUME NEW m \in Messages
      PROVE  n \in 0 .. Len(Append(q, m)) /\ SubSeq(Append(q, m), 1, n) = SubSeq(q, 1, n)
  <2> HIDE DEF q
  <2>1. /\ Append(q, m) \in Seq(Messages) /\ Len(Append(q, m)) = Len(q) + 1
        /\ \A i \in 1 .. Len(q) : Append(q, m)[i] = q[i]
        /\ Len(q) \in Nat
    BY <1>1, AppendProperties
  <2>2. n \in 0 .. Len(Append(q, m)) /\ n \in Int
    BY <2>1
  <2>3. \A r \in Seq(Messages) : n \in 0 .. Len(r) =>
           /\ SubSeq(r, 1, n) \in Seq(Messages) /\ Len(SubSeq(r, 1, n)) = n
           /\ \A i \in 1 .. n : SubSeq(r, 1, n)[i] = r[i]
    OBVIOUS
  <2> DEFINE u == SubSeq(q, 1, n)
             v == SubSeq(Append(q, m), 1, n)
  <2>4. /\ u \in Seq(Messages) /\ v \in Seq(Messages) /\ Len(u) = n /\ Len(v) = n
        /\ \A i \in 1 .. n : u[i] = q[i] /\ v[i] = Append(q, m)[i]
    BY <1>1, <2>1, <2>2, <2>3
  <2> HIDE DEF u, v
  <2>5. \A i \in 1 .. n : i \in 1 .. Len(q)
    BY <2>1, <2>2
  <2>6. u = v
    BY <2>1, <2>4, <2>5, SeqEqual
  <2> QED
    BY <2>2, <2>6 DEF u, v
<1> QED
  BY <1>3, <1>4, <1>5, <1>6

-----------------------------------------------------------------------------
(* One step of the flow, for an end that receives before and after it.     *)

\* What is coming, as a function of the router and of the packets behind it,
\* and all that the end has seen or will see.
Ahead(r, i) == Carried(r) \o Carried(i)
Through(a, b, e) == (a \o b) \o e

LEMMA AheadFacts ==
    ASSUME NEW r \in Seq(Packets), NEW i \in Seq(Packets), NEW p \in Packets
    PROVE  /\ Ahead(r, i) \in Seq(Messages)
           /\ p \in Carriers => Ahead(r, Append(i, p)) = Append(Ahead(r, i), p.msg)
           /\ p \notin Carriers => Ahead(r, Append(i, p)) = Ahead(r, i)
<1>1. /\ Carried(r) \in Seq(Messages) /\ Carried(i) \in Seq(Messages)
      /\ p.msg \in Messages
  BY CarriedIs, PacketsType
<1>2. Ahead(r, i) \in Seq(Messages)
  BY <1>1, ConcatProperties DEF Ahead
<1>3. ASSUME p \in Carriers
      PROVE  Ahead(r, Append(i, p)) = Append(Ahead(r, i), p.msg)
  <2>1. Carried(Append(i, p)) = Append(Carried(i), p.msg)
    BY <1>3, CarriedAppend
  <2> DEFINE c == Carried(r)
             d == Carried(i)
             m == p.msg
  <2>2. c \in Seq(Messages) /\ d \in Seq(Messages) /\ m \in Messages
    BY <1>1
  <2> HIDE DEF c, d, m
  <2>3. c \o Append(d, m) = Append(c \o d, m)
    BY <2>2, QueueFacts
  <2> QED
    BY <2>1, <2>3 DEF Ahead, c, d, m
<1>4. p \notin Carriers => Carried(Append(i, p)) = Carried(i)
  BY CarriedAppend
<1> QED
  BY <1>2, <1>3, <1>4 DEF Ahead

\* The paho client reads the packet i begins with.
LEMMA AheadReads ==
    ASSUME NEW r \in Seq(Packets), NEW i \in Seq(Packets), i # <<>>
    PROVE  /\ Head(i) \notin Carriers => Ahead(r, Tail(i)) = Ahead(r, i)
           /\ Ahead(Append(r, Head(i)), Tail(i)) = Ahead(r, i)
<1> DEFINE p == Head(i)
           j == Tail(i)
<1>1. p \in Packets /\ j \in Seq(Packets) /\ p.msg \in Messages
  BY HeadTailProperties, PacketsType
<1>2. Carried(r) \in Seq(Messages) /\ Carried(j) \in Seq(Messages)
  BY <1>1, CarriedIs
<1>3. Carried(i) = IF p \in Carriers THEN <<p.msg>> \o Carried(j) ELSE Carried(j)
  BY CarriedTail
<1>4. Carried(Append(r, p)) = IF p \in Carriers THEN Append(Carried(r), p.msg) ELSE Carried(r)
  BY <1>1, CarriedAppend
<1>5. ASSUME p \in Carriers
      PROVE  Ahead(Append(r, p), j) = Ahead(r, i)
  <2> DEFINE c == Carried(r)
             d == Carried(j)
             m == p.msg
  <2>1. /\ c \in Seq(Messages) /\ d \in Seq(Messages) /\ m \in Messages
        /\ Carried(i) = <<m>> \o d /\ Carried(Append(r, p)) = Append(c, m)
    BY <1>1, <1>2, <1>3, <1>4, <1>5
  <2> HIDE DEF c, d, m
  <2>2. Append(c, m) \o d = c \o (<<m>> \o d)
    BY <2>1, QueueFacts
  <2>3. Ahead(Append(r, p), j) = Append(c, m) \o d
    BY <2>1 DEF Ahead, d
  <2>4. Ahead(r, i) = c \o (<<m>> \o d)
    BY <2>1 DEF Ahead, c
  <2> QED
    BY <2>2, <2>3, <2>4
<1>6. ASSUME p \notin Carriers
      PROVE  /\ Ahead(Append(r, p), j) = Ahead(r, i)
             /\ Ahead(r, j) = Ahead(r, i)
  BY <1>3, <1>4, <1>6 DEF Ahead
<1> QED
  BY <1>5, <1>6

\* A callback is done with the message r begins with.
LEMMA AheadLeaves ==
    ASSUME NEW r \in Seq(Packets), NEW i \in Seq(Packets), r # <<>>
    PROVE  /\ Head(r) \notin Carriers => Ahead(Tail(r), i) = Ahead(r, i)
           /\ Head(r) \in Carriers => Ahead(r, i) = <<Head(r).msg>> \o Ahead(Tail(r), i)
<1> DEFINE p == Head(r)
           j == Tail(r)
<1>1. p \in Packets /\ j \in Seq(Packets) /\ p.msg \in Messages
  BY HeadTailProperties, PacketsType
<1>2. Carried(r) = IF p \in Carriers THEN <<p.msg>> \o Carried(j) ELSE Carried(j)
  BY CarriedTail
<1>3. ASSUME p \in Carriers
      PROVE  Ahead(r, i) = <<p.msg>> \o Ahead(j, i)
  <2> DEFINE c == Carried(j)
             d == Carried(i)
             m == p.msg
  <2>1. /\ c \in Seq(Messages) /\ d \in Seq(Messages) /\ m \in Messages
        /\ Carried(r) = <<m>> \o c
    BY <1>1, <1>2, <1>3, CarriedIs
  <2> HIDE DEF c, d, m
  <2>2. (<<m>> \o c) \o d = <<m>> \o (c \o d)
    BY <2>1, QueueFacts
  <2>3. Ahead(r, i) = (<<m>> \o c) \o d
    BY <2>1 DEF Ahead, d
  <2>4. Ahead(j, i) = c \o d
    BY DEF Ahead, c, d
  <2> QED
    BY <2>2, <2>3, <2>4 DEF m
<1>4. p \notin Carriers => Ahead(j, i) = Ahead(r, i)
  BY <1>2 DEF Ahead
<1> QED
  BY <1>3, <1>4

LEMMA ConcatAppend ==
    ASSUME NEW x \in Seq(Messages), NEW y \in Seq(Messages), NEW m \in Messages
    PROVE  x \o Append(y, m) = Append(x \o y, m)
BY QueueFacts

LEMMA ThroughGrows ==
    ASSUME NEW a \in Seq(Messages), NEW b \in Seq(Messages), NEW e \in Seq(Messages),
           NEW m \in Messages
    PROVE  Through(a, b, Append(e, m)) = Append(Through(a, b, e), m)
<1> DEFINE p == a \o b
<1>1. p \in Seq(Messages)
  BY ConcatProperties
<1> HIDE DEF p
<1>2. p \o Append(e, m) = Append(p \o e, m)
  BY <1>1, ConcatAppend
<1> QED
  BY <1>2 DEF Through, p

LEMMA ThroughFacts ==
    ASSUME NEW a \in Seq(Messages), NEW e \in Seq(Messages), NEW m \in Messages
    PROVE  /\ Through(a, <<m>>, e) = Through(a, <<>>, <<m>> \o e)
           /\ Through(Append(a, m), <<>>, e) = Through(a, <<m>>, e)
<1> DEFINE n == <<m>>
           f == n \o e
<1>1. n \in Seq(Messages) /\ f \in Seq(Messages) /\ Append(a, m) \in Seq(Messages)
  BY ConcatProperties, AppendProperties
<1>2. Append(a, m) = a \o n
  BY AppendIsConcat
<1>3. a \o <<>> = a /\ Append(a, m) \o <<>> = Append(a, m)
  BY <1>1, ConcatEmptySeq
<1> HIDE DEF n
<1>4. (a \o n) \o e = a \o f
  BY <1>1, Associative
<1> HIDE DEF f
<1>5. Through(a, n, e) = Through(a, <<>>, f)
  BY <1>3, <1>4 DEF Through
<1>6. Through(Append(a, m), <<>>, e) = Through(a, n, e)
  BY <1>2, <1>3 DEF Through
<1> QED
  BY <1>5, <1>6 DEF n, f

LEMMA TransitIs ==
    ASSUME NEW t \in Sides
    PROVE  /\ Transit(t) = Through(taken[t], buf[t], Ahead(rtr[t], inb[t]))
           /\ Transit(t)' = Through(taken'[t], buf'[t], Ahead(rtr'[t], inb'[t]))
BY DEF Transit, Coming, Through, Ahead

\* Nothing of what an end has received, or will, changes in the step.
Kept(t) ==
    /\ Ahead(rtr'[t], inb'[t]) = Ahead(rtr[t], inb[t])
    /\ taken'[t] = taken[t] /\ buf'[t] = buf[t]
    /\ sent'[Peer(t)] = sent[Peer(t)] /\ lost'[Peer(t)] = lost[Peer(t)]

Flows(t) == Transit(t)' = sent'[Peer(t)] /\ ~lost'[Peer(t)]

LEMMA KeptFlows ==
    ASSUME TypeOK, Inv, NEW t \in Sides, Receiving(t), Kept(t)
    PROVE  Flows(t)
BY TransitIs DEF Inv, Flow, Kept, Flows

\* An end that has begun to unsubscribe does not subscribe again.
LEMMA ReceivedBefore ==
    ASSUME TypeOK, Inv, [Next]_vars, NEW t \in Sides, Receiving(t)'
    PROVE  Receiving(t)
BY DEF Next, Untimed, Client, NewClientConn, InvokeStarts, InvokeSent,
  InvokeReturns, ClientClosing, ClientCloses, ClientGoes, Server, NewServerConn,
  CallbackReturns, SendAck, RunHandler, CloseServerConn, ServerClosing,
  HandlerPanics, HandlerReturns, AckExpires, Ignore, ServerGoes, HandlerIdle, Send,
  Recv, Router, Network, RecvStep, SendStep, SendDeadline, RecvDeadline, callVars,
  vars, Receiving

\* Whoever publishes a message of the call has a peer that is subscribed, unless
\* that one has begun to unsubscribe.
LEMMA PeerSubscribed ==
    ASSUME TypeOK, Inv, NEW s \in Sides, MaySend(s), Receiving(Peer(s))
    PROVE  Control(s) \in subs /\ Data(s) \in subs
<1>1. CASE s = "client"
  <2>1. srv \notin {"none", "subControl", "subData", "start"}
    BY <1>1 DEF MaySend, Inv, Handshake
  <2>2. srv \notin {"unsubControl", "unsubData", "done"}
    BY <1>1, PeerType DEF Receiving
  <2> QED
    BY <1>1, <2>1, <2>2 DEF Inv, Subscribed
<1>2. CASE s = "server"
  <2>1. cl \notin {"init", "subControl", "subData"}
    BY <1>2 DEF MaySend, Inv, Handshake
  <2>2. cl \notin {"unsubControl", "unsubData", "closed"}
    BY <1>2, PeerType DEF Receiving
  <2> QED
    BY <1>2, <2>1, <2>2 DEF Inv, Subscribed
<1> QED
  BY <1>1, <1>2, PeerType

LEMMA FlowPublishes ==
    ASSUME TypeOK, Inv, NEW s \in Sides, Publishing(s), NEW t \in Sides, Receiving(t)
    PROVE  Flows(t)
<1>1. PICK m \in Messages : m.type # "INVOKE" /\ BeginSend(s, m)
  BY DEF Publishing
<1>2. UNCHANGED <<rtr, buf, taken>>
  BY DEF Publishing, routerVars
<1>3. CASE UNCHANGED <<netVars, sent>>
  <2>1. Kept(t)
    BY <1>2, <1>3 DEF Kept, netVars
  <2> QED
    BY <2>1, KeptFlows
<1>4. CASE Publish(s, m) /\ sent' = [sent EXCEPT ![s] = Append(@, m)]
  <2> DEFINE p == [kind |-> "publish", topic |-> TopicOf(s, m), msg |-> m]
  <2>1. /\ inb'[s] = Append(inb[s], Ack)
        /\ \/ /\ p.topic \in subs /\ inb'[Peer(s)] = Append(inb[Peer(s)], p)
              /\ UNCHANGED lost
           \/ /\ p.topic \notin subs /\ inb'[Peer(s)] = inb[Peer(s)]
              /\ lost' = [lost EXCEPT ![s] = TRUE]
    BY <1>4, PublishDoes
  <2>2. /\ p \in Packets /\ p.topic \in {Control(s), Data(s)} /\ p.msg = m
        /\ p \in Carriers
    BY <1>1, PackType, TopicOfType
  <2> HIDE DEF p
  <2>3. /\ rtr[t] \in Seq(Packets) /\ inb[t] \in Seq(Packets)
        /\ lost \in [Sides -> BOOLEAN] /\ sent \in [Sides -> Seq(Messages)]
    BY DEF TypeOK
  <2>4. CASE t = s
    <3>1. Peer(t) # s /\ Peer(t) \in Sides
      BY <2>4, PeerType
    <3>2. Ahead(rtr[t], Append(inb[t], Ack)) = Ahead(rtr[t], inb[t])
      BY <2>3, PacketsType, AheadFacts
    <3>3. sent'[Peer(t)] = sent[Peer(t)] /\ lost'[Peer(t)] = lost[Peer(t)]
      BY <1>4, <2>1, <2>3, <3>1
    <3>4. Kept(t)
      BY <1>2, <2>1, <2>4, <3>2, <3>3 DEF Kept
    <3> QED
      BY <3>4, KeptFlows
  <2>5. CASE t = Peer(s)
    <3>1. s = Peer(t)
      BY <2>5, PeerType
    <3>2. p.topic \in subs
      BY <2>2, <2>5, PeerSubscribed DEF Publishing
    <3>3. inb'[t] = Append(inb[t], p) /\ lost' = lost
      BY <2>1, <2>5, <3>2
    <3> DEFINE a == taken[t]
               b == buf[t]
               e == Ahead(rtr[t], inb[t])
    <3>4. a \in Seq(Messages) /\ b \in Seq(Messages) /\ e \in Seq(Messages)
      BY <2>2, <2>3, FlowTypes, AheadFacts
    <3>5. Ahead(rtr[t], Append(inb[t], p)) = Append(e, m)
      BY <2>2, <2>3, AheadFacts
    <3>6. Transit(t)' = Append(Transit(t), m)
      <4>1. Transit(t) = Through(a, b, e) /\ Transit(t)' = Through(a, b, Append(e, m))
        BY <1>2, <3>3, <3>5, TransitIs
      <4> HIDE DEF a, b, e
      <4>2. Through(a, b, Append(e, m)) = Append(Through(a, b, e), m)
        BY <3>4, ThroughGrows
      <4> QED
        BY <4>1, <4>2
    <3>7. sent'[s] = Append(sent[s], m)
      BY <1>4, <2>3
    <3> QED
      BY <3>1, <3>3, <3>6, <3>7 DEF Inv, Flow, Flows
  <2> QED
    BY <2>4, <2>5, PeerType
<1> QED
  BY <1>1, <1>3, <1>4 DEF BeginSend

LEMMA FlowSubscribes ==
    ASSUME TypeOK, Inv, NEW s \in Sides, Subscription(s) \/ Starting(s),
           NEW t \in Sides, Receiving(t)
    PROVE  Flows(t)
<1>1. /\ rtr[t] \in Seq(Packets) /\ inb[t] \in Seq(Packets)
      /\ inb \in [Sides -> Seq(Packets)] /\ UNCHANGED <<rtr, buf, sent, taken>>
  BY DEF TypeOK, Subscription, Starting, routerVars, userVars
<1>2. \E p \in Packets : p \notin Carriers /\ inb'[t] \in {inb[t], Append(inb[t], p)}
  <2>1. CASE Subscription(s)
    <3>1. inb' = [inb EXCEPT ![s] = Append(inb[s], Ack)]
      BY <2>1, SubscriptionDoes
    <3> QED
      BY <1>1, <3>1, PacketsType
  <2>2. CASE Starting(s)
    <3> DEFINE p == [kind |-> "publish", topic |-> TopicOf(s, Invocation), msg |-> Invocation]
    <3>1. p \in Packets /\ p \notin Carriers
      BY MessagesType, PackType
    <3>2. /\ inb'[s] = Append(inb[s], Ack)
          /\ inb'[Peer(s)] \in {inb[Peer(s)], Append(inb[Peer(s)], p)}
      BY <2>2, MessagesType, PublishDoes DEF Starting
    <3> HIDE DEF p
    <3> QED
      BY <3>1, <3>2, PacketsType, PeerType
  <2> QED
    BY <2>1, <2>2
<1>3. UNCHANGED lost
  <2>1. CASE Subscription(s)
    BY <2>1, SubscriptionDoes
  <2>2. CASE Starting(s)
    <3> DEFINE p == [kind |-> "publish", topic |-> TopicOf(s, Invocation), msg |-> Invocation]
    <3>1. p.topic \in subs
      BY MessagesType, TopicOfType DEF Inv, Subscribed
    <3>2. p.topic \notin subs \/ UNCHANGED lost
      BY <2>2, MessagesType, PublishDoes DEF Starting
    <3> QED
      BY <3>1, <3>2
  <2> QED
    BY <2>1, <2>2
<1>4. Ahead(rtr'[t], inb'[t]) = Ahead(rtr[t], inb[t])
  <2>1. PICK p \in Packets : p \notin Carriers /\ inb'[t] \in {inb[t], Append(inb[t], p)}
    BY <1>2
  <2>2. Ahead(rtr[t], Append(inb[t], p)) = Ahead(rtr[t], inb[t])
    BY <1>1, <2>1, AheadFacts
  <2> QED
    BY <1>1, <2>1, <2>2
<1>5. Kept(t)
  BY <1>1, <1>3, <1>4 DEF Kept
<1> QED
  BY <1>5, KeptFlows

LEMMA FlowIncoming ==
    ASSUME TypeOK, Inv, NEW s \in Sides, Incoming(s), NEW t \in Sides, Receiving(t)
    PROVE  Flows(t)
<1>1. /\ inb[s] # <<>> /\ UNCHANGED <<lost, buf, sent, taken>>
      /\ inb' = [inb EXCEPT ![s] = Tail(@)]
      /\ \/ Head(inb[s]).kind = "ack" /\ UNCHANGED rtr
         \/ rtr' = [rtr EXCEPT ![s] = Append(@, Head(inb[s]))]
  BY DEF Incoming, userVars
<1>2. /\ inb \in [Sides -> Seq(Packets)] /\ rtr \in [Sides -> Seq(Packets)]
      /\ rtr[t] \in Seq(Packets) /\ inb[t] \in Seq(Packets)
  BY DEF TypeOK
<1>3. Ahead(rtr'[t], inb'[t]) = Ahead(rtr[t], inb[t])
  <2>1. CASE t = s
    <3>1. inb'[t] = Tail(inb[t]) /\ Head(inb[t]) \in Packets
      BY <1>1, <1>2, <2>1, HeadTailProperties
    <3>2. CASE rtr' = [rtr EXCEPT ![s] = Append(@, Head(inb[s]))]
      <4>1. rtr'[t] = Append(rtr[t], Head(inb[t]))
        BY <1>2, <2>1, <3>2
      <4> QED
        BY <1>1, <1>2, <2>1, <3>1, <4>1, AheadReads
    <3>3. CASE Head(inb[s]).kind = "ack" /\ UNCHANGED rtr
      <4>1. Head(inb[t]) \notin Carriers
        BY <2>1, <3>1, <3>3, PacketsType
      <4> QED
        BY <1>1, <1>2, <2>1, <3>1, <3>3, <4>1, AheadReads
    <3> QED
      BY <1>1, <3>2, <3>3
  <2>2. CASE t # s
    BY <1>1, <1>2, <2>2
  <2> QED
    BY <2>1, <2>2
<1>4. Kept(t)
  BY <1>1, <1>3 DEF Kept
<1> QED
  BY <1>4, KeptFlows

\* The router drops nothing that is meant for an end that receives.
LEMMA FlowCallback ==
    ASSUME TypeOK, Inv, NEW s \in Sides, Callback(s), NEW t \in Sides, Receiving(t)
    PROVE  Flows(t)
<1> DEFINE p == Head(rtr[s])
<1>1. /\ rtr[s] # <<>> /\ UNCHANGED <<inb, buf, sent, taken>>
      /\ \/ p.topic \notin routes /\ rtr' = [rtr EXCEPT ![s] = Tail(@)]
                                  /\ lost' = [lost EXCEPT ![Peer(s)] = TRUE]
         \/ UNCHANGED <<rtr, lost>>
  BY DEF Callback, userVars
<1>2. /\ rtr \in [Sides -> Seq(Packets)] /\ lost \in [Sides -> BOOLEAN]
      /\ rtr[s] \in Seq(Meant(s)) /\ routes = subs
  BY DEF TypeOK, Inv, Addressed, Subscribed
<1>3. CASE UNCHANGED <<rtr, lost>>
  <2>1. Kept(t)
    BY <1>1, <1>3 DEF Kept
  <2> QED
    BY <2>1, KeptFlows
<1>4. CASE p.topic \notin routes /\ rtr' = [rtr EXCEPT ![s] = Tail(@)]
                                 /\ lost' = [lost EXCEPT ![Peer(s)] = TRUE]
  <2>1. p \in Meant(s)
    BY <1>1, <1>2, HeadTailProperties
  <2>2. /\ p \in Packets /\ p.kind = "publish" /\ p.topic # CallTopic
        /\ p.topic \in {Control(Peer(s)), Data(Peer(s))}
    BY <1>2, <1>4, <2>1 DEF Meant, Inv, Subscribed
  <2>3. p \in Carriers
    BY <2>2, PacketsType
  <2> HIDE DEF p
  <2>4. t # s
    <3> SUFFICES ASSUME t = s PROVE FALSE
      OBVIOUS
    <3>1. Carried(rtr[s]) # <<>>
      <4>1. rtr[s] \in Seq(Packets) /\ Tail(rtr[s]) \in Seq(Packets) /\ p.msg \in Messages
        BY <1>1, <1>2, <2>2, PacketsType, HeadTailProperties
      <4>2. Carried(rtr[s]) = <<p.msg>> \o Carried(Tail(rtr[s]))
        BY <1>1, <2>3, <4>1, CarriedTail DEF p
      <4> DEFINE n == <<p.msg>>
                 c == Carried(Tail(rtr[s]))
      <4>3. n \in Seq(Messages) /\ n # <<>> /\ c \in Seq(Messages)
        <5>1. c \in Seq(Messages)
          BY <4>1, CarriedIs
        <5>2. n \in Seq(Messages) /\ n # <<>>
          BY <4>1
        <5> QED
          BY <5>1, <5>2
      <4>4. Carried(rtr[s]) = n \o c
        BY <4>2
      <4> HIDE DEF n, c
      <4> QED
        BY <4>3, <4>4, ConcatEqualIffEmpty
    <3>2. srv \notin {"none", "subControl", "subData", "start"}
      BY <3>1, NothingYet
    <3>3. cl \notin {"init", "subControl", "subData"}
      BY <3>2 DEF Inv, Handshake
    <3>4. Control(Peer(s)) \in subs /\ Data(Peer(s)) \in subs
      <4>1. CASE s = "client"
        BY <3>3, <4>1, PeerType DEF Receiving, Inv, Subscribed
      <4>2. CASE s = "server"
        BY <3>2, <4>2, PeerType DEF Receiving, Inv, Subscribed
      <4> QED
        BY <4>1, <4>2, PeerType
    <3> QED
      BY <1>2, <1>4, <2>2, <3>4 DEF p
  <2>5. rtr'[t] = rtr[t] /\ lost'[Peer(t)] = lost[Peer(t)]
    <3>1. Peer(t) \in Sides /\ Peer(t) # Peer(s)
      BY <2>4, PeerType
    <3>2. lost'[Peer(t)] = lost[Peer(t)]
      BY <1>2, <1>4, <3>1
    <3> QED
      BY <1>2, <1>4, <2>4, <3>2
  <2>6. Kept(t)
    BY <1>1, <2>5 DEF Kept
  <2> QED
    BY <2>6, KeptFlows
<1> QED
  BY <1>1, <1>3, <1>4

LEMMA FlowPushes ==
    ASSUME TypeOK, Inv, NEW s \in Sides, CallbackPushes(s), NEW t \in Sides, Receiving(t)
    PROVE  Flows(t)
<1> DEFINE p == Head(rtr[s])
<1>1. /\ buf[s] = <<>> /\ buf' = [buf EXCEPT ![s] = <<p.msg>>]
      /\ rtr' = [rtr EXCEPT ![s] = Tail(@)]
      /\ UNCHANGED <<inb, lost, sent, taken>>
  BY DEF CallbackPushes, CallbackDone, netVars, userVars
<1>2. /\ rtr \in [Sides -> Seq(Packets)] /\ buf \in [Sides -> Seq(Messages)]
      /\ rtr[s] \in Seq(Meant(s)) /\ rtr[s] # <<>>
  BY DEF TypeOK, Inv, Addressed, CallbackPushes
<1>3. CASE t # s
  <2>1. Kept(t)
    BY <1>1, <1>2, <1>3 DEF Kept
  <2> QED
    BY <2>1, KeptFlows
<1>4. CASE t = s
  <2>1. p \in Carriers /\ p.msg \in Messages
    <3>1. p \in Meant(s)
      BY <1>2, HeadTailProperties
    <3>2. p.topic # CallTopic
      BY DEF CallbackPushes, Inv, InCallback
    <3> QED
      BY <3>1, <3>2, PacketsType DEF Meant
  <2> DEFINE a == taken[t]
             m == p.msg
             e == Ahead(Tail(rtr[t]), inb[t])
  <2>2. Ahead(rtr[t], inb[t]) = <<m>> \o e
    BY <1>2, <1>4, <2>1, FlowTypes, AheadLeaves
  <2>3. a \in Seq(Messages) /\ m \in Messages /\ e \in Seq(Messages)
    <3>1. Tail(rtr[t]) \in Seq(Packets) /\ inb[t] \in Seq(Packets)
      BY <1>2, <1>4, FlowTypes, HeadTailProperties
    <3> QED
      BY <2>1, <3>1, FlowTypes, AheadFacts, PacketsType
  <2>4. Transit(t) = Through(a, <<>>, <<m>> \o e)
    BY <1>1, <1>4, <2>2, TransitIs
  <2>5. Transit(t)' = Through(a, <<m>>, e)
    <3>1. buf'[t] = <<m>> /\ rtr'[t] = Tail(rtr[t])
      BY <1>1, <1>2, <1>4
    <3> QED
      BY <1>1, <3>1, TransitIs
  <2> HIDE DEF a, m, e
  <2>6. Transit(t)' = Transit(t)
    BY <2>3, <2>4, <2>5, ThroughFacts
  <2> QED
    BY <1>1, <2>6 DEF Inv, Flow, Flows
<1> QED
  BY <1>3, <1>4

LEMMA FlowTakes ==
    ASSUME TypeOK, Inv, NEW s \in Sides, RecvTakes(s), NEW t \in Sides, Receiving(t)
    PROVE  Flows(t)
<1> DEFINE m == Head(buf[s])
<1>1. /\ buf[s] # <<>> /\ buf' = [buf EXCEPT ![s] = <<>>]
      /\ taken' = [taken EXCEPT ![s] = Append(@, m)]
      /\ UNCHANGED <<inb, rtr, lost, sent>>
  BY DEF RecvTakes, netVars
<1>2. /\ taken \in [Sides -> Seq(Messages)] /\ buf \in [Sides -> Seq(Messages)]
      /\ Len(buf[s]) <= 1
  BY DEF TypeOK
<1>3. CASE t # s
  <2>1. Kept(t)
    BY <1>1, <1>2, <1>3 DEF Kept
  <2> QED
    BY <2>1, KeptFlows
<1>4. CASE t = s
  <2>1. m \in Messages /\ buf[t] = <<m>>
    <3> DEFINE b == buf[t]
    <3>1. b \in Seq(Messages) /\ b # <<>> /\ Len(b) <= 1
      BY <1>1, <1>2, <1>4
    <3> HIDE DEF b
    <3>2. Len(b) = 1 /\ Head(b) = b[1] /\ Head(b) \in Messages
      <4>1. Len(b) \in Nat \ {0}
        BY <3>1, EmptySeq
      <4>2. \A k \in Nat \ {0} : k <= 1 => k = 1
        OBVIOUS
      <4>3. Len(b) = 1
        BY <3>1, <4>1, <4>2
      <4>4. Head(b) \in Messages
        BY <3>1, HeadTailProperties
      <4> QED
        BY <4>3, <4>4
    <3>3. <<Head(b)>> \in Seq(Messages) /\ Len(<<Head(b)>>) = 1 /\ <<Head(b)>>[1] = Head(b)
      BY <3>2
    <3>4. b = <<Head(b)>>
      BY <3>1, <3>2, <3>3, SeqEqual
    <3> QED
      BY <1>4, <3>2, <3>4 DEF b
  <2> DEFINE a == taken[t]
             e == Ahead(rtr[t], inb[t])
  <2>2. Transit(t) = Through(a, <<m>>, e)
    BY <2>1, TransitIs
  <2>3. Transit(t)' = Through(Append(a, m), <<>>, e)
    <3>1. buf'[t] = <<>> /\ taken'[t] = Append(a, m)
      BY <1>1, <1>2, <1>4
    <3> QED
      BY <1>1, <3>1, TransitIs
  <2>4. a \in Seq(Messages) /\ e \in Seq(Messages)
    BY FlowTypes, AheadFacts, PacketsType
  <2> HIDE DEF a, m, e
  <2>5. Transit(t)' = Transit(t)
    BY <2>1, <2>2, <2>3, <2>4, ThroughFacts
  <2> QED
    BY <1>1, <2>5 DEF Inv, Flow, Flows
<1> QED
  BY <1>3, <1>4

LEMMA FlowStep ==
    ASSUME TypeOK, Inv, [Next]_vars
    PROVE  Flow'
<1> SUFFICES ASSUME NEW t \in Sides, Receiving(t)'
             PROVE  Flows(t)
  BY FlowEnds DEF Flow, Flows
<1>1. Receiving(t)
  BY ReceivedBefore
<1>2. ASSUME NEW s \in Sides, InvokeDone(s)
      PROVE  Flows(t)
  <2>1. /\ rtr \in [Sides -> Seq(Packets)] /\ inb[t] \in Seq(Packets)
        /\ rtr[s] \in Seq(Packets) /\ rtr[s] # <<>>
    BY <1>2 DEF TypeOK, InvokeDone
  <2>2. Head(rtr[s]) \in Packets /\ Head(rtr[s]) \notin Carriers
    BY <1>2, <2>1, PacketsType, HeadTailProperties DEF InvokeDone, Inv, InCallback
  <2>3. /\ rtr' = [rtr EXCEPT ![s] = Tail(@)]
        /\ UNCHANGED <<inb, buf, lost, sent, taken>>
    BY <1>2 DEF InvokeDone, CallbackDone, netVars, userVars
  <2>4. Ahead(rtr'[t], inb'[t]) = Ahead(rtr[t], inb[t])
    <3>1. CASE t = s
      <4>1. Ahead(Tail(rtr[t]), inb[t]) = Ahead(rtr[t], inb[t])
        BY <2>1, <2>2, <3>1, AheadLeaves
      <4> QED
        BY <2>1, <2>3, <3>1, <4>1
    <3>2. CASE t # s
      BY <2>1, <2>3, <3>2
    <3> QED
      BY <3>1, <3>2
  <2>5. Kept(t)
    BY <2>3, <2>4 DEF Kept
  <2> QED
    BY <1>1, <2>5, KeptFlows
<1>3. ASSUME NEW s \in Sides, CallbackStores(s) \/ SendEnds(s) \/ RecvBegin(s) \/ RecvExpires(s)
      PROVE  Flows(t)
  <2>1. UNCHANGED <<inb, rtr, buf, lost, sent, taken>>
    BY <1>3 DEF CallbackStores, SendEnds, RecvBegin, RecvExpires, netVars,
      routerVars, userVars
  <2>2. Kept(t)
    BY <2>1 DEF Kept
  <2> QED
    BY <1>1, <2>2, KeptFlows
<1>4. ASSUME UNCHANGED <<netVars, routerVars, userVars>>
      PROVE  Flows(t)
  <2>1. Kept(t)
    BY <1>4 DEF Kept, netVars, routerVars, userVars
  <2> QED
    BY <1>1, <2>1, KeptFlows
<1> QED
  BY <1>1, <1>2, <1>3, <1>4, Steps, FlowPublishes, FlowSubscribes, FlowIncoming,
    FlowCallback, FlowPushes, FlowTakes

-----------------------------------------------------------------------------
(* The theorems.                                                           *)

LEMMA InvInit == Init => Inv
<1> SUFFICES ASSUME Init PROVE Inv
  OBVIOUS
<1> USE DEF Init, ConnInit, Both
<1>1. TypeOK
  BY TypeInit
<1>2. Subscribed
  BY TopicsType, PeerType DEF Subscribed
<1>3. AcksDue
  <2>1. \A s \in Sides : inb[s] = <<>>
    OBVIOUS
  <2>2. <<>> \in Seq(Packets) /\ Picked(<<>>, Acks) = <<>> /\ Len(<<>>) = 0
    BY PickedEmpty
  <2>3. \A s \in Sides : AcksComing(s) = 0
    BY <2>1, <2>2 DEF AcksComing
  <2> QED
    BY <2>3 DEF AcksDue
<1>4. Addressed
  <2>1. \A s \in Sides : inb[s] = <<>> /\ rtr[s] = <<>>
    OBVIOUS
  <2>2. \A S : <<>> \in Seq(S)
    BY EmptySeq
  <2> QED
    BY <2>1, <2>2 DEF Addressed
<1>5. InCallback /\ Handshake /\ Receivers
  BY PeerType DEF InCallback, Handshake, Receivers
<1>6. Flow
  <2> SUFFICES ASSUME NEW t \in Sides
               PROVE  Receiving(t) /\ Transit(t) = sent[Peer(t)] /\ ~lost[Peer(t)]
    BY DEF Flow
  <2>1. /\ taken[t] = <<>> /\ buf[t] = <<>> /\ rtr[t] = <<>> /\ inb[t] = <<>>
        /\ sent[Peer(t)] = <<>> /\ lost[Peer(t)] = FALSE
    BY PeerType
  <2>2. Coming(t) = <<>>
    BY <2>1, CarriedEmpty DEF Coming
  <2>3. Transit(t) = <<>>
    BY <2>1, <2>2 DEF Transit
  <2>4. Receiving(t)
    BY DEF Receiving
  <2> QED
    BY <2>1, <2>3, <2>4
<1> QED
  BY <1>2, <1>3, <1>4, <1>5, <1>6, TypeInit DEF Inv

LEMMA InvStep == Inv /\ [Next]_vars => Inv'
<1>1. Inv => TypeOK
  BY DEF Inv
<1> QED
  BY <1>1, TypeStep, NetStep, SubscribedStep, AddressedStep, InCallbackStep,
    HandshakeStep, ReceiversStep, FlowStep DEF Inv

\* The inductive invariant holds in every state: acknowledgements are
\* neither lost nor counted twice, the INVOKE and the ACK order the two ends, and
\* what an end has taken, has in its channel, in its router and on its way is
\* exactly what the other has sent.
THEOREM Invariance == Spec => []Inv
BY InvInit, InvStep, PTL DEF Spec

\* No variable leaves its type, the paho client never reads further ahead than
\* RouterAhead messages, and the channel never holds more than one.
THEOREM TypeCorrect == Spec => []TypeOK
<1>1. Inv => TypeOK
  BY DEF Inv
<1> QED
  BY <1>1, Invariance, PTL

\* Nothing that newConn has subscribed for is lost before its receiver closes.
THEOREM NothingLostHolds == Spec => []NothingLost
<1>1. TypeOK /\ Inv => NothingLost
  <2> SUFFICES ASSUME TypeOK, Flow PROVE NothingLost
    BY DEF Inv
  <2>1. cl \in ClientStates /\ srv \in ServerStates
    BY DEF TypeOK
  <2>2. /\ Receiving("server") => ~lost["client"]
        /\ Receiving("client") => ~lost["server"]
    BY PeerType DEF Flow
  <2> QED
    BY <2>1, <2>2, PeerType DEF Receiving, NothingLost
<1> QED
  BY <1>1, Invariance, TypeCorrect, PTL

-----------------------------------------------------------------------------
(* A call over MQTT implements a DuplexPipe.                               *)

LEMMA PipeInit == Init => Pipe!Init
<1> SUFFICES ASSUME Init PROVE Pipe!Init
  OBVIOUS
<1>1. AtEnd = [s \in Sides |-> FALSE]
  BY DEF Init, ConnInit, Both, AtEnd
<1> QED
  BY <1>1 DEF Init, ConnInit, Both, Pipe!Init

\* What a Recv returns decides whether it reported the end.
LEMMA AtEndStep ==
    ASSUME TypeOK, NEW s \in Sides, NEW r, ret' = [ret EXCEPT ![s] = r],
           NEW b \in BOOLEAN, b <=> r = "eof"
    PROVE  AtEnd' = [AtEnd EXCEPT ![s] = b]
<1>1. b = (r = "eof")
  OBVIOUS
<1> QED
  BY <1>1 DEF AtEnd, TypeOK

\* The steps that neither user notices.
LEMMA PipeStutters ==
    ASSUME UNCHANGED <<sent, taken, ret>>
    PROVE  UNCHANGED Pipe!pipeVars
BY DEF Pipe!pipeVars, AtEnd, Both

\* Publish sends.
LEMMA PipeSends ==
    ASSUME TypeOK, NEW s \in Sides, Publishing(s)
    PROVE  [Pipe!Next]_Pipe!pipeVars
<1>1. PICK m \in Messages : BeginSend(s, m)
  BY DEF Publishing
<1>2. UNCHANGED <<ret, taken>>
  BY DEF Publishing
<1>3. CASE UNCHANGED sent
  BY <1>2, <1>3, PipeStutters
<1>4. CASE sent' = [sent EXCEPT ![s] = Append(@, m)]
  <2>1. sent[s] \in Seq(Messages) /\ sent'[s] = Append(sent[s], m)
    BY <1>4 DEF TypeOK
  <2>2. /\ sent'[s] \in Seq(Messages) /\ Len(sent'[s]) = Len(sent[s]) + 1
        /\ sent'[s][Len(sent[s]) + 1] = m
    BY <2>1
  <2>3. sent' = [sent EXCEPT ![s] = Append(sent[s], sent'[s][Len(sent[s]) + 1])]
    BY <1>4, <2>2
  <2>4. UNCHANGED AtEnd /\ ~Both(FALSE)[s]
    BY <1>2 DEF AtEnd, Both
  <2>5. Pipe!Send(s)
    BY <1>2, <2>2, <2>3, <2>4 DEF Pipe!Send, Both
  <2> QED
    BY <2>5 DEF Pipe!Next
<1> QED
  BY <1>1, <1>3, <1>4 DEF BeginSend

\* Of what is received, a CLOSE alone is reported as the end.
LEMMA InterpretEof ==
    ASSUME NEW m \in Messages
    PROVE  IsClose(m) \in BOOLEAN /\ (IsClose(m) <=> Interpret(m) = "eof")
<1>1. IsClose(m) => ~IsError(m) /\ m.type # "ACK"
  BY DEF IsClose, IsError
<1>2. IsClose(m) => Interpret(m) = "eof"
  BY <1>1 DEF Interpret
<1>3. ~IsClose(m) => Interpret(m) \in {"error", "ack", "message"}
  BY DEF Interpret
<1> QED
  BY <1>2, <1>3 DEF IsClose

\* The message in the channel is the next one its peer has sent.
LEMMA PipeReceives ==
    ASSUME TypeOK, Inv, NEW s \in Sides, RecvTakes(s)
    PROVE  Pipe!Receive(s)
<1> DEFINE m == Head(buf[s])
           a == taken[s]
           b == buf[s]
           e == Coming(s)
           q == sent[Peer(s)]
<1>1. /\ b # <<>>
      /\ ret' = [ret EXCEPT ![s] = Interpret(m)]
      /\ taken' = [taken EXCEPT ![s] = Append(@, m)]
      /\ UNCHANGED sent
  BY DEF RecvTakes
<1>2. Receiving(s)
  BY PeerType DEF RecvTakes, Inv, Receivers, Receiving
<1>3. q = (a \o b) \o e
  BY <1>2 DEF Inv, Flow, Transit
<1>4. a \in Seq(Messages) /\ b \in Seq(Messages) /\ e \in Seq(Messages)
  BY FlowTypes
<1>5. Len(a) + 1 \in 1 .. Len(q) /\ q[Len(a) + 1] = m
  <2> HIDE DEF a, e, q, b
  <2>1. Len(a) + 1 \in 1 .. Len(q) /\ q[Len(a) + 1] = Head(b)
    BY <1>1, <1>3, <1>4, TransitParts
  <2> QED
    BY <2>1 DEF b
<1>6. Len(a) < Len(q)
  <2>1. \A k, n \in Nat : k + 1 \in 1 .. n => k < n
    OBVIOUS
  <2>2. Len(a) \in Nat /\ Len(q) \in Nat
    BY FlowTypes, LenProperties
  <2> QED
    BY <1>5, <2>1, <2>2
<1>7. m \in Messages
  BY <1>1, <1>4, HeadTailProperties
<1>8. AtEnd' = [AtEnd EXCEPT ![s] = IsClose(m)]
  BY <1>1, <1>7, InterpretEof, AtEndStep
<1> QED
  BY <1>1, <1>5, <1>6, <1>8 DEF Pipe!Receive, Both

\* A Recv that starts, or finds an error stored, has received nothing.
LEMMA PipeReceivesNothing ==
    ASSUME TypeOK, NEW s \in Sides, RecvBegin(s)
    PROVE  Pipe!ReceiveNothing(s)
<1>1. PICK r \in {"error", "none"} : ret' = [ret EXCEPT ![s] = r]
  BY DEF RecvBegin
<1>2. AtEnd' = [AtEnd EXCEPT ![s] = FALSE]
  BY <1>1, AtEndStep
<1> QED
  BY <1>2 DEF RecvBegin, Pipe!ReceiveNothing, Both

LEMMA PipeStep ==
    ASSUME TypeOK, Inv, [Next]_vars
    PROVE  [Pipe!Next]_Pipe!pipeVars
<1>1. ASSUME NEW s \in Sides,
             \/ Subscription(s) \/ Starting(s) \/ InvokeDone(s) \/ Incoming(s) \/ Callback(s)
             \/ CallbackStores(s) \/ CallbackPushes(s) \/ SendEnds(s) \/ RecvExpires(s)
      PROVE  UNCHANGED Pipe!pipeVars
  <2>1. UNCHANGED <<sent, taken, ret>>
    BY <1>1 DEF Subscription, Starting, InvokeDone, Incoming, Callback,
      CallbackStores, CallbackPushes, SendEnds, RecvExpires, userVars
  <2> QED
    BY <2>1, PipeStutters
<1>2. UNCHANGED <<netVars, routerVars, userVars>> => UNCHANGED Pipe!pipeVars
  BY PipeStutters DEF userVars
<1>3. ASSUME NEW s \in Sides, Pipe!Receive(s) \/ Pipe!ReceiveNothing(s)
      PROVE  Pipe!Next
  BY <1>3 DEF Pipe!Next
<1> QED
  BY <1>1, <1>2, <1>3, Steps, PipeSends, PipeReceives, PipeReceivesNothing

\* A call over MQTT, too, implements a DuplexPipe: whatever the order of the
\* packets, of the callbacks and of the two users, Recv hands out what the peer
\* published, once and in order, though it travels on two topics, and reports
\* io.EOF for nothing but a CLOSE.
THEOREM PipeRefined == Spec => PipeSpec
<1>1. Init => Pipe!Init
  BY PipeInit
<1>2. TypeOK /\ Inv /\ [Next]_vars => [Pipe!Next]_Pipe!pipeVars
  BY PipeStep
<1> QED
  BY <1>1, <1>2, Invariance, TypeCorrect, PTL DEF Spec, PipeSpec, Pipe!Spec
=============================================================================
