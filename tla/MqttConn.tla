------------------------------ MODULE MqttConn ------------------------------
(***************************************************************************)
(* The two callConn objects at the ends of one call over MQTT              *)
(* (transport/mqtt/conn.go), each used by at most one goroutine that sends *)
(* and one that receives at a time.  Each end subscribes to a control and  *)
(* a data topic and publishes on those of the other.                       *)
(*                                                                         *)
(* The broker and the paho client are not part of the repository.  The     *)
(* paho client runs the callbacks one after the other, in the order of     *)
(* arrival (OrderMatters, its default), in one goroutine, the router;      *)
(* while a callback blocks it reads RouterAhead more messages and then     *)
(* nothing, not even acknowledgements.  Broker and connections stay up.    *)
(***************************************************************************)
EXTENDS Message

CONSTANT RouterAhead    \* messages paho reads while a callback is blocked

ASSUME RouterAssumption == RouterAhead \in Nat

Sides == {"client", "server"}
Peer(s) == IF s = "client" THEN "server" ELSE "client"

VARIABLES
    inb,    \* inb[s]: packets on their way from the broker to s
    subs,   \* topics subscribed to, at the broker
    routes, \* topics with a callback, in the paho clients
    issued, \* issued[s]: how many packets s has sent, each to be acknowledged
    acked,  \* acked[s]: how many acknowledgements s has processed
    lost    \* lost[s]: a message s published found no subscriber or no callback

netVars == <<inb, subs, routes, issued, acked, lost>>

VARIABLES
    rtr,    \* rtr[s]: messages in the router, the first in its callback
    cb,     \* cb[s]: what the callback is about to do
    buf,    \* buf[s]: the channel receiver, of capacity one
    err     \* err[s]: the field err is set

routerVars == <<rtr, cb, buf, err>>

VARIABLES
    sent,   \* sent[s]: every message s has published on the call (history)
    snd,    \* snd[s]: acknowledgement that publish waits for, 0 if none
    rcv,    \* rcv[s]: Recv or RecvAck is "idle" or in "wait"
    ret,    \* ret[s]: kind of what the last of them returned, if anything
    taken   \* taken[s]: every message they took (history)

userVars == <<sent, snd, rcv, ret, taken>>

RecvResults == {"none", "message", "ack", "eof", "error"}

\* The topics of a call are named after the publisher; the INVOKE goes to a
\* topic that the server has subscribed to when it connected.
Control(s) == <<s, "Control">>
Data(s) == <<s, "Data">>
CallTopic == <<"call", "Control">>
Topics == {Control(s) : s \in Sides} \cup {Data(s) : s \in Sides} \cup {CallTopic}

TopicOf(s, m) ==
    CASE m.type = "INVOKE" -> CallTopic
      [] m.type = "DATA" -> Data(s)
      [] OTHER -> Control(s)

Invocation == NewCallMessage(NewMethod(<<>>, MethodTypeUnary))

Both(x) == [s \in Sides |-> x]

ConnInit ==
    /\ inb = Both(<<>>)
    /\ subs = {CallTopic} /\ routes = {CallTopic}
    /\ issued = Both(0) /\ acked = Both(0) /\ lost = Both(FALSE)
    /\ rtr = Both(<<>>) /\ cb = Both("idle")
    /\ buf = Both(<<>>) /\ err = Both(FALSE)
    /\ sent = Both(<<>>) /\ snd = Both(0)
    /\ rcv = Both("idle") /\ ret = Both("none") /\ taken = Both(<<>>)

(* ------------------------- paho and the broker -------------------------- *)

\* What a client reads: a message published on a topic or an acknowledgement.
Packets == [kind : {"publish", "ack"}, topic : Topics, msg : Messages]

Ack == [kind |-> "ack", topic |-> CallTopic, msg |-> Invocation]

\* The broker takes a packet of s and acknowledges it; the token of the packet
\* completes with acknowledgement issued'[s].
Acknowledge(s) == issued' = [issued EXCEPT ![s] = @ + 1]

Subscribe(s, topic) ==
    /\ Acknowledge(s)
    /\ inb' = [inb EXCEPT ![s] = Append(@, Ack)]
    /\ subs' = subs \cup {topic} /\ routes' = routes \cup {topic}
    /\ UNCHANGED <<acked, lost>>

Unsubscribe(s, topic) ==
    /\ Acknowledge(s)
    /\ inb' = [inb EXCEPT ![s] = Append(@, Ack)]
    /\ subs' = subs \ {topic} /\ routes' = routes \ {topic}
    /\ UNCHANGED <<acked, lost>>

\* A message goes to its subscriber, if there is one by now.
Publish(s, m) ==
    /\ Acknowledge(s)
    /\ LET p == [kind |-> "publish", topic |-> TopicOf(s, m), msg |-> m]
       IN  IF p.topic \in subs
           THEN /\ inb' = [inb EXCEPT ![s] = Append(@, Ack), ![Peer(s)] = Append(@, p)]
                /\ UNCHANGED lost
           ELSE /\ inb' = [inb EXCEPT ![s] = Append(@, Ack)]
                /\ lost' = [lost EXCEPT ![s] = TRUE]
    /\ UNCHANGED <<subs, routes, acked>>

\* token.Wait() returns for the last packet s issued.
AllAcked(s) == acked[s] = issued[s]

\* The paho client of s reads the next packet.
Incoming(s) ==
    /\ inb[s] # <<>>
    /\ inb' = [inb EXCEPT ![s] = Tail(@)]
    /\ LET p == Head(inb[s])
       IN  \/ /\ p.kind = "ack"
              /\ acked' = [acked EXCEPT ![s] = @ + 1]
              /\ UNCHANGED rtr
           \/ /\ p.kind = "publish" /\ Len(rtr[s]) <= RouterAhead
              /\ rtr' = [rtr EXCEPT ![s] = Append(@, p)]
              /\ UNCHANGED acked
    /\ UNCHANGED <<subs, routes, issued, lost, cb, buf, err, userVars>>

\* Mutant: a callback that has returned is called again.
CallbackDone_Again(s) == rtr' = [rtr EXCEPT ![s] = Tail(@)] /\ UNCHANGED cb

\* The callback of a topic has returned.
CallbackDone(s) ==
    /\ rtr' = [rtr EXCEPT ![s] = Tail(@)]
    /\ cb' = [cb EXCEPT ![s] = "idle"]

(* --------------------- the callback of callConn.subscribe --------------- *)

\* The router calls the callback of the topic, if it still has one.
Callback(s) ==
    /\ cb[s] = "idle" /\ rtr[s] # <<>>
    /\ LET p == Head(rtr[s])
       IN  \/ /\ p.topic \notin routes
              /\ rtr' = [rtr EXCEPT ![s] = Tail(@)]
              /\ lost' = [lost EXCEPT ![Peer(s)] = TRUE]
              /\ UNCHANGED cb
           \/ /\ p.topic \in routes
              /\ cb' = [cb EXCEPT ![s] = IF p.topic = CallTopic THEN "invoke"
                                         ELSE IF IsError(p.msg) THEN "store" ELSE "push"]
              /\ UNCHANGED <<rtr, lost>>
    /\ UNCHANGED <<inb, subs, routes, issued, acked, buf, err, userVars>>

\* c.err = m.Error() is done.
CallbackStores(s) ==
    /\ cb[s] = "store"
    /\ err' = [err EXCEPT ![s] = TRUE]
    /\ cb' = [cb EXCEPT ![s] = "push"]
    /\ UNCHANGED <<netVars, rtr, buf, userVars>>

\* Mutant: the channel is written without waiting for room in it.
CallbackPushes_Over(s) ==
    /\ cb[s] = "push"
    /\ buf' = [buf EXCEPT ![s] = <<Head(rtr[s]).msg>>]
    /\ CallbackDone(s)
    /\ UNCHANGED <<netVars, err, userVars>>

\* c.receiver <- &m
CallbackPushes(s) ==
    /\ cb[s] = "push" /\ buf[s] = <<>>
    /\ buf' = [buf EXCEPT ![s] = <<Head(rtr[s]).msg>>]
    /\ CallbackDone(s)
    /\ UNCHANGED <<netVars, err, userVars>>

(* ------------------------------ Send and Recv --------------------------- *)

\* Mutant: after the CLOSE of the peer every Recv and Send returns at once.
ErrReads_AfterEof(s) == {err[s] \/ ret[s] \in {"eof", "error"}}

\* Whether a read of s.err may find it set, while the callback stores an error
\* too.  (What a read in the middle of that finds is left to module CallConn.)
ErrReads(s) == {err[s], err[s] \/ cb[s] = "store"}

\* The check of c.err, and publish up to its select.
BeginSend(s, m) ==
    /\ snd[s] = 0
    /\ \E failed \in ErrReads(s) :
          IF failed
          THEN UNCHANGED <<netVars, sent, snd>>
          ELSE /\ Publish(s, m)
               /\ snd' = [snd EXCEPT ![s] = issued[s] + 1]
               /\ sent' = [sent EXCEPT ![s] = Append(@, m)]

SendEnds(s) ==
    /\ snd[s] # 0
    /\ snd' = [snd EXCEPT ![s] = 0]
    /\ UNCHANGED <<netVars, routerVars, sent, rcv, ret, taken>>

SendAcked(s) == acked[s] >= snd[s] /\ SendEnds(s)

\* ctx is done: publish returns, the message is on its way all the same.
SendExpires(s) == SendEnds(s)

RecvBegin(s) ==
    /\ rcv[s] = "idle"
    /\ \E failed \in ErrReads(s) :
          IF failed
          THEN ret' = [ret EXCEPT ![s] = "error"] /\ UNCHANGED rcv
          ELSE ret' = [ret EXCEPT ![s] = "none"] /\ rcv' = [rcv EXCEPT ![s] = "wait"]
    /\ UNCHANGED <<netVars, routerVars, sent, snd, taken>>

\* What Recv and RecvAck make of a message.  (Recv stores the error it returns,
\* which the callback has done before.)
Interpret(m) ==
    CASE IsClose(m) -> "eof"
      [] IsError(m) -> "error"
      [] m.type = "ACK" -> "ack"
      [] OTHER -> "message"

RecvTakes(s) ==
    /\ rcv[s] = "wait" /\ buf[s] # <<>>
    /\ buf' = [buf EXCEPT ![s] = <<>>]
    /\ rcv' = [rcv EXCEPT ![s] = "idle"]
    /\ ret' = [ret EXCEPT ![s] = Interpret(Head(buf[s]))]
    /\ taken' = [taken EXCEPT ![s] = Append(@, Head(buf[s]))]
    /\ UNCHANGED <<netVars, rtr, cb, err, sent, snd>>

\* ctx is done.
RecvExpires(s) ==
    /\ rcv[s] = "wait"
    /\ rcv' = [rcv EXCEPT ![s] = "idle"]
    /\ UNCHANGED <<netVars, routerVars, sent, snd, ret, taken>>
=============================================================================
