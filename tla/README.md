# A verification of mqc

mqc is a Go library for remote procedure calls: generated stubs, unary and
streaming calls, and transports over tcp, unix sockets, websockets and MQTT.
This directory holds TLA+ models of it, the instances TLC checks and the
theorems TLAPS proves. Paths below are relative to the repository, `common/`
stands for `transport/common/`, and `PROJECT.json` maps every definition to the
lines it models.

    tlc  -workers 2 -config RpcCall.cfg MCRpcCall     # one run
    tlapm MuxCallProofs.tla                           # one proof module

## 1. The system

| Component | State it keeps | Operations | Talks to |
|---|---|---|---|
| messages, methods (`message.go`, `method.go`) | none | constructors, tests, text of a method | everything |
| call over a multiplexed connection (`common/conn.go`, `common/common.go`) | per end: reader goroutine `run`, unbuffered channel, field `err`; map of handlers | `NewConn`, `Send*`, `Recv`, `RecvMethod`, `Close`; `InvokeMux`, `AcceptMux` | a yamux stream below, stubs above |
| unary calls (`rpc.go`) | local variables | `Rpc`, `RpcServer` | a Conn |
| streaming calls (`stream.go`) | `eof` | constructors, `Send`, `Recv`, `CloseSend`, `SendAndClose`, `CloseAndRecv` | a Conn |
| tcp and unix transports (`transport/tcp`, `transport/unix`) | `conn`, `mux`; a goroutine per accepted connection | `Dial`, `Invoke`, `Close`, `Serve` | the network, `AcceptMux`, `InvokeMux` |
| websocket transport (`transport/http`) | `conn`, `mux` | the same, and an `http.Handler` | the same |
| call over MQTT (`transport/mqtt/conn.go`, `paho.go`) | per end: two subscriptions, a channel of capacity one, `err` | `newConn`, `Invoke`, `Send*`, `Recv`, `RecvAck`, `Close`; the callbacks | the paho client and its one router goroutine, the broker |
| MQTT transport (`paho.go`) | the paho client, the map of handlers | `Dial`, `Invoke`, `RegisterHandler`, `Serve`, `Close` | the broker |
| publish/subscribe (`pubsub.go`, `transport/mqtt/pubsub.go`) | subscription, channel, `eof` | `Recv`, `Send`, `Close` | the paho client |
| serialization (`serialization`) | none | `Marshal`, `Unmarshal`, `Encode`, `Decode` | a Conn |
| options, errors, certificates, generator | none at run time | | |

How they interact: a stub calls `Rpc` or makes a stream object, which calls
`Transport.Invoke` for a Conn. On the mux transports that opens a yamux stream
and writes an INVOKE message; on the other side a goroutine of `AcceptMux` reads
it, looks a handler up and runs it on a Conn of its own. Over MQTT the INVOKE
goes to a topic servers share, and the server answers with an ACK once it has
subscribed to the topics of the call. Messages are DATA, CLOSE (no more data
from here), ERROR (the handler failed) and the two just named.

What is hard in it, and what would make it correct:

* **The reader goroutine against Recv and Send** (`common/conn.go`). `run`
  stores an error in `err` before it offers the ERROR message, without a lock;
  `Recv` and `Send` look at `err` first. Correct means: nothing is lost,
  duplicated or reordered, an error neither overtakes data nor is forgotten, an
  end is reported only for an end.
* **Blocking.** Nothing but the closing of a channel frees a `Recv`, and
  `Encode` ignores its context: both must return when the peer is gone.
* **How a handler ends** (`common.go`): nil, an error, a panic, no handler at
  all, all through the same closed stream.
* **The layers above** (`rpc.go`, `stream.go`): every path closes what it
  opened, the remembered `eof` agrees with what was sent, two-step operations
  stay legal uses of a Conn.
* **The MQTT router**: a callback that blocks stops every other callback and
  all acknowledgements; subscriptions must precede publications. The callbacks
  of calls, of the topics callers publish to and of consumers share it.
* **The life of a connection** (`tcp.go`, `http.go`): failed dials, lost
  connections and repeated Dial, Invoke and Close must not leak or confuse
  connections, and what serves a connection must end with it.
* **The life of a subscription** (`paho.go`, `pubsub.go`): handlers come and go,
  paho reconnects by itself and forgets, the consumers of a program share a
  topic.
* **Frames** (`proto.go`): a message is two writes, its length is cut to four
  bytes, and the stream may end or break between any two bytes.

`PROJECT.json` lists these hazards one by one, at their lines.

## 2. The modules

| Module | Models | Built on |
|---|---|---|
| `Method`, `Message` | `method.go`, `message.go`: values only | |
| `YamuxStream` | one yamux stream (external) | |
| `CallConn` | the two `callConn` of a stream | `Message`, `YamuxStream` |
| `MuxCall` | `InvokeMux`, a goroutine of `AcceptMux`, the most general caller and handler | `CallConn` |
| `RpcCall` | `Rpc` and `RpcServer` in their places | `MuxCall` |
| `StreamCall` | the stream objects in their places | `MuxCall`, `Picks` |
| `DuplexPipe` | abstract: what a Conn promises | |
| `MqttConn` | the two `callConn` of an MQTT call; paho and broker (external) | `Message` |
| `MqttCall` | `Invoke`, the server's callback and goroutine, general users | `MqttConn` |
| `MuxTransport` | what `tcp.go` and `http.go` share: the fields `conn` and `mux`, the connections, the goroutines of both ends | |
| `TcpTransport` | `tcp.go`: Dial, Invoke, Close, Serve, the call `OnConnect` may make | `MuxTransport` |
| `WebsocketTransport` | `http.go`: a connection for every Dial and Invoke | `MuxTransport` |
| `Transports` | a client and a server of either kind | the two above |
| `PahoTransport` | `paho.go`: connecting, the map of handlers, the router and the INVOKEs in it, reconnection; paho and the broker (external) | |
| `MqttPubSub` | `pubsub.go`: publisher and consumers, on the same router | `PahoTransport` |
| `Framing` | `serialization/`: the bytes of one direction of a stream | `Sums` |
| `MC...` | values of the constants for TLC | |
| `Picks` | the elements of a sequence that belong to a set, without recursion | |
| `Sums` | the totals of a sequence of numbers, without recursive operators | |
| `MuxCallProofs` | theorems about `MuxCall`, and about how a call ends | `MuxCall`, TLAPS |
| `RpcCallProofs` | theorems about `RpcCall` | `RpcCall`, `MuxCallProofs` |
| `StreamCallProofs` | theorems about `StreamCall` | `StreamCall`, `MuxCallProofs`, `PicksProofs` |
| `PicksProofs` | lemmas about `Picks` | `Picks`, TLAPS |
| `MqttCallProofs` | theorems about `MqttCall` | `MqttCall`, `PicksProofs` |
| `MqttPubSubProofs` | theorems about `MqttPubSub` and the transport below it | `MqttPubSub`, TLAPS |
| `TransportsProofs` | theorems about `Transports` | `Transports`, TLAPS |
| `FramingProofs` | theorems about `Framing` | `Framing`, `PicksProofs` |

**CallConn and MuxCall.** `rd` is the program counter of `run`, `hand` the
message it holds, `rcv` and `ret` those of the goroutine in `Recv` or
`RecvMethod`, `snd` the message in the hands of `Encode`. A store to `err` is a
step apart from the read that races it; such a read finds the old value, the new
one or `Torn` (an interface value is two words). A rendezvous on the unbuffered
channel is one step of both goroutines (`RecvTake`). The users are as general as
the interface allows: any order of Send, SendClose and Recv, one sender and one
receiver per side, the caller may close at any moment and any Recv may be
cancelled. `AcceptMux`'s goroutine is the variable `srv`: after the method it
runs the handler, sends its error and closes. `sent`, `taken` and, above, `got`
are history variables.

**YamuxStream** is written from what `common/` asks of the library with its
default configuration. A message is the unit; a break may cut one, which is
kept in `cut`. `Window` is the flow-control window in messages. A side that has
closed its half and waits five minutes in vain resets the stream
(`CloseTimeout`). That the decoder reports a plain `io.EOF` when a stream breaks
right behind a size prefix is in `CallConn!DecodeEof`, whose guard does not ask
whether a message was cut.

**RpcCall and StreamCall** run inside `MuxCall`'s state: each of their steps is
a step of `MuxCall` plus a program counter, or a step that leaves `MuxCall`
alone. `RpcIsACall` and `StreamIsACall` check exactly that, so that what is
proved of every call holds of theirs.

**MqttCall.** `rtr` is the router: the message whose callback runs and those
paho has read behind it (`RouterAhead`), after which paho reads nothing, not
even acknowledgements. The broker takes a packet when it is issued, acknowledges
it behind what it has already sent to that client, and the four-step exchange of
QoS 2 counts as one acknowledgement. Broker and connections stay up. No lookup
of a handler succeeds over MQTT in the present code (see finding
`mux_dispatch`); so that the rest can be checked, the result of the lookup is
left open (`Ignore` or `NewServerConn`).

**StreamCall** chooses in its initial state what the handler is: `load` says
which kind of stream, what it carries and how many messages at most. The two
ends of a stream object are two goroutines, one that sends and one that
receives; `CloseAndRecv` and `SendAndClose` are two operations of the Conn.

**Transports.** One step per access to `conn` or `mux`. A connection is a member
of `Sessions`, used once; `state` is what the two peers know of it, `srv` the
goroutine that the server started for it, `acc` the client's own `AcceptMux`.
`nest` follows a call that the server makes from `OnConnect` over the new
connection, whose handler in the client may call the server back. What may dial
runs alone (`MayBegin`), because no lock protects the fields; Invokes that find
a session, and the Invokes of a websocket client, may overlap (`alone` remembers
which did not). The two kinds are kept apart by `kind`, chosen in the initial
state among `Kinds`.

**PahoTransport and MqttPubSub.** A call is followed from its INVOKE to the
goroutine of its handler (`fate`), where `MqttCall` takes over. `rtr[p]` is
paho's only router: the message whose callback runs and at most `RouterAhead`
read behind it; SUBACKs travel in `inb[p]` behind what the broker has sent
before. `link[p] = "lost"` is a client that reconnects: it says it is connected,
and its reconnection (`Reconnect`) leaves `subs[p]` empty. When a connection ends,
paho (v1.5.1) waits for its router before anything else: only a router without
messages, its callback included, lets the tokens fail that nobody will answer
(`TokensFail`), and only then does paho reconnect, or connect again (`Stopped`).
A `newConn` that waits inside the router is therefore never told that its
subscription failed (`NewConnWaits`). This order is a fact about the library,
which is not part of the repository. Close of a `pubsubConn` waits for the
UNSUBACK in the same way (`CloseConsumer`, `ConsumerClosed`); of the publishers
of a program one closes at a time, which is a bound. A consumer has its
channel of one (`ch`), and the topic of the publisher method one callback per
program, that of the last consumer to subscribe. `sure`, `since`, `intact` and
`got` are history variables. `Scenes` says which calls and consumers take part
in a behaviour, so that one run sees two calls, two consumers, and one of each.

**Framing.** `Base` stands for the 256 values of a byte, `Weights` for what the
bytes of a prefix are worth (1, 2^8, 2^16, 2^24): with two values and two bytes,
lengths from 4 on do not fit, as 2^32 do not in the code. A `Write` is atomic (yamux holds a lock), an `Encode` of the
proto serializer is two of them. The reader asks for a size and then for the
data, and `io.ReadFull` returns `io.EOF` exactly if it has read nothing. `garbled`
records that two Encodes have mixed or that a length was cut; a message cut by a
break is not garbled. No message has an empty encoding (`BodiesAssumption`):
proto leaves out a type of 0, which is INVOKE, but `NewCallMessage`
(`message.go:17`) gives every INVOKE its data. An empty one would be received
as soon as its length is written, before the Encode that sends it has ended.

## 3. The runs

Deadlock is not checked for calls, for `Framing` and for `MqttPubSub`
(`CHECK_DEADLOCK FALSE`): a call or a stream that is over stops, and so do their
models. It is checked for `Transports`.

| Run | Instance | States | Shows |
|---|---|---|---|
| `mux_safety` | client sends 2 messages (INVOKE and one), server 1 and an error; one handled, one absent method | 0.8 M | order, ends and errors; refinement of `DuplexPipe` |
| `mux_live` | server sends 2 and an error to a client that need not read | 0.15 M | blocked Recv and Send return; `Inv` |
| `mux_dispatch` | | | violation, see below |
| `rpc` | good and garbled payloads, handled and absent method | 9 K | the outcome of `Rpc`, its return, no goroutine left |
| `stream` | the three kinds, good and garbled payloads; a client stream of 4 messages to a handler that may stop reading | 0.66 M | what a stream yields, legal use of the call, `CloseAndRecv` returns |
| `mqtt_safety` | server publishes ACK and one message (and the final one), client one; any deadline may expire | 0.35 M | nothing lost, order, `DuplexPipe` |
| `mqtt_live` | server publishes four, both sides keep receiving | 0.1 M | routers and senders do not block each other |
| `mqtt_router` | | | violation |
| `mqtt_transport` | one program with two methods; two calls, or two consumers and two publications, or a consumer and three, or a call, a consumer and two | 0.2 M | who is subscribed when an INVOKE comes, what consumers get, when the router gets on |
| `transports` | tcp or websocket, two users, two connections | 65 K | no leak, no missing or foreign session, goroutines end, `OnConnect` returns |
| `tcp_tls` | | | violation |
| `framing` | proto or JSON, two senders, three Encodes of bodies of 1, 3 and 5 bytes (two values a byte, two bytes a prefix) | 0.5 M | frames survive as messages, the reader ends and allocates what was sent; `FramingInv` |

The bounds. One call is enough for the modules of a call: calls share nothing
but the session (whose loss is a step) and, over MQTT, the router (whose
blocking is what `mqtt_router` and `mqtt_transport` are about). `Window = 1`
makes a Send block as early as possible; a larger window only moves the point.
With it a side holds at most three unread messages (channel of `run`, window,
hands of `Encode`), so two messages from a side and an error reach every
combination of full and empty, and only for a client to block behind a handler
that has stopped reading are more needed (the client stream of `stream`). Ends,
resets and loss of the session may come between any two steps. `Sessions` has
two members because a leak, or a stream on the wrong session, needs a first
connection and a second. `RouterAhead = 1`: a callback, one message behind it,
and anything more is a router that reads no acknowledgement; a larger number
only needs more messages for the same. Three publications are one in the
consumer's channel, one in the callback and one behind. The bodies of `framing`
are one message that fits, one whose bytes read as a length, and one too long
for its prefix. Payloads are interchangeable: one that decodes and one that does
not.

The fairness. `MuxCall!Fairness` asks that goroutines which can run do run (Go
schedules all of them) and that yamux's timer goes off; nothing is asked of the
users, the handler or the network. `RpcFairness` adds that `Rpc` and `RpcServer`
go on, the handler's own function included: a handler that never returns is
outside of it. `StreamFairSpec` adds that a stream operation under way goes on.
`MqttCall!ReadingSpec` also asks that both users keep receiving, which its
properties are about, and leaves deadlines out. `Transports!FairSpec` asks that
operations under way and goroutines go on and that a call of `OnConnect` is
answered by what can answer it. `MqttPubSub!FairSpec` asks that
`ensureConnected`, the router and paho's reader go on, that the tokens of a
connection that has ended fail once the router has ended, and that consumers
keep receiving, which `ReadNewsFreesRouter` is about; paho need not reconnect,
nor anything be published. `Framing!Spec` asks that the reader goes on.

Every property has a mutant, a plausible mistake in a mapped definition that
violates it under the same instance.

### Disagreements found

* `mux_dispatch`: `NewMethodFromString` (`method.go:34`) reads `"%s/%d"`, and
  `%s` takes the digit too: no registered handler is ever found, the stream is
  closed in silence. The other runs register handlers under the key the server
  computes (`MethodOnWire`), so that calls go on.
* `mqtt_router`: a handler that returns with messages unread leaves the server's
  router blocked in `c.receiver <- &m` (`transport/mqtt/conn.go:249`); the
  server sees no further INVOKE.
* `tcp_tls`: a failed `tls.Dial` leaves a typed nil in `t.conn` (`tcp.go:57`);
  the next `Invoke` does not dial, it panics.

Seen in the code, where no run is needed: `Close` of a serving transport finds
`conn` and `mux` nil (`tcp.go:77`) and changes nothing, although
`transport.go:14` says that it unblocks what is pending; `ListenAndServe` of the
websocket transport does not use the TLS configuration it was given
(`http.go:96`); a Dial on a connected transport returns an error according to
`transport.go:18`, but that of the websocket transport dials anew every time
(`http.go:77`) and leaves the old connection behind; `options.go:28` says that
`OnConnect` is called when a connection is established, which the tcp and the
websocket client never do, nor the websocket server: only the tcp server
(`tcp.go:150`) and the MQTT transport (`paho.go:80`) call it.

Met and modelled, but contrary to no document:

* a torn read of `err` (`common/conn.go:150`); readers left behind when a user
  stops receiving (`conn.go:151,155`); a message lost to a break right behind
  its size, which `run` takes for the end of the stream (`proto.go:88`);
* `NewServerStreamClient` that fails and keeps its call open (`stream.go:105`);
* an MQTT error that overtakes buffered data (`transport/mqtt/conn.go:244`); an
  MQTT handler that panics, whose client is told of no end (`paho.go:173`);
* `newConn` waits for SUBACKs inside the router (`paho.go:166`,
  `transport/mqtt/conn.go:254`): if more messages have arrived than paho reads
  ahead, or the connection is lost before the SUBACK comes, it waits for ever. In
  the second case paho, too, waits for its router and never reconnects, so that
  the server sees no further INVOKE; this rests on what paho does (section 2).
  `RouterServes` excepts both (`Stuck`, `Orphaned`), and is violated without
  either exception;
* Close of a consumer waits for its UNSUBACK (`transport/mqtt/pubsub.go:133`), with
  nobody left to empty the channel on which its callback may block the router;
* paho reconnects with a clean session, `ensureConnected` takes it for connected
  (`paho.go:65`), and handlers and consumers stay without a subscription;
  so do a handler registered while connected (`paho.go:118`) and those left when
  one subscription fails (`paho.go:74`);
* a Close of any pubsubConn unsubscribes all consumers of the program
  (`transport/mqtt/pubsub.go:136`), a second consumer takes the topic from the
  first (`pubsub.go:111`), publications are sent with QoS 0 (`pubsub.go:91`);
* a lost tcp connection is never replaced (`tcp.go:53`); every Invoke of a
  websocket client leaves a connection behind too (`http.go:46`); a call made from
  `OnConnect` whose handler calls back (`tcp.go:150`) waits until yamux gives the
  stream up that nobody accepts (`StreamOpenTimeout`, 75 seconds by default),
  which `OnConnectReturns` excepts; two first Invokes at once leak a connection or use
  a missing session (`NothingLeaks` and `InvokeDials` fail when `MayBegin` is
  dropped).

## 4. The proofs

Every theorem holds for every value of the constants that the assumptions admit:
any `Window` above zero, any sets of methods, payloads, error texts, users and
sessions, any `MaxSent` or `load`. The assumptions (`ConstantsAssumption`,
`WindowAssumption`, `DigitsAssumption`, `ErrorsAssumption`, `RoomAssumption`,
`GarbledAssumption`, `StreamAssumption`, `TransportAssumption`,
`FramingAssumption`) only give the constants their types, leave room for one
request and one response, and keep the texts of handlers apart from `NoErr`,
`Torn` and `ReadErr`; `BodiesAssumption` is the fact about `NewCallMessage` told
above. TLC evaluates them in every run. `MaxSent` bounds the messages a
user sends on one call; since it is arbitrary, so is the length of a call.

**Every call.**

* `MuxCallProofs`, `TypeCorrect`: `Spec => []TypeOK`, one step per action.
* `Invariance`, also there: `Spec => []Inv`. None of the properties is
  inductive by itself. `Inv` adds, per side, that taken, held and queued
  messages are together a prefix of what the peer wrote, all of it while nothing
  broke (`InOrder`); that a reader is gone only for the end of the stream or an
  error that is kept (`ReaderGone`, `ErrorKept`); that a reader with an error
  decodes nothing more (`ReaderDone`); and globally that an ERROR is the
  server's last message (`ErrorsInOrder`) and that whoever knows its text has
  decoded everything before it (`ErrorKnown`), which is why it cannot overtake
  data although `err` is read without a lock. TLC checks `Inv` in `mux_live`.
* `ErrorAfterDataHolds` follows from `ErrorKnown` and the length of `hand`;
  `ErrorIsFinalHolds` from `ErrorKept` before and after a step.
* `PipeRefined`: `Spec => PipeSpec`, the refinement of
  `DuplexPipe`: a write is a Send, a take a Receive (whose message `InOrder`
  identifies), a closed channel a ReceiveEnd (which `ReaderGone` justifies),
  FIN a Close, loss and reset a Break; the rest stutters.
* How a call ends, also there: `EndInv` (`EndInvariance`) says where the
  goroutine of the server is in its ending (`EndsInOrder`, `ServerReads`), that
  a handler which
  has failed still owes its ERROR or has it as the last message written
  (`ErrorDue`), that the caller has taken this ERROR only into an error
  (`ErrorTaken`), that an error the caller is told of while nothing broke is the
  last message of the server (`ErrorTold`), and that `io.EOF` is a CLOSE or the
  end of a stream of which everything was taken (`EofIsEnd`).
  `HandlerErrorIsSentHolds` is `ErrorDue` at the end;
  `CleanEndMeansNoErrorHolds` combines it with `ErrorTaken` and `EofIsEnd`: had
  the handler failed, the caller would have taken its ERROR, and not been told
  `io.EOF`.

**The calls of the stubs.**

* `RpcCallProofs`: `RpcInv` couples the program counters of `Rpc` and `RpcServer`
  with the call below them (`Invoking`, `Unsent`); `RpcTypeCorrect` is part of
  it, and `RpcRefines` (`RpcSpec => RpcIsACall`) shows that each step is a step
  that `MuxCall` allows its users, or none. `RpcInherits` then carries `Inv` and
  `PipeSpec` over to unary calls.
* `RpcOutcomeHolds`, also there: `RpcSpec => []RpcOutcome`. That a reply
  answers this very request takes both directions of the call. `OutcomeInv` says
  what `RpcServer` has sent where it is: one DATA, one ERROR or nothing
  (`Replies`), that it has taken INVOKE and the request before it runs the
  handler (`Served`), that the client's request is on its way or something broke
  (`Sends`), what the one Recv of `Rpc` took (`Receives`), and that `Rpc` returns
  what this Recv returned (`Returned`). With `InOrder` the reply taken is the one
  sent and the request taken the one sent; `ErrorTold` and `ErrorDue` settle the
  error and the end. `OutcomeInvariance` is the induction; it needs `RpcInv`,
  `Inv` and `EndInv` of the call below.
* `StreamCallProofs`: the same for stream objects. `StreamInv` says which half of
  the call each operation under way may use, what is still in its hands, and
  how many messages of the `load` have been sent (`Sound`, `PayloadsSent`,
  `PayloadsReceived`, `Replying`). TLC checks it in `stream`.
* `StreamYieldsAllHolds`, also there: `StreamSpec => []StreamYieldsAll`. Its part of
  `StreamInv` is `YieldInv`. `Follows`: what was yielded, and what the Recv under
  way has still to yield (`Coming`), is `Stream` of the messages taken from the
  call; after a CLOSE there is no Recv any more; and io.EOF stands for a CLOSE
  taken or for the end of the call (`Ended`, kept by `EndStays`). An end that
  never had a handler is `Untouched`, and `MethodFirst` says that a handler finds
  only its INVOKE taken. `Stream` is `Picked` up to the first CLOSE: an `Append`
  adds to it or not (`StreamAppend`), and of a beginning of the messages it makes
  a beginning (`StreamPrefix`), so that with `InOrder` what follows from the
  messages taken follows from those sent.

**The transports.** `TransportsProofs`: `TransportInv` is inductive. It says
where each user is in its operation and that what may dial is alone there, which
connections the fields and the operations hold, and that a tcp client holds the
only connection that is up. `NothingLeaksHolds`, `InvokesOnItsOwnHolds` and,
without TLS, `InvokeDialsHolds` follow. With TLS the last one is false (run
`tcp_tls`).

**A call over MQTT.** `MqttCallProofs`, `Invariance`: `Spec => []Inv`,
for any `RouterAhead` and any number of messages and deadlines that expire. TLC
checks `Inv` in `mqtt_safety`. Beside `TypeOK` its parts are, one hazard each:

* `Subscribed`: where `cl` and `srv` are tells which topics have a subscription
  (newConn and Close subscribe and unsubscribe one after the other).
* `AcksDue`: of the packets a side has issued, those not acknowledged have their
  acknowledgement on the way to it. A Send whose context has expired goes on to
  the next packet, so a count is needed, not a flag.
* `Handshake`: the server starts with the INVOKE and the client goes on with the
  ACK, so that nobody publishes to a topic that has no subscriber yet.
  `NothingLostHolds` is this part with `Subscribed`: the publication that
  would be lost is never made.
* `Flow`: what an end has taken, has in its channel, in its router and on its way
  is what its peer has sent, in this order, although data and control messages
  go through different topics and callbacks. An end that unsubscribes has taken a
  beginning of it. With this `PipeRefined` shows that a call over MQTT implements
  the same `DuplexPipe` as a call over a multiplexed connection: what a Conn
  promises is proved of both kinds of transport.
* `Addressed` and `InCallback` say that a packet has come to the side its topic
  names and that a callback is that of its topic.

`Coming` speaks of the packets of a queue that carry messages, and `AcksDue`
counts those that acknowledge: both are `Picked`. `PicksProofs` has the lemmas
about it (what an `Append`, a `Tail` and a shorter beginning do, by the rank of a
position in the queue). The attempt at the first of these proofs showed that the callback of
`MqttConn` was written as a CASE whose guards overlapped, which TLC resolves by
taking the first: it now says so with IF.

**Programs, publishers and consumers.** `MqttPubSubProofs`, `Invariance`:
`Spec => [](TypeOK /\ Inv)`, for any programs, consumers, calls and publications
(TLC checks both in `mqtt_transport`).

* `QueuesInOrder` and `SeenInOrder`: publications are in order in each queue, and
  those a consumer has received come before that in its channel, which comes
  before those in the router, before those still on the way; even a second
  subscription by the same program cannot bring one twice.
  `NewsInOrderHolds` follows.
* `Undisturbed`: as long as nobody takes the subscription of a consumer away
  (`intact`), the connection is up, the callback of the topic is its own, and
  every publication since then has reached it or is in one of the queues; if a
  callback is still under way for an earlier consumer, its publication is older.
  `NothingMissedHolds` follows. It says which publications these are as a set;
  that they are also in order is `NewsInOrder`.
* `Placed`: a callback that waits for room in a channel is that of a consumer of
  this program and has a publication to hand over.
* `Connected`: a method handled when the connection was made is subscribed to or
  still in the hands of `ensureConnected`, and only a lost connection ends that
  half-way. `DroppedHasReasonHolds`, an action property, follows: an INVOKE finds
  no subscriber only where a handler came too late or the connection was lost.

* `NewConnWaits`: only a callback in `newConn` waits for its token, and the token
  never fails: the router would have to end first. It is why `NewConnGoesOn` has
  no step for a subscription that failed, and why `RouterServes` has its exception.

The proof splits the steps by what they do to the queues (`QueueSteps`), the
subscriptions (`IntactSteps`) and the callbacks (`RouteSteps`), whoever takes
them; each part of `Inv` is then shown against these few kinds of step.

**The byte stream.** `FramingProofs` holds for any number of values of a byte and
of bytes in a prefix, any messages, senders, cuts and formats.
`FramingInvariance`: `Spec => []FramingInv`, which TLC checks in `framing`.

* `Encoding` and `OwnFormat` say what an Encode under way has still to write, and
  that braces and lengths stay in their own formats; with `TypeOK` they hold even
  of a stream on which Encodes have mixed.
* `InFrames`, while they have not: every place of the stream is counted from its
  beginning. `FrameEnds` is where the frames of the messages sent end, `ReadTo`
  and `StreamEnd` are where the reader and the last byte are. For some `n` the
  first `n` frames are on the stream as far as they are not read (`Intact`), and
  behind them there is nothing or a part of one frame (`Begun`), which while
  the stream goes on is the length that the one Encode between its Writes has
  written. Before a break `n` counts all messages sent; a break leaves fewer.
* A Write puts a piece of a frame behind the others (`Piece`), a break cuts the
  frame it falls into (`Cut`, at the first frame that ends behind it), the reader
  moves by a length or by a message (`Reads`). That the length read is that of
  the message comes from `SizeOfPrefix`: the value of the prefix of any number
  below `Limit` is this number.
* `AllocatesHolds`: the length awaited is that of a message sent, or of the one
  whose frame is only begun. `FramesHold`: `Spec => FramesAreAPipe`, a Write
  that makes a frame whole is a Send, a Decode a Receive, and where the stream
  has ended without a byte left the frames of all messages have been read, or
  the session broke.

`Totals` of `Sums` are recursive, and the theorems on induction cannot be used
here; but a set of numbers that leaves one out has a first one (`Least`, from
`FirstPlace` of `PicksProofs`), and that is induction enough for them (`UpTo`).

Only model-checked: liveness, which is out of the prover's reach, like fairness
and ENABLED. These are `BlockedRecvReturns`, `BlockedSendReturns`, `RpcReturns`,
`RpcLeavesNoReader`, `CloseAndRecvReturns`, `EndedIsLeft`, `OnConnectReturns`,
`ReaderFreesRouter`, `ReadersCanSend`, `ReadNewsFreesRouter`, `RouterServes` and
`DecoderEnds`.

## 5. Not modelled, and the plan

Not modelled and not planned: options, certificates, the code generator (it
prints the stubs at build time; what they do is in `RpcCall`, `StreamCall`,
`Method`), JSON and protobuf themselves, generated code, examples. Two accesses
to a Go map at once (`RegisterHandler` against a lookup, `common.go:51`,
`paho.go:123`) end the program, so that there is no state after them to say
anything of. Transports used by goroutines that race on `conn` and `mux` beyond
what `MayBegin` admits: no document says that they may be.

What remains, in this order:

1. A transport that dials and serves at once, and one that serves twice.
2. Several MQTT calls on one router beyond the start of their handlers.
