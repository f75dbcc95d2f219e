------------------------------ MODULE CallConn ------------------------------
(***************************************************************************)
(* The two callConn objects (transport/common/conn.go) at the ends of one  *)
(* yamux stream.  Each has a reader goroutine, run, that decodes messages  *)
(* and offers them on an unbuffered channel, and is used by at most one    *)
(* goroutine that sends and one that receives at a time.                   *)
(*                                                                         *)
(* The field err is written by run and by Recv and read by Send and Recv,  *)
(* without a lock.  A write of the two-word interface value lasts from one *)
(* step to a later one, and a read in between may find nil, the value, or  *)
(* an error whose second word is still missing (Torn).                     *)
(***************************************************************************)
EXTENDS Message, YamuxStream

VARIABLES
    rd,     \* rd[s]: program counter of the reader goroutine
    hand,   \* hand[s]: the message the reader has decoded, as <<>> or <<m>>
    err,    \* err[s]: the field err
    rcv,    \* rcv[s]: program counter of the goroutine in Recv or RecvMethod
    ret,    \* ret[s]: what the current or last Recv returns
    taken,  \* taken[s]: decoded messages that Recv took (history)
    snd,    \* snd[s]: the message Encode is about to write, as <<>> or <<m>>
    sret    \* sret[s]: what the last send returned

connVars == <<rd, hand, err, rcv, ret, taken, snd, sret>>

NoErr == <<>>                      \* nil
Torn == <<"TornError">>
ReadErr == <<"UnexpectedEOF">>    \* any failure of Decode that is not EOF

ASSUME ErrorsAssumption == {"TornError", "UnexpectedEOF"} \subseteq Text

ReaderStates == {"none", "run", "store", "offer", "last", "failed", "exit"}
RecvStates == {"idle", "wait", "store"}

Result(kind, val) == [kind |-> kind, val |-> val]
NoResult == Result("none", <<>>)
Results == [kind : {"none", "message", "eof", "error", "ctx", "protocol"},
            val : Segments]

ConnInit ==
    /\ rd = [s \in Sides |-> "none"]
    /\ hand = [s \in Sides |-> <<>>]
    /\ err = [s \in Sides |-> NoErr]
    /\ rcv = [s \in Sides |-> "idle"]
    /\ ret = [s \in Sides |-> NoResult]
    /\ taken = [s \in Sides |-> <<>>]
    /\ snd = [s \in Sides |-> <<>>]
    /\ sret = [s \in Sides |-> "none"]

Sending == [s \in Sides |-> snd[s] # <<>>]

\* The values a read of s.err may find while run or Recv is storing one.
ErrReads(s) ==
    {err[s]}
      \cup (IF rd[s] = "store" THEN {Torn, Head(hand[s]).data} ELSE {})
      \cup (IF rcv[s] = "store" /\ err[s] = NoErr THEN {Torn, ret[s].val} ELSE {})

(* --------------------------- the reader, run --------------------------- *)

\* NewConn starts run.
StartReader(s) == rd' = [rd EXCEPT ![s] = "run"]

\* Mutant: run does not wait for a receiver (a select with a default case).
AtDecode_NoWait(s) == rd[s] \in {"run", "offer"}

AtDecode(s) == rd[s] = "run"

\* Mutant: the error is not kept.
Keep_Not(s, e) == UNCHANGED err

\* The field err is assigned.
Keep(s, e) == err' = [err EXCEPT ![s] = e]

\* Mutant: run returns without closing the channel.
CloseChannel_Not(s) == rd' = [rd EXCEPT ![s] = "none"]

\* run returns: defer close(c.receiver).
CloseChannel(s) == rd' = [rd EXCEPT ![s] = "exit"]

Decode(s) ==
    /\ AtDecode(s) /\ Readable(s)
    /\ LET m == Head(wire[Peer(s)])
       IN  /\ hand' = [hand EXCEPT ![s] = <<m>>]
           /\ rd' = [rd EXCEPT ![s] = IF IsError(m) THEN "store" ELSE "offer"]
    /\ Read(s)
    /\ UNCHANGED <<link, fin, rst, cut, sent, err, rcv, ret, taken, snd, sret>>

\* c.err = msg.Error() is done; the ERROR is the last message run offers.
ReaderStored(s) ==
    /\ rd[s] = "store"
    /\ Keep(s, Head(hand[s]).data)
    /\ rd' = [rd EXCEPT ![s] = "last"]
    /\ UNCHANGED <<streamVars, hand, rcv, ret, taken, snd, sret>>

\* io.EOF: run returns and closes the channel.  The decoder also returns
\* io.EOF, though the stream broke, if the break follows a message's size.
DecodeEof(s) ==
    /\ AtDecode(s) /\ ReadsEof(s)
    /\ CloseChannel(s)
    /\ UNCHANGED <<streamVars, hand, err, rcv, ret, taken, snd, sret>>

\* Any other error: run offers an ERROR message it makes itself.
DecodeFail(s) ==
    /\ AtDecode(s) /\ ReadsError(s)
    /\ rd' = [rd EXCEPT ![s] = "failed"]
    /\ UNCHANGED <<streamVars, hand, err, rcv, ret, taken, snd, sret>>

Reader(s) == Decode(s) \/ ReaderStored(s) \/ DecodeEof(s) \/ DecodeFail(s)

(* ------------------------- Recv and RecvMethod ------------------------- *)

RecvReturns(s, result) ==
    /\ ret' = [ret EXCEPT ![s] = result]
    /\ rcv' = [rcv EXCEPT ![s] = "idle"]

\* The check of s.err, up to the select.
RecvBegin(s) ==
    /\ rcv[s] = "idle"
    /\ \E e \in ErrReads(s) :
          IF e # NoErr
          THEN RecvReturns(s, Result("error", e))
          ELSE /\ rcv' = [rcv EXCEPT ![s] = "wait"]
               /\ ret' = [ret EXCEPT ![s] = NoResult]
    /\ UNCHANGED <<streamVars, rd, hand, err, taken, snd, sret>>

\* What Recv (want = DATA) or RecvMethod (want = INVOKE) makes of a message.
Interpret(m, want) ==
    CASE IsClose(m) -> Result("eof", <<>>)
      [] IsError(m) -> Result("error", m.data)
      [] m.type = want -> Result("message", m.data)
      [] OTHER -> Result("protocol", <<>>)

\* Mutant: the message stays in the reader's hands and is offered again.
HandOver_Twice(s) == UNCHANGED <<rd, hand>>

\* Mutant: run goes on to decode before the message is out of its hands.
HandOver_Early(s) ==
    /\ rd' = [rd EXCEPT ![s] = IF @ = "last" THEN "exit" ELSE "run"]
    /\ UNCHANGED hand

\* The rendezvous on the channel: run hands its message over and goes on.
HandOver(s) ==
    /\ hand' = [hand EXCEPT ![s] = <<>>]
    /\ rd' = [rd EXCEPT ![s] = IF @ = "last" THEN "exit" ELSE "run"]

RecvTake(s, want) ==
    /\ rcv[s] = "wait" /\ rd[s] \in {"offer", "last"}
    /\ LET m == Head(hand[s])
       IN  /\ ret' = [ret EXCEPT ![s] = Interpret(m, want)]
           /\ rcv' = [rcv EXCEPT ![s] = IF IsError(m) THEN "store" ELSE "idle"]
           /\ taken' = [taken EXCEPT ![s] = Append(@, m)]
    /\ HandOver(s)
    /\ UNCHANGED <<streamVars, err, snd, sret>>

\* The rendezvous with a reader that offers its own ERROR message.
RecvTakeFailure(s) ==
    /\ rcv[s] = "wait" /\ rd[s] = "failed"
    /\ ret' = [ret EXCEPT ![s] = Result("error", ReadErr)]
    /\ rcv' = [rcv EXCEPT ![s] = "store"]
    /\ CloseChannel(s)
    /\ UNCHANGED <<streamVars, hand, err, taken, snd, sret>>

\* s.err = msg.Error() is done and Recv returns it.
RecvStored(s) ==
    /\ rcv[s] = "store"
    /\ Keep(s, ret[s].val)
    /\ rcv' = [rcv EXCEPT ![s] = "idle"]
    /\ UNCHANGED <<streamVars, rd, hand, ret, taken, snd, sret>>

\* The closed channel yields nil at once.
RecvClosed(s) ==
    /\ rcv[s] = "wait" /\ rd[s] = "exit"
    /\ RecvReturns(s, Result("eof", <<>>))
    /\ UNCHANGED <<streamVars, rd, hand, err, taken, snd, sret>>

\* The caller's context is done.
RecvCancel(s) ==
    /\ rcv[s] = "wait"
    /\ RecvReturns(s, Result("ctx", <<>>))
    /\ UNCHANGED <<streamVars, rd, hand, err, taken, snd, sret>>

RecvProceeds(s, want) ==
    RecvTake(s, want) \/ RecvTakeFailure(s) \/ RecvStored(s) \/ RecvClosed(s)

(* ------------------------- Send and its variants ------------------------ *)

\* The check of s.err; m is then in the hands of Encode.
BeginSend(s, m) ==
    /\ snd[s] = <<>>
    /\ \E e \in ErrReads(s) :
          IF e # NoErr
          THEN sret' = [sret EXCEPT ![s] = "err"] /\ UNCHANGED snd
          ELSE snd' = [snd EXCEPT ![s] = <<m>>] /\ UNCHANGED sret

Encode(s) ==
    /\ snd[s] # <<>> /\ Writable(s) /\ HasRoom(s)
    /\ Write(s, Head(snd[s]))
    /\ snd' = [snd EXCEPT ![s] = <<>>]
    /\ sret' = [sret EXCEPT ![s] = "ok"]
    /\ UNCHANGED <<link, fin, rst, cut, rd, hand, err, rcv, ret, taken>>

EncodeFails(s) ==
    /\ snd[s] # <<>> /\ ~Writable(s)
    /\ snd' = [snd EXCEPT ![s] = <<>>]
    /\ sret' = [sret EXCEPT ![s] = "failed"]
    /\ UNCHANGED <<streamVars, rd, hand, err, rcv, ret, taken>>

SendProceeds(s) == Encode(s) \/ EncodeFails(s)
=============================================================================
