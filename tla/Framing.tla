------------------------------ MODULE Framing ------------------------------
(***************************************************************************)
(* How the serializers (serialization/) put messages on the byte stream    *)
(* of a call and take them off it: one direction of a stream, the          *)
(* goroutines that Encode into it and the one reader that Decodes.         *)
(*                                                                         *)
(* The proto serializer writes a length and then the message, in two       *)
(* Writes; the JSON serializer writes a value that ends itself, in one.    *)
(* A Write is atomic (yamux.Stream.Write holds sendLock), an Encode of two *)
(* Writes is not.  The 4 bytes of the length and the 256 values of a byte  *)
(* are parameters, so that lengths beyond the prefix can be met.           *)
(***************************************************************************)
EXTENDS Integers, Sequences, FiniteSets, SequencesExt, FiniteSetsExt, Sums

CONSTANTS
    Base,       \* how many values a byte has
    Weights,    \* what the bytes of the length prefix are worth, the low byte
                \* first: 1, 2^8, 2^16, 2^24
    Bodies,     \* the encodings of the messages that are sent
    Senders,    \* goroutines that Encode
    MaxEncodes, \* bounds how many times they do
    Formats     \* the serializers looked at, "proto" and "json"

Byte == 0 .. Base - 1
PrefixLen == Len(Weights)
Limit == Base * Weights[PrefixLen] \* the first length that does not fit the prefix
Brace == Base                      \* the byte that ends a JSON value, and only that

ASSUME FramingAssumption ==
    /\ Base \in Nat \ {0} /\ MaxEncodes \in Nat
    /\ Weights \in Seq(Nat \ {0}) /\ Weights # <<>> /\ Weights[1] = 1
    /\ \A k \in 2 .. PrefixLen : Weights[k] = Base * Weights[k - 1]
    /\ Bodies \subseteq Seq(Byte)
    /\ Formats \subseteq {"proto", "json"}

\* No message is encoded in no byte: of the types only INVOKE, which is 0, takes
\* none, and NewCallMessage (message.go:17) always gives it data.
ASSUME BodiesAssumption == <<>> \notin Bodies

VARIABLES
    format,     \* the serializer of the two ends
    writes,     \* writes[s]: the Writes left of the Encode s is in
    body,       \* body[s]: the message of the last Encode of s
    encodes,    \* Encodes begun
    wire,       \* bytes written and not read
    fin,        \* the sending end has closed the stream
    broken,     \* the session under the stream is gone
    reader,     \* Decode: at the "size", at the "data", or over: "eof", "error"
    need,       \* the length of the data awaited
    sent,       \* messages wholly written (history)
    got,        \* messages decoded (history)
    garbled     \* a Write fell between two Writes of another Encode, or a
                \* message was longer than its prefix says (history)

encoderVars == <<writes, body, encodes, fin, sent, garbled>>
decoderVars == <<reader, need, got>>
vars == <<format, encoderVars, decoderVars, wire, broken>>

Init ==
    /\ format \in Formats
    /\ writes = [s \in Senders |-> <<>>] /\ body = [s \in Senders |-> <<>>]
    /\ encodes = 0 /\ wire = <<>> /\ fin = FALSE /\ broken = FALSE
    /\ reader = "size" /\ need = 0
    /\ sent = <<>> /\ got = <<>> /\ garbled = FALSE

(* -------------------------------- Encode -------------------------------- *)

\* Mutant: a length of one byte less than the reader takes it to be.
Prefix_Cut(n) ==
    [k \in 1 .. PrefixLen |->
       IF k = PrefixLen THEN 0 ELSE (n \div Weights[k]) % Base]

\* PutUint32(size, uint32(n)), the low byte first: the bits beyond are cut off.
Prefix(n) == [k \in 1 .. PrefixLen |-> (n \div Weights[k]) % Base]

WritesOf(b) ==
    IF format = "proto" THEN <<Prefix(Len(b)), b>> ELSE <<Append(b, Brace)>>

BeginEncode(s, b) ==
    /\ writes[s] = <<>> /\ encodes < MaxEncodes
    /\ encodes' = encodes + 1
    /\ writes' = [writes EXCEPT ![s] = WritesOf(b)]
    /\ body' = [body EXCEPT ![s] = b]
    /\ UNCHANGED <<format, fin, sent, garbled, decoderVars, wire, broken>>

\* s has written the length, not the message.
Midway(s) == format = "proto" /\ Len(writes[s]) = 1

\* What s writes now falls between the Writes of another Encode, or belongs to
\* a message that its prefix does not tell the length of.
Mixes(s) ==
    \/ \E o \in Senders \ {s} : Midway(o)
    \/ format = "proto" /\ Len(body[s]) >= Limit

Write(s) ==
    /\ writes[s] # <<>> /\ ~fin /\ ~broken
    /\ wire' = wire \o Head(writes[s])
    /\ writes' = [writes EXCEPT ![s] = Tail(@)]
    /\ sent' = IF Len(writes[s]) = 1 THEN Append(sent, body[s]) ELSE sent
    /\ garbled' = (garbled \/ Mixes(s))
    /\ UNCHANGED <<format, body, encodes, fin, decoderVars, broken>>

\* A Write fails, and Encode returns its error.
WriteFails(s) ==
    /\ writes[s] # <<>> /\ (fin \/ broken)
    /\ writes' = [writes EXCEPT ![s] = <<>>]
    /\ UNCHANGED <<format, body, encodes, fin, sent, garbled, decoderVars, wire, broken>>

\* What is out of a Write that a Close or the end of the session cuts: nothing,
\* or its bytes up to some point.
Cuts ==
    {[part |-> <<>>, mixes |-> FALSE]} \cup
    UNION {{[part |-> p, mixes |-> Mixes(s)] :
              p \in Prefixes(Head(writes[s])) \ {Head(writes[s]), <<>>}} :
             s \in {t \in Senders : writes[t] # <<>>}}

\* The stream is closed behind what was written.
Close ==
    /\ ~fin /\ fin' = TRUE
    /\ \E c \in Cuts :
          /\ broken => c.part = <<>>
          /\ wire' = wire \o c.part /\ garbled' = (garbled \/ c.mixes)
    /\ UNCHANGED <<format, writes, body, encodes, sent, decoderVars, broken>>

\* The session ends: of what was not read, something in front is left.
Break ==
    /\ ~broken /\ broken' = TRUE
    /\ \E c \in Cuts :
          /\ fin => c.part = <<>>
          /\ wire' \in Prefixes(wire \o c.part) /\ garbled' = (garbled \/ c.mixes)
    /\ UNCHANGED <<format, writes, body, encodes, fin, sent, decoderVars>>

(* -------------------------------- Decode -------------------------------- *)

\* Mutant: the reader waits on for what will not come.
StreamEnded_OnFin == FALSE

StreamEnded == fin \/ broken

Take(n) == wire' = SubSeq(wire, n + 1, Len(wire))

DecodeEnds(how) ==
    /\ reader' = how
    /\ UNCHANGED <<format, encoderVars, need, got, broken>>

\* io.ReadFull of n bytes: io.EOF only when there is not one byte, even when
\* the bytes are the data that a length has announced.
ReadFullFails(n) ==
    /\ Len(wire) < n /\ StreamEnded
    /\ Take(Len(wire))
    /\ DecodeEnds(IF wire = <<>> THEN "eof" ELSE "error")

\* Mutant: the reader takes the high byte first.
SizeOf_BigEndian(p) ==
    Totals([k \in 1 .. PrefixLen |-> p[k] * Weights[PrefixLen + 1 - k]])[PrefixLen]

\* Uint32(sizeBuf)
SizeOf(p) == Totals([k \in 1 .. PrefixLen |-> p[k] * Weights[k]])[PrefixLen]

DecodeSize ==
    /\ format = "proto" /\ reader = "size" /\ Len(wire) >= PrefixLen
    /\ need' = SizeOf(SubSeq(wire, 1, PrefixLen))
    /\ Take(PrefixLen) /\ reader' = "data"
    /\ UNCHANGED <<format, encoderVars, got, broken>>

\* Unmarshal accepts what was sent; of other bytes it may make a message too.
Unmarshal(b) ==
    \/ reader' = "size" /\ got' = Append(got, b) /\ UNCHANGED need
    \/ b \notin Bodies /\ reader' = "error" /\ UNCHANGED <<need, got>>

DecodeData ==
    /\ format = "proto" /\ reader = "data" /\ Len(wire) >= need
    /\ Take(need) /\ Unmarshal(SubSeq(wire, 1, need))
    /\ UNCHANGED <<format, encoderVars, broken>>

ProtoFails ==
    /\ format = "proto"
    /\ \/ reader = "size" /\ ReadFullFails(PrefixLen)
       \/ reader = "data" /\ ReadFullFails(need)

\* json.Decoder: the value up to its end, or what is missing of it.
DecodeValue ==
    /\ format = "json" /\ reader = "size" /\ Brace \in ToSet(wire)
    /\ LET n == Min({k \in 1 .. Len(wire) : wire[k] = Brace})
       IN  Take(n) /\ Unmarshal(SubSeq(wire, 1, n - 1))
    /\ UNCHANGED <<format, encoderVars, broken>>

JsonFails ==
    /\ format = "json" /\ reader = "size" /\ Brace \notin ToSet(wire)
    /\ ReadFullFails(Len(wire) + 1)

Decode == DecodeSize \/ DecodeData \/ ProtoFails \/ DecodeValue \/ JsonFails

Next ==
    \/ \E s \in Senders : (\E b \in Bodies : BeginEncode(s, b)) \/ Write(s) \/ WriteFails(s)
    \/ Close \/ Break \/ Decode

\* The reader is a goroutine (callConn.run) that calls Decode again and again.
Spec == Init /\ [][Next]_vars /\ WF_vars(Decode)

(* ------------------------------ Properties ------------------------------ *)

\* The fields have their types; what Decode awaits is a length the prefix can
\* hold; a message is made of bytes, whatever the format.
TypeOK ==
    /\ format \in Formats /\ writes \in [Senders -> Seq(Seq(0 .. Base))]
    /\ body \in [Senders -> Seq(Byte)] /\ encodes \in 0 .. MaxEncodes
    /\ wire \in Seq(0 .. Base) /\ {fin, broken, garbled} \subseteq BOOLEAN
    /\ reader \in {"size", "data", "eof", "error"} /\ need \in 0 .. Limit - 1
    /\ sent \in Seq(Bodies) /\ got \in Seq(Seq(Byte))

\* The reader never allocates more (proto.go:87) than a message that was sent
\* needs, wherever the stream is cut, as long as no two Encodes mix.
AllocatesWhatIsSent ==
    reader = "data" /\ ~garbled => \E b \in Bodies : need = Len(b)

\* As long as the Writes of two Encodes do not mix and every message fits its
\* prefix, the two ends are ends of a pipe of messages (what YamuxStream takes
\* for granted): messages arrive whole, once and in order, and Decode tells of
\* a clean end only if all were received or the session broke.  A Close between
\* the two Writes of an Encode (proto.go:65-69), or inside one, does not show as
\* a message.
Pipe == INSTANCE DuplexPipe WITH
    Ends <- {"writer", "reader"},
    Other <- LAMBDA e : IF e = "writer" THEN "reader" ELSE "writer",
    Message <- Seq(Byte), IsClose <- LAMBDA m : FALSE,
    out <- [e \in {"writer", "reader"} |-> IF e = "writer" THEN sent ELSE <<>>],
    in <- [e \in {"writer", "reader"} |-> IF e = "reader" THEN got ELSE <<>>],
    closed <- [e \in {"writer", "reader"} |-> e = "writer" /\ fin],
    eof <- [e \in {"writer", "reader"} |-> e = "reader" /\ reader = "eof"]

FramesAreAPipe ==
    Pipe!Init /\ [][garbled' \/ Pipe!Next]_<<sent, got, fin, broken, reader = "eof">>

(* The inductive invariant of this module: what is on the stream are the     *)
(* frames of the messages sent, and what the reader holds is where one ends. *)

\* What an Encode may hold: all of its Writes, or its message after the length.
Encoding ==
    \A s \in Senders : writes[s] # <<>> =>
        /\ body[s] \in Bodies
        /\ writes[s] = WritesOf(body[s]) \/ (Midway(s) /\ writes[s] = <<body[s]>>)

\* Braces are written, and lengths awaited, in their own format only.
OwnFormat ==
    IF format = "proto"
    THEN wire \in Seq(Byte) /\ writes \in [Senders -> Seq(Seq(Byte))]
    ELSE reader # "data"

Fits(b) == format = "proto" => Len(b) < Limit

\* Of the Encodes that do not mix one at most is between its Writes, and the
\* length it has written is that of its message.
Unmixed ==
    /\ \A s \in Senders : Midway(s) => Fits(body[s])
    /\ \A s, t \in Senders : Midway(s) /\ Midway(t) => s = t
    /\ \A i \in 1 .. Len(sent) : Fits(sent[i])

\* The bytes of a message on the stream.
Frame(form, b) ==
    IF form = "proto" THEN Prefix(Len(b)) \o b ELSE Append(b, Brace)

\* EndsOf(form, q)[i]: where in a stream the frame of the i-th message of q ends.
EndsOf(form, q) == Totals([i \in 1 .. Len(q) |-> Len(Frame(form, q[i]))])
FrameEnds == EndsOf(format, sent)

\* How far the reader is in the stream, and how far the stream goes when the
\* bytes w are left to be read.
ReadTo == FrameEnds[Len(got)] + (IF reader = "data" THEN PrefixLen ELSE 0)
StreamEnd(w) == ReadTo + Len(w)

\* The first n bytes of f are on the stream behind place at, of which the bytes
\* behind place r are w.
Lies(w, r, f, n, at) ==
    /\ at + n <= r + Len(w)
    /\ \A j \in 1 .. n : at + j > r => w[at + j - r] = f[j]

\* The frames of the messages sent up to the n-th are on the stream, unless read.
Intact(w, n) ==
    \A i \in Len(got) + 1 .. n :
        LET f == Frame(format, sent[i])
        IN  Lies(w, ReadTo, f, Len(f), FrameEnds[i - 1])

\* Behind the first n frames there is a part of the frame of b, and no more.
Begun(w, n, b) ==
    LET part == StreamEnd(w) - FrameEnds[n]
    IN  /\ b \in Bodies /\ Fits(b)
        /\ part \in 0 .. Len(Frame(format, b)) - 1
        /\ Lies(w, ReadTo, Frame(format, b), part, FrameEnds[n])
        /\ reader = "data" /\ Len(got) = n => need = Len(b)

EndsAt(w, n) == StreamEnd(w) = FrameEnds[n] \/ \E b \in Bodies : Begun(w, n, b)

\* The stream holds n frames and a part of the next: only an Encode under way,
\* or a stream that was cut, leaves a part.
Framed(n) ==
    /\ ~broken => n = Len(sent)
    /\ Intact(wire, n) /\ EndsAt(wire, n)
    /\ reader = "data" /\ Len(got) < n => need = Len(sent[Len(got) + 1])
    /\ ~fin /\ ~broken =>
          /\ \A s \in Senders : Midway(s) =>
                Begun(wire, n, body[s]) /\ StreamEnd(wire) = FrameEnds[n] + PrefixLen
          /\ (\A s \in Senders : ~Midway(s)) => StreamEnd(wire) = FrameEnds[n]

\* The reader is in the frames, as long as it reads.
InFrames == reader \in {"size", "data"} => \E n \in Len(got) .. Len(sent) : Framed(n)

Received == Len(got) <= Len(sent) /\ \A i \in 1 .. Len(got) : got[i] = sent[i]

\* As long as nothing mixes, the bytes left on the stream and the place of the
\* reader agree with the messages sent and decoded: what two Writes per message
\* (proto.go:65-69), cut anywhere, leave for two Reads per message (80-90).
FramingInv ==
    /\ TypeOK /\ Encoding /\ OwnFormat
    /\ ~garbled => Unmixed /\ Received /\ InFrames

\* When the stream has ended, Decode ends too (proto.go:73, callConn.run): even
\* a reader that has lost the frame boundaries waits for nothing.
DecoderEnds == fin \/ broken ~> reader \in {"eof", "error"}
=============================================================================
