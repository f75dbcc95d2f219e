----------------------------- MODULE YamuxStream -----------------------------
(***************************************************************************)
(* One stream of a yamux session (github.com/hashicorp/yamux), the byte    *)
(* pipe below a call of the tcp, unix and websocket transports.  The       *)
(* library is not part of the repository: it is modelled from what         *)
(* transport/common asks of it, with the default configuration that the    *)
(* transports select by passing a nil *yamux.Config.                       *)
(*                                                                         *)
(* The unit of transfer is one encoded Message.  A stream carries one      *)
(* direction per side and each side closes its own (FIN); a side that has  *)
(* closed still reads.  What is sent but not yet read is bounded by the    *)
(* flow-control window.                                                    *)
(***************************************************************************)
EXTENDS Naturals, Sequences

CONSTANT Window     \* messages one direction holds before its writer blocks

ASSUME WindowAssumption == Window \in Nat \ {0}

\* The side that opened the stream and the side that accepted it.
Sides == {"client", "server"}

Peer(s) == IF s = "client" THEN "server" ELSE "client"

VARIABLES
    link,   \* "up", or "down" once the session under the stream is gone
    fin,    \* fin[s]: s has called Stream.Close
    rst,    \* rst[s]: the stream was reset under s
    cut,    \* cut[s]: the pipe broke in the middle of a message of s
    wire,   \* wire[s]: messages of s that its peer has not read
    sent    \* sent[s]: every message s has written (history)

streamVars == <<link, fin, rst, cut, wire, sent>>

StreamInit ==
    /\ link = "up"
    /\ fin = [s \in Sides |-> FALSE]
    /\ rst = [s \in Sides |-> FALSE]
    /\ cut = [s \in Sides |-> FALSE]
    /\ wire = [s \in Sides |-> <<>>]
    /\ sent = [s \in Sides |-> <<>>]

\* Stream.Write fails once the session is gone, the stream was reset or the
\* writer's own half is closed; that the peer has closed its half does not
\* matter.  It blocks while the window is full.
Writable(s) == link = "up" /\ ~fin[s] /\ ~rst[s]

HasRoom(s) == Len(wire[s]) < Window

Write(s, m) ==
    /\ wire' = [wire EXCEPT ![s] = Append(@, m)]
    /\ sent' = [sent EXCEPT ![s] = Append(@, m)]

\* Stream.Read returns what was buffered before it reports the end of the
\* stream, except after a reset, which it reports at once.
Readable(s) == ~rst[s] /\ wire[Peer(s)] # <<>>

PeerEnded(s) == fin[Peer(s)] \/ rst[Peer(s)] \/ link = "down"

ReadsEof(s) == ~rst[s] /\ wire[Peer(s)] = <<>> /\ PeerEnded(s)

ReadsError(s) == rst[s] \/ (wire[Peer(s)] = <<>> /\ cut[Peer(s)])

Read(s) == wire' = [wire EXCEPT ![Peer(s)] = Tail(@)]

\* Stream.Close sends FIN behind everything written before.  If s is in the
\* middle of a write (busy), only a part of that message goes out.
CloseHalf(s, busy) ==
    /\ fin' = [fin EXCEPT ![s] = TRUE]
    /\ cut' \in {cut, [cut EXCEPT ![s] = @ \/ (busy /\ ~fin[s])]}
    /\ UNCHANGED <<link, rst, wire, sent>>

\* The session ends: the connection drops, or one of the transports is closed.
\* What has not arrived is lost.  Only if a message was lost, or was being
\* written (busy), can the pipe break inside one.
LinkDown(busy) ==
    /\ link = "up"
    /\ link' = "down"
    /\ \E kept \in [Sides -> 0 .. Window], broken \in [Sides -> BOOLEAN] :
          /\ \A s \in Sides :
                /\ kept[s] <= Len(wire[s])
                /\ broken[s] => busy[s] \/ kept[s] < Len(wire[s])
          /\ wire' = [s \in Sides |-> SubSeq(wire[s], 1, kept[s])]
          /\ cut' = [s \in Sides |-> cut[s] \/ broken[s]]
    /\ UNCHANGED <<fin, rst, sent>>

\* Mutant: a configuration that sets StreamCloseTimeout to 0.
CloseTimeout_Never(s, busy) == FALSE

\* StreamCloseTimeout: five minutes after s closed its half its peer has not
\* closed the other.  s gives the stream up and resets it under the peer, which
\* loses what it has not read.
CloseTimeout(s, busy) ==
    /\ link = "up"
    /\ fin[s] /\ ~fin[Peer(s)] /\ ~rst[Peer(s)]
    /\ rst' = [rst EXCEPT ![Peer(s)] = TRUE]
    /\ \E kept \in 0 .. Len(wire[Peer(s)]), broken \in BOOLEAN :
          /\ broken => busy[Peer(s)] \/ kept < Len(wire[Peer(s)])
          /\ wire' = [wire EXCEPT ![s] = <<>>,
                                  ![Peer(s)] = SubSeq(@, 1, kept)]
          /\ cut' = [cut EXCEPT ![Peer(s)] = @ \/ broken]
    /\ UNCHANGED <<link, fin, sent>>
=============================================================================
