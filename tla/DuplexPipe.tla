----------------------------- MODULE DuplexPipe -----------------------------
(***************************************************************************)
(* What a Conn promises its two users, whatever carries it: in each        *)
(* direction a reliable, ordered pipe that may break.  A user receives     *)
(* what its peer sent, once and in order; it is told of the end only when  *)
(* its peer ended the direction and nothing is missing, or the pipe broke. *)
(***************************************************************************)
EXTENDS Naturals, Sequences

CONSTANTS Ends, Other(_), Message, IsClose(_)

VARIABLES
    out,    \* out[e]: what e has sent
    in,     \* in[e]: what e has received
    closed, \* closed[e]: e sends no more
    broken, \* the pipe is broken
    eof     \* eof[e]: the last receive of e reported the end

pipeVars == <<out, in, closed, broken, eof>>

Init ==
    /\ out = [e \in Ends |-> <<>>] /\ in = [e \in Ends |-> <<>>]
    /\ closed = [e \in Ends |-> FALSE] /\ eof = [e \in Ends |-> FALSE]
    /\ ~broken

Send(e) ==
    /\ ~closed[e] /\ ~broken
    /\ out'[e] \in Seq(Message) /\ Len(out'[e]) = Len(out[e]) + 1
    /\ out' = [out EXCEPT ![e] = Append(@, out'[e][Len(@) + 1])]
    /\ UNCHANGED <<in, closed, broken, eof>>

\* A received CLOSE message is reported as an end too.
Receive(e) ==
    /\ Len(in[e]) < Len(out[Other(e)])
    /\ LET m == out[Other(e)][Len(in[e]) + 1]
       IN  /\ in' = [in EXCEPT ![e] = Append(@, m)]
           /\ eof' = [eof EXCEPT ![e] = IsClose(m)]
    /\ UNCHANGED <<out, closed, broken>>

ReceiveEnd(e) ==
    /\ broken \/ (closed[Other(e)] /\ in[e] = out[Other(e)])
    /\ eof' = [eof EXCEPT ![e] = TRUE]
    /\ UNCHANGED <<out, in, closed, broken>>

\* Any other outcome of a receive.
ReceiveNothing(e) ==
    /\ eof' = [eof EXCEPT ![e] = FALSE]
    /\ UNCHANGED <<out, in, closed, broken>>

Close(e) ==
    /\ closed' = [closed EXCEPT ![e] = TRUE]
    /\ UNCHANGED <<out, in, broken, eof>>

Break ==
    /\ broken'
    /\ UNCHANGED <<out, in, closed, eof>>

Next ==
    \/ Break
    \/ \E e \in Ends :
          Send(e) \/ Receive(e) \/ ReceiveEnd(e) \/ ReceiveNothing(e) \/ Close(e)

Spec == Init /\ [][Next]_pipeVars
=============================================================================
