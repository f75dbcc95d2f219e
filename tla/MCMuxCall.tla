----------------------------- MODULE MCMuxCall -----------------------------
(***************************************************************************)
(* Instances of MuxCall for TLC.  Echo is handled under the key a receiver *)
(* computes from its INVOKE message, Absent is not handled at all.         *)
(***************************************************************************)
EXTENDS MuxCall

Echo == NewMethod(<<"Test", "Echo">>, MethodTypeBidiStream)
Absent == NewMethod(<<"Test", "Absent">>, MethodTypeUnary)

MCText ==
    Digits \cup {"Test", "Echo", "Absent", "payload", "handler error",
                 "TornError", "UnexpectedEOF"}

MCHandlers == {MethodOnWire(Echo)}
MCInvokedAll == {Echo, Absent}
MCInvokedEcho == {Echo}
MCPayloads == {<<"payload">>}
MCErrorTexts == {<<"handler error">>}

\* The stubs register a handler under the method itself.
MCRegistered == {Echo}

Most(client, server) == [s \in Sides |-> IF s = "client" THEN client ELSE server]
MCMost12 == Most(1, 2)
MCMost21 == Most(2, 1)
=============================================================================
