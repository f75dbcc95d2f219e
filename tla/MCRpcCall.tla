----------------------------- MODULE MCRpcCall -----------------------------
(***************************************************************************)
(* Instances of RpcCall for TLC: one method that is handled and one that   *)
(* is not, one payload that decodes and one that does not.                 *)
(***************************************************************************)
EXTENDS RpcCall

Square == NewMethod(<<"Test", "Square">>, MethodTypeUnary)
Absent == NewMethod(<<"Test", "Absent">>, MethodTypeUnary)

MCText ==
    Digits \cup {"Test", "Square", "Absent", "payload", "garbage",
                 "handler error", "TornError", "UnexpectedEOF"}

MCInvoked == {Square, Absent}
MCHandlers == {MethodOnWire(Square)}
MCPayloads == {<<"payload">>, <<"garbage">>}
MCGarbled == {<<"garbage">>}
MCErrorTexts == {<<"handler error">>}

\* INVOKE and a request one way, a response the other.
MCMostRpc == [s \in Sides |-> IF s = "client" THEN 2 ELSE 1]
=============================================================================
