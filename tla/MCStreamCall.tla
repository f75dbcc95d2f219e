---------------------------- MODULE MCStreamCall ----------------------------
(***************************************************************************)
(* Instances of StreamCall for TLC: one handled method, one payload that   *)
(* decodes and one that does not.                                          *)
(***************************************************************************)
EXTENDS StreamCall

Chat == NewMethod(<<"Test", "Chat">>, MethodTypeBidiStream)

MCText ==
    Digits \cup {"Test", "Chat", "payload", "garbage", "handler error",
                 "TornError", "UnexpectedEOF"}

MCInvoked == {Chat}
MCHandlers == {MethodOnWire(Chat)}
MCPayloads == {<<"payload">>, <<"garbage">>}
MCGarbled == {<<"garbage">>}
MCErrorTexts == {<<"handler error">>}

Most(client, server) == [s \in Sides |-> IF s = "client" THEN client ELSE server]

\* Streams of each kind with a payload that decodes and one that does not, and
\* a client stream one message longer than the window, a reader and the handler
\* can hold, so that its Send and its final CLOSE do block.
MCLoads ==
    {[kind |-> k, payloads |-> MCPayloads, most |-> Most(2, 2)] :
        k \in {"client", "server"}}
    \cup {[kind |-> "bidi", payloads |-> MCPayloads, most |-> Most(1, 2)],
          [kind |-> "client", payloads |-> {<<"payload">>}, most |-> Most(4, 0)]}

MCMost == Most(4, 2)
=============================================================================
