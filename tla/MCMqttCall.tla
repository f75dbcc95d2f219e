----------------------------- MODULE MCMqttCall -----------------------------
(***************************************************************************)
(* Instances of MqttCall for TLC.                                          *)
(***************************************************************************)
EXTENDS MqttCall

MCText == Digits \cup {"payload", "handler error"}
MCPayloads == {<<"payload">>}
MCErrorTexts == {<<"handler error">>}

\* The ACK is the first message of the server.
Most(client, server) == [s \in Sides |-> IF s = "client" THEN client ELSE server]
MCMost12 == Most(1, 2)
MCMost14 == Most(1, 4)
MCMost20 == Most(2, 0)
=============================================================================
