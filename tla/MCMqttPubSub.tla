---------------------------- MODULE MCMqttPubSub ----------------------------
(***************************************************************************)
(* Instances of MqttPubSub for TLC.                                        *)
(***************************************************************************)
EXTENDS MqttPubSub

CONSTANTS p1, m1, m2, c1, c2, k1, k2

MCPrograms == {p1}
MCMethods == {m1, m2}
MCCalls == {c1, c2}
MCMethodOf == [c \in MCCalls |-> IF c = c1 THEN m1 ELSE m2]
MCConsumers == {k1, k2}
MCHome == [k \in MCConsumers |-> p1]

\* Two calls of different methods, two consumers, a consumer that falls behind,
\* and a call and a consumer that share the router.
MCScenes ==
    {[calls |-> MCCalls, consumers |-> {}, news |-> 0],
     [calls |-> {}, consumers |-> MCConsumers, news |-> 2],
     [calls |-> {}, consumers |-> {k1}, news |-> 3],
     [calls |-> {c1}, consumers |-> {k1}, news |-> 2]}
=============================================================================
