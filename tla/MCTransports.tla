---------------------------- MODULE MCTransports ----------------------------
(***************************************************************************)
(* Instances of Transports for TLC: one goroutine or two that use the      *)
(* client, which connects at most twice.                                   *)
(***************************************************************************)
EXTENDS Transports

CONSTANTS u1, u2, s1, s2

MCUsers == {u1, u2}
MCOneUser == {u1}
MCSessions == {s1, s2}
=============================================================================
