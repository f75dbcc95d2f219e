----------------------------- MODULE MCFraming -----------------------------
(***************************************************************************)
(* An instance of Framing for TLC: bytes of two values and a prefix of two *)
(* of them, which holds lengths up to 3; of the messages that two senders  *)
(* encode one fits, one looks like a length and one is too long.           *)
(***************************************************************************)
EXTENDS Framing

CONSTANTS s1, s2

MCWeights == <<1, 2>>
MCSenders == {s1, s2}
MCBodies == {<<1>>, <<1, 0, 1>>, <<0, 1, 0, 1, 1>>}
MCFormats == {"proto", "json"}
=============================================================================
