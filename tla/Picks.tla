------------------------------- MODULE Picks --------------------------------
(***************************************************************************)
(* The elements of a sequence that belong to a set, in their order: what   *)
(* SelectSeq is for a test.  It is written without recursion, so that the  *)
(* proofs can use it: position i of the sequence holds the Rank-th pick.   *)
(***************************************************************************)
EXTENDS Naturals, Sequences, FiniteSets

Places(q, W) == {i \in 1 .. Len(q) : q[i] \in W}

Rank(q, W, i) == Cardinality({j \in Places(q, W) : j <= i})

Picked(q, W) ==
    [n \in 1 .. Cardinality(Places(q, W)) |->
        q[CHOOSE i \in Places(q, W) : Rank(q, W, i) = n]]
=============================================================================
