-------------------------------- MODULE Sums --------------------------------
(***************************************************************************)
(* The totals of a sequence of numbers: SumSet of the community modules    *)
(* adds up sets; here the order counts, and the totals on the way are what *)
(* is wanted.                                                              *)
(***************************************************************************)
EXTENDS Naturals, Sequences

\* Totals(f)[k] is f[1] + ... + f[k].
Totals(f) ==
    LET total[k \in 0 .. Len(f)] == IF k = 0 THEN 0 ELSE total[k - 1] + f[k]
    IN  total
=============================================================================
