-------------------------------- MODULE Sums --------------------------------
(* The sum of a sequence of numbers, as a function of how many it begins with. *)
EXTENDS Naturals, Sequences

SumOf(s) ==
    LET sum[i \in 0..Len(s)] == IF i = 0 THEN 0 ELSE sum[i - 1] + s[i]
    IN  sum[Len(s)]
=============================================================================
