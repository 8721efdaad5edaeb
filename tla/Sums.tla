-------------------------------- MODULE Sums --------------------------------
(***************************************************************************)
(* The running sums of a sequence of numbers, as a recursive function:     *)
(* proofs can unfold it, which they cannot do with a fold.                 *)
(***************************************************************************)
EXTENDS Integers, Sequences

Sums(f) ==
    LET sum[i \in 0 .. Len(f)] == IF i = 0 THEN 0 ELSE sum[i - 1] + f[i]
    IN  sum
=============================================================================
