-------------------------------- MODULE Totals --------------------------------
(* The sum of the first n values of f, as a running total.                 *)
EXTENDS Integers

Total(f, n) ==
  LET t[k \in 0..n] == IF k = 0 THEN 0 ELSE t[k - 1] + f[k]
  IN t[n]
=============================================================================
