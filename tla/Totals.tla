-------------------------------- MODULE Totals --------------------------------
(***************************************************************************)
(* Sums over arrays, in which the properties count what was written.       *)
(***************************************************************************)
EXTENDS Integers

\* The sum of f[1], ..., f[n].
Total(f, n) ==
  LET sum[i \in 0..n] == IF i = 0 THEN 0 ELSE sum[i - 1] + f[i]
  IN  sum[n]
=============================================================================
