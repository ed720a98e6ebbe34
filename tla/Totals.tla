------------------------------- MODULE Totals -------------------------------
(***************************************************************************)
(* Sums over the rows of a table whose ids are 1 .. n, as a recursive      *)
(* function so that TLC evaluates it and TLAPS can reason about it.        *)
(***************************************************************************)
EXTENDS Integers

\* The first i entries of a add up to RunningTotal(a, n)[i].
RunningTotal(a, n) ==
    LET sum[i \in 0..n] == IF i = 0 THEN 0 ELSE sum[i - 1] + a[i]
    IN  sum

Total(a, n) == RunningTotal(a, n)[n]
=============================================================================
