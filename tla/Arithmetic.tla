----------------------------- MODULE Arithmetic ------------------------------
(***************************************************************************)
(* Powers of two and sums: what shifts, the check of --buffer and the      *)
(* iterators of src/hist.rs compute.                                       *)
(***************************************************************************)
EXTENDS Naturals, FiniteSetsExt

(* 1 shifted left by n.                                                    *)
Pow2[n \in Nat] == IF n = 0 THEN 1 ELSE 2 * Pow2[n - 1]

(* The sum of the values of f at the members of S.                         *)
SumOver(f, S) == MapThenSumSet(LAMBDA x : f[x], S)
=============================================================================
