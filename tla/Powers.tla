------------------------------- MODULE Powers -------------------------------
(***************************************************************************)
(* Powers of two, as a function its theorems can be proved about.           *)
(***************************************************************************)
EXTENDS Naturals

\* 2^n: the shift 1 << n, in unbounded arithmetic.
Pow2[n \in Nat] == IF n = 0 THEN 1 ELSE 2 * Pow2[n - 1]
=============================================================================
