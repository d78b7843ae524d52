------------------------------- MODULE Totals --------------------------------
(***************************************************************************)
(* The sum of the values of a function to the naturals.  It is defined by  *)
(* counting, not by recursion, so that the proofs can reason about it with *)
(* the theorems on finite sets.                                            *)
(***************************************************************************)
EXTENDS Integers, FiniteSets

\* A set with f[i] elements for each i in the domain of f.
Units(f) == UNION {{i} \X (1..f[i]) : i \in DOMAIN f}

Total(f) == Cardinality(Units(f))
=============================================================================
