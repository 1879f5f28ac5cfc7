--------------------------- MODULE MCRunRefinement ---------------------------
(* Small instances of RunRefinement for TLC. *)
EXTENDS RunRefinement, TLC

CONSTANTS p1, p2, r1, r2, c1, c2, a, b

\* Runs, input contracts and results are only ever compared for equality.
RunSymmetry == Permutations({r1, r2}) \cup Permutations({c1, c2}) \cup Permutations({a, b})
=============================================================================
