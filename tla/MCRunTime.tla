------------------------------- MODULE MCRunTime -------------------------------
(* Small instances of RunTime for TLC. *)
EXTENDS RunTime, TLC

CONSTANTS p1, p2, r1, r2

RunSymmetry == Permutations({r1, r2})
=============================================================================
