--------------------------- MODULE MCRunStatusReader ---------------------------
(* Small instances of RunStatusReader for TLC. *)
EXTENDS RunStatusReader, TLC

CONSTANTS p1, p2, r1, r2

\* Runs are told apart by their canonical identifier only, and processes by
\* their pid.
RunSymmetry == Permutations({r1, r2}) \cup Permutations({p1, p2})
=============================================================================
