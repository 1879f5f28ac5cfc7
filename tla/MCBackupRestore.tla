---------------------------- MODULE MCBackupRestore ----------------------------
(* Small instances of BackupRestore. *)
EXTENDS RestoreRefinement, TLC

CONSTANTS o1, o2, b1, b2

ObjectSymmetry == Permutations({o1, o2})
=============================================================================
