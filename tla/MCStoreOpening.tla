---------------------------- MODULE MCStoreOpening ----------------------------
(* Small instances of StoreOpening. *)
EXTENDS UpgradeRefinement, TLC

CONSTANTS p1, p2

ProcessSymmetry == Permutations({p1, p2})
=============================================================================
