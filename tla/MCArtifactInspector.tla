---------------------------- MODULE MCArtifactInspector --------------------------
(* Small instances of ArtifactInspector. *)
EXTENDS ArtifactInspector, TLC

CONSTANTS b1, b2

BlobSymmetry == Permutations({b1, b2})
=============================================================================
