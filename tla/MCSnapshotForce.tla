--------------------------- MODULE MCSnapshotForce ---------------------------
(* Small instances of SnapshotForce. *)
EXTENDS SnapshotForce, TLC

CallerSymmetry == Permutations(Callers)
=============================================================================
