--------------------------- MODULE MCSharedSession ---------------------------
(* Small instances of SharedSession. *)
EXTENDS SharedSession, TLC

SessionSymmetry == Permutations(Callers) \cup Permutations(Containers)
=============================================================================
