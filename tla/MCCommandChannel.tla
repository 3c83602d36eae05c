-------------------------- MODULE MCCommandChannel --------------------------
(* Small instances of CommandChannel for TLC. *)
EXTENDS CommandChannel, TLC

CallerSymmetry == Permutations(Callers)
=============================================================================
