------------------------ MODULE MCSnapshotCoherence ------------------------
(* A world of a few chunks in a row. *)
EXTENDS SnapshotCoherence, TLC

Row(n) == {<<x, 0>> : x \in 0..(n - 1)}
Three == Row(3)
=============================================================================
