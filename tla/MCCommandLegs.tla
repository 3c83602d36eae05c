---------------------------- MODULE MCCommandLegs ----------------------------
(* Small instances of CommandLegs: a timeout without room for a walk; one    *)
(* for a walk as long as the activity window and one collect target; one for *)
(* three targets and a retry, with a snapshot interval beyond the margin and *)
(* the window.                                                               *)
EXTENDS CommandLegs

Some(c, f, i) == [command |-> c, fly |-> f, interval |-> i]
SomeSettings == {Some(1, 2, 10), Some(4, 3, 15), Some(8, 9, 70)}
LongWalks == {Some(6, 6, 10)}
Raisable == {Some(4, 3, 15), Some(8, 9, 15)}
=============================================================================
