-------------------------- MODULE MCCollisionCells --------------------------
(***************************************************************************)
(* Instances of CollisionCells for TLC: distances a sphere can move.       *)
(***************************************************************************)
EXTENDS CollisionCells

Still == {0}
BackAndForth == {-1, 0, 1}
Backward == {-1, 0}
=============================================================================
