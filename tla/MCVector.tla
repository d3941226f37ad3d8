------------------------------ MODULE MCVector ------------------------------
(* A small instance of Vector for TLC. *)
EXTENDS Vector, TLC

CONSTANTS a, b

MCItem == {a, b}
MCInitCapacities == 0 .. 3
MCSymmetry == Permutations(MCItem)
=============================================================================
