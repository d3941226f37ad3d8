----------------------------- MODULE MCTSQueue -----------------------------
(* Small instances of TSQueue for TLC. *)
EXTENDS TSQueue, TLC

CONSTANTS a, b, user, service

MCItem == {a, b}
MCThread == {user, service}
MCCapacities == {1, 2, 4}
MCSymmetry == Permutations(MCItem) \union Permutations(MCThread)
=============================================================================
