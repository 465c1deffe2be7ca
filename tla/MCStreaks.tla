------------------------------ MODULE MCStreaks ------------------------------
(***************************************************************************)
(* Streaks for TLC: the two friends are interchangeable.                   *)
(***************************************************************************)
EXTENDS Streaks, TLC

Symmetry == Permutations(Users)
=============================================================================
