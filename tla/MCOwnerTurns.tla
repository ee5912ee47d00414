---------------------------- MODULE MCOwnerTurns ----------------------------
(***************************************************************************)
(* OwnerTurns on a small instance: owners are interchangeable.             *)
(***************************************************************************)
EXTENDS OwnerTurns, TLC

Symmetry == Permutations(Owners)
=============================================================================
