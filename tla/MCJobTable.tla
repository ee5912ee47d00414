----------------------------- MODULE MCJobTable -----------------------------
(***************************************************************************)
(* JobTable on small instances: ids and owners are interchangeable.        *)
(***************************************************************************)
EXTENDS JobTable, TLC

Symmetry == Permutations(Ids) \cup Permutations(Owners)
=============================================================================
