----------------------------- MODULE MCJobPool ------------------------------
(* JobPool on small instances.  The sentinels are model values.            *)
EXTENDS JobPoolInv, TLC

(* No action picks one job or child by its name.                           *)
Symmetry == Permutations(Jobs) \cup Permutations(Workers)

(* Bound of the run "pool": the service goes on.  The run "stop" drains    *)
(* and closes it at every point.                                           *)
InService == closing = "open" /\ drain = "no"
=============================================================================
