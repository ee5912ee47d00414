----------------------------- MODULE MCJobDrain -----------------------------
(* JobDrain on small instances.  The sentinels are model values.           *)
EXTENDS JobDrain, TLC
=============================================================================
