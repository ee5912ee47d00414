---------------------------- MODULE MCClientCall ----------------------------
(***************************************************************************)
(* ClientCall on a small instance: the clock runs until any call is over.  *)
(***************************************************************************)
EXTENDS ClientCall
=============================================================================
