---------------------------- MODULE MCServerStop ----------------------------
(***************************************************************************)
(* ServerStop on a small instance.                                         *)
(***************************************************************************)
EXTENDS ServerStop

MCLines == {"drain", "stop", "request"}
=============================================================================
