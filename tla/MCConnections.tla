--------------------------- MODULE MCConnections ---------------------------
(***************************************************************************)
(* Connections on a small instance.                                        *)
(***************************************************************************)
EXTENDS Connections
=============================================================================
