--------------------------- MODULE MCConnections ---------------------------
(***************************************************************************)
(* Small instances of Connections for TLC.                                  *)
(***************************************************************************)
EXTENDS Connections

CONSTANTS c1, c2
=============================================================================
