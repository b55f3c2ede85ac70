--------------------------- MODULE MCDataRefresh ---------------------------
(***************************************************************************)
(* Small instances of DataRefresh for TLC: two instances on one database.  *)
(***************************************************************************)
EXTENDS DataRefresh, TLC

CONSTANTS here, there

(* The instances are interchangeable.                                       *)
Symmetry == Permutations(Instances)
=============================================================================
