--------------------------- MODULE MCSchemaUpgrade ---------------------------
(* Model values for the checks of SchemaUpgrade.                            *)
EXTENDS SchemaUpgrade, TLC

CONSTANTS console, updater, saved, seed, user, license

Symmetry == Permutations(Processes)

=============================================================================
