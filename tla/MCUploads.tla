----------------------------- MODULE MCUploads -----------------------------
(***************************************************************************)
(* A small instance of Uploads for TLC: an SFTP connection, and one for scp   *)
(* and the exec commands.                                                   *)
(***************************************************************************)
EXTENDS Uploads, TLC

CONSTANTS c1, c2, a, b, c

OneOfEach == [x \in {c1, c2} |-> IF x = c1 THEN {"sftp"} ELSE {"scp -t", "scp -f", "exec"}]
Symmetry == Permutations(Names)
=============================================================================
