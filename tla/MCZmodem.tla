----------------------------- MODULE MCZmodem -----------------------------
(***************************************************************************)
(* A batch for TLC: a file of three blocks, whose first has bytes that look     *)
(* like a garbled header when they are skipped, one too big, and an empty one; *)
(* garbled blocks (numbered 0) look like one too.                           *)
(***************************************************************************)
EXTENDS Zmodem

ThreeFiles == <<3, 1, 0>>
Second == {2}
FirstBlock == {<<1, 1>>, <<1, 0>>}
=============================================================================
