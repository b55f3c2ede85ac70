---------------------------- MODULE MCNetFiles ----------------------------
(***************************************************************************)
(* Small instances of NetFiles for TLC: nets A and B look alike, C is like    *)
(* neither; A has s1, changed since it was exported, and its export s3 too.  *)
(***************************************************************************)
EXTENDS NetFiles

CONSTANTS w1, w2, a, b, c, s1, s2, s3

JustA == [id \in {1} |-> a]
AlikeAB == {<<a, b>>, <<b, a>>}
OneRow == {[net |-> 1, session |-> s1, is |-> "here"]}
SmallExport == {[name |-> a, sessions |-> {s1, s3}]}
SessionFile == {[name |-> c, sessions |-> {s3}]}
UpstreamNets == [n \in {a, c} |-> IF n = a THEN {s1, s3} ELSE {}]
=============================================================================
