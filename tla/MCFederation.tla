--------------------------- MODULE MCFederation ---------------------------
(***************************************************************************)
(* Small instances of Federation for TLC: nets A and B look alike, s1 and s2 *)
(* were logged in A on different days, x1 was an ad hoc net.                *)
(***************************************************************************)
EXTENDS Federation

CONSTANTS a, b, c, s1, s2, x, x1, f1, f2, fx, fA, fB, fX, k1, k2

MCHomeOf == [n \in Sessions |-> IF n = x1 THEN x ELSE a]
MCFileOf == [n \in Sessions |-> CASE n = s1 -> f1 [] n = s2 -> f2 [] OTHER -> fx]
SameDay == [n \in Sessions |-> CASE n = s1 -> f1 [] n = s2 -> f1 [] OTHER -> fx]
MCNetFile == [n \in Names |-> CASE n = a -> fA [] n = b -> fB [] OTHER -> fX]
MCAlike == {<<a, b>>, <<b, a>>}
NoNets == [id \in {} |-> a]
HasA == [id \in {1} |-> a]
HasB == [id \in {1} |-> b]
HasC == [id \in {1} |-> c]
=============================================================================
