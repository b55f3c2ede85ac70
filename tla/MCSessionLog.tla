---------------------------- MODULE MCSessionLog ----------------------------
(***************************************************************************)
(* Small instances of SessionLog for TLC: two operators, ann and bob, each *)
(* with a call sign of their own, and ann's station on the move, callAM.   *)
(***************************************************************************)
EXTENDS SessionLog, TLC

CONSTANTS ann, bob, callA, callB, callAM, NetControl

BaseOf == [cs \in Callsigns |-> IF cs = callAM THEN callA ELSE cs]
CallsignOf == [u \in Users |-> IF u = ann THEN callA ELSE callB]
BothLog == [u \in Users |-> "log"]
AnnManages == [u \in Users |-> IF u = ann THEN "manage" ELSE "log"]
=============================================================================
