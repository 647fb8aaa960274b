----------------------------- MODULE MCTurnQueue -----------------------------
(* Small instances of TurnQueue.  A system whose operations have all settled *)
(* stops, hence CHECK_DEADLOCK FALSE in the configurations.                  *)
EXTENDS TurnQueue

CONSTANTS o1, o2, o3, o4, s1, s2
=============================================================================
