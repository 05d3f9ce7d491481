-------------------------- MODULE MCSessionManager --------------------------
(***************************************************************************)
(* The agents of the sessions, for the runs of SessionManager.             *)
(***************************************************************************)
EXTENDS SessionManager, TLC

CONSTANTS a1, a2, s1, s2, s3, s4

OneAgent  == [s \in Sessions |-> a1]
TwoAgents == [s \in Sessions |-> IF s = s4 THEN a2 ELSE a1]
=============================================================================
