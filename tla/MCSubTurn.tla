------------------------------ MODULE MCSubTurn ------------------------------
(***************************************************************************)
(* A session r calls c and waits, and spawns d in the background; c spawns *)
(* g1 and g2 in the background.  All of them are turns of one agent.       *)
(***************************************************************************)
EXTENDS SubTurn

CONSTANTS r, c, d, g1, g2, agent

MCParent == [t \in Turns |-> IF t = r THEN None ELSE IF t \in {c, d} THEN r ELSE c]
MCAgentOf == [t \in Turns |-> agent]
==============================================================================
