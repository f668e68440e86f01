---------------------------- MODULE MCAgentLoop ----------------------------
(***************************************************************************)
(* Instances of the agent loop for TLC.  Chat messages are a, b and c;     *)
(* stop is a /stop, cmd a command answered without a turn, sys a system    *)
(* message on the main session.                                            *)
(***************************************************************************)
EXTENDS AgentLoop, TLC

CONSTANTS a, b, c, stop, cmd, sys, s1, main1

MCKindOf ==
  [m \in Messages |->
     CASE m = stop -> "stop" [] m = cmd -> "command" [] m = sys -> "system" [] OTHER -> "chat"]

\* All routed messages belong to one session.
OneSession == [m \in Messages |-> IF m = sys THEN main1 ELSE s1]

\* Chat messages of one session differ in nothing but their name.
ChatSymmetry == Permutations({a, b, c})
=============================================================================
