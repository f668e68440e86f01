----------------------------- MODULE MCTurnLoop -----------------------------
(***************************************************************************)
(* The turn loop has no model values: every constant is a number or a      *)
(* truth value, given in the .cfg files.                                   *)
(***************************************************************************)
EXTENDS TurnLoop
=============================================================================
