----------------------------- MODULE MCEventBus -----------------------------
(* Two publishers, one of which does not wait; a logger that keeps the       *)
(* newest events, a bridge that blocks its publishers and handles one event, *)
(* in its worker or in a goroutine of its own.                               *)
EXTENDS EventBus, TLC

CONSTANTS waiting, urgent, logger, bridge

MCPolicy == (logger :> "drop_oldest") @@ (bridge :> "block")
=============================================================================
