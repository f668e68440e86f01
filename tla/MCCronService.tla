--------------------------- MODULE MCCronService ---------------------------
(* One job that three edits add, move or switch; two services and starts, so *)
(* that there is one after a crash, or after a reload whose stopped service  *)
(* goes on and still writes.                                                 *)
EXTENDS CronService
=============================================================================
