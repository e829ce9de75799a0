---------------------------- MODULE MCBreachMonitor ----------------------------
(* BreachMonitor with two addresses, two breaches, and a check beside the  *)
(* daily job.  No symmetry: the run checks liveness.                       *)
EXTENDS BreachMonitor
=============================================================================
