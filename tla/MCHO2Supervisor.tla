--------------------------- MODULE MCHO2Supervisor ---------------------------
(* Model checking a session: its constants are numbers, given in the .cfg.  *)
EXTENDS HO2Supervisor
=============================================================================
