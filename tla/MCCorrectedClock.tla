--------------------------- MODULE MCCorrectedClock ---------------------------
(* CorrectedClock on small instances: the .cfg file gives the constants values. *)
EXTENDS CorrectedClock
===============================================================================
