-------------------------- MODULE MCCoordinatorRun --------------------------
(* Instantiates CoordinatorRun and its trace for TLC.                      *)
EXTENDS CoordinatorTrace
=============================================================================
