--------------------------- MODULE MCDelegateWave ---------------------------
(* Instantiates DelegateWave for TLC.                                      *)
EXTENDS DelegateWave
=============================================================================
