--------------------------- MODULE MCStreamHandle ---------------------------
(* Instantiates StreamHandle for TLC.                                      *)
EXTENDS StreamHandle
=============================================================================
