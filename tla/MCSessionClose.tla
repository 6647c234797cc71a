--------------------------- MODULE MCSessionClose ---------------------------
(* Instances of SessionClose for TLC.                                      *)
EXTENDS SessionClose, TLC
=============================================================================
