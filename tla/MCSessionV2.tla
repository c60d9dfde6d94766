---------------------------- MODULE MCSessionV2 -----------------------------
(* Instances of SessionV2 for TLC.  Liveness is checked without symmetry. *)
EXTENDS SessionV2
=============================================================================
