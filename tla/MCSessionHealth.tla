--------------------------- MODULE MCSessionHealth ---------------------------
(* Instances of SessionHealth for TLC. *)
EXTENDS SessionHealth
=============================================================================
