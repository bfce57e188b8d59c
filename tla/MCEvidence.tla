----------------------------- MODULE MCEvidence ------------------------------
(* Instances of Evidence for TLC. *)
EXTENDS Evidence

CONSTANTS i1, i2
=============================================================================
