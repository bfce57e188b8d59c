---------------------------- MODULE MCConnectors -----------------------------
(* Instances of Connectors for TLC: three rows in two pages at the start,    *)
(* a fourth can be created.                                                  *)
EXTENDS Connectors

MCInitRows == <<"i1", "i2", "i3">>
=============================================================================
