--------------------------- MODULE MCReproduction ----------------------------
(* Instances of Reproduction for TLC. *)
EXTENDS Reproduction

CONSTANTS i1, i2

\* One path to the crash; a longer one, seen by another installation; one that
\* ends elsewhere; no breadcrumbs and no installation.
MCKinds == {
  [trail |-> <<"open", "tap">>, stack |-> <<"main", "crash">>,
   inst |-> i1, os |-> "18", flag |-> None],
  [trail |-> <<"log", "open", "tap">>, stack |-> <<"push", "crash">>,
   inst |-> i2, os |-> "18", flag |-> "on"],
  [trail |-> <<"tap">>, stack |-> <<"vendor">>, inst |-> i1, os |-> None, flag |-> "on"],
  [trail |-> <<>>, stack |-> <<>>, inst |-> None, os |-> "17", flag |-> None]}
=============================================================================
