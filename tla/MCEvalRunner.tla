---------------------------- MODULE MCEvalRunner ------------------------------
(* Instances of EvalRunner for TLC. *)
EXTENDS EvalRunner, TLC

MCVariants == {"v1"}
MCLastRep == [baseline |-> 1, v1 |-> 0]
AnyNarrative == Permutations(Narratives)
=============================================================================
