------------------------------ MODULE MCExplain ------------------------------
(* Instances of Explain for TLC: two packets of one subject (the evidence    *)
(* changed between two ingests) whose ids overlap, and an id of neither.     *)
EXTENDS Explain, TLC

CONSTANTS p1, p2, s1, a, b, z

MCSubjectOf == (p1 :> s1) @@ (p2 :> s1)
MCIdsOf == (p1 :> {a, b}) @@ (p2 :> {b})

\* fully grounded; one sentence to drop; half-known citation; nothing grounded
MCDrafts == {{{a}}, {{b}, {}}, {{a, z}, {b}}, {{z}}}
=============================================================================
