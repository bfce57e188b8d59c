------------------------------ MODULE MCContext ------------------------------
(* Instances of Context for TLC: two overlapping first ingests. *)
EXTENDS Context, TLC

CONSTANT k1

MCVersions == 1 .. 2
MCNone == [v \in MCVersions |-> 0]

\* Commit 2 names a ticket.
MCTicketsOf == (1 :> {}) @@ (2 :> {k1})
MCJiraKey == k1 :> k1
=============================================================================
