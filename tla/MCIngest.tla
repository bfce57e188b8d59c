------------------------------ MODULE MCIngest -------------------------------
(* Instances of Ingest for TLC: three versions over three commits. *)
EXTENDS Ingest, TLC

CONSTANTS k1, k2

MCVersions == 1 .. 3

\* Commit 2 names a ticket, commit 3 names it and another one.
MCTicketsOf == (1 :> {}) @@ (2 :> {k1}) @@ (3 :> {k1, k2})

\* k2 is unknown to Jira.
MCJiraKey == (k1 :> k1) @@ (k2 :> Missing)

NoTag == [v \in MCVersions |-> 0]
FirstTagged == [NoTag EXCEPT ![1] = 1]
=============================================================================
