------------------------------- MODULE Context -------------------------------
(***************************************************************************)
(* app/incidents: a request GET /v1/incidents/{id}/context while ingest    *)
(* jobs commit.  load_release_graph is five statements, and READ COMMITTED *)
(* gives each of them the tables as they are when it runs; the answer is   *)
(* then computed from what they returned.  Requests do not change tables,  *)
(* so one at a time stands for any number of them.                         *)
(*                                                                         *)
(* An incident is the version of its first release, the commits that touch *)
(* a file of its stack, and whether any of its frames names such a file;   *)
(* a release name that is no version is answered like an untagged version. *)
(***************************************************************************)
EXTENDS Ingest, Sequences

CONSTANT Touching   \* the commits that changed a file of the incident's stack

ASSUME TouchingAssumption == Touching \subseteq Commits

VARIABLES
  at,       \* the statement the request executes next, 0 without a request
  graph,    \* what the statements returned so far
  seen      \* history: the committed tables during the request

readVars == <<at, graph, seen>>

\* A bug: the statements in the order of the tables' names.
OrderTagsLast == <<"files", "keys", "commits", "tickets", "tagged">>

\* load_release_graph's statements in their order.
Order == <<"tagged", "files", "keys", "commits", "tickets">>
Build == Len(Order) + 1

\* What the statements return on tables d.  A commit's changed_file rows
\* stand with its commit row.
GraphOf(d) ==
  [tagged  |-> {v \in Versions : d.release[v] = "tagged"},
   files   |-> d.commits,
   keys    |-> d.links,
   commits |-> {x \in d.contents : x[2] \in d.commits},
   tickets |-> {k \in Keys : d.tickets[k] # "none"}]

NoGraph == GraphOf(NoRows)

\* Has version v an earlier tagged version?
HasPrevious(g, v) == \E u \in g.tagged : u < v

\* The commits of version v, and the ticket keys of a commit, in graph g.
CommitsOf(g, v) == {c \in Commits : <<v, c>> \in g.commits}
KeysOf(g, c) == {k \in TicketsOf[c] : <<c, k>> \in g.keys}

Unknown == [state |-> "UNKNOWN", commits |-> {}, tickets |-> {},
            suspects |-> "UNKNOWN", shas |-> {}, finding |-> "RELEASE_NOT_FOUND"]

\* The context of an incident of version v; m: a frame is mapped to a file.
build_incident_context(g, v, m) ==
  LET own == CommitsOf(g, v)
      judged == HasPrevious(g, v) /\ m
      shas == IF judged THEN own \cap g.files \cap Touching ELSE {}
  IN  IF v \notin g.tagged THEN Unknown ELSE
      [state    |-> "KNOWN",
       commits  |-> {[sha |-> c, files |-> c \in g.files, keys |-> KeysOf(g, c)] : c \in own},
       tickets  |-> g.tickets \cap UNION {KeysOf(g, c) : c \in own},
       suspects |-> IF judged THEN "KNOWN" ELSE "UNKNOWN",
       shas     |-> shas,
       finding  |-> IF ~HasPrevious(g, v) THEN "NO_PREVIOUS_RELEASE"
                    ELSE IF ~m THEN "FRAMES_UNMAPPABLE"
                    ELSE IF shas = {} THEN "NO_SUSPECT_COMMIT" ELSE "none"]

-----------------------------------------------------------------------------
ContextInit ==
  /\ Init
  /\ at = 0
  /\ graph = NoGraph
  /\ seen = {}

\* A request arrives and its incident is found.
get_incident_context ==
  /\ at = 0
  /\ at' = 1
  /\ seen' = {db}
  /\ UNCHANGED <<vars, graph>>

\* One statement of load_release_graph.
Query ==
  /\ at \in 1 .. Len(Order)
  /\ graph' = [graph EXCEPT ![Order[at]] = GraphOf(db)[Order[at]]]
  /\ at' = at + 1
  /\ UNCHANGED <<vars, seen>>

\* The answer is computed and sent: build_incident_context(graph, v, m) for the request's incident.
Answer ==
  /\ at = Build
  /\ at' = 0
  /\ graph' = NoGraph
  /\ seen' = {}
  /\ UNCHANGED vars

\* An ingest job or a vendor moves meanwhile.
Meanwhile ==
  /\ Next
  /\ seen' = IF at = 0 THEN {} ELSE seen \cup {db'}
  /\ UNCHANGED <<at, graph>>

ContextNext == get_incident_context \/ Query \/ Answer \/ Meanwhile

ContextSpec == ContextInit /\ [][ContextNext]_<<vars, readVars>>

-----------------------------------------------------------------------------
\* The five statements act as one: the answer for any incident is the one that
\* the tables of a single moment of the request give.  (Where tags are only
\* created on top.)
AnswerOfOneMoment ==
  at = Build => \A v \in Versions, m \in BOOLEAN : \E d \in seen :
    build_incident_context(graph, v, m) = build_incident_context(GraphOf(d), v, m)

\* context.py: "a missing release or unmappable frames is reported as UNKNOWN
\* .. never coerced into no suspects".  Nor is a commit cleared because its
\* files were read before it was ingested: when suspects are stated, every
\* commit of the release was judged by its files, with its ticket keys, and
\* the tickets Jira stores under these keys are there.
SuspectsJudged ==
  at = Build => \A v \in Versions :
    LET answer == build_incident_context(graph, v, TRUE) IN
    answer.suspects = "KNOWN" => \A c \in answer.commits :
      /\ c.files
      /\ c.keys = TicketsOf[c.sha]
      /\ \A k \in c.keys : StoredKey(k) = k => k \in answer.tickets
=============================================================================
