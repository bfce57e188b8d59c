---------------------------- MODULE ReleaseImpact -----------------------------
(***************************************************************************)
(* app/releases: GET /v1/releases/{version}/impact while ingest and        *)
(* retention commit.  The request is a row of statements, each on the      *)
(* tables of its own moment; build_release_impact then judges what they    *)
(* returned.  There is one Sentry issue, whose life and whose ingest are   *)
(* those of module Regression; releases are numbered in semver order.      *)
(*                                                                         *)
(* load_release_graph is one read here (module Context shows that its      *)
(* statements act as one), and what the session totals say of a release    *)
(* is any health (module SessionHealth says when it is right).             *)
(***************************************************************************)
EXTENDS Regression

CONSTANTS
  Files,
  FramesOf,  \* the files that the stack of the issue's events names, by their
             \* release: none for a minified bundle
  Changed,   \* the files that the commits of a release changed
  TagSets,   \* the sets of tagged versions that an ingest may list
  Bases,     \* the baselines that requests name, None for none
  MaxTable   \* bound: how much happens in Sentry for requests and retention to run

ASSUME ImpactAssumption ==
  /\ Releases \subseteq Nat \ {0}
  /\ FramesOf \in [Releases -> SUBSET Files] /\ Changed \in [Releases -> SUBSET Files]
  /\ TagSets \subseteq SUBSET Releases /\ Bases \subseteq Releases \cup {None}
  /\ MaxTable \in Nat

VARIABLES
  tagged,   \* release: the versions with a tag
  row,      \* incident: the issue's first and last regressed release, or NoIncident
  kept,     \* incident_event: positions in events
  purged,   \* history: those that retention has ever deleted
  at,       \* the statement the request executes next, or "none"
  got       \* what the request asked for and its statements returned

tables == <<tagged, row, kept, purged>>
request == <<at, got>>

NoIncident == [first |-> None, regressed |-> None]
Listed == [listed |-> FALSE, count |-> 0, frames |-> {}]
NoRequest == [version |-> None, base |-> None, tags |-> {},
              new |-> Listed, regressed |-> Listed]

\* The stored events of release v.
EventsIn(v) == {e \in kept : events[e].release = v}

-----------------------------------------------------------------------------
(* The judgement.                                                          *)

Problems == {"NO_SESSION_DATA", "HEALTH_PENDING", "INSUFFICIENT_ADOPTION"}
Rates == {"good", "bad"}
Healths == Problems \cup Rates

\* The tagged version before v, if v has one.
Previous(tags, v) ==
  LET older == {u \in tags : u < v} IN
  IF v \notin tags \/ older = {} THEN None ELSE CHOOSE u \in older : \A x \in older : x <= u

Baseline(g) == IF g.base # None THEN g.base ELSE Previous(g.tags, g.version)

\* build_incident_context's suspects for an issue, new or regressed, in
\* g.version: commits that changed a file of its frames.
Attribution(g, i) ==
  IF Previous(g.tags, g.version) = None \/ i.frames = {} THEN "UNKNOWN"
  ELSE IF Changed[g.version] \cap i.frames # {} THEN "suspects" ELSE "none"

CodeOf == [UNKNOWN  |-> "NEW_ISSUE_ATTRIBUTION_UNKNOWN",
           suspects |-> "NEW_ISSUE_ATTRIBUTED",
           none     |-> "NEW_ISSUE_UNATTRIBUTED"]

\* A bug: the baseline's problem is reported only with one of its own.
BaselineFindingsBoth(own, base) ==
  IF own \in Rates /\ base \in Rates
  THEN IF own = "bad" /\ base = "good" THEN {"CRASH_RATE_REGRESSION"}
       ELSE IF own = "good" /\ base = "bad" THEN {"CRASH_RATE_IMPROVED"} ELSE {}
  ELSE IF base \in Problems /\ own \in Problems THEN {"NO_BASELINE_HEALTH"} ELSE {}

\* The findings of comparing the health own with the baseline's.
BaselineFindings(own, base) ==
  IF own \in Rates /\ base \in Rates
  THEN IF own = "bad" /\ base = "good" THEN {"CRASH_RATE_REGRESSION"}
       ELSE IF own = "good" /\ base = "bad" THEN {"CRASH_RATE_IMPROVED"} ELSE {}
  ELSE IF base \in Problems /\ own \notin Problems THEN {"NO_BASELINE_HEALTH"} ELSE {}

\* The impact of g.version, with its own health and its baseline's.
build_release_impact(g, own, base) ==
  [change_set |-> IF g.version \in g.tags THEN "KNOWN" ELSE "UNKNOWN",
   baseline   |-> Baseline(g),
   delta      |-> IF Baseline(g) = None THEN "none"
                  ELSE IF own \in Rates /\ base \in Rates THEN "KNOWN" ELSE "UNKNOWN",
   volume     |-> IF own \in Rates THEN "KNOWN" ELSE "UNKNOWN",
   errors     |-> g.new.count + g.regressed.count,
   new        |-> IF g.new.listed THEN {Attribution(g, g.new)} ELSE {},
   regressed  |-> IF g.regressed.listed THEN {Attribution(g, g.regressed)} ELSE {},
   findings   |->
     UNION {IF g.version \in g.tags THEN {} ELSE {"RELEASE_NOT_FOUND"},
            {own} \cap Problems,
            IF Baseline(g) = None THEN {} ELSE BaselineFindings(own, base),
            IF g.new.listed THEN {CodeOf[Attribution(g, g.new)]} ELSE {},
            IF g.regressed.listed THEN {"ISSUE_REGRESSED"} ELSE {}}]

\* Health.crash_free: a rate, or why there is none.
CrashFree(h) == IF h \in Rates THEN h ELSE IF h = "HEALTH_PENDING" THEN "PENDING" ELSE "UNKNOWN"

\* The metrics, the change set and the issues of a, as items of a packet.  (An
\* issue's id does not tell the two lists apart in the code.)
Facts(a, own, base) ==
  {[id |-> "metric-health", says |-> CrashFree(own)],
   [id |-> "metric-baseline_health", says |-> IF a.baseline = None THEN "UNKNOWN" ELSE CrashFree(base)],
   [id |-> "metric-delta_pp", says |-> IF a.delta = "none" THEN "NOT_COMPUTED" ELSE a.delta],
   [id |-> "metric-error_volume_per_1k", says |-> a.volume],
   [id |-> "change_set", says |-> a.change_set]}
  \cup {[id |-> "issue-new", says |-> s] : s \in a.new}
  \cup {[id |-> "issue-regressed", says |-> s] : s \in a.regressed}

\* A bug: the model is not given the findings that have no issue.
release_packet_bare(a, own, base) ==
  Facts(a, own, base) \cup {[id |-> "finding", says |-> f] : f \in a.findings \ Problems}

\* The packet that the model summarises the impact from.
release_packet(a, own, base) ==
  Facts(a, own, base) \cup {[id |-> "finding", says |-> f] : f \in a.findings}

-----------------------------------------------------------------------------
ImpactInit ==
  /\ Init
  /\ tagged = {} /\ row = NoIncident /\ kept = {} /\ purged = {}
  /\ at = "none" /\ got = NoRequest

\* Sentry's side, and the first of the two reads of an issue that it lists.
Sentry ==
  /\ \/ (now < MaxTable \/ (at = "none" /\ purged = {})) /\ (Resolve \/ Seen)
     \/ events # <<>> /\ GetIssue
  /\ UNCHANGED <<tables, request>>

\* A bug: the events are not committed with their incident.
StoreIncidentOnly ==
  /\ StoreIncident
  /\ row' = [first |-> events[1].release, regressed |-> stored']
  /\ \E t \in TagSets : tagged \subseteq t /\ tagged' = t
  /\ UNCHANGED <<kept, purged, request>>

\* The ingest that read the issue commits: its incident row, all the events
\* Sentry has, and the tags it listed.
Ingest ==
  /\ StoreIncident
  /\ row' = [first |-> events[1].release, regressed |-> stored']
  /\ kept' = DOMAIN events
  /\ \E t \in TagSets : tagged \subseteq t /\ tagged' = t
  /\ UNCHANGED <<purged, request>>

\* Retention deletes the events before some cutoff, and no other row.
Purge ==
  /\ now <= MaxTable
  /\ \E e \in kept :
       /\ kept' = {x \in kept : e < x}
       /\ purged' = purged \cup (kept \ kept')
  /\ UNCHANGED <<vars, tagged, row, request>>

\* Is there a release row for v?  note_release adds those without a tag.
release_exists(v) ==
  v \in tagged \/ row.first = v \/ \E e \in kept \cup purged : events[e].release = v

\* A request for a version there is no row of ends at once, with a 404.
Ask ==
  /\ at = "none" /\ now <= MaxTable
  /\ \E v \in Releases, b \in Bases :
       /\ release_exists(v)
       /\ got' = [NoRequest EXCEPT !.version = v, !.base = b]
  /\ at' = "graph"
  /\ UNCHANGED <<vars, tables>>

\* load_release_graph; a baseline without a tag is refused with a 400.
LoadGraph ==
  /\ at = "graph"
  /\ IF got.base \in tagged \cup {None}
     THEN at' = "new ids" /\ got' = [got EXCEPT !.tags = tagged]
     ELSE at' = "none" /\ got' = NoRequest
  /\ UNCHANGED <<vars, tables>>

\* A statement of load_release_issues: label, the next label, and what it adds.
Read(label, next, g) ==
  /\ at = label
  /\ at' = next
  /\ got' = g
  /\ UNCHANGED <<vars, tables>>

NewIds == Read("new ids", "regressed ids", [got EXCEPT !.new.listed = row.first = got.version])
RegressedIds ==
  Read("regressed ids", "new count", [got EXCEPT !.regressed.listed = row.regressed = got.version])

\* _issue_inputs, twice: the events of the version, then load_incident with
\* the frames of all stored events of the issue.
CountIn(i) == IF i.listed THEN Cardinality(EventsIn(got.version)) ELSE 0
\* A bug: the stack of the issue's oldest event for that of all.
FramesInOldest(i) ==
  IF i.listed
  THEN UNION {FramesOf[events[e].release] : e \in {x \in kept : \A y \in kept : x <= y}}
  ELSE {}
FramesIn(i) == IF i.listed THEN UNION {FramesOf[events[e].release] : e \in kept} ELSE {}

NewCount == Read("new count", "new frames", [got EXCEPT !.new.count = CountIn(got.new)])
NewFrames == Read("new frames", "regressed count", [got EXCEPT !.new.frames = FramesIn(got.new)])
RegressedCount ==
  Read("regressed count", "regressed frames", [got EXCEPT !.regressed.count = CountIn(got.regressed)])
RegressedFrames ==
  Read("regressed frames", "answer", [got EXCEPT !.regressed.frames = FramesIn(got.regressed)])

\* The totals are read and the answer is sent: build_release_impact of any healths.
Answer == Read("answer", "none", NoRequest)

Request ==
  \/ Ask \/ LoadGraph \/ NewIds \/ RegressedIds
  \/ NewCount \/ NewFrames \/ RegressedCount \/ RegressedFrames \/ Answer

ImpactNext == Sentry \/ Ingest \/ Purge \/ Request

ImpactSpec == ImpactInit /\ [][ImpactNext]_<<vars, tables, request>>

-----------------------------------------------------------------------------
\* README: "when the evidence is missing or ambiguous, the answer is `UNKNOWN`
\* with a finding explaining why".  What is missing in the packet, the only input of
\* the model, has a finding in it, also when only the baseline's health is missing;
\* a difference is NOT_COMPUTED only where there is no baseline; and a verdict on
\* the crash rate is given on two known healths.  Two things missing have no
\* finding of their own in the code, and none is asked for here: the attribution
\* of a regressed issue, and the baseline's health where there is no baseline
\* or the release's own is missing too (that one has a finding).
UnknownsExplained ==
  at = "answer" => \A own, base \in Healths :
    LET packet == release_packet(build_release_impact(got, own, base), own, base)
        says(id, what) == [id |-> id, says |-> what] \in packet
        missing(id) == says(id, "UNKNOWN") \/ says(id, "PENDING")
        found(codes) == \E f \in codes : says("finding", f)
    IN
    /\ missing("change_set") => found({"RELEASE_NOT_FOUND"})
    /\ missing("metric-health") \/ missing("metric-error_volume_per_1k") => found(Problems)
    /\ missing("metric-baseline_health") =>
         says("metric-delta_pp", "NOT_COMPUTED") \/ found(Problems \cup {"NO_BASELINE_HEALTH"})
    /\ missing("metric-delta_pp") => found(Problems \cup {"NO_BASELINE_HEALTH"})
    /\ says("metric-delta_pp", "NOT_COMPUTED") => missing("metric-baseline_health")
    /\ missing("issue-new") => found({"NEW_ISSUE_ATTRIBUTION_UNKNOWN"})
    /\ found({"CRASH_RATE_REGRESSION", "CRASH_RATE_IMPROVED"}) => {own, base} \subseteq Rates

\* README: what is not known is "never quietly turned into ... no suspects".  The
\* frames are read two statements and more after the issue was listed, and from
\* all its stored events, whatever release they are of: a release that changed a
\* file of the issue's stack in it is cleared only if retention has deleted an
\* event of the issue in that release.  (Then it is cleared if other frames are
\* left that name files.)
NeverCleared ==
  at = "answer" => \A h \in Healths :
    LET a == build_release_impact(got, h, h)
        received == {e \in DOMAIN events : events[e].release = got.version}
    IN "none" \in a.new \cup a.regressed /\ FramesOf[got.version] \cap Changed[got.version] # {} =>
         purged \cap received # {}

\* The events behind the error volume: every listed issue has at least one in
\* the release (unless retention deleted it), although issue and events are
\* read apart; and none is counted that Sentry has not received, nor one twice
\* but those of an issue that regressed in the release it was first seen in.
VolumeOfListedIssues ==
  at = "answer" =>
    LET received == {e \in DOMAIN events : events[e].release = got.version}
        lists == {got.new, got.regressed}
    IN /\ \A i \in lists : i.listed /\ purged \cap received = {} => i.count > 0
       /\ \A i \in lists : i.count <= Cardinality(received)
       /\ ~(got.new.listed /\ got.regressed.listed) =>
            got.new.count + got.regressed.count <= Cardinality(received)
=============================================================================
