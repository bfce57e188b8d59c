---------------------------- MODULE Reproduction -----------------------------
(***************************************************************************)
(* app/reproduction: a request GET /v1/incidents/{id}/reproduction of one  *)
(* incident, while ingests store its events, retention deletes them and    *)
(* the installations report.  load_incident, load_events and each state    *)
(* lookup are statements of their own; build_reproduction then computes    *)
(* the scenario from what they returned.                                   *)
(*                                                                         *)
(* Events are numbered in order of occurrence, which is the order of every *)
(* list of them, so that a set stands for it.  An event says the things    *)
(* of its kind: trail (its breadcrumbs as step keys), stack (its frames),  *)
(* inst, os and flag.  os stands for the four keys read from contexts,     *)
(* push for the four read from a subject's state.  The incident's release  *)
(* and its commits are known, one for each changed file (module Context    *)
(* judges the other cases).                                                *)
(***************************************************************************)
EXTENDS Integers, FiniteSetsExt, SequencesExt

CONSTANTS
  Kinds,          \* what an event may say
  Installations,
  Deliverables,   \* values of a subject's state
  Unmapped,       \* step keys of kind UNMAPPED
  Mapped,         \* frames with a repository path
  Changed,        \* those whose file a commit of the incident's release changed
  None,           \* no value, no installation
  Bad,            \* a subject whose state cannot be evaluated
  MaxEvents,      \* bound: the incident's events
  MaxBreadcrumbs, \* max_breadcrumbs
  MinSupport      \* min_support, in hundredths

ASSUME ReproductionAssumption ==
  /\ MaxEvents \in Nat /\ MaxBreadcrumbs \in Nat /\ MinSupport \in 51 .. 100
  /\ Changed \subseteq Mapped /\ "UNKNOWN" \notin Mapped
  /\ None \notin Installations /\ Bad # None /\ "UNKNOWN" \notin Deliverables
  /\ \A k \in Kinds : /\ k.trail \in Seq(Range(k.trail)) /\ k.stack \in Seq(Range(k.stack))
                      /\ k.inst \in Installations \cup {None}

Events == 1 .. MaxEvents
States == Deliverables \cup {None, Bad}

VARIABLES
  kind,     \* what each event says
  incident, \* the incident row is stored
  stored,   \* incident_event
  state,    \* the evaluated state of an installation
  at,       \* the request's next statement: idle, incident, events, lookup, answer
  frames,   \* the places of the frames that load_incident returned
  events,   \* what load_events returned
  found,    \* the states found for the events looked up so far
  purged    \* history: retention has run during the request

tables == <<kind, incident, stored, state>>
request == <<at, frames, events, found>>
vars == <<tables, request, purged>>

-----------------------------------------------------------------------------
(* The scenario, from events evs and frames fs.                            *)

Trail(e) == kind[e].trail

\* A bug: events without breadcrumbs are not set aside.
WithAnySteps(evs) == evs

\* The events that have breadcrumbs.
WithSteps(evs) == {e \in evs : Trail(e) # <<>>}

\* _common_suffix: how many steps at their end all sequences of T share.
CommonSuffix(T) ==
  LET length == Min({Len(t) : t \in T})
      grow[n \in 0 .. length] ==
        IF n < length /\ \A s, t \in T : s[Len(s) - n] = t[Len(t) - n]
          THEN grow[n + 1] ELSE n
  IN  grow[0]

Core(evs) == CommonSuffix({Trail(e) : e \in WithSteps(evs)})

\* What each event did before the shared steps.
Before(evs) ==
  LET core == Core(evs)
  IN  [e \in WithSteps(evs) |-> SubSeq(Trail(e), 1, Len(Trail(e)) - core)]

Steps(evs) ==
  IF WithSteps(evs) = {} THEN <<>>
  ELSE LET reference == Trail(Min(WithSteps(evs)))
       IN  SubSeq(reference, Len(reference) - Core(evs) + 1, Len(reference))

\* A bug: events whose whole trail is shared are in no variant.
VariantsThatDiffer(evs) ==
  LET before == Before(evs) IN
  {[prefix |-> p, events |-> {e \in DOMAIN before : before[e] = p}] :
     p \in Range(before) \ {<<>>}}

\* The events by what they did before the shared steps, if any did something.
Variants(evs) ==
  LET before == Before(evs)
      prefixes == IF WithSteps(evs) = {} THEN {} ELSE Range(before)
  IN  IF prefixes \subseteq {<<>>} THEN {}
      ELSE {[prefix |-> p, events |-> {e \in DOMAIN before : before[e] = p}] : p \in prefixes}

\* _event_values: what each event says for key k, given the found states.
Said(evs, k) ==
  LET value(e) == IF k = "push" THEN found[e] ELSE kind[e][k]
  IN  [e \in evs |-> IF value(e) = None THEN "UNKNOWN" ELSE value(e)]

KeysOf(evs) ==
  IF evs = {} THEN {}
  ELSE {"os", "push"} \cup {k \in {"flag"} : \E e \in evs : kind[e].flag # None}

Count(said, v) == Cardinality({e \in DOMAIN said : said[e] = v})

\* The value most events say, of those the one that is said first.
Top(said) ==
  LET most == Max({Count(said, v) : v \in Range(said)})
  IN  said[Min({e \in DOMAIN said : Count(said, said[e]) = most})]

AllUnknown(said) == Range(said) \subseteq {"UNKNOWN"}

\* The top value is a precondition if enough of the events say it.
Agreed(said) ==
  Top(said) # "UNKNOWN" /\ 100 * Count(said, Top(said)) >= MinSupport * Cardinality(DOMAIN said)

\* A bug: the share is taken of the events that have a value.
PreconditionsOfKnown(evs) ==
  {k \in KeysOf(evs) :
     LET said == Said(evs, k)
         known == {e \in evs : said[e] # "UNKNOWN"}
     IN  known # {} /\ Agreed(Restrict(said, known))}

Preconditions(evs) == {k \in KeysOf(evs) : Agreed(Said(evs, k))}

Varies(evs) == {k \in KeysOf(evs) : ~AllUnknown(Said(evs, k))} \ Preconditions(evs)

\* The frame at place p, the n-th frame of event e being at <<e, n>>.
Frame(p) == kind[p[1]].stack[p[2]]
Frames(ps) == {Frame(p) : p \in ps}

\* The order of the places.
Precedes(p, q) == p[1] < q[1] \/ (p[1] = q[1] /\ p[2] < q[2])
LastOf(ps) == CHOOSE p \in ps : \A q \in ps \ {p} : Precedes(q, p)

Culprit(ps) ==
  LET mapped == {p \in ps : Frame(p) \in Mapped}
  IN  IF mapped = {} THEN "UNKNOWN" ELSE Frame(LastOf(mapped))

Gaps(evs, ps) ==
  LET on(code, es) == IF es = {} THEN {} ELSE {[code |-> code, events |-> es]}
  IN  on("NO_BREADCRUMBS", {e \in evs : Trail(e) = <<>>})
      \cup on("BREADCRUMBS_TRUNCATED", {e \in evs : Len(Trail(e)) >= MaxBreadcrumbs})
      \cup on("UNMAPPED_STEPS", {e \in evs : ToSet(Trail(e)) \cap Unmapped # {}})
      \cup on("SINGLE_EVENT", IF Cardinality(evs) = 1 THEN evs ELSE {})
      \cup on("ACCOUNT_STATE_UNKNOWN", IF AllUnknown(Said(evs, "push")) THEN evs ELSE {})
      \cup {[code |-> c, events |-> evs] :
               c \in IF Culprit(ps) = "UNKNOWN" THEN {"CULPRIT_UNMAPPABLE"} ELSE {}}

\* The suspects of the incident's context: commits that changed a mapped frame.
Suspects(ps) == IF Culprit(ps) = "UNKNOWN" THEN {"UNKNOWN"} ELSE Changed \cap Frames(ps)

\* The ids of the packet that the model explains the scenario from.  (Variants
\* and gaps are numbered in the code; here a prefix and a code tell them apart.)
repro_packet(evs, ps) ==
  UNION {{<<"incident">>, <<"failure">>},
         {<<"step", n>> : n \in DOMAIN Steps(evs)},
         {<<"variant", v.prefix>> : v \in Variants(evs)},
         {<<"precondition", k>> : k \in Preconditions(evs)},
         {<<"varies", k>> : k \in Varies(evs)},
         {<<"gap", g.code>> : g \in Gaps(evs, ps)},
         {<<"suspect", f>> : f \in Suspects(ps) \ {"UNKNOWN"}},
         IF Suspects(ps) \in {{}, {"UNKNOWN"}} THEN {<<"suspects">>} ELSE {}}

\* A bug: gaps may be left out.
critical_ids_known(packet) ==
  {id \in packet : id[1] \in {"precondition", "suspect", "failure", "suspects"}}

\* What the evaluation asks of a narrative that is written from the packet.
critical_ids(packet) ==
  {id \in packet : id[1] \in {"precondition", "gap", "suspect", "failure", "suspects"}}

-----------------------------------------------------------------------------
(* The request.                                                            *)

\* load_incident: the frames of the events of S, each at the place where it
\* comes first.
FramesOf(S) ==
  LET places == UNION {{e} \X DOMAIN kind[e].stack : e \in S}
  IN  {p \in places : ~\E q \in places : Frame(q) = Frame(p) /\ Precedes(q, p)}

Init ==
  /\ kind \in [Events -> Kinds]
  /\ incident = FALSE /\ stored = {}
  /\ state = [i \in Installations |-> None]
  /\ at = "idle" /\ frames = {} /\ events = {} /\ found = <<>>
  /\ purged = FALSE

\* The end of a request.
Over == at' = "idle" /\ frames' = {} /\ events' = {} /\ found' = <<>>

\* An incident that is not ingested is answered with a 404.
load_incident ==
  /\ at = "idle" /\ incident
  /\ frames' = FramesOf(stored)
  /\ at' = "events"
  /\ purged' = FALSE
  /\ UNCHANGED <<tables, events, found>>

\* A bug: only the latest event is loaded.
load_events_latest ==
  /\ at = "events"
  /\ events' = {e \in stored : \A f \in stored : f <= e}
  /\ at' = IF stored = {} THEN "answer" ELSE "lookup"
  /\ UNCHANGED <<tables, frames, found, purged>>

load_events ==
  /\ at = "events"
  /\ events' = stored
  /\ at' = IF stored = {} THEN "answer" ELSE "lookup"
  /\ UNCHANGED <<tables, frames, found, purged>>

\* The next event's state is v; one that no normalizer knows fails the request
\* with a 500.
Found(v) ==
  LET next == Min(events \ DOMAIN found)
      looked == DOMAIN found \cup {next}
  IN  IF v = Bad THEN Over
      ELSE /\ found' = [e \in looked |-> IF e = next THEN v ELSE found[e]]
           /\ at' = IF looked = events THEN "answer" ELSE "lookup"
           /\ UNCHANGED <<frames, events>>

\* A bug: the lookups are not cached.
lookup_uncached ==
  /\ at = "lookup"
  /\ LET inst == kind[Min(events \ DOMAIN found)].inst
     IN  Found(IF inst = None THEN None ELSE state[inst])
  /\ UNCHANGED <<tables, purged>>

\* The state of the next event's installation, asked for once per request.
lookup ==
  /\ at = "lookup"
  /\ LET inst == kind[Min(events \ DOMAIN found)].inst
         cached == {e \in DOMAIN found : kind[e].inst = inst}
     IN  Found(IF inst = None THEN None
               ELSE IF cached # {} THEN found[CHOOSE e \in cached : TRUE]
               ELSE state[inst])
  /\ UNCHANGED <<tables, purged>>

\* The scenario of events and frames is built and sent.
Answer ==
  /\ at = "answer"
  /\ Over
  /\ UNCHANGED <<tables, purged>>

\* An ingest commits one more event, also one that was deleted.
Store ==
  /\ \E e \in Events \ stored : stored' = stored \cup {e}
  /\ incident' = TRUE
  /\ UNCHANGED <<kind, state, request, purged>>

\* Retention deletes the events before its cutoff.
Purge ==
  /\ \E c \in stored : stored' = {e \in stored : e > c}
  /\ purged' = TRUE
  /\ UNCHANGED <<kind, incident, state, request>>

\* A report changes the state of an installation.
Observed ==
  /\ \E i \in Installations, v \in States \ {None} : state' = [state EXCEPT ![i] = v]
  /\ UNCHANGED <<kind, incident, stored, request, purged>>

Next == load_incident \/ load_events \/ lookup \/ Answer \/ Store \/ Purge \/ Observed

Spec == Init /\ [][Next]_vars

-----------------------------------------------------------------------------
\* reproduce.py: "the common suffix ending at the crash is the core": all trails
\* end with the steps, and with no longer sequence.
StepsShared ==
  at = "answer" =>
    LET trails == {Trail(e) : e \in events} \ {<<>>}
        steps == Steps(events)
    IN  /\ \A t \in trails : IsSuffix(steps, t)
        /\ \A t \in trails : t # steps => \E s \in trails :
             ~IsSuffix(SubSeq(t, Len(t) - Len(steps), Len(t)), s)

\* reproduce.py: "what differs before it is a variant": the variants tell of
\* every event that has a trail, once, how it came to the shared steps.
VariantsTell ==
  at = "answer" =>
    LET steps == Steps(events)
        variants == Variants(events)
    IN  \A e \in events : Trail(e) # <<>> =>
          IF variants = {} THEN Trail(e) = steps
          ELSE /\ Cardinality({v \in variants : e \in v.events}) = 1
               /\ \A v \in variants : e \in v.events => v.prefix \o steps = Trail(e)

\* reproduce.py: "a value only becomes a precondition if every event agrees;
\* what varies is reported as varying" (with min_support 1.0, as configured), and
\* a state that no event knows is a gap.  So it reaches the model, in the packet,
\* and grade.py asks a narrative for all of it but what varies: "conditions to
\* set up, known gaps, the failure itself and the suspect lead (or its absence)".
NothingGuessed ==
  at = "answer" /\ MinSupport = 100 =>
    LET packet == repro_packet(events, frames)
        critical == critical_ids(packet)
    IN  /\ \A k \in {"os", "flag", "push"} :
             LET said == Range(Said(events, k)) IN
             /\ <<"precondition", k>> \in critical <=> Cardinality(said) = 1 /\ said # {"UNKNOWN"}
             /\ <<"varies", k>> \in packet \ critical <=> Cardinality(said) > 1
             /\ k = "push" /\ said = {"UNKNOWN"} => <<"gap", "ACCOUNT_STATE_UNKNOWN">> \in critical
        /\ <<"suspects">> \in critical <=> Frames(frames) \cap Changed = {}
        /\ <<"failure">> \in critical

\* A state reported as varying varies between subjects: a report that comes in
\* during the request does not make one installation disagree with itself.
StateVariesBySubject ==
  at = "answer" /\ "push" \in Varies(events) =>
    \E e, f \in events : kind[e].inst # kind[f].inst

\* The culprit frame, and every frame that makes a commit a suspect, is of an
\* event that the scenario considers, unless retention deleted the event between
\* the two reads.
CulpritConsidered ==
  at = "answer" /\ ~purged =>
    \A f \in {Culprit(frames)} \cup Suspects(frames) :
      f # "UNKNOWN" => \E e \in events : f \in ToSet(kind[e].stack)

\* context.py: suspects are "ranked by how close to the crash the matching frame
\* is (frames are oldest-first; the crashing frame is last)": the last frame of
\* the loaded ones is where some event crashed.  Not so when two events reach
\* one crash frame on different paths: what is new in the second event's stack
\* is put behind the crash frame that load_incident already has.
CrashingFrameLast ==
  at = "answer" /\ ~purged /\ frames # {} =>
    \E e \in events : kind[e].stack # <<>> /\ Last(kind[e].stack) = Frame(LastOf(frames))
=============================================================================
