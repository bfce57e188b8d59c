------------------------------ MODULE Evidence -------------------------------
(***************************************************************************)
(* What of Sentry's events is in the database: the scheduled task runs     *)
(* app.ingest and, if that succeeded, app.retention (infra/modules/jobs).  *)
(* Sentry goes on receiving events; each half of the task may fail.        *)
(*                                                                         *)
(* Time is counted in days.  The task runs several times a day, so at      *)
(* least one run ends, well or badly, before a day is over; it may have    *)
(* begun the day before.  (The sessions that the same run counts are the   *)
(* subject of module SessionHealth.)                                       *)
(***************************************************************************)
EXTENDS Naturals, Sequences

CONSTANTS
  Issues,
  IngestDays,    \* --days: how far back ingest asks Sentry
  RetentionDays, \* retention_days of the organisation
  LastDay,       \* bound: the clock
  MaxEvents,     \* bound: how many events Sentry receives
  MaxFailures    \* how many runs may fail in a row

ASSUME EvidenceAssumption ==
  /\ IngestDays \in Nat /\ RetentionDays \in Nat
  /\ LastDay \in Nat /\ MaxEvents \in Nat /\ MaxFailures \in Nat

VARIABLES
  today,
  sentry,    \* Sentry's events in order of arrival: [issue, day]
  stored,    \* incident_event: positions in sentry
  incidents, \* incident: issues
  pc,        \* where the task is: idle, issues, purge
  listing,   \* the issues of this run still to copy
  txn,       \* what the run has written so far
  ran,       \* a run ended today
  failures   \* how many runs in a row have failed

vars == <<today, sentry, stored, incidents, pc, listing, txn, ran, failures>>
tables == <<stored, incidents>>
world == <<today, sentry>>

Positions == 1 .. Len(sentry)
NoRows == [events |-> {}, incidents |-> {}]

\* Is day d at most n days ago?
Within(d, n) == d + n >= today

EventsOf(i) == {e \in Positions : sentry[e].issue = i}

-----------------------------------------------------------------------------
Init ==
  /\ today = 0
  /\ sentry = <<>>
  /\ stored = {} /\ incidents = {}
  /\ pc = "idle" /\ listing = {} /\ txn = NoRows
  /\ ran = FALSE
  /\ failures = 0

\* A device reports an event.
Receive ==
  /\ Len(sentry) < MaxEvents
  /\ \E i \in Issues : sentry' = Append(sentry, [issue |-> i, day |-> today])
  /\ UNCHANGED <<today, tables, pc, listing, txn, ran, failures>>

NextDay ==
  /\ today < LastDay /\ ran
  /\ today' = today + 1
  /\ ran' = FALSE
  /\ UNCHANGED <<sentry, tables, pc, listing, txn, failures>>

\* A bug: Sentry's default window instead of the one asked for.
ListIssuesShortWindow ==
  /\ pc = "idle"
  /\ listing' = {i \in Issues : \E e \in EventsOf(i) : Within(sentry[e].day, 0)}
  /\ txn' = NoRows
  /\ pc' = "issues"
  /\ UNCHANGED <<world, tables, ran, failures>>

\* Sentry's list_issues for the window: the issues seen in it.
ListIssues ==
  /\ pc = "idle"
  /\ listing' = {i \in Issues : \E e \in EventsOf(i) : Within(sentry[e].day, IngestDays)}
  /\ txn' = NoRows
  /\ pc' = "issues"
  /\ UNCHANGED <<world, tables, ran, failures>>

\* A bug: the incident is not stored with its events.
IngestIssueEventsOnly ==
  /\ pc = "issues"
  /\ \E i \in listing :
       /\ txn' = [txn EXCEPT !.events = @ \cup EventsOf(i)]
       /\ listing' = listing \ {i}
  /\ UNCHANGED <<world, tables, pc, ran, failures>>

\* One issue with all the events Sentry has of it, however old.
IngestIssue ==
  /\ pc = "issues"
  /\ \E i \in listing :
       /\ txn' = [txn EXCEPT !.incidents = @ \cup {i}, !.events = @ \cup EventsOf(i)]
       /\ listing' = listing \ {i}
  /\ UNCHANGED <<world, tables, pc, ran, failures>>

\* A bug: the shell does not go on with retention.
CommitAlone ==
  /\ pc = "issues" /\ listing = {}
  /\ stored' = stored \cup txn.events
  /\ incidents' = incidents \cup txn.incidents
  /\ txn' = NoRows
  /\ pc' = "idle"
  /\ ran' = TRUE /\ failures' = 0
  /\ UNCHANGED <<world, listing>>

\* ingest commits; the shell goes on with retention.
Commit ==
  /\ pc = "issues" /\ listing = {}
  /\ stored' = stored \cup txn.events
  /\ incidents' = incidents \cup txn.incidents
  /\ txn' = NoRows
  /\ pc' = "purge"
  /\ UNCHANGED <<world, listing, ran, failures>>

\* A bug: events are kept for a day too long.
PurgeLate ==
  /\ pc = "purge"
  /\ stored' = {e \in stored : Within(sentry[e].day, RetentionDays + 1)}
  /\ ran' = TRUE /\ failures' = 0
  /\ pc' = "idle"
  /\ UNCHANGED <<world, incidents, listing, txn>>

\* retention: one transaction, and the end of a run that succeeded.
Purge ==
  /\ pc = "purge"
  /\ stored' = {e \in stored : Within(sentry[e].day, RetentionDays)}
  /\ ran' = TRUE /\ failures' = 0
  /\ pc' = "idle"
  /\ UNCHANGED <<world, incidents, listing, txn>>

\* A half of the task raises or is killed: its transaction is undone, and
\* after a failed ingest retention is not started.
Fail ==
  /\ pc # "idle" /\ failures < MaxFailures
  /\ failures' = failures + 1
  /\ pc' = "idle" /\ listing' = {} /\ txn' = NoRows
  /\ ran' = TRUE
  /\ UNCHANGED <<world, tables>>

Run == ListIssues \/ IngestIssue \/ Commit \/ Purge
Next == Receive \/ NextDay \/ Run \/ Fail

Spec == Init /\ [][Next]_vars

\* The schedule starts the task again and again, days pass, and a task that
\* was started goes on.
FairSpec == Spec /\ WF_vars(Run \/ Fail) /\ WF_vars(NextDay)

-----------------------------------------------------------------------------
\* No foreign key says so, but an event's incident is stored with it, also
\* after runs that failed half-way.
EventsHaveIncidents == \A e \in stored : sentry[e].issue \in incidents

\* As long as the ingest window outlasts the runs that may fail in a row, no
\* event slips through between two windows: each is stored a day for every such
\* failure and two days (a run may end on the day after the one it listed on)
\* after it came.
NoEventSlipsThrough ==
  MaxFailures + 1 < IngestDays => \A e \in Positions :
    /\ sentry[e].day + MaxFailures + 2 < today
    /\ Within(sentry[e].day, RetentionDays)
    => e \in stored

\* An ingest brings back events that retention had deleted (all the events of an
\* issue, however old).  They are there only until the retention of the same run:
\* once it has run, the database holds no event that was overdue a day ago,
\* unless the last run failed.
OverdueOnlyInPassing ==
  \A e \in stored :
    ~Within(sentry[e].day, RetentionDays + 1) => pc = "purge" \/ failures > 0

\* README: "retention_days in the org config bounds how long event payloads ..
\* are kept".
OldEventsGo ==
  \A e \in 1 .. MaxEvents :
    e \in stored /\ ~Within(sentry[e].day, RetentionDays) ~> e \notin stored
=============================================================================
