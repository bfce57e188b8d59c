----------------------------- MODULE Regression ------------------------------
(***************************************************************************)
(* app/incidents/normalize.py regression_release: in which release did a   *)
(* Sentry issue last regress?  The life of one issue in Sentry (resolved,  *)
(* seen again) and the ingest that reads its activity, then its events.    *)
(*                                                                         *)
(* A moment is the number of things that happened before; an event comes   *)
(* before the regression Sentry records for it.                            *)
(***************************************************************************)
EXTENDS Naturals, Sequences, FiniteSets

CONSTANTS
  Releases,
  None,
  MaxMoments   \* bound: how much happens

ASSUME RegressionAssumption == None \notin Releases /\ MaxMoments \in Nat

VARIABLES
  now,
  resolved,   \* the issue's status
  activity,   \* Sentry's activity log, oldest first
  events,     \* the issue's events, oldest first
  reading,    \* is an ingest between its two reads?
  read,       \* the activity get_issue returned to it
  stored,     \* incident.regressed_release
  regressed,  \* history: the release whose event last made the issue regress
  expected,   \* history: regressed when read was read, or stored
  settled     \* history: was the issue resolved again after that regression?

vars == <<now, resolved, activity, events, reading, read, stored, regressed, expected,
          settled>>
issue == <<now, resolved, activity, events, regressed>>

Entry(type, version) == [type |-> type, at |-> now, version |-> version]

-----------------------------------------------------------------------------
(* The function.                                                           *)

TypedIn(log, type) == {a \in {log[n] : n \in DOMAIN log} : a.type = type}
LatestOf(S) == CHOOSE a \in S : \A x \in S : x.at <= a.at
EarliestOf(S) == CHOOSE a \in S : \A x \in S : a.at <= x.at

\* A bug: the fallback starts at the regression, after the event that made it.
AfterRegression(log) == LatestOf(TypedIn(log, "set_regression")).at

\* The moment after which an event can be the one that regressed.
After(log) ==
  LET resolutions == TypedIn(log, "set_resolved") IN
  IF resolutions # {} THEN LatestOf(resolutions).at
  ELSE LatestOf(TypedIn(log, "set_regression")).at

regression_release(log, evs) ==
  LET regressions == TypedIn(log, "set_regression")
      later == {e \in {evs[n] : n \in DOMAIN evs} : e.at > After(log)}
  IN  IF regressions = {} THEN None
      ELSE IF LatestOf(regressions).version # None THEN LatestOf(regressions).version
      ELSE IF later = {} THEN None ELSE EarliestOf(later).release

-----------------------------------------------------------------------------
Init ==
  /\ now = 0
  /\ resolved = FALSE
  /\ activity = <<>> /\ events = <<>>
  /\ reading = FALSE /\ read = <<>>
  /\ stored = None /\ regressed = None /\ expected = None
  /\ settled = FALSE

\* Somebody resolves the issue.
Resolve ==
  /\ now < MaxMoments /\ ~resolved
  /\ resolved' = TRUE
  /\ activity' = Append(activity, Entry("set_resolved", None))
  /\ now' = now + 1
  /\ UNCHANGED <<events, reading, read, stored, regressed, expected, settled>>

\* The issue is seen again; Sentry may record the release with a regression.
Seen ==
  /\ now + 1 < MaxMoments
  /\ \E r \in Releases :
       /\ events' = Append(events, [release |-> r, at |-> now])
       /\ IF resolved
          THEN /\ \E v \in {r, None} : activity' = Append(activity,
                    [type |-> "set_regression", at |-> now + 1, version |-> v])
               /\ regressed' = r
          ELSE UNCHANGED <<activity, regressed>>
  /\ resolved' = FALSE
  /\ now' = now + 2
  /\ UNCHANGED <<reading, read, stored, expected, settled>>

\* ingest_sentry: get_issue.
GetIssue ==
  /\ ~reading
  /\ reading' = TRUE
  /\ read' = activity
  /\ expected' = regressed
  /\ settled' = (regressed # None /\ resolved)
  /\ stored' = None
  /\ UNCHANGED issue

\* ingest_sentry: list_issue_events, and the incident is stored.
StoreIncident ==
  /\ reading
  /\ stored' = regression_release(read, events)
  /\ reading' = FALSE /\ read' = <<>>
  /\ UNCHANGED <<issue, expected, settled>>

Next == Resolve \/ Seen \/ GetIssue \/ StoreIncident

Spec == Init /\ [][Next]_vars

-----------------------------------------------------------------------------
\* normalize.py: the release stored is the "release in which the issue last
\* regressed (was resolved, then seen again), or None if it never did", although
\* the events are read after the activity and Sentry may not have recorded it.
\* So it is unless a regressed issue has been resolved again since, whichever
\* events arrive between the two reads, and however often it regressed before.
OpenRegressionRight ==
  [][StoreIncident /\ (~settled \/ expected = None) => stored' = expected]_vars
=============================================================================
