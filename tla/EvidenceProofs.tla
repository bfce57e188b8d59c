---------------------------- MODULE EvidenceProofs ----------------------------
(***************************************************************************)
(* What module Evidence guarantees for any windows, issues and numbers of  *)
(* events and failures.                                                    *)
(***************************************************************************)
EXTENDS Evidence, TLAPS

Txn == [events : SUBSET Nat, incidents : SUBSET Issues]

Types ==
  /\ today \in Nat
  /\ sentry \in Seq([issue : Issues, day : Nat])
  /\ stored \in SUBSET Positions
  /\ incidents \in SUBSET Issues
  /\ pc \in {"idle", "issues", "purge"}
  /\ listing \in SUBSET Issues
  /\ txn \in Txn /\ txn.events \subseteq Positions
  /\ ran \in BOOLEAN
  /\ failures \in 0 .. MaxFailures

(* The run has written the incident of every event that it has written.    *)
Paired ==
  /\ \A e \in stored : sentry[e].issue \in incidents
  /\ \A e \in txn.events : sentry[e].issue \in txn.incidents
  /\ pc \in {"purge", "idle"} => listing = {}

(* The run will store event e, or has written it.                          *)
Covered(e) == pc = "issues" /\ (sentry[e].issue \in listing \/ e \in txn.events)

(* An event that is not stored has waited for no longer than runs have     *)
(* failed in a row, and for one more that had begun before the event came. *)
(* The day it came counts too, and that on which the task has run already. *)
(* While a run goes on that will not store it, no run has ended since the  *)
(* event came, and no day has passed without a run that ended.             *)
Timely(e) ==
  e \notin stored /\ Within(sentry[e].day, RetentionDays) =>
    today + (IF ran THEN 1 ELSE 0)
      <= sentry[e].day + (IF pc = "idle" \/ Covered(e) THEN failures + 2 ELSE 1)

IInv ==
  /\ Types
  /\ Paired
  /\ \A e \in Positions : sentry[e].day <= today

-----------------------------------------------------------------------------
LEMMA EventType ==
  ASSUME Types, NEW e \in Positions
  PROVE  e \in Nat /\ sentry[e].issue \in Issues /\ sentry[e].day \in Nat
<1> DEFINE Event == [issue : Issues, day : Nat]
<1>1. sentry \in Seq(Event) /\ e \in 1 .. Len(sentry)
  BY DEF Types, Positions
<1> HIDE DEF Event
<1>2. sentry[e] \in Event /\ e \in Nat
  BY <1>1
<1> QED
  BY <1>2 DEF Event

\* An event that comes in leaves the others where they are.
LEMMA ReceiveEffect ==
  ASSUME Types, NEW i \in Issues, sentry' = Append(sentry, [issue |-> i, day |-> today])
  PROVE  /\ sentry' \in Seq([issue : Issues, day : Nat])
         /\ Positions \subseteq Positions'
         /\ \A e \in Positions : sentry'[e] = sentry[e]
         /\ \A e \in Positions' \ Positions : sentry'[e] = [issue |-> i, day |-> today]
<1> DEFINE new == [issue |-> i, day |-> today]
<1>1. new \in [issue : Issues, day : Nat] /\ sentry \in Seq([issue : Issues, day : Nat])
  BY DEF Types
<1> HIDE DEF new
<1>2. /\ Append(sentry, new) \in Seq([issue : Issues, day : Nat])
      /\ Len(Append(sentry, new)) = Len(sentry) + 1
      /\ \A e \in 1 .. Len(sentry) : Append(sentry, new)[e] = sentry[e]
      /\ Append(sentry, new)[Len(sentry) + 1] = new
  BY <1>1
<1>3. sentry' = Append(sentry, new) /\ Len(sentry) \in Nat
  BY <1>1 DEF new
<1> QED
  BY <1>2, <1>3 DEF Positions, new

LEMMA NoRowsType == NoRows \in Txn /\ NoRows.events = {}
  BY DEF NoRows, Txn

LEMMA IInit == Init => IInv
<1> SUFFICES ASSUME Init PROVE IInv
  OBVIOUS
<1>1. sentry = <<>> /\ Len(sentry) = 0 /\ Positions = {}
  BY DEF Init, Positions
<1>2. Types
  <2>1. failures \in 0 .. MaxFailures
    BY EvidenceAssumption DEF Init
  <2>2. sentry \in Seq([issue : Issues, day : Nat])
    BY <1>1
  <2>3. txn \in Txn /\ txn.events = {}
    BY NoRowsType DEF Init
  <2> QED
    BY <2>1, <2>2, <2>3 DEF Init, Types
<1> QED
  BY <1>1, <1>2, NoRowsType DEF Init, IInv, Paired

LEMMA IStep == IInv /\ [Next]_vars => IInv'
<1> SUFFICES ASSUME IInv, [Next]_vars PROVE IInv'
  OBVIOUS
<1> USE DEF IInv
<1>1. CASE Receive
  <2>1. PICK i \in Issues : sentry' = Append(sentry, [issue |-> i, day |-> today])
    BY <1>1 DEF Receive
  <2>2. /\ sentry' \in Seq([issue : Issues, day : Nat])
        /\ Positions \subseteq Positions'
        /\ \A e \in Positions : sentry'[e] = sentry[e]
        /\ \A e \in Positions' \ Positions : sentry'[e] = [issue |-> i, day |-> today]
    BY <2>1, ReceiveEffect
  <2>3. UNCHANGED <<today, stored, incidents, pc, listing, txn, ran, failures>>
    BY <1>1 DEF Receive, tables
  <2>4. Types'
    BY <2>2, <2>3 DEF Types
  <2>5. Paired'
    BY <2>2, <2>3 DEF Types, Paired
  <2>6. \A e \in Positions' : sentry'[e].day <= today'
    BY <2>2, <2>3 DEF Types
  <2> QED
    BY <2>4, <2>5, <2>6
<1>2. CASE NextDay
  <2>1. today' = today + 1 /\ ran' = FALSE
        /\ UNCHANGED <<sentry, stored, incidents, pc, listing, txn, failures>>
    BY <1>2 DEF NextDay, tables
  <2>2. ASSUME NEW e \in Positions PROVE sentry[e].day <= today + 1
    BY EventType DEF Types
  <2>3. Positions' = Positions /\ today' \in Nat
    BY <2>1 DEF Types, Positions
  <2>4. Types'
    BY <2>1, <2>3 DEF Types
  <2>5. Paired'
    BY <2>1 DEF Paired
  <2> QED
    BY <2>1, <2>2, <2>3, <2>4, <2>5
<1>3. CASE ListIssues
  <2>1. /\ listing' \in SUBSET Issues /\ txn' = NoRows /\ pc' = "issues"
        /\ UNCHANGED <<today, sentry, stored, incidents, ran, failures>>
    BY <1>3 DEF ListIssues, world, tables
  <2> QED
    BY <2>1, NoRowsType DEF Types, Paired, Positions
<1>4. CASE IngestIssue
  <2>1. PICK i \in listing :
          /\ txn' = [txn EXCEPT !.incidents = @ \cup {i}, !.events = @ \cup EventsOf(i)]
          /\ listing' = listing \ {i}
    BY <1>4 DEF IngestIssue
  <2>2. pc = "issues" /\ UNCHANGED <<today, sentry, stored, incidents, pc, ran, failures>>
    BY <1>4 DEF IngestIssue, world, tables
  <2>3. /\ i \in Issues /\ EventsOf(i) \subseteq Positions /\ Positions \subseteq Nat
        /\ \A e \in EventsOf(i) : sentry[e].issue = i
    BY DEF Types, EventsOf, Positions
  <2>4. /\ txn' \in Txn /\ txn'.events = txn.events \cup EventsOf(i)
        /\ txn'.incidents = txn.incidents \cup {i}
    BY <2>1, <2>3 DEF Types, Txn
  <2>5. Types'
    BY <2>1, <2>2, <2>3, <2>4 DEF Types, Positions
  <2>6. Paired'
    BY <2>2, <2>3, <2>4 DEF Paired
  <2> QED
    BY <2>2, <2>5, <2>6 DEF Positions
<1>5. CASE Commit
  <2>1. /\ pc = "issues" /\ listing = {} /\ pc' = "purge" /\ txn' = NoRows
        /\ stored' = stored \cup txn.events /\ incidents' = incidents \cup txn.incidents
        /\ UNCHANGED <<today, sentry, listing, ran, failures>>
    BY <1>5 DEF Commit, world
  <2>2. Types'
    BY <2>1, NoRowsType DEF Types, Positions, Txn
  <2>3. Paired'
    BY <2>1, NoRowsType DEF Paired
  <2> QED
    BY <2>1, <2>2, <2>3 DEF Positions
<1>6. CASE Purge
  <2>1. /\ pc = "purge" /\ pc' = "idle" /\ ran' = TRUE /\ stored' \subseteq stored
        /\ failures' = 0 /\ UNCHANGED <<today, sentry, incidents, listing, txn>>
    BY <1>6 DEF Purge, world
  <2> QED
    BY <2>1, EvidenceAssumption DEF Types, Paired, Positions
<1>7. CASE Fail
  <2>1. /\ failures < MaxFailures /\ failures' = failures + 1
        /\ pc' = "idle" /\ listing' = {} /\ txn' = NoRows /\ ran' = TRUE
        /\ UNCHANGED <<today, sentry, stored, incidents>>
    BY <1>7 DEF Fail, world, tables
  <2>2. failures' \in 0 .. MaxFailures
    BY <2>1, EvidenceAssumption DEF Types
  <2> QED
    BY <2>1, <2>2, NoRowsType DEF Types, Paired, Positions
<1>8. CASE UNCHANGED vars
  BY <1>8 DEF vars, tables, world, Types, Paired, Positions
<1> QED
  BY <1>1, <1>2, <1>3, <1>4, <1>5, <1>6, <1>7, <1>8 DEF Next, Run

LEMMA Invariant == Spec => []IInv
  BY IInit, IStep, PTL DEF Spec

-----------------------------------------------------------------------------
\* No event is stored without its incident, whatever fails (ingest.py writes both
\* in one transaction, and incident_event has no foreign key).
THEOREM EventsAreExplained == Spec => []EventsHaveIncidents
<1>1. IInv => EventsHaveIncidents
  BY DEF IInv, Paired, EventsHaveIncidents
<1> QED
  BY <1>1, Invariant, PTL

(* Until a run fails, what is stored was within the retention when the     *)
(* task last ended: today, or yesterday.                                   *)
Fresh ==
  \A e \in stored :
    pc = "purge" \/ failures > 0 \/ today <= sentry[e].day + RetentionDays + (IF ran THEN 0 ELSE 1)

LEMMA FreshStep == IInv /\ Fresh /\ [Next]_vars => Fresh'
<1> SUFFICES ASSUME IInv, Fresh, [Next]_vars, NEW e \in stored',
                    pc' # "purge", ~(failures' > 0)
             PROVE  (today <= sentry[e].day + RetentionDays + (IF ran THEN 0 ELSE 1))'
  BY DEF Fresh
<1>0. Types /\ failures \in Nat
  BY EvidenceAssumption DEF IInv, Types
<1>1. CASE Receive
  <2>1. PICK i \in Issues : sentry' = Append(sentry, [issue |-> i, day |-> today])
    BY <1>1 DEF Receive
  <2>2. \A x \in Positions : sentry'[x] = sentry[x]
    BY <1>0, <2>1, ReceiveEffect
  <2>3. UNCHANGED <<today, stored, pc, ran, failures>> /\ e \in Positions
    BY <1>0, <1>1 DEF Receive, tables, Types
  <2> QED
    BY <2>2, <2>3 DEF Fresh
<1>2. CASE NextDay
  <2>1. today' = today + 1 /\ ran = TRUE /\ ran' = FALSE
        /\ UNCHANGED <<sentry, stored, pc, failures>>
    BY <1>2 DEF NextDay, tables
  <2>2. e \in stored /\ today \in Nat /\ sentry[e].day \in Nat
    BY <1>0, <2>1, EventType DEF Types
  <2>3. today <= sentry[e].day + RetentionDays + 0
    BY <2>1, <2>2 DEF Fresh
  <2> QED
    BY <2>1, <2>2, <2>3, EvidenceAssumption
<1>3. CASE ListIssues \/ IngestIssue
  <2>1. pc # "purge" /\ UNCHANGED <<today, sentry, stored, ran, failures>>
    BY <1>3 DEF ListIssues, IngestIssue, world, tables
  <2> QED
    BY <2>1 DEF Fresh
<1>4. CASE Commit
  BY <1>4 DEF Commit
<1>5. CASE Purge
  <2>1. /\ e \in stored /\ Within(sentry[e].day, RetentionDays)
        /\ ran' = TRUE /\ UNCHANGED <<today, sentry>>
    BY <1>5 DEF Purge, world
  <2>2. today \in Nat /\ sentry[e].day \in Nat
    BY <1>0, <2>1, EventType DEF Types
  <2> QED
    BY <2>1, <2>2, EvidenceAssumption DEF Within
<1>6. CASE Fail
  BY <1>0, <1>6 DEF Fail
<1>7. CASE UNCHANGED vars
  BY <1>7 DEF vars, tables, world, Fresh
<1> QED
  BY <1>1, <1>2, <1>3, <1>4, <1>5, <1>6, <1>7 DEF Next, Run

\* What an ingest brings back of the events that retention had deleted is gone
\* when the run ends well: with no failure behind it, the database holds no event
\* that was overdue a day ago (ingest.py:110, infra/modules/jobs/main.tf:69).
THEOREM BroughtBackEventsPass == Spec => []OverdueOnlyInPassing
<1>1. Init => Fresh
  BY DEF Init, Fresh
<1>2. IInv /\ Fresh => OverdueOnlyInPassing
  <2> SUFFICES ASSUME IInv, Fresh, NEW e \in stored,
                      ~Within(sentry[e].day, RetentionDays + 1), pc # "purge", ~(failures > 0)
               PROVE  FALSE
    BY DEF OverdueOnlyInPassing
  <2>1. today \in Nat /\ sentry[e].day \in Nat
    BY EventType DEF IInv, Types
  <2> QED
    BY <2>1, EvidenceAssumption DEF Fresh, Within
<1> QED
  BY <1>1, <1>2, FreshStep, Invariant, PTL DEF Spec

-----------------------------------------------------------------------------
(* No event slips through, as long as the window outlasts the failures.    *)

InTime == \A e \in Positions : Timely(e)

\* A step that leaves the clock, event e and its coverage alone.
LEMMA StillTimely ==
  ASSUME IInv, NEW e \in Positions, Timely(e),
         UNCHANGED <<today, ran, failures>>, sentry'[e] = sentry[e], stored \subseteq stored',
         e \in stored' \/ (pc = "idle" \/ Covered(e) => pc' = "idle" \/ Covered(e)')
  PROVE  Timely(e)'
<1> DEFINE slack == IF pc = "idle" \/ Covered(e) THEN 2 ELSE 1
           slackNext == IF pc' = "idle" \/ Covered(e)' THEN 2 ELSE 1
<1>1. e \in stored' \/ slack <= slackNext
  OBVIOUS
<1>2. /\ today \in Nat /\ failures \in Nat /\ slack \in Nat /\ slackNext \in Nat
      /\ sentry[e].day \in Nat
  BY EventType, EvidenceAssumption DEF IInv, Types
<1>3. Within(sentry[e].day, RetentionDays)' <=> Within(sentry[e].day, RetentionDays)
  BY DEF Within
<1> QED
  BY <1>1, <1>2, <1>3 DEF Timely

LEMMA InTimeStep ==
  ASSUME IInv, InTime, [Next]_vars, MaxFailures + 1 < IngestDays
  PROVE  InTime'
<1>0. Types /\ Types' /\ IInv'
  BY IStep DEF IInv
<1>1. CASE Receive
  <2>1. PICK i \in Issues : sentry' = Append(sentry, [issue |-> i, day |-> today])
    BY <1>1 DEF Receive
  <2>2. /\ \A e \in Positions : sentry'[e] = sentry[e]
        /\ \A e \in Positions' \ Positions : sentry'[e] = [issue |-> i, day |-> today]
    BY <1>0, <2>1, ReceiveEffect
  <2>3. UNCHANGED <<today, stored, pc, listing, txn, ran, failures>>
    BY <1>1 DEF Receive, tables
  <2>4. ASSUME NEW e \in Positions' PROVE Timely(e)'
    <3>1. CASE e \in Positions
      BY <2>2, <2>3, <3>1, StillTimely DEF InTime, Covered
    <3>2. CASE e \notin Positions
      <4>1. sentry'[e].day = today /\ today' = today /\ ran' = ran /\ failures' = failures
        BY <2>2, <2>3, <3>2
      <4>2. today \in Nat /\ failures \in Nat
        BY <1>0, EvidenceAssumption DEF Types
      <4> QED
        BY <4>1, <4>2 DEF Timely
    <3> QED
      BY <3>1, <3>2
  <2> QED
    BY <2>4 DEF InTime
<1>2. CASE NextDay
  <2>1. today' = today + 1 /\ ran = TRUE /\ ran' = FALSE
        /\ UNCHANGED <<sentry, stored, pc, listing, txn, failures>>
    BY <1>2 DEF NextDay, tables
  <2>2. ASSUME NEW e \in Positions PROVE Timely(e)'
    <3>1. today \in Nat /\ failures \in Nat /\ sentry[e].day \in Nat
      BY <1>0, EventType, EvidenceAssumption DEF Types
    <3>2. Covered(e)' <=> Covered(e)
      BY <2>1 DEF Covered
    <3>3. Within(sentry[e].day, RetentionDays)' => Within(sentry[e].day, RetentionDays)
      BY <2>1, <3>1, EvidenceAssumption DEF Within
    <3> QED
      BY <2>1, <3>1, <3>2, <3>3 DEF InTime, Timely
  <2> QED
    BY <2>1, <2>2 DEF InTime, Positions
<1>3. CASE ListIssues
  <2>1. /\ pc = "idle" /\ pc' = "issues"
        /\ listing' = {i \in Issues : \E e \in EventsOf(i) : Within(sentry[e].day, IngestDays)}
        /\ UNCHANGED <<today, sentry, stored, ran, failures>>
    BY <1>3 DEF ListIssues, world, tables
  <2>2. ASSUME NEW e \in Positions PROVE Timely(e)'
    <3>1. today \in Nat /\ failures \in 0 .. MaxFailures /\ sentry[e].day \in Nat /\ sentry[e].issue \in Issues
      BY <1>0, EventType DEF Types
    <3>2. CASE Within(sentry[e].day, IngestDays)
      <4>1. e \in EventsOf(sentry[e].issue)
        BY DEF EventsOf
      <4>2. Covered(e)'
        BY <2>1, <3>1, <3>2, <4>1 DEF Covered
      <4> QED
        BY <2>1, <4>2, StillTimely DEF InTime
    <3>3. CASE ~Within(sentry[e].day, IngestDays)
      <4>1. e \in stored \/ ~Within(sentry[e].day, RetentionDays)
        BY <2>1, <3>1, <3>3, EvidenceAssumption DEF InTime, Timely, Within
      <4> QED
        BY <2>1, <4>1 DEF Timely, Within
    <3> QED
      BY <3>2, <3>3
  <2> QED
    BY <2>1, <2>2 DEF InTime, Positions
<1>4. CASE IngestIssue
  <2>1. PICK i \in listing :
          /\ txn' = [txn EXCEPT !.incidents = @ \cup {i}, !.events = @ \cup EventsOf(i)]
          /\ listing' = listing \ {i}
    BY <1>4 DEF IngestIssue
  <2>2. pc = "issues" /\ UNCHANGED <<today, sentry, stored, pc, ran, failures>>
    BY <1>4 DEF IngestIssue, world, tables
  <2>3. txn'.events = txn.events \cup EventsOf(i)
    BY <1>0, <2>1 DEF Types, Txn
  <2>4. ASSUME NEW e \in Positions PROVE Covered(e) => Covered(e)'
    BY <2>1, <2>2, <2>3 DEF Covered, EventsOf
  <2>5. ASSUME NEW e \in Positions PROVE Timely(e)'
    BY <2>2, <2>4, StillTimely DEF InTime
  <2> QED
    BY <2>2, <2>5 DEF InTime, Positions
<1>5. CASE Commit
  <2>1. /\ pc = "issues" /\ pc' = "purge" /\ listing = {}
        /\ stored' = stored \cup txn.events
        /\ UNCHANGED <<today, sentry, ran, failures>>
    BY <1>5 DEF Commit, world, IInv, Paired
  <2>2. ASSUME NEW e \in Positions PROVE Timely(e)'
    BY <2>1, StillTimely DEF InTime, Covered
  <2> QED
    BY <2>1, <2>2 DEF InTime, Positions
<1>6. CASE Purge
  <2>1. /\ pc = "purge" /\ pc' = "idle" /\ ran' = TRUE
        /\ stored' = {e \in stored : Within(sentry[e].day, RetentionDays)}
        /\ failures' = 0 /\ UNCHANGED <<today, sentry>>
    BY <1>6 DEF Purge, world
  <2>2. ASSUME NEW e \in Positions PROVE Timely(e)'
    <3>1. today \in Nat /\ failures \in Nat /\ sentry[e].day \in Nat
      BY <1>0, EventType, EvidenceAssumption DEF Types
    <3>2. ~Covered(e) /\ pc # "idle"
      BY <2>1 DEF Covered
    <3>3. Within(sentry[e].day, RetentionDays)' <=> Within(sentry[e].day, RetentionDays)
      BY <2>1 DEF Within
    <3> QED
      BY <2>1, <3>1, <3>2, <3>3 DEF InTime, Timely
  <2> QED
    BY <2>1, <2>2 DEF InTime, Positions
<1>7. CASE Fail
  <2>1. /\ failures' = failures + 1 /\ pc' = "idle" /\ ran' = TRUE
        /\ UNCHANGED <<today, sentry, stored>>
    BY <1>7 DEF Fail, world, tables
  <2>2. ASSUME NEW e \in Positions PROVE Timely(e)'
    <3>1. today \in Nat /\ failures \in Nat /\ sentry[e].day \in Nat
      BY <1>0, EventType, EvidenceAssumption DEF Types
    <3>2. Within(sentry[e].day, RetentionDays)' <=> Within(sentry[e].day, RetentionDays)
      BY <2>1 DEF Within
    <3> QED
      BY <2>1, <3>1, <3>2 DEF InTime, Timely
  <2> QED
    BY <2>1, <2>2 DEF InTime, Positions
<1>8. CASE UNCHANGED vars
  BY <1>8 DEF vars, tables, world, InTime, Timely, Covered, Within, Positions
<1> QED
  BY <1>1, <1>2, <1>3, <1>4, <1>5, <1>6, <1>7, <1>8 DEF Next, Run

\* Whatever the windows, if an ingest looks back further than runs fail in a row,
\* every event that retention would keep is stored at most two days after the
\* failures, however many failed before (ingest.py, --days: the window is relative
\* to the run).
THEOREM NoEventIsMissed == Spec => []NoEventSlipsThrough
<1>1. CASE MaxFailures + 1 < IngestDays
  <2>1. Init => InTime
    BY DEF Init, InTime, Positions
  <2>2. IInv /\ InTime /\ [Next]_vars => InTime'
    BY <1>1, InTimeStep
  <2>3. IInv /\ InTime => NoEventSlipsThrough
    <3> SUFFICES ASSUME IInv, InTime, NEW e \in Positions,
                        sentry[e].day + MaxFailures + 2 < today,
                        Within(sentry[e].day, RetentionDays)
                 PROVE  e \in stored
      BY DEF NoEventSlipsThrough
    <3>1. today \in Nat /\ failures \in 0 .. MaxFailures /\ sentry[e].day \in Nat
      BY EventType DEF IInv, Types
    <3> QED
      BY <3>1, EvidenceAssumption DEF InTime, Timely
  <2> QED
    BY <2>1, <2>2, <2>3, Invariant, PTL DEF Spec
<1>2. CASE ~(MaxFailures + 1 < IngestDays)
  <2>1. NoEventSlipsThrough
    BY <1>2 DEF NoEventSlipsThrough
  <2> QED
    BY <2>1, PTL
<1> QED
  BY <1>1, <1>2
=============================================================================
