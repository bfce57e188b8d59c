---------------------------- MODULE ImpactProofs -----------------------------
(***************************************************************************)
(* What modules Regression and ReleaseImpact guarantee for any releases,   *)
(* any number of regressions and any number of ingests, purges and         *)
(* requests; and, after them, what module SessionHealth guarantees for any *)
(* number of buckets and sessions and any ingest window and settling time. *)
(***************************************************************************)
EXTENDS ReleaseImpact, SessionHealth, FiniteSetTheorems, WellFoundedInduction, TLAPS

LogEntry == [type : {"set_resolved", "set_regression"}, at : Nat, version : Releases \cup {None}]
Event == [release : Releases, at : Nat]

Types ==
  /\ now \in Nat /\ resolved \in BOOLEAN /\ reading \in BOOLEAN /\ settled \in BOOLEAN
  /\ activity \in Seq(LogEntry) /\ read \in Seq(LogEntry)
  /\ events \in Seq(Event)
  /\ {regressed, expected} \subseteq Releases \cup {None}

(* Everything that happened is past.                                       *)
Past ==
  /\ \A n \in DOMAIN activity : activity[n].at < now
  /\ \A n \in DOMAIN events : events[n].at < now

(* The last entry of a set.                                                *)
IsLatest(a, S) == a \in S /\ \A x \in S : x.at <= a.at /\ (x.at = a.at => x = a)

(* The n-th event is the first one after moment t.                         *)
FirstAfter(n, t) ==
  /\ n \in DOMAIN events /\ t < events[n].at
  /\ \A k \in DOMAIN events : t < events[k].at =>
       events[n].at <= events[k].at /\ (events[k].at = events[n].at => events[k] = events[n])

(* A log of an issue that last regressed in release r and is open since:   *)
(* its last regression is no other's, and an event of r is the first after *)
(* the last resolution.                                                    *)
Proper(log, r) ==
  IF r = None THEN TypedIn(log, "set_regression") = {}
  ELSE /\ \E g : IsLatest(g, TypedIn(log, "set_regression")) /\ g.version \in {r, None}
       /\ \E s : /\ IsLatest(s, TypedIn(log, "set_resolved"))
                 /\ \E n \in DOMAIN events : FirstAfter(n, s.at) /\ events[n].release = r

(* A resolved issue has had no event since.                                *)
Quiet ==
  resolved => \E s : /\ IsLatest(s, TypedIn(activity, "set_resolved"))
                     /\ \A n \in DOMAIN events : events[n].at < s.at

RInv ==
  /\ Types /\ Past /\ Quiet
  /\ ~resolved \/ regressed = None => Proper(activity, regressed)
  /\ reading /\ (~settled \/ expected = None) => Proper(read, expected)

-----------------------------------------------------------------------------
LEMMA AppendedEntry ==
  ASSUME NEW log \in Seq(LogEntry), NEW e \in LogEntry, NEW t
  PROVE  /\ Append(log, e) \in Seq(LogEntry)
         /\ TypedIn(Append(log, e), t) = TypedIn(log, t) \cup (IF e.type = t THEN {e} ELSE {})
<1>1. /\ Append(log, e) \in Seq(LogEntry) /\ DOMAIN log = 1 .. Len(log)
      /\ DOMAIN Append(log, e) = DOMAIN log \cup {Len(log) + 1}
      /\ Append(log, e)[Len(log) + 1] = e
      /\ \A n \in DOMAIN log : Append(log, e)[n] = log[n]
  OBVIOUS
<1> HIDE DEF LogEntry
<1> DEFINE new == Append(log, e)
           old == {log[n] : n \in DOMAIN log}
<1> HIDE DEF new
<1>2. {new[n] : n \in DOMAIN new} = old \cup {e}
  BY <1>1 DEF new
<1>3. {a \in old \cup {e} : a.type = t} = {a \in old : a.type = t} \cup (IF e.type = t THEN {e} ELSE {})
  OBVIOUS
<1>4. TypedIn(new, t) = {a \in old \cup {e} : a.type = t}
  BY <1>2 DEF TypedIn
<1> QED
  BY <1>1, <1>3, <1>4 DEF new, TypedIn

LEMMA AppendedEvent ==
  ASSUME events \in Seq(Event), NEW e \in Event, events' = Append(events, e)
  PROVE  /\ events' \in Seq(Event)
         /\ DOMAIN events' = DOMAIN events \cup {Len(events) + 1}
         /\ events'[Len(events) + 1] = e
         /\ \A n \in DOMAIN events : events'[n] = events[n]
  OBVIOUS

LEMMA TypedEntries ==
  ASSUME NEW log \in Seq(LogEntry), NEW t
  PROVE  TypedIn(log, t) \subseteq LogEntry
<1> HIDE DEF LogEntry
<1>1. \A n \in DOMAIN log : log[n] \in LogEntry
  OBVIOUS
<1> QED
  BY <1>1 DEF TypedIn

LEMMA EventTypes ==
  ASSUME Types, NEW n \in DOMAIN events
  PROVE  events[n] \in Event /\ events[n].at \in Nat /\ events[n].release \in Releases
<1>1. events[n] \in Event
  <2> HIDE DEF Event
  <2> QED
    BY DEF Types
<1> QED
  BY <1>1 DEF Event

\* The latest entry is the one that LatestOf picks.
LEMMA LatestIsChosen ==
  ASSUME NEW S \in SUBSET LogEntry, NEW a, IsLatest(a, S)
  PROVE  LatestOf(S) = a
<1>1. a \in S /\ \A x \in S : x.at <= a.at
  BY DEF IsLatest
<1>2. LatestOf(S) \in S /\ \A x \in S : x.at <= LatestOf(S).at
  BY <1>1 DEF LatestOf
<1>3. LatestOf(S).at \in Nat /\ a.at \in Nat
  BY <1>1, <1>2 DEF LogEntry
<1>4. LatestOf(S).at = a.at
  BY <1>1, <1>2, <1>3
<1> QED
  BY <1>2, <1>4 DEF IsLatest

\* regression_release on a proper log.
LEMMA ProperRelease ==
  ASSUME Types, NEW log \in Seq(LogEntry), NEW r \in Releases \cup {None}, Proper(log, r)
  PROVE  regression_release(log, events) = r
<1> DEFINE regressions == TypedIn(log, "set_regression")
           resolutions == TypedIn(log, "set_resolved")
<1>1. CASE r = None
  BY <1>1 DEF Proper, regression_release
<1>2. CASE r # None
  <2>1. PICK g : IsLatest(g, regressions) /\ g.version \in {r, None}
    BY <1>2 DEF Proper
  <2>2. PICK s : /\ IsLatest(s, resolutions)
                 /\ \E n \in DOMAIN events : FirstAfter(n, s.at) /\ events[n].release = r
    BY <1>2 DEF Proper
  <2>3. PICK n \in DOMAIN events : FirstAfter(n, s.at) /\ events[n].release = r
    BY <2>2
  <2>4. regressions \subseteq LogEntry /\ resolutions \subseteq LogEntry
    BY TypedEntries
  <2>5. LatestOf(regressions) = g /\ LatestOf(resolutions) = s
    BY <2>1, <2>2, <2>4, LatestIsChosen
  <2>6. regressions # {} /\ resolutions # {} /\ After(log) = s.at
    BY <2>1, <2>2, <2>5 DEF IsLatest, After
  <2> DEFINE later == {e \in {events[k] : k \in DOMAIN events} : e.at > After(log)}
  <2>7. s.at \in Nat
    BY <2>2, <2>4 DEF IsLatest, LogEntry
  <2>8. events[n] \in later /\ \A e \in later : events[n].at <= e.at
    BY <2>3, <2>6, <2>7, EventTypes DEF FirstAfter
  <2>9. EarliestOf(later) \in later /\ \A e \in later : EarliestOf(later).at <= e.at
    BY <2>8 DEF EarliestOf
  <2>10. PICK k \in DOMAIN events : EarliestOf(later) = events[k] /\ s.at < events[k].at
    BY <2>6, <2>7, <2>9, EventTypes
  <2>11. events[k].at = events[n].at
    BY <2>8, <2>9, <2>10, EventTypes
  <2>12. EarliestOf(later).release = r /\ later # {}
    BY <2>3, <2>8, <2>10, <2>11 DEF FirstAfter
  <2> HIDE DEF later
  <2>13. regression_release(log, events) =
           IF g.version # None THEN g.version ELSE EarliestOf(later).release
    BY <2>5, <2>6, <2>12 DEF regression_release, later
  <2> QED
    BY <1>2, <2>1, <2>12, <2>13
<1> QED
  BY <1>1, <1>2

-----------------------------------------------------------------------------
LEMMA RInit == Init => RInv
<1> SUFFICES ASSUME Init PROVE RInv
  OBVIOUS
<1>1. TypedIn(activity, "set_regression") = {}
  BY DEF Init, TypedIn
<1>2. Types
  <2> HIDE DEF LogEntry, Event
  <2>1. <<>> \in Seq(LogEntry) /\ <<>> \in Seq(Event)
    OBVIOUS
  <2> QED
    BY <2>1 DEF Init, Types
<1>3. Past /\ Quiet
  BY DEF Init, Past, Quiet
<1> QED
  BY <1>1, <1>2, <1>3 DEF Init, RInv, Proper

\* The entries of a log are as old as it says.
LEMMA TypedPast ==
  ASSUME Types, Past, NEW t, NEW x \in TypedIn(activity, t)
  PROVE  x.at < now /\ x.at \in Nat
<1>1. PICK n \in DOMAIN activity : x = activity[n]
  BY DEF TypedIn
<1>2. x \in LogEntry
  BY TypedEntries DEF Types
<1> QED
  BY <1>1, <1>2 DEF Past, LogEntry

\* What a new event leaves first after a moment.
LEMMA FirstStays ==
  ASSUME Types, Past, NEW e \in Event, e.at = now, events' = Append(events, e),
         NEW log, NEW r, Proper(log, r)
  PROVE  Proper(log, r)'
<1>1. CASE r = None
  BY <1>1 DEF Proper, TypedIn
<1>2. CASE r # None
  <2>1. PICK s : /\ IsLatest(s, TypedIn(log, "set_resolved"))
                 /\ \E n \in DOMAIN events : FirstAfter(n, s.at) /\ events[n].release = r
    BY <1>2 DEF Proper
  <2>2. PICK n \in DOMAIN events : FirstAfter(n, s.at) /\ events[n].release = r
    BY <2>1
  <2>3. /\ DOMAIN events' = DOMAIN events \cup {Len(events) + 1}
        /\ events'[Len(events) + 1] = e
        /\ \A k \in DOMAIN events : events'[k] = events[k]
    BY AppendedEvent DEF Types
  <2>4. events[n].at < now /\ events[n].at \in Nat /\ now \in Nat
    BY EventTypes DEF Past, Types
  <2>5. FirstAfter(n, s.at)'
    BY <2>2, <2>3, <2>4 DEF FirstAfter
  <2>6. n \in DOMAIN events' /\ events'[n].release = r
    BY <2>2, <2>3
  <2> QED
    BY <1>2, <2>1, <2>5, <2>6 DEF Proper, TypedIn, IsLatest
<1> QED
  BY <1>1, <1>2

LEMMA ResolveStep ==
  ASSUME RInv, Resolve
  PROVE  RInv'
<1> SUFFICES ASSUME NEW e, e = Entry("set_resolved", None) PROVE RInv'
  OBVIOUS
<1>1. e \in LogEntry /\ e.at = now /\ e.type = "set_resolved" /\ now \in Nat
  BY DEF RInv, Types, Entry, LogEntry
<1>2. /\ activity' = Append(activity, e) /\ resolved' = TRUE /\ now' = now + 1 /\ ~resolved
      /\ events' = events /\ reading' = reading /\ read' = read
      /\ regressed' = regressed /\ expected' = expected /\ settled' = settled
  BY DEF Resolve
<1>3. /\ activity' \in Seq(LogEntry)
      /\ TypedIn(activity', "set_resolved") = TypedIn(activity, "set_resolved") \cup {e}
      /\ TypedIn(activity', "set_regression") = TypedIn(activity, "set_regression")
  <2>1. \A t : TypedIn(activity', t) = TypedIn(activity, t) \cup (IF e.type = t THEN {e} ELSE {})
    BY <1>1, <1>2, AppendedEntry DEF RInv, Types
  <2>2. activity' \in Seq(LogEntry)
    BY <1>1, <1>2, AppendedEntry DEF RInv, Types
  <2> QED
    BY <1>1, <2>1, <2>2
<1>4. Types'
  BY <1>1, <1>2, <1>3 DEF RInv, Types
<1>5. Past'
  <2> HIDE DEF LogEntry
  <2>1. \A n \in DOMAIN activity' : activity'[n] = e \/ (n \in DOMAIN activity /\ activity'[n] = activity[n])
    BY <1>2 DEF RInv, Types
  <2>2. \A n \in DOMAIN activity : activity[n].at \in Nat
    <3>1. \A n \in DOMAIN activity : activity[n] \in LogEntry
      BY DEF RInv, Types
    <3> QED
      BY <3>1 DEF LogEntry
  <2>3. \A n \in DOMAIN activity' : activity'[n].at < now + 1
    BY <1>1, <2>1, <2>2 DEF RInv, Past
  <2>4. \A n \in DOMAIN events : events[n].at < now + 1
    BY <1>1, EventTypes DEF RInv, Past
  <2> QED
    BY <1>2, <2>3, <2>4 DEF Past
<1>6. Quiet'
  <2>1. IsLatest(e, TypedIn(activity', "set_resolved"))
    <3>1. \A x \in TypedIn(activity, "set_resolved") : x.at < now /\ x.at \in Nat
      BY TypedPast DEF RInv
    <3> QED
      BY <1>1, <1>3, <3>1 DEF IsLatest
  <2>2. \A n \in DOMAIN events' : events'[n].at < e.at
    BY <1>1, <1>2 DEF RInv, Past
  <2> QED
    BY <2>1, <2>2 DEF Quiet, TypedIn, IsLatest
<1>7. regressed' = None => Proper(activity, regressed)'
  BY <1>2, <1>3 DEF RInv, Proper
<1>8. reading' /\ (~settled' \/ expected' = None) => Proper(read, expected)'
  BY <1>2 DEF RInv, Proper, FirstAfter
<1> QED
  BY <1>2, <1>4, <1>5, <1>6, <1>7, <1>8 DEF RInv

LEMMA SeenStep ==
  ASSUME RInv, Seen
  PROVE  RInv'
<1>1. PICK r \in Releases :
        /\ events' = Append(events, [release |-> r, at |-> now])
        /\ IF resolved
           THEN /\ \E v \in {r, None} : activity' = Append(activity,
                     [type |-> "set_regression", at |-> now + 1, version |-> v])
                /\ regressed' = r
           ELSE UNCHANGED <<activity, regressed>>
  BY DEF Seen
<1>2. /\ resolved' = FALSE /\ now' = now + 2 /\ reading' = reading /\ read' = read
      /\ expected' = expected /\ settled' = settled
  BY DEF Seen
<1> SUFFICES ASSUME NEW e, e = [release |-> r, at |-> now] PROVE RInv'
  OBVIOUS
<1>3. e \in Event /\ e.at = now /\ e.release = r /\ now \in Nat /\ events' = Append(events, e)
  BY <1>1 DEF RInv, Types, Event
<1>4. /\ events' \in Seq(Event)
      /\ DOMAIN events' = DOMAIN events \cup {Len(events) + 1}
      /\ events'[Len(events) + 1] = e
      /\ \A n \in DOMAIN events : events'[n] = events[n]
  BY <1>3, AppendedEvent DEF RInv, Types
<1>5. \A n \in DOMAIN events' : events'[n].at < now + 2
  BY <1>3, <1>4, EventTypes DEF RInv, Past
<1>6. Quiet'
  BY <1>2 DEF Quiet
<1>7. reading' /\ (~settled' \/ expected' = None) => Proper(read, expected)'
  BY <1>2, <1>3, FirstStays DEF RInv
<1>8. now + 2 \in Nat /\ reading \in BOOLEAN /\ settled \in BOOLEAN
  BY <1>3 DEF RInv, Types
<1>9. CASE ~resolved
  <2>1. activity' = activity /\ regressed' = regressed
    BY <1>1, <1>9
  <2>2. Types'
    <3>1. now' \in Nat /\ resolved' \in BOOLEAN /\ reading' \in BOOLEAN /\ settled' \in BOOLEAN
      BY <1>2, <1>8
    <3>2. activity' \in Seq(LogEntry) /\ read' \in Seq(LogEntry)
      BY <1>2, <2>1 DEF RInv, Types
    <3>3. {regressed', expected'} \subseteq Releases \cup {None}
      BY <1>2, <2>1 DEF RInv, Types
    <3> QED
      BY <1>4, <3>1, <3>2, <3>3 DEF Types
  <2>3. Past'
    <3>1. \A n \in DOMAIN activity : activity[n].at < now + 2
      <4>1. \A n \in DOMAIN activity : activity[n].at < now /\ activity[n] \in LogEntry
        BY DEF RInv, Types, Past
      <4> QED
        BY <1>3, <4>1 DEF LogEntry
    <3> QED
      BY <1>2, <1>5, <2>1, <3>1 DEF Past
  <2>4. Proper(activity, regressed)'
    <3>1. Types /\ Past /\ Proper(activity, regressed)
      BY <1>9 DEF RInv
    <3> QED
      BY <1>3, <2>1, <3>1, FirstStays
  <2> QED
    BY <1>6, <1>7, <2>2, <2>3, <2>4 DEF RInv
<1>10. CASE resolved
  <2>1. PICK v \in {r, None} :
          activity' = Append(activity, [type |-> "set_regression", at |-> now + 1, version |-> v])
    BY <1>1, <1>10
  <2> SUFFICES ASSUME NEW g, g = [type |-> "set_regression", at |-> now + 1, version |-> v]
               PROVE  RInv'
    OBVIOUS
  <2>2. /\ g \in LogEntry /\ g.at = now + 1 /\ g.type = "set_regression" /\ g.version = v
        /\ activity' = Append(activity, g) /\ regressed' = r
    BY <1>1, <1>3, <1>10, <2>1 DEF LogEntry
  <2>3. \A t : TypedIn(activity', t) = TypedIn(activity, t) \cup (IF g.type = t THEN {g} ELSE {})
    BY <2>2, AppendedEntry DEF RInv, Types
  <2>4. activity' \in Seq(LogEntry)
    BY <2>2, AppendedEntry DEF RInv, Types
  <2>5. /\ TypedIn(activity', "set_regression") = TypedIn(activity, "set_regression") \cup {g}
        /\ TypedIn(activity', "set_resolved") = TypedIn(activity, "set_resolved")
    <3>1. /\ TypedIn(activity', "set_regression") =
                TypedIn(activity, "set_regression") \cup (IF g.type = "set_regression" THEN {g} ELSE {})
          /\ TypedIn(activity', "set_resolved") =
                TypedIn(activity, "set_resolved") \cup (IF g.type = "set_resolved" THEN {g} ELSE {})
      BY <2>3
    <3>2. g.type = "set_regression" /\ g.type # "set_resolved"
      BY <2>2
    <3> QED
      BY <3>1, <3>2
  <2>6. Types'
    <3>1. now' \in Nat /\ resolved' \in BOOLEAN /\ reading' \in BOOLEAN /\ settled' \in BOOLEAN
      BY <1>2, <1>8
    <3>2. read' \in Seq(LogEntry) /\ {regressed', expected'} \subseteq Releases \cup {None}
      BY <1>2, <2>2 DEF RInv, Types
    <3> QED
      BY <1>4, <2>4, <3>1, <3>2 DEF Types
  <2>7. Past'
    <3> HIDE DEF LogEntry
    <3>1. \A n \in DOMAIN activity' : activity'[n] = g \/ (n \in DOMAIN activity /\ activity'[n] = activity[n])
      BY <2>2 DEF RInv, Types
    <3>2. \A n \in DOMAIN activity : activity[n].at < now /\ activity[n].at \in Nat
      <4>1. \A n \in DOMAIN activity : activity[n].at < now /\ activity[n] \in LogEntry
        BY DEF RInv, Types, Past
      <4> QED
        BY <4>1 DEF LogEntry
    <3>3. \A n \in DOMAIN activity' : activity'[n].at < now + 2
      BY <1>3, <2>2, <3>1, <3>2
    <3> QED
      BY <1>2, <1>5, <3>3 DEF Past
  <2>8. IsLatest(g, TypedIn(activity', "set_regression"))
    <3>1. \A x \in TypedIn(activity, "set_regression") : x.at < now /\ x.at \in Nat
      BY TypedPast DEF RInv
    <3> QED
      BY <1>3, <2>2, <2>5, <3>1 DEF IsLatest
  <2>9. PICK s : /\ IsLatest(s, TypedIn(activity', "set_resolved"))
                 /\ \A n \in DOMAIN events : events[n].at < s.at
    BY <1>10, <2>5 DEF RInv, Quiet
  <2>10. s.at < now /\ s.at \in Nat
    BY <2>5, <2>9, TypedPast DEF RInv, IsLatest
  <2>11. /\ DOMAIN events' = DOMAIN events \cup {Len(events) + 1}
         /\ events'[Len(events) + 1] = e /\ e.at = now /\ e.release = r
         /\ \A n \in DOMAIN events : events'[n].at < s.at /\ events'[n].at \in Nat
    BY <1>3, <1>4, <2>9, EventTypes DEF RInv
  <2>12. \A k \in DOMAIN events' : s.at < events'[k].at => k = Len(events) + 1
    BY <2>10, <2>11
  <2>13. /\ Len(events) + 1 \in DOMAIN events' /\ events'[Len(events) + 1].release = r
         /\ s.at < events'[Len(events) + 1].at
         /\ \A k \in DOMAIN events' : s.at < events'[k].at =>
              /\ events'[Len(events) + 1].at <= events'[k].at
              /\ events'[k].at = events'[Len(events) + 1].at => events'[k] = events'[Len(events) + 1]
    BY <1>3, <2>10, <2>11, <2>12
  <2>14. Proper(activity, regressed)'
    <3>1. \E n \in DOMAIN events' :
            /\ events'[n].release = r /\ s.at < events'[n].at
            /\ \A k \in DOMAIN events' : s.at < events'[k].at =>
                 events'[n].at <= events'[k].at /\ (events'[k].at = events'[n].at => events'[k] = events'[n])
      BY <2>13
    <3> QED
      BY RegressionAssumption, <2>2, <2>8, <2>9, <3>1 DEF Proper, FirstAfter, TypedIn, IsLatest
  <2> QED
    BY <1>6, <1>7, <2>6, <2>7, <2>14 DEF RInv
<1> QED
  BY <1>9, <1>10

LEMMA RStep == RInv /\ [Next]_vars => RInv'
<1> SUFFICES ASSUME RInv, [Next]_vars PROVE RInv'
  OBVIOUS
<1>1. CASE GetIssue
  <2>1. /\ now' = now /\ resolved' = resolved /\ activity' = activity /\ events' = events
        /\ regressed' = regressed /\ reading' = TRUE /\ read' = activity
        /\ expected' = regressed /\ settled' = (regressed # None /\ resolved)
    BY <1>1 DEF GetIssue, issue
  <2>2. settled' \in BOOLEAN /\ (~settled' \/ expected' = None => ~resolved \/ regressed = None)
    BY <2>1
  <2>3. Types' /\ Past' /\ Quiet'
    BY <2>1, <2>2 DEF RInv, Types, Past, Quiet, TypedIn, IsLatest
  <2>4. Proper(activity, regressed) => Proper(activity, regressed)' /\ Proper(read, expected)'
    BY <2>1 DEF Proper, TypedIn, IsLatest, FirstAfter
  <2> QED
    BY <2>1, <2>2, <2>3, <2>4 DEF RInv
<1>2. CASE StoreIncident
  <2>1. /\ now' = now /\ resolved' = resolved /\ activity' = activity /\ events' = events
        /\ regressed' = regressed /\ reading' = FALSE /\ read' = <<>>
        /\ expected' = expected /\ settled' = settled
    BY <1>2 DEF StoreIncident, issue
  <2>2. Types'
    <3> HIDE DEF LogEntry, Event
    <3>1. now' \in Nat /\ resolved' \in BOOLEAN /\ reading' \in BOOLEAN /\ settled' \in BOOLEAN
      BY <2>1 DEF RInv, Types
    <3>2. <<>> \in Seq(LogEntry)
      OBVIOUS
    <3> QED
      BY <2>1, <3>1, <3>2 DEF RInv, Types
  <2>4. Past' /\ Quiet'
    BY <2>1 DEF RInv, Past, Quiet, TypedIn, IsLatest
  <2>3. Proper(activity, regressed) => Proper(activity, regressed)'
    BY <2>1 DEF Proper, TypedIn, IsLatest, FirstAfter
  <2> QED
    BY <2>1, <2>2, <2>3, <2>4 DEF RInv
<1>3. CASE UNCHANGED vars
  <2>1. UNCHANGED <<now, resolved, activity, events, regressed, reading, read, expected, settled>>
    BY <1>3 DEF vars
  <2>2. Types' /\ Past' /\ Quiet'
    BY <2>1 DEF RInv, Types, Past, Quiet, TypedIn, IsLatest
  <2>3. /\ Proper(activity, regressed) => Proper(activity, regressed)'
        /\ Proper(read, expected) => Proper(read, expected)'
    BY <2>1 DEF Proper, TypedIn, IsLatest, FirstAfter
  <2> QED
    BY <2>1, <2>2, <2>3 DEF RInv
<1> QED
  BY <1>1, <1>2, <1>3, ResolveStep, SeenStep DEF Next

-----------------------------------------------------------------------------
\* For the issue, every step is one of Regression's, or none.
LEMMA ImpactStep == [ImpactNext]_<<vars, tables, request>> => [Next]_vars
  BY DEF ImpactNext, Sentry, Ingest, Purge, Request, Ask, LoadGraph, Read, NewIds, RegressedIds,
     NewCount, NewFrames, RegressedCount, RegressedFrames, Answer, Next, GetIssue

\* normalize.py: for any number of regressions, the release stored is the one the
\* issue last regressed in, unless it has been resolved again since.
THEOREM RegressionsAreRight == ImpactSpec => OpenRegressionRight
<1>1. ImpactInit => RInv
  BY RInit DEF ImpactInit
<1>2. [ImpactNext]_<<vars, tables, request>> => [Next]_vars
  BY ImpactStep
<1>3. RInv /\ [ImpactNext]_<<vars, tables, request>> => RInv'
  BY <1>2, RStep
<1>4. RInv => [StoreIncident /\ (~settled \/ expected = None) => stored' = expected]_vars
  <2> SUFFICES ASSUME RInv, StoreIncident, ~settled \/ expected = None
               PROVE  stored' = expected
    OBVIOUS
  <2>1. stored' = regression_release(read, events) /\ reading
    BY DEF StoreIncident
  <2>2. Proper(read, expected)
    BY <2>1 DEF RInv
  <2>3. Types /\ read \in Seq(LogEntry) /\ expected \in Releases \cup {None}
    BY DEF RInv, Types
  <2> QED
    BY <2>1, <2>2, <2>3, ProperRelease
<1> QED
  BY <1>1, <1>3, <1>4, PTL DEF ImpactSpec, OpenRegressionRight

-----------------------------------------------------------------------------
\* impact.py and packet.py: whatever the statements of a request return, and for
\* any two healths, what is missing in the packet has its finding, but for the
\* attribution of a regressed issue and, with the release's own health missing
\* or without a baseline, the baseline's health.
THEOREM UnknownsHaveFindings == ImpactSpec => []UnknownsExplained
<1>1. UnknownsExplained
  <2> SUFFICES ASSUME NEW own \in Healths, NEW base \in Healths
               PROVE
        LET packet == release_packet(build_release_impact(got, own, base), own, base)
            says(id, what) == [id |-> id, says |-> what] \in packet
            missing(id) == says(id, "UNKNOWN") \/ says(id, "PENDING")
            found(codes) == \E f \in codes : says("finding", f)
        IN
        /\ missing("change_set") => found({"RELEASE_NOT_FOUND"})
        /\ missing("metric-health") \/ missing("metric-error_volume_per_1k") => found(Problems)
        /\ missing("metric-baseline_health") =>
             says("metric-delta_pp", "NOT_COMPUTED") \/ found(Problems \cup {"NO_BASELINE_HEALTH"})
        /\ missing("metric-delta_pp") => found(Problems \cup {"NO_BASELINE_HEALTH"})
        /\ says("metric-delta_pp", "NOT_COMPUTED") => missing("metric-baseline_health")
        /\ missing("issue-new") => found({"NEW_ISSUE_ATTRIBUTION_UNKNOWN"})
        /\ found({"CRASH_RATE_REGRESSION", "CRASH_RATE_IMPROVED"}) => {own, base} \subseteq Rates
    BY DEF UnknownsExplained
  <2> DEFINE a == build_release_impact(got, own, base)
             packet == release_packet(a, own, base)
             says(id, what) == [id |-> id, says |-> what] \in packet
             missing(id) == says(id, "UNKNOWN") \/ says(id, "PENDING")
  <2>1. \A what : /\ says("finding", what) <=> what \in a.findings
                  /\ says("change_set", what) <=> what = a.change_set
                  /\ says("metric-health", what) <=> what = CrashFree(own)
                  /\ says("metric-baseline_health", what) <=>
                       what = IF a.baseline = None THEN "UNKNOWN" ELSE CrashFree(base)
                  /\ says("metric-delta_pp", what) <=>
                       what = IF a.delta = "none" THEN "NOT_COMPUTED" ELSE a.delta
                  /\ says("metric-error_volume_per_1k", what) <=> what = a.volume
                  /\ says("issue-new", what) <=> what \in a.new
    BY DEF release_packet, Facts
  <2>2. /\ a.change_set = IF got.version \in got.tags THEN "KNOWN" ELSE "UNKNOWN"
        /\ a.baseline = Baseline(got)
        /\ a.delta = IF Baseline(got) = None THEN "none"
                     ELSE IF own \in Rates /\ base \in Rates THEN "KNOWN" ELSE "UNKNOWN"
        /\ a.volume = IF own \in Rates THEN "KNOWN" ELSE "UNKNOWN"
        /\ a.new = IF got.new.listed THEN {Attribution(got, got.new)} ELSE {}
        /\ \A f : f \in a.findings <=>
             \/ got.version \notin got.tags /\ f = "RELEASE_NOT_FOUND"
             \/ f = own /\ f \in Problems
             \/ Baseline(got) # None /\ f \in BaselineFindings(own, base)
             \/ got.new.listed /\ f = CodeOf[Attribution(got, got.new)]
             \/ got.regressed.listed /\ f = "ISSUE_REGRESSED"
    BY DEF build_release_impact
  <2> HIDE DEF a
  <2>3. own \in Problems \/ own \in Rates
    BY DEF Healths
  <2>4. base \in Problems \/ base \in Rates
    BY DEF Healths
  <2> HIDE DEF packet, says
  <2>5. missing("change_set") => says("finding", "RELEASE_NOT_FOUND")
    BY <2>1, <2>2
  <2>6. missing("metric-health") \/ missing("metric-error_volume_per_1k") =>
          \E f \in Problems : says("finding", f)
    BY <2>1, <2>2, <2>3 DEF CrashFree, Rates
  <2>7. missing("metric-delta_pp") => \E f \in Problems \cup {"NO_BASELINE_HEALTH"} : says("finding", f)
    BY <2>1, <2>2, <2>3, <2>4 DEF BaselineFindings, Problems, Rates
  <2>8. says("metric-delta_pp", "NOT_COMPUTED") => missing("metric-baseline_health")
    BY <2>1, <2>2
  <2>9. missing("issue-new") => says("finding", "NEW_ISSUE_ATTRIBUTION_UNKNOWN")
    <3>1. CodeOf["UNKNOWN"] = "NEW_ISSUE_ATTRIBUTION_UNKNOWN"
      BY DEF CodeOf
    <3>2. missing("issue-new") => got.new.listed /\ Attribution(got, got.new) = "UNKNOWN"
      BY <2>1, <2>2 DEF Attribution
    <3> QED
      BY <2>1, <2>2, <3>1, <3>2
  <2>11. missing("metric-baseline_health") =>
           \/ says("metric-delta_pp", "NOT_COMPUTED")
           \/ \E f \in Problems \cup {"NO_BASELINE_HEALTH"} : says("finding", f)
    <3>1. CASE Baseline(got) = None
      BY <2>1, <2>2, <3>1
    <3>2. CASE Baseline(got) # None
      <4>1. missing("metric-baseline_health") => base \in Problems
        BY <2>1, <2>2, <2>4, <3>2 DEF CrashFree, Rates
      <4> QED
        BY <2>1, <2>2, <2>3, <3>2, <4>1 DEF BaselineFindings, Problems, Rates
    <3> QED
      BY <3>1, <3>2
  <2>10. says("finding", "CRASH_RATE_REGRESSION") \/ says("finding", "CRASH_RATE_IMPROVED") =>
           {own, base} \subseteq Rates
    <3>1. CodeOf[Attribution(got, got.new)] \notin {"CRASH_RATE_REGRESSION", "CRASH_RATE_IMPROVED"}
      BY DEF CodeOf, Attribution
    <3>2. ASSUME NEW f \in {"CRASH_RATE_REGRESSION", "CRASH_RATE_IMPROVED"}, f \in a.findings
          PROVE  {own, base} \subseteq Rates
      <4>1. f \notin Problems /\ f # "RELEASE_NOT_FOUND" /\ f # "ISSUE_REGRESSED"
        BY <3>2 DEF Problems
      <4>2. f \in BaselineFindings(own, base)
        BY <2>2, <3>1, <3>2, <4>1
      <4> QED
        BY <3>2, <4>2 DEF BaselineFindings
    <3> QED
      BY <2>1, <3>2
  <2> QED
    BY <2>5, <2>6, <2>7, <2>8, <2>9, <2>10, <2>11 DEF a, packet, says
<1> QED
  BY <1>1, PTL

-----------------------------------------------------------------------------
Has(v, S) == \E e \in S : events[e].release = v
Received(v) == {e \in DOMAIN events : events[e].release = v}

Listing == [listed : BOOLEAN, count : Nat, frames : SUBSET Files]
Requests == [version : Releases \cup {None}, base : Bases \cup {None}, tags : SUBSET Releases,
             new : Listing, regressed : Listing]
Labels == {"none", "graph", "new ids", "regressed ids", "new count", "new frames",
           "regressed count", "regressed frames", "answer"}

VTypes ==
  /\ tagged \in SUBSET Releases
  /\ row \in [first : Releases \cup {None}, regressed : Releases \cup {None}]
  /\ kept \in SUBSET (DOMAIN events) /\ purged \in SUBSET (DOMAIN events)
  /\ at \in Labels /\ got \in Requests
  /\ at # "none" => got.version \in Releases
  /\ reading => events # <<>>

(* A log names only releases that an event was seen in.                    *)
Named(log) ==
  \A n \in DOMAIN log : log[n].at < now /\ (log[n].version # None => Has(log[n].version, DOMAIN events))

(* So does the incident row, and these events were stored with it.         *)
RowHasEvents ==
  /\ row.first # None => Has(row.first, kept \cup purged)
  /\ row.regressed # None => Has(row.regressed, kept \cup purged)

NewCounted == at \in {"new frames", "regressed count", "regressed frames", "answer"}
RegressedCounted == at \in {"regressed frames", "answer"}

(* What a list says of version v, before and after its events are counted. *)
Accounted(i, v, told) ==
  /\ i.count <= Cardinality(Received(v))
  /\ ~i.listed \/ ~told => i.count = 0
  /\ i.listed => Has(v, kept \cup purged)
  /\ i.listed /\ told => i.count > 0 \/ Has(v, purged)

VInv ==
  /\ RInv /\ VTypes
  /\ Named(activity) /\ Named(read)
  /\ RowHasEvents
  /\ Accounted(got.new, got.version, NewCounted)
  /\ Accounted(got.regressed, got.version, RegressedCounted)

-----------------------------------------------------------------------------
LEMMA ReceivedFinite ==
  ASSUME Types, NEW v
  PROVE  /\ IsFiniteSet(Received(v)) /\ Cardinality(Received(v)) \in Nat
         /\ \A S \in SUBSET Received(v) :
              IsFiniteSet(S) /\ Cardinality(S) \in Nat /\ Cardinality(S) <= Cardinality(Received(v))
              /\ (S # {} => Cardinality(S) > 0)
<1>1. DOMAIN events = 1 .. Len(events) /\ Len(events) \in Nat
  BY DEF Types
<1>2. IsFiniteSet(DOMAIN events)
  BY <1>1, FS_Interval
<1>3. Received(v) \subseteq DOMAIN events
  BY DEF Received
<1>4. IsFiniteSet(Received(v))
  BY <1>2, <1>3, FS_Subset
<1>5. \A S : IsFiniteSet(S) => Cardinality(S) \in Nat /\ (Cardinality(S) = 0 <=> S = {})
  BY FS_CardinalityType, FS_EmptySet
<1>6. \A S \in SUBSET Received(v) :
        IsFiniteSet(S) /\ Cardinality(S) <= Cardinality(Received(v))
  BY <1>4, FS_Subset
<1> QED
  BY <1>4, <1>5, <1>6

\* Events are only added, at the end.
Grown ==
  /\ DOMAIN events \subseteq DOMAIN events'
  /\ \A e \in DOMAIN events : events'[e] = events[e]

LEMMA HasStays ==
  ASSUME Grown, NEW v, NEW S \in SUBSET DOMAIN events, NEW T, S \subseteq T, Has(v, S)
  PROVE  \E e \in T : events'[e].release = v
  BY DEF Grown, Has

LEMMA AccountedStays ==
  ASSUME Types', VTypes, Grown, NEW i \in Listing, NEW v, NEW c \in BOOLEAN, Accounted(i, v, c),
         kept \cup purged \subseteq (kept \cup purged)', purged \subseteq purged', Types
  PROVE  Accounted(i, v, c)'
<1>1. Received(v) \subseteq Received(v)'
  BY DEF Received, Grown
<1>2. IsFiniteSet(Received(v)')
  <2>1. DOMAIN events' = 1 .. Len(events') /\ Len(events') \in Nat
    BY DEF Types
  <2>2. IsFiniteSet(DOMAIN events')
    BY <2>1, FS_Interval
  <2>3. Received(v)' \subseteq DOMAIN events'
    BY DEF Received
  <2> QED
    BY <2>2, <2>3, FS_Subset
<1>3. /\ Cardinality(Received(v)) \in Nat /\ Cardinality(Received(v)') \in Nat
      /\ Cardinality(Received(v)) <= Cardinality(Received(v)')
  BY <1>1, <1>2, ReceivedFinite, FS_CardinalityType, FS_Subset
<1>4. i.count <= Cardinality(Received(v)')
  BY <1>3 DEF Accounted, Listing
<1>5. Has(v, kept \cup purged) => \E e \in (kept \cup purged)' : events'[e].release = v
  BY HasStays DEF VTypes
<1>6. Has(v, purged) => \E e \in purged' : events'[e].release = v
  BY HasStays DEF VTypes
<1>7. Received(v)' = {e \in DOMAIN events' : events'[e].release = v}
  BY DEF Received
<1> QED
  BY <1>4, <1>5, <1>6, <1>7 DEF Accounted, Has, Received

-----------------------------------------------------------------------------
\* Among naturals there is a smallest.
LEMMA Smallest ==
  ASSUME NEW S \in SUBSET Nat, S # {}
  PROVE  \E n \in S : \A m \in S : n <= m
<1> DEFINE Less == OpToRel(<, Nat)
<1>1. \A m, n \in Nat : m < n => <<m, n>> \in Less
  BY DEF OpToRel
<1>2. IsWellFoundedOn(Less, Nat)
  BY NatLessThanWellFounded
<1> HIDE DEF Less
<1>3. PICK n \in S : \A m \in S : ~(<<m, n>> \in Less)
  BY <1>2, WFMin
<1>4. \A m \in S : ~(m < n)
  BY <1>1, <1>3
<1>5. n \in Nat /\ \A m \in S : m \in Nat
  OBVIOUS
<1> QED
  BY <1>4, <1>5

LEMMA LatestIn ==
  ASSUME NEW S \in SUBSET LogEntry, S # {}, now \in Nat, \A x \in S : x.at < now
  PROVE  LatestOf(S) \in S
<1> DEFINE D == {now - x.at : x \in S}
<1>1. \A x \in S : x.at \in Nat
  BY DEF LogEntry
<1>2. D \in SUBSET Nat /\ D # {}
  BY <1>1
<1>3. PICK n \in D : \A m \in D : n <= m
  BY <1>2, Smallest
<1>4. PICK a \in S : n = now - a.at
  OBVIOUS
<1>5. \A x \in S : now - a.at <= now - x.at
  BY <1>3, <1>4
<1>6. \A x \in S : x.at <= a.at
  BY <1>1, <1>5
<1> QED
  BY <1>6 DEF LatestOf

LEMMA EarliestIn ==
  ASSUME NEW S \in SUBSET Event, S # {}
  PROVE  EarliestOf(S) \in S
<1> DEFINE D == {x.at : x \in S}
<1>1. \A x \in S : x.at \in Nat
  BY DEF Event
<1>2. D \in SUBSET Nat /\ D # {}
  BY <1>1
<1>3. PICK n \in D : \A m \in D : n <= m
  BY <1>2, Smallest
<1>4. PICK a \in S : n = a.at
  OBVIOUS
<1>5. \A x \in S : a.at <= x.at
  BY <1>3, <1>4
<1> QED
  BY <1>5 DEF EarliestOf

\* What regression_release returns, some event was seen in.
LEMMA ReleaseWasSeen ==
  ASSUME Types, NEW log \in Seq(LogEntry), Named(log)
  PROVE  LET v == regression_release(log, events) IN v # None => Has(v, DOMAIN events) /\ v \in Releases
<1> DEFINE regressions == TypedIn(log, "set_regression")
           later == {e \in {events[k] : k \in DOMAIN events} : e.at > After(log)}
           g == LatestOf(regressions)
<1>1. CASE regressions = {}
  BY <1>1 DEF regression_release
<1>2. CASE regressions # {}
  <2>1. regressions \subseteq LogEntry
    BY TypedEntries
  <2>2. \A x \in regressions : x.at < now /\ (x.version # None => Has(x.version, DOMAIN events))
    BY DEF TypedIn, Named
  <2> HIDE DEF regressions
  <2>3. g \in regressions
    BY <1>2, <2>1, <2>2, LatestIn DEF Types
  <2>4. g.version # None => Has(g.version, DOMAIN events) /\ g.version \in Releases
    BY <2>1, <2>2, <2>3 DEF LogEntry
  <2>5. later \subseteq Event
    BY EventTypes
  <2>6. later # {} => EarliestOf(later) \in later
    BY <2>5, EarliestIn
  <2>7. later # {} => Has(EarliestOf(later).release, DOMAIN events) /\ EarliestOf(later).release \in Releases
    BY <2>6, EventTypes DEF Has
  <2> HIDE DEF later, g
  <2>8. regression_release(log, events) =
          IF g.version # None THEN g.version
          ELSE IF later = {} THEN None ELSE EarliestOf(later).release
    BY <1>2 DEF regression_release, regressions, later, g
  <2> QED
    BY <2>4, <2>7, <2>8
<1> QED
  BY <1>1, <1>2

-----------------------------------------------------------------------------
LEMMA VInit == ImpactInit => VInv
<1> SUFFICES ASSUME ImpactInit PROVE VInv
  OBVIOUS
<1>1. RInv /\ events = <<>> /\ activity = <<>> /\ read = <<>> /\ reading = FALSE
  BY RInit DEF ImpactInit, Init
<1>2. /\ got.new = Listed /\ got.regressed = Listed /\ got.version = None
      /\ got \in Requests
  BY DEF ImpactInit, NoRequest, Requests, Listed, Listing
<1>3. VTypes /\ RowHasEvents
  BY <1>1, <1>2 DEF ImpactInit, VTypes, RowHasEvents, NoIncident, Labels
<1>4. Named(activity) /\ Named(read)
  BY <1>1 DEF Named
<1>5. \A c \in BOOLEAN : Accounted(Listed, None, c)
  BY <1>1, ReceivedFinite DEF Accounted, Listed, RInv
<1>6. NewCounted \in BOOLEAN /\ RegressedCounted \in BOOLEAN
  BY DEF NewCounted, RegressedCounted
<1> QED
  BY <1>1, <1>2, <1>3, <1>4, <1>5, <1>6 DEF VInv

\* What stays while a request waits for its next statement.
LEMMA RequestWaits ==
  ASSUME VInv, Types', Grown, at' = at, got' = got,
         kept \cup purged \subseteq (kept \cup purged)', purged \subseteq purged'
  PROVE  /\ Accounted(got.new, got.version, NewCounted)'
         /\ Accounted(got.regressed, got.version, RegressedCounted)'
<1>1. got.new \in Listing /\ got.regressed \in Listing
  BY DEF VInv, VTypes, Requests
<1>2. /\ Accounted(got.new, got.version, NewCounted)
      /\ Accounted(got.regressed, got.version, RegressedCounted)
  BY DEF VInv
<1>3. (NewCounted' <=> NewCounted) /\ (RegressedCounted' <=> RegressedCounted)
  BY DEF NewCounted, RegressedCounted
<1>4. ASSUME NEW i \in Listing, NEW v, NEW c \in BOOLEAN, Accounted(i, v, c)
      PROVE  /\ i.count <= Cardinality(Received(v)')
             /\ ~i.listed \/ ~c => i.count = 0
             /\ i.listed => \E e \in kept' \cup purged' : events'[e].release = v
             /\ i.listed /\ c => i.count > 0 \/ \E e \in purged' : events'[e].release = v
  <2>1. Accounted(i, v, c)'
    BY <1>4, AccountedStays DEF VInv, RInv
  <2> QED
    BY <2>1 DEF Accounted, Has
<1>5. ASSUME NEW i \in Listing, NEW v, NEW c \in BOOLEAN, Accounted(i, v, c),
             i = got.new, v = got.version, NewCounted <=> c
      PROVE  Accounted(got.new, got.version, NewCounted)'
  <2>1. i = got'.new /\ v = got'.version /\ (NewCounted' <=> c)
    BY <1>3, <1>5
  <2>2. {e \in DOMAIN events' : events'[e].release = v} = {e \in DOMAIN events' : events'[e].release = got'.version}
    BY <2>1
  <2>3. got'.new.count <= Cardinality({e \in DOMAIN events' : events'[e].release = got'.version})
    BY <1>4, <1>5, <2>1, <2>2 DEF Received
  <2>4. /\ ~got'.new.listed \/ ~NewCounted' => got'.new.count = 0
        /\ got'.new.listed => \E e \in kept' \cup purged' : events'[e].release = got'.version
        /\ got'.new.listed /\ NewCounted' =>
             got'.new.count > 0 \/ \E e \in purged' : events'[e].release = got'.version
    BY <1>4, <1>5, <2>1
  <2> QED
    BY <2>3, <2>4 DEF Accounted, Has, Received
<1>6. ASSUME NEW i \in Listing, NEW v, NEW c \in BOOLEAN, Accounted(i, v, c),
             i = got.regressed, v = got.version, RegressedCounted <=> c
      PROVE  Accounted(got.regressed, got.version, RegressedCounted)'
  <2>1. i = got'.regressed /\ v = got'.version /\ (RegressedCounted' <=> c)
    BY <1>3, <1>6
  <2>2. {e \in DOMAIN events' : events'[e].release = v} = {e \in DOMAIN events' : events'[e].release = got'.version}
    BY <2>1
  <2>3. got'.regressed.count <= Cardinality({e \in DOMAIN events' : events'[e].release = got'.version})
    BY <1>4, <1>6, <2>1, <2>2 DEF Received
  <2>4. /\ ~got'.regressed.listed \/ ~RegressedCounted' => got'.regressed.count = 0
        /\ got'.regressed.listed => \E e \in kept' \cup purged' : events'[e].release = got'.version
        /\ got'.regressed.listed /\ RegressedCounted' =>
             got'.regressed.count > 0 \/ \E e \in purged' : events'[e].release = got'.version
    BY <1>4, <1>6, <2>1
  <2> QED
    BY <2>3, <2>4 DEF Accounted, Has, Received
<1>7. NewCounted \in BOOLEAN /\ RegressedCounted \in BOOLEAN
  BY DEF NewCounted, RegressedCounted
<1>8. Accounted(got.new, got.version, NewCounted)'
  <2>1. CASE NewCounted
    <3>1. Accounted(got.new, got.version, TRUE)
      BY <1>2, <2>1 DEF Accounted
    <3> QED
      BY <1>1, <1>5, <2>1, <3>1
  <2>2. CASE ~NewCounted
    <3>1. Accounted(got.new, got.version, FALSE)
      BY <1>2, <2>2 DEF Accounted
    <3> QED
      BY <1>1, <1>5, <2>2, <3>1
  <2> QED
    BY <2>1, <2>2
<1>9. Accounted(got.regressed, got.version, RegressedCounted)'
  <2>1. CASE RegressedCounted
    <3>1. Accounted(got.regressed, got.version, TRUE)
      BY <1>2, <2>1 DEF Accounted
    <3> QED
      BY <1>1, <1>6, <2>1, <3>1
  <2>2. CASE ~RegressedCounted
    <3>1. Accounted(got.regressed, got.version, FALSE)
      BY <1>2, <2>2 DEF Accounted
    <3> QED
      BY <1>1, <1>6, <2>2, <3>1
  <2> QED
    BY <2>1, <2>2
<1> QED
  BY <1>8, <1>9

LEMMA NamedStays ==
  ASSUME Types, Types', Grown, now <= now', NEW log \in Seq(LogEntry), Named(log)
  PROVE  \A n \in DOMAIN log : log[n].at < now' /\
           (log[n].version # None => \E e \in DOMAIN events' : events'[e].release = log[n].version)
<1>1. \A n \in DOMAIN log : log[n].at \in Nat
  <2> HIDE DEF LogEntry
  <2>1. \A n \in DOMAIN log : log[n] \in LogEntry
    OBVIOUS
  <2> QED
    BY <2>1 DEF LogEntry
<1>2. now \in Nat /\ now' \in Nat
  BY DEF Types
<1> QED
  <2>1. \A v : Has(v, DOMAIN events) => \E e \in DOMAIN events' : events'[e].release = v
    BY DEF Has, Grown
  <2>2. \A n \in DOMAIN log : log[n].at < now'
    BY <1>1, <1>2 DEF Named
  <2> QED
    BY <2>1, <2>2 DEF Named

LEMMA SentryStep ==
  ASSUME VInv, RInv', Sentry
  PROVE  VInv'
<1>1. /\ tagged' = tagged /\ row' = row /\ kept' = kept /\ purged' = purged
      /\ at' = at /\ got' = got
      /\ Resolve \/ Seen \/ (events # <<>> /\ GetIssue)
  BY DEF Sentry, tables, request
<1>2. Types /\ Types'
  BY DEF VInv, RInv
<1>3. Grown /\ now <= now' /\ (events # <<>> => events' # <<>>)
  <2>1. CASE Seen
    <3>1. PICK r \in Releases : events' = Append(events, [release |-> r, at |-> now]) /\ now' = now + 2
      BY <2>1 DEF Seen
    <3>2. [release |-> r, at |-> now] \in Event
      BY <1>2 DEF Types, Event
    <3>3. /\ DOMAIN events' = DOMAIN events \cup {Len(events) + 1}
          /\ \A n \in DOMAIN events : events'[n] = events[n]
      BY <1>2, <3>1, <3>2, AppendedEvent DEF Types
    <3>4. events' # <<>> /\ now <= now'
      BY <1>2, <3>1, <3>3 DEF Types
    <3> QED
      BY <3>3, <3>4 DEF Grown
  <2>2. CASE Resolve \/ GetIssue
    BY <1>2, <2>2 DEF Resolve, GetIssue, issue, Grown, Types
  <2> QED
    BY <1>1, <2>1, <2>2
<1>4. VTypes'
  <2>1. reading' => events' # <<>>
    BY <1>1, <1>3 DEF Resolve, Seen, GetIssue, VInv, VTypes
  <2>2. kept' \in SUBSET (DOMAIN events') /\ purged' \in SUBSET (DOMAIN events')
    BY <1>1, <1>3 DEF Grown, VInv, VTypes
  <2> QED
    BY <1>1, <2>1, <2>2 DEF VInv, VTypes
<1>5. RowHasEvents'
  <2>1. \A v : Has(v, kept \cup purged) => \E e \in kept' \cup purged' : events'[e].release = v
    BY <1>1, <1>3, HasStays DEF VInv, VTypes
  <2> QED
    BY <1>1, <2>1 DEF VInv, RowHasEvents, Has
<1>6. \A log \in Seq(LogEntry) : Named(log) => \A n \in DOMAIN log :
        log[n].at < now' /\
        (log[n].version # None => \E e \in DOMAIN events' : events'[e].release = log[n].version)
  BY <1>2, <1>3, NamedStays
<1>7. Named(activity)'
  <2>1. CASE activity' = activity
    BY <1>6, <2>1 DEF VInv, RInv, Types, Named, Has
  <2>2. ASSUME NEW e \in LogEntry, activity' = Append(activity, e), e.at < now',
               e.version # None => \E n \in DOMAIN events' : events'[n].release = e.version
        PROVE  Named(activity)'
    <3> HIDE DEF LogEntry
    <3>1. activity \in Seq(LogEntry) /\ Named(activity)
      BY DEF VInv, RInv, Types
    <3>2. \A n \in DOMAIN activity' : activity'[n] = e \/ (n \in DOMAIN activity /\ activity'[n] = activity[n])
      BY <2>2, <3>1
    <3> QED
      BY <1>6, <2>2, <3>1, <3>2 DEF Named, Has
  <2>3. CASE Resolve
    <3>1. Entry("set_resolved", None) \in LogEntry /\ now < now + 1
      BY <1>2 DEF Types, Entry, LogEntry
    <3> QED
      BY <2>2, <2>3, <3>1 DEF Resolve, Entry
  <2>4. CASE Seen
    <3>1. PICK r \in Releases :
            /\ events' = Append(events, [release |-> r, at |-> now]) /\ now' = now + 2
            /\ IF resolved
               THEN \E v \in {r, None} : activity' = Append(activity,
                      [type |-> "set_regression", at |-> now + 1, version |-> v])
               ELSE activity' = activity
      BY <2>4 DEF Seen
    <3>2. [release |-> r, at |-> now] \in Event
      BY <1>2 DEF Types, Event
    <3>3. \E n \in DOMAIN events' : events'[n].release = r
      BY <1>2, <3>1, <3>2, AppendedEvent DEF Types
    <3>4. ASSUME NEW v \in {r, None},
                 activity' = Append(activity, [type |-> "set_regression", at |-> now + 1, version |-> v])
          PROVE  Named(activity)'
      <4>1. [type |-> "set_regression", at |-> now + 1, version |-> v] \in LogEntry /\ now + 1 < now + 2
        BY <1>2 DEF Types, LogEntry
      <4> QED
        BY <2>2, <3>1, <3>3, <3>4, <4>1
    <3> QED
      BY <2>1, <3>1, <3>4
  <2> QED
    BY <1>1, <2>1, <2>3, <2>4 DEF GetIssue, issue
<1>8. Named(read)'
  <2>1. read' = read \/ read' = activity
    BY <1>1 DEF Resolve, Seen, GetIssue
  <2>2. ASSUME NEW log \in Seq(LogEntry), Named(log), read' = log PROVE Named(read)'
    BY <1>6, <2>2 DEF Named, Has
  <2> QED
    BY <2>1, <2>2 DEF VInv, RInv, Types
<1>9. /\ Accounted(got.new, got.version, NewCounted)'
      /\ Accounted(got.regressed, got.version, RegressedCounted)'
  BY <1>1, <1>2, <1>3, RequestWaits
<1> QED
  BY <1>4, <1>5, <1>7, <1>8, <1>9 DEF VInv

LEMMA IngestStep ==
  ASSUME VInv, RInv', Ingest
  PROVE  VInv'
<1>1. /\ now' = now /\ resolved' = resolved /\ activity' = activity /\ events' = events
      /\ stored' = regression_release(read, events) /\ reading /\ reading' = FALSE /\ read' = <<>>
      /\ row' = [first |-> events[1].release, regressed |-> stored'] /\ kept' = DOMAIN events
      /\ purged' = purged /\ at' = at /\ got' = got
      /\ \E t \in TagSets : tagged' = t
  BY DEF Ingest, StoreIncident, issue, request
<1>2. Types /\ Types' /\ VTypes /\ Grown /\ Named(read) /\ read \in Seq(LogEntry)
  BY <1>1 DEF VInv, RInv, Grown, Types
<1>3. events[1].release \in Releases /\ 1 \in DOMAIN events
  <2>1. events # <<>> /\ events \in Seq(Event)
    BY <1>1, <1>2 DEF VTypes, Types
  <2>2. 1 \in DOMAIN events
    BY <2>1
  <2> QED
    BY <1>2, <2>2, EventTypes
<1>4. stored' # None => Has(stored', DOMAIN events) /\ stored' \in Releases
  BY <1>1, <1>2, ReleaseWasSeen
<1>5. VTypes'
  <2>1. tagged' \in SUBSET Releases
    BY <1>1, ImpactAssumption
  <2>2. row' \in [first : Releases \cup {None}, regressed : Releases \cup {None}]
    BY <1>1, <1>3, <1>4
  <2>3. kept' \in SUBSET (DOMAIN events') /\ purged' \in SUBSET (DOMAIN events')
    BY <1>1, <1>2 DEF VTypes
  <2> QED
    BY <1>1, <1>2, <2>1, <2>2, <2>3 DEF VTypes
<1>6. RowHasEvents'
  <2>1. row'.first = events[1].release /\ row'.regressed = stored'
    BY <1>1
  <2> QED
    BY <1>1, <1>3, <1>4, <2>1 DEF RowHasEvents, Has
<1>7. Named(activity)' /\ Named(read)'
  BY <1>1 DEF VInv, Named, Has
<1>8. /\ Accounted(got.new, got.version, NewCounted)'
      /\ Accounted(got.regressed, got.version, RegressedCounted)'
  BY <1>1, <1>2, RequestWaits DEF VTypes
<1> QED
  BY <1>5, <1>6, <1>7, <1>8 DEF VInv

LEMMA PurgeStep ==
  ASSUME VInv, RInv', Purge
  PROVE  VInv'
<1>1. /\ UNCHANGED <<vars, tagged, row, request>>
      /\ kept' \subseteq kept /\ purged' = purged \cup (kept \ kept')
  BY DEF Purge
<1>2. /\ now' = now /\ activity' = activity /\ events' = events /\ reading' = reading /\ read' = read
      /\ tagged' = tagged /\ row' = row /\ at' = at /\ got' = got
  BY <1>1 DEF vars, request
<1>3. Types /\ Types' /\ VTypes /\ Grown
  BY <1>2 DEF VInv, RInv, Grown
<1>4. kept' \cup purged' = kept \cup purged
  BY <1>1
<1>5. VTypes'
  BY <1>1, <1>2, <1>3 DEF VTypes
<1>6. RowHasEvents' /\ Named(activity)' /\ Named(read)'
  BY <1>2, <1>4 DEF VInv, RowHasEvents, Named, Has
<1>7. /\ Accounted(got.new, got.version, NewCounted)'
      /\ Accounted(got.regressed, got.version, RegressedCounted)'
  BY <1>1, <1>2, <1>3, <1>4, RequestWaits
<1> QED
  BY <1>5, <1>6, <1>7 DEF VInv

\* The events that a statement counts for a list.
LEMMA CountRight ==
  ASSUME VInv, NEW i \in Listing, NEW v \in Releases, v = got.version, Accounted(i, v, FALSE)
  PROVE  CountIn(i) \in Nat /\ Accounted([i EXCEPT !.count = CountIn(i)], v, TRUE)
<1> DEFINE j == [i EXCEPT !.count = CountIn(i)]
<1>1. j.listed = i.listed /\ j.count = CountIn(i) /\ CountIn(i) = IF i.listed THEN Cardinality(EventsIn(v)) ELSE 0
  BY DEF Listing, CountIn
<1>2. EventsIn(v) \subseteq Received(v)
  BY DEF EventsIn, Received, VInv, VTypes
<1>3. /\ Cardinality(EventsIn(v)) \in Nat /\ Cardinality(EventsIn(v)) <= Cardinality(Received(v))
      /\ EventsIn(v) # {} => Cardinality(EventsIn(v)) > 0
      /\ Cardinality(Received(v)) \in Nat
  BY <1>2, ReceivedFinite DEF VInv, RInv
<1>4. Has(v, kept \cup purged) => EventsIn(v) # {} \/ Has(v, purged)
  BY DEF Has, EventsIn
<1> HIDE DEF j
<1> QED
  BY <1>1, <1>3, <1>4 DEF Accounted, j

\* The frames that a statement loads: with an event of version v still there, all
\* that the stack names in v.
LEMMA FramesType ==
  ASSUME Types, VTypes, NEW i \in Listing
  PROVE  FramesIn(i) \in SUBSET Files
<1>1. \A e \in kept : FramesOf[events[e].release] \in SUBSET Files
  BY EventTypes, ImpactAssumption DEF VTypes
<1> QED
  BY <1>1 DEF FramesIn, Listing

LEMMA FramesComplete ==
  ASSUME VInv, NEW i \in Listing, i.listed, NEW v, Has(v, kept \cup purged)
  PROVE  FramesOf[v] \subseteq FramesIn(i) \/ Has(v, purged)
  BY DEF Has, FramesIn

LEMMA RequestStep ==
  ASSUME VInv, RInv', Request
  PROVE  VInv'
<1>1. UNCHANGED <<vars, tables>>
  BY DEF Request, Ask, LoadGraph, NewIds, RegressedIds, NewCount, NewFrames, RegressedCount,
     RegressedFrames, Answer, Read
<1>2. /\ now' = now /\ activity' = activity /\ events' = events /\ reading' = reading /\ read' = read
      /\ tagged' = tagged /\ row' = row /\ kept' = kept /\ purged' = purged
  BY <1>1 DEF vars, tables
<1>3. RowHasEvents' /\ Named(activity)' /\ Named(read)'
  BY <1>2 DEF VInv, RowHasEvents, Named, Has
<1>4. Types /\ VTypes /\ got \in Requests /\ got.new \in Listing /\ got.regressed \in Listing
  BY DEF VInv, RInv, VTypes, Requests
<1> DEFINE Answers(a, g) ==
      /\ a \in Labels /\ g \in Requests /\ (a # "none" => g.version \in Releases)
      /\ Accounted(g.new, g.version, a \in {"new frames", "regressed count", "regressed frames", "answer"})
      /\ Accounted(g.regressed, g.version, a \in {"regressed frames", "answer"})
<1>5. ASSUME NEW a, NEW g, at' = a, got' = g, Answers(a, g) PROVE VInv'
  <2>1. VTypes'
    BY <1>2, <1>4, <1>5 DEF VTypes
  <2>2. /\ Accounted(got.new, got.version, NewCounted)'
        /\ Accounted(got.regressed, got.version, RegressedCounted)'
    BY <1>2, <1>5 DEF Accounted, Has, Received, NewCounted, RegressedCounted
  <2> QED
    BY <1>3, <2>1, <2>2 DEF VInv
<1>6. Answers(at, got)
  BY <1>4 DEF VInv, VTypes, NewCounted, RegressedCounted
<1>7. /\ \A v : Accounted(Listed, v, FALSE)
      /\ NoRequest \in Requests /\ NoRequest.new = Listed /\ NoRequest.regressed = Listed
  BY <1>4, ReceivedFinite DEF Accounted, Listed, NoRequest, Requests, Listing
<1>8. CASE Ask
  <2>1. PICK v \in Releases, b \in Bases :
          got' = [NoRequest EXCEPT !.version = v, !.base = b] /\ at' = "graph"
    BY <1>8 DEF Ask
  <2> DEFINE g == [NoRequest EXCEPT !.version = v, !.base = b]
  <2>2. g \in Requests /\ g.version = v /\ g.new = Listed /\ g.regressed = Listed
    BY DEF NoRequest, Requests, Listed, Listing
  <2> HIDE DEF g
  <2>3. Answers("graph", g)
    BY <1>7, <2>2 DEF Accounted, Labels
  <2> QED
    BY <1>5, <2>1, <2>3 DEF g
<1>9. CASE LoadGraph
  <2>1. CASE at' = "none" /\ got' = NoRequest
    <3>1. Answers("none", NoRequest)
      BY <1>7 DEF Accounted, Labels
    <3> QED
      BY <1>5, <2>1, <3>1
  <2>2. CASE at' = "new ids" /\ got' = [got EXCEPT !.tags = tagged]
    <3> DEFINE g == [got EXCEPT !.tags = tagged]
    <3>1. g \in Requests /\ g.version = got.version /\ g.new = got.new /\ g.regressed = got.regressed
      BY <1>4 DEF Requests, VTypes
    <3> HIDE DEF g
    <3>2. Answers("new ids", g)
      BY <1>6, <1>9, <3>1 DEF Accounted, Labels, LoadGraph
    <3> QED
      BY <1>5, <2>2, <3>2 DEF g
  <2> QED
    BY <1>9, <2>1, <2>2 DEF LoadGraph
<1>10. CASE NewIds
  <2> DEFINE l == (row.first = got.version)
             g == [got EXCEPT !.new.listed = l]
  <2>1. /\ g \in Requests /\ g.version = got.version /\ g.regressed = got.regressed
        /\ g.new.listed = l /\ g.new.count = got.new.count /\ g.new \in Listing
    BY <1>4 DEF Requests, Listing
  <2>2. at = "new ids" /\ at' = "regressed ids" /\ got' = g
    BY <1>10 DEF NewIds, Read
  <2>3. l => Has(got.version, kept \cup purged)
    BY <1>4, <2>2, RegressionAssumption DEF VInv, RowHasEvents, VTypes
  <2> HIDE DEF g, l
  <2>4. Answers("regressed ids", g)
    BY <1>6, <2>1, <2>2, <2>3 DEF Accounted, Labels
  <2> QED
    BY <1>5, <2>2, <2>4
<1>11. CASE RegressedIds
  <2> DEFINE l == (row.regressed = got.version)
             g == [got EXCEPT !.regressed.listed = l]
  <2>1. /\ g \in Requests /\ g.version = got.version /\ g.new = got.new
        /\ g.regressed.listed = l /\ g.regressed.count = got.regressed.count /\ g.regressed \in Listing
    BY <1>4 DEF Requests, Listing
  <2>2. at = "regressed ids" /\ at' = "new count" /\ got' = g
    BY <1>11 DEF RegressedIds, Read
  <2>3. l => Has(got.version, kept \cup purged)
    BY <1>4, <2>2, RegressionAssumption DEF VInv, RowHasEvents, VTypes
  <2> HIDE DEF g, l
  <2>4. Answers("new count", g)
    BY <1>6, <2>1, <2>2, <2>3 DEF Accounted, Labels
  <2> QED
    BY <1>5, <2>2, <2>4
<1>12. CASE NewCount
  <2> DEFINE g == [got EXCEPT !.new.count = CountIn(got.new)]
             i == [got.new EXCEPT !.count = CountIn(got.new)]
  <2>1. at = "new count" /\ at' = "new frames" /\ got' = g
    BY <1>12 DEF NewCount, Read
  <2>2. got.version \in Releases /\ Accounted(got.new, got.version, FALSE)
    BY <1>6, <2>1 DEF Accounted
  <2>3. CountIn(got.new) \in Nat /\ Accounted(i, got.version, TRUE)
    BY <1>4, <2>2, CountRight
  <2>4. g \in Requests /\ g.version = got.version /\ g.regressed = got.regressed /\ g.new = i
    BY <1>4, <2>3 DEF Requests, Listing
  <2> HIDE DEF g, i
  <2>5. Answers("new frames", g)
    BY <1>6, <2>1, <2>2, <2>3, <2>4 DEF Accounted, Labels
  <2> QED
    BY <1>5, <2>1, <2>5
<1>13. CASE NewFrames
  <2> DEFINE m == FramesIn(got.new)
             g == [got EXCEPT !.new.frames = m]
  <2>1. at = "new frames" /\ at' = "regressed count" /\ got' = g
    BY <1>13 DEF NewFrames, Read
  <2>2. m \in SUBSET Files
    BY <1>4, FramesType
  <2>3. /\ g \in Requests /\ g.version = got.version /\ g.regressed = got.regressed
        /\ g.new.listed = got.new.listed /\ g.new.count = got.new.count
    <3> HIDE DEF m
    <3> QED
      BY <1>4, <2>2 DEF Requests, Listing
  <2> HIDE DEF g, m
  <2>4. Answers("regressed count", g)
    BY <1>6, <2>1, <2>3 DEF Accounted, Labels
  <2> QED
    BY <1>5, <2>1, <2>4
<1>14. CASE RegressedCount
  <2> DEFINE g == [got EXCEPT !.regressed.count = CountIn(got.regressed)]
             i == [got.regressed EXCEPT !.count = CountIn(got.regressed)]
  <2>1. at = "regressed count" /\ at' = "regressed frames" /\ got' = g
    BY <1>14 DEF RegressedCount, Read
  <2>2. got.version \in Releases /\ Accounted(got.regressed, got.version, FALSE)
    BY <1>6, <2>1 DEF Accounted
  <2>3. CountIn(got.regressed) \in Nat /\ Accounted(i, got.version, TRUE)
    BY <1>4, <2>2, CountRight
  <2>4. g \in Requests /\ g.version = got.version /\ g.new = got.new /\ g.regressed = i
    BY <1>4, <2>3 DEF Requests, Listing
  <2> HIDE DEF g, i
  <2>5. Answers("regressed frames", g)
    BY <1>6, <2>1, <2>2, <2>3, <2>4 DEF Accounted, Labels
  <2> QED
    BY <1>5, <2>1, <2>5
<1>15. CASE RegressedFrames
  <2> DEFINE m == FramesIn(got.regressed)
             g == [got EXCEPT !.regressed.frames = m]
  <2>1. at = "regressed frames" /\ at' = "answer" /\ got' = g
    BY <1>15 DEF RegressedFrames, Read
  <2>2. m \in SUBSET Files
    BY <1>4, FramesType
  <2>3. /\ g \in Requests /\ g.version = got.version /\ g.new = got.new
        /\ g.regressed.listed = got.regressed.listed /\ g.regressed.count = got.regressed.count
    <3> HIDE DEF m
    <3> QED
      BY <1>4, <2>2 DEF Requests, Listing
  <2> HIDE DEF g, m
  <2>4. Answers("answer", g)
    BY <1>6, <2>1, <2>3 DEF Accounted, Labels
  <2> QED
    BY <1>5, <2>1, <2>4
<1>16. CASE Answer
  <2>1. Answers("none", NoRequest)
    BY <1>7 DEF Accounted, Labels
  <2> QED
    BY <1>5, <1>16, <2>1 DEF Answer, Read
<1> QED
  BY <1>8, <1>9, <1>10, <1>11, <1>12, <1>13, <1>14, <1>15, <1>16 DEF Request

-----------------------------------------------------------------------------
LEMMA VStep == VInv /\ [ImpactNext]_<<vars, tables, request>> => VInv'
<1> SUFFICES ASSUME VInv, [ImpactNext]_<<vars, tables, request>> PROVE VInv'
  OBVIOUS
<1>1. [Next]_vars
  BY ImpactStep
<1>2. RInv'
  BY <1>1, RStep DEF VInv
<1>3. CASE UNCHANGED <<vars, tables, request>>
  <2>1. /\ now' = now /\ activity' = activity /\ events' = events /\ reading' = reading /\ read' = read
        /\ tagged' = tagged /\ row' = row /\ kept' = kept /\ purged' = purged /\ at' = at /\ got' = got
    BY <1>3 DEF vars, tables, request
  <2>2. VTypes' /\ RowHasEvents' /\ Named(activity)' /\ Named(read)'
    BY <2>1 DEF VInv, VTypes, RowHasEvents, Named, Has
  <2>3. Types' /\ Grown
    BY <1>2, <2>1 DEF RInv, Grown
  <2>4. /\ Accounted(got.new, got.version, NewCounted)'
        /\ Accounted(got.regressed, got.version, RegressedCounted)'
    BY <2>1, <2>3, RequestWaits
  <2> QED
    BY <1>2, <2>2, <2>4 DEF VInv
<1> QED
  BY <1>2, <1>3, SentryStep, IngestStep, PurgeStep, RequestStep DEF ImpactNext

\* repository.py: for any tables and any interleaving, a listed issue has events
\* in the release unless they were purged, and no event is counted that was not
\* received.
THEOREM VolumesAreOfListedIssues == ImpactSpec => []VolumeOfListedIssues
<1>1. VInv => VolumeOfListedIssues
  <2> SUFFICES ASSUME VInv, at = "answer" PROVE VolumeOfListedIssues
    BY DEF VolumeOfListedIssues
  <2>1. Accounted(got.new, got.version, TRUE) /\ Accounted(got.regressed, got.version, TRUE)
    BY DEF VInv, NewCounted, RegressedCounted, Accounted
  <2>2. got.new.count \in Nat /\ got.regressed.count \in Nat /\ Cardinality(Received(got.version)) \in Nat
    BY ReceivedFinite DEF VInv, RInv, VTypes, Requests, Listing
  <2>3. \A e \in purged : events[e].release = got.version => e \in purged \cap Received(got.version)
    BY DEF VInv, VTypes, Received
  <2>4. \A i \in {got.new, got.regressed} :
          /\ i.listed /\ purged \cap Received(got.version) = {} => i.count > 0
          /\ i.count <= Cardinality(Received(got.version))
    BY <2>1, <2>3 DEF Accounted, Has
  <2>5. ~(got.new.listed /\ got.regressed.listed) =>
          got.new.count + got.regressed.count <= Cardinality(Received(got.version))
    BY <2>1, <2>2 DEF Accounted
  <2> QED
    BY <2>4, <2>5 DEF VolumeOfListedIssues, Received
<1> QED
  BY <1>1, VInit, VStep, PTL DEF ImpactSpec

-----------------------------------------------------------------------------
(* The frames of a listed issue: all that its stack names in the version   *)
(* of the request, unless an event of that version was purged.             *)

NewFramed == at \in {"regressed count", "regressed frames", "answer"}
RegressedFramed == at = "answer"

Framed(i, v) == i.listed => FramesOf[v] \subseteq i.frames \/ Has(v, purged)

SInv ==
  /\ NewFramed => Framed(got.new, got.version)
  /\ RegressedFramed => Framed(got.regressed, got.version)

LEMMA SStep == VInv /\ SInv /\ [ImpactNext]_<<vars, tables, request>> => SInv'
<1> SUFFICES ASSUME VInv, SInv, [ImpactNext]_<<vars, tables, request>> PROVE SInv'
  OBVIOUS
<1>0. /\ Types /\ VTypes /\ got \in Requests /\ got.new \in Listing /\ got.regressed \in Listing
  BY DEF VInv, RInv, VTypes, Requests
<1>1. ASSUME at' = at, got' = got, purged \subseteq purged',
             \A e \in purged : events'[e] = events[e]
      PROVE  SInv'
  <2>1. \A v : Has(v, purged) => \E e \in purged' : events'[e].release = v
    BY <1>1 DEF Has
  <2> QED
    BY <1>1, <2>1 DEF SInv, NewFramed, RegressedFramed, Framed, Has
<1>2. CASE Sentry
  <2>1. at' = at /\ got' = got /\ purged' = purged /\ (Resolve \/ Seen \/ GetIssue)
    BY <1>2 DEF Sentry, tables, request
  <2>2. \A e \in purged : events'[e] = events[e]
    <3>1. CASE Seen
      <4>1. PICK r \in Releases : events' = Append(events, [release |-> r, at |-> now])
        BY <3>1 DEF Seen
      <4>2. [release |-> r, at |-> now] \in Event
        BY <1>0 DEF Types, Event
      <4> QED
        BY <1>0, <4>1, <4>2, AppendedEvent DEF Types, VTypes
    <3>2. CASE Resolve \/ GetIssue
      BY <3>2 DEF Resolve, GetIssue, issue
    <3> QED
      BY <2>1, <3>1, <3>2
  <2> QED
    BY <1>1, <2>1, <2>2
<1>3. CASE Ingest
  BY <1>1, <1>3 DEF Ingest, StoreIncident, issue, request
<1>4. CASE Purge
  BY <1>1, <1>4 DEF Purge, vars, request
<1>5. CASE Request
  <2>1. UNCHANGED <<events, kept, purged>>
    BY <1>5 DEF Request, Ask, LoadGraph, NewIds, RegressedIds, NewCount, NewFrames, RegressedCount,
       RegressedFrames, Answer, Read, vars, tables
  <2>2. \A v : Has(v, purged)' <=> Has(v, purged)
    BY <2>1 DEF Has
  <2>3. CASE NewFrames
    <3> DEFINE m == FramesIn(got.new)
    <3>1. at = "new frames" /\ at' = "regressed count" /\ got' = [got EXCEPT !.new.frames = m]
      BY <2>3 DEF NewFrames, Read
    <3>2. Accounted(got.new, got.version, NewCounted)
      BY DEF VInv
    <3>3. got.new.listed => FramesOf[got.version] \subseteq m \/ Has(got.version, purged)
      BY <1>0, <3>2, FramesComplete DEF Accounted
    <3> HIDE DEF m
    <3>4. got'.new.listed = got.new.listed /\ got'.new.frames = m /\ got'.version = got.version
      BY <1>0, <3>1 DEF Requests, Listing
    <3> QED
      BY <2>1, <3>1, <3>3, <3>4 DEF SInv, NewFramed, RegressedFramed, Framed, Has
  <2>4. CASE RegressedFrames
    <3> DEFINE m == FramesIn(got.regressed)
    <3>1. at = "regressed frames" /\ at' = "answer" /\ got' = [got EXCEPT !.regressed.frames = m]
      BY <2>4 DEF RegressedFrames, Read
    <3>2. Accounted(got.regressed, got.version, RegressedCounted)
      BY DEF VInv
    <3>3. got.regressed.listed => FramesOf[got.version] \subseteq m \/ Has(got.version, purged)
      BY <1>0, <3>2, FramesComplete DEF Accounted
    <3> HIDE DEF m
    <3>4. /\ got'.regressed.listed = got.regressed.listed /\ got'.regressed.frames = m
          /\ got'.version = got.version /\ got'.new = got.new
      BY <1>0, <3>1 DEF Requests, Listing
    <3> QED
      BY <2>1, <3>1, <3>3, <3>4 DEF SInv, NewFramed, RegressedFramed, Framed, Has
  <2>5. CASE RegressedCount
    <3> DEFINE c == CountIn(got.regressed)
    <3>1. at = "regressed count" /\ at' = "regressed frames" /\ got' = [got EXCEPT !.regressed.count = c]
      BY <2>5 DEF RegressedCount, Read
    <3> HIDE DEF c
    <3>2. got'.version = got.version /\ got'.new = got.new
      BY <1>0, <3>1 DEF Requests, Listing
    <3> QED
      BY <2>1, <3>1, <3>2 DEF SInv, NewFramed, RegressedFramed, Framed, Has
  <2>6. CASE Ask \/ LoadGraph \/ NewIds \/ RegressedIds \/ NewCount \/ Answer
    <3>1. ~NewFramed' /\ ~RegressedFramed'
      BY <2>6 DEF Ask, LoadGraph, NewIds, RegressedIds, NewCount, Answer, Read, NewFramed, RegressedFramed
    <3> QED
      BY <3>1 DEF SInv
  <2> QED
    BY <1>5, <2>3, <2>4, <2>5, <2>6 DEF Request
<1>6. CASE UNCHANGED <<vars, tables, request>>
  BY <1>1, <1>6 DEF vars, tables, request
<1> QED
  BY <1>2, <1>3, <1>4, <1>5, <1>6 DEF ImpactNext

\* context.py and repository.py: whatever is ingested and purged between the
\* statements of a request, a release that changed a file of the issue's stack in
\* it is cleared only if retention has deleted an event of the issue in it.
THEOREM ClearedOnlyAfterPurge == ImpactSpec => []NeverCleared
<1>1. ImpactInit => SInv
  BY DEF ImpactInit, SInv, NewFramed, RegressedFramed
<1>2. VInv /\ SInv => NeverCleared
  <2> SUFFICES ASSUME VInv, SInv, at = "answer", NEW h \in Healths,
                      "none" \in build_release_impact(got, h, h).new
                             \cup build_release_impact(got, h, h).regressed,
                      FramesOf[got.version] \cap Changed[got.version] # {}
               PROVE  purged \cap Received(got.version) # {}
    BY DEF NeverCleared, Received
  <2>1. PICK i \in {got.new, got.regressed} : i.listed /\ Attribution(got, i) = "none"
    BY DEF build_release_impact
  <2>2. Changed[got.version] \cap i.frames = {}
    BY <2>1 DEF Attribution
  <2>3. Framed(i, got.version)
    BY <2>1 DEF SInv, NewFramed, RegressedFramed
  <2>4. Has(got.version, purged)
    BY <2>1, <2>2, <2>3 DEF Framed
  <2> QED
    BY <2>4 DEF Has, Received, VInv, VTypes
<1> QED
  BY <1>1, <1>2, VInit, VStep, SStep, PTL DEF ImpactSpec

-----------------------------------------------------------------------------
(* Release health: module SessionHealth.                                   *)

USE DEF Compared, Statuses

Table == [Compared -> [Buckets -> [Statuses -> Nat]]]

HealthTypes ==
  /\ hour \in Nat
  /\ sentry \in Table /\ counts \in Table /\ answer \in Table
  /\ ingesting \in Nat \cup {-1}
  /\ counted \in [Buckets -> Nat \cup {-1}]

(* Nothing was read in the future.                                         *)
ReadBefore == ingesting <= hour /\ \A b \in Buckets : counted[b] <= hour

(* Crash counts only grow until they are final, so no copy is ahead of     *)
(* Sentry.  (Healthy counts fall, when a session turns out to have         *)
(* crashed.)                                                               *)
NoneAhead ==
  \A r \in Compared, b \in Buckets :
    /\ counts[r][b].crashed <= sentry[r][b].crashed
    /\ answer[r][b].crashed <= sentry[r][b].crashed

(* Is b a bucket that the running ingest has read?                         *)
InAnswer(b) == b + WindowHours > ingesting /\ b <= ingesting

(* What it has read after it settled is final in the answer already, and   *)
(* of what it has not read there is nothing.                               *)
AnswerFinal ==
  \A r \in Compared, b \in Buckets, s \in Statuses :
    /\ InAnswer(b) /\ b + 1 + SettleHours <= ingesting => answer[r][b][s] = sentry[r][b][s]
    /\ ~InAnswer(b) => answer[r][b][s] = 0

(* A bucket read after it settled holds each of Sentry's counts that is not *)
(* 0; a count that fell to 0 has no row in the answer, so the old row stays. *)
RowsFinal ==
  \A r \in Compared, b \in Buckets, s \in Statuses :
    counted[b] >= b + 1 + SettleHours /\ sentry[r][b][s] # 0 =>
      counts[r][b][s] = sentry[r][b][s]

HealthInv == HealthTypes /\ ReadBefore /\ NoneAhead /\ AnswerFinal /\ RowsFinal

-----------------------------------------------------------------------------
LEMMA BucketsAreHours == Buckets \subseteq Nat /\ SettleHours \in Nat /\ WindowHours \in Nat
  BY HealthAssumption DEF Buckets

LEMMA NoCountsZero ==
  NoCounts \in Table /\ \A r \in Compared, b \in Buckets, s \in Statuses : NoCounts[r][b][s] = 0
  BY DEF NoCounts, Table

LEMMA TableEntries ==
  ASSUME NEW c \in Table, NEW r \in Compared, NEW b \in Buckets
  PROVE  /\ c[r][b] \in [Statuses -> Nat] /\ c[r][b].healthy \in Nat /\ c[r][b].crashed \in Nat
         /\ \A s \in Statuses : c[r][b][s] \in Nat
         /\ c[r][b].crashed = c[r][b]["crashed"] /\ c[r][b].healthy = c[r][b]["healthy"]
  BY DEF Table

\* The crash counts of the buckets that were read after they settled.
LEMMA CrashRowsFinal ==
  ASSUME HealthInv
  PROVE  RereadIsFinal
<1> SUFFICES ASSUME NEW r \in Compared, NEW b \in Buckets, counted[b] >= b + 1 + SettleHours
             PROVE  counts[r][b].crashed = sentry[r][b].crashed
  BY DEF RereadIsFinal
<1>1. counts[r][b].crashed \in Nat /\ sentry[r][b].crashed \in Nat
  BY TableEntries DEF HealthInv, HealthTypes
<1>2. counts[r][b].crashed <= sentry[r][b].crashed
  BY DEF HealthInv, NoneAhead
<1>3. sentry[r][b].crashed # 0 => counts[r][b].crashed = sentry[r][b].crashed
  BY DEF HealthInv, RowsFinal
<1> QED
  BY <1>1, <1>2, <1>3

-----------------------------------------------------------------------------
LEMMA IInit == HealthInit => HealthInv
<1> SUFFICES ASSUME HealthInit PROVE HealthInv
  OBVIOUS
<1>1. HealthTypes /\ ReadBefore
  BY NoCountsZero, BucketsAreHours DEF HealthInit, HealthTypes, ReadBefore
<1>2. \A r \in Compared, b \in Buckets, s \in Statuses :
        sentry[r][b][s] = 0 /\ counts[r][b][s] = 0 /\ answer[r][b][s] = 0
  BY NoCountsZero DEF HealthInit
<1>3. \A r \in Compared, b \in Buckets :
        sentry[r][b].crashed = 0 /\ counts[r][b].crashed = 0 /\ answer[r][b].crashed = 0
  BY <1>2
<1>4. NoneAhead /\ RowsFinal
  BY <1>2, <1>3 DEF NoneAhead, RowsFinal
<1>5. AnswerFinal
  BY <1>2, BucketsAreHours DEF AnswerFinal, InAnswer, HealthInit
<1> QED
  BY <1>1, <1>4, <1>5 DEF HealthInv

\* A session that begins changes no count of crashes, nor a settled bucket.
LEMMA SessionEffect ==
  ASSUME HealthTypes, Session
  PROVE  /\ sentry' \in Table
         /\ \A r \in Compared, b \in Buckets :
              /\ sentry'[r][b].crashed = sentry[r][b].crashed
              /\ Settled(b) => sentry'[r][b] = sentry[r][b]
<1>1. PICK r \in Compared : sentry' = [sentry EXCEPT ![r][hour].healthy = @ + 1]
  BY DEF Session
<1>2. hour \in Buckets /\ sentry \in Table
  BY DEF Session, HealthTypes
<1>3. ~Settled(hour)
  BY BucketsAreHours DEF Settled, HealthTypes
<1>4. \A b \in Buckets : Settled(b) => b # hour
  BY <1>3
<1> HIDE DEF Settled
<1>5. /\ sentry' \in Table
      /\ \A q \in Compared, b \in Buckets :
           /\ sentry'[q][b].crashed = sentry[q][b].crashed
           /\ b # hour => sentry'[q][b] = sentry[q][b]
  BY <1>1, <1>2 DEF Table
<1> QED
  BY <1>4, <1>5

\* A crash report adds to a count of crashes, of a bucket that is not settled.
LEMMA CrashEffect ==
  ASSUME HealthTypes, CrashReport
  PROVE  /\ sentry' \in Table
         /\ \A r \in Compared, b \in Buckets :
              /\ sentry[r][b].crashed <= sentry'[r][b].crashed
              /\ Settled(b) => sentry'[r][b] = sentry[r][b]
<1>1. PICK r \in Compared, b \in Buckets :
        /\ ~Settled(b) /\ sentry[r][b].healthy > 0
        /\ sentry' = [sentry EXCEPT ![r][b].healthy = @ - 1, ![r][b].crashed = @ + 1]
  BY DEF CrashReport
<1>2. sentry \in Table
  BY DEF HealthTypes
<1>3. sentry' \in Table
  BY <1>1, <1>2 DEF Table
<1>4. ASSUME NEW q \in Compared, NEW c \in Buckets
      PROVE  sentry[q][c].crashed <= sentry'[q][c].crashed
             /\ (Settled(c) => sentry'[q][c] = sentry[q][c])
  <2>1. CASE q = r /\ c = b
    <3>1. sentry'[q][c].crashed = sentry[q][c].crashed + 1
      BY <1>1, <1>2, <2>1 DEF Table
    <3> QED
      BY <1>1, <1>2, <2>1, <3>1, TableEntries
  <2>2. CASE ~(q = r /\ c = b)
    <3>1. sentry'[q][c] = sentry[q][c]
      BY <1>1, <1>2, <2>2 DEF Table
    <3> QED
      BY <1>2, <3>1, TableEntries
  <2> QED
    BY <2>1, <2>2
<1> QED
  BY <1>3, <1>4

\* What the answer of session_counts holds.
LEMMA AnswerEffect ==
  ASSUME HealthTypes, SessionCounts
  PROVE  /\ answer' \in Table
         /\ \A r \in Compared, b \in Buckets :
              answer'[r][b] = IF Covered(b) THEN sentry[r][b] ELSE NoCounts[r][b]
<1>1. sentry \in Table /\ NoCounts \in Table
  BY NoCountsZero DEF HealthTypes
<1>2. answer' = [r \in Compared |-> [b \in Buckets |->
                   IF Covered(b) THEN sentry[r][b] ELSE NoCounts[r][b]]]
  BY DEF SessionCounts
<1> QED
  BY <1>1, <1>2 DEF Table

\* What the upsert leaves.
LEMMA CommitEffect ==
  ASSUME HealthTypes, Commit
  PROVE  /\ counts' \in Table
         /\ \A r \in Compared, b \in Buckets, s \in Statuses : counts'[r][b][s] =
              IF answer[r][b][s] # 0 THEN answer[r][b][s] ELSE counts[r][b][s]
<1>1. counts \in Table /\ answer \in Table
  BY DEF HealthTypes
<1>2. counts' = [r \in Compared |-> [b \in Buckets |-> [s \in Statuses |->
                   IF answer[r][b][s] # 0 THEN answer[r][b][s] ELSE counts[r][b][s]]]]
  BY DEF Commit, Upserted
<1> QED
  BY <1>1, <1>2 DEF Table

-----------------------------------------------------------------------------
LEMMA GrowStep ==
  ASSUME HealthInv, Session \/ CrashReport
  PROVE  HealthInv'
<1> USE DEF HealthInv
<1>1. UNCHANGED <<hour, counts, answer, ingesting, counted>>
  BY DEF Session, CrashReport
<1>2. /\ sentry' \in Table
      /\ \A r \in Compared, b \in Buckets :
           /\ sentry[r][b].crashed <= sentry'[r][b].crashed
           /\ Settled(b) => sentry'[r][b] = sentry[r][b]
  <2>1. CASE Session
    BY <2>1, SessionEffect, TableEntries DEF HealthTypes
  <2>2. CASE CrashReport
    BY <2>2, CrashEffect
  <2> QED
    BY <2>1, <2>2
<1>3. HealthTypes' /\ ReadBefore'
  BY <1>1, <1>2 DEF HealthTypes, ReadBefore
<1>4. NoneAhead'
  <2> SUFFICES ASSUME NEW r \in Compared, NEW b \in Buckets
               PROVE  counts[r][b].crashed <= sentry'[r][b].crashed
                      /\ answer[r][b].crashed <= sentry'[r][b].crashed
    BY <1>1 DEF NoneAhead
  <2>1. counts[r][b].crashed <= sentry[r][b].crashed /\ answer[r][b].crashed <= sentry[r][b].crashed
    BY DEF NoneAhead
  <2> QED
    BY <1>2, <2>1, TableEntries DEF HealthTypes
<1>5. AnswerFinal'
  <2> SUFFICES ASSUME NEW r \in Compared, NEW b \in Buckets, NEW s \in Statuses
               PROVE  /\ InAnswer(b) /\ b + 1 + SettleHours <= ingesting =>
                           answer[r][b][s] = sentry'[r][b][s]
                      /\ ~InAnswer(b) => answer[r][b][s] = 0
    BY <1>1 DEF AnswerFinal, InAnswer
  <2>1. b + 1 + SettleHours <= ingesting => Settled(b)
    BY BucketsAreHours DEF Settled, ReadBefore, HealthTypes
  <2> QED
    BY <1>2, <2>1 DEF AnswerFinal
<1>6. RowsFinal'
  <2> SUFFICES ASSUME NEW r \in Compared, NEW b \in Buckets, NEW s \in Statuses,
                      counted[b] >= b + 1 + SettleHours, sentry'[r][b][s] # 0
               PROVE  counts[r][b][s] = sentry'[r][b][s]
    BY <1>1 DEF RowsFinal
  <2>1. Settled(b)
    BY BucketsAreHours DEF Settled, ReadBefore, HealthTypes
  <2> QED
    BY <1>2, <2>1 DEF RowsFinal
<1> QED
  BY <1>3, <1>4, <1>5, <1>6

LEMMA CountStep ==
  ASSUME HealthInv, SessionCounts
  PROVE  HealthInv'
<1> USE DEF HealthInv
<1>1. ingesting' = hour /\ UNCHANGED <<hour, sentry, counts, counted>>
  BY DEF SessionCounts
<1>2. /\ answer' \in Table
      /\ \A r \in Compared, b \in Buckets, s \in Statuses :
           answer'[r][b][s] = IF Covered(b) THEN sentry[r][b][s] ELSE 0
  BY AnswerEffect, NoCountsZero
<1>3. HealthTypes' /\ ReadBefore'
  BY <1>1, <1>2 DEF HealthTypes, ReadBefore
<1>4. NoneAhead'
  <2> SUFFICES ASSUME NEW r \in Compared, NEW b \in Buckets
               PROVE  counts[r][b].crashed <= sentry[r][b].crashed
                      /\ answer'[r][b].crashed <= sentry[r][b].crashed
    BY <1>1 DEF NoneAhead
  <2>1. answer'[r][b].crashed = IF Covered(b) THEN sentry[r][b].crashed ELSE 0
    BY <1>2
  <2> QED
    BY <2>1, TableEntries DEF NoneAhead, HealthTypes
<1>5. AnswerFinal'
  <2> SUFFICES ASSUME NEW r \in Compared, NEW b \in Buckets, NEW s \in Statuses
               PROVE  /\ Covered(b) /\ b + 1 + SettleHours <= hour =>
                           answer'[r][b][s] = sentry[r][b][s]
                      /\ ~Covered(b) => answer'[r][b][s] = 0
    BY <1>1 DEF AnswerFinal, InAnswer, Covered
  <2> QED
    BY <1>2
<1>6. RowsFinal'
  BY <1>1 DEF RowsFinal
<1> QED
  BY <1>3, <1>4, <1>5, <1>6

LEMMA CommitStep ==
  ASSUME HealthInv, Commit
  PROVE  HealthInv'
<1> USE DEF HealthInv
<1>1. ingesting # -1 /\ ingesting' = -1 /\ answer' = NoCounts /\ UNCHANGED <<hour, sentry>>
  BY DEF Commit
<1>2. counted' = [b \in Buckets |-> IF InAnswer(b) THEN ingesting ELSE counted[b]]
  BY DEF Commit, InAnswer
<1>3. /\ counts' \in Table
      /\ \A r \in Compared, b \in Buckets, s \in Statuses : counts'[r][b][s] =
           IF answer[r][b][s] # 0 THEN answer[r][b][s] ELSE counts[r][b][s]
  BY CommitEffect
<1>4. HealthTypes' /\ ReadBefore'
  BY <1>1, <1>2, <1>3, NoCountsZero DEF HealthTypes, ReadBefore
<1>5. \A r \in Compared, b \in Buckets, s \in Statuses : answer'[r][b][s] = 0
  BY <1>1, NoCountsZero
<1>6. NoneAhead'
  <2> SUFFICES ASSUME NEW r \in Compared, NEW b \in Buckets
               PROVE  counts'[r][b].crashed <= sentry[r][b].crashed
                      /\ answer'[r][b].crashed <= sentry[r][b].crashed
    BY <1>1 DEF NoneAhead
  <2>1. answer'[r][b].crashed = 0 /\ counts'[r][b].crashed =
          IF answer[r][b].crashed # 0 THEN answer[r][b].crashed ELSE counts[r][b].crashed
    BY <1>3, <1>5
  <2> QED
    BY <2>1, TableEntries DEF NoneAhead, HealthTypes
<1>7. AnswerFinal'
  BY <1>1, <1>5, BucketsAreHours DEF AnswerFinal
<1>8. RowsFinal'
  <2> SUFFICES ASSUME NEW r \in Compared, NEW b \in Buckets, NEW s \in Statuses,
                      counted'[b] >= b + 1 + SettleHours, sentry[r][b][s] # 0
               PROVE  counts'[r][b][s] = sentry[r][b][s]
    BY <1>1 DEF RowsFinal
  <2>1. CASE InAnswer(b)
    <3>1. answer[r][b][s] = sentry[r][b][s]
      BY <1>2, <2>1, BucketsAreHours DEF AnswerFinal, HealthTypes
    <3> QED
      BY <1>3, <3>1
  <2>2. CASE ~InAnswer(b)
    <3>1. answer[r][b][s] = 0
      BY <2>2 DEF AnswerFinal
    <3>2. counts[r][b][s] = sentry[r][b][s]
      BY <1>2, <2>2 DEF RowsFinal
    <3> QED
      BY <1>3, <3>1, <3>2
  <2> QED
    BY <2>1, <2>2
<1> QED
  BY <1>4, <1>6, <1>7, <1>8

LEMMA OtherStep ==
  ASSUME HealthInv, NextHour \/ Abort \/ UNCHANGED healthVars
  PROVE  HealthInv'
<1> USE DEF HealthInv
<1>1. UNCHANGED <<sentry, counts, counted>> /\ hour' \in Nat /\ hour <= hour'
  BY DEF NextHour, Abort, healthVars, HealthTypes
<1>2. CASE UNCHANGED <<answer, ingesting>>
  BY <1>1, <1>2, BucketsAreHours DEF HealthTypes, ReadBefore, NoneAhead, AnswerFinal, InAnswer, RowsFinal
<1>3. CASE ingesting' = -1 /\ answer' = NoCounts
  <2>1. HealthTypes' /\ ReadBefore'
    BY <1>1, <1>3, NoCountsZero DEF HealthTypes, ReadBefore
  <2>2. \A r \in Compared, b \in Buckets, s \in Statuses : answer'[r][b][s] = 0
    BY <1>3, NoCountsZero
  <2>3. NoneAhead'
    <3>1. \A r \in Compared, b \in Buckets : answer'[r][b].crashed = 0
      BY <2>2
    <3> QED
      BY <1>1, <3>1, TableEntries DEF NoneAhead, HealthTypes
  <2>4. AnswerFinal'
    <3>1. \A b \in Buckets : ~(b + 1 + SettleHours <= ingesting')
      BY <1>3, BucketsAreHours
    <3> QED
      BY <2>2, <3>1 DEF AnswerFinal
  <2> QED
    BY <1>1, <2>1, <2>3, <2>4 DEF RowsFinal
<1> QED
  BY <1>2, <1>3 DEF NextHour, Abort, healthVars

LEMMA Invariant == HealthSpec => []HealthInv
<1>1. HealthInv /\ [HealthNext]_healthVars => HealthInv'
  BY GrowStep, CountStep, CommitStep, OtherStep DEF HealthNext
<1> QED
  BY IInit, <1>1, PTL DEF HealthSpec

-----------------------------------------------------------------------------
(* Sums over buckets.                                                      *)

\* A fold over a finite set S, with the element that ch chooses taken first: the
\* function that has its value for every subset.
FoldOf(g, S, base, op, ch) ==
  g = [s \in SUBSET S |-> IF s = {} THEN base ELSE op[ch[s]][g[s \ {ch[s]}]]]

\* Does h follow the rule of the fold wherever that stays in V?
FoldsLike(h, S, V, base, op, ch) ==
  /\ h = [s \in SUBSET S |-> h[s]]
  /\ \A s \in SUBSET S : IF s = {} THEN h[s] = base
       ELSE h[s \ {ch[s]}] \in V => h[s] = op[ch[s]][h[s \ {ch[s]}]]

\* A fold over a finite set has one value for every subset, which is of the type
\* that the operation keeps.
LEMMA FoldDefined ==
  ASSUME NEW S, IsFiniteSet(S), NEW V, NEW base \in V, NEW op \in [S -> [V -> V]],
         NEW ch, \A s \in SUBSET S : s # {} => ch[s] \in s
  PROVE  \E g \in [SUBSET S -> V] :
           FoldOf(g, S, base, op, ch) /\ \A h : FoldsLike(h, S, V, base, op, ch) => h = g
<1> DEFINE Small(n) == {s \in SUBSET S : Cardinality(s) <= n}
           Rule(g, s) == IF s = {} THEN base ELSE op[ch[s]][g[s \ {ch[s]}]]
           Good(n) == \E g \in [Small(n) -> V] : \A s \in Small(n) : g[s] = Rule(g, s)
<1>1. \A s \in SUBSET S : IsFiniteSet(s) /\ Cardinality(s) \in Nat
  BY FS_Subset, FS_CardinalityType
<1>2. \A s \in SUBSET S : s # {} => /\ s \ {ch[s]} \in SUBSET S
                                    /\ Cardinality(s \ {ch[s]}) = Cardinality(s) - 1
                                    /\ Cardinality(s) # 0
  BY <1>1, FS_RemoveElement, FS_EmptySet
<1>3. Good(0)
  <2>1. \A s \in Small(0) : s = {}
    <3> SUFFICES ASSUME NEW s \in SUBSET S, Cardinality(s) <= 0 PROVE s = {}
      OBVIOUS
    <3>1. Cardinality(s) \in Nat /\ (s # {} => Cardinality(s) # 0)
      BY <1>1, <1>2
    <3> QED
      BY <3>1
  <2> DEFINE g == [s \in Small(0) |-> base]
  <2>2. g \in [Small(0) -> V]
    OBVIOUS
  <2>3. \A s \in Small(0) : g[s] = Rule(g, s)
    BY <2>1
  <2> QED
    BY <2>2, <2>3
<1>4. ASSUME NEW n \in Nat, Good(n) PROVE Good(n + 1)
  <2>1. PICK g \in [Small(n) -> V] : \A s \in Small(n) : g[s] = Rule(g, s)
    BY <1>4
  <2> DEFINE h == [s \in Small(n + 1) |-> Rule(g, s)]
  <2>2. \A s \in Small(n + 1) : s # {} => s \ {ch[s]} \in Small(n) /\ ch[s] \in S
    BY <1>1, <1>2
  <2>3. h \in [Small(n + 1) -> V]
    BY <2>2
  <2>4. \A s \in Small(n) : s \in Small(n + 1) /\ h[s] = g[s]
    <3>1. \A s \in Small(n) : s \in Small(n + 1)
      BY <1>1
    <3> QED
      BY <2>1, <3>1
  <2>5. ASSUME NEW s \in Small(n + 1) PROVE h[s] = Rule(h, s)
    BY <2>2, <2>4
  <2> QED
    BY <2>3, <2>5
<1>5. \A n \in Nat : Good(n)
  <2> DEFINE Bad == {n \in Nat : ~Good(n)}
  <2> HIDE DEF Good
  <2> SUFFICES ASSUME Bad # {} PROVE FALSE
    OBVIOUS
  <2>1. Bad \in SUBSET Nat
    OBVIOUS
  <2>2. PICK n \in Bad : \A m \in Bad : n <= m
    <3> HIDE DEF Bad
    <3> QED
      BY <2>1, Smallest
  <2>3. n # 0 /\ n \in Nat
    BY <1>3
  <2>4. Good(n - 1)
    BY <2>2, <2>3
  <2> QED
    BY <1>4, <2>3, <2>4
<1>6. PICK g \in [Small(Cardinality(S)) -> V] : \A s \in Small(Cardinality(S)) : g[s] = Rule(g, s)
  BY <1>1, <1>5
<1>7. Small(Cardinality(S)) = SUBSET S
  BY <1>1, FS_Subset
<1>8. g \in [SUBSET S -> V] /\ \A s \in SUBSET S : g[s] = Rule(g, s)
  BY <1>6, <1>7
<1>9. g = [s \in SUBSET S |-> Rule(g, s)]
  BY <1>8
<1>10. ASSUME NEW h, FoldsLike(h, S, V, base, op, ch) PROVE h = g
  <2>1. \A s \in SUBSET S : IF s = {} THEN h[s] = base
          ELSE h[s \ {ch[s]}] \in V => h[s] = op[ch[s]][h[s \ {ch[s]}]]
    BY <1>10 DEF FoldsLike
  <2> DEFINE Bad == {n \in Nat : \E s \in SUBSET S : Cardinality(s) = n /\ h[s] # g[s]}
  <2>2. Bad = {}
    <3> SUFFICES ASSUME Bad # {} PROVE FALSE
      OBVIOUS
    <3>1. Bad \in SUBSET Nat
      OBVIOUS
    <3>2. PICK n \in Bad : \A m \in Bad : n <= m
      <4> HIDE DEF Bad
      <4> QED
        BY <3>1, Smallest
    <3>3. PICK s \in SUBSET S : Cardinality(s) = n /\ h[s] # g[s]
      BY <3>2
    <3>4. s # {}
      BY <1>8, <2>1, <3>3
    <3>5. s \ {ch[s]} \in SUBSET S /\ Cardinality(s \ {ch[s]}) = n - 1 /\ n \in Nat /\ n # 0
      BY <1>2, <3>3, <3>4
    <3>6. h[s \ {ch[s]}] = g[s \ {ch[s]}]
      BY <3>2, <3>5
    <3>7. g[s \ {ch[s]}] \in V
      BY <1>8, <3>5
    <3>8. h[s] = op[ch[s]][h[s \ {ch[s]}]]
      BY <2>1, <3>4, <3>6, <3>7
    <3>9. g[s] = op[ch[s]][g[s \ {ch[s]}]]
      BY <1>8, <3>4
    <3> QED
      BY <3>3, <3>6, <3>8, <3>9
  <2>3. \A s \in SUBSET S : h[s] = g[s]
    BY <1>1, <2>2
  <2>4. [s \in SUBSET S |-> h[s]] = [s \in SUBSET S |-> g[s]]
    BY <2>3
  <2>5. g = [s \in SUBSET S |-> g[s]]
    BY <1>8
  <2> QED
    BY <1>10, <2>4, <2>5 DEF FoldsLike
<1>11. FoldOf(g, S, base, op, ch)
  BY <1>9 DEF FoldOf
<1> QED
  BY <1>8, <1>10, <1>11

LEMMA SumNat ==
  ASSUME NEW S, IsFiniteSet(S), NEW f \in [S -> Nat]
  PROVE  SumFunction(f) \in Nat
<1> DEFINE op == [x \in S |-> [n \in Nat |-> f[x] + n]]
           ch == [s \in SUBSET S |-> CHOOSE x \in s : TRUE]
           Iter(g) == g = [s \in SUBSET S |-> IF s = {} THEN 0
                             ELSE f[CHOOSE x \in s : TRUE] + g[s \ {CHOOSE x \in s : TRUE}]]
<1>1. \A s \in SUBSET S : s # {} => ch[s] \in s
  OBVIOUS
<1>2. op \in [S -> [Nat -> Nat]] /\ 0 \in Nat
  OBVIOUS
<1>3. PICK g \in [SUBSET S -> Nat] :
        FoldOf(g, S, 0, op, ch) /\ \A h : FoldsLike(h, S, Nat, 0, op, ch) => h = g
  <2> HIDE DEF op, ch
  <2> QED
    BY <1>1, <1>2, FoldDefined
<1>4. Iter(g)
  <2>1. \A s \in SUBSET S : g[s] =
          IF s = {} THEN 0 ELSE f[CHOOSE x \in s : TRUE] + g[s \ {CHOOSE x \in s : TRUE}]
    BY <1>1, <1>3 DEF FoldOf
  <2>2. g = [s \in SUBSET S |-> g[s]]
    OBVIOUS
  <2> QED
    BY <2>1, <2>2
<1>5. SumFunction(f) = (CHOOSE h : Iter(h))[S]
  BY DEF SumFunction, SumFunctionOnSet, FoldFunctionOnSet, MapThenFoldSet
<1>6. Iter(CHOOSE h : Iter(h))
  <2> HIDE DEF Iter
  <2> QED
    BY <1>4
<1>7. ASSUME NEW h, Iter(h) PROVE h = g
  <2>1. h = [s \in SUBSET S |-> h[s]]
    BY <1>7
  <2>2. \A s \in SUBSET S : IF s = {} THEN h[s] = 0
          ELSE h[s \ {ch[s]}] \in Nat => h[s] = op[ch[s]][h[s \ {ch[s]}]]
    BY <1>1, <1>7
  <2>3. FoldsLike(h, S, Nat, 0, op, ch)
    BY <2>1, <2>2 DEF FoldsLike
  <2> HIDE DEF op, ch, Iter
  <2> QED
    BY <1>3, <2>3
<1>8. (CHOOSE h : Iter(h)) = g
  <2> HIDE DEF Iter
  <2> QED
    BY <1>6, <1>7
<1> QED
  BY <1>5, <1>8

LEMMA TotalNat ==
  ASSUME NEW c \in Table, NEW r \in Compared, NEW s \in Statuses
  PROVE  Total(c, r, s) \in Nat
<1> DEFINE S == {b \in Buckets : Settled(b)}
           f == [b \in S |-> c[r][b][s]]
<1>1. IsFiniteSet(S)
  <2>1. LastBucket \in Int
    BY HealthAssumption
  <2>2. IsFiniteSet(0 .. LastBucket)
    BY <2>1, FS_Interval
  <2>3. S \subseteq 0 .. LastBucket
    BY DEF Buckets
  <2> QED
    BY <2>2, <2>3, FS_Subset
<1>2. f \in [S -> Nat]
  BY TableEntries
<1>3. SumFunction(f) \in Nat
  <2> HIDE DEF S, f
  <2> QED
    BY <1>1, <1>2, SumNat
<1> QED
  BY <1>3 DEF Total

\* Once the settled buckets are read well, what is stored adds up to Sentry's counts.
LEMMA TotalsAgree ==
  ASSUME HealthInv, WellRead, NEW r \in Compared, NEW s \in Statuses
  PROVE  Total(counts, r, s) = Total(sentry, r, s)
<1> DEFINE S == {b \in Buckets : Settled(b)}
<1>1. ASSUME NEW b \in S PROVE counts[r][b][s] = sentry[r][b][s]
  <2>1. counted[b] >= b + 1 + SettleHours /\ (counts[r][b][s] # 0 => sentry[r][b][s] # 0)
    BY DEF WellRead
  <2> QED
    BY <2>1 DEF HealthInv, RowsFinal
<1>2. [b \in S |-> counts[r][b][s]] = [b \in S |-> sentry[r][b][s]]
  BY <1>1
<1> QED
  BY <1>2 DEF Total

LEMMA VerdictFollows ==
  ASSUME HealthInv
  PROVE  VerdictJust
<1> SUFFICES ASSUME WellRead
             PROVE  /\ Verdict(counts) = Verdict(sentry)
                    /\ Verdict(counts) # "none" =>
                         \A r \in Compared : Sessions(sentry, r) >= MinSessions
  BY DEF VerdictJust
<1>1. \A r \in Compared, s \in Statuses : Total(counts, r, s) = Total(sentry, r, s)
  BY TotalsAgree
<1>2. \A r \in Compared : Sessions(counts, r) = Sessions(sentry, r)
  BY <1>1 DEF Sessions
<1>3. \A r \in Compared : HealthOf(counts, r) = "KNOWN" <=> HealthOf(sentry, r) = "KNOWN"
  BY <1>2 DEF HealthOf
<1>4. Drop(counts) = Drop(sentry) /\ Step(counts) = Step(sentry)
  BY <1>1, <1>2 DEF Drop, Step
<1>5. Verdict(counts) = Verdict(sentry)
  <2> HIDE DEF HealthOf, Drop, Step
  <2> QED
    BY <1>3, <1>4 DEF Verdict
<1>6. ASSUME Verdict(counts) # "none", NEW r \in Compared PROVE Sessions(sentry, r) >= MinSessions
  <2>1. HealthOf(counts, r) = "KNOWN"
    BY <1>6 DEF Verdict
  <2>2. HealthOf(sentry, r) = "KNOWN"
    BY <1>3, <2>1
  <2>3. ~(Sessions(sentry, r) < MinSessions)
    BY <2>2 DEF HealthOf
  <2>4. Sessions(sentry, r) \in Nat
    BY TotalNat DEF Sessions, HealthInv, HealthTypes
  <2> QED
    BY <2>3, <2>4, HealthAssumption
<1> QED
  BY <1>5, <1>6

-----------------------------------------------------------------------------
\* Once an ingest has read a bucket after it settled, its count of crashes is
\* final, however many ingests fail, read too early or leave the bucket out of
\* their window (ingest_sentry and session_counts).
THEOREM RereadsAreFinal == HealthSpec => []RereadIsFinal
  BY Invariant, CrashRowsFinal, PTL

\* If the settled buckets were read after they settled and no count fell to 0,
\* the finding about the crash rate (build_release_impact, health_of) is the
\* one Sentry's own counts give, whatever hours are still coming in, and it is
\* made of at least min_sessions sessions of both releases.
THEOREM VerdictsAreJust == HealthSpec => []VerdictJust
  BY Invariant, VerdictFollows, PTL
=============================================================================
