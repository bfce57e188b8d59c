------------------------------ MODULE StateProofs ------------------------------
(***************************************************************************)
(* What module StateService guarantees for any facts, values and numbers   *)
(* of rows and moments.                                                    *)
(***************************************************************************)
EXTENDS StateService, TLAPS

PushFacts == {Backend, Os, Braze, Other}

(* Rows are of facts of the domain and observed in the past.               *)
RowsTyped ==
  /\ now \in Nat
  /\ \A x \in rows : x.at \in 0 .. now
  /\ domain = "push" => \A x \in rows : x.value \in PushValues(x.fact) \cup {Bad}

\* A report adds one row.
LEMMA PushReport ==
  ASSUME now \in Nat, Push!Report
  PROVE  /\ UNCHANGED now
         /\ \E x : /\ x.at \in 0 .. now /\ x.value \in PushValues(x.fact) \cup {Bad}
                   /\ rows' = rows \cup {x}
<1>1. PICK f \in PushFacts, at \in 0 .. now : \E v \in PushValues(f) \cup {Bad} :
        rows' = rows \cup {[fact |-> f, value |-> v, at |-> at]}
  BY DEF Push!Report, PushFacts
<1>2. PICK v \in PushValues(f) \cup {Bad} :
        rows' = rows \cup {[fact |-> f, value |-> v, at |-> at]}
  BY <1>1
<1> DEFINE x == [fact |-> f, value |-> v, at |-> at]
<1>3. x.at \in 0 .. now /\ x.value \in PushValues(x.fact) \cup {Bad}
  BY <1>1, <1>2
<1>4. rows' = rows \cup {x}
  BY <1>2
<1> HIDE DEF x
<1> QED
  BY <1>3, <1>4 DEF Push!Report

LEMMA ProfileReport ==
  ASSUME now \in Nat, Profile!Report
  PROVE  UNCHANGED now /\ \E x : x.at \in 0 .. now /\ rows' = rows \cup {x}
<1>1. PICK f \in ProfileFacts, at \in 0 .. now : \E v \in ProfileValues(f) \cup {Bad} :
        rows' = rows \cup {[fact |-> f, value |-> v, at |-> at]}
  BY DEF Profile!Report
<1>2. PICK v \in ProfileValues(f) \cup {Bad} :
        rows' = rows \cup {[fact |-> f, value |-> v, at |-> at]}
  BY <1>1
<1> DEFINE x == [fact |-> f, value |-> v, at |-> at]
<1>3. x.at \in 0 .. now
  BY <1>1
<1>4. rows' = rows \cup {x}
  BY <1>2
<1> HIDE DEF x
<1> QED
  BY <1>3, <1>4 DEF Profile!Report

LEMMA RowsInvariant == Spec => []RowsTyped
<1>1. Init => RowsTyped
  BY DEF Init, Push!Init, RowsTyped
<1>2. ASSUME RowsTyped, [Next]_vars
      PROVE  RowsTyped'
  <2>1. CASE domain = "push" /\ Push!Report
    BY <1>2, <2>1, PushReport DEF RowsTyped, Next, vars
  <2>2. CASE domain = "profile" /\ Profile!Report
    BY <1>2, <2>2, ProfileReport DEF RowsTyped, Next, vars
  <2>3. CASE (Push!Tick \/ Profile!Tick \/ UNCHANGED vars) /\ UNCHANGED domain
    BY <1>2, <2>3 DEF RowsTyped, Push!Tick, Profile!Tick, vars
  <2> QED
    BY <1>2, <2>1, <2>2, <2>3 DEF Next, Push!Next, Profile!Next, vars
<1> QED
  BY <1>1, <1>2, PTL DEF Spec

-----------------------------------------------------------------------------
(* The push domain.                                                        *)

\* What a reading holds of a fact is one of its newest rows.
LEMMA PushReading ==
  ASSUME NEW r \in Push!Readings, NEW f \in DOMAIN r
  PROVE  /\ r[f] \in rows /\ r[f].fact = f
         /\ \A y \in rows : y.fact = f => y.at <= r[f].at
  BY DEF Push!Readings, Push!NewestRows

\* A late report leaves the newest rows of every fact.
LEMMA LateReportReadings ==
  ASSUME RowsTyped, Push!Report, Push!LateReport
  PROVE  Push!Readings' = Push!Readings
<1>1. PICK x : x.at \in 0 .. now /\ rows' = rows \cup {x}
  BY PushReport DEF RowsTyped
<1>2. PICK y \in rows : y.fact = x.fact /\ y.at > x.at
  BY <1>1 DEF Push!LateReport
<1>3. Push!Present' = Push!Present
  BY <1>1, <1>2 DEF Push!Present
<1>4. ASSUME NEW f PROVE Push!NewestRows(f)' = Push!NewestRows(f)
  <2>1. x.at \in Nat /\ \A z \in rows : z.at \in Nat
    BY <1>1 DEF RowsTyped
  <2> QED
    BY <1>1, <1>2, <2>1 DEF Push!NewestRows
<1>5. \A f \in Push!Present : Push!NewestRows(f) \subseteq rows
  BY DEF Push!NewestRows
<1> QED
  BY <1>1, <1>3, <1>4, <1>5 DEF Push!Readings

\* An evaluation depends on the reading and the time.
LEMMA EvaluatedAlike ==
  ASSUME NEW CONSTANT r, UNCHANGED now
  PROVE  Push!evaluate_push_state(r)' = Push!evaluate_push_state(r)
  BY DEF Push!evaluate_push_state, Push!Deliverable, Push!Issues, Push!Cites, Push!Unrecognized,
     Push!Registration, Push!Capability, Push!Desired, Push!ValueOr, Push!Raised

\* service.py: a report that comes in behind a later one of its fact changes no
\* answer of GET /v1/state.
THEOREM LateReportsAreIgnored == Spec => LateReportIgnored
<1>1. ASSUME RowsTyped, [Next]_vars, domain = "push", Push!LateReport
      PROVE  Push!Answers' = Push!Answers
  <2>1. Push!Report
    BY <1>1 DEF Next, vars, Push!Next, Push!Tick, Push!LateReport
  <2>2. UNCHANGED now /\ rows # {} /\ rows' # {}
    BY <1>1, <2>1, PushReport DEF RowsTyped, Push!LateReport
  <2>3. Push!Readings' = Push!Readings
    BY <1>1, <2>1, LateReportReadings
  <2> QED
    BY <2>2, <2>3, EvaluatedAlike DEF Push!Answers
<1> QED
  BY <1>1, RowsInvariant, PTL DEF LateReportIgnored, Push!LateReportChangesNothing, Spec

\* The values that an evaluation without error distinguishes.
LEMMA PushValued ==
  ASSUME RowsTyped, domain = "push", NEW r \in Push!Readings, ~Push!Unrecognized(r)
  PROVE  /\ Push!Desired(r) \in {"ENABLED", "DISABLED", "UNKNOWN"}
         /\ Push!Capability(r) \in {"ALLOWED", "DENIED", "UNKNOWN"}
         /\ Push!Registration(r) \in {"REGISTERED", "NOT_REGISTERED", "MISSING", "STALE"}
<1>1. ASSUME NEW f \in {Backend, Os, Braze}
      PROVE  Push!ValueOr(r, f, "UNKNOWN") \in PushValues(f) \cup {"UNKNOWN"}
  <2>1. CASE f \in DOMAIN r
    <3>1. r[f].value \in PushValues(f) \cup {Bad}
      BY <2>1, PushReading DEF RowsTyped
    <3>2. r[f].value # Bad
      BY <2>1 DEF Push!Unrecognized, Push!ValueOr
    <3> QED
      BY <2>1, <3>1, <3>2 DEF Push!ValueOr
  <2>2. CASE f \notin DOMAIN r
    BY <2>2 DEF Push!ValueOr
  <2> QED
    BY <2>1, <2>2
<1>2. Push!Desired(r) \in {"ENABLED", "DISABLED", "UNKNOWN"}
      /\ Push!Capability(r) \in {"ALLOWED", "DENIED", "UNKNOWN"}
  BY <1>1, StateAssumption DEF Push!Desired, Push!Capability
<1>3. Push!ValueOr(r, Braze, "UNKNOWN") \in {"REGISTERED", "NOT_REGISTERED", "UNKNOWN"}
  BY <1>1, StateAssumption
<1> QED
  BY <1>2, <1>3 DEF Push!Registration

\* An evaluation with an error says that it does not know.
LEMMA EvaluatedWell ==
  ASSUME NEW r
  PROVE  LET a == Push!evaluate_push_state(r) IN
         /\ a.error <=> Push!Unrecognized(r)
         /\ a.error => a.deliverable = "UNKNOWN"
         /\ ~a.error => a.deliverable = Push!Deliverable(r)
         /\ ~a.error => a.issues = IF Push!Desired(r) = "DISABLED" THEN {} ELSE Push!Issues(r)
<1>1. CASE Push!Unrecognized(r)
  BY <1>1 DEF Push!evaluate_push_state, Push!Raised
<1>2. CASE ~Push!Unrecognized(r)
  BY <1>2 DEF Push!evaluate_push_state
<1> QED
  BY <1>1, <1>2

\* push_state.py: a push that is known not to arrive has an issue that says why,
\* unless the user turned pushes off, and one that would arrive has none.
THEOREM BlocksAreExplained == Spec => []BlocksExplained
<1>1. ASSUME RowsTyped, domain = "push" PROVE Push!BlocksExplained
  <2> SUFFICES ASSUME NEW r \in Push!Readings, ~Push!evaluate_push_state(r).error
               PROVE  LET a == Push!evaluate_push_state(r) IN
                      /\ a.deliverable = "FALSE" => a.issues # {} \/ Push!Desired(r) = "DISABLED"
                      /\ a.deliverable = "TRUE" => a.issues = {}
    BY DEF Push!BlocksExplained
  <2>1. ~Push!Unrecognized(r)
    BY EvaluatedWell
  <2>2. /\ Push!Desired(r) \in {"ENABLED", "DISABLED", "UNKNOWN"}
        /\ Push!Capability(r) \in {"ALLOWED", "DENIED", "UNKNOWN"}
        /\ Push!Registration(r) \in {"REGISTERED", "NOT_REGISTERED", "MISSING", "STALE"}
    BY <1>1, <2>1, PushValued
  <2>3. Push!Issues(r) = {} <=> Push!Capability(r) # "DENIED" /\ Push!Registration(r) = "REGISTERED"
    BY <2>2 DEF Push!Issues
  <2> QED
    BY <2>2, <2>3, EvaluatedWell DEF Push!Deliverable
<1> QED
  BY <1>1, RowsInvariant, PTL DEF BlocksExplained

\* A deliverable answer rests on the newest rows of its three facts.
LEMMA DeliverableReading ==
  ASSUME RowsTyped, domain = "push", NEW r \in Push!Readings,
         Push!evaluate_push_state(r).deliverable = "TRUE"
  PROVE  /\ {Backend, Os, Braze} \subseteq DOMAIN r
         /\ r[Backend].value = "ENABLED" /\ r[Os].value = "ALLOWED" /\ r[Braze].value = "REGISTERED"
         /\ now <= r[Braze].at + StaleAfter
<1>1. ~Push!Unrecognized(r) /\ Push!Deliverable(r) = "TRUE"
  BY EvaluatedWell
<1>2. /\ Push!Desired(r) = "ENABLED" /\ Push!Capability(r) = "ALLOWED"
      /\ Push!Registration(r) = "REGISTERED"
  BY <1>1, PushValued DEF Push!Deliverable
<1>3. Push!ValueOr(r, Braze, "UNKNOWN") = "REGISTERED" /\ ~(now - r[Braze].at > StaleAfter)
  BY <1>2 DEF Push!Registration
<1>4. /\ {Backend, Os, Braze} \subseteq DOMAIN r
      /\ r[Backend].value = "ENABLED" /\ r[Os].value = "ALLOWED" /\ r[Braze].value = "REGISTERED"
  BY <1>2, <1>3 DEF Push!Desired, Push!Capability, Push!ValueOr
<1>5. r[Braze].at \in Nat /\ now \in Nat /\ StaleAfter \in Nat
  BY <1>4, PushReading, StateAssumption DEF RowsTyped
<1> QED
  BY <1>3, <1>4, <1>5

\* push_state.py: "deliverable" is never TRUE on the strength of a registration
\* last seen more than the threshold ago, or of a fact contradicted since.
THEOREM DeliverablesAreNews == Spec => []DeliverableOnNews
<1>1. ASSUME RowsTyped, domain = "push" PROVE Push!DeliverableOnNews
  <2> SUFFICES ASSUME NEW a \in Push!Answers, a.deliverable = "TRUE",
                      NEW w \in {[fact |-> Backend, value |-> "ENABLED"],
                                 [fact |-> Os, value |-> "ALLOWED"],
                                 [fact |-> Braze, value |-> "REGISTERED"]}
               PROVE  \E x \in rows :
                        /\ x.fact = w.fact /\ x.value = w.value
                        /\ \A y \in rows : y.fact = x.fact => y.at <= x.at
                        /\ x.fact = Braze => now <= x.at + StaleAfter
    BY DEF Push!DeliverableOnNews
  <2>1. PICK r \in Push!Readings : a = Push!evaluate_push_state(r)
    BY DEF Push!Answers, Push!Empty
  <2>2. /\ {Backend, Os, Braze} \subseteq DOMAIN r
        /\ r[Backend].value = "ENABLED" /\ r[Os].value = "ALLOWED" /\ r[Braze].value = "REGISTERED"
        /\ now <= r[Braze].at + StaleAfter
    BY <1>1, <2>1, DeliverableReading
  <2>3. w.fact \in {Backend, Os, Braze} /\ r[w.fact].value = w.value
    BY <2>2
  <2>4. r[w.fact] \in rows /\ r[w.fact].fact = w.fact
        /\ \A y \in rows : y.fact = w.fact => y.at <= r[w.fact].at
    BY <2>2, <2>3, PushReading
  <2>5. w.fact = Braze => now <= r[w.fact].at + StaleAfter
    BY <2>2
  <2> QED
    BY <2>3, <2>4, <2>5
<1> QED
  BY <1>1, RowsInvariant, PTL DEF DeliverableOnNews

\* push_state.py: time alone makes nothing deliverable; it can only make a
\* registration stale.
THEOREM TimeAloneBlocks == Spec => TimeOnlyBlocks
<1>1. ASSUME RowsTyped, [Next]_vars, domain = "push", now' # now, NEW a \in Push!Answers
      PROVE  \E b \in Push!Answers' :
               a.error = b.error /\ b.deliverable \in {a.deliverable, "FALSE"}
  <2>1. rows' = rows /\ now' = now + 1
    BY <1>1 DEF Next, vars, Push!Next, Push!Tick, Push!Report
  <2>2. Push!Readings' = Push!Readings
    BY <2>1 DEF Push!Readings, Push!Present, Push!NewestRows
  <2>3. CASE rows = {}
    BY <2>1, <2>3 DEF Push!Answers, Push!Empty
  <2>4. CASE rows # {}
    <3>1. PICK r \in Push!Readings : a = Push!evaluate_push_state(r)
      BY <2>4 DEF Push!Answers
    <3>2. Push!evaluate_push_state(r)' \in Push!Answers'
      BY <2>1, <2>2, <2>4 DEF Push!Answers
    <3>3. Push!evaluate_push_state(r)'.error = a.error
      BY <3>1 DEF Push!evaluate_push_state, Push!Unrecognized, Push!ValueOr, Push!Raised
    <3>4. Push!Registration(r)' = "REGISTERED" => Push!Registration(r) = "REGISTERED"
      <4>1. Braze \in DOMAIN r => r[Braze].at \in Nat
        BY <1>1, PushReading DEF RowsTyped
      <4>2. now \in Nat /\ StaleAfter \in Nat
        BY <1>1, StateAssumption DEF RowsTyped
      <4> QED
        BY <2>1, <4>1, <4>2 DEF Push!Registration, Push!ValueOr
    <3>5. Push!Deliverable(r)' \in {Push!Deliverable(r), "FALSE"}
      BY <3>4 DEF Push!Deliverable, Push!Desired, Push!Capability, Push!ValueOr
    <3>6. Push!evaluate_push_state(r)'.deliverable \in {a.deliverable, "FALSE"}
      <4>1. CASE Push!Unrecognized(r)
        BY <3>1, <4>1 DEF Push!evaluate_push_state, Push!Unrecognized, Push!ValueOr, Push!Raised
      <4>2. CASE ~Push!Unrecognized(r)
        <5>1. ~Push!Unrecognized(r)'
          BY <4>2 DEF Push!Unrecognized, Push!ValueOr
        <5>2. Push!evaluate_push_state(r)'.deliverable = Push!Deliverable(r)'
          BY <5>1 DEF Push!evaluate_push_state
        <5>3. a.deliverable = Push!Deliverable(r)
          BY <3>1, <4>2, EvaluatedWell
        <5> QED
          BY <3>5, <5>2, <5>3
      <4> QED
        BY <4>1, <4>2
    <3> QED
      BY <3>2, <3>3, <3>6
  <2> QED
    BY <2>3, <2>4
<1>2. RowsTyped /\ [Next]_vars => [domain = "push" => Push!TimeTakesAway]_vars
  BY <1>1 DEF Push!TimeTakesAway
<1> QED
  BY <1>2, RowsInvariant, PTL DEF TimeOnlyBlocks, Spec

-----------------------------------------------------------------------------
(* The profile domain.                                                     *)

LEMMA ProfileReading ==
  ASSUME NEW r \in Profile!Readings, NEW f \in DOMAIN r
  PROVE  /\ r[f] \in rows /\ r[f].fact = f
         /\ \A y \in rows : y.fact = f => y.at <= r[f].at
  BY DEF Profile!Readings, Profile!NewestRows

\* The facts of a reading are those that were reported.
LEMMA ProfileReadingDomain ==
  ASSUME NEW r \in Profile!Readings
  PROVE  DOMAIN r = {x.fact : x \in rows}
  BY DEF Profile!Readings, Profile!Present

\* No system is the authority of a field and has a copy of it.
LEMMA CopiesAreOthers ==
  ASSUME NEW f \in Profile!Fields
  PROVE  /\ Profile!Authority[f] \in {"auth", "backend"}
         /\ Profile!Authority[f] \notin Profile!Copies[f]
         /\ Profile!Copies[f] \subseteq {"backend", "job_profile"}
  BY DEF Profile!Fields, Profile!Authority, Profile!Copies

\* What an issue says.
LEMMA IssueIs ==
  ASSUME NEW r, NEW i \in Profile!evaluate_profile_state(r).issues
  PROVE  /\ i.field \in Profile!Compared(r) /\ i.copy \in Profile!PresentCopies(r, i.field)
         /\ i.status = Profile!CopyStatus(r, i.field, i.copy) /\ i.status # "CONSISTENT"
<1>1. i \in Profile!Issues(r)
  BY DEF Profile!evaluate_profile_state
<1>2. PICK f \in Profile!Compared(r) :
        i \in {[field |-> f, copy |-> c, status |-> Profile!CopyStatus(r, f, c)] :
                 c \in {d \in Profile!PresentCopies(r, f) : Profile!CopyStatus(r, f, d) # "CONSISTENT"}}
  BY <1>1 DEF Profile!Issues
<1>3. PICK c \in Profile!PresentCopies(r, f) :
        /\ Profile!CopyStatus(r, f, c) # "CONSISTENT"
        /\ i = [field |-> f, copy |-> c, status |-> Profile!CopyStatus(r, f, c)]
  BY <1>2
<1> QED
  BY <1>3

\* A new row of a fact that is later than the others is what is read of it.
LEMMA NewsIsRead ==
  ASSUME RowsTyped, [Next]_vars, domain = "profile", NEW x \in rows' \ rows,
         \A y \in rows : y.fact = x.fact => y.at < x.at,
         NEW r \in Profile!Readings'
  PROVE  /\ x.fact \in DOMAIN r /\ r[x.fact] = x
         /\ \A g \in DOMAIN r : g # x.fact => r[g] \in rows /\ r[g].fact = g
                                              /\ \A y \in rows : y.fact = g => y.at <= r[g].at
         /\ \A y \in rows : y.at \in Nat
         /\ x.at \in Nat /\ UNCHANGED now
<1>1. Profile!Report
  BY DEF Next, vars, Profile!Next, Profile!Tick
<1>2. PICK z : z.at \in 0 .. now /\ rows' = rows \cup {z}
  BY <1>1, ProfileReport DEF RowsTyped
<1>3. x = z /\ UNCHANGED now
  BY <1>1, <1>2, ProfileReport DEF RowsTyped
<1>4. x.at \in Nat /\ \A y \in rows : y.at \in Nat
  BY <1>2, <1>3 DEF RowsTyped
<1>5. ASSUME NEW g \in DOMAIN r
      PROVE  r[g] \in rows' /\ r[g].fact = g /\ \A y \in rows' : y.fact = g => y.at <= r[g].at
  BY DEF Profile!Readings, Profile!NewestRows
<1>6. x.fact \in DOMAIN r
  BY DEF Profile!Readings, Profile!Present
<1>7. r[x.fact] = x
  <2>1. r[x.fact] \in rows \cup {x} /\ r[x.fact].fact = x.fact /\ x.at <= r[x.fact].at
    BY <1>2, <1>3, <1>5, <1>6
  <2> QED
    BY <1>4, <2>1
<1>8. \A g \in DOMAIN r : g # x.fact => r[g] \in rows /\ r[g].fact = g
                                        /\ \A y \in rows : y.fact = g => y.at <= r[g].at
  BY <1>2, <1>3, <1>5
<1> QED
  BY <1>3, <1>4, <1>6, <1>7, <1>8

\* profile_state.py: a report of the authority later than all that the copies
\* reported of a field leaves no copy of it DIVERGED.
THEOREM AuthorityGoesFirst == Spec => AuthorityMovesOn
<1>1. ASSUME RowsTyped, [Next]_vars, domain = "profile",
             NEW x \in rows' \ rows, NEW f \in Profile!Fields, x.fact = <<Profile!Authority[f], f>>,
             \A y \in rows : y.fact[2] = f => y.at < x.at,
             NEW r \in Profile!Readings',
             NEW i \in Profile!evaluate_profile_state(r).issues, i.field = f
      PROVE  i.status # "DIVERGED"
  <2> DEFINE own == <<i.copy, f>>
  <2>1. \A y \in rows : y.fact = x.fact => y.at < x.at
    BY <1>1
  <2>2. /\ r[x.fact] = x
        /\ own \in DOMAIN r /\ own # x.fact => r[own] \in rows /\ r[own].fact = own
        /\ x.at \in Nat /\ \A y \in rows : y.at \in Nat
    BY <1>1, <2>1, NewsIsRead
  <2>3. i.copy \in Profile!Copies[f] /\ i.status = Profile!CopyStatus(r, f, i.copy)
    BY <1>1, IssueIs DEF Profile!PresentCopies
  <2>4. own # x.fact
    BY <1>1, <2>3, CopiesAreOthers
  <2>5. own \in DOMAIN r => ~(r[own].at >= x.at)
    BY <1>1, <2>2, <2>4
  <2> QED
    BY <1>1, <2>2, <2>3, <2>5 DEF Profile!CopyStatus
<1>2. ASSUME RowsTyped, [Next]_vars, domain = "profile"
      PROVE  Profile!NoneDivergedOnNews
  <2> SUFFICES ASSUME NEW x \in rows' \ rows, NEW f \in Profile!Fields,
                      x.fact = <<Profile!Authority[f], f>>,
                      \A y \in rows : y.fact[2] = f => y.at < x.at,
                      NEW a \in Profile!Answers', NEW i \in a.issues, i.field = f
               PROVE  i.status # "DIVERGED"
    BY DEF Profile!NoneDivergedOnNews
  <2>1. PICK r \in Profile!Readings' : a = Profile!evaluate_profile_state(r)
    BY DEF Profile!Answers, Profile!evaluate_profile_state, Profile!Unrecognized,
       Profile!Consistent, Profile!Issues, Profile!FieldStatus, Profile!Compared,
       Profile!PresentCopies, Profile!CopyStatus
  <2> QED
    BY <1>1, <1>2, <2>1
<1>3. RowsTyped /\ [Next]_vars => [domain = "profile" => Profile!NoneDivergedOnNews]_vars
  BY <1>2
<1> QED
  BY <1>3, RowsInvariant, PTL DEF AuthorityMovesOn, Spec

\* profile_state.py: a copy whose later report is what its authority has last
\* reported is no issue any more.
THEOREM CopiesCatchUp == Spec => CopyCatchesUp
<1>1. ASSUME RowsTyped, [Next]_vars, domain = "profile",
             NEW x \in rows' \ rows, NEW f \in Profile!Fields, NEW c \in Profile!Copies[f],
             x.fact = <<c, f>>,
             \A y \in rows : y.fact = x.fact => y.at < x.at,
             \A y \in Profile!NewestRows(<<Profile!Authority[f], f>>) : y.value = x.value,
             NEW r \in Profile!Readings',
             NEW i \in Profile!evaluate_profile_state(r).issues
      PROVE  ~(i.field = f /\ i.copy = c)
  <2> SUFFICES ASSUME i.field = f, i.copy = c PROVE FALSE
    OBVIOUS
  <2> DEFINE own == <<Profile!Authority[f], f>>
  <2>1. /\ x.fact \in DOMAIN r /\ r[x.fact] = x
        /\ \A g \in DOMAIN r : g # x.fact => r[g] \in rows /\ r[g].fact = g
                                             /\ \A y \in rows : y.fact = g => y.at <= r[g].at
    BY <1>1, NewsIsRead
  <2>2. own \in DOMAIN r /\ own # x.fact
    <3>1. i.field \in Profile!Compared(r)
      BY IssueIs
    <3>2. Profile!Authority[f] # c
      BY CopiesAreOthers
    <3> QED
      BY <1>1, <3>1, <3>2 DEF Profile!Compared
  <2>3. r[own] \in Profile!NewestRows(own)
    BY <2>1, <2>2 DEF Profile!NewestRows
  <2>4. r[own].value = x.value
    BY <1>1, <2>3
  <2>5. Profile!CopyStatus(r, f, c) = "CONSISTENT"
    BY <1>1, <2>1, <2>4 DEF Profile!CopyStatus
  <2> QED
    BY <2>5, IssueIs
<1>2. ASSUME RowsTyped, [Next]_vars, domain = "profile"
      PROVE  Profile!NoIssueOnAgreement
  <2> SUFFICES ASSUME NEW x \in rows' \ rows, NEW f \in Profile!Fields, NEW c \in Profile!Copies[f],
                      x.fact = <<c, f>>,
                      \A y \in rows : y.fact = x.fact => y.at < x.at,
                      \A y \in Profile!NewestRows(<<Profile!Authority[f], f>>) : y.value = x.value,
                      NEW a \in Profile!Answers', NEW i \in a.issues
               PROVE  ~(i.field = f /\ i.copy = c)
    BY DEF Profile!NoIssueOnAgreement
  <2>1. PICK r \in Profile!Readings' : a = Profile!evaluate_profile_state(r)
    BY DEF Profile!Answers, Profile!evaluate_profile_state, Profile!Unrecognized,
       Profile!Consistent, Profile!Issues, Profile!FieldStatus, Profile!Compared,
       Profile!PresentCopies, Profile!CopyStatus
  <2> QED
    BY <1>1, <1>2, <2>1
<1>3. RowsTyped /\ [Next]_vars => [domain = "profile" => Profile!NoIssueOnAgreement]_vars
  BY <1>2
<1> QED
  BY <1>3, RowsInvariant, PTL DEF CopyCatchesUp, Spec

\* The result of a field.
LEMMA FieldResult ==
  ASSUME NEW r, NEW f \in Profile!Fields
  PROVE  /\ f \notin Profile!Compared(r) <=> Profile!FieldStatus(r, f) = "UNKNOWN"
         /\ f \in Profile!Compared(r) =>
              /\ Profile!FieldStatus(r, f) \in Profile!Inconsistent \cup {"CONSISTENT"}
              /\ Profile!FieldStatus(r, f) = "CONSISTENT" <=>
                   \A c \in Profile!PresentCopies(r, f) : Profile!CopyStatus(r, f, c) = "CONSISTENT"
<1> DEFINE found == {Profile!CopyStatus(r, f, c) : c \in Profile!PresentCopies(r, f)} \cap Profile!Inconsistent
           First(s) == \E n \in 1 .. 3 : Profile!WorstFirst[n] = s
                                         /\ \A m \in 1 .. n - 1 : Profile!WorstFirst[m] \notin found
<1>1. \A c : Profile!CopyStatus(r, f, c) \in Profile!Inconsistent \cup {"CONSISTENT"}
  BY DEF Profile!CopyStatus, Profile!Inconsistent
<1>2. "CONSISTENT" \notin Profile!Inconsistent /\ "UNKNOWN" \notin Profile!Inconsistent
  BY DEF Profile!Inconsistent
<1>3. found = {} <=> \A c \in Profile!PresentCopies(r, f) : Profile!CopyStatus(r, f, c) = "CONSISTENT"
  BY <1>1, <1>2
<1>4. ASSUME found # {} PROVE \E s \in found : First(s)
  <2>1. found \subseteq {"DIVERGED", "SYNC_PENDING", "MISSING_IN_COPY"}
    BY DEF Profile!Inconsistent
  <2> HIDE DEF found
  <2>2. /\ Profile!WorstFirst[1] = "DIVERGED" /\ Profile!WorstFirst[2] = "SYNC_PENDING"
        /\ Profile!WorstFirst[3] = "MISSING_IN_COPY"
    BY DEF Profile!WorstFirst
  <2>3. CASE "DIVERGED" \in found
    BY <2>2, <2>3
  <2>4. CASE "DIVERGED" \notin found /\ "SYNC_PENDING" \in found
    <3>1. \A m \in 1 .. 2 - 1 : m = 1
      OBVIOUS
    <3> QED
      BY <2>2, <2>4, <3>1
  <2>5. CASE found = {"MISSING_IN_COPY"}
    <3>1. \A m \in 1 .. 3 - 1 : m = 1 \/ m = 2
      OBVIOUS
    <3> QED
      BY <2>2, <2>5, <3>1
  <2> QED
    BY <1>4, <2>1, <2>3, <2>4, <2>5
<1>5. found # {} => (CHOOSE s \in found : First(s)) \in found
  BY <1>4
<1>6. f \in Profile!Compared(r) /\ found # {} => Profile!FieldStatus(r, f) \in found
  BY <1>5 DEF Profile!FieldStatus
<1>7. f \in Profile!Compared(r) /\ found = {} => Profile!FieldStatus(r, f) = "CONSISTENT"
  BY DEF Profile!FieldStatus
<1>8. f \notin Profile!Compared(r) => Profile!FieldStatus(r, f) = "UNKNOWN"
  BY DEF Profile!FieldStatus
<1> QED
  BY <1>2, <1>3, <1>6, <1>7, <1>8

\* There is an issue exactly where a field that is compared is not consistent.
LEMMA IssuesAre ==
  ASSUME NEW r
  PROVE  Profile!Issues(r) # {} <=>
           \E f \in Profile!Compared(r) : \E c \in Profile!PresentCopies(r, f) :
             Profile!CopyStatus(r, f, c) # "CONSISTENT"
<1> DEFINE Differing(f) == {d \in Profile!PresentCopies(r, f) : Profile!CopyStatus(r, f, d) # "CONSISTENT"}
           Of(f) == {[field |-> f, copy |-> c, status |-> Profile!CopyStatus(r, f, c)] : c \in Differing(f)}
<1>1. \A f : Of(f) # {} <=> Differing(f) # {}
  OBVIOUS
<1>2. Profile!Issues(r) = UNION {Of(f) : f \in Profile!Compared(r)}
  BY DEF Profile!Issues
<1> HIDE DEF Of
<1>3. Profile!Issues(r) # {} <=> \E f \in Profile!Compared(r) : Of(f) # {}
  BY <1>2
<1> QED
  BY <1>1, <1>3

\* FALSE, UNKNOWN and TRUE in terms of the copies.
LEMMA ConsistentMeans ==
  ASSUME NEW r
  PROVE  /\ Profile!Consistent(r) = "FALSE" <=> Profile!Issues(r) # {}
         /\ Profile!Consistent(r) = "TRUE" =>
              \A f \in Profile!Fields :
                /\ f \in Profile!Compared(r)
                /\ \A c \in Profile!PresentCopies(r, f) : Profile!CopyStatus(r, f, c) = "CONSISTENT"
<1> DEFINE statuses == {Profile!FieldStatus(r, f) : f \in Profile!Fields}
<1>1. statuses \cap Profile!Inconsistent # {} <=> Profile!Issues(r) # {}
  <2>1. Profile!Compared(r) \subseteq Profile!Fields
    BY DEF Profile!Compared
  <2>2. "CONSISTENT" \notin Profile!Inconsistent /\ "UNKNOWN" \notin Profile!Inconsistent
    BY DEF Profile!Inconsistent
  <2> QED
    BY <2>1, <2>2, FieldResult, IssuesAre
<1>2. Profile!Consistent(r) = IF statuses \cap Profile!Inconsistent # {} THEN "FALSE"
                              ELSE IF "UNKNOWN" \in statuses THEN "UNKNOWN" ELSE "TRUE"
  BY DEF Profile!Consistent
<1>3. ASSUME Profile!Consistent(r) = "TRUE", NEW f \in Profile!Fields
      PROVE  /\ f \in Profile!Compared(r)
             /\ \A c \in Profile!PresentCopies(r, f) : Profile!CopyStatus(r, f, c) = "CONSISTENT"
  <2>1. Profile!FieldStatus(r, f) # "UNKNOWN" /\ Profile!FieldStatus(r, f) \notin Profile!Inconsistent
    BY <1>2, <1>3
  <2> QED
    BY <2>1, FieldResult
<1> QED
  BY <1>1, <1>2, <1>3

\* profile_state.py: inconsistent exactly if an issue says where, and consistent
\* only if every field was reported by its authority and all sources with a copy
\* last reported the authority's value.
THEOREM ConsistencyIsEarned == Spec => []ConsistencyEarned
<1>1. ASSUME NEW r \in Profile!Readings, ~Profile!Unrecognized(r), Profile!Consistent(r) = "TRUE",
             NEW f \in Profile!Fields
      PROVE  \E x \in Profile!NewestRows(<<Profile!Authority[f], f>>) :
               \A c \in Profile!Copies[f] : (\E y \in rows : y.fact[1] = c) =>
                 \E y \in Profile!NewestRows(<<c, f>>) : y.value = x.value
  <2> DEFINE own == <<Profile!Authority[f], f>>
  <2>1. own \in DOMAIN r
    BY <1>1, ConsistentMeans DEF Profile!Compared
  <2>2. \A g \in DOMAIN r : r[g] \in Profile!NewestRows(g)
    BY DEF Profile!Readings
  <2>3. ASSUME NEW c \in Profile!Copies[f], NEW y \in rows, y.fact[1] = c
        PROVE  <<c, f>> \in DOMAIN r /\ r[<<c, f>>].value = r[own].value
    <3>1. c \in Profile!PresentCopies(r, f)
      BY <2>3, ProfileReadingDomain DEF Profile!PresentCopies
    <3>2. Profile!CopyStatus(r, f, c) = "CONSISTENT"
      BY <1>1, <3>1, ConsistentMeans
    <3> QED
      BY <3>2 DEF Profile!CopyStatus
  <2> QED
    BY <2>1, <2>2, <2>3
<1>2. ASSUME NEW a \in Profile!Answers
      PROVE  /\ ~a.error => (a.consistent = "FALSE" <=> a.issues # {})
             /\ a.consistent = "TRUE" => \A f \in Profile!Fields :
                  \E x \in Profile!NewestRows(<<Profile!Authority[f], f>>) :
                    \A c \in Profile!Copies[f] : (\E y \in rows : y.fact[1] = c) =>
                      \E y \in Profile!NewestRows(<<c, f>>) : y.value = x.value
  <2>1. PICK r \in Profile!Readings : a = Profile!evaluate_profile_state(r)
    BY DEF Profile!Answers
  <2>2. CASE Profile!Unrecognized(r)
    <3>1. a.error /\ a.consistent = "UNKNOWN"
      BY <2>1, <2>2 DEF Profile!evaluate_profile_state
    <3> QED
      BY <3>1
  <2>3. CASE ~Profile!Unrecognized(r)
    <3>1. a.consistent = Profile!Consistent(r) /\ a.issues = Profile!Issues(r)
      BY <2>1, <2>3 DEF Profile!evaluate_profile_state
    <3> QED
      BY <1>1, <2>3, <3>1, ConsistentMeans
  <2> QED
    BY <2>2, <2>3
<1>3. ConsistencyEarned
  BY <1>2 DEF ConsistencyEarned, Profile!ConsistencyEarned
<1> QED
  BY <1>3, PTL
=============================================================================
