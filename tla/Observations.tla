---------------------------- MODULE Observations -----------------------------
(***************************************************************************)
(* The state_observation rows of one subject and domain.  Systems report   *)
(* facts in any order and more than once; a request reads, for every       *)
(* (source, key), one row with the latest observed_at.  Where several have *)
(* it, ROW_NUMBER may number any of them first.                            *)
(***************************************************************************)
EXTENDS Naturals, FiniteSets

CONSTANTS
  Facts,        \* <<source, key>> pairs that are reported
  ValuesOf(_),  \* the values, normalized, that a fact is reported with
  Bad,          \* the value of a fact that no normalizer accepts
  MaxRows,      \* bound: rows of the subject
  LastMoment    \* bound: the clock

VARIABLES
  rows,   \* records [fact, value, at]; a row repeated is no other row
  now

vars == <<rows, now>>

Init == rows = {} /\ now = 0

\* A fact arrives, perhaps again, observed now or some time ago.
Report ==
  /\ \E f \in Facts, at \in 0 .. now : \E v \in ValuesOf(f) \cup {Bad} :
       rows' = rows \cup {[fact |-> f, value |-> v, at |-> at]}
  /\ Cardinality(rows') <= MaxRows
  /\ UNCHANGED now

Tick ==
  /\ now < LastMoment
  /\ now' = now + 1
  /\ UNCHANGED rows

Next == Report \/ Tick

Spec == Init /\ [][Next]_vars

-----------------------------------------------------------------------------
Present == {r.fact : r \in rows}

\* A bug: the first row of a fact instead of its last one.
EarliestRows(f) == {r \in rows : r.fact = f /\ \A x \in rows : x.fact = f => r.at <= x.at}

\* The rows of fact f that may be read.
NewestRows(f) == {r \in rows : r.fact = f /\ \A x \in rows : x.fact = f => x.at <= r.at}

\* What a request may read: one of the newest rows of each fact.
Readings == {r \in [Present -> rows] : \A f \in Present : r[f] \in NewestRows(f)}

\* The value of f in reading r, or d without one.
ValueOr(r, f, d) == IF f \in DOMAIN r THEN r[f].value ELSE d

\* Was a row reported that is older than one of its fact that was there?
LateReport ==
  \E r \in rows' \ rows : \E x \in rows : x.fact = r.fact /\ x.at > r.at
=============================================================================
