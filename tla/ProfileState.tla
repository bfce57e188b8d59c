---------------------------- MODULE ProfileState -----------------------------
(***************************************************************************)
(* app/reconciliation: the profile domain.  Each field of an account has   *)
(* an authority and copies in other systems; what they last reported is    *)
(* compared.  A fact is <<source, field>>, and values are those that the   *)
(* normalizers return.                                                     *)
(***************************************************************************)
EXTENDS Observations

Fields == {"email", "postal_code"}
Authority == [email |-> "auth", postal_code |-> "backend"]
Copies == [email |-> {"backend", "job_profile"}, postal_code |-> {"job_profile"}]

\* A bug: only sources that report the field take part.
CopiesOfField(r, f) == {c \in Copies[f] : <<c, f>> \in DOMAIN r}

\* The copies of field f that are in scope: those whose source reported anything.
PresentCopies(r, f) == {c \in Copies[f] : \E k \in DOMAIN r : k[1] = c}

\* A bug: a copy that differs is wrong, however old it is.
CopyStatusAnyAge(r, f, c) ==
  LET a == <<Authority[f], f>> IN
  IF <<c, f>> \notin DOMAIN r THEN "MISSING_IN_COPY"
  ELSE IF r[<<c, f>>].value = r[a].value THEN "CONSISTENT" ELSE "DIVERGED"

\* Copy c of field f against its authority, which has reported.
CopyStatus(r, f, c) ==
  LET a == <<Authority[f], f>> IN
  IF <<c, f>> \notin DOMAIN r THEN "MISSING_IN_COPY"
  ELSE IF r[<<c, f>>].value = r[a].value THEN "CONSISTENT"
  ELSE IF r[<<c, f>>].at >= r[a].at THEN "DIVERGED" ELSE "SYNC_PENDING"

\* The fields that can be compared, and the issues.
Compared(r) == {f \in Fields : <<Authority[f], f>> \in DOMAIN r}
Issues(r) ==
  UNION {{[field |-> f, copy |-> c, status |-> CopyStatus(r, f, c)] :
            c \in {d \in PresentCopies(r, f) : CopyStatus(r, f, d) # "CONSISTENT"}} :
           f \in Compared(r)}

Inconsistent == {"DIVERGED", "SYNC_PENDING", "MISSING_IN_COPY"}
WorstFirst == <<"DIVERGED", "SYNC_PENDING", "MISSING_IN_COPY">>

\* The worst result of a field's copies.
FieldStatus(r, f) ==
  LET found == {CopyStatus(r, f, c) : c \in PresentCopies(r, f)} \cap Inconsistent IN
  IF f \notin Compared(r) THEN "UNKNOWN"
  ELSE IF found = {} THEN "CONSISTENT"
  ELSE CHOOSE s \in found : \E n \in 1 .. 3 :
         WorstFirst[n] = s /\ \A m \in 1 .. n - 1 : WorstFirst[m] \notin found

\* A bug: a field that is unknown hides one that is known to differ.
ConsistentUnknownFirst(r) ==
  LET statuses == {FieldStatus(r, f) : f \in Fields} IN
  IF "UNKNOWN" \in statuses THEN "UNKNOWN"
  ELSE IF statuses \cap Inconsistent # {} THEN "FALSE" ELSE "TRUE"

\* FALSE > UNKNOWN > TRUE.
Consistent(r) ==
  LET statuses == {FieldStatus(r, f) : f \in Fields} IN
  IF statuses \cap Inconsistent # {} THEN "FALSE"
  ELSE IF "UNKNOWN" \in statuses THEN "UNKNOWN" ELSE "TRUE"

\* Every known field is normalized, compared or not.
Unrecognized(r) == \E k \in DOMAIN r : r[k].value = Bad

evaluate_profile_state(r) ==
  IF Unrecognized(r) THEN [error |-> TRUE, consistent |-> "UNKNOWN", issues |-> {}]
  ELSE [error |-> FALSE, consistent |-> Consistent(r), issues |-> Issues(r)]

\* What GET /v1/state may answer now; without rows nothing is compared.
Answers == {evaluate_profile_state(r) : r \in Readings}

-----------------------------------------------------------------------------
\* Whatever was reported in whatever order: the profile is called inconsistent
\* exactly when there is an issue that says where, also when another field has
\* no authority to be compared with.  It is called consistent only if every
\* field's authority has reported it, and every source with a copy that
\* reported anything last reported the authority's value for it.
ConsistencyEarned ==
  \A a \in Answers :
    /\ ~a.error => (a.consistent = "FALSE" <=> a.issues # {})
    /\ a.consistent = "TRUE" => \A f \in Fields :
         \E x \in NewestRows(<<Authority[f], f>>) :
           \A c \in Copies[f] : (\E y \in rows : y.fact[1] = c) =>
             \E y \in NewestRows(<<c, f>>) : y.value = x.value

\* profile_state.py: "a copy observed before the authoritative value may just
\* not have caught up yet": a report of the authority later than all that the
\* copies reported of the field leaves no copy of it DIVERGED.
NoneDivergedOnNews ==
  \A x \in rows' \ rows : \A f \in Fields :
    /\ x.fact = <<Authority[f], f>>
    /\ \A y \in rows : y.fact[2] = f => y.at < x.at
    => \A a \in Answers' : \A i \in a.issues : i.field = f => i.status # "DIVERGED"

\* A copy whose later report is the value its authority has last reported is no
\* longer an issue, whatever it or the authority reported before.
NoIssueOnAgreement ==
  \A x \in rows' \ rows : \A f \in Fields : \A c \in Copies[f] :
    /\ x.fact = <<c, f>>
    /\ \A y \in rows : y.fact = x.fact => y.at < x.at
    /\ \A y \in NewestRows(<<Authority[f], f>>) : y.value = x.value
    => \A a \in Answers' : \A i \in a.issues : ~(i.field = f /\ i.copy = c)
=============================================================================
