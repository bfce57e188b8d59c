------------------------------ MODULE PushState ------------------------------
(***************************************************************************)
(* app/reconciliation: the push domain.  An installation's push intent,    *)
(* permission of the operating system and registration with the provider,  *)
(* each reported on its own, are combined into whether a push would be     *)
(* delivered, and into the issues that explain why not.                    *)
(***************************************************************************)
EXTENDS Observations

CONSTANTS
  StaleAfter,   \* STALE_REGISTRATION_THRESHOLD_DAYS
  Backend, Os, Braze, Other   \* backend.enabled, os.permission, ..: the Facts

\* The results of the normalizers; a reported null or "unknown" is UNKNOWN.
Desired(r) == ValueOr(r, Backend, "UNKNOWN")
Capability(r) == ValueOr(r, Os, "UNKNOWN")

\* A bug: an old registration counts as it was reported.
RegistrationAnyAge(r) ==
  LET v == ValueOr(r, Braze, "UNKNOWN") IN IF v = "UNKNOWN" THEN "MISSING" ELSE v

\* A bug: the sign of the age.
RegistrationStaleWhenNew(r) ==
  LET v == ValueOr(r, Braze, "UNKNOWN") IN
  IF v = "UNKNOWN" THEN "MISSING"
  ELSE IF v = "REGISTERED" /\ r[Braze].at + StaleAfter > now THEN "STALE" ELSE v

Registration(r) ==
  LET v == ValueOr(r, Braze, "UNKNOWN") IN
  IF v = "UNKNOWN" THEN "MISSING"
  ELSE IF v = "REGISTERED" /\ now - r[Braze].at > StaleAfter THEN "STALE" ELSE v

\* Does a normalizer raise?
Unrecognized(r) == \E f \in {Backend, Os, Braze} : ValueOr(r, f, "UNKNOWN") = Bad

\* The issues, with the facts each one's evidence cites, when they are in r.
Cites(r, code, facts) == [code |-> code, evidence |-> facts \cap DOMAIN r]

\* A bug: an old registration is not reported.
IssuesButStale(r) ==
  UNION {IF Capability(r) = "DENIED" THEN {Cites(r, "OS_PERMISSION_BLOCKS_PUSH", {Os, Backend})} ELSE {},
         IF Registration(r) = "MISSING" THEN {Cites(r, "PROVIDER_REGISTRATION_MISSING", {Backend})} ELSE {},
         IF Registration(r) = "NOT_REGISTERED"
         THEN {Cites(r, "BACKEND_PROVIDER_STATE_DIVERGED", {Backend, Braze})} ELSE {}}

Issues(r) ==
  UNION {IF Capability(r) = "DENIED" THEN {Cites(r, "OS_PERMISSION_BLOCKS_PUSH", {Os, Backend})} ELSE {},
         IF Registration(r) = "MISSING" THEN {Cites(r, "PROVIDER_REGISTRATION_MISSING", {Backend})} ELSE {},
         IF Registration(r) = "NOT_REGISTERED"
         THEN {Cites(r, "BACKEND_PROVIDER_STATE_DIVERGED", {Backend, Braze})} ELSE {},
         IF Registration(r) = "STALE" THEN {Cites(r, "PROVIDER_REGISTRATION_STALE", {Braze})} ELSE {}}

\* A bug: what is unknown hides what is known to block.
DeliverableUnknownFirst(r) ==
  CASE "UNKNOWN" \in {Desired(r), Capability(r)} -> "UNKNOWN"
    [] "DISABLED" = Desired(r) \/ Capability(r) = "DENIED" \/ Registration(r) # "REGISTERED" -> "FALSE"
    [] OTHER -> "TRUE"

Deliverable(r) ==
  IF Desired(r) = "DISABLED" \/ Capability(r) = "DENIED" \/ Registration(r) # "REGISTERED"
  THEN "FALSE"
  ELSE IF Desired(r) = "UNKNOWN" \/ Capability(r) = "UNKNOWN" THEN "UNKNOWN" ELSE "TRUE"

\* A subject without rows is not evaluated.
Empty == [error |-> FALSE, deliverable |-> "UNKNOWN", issues |-> {}]
Raised == [error |-> TRUE, deliverable |-> "UNKNOWN", issues |-> {}]

evaluate_push_state(r) ==
  IF Unrecognized(r) THEN Raised
  ELSE [error |-> FALSE, deliverable |-> Deliverable(r),
        issues |-> IF Desired(r) = "DISABLED" THEN {} ELSE Issues(r)]

\* What GET /v1/state may answer now.
Answers == IF rows = {} THEN {Empty} ELSE {evaluate_push_state(r) : r \in Readings}

-----------------------------------------------------------------------------
\* Whatever was reported in whatever order: a push that is known not to arrive
\* is explained by an issue, unless the user has turned pushes off, and one
\* that would arrive has none.
BlocksExplained ==
  \A r \in Readings : LET a == evaluate_push_state(r) IN
    ~a.error => /\ a.deliverable = "FALSE" => a.issues # {} \/ Desired(r) = "DISABLED"
                /\ a.deliverable = "TRUE" => a.issues = {}

\* "deliverable" is never TRUE on the strength of a registration last seen
\* more than StaleAfter ago, or of a fact that has since been contradicted.
DeliverableOnNews ==
  \A a \in Answers : a.deliverable = "TRUE" =>
    \A w \in {[fact |-> Backend, value |-> "ENABLED"], [fact |-> Os, value |-> "ALLOWED"],
              [fact |-> Braze, value |-> "REGISTERED"]} :
      \E x \in rows :
        /\ x.fact = w.fact /\ x.value = w.value
        /\ \A y \in rows : y.fact = x.fact => y.at <= x.at
        /\ x.fact = Braze => now <= x.at + StaleAfter

\* Reports that arrive late, behind a later one of their fact, change nothing.
LateReportChangesNothing == LateReport => Answers' = Answers

\* The passing of time alone only takes deliveries away: what is not
\* deliverable or raises stays so.
TimeTakesAway ==
  now' # now => \A a \in Answers : \E b \in Answers' :
    a.error = b.error /\ b.deliverable \in {a.deliverable, "FALSE"}
=============================================================================
