---------------------------- MODULE StateService -----------------------------
(***************************************************************************)
(* app/reconciliation/service.py and GET /v1/state: one subject, reported  *)
(* on in its domain.  The domain decides which facts are read, how they    *)
(* are evaluated and which type the subject has; a request that does not   *)
(* name the right type is refused before it reads anything, and rows of    *)
(* another subject or domain are never read.                               *)
(***************************************************************************)
EXTENDS Naturals, FiniteSets

CONSTANTS
  Backend, Os, Braze, Other,   \* the facts of push
  PushValues(_),               \* the values each is reported with
  ProfileFacts,                \* the facts of profile
  ProfileValues(_),
  StaleAfter,
  Bad,
  MaxRows, PushMoments, ProfileMoments  \* bounds: rows, and the clock in each domain

\* What the normalizers return; null and "unknown" are UNKNOWN.  And the facts
\* of profile, a source's report of a field each.
ASSUME StateAssumption ==
  /\ PushValues(Backend) \subseteq {"ENABLED", "DISABLED", "UNKNOWN"}
  /\ PushValues(Os) \subseteq {"ALLOWED", "DENIED", "UNKNOWN"}
  /\ PushValues(Braze) \subseteq {"REGISTERED", "NOT_REGISTERED", "UNKNOWN"}
  /\ ProfileFacts \subseteq {"auth", "backend", "job_profile"} \X {"email", "postal_code"}
  /\ {StaleAfter, MaxRows, PushMoments, ProfileMoments} \subseteq Nat

VARIABLES
  domain,   \* the domain of the subject's rows
  rows,     \* its state_observation rows
  now

vars == <<domain, rows, now>>

Push == INSTANCE PushState WITH
  Facts <- {Backend, Os, Braze, Other}, ValuesOf <- PushValues, LastMoment <- PushMoments
Profile == INSTANCE ProfileState WITH
  Facts <- ProfileFacts, ValuesOf <- ProfileValues, LastMoment <- ProfileMoments

\* DOMAINS: the subject type of each domain.
SubjectType == [push |-> "installation", profile |-> "account"]

Init == domain \in DOMAIN SubjectType /\ Push!Init

Next ==
  /\ \/ domain = "push" /\ Push!Next
     \/ domain = "profile" /\ Profile!Next
  /\ UNCHANGED domain

Spec == Init /\ [][Next]_vars

-----------------------------------------------------------------------------
\* The domains' properties, in module PushState and module ProfileState.
\* Push: a delivery that is known to be blocked has an issue that says why.
BlocksExplained == domain = "push" => Push!BlocksExplained

\* Push: what is called deliverable rests on uncontradicted and recent reports.
DeliverableOnNews == domain = "push" => Push!DeliverableOnNews

\* Push: a late report changes no answer.
LateReportIgnored == [][domain = "push" => Push!LateReportChangesNothing]_vars

\* Push: time alone makes nothing deliverable.
TimeOnlyBlocks == [][domain = "push" => Push!TimeTakesAway]_vars

\* Profile: consistent and inconsistent are both said for a reason only.
ConsistencyEarned == domain = "profile" => Profile!ConsistencyEarned

\* Profile: after news of the authority no older copy is called diverged.
AuthorityMovesOn == [][domain = "profile" => Profile!NoneDivergedOnNews]_vars

\* Profile: a copy that agrees again is no issue any more.
CopyCatchesUp == [][domain = "profile" => Profile!NoIssueOnAgreement]_vars
=============================================================================
