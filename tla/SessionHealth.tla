---------------------------- MODULE SessionHealth ----------------------------
(***************************************************************************)
(* Release health (app/releases): hourly session counts per release and    *)
(* status are copied from Sentry by ingest, summed over settled buckets    *)
(* when an impact is asked for, and compared with the baseline release's.  *)
(*                                                                         *)
(* Time is counted in hours; bucket b holds the sessions begun in hour b.  *)
(* A session counts as healthy until Sentry learns that it crashed, which  *)
(* may take until the bucket has ended and SettleHours have passed.        *)
(***************************************************************************)
EXTENDS Integers, FiniteSetsExt, Functions

CONSTANTS
  LastHour,     \* bound: the clock
  LastBucket,   \* bound: the last hour in which sessions begin
  MaxSessions,  \* bound: sessions of a release
  WindowHours,  \* how far back ingest asks Sentry
  SettleHours,  \* settle_minutes
  MinSessions,  \* min_sessions
  RegressionPp  \* crash_regression_pp

ASSUME HealthAssumption ==
  /\ LastHour \in Nat /\ LastBucket \in 0 .. LastHour /\ MaxSessions \in Nat
  /\ SettleHours \in Nat /\ WindowHours \in Nat /\ MinSessions \in Nat \ {0} /\ RegressionPp \in Nat

Compared == {"new", "base"}
Statuses == {"healthy", "crashed"}
Buckets == 0 .. LastBucket
Counts == [Compared -> [Buckets -> [Statuses -> 0 .. MaxSessions]]]
NoCounts == [r \in Compared |-> [b \in Buckets |-> [s \in Statuses |-> 0]]]

VARIABLES
  hour,
  sentry,   \* Sentry's counts
  counts,   \* release_session_count; no row is a count of 0
  answer,   \* what session_counts returned to the running ingest
  ingesting,\* the hour of that answer, -1 when no ingest runs
  counted   \* history: the hour of the last answer that covered a bucket, or -1

healthVars == <<hour, sentry, counts, answer, ingesting, counted>>

-----------------------------------------------------------------------------
(* Reading: settled totals, health and verdict from counts c.              *)

\* Has bucket b ended SettleHours ago?
Settled(b) == b + 1 + SettleHours <= hour

Total(c, r, s) == SumFunction([b \in {x \in Buckets : Settled(x)} |-> c[r][b][s]])
Sessions(c, r) == Total(c, r, "healthy") + Total(c, r, "crashed")
Pending(c, r) == \E b \in Buckets, s \in Statuses : ~Settled(b) /\ c[r][b][s] # 0

\* A bug: no minimum sample.
HealthAnySample(c, r) ==
  IF Sessions(c, r) = 0 THEN IF Pending(c, r) THEN "PENDING" ELSE "UNKNOWN" ELSE "KNOWN"

\* health_of: is the rate of r known?
HealthOf(c, r) ==
  IF Sessions(c, r) = 0 THEN IF Pending(c, r) THEN "PENDING" ELSE "UNKNOWN"
  ELSE IF Sessions(c, r) < MinSessions THEN "UNKNOWN" ELSE "KNOWN"

\* delta_pp <= -RegressionPp, and >=: the crash rates in hundredths compared
\* without division.
Drop(c) == 100 * (Total(c, "new", "crashed") * Sessions(c, "base")
                  - Total(c, "base", "crashed") * Sessions(c, "new"))
Step(c) == RegressionPp * Sessions(c, "new") * Sessions(c, "base")

\* build_release_impact's finding about the crash rate.
Verdict(c) ==
  IF HealthOf(c, "new") # "KNOWN" \/ HealthOf(c, "base") # "KNOWN" THEN "none"
  ELSE IF Drop(c) >= Step(c) THEN "CRASH_RATE_REGRESSION"
  ELSE IF Drop(c) <= -Step(c) THEN "CRASH_RATE_IMPROVED" ELSE "none"

-----------------------------------------------------------------------------
HealthInit ==
  /\ hour = 0
  /\ sentry = NoCounts /\ counts = NoCounts /\ answer = NoCounts
  /\ ingesting = -1
  /\ counted = [b \in Buckets |-> -1]

NextHour ==
  /\ hour < LastHour
  /\ hour' = hour + 1
  /\ UNCHANGED <<sentry, counts, answer, ingesting, counted>>

\* A session begins.
Session ==
  /\ hour \in Buckets
  /\ \E r \in Compared :
       /\ MapThenSumSet(LAMBDA b : sentry[r][b].healthy + sentry[r][b].crashed, Buckets) < MaxSessions
       /\ sentry' = [sentry EXCEPT ![r][hour].healthy = @ + 1]
  /\ UNCHANGED <<hour, counts, answer, ingesting, counted>>

\* Sentry learns of a crash, before the bucket settles.
CrashReport ==
  /\ \E r \in Compared, b \in {x \in Buckets : x <= hour /\ ~Settled(x)} :
       /\ sentry[r][b].healthy > 0
       /\ sentry' = [sentry EXCEPT ![r][b].healthy = @ - 1, ![r][b].crashed = @ + 1]
  /\ UNCHANGED <<hour, counts, answer, ingesting, counted>>

\* Buckets that session_counts returns, in a run that asks at this hour.
Covered(b) == b + WindowHours > hour /\ b <= hour

\* ingest_sentry: session_counts, which drops counts of 0.
SessionCounts ==
  /\ ingesting = -1
  /\ ingesting' = hour
  /\ answer' = [r \in Compared |-> [b \in Buckets |->
                  IF Covered(b) THEN sentry[r][b] ELSE NoCounts[r][b]]]
  /\ UNCHANGED <<hour, sentry, counts, counted>>

\* A bug: a bucket that has a row keeps it.
UpsertedDoNothing(old, new) == IF old # 0 THEN old ELSE new

\* The count in a row after the upsert of new, which is no row when 0.
Upserted(old, new) == IF new # 0 THEN new ELSE old

\* The rows are upserted and committed.
Commit ==
  /\ ingesting # -1
  /\ counts' = [r \in Compared |-> [b \in Buckets |-> [s \in Statuses |->
                  Upserted(counts[r][b][s], answer[r][b][s])]]]
  /\ counted' = [b \in Buckets |->
                  IF b + WindowHours > ingesting /\ b <= ingesting THEN ingesting ELSE counted[b]]
  /\ ingesting' = -1
  /\ answer' = NoCounts
  /\ UNCHANGED <<hour, sentry>>

\* The ingest fails.
Abort ==
  /\ ingesting # -1
  /\ ingesting' = -1
  /\ answer' = NoCounts
  /\ UNCHANGED <<hour, sentry, counts, counted>>

HealthNext == NextHour \/ Session \/ CrashReport \/ SessionCounts \/ Commit \/ Abort

HealthSpec == HealthInit /\ [][HealthNext]_healthVars

-----------------------------------------------------------------------------
\* The crash count of a settled bucket is final if an ingest has read the
\* bucket after it settled, whatever earlier and failed ingests have read.
RereadIsFinal ==
  \A r \in Compared, b \in Buckets :
    counted[b] >= b + 1 + SettleHours => counts[r][b].crashed = sentry[r][b].crashed

\* Is every settled bucket read after it settled, and no count fell to 0?
WellRead ==
  \A b \in Buckets : Settled(b) =>
    /\ counted[b] >= b + 1 + SettleHours
    /\ \A r \in Compared, s \in Statuses : counts[r][b][s] # 0 => sentry[r][b][s] # 0

\* If the settled buckets were read after they settled, a verdict on the crash
\* rate is the one Sentry's own counts give and is based on enough sessions of
\* both releases; it is not made of the hours that are still coming in.
VerdictJust ==
  WellRead => /\ Verdict(counts) = Verdict(sentry)
              /\ Verdict(counts) # "none" => \A r \in Compared : Sessions(sentry, r) >= MinSessions
=============================================================================
