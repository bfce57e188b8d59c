# Verification of mobile-engineering-intelligence

TLA+ models of the service in `app/`: what they are, what TLC checks of them,
what TLAPS proves, and what is left. Everything is translated from the Python
(and, for the scheduled task, Terraform) sources; `PROJECT.json` maps each
definition to its lines.

## 1. The system

The service copies facts from GitHub, Jira and Sentry into PostgreSQL, and
answers questions about releases, incidents and device state from there. Two
kinds of process share the database: API processes (FastAPI, one SQLAlchemy
session per request, READ COMMITTED) and short-lived jobs (a scheduled
container running `ingest && retention`, plus jobs started by hand).

| Component | State | Operations | Talks to | What is hard |
|---|---|---|---|---|
| Ingest (`app/ingest.py`, `app/incidents/normalize.py`) | tables release, commit, release_commit, changed_file, commit_ticket, ticket, incident, incident_event, release_session_count | one transaction: git, then Jira, then Sentry; upserts only | vendors, database | overlapping jobs, failures half-way, vendors that change meanwhile, rows never deleted |
| Scheduled task (`infra/modules/jobs/main.tf`) | none | `ingest && retention`, several times a day, one retry | ingest, retention | a failing first half starves the second |
| Retention (`app/retention.py`) | none | delete events and generated text before a cutoff | database | races with API sessions; what comes back; what else was computed from the deleted |
| LLM explanations (`app/llm`) | table llm_output | look up, call the model, check citations, merge, commit, re-read | API, model, database | several sessions between lookup and commit, purge, crash |
| Incident context (`app/incidents/context.py`, `repository.py`) | none | five queries, then a pure function | database | no snapshot over the five queries |
| Release impact (`app/releases`) | none | sums of settled session counts, verdict, attribution | database | counts that are still changing, zeroes, small samples |
| State reconciliation (`app/reconciliation`, `app/api/state.py`) | table state_observation (written by others, and by `app/seed.py`) | newest row per fact, normalize, evaluate | database | late, repeated, tied, unreadable and ageing reports |
| Reproduction (`app/reproduction`) | none | consensus of an incident's events | database, reconciliation | separate reads of one incident and of its subjects' states |
| Connectors (`app/connectors`) | none | GET with retries, pagination | vendors | retries and lists that change between pages |
| Evaluation runner (`evals/repro_narrative`) | `results.jsonl`, `errors.jsonl`, `traces/`, `baseline/ref/` | a process per variant: generate, freeze or judge, trace, append a row | model, judge, database | a pool of threads, kills between two files, restarts |
| Seed, demo scripts, migrations, privacy, observability | files, tables | one-shot | database | two seeds at once |

What makes each correct, in one line: ingest commits nothing half-done, never
loses a tag and converges to what the vendors say; retention removes what is
old and only that; an explanation says only what its evidence supports; a
context never clears a commit that it has not judged; a health verdict rests on
final counts of enough sessions; an impact passes over nothing that it does not
know; a listing is all there was, or an error; a scenario claims only what all events it
considers share; an evaluation counts each attempt once, against one reference; the state of a device follows the newest
reports and explains itself.

## 2. Modules

| Module | Models | Composition |
|---|---|---|
| `Ingest` | jobs as interleaved transactions over the release graph | base |
| `Context` | a context request, statement by statement, while `Ingest` runs | EXTENDS `Ingest`; its steps are `Meanwhile` |
| `IngestProofs` | theorems about `Ingest`, and about the two composed | EXTENDS `Context`, `WellFoundedInduction`, `TLAPS` |
| `Explain` | `explain()` as interleaved sessions, purge, crash | implements `ExplainPromise` |
| `ExplainPromise` | abstract: one atomic store of explanations | instantiated by `Explain` as `Promise` |
| `ExplainProofs` | theorems about `Explain`, refinement included | EXTENDS `Explain`, `TLAPS` |
| `Regression` | the life of one Sentry issue and `regression_release` | base |
| `ReleaseImpact` | an impact request, statement by statement, while that issue lives on, is ingested and purged; the packet made of the answer | EXTENDS `Regression`; its steps are `Sentry` and `Ingest` |
| `SessionHealth` | hourly session counts from Sentry to the verdict | base |
| `ImpactProofs` | theorems about `ReleaseImpact`, the issue in it, and `SessionHealth` | EXTENDS both, `FiniteSetTheorems`, `WellFoundedInduction`, `TLAPS` |
| `Evidence` | the scheduled task over days: events in, events out | base |
| `EvidenceProofs` | theorems about `Evidence` | EXTENDS `Evidence`, `TLAPS` |
| `Reproduction` | a reproduction request, read by read, while ingest, retention and reports go on; the scenario and the packet it computes | base |
| `ReproductionProofs` | theorems about `Reproduction` | EXTENDS `Reproduction`, `FiniteSetTheorems`, `SequenceTheorems`, `WellFoundedInduction`, `TLAPS` |
| `Observations` | rows of state_observation and what a request may read | base |
| `PushState`, `ProfileState` | the two domains evaluated on those rows | EXTEND `Observations` |
| `StateService` | one table for the requests of either domain | INSTANCEs both as `Push` and `Profile` |
| `StateProofs` | theorems about `StateService` | EXTENDS `StateService`, `TLAPS` |
| `Connectors` | one client's listings and lookups at a vendor that is busy and changes | base |
| `ConnectorProofs` | theorems about `Connectors` | EXTENDS `Connectors`, `SequenceTheorems`, `FiniteSetTheorems`, `TLAPS` |
| `EvalRunner` | the evaluation's runner processes, their files and the judging | base |
| `EvalProofs` | theorems about `EvalRunner` | EXTENDS `EvalRunner`, `TLAPS` |
| `MC*` | instances for TLC | |

How state and actions correspond to the code:

* **Ingest.** `db` is the committed tables; `txn[j]` the rows job `j` has
  written in its open transaction. `upsert` is `INSERT .. ON CONFLICT DO
  UPDATE`: it waits (is disabled) while another open transaction holds one of
  its rows. A query sees `db` overlaid by the job's own rows (`Visible`). One
  action per vendor answer and statement group: `ListTags`, `UpsertReleases`,
  `PairTags`, `IngestPair` per pair of tags, `ingest_jira`, `LoadKnown`,
  `NoteRelease`, `Commit`, `Abort`. The release rows of one INSERT are locked row
  by row: `UpsertReleases` writes one, in the order of the VALUES, and a job that
  waits for the next holds those before. Versions and commits are numbers, so a tag is the number
  of its commit, and history is linear. `changed_file` rows are not separate:
  they are written in the loop body that writes their commit.
* **Context.** `Query` executes one of the five SELECTs in the order of
  `load_release_graph`; `Answer` stands for `build_incident_context`, which is
  an operator applied by the properties to every incident the answer could be
  for. `seen` is a history of the committed tables during the request.
* **Explain.** `pc[r]` walks through the session: lookup, call, merge, flush and
  commit, re-read. `held` tells whether the row sits in the identity map, which
  decides whether `session.merge` queries again. A text is named by the request
  that had it written; a sentence is the set of ids it cites. `disturbed` is
  history. A request ends with a text, with a failure of the model (`llm_error`, a
  502 or 503), with a `misconfigured` client (a 500, before the handler in
  `NoClient` or from the call), or with a `row_error`: the 500 of a row that
  another session wrote or the purge deleted. `CommitUpdate` writes the row; the ORM sends only the
  columns that differ from what it loaded, so two sessions may leave a row of
  two texts, which no property tells apart.
* **Reproduction.** `at` is the request's next read. An event is a record of
  what it says; events are numbered in order of occurrence, so the list that
  `load_events` returns is the set `stored`. A loaded frame is named by its
  place, the event and the position in its stack where it comes first, which
  orders the frames as `load_incident` does. `found` is the lookup cache spread
  over the events: an installation that was looked up before gives the same
  value. The scenario is a
  set of operators on `events`, `found` and `frames` (`Steps`, `Variants`,
  `Preconditions`, `Varies`, `Culprit`, `Gaps`), which the properties apply when
  the request is about to answer. One context key (`os`), one flag and one state
  key (`push`) stand for the keys of their kind. `packet` is what the model is
  given, `critical_ids` the ids by which the evaluation grades a narrative.
* **Evidence.** Days; `sentry` is the list of events Sentry has received,
  `stored` the positions of those in incident_event. `Fail` ends either half of
  the task; after a failed ingest nothing is purged. `failures` counts the runs
  that failed in a row; a run that succeeds sets it to 0. The sessions that the
  same job counts are in `SessionHealth`.
* **Regression.** `GetIssue` and `StoreIncident` are the two reads of one issue
  in `ingest_sentry`; `Resolve` and `Seen` are Sentry's. `regressed`,
  `expected`, `settled` are history.
* **ReleaseImpact.** `row`, `kept` and `tagged` are the tables incident,
  incident_event and release; `Ingest` is the commit of the run that `GetIssue`
  began, `Purge` deletes events and leaves the incident row. A request is a row
  of statements in the order of `get_release_impact`: `Ask` (with its 404),
  `LoadGraph` (with its 400), `NewIds`, `RegressedIds`, for either list the
  statement that counts its events and the one that loads its frames, `Answer`.
  `got` is what they returned. `FramesOf` are the files that the stack of the
  issue names in the events of a release, `Changed` those that a release's
  commits changed; a stored event keeps its frames and a purged one takes them
  along, so the suspects are those that the frames still stored overlap. What the session totals say is any health, which
  the properties quantify over, because `SessionHealth` says what it may be.
* **Connectors.** `rows` is the vendor's list, which `Create`, `Delete` and
  `Move` change while a call is made; a page is a range of positions of it.
  `FirstGet` is the GET that `get_issue` sends itself, `GetWithRetry` one
  iteration of `get_with_retry`, whose sleep lies between two steps. `answers`,
  `before` and `changes` are history.
* **SessionHealth.** `SessionCounts` is Sentry's answer to a run, `Commit` its
  upsert. No row is a count of 0, because `session_counts` drops zeroes.
  Rounding to six and four digits is left out: the rates are compared exactly.
* **EvalRunner.** `work[v][a]` is where attempt `a` of the runner of variant `v`
  is, and what it carries (`run_one`'s `row`); `results`, `traces` and `ref` are
  the files, which a `Crash` leaves; `cut` are the variants whose last row was
  cut short by a kill, which cannot be started again. A reference is `Torn` between `open` and the
  end of `write_text`. The judge sees candidate and reference in either order
  and `win` undoes it. Retries of a call change nothing and are left out, so is
  the size of the pool: a waiting attempt is one that does not step.
* **Observations.** `rows` is a set: a repeated report is no new row for the
  evaluation. `Readings` are the rows that `ROW_NUMBER` may number first. Values
  are those after normalization, `Bad` is one that no normalizer accepts. The
  properties of a domain are about `Answers`, all that the rows may give, or
  relate an answer to the one after the step.

Operators commented "A bug:" are wrong variants of the definition that follows
them. They are used in no specification; the list `mutants` in `PROJECT.json`
says which property fails when one replaces its neighbour.

## 3. Runs

Passing:

| Run | Bounds | Shows |
|---|---|---|
| `explain` | 2 requests, 2 packets of one subject, 4 drafts, 3 days | groundedness; a failure over the stored row or a foreign text takes a second actor; `Explain` implements `ExplainPromise` |
| `ingest` | 2 jobs, 3 versions, 3 commits, 2 keys (one unknown to Jira), 2 failures, first tag present, fairness | what is committed is whole, matches the tags, keeps tags, is stable under re-runs; no two jobs wait for each other; every tag arrives |
| `context` | 2 overlapping first jobs, 2 versions, 2 commits, 1 key, tags on top | the five statements act as one; no commit is cleared unjudged |
| `reproduction` | 3 events of 4 kinds, 2 installations, a state known, unknown or unreadable | steps are shared by all trails and longest; variants tell the rest; nothing is claimed that an event does not say; reads that interleave add no contradiction |
| `evidence` | 2 issues, 3 events, 7 days, window 3, retention 4, never 2 failures in a row, fairness | events have incidents, no gaps, what is too old goes, and if it comes back it is only until the retention of the same run |
| `impact` | 3 releases, one of which changed a file that the stack names only from then on, one minified, 8 moments at Sentry (two regressions), 5 until requests and retention stop, baselines given and not | the stored regression is right unless a regressed issue was resolved again; what is missing has its finding, with two exceptions (below); a release at fault is cleared only after a purge; volume and issues agree |
| `health` | 2 releases, 3 buckets, 2 sessions of a release in all, 5 hours | re-read buckets are final; verdicts are Sentry's |
| `state` | push: 4 facts, 4 rows, 3 moments; profile: 5 facts of 3 sources, 2 values, 4 rows, 2 moments | push: blocks are explained, deliverable rests on news, late reports and time alone are harmless; profile: (in)consistency is earned, no copy is called diverged before it could know |
| `evals` | baseline with 2 repetitions and a variant with 1, one case, 2 narratives, any number of kills | no attempt counts twice and a row says what its trace says; one reference per case, won by the better; a run that ends has lost nothing |
| `connectors` | 4 rows, pages of 2, a next link on the last page, 4 attempts, 2 changes during a call, fairness | a listing that is returned is whole, a lookup that fails has its cause, every call ends |

Expected violations, each a disagreement of the code with a sentence of the
repository (`findings` quotes both):

| Run | Violates | Because |
|---|---|---|
| `explain_young_text` | `YoungTextKept` | regenerating keeps `created_at` |
| `reproduction_crash_frame` | `CrashingFrameLast` | frames are appended over the events of an issue, each once, so a caller in a later event comes after the crash frame |

The passing properties have preconditions, and outside of them the code behaves
as follows (each was seen in a counterexample of the same models under other
constants):

* `ContentsMatchTags` is checked with tags created on top (`Inserted = FALSE`).
  A tag created below an ingested one leaves the later release with the commits
  of both, because `ingest_git` deletes no row.
* `NoStandoff` is checked with one tag present and tags created on top. Then the
  first row of every INSERT is that of the lowest tag, and who waits for it holds
  nothing. Tagless first ingests insert only what Sentry names, in its order, and can
  wait for each other. With a tag created below the shared one, a job that listed
  it writes and holds that row first, waits for the shared one, and stands off
  with a job that has the shared one and has Sentry's name of the new release to
  note. PostgreSQL aborts one of them, and the next run repairs it.
* `TagNotErased` is checked with one tag present. Of two overlapping *first* ingests, the one that listed no tag and commits last
  stores the version without its tag (`known` is read once); the next ingest
  repairs it.
* `OldEventsGo`, `OverdueOnlyInPassing` and `NoEventSlipsThrough` allow any number
  of failures, but only `MaxFailures` in a row. While every ingest fails,
  `ingest && retention` never reaches retention.
* That no event older than the retention is ever stored does not hold: an
  issue's events are fetched without a window, so those purged yesterday are back
  with the next ingest, although `retention.py:8-9` says that they can come back
  "only inside the ingest window". They stay until the retention of the same run
  (`OverdueOnlyInPassing`), and longer if that run fails between the two.
* `RereadIsFinal` is about buckets that an ingest read after they settled.
  Without one, a bucket counts as settled by the reader's clock, without the
  crashes that came in since. `VerdictJust` also assumes that no count fell to
  0, because `session_counts` drops zeroes and the old row stays.
* `DeliverableOnNews` and the other properties of `state` hold for whichever row
  is picked: of two rows of a fact with one `observed_at`, the database picks either.
* `AnswerOfOneMoment` is checked with tags created on top. A tag below changes
  rows that a request may have read half of.
* `CulpritConsidered` leaves out a purge between the two reads of an incident.
  The culprit itself is the last mapped frame of all frames of the issue,
  de-duplicated over its events, which need not be one in which an event
  crashed (`reproduction_crash_frame`).
* `UndisturbedExact` is about the 500s of the stored row. The endpoint has others
  that take no second actor: `LLMMisconfigured` (`service.py:25-30`,
  `client.py:46-47`), which the model has as `misconfigured`, and what nobody
  catches, a database that is gone or an SDK error of another kind. None of them
  writes.
* `NeverCleared` excepts a release of which retention has deleted an event of the
  issue. If frames of other events are left that name files, the code judges by
  those alone and says `NEW_ISSUE_UNATTRIBUTED` of a release that changed a file of
  the deleted ones, where `README.md:8` says that what is missing is "never quietly
  turned into .. no suspects". TLC shows it with the exception removed: an issue
  first seen in 2, then in 1; the event of 2 is purged, and 2 is cleared by the
  frames of 1. The events of one release are taken to have one stack.
* `UnknownsExplained` excepts two things of which `README.md:8` says that they come
  "with a finding explaining why". The attribution of a regressed issue may be
  UNKNOWN, and its code is dropped (`impact.py:161`). The baseline's health has no
  finding where there is no baseline (`packet.py:32-33`), nor of its own where the
  release's health is missing as well (`impact.py:130`).
* `VolumeOfListedIssues` leaves out
  an issue that is both new and regressed in one release: its events are counted
  twice, and both entries have one id in the packet. It also says nothing of a
  purged release, whose events are gone while its sessions are still counted.
* `ListingAccurate` says what a listing misses when rows change while its pages
  are fetched: a deletion moves a row back over the page boundary and it is
  missed; a creation or a move gives one twice, which `ingest` meets as two rows
  of one key in one INSERT, and fails. `Ingest!ListTags` takes a listing for one
  moment, which holds for one new tag, or none, during the call.
* `LookupAnswered`: a key that Jira does not know is `None` at the first GET, and
  an exception if that GET was answered 503 and its retry 404.
* `OpenRegressionRight` leaves out a regressed issue that was resolved again.
  Then the fallback looks for the first event after that latest resolution and
  yields none, or one that no regression made, where `normalize.py` says "None if
  it never did".
* `OneReference` says which reference a narrative is judged against, not that it
  is the narrative the baseline scored: a runner killed between freezing a
  reference and appending its row generates again, keeps the old reference and
  scores the new narrative; killed while writing, it leaves a torn reference, on
  which every variant fails. Killed inside the append of a row (`run.py:347-348`),
  it leaves a line on which `json.loads` fails at every restart (`run.py:319`). And
  a baseline whose repetition 0 was truncated or
  refused has a row but no reference: it is done, and "run the baseline first"
  helps no more. There the system stops, which is why `evals` does not check
  deadlock.
* `NothingGuessed` is about `min_support` 1.0, as configured.
* Two first requests for one input may both call the model, and the later
  commit replaces the text the earlier caller was given; `UndisturbedExact` and
  `Promise` bound what such a race may do.

Why the bounds suffice. The races need two actors and one object; every run
with interleavings has at least that, and the theorems hold for any number of
actors. Three versions are the fewest with a
pair that has a pair on either side; three commits let a release have none, one
or two. In `impact` eight moments are two resolutions, each with a regression and
later events. Pages of two and four rows are the fewest with a full page, a
half-full and an empty one; two changes are the fewest that undo each other.
Windows are longer than the failures a run allows, so that a gap could
open, and the clocks run past window plus retention. Four rows are two facts
contradicted twice, or one of each. Deadlock is checked everywhere but in
`evals` (above) and in `explain` and `explain_young_text`, where every request
is served once and the behaviour ends with the last one.

## 4. Fairness

* `Ingest!FairSpec`: weak fairness of each job's steps. The scheduler starts a
  job every few hours and a job that does not fail goes on; failures are
  finitely many (`Ingest`'s bound), vendors change finitely often.
* `Evidence!FairSpec`: weak fairness of "the task runs or fails", and of the
  days. Nothing promises that a run succeeds; the bound on failures in a row does
  (`MaxFailures`; failures without end are allowed as long as runs succeed in
  between).
* `Connectors!Spec`: weak fairness of a call's steps. A request has a timeout (30
  seconds) and a sleep ends.
* `Explain!FairSpec`: the SDK bounds every model call, so a request that is not
  killed goes on; the job comes back while there is something to purge.

No other property needs fairness.

## 5. Proofs

Checked by TLAPS, for all values of the constants (any number of requests,
jobs, versions, packets, keys, events, hours, reports, runners):

| Module | Theorems |
|---|---|
| `ExplainProofs` | `TypeCorrect`, `StoredIsGrounded`, `AnswersAreGrounded`, `UndisturbedIsExact`, `ImplementsPromise` |
| `IngestProofs` | `TypeCorrect`, `TablesAreWhole`; if some tag existed before the first job ran, `TagsAreKept`; where tags are created on top, `ContentsAreSpans` and `CommitsAreJudged`; where both hold, `NoJobsStandOff`, `RerunsAreIdentical` and `AnswersAreOfOneMoment` |
| `ImpactProofs` | `RegressionsAreRight`, `VolumesAreOfListedIssues`, `UnknownsHaveFindings`, `ClearedOnlyAfterPurge`; of health, `RereadsAreFinal` and `VerdictsAreJust` |
| `EvidenceProofs` | `EventsAreExplained`, `BroughtBackEventsPass`, and, if the ingest window outlasts the failures in a row, `NoEventIsMissed` |
| `ReproductionProofs` | `StepsAreAlwaysShared`, `VariantsTellOfEveryEvent`, `NothingIsGuessed`, `StatesVaryBySubject`, `CulpritsAreConsidered` |
| `StateProofs` | `BlocksAreExplained`, `DeliverablesAreNews`, `LateReportsAreIgnored`, `TimeAloneBlocks`, `ConsistencyIsEarned`, `AuthorityGoesFirst`, `CopiesCatchUp` |
| `EvalProofs` | `RowsAreSingle`, `ReferencesAreFrozen`, `NothingIsLost` |
| `ConnectorProofs` | `ListingsAreAccurate`, `LookupsAreAnswered` |

They use the named assumptions on constants only (`PacketsAssumption`,
`VendorAssumption`, `StateAssumption`, ..), which TLC evaluates in the runs. That
a vendor has finitely many rows, that no ticket is called "no key" and no frame
"UNKNOWN", and that trails and stacks are sequences, are such assumptions.

**Explain.** `GInv` adds to the type that a draft waiting to be flushed is
grounded in its own packet, and that keys are injective in the packet
(`KeyInjective`: the hash stands for the exact packet); then whichever session
writes a row, it is grounded in what it is stored under, and whichever session
reads it, it is for the same packet. `UndisturbedExact` is not inductive: that
an undisturbed session's commit succeeds depends on what it knew when it
merged. `Fresh` and `UndisturbedKnow` say that: as long as nobody disturbed it,
the row is as its first read found it, and after the commit it is its own. The
refinement maps a row to its sentences and an answer to how it ended; the
committing steps are `Write`, answers are `Deliver` or `Fail`, the purge is
`Forget`, everything else stutters.

**Ingest.** `Whole` is not inductive, because a commit publishes a transaction
that must itself be closed. `IInv` adds for every job what its transaction has
promised at its place (`Sound`, `Holds`): its pairs done so far are closed up
to their tickets, and after `ingest_jira` altogether. That tags are kept cannot
follow from `IInv`: two overlapping first ingests are a counterexample. It follows when a tag
`t` exists from the start, because then every job writes `t`'s release row in
its first statement and holds it until it ends: `Serial(t)` says that at most
one job is past that row, so what it read in `LoadKnown` stays true; that no two
jobs have written one row is `Exclusive`. Where tags are created on top, `t` can be taken as the lowest tag there is
(`Lowest`): a job that waits for its row has written no other, so nobody waits for
that job, and there is no circle of waiting jobs.
`ContentsMatchTags` compares the tables with the tags of today, while a job
works on those of its listing. `Spans` says that a tag, once there, has its
final predecessor, so that what any job lists of a tagged version, has written
or has committed of it is its `Span`, then as now. That the predecessor exists is
the one place that needs a greatest version below; well-foundedness (`WFMin`)
gives it without an induction. `RerunIdentical` needs both, and `Reruns`: what
a job is about to write was derived from what it listed and is up to date
(`Derived`, `UpToDate`), and once a job has committed that saw only the present
(`settled`) the tables have all of it (`Complete`) and no job has a release left
to note (`NoneToNote`). Then every upsert writes what is there.

**Context.** The third statement reads what the first one bounds: a version that
is tagged in the tables has all of its commits there, and they stay. `Judged`
says for each of the five places what the statements so far have returned of
such a version; that the tables it is read from have it is `Spans` and `Whole`,
and that jobs that commit in between take nothing away is `StoredStays`. For one
moment to explain the whole answer, what the first statement saw must still hold
at the others. With a tag from the start jobs write one at a time and keep tags
(`Serial`), so a tagged version has every lower tag with it (`Chained`).
`Moments` then gives the moment: for a version with a predecessor it is that of
the last statement, for one without, whose commits stay empty, and for an
untagged one it is that of the first.

**Impact.** The fallback of `regression_release` is right because of what a log
of an open issue looks like, whether it is Sentry's or a copy read earlier
(`Proper`): its latest regression is the one in question, and the first event
after its latest resolution is of that release. `Quiet`, that a resolved issue
has had no event since, makes the next one that first event. That volume and
issues agree is a matter of finite sets: `Accounted` bounds each count by what
was received, and says that a listed issue has events, stored or purged.
`Framed` says the like of frames: those of a listed issue are all that its stack names in
the version asked for, unless an event of it was purged, because the issue was
listed with an event of that version and events go only by purges.
`UnknownsHaveFindings` needs no invariant: the judgement has it for whatever the
statements returned.

**Evidence.** `Paired` says what a run has yet to write of an event it wrote.
That no event slips through is a matter of counting: `Timely` says that an event
that is not stored has waited no longer than runs have failed in a row, one for a
run that began before the event, and one for a task that ran today already.
While a run goes on that will not store it, no day has passed without a run that
ended, so a success that follows starts the count anew and nothing is lost.
`Fresh` says of what is stored that the last run that ended, today or yesterday,
left it within the retention, unless runs have failed since.

**Health.** A crash count grows until it is final, so the copies are never ahead
(`NoneAhead`); what an ingest has read after its hour was settled is what Sentry
will always say (`AnswerFinal`), and a later upsert writes the same again. A
count that fell to 0 is the exception, because its old row stays; `RowsFinal`
is about the others. The verdict compares sums over the settled hours. A sum is a
fold, a function on subsets that refers to itself: `FoldDefined` shows by a
smallest counterexample that there is exactly one, so equal tables have equal
sums (`TotalsAgree`), and sums of naturals are naturals.

**Reproduction.** Everything but the loop of `_common_suffix` is a set or a
function of what was loaded. The loop is a function that refers to itself;
`CommonSuffixFacts` gives it a value, the first position from the end at which two
trails differ or one is over, and excludes any other value at the greatest
argument where it would differ. Steps, variants and trails then fit together as
sequences do (`SuffixFacts`, `BeforeFacts`). `TopFacts` and `AgreedFacts` count: a
value counts as often as there are events only if it is the only one. The
invariant relates the reads: `LookedUp`, that the states found so far are one for
each installation, and `Loaded`, that unless retention ran the loaded frames are
of events that are still stored and, after the second read, loaded as well.

**State.** The properties are about the function from rows to answers. A lemma
says what a step does to `Readings`, which depend only on the newest rows; the
theorems follow case by case from the domains' definitions, for any tables.

**Evaluation.** `Progress` ties an attempt under way to its files (no row before
its trace), `Judging` what it was judged against to the reference, `Writing`
says that only repetition 0 of the baseline writes a reference, and only one it
created. A kill at any step keeps all three.

**Connectors.** Rows move between pages while a listing is collected. `Reached`
says of rows before the next page that they have been collected, unless one was
deleted; `Fresh` says of those after it that they have not been, unless one was
created or moved. A change of the list keeps both, because a creation only moves
rows back and a deletion only forward, and the last page ends all rows. `Asking`
counts a lookup's busy answers.

Left to TLC is liveness (`TagsArrive`, `OldEventsGo`, `CallEnds`), which is beyond
the prover, and `AnswerOfOneMoment` where no tag exists at the start. Every other
property of a passing run is a theorem. Nothing in the models is declared
RECURSIVE.

## 6. Plan

The plan's modules are written: `Explain` and `Ingest` first, then what is
computed from their tables (`Context`, `Regression`, `ReleaseImpact`,
`SessionHealth`, `Evidence`, `Reproduction`, `StateService`), then `EvalRunner`
and `Connectors`, and the proofs from the core outward. What would come next:

1. A pool of connections under `Explain`, with the health check as the caller
   that starves.
2. Two upserts of one key in one INSERT, where a listing or a moved ticket gives
   it twice.

## 7. Not modelled, and why

* The connection pool: that slow model calls can use it up is plain from its
  size; what a caller then meets depends on arrival rates.
* The demo seed: delete and insert in one transaction, by hand and one at a time.
* Case files, the check of the judge, the programmatic scores of a narrative and
  the printed summary: one-shot, or pure functions on text.
* Personal-data minimisation, payload normalization other than
  `regression_release`, prompts and packet building: pure functions on strings
  and JSON whose properties are about their text.
* Org configuration, migrations, infrastructure other than the scheduled task:
  declarative, no behaviour of their own.
* Row locks beyond "a statement waits for the row it writes next and keeps those
  it wrote": PostgreSQL's deadlock detector appears as a failure of one of the
  jobs, and rows of one INSERT into other tables than release are taken at once,
  because only a job that holds its release rows gets there.
* Several organisations: every key starts with `org`, so one stands for all.
* The order of suspects, findings and evidence in a response: wording and
  layout.
