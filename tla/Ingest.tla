------------------------------- MODULE Ingest --------------------------------
(***************************************************************************)
(* app/ingest.py: jobs that copy git tags, commits, tickets and the        *)
(* releases Sentry knows into Postgres.  A job is one transaction; several *)
(* may overlap (the scheduled one and one started by hand), each may fail  *)
(* at any vendor call, and the vendors change while they run.              *)
(*                                                                         *)
(* Every write is INSERT .. ON CONFLICT on a primary key.  Under READ      *)
(* COMMITTED such a statement waits for the transaction that has already   *)
(* written one of its rows and then goes on over what that one left; a     *)
(* query sees what is committed at that moment and the job's own writes.   *)
(*                                                                         *)
(* Tables are records of type Rows: a job's transaction is the set of rows *)
(* it has written, the database the rows committed so far.  History is     *)
(* linear: a tag names a commit by its number, 0 when it does not exist.   *)
(* A commit row stands with its changed_file rows, which the same loop     *)
(* body writes and nobody writes again.                                    *)
(***************************************************************************)
EXTENDS Naturals

CONSTANTS
  Versions,    \* versions that may be tagged, numbered in semver order
  LastCommit,  \* commits are numbered 1 .. LastCommit, oldest first
  Keys,        \* ticket keys
  TicketsOf,   \* TicketsOf[c]: the keys in the message of commit c
  JiraKey,     \* JiraKey[k]: the key of the issue Jira returns for k
  Missing,     \* what JiraKey gives for a key Jira does not know
  Jobs,
  InitTags,    \* the tags at the start
  MaxFailures, \* bound: how many jobs fail
  Inserted     \* may a tag be created below an existing one (a hotfix)?

Commits == 1 .. LastCommit
TagMaps == [Versions -> 0 .. LastCommit]

\* Tags point at later commits in later versions.
Ordered(t) ==
  \A u, v \in Versions : u < v /\ t[u] # 0 /\ t[v] # 0 => t[u] < t[v]

ASSUME VendorAssumption ==
  /\ Versions \subseteq Nat
  /\ LastCommit \in Nat
  /\ TicketsOf \in [Commits -> SUBSET Keys]
  /\ JiraKey \in [Keys -> Keys \cup {Missing}]
  /\ Missing \notin Keys
  /\ InitTags \in TagMaps /\ Ordered(InitTags)
  /\ Inserted \in BOOLEAN
  /\ MaxFailures \in Nat

VARIABLES
  tags,      \* GitHub: tags[v] is the commit v's tag names
  reported,  \* Sentry: the versions its issues and events mention
  db,        \* the committed tables
  txn,       \* txn[j]: what job j's open transaction has written
  pc,        \* where job j is
  listing,   \* listing[j]: the versions with a tag when j listed them
  todo,      \* todo[j]: the tag pairs, by their later version, still to copy
  known,     \* known[j]: the versions j takes to have a release row
  pending,   \* pending[j]: the versions of Sentry's answer still to note
  failures,  \* how many jobs have failed
  quiet,     \* history: jobs that began after the last vendor change
  settled    \* history: such a job committed and no vendor changed since

vars == <<tags, reported, db, txn, pc, listing, todo, known, pending,
          failures, quiet, settled>>
jobVars == <<listing, todo, known, pending>>
vendorVars == <<tags, reported>>

-----------------------------------------------------------------------------
(* Rows.                                                                   *)

Rows == [release  : [Versions -> {"none", "untagged", "tagged"}],
         contents : SUBSET (Versions \X Commits),
         commits  : SUBSET Commits,
         links    : SUBSET (Commits \X Keys),
         tickets  : [Keys -> {"none", "missing", "found"}]]

NoRows == [release  |-> [v \in Versions |-> "none"],
           contents |-> {}, commits |-> {}, links |-> {},
           tickets  |-> [k \in Keys |-> "none"]]

\* The tables base after upserting the rows w.
Upserted(base, w) ==
  [release  |-> [v \in Versions |->
                   IF w.release[v] # "none" THEN w.release[v] ELSE base.release[v]],
   contents |-> base.contents \cup w.contents,
   commits  |-> base.commits \cup w.commits,
   links    |-> base.links \cup w.links,
   tickets  |-> [k \in Keys |->
                   IF w.tickets[k] # "none" THEN w.tickets[k] ELSE base.tickets[k]]]

\* The row sets u and w have a primary key in common.
Clash(u, w) ==
  \/ \E v \in Versions : u.release[v] # "none" /\ w.release[v] # "none"
  \/ u.contents \cap w.contents # {}
  \/ u.commits \cap w.commits # {}
  \/ \E k \in Keys : u.tickets[k] # "none" /\ w.tickets[k] # "none"

\* Job j upserts w, once no other open transaction holds one of its rows.
upsert(j, w) ==
  /\ \A i \in Jobs \ {j} : ~Clash(w, txn[i])
  /\ txn' = [txn EXCEPT ![j] = Upserted(@, w)]

\* What a query of job j returns.
Visible(j) == Upserted(db, txn[j])

Goto(j, l) == pc' = [pc EXCEPT ![j] = l]

-----------------------------------------------------------------------------
Init ==
  /\ tags = InitTags
  /\ reported = {}
  /\ db = NoRows
  /\ txn = [j \in Jobs |-> NoRows]
  /\ pc = [j \in Jobs |-> "idle"]
  /\ listing = [j \in Jobs |-> {}]
  /\ todo = [j \in Jobs |-> {}]
  /\ known = [j \in Jobs |-> {}]
  /\ pending = [j \in Jobs |-> {}]
  /\ failures = 0
  /\ quiet = {}
  /\ settled = FALSE

\* list_tags, before the transaction's first statement.
ListTags(j) ==
  /\ pc[j] = "idle"
  /\ listing' = [listing EXCEPT ![j] = {v \in Versions : tags[v] # 0}]
  /\ quiet' = quiet \cup {j}
  /\ Goto(j, "listed")
  /\ UNCHANGED <<vendorVars, db, txn, todo, known, pending, failures, settled>>

\* The listed versions whose release rows job j has still to write, and the
\* one among them that is next.
Unwritten(j) == {v \in listing[j] : txn[j].release[v] = "none"}
NextRow(j) == {v \in Unwritten(j) : \A u \in Unwritten(j) : v <= u}

\* A bug: the rows in the order in which GitHub lists the tags.
UpsertReleasesUnsorted(j) ==
  /\ pc[j] = "listed"
  /\ \E v \in Unwritten(j) : upsert(j, [NoRows EXCEPT !.release[v] = "tagged"])
  /\ UNCHANGED <<vendorVars, db, pc, jobVars, failures, quiet, settled>>

\* The release rows of all listed tags, oldest version first.  It is one
\* INSERT, but PostgreSQL takes its rows one after the other, and a job that
\* waits for one holds those before it.
UpsertReleases(j) ==
  /\ pc[j] = "listed"
  /\ \E v \in NextRow(j) : upsert(j, [NoRows EXCEPT !.release[v] = "tagged"])
  /\ UNCHANGED <<vendorVars, db, pc, jobVars, failures, quiet, settled>>

\* The statement is over: every listed version but the oldest has a previous
\* tag to compare with.
PairTags(j) ==
  /\ pc[j] = "listed" /\ Unwritten(j) = {}
  /\ todo' = [todo EXCEPT ![j] = {v \in listing[j] : \E u \in listing[j] : u < v}]
  /\ Goto(j, "pairs")
  /\ UNCHANGED <<vendorVars, db, txn, listing, known, pending, failures, quiet, settled>>

\* A bug: comparing with the oldest listed tag.
OldestOf(l, v) == CHOOSE u \in l : \A x \in l : u <= x

\* The tag before v among the listed ones.
PreviousOf(l, v) == CHOOSE u \in l : u < v /\ \A x \in l : x < v => x <= u

\* compare_commits: the commits after base up to head.
compare_commits(base, head) == {c \in Commits : base < c /\ c <= head}

\* One pair of consecutive tags: its commits, their place in the release,
\* their files and their ticket references.  Its statements are one action, and
\* so is ingest_jira's of several rows: a job here holds the release rows of its
\* listing, and as tags only ever come, one of two listings is in the other, so
\* no two jobs that listed anything are here at once.
IngestPair(j) ==
  /\ pc[j] = "pairs"
  /\ \E v \in todo[j] :
       LET new == compare_commits(tags[PreviousOf(listing[j], v)], tags[v]) IN
       /\ \A u \in todo[j] : v <= u
       /\ upsert(j, [NoRows EXCEPT
            !.contents = {v} \X new,
            !.commits = new,
            !.links = {l \in new \X Keys : l[2] \in TicketsOf[l[1]]}])
       /\ todo' = [todo EXCEPT ![j] = @ \ {v}]
  /\ UNCHANGED <<vendorVars, db, pc, listing, known, pending, failures, quiet, settled>>

\* The ticket keys the job met, and the key each one's row is stored under.
Referenced(w) == UNION {TicketsOf[c] : c \in w.commits}
StoredKey(k) == IF JiraKey[k] = Missing THEN k ELSE JiraKey[k]

\* All tickets in one statement; two rows with one key make it fail, and the
\* job with it (Abort).
ingest_jira(j) ==
  LET refs == Referenced(txn[j]) IN
  /\ pc[j] = "pairs" /\ todo[j] = {}
  /\ \A k, l \in refs : StoredKey(k) = StoredKey(l) => k = l
  /\ upsert(j, [NoRows EXCEPT !.tickets =
       [k \in Keys |-> IF \E r \in refs : JiraKey[r] = k THEN "found"
                       ELSE IF k \in refs /\ JiraKey[k] = Missing THEN "missing"
                       ELSE "none"]])
  /\ Goto(j, "known")
  /\ UNCHANGED <<vendorVars, db, jobVars, failures, quiet, settled>>

\* A bug: taking the listed tags for the releases that exist.
LoadKnownFromListing(j) ==
  /\ pc[j] = "known"
  /\ known' = [known EXCEPT ![j] = listing[j]]
  /\ pending' = [pending EXCEPT ![j] = reported]
  /\ Goto(j, "sentry")
  /\ UNCHANGED <<vendorVars, db, txn, listing, todo, failures, quiet, settled>>

\* ingest_sentry reads the existing releases once, then Sentry's issues; the
\* reports that come in between are those of a Sentry asked a little earlier.
LoadKnown(j) ==
  /\ pc[j] = "known"
  /\ known' = [known EXCEPT ![j] = {v \in Versions : Visible(j).release[v] # "none"}]
  /\ pending' = [pending EXCEPT ![j] = reported]
  /\ Goto(j, "sentry")
  /\ UNCHANGED <<vendorVars, db, txn, listing, todo, failures, quiet, settled>>

\* note_release, for a version not known: a row without a tag, which also
\* replaces a tag written meanwhile.
NoteRelease(j) ==
  /\ pc[j] = "sentry"
  /\ \E v \in pending[j] \ known[j] :
       /\ upsert(j, [NoRows EXCEPT !.release[v] = "untagged"])
       /\ known' = [known EXCEPT ![j] = @ \cup {v}]
       /\ pending' = [pending EXCEPT ![j] = @ \ {v}]
  /\ UNCHANGED <<vendorVars, db, pc, listing, todo, failures, quiet, settled>>

\* The end of a job: its transaction is over and its memory gone.
Reset(j) ==
  /\ txn' = [txn EXCEPT ![j] = NoRows]
  /\ Goto(j, "idle")
  /\ listing' = [listing EXCEPT ![j] = {}]
  /\ todo' = [todo EXCEPT ![j] = {}]
  /\ known' = [known EXCEPT ![j] = {}]
  /\ pending' = [pending EXCEPT ![j] = {}]

\* A bug: the session ends without committing.
CommitNothing(j) ==
  /\ pc[j] = "sentry" /\ pending[j] \subseteq known[j]
  /\ db' = db
  /\ settled' = (settled \/ j \in quiet)
  /\ Reset(j)
  /\ UNCHANGED <<vendorVars, failures, quiet>>

\* session.begin() exits normally.
Commit(j) ==
  /\ pc[j] = "sentry" /\ pending[j] \subseteq known[j]
  /\ db' = Visible(j)
  /\ settled' = (settled \/ j \in quiet)
  /\ Reset(j)
  /\ UNCHANGED <<vendorVars, failures, quiet>>

\* A bug: a failing job commits what it has.
AbortKeepingRows(j) ==
  /\ pc[j] # "idle" /\ failures < MaxFailures
  /\ failures' = failures + 1
  /\ db' = Visible(j)
  /\ Reset(j)
  /\ UNCHANGED <<vendorVars, quiet, settled>>

\* A vendor call or a statement raises, or the task is killed: rollback.
Abort(j) ==
  /\ pc[j] # "idle" /\ failures < MaxFailures
  /\ failures' = failures + 1
  /\ Reset(j)
  /\ UNCHANGED <<vendorVars, db, quiet, settled>>

\* Somebody tags a version, in keeping with the order of the others.
CreateTag ==
  /\ \E v \in Versions, c \in Commits :
       /\ tags[v] = 0
       /\ tags' = [tags EXCEPT ![v] = c]
       /\ Ordered(tags')
       /\ Inserted \/ \A u \in Versions : tags[u] # 0 => u < v
  /\ quiet' = {} /\ settled' = FALSE
  /\ UNCHANGED <<reported, db, txn, pc, jobVars, failures>>

\* A build reports its first event to Sentry, tagged or not.
Report ==
  /\ \E v \in Versions \ reported : reported' = reported \cup {v}
  /\ quiet' = {} /\ settled' = FALSE
  /\ UNCHANGED <<tags, db, txn, pc, jobVars, failures>>

JobStep(j) ==
  \/ ListTags(j) \/ UpsertReleases(j) \/ PairTags(j) \/ IngestPair(j)
  \/ ingest_jira(j) \/ LoadKnown(j) \/ NoteRelease(j) \/ Commit(j)

Next ==
  \/ \E j \in Jobs : JobStep(j) \/ Abort(j)
  \/ CreateTag
  \/ Report

Spec == Init /\ [][Next]_vars

\* The schedule starts a job every six hours, and one that does not fail
\* goes on.  Vendors fail only finitely often (MaxFailures).
Fairness == \A j \in Jobs : WF_vars(JobStep(j))

FairSpec == Spec /\ Fairness

-----------------------------------------------------------------------------
Labels == {"idle", "listed", "pairs", "known", "sentry"}

\* Every table, transaction and job memory holds values of its kind.
TypeOK ==
  /\ tags \in TagMaps /\ Ordered(tags)
  /\ reported \subseteq Versions
  /\ db \in Rows
  /\ txn \in [Jobs -> Rows]
  /\ pc \in [Jobs -> Labels]
  /\ listing \in [Jobs -> SUBSET Versions]
  /\ todo \in [Jobs -> SUBSET Versions]
  /\ known \in [Jobs -> SUBSET Versions]
  /\ pending \in [Jobs -> SUBSET Versions]
  /\ failures \in Nat
  /\ quiet \subseteq Jobs
  /\ settled \in BOOLEAN

\* Rows that refer to rows: a release's contents to its release row and its
\* commits, a commit to its ticket references, and those to a ticket row.
Closed(w) ==
  /\ \A x \in w.contents : w.release[x[1]] # "none" /\ x[2] \in w.commits
  /\ \A c \in w.commits, k \in Keys :
       k \in TicketsOf[c] => <<c, k>> \in w.links /\ w.tickets[StoredKey(k)] # "none"

\* The schema has no foreign keys; still, whichever jobs overlapped or failed
\* half-way, the committed tables never refer to a row that is not there.
Whole == Closed(db)

\* Once every tag that exists has been ingested, a tagged version's contents
\* are the commits since the previous tag (README, "commits since the
\* previous tag"; ingest_git, "commits between consecutive tags").
ContentsMatchTags ==
  LET tagged == {v \in Versions : tags[v] # 0} IN
  (\A v \in tagged : db.release[v] = "tagged") =>
    \A v \in tagged : (\E u \in tagged : u < v) =>
      {x \in db.contents : x[1] = v} =
        {v} \X {c \in Commits : c <= tags[v] /\ \A u \in tagged : u < v => tags[u] < c}

\* models.py Release.tag: None means "seen in Sentry, no git tag".  A version
\* stored with its tag is never turned back into one without, whatever job
\* commits after the one that stored it.
TagNotErased ==
  [][\A v \in Versions : db.release[v] = "tagged" => db'.release[v] = "tagged"]_vars

\* ingest.py: "a re-run yields identical rows".  After a job that saw only the
\* current state of the vendors, no job changes a row until a vendor changes:
\* neither a re-run nor a job that began long before and commits late.
RerunIdentical == [][settled /\ settled' => db' = db]_vars

\* May job i have to wait for a release row that job j has written: the next
\* of its listing, or any that it has yet to note?
MayWait(i, j) ==
  \/ pc[i] = "listed" /\ \E v \in NextRow(i) : txn[j].release[v] # "none"
  \/ pc[i] = "sentry" /\ \E v \in pending[i] \ known[i] : txn[j].release[v] # "none"

\* Jobs write releases as they list tags and note others in whatever order
\* Sentry lists their issues, and yet no two of them come to wait for each
\* other's rows, which PostgreSQL would end by aborting one.
NoStandoff == \A i, j \in Jobs : i # j => ~(MayWait(i, j) /\ MayWait(j, i))

\* A tag that exists is in the database in the end.
TagsArrive == \A v \in Versions : tags[v] # 0 ~> db.release[v] = "tagged"
=============================================================================
