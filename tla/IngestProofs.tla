----------------------------- MODULE IngestProofs -----------------------------
(***************************************************************************)
(* What modules Ingest and Context guarantee for any versions, commits,    *)
(* tickets and jobs, however the jobs overlap and fail and whatever they   *)
(* commit between the five statements of a request for an incident.        *)
(***************************************************************************)
EXTENDS Context, WellFoundedInduction, TLAPS

Writing == {"pairs", "known", "sentry"}

(* What a transaction has written refers only to what it has written too,  *)
(* except that the tickets come last.                                      *)
Sound(j) ==
  /\ \A x \in txn[j].contents : txn[j].release[x[1]] # "none" /\ x[2] \in txn[j].commits
  /\ \A c \in txn[j].commits, k \in Keys : k \in TicketsOf[c] => <<c, k>> \in txn[j].links
  /\ pc[j] \in {"known", "sentry"} => Closed(txn[j])

(* A job that is past its first statement holds the release row of every   *)
(* tag it listed; until it notes a release, its rows have tags.            *)
Holds(j) ==
  /\ pc[j] = "idle" => txn[j] = NoRows
  /\ pc[j] # "sentry" => \A v \in Versions : txn[j].release[v] # "untagged"
  /\ pc[j] \in {"idle", "listed"} => todo[j] = {}
  /\ todo[j] \subseteq listing[j]
  /\ pc[j] \in Writing => \A v \in listing[j] : txn[j].release[v] = "tagged"
  /\ pc[j] = "sentry" => listing[j] \subseteq known[j]

IInv ==
  /\ TypeOK
  /\ Whole
  /\ \A j \in Jobs : Sound(j) /\ Holds(j)

-----------------------------------------------------------------------------
(* Lemmas about rows.                                                      *)

LEMMA NoRowsType == NoRows \in Rows /\ Closed(NoRows)
  BY DEF NoRows, Rows, Closed

\* Upserting keeps the type and never removes or unsets a row.
LEMMA UpsertedType ==
  ASSUME NEW u \in Rows, NEW w \in Rows
  PROVE  /\ Upserted(u, w) \in Rows
         /\ \A v \in Versions :
              /\ Upserted(u, w).release[v] =
                   IF w.release[v] # "none" THEN w.release[v] ELSE u.release[v]
              /\ Upserted(u, w).release[v] = "none" <=>
                   u.release[v] = "none" /\ w.release[v] = "none"
         /\ \A k \in Keys : Upserted(u, w).tickets[k] = "none" <=>
              u.tickets[k] = "none" /\ w.tickets[k] = "none"
         /\ Upserted(u, w).contents = u.contents \cup w.contents
         /\ Upserted(u, w).commits = u.commits \cup w.commits
         /\ Upserted(u, w).links = u.links \cup w.links
  BY DEF Upserted, Rows

LEMMA StoredKeyType ==
  ASSUME NEW k \in Keys
  PROVE  StoredKey(k) \in Keys
  BY VendorAssumption DEF StoredKey

\* Two sets of rows without dangling references make one.
LEMMA UpsertedClosed ==
  ASSUME NEW u \in Rows, NEW w \in Rows, Closed(u), Closed(w)
  PROVE  Closed(Upserted(u, w))
<1> DEFINE b == Upserted(u, w)
<1>1. ASSUME NEW x \in b.contents PROVE b.release[x[1]] # "none" /\ x[2] \in b.commits
  <2>1. x \in u.contents \/ x \in w.contents
    BY UpsertedType
  <2>2. x[1] \in Versions
    BY <2>1 DEF Rows
  <2> QED
    BY <2>1, <2>2, UpsertedType DEF Closed
<1>2. ASSUME NEW c \in b.commits, NEW k \in Keys, k \in TicketsOf[c]
      PROVE  <<c, k>> \in b.links /\ b.tickets[StoredKey(k)] # "none"
  <2>1. c \in u.commits \/ c \in w.commits
    BY UpsertedType
  <2> QED
    BY <1>2, <2>1, UpsertedType, StoredKeyType DEF Closed
<1> QED
  BY <1>1, <1>2 DEF Closed

-----------------------------------------------------------------------------
(* The invariant.                                                          *)

LEMMA IInit == Init => IInv
<1> SUFFICES ASSUME Init PROVE IInv
  OBVIOUS
<1>1. TypeOK
  BY NoRowsType, VendorAssumption DEF Init, TypeOK, Labels
<1>2. Whole
  BY NoRowsType DEF Init, Whole
<1>3. \A j \in Jobs : Sound(j)
  BY NoRowsType DEF Init, Sound, Closed
<1>4. \A j \in Jobs : Holds(j)
  BY DEF Init, Holds, NoRows, Writing
<1> QED
  BY <1>1, <1>2, <1>3, <1>4 DEF IInv

\* A step of job j that leaves the tables and the other jobs alone.
LEMMA OwnStep ==
  ASSUME IInv, NEW j \in Jobs, TypeOK', UNCHANGED db,
         \A i \in Jobs \ {j} : /\ txn'[i] = txn[i] /\ pc'[i] = pc[i]
                               /\ listing'[i] = listing[i] /\ todo'[i] = todo[i]
                               /\ known'[i] = known[i],
         Sound(j)', Holds(j)'
  PROVE  IInv'
<1>1. Whole'
  BY DEF IInv, Whole, Closed
<1>2. ASSUME NEW i \in Jobs PROVE Sound(i)' /\ Holds(i)'
  <2>1. CASE i = j
    BY <2>1
  <2>2. CASE i # j
    BY <2>2 DEF IInv, Sound, Holds, Closed
  <2> QED
    BY <2>1, <2>2
<1> QED
  BY <1>1, <1>2 DEF IInv

\* Ending a job, with the tables as they were or with its rows added.
LEMMA EndStep ==
  ASSUME IInv, NEW j \in Jobs, Reset(j), UNCHANGED <<tags, reported>>,
         failures' \in Nat, quiet' \subseteq Jobs, settled' \in BOOLEAN,
         db' \in Rows, Closed(db')
  PROVE  IInv'
<1> USE DEF IInv
<1>1. TypeOK'
  BY NoRowsType DEF Reset, Goto, TypeOK, Labels
<1>2. Whole'
  BY DEF Whole, Closed
<1>3. ASSUME NEW i \in Jobs PROVE Sound(i)' /\ Holds(i)'
  <2>1. CASE i = j
    <3>1. txn'[j] = NoRows /\ pc'[j] = "idle" /\ listing'[j] = {} /\ todo'[j] = {}
      BY DEF Reset, Goto, TypeOK
    <3> QED
      BY <2>1, <3>1 DEF NoRows, Sound, Holds, Writing
  <2>2. CASE i # j
    <3>1. /\ txn'[i] = txn[i] /\ pc'[i] = pc[i] /\ listing'[i] = listing[i]
          /\ todo'[i] = todo[i] /\ known'[i] = known[i]
      BY <2>2 DEF Reset, Goto, TypeOK
    <3> QED
      BY <3>1 DEF Sound, Holds, Closed
  <2> QED
    BY <2>1, <2>2
<1> QED
  BY <1>1, <1>2, <1>3

\* After upsert(j, w) the transaction is what it was with w on top.
LEMMA UpsertStep ==
  ASSUME TypeOK, NEW j \in Jobs, NEW w \in Rows, upsert(j, w)
  PROVE  /\ txn[j] \in Rows
         /\ txn' \in [Jobs -> Rows]
         /\ txn'[j] = Upserted(txn[j], w)
         /\ \A i \in Jobs \ {j} : txn'[i] = txn[i]
         /\ \A i \in Jobs \ {j} : ~Clash(w, txn[i])
  BY UpsertedType DEF TypeOK, upsert

LEMMA IStep == IInv /\ [Next]_vars => IInv'
<1> SUFFICES ASSUME IInv, [Next]_vars PROVE IInv'
  OBVIOUS
<1> USE DEF IInv
<1>1. ASSUME NEW j \in Jobs, ListTags(j) PROVE IInv'
  <2>1. TypeOK'
    BY <1>1 DEF ListTags, Goto, vendorVars, TypeOK, Labels
  <2>2. Sound(j)' /\ Holds(j)'
    BY <1>1 DEF ListTags, Goto, TypeOK, Sound, Holds, Writing
  <2> QED
    BY <1>1, <2>1, <2>2, OwnStep DEF ListTags, Goto, TypeOK
<1>2. ASSUME NEW j \in Jobs, UpsertReleases(j) PROVE IInv'
  <2>1. PICK v \in NextRow(j) : upsert(j, [NoRows EXCEPT !.release[v] = "tagged"])
    BY <1>2 DEF UpsertReleases
  <2>2. v \in Versions /\ v \in listing[j]
    BY DEF NextRow, Unwritten, TypeOK
  <2> DEFINE w == [NoRows EXCEPT !.release[v] = "tagged"]
  <2>3. /\ w \in Rows /\ w.contents = {} /\ w.commits = {} /\ w.links = {}
        /\ \A x \in Versions : w.release[x] = IF x = v THEN "tagged" ELSE "none"
    BY <2>2 DEF NoRows, Rows
  <2>4. upsert(j, w)
    BY <2>1
  <2> HIDE DEF w
  <2>5. /\ pc[j] = "listed" /\ UNCHANGED <<tags, reported, db, pc, listing, todo, known, pending,
                                          failures, quiet, settled>>
    BY <1>2 DEF UpsertReleases, vendorVars, jobVars
  <2>6. TypeOK'
    BY <2>3, <2>4, <2>5, UpsertStep DEF TypeOK
  <2>7. Sound(j)'
    <3>1. \A x \in txn[j].contents : x[1] \in Versions
      BY DEF TypeOK, Rows
    <3>2. /\ \A x : x \in txn'[j].contents <=> x \in txn[j].contents
          /\ \A x : x \in txn'[j].commits <=> x \in txn[j].commits
          /\ \A x : x \in txn'[j].links <=> x \in txn[j].links
      BY <2>3, <2>4, UpsertStep, UpsertedType
    <3>3. \A x \in Versions : txn[j].release[x] # "none" => txn'[j].release[x] # "none"
      BY <2>3, <2>4, UpsertStep, UpsertedType
    <3> QED
      BY <2>5, <3>1, <3>2, <3>3 DEF Sound
  <2>8. Holds(j)'
    BY <2>3, <2>4, <2>5, UpsertStep, UpsertedType DEF Holds, Writing
  <2> QED
    BY <2>3, <2>4, <2>5, <2>6, <2>7, <2>8, UpsertStep, OwnStep
<1>10. ASSUME NEW j \in Jobs, PairTags(j) PROVE IInv'
  <2>1. TypeOK'
    BY <1>10 DEF PairTags, Goto, vendorVars, TypeOK, Labels
  <2>2. /\ pc[j] = "listed" /\ pc'[j] = "pairs" /\ todo'[j] \subseteq listing[j]
        /\ UNCHANGED <<txn, listing>>
    BY <1>10 DEF PairTags, Goto, TypeOK
  <2>3. \A v \in listing[j] : v \in Versions /\ txn[j].release[v] # "none"
    BY <1>10 DEF PairTags, Unwritten, TypeOK
  <2>4. \A v \in listing[j] : txn[j].release[v] = "tagged"
    <3>1. \A v \in Versions : txn[j].release[v] \in {"none", "untagged", "tagged"}
      BY DEF TypeOK, Rows
    <3>2. \A v \in Versions : txn[j].release[v] # "untagged"
      BY <2>2 DEF Holds
    <3> QED
      BY <2>3, <3>1, <3>2
  <2>5. Sound(j)' /\ Holds(j)'
    BY <2>2, <2>4 DEF Sound, Holds, Writing
  <2> QED
    BY <1>10, <2>1, <2>5, OwnStep DEF PairTags, Goto, TypeOK
<1>3. ASSUME NEW j \in Jobs, IngestPair(j) PROVE IInv'
  <2>1. PICK v \in todo[j] :
          LET new == compare_commits(tags[PreviousOf(listing[j], v)], tags[v]) IN
          /\ upsert(j, [NoRows EXCEPT
               !.contents = {v} \X new,
               !.commits = new,
               !.links = {l \in new \X Keys : l[2] \in TicketsOf[l[1]]}])
          /\ todo' = [todo EXCEPT ![j] = @ \ {v}]
    BY <1>3 DEF IngestPair
  <2> DEFINE new == compare_commits(tags[PreviousOf(listing[j], v)], tags[v])
             w == [NoRows EXCEPT
                     !.contents = {v} \X new,
                     !.commits = new,
                     !.links = {l \in new \X Keys : l[2] \in TicketsOf[l[1]]}]
  <2>2. new \subseteq Commits /\ v \in Versions /\ v \in listing[j]
    BY DEF compare_commits, TypeOK, Holds
  <2> HIDE DEF new
  <2>3. /\ w \in Rows /\ w.contents = {v} \X new /\ w.commits = new
        /\ w.links = {l \in new \X Keys : l[2] \in TicketsOf[l[1]]}
        /\ \A x \in Versions : w.release[x] = "none"
    BY <2>2 DEF NoRows, Rows
  <2>4. upsert(j, w)
    BY <2>1 DEF new
  <2> HIDE DEF w
  <2>5. TypeOK'
    BY <1>3, <2>1, <2>3, <2>4, UpsertStep DEF IngestPair, vendorVars, TypeOK
  <2>6. Holds(j)'
    <3>1. \A x \in Versions : txn'[j].release[x] = txn[j].release[x]
      BY <2>3, <2>4, UpsertStep, UpsertedType
    <3>2. /\ pc[j] = "pairs" /\ UNCHANGED <<pc, listing, known>>
          /\ todo'[j] = todo[j] \ {v} /\ listing[j] \subseteq Versions
      BY <1>3, <2>1 DEF IngestPair, TypeOK
    <3> QED
      BY <3>1, <3>2 DEF Holds, Writing
  <2>7. txn[j].release[v] = "tagged"
    BY <1>3, <2>2 DEF IngestPair, Holds, Writing
  <2>8. ASSUME NEW x \in txn'[j].contents
        PROVE  txn'[j].release[x[1]] # "none" /\ x[2] \in txn'[j].commits
    <3>1. x \in txn[j].contents \/ x \in {v} \X new
      BY <2>3, <2>4, UpsertStep, UpsertedType
    <3>2. x[1] \in Versions
      BY <2>2, <3>1 DEF TypeOK, Rows
    <3> QED
      BY <2>3, <2>4, <2>7, <3>1, <3>2, UpsertStep, UpsertedType DEF Sound
  <2>9. ASSUME NEW c \in txn'[j].commits, NEW k \in Keys, k \in TicketsOf[c]
        PROVE  <<c, k>> \in txn'[j].links
    BY <2>3, <2>4, <2>9, UpsertStep, UpsertedType DEF Sound
  <2>10. Sound(j)'
    BY <1>3, <2>8, <2>9 DEF IngestPair, Sound
  <2> QED
    BY <1>3, <2>1, <2>3, <2>4, <2>5, <2>6, <2>10, UpsertStep, OwnStep
    DEF IngestPair, TypeOK
<1>4. ASSUME NEW j \in Jobs, ingest_jira(j) PROVE IInv'
  <2> DEFINE refs == Referenced(txn[j])
             rows == [k \in Keys |-> IF \E r \in refs : JiraKey[r] = k THEN "found"
                                     ELSE IF k \in refs /\ JiraKey[k] = Missing THEN "missing"
                                     ELSE "none"]
             w == [NoRows EXCEPT !.tickets = rows]
  <2>1. refs \subseteq Keys
    BY VendorAssumption DEF Referenced, TypeOK, Rows
  <2>2. \A k \in refs : StoredKey(k) \in Keys /\ rows[StoredKey(k)] # "none"
    BY <2>1, StoredKeyType, VendorAssumption DEF StoredKey
  <2>3. rows \in [Keys -> {"none", "missing", "found"}]
    OBVIOUS
  <2> HIDE DEF rows
  <2>4. /\ w \in Rows /\ w.contents = {} /\ w.commits = {} /\ w.links = {}
        /\ w.tickets = rows /\ \A x \in Versions : w.release[x] = "none"
    BY <2>3 DEF NoRows, Rows
  <2>5. upsert(j, w)
    BY <1>4 DEF ingest_jira, rows
  <2> HIDE DEF w
  <2>6. TypeOK'
    BY <1>4, <2>4, <2>5, UpsertStep DEF ingest_jira, Goto, vendorVars, jobVars, TypeOK, Labels
  <2>7. Holds(j)'
    BY <1>4, <2>4, <2>5, UpsertStep, UpsertedType
    DEF ingest_jira, Goto, jobVars, TypeOK, Holds, Writing
  <2>8. ASSUME NEW x \in txn'[j].contents
        PROVE  txn'[j].release[x[1]] # "none" /\ x[2] \in txn'[j].commits
    <3>1. x \in txn[j].contents
      BY <2>4, <2>5, UpsertStep, UpsertedType
    <3>2. x[1] \in Versions
      BY <3>1 DEF TypeOK, Rows
    <3> QED
      BY <2>4, <2>5, <3>1, <3>2, UpsertStep, UpsertedType DEF Sound
  <2>9. ASSUME NEW c \in txn'[j].commits, NEW k \in Keys, k \in TicketsOf[c]
        PROVE  <<c, k>> \in txn'[j].links /\ txn'[j].tickets[StoredKey(k)] # "none"
    <3>1. c \in txn[j].commits
      BY <2>4, <2>5, UpsertStep, UpsertedType
    <3>2. k \in refs
      BY <2>9, <3>1 DEF Referenced
    <3> QED
      BY <2>2, <2>4, <2>5, <2>9, <3>1, <3>2, UpsertStep, UpsertedType DEF Sound
  <2>10. Sound(j)'
    BY <2>8, <2>9 DEF Sound, Closed
  <2> QED
    BY <1>4, <2>4, <2>5, <2>6, <2>7, <2>10, UpsertStep, OwnStep
    DEF ingest_jira, Goto, jobVars, TypeOK
<1>5. ASSUME NEW j \in Jobs, LoadKnown(j) PROVE IInv'
  <2>1. TypeOK'
    BY <1>5 DEF LoadKnown, Goto, vendorVars, TypeOK, Labels
  <2>2. Sound(j)'
    BY <1>5 DEF LoadKnown, Goto, TypeOK, Sound, Closed
  <2>3. \A v \in listing[j] : v \in Versions /\ Visible(j).release[v] # "none"
    BY <1>5, UpsertedType DEF LoadKnown, TypeOK, Visible, Holds, Writing
  <2>4. Holds(j)'
    BY <1>5, <2>3 DEF LoadKnown, Goto, TypeOK, Holds, Writing
  <2> QED
    BY <1>5, <2>1, <2>2, <2>4, OwnStep DEF LoadKnown, Goto, TypeOK
<1>6. ASSUME NEW j \in Jobs, NoteRelease(j) PROVE IInv'
  <2>1. PICK v \in pending[j] \ known[j] :
          /\ upsert(j, [NoRows EXCEPT !.release[v] = "untagged"])
          /\ known' = [known EXCEPT ![j] = @ \cup {v}]
          /\ pending' = [pending EXCEPT ![j] = @ \ {v}]
    BY <1>6 DEF NoteRelease
  <2> DEFINE w == [NoRows EXCEPT !.release[v] = "untagged"]
  <2>2. /\ v \in Versions /\ w \in Rows
        /\ w.contents = {} /\ w.commits = {} /\ w.links = {}
        /\ \A k \in Keys : w.tickets[k] = "none"
        /\ \A x \in Versions : w.release[x] = IF x = v THEN "untagged" ELSE "none"
    BY DEF NoRows, Rows, TypeOK
  <2>3. upsert(j, w)
    BY <2>1
  <2> HIDE DEF w
  <2>4. TypeOK'
    BY <1>6, <2>1, <2>2, <2>3, UpsertStep DEF NoteRelease, vendorVars, TypeOK
  <2>5. v \notin listing[j]
    BY <1>6 DEF NoteRelease, Holds
  <2>6. Holds(j)'
    BY <1>6, <2>1, <2>2, <2>3, <2>5, UpsertStep, UpsertedType
    DEF NoteRelease, TypeOK, Holds
  <2>7. Closed(w)
    BY <2>2 DEF Closed
  <2>8. Closed(txn[j])
    BY <1>6 DEF NoteRelease, Sound
  <2>9. Closed(txn'[j])
    BY <2>2, <2>3, <2>7, <2>8, UpsertStep, UpsertedClosed
  <2>10. Sound(j)'
    BY <2>9 DEF Sound, Closed
  <2> QED
    BY <1>6, <2>1, <2>2, <2>3, <2>4, <2>6, <2>10, UpsertStep, OwnStep
    DEF NoteRelease, TypeOK
<1>7. ASSUME NEW j \in Jobs, Commit(j) PROVE IInv'
  <2>1. Closed(txn[j]) /\ Closed(db)
    BY <1>7 DEF Commit, Sound, Whole
  <2>2. db' \in Rows /\ Closed(db')
    BY <1>7, <2>1, UpsertedType, UpsertedClosed DEF Commit, Visible, TypeOK
  <2> QED
    BY <1>7, <2>2, EndStep DEF Commit, vendorVars, TypeOK
<1>8. ASSUME NEW j \in Jobs, Abort(j) PROVE IInv'
  BY <1>8, EndStep DEF Abort, vendorVars, TypeOK, Whole
<1>9. CASE CreateTag \/ Report \/ UNCHANGED vars
  <2>1. TypeOK'
    <3>1. CASE CreateTag
      <4>1. tags' \in TagMaps
        BY <3>1 DEF CreateTag, TypeOK, TagMaps, Commits
      <4> QED
        BY <3>1, <4>1 DEF CreateTag, jobVars, TypeOK
    <3>2. CASE Report
      BY <3>2 DEF Report, jobVars, TypeOK, Ordered
    <3>3. CASE UNCHANGED vars
      BY <3>3 DEF vars, jobVars, TypeOK, Ordered
    <3> QED
      BY <1>9, <3>1, <3>2, <3>3
  <2>2. UNCHANGED <<db, txn, pc, listing, todo, known>>
    BY <1>9 DEF CreateTag, Report, vars, jobVars
  <2> QED
    BY <2>1, <2>2 DEF Whole, Sound, Holds, Closed
<1> QED
  BY <1>1, <1>2, <1>3, <1>4, <1>5, <1>6, <1>7, <1>8, <1>9, <1>10 DEF Next, JobStep

LEMMA Invariance == Spec => []IInv
  BY IInit, IStep, PTL DEF Spec

\* Type correctness of the tables, the transactions and the jobs.
THEOREM TypeCorrect == Spec => []TypeOK
  BY Invariance, PTL DEF IInv

\* Whichever jobs overlapped or failed, the committed tables never refer to a
\* row that is not there.
THEOREM TablesAreWhole == Spec => []Whole
  BY Invariance, PTL DEF IInv

-----------------------------------------------------------------------------
(* A release row is held by one open transaction at a time.                *)

Exclusive ==
  \A i, j \in Jobs, v \in Versions :
    txn[i].release[v] # "none" /\ txn[j].release[v] # "none" => i = j

LEMMA ExclusiveStep ==
  ASSUME IInv, Exclusive, [Next]_vars
  PROVE  Exclusive'
<1>1. ASSUME NEW j \in Jobs, NEW w, upsert(j, w) PROVE Exclusive'
  <2>1. /\ txn'[j] = Upserted(txn[j], w)
        /\ \A i \in Jobs \ {j} : txn'[i] = txn[i] /\ ~Clash(w, txn[i])
    BY <1>1 DEF upsert, IInv, TypeOK
  <2>2. \A v \in Versions : txn'[j].release[v] =
          IF w.release[v] # "none" THEN w.release[v] ELSE txn[j].release[v]
    BY <2>1 DEF Upserted
  <2>3. \A i \in Jobs \ {j}, v \in Versions :
          ~(w.release[v] # "none" /\ txn[i].release[v] # "none")
    BY <2>1 DEF Clash
  <2> QED
    BY <2>1, <2>2, <2>3 DEF Exclusive
<1>2. ASSUME NEW j \in Jobs, Reset(j) PROVE Exclusive'
  <2>1. txn'[j] = NoRows /\ \A i \in Jobs \ {j} : txn'[i] = txn[i]
    BY <1>2 DEF Reset, IInv, TypeOK
  <2> QED
    BY <2>1 DEF Exclusive, NoRows
<1>3. CASE UNCHANGED txn
  BY <1>3 DEF Exclusive
<1>4. ASSUME NEW j \in Jobs, IngestPair(j) PROVE \E w : upsert(j, w)
  BY <1>4 DEF IngestPair
<1>5. ASSUME NEW j \in Jobs, ingest_jira(j) PROVE \E w : upsert(j, w)
  BY <1>5 DEF ingest_jira
<1>6. ASSUME NEW j \in Jobs, UpsertReleases(j) \/ NoteRelease(j) PROVE \E w : upsert(j, w)
  BY <1>6 DEF UpsertReleases, NoteRelease
<1>7. ASSUME NEW j \in Jobs, Commit(j) \/ Abort(j) PROVE Reset(j)
  BY <1>7 DEF Commit, Abort
<1> QED
  BY <1>1, <1>2, <1>3, <1>4, <1>5, <1>6, <1>7
  DEF Next, JobStep, ListTags, PairTags, LoadKnown, CreateTag, Report, vars

-----------------------------------------------------------------------------
(* A tag that existed before any job ran makes jobs wait for each other:   *)
(* each lists it and holds its release row from the end of its first       *)
(* statement on, so what a job reads in LoadKnown stays true until it      *)
(* commits.                                                                *)

\* What the release rows that job j saw and wrote say of the tables.
Noting(j) ==
  pc[j] = "sentry" => \A v \in Versions :
    /\ v \notin known[j] => db.release[v] = "none"
    /\ txn[j].release[v] = "untagged" => db.release[v] # "tagged"

Serial(t) ==
  /\ tags[t] # 0
  /\ \A j \in Jobs : pc[j] # "idle" => t \in listing[j]
  /\ Exclusive
  /\ \A i, j \in Jobs : pc[i] \in Writing /\ pc[j] \in Writing => i = j
  /\ \A j \in Jobs : Noting(j)

LEMMA SerialInit ==
  ASSUME NEW t \in Versions, InitTags[t] # 0, Init
  PROVE  Serial(t)
BY DEF Init, Serial, Exclusive, Noting, Writing, NoRows

\* A job that moves on without writing or reading release rows.
LEMMA SerialOwnStep ==
  ASSUME NEW t \in Versions, IInv, Serial(t), NEW j \in Jobs,
         UNCHANGED <<db, tags, listing, known>>, Exclusive',
         \A i \in Jobs \ {j} : txn'[i] = txn[i] /\ pc'[i] = pc[i],
         pc[j] # "idle", pc'[j] # "sentry", pc'[j] \in Writing => pc[j] \in Writing
  PROVE  Serial(t)'
BY DEF Serial, Noting, Writing

\* The end of a job: the others are not writing unless this one was not.
LEMMA SerialEndStep ==
  ASSUME NEW t \in Versions, IInv, Serial(t), NEW j \in Jobs, Reset(j),
         UNCHANGED tags, UNCHANGED db \/ pc[j] = "sentry", Exclusive'
  PROVE  Serial(t)'
<1>1. /\ txn'[j] = NoRows /\ pc'[j] = "idle"
      /\ \A i \in Jobs \ {j} : /\ txn'[i] = txn[i] /\ pc'[i] = pc[i]
                                /\ listing'[i] = listing[i] /\ known'[i] = known[i]
  BY DEF Reset, Goto, IInv, TypeOK
<1>2. ASSUME NEW i \in Jobs PROVE Noting(i)'
  <2>1. CASE i = j
    BY <1>1, <2>1 DEF Noting, Writing, NoRows
  <2>2. CASE i # j
    BY <1>1, <2>2 DEF Serial, Noting, Writing
  <2> QED
    BY <2>1, <2>2
<1> QED
  BY <1>1, <1>2 DEF Serial, Writing

LEMMA SerialStep ==
  ASSUME NEW t \in Versions, IInv, Serial(t), [Next]_vars
  PROVE  Serial(t)'
<1>11. Exclusive'
  BY ExclusiveStep DEF Serial
<1>1. ASSUME NEW j \in Jobs, ListTags(j) PROVE Serial(t)'
  <2>1. /\ t \in listing'[j] /\ pc[j] = "idle" /\ pc'[j] = "listed"
        /\ \A i \in Jobs \ {j} : pc'[i] = pc[i] /\ listing'[i] = listing[i]
        /\ UNCHANGED <<tags, db, txn, known>>
    BY <1>1 DEF ListTags, Goto, vendorVars, IInv, TypeOK, Serial
  <2> QED
    BY <1>11, <2>1 DEF Serial, Noting, Writing
<1>2. ASSUME NEW j \in Jobs, UpsertReleases(j) PROVE Serial(t)'
  <2>1. PICK v \in NextRow(j) : upsert(j, [NoRows EXCEPT !.release[v] = "tagged"])
    BY <1>2 DEF UpsertReleases
  <2>2. \A i \in Jobs \ {j} : txn'[i] = txn[i]
    BY <2>1 DEF upsert, IInv, TypeOK
  <2>3. pc[j] = "listed" /\ UNCHANGED <<tags, db, pc, listing, known>>
    BY <1>2 DEF UpsertReleases, vendorVars, jobVars
  <2> QED
    BY <1>11, <2>2, <2>3, SerialOwnStep DEF Writing
<1>10. ASSUME NEW j \in Jobs, PairTags(j) PROVE Serial(t)'
  <2>1. /\ pc[j] = "listed" /\ pc'[j] = "pairs"
        /\ \A i \in Jobs \ {j} : pc'[i] = pc[i]
        /\ UNCHANGED <<tags, db, txn, listing, known>>
    BY <1>10 DEF PairTags, Goto, vendorVars, IInv, TypeOK
  <2>2. txn[j].release[t] # "none"
    BY <1>10, <2>1 DEF PairTags, Unwritten, Serial
  <2>3. ASSUME NEW i \in Jobs \ {j} PROVE pc[i] \notin Writing
    BY <2>2, <2>3 DEF IInv, Holds, Serial, Exclusive, Writing
  <2> QED
    BY <1>11, <2>1, <2>3 DEF Serial, Noting, Writing
<1>3. ASSUME NEW j \in Jobs, IngestPair(j) PROVE Serial(t)'
  <2>1. PICK v \in todo[j] :
          LET new == compare_commits(tags[PreviousOf(listing[j], v)], tags[v]) IN
          upsert(j, [NoRows EXCEPT
            !.contents = {v} \X new,
            !.commits = new,
            !.links = {l \in new \X Keys : l[2] \in TicketsOf[l[1]]}])
    BY <1>3 DEF IngestPair
  <2> DEFINE new == compare_commits(tags[PreviousOf(listing[j], v)], tags[v])
             w == [NoRows EXCEPT
                     !.contents = {v} \X new,
                     !.commits = new,
                     !.links = {l \in new \X Keys : l[2] \in TicketsOf[l[1]]}]
  <2>2. new \subseteq Commits /\ v \in Versions
    BY DEF compare_commits, IInv, TypeOK
  <2> HIDE DEF new
  <2>3. w \in Rows /\ \A x \in Versions : w.release[x] = "none"
    BY <2>2 DEF NoRows, Rows
  <2>4. upsert(j, w)
    BY <2>1 DEF new
  <2> HIDE DEF w
  <2>5. \A i \in Jobs \ {j} : txn'[i] = txn[i]
    BY <2>3, <2>4, UpsertStep DEF IInv
  <2> QED
    BY <1>3, <1>11, <2>5, SerialOwnStep DEF IngestPair, vendorVars, Writing
<1>4. ASSUME NEW j \in Jobs, ingest_jira(j) PROVE Serial(t)'
  <2>1. PICK rows \in [Keys -> {"none", "missing", "found"}] :
          upsert(j, [NoRows EXCEPT !.tickets = rows])
    BY <1>4 DEF ingest_jira
  <2> DEFINE w == [NoRows EXCEPT !.tickets = rows]
  <2>2. w \in Rows /\ \A x \in Versions : w.release[x] = "none"
    BY DEF NoRows, Rows
  <2>3. upsert(j, w)
    BY <2>1
  <2> HIDE DEF w
  <2>5. \A i \in Jobs \ {j} : txn'[i] = txn[i]
    BY <2>2, <2>3, UpsertStep DEF IInv
  <2>6. /\ pc[j] = "pairs" /\ pc'[j] = "known"
        /\ \A i \in Jobs \ {j} : pc'[i] = pc[i]
        /\ UNCHANGED <<db, tags, listing, known>>
    BY <1>4 DEF ingest_jira, Goto, vendorVars, jobVars, IInv, TypeOK
  <2> QED
    BY <1>11, <2>5, <2>6, SerialOwnStep DEF Writing
<1>5. ASSUME NEW j \in Jobs, LoadKnown(j) PROVE Serial(t)'
  <2>1. /\ pc[j] = "known" /\ pc'[j] = "sentry"
        /\ known'[j] = {v \in Versions : Visible(j).release[v] # "none"}
        /\ \A i \in Jobs \ {j} : pc'[i] = pc[i] /\ known'[i] = known[i]
        /\ UNCHANGED <<tags, db, txn, listing>>
    BY <1>5 DEF LoadKnown, Goto, vendorVars, IInv, TypeOK
  <2>2. \A v \in Versions : v \notin known'[j] =>
          db.release[v] = "none" /\ txn[j].release[v] = "none"
    BY <2>1, UpsertedType DEF Visible, IInv, TypeOK
  <2>3. \A v \in Versions : txn[j].release[v] # "untagged"
    BY <2>1 DEF IInv, Holds
  <2> QED
    BY <1>11, <2>1, <2>2, <2>3 DEF Serial, Noting, Writing
<1>6. ASSUME NEW j \in Jobs, NoteRelease(j) PROVE Serial(t)'
  <2>1. PICK v \in pending[j] \ known[j] :
          /\ upsert(j, [NoRows EXCEPT !.release[v] = "untagged"])
          /\ known' = [known EXCEPT ![j] = @ \cup {v}]
    BY <1>6 DEF NoteRelease
  <2> DEFINE w == [NoRows EXCEPT !.release[v] = "untagged"]
  <2>2. /\ v \in Versions /\ w \in Rows
        /\ \A x \in Versions : w.release[x] = IF x = v THEN "untagged" ELSE "none"
    BY DEF NoRows, Rows, IInv, TypeOK
  <2>3. upsert(j, w)
    BY <2>1
  <2> HIDE DEF w
  <2>4. /\ pc[j] = "sentry" /\ UNCHANGED <<tags, db, pc, listing>>
        /\ known'[j] = known[j] \cup {v}
        /\ \A i \in Jobs \ {j} : known'[i] = known[i]
    BY <1>6, <2>1 DEF NoteRelease, vendorVars, IInv, TypeOK
  <2>5. \A x \in Versions :
          txn'[j].release[x] = IF x = v THEN "untagged" ELSE txn[j].release[x]
    BY <2>2, <2>3, UpsertStep, UpsertedType DEF IInv
  <2>6. \A i \in Jobs \ {j} : txn'[i] = txn[i]
    BY <2>2, <2>3, UpsertStep DEF IInv
  <2>7. db.release[v] = "none"
    BY <2>1, <2>2, <2>4 DEF Serial, Noting
  <2>8. ASSUME NEW i \in Jobs PROVE Noting(i)'
    <3>1. CASE i = j
      BY <2>4, <2>5, <2>7, <3>1 DEF Serial, Noting, Writing
    <3>2. CASE i # j
      BY <2>4, <2>6, <3>2 DEF Serial, Noting
    <3> QED
      BY <3>1, <3>2
  <2> QED
    BY <1>11, <2>4, <2>8 DEF Serial
<1>7. ASSUME NEW j \in Jobs, Commit(j) \/ Abort(j) PROVE Serial(t)'
  BY <1>7, <1>11, SerialEndStep DEF Commit, Abort, vendorVars
<1>8. CASE CreateTag
  <2>1. tags'[t] = tags[t] /\ UNCHANGED <<db, txn, pc, listing, known>>
    BY <1>8 DEF CreateTag, jobVars, Serial, IInv, TypeOK, TagMaps
  <2> QED
    BY <1>11, <2>1 DEF Serial, Noting
<1>9. CASE Report \/ UNCHANGED vars
  BY <1>9, <1>11 DEF Report, vars, jobVars, Serial, Noting
<1> QED
  BY <1>1, <1>2, <1>3, <1>4, <1>5, <1>6, <1>7, <1>8, <1>9, <1>10 DEF Next, JobStep

\* A commit of a job that read the release rows no one else could change since
\* does not turn a tagged release into an untagged one.
LEMMA KeptStep ==
  ASSUME NEW t \in Versions, IInv, Serial(t), [Next]_vars,
         NEW v \in Versions, db.release[v] = "tagged"
  PROVE  db'.release[v] = "tagged"
<1>1. ASSUME NEW j \in Jobs, Commit(j) PROVE db'.release[v] = "tagged"
  <2>1. pc[j] = "sentry" /\ db' = Upserted(db, txn[j])
    BY <1>1 DEF Commit, Visible
  <2>2. txn[j].release[v] \in {"none", "tagged"}
    BY <2>1 DEF Serial, Noting, IInv, TypeOK, Rows
  <2> QED
    BY <2>1, <2>2, UpsertedType DEF IInv, TypeOK
<1>2. CASE UNCHANGED db
  BY <1>2
<1> QED
  BY <1>1, <1>2 DEF Next, JobStep, ListTags, UpsertReleases, PairTags, IngestPair, ingest_jira,
     LoadKnown, NoteRelease, Abort, CreateTag, Report, vars

\* If some tag existed before the first job, overlapping jobs never erase the
\* tag of a release (without that they may).
THEOREM TagsAreKept ==
  ASSUME NEW t \in Versions, InitTags[t] # 0
  PROVE  Spec => TagNotErased
<1>1. Init => Serial(t)
  BY SerialInit
<1>2. IInv /\ Serial(t) /\ [Next]_vars => Serial(t)'
  BY SerialStep
<1>3. IInv /\ Serial(t) /\ [Next]_vars =>
        [\A v \in Versions : db.release[v] = "tagged" => db'.release[v] = "tagged"]_vars
  BY KeptStep
<1> QED
  BY <1>1, <1>2, <1>3, Invariance, PTL DEF Spec, TagNotErased

-----------------------------------------------------------------------------
(* Where moreover tags are only created on top, the lowest tag stays what  *)
(* it is.  Every INSERT of releases begins with its row, so a job that     *)
(* holds any release row holds that one.                                   *)
Lowest(b) ==
  /\ Exclusive
  /\ \A v \in Versions : tags[v] # 0 => b <= v
  /\ tags[b] # 0
  /\ \A j \in Jobs : /\ \A v \in listing[j] : b <= v
                     /\ pc[j] # "idle" => b \in listing[j]
                     /\ \A v \in Versions : txn[j].release[v] # "none" => txn[j].release[b] # "none"

LEMMA LowestExists ==
  ASSUME NEW t \in Versions, InitTags[t] # 0
  PROVE  \E b \in Versions : InitTags[b] # 0 /\ \A v \in Versions : InitTags[v] # 0 => b <= v
<1> DEFINE D == {v \in Versions : InitTags[v] # 0}
           Less == OpToRel(<, Nat)
<1>1. D \subseteq Nat /\ D # {}
  BY VendorAssumption
<1>2. \A m, n \in Nat : m < n => <<m, n>> \in Less
  BY DEF OpToRel
<1>3. IsWellFoundedOn(Less, Nat)
  BY NatLessThanWellFounded
<1> HIDE DEF D, Less
<1>4. PICK n \in D : \A m \in D : ~(<<m, n>> \in Less)
  BY <1>1, <1>3, WFMin
<1>5. ASSUME NEW m \in D PROVE n <= m
  <2>1. m \in Nat /\ n \in Nat
    BY <1>1
  <2>2. ~(m < n)
    BY <1>2, <1>4, <2>1
  <2> QED
    BY <2>1, <2>2
<1> QED
  BY <1>5 DEF D

\* A step of job j on release rows that it writes while it holds that of b.
LEMMA LowestOwnStep ==
  ASSUME NEW b \in Versions, Lowest(b), Exclusive', NEW j \in Jobs, UNCHANGED <<tags, listing>>,
         \A i \in Jobs \ {j} : txn'[i] = txn[i] /\ pc'[i] = pc[i],
         pc[j] # "idle",
         \A v \in Versions : txn'[j].release[v] # "none" => txn'[j].release[b] # "none"
  PROVE  Lowest(b)'
BY DEF Lowest

LEMMA LowestStep ==
  ASSUME NEW b \in Versions, IInv, Lowest(b), Inserted = FALSE, [Next]_vars
  PROVE  Lowest(b)'
<1>1. Exclusive' /\ b \in Nat /\ Versions \subseteq Nat
  BY ExclusiveStep, VendorAssumption DEF Lowest
<1>2. ASSUME NEW j \in Jobs, ListTags(j) PROVE Lowest(b)'
  <2>1. /\ listing'[j] = {v \in Versions : tags[v] # 0}
        /\ \A i \in Jobs \ {j} : pc'[i] = pc[i] /\ listing'[i] = listing[i]
        /\ UNCHANGED <<tags, txn>>
    BY <1>2 DEF ListTags, Goto, vendorVars, IInv, TypeOK
  <2> QED
    BY <1>1, <2>1 DEF Lowest
<1>3. ASSUME NEW j \in Jobs, UpsertReleases(j) PROVE Lowest(b)'
  <2>1. PICK v \in NextRow(j) : upsert(j, [NoRows EXCEPT !.release[v] = "tagged"])
    BY <1>3 DEF UpsertReleases
  <2>2. v \in listing[j] /\ v \in Versions /\ \A u \in Unwritten(j) : v <= u
    BY DEF NextRow, Unwritten, IInv, TypeOK
  <2> DEFINE w == [NoRows EXCEPT !.release[v] = "tagged"]
  <2>3. w \in Rows /\ \A x \in Versions : w.release[x] = IF x = v THEN "tagged" ELSE "none"
    BY <2>2 DEF NoRows, Rows
  <2>4. upsert(j, w)
    BY <2>1
  <2> HIDE DEF w
  <2>5. /\ \A x \in Versions :
              txn'[j].release[x] = IF x = v THEN "tagged" ELSE txn[j].release[x]
        /\ \A i \in Jobs \ {j} : txn'[i] = txn[i]
    BY <2>3, <2>4, UpsertStep, UpsertedType DEF IInv
  <2>6. pc[j] = "listed" /\ UNCHANGED <<tags, pc, listing>>
    BY <1>3 DEF UpsertReleases, vendorVars, jobVars
  <2>7. txn'[j].release[b] # "none"
    <3>1. CASE txn[j].release[b] # "none"
      BY <2>5, <3>1
    <3>2. CASE txn[j].release[b] = "none"
      <4>1. b \in Unwritten(j)
        BY <2>6, <3>2 DEF Lowest, Unwritten
      <4>2. v <= b /\ b <= v
        BY <2>2, <4>1 DEF Lowest
      <4>3. v = b
        BY <1>1, <2>2, <4>2
      <4> QED
        BY <2>5, <4>3
    <3> QED
      BY <3>1, <3>2
  <2> QED
    BY <1>1, <2>5, <2>6, <2>7, LowestOwnStep
<1>4. ASSUME NEW j \in Jobs, pc[j] \in Writing, NEW w \in Rows, upsert(j, w),
             UNCHANGED <<tags, listing>>, \A i \in Jobs \ {j} : pc'[i] = pc[i]
      PROVE  Lowest(b)'
  <2>1. /\ \A i \in Jobs \ {j} : txn'[i] = txn[i]
        /\ txn[j].release[b] # "none" => txn'[j].release[b] # "none"
    BY <1>4, UpsertStep, UpsertedType DEF IInv
  <2>2. pc[j] # "idle" /\ txn[j].release[b] # "none"
    BY <1>4 DEF Lowest, IInv, Holds, Writing
  <2> QED
    BY <1>1, <1>4, <2>1, <2>2, LowestOwnStep
<1>5. ASSUME NEW j \in Jobs, IngestPair(j) PROVE Lowest(b)'
  <2>1. PICK v \in todo[j] :
          LET new == compare_commits(tags[PreviousOf(listing[j], v)], tags[v]) IN
          upsert(j, [NoRows EXCEPT
            !.contents = {v} \X new,
            !.commits = new,
            !.links = {l \in new \X Keys : l[2] \in TicketsOf[l[1]]}])
    BY <1>5 DEF IngestPair
  <2> DEFINE new == compare_commits(tags[PreviousOf(listing[j], v)], tags[v])
             w == [NoRows EXCEPT
                     !.contents = {v} \X new,
                     !.commits = new,
                     !.links = {l \in new \X Keys : l[2] \in TicketsOf[l[1]]}]
  <2>2. new \subseteq Commits /\ v \in Versions
    BY DEF compare_commits, IInv, TypeOK
  <2> HIDE DEF new
  <2>3. w \in Rows
    BY <2>2 DEF NoRows, Rows
  <2>4. upsert(j, w)
    BY <2>1 DEF new
  <2> HIDE DEF w
  <2> QED
    BY <1>4, <1>5, <2>3, <2>4 DEF IngestPair, vendorVars, Writing
<1>6. ASSUME NEW j \in Jobs, ingest_jira(j) PROVE Lowest(b)'
  <2>1. PICK rows \in [Keys -> {"none", "missing", "found"}] :
          upsert(j, [NoRows EXCEPT !.tickets = rows])
    BY <1>6 DEF ingest_jira
  <2>2. [NoRows EXCEPT !.tickets = rows] \in Rows
    BY DEF NoRows, Rows
  <2>3. /\ pc[j] = "pairs" /\ UNCHANGED <<tags, listing>>
        /\ \A i \in Jobs \ {j} : pc'[i] = pc[i]
    BY <1>6 DEF ingest_jira, Goto, vendorVars, jobVars, IInv, TypeOK
  <2> QED
    BY <1>4, <2>1, <2>2, <2>3 DEF Writing
<1>7. ASSUME NEW j \in Jobs, NoteRelease(j) PROVE Lowest(b)'
  <2>1. PICK v \in pending[j] \ known[j] : upsert(j, [NoRows EXCEPT !.release[v] = "untagged"])
    BY <1>7 DEF NoteRelease
  <2>2. [NoRows EXCEPT !.release[v] = "untagged"] \in Rows
    BY DEF NoRows, Rows, IInv, TypeOK
  <2> QED
    BY <1>4, <1>7, <2>1, <2>2 DEF NoteRelease, vendorVars, Writing
<1>8. ASSUME NEW j \in Jobs, PairTags(j) \/ LoadKnown(j) PROVE Lowest(b)'
  <2>1. /\ pc[j] # "idle" /\ UNCHANGED <<tags, txn, listing>>
        /\ \A i \in Jobs \ {j} : pc'[i] = pc[i]
    BY <1>8 DEF PairTags, LoadKnown, Goto, vendorVars, IInv, TypeOK
  <2>2. \A v \in Versions : txn'[j].release[v] # "none" => txn'[j].release[b] # "none"
    BY <2>1 DEF Lowest
  <2> QED
    BY <1>1, <2>1, <2>2, LowestOwnStep
<1>9. ASSUME NEW j \in Jobs, Commit(j) \/ Abort(j) PROVE Lowest(b)'
  <2>1. /\ txn'[j] = NoRows /\ pc'[j] = "idle" /\ listing'[j] = {} /\ tags' = tags
        /\ \A i \in Jobs \ {j} : txn'[i] = txn[i] /\ pc'[i] = pc[i] /\ listing'[i] = listing[i]
    BY <1>9 DEF Commit, Abort, Reset, Goto, vendorVars, IInv, TypeOK
  <2> QED
    BY <1>1, <2>1 DEF Lowest, NoRows
<1>10. CASE CreateTag
  <2>1. PICK v \in Versions, c \in Commits :
          /\ tags' = [tags EXCEPT ![v] = c]
          /\ \A u \in Versions : tags[u] # 0 => u < v
    BY <1>10 DEF CreateTag
  <2>2. b < v /\ \A u \in Versions : tags'[u] # 0 => tags[u] # 0 \/ u = v
    BY <2>1 DEF Lowest, IInv, TypeOK, TagMaps
  <2>3. tags'[b] = tags[b] /\ UNCHANGED <<txn, pc, listing>>
    BY <1>1, <1>10, <2>1, <2>2 DEF CreateTag, jobVars, IInv, TypeOK, TagMaps
  <2>4. ASSUME NEW u \in Versions, tags'[u] # 0 PROVE b <= u
    <3>1. CASE tags[u] # 0
      BY <3>1 DEF Lowest
    <3>2. CASE u = v
      BY <1>1, <2>2, <3>2
    <3> QED
      BY <2>2, <2>4, <3>1, <3>2
  <2>5. tags'[b] # 0
    BY <2>3 DEF Lowest
  <2>6. \A j \in Jobs :
          /\ \A u \in listing'[j] : b <= u
          /\ pc'[j] # "idle" => b \in listing'[j]
          /\ \A u \in Versions : txn'[j].release[u] # "none" => txn'[j].release[b] # "none"
    BY <2>3 DEF Lowest
  <2> QED
    BY <1>1, <2>4, <2>5, <2>6 DEF Lowest
<1>11. CASE Report \/ UNCHANGED vars
  BY <1>1, <1>11 DEF Report, vars, jobVars, Lowest
<1> QED
  BY <1>2, <1>3, <1>5, <1>6, <1>7, <1>8, <1>9, <1>10, <1>11 DEF Next, JobStep

\* If some tag existed before the first job and tags are only created on top,
\* jobs never wait for each other's release rows in a circle, neither in the
\* middle of the INSERT of ingest_git nor in note_release: the row of the
\* lowest tag, which every job writes first, lets one at a time write any.
THEOREM NoJobsStandOff ==
  ASSUME NEW t \in Versions, InitTags[t] # 0, Inserted = FALSE
  PROVE  Spec => []NoStandoff
<1>1. PICK b \in Versions : InitTags[b] # 0 /\ \A v \in Versions : InitTags[v] # 0 => b <= v
  BY LowestExists
<1>2. Init => Lowest(b)
  BY <1>1 DEF Init, Lowest, Exclusive, NoRows
<1>3. IInv /\ Lowest(b) /\ [Next]_vars => Lowest(b)'
  BY LowestStep
<1>4. IInv /\ Lowest(b) => NoStandoff
  <2> SUFFICES ASSUME IInv, Lowest(b), NEW i \in Jobs, NEW j \in Jobs,
                      MayWait(i, j), MayWait(j, i)
               PROVE  i = j
    BY DEF NoStandoff
  <2>1. ASSUME NEW x \in Jobs, NEW y \in Jobs, MayWait(x, y)
        PROVE  \E v \in Versions : txn[y].release[v] # "none"
    BY <2>1 DEF MayWait, NextRow, Unwritten, IInv, TypeOK
  <2>2. txn[i].release[b] # "none" /\ txn[j].release[b] # "none"
    BY <2>1 DEF Lowest
  <2> QED
    BY <2>2 DEF Lowest, Exclusive
<1> QED
  BY <1>2, <1>3, <1>4, Invariance, PTL DEF Spec

-----------------------------------------------------------------------------
(* Where tags are only created on top, the commits between a version's tag *)
(* and the one below it are the same for every job that lists the version. *)

Below(v) == \E u \in Versions : u < v /\ tags[u] # 0
Span(v) ==
  {c \in Commits : c <= tags[v] /\ \A u \in Versions : u < v /\ tags[u] # 0 => tags[u] < c}

(* A listing has, with a version, every lower one that has a tag.          *)
Listed(j) ==
  \A v \in listing[j] : tags[v] # 0 /\ \A u \in Versions : u < v /\ tags[u] # 0 => u \in listing[j]

(* What job j has written of releases: nothing but spans, and those of all *)
(* listed versions that it is through with.                                *)
Spanned(j) ==
  /\ pc[j] \in {"known", "sentry"} => todo[j] = {}
  /\ \A v \in todo[j] : Below(v)
  /\ \A v \in Versions : txn[j].release[v] = "tagged" => v \in listing[j]
  /\ \A x \in txn[j].contents : tags[x[1]] # 0 /\ Below(x[1]) /\ x[2] \in Span(x[1])
  /\ pc[j] \in Writing =>
       \A v \in listing[j] \ todo[j] : Below(v) => {v} \X Span(v) \subseteq txn[j].contents

(* So are the committed tables.                                            *)
SpansStored ==
  /\ \A x \in db.contents : tags[x[1]] # 0 /\ Below(x[1]) /\ x[2] \in Span(x[1])
  /\ \A v \in Versions : db.release[v] = "tagged" =>
       tags[v] # 0 /\ (Below(v) => {v} \X Span(v) \subseteq db.contents)

Spans == SpansStored /\ \A j \in Jobs : Listed(j) /\ Spanned(j)

LEMMA LargestBelow ==
  ASSUME NEW l, l \subseteq Nat, NEW v \in Nat, \E u \in l : u < v
  PROVE  PreviousOf(l, v) \in l /\ PreviousOf(l, v) < v
         /\ \A x \in l : x < v => x <= PreviousOf(l, v)
<1> DEFINE D == {n \in Nat : v - n \in l /\ n > 0}
           Less == OpToRel(<, Nat)
<1>1. D \subseteq Nat /\ D # {}
  <2>1. PICK u \in l : u < v
    OBVIOUS
  <2>2. v - u \in D
    BY <2>1
  <2> QED
    BY <2>2
<1>2. \A m, n \in Nat : m < n => <<m, n>> \in Less
  BY DEF OpToRel
<1>3. IsWellFoundedOn(Less, Nat)
  BY NatLessThanWellFounded
<1> HIDE DEF D, Less
<1>4. PICK n \in D : \A m \in D : ~(<<m, n>> \in Less)
  BY <1>1, <1>3, WFMin
<1>5. v - n \in l /\ v - n < v /\ n \in Nat
  BY <1>4 DEF D
<1>6. ASSUME NEW x \in l, x < v PROVE x <= v - n
  <2>1. v - x \in D
    BY <1>6 DEF D
  <2>2. ~(v - x < n)
    BY <1>1, <1>2, <1>4, <2>1
  <2> QED
    BY <1>5, <1>6, <2>2
<1>7. \E u \in l : u < v /\ \A x \in l : x < v => x <= u
  BY <1>5, <1>6
<1> QED
  BY <1>7 DEF PreviousOf

\* What compare_commits returns for a pair of a job is the version's span.
LEMMA PairIsSpan ==
  ASSUME IInv, NEW j \in Jobs, Listed(j), NEW v \in listing[j], Below(v)
  PROVE  compare_commits(tags[PreviousOf(listing[j], v)], tags[v]) = Span(v)
<1> DEFINE p == PreviousOf(listing[j], v)
<1>1. listing[j] \subseteq Versions /\ Versions \subseteq Nat /\ tags \in TagMaps /\ Ordered(tags)
  BY VendorAssumption DEF IInv, TypeOK
<1>2. \E u \in listing[j] : u < v
  BY <1>1 DEF Listed, Below
<1>3. p \in listing[j] /\ p < v /\ \A x \in listing[j] : x < v => x <= p
  BY <1>1, <1>2, LargestBelow
<1> HIDE DEF p
<1>4. \A u \in Versions : u < v /\ tags[u] # 0 => u \in listing[j] /\ u <= p
  BY <1>3 DEF Listed
<1>5. tags[p] # 0 /\ \A u \in Versions : tags[u] \in Nat
  BY <1>1, <1>3, VendorAssumption DEF Listed, TagMaps
<1>6. p \in Versions /\ p \in Nat /\ v \in Nat /\ \A u \in Versions : u \in Nat
  BY <1>1, <1>3
<1>7. ASSUME NEW u \in Versions, u < v, tags[u] # 0 PROVE tags[u] <= tags[p]
  <2>1. u = p \/ u < p
    BY <1>4, <1>6, <1>7
  <2>2. u < p => tags[u] < tags[p]
    BY <1>1, <1>5, <1>6, <1>7 DEF Ordered
  <2> QED
    BY <1>5, <1>6, <2>1, <2>2
<1>8. ASSUME NEW c \in Commits
      PROVE  tags[p] < c <=> \A u \in Versions : u < v /\ tags[u] # 0 => tags[u] < c
  <2>1. c \in Nat
    BY VendorAssumption DEF Commits
  <2>2. ASSUME tags[p] < c, NEW u \in Versions, u < v, tags[u] # 0 PROVE tags[u] < c
    BY <1>5, <1>6, <1>7, <2>1, <2>2
  <2> QED
    BY <1>3, <1>5, <1>6, <2>2
<1> QED
  BY <1>8 DEF compare_commits, Span, p

LEMMA SpansInit == Init => Spans
  BY DEF Init, Spans, SpansStored, Listed, Spanned, NoRows, Writing

\* A step of job j that changes no tag and no other job.
LEMMA SpansOwnStep ==
  ASSUME Spans, NEW j \in Jobs, UNCHANGED <<tags, db>>,
         \A i \in Jobs \ {j} : /\ txn'[i] = txn[i] /\ pc'[i] = pc[i]
                               /\ listing'[i] = listing[i] /\ todo'[i] = todo[i],
         Listed(j)', Spanned(j)'
  PROVE  Spans'
<1>1. SpansStored'
  BY DEF Spans, SpansStored, Below, Span
<1>2. ASSUME NEW i \in Jobs, i # j PROVE Listed(i)' /\ Spanned(i)'
  BY <1>2 DEF Spans, Listed, Spanned, Below, Span
<1> QED
  BY <1>1, <1>2 DEF Spans

\* A tag on top changes no version that has one.
LEMMA TagOnTop ==
  ASSUME IInv, Inserted = FALSE, CreateTag
  PROVE  \A w \in Versions : tags[w] # 0 =>
           /\ tags'[w] = tags[w]
           /\ Below(w)' <=> Below(w)
           /\ Span(w)' = Span(w)
           /\ \A u \in Versions : u < w => tags'[u] = tags[u]
<1>1. PICK v \in Versions, c \in Commits :
        /\ tags[v] = 0
        /\ tags' = [tags EXCEPT ![v] = c]
        /\ Inserted \/ \A u \in Versions : tags[u] # 0 => u < v
  BY DEF CreateTag
<1>2. tags \in [Versions -> Nat] /\ Versions \subseteq Nat
  BY VendorAssumption DEF IInv, TypeOK, TagMaps
<1> SUFFICES ASSUME NEW w \in Versions, tags[w] # 0
             PROVE  /\ tags'[w] = tags[w]
                    /\ Below(w)' <=> Below(w)
                    /\ Span(w)' = Span(w)
                    /\ \A u \in Versions : u < w => tags'[u] = tags[u]
  OBVIOUS
<1>3. w < v /\ tags'[w] = tags[w]
  BY <1>1, <1>2
<1>4. \A u \in Versions : u < w => tags'[u] = tags[u]
  BY <1>1, <1>2, <1>3
<1> QED
  BY <1>3, <1>4 DEF Below, Span

LEMMA SpansTagStep ==
  ASSUME IInv, Spans, Inserted = FALSE, CreateTag
  PROVE  Spans'
<1>1. UNCHANGED <<db, txn, pc, listing, todo>>
  BY DEF CreateTag, jobVars
<1>2. db \in Rows /\ txn \in [Jobs -> Rows] /\ listing \in [Jobs -> SUBSET Versions]
  BY DEF IInv, TypeOK
<1>3. SpansStored'
  <2>1. \A x \in db.contents : x[1] \in Versions
    BY <1>2 DEF Rows
  <2> QED
    BY <1>1, <2>1, TagOnTop DEF Spans, SpansStored
<1>4. ASSUME NEW j \in Jobs PROVE Listed(j)'
  BY <1>1, <1>2, TagOnTop DEF Spans, Listed
<1>5. ASSUME NEW j \in Jobs PROVE Spanned(j)'
  <2>1. \A x \in txn[j].contents : x[1] \in Versions
    BY <1>2 DEF Rows
  <2>2. \A v \in listing[j] \cup todo[j] : v \in Versions /\ tags[v] # 0
    BY <1>2 DEF Spans, Listed, IInv, Holds
  <2>3. \A x \in txn[j].contents : (tags[x[1]] # 0 /\ Below(x[1]) /\ x[2] \in Span(x[1]))'
    <3> SUFFICES ASSUME NEW x \in txn[j].contents
                 PROVE  tags'[x[1]] # 0 /\ Below(x[1])' /\ x[2] \in Span(x[1])'
      OBVIOUS
    <3>1. tags[x[1]] # 0 /\ Below(x[1]) /\ x[2] \in Span(x[1])
      BY DEF Spans, Spanned
    <3> QED
      BY <2>1, <3>1, TagOnTop
  <2>4. \A v \in listing[j] \ todo[j] : Below(v)' => {v} \X Span(v)' \subseteq txn'[j].contents
        \/ pc[j] \notin Writing
    BY <1>1, <2>2, TagOnTop DEF Spans, Spanned
  <2>5. \A v \in todo[j] : Below(v)'
    BY <2>2, TagOnTop DEF Spans, Spanned
  <2> QED
    BY <1>1, <2>3, <2>4, <2>5 DEF Spans, Spanned
<1> QED
  BY <1>3, <1>4, <1>5 DEF Spans

\* A job that ends, with or without its rows in the tables.
LEMMA SpansEndStep ==
  ASSUME IInv, Spans, NEW j \in Jobs, Reset(j), tags' = tags,
         db' = db \/ (pc[j] = "sentry" /\ db' = Upserted(db, txn[j]))
  PROVE  Spans'
<1>1. /\ txn'[j] = NoRows /\ pc'[j] = "idle" /\ listing'[j] = {} /\ todo'[j] = {}
      /\ \A i \in Jobs \ {j} : /\ txn'[i] = txn[i] /\ pc'[i] = pc[i]
                               /\ listing'[i] = listing[i] /\ todo'[i] = todo[i]
  BY DEF Reset, Goto, IInv, TypeOK
<1>2. SpansStored'
  <2>1. CASE db' = db
    BY <2>1 DEF Spans, SpansStored, Below, Span
  <2>2. CASE pc[j] = "sentry" /\ db' = Upserted(db, txn[j])
    <3>1. db \in Rows /\ txn[j] \in Rows
      BY DEF IInv, TypeOK
    <3>2. db'.contents = db.contents \cup txn[j].contents
      BY <2>2, <3>1, UpsertedType
    <3>3. \A x \in db'.contents : tags[x[1]] # 0 /\ Below(x[1]) /\ x[2] \in Span(x[1])
      BY <3>2 DEF Spans, SpansStored, Spanned
    <3>4. ASSUME NEW v \in Versions, db'.release[v] = "tagged"
          PROVE  tags[v] # 0 /\ (Below(v) => {v} \X Span(v) \subseteq db'.contents)
      <4>1. txn[j].release[v] = "tagged" \/ db.release[v] = "tagged"
        BY <2>2, <3>1, <3>4, UpsertedType
      <4>2. CASE txn[j].release[v] = "tagged"
        <5>1. v \in listing[j] \ todo[j]
          BY <2>2, <4>2 DEF Spans, Spanned
        <5> QED
          BY <2>2, <3>2, <5>1 DEF Spans, Spanned, Listed, Writing
      <4>3. CASE db.release[v] = "tagged"
        BY <3>2, <4>3 DEF Spans, SpansStored
      <4> QED
        BY <4>1, <4>2, <4>3
    <3> QED
      BY <3>3, <3>4 DEF SpansStored, Below, Span
  <2> QED
    BY <2>1, <2>2
<1>3. Listed(j)' /\ Spanned(j)'
  BY <1>1 DEF Listed, Spanned, NoRows, Writing
<1>4. ASSUME NEW i \in Jobs, i # j PROVE Listed(i)' /\ Spanned(i)'
  BY <1>1, <1>4 DEF Spans, Listed, Spanned, Below, Span
<1> QED
  BY <1>2, <1>3, <1>4 DEF Spans

\* A statement of job j that writes w, none of it tags or contents.
LEMMA SpansWriteStep ==
  ASSUME IInv, Spans, NEW j \in Jobs, NEW w \in Rows, upsert(j, w),
         UNCHANGED <<tags, db, listing, todo>>, pc[j] \in Writing, pc'[j] \in Writing,
         pc'[j] = pc[j] \/ todo[j] = {},
         \A i \in Jobs \ {j} : pc'[i] = pc[i],
         w.contents = {}, \A v \in Versions : w.release[v] # "tagged"
  PROVE  Spans'
<1>1. /\ txn'[j] = Upserted(txn[j], w) /\ txn[j] \in Rows
      /\ \A i \in Jobs \ {j} : txn'[i] = txn[i]
  BY UpsertStep DEF IInv
<1>2. /\ txn'[j].contents = txn[j].contents
      /\ \A v \in Versions : txn'[j].release[v] = "tagged" => txn[j].release[v] = "tagged"
  <2>1. txn'[j].contents = txn[j].contents
    <3>1. txn'[j].contents = txn[j].contents \cup w.contents
      BY <1>1 DEF Upserted
    <3> QED
      BY <3>1
  <2>2. ASSUME NEW v \in Versions, txn'[j].release[v] = "tagged" PROVE txn[j].release[v] = "tagged"
    BY <1>1, <2>2, UpsertedType
  <2> QED
    BY <2>1, <2>2
<1>3. Listed(j)'
  BY DEF Spans, Listed
<1>4. Spanned(j)'
  <2>1. pc'[j] \in {"known", "sentry"} => todo'[j] = {}
    BY DEF Spans, Spanned
  <2>2. \A v \in Versions : txn'[j].release[v] = "tagged" => v \in listing'[j]
    BY <1>2 DEF Spans, Spanned
  <2>3. \A x \in txn'[j].contents : (tags[x[1]] # 0 /\ Below(x[1]) /\ x[2] \in Span(x[1]))'
    BY <1>2 DEF Spans, Spanned, Below, Span
  <2>4. \A v \in listing'[j] \ todo'[j] : Below(v)' => {v} \X Span(v)' \subseteq txn'[j].contents
    BY <1>2 DEF Spans, Spanned, Below, Span
  <2>5. \A v \in todo'[j] : Below(v)'
    BY DEF Spans, Spanned, Below
  <2> QED
    BY <2>1, <2>2, <2>3, <2>4, <2>5 DEF Spanned
<1> QED
  BY <1>1, <1>3, <1>4, SpansOwnStep

LEMMA SpansStep ==
  ASSUME IInv, Spans, Inserted = FALSE, [Next]_vars
  PROVE  Spans'
<1> USE DEF IInv
<1>1. ASSUME NEW j \in Jobs, ListTags(j) PROVE Spans'
  <2>1. Listed(j)'
    BY <1>1 DEF ListTags, vendorVars, TypeOK, Listed
  <2>2. Spanned(j)'
    BY <1>1, NoRowsType DEF ListTags, vendorVars, Goto, TypeOK, Holds, Spans, Spanned, NoRows, Writing
  <2> QED
    BY <1>1, <2>1, <2>2, SpansOwnStep DEF ListTags, Goto, vendorVars, TypeOK
<1>2. ASSUME NEW j \in Jobs, UpsertReleases(j) PROVE Spans'
  <2>1. PICK v \in NextRow(j) : upsert(j, [NoRows EXCEPT !.release[v] = "tagged"])
    BY <1>2 DEF UpsertReleases
  <2>2. v \in listing[j] /\ v \in Versions
    BY DEF NextRow, Unwritten, TypeOK
  <2> DEFINE w == [NoRows EXCEPT !.release[v] = "tagged"]
  <2>3. /\ w \in Rows /\ w.contents = {}
        /\ \A x \in Versions : w.release[x] = IF x = v THEN "tagged" ELSE "none"
    BY <2>2 DEF NoRows, Rows
  <2>4. upsert(j, w)
    BY <2>1
  <2> HIDE DEF w
  <2>5. UNCHANGED <<tags, db, listing, todo, pc>> /\ pc[j] = "listed"
    BY <1>2 DEF UpsertReleases, vendorVars, jobVars
  <2>6. /\ \A i \in Jobs \ {j} : txn'[i] = txn[i]
        /\ \A x : x \in txn'[j].contents <=> x \in txn[j].contents
        /\ \A x \in Versions : txn'[j].release[x] = "tagged" => x = v \/ txn[j].release[x] = "tagged"
    BY <2>3, <2>4, UpsertStep, UpsertedType
  <2>7. Listed(j)'
    BY <2>5 DEF Spans, Listed
  <2>8. Spanned(j)'
    BY <2>2, <2>5, <2>6 DEF Spans, Spanned, Below, Span, Writing
  <2> QED
    BY <2>5, <2>6, <2>7, <2>8, SpansOwnStep
<1>11. ASSUME NEW j \in Jobs, PairTags(j) PROVE Spans'
  <2>1. /\ UNCHANGED <<tags, db, txn, listing>> /\ pc[j] = "listed" /\ pc'[j] = "pairs"
        /\ \A i \in Jobs \ {j} : pc'[i] = pc[i] /\ todo'[i] = todo[i]
        /\ todo'[j] = {v \in listing[j] : \E u \in listing[j] : u < v}
    BY <1>11 DEF PairTags, vendorVars, Goto, TypeOK
  <2>2. Listed(j)'
    BY <2>1 DEF Spans, Listed
  <2>3. \A v \in listing[j] : v \in todo'[j] <=> Below(v)
    BY <2>1 DEF Below, Spans, Listed, TypeOK
  <2>4. Spanned(j)'
    BY <2>1, <2>3 DEF Spans, Spanned, Below, Span, Writing
  <2> QED
    BY <2>1, <2>2, <2>4, SpansOwnStep
<1>3. ASSUME NEW j \in Jobs, IngestPair(j) PROVE Spans'
  <2>1. PICK v \in todo[j] :
          LET new == compare_commits(tags[PreviousOf(listing[j], v)], tags[v]) IN
          /\ upsert(j, [NoRows EXCEPT
               !.contents = {v} \X new,
               !.commits = new,
               !.links = {l \in new \X Keys : l[2] \in TicketsOf[l[1]]}])
          /\ todo' = [todo EXCEPT ![j] = @ \ {v}]
    BY <1>3 DEF IngestPair
  <2>2. v \in listing[j] /\ v \in Versions
    BY DEF Holds, TypeOK
  <2>3. CASE Below(v)
    <3> DEFINE new == compare_commits(tags[PreviousOf(listing[j], v)], tags[v])
               w == [NoRows EXCEPT
                       !.contents = {v} \X new,
                       !.commits = new,
                       !.links = {l \in new \X Keys : l[2] \in TicketsOf[l[1]]}]
    <3>1. new = Span(v) /\ new \subseteq Commits
      BY <2>2, <2>3, PairIsSpan DEF Spans, compare_commits
    <3> HIDE DEF new
    <3>2. /\ w \in Rows /\ w.contents = {v} \X new
          /\ \A x \in Versions : w.release[x] = "none"
      BY <2>2, <3>1 DEF NoRows, Rows
    <3>3. upsert(j, w)
      BY <2>1 DEF new
    <3> HIDE DEF w
    <3>4. /\ UNCHANGED <<tags, db, listing, pc>> /\ pc[j] = "pairs"
          /\ todo'[j] = todo[j] \ {v}
          /\ \A i \in Jobs \ {j} : todo'[i] = todo[i]
      BY <1>3, <2>1 DEF IngestPair, vendorVars, TypeOK
    <3>5. /\ \A i \in Jobs \ {j} : txn'[i] = txn[i]
          /\ txn'[j].contents = txn[j].contents \cup ({v} \X Span(v))
          /\ \A u \in Versions : txn'[j].release[u] = txn[j].release[u]
      BY <3>1, <3>2, <3>3, UpsertStep, UpsertedType
    <3>6. Listed(j)'
      BY <3>4 DEF Spans, Listed
    <3>7. \A x \in txn'[j].contents : (tags[x[1]] # 0 /\ Below(x[1]) /\ x[2] \in Span(x[1]))'
      BY <2>2, <2>3, <3>4, <3>5 DEF Spans, Spanned, Listed, Below, Span
    <3>8. \A u \in listing'[j] \ todo'[j] : Below(u)' => {u} \X Span(u)' \subseteq txn'[j].contents
      BY <3>4, <3>5 DEF Spans, Spanned, Below, Span, Writing
    <3>9. Spanned(j)'
      BY <3>4, <3>5, <3>7, <3>8 DEF Spans, Spanned, Below, Writing
    <3> QED
      BY <3>4, <3>5, <3>6, <3>9, SpansOwnStep
  <2>4. Below(v)
    BY DEF Spans, Spanned
  <2> QED
    BY <2>3, <2>4
<1>4. ASSUME NEW j \in Jobs, ingest_jira(j) PROVE Spans'
  <2> DEFINE refs == Referenced(txn[j])
             rows == [k \in Keys |-> IF \E r \in refs : JiraKey[r] = k THEN "found"
                                     ELSE IF k \in refs /\ JiraKey[k] = Missing THEN "missing"
                                     ELSE "none"]
             w == [NoRows EXCEPT !.tickets = rows]
  <2>1. rows \in [Keys -> {"none", "missing", "found"}]
    OBVIOUS
  <2> HIDE DEF rows
  <2>2. w \in Rows /\ w.contents = {} /\ \A v \in Versions : w.release[v] # "tagged"
    BY <2>1 DEF NoRows, Rows
  <2>3. upsert(j, w)
    BY <1>4 DEF ingest_jira, rows
  <2> HIDE DEF w
  <2> QED
    BY <1>4, <2>2, <2>3, SpansWriteStep
    DEF ingest_jira, Goto, vendorVars, jobVars, TypeOK, Writing
<1>5. ASSUME NEW j \in Jobs, LoadKnown(j) PROVE Spans'
  <2>1. Listed(j)' /\ Spanned(j)'
    BY <1>5 DEF LoadKnown, Goto, vendorVars, TypeOK, Spans, Listed, Spanned, Below, Span, Writing
  <2> QED
    BY <1>5, <2>1, SpansOwnStep DEF LoadKnown, Goto, vendorVars, TypeOK
<1>6. ASSUME NEW j \in Jobs, NoteRelease(j) PROVE Spans'
  <2>1. PICK v \in pending[j] \ known[j] : upsert(j, [NoRows EXCEPT !.release[v] = "untagged"])
    BY <1>6 DEF NoteRelease
  <2> DEFINE w == [NoRows EXCEPT !.release[v] = "untagged"]
  <2>2. w \in Rows /\ w.contents = {} /\ \A u \in Versions : w.release[u] # "tagged"
    BY DEF NoRows, Rows, TypeOK
  <2>3. upsert(j, w)
    BY <2>1
  <2> HIDE DEF w
  <2> QED
    BY <1>6, <2>2, <2>3, SpansWriteStep DEF NoteRelease, vendorVars, Writing
<1>7. ASSUME NEW j \in Jobs, Commit(j) PROVE Spans'
  BY <1>7, SpansEndStep DEF Commit, vendorVars, Visible
<1>8. ASSUME NEW j \in Jobs, Abort(j) PROVE Spans'
  <2>1. Reset(j) /\ tags' = tags /\ db' = db
    BY <1>8 DEF Abort, vendorVars
  <2> QED
    BY <2>1, SpansEndStep
<1>9. CASE CreateTag
  BY <1>9, SpansTagStep
<1>10. CASE Report \/ UNCHANGED vars
  BY <1>10 DEF Report, vars, jobVars, Spans, SpansStored, Listed, Spanned, Below, Span
<1> QED
  BY <1>1, <1>2, <1>3, <1>4, <1>5, <1>6, <1>7, <1>8, <1>9, <1>10, <1>11 DEF Next, JobStep

\* ingest_git: where tags are only created on top, a version whose tags are all
\* ingested has the commits since the previous tag, whichever jobs overlapped.
THEOREM ContentsAreSpans ==
  ASSUME Inserted = FALSE
  PROVE  Spec => []ContentsMatchTags
<1>1. Spans /\ IInv => ContentsMatchTags
  <2> SUFFICES ASSUME Spans, IInv, NEW v \in Versions, tags[v] # 0,
                      db.release[v] = "tagged", Below(v)
               PROVE  {x \in db.contents : x[1] = v} = {v} \X Span(v)
    BY DEF ContentsMatchTags, Below, Span
  <2>1. db.contents \subseteq Versions \X Commits
    BY DEF IInv, TypeOK, Rows
  <2>2. \A x \in db.contents : x[1] = v => x[2] \in Span(v)
    BY DEF Spans, SpansStored
  <2>3. {v} \X Span(v) \subseteq db.contents
    BY DEF Spans, SpansStored
  <2> QED
    BY <2>1, <2>2, <2>3
<1>2. Spans /\ IInv /\ [Next]_vars => Spans'
  BY SpansStep
<1> QED
  BY SpansInit, <1>1, <1>2, Invariance, PTL DEF Spec

-----------------------------------------------------------------------------
(* Where moreover some tag existed before the first job, jobs write one at *)
(* a time, and what one writes is what its listing determines.  So one     *)
(* that saw only the vendors' present state leaves nothing to write.       *)

(* A job's commits are those of its contents, and its links and tickets    *)
(* follow from the commits.                                                *)
TicketRows(refs) ==
  [k \in Keys |-> IF \E r \in refs : JiraKey[r] = k THEN "found"
                  ELSE IF k \in refs /\ JiraKey[k] = Missing THEN "missing"
                  ELSE "none"]
OneRow(refs) == \A k, l \in refs : StoredKey(k) = StoredKey(l) => k = l

Derived(j) ==
  /\ \A c \in txn[j].commits : \E x \in txn[j].contents : x[2] = c
  /\ \A l \in txn[j].links : l[1] \in txn[j].commits /\ l[2] \in TicketsOf[l[1]]
  /\ pc[j] \notin {"known", "sentry"} => \A k \in Keys : txn[j].tickets[k] = "none"
  /\ pc[j] \in {"known", "sentry"} => /\ txn[j].tickets = TicketRows(Referenced(txn[j]))
                                      /\ OneRow(Referenced(txn[j]))

(* The releases a job knows of have rows that it sees, and a job that began *)
(* after the vendors' last change works on their present state.            *)
UpToDate(j) ==
  /\ pc[j] = "sentry" => \A v \in known[j] : db.release[v] # "none" \/ txn[j].release[v] # "none"
  /\ j \in quiet /\ pc[j] # "idle" => listing[j] = {v \in Versions : tags[v] # 0}
  /\ j \in quiet /\ pc[j] = "sentry" => reported \subseteq pending[j] \cup known[j]

CommitsPlaced == \A c \in db.commits : \E x \in db.contents : x[2] = c

(* What the tables hold once such a job has committed, and what no open    *)
(* transaction is then about to write.                                     *)
Complete ==
  /\ \A v \in Versions : tags[v] # 0 => db.release[v] = "tagged"
  /\ \A v \in reported : db.release[v] # "none"
  /\ OneRow(Referenced(db))
  /\ \A k \in Keys : TicketRows(Referenced(db))[k] # "none" =>
       db.tickets[k] = TicketRows(Referenced(db))[k]

NoneToNote(j) ==
  /\ \A v \in Versions : txn[j].release[v] # "untagged"
  /\ pc[j] = "sentry" => pending[j] \subseteq known[j]

Reruns ==
  /\ CommitsPlaced
  /\ \A j \in Jobs : Derived(j) /\ UpToDate(j)
  /\ settled => Complete /\ \A j \in Jobs : NoneToNote(j)

LEMMA RerunsInit == Init => Reruns
  BY DEF Init, Reruns, CommitsPlaced, Derived, UpToDate, NoRows

\* Two jobs that refer to keys stored under different keys agree on their rows.
LEMMA TicketRowsAgree ==
  ASSUME NEW refs \in SUBSET Keys, NEW all \in SUBSET Keys, refs \subseteq all, OneRow(all),
         NEW k \in Keys, TicketRows(refs)[k] # "none"
  PROVE  TicketRows(all)[k] = TicketRows(refs)[k]
<1>1. CASE \E r \in refs : JiraKey[r] = k
  BY <1>1 DEF TicketRows
<1>2. CASE ~\E r \in refs : JiraKey[r] = k
  <2>1. k \in refs /\ JiraKey[k] = Missing /\ TicketRows(refs)[k] = "missing"
    BY <1>2 DEF TicketRows
  <2>2. ASSUME NEW r \in all, JiraKey[r] = k PROVE FALSE
    <3>1. k # Missing
      BY VendorAssumption
    <3>2. StoredKey(r) = k /\ StoredKey(k) = k
      BY <2>1, <2>2, <3>1 DEF StoredKey
    <3>3. r = k
      BY <2>1, <3>2 DEF OneRow
    <3> QED
      BY <2>1, <2>2, <3>1, <3>3
  <2> QED
    BY <2>1, <2>2 DEF TicketRows
<1> QED
  BY <1>1, <1>2

LEMMA ReferencedType ==
  ASSUME NEW w \in Rows
  PROVE  Referenced(w) \in SUBSET Keys
  BY VendorAssumption DEF Rows, Referenced

\* Upserting rows that are there already changes nothing.
LEMMA UpsertedSame ==
  ASSUME NEW base \in Rows, NEW w \in Rows,
         \A v \in Versions : w.release[v] # "none" => base.release[v] = w.release[v],
         w.contents \subseteq base.contents, w.commits \subseteq base.commits,
         w.links \subseteq base.links,
         \A k \in Keys : w.tickets[k] # "none" => base.tickets[k] = w.tickets[k]
  PROVE  Upserted(base, w) = base
<1>1. base = [release |-> base.release, contents |-> base.contents, commits |-> base.commits,
              links |-> base.links, tickets |-> base.tickets]
  BY DEF Rows
<1>2. [v \in Versions |-> IF w.release[v] # "none" THEN w.release[v] ELSE base.release[v]]
        = base.release
  <2>1. base.release = [v \in Versions |-> base.release[v]]
    BY DEF Rows
  <2>2. \A v \in Versions :
          (IF w.release[v] # "none" THEN w.release[v] ELSE base.release[v]) = base.release[v]
    OBVIOUS
  <2> QED
    BY <2>1, <2>2
<1>3. [k \in Keys |-> IF w.tickets[k] # "none" THEN w.tickets[k] ELSE base.tickets[k]]
        = base.tickets
  <2>1. base.tickets = [k \in Keys |-> base.tickets[k]]
    BY DEF Rows
  <2>2. \A k \in Keys :
          (IF w.tickets[k] # "none" THEN w.tickets[k] ELSE base.tickets[k]) = base.tickets[k]
    OBVIOUS
  <2> QED
    BY <2>1, <2>2
<1>4. /\ base.contents \cup w.contents = base.contents
      /\ base.commits \cup w.commits = base.commits
      /\ base.links \cup w.links = base.links
  OBVIOUS
<1> QED
  BY <1>1, <1>2, <1>3, <1>4 DEF Upserted

\* The commits of an open transaction are among the tables' once these are complete.
LEMMA CommitsStoredWhenComplete ==
  ASSUME IInv, Spans, Reruns, Complete, NEW j \in Jobs
  PROVE  txn[j].contents \subseteq db.contents /\ txn[j].commits \subseteq db.commits
<1>1. txn[j].contents \subseteq Versions \X Commits /\ txn[j] \in Rows
  BY DEF IInv, TypeOK, Rows
<1>2. ASSUME NEW x \in txn[j].contents PROVE x \in db.contents
  <2>1. x[1] \in Versions /\ tags[x[1]] # 0 /\ Below(x[1]) /\ x[2] \in Span(x[1])
    BY <1>1 DEF Spans, Spanned
  <2>2. {x[1]} \X Span(x[1]) \subseteq db.contents
    BY <2>1 DEF Complete, Spans, SpansStored
  <2>3. x = <<x[1], x[2]>>
    BY <1>1
  <2> QED
    BY <2>1, <2>2, <2>3
<1>3. \A c \in txn[j].commits : c \in db.commits
  BY <1>2 DEF Reruns, Derived, IInv, Whole, Closed
<1> QED
  BY <1>2, <1>3

\* A job that commits when the tables are complete writes what they hold.
LEMMA RewritesTheSame ==
  ASSUME IInv, Spans, Reruns, settled, NEW j \in Jobs, pc[j] = "sentry"
  PROVE  Upserted(db, txn[j]) = db
<1>1. db \in Rows /\ txn[j] \in Rows
  BY DEF IInv, TypeOK
<1>2. Complete /\ NoneToNote(j) /\ Derived(j)
  BY DEF Reruns
<1>3. ASSUME NEW v \in Versions, txn[j].release[v] # "none"
      PROVE  db.release[v] = txn[j].release[v]
  <2>1. txn[j].release[v] = "tagged"
    BY <1>1, <1>2, <1>3 DEF NoneToNote, Rows
  <2>2. v \in listing[j] /\ tags[v] # 0
    BY <2>1 DEF Spans, Spanned, Listed
  <2> QED
    BY <1>2, <2>1, <2>2 DEF Complete
<1>4. txn[j].contents \subseteq db.contents /\ txn[j].commits \subseteq db.commits
  BY <1>2, CommitsStoredWhenComplete
<1>5. txn[j].links \subseteq db.links
  <2> SUFFICES ASSUME NEW l \in txn[j].links PROVE l \in db.links
    OBVIOUS
  <2>1. l[1] \in db.commits /\ l[2] \in TicketsOf[l[1]]
    BY <1>2, <1>4 DEF Derived
  <2>2. l = <<l[1], l[2]>> /\ l[2] \in Keys
    BY <1>1 DEF Rows
  <2> QED
    BY <2>1, <2>2 DEF IInv, Whole, Closed
<1>6. ASSUME NEW k \in Keys, txn[j].tickets[k] # "none"
      PROVE  db.tickets[k] = txn[j].tickets[k]
  <2> DEFINE refs == Referenced(txn[j])
             all == Referenced(db)
  <2>1. refs \subseteq all
    BY <1>4 DEF Referenced
  <2>2. refs \in SUBSET Keys /\ all \in SUBSET Keys
    BY <1>1, ReferencedType
  <2>3. txn[j].tickets = TicketRows(refs) /\ OneRow(all)
    BY <1>2 DEF Derived, Complete
  <2> HIDE DEF refs, all
  <2>4. TicketRows(refs)[k] # "none"
    BY <1>6, <2>3
  <2>5. TicketRows(all)[k] = TicketRows(refs)[k]
    BY <2>1, <2>2, <2>3, <2>4, TicketRowsAgree
  <2>6. db.tickets[k] = TicketRows(all)[k]
    BY <1>2, <2>4, <2>5 DEF Complete, all
  <2> QED
    BY <2>3, <2>5, <2>6
<1> QED
  BY <1>1, <1>3, <1>4, <1>5, <1>6, UpsertedSame

\* A step of job j that leaves tables, vendors and the other jobs alone.
LEMMA RerunsOwnStep ==
  ASSUME Reruns, NEW j \in Jobs, UNCHANGED <<tags, reported, db, settled>>,
         quiet' \subseteq quiet \cup {j},
         \A i \in Jobs \ {j} : /\ txn'[i] = txn[i] /\ pc'[i] = pc[i] /\ listing'[i] = listing[i]
                               /\ known'[i] = known[i] /\ pending'[i] = pending[i],
         Derived(j)', UpToDate(j)', settled => NoneToNote(j)'
  PROVE  Reruns'
<1>1. CommitsPlaced'
  BY DEF Reruns, CommitsPlaced
<1>2. ASSUME NEW i \in Jobs, i # j
      PROVE  Derived(i)' /\ UpToDate(i)' /\ (settled => NoneToNote(i)')
  BY <1>2 DEF Reruns, Derived, UpToDate, NoneToNote, OneRow, TicketRows, Referenced, StoredKey
<1>3. settled => Complete'
  BY DEF Reruns, Complete, OneRow, TicketRows, Referenced, StoredKey
<1> QED
  BY <1>1, <1>2, <1>3 DEF Reruns

\* The job that commits having seen nothing but the vendors' present state
\* leaves complete tables.
LEMMA CompleteAfterCommit ==
  ASSUME NEW t \in Versions, IInv, Spans, Serial(t), Reruns, NEW j \in Jobs, j \in quiet, Commit(j)
  PROVE  Complete'
<1>1. /\ pc[j] = "sentry" /\ pending[j] \subseteq known[j]
      /\ db' = Upserted(db, txn[j]) /\ UNCHANGED <<tags, reported>>
  BY DEF Commit, Visible, vendorVars
<1>2. db \in Rows /\ txn[j] \in Rows
  BY DEF IInv, TypeOK
<1>3. listing[j] = {v \in Versions : tags[v] # 0} /\ reported \subseteq known[j]
  BY <1>1 DEF Reruns, UpToDate
<1>4. \A v \in Versions : tags'[v] # 0 => db'.release[v] = "tagged"
  BY <1>1, <1>2, <1>3, UpsertedType DEF IInv, Holds, Writing
<1>5. \A v \in reported' : db'.release[v] # "none"
  <2>1. reported \subseteq Versions
    BY DEF IInv, TypeOK
  <2>2. \A v \in reported : db.release[v] # "none" \/ txn[j].release[v] # "none"
    BY <1>1, <1>3 DEF Reruns, UpToDate
  <2> QED
    BY <1>1, <1>2, <2>1, <2>2, UpsertedType
<1>6. db.commits \subseteq txn[j].commits
  <2> SUFFICES ASSUME NEW c \in db.commits PROVE c \in txn[j].commits
    OBVIOUS
  <2>1. PICK x \in db.contents : x[2] = c
    BY DEF Reruns, CommitsPlaced
  <2>2. x[1] \in Versions /\ x = <<x[1], x[2]>>
    BY <1>2 DEF Rows
  <2>3. tags[x[1]] # 0 /\ Below(x[1]) /\ x[2] \in Span(x[1])
    BY DEF Spans, SpansStored
  <2>4. x[1] \in listing[j] /\ todo[j] = {}
    BY <1>1, <1>3, <2>2, <2>3 DEF Spans, Spanned
  <2>5. {x[1]} \X Span(x[1]) \subseteq txn[j].contents
    BY <1>1, <2>3, <2>4 DEF Spans, Spanned, Writing
  <2>6. x \in txn[j].contents
    BY <2>2, <2>3, <2>5
  <2> QED
    BY <2>1, <2>6 DEF IInv, Sound
<1>7. Referenced(db') = Referenced(txn[j])
  <2>1. db'.commits = db.commits \cup txn[j].commits
    BY <1>1, <1>2, UpsertedType
  <2>2. db'.commits = txn[j].commits
    BY <1>6, <2>1
  <2> QED
    BY <2>2 DEF Referenced
<1>8. OneRow(Referenced(db')) /\ txn[j].tickets = TicketRows(Referenced(db'))
  BY <1>1, <1>7 DEF Reruns, Derived
<1>9. \A k \in Keys : TicketRows(Referenced(db'))[k] # "none" =>
         db'.tickets[k] = TicketRows(Referenced(db'))[k]
  BY <1>1, <1>8 DEF Upserted
<1>10. OneRow(Referenced(db))' /\ \A k \in Keys : TicketRows(Referenced(db))'[k] # "none" =>
         db'.tickets[k] = TicketRows(Referenced(db))'[k]
  BY <1>8, <1>9 DEF OneRow, TicketRows, Referenced, StoredKey
<1> QED
  BY <1>4, <1>5, <1>10 DEF Complete

\* The end of a job, with or without its rows in the tables.
LEMMA RerunsEndStep ==
  ASSUME NEW t \in Versions, IInv, Spans, Serial(t), Reruns, NEW j \in Jobs,
         Commit(j) \/ Abort(j)
  PROVE  Reruns'
<1>1. /\ txn'[j] = NoRows /\ pc'[j] = "idle"
      /\ \A i \in Jobs \ {j} : /\ txn'[i] = txn[i] /\ pc'[i] = pc[i] /\ listing'[i] = listing[i]
                               /\ known'[i] = known[i] /\ pending'[i] = pending[i]
      /\ UNCHANGED <<tags, reported, quiet>>
  BY DEF Commit, Abort, Reset, Goto, vendorVars, IInv, TypeOK
<1>2. db \in Rows /\ txn[j] \in Rows
  BY DEF IInv, TypeOK
<1>3. /\ db' = db \/ (pc[j] = "sentry" /\ db' = Upserted(db, txn[j]))
      /\ \A v \in Versions : db.release[v] # "none" => db'.release[v] # "none"
  BY <1>2, UpsertedType DEF Commit, Abort, Visible
<1>4. CommitsPlaced'
  <2>1. CASE db' = db
    BY <2>1 DEF Reruns, CommitsPlaced
  <2>2. CASE db' = Upserted(db, txn[j])
    BY <1>2, <2>2, UpsertedType DEF Reruns, CommitsPlaced, Derived
  <2> QED
    BY <1>3, <2>1, <2>2
<1>5. ASSUME NEW i \in Jobs PROVE Derived(i)' /\ UpToDate(i)'
  <2>1. CASE i = j
    BY <1>1, <2>1 DEF Derived, UpToDate, NoRows
  <2>2. CASE i # j
    <3>1. \A v \in known[i] : v \in Versions
      BY DEF IInv, TypeOK
    <3> QED
      BY <1>1, <1>3, <2>2, <3>1
      DEF Reruns, Derived, UpToDate, OneRow, TicketRows, Referenced, StoredKey
  <2> QED
    BY <2>1, <2>2
<1>6. ASSUME settled' PROVE Complete' /\ \A i \in Jobs : NoneToNote(i)'
  <2>1. CASE settled
    <3>1. db' = db
      BY <1>3, <2>1, RewritesTheSame
    <3>2. Complete'
      BY <1>1, <2>1, <3>1 DEF Reruns, Complete, OneRow, TicketRows, Referenced, StoredKey
    <3>3. ASSUME NEW i \in Jobs PROVE NoneToNote(i)'
      BY <1>1, <2>1 DEF Reruns, NoneToNote, NoRows
    <3> QED
      BY <3>2, <3>3
  <2>2. CASE ~settled
    <3>1. Commit(j) /\ j \in quiet
      BY <1>6, <2>2 DEF Commit, Abort
    <3>2. Complete'
      BY <3>1, CompleteAfterCommit
    <3>3. \A i \in Jobs \ {j} :
            pc[i] # "sentry" /\ \A v \in Versions : txn[i].release[v] # "untagged"
      BY <3>1 DEF Commit, Serial, IInv, Holds, Writing
    <3>4. ASSUME NEW i \in Jobs PROVE NoneToNote(i)'
      BY <1>1, <3>3 DEF NoneToNote, NoRows
    <3> QED
      BY <3>2, <3>4
  <2> QED
    BY <2>1, <2>2
<1> QED
  BY <1>4, <1>5, <1>6 DEF Reruns

LEMMA RerunsStep ==
  ASSUME NEW t \in Versions, IInv, Spans, Serial(t), Reruns, [Next]_vars
  PROVE  Reruns'
<1> USE DEF IInv
<1>1. ASSUME NEW j \in Jobs, ListTags(j) PROVE Reruns'
  <2>1. /\ pc[j] = "idle" /\ pc'[j] = "listed" /\ quiet' = quiet \cup {j}
        /\ listing'[j] = {v \in Versions : tags[v] # 0}
        /\ \A i \in Jobs \ {j} : pc'[i] = pc[i] /\ listing'[i] = listing[i]
        /\ UNCHANGED <<tags, reported, db, txn, known, pending, settled>>
    BY <1>1 DEF ListTags, Goto, vendorVars, TypeOK
  <2>2. Derived(j)' /\ UpToDate(j)' /\ (settled => NoneToNote(j)')
    BY <2>1 DEF Reruns, Derived, UpToDate, NoneToNote
  <2> QED
    BY <2>1, <2>2, RerunsOwnStep
<1>2. ASSUME NEW j \in Jobs, UpsertReleases(j) PROVE Reruns'
  <2>1. PICK v \in NextRow(j) : upsert(j, [NoRows EXCEPT !.release[v] = "tagged"])
    BY <1>2 DEF UpsertReleases
  <2>2. v \in Versions
    BY DEF NextRow, Unwritten, TypeOK
  <2> DEFINE w == [NoRows EXCEPT !.release[v] = "tagged"]
  <2>3. /\ w \in Rows /\ w.contents = {} /\ w.commits = {} /\ w.links = {}
        /\ \A k \in Keys : w.tickets[k] = "none"
        /\ \A x \in Versions : w.release[x] = IF x = v THEN "tagged" ELSE "none"
    BY <2>2 DEF NoRows, Rows
  <2>4. upsert(j, w)
    BY <2>1
  <2> HIDE DEF w
  <2>5. /\ pc[j] = "listed"
        /\ UNCHANGED <<tags, reported, db, pc, listing, known, pending, quiet, settled>>
    BY <1>2 DEF UpsertReleases, vendorVars, jobVars
  <2>6. /\ \A i \in Jobs \ {j} : txn'[i] = txn[i]
        /\ \A x : x \in txn'[j].contents <=> x \in txn[j].contents
        /\ \A x : x \in txn'[j].commits <=> x \in txn[j].commits
        /\ \A x : x \in txn'[j].links <=> x \in txn[j].links
        /\ \A k \in Keys : txn[j].tickets[k] = "none" => txn'[j].tickets[k] = "none"
        /\ \A x \in Versions : txn'[j].release[x] = "untagged" => txn[j].release[x] = "untagged"
    BY <2>3, <2>4, UpsertStep, UpsertedType
  <2>7. Derived(j)' /\ UpToDate(j)' /\ (settled => NoneToNote(j)')
    BY <2>5, <2>6 DEF Reruns, Derived, UpToDate, NoneToNote
  <2> QED
    BY <2>5, <2>6, <2>7, RerunsOwnStep
<1>11. ASSUME NEW j \in Jobs, PairTags(j) PROVE Reruns'
  <2>1. /\ pc[j] = "listed" /\ pc'[j] = "pairs"
        /\ \A i \in Jobs \ {j} : pc'[i] = pc[i]
        /\ UNCHANGED <<tags, reported, db, txn, listing, known, pending, quiet, settled>>
    BY <1>11 DEF PairTags, vendorVars, Goto, TypeOK
  <2>2. Derived(j)' /\ UpToDate(j)' /\ (settled => NoneToNote(j)')
    BY <2>1 DEF Reruns, Derived, UpToDate, NoneToNote
  <2> QED
    BY <2>1, <2>2, RerunsOwnStep
<1>3. ASSUME NEW j \in Jobs, IngestPair(j) PROVE Reruns'
  <2>1. PICK v \in todo[j] :
          LET new == compare_commits(tags[PreviousOf(listing[j], v)], tags[v]) IN
          upsert(j, [NoRows EXCEPT
            !.contents = {v} \X new,
            !.commits = new,
            !.links = {l \in new \X Keys : l[2] \in TicketsOf[l[1]]}])
    BY <1>3 DEF IngestPair
  <2>2. v \in Versions
    BY DEF TypeOK
  <2> DEFINE new == compare_commits(tags[PreviousOf(listing[j], v)], tags[v])
             links == {l \in new \X Keys : l[2] \in TicketsOf[l[1]]}
             w == [NoRows EXCEPT !.contents = {v} \X new, !.commits = new, !.links = links]
  <2>3. new \subseteq Commits
    BY DEF compare_commits
  <2> HIDE DEF new
  <2>4. /\ w \in Rows /\ w.contents = {v} \X new /\ w.commits = new /\ w.links = links
        /\ \A k \in Keys : w.tickets[k] = "none"
        /\ \A x \in Versions : w.release[x] = "none"
    BY <2>2, <2>3 DEF NoRows, Rows
  <2>5. upsert(j, w)
    BY <2>1 DEF new
  <2>6. \A l \in links : l[1] \in new /\ l[2] \in TicketsOf[l[1]]
    OBVIOUS
  <2> HIDE DEF w, links
  <2>7. pc[j] = "pairs" /\ UNCHANGED <<tags, reported, db, pc, listing, known, pending, quiet, settled>>
    BY <1>3 DEF IngestPair, vendorVars
  <2>8. /\ \A i \in Jobs \ {j} : txn'[i] = txn[i]
        /\ txn'[j].contents = txn[j].contents \cup ({v} \X new)
        /\ txn'[j].commits = txn[j].commits \cup new
        /\ txn'[j].links = txn[j].links \cup links
        /\ \A k \in Keys : txn'[j].tickets[k] = "none" <=> txn[j].tickets[k] = "none"
        /\ \A u \in Versions : txn'[j].release[u] = txn[j].release[u]
    BY <2>4, <2>5, UpsertStep, UpsertedType
  <2>9. \A c \in txn'[j].commits : \E x \in txn'[j].contents : x[2] = c
    <3> SUFFICES ASSUME NEW c \in txn'[j].commits PROVE \E x \in txn'[j].contents : x[2] = c
      OBVIOUS
    <3>1. CASE c \in txn[j].commits
      BY <2>8, <3>1 DEF Reruns, Derived
    <3>2. CASE c \in new
      <4>1. <<v, c>> \in txn'[j].contents /\ <<v, c>>[2] = c
        BY <2>8, <3>2
      <4> QED
        BY <4>1
    <3> QED
      BY <2>8, <3>1, <3>2
  <2>10. \A l \in txn'[j].links : l[1] \in txn'[j].commits /\ l[2] \in TicketsOf[l[1]]
    BY <2>6, <2>8 DEF Reruns, Derived
  <2>11. Derived(j)' /\ UpToDate(j)'
    BY <2>7, <2>8, <2>9, <2>10 DEF Reruns, Derived, UpToDate
  <2>12. settled => NoneToNote(j)'
    BY <2>7, <2>8 DEF Reruns, NoneToNote
  <2> QED
    BY <2>7, <2>8, <2>11, <2>12, RerunsOwnStep
<1>4. ASSUME NEW j \in Jobs, ingest_jira(j) PROVE Reruns'
  <2> DEFINE refs == Referenced(txn[j])
             rows == TicketRows(refs)
             w == [NoRows EXCEPT !.tickets = rows]
  <2>1. rows \in [Keys -> {"none", "missing", "found"}]
    BY DEF TicketRows
  <2>2. upsert(j, w) /\ OneRow(refs)
    BY <1>4 DEF ingest_jira, TicketRows, OneRow
  <2> HIDE DEF rows
  <2>3. /\ w \in Rows /\ w.contents = {} /\ w.commits = {} /\ w.links = {} /\ w.tickets = rows
        /\ \A x \in Versions : w.release[x] = "none"
    BY <2>1 DEF NoRows, Rows
  <2> HIDE DEF w
  <2>4. /\ pc[j] = "pairs" /\ pc'[j] = "known"
        /\ \A i \in Jobs \ {j} : pc'[i] = pc[i]
        /\ UNCHANGED <<tags, reported, db, listing, known, pending, quiet, settled>>
    BY <1>4 DEF ingest_jira, Goto, vendorVars, jobVars, TypeOK
  <2>5. /\ \A i \in Jobs \ {j} : txn'[i] = txn[i]
        /\ txn'[j].contents = txn[j].contents
        /\ txn'[j].commits = txn[j].commits
        /\ txn'[j].links = txn[j].links
        /\ \A u \in Versions : txn'[j].release[u] = txn[j].release[u]
        /\ txn'[j] = Upserted(txn[j], w)
    <3>1. /\ txn'[j] = Upserted(txn[j], w) /\ txn[j] \in Rows
          /\ \A i \in Jobs \ {j} : txn'[i] = txn[i]
      BY <2>2, <2>3, UpsertStep
    <3>2. /\ txn'[j].contents = txn[j].contents \cup {}
          /\ txn'[j].commits = txn[j].commits \cup {}
          /\ txn'[j].links = txn[j].links \cup {}
      BY <2>3, <3>1 DEF Upserted
    <3>3. \A u \in Versions : txn'[j].release[u] = txn[j].release[u]
      BY <2>3, <3>1 DEF Upserted
    <3> QED
      BY <3>1, <3>2, <3>3
  <2>6. txn'[j].tickets = rows
    <3>1. \A k \in Keys : txn[j].tickets[k] = "none"
      BY <2>4 DEF Reruns, Derived
    <3>2. rows = [k \in Keys |-> rows[k]]
      BY <2>1
    <3>3. \A k \in Keys : (IF rows[k] # "none" THEN rows[k] ELSE txn[j].tickets[k]) = rows[k]
      BY <3>1
    <3> QED
      BY <2>3, <2>5, <3>2, <3>3 DEF Upserted
  <2>7. Derived(j)'
    <3>1. Referenced(txn'[j]) = refs
      BY <2>5 DEF Referenced
    <3>2. txn'[j].tickets = TicketRows(Referenced(txn'[j])) /\ OneRow(Referenced(txn'[j]))
      BY <2>2, <2>6, <3>1 DEF rows
    <3>3. (txn[j].tickets = TicketRows(Referenced(txn[j])) /\ OneRow(Referenced(txn[j])))'
      BY <3>2 DEF OneRow, TicketRows, Referenced, StoredKey
    <3> QED
      BY <2>4, <2>5, <3>3 DEF Reruns, Derived
  <2>8. UpToDate(j)' /\ (settled => NoneToNote(j)')
    BY <2>4, <2>5 DEF Reruns, UpToDate, NoneToNote
  <2> QED
    BY <2>4, <2>5, <2>7, <2>8, RerunsOwnStep
<1>5. ASSUME NEW j \in Jobs, LoadKnown(j) PROVE Reruns'
  <2>1. /\ pc[j] = "known" /\ pc'[j] = "sentry"
        /\ known'[j] = {v \in Versions : Visible(j).release[v] # "none"}
        /\ pending'[j] = reported
        /\ \A i \in Jobs \ {j} : pc'[i] = pc[i] /\ known'[i] = known[i] /\ pending'[i] = pending[i]
        /\ UNCHANGED <<tags, reported, db, txn, listing, quiet, settled>>
    BY <1>5 DEF LoadKnown, Goto, vendorVars, TypeOK
  <2>2. \A v \in Versions : v \in known'[j] <=> db.release[v] # "none" \/ txn[j].release[v] # "none"
    BY <2>1, UpsertedType DEF Visible, TypeOK
  <2>3. known'[j] \subseteq Versions /\ reported \subseteq Versions
    BY <2>1 DEF TypeOK
  <2>4. Derived(j)'
    BY <2>1 DEF Reruns, Derived, OneRow, TicketRows, Referenced, StoredKey
  <2>5. UpToDate(j)'
    BY <2>1, <2>2, <2>3 DEF Reruns, UpToDate
  <2>6. settled => NoneToNote(j)'
    BY <2>1, <2>2, <2>3 DEF Reruns, NoneToNote, Complete
  <2> QED
    BY <2>1, <2>4, <2>5, <2>6, RerunsOwnStep
<1>6. ASSUME NEW j \in Jobs, NoteRelease(j) PROVE Reruns'
  <2>1. PICK v \in pending[j] \ known[j] :
          /\ upsert(j, [NoRows EXCEPT !.release[v] = "untagged"])
          /\ known' = [known EXCEPT ![j] = @ \cup {v}]
          /\ pending' = [pending EXCEPT ![j] = @ \ {v}]
    BY <1>6 DEF NoteRelease
  <2>2. /\ pc[j] = "sentry" /\ v \in Versions
        /\ known'[j] = known[j] \cup {v} /\ pending'[j] = pending[j] \ {v}
        /\ \A i \in Jobs \ {j} : known'[i] = known[i] /\ pending'[i] = pending[i]
        /\ UNCHANGED <<tags, reported, db, pc, listing, quiet, settled>>
    BY <1>6, <2>1 DEF NoteRelease, vendorVars, TypeOK
  <2> DEFINE w == [NoRows EXCEPT !.release[v] = "untagged"]
  <2>3. /\ w \in Rows /\ w.contents = {} /\ w.commits = {} /\ w.links = {}
        /\ w.release[v] = "untagged" /\ \A k \in Keys : w.tickets[k] = "none"
    BY <2>2 DEF NoRows, Rows
  <2>4. upsert(j, w)
    BY <2>1
  <2> HIDE DEF w
  <2>5. /\ txn'[j] = Upserted(txn[j], w) /\ txn[j] \in Rows
        /\ \A i \in Jobs \ {j} : txn'[i] = txn[i]
    BY <2>3, <2>4, UpsertStep
  <2>6. /\ txn'[j].contents = txn[j].contents
        /\ txn'[j].commits = txn[j].commits
        /\ txn'[j].links = txn[j].links
        /\ \A u \in Versions : txn[j].release[u] # "none" => txn'[j].release[u] # "none"
        /\ txn'[j].release[v] # "none"
    <3>1. /\ txn'[j].contents = txn[j].contents \cup {}
          /\ txn'[j].commits = txn[j].commits \cup {}
          /\ txn'[j].links = txn[j].links \cup {}
      BY <2>3, <2>5 DEF Upserted
    <3>2. \A u \in Versions : txn[j].release[u] # "none" => txn'[j].release[u] # "none"
      BY <2>3, <2>5, UpsertedType
    <3>3. txn'[j].release[v] # "none"
      BY <2>2, <2>3, <2>5, UpsertedType
    <3> QED
      BY <3>1, <3>2, <3>3
  <2>7. txn'[j].tickets = txn[j].tickets
    <3>1. txn[j].tickets = [k \in Keys |-> txn[j].tickets[k]]
      BY <2>5 DEF Rows
    <3> QED
      BY <2>3, <2>5, <3>1 DEF Upserted
  <2>8. Derived(j)'
    BY <2>2, <2>6, <2>7 DEF Reruns, Derived, OneRow, TicketRows, Referenced, StoredKey
  <2>9. UpToDate(j)'
    <3>1. \A u \in known[j] : u \in Versions
      BY DEF TypeOK
    <3> QED
      BY <2>2, <2>6, <3>1 DEF Reruns, UpToDate
  <2>10. ~settled
    BY <2>2 DEF Reruns, NoneToNote
  <2> QED
    BY <2>2, <2>5, <2>8, <2>9, <2>10, RerunsOwnStep
<1>7. ASSUME NEW j \in Jobs, Commit(j) \/ Abort(j) PROVE Reruns'
  BY <1>7, RerunsEndStep
<1>8. CASE CreateTag \/ Report
  <2>1. quiet' = {} /\ settled' = FALSE /\ UNCHANGED <<db, txn, pc, known>>
    BY <1>8 DEF CreateTag, Report, jobVars
  <2> QED
    BY <2>1 DEF Reruns, CommitsPlaced, Derived, UpToDate, OneRow, TicketRows, Referenced, StoredKey
<1>9. CASE UNCHANGED vars
  BY <1>9 DEF vars, Reruns, CommitsPlaced, Derived, UpToDate, Complete, NoneToNote, OneRow,
     TicketRows, Referenced, StoredKey
<1> QED
  BY <1>1, <1>2, <1>3, <1>4, <1>5, <1>6, <1>7, <1>8, <1>9, <1>11 DEF Next, JobStep

\* ingest.py's "a re-run yields identical rows": where some tag existed before
\* the first job and tags are only created on top, no job changes a row after
\* one has committed that saw nothing but the vendors' present state, neither
\* a re-run nor a job that began long before and commits late.
THEOREM RerunsAreIdentical ==
  ASSUME NEW t \in Versions, InitTags[t] # 0, Inserted = FALSE
  PROVE  Spec => RerunIdentical
<1>1. Init => Serial(t) /\ Spans /\ Reruns
  BY SerialInit, SpansInit, RerunsInit
<1>2. IInv /\ Serial(t) /\ Spans /\ Reruns /\ [Next]_vars => Serial(t)' /\ Spans' /\ Reruns'
  BY SerialStep, SpansStep, RerunsStep
<1>3. ASSUME IInv, Serial(t), Spans, Reruns, [Next]_vars, settled, settled'
      PROVE  db' = db
  <2>1. ASSUME NEW j \in Jobs, Commit(j) PROVE db' = db
    BY <1>3, <2>1, RewritesTheSame DEF Commit, Visible
  <2>2. CASE UNCHANGED db
    BY <2>2
  <2> QED
    BY <1>3, <2>1, <2>2 DEF Next, JobStep, ListTags, UpsertReleases, PairTags, IngestPair, ingest_jira,
       LoadKnown, NoteRelease, Abort, CreateTag, Report, vars
<1>4. IInv /\ Serial(t) /\ Spans /\ Reruns /\ [Next]_vars => [settled /\ settled' => db' = db]_vars
  BY <1>3
<1> QED
  BY <1>1, <1>2, <1>4, Invariance, PTL DEF Spec, RerunIdentical

-----------------------------------------------------------------------------
(* A request, beside any number of jobs that commit between its statements. *)

Graph == [tagged  : SUBSET Versions,
          files   : SUBSET Commits,
          keys    : SUBSET (Commits \X Keys),
          commits : SUBSET (Versions \X Commits),
          tickets : SUBSET Keys]

(* What is stored of a tagged version with a predecessor is all there is   *)
(* to store, whatever commits after that.                                  *)
Stored(v) == tags[v] # 0 /\ Below(v) /\ {v} \X Span(v) \subseteq db.contents

(* What the statements so far returned about version v.  The third and     *)
(* the second bind the fourth, which is read after them.                   *)
Judged(v) ==
  /\ Stored(v)
  /\ at > 2 => Span(v) \subseteq graph.files
  /\ at > 3 => \A c \in Span(v) : \A k \in TicketsOf[c] : <<c, k>> \in graph.keys
  /\ at > 4 => CommitsOf(graph, v) \subseteq Span(v)
  /\ at > 5 => \A c \in Span(v) : \A k \in TicketsOf[c] : StoredKey(k) = k => k \in graph.tickets

Reads ==
  /\ at \in 0 .. Build
  /\ graph \in Graph
  /\ at > 1 => \A v \in graph.tagged : HasPrevious(graph, v) => Judged(v)

CInv == IInv /\ Spans /\ Reads

-----------------------------------------------------------------------------
LEMMA OrderIs ==
  /\ Build = 6 /\ Len(Order) = 5
  /\ Order[1] = "tagged" /\ Order[2] = "files" /\ Order[3] = "keys"
  /\ Order[4] = "commits" /\ Order[5] = "tickets"
  BY DEF Build, Order

LEMMA GraphType ==
  ASSUME NEW d \in Rows
  PROVE  GraphOf(d) \in Graph
<1>1. {x \in d.contents : x[2] \in d.commits} \subseteq Versions \X Commits
  BY DEF Rows
<1>2. d.commits \subseteq Commits /\ d.links \subseteq Commits \X Keys
  BY DEF Rows
<1> QED
  BY <1>1, <1>2 DEF GraphOf, Graph

\* A statement reads one part of the graph.
LEMMA QueryEffect ==
  ASSUME IInv, Reads, Query
  PROVE  /\ at \in 1 .. 5 /\ at' = at + 1 /\ UNCHANGED <<vars, seen>>
         /\ graph' \in Graph
         /\ graph'.tagged  = IF at = 1 THEN GraphOf(db).tagged  ELSE graph.tagged
         /\ graph'.files   = IF at = 2 THEN GraphOf(db).files   ELSE graph.files
         /\ graph'.keys    = IF at = 3 THEN GraphOf(db).keys    ELSE graph.keys
         /\ graph'.commits = IF at = 4 THEN GraphOf(db).commits ELSE graph.commits
         /\ graph'.tickets = IF at = 5 THEN GraphOf(db).tickets ELSE graph.tickets
<1>1. /\ at \in 1 .. 5 /\ at' = at + 1 /\ UNCHANGED <<vars, seen>>
      /\ graph' = [graph EXCEPT ![Order[at]] = GraphOf(db)[Order[at]]]
  BY OrderIs DEF Query
<1>2. graph \in Graph /\ GraphOf(db) \in Graph
  BY GraphType DEF Reads, IInv, TypeOK
<1> DEFINE g == GraphOf(db)
<1> HIDE DEF g
<1>3. CASE at = 1
  <2>1. graph' = [graph EXCEPT !.tagged = g.tagged]
    BY <1>1, <1>3, OrderIs DEF g
  <2> QED
    BY <1>1, <1>2, <1>3, <2>1 DEF Graph, g
<1>4. CASE at = 2
  <2>1. graph' = [graph EXCEPT !.files = g.files]
    BY <1>1, <1>4, OrderIs DEF g
  <2> QED
    BY <1>1, <1>2, <1>4, <2>1 DEF Graph, g
<1>5. CASE at = 3
  <2>1. graph' = [graph EXCEPT !.keys = g.keys]
    BY <1>1, <1>5, OrderIs DEF g
  <2> QED
    BY <1>1, <1>2, <1>5, <2>1 DEF Graph, g
<1>6. CASE at = 4
  <2>1. graph' = [graph EXCEPT !.commits = g.commits]
    BY <1>1, <1>6, OrderIs DEF g
  <2> QED
    BY <1>1, <1>2, <1>6, <2>1 DEF Graph, g
<1>7. CASE at = 5
  <2>1. graph' = [graph EXCEPT !.tickets = g.tickets]
    BY <1>1, <1>7, OrderIs DEF g
  <2> QED
    BY <1>1, <1>2, <1>7, <2>1 DEF Graph, g
<1> QED
  BY <1>1, <1>3, <1>4, <1>5, <1>6, <1>7

-----------------------------------------------------------------------------
\* The committed tables have what is stored of v, and what it refers to.
LEMMA StoredRows ==
  ASSUME IInv, Spans, NEW v \in Versions, Stored(v)
  PROVE  /\ Span(v) \subseteq db.commits
         /\ \A c \in Span(v) : \A k \in TicketsOf[c] :
              /\ k \in Keys /\ <<c, k>> \in db.links
              /\ db.tickets[StoredKey(k)] # "none"
         /\ \A x \in db.contents : x[1] = v => x[2] \in Span(v)
<1>1. \A c \in Span(v) : c \in Commits /\ TicketsOf[c] \subseteq Keys
  BY VendorAssumption DEF Span
<1>2. \A c \in Span(v) : <<v, c>> \in db.contents
  BY DEF Stored
<1>3. Span(v) \subseteq db.commits
  <2> SUFFICES ASSUME NEW c \in Span(v) PROVE c \in db.commits
    OBVIOUS
  <2>1. <<v, c>>[2] \in db.commits
    BY <1>2 DEF IInv, Whole, Closed
  <2> QED
    BY <2>1
<1>4. \A c \in Span(v) : \A k \in TicketsOf[c] :
        <<c, k>> \in db.links /\ db.tickets[StoredKey(k)] # "none"
  BY <1>1, <1>3 DEF IInv, Whole, Closed
<1>5. \A x \in db.contents : x[1] = v => x[2] \in Span(v)
  BY DEF Spans, SpansStored
<1> QED
  BY <1>1, <1>3, <1>4, <1>5

\* A tagged version with a tagged predecessor is stored.
LEMMA TaggedStored ==
  ASSUME IInv, Spans, NEW v \in GraphOf(db).tagged, HasPrevious(GraphOf(db), v)
  PROVE  v \in Versions /\ Stored(v)
<1>1. v \in Versions /\ db.release[v] = "tagged"
  BY DEF GraphOf
<1>2. PICK u \in Versions : u < v /\ db.release[u] = "tagged"
  BY DEF GraphOf, HasPrevious
<1>3. tags[v] # 0 /\ tags[u] # 0
  BY <1>1, <1>2 DEF Spans, SpansStored
<1>4. Below(v)
  BY <1>2, <1>3 DEF Below
<1> QED
  BY <1>1, <1>3, <1>4 DEF Spans, SpansStored, Stored

LEMMA ReadsQueryStep ==
  ASSUME IInv, Spans, Reads, Query
  PROVE  Reads'
<1>1. /\ at \in 1 .. 5 /\ at' = at + 1 /\ UNCHANGED <<vars, seen>>
      /\ graph' \in Graph
      /\ graph'.tagged  = IF at = 1 THEN GraphOf(db).tagged  ELSE graph.tagged
      /\ graph'.files   = IF at = 2 THEN GraphOf(db).files   ELSE graph.files
      /\ graph'.keys    = IF at = 3 THEN GraphOf(db).keys    ELSE graph.keys
      /\ graph'.commits = IF at = 4 THEN GraphOf(db).commits ELSE graph.commits
      /\ graph'.tickets = IF at = 5 THEN GraphOf(db).tickets ELSE graph.tickets
  BY QueryEffect
<1>2. at' \in 0 .. Build
  BY <1>1, OrderIs
<1> SUFFICES ASSUME NEW v \in graph'.tagged, HasPrevious(graph', v)
             PROVE  Judged(v)'
  BY <1>1, <1>2 DEF Reads
<1>3. v \in Versions /\ Stored(v)
  <2>1. CASE at = 1
    <3>1. graph'.tagged = GraphOf(db).tagged
      BY <1>1, <2>1
    <3> QED
      BY <3>1, TaggedStored DEF HasPrevious
  <2>2. CASE at > 1
    <3>1. graph'.tagged = graph.tagged
      BY <1>1, <2>2
    <3> QED
      BY <2>2, <3>1 DEF Reads, HasPrevious, Judged, Graph
  <2> QED
    BY <1>1, <2>1, <2>2
<1>4. Stored(v)' /\ Span(v)' = Span(v)
  BY <1>1, <1>3 DEF Stored, Below, Span, vars
<1>5. at > 1 => Judged(v)
  <2>1. at > 1 => graph'.tagged = graph.tagged
    BY <1>1
  <2> QED
    BY <2>1 DEF Reads, HasPrevious
<1>6. at' > 2 => Span(v) \subseteq graph'.files
  BY <1>1, <1>3, <1>5, StoredRows DEF Judged, GraphOf
<1>7. at' > 3 => \A c \in Span(v) : \A k \in TicketsOf[c] : <<c, k>> \in graph'.keys
  <2>1. CASE at = 3
    <3>1. graph'.keys = db.links
      BY <1>1, <2>1 DEF GraphOf
    <3>2. \A c \in Span(v) : \A k \in TicketsOf[c] : <<c, k>> \in db.links
      BY <1>3, StoredRows
    <3> QED
      BY <3>1, <3>2
  <2>2. CASE at > 3
    <3>1. graph'.keys = graph.keys
      BY <1>1, <2>2
    <3>2. Judged(v)
      BY <1>1, <1>5, <2>2
    <3>3. \A c \in Span(v) : \A k \in TicketsOf[c] : <<c, k>> \in graph.keys
      BY <2>2, <3>2 DEF Judged
    <3> QED
      BY <3>1, <3>3
  <2>3. at' > 3 => at = 3 \/ at > 3
    BY <1>1
  <2> QED
    BY <2>1, <2>2, <2>3
<1>8. at' > 4 => CommitsOf(graph', v) \subseteq Span(v)
  <2>1. CASE at = 4
    <3>1. \A c \in CommitsOf(graph', v) : <<v, c>> \in db.contents
      BY <1>1, <2>1 DEF CommitsOf, GraphOf
    <3>2. \A c \in CommitsOf(graph', v) : <<v, c>>[2] \in Span(v)
      BY <1>3, <3>1, StoredRows
    <3> QED
      BY <3>2
  <2>2. CASE at = 5
    BY <1>1, <1>5, <2>2 DEF Judged, CommitsOf
  <2> QED
    BY <1>1, <2>1, <2>2
<1>9. at' > 5 => \A c \in Span(v) : \A k \in TicketsOf[c] : StoredKey(k) = k => k \in graph'.tickets
  <2>1. CASE at = 5
    <3>1. graph'.tickets = {k \in Keys : db.tickets[k] # "none"}
      BY <1>1, <2>1 DEF GraphOf
    <3>2. \A c \in Span(v) : \A k \in TicketsOf[c] : k \in Keys /\ db.tickets[StoredKey(k)] # "none"
      BY <1>3, StoredRows
    <3> QED
      BY <3>1, <3>2
  <2> QED
    BY <1>1, <2>1
<1> QED
  BY <1>4, <1>6, <1>7, <1>8, <1>9 DEF Judged, CommitsOf

LEMMA TagsMove ==
  ASSUME [Next]_vars
  PROVE  tags' = tags \/ CreateTag
BY DEF Next, JobStep, ListTags, UpsertReleases, PairTags, IngestPair, ingest_jira, LoadKnown,
   NoteRelease, Commit, Abort, Report, vars, vendorVars

\* What an ingest or a vendor does meanwhile changes nothing that is stored.
LEMMA StoredStays ==
  ASSUME IInv, Inserted = FALSE, [Next]_vars, NEW v \in Versions, Stored(v)
  PROVE  Stored(v)' /\ Span(v)' = Span(v)
<1>1. tags' = tags \/ CreateTag
  BY TagsMove
<1>2. tags'[v] # 0 /\ (Below(v)' <=> Below(v)) /\ Span(v)' = Span(v)
  <2>1. CASE tags' = tags
    BY <2>1 DEF Stored, Below, Span
  <2>2. CASE CreateTag
    BY <2>2, TagOnTop DEF Stored
  <2> QED
    BY <1>1, <2>1, <2>2
<1>3. db.contents \subseteq db'.contents
  <2>1. ASSUME NEW j \in Jobs, Commit(j) PROVE db.contents \subseteq db'.contents
    BY <2>1 DEF Commit, Visible, Upserted
  <2>2. CASE UNCHANGED db
    BY <2>2
  <2> QED
    BY <2>1, <2>2 DEF Next, JobStep, ListTags, UpsertReleases, PairTags, IngestPair, ingest_jira,
       LoadKnown, NoteRelease, Abort, CreateTag, Report, vars
<1> QED
  BY <1>2, <1>3 DEF Stored

LEMMA ReadsMeanwhileStep ==
  ASSUME IInv, Spans, Reads, Inserted = FALSE, [Next]_vars, UNCHANGED <<at, graph>>
  PROVE  Reads'
<1> SUFFICES ASSUME at > 1, NEW v \in graph.tagged, HasPrevious(graph, v)
             PROVE  Judged(v)'
  BY DEF Reads, HasPrevious
<1>1. v \in Versions /\ Judged(v)
  BY DEF Reads, Graph
<1>2. Stored(v)' /\ Span(v)' = Span(v)
  BY <1>1, StoredStays DEF Judged
<1> QED
  BY <1>1, <1>2 DEF Judged, CommitsOf

LEMMA ReadsStep ==
  ASSUME CInv, Inserted = FALSE, [ContextNext]_<<vars, readVars>>
  PROVE  CInv'
<1> USE DEF CInv
<1>1. [Next]_vars
  BY DEF ContextNext, get_incident_context, Query, Answer, Meanwhile
<1>2. IInv' /\ Spans'
  BY <1>1, IStep, SpansStep
<1>3. Reads'
  <2>1. CASE Query
    BY <2>1, ReadsQueryStep
  <2>2. CASE Meanwhile
    BY <1>1, <2>2, ReadsMeanwhileStep DEF Meanwhile
  <2>3. CASE get_incident_context
    BY <2>3, OrderIs DEF get_incident_context, Reads
  <2>4. CASE Answer
    BY <2>4, GraphType, NoRowsType, OrderIs DEF Answer, Reads, NoGraph
  <2>5. CASE UNCHANGED <<vars, readVars>>
    <3>1. UNCHANGED <<at, graph>>
      BY <2>5 DEF readVars
    <3> QED
      BY <1>1, <3>1, ReadsMeanwhileStep
  <2> QED
    BY <2>1, <2>2, <2>3, <2>4, <2>5 DEF ContextNext
<1> QED
  BY <1>2, <1>3

LEMMA ReadsInvariance ==
  ASSUME Inserted = FALSE
  PROVE  ContextSpec => []CInv
<1>1. ContextInit => CInv
  BY IInit, SpansInit, GraphType, NoRowsType, OrderIs DEF ContextInit, CInv, Reads, NoGraph
<1>2. CInv /\ [ContextNext]_<<vars, readVars>> => CInv'
  BY ReadsStep
<1> QED
  BY <1>1, <1>2, PTL DEF ContextSpec

\* context.py: where suspects are stated, every commit of the release has been
\* judged by its files, with its keys and their tickets, whichever jobs commit
\* between the statements.
THEOREM CommitsAreJudged ==
  ASSUME Inserted = FALSE
  PROVE  ContextSpec => []SuspectsJudged
<1>1. CInv => SuspectsJudged
  <2> SUFFICES ASSUME CInv, at = Build, NEW v \in Versions,
                      build_incident_context(graph, v, TRUE).suspects = "KNOWN",
                      NEW a \in build_incident_context(graph, v, TRUE).commits
               PROVE  /\ a.files
                      /\ a.keys = TicketsOf[a.sha]
                      /\ \A k \in a.keys : StoredKey(k) = k =>
                           k \in build_incident_context(graph, v, TRUE).tickets
    BY DEF SuspectsJudged
  <2> DEFINE answer == build_incident_context(graph, v, TRUE)
             own == CommitsOf(graph, v)
  <2>1. v \in graph.tagged /\ HasPrevious(graph, v)
    BY DEF build_incident_context, Unknown
  <2>2. /\ answer.commits = {[sha |-> c, files |-> c \in graph.files, keys |-> KeysOf(graph, c)] : c \in own}
        /\ answer.tickets = graph.tickets \cap UNION {KeysOf(graph, c) : c \in own}
    BY <2>1 DEF build_incident_context
  <2>3. PICK c \in own : a = [sha |-> c, files |-> c \in graph.files, keys |-> KeysOf(graph, c)]
    BY <2>2
  <2>4. /\ Span(v) \subseteq graph.files
        /\ \A k \in TicketsOf[c] : <<c, k>> \in graph.keys
        /\ c \in Span(v)
        /\ \A k \in TicketsOf[c] : StoredKey(k) = k => k \in graph.tickets
    BY <2>1, OrderIs DEF CInv, Reads, Judged
  <2>5. KeysOf(graph, c) = TicketsOf[c]
    BY <2>4 DEF KeysOf
  <2>6. a.files /\ a.keys = TicketsOf[a.sha]
    BY <2>3, <2>4, <2>5
  <2>7. \A k \in a.keys : StoredKey(k) = k => k \in answer.tickets
    BY <2>2, <2>3, <2>4, <2>5
  <2> QED
    BY <2>6, <2>7
<1> QED
  BY <1>1, ReadsInvariance, PTL

-----------------------------------------------------------------------------
(* The answer of one moment.  Where some tag exists from the start, jobs   *)
(* write one at a time, and keep tags; where tags are created on top, a    *)
(* tagged version then has every lower tag with it.                        *)

Chained ==
  \A u, v \in Versions : db.release[v] = "tagged" /\ u < v /\ tags[u] # 0 => db.release[u] = "tagged"

(* What the versions of the first statement are ever after.                *)
Kept(v) ==
  /\ v \in Versions /\ tags[v] # 0 /\ db.release[v] = "tagged"
  /\ ~HasPrevious(graph, v) => ~Below(v)

(* Is the answer for v the one of tables d?                                *)
AnswerOf(d, v) ==
  \A m \in BOOLEAN : build_incident_context(graph, v, m) = build_incident_context(GraphOf(d), v, m)

Moments ==
  /\ at > 0 => db \in seen
  /\ at > 1 => \A v \in graph.tagged : Kept(v)
  /\ at > 1 => \E d \in seen :
       /\ graph.tagged = GraphOf(d).tagged
       /\ \A v \in graph.tagged : ~HasPrevious(graph, v) => CommitsOf(GraphOf(d), v) = {}
  /\ at > 4 => \A v \in graph.tagged :
       CommitsOf(graph, v) = IF HasPrevious(graph, v) THEN Span(v) ELSE {}
  /\ at > 5 => \A v \in graph.tagged : HasPrevious(graph, v) => \E d \in seen : AnswerOf(d, v)

LEMMA ChainStep ==
  ASSUME NEW t \in Versions, IInv, Spans, Serial(t), Chained, Inserted = FALSE, [Next]_vars
  PROVE  Chained'
<1> SUFFICES ASSUME NEW u \in Versions, NEW v \in Versions,
                    db'.release[v] = "tagged", u < v, tags'[u] # 0
             PROVE  db'.release[u] = "tagged"
  BY DEF Chained
<1>1. ASSUME NEW j \in Jobs, Commit(j) PROVE db'.release[u] = "tagged"
  <2>1. pc[j] = "sentry" /\ db' = Upserted(db, txn[j]) /\ tags' = tags
    BY <1>1 DEF Commit, Visible, vendorVars
  <2>2. db \in Rows /\ txn[j] \in Rows
    BY DEF IInv, TypeOK
  <2>3. CASE db.release[v] = "tagged"
    <3>1. db.release[u] = "tagged"
      BY <2>1, <2>3 DEF Chained
    <3> QED
      BY <3>1, KeptStep
  <2>4. CASE db.release[v] # "tagged"
    <3>1. txn[j].release[v] = "tagged"
      BY <2>1, <2>2, <2>4, UpsertedType
    <3>2. v \in listing[j] /\ u \in listing[j]
      BY <2>1, <3>1 DEF Spans, Spanned, Listed
    <3>3. txn[j].release[u] = "tagged"
      BY <2>1, <3>2 DEF IInv, Holds, Writing
    <3> QED
      BY <2>1, <2>2, <3>3, UpsertedType
  <2> QED
    BY <2>3, <2>4
<1>2. CASE CreateTag
  <2>1. db' = db /\ db.release[v] = "tagged"
    BY <1>2 DEF CreateTag
  <2>2. tags[v] # 0
    BY <2>1 DEF Spans, SpansStored
  <2>3. tags[u] # 0
    BY <1>2, <2>2, TagOnTop
  <2> QED
    BY <2>1, <2>3 DEF Chained
<1>3. CASE db' = db /\ tags' = tags
  BY <1>3 DEF Chained
<1> QED
  BY <1>1, <1>2, <1>3 DEF Next, JobStep, ListTags, UpsertReleases, PairTags, IngestPair, ingest_jira,
     LoadKnown, NoteRelease, Abort, Report, vars, vendorVars

\* Two graphs with the same rows of a version give the same answer for it.
LEMMA SameAnswer ==
  ASSUME NEW g, NEW h, NEW v \in g.tagged \cap h.tagged, NEW m \in BOOLEAN,
         HasPrevious(g, v) <=> HasPrevious(h, v),
         CommitsOf(g, v) = CommitsOf(h, v),
         CommitsOf(g, v) \subseteq g.files, CommitsOf(h, v) \subseteq h.files,
         \A c \in CommitsOf(g, v) : KeysOf(g, c) = KeysOf(h, c),
         CommitsOf(g, v) = {} \/ g.tickets = h.tickets
  PROVE  build_incident_context(g, v, m) = build_incident_context(h, v, m)
<1> DEFINE own == CommitsOf(g, v)
           asked(f) == UNION {KeysOf(f, c) : c \in own}
           judged(f) == {[sha |-> c, files |-> c \in f.files, keys |-> KeysOf(f, c)] : c \in own}
<1>1. asked(g) = asked(h)
  OBVIOUS
<1>2. g.tickets \cap asked(g) = h.tickets \cap asked(h)
  <2>1. CASE own = {}
    BY <2>1
  <2>2. CASE g.tickets = h.tickets
    BY <1>1, <2>2
  <2> QED
    BY <2>1, <2>2
<1>3. judged(g) = judged(h)
  <2>1. \A c \in own : (c \in g.files) = TRUE /\ (c \in h.files) = TRUE /\ KeysOf(g, c) = KeysOf(h, c)
    OBVIOUS
  <2> QED
    BY <2>1
<1> DEFINE ok == HasPrevious(g, v) /\ m
           shas(f) == IF ok THEN own \cap f.files \cap Touching ELSE {}
<1>4. shas(g) = shas(h)
  <2>1. own \cap g.files = own /\ own \cap h.files = own
    OBVIOUS
  <2> QED
    BY <2>1
<1>5. ASSUME NEW f, f = g \/ f = h
      PROVE  build_incident_context(f, v, m) =
               [state    |-> "KNOWN",
                commits  |-> judged(f),
                tickets  |-> f.tickets \cap asked(f),
                suspects |-> IF ok THEN "KNOWN" ELSE "UNKNOWN",
                shas     |-> shas(f),
                finding  |-> IF ~HasPrevious(g, v) THEN "NO_PREVIOUS_RELEASE"
                             ELSE IF ~m THEN "FRAMES_UNMAPPABLE"
                             ELSE IF shas(f) = {} THEN "NO_SUSPECT_COMMIT" ELSE "none"]
  <2>1. v \in f.tagged /\ CommitsOf(f, v) = own /\ (HasPrevious(f, v) <=> HasPrevious(g, v))
    BY <1>5
  <2> QED
    BY <2>1 DEF build_incident_context
<1> HIDE DEF asked, judged, own, shas, ok
<1>6. build_incident_context(g, v, m) = build_incident_context(h, v, m)
  BY <1>2, <1>3, <1>4, <1>5
<1> QED
  BY <1>6

\* The commits that the tables have of a version.
LEMMA CommitsStored ==
  ASSUME IInv, Spans, NEW v \in Versions
  PROVE  /\ Stored(v) => CommitsOf(GraphOf(db), v) = Span(v)
         /\ ~Below(v) => CommitsOf(GraphOf(db), v) = {}
<1>1. CommitsOf(GraphOf(db), v) = {c \in Commits : <<v, c>> \in db.contents /\ c \in db.commits}
  BY DEF CommitsOf, GraphOf
<1>2. CASE Stored(v)
  <2>1. \A c \in Span(v) : c \in Commits /\ <<v, c>> \in db.contents /\ c \in db.commits
    BY <1>2, StoredRows DEF Stored, Span
  <2>2. \A c \in Commits : <<v, c>> \in db.contents => c \in Span(v)
    <3>1. \A c \in Commits : <<v, c>> \in db.contents => <<v, c>>[2] \in Span(v)
      BY <1>2, StoredRows
    <3> QED
      BY <3>1
  <2>3. Below(v)
    BY <1>2 DEF Stored
  <2> QED
    BY <1>1, <2>1, <2>2, <2>3
<1>3. ASSUME ~Below(v) PROVE CommitsOf(GraphOf(db), v) = {}
  <2>1. \A c \in Commits : <<v, c>> \in db.contents => Below(<<v, c>>[1])
    BY DEF Spans, SpansStored
  <2> QED
    BY <1>1, <1>3, <2>1
<1> QED
  BY <1>2, <1>3

LEMMA MomentsQueryStep ==
  ASSUME IInv, Spans, Reads, Chained, Moments, Query
  PROVE  Moments'
<1>1. /\ at \in 1 .. 5 /\ at' = at + 1 /\ UNCHANGED <<vars, seen>>
      /\ graph' \in Graph
      /\ graph'.tagged  = IF at = 1 THEN GraphOf(db).tagged  ELSE graph.tagged
      /\ graph'.files   = IF at = 2 THEN GraphOf(db).files   ELSE graph.files
      /\ graph'.keys    = IF at = 3 THEN GraphOf(db).keys    ELSE graph.keys
      /\ graph'.commits = IF at = 4 THEN GraphOf(db).commits ELSE graph.commits
      /\ graph'.tickets = IF at = 5 THEN GraphOf(db).tickets ELSE graph.tickets
  BY QueryEffect
<1>2. db \in seen /\ seen' = seen /\ db' = db /\ tags' = tags
  BY <1>1 DEF Moments, vars
<1>3. at > 1 => graph'.tagged = graph.tagged
  BY <1>1
<1>4. ASSUME NEW v \in graph'.tagged
      PROVE  v \in Versions /\ tags[v] # 0 /\ db.release[v] = "tagged" /\ (~HasPrevious(graph', v) => ~Below(v))
  <2>1. CASE at = 1
    <3>1. graph'.tagged = {x \in Versions : db.release[x] = "tagged"}
      BY <1>1, <2>1 DEF GraphOf
    <3>2. v \in Versions /\ db.release[v] = "tagged" /\ tags[v] # 0
      BY <1>4, <3>1 DEF Spans, SpansStored
    <3>3. Below(v) => HasPrevious(graph', v)
      BY <3>1, <3>2 DEF Below, Chained, HasPrevious
    <3> QED
      BY <3>2, <3>3
  <2>2. CASE at > 1
    BY <1>3, <1>4, <2>2 DEF Moments, Kept, HasPrevious
  <2> QED
    BY <1>1, <2>1, <2>2
<1>5. \A v \in graph'.tagged : Kept(v)'
  BY <1>2, <1>4 DEF Kept, Below
<1>6. \E d \in seen : /\ graph'.tagged = GraphOf(d).tagged
                      /\ \A v \in graph'.tagged : ~HasPrevious(graph', v) => CommitsOf(GraphOf(d), v) = {}
  <2>1. CASE at = 1
    BY <1>1, <1>2, <1>4, <2>1, CommitsStored
  <2>2. CASE at > 1
    BY <1>3, <2>2 DEF Moments, HasPrevious
  <2> QED
    BY <1>1, <2>1, <2>2
<1>7. Reads'
  BY ReadsQueryStep
<1>8. ASSUME at > 3, NEW v \in graph'.tagged
      PROVE  CommitsOf(graph', v) = IF HasPrevious(graph', v) THEN Span(v) ELSE {}
  <2>1. CASE at = 4
    <3>1. CommitsOf(graph', v) = CommitsOf(GraphOf(db), v)
      BY <1>1, <2>1 DEF CommitsOf
    <3>2. HasPrevious(graph', v) => Stored(v)
      BY <1>3, <1>8, <2>1 DEF Reads, HasPrevious, Judged
    <3> QED
      BY <1>4, <3>1, <3>2, CommitsStored
  <2>2. CASE at = 5
    <3>1. CommitsOf(graph', v) = CommitsOf(graph, v) /\ graph'.tagged = graph.tagged
      BY <1>1, <2>2 DEF CommitsOf
    <3> QED
      BY <1>8, <2>2, <3>1 DEF Moments, HasPrevious
  <2> QED
    BY <1>1, <1>8, <2>1, <2>2
<1>9. ASSUME at = 5, NEW v \in graph'.tagged, HasPrevious(graph', v), NEW m \in BOOLEAN
      PROVE  build_incident_context(graph', v, m) = build_incident_context(GraphOf(db), v, m)
  <2> DEFINE h == GraphOf(db)
  <2>1. /\ Stored(v) /\ v \in Versions
        /\ Span(v) \subseteq graph'.files
        /\ \A c \in Span(v) : \A k \in TicketsOf[c] : <<c, k>> \in graph'.keys
    <3>1. Judged(v) /\ graph'.files = graph.files /\ graph'.keys = graph.keys
      BY <1>1, <1>3, <1>9 DEF Reads, HasPrevious
    <3> QED
      BY <1>4, <1>9, <3>1 DEF Judged
  <2>2. /\ Span(v) \subseteq h.files
        /\ \A c \in Span(v) : \A k \in TicketsOf[c] : <<c, k>> \in h.keys
    BY <2>1, StoredRows DEF GraphOf
  <2>3. CommitsOf(graph', v) = Span(v) /\ CommitsOf(h, v) = Span(v)
    BY <1>8, <1>9, <2>1, CommitsStored
  <2>4. \A c \in Span(v) : KeysOf(graph', c) = TicketsOf[c] /\ KeysOf(h, c) = TicketsOf[c]
    BY <2>1, <2>2 DEF KeysOf
  <2>5. graph'.tagged \subseteq h.tagged
    BY <1>4 DEF GraphOf
  <2>6. HasPrevious(h, v)
    BY <1>9, <2>5 DEF HasPrevious
  <2>7. graph'.tickets = h.tickets
    BY <1>1, <1>9
  <2> HIDE DEF h
  <2>8. v \in graph'.tagged \cap h.tagged
    BY <2>5
  <2> QED
    BY <1>9, <2>1, <2>2, <2>3, <2>4, <2>6, <2>7, <2>8, SameAnswer DEF h
<1>10. at = 5 => \A v \in graph'.tagged : HasPrevious(graph', v) => \E d \in seen : AnswerOf(d, v)'
  BY <1>2, <1>9 DEF AnswerOf
<1>11. \A v \in Versions : Span(v)' = Span(v)
  BY <1>2 DEF Span
<1> QED
  BY <1>1, <1>2, <1>4, <1>5, <1>6, <1>8, <1>10, <1>11 DEF Moments

LEMMA MomentsMeanwhileStep ==
  ASSUME NEW t \in Versions, IInv, Spans, Reads, Serial(t), Moments, Inserted = FALSE,
         [Next]_vars, UNCHANGED <<at, graph>>, at > 0 => db' \in seen' /\ seen \subseteq seen'
  PROVE  Moments'
<1>1. at \in 0 .. 6
  BY OrderIs DEF Reads
<1>2. tags' = tags \/ CreateTag
  BY TagsMove
<1>3. ASSUME NEW v \in Versions, tags[v] # 0
      PROVE  tags'[v] # 0 /\ (Below(v)' <=> Below(v)) /\ Span(v)' = Span(v)
  <2>1. CASE tags' = tags
    BY <1>3, <2>1 DEF Below, Span
  <2>2. CASE CreateTag
    BY <1>3, <2>2, TagOnTop
  <2> QED
    BY <1>2, <2>1, <2>2
<1>4. at > 1 => \A v \in graph.tagged : Kept(v)'
  <2> SUFFICES ASSUME at > 1, NEW v \in graph.tagged PROVE Kept(v)'
    OBVIOUS
  <2>1. v \in Versions /\ tags[v] # 0 /\ db.release[v] = "tagged" /\ (~HasPrevious(graph, v) => ~Below(v))
    BY DEF Moments, Kept
  <2>2. db'.release[v] = "tagged"
    BY <2>1, KeptStep
  <2>3. HasPrevious(graph, v)' <=> HasPrevious(graph, v)
    BY DEF HasPrevious
  <2> QED
    BY <1>3, <2>1, <2>2, <2>3 DEF Kept
<1>5. at > 4 => \A v \in graph.tagged :
        CommitsOf(graph, v)' = IF HasPrevious(graph, v)' THEN Span(v)' ELSE {}
  <2> SUFFICES ASSUME at > 4, NEW v \in graph.tagged
               PROVE  CommitsOf(graph, v)' = IF HasPrevious(graph, v)' THEN Span(v)' ELSE {}
    OBVIOUS
  <2>1. v \in Versions /\ tags[v] # 0
    BY DEF Moments, Kept, Reads
  <2>2. CommitsOf(graph, v)' = CommitsOf(graph, v) /\ (HasPrevious(graph, v)' <=> HasPrevious(graph, v))
    BY DEF HasPrevious, CommitsOf
  <2>3. CommitsOf(graph, v) = IF HasPrevious(graph, v) THEN Span(v) ELSE {}
    BY DEF Moments
  <2> QED
    BY <1>3, <2>1, <2>2, <2>3
<1>6. at > 1 => \E d \in seen' :
        /\ graph.tagged = GraphOf(d).tagged
        /\ \A v \in graph.tagged : ~HasPrevious(graph, v) => CommitsOf(GraphOf(d), v) = {}
  BY <1>1 DEF Moments
<1>7. at > 5 => \A v \in graph.tagged : HasPrevious(graph, v) => \E d \in seen' : AnswerOf(d, v)
  BY <1>1 DEF Moments
<1>8. graph' = graph /\ at' = at
  OBVIOUS
<1>9. at' > 1 => \E d \in seen' :
        /\ graph'.tagged = GraphOf(d).tagged
        /\ \A v \in graph'.tagged : ~HasPrevious(graph', v) => CommitsOf(GraphOf(d), v) = {}
  BY <1>6, <1>8
<1>10. \A d, v : AnswerOf(d, v) => AnswerOf(d, v)'
  BY <1>8 DEF AnswerOf
<1>11. at' > 5 => \A v \in graph'.tagged : HasPrevious(graph', v) => \E d \in seen' : AnswerOf(d, v)'
  BY <1>7, <1>8, <1>10
<1> QED
  BY <1>4, <1>5, <1>8, <1>9, <1>11 DEF Moments

LEMMA MomentsStep ==
  ASSUME NEW t \in Versions, CInv, Serial(t), Chained, Moments, Inserted = FALSE,
         [ContextNext]_<<vars, readVars>>
  PROVE  Serial(t)' /\ Chained' /\ Moments'
<1> USE DEF CInv
<1>1. [Next]_vars
  BY DEF ContextNext, get_incident_context, Query, Answer, Meanwhile
<1>2. Serial(t)' /\ Chained'
  BY <1>1, SerialStep, ChainStep
<1>3. Moments'
  <2>1. CASE Query
    BY <2>1, MomentsQueryStep
  <2>2. CASE Meanwhile
    <3>1. UNCHANGED <<at, graph>> /\ (at > 0 => seen' = seen \cup {db'})
      BY <2>2, OrderIs DEF Meanwhile, Reads
    <3>2. at > 0 => db' \in seen' /\ seen \subseteq seen'
      BY <3>1
    <3> QED
      BY <1>1, <3>1, <3>2, MomentsMeanwhileStep
  <2>3. CASE get_incident_context
    <3>1. at' = 1 /\ db' \in seen'
      BY <2>3 DEF get_incident_context, vars
    <3> QED
      BY <3>1 DEF Moments
  <2>4. CASE Answer
    <3>1. at' = 0
      BY <2>4 DEF Answer
    <3> QED
      BY <3>1 DEF Moments
  <2>5. CASE UNCHANGED <<vars, readVars>>
    <3>1. UNCHANGED <<at, graph>> /\ db' = db /\ seen' = seen
      BY <2>5 DEF readVars, vars
    <3>2. at > 0 => db' \in seen' /\ seen \subseteq seen'
      BY <3>1 DEF Moments
    <3> QED
      BY <1>1, <3>1, <3>2, MomentsMeanwhileStep
  <2> QED
    BY <2>1, <2>2, <2>3, <2>4, <2>5 DEF ContextNext
<1> QED
  BY <1>2, <1>3

\* The answer is the one of a moment: for a version without a predecessor that
\* of the first statement, for the others that of the last.
LEMMA MomentFound ==
  ASSUME IInv, Reads, Moments, at = Build, NEW v \in Versions, NEW m \in BOOLEAN
  PROVE  \E d \in seen :
           build_incident_context(graph, v, m) = build_incident_context(GraphOf(d), v, m)
<1>1. at = 6
  BY OrderIs
<1>2. PICK d \in seen :
        /\ graph.tagged = GraphOf(d).tagged
        /\ \A w \in graph.tagged : ~HasPrevious(graph, w) => CommitsOf(GraphOf(d), w) = {}
  BY <1>1 DEF Moments
<1>3. CASE v \notin graph.tagged
  <2>1. v \notin GraphOf(d).tagged
    BY <1>2, <1>3
  <2> QED
    BY <1>3, <2>1 DEF build_incident_context
<1>4. CASE v \in graph.tagged /\ ~HasPrevious(graph, v)
  <2> DEFINE h == GraphOf(d)
  <2>1. HasPrevious(h, v) <=> HasPrevious(graph, v)
    BY <1>2 DEF HasPrevious
  <2>2. CommitsOf(graph, v) = {} /\ CommitsOf(h, v) = {}
    BY <1>1, <1>2, <1>4 DEF Moments
  <2>3. v \in graph.tagged \cap h.tagged
    BY <1>2, <1>4
  <2> HIDE DEF h
  <2>4. build_incident_context(graph, v, m) = build_incident_context(h, v, m)
    BY <2>1, <2>2, <2>3, SameAnswer
  <2> QED
    BY <2>4 DEF h
<1>5. CASE v \in graph.tagged /\ HasPrevious(graph, v)
  <2>1. PICK e \in seen : AnswerOf(e, v)
    BY <1>1, <1>5 DEF Moments
  <2> QED
    BY <2>1 DEF AnswerOf
<1> QED
  BY <1>3, <1>4, <1>5

\* repository.py's load_release_graph: whatever commits between its five
\* statements, the context that context.py builds for any incident is the one
\* that the tables of a single moment of the request give, where some tag
\* exists from the start and tags are created on top.
THEOREM AnswersAreOfOneMoment ==
  ASSUME NEW t \in Versions, InitTags[t] # 0, Inserted = FALSE
  PROVE  ContextSpec => []AnswerOfOneMoment
<1>1. ContextInit => Serial(t) /\ Chained /\ Moments
  <2> SUFFICES ASSUME ContextInit PROVE Serial(t) /\ Chained /\ Moments
    OBVIOUS
  <2>1. Init /\ at = 0
    BY DEF ContextInit
  <2>2. Chained
    BY <2>1 DEF Init, NoRows, Chained
  <2>3. Moments
    BY <2>1 DEF Moments
  <2> QED
    BY <2>1, <2>2, <2>3, SerialInit
<1>2. CInv /\ Serial(t) /\ Chained /\ Moments /\ [ContextNext]_<<vars, readVars>>
        => (Serial(t) /\ Chained /\ Moments)'
  BY MomentsStep
<1>3. CInv /\ Moments => AnswerOfOneMoment
  BY MomentFound DEF CInv, AnswerOfOneMoment
<1> QED
  BY <1>1, <1>2, <1>3, ReadsInvariance, PTL DEF ContextSpec
=============================================================================
