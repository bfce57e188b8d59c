------------------------------- MODULE Explain -------------------------------
(***************************************************************************)
(* app/llm/service.py `explain`: concurrent requests for a generated text, *)
(* each in its own database session, over the shared llm_output table,     *)
(* with the retention job deleting from it and the API process dying at    *)
(* any point.                                                              *)
(*                                                                         *)
(* Postgres runs READ COMMITTED and the session object expires what it     *)
(* loaded when it commits, so a request reads the table up to three times: *)
(* once to look for a stored text, once inside session.merge (only when    *)
(* the first read found nothing), and once after its own commit, when the  *)
(* response is built.  Everything another session commits between these    *)
(* reads is visible.  The model's slow call sits between the first two.    *)
(*                                                                         *)
(* A sentence is the set of evidence ids it cites; a draft is a set of     *)
(* sentences; a text is identified with the request that had it written.   *)
(***************************************************************************)
EXTENDS Naturals

CONSTANTS
  Requests,       \* requests; each is served once
  Packets,        \* evidence packets, one per exact content
  Subjects,       \* releases and incidents
  SubjectOf,      \* SubjectOf[p]: what packet p is about
  Cites,          \* every id a sentence may cite
  IdsOf,          \* IdsOf[p]: the ids of p's items
  Drafts,         \* what the model may answer, schema-valid
  RetentionDays,  \* retention_days of the org
  MaxTime,        \* bound: the clock stops here
  Absent,         \* no row
  NoText          \* no text in an answer

Sentences == SUBSET Cites

\* A row of llm_output; created is created_at, written is history.
Rows == [text : Requests, kept : SUBSET Sentences, created : Nat, written : Nat]

ASSUME PacketsAssumption ==
  /\ SubjectOf \in [Packets -> Subjects]
  /\ IdsOf \in [Packets -> SUBSET Cites]
  /\ Drafts \subseteq SUBSET Sentences
ASSUME ClockAssumption == RetentionDays \in Nat /\ MaxTime \in Nat
ASSUME SentinelAssumption == NoText \notin Requests /\ Absent \notin Rows

VARIABLES
  now,        \* the clock, in days
  store,      \* table llm_output: store[key] is a row or Absent
  asks,       \* asks[r]: the packet built for r and its regenerate flag
  pc,         \* where each request is in explain()
  held,       \* requests whose session loaded the row before the model call
  kept,       \* kept[r]: the sentences of r's draft that passed the check
  op,         \* op[r]: the statement r's flush will send
  answer,     \* answer[r]: the HTTP response
  disturbed   \* history: requests whose row another actor changed in flight

vars == <<now, store, asks, pc, held, kept, op, answer, disturbed>>

-----------------------------------------------------------------------------
(* Keys, the citation check and the response.                              *)

\* A bug: leaving the input hash out of the key.
KeyWithoutHash(p) == SubjectOf[p]

\* (org, kind, subject, input_hash); the hash stands for the exact packet.
KeyOf(p) == <<SubjectOf[p], p>>

Keys == {KeyOf(p) : p \in Packets}

\* A bug: a sentence without citations passes.
PassesUncited(p, s) == s \subseteq IdsOf[p]

\* A sentence passes when it cites something and cites nothing unknown.
Passes(p, s) == s # {} /\ s \subseteq IdsOf[p]

\* The sentences of draft d that are grounded in packet p.
Kept(p, d) == {s \in d : Passes(p, s)}

Cited(k) == UNION k

InFlight(r) == pc[r] \in {"calling", "merging", "flushing", "refreshing"}

Failure(s) == [status |-> s, text |-> NoText, kept |-> {}, cached |-> FALSE]
NoAnswer == Failure("none")

\* _response: a cited id that the packet lacks is a KeyError.
Response(row, p, c) ==
  IF Cited(row.kept) \subseteq IdsOf[p]
    THEN [status |-> "ok", text |-> row.text, kept |-> row.kept, cached |-> c]
    ELSE Failure("row_error")

Finish(r, a) ==
  /\ answer' = [answer EXCEPT ![r] = a]
  /\ pc' = [pc EXCEPT ![r] = "done"]

Goto(r, l) == pc' = [pc EXCEPT ![r] = l] /\ UNCHANGED answer

\* History only: the other requests in flight on one of the changed keys.
Disturb(actor, changed) ==
  disturbed' = disturbed \cup
    {q \in Requests : q # actor /\ InFlight(q) /\ KeyOf(asks[q].packet) \in changed}

MyKey(r) == KeyOf(asks[r].packet)

-----------------------------------------------------------------------------
Init ==
  /\ now = 0
  /\ store = [k \in Keys |-> Absent]
  /\ asks \in [Requests -> [packet : Packets, regenerate : BOOLEAN]]
  /\ pc = [r \in Requests |-> "new"]
  /\ held = {}
  /\ kept = [r \in Requests |-> {}]
  /\ op = [r \in Requests |-> "none"]
  /\ answer = [r \in Requests |-> NoAnswer]
  /\ disturbed = {}

\* The row exists and the caller accepts it: no model call.
ServeStored(r) ==
  /\ pc[r] = "new"
  /\ store[MyKey(r)] # Absent
  /\ ~asks[r].regenerate
  /\ Finish(r, Response(store[MyKey(r)], asks[r].packet, TRUE))
  /\ UNCHANGED <<now, store, asks, held, kept, op, disturbed>>

\* No row, or regenerate: ask the model.  A loaded row stays in the session.
StartCall(r) ==
  /\ pc[r] = "new"
  /\ store[MyKey(r)] = Absent \/ asks[r].regenerate
  /\ held' = IF store[MyKey(r)] # Absent THEN held \cup {r} ELSE held
  /\ Goto(r, "calling")
  /\ UNCHANGED <<now, store, asks, kept, op, disturbed>>

\* The dependency that makes the model client raises before the handler
\* runs: no credentials or an unknown provider is a 500, also for a text that
\* is stored.
NoClient(r) ==
  /\ pc[r] = "new"
  /\ Finish(r, Failure("misconfigured"))
  /\ UNCHANGED <<now, store, asks, held, kept, op, disturbed>>

\* generate or the schema validation raises: nothing is written.  Refused
\* credentials are a 500, every other failure of the model a 502 or 503.
CallFails(r) ==
  /\ pc[r] = "calling"
  /\ \E s \in {"llm_error", "misconfigured"} : Finish(r, Failure(s))
  /\ UNCHANGED <<now, store, asks, held, kept, op, disturbed>>

\* The model answers and the citation check drops what is not grounded; an
\* answer with nothing grounded is an error.
CallReturns(r) ==
  /\ pc[r] = "calling"
  /\ \E d \in Drafts :
       LET good == Kept(asks[r].packet, d) IN
       /\ kept' = [kept EXCEPT ![r] = good]
       /\ IF good = {} THEN Finish(r, Failure("llm_error")) ELSE Goto(r, "merging")
  /\ UNCHANGED <<now, store, asks, held, op, disturbed>>

\* A bug: merging without looking for a row again after the model call.
MergeWithoutSelect(r) ==
  /\ pc[r] = "merging"
  /\ op' = [op EXCEPT ![r] = "insert"]
  /\ Goto(r, "flushing")
  /\ UNCHANGED <<now, store, asks, held, kept, disturbed>>

\* session.merge: a row already in the session is updated in place, without
\* a query; otherwise the table is asked once more.
Merge(r) ==
  /\ pc[r] = "merging"
  /\ op' = [op EXCEPT ![r] =
              IF r \in held \/ store[MyKey(r)] # Absent THEN "update" ELSE "insert"]
  /\ Goto(r, "flushing")
  /\ UNCHANGED <<now, store, asks, held, kept, disturbed>>

\* The INSERT commits; created_at is the server default.
CommitInsert(r) ==
  /\ pc[r] = "flushing" /\ op[r] = "insert" /\ store[MyKey(r)] = Absent
  /\ store' = [store EXCEPT ![MyKey(r)] =
                 [text |-> r, kept |-> kept[r], created |-> now, written |-> now]]
  /\ Disturb(r, {MyKey(r)})
  /\ Goto(r, "refreshing")
  /\ UNCHANGED <<now, asks, held, kept, op>>

\* The UPDATE commits; created_at is not among the merged columns.  The ORM
\* sends only the columns that differ from what it loaded, so a row two
\* sessions update at once may end up with columns of both; here a new text
\* replaces the row, as when every column differs.
\* `written` is history: when the text now in the row was stored.
CommitUpdate(r) ==
  /\ pc[r] = "flushing" /\ op[r] = "update" /\ store[MyKey(r)] # Absent
  /\ store' = [store EXCEPT ![MyKey(r)] =
                 [text |-> r, kept |-> kept[r], created |-> @.created, written |-> now]]
  /\ Disturb(r, {MyKey(r)})
  /\ Goto(r, "refreshing")
  /\ UNCHANGED <<now, asks, held, kept, op>>

\* The row to insert exists by now (IntegrityError), or the row to update is
\* gone (StaleDataError): not an LLMError, so the caller gets a 500.
CommitFails(r) ==
  /\ pc[r] = "flushing"
  /\ \/ op[r] = "insert" /\ store[MyKey(r)] # Absent
     \/ op[r] = "update" /\ store[MyKey(r)] = Absent
  /\ Finish(r, Failure("row_error"))
  /\ UNCHANGED <<now, store, asks, held, kept, op, disturbed>>

\* A bug: building the response from memory (expire_on_commit off).
RefreshFromMemory(r) ==
  /\ pc[r] = "refreshing"
  /\ Finish(r, [status |-> "ok", text |-> r, kept |-> kept[r], cached |-> FALSE])
  /\ UNCHANGED <<now, store, asks, held, kept, op, disturbed>>

\* The commit expired the row, so the response re-reads it; a row deleted
\* meanwhile is an ObjectDeletedError.
Refresh(r) ==
  /\ pc[r] = "refreshing"
  /\ Finish(r, IF store[MyKey(r)] = Absent
                 THEN Failure("row_error")
                 ELSE Response(store[MyKey(r)], asks[r].packet, FALSE))
  /\ UNCHANGED <<now, store, asks, held, kept, op, disturbed>>

\* The API task is stopped, or the connection or the SDK raises something no
\* handler knows: the request's transaction rolls back.
Crash(r) ==
  /\ pc[r] # "done"
  /\ Finish(r, Failure("lost"))
  /\ UNCHANGED <<now, store, asks, held, kept, op, disturbed>>

\* A row is expired when its created_at is before the cutoff.
Expired(k) == store[k] # Absent /\ store[k].created + RetentionDays < now

\* app.retention, the llm_output half.
Purge ==
  LET old == {k \in Keys : Expired(k)} IN
  /\ old # {}
  /\ store' = [k \in Keys |-> IF k \in old THEN Absent ELSE store[k]]
  /\ Disturb(NoText, old)
  /\ UNCHANGED <<now, asks, pc, held, kept, op, answer>>

Tick ==
  /\ now < MaxTime
  /\ now' = now + 1
  /\ UNCHANGED <<store, asks, pc, held, kept, op, answer, disturbed>>

Step(r) ==
  \/ NoClient(r) \/ ServeStored(r) \/ StartCall(r) \/ CallFails(r) \/ CallReturns(r)
  \/ Merge(r) \/ CommitInsert(r) \/ CommitUpdate(r) \/ CommitFails(r)
  \/ Refresh(r)

Next ==
  \/ \E r \in Requests : Step(r) \/ Crash(r)
  \/ Purge
  \/ Tick

Spec == Init /\ [][Next]_vars

\* The SDK bounds every model call, so a request that is not killed goes on;
\* the scheduled job comes back as long as there is something to purge.
Fairness == (\A r \in Requests : WF_vars(Step(r))) /\ WF_vars(Purge)

FairSpec == Spec /\ Fairness

-----------------------------------------------------------------------------
Asks == [packet : Packets, regenerate : BOOLEAN]
Labels == {"new", "calling", "merging", "flushing", "refreshing", "done"}
Answers ==
  [status : {"none", "ok", "llm_error", "misconfigured", "row_error", "lost"},
   text : Requests \cup {NoText}, kept : SUBSET Sentences, cached : BOOLEAN]

\* The table, the sessions and the answers hold only values of their kinds.
TypeOK ==
  /\ now \in Nat
  /\ store \in [Keys -> Rows \cup {Absent}]
  /\ asks \in [Requests -> Asks]
  /\ pc \in [Requests -> Labels]
  /\ held \subseteq Requests
  /\ kept \in [Requests -> SUBSET Sentences]
  /\ op \in [Requests -> {"none", "insert", "update"}]
  /\ answer \in [Requests -> Answers]
  /\ disturbed \subseteq Requests

\* The sentences k say something, and each of them cites at least one id and
\* only ids of packet p.
Grounded(p, k) == k # {} /\ \A s \in k : s # {} /\ s \subseteq IdsOf[p]

\* Whatever interleaving of requests, overwrites, purges and crashes led
\* here, the row stored under an input holds only sentences grounded in
\* exactly that input (citations.py: "never silently kept").
StoredGrounded ==
  \A p \in Packets : store[KeyOf(p)] # Absent => Grounded(p, store[KeyOf(p)].kept)

\* A successful answer is grounded in the packet its own request was about,
\* also when the text in it was written by another request; in particular
\* _response finds every cited id among the packet's items.
AnswersResolve ==
  \A r \in Requests :
    answer[r].status = "ok" => Grounded(asks[r].packet, answer[r].kept)

\* A request whose row nobody else touched between its first read and its
\* last never fails over that row, and if it called the model it returns the
\* text that call produced.  Every 500 for an IntegrityError, StaleDataError,
\* ObjectDeletedError or KeyError, and every answer carrying somebody else's
\* text, takes a second actor.  The endpoint's other 500s take none and write
\* nothing: a misconfigured client (LLMMisconfigured), and what no handler
\* catches when the database or the SDK fails ("lost").
UndisturbedExact ==
  \A r \in Requests \ disturbed :
    /\ answer[r].status # "row_error"
    /\ answer[r].status = "ok" /\ ~answer[r].cached => answer[r].text = r

\* retention.py: "generated LLM text older than `retention_days`" is what is
\* removed.  A text written within the window stays until it is replaced.
YoungTextKept ==
  [][\A k \in Keys :
       store[k] # Absent /\ store'[k] = Absent =>
         store[k].written + RetentionDays < now]_vars

-----------------------------------------------------------------------------
(* The promise this module implements.                                     *)

\* The sentences stored for packet p, and how request r was answered.
StoredText(p) == IF store[KeyOf(p)] = Absent THEN {} ELSE store[KeyOf(p)].kept
Reply(r) ==
  [how |-> CASE answer[r].status = "none" -> "none"
             [] answer[r].status = "ok" -> "given"
             [] OTHER -> "failed",
   text |-> answer[r].kept]

Promise == INSTANCE ExplainPromise WITH
  Texts   <- SUBSET Sentences,
  Nothing <- {},
  stored  <- [p \in Packets |-> StoredText(p)],
  wanted  <- [r \in Requests |-> asks[r].packet],
  reply   <- [r \in Requests |-> Reply(r)]

\* Every behaviour of the sessions is one the promise allows.
Promised == Promise!Spec
=============================================================================
