------------------------------ MODULE Connectors ------------------------------
(***************************************************************************)
(* app/connectors: one client's calls to a vendor that is busy, refuses or *)
(* breaks off, and whose rows change between two requests.  A listing is   *)
(* collected page by page (GitHub tags, Sentry issues, events, releases,   *)
(* Jira searches), a Jira issue is looked up by its key.                   *)
(*                                                                         *)
(* A next link names a page by its number, so rows move between pages when *)
(* the vendor's list changes.  Sentry always sends a next link and marks   *)
(* the last page with results="false"; the others send none on the last.   *)
(***************************************************************************)
EXTENDS SequencesExt

CONSTANTS
  Items,      \* what the vendor can have: tags, issues, ticket keys
  PageSize,
  Attempts,   \* get_with_retry's attempts, 4 in the code
  AlwaysNext, \* does the last page have a next link too, as Sentry's has?
  InitRows,   \* the vendor's rows at the start, in its order
  MaxChanges  \* bound: how often the vendor's rows change during a call

NoKey == "no key"

ASSUME ConnectorsAssumption ==
  /\ IsFiniteSet(Items) /\ NoKey \notin Items
  /\ PageSize \in Nat \ {0} /\ Attempts \in Nat \ {0}
  /\ AlwaysNext \in BOOLEAN
  /\ InitRows \in Seq(Items) /\ IsInjective(InitRows)
  /\ MaxChanges \in Nat

VARIABLES
  rows,     \* the vendor's rows in the order it lists them
  pc,       \* "idle", "first" (get_issue's own GET), "retry" (get_with_retry)
  key,      \* the key looked up, or NoKey when a listing is collected
  page,     \* the page asked for
  attempt,  \* of get_with_retry
  found,    \* the rows collected, or the issue looked up
  outcome,  \* of the last call: "none", "returned", "missing" or "raised"
  answers,  \* history: the vendor's first and last answer to the current or
            \* last call, and how many busy ones the last ones are
  before,   \* history: the rows when it began
  changes   \* history: what happened to the rows since

vars == <<rows, pc, key, page, attempt, found, outcome, answers, before, changes>>
call == <<pc, key, page, attempt, found, outcome, answers, before>>

NoAnswers == [first |-> "none", last |-> "none", busy |-> 0]
LastPage == Cardinality(Items) + 1   \* it and those after it are empty alike

-----------------------------------------------------------------------------
(* The vendor.                                                             *)

\* Do rows follow page n?
Follow(n) == Len(rows) > n * PageSize

\* The rows of page n.
PageRows(n) ==
  LET last == IF Follow(n) THEN n * PageSize ELSE Len(rows)
  IN  SubSeq(rows, (n - 1) * PageSize + 1, last)

\* What a GET can be answered.  "busy" stands for RETRY_STATUSES, "refused" for
\* any other error status, "broken" for a connection that fails or times out.
Answers ==
  {"ok", "busy", "refused", "broken"} \cup (IF key = NoKey THEN {} ELSE {"404"})

\* An issue that does not exist is the 404; every other answer needs no cause.
Possible(a) == a \in {"ok", "404"} /\ key # NoKey => (a = "ok") = (key \in ToSet(rows))

\* The next link of page n.
NextLink(n) == [there |-> AlwaysNext \/ Follow(n), results |-> Follow(n)]

\* A bug: the last page of Sentry's listing is not recognised.
IsLastNoLink(n) == ~NextLink(n).there

\* iter_link_pages ends: no next link, or one marked results="false".
IsLast(n) == ~NextLink(n).there \/ ~NextLink(n).results

-----------------------------------------------------------------------------
Init ==
  /\ rows = InitRows
  /\ pc = "idle" /\ key = NoKey /\ page = 0 /\ attempt = 0
  /\ found = <<>> /\ outcome = "none" /\ answers = NoAnswers
  /\ before = rows /\ changes = <<>>

\* The vendor's rows change while a call is made: one is new at any place, one
\* is deleted, or one moves to the front (an issue that was seen again).
Change(kind, row, new) ==
  /\ pc # "idle" /\ Len(changes) < MaxChanges
  /\ rows' = new
  /\ changes' = Append(changes, [kind |-> kind, row |-> row])
  /\ UNCHANGED call

Create == \E i \in Items \ ToSet(rows), n \in 1 .. Len(rows) + 1 :
            Change("created", i, InsertAt(rows, n, i))
Delete == \E n \in DOMAIN rows : Change("deleted", rows[n], RemoveAt(rows, n))
Move == \E n \in DOMAIN rows \ {1} : Change("moved", rows[n], <<rows[n]>> \o RemoveAt(rows, n))

\* list_tags, list_issues, .. or get_issue(k) is called.
Call(k, label) ==
  /\ pc = "idle"
  /\ pc' = label /\ key' = k /\ page' = 1 /\ attempt' = 0
  /\ found' = <<>> /\ outcome' = "none" /\ answers' = NoAnswers
  /\ before' = rows /\ changes' = <<>>
  /\ UNCHANGED rows

List == Call(NoKey, "retry")
Lookup == \E k \in Items : Call(k, "first")

End(o, f) == pc' = "idle" /\ outcome' = o /\ found' = f /\ UNCHANGED <<page, attempt>>

Answered(a) ==
  /\ a \in Answers /\ Possible(a)
  /\ answers' = [first |-> IF answers = NoAnswers THEN a ELSE answers.first,
                 last |-> a,
                 busy |-> IF a = "busy" THEN answers.busy + 1 ELSE 0]
  /\ UNCHANGED <<rows, key, before, changes>>

\* A bug: any error status means that the key is unknown.
FirstGetAnyError ==
  /\ pc = "first"
  /\ \E a \in Answers :
       /\ Answered(a)
       /\ \/ a = "ok" /\ End("returned", <<key>>)
          \/ a \in {"404", "refused"} /\ End("missing", <<>>)
          \/ a = "broken" /\ End("raised", <<>>)
          \/ a = "busy" /\ pc' = "retry" /\ UNCHANGED <<page, attempt, found, outcome>>

\* get_issue's own GET: 404 is None, a retryable status goes to get_with_retry.
FirstGet ==
  /\ pc = "first"
  /\ \E a \in Answers :
       /\ Answered(a)
       /\ \/ a = "ok" /\ End("returned", <<key>>)
          \/ a = "404" /\ End("missing", <<>>)
          \/ a \in {"refused", "broken"} /\ End("raised", <<>>)
          \/ a = "busy" /\ pc' = "retry" /\ UNCHANGED <<page, attempt, found, outcome>>

\* A bug: a page that cannot be had ends the listing.
GiveUpQuietly == End(IF key = NoKey THEN "returned" ELSE "raised", found)

\* raise_for_status, or httpx's own exception: nothing is returned.
GiveUp == End("raised", <<>>)

\* The page is delivered; the listing ends or goes on with the next.
Deliver ==
  LET f == IF key = NoKey THEN found \o PageRows(page) ELSE <<key>> IN
  IF key # NoKey \/ IsLast(page) THEN End("returned", f)
  ELSE /\ page' = Min({page + 1, LastPage}) /\ attempt' = 0 /\ found' = f
       /\ UNCHANGED <<pc, outcome>>

\* An iteration of get_with_retry; what lies between two is its sleep.
GetWithRetry ==
  /\ pc = "retry"
  /\ \E a \in Answers :
       /\ Answered(a)
       /\ \/ a = "ok" /\ Deliver
          \/ /\ a = "busy" /\ attempt < Attempts - 1
             /\ attempt' = attempt + 1 /\ UNCHANGED <<pc, page, found, outcome>>
          \/ /\ a # "ok" /\ (a = "busy" => attempt >= Attempts - 1)
             /\ GiveUp

Next == Create \/ Delete \/ Move \/ List \/ Lookup \/ FirstGet \/ GetWithRetry

\* A call goes on: requests have a timeout (30 s) and sleeps end.
Spec == Init /\ [][Next]_vars /\ WF_vars(FirstGet \/ GetWithRetry)

-----------------------------------------------------------------------------
Listed == outcome = "returned" /\ key = NoKey

\* What ingest takes for the vendor's state: a listing that is returned misses
\* no row that was there throughout and did not move (unless one was deleted),
\* has only rows that were there, none twice unless one was created or moved,
\* and, when the only change is one new row, is the list before it or after.
ListingAccurate ==
  Listed =>
    LET Changed(kind) == {c.row : c \in {d \in ToSet(changes) : d.kind = kind}}
      all == ToSet(found)
  IN /\ Changed("deleted") = {} => ToSet(before) \ Changed("moved") \subseteq all
     /\ all \subseteq ToSet(before) \cup Changed("created")
     /\ Changed("created") = {} /\ Changed("moved") = {} => IsInjective(found)
     /\ Len(changes) = 1 /\ Changed("created") # {} => all \in {ToSet(before), ToSet(rows)}

\* A key is reported missing (and stored as missing_in_jira) only because Jira
\* said so to the first request, and a busy vendor is an error only after
\* Attempts busy answers in a row, however the calls before went; a key that
\* Jira does not know raises after a busy answer instead of being None.
LookupAnswered ==
  /\ outcome = "missing" => key # NoKey /\ answers.first = "404"
  /\ outcome = "raised" =>
       \/ answers.last \in {"refused", "broken"}
       \/ answers.last = "404" /\ answers.first = "busy"
       \/ answers.busy >= Attempts

\* Every call ends, however the rows change meanwhile.
CallEnds == pc # "idle" ~> pc = "idle"
=============================================================================
