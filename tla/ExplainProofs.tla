---------------------------- MODULE ExplainProofs ----------------------------
(***************************************************************************)
(* What module Explain guarantees for any number of requests, packets and  *)
(* model answers, whatever the retention window.                           *)
(***************************************************************************)
EXTENDS Explain, TLAPS

(* The strengthening.  What is stored came out of a request that had       *)
(* checked it, so the text carried between the check and the commit is     *)
(* grounded too.                                                           *)
CarriedGrounded ==
  \A r \in Requests :
    pc[r] \in {"merging", "flushing"} => Grounded(asks[r].packet, kept[r])

(* A request that has not been answered has no answer, and one that has    *)
(* not begun has left no trace.                                            *)
Fresh ==
  \A r \in Requests :
    /\ pc[r] # "done" => answer[r] = NoAnswer
    /\ pc[r] = "new" => r \notin held /\ r \notin disturbed

(* What an undisturbed request knows about its row is still so.            *)
Knows(r) ==
  /\ pc[r] \in {"calling", "merging"} => (r \in held <=> store[MyKey(r)] # Absent)
  /\ pc[r] = "flushing" => /\ op[r] \in {"insert", "update"}
                           /\ op[r] = "update" <=> store[MyKey(r)] # Absent
  /\ pc[r] = "refreshing" => store[MyKey(r)] # Absent /\ store[MyKey(r)].text = r

UndisturbedKnow == \A r \in Requests \ disturbed : Knows(r)

GInv == TypeOK /\ StoredGrounded /\ CarriedGrounded /\ AnswersResolve
IInv == GInv /\ Fresh /\ UndisturbedKnow /\ UndisturbedExact

-----------------------------------------------------------------------------
(* Lemmas about the operators.                                             *)

\* Two packets with one key are one packet.
LEMMA KeyInjective ==
  ASSUME NEW p \in Packets, NEW q \in Packets, KeyOf(p) = KeyOf(q)
  PROVE  p = q
  BY DEF KeyOf

\* What the citation check keeps is grounded unless it is nothing.
LEMMA KeptIsGrounded ==
  ASSUME NEW p \in Packets, NEW d \in Drafts, Kept(p, d) # {}
  PROVE  Grounded(p, Kept(p, d)) /\ Kept(p, d) \subseteq Sentences
  BY PacketsAssumption DEF Kept, Passes, Grounded

\* A grounded row never makes the response fail.
LEMMA GroundedResponds ==
  ASSUME NEW p \in Packets, NEW row \in Rows, NEW c \in BOOLEAN,
         Grounded(p, row.kept)
  PROVE  /\ Response(row, p, c) =
              [status |-> "ok", text |-> row.text, kept |-> row.kept, cached |-> c]
         /\ Response(row, p, c) \in Answers
<1>1. Cited(row.kept) \subseteq IdsOf[p]
  BY DEF Grounded, Cited
<1> QED
  BY <1>1 DEF Response, Rows, Answers

LEMMA FailuresAreAnswers ==
  /\ NoAnswer \in Answers /\ NoAnswer.status = "none"
  /\ \A s \in {"none", "ok", "llm_error", "misconfigured", "row_error", "lost"} :
       Failure(s) \in Answers /\ Failure(s).status = s
  BY DEF NoAnswer, Failure, Answers

-----------------------------------------------------------------------------
(* Types and groundedness.                                                 *)

LEMMA TypeInit == Init => TypeOK
  BY FailuresAreAnswers DEF Init, TypeOK, Asks, Labels

LEMMA MyKeyType ==
  ASSUME TypeOK, NEW r \in Requests
  PROVE  asks[r] \in Asks /\ asks[r].packet \in Packets /\ MyKey(r) \in Keys
  BY DEF TypeOK, Asks, MyKey, Keys

LEMMA RowType ==
  ASSUME TypeOK, NEW k \in Keys, store[k] # Absent
  PROVE  store[k] \in Rows
  BY DEF TypeOK

LEMMA GInit == Init => GInv
<1> SUFFICES ASSUME Init PROVE GInv
  OBVIOUS
<1>1. TypeOK
  BY TypeInit
<1>2. StoredGrounded
  BY DEF Init, StoredGrounded, Keys
<1>3. CarriedGrounded
  BY DEF Init, CarriedGrounded
<1>4. AnswersResolve
  BY DEF Init, AnswersResolve, NoAnswer, Failure
<1> QED
  BY <1>1, <1>2, <1>3, <1>4 DEF GInv

\* Answering from the row under one's own key is a grounded success.
LEMMA RowResponds ==
  ASSUME GInv, NEW r \in Requests, store[MyKey(r)] # Absent, NEW c \in BOOLEAN
  PROVE  LET answered == Response(store[MyKey(r)], asks[r].packet, c) IN
         /\ answered \in Answers
         /\ answered.status = "ok" /\ answered.cached = c
         /\ answered.text = store[MyKey(r)].text
         /\ answered.kept = store[MyKey(r)].kept
         /\ Grounded(asks[r].packet, store[MyKey(r)].kept)
<1> DEFINE row == store[MyKey(r)]
           p == asks[r].packet
<1>1. p \in Packets /\ row \in Rows
  BY MyKeyType, RowType DEF GInv
<1>2. Grounded(p, row.kept)
  BY <1>1 DEF GInv, StoredGrounded, MyKey
<1> HIDE DEF row, p
<1>3. /\ Response(row, p, c) \in Answers
      /\ Response(row, p, c) =
           [status |-> "ok", text |-> row.text, kept |-> row.kept, cached |-> c]
  BY <1>1, <1>2, GroundedResponds
<1> QED
  BY <1>2, <1>3 DEF row, p

\* Ending a request without an answer keeps everything in place.
LEMMA FailedStep ==
  ASSUME GInv, NEW r \in Requests, NEW s \in {"llm_error", "misconfigured", "row_error", "lost"},
         Finish(r, Failure(s)),
         UNCHANGED <<now, store, asks, held, kept, op, disturbed>>
  PROVE  GInv'
<1> USE FailuresAreAnswers DEF GInv, Finish
<1>1. TypeOK'
  BY DEF TypeOK, Labels
<1>2. StoredGrounded' /\ CarriedGrounded' /\ AnswersResolve'
  BY DEF TypeOK, StoredGrounded, CarriedGrounded, AnswersResolve, Grounded
<1> QED
  BY <1>1, <1>2

\* One step keeps the types and keeps everything stored, carried and
\* answered grounded.
LEMMA GStep == GInv /\ [Next]_vars => GInv'
<1> SUFFICES ASSUME GInv, [Next]_vars PROVE GInv'
  OBVIOUS
<1> USE DEF GInv
<1>1. ASSUME NEW r \in Requests, ServeStored(r) PROVE GInv'
  <2> DEFINE a == Response(store[MyKey(r)], asks[r].packet, TRUE)
  <2>1. a \in Answers /\ Grounded(asks[r].packet, a.kept)
    BY <1>1, RowResponds DEF ServeStored
  <2>2. Finish(r, a) /\ UNCHANGED <<now, store, asks, held, kept, op, disturbed>>
    BY <1>1 DEF ServeStored
  <2> HIDE DEF a
  <2>3. TypeOK'
    BY <2>1, <2>2 DEF Finish, TypeOK, Labels
  <2>4. StoredGrounded' /\ CarriedGrounded'
    BY <2>2 DEF Finish, TypeOK, StoredGrounded, CarriedGrounded, Grounded
  <2>5. AnswersResolve'
    BY <2>1, <2>2 DEF Finish, TypeOK, AnswersResolve, Grounded
  <2> QED
    BY <2>3, <2>4, <2>5
<1>2. ASSUME NEW r \in Requests, StartCall(r) PROVE GInv'
  <2>1. TypeOK'
    BY <1>2 DEF StartCall, Goto, TypeOK, Labels
  <2>2. StoredGrounded' /\ CarriedGrounded' /\ AnswersResolve'
    BY <1>2 DEF StartCall, Goto, TypeOK, StoredGrounded, CarriedGrounded, AnswersResolve, Grounded
  <2> QED
    BY <2>1, <2>2
<1>3. ASSUME NEW r \in Requests, NoClient(r) \/ CallFails(r) PROVE GInv'
  BY <1>3, FailedStep DEF NoClient, CallFails
<1>4. ASSUME NEW r \in Requests, CallReturns(r) PROVE GInv'
  <2>1. asks[r].packet \in Packets
    BY MyKeyType
  <2>2. PICK d \in Drafts :
          /\ kept' = [kept EXCEPT ![r] = Kept(asks[r].packet, d)]
          /\ IF Kept(asks[r].packet, d) = {}
               THEN Finish(r, Failure("llm_error")) ELSE Goto(r, "merging")
    BY <1>4 DEF CallReturns
  <2>3. UNCHANGED <<now, store, asks, held, op, disturbed>>
    BY <1>4 DEF CallReturns
  <2>4. CASE Kept(asks[r].packet, d) = {}
    <3>1. TypeOK'
      BY <2>2, <2>3, <2>4, FailuresAreAnswers DEF Finish, TypeOK, Labels
    <3>2. StoredGrounded' /\ CarriedGrounded' /\ AnswersResolve'
      BY <2>2, <2>3, <2>4, FailuresAreAnswers
      DEF Finish, TypeOK, StoredGrounded, CarriedGrounded, AnswersResolve, Grounded
    <3> QED
      BY <3>1, <3>2
  <2>5. CASE Kept(asks[r].packet, d) # {}
    <3>1. /\ Grounded(asks[r].packet, Kept(asks[r].packet, d))
          /\ Kept(asks[r].packet, d) \in SUBSET Sentences
      BY <2>1, <2>5, KeptIsGrounded
    <3>2. TypeOK'
      BY <2>2, <2>3, <2>5, <3>1 DEF Goto, TypeOK, Labels
    <3>3. StoredGrounded' /\ CarriedGrounded' /\ AnswersResolve'
      BY <2>2, <2>3, <2>5, <3>1
      DEF Goto, TypeOK, StoredGrounded, CarriedGrounded, AnswersResolve, Grounded
    <3> QED
      BY <3>2, <3>3
  <2> QED
    BY <2>4, <2>5
<1>5. ASSUME NEW r \in Requests, Merge(r) PROVE GInv'
  <2>1. TypeOK'
    BY <1>5 DEF Merge, Goto, TypeOK, Labels
  <2>2. StoredGrounded' /\ CarriedGrounded' /\ AnswersResolve'
    BY <1>5 DEF Merge, Goto, TypeOK, StoredGrounded, CarriedGrounded, AnswersResolve, Grounded
  <2> QED
    BY <2>1, <2>2
<1>6. ASSUME NEW r \in Requests, NEW row \in Rows, row.kept = kept[r],
             pc[r] = "flushing", store' = [store EXCEPT ![MyKey(r)] = row],
             Goto(r, "refreshing"), disturbed' \subseteq Requests,
             UNCHANGED <<now, asks, held, kept, op>>
      PROVE  GInv'
  <2>1. TypeOK'
    BY <1>6, MyKeyType DEF Goto, TypeOK, Labels
  <2>2. ASSUME NEW p \in Packets, store'[KeyOf(p)] # Absent
        PROVE  Grounded(p, store'[KeyOf(p)].kept)
    <3>1. CASE KeyOf(p) = MyKey(r)
      <4>1. p = asks[r].packet
        BY <3>1, MyKeyType, KeyInjective DEF MyKey
      <4>2. Grounded(p, kept[r])
        BY <1>6, <4>1 DEF CarriedGrounded
      <4> QED
        BY <1>6, <3>1, <4>2, MyKeyType DEF TypeOK
    <3>2. CASE KeyOf(p) # MyKey(r)
      <4>1. KeyOf(p) \in Keys
        BY DEF Keys
      <4> QED
        BY <1>6, <2>2, <3>2, <4>1 DEF TypeOK, StoredGrounded
    <3> QED
      BY <3>1, <3>2
  <2>3. StoredGrounded'
    BY <2>2 DEF StoredGrounded, Grounded
  <2>4. CarriedGrounded' /\ AnswersResolve'
    BY <1>6 DEF Goto, TypeOK, CarriedGrounded, AnswersResolve, Grounded
  <2> QED
    BY <2>1, <2>3, <2>4
<1>7. ASSUME NEW r \in Requests, CommitInsert(r) PROVE GInv'
  <2> DEFINE row == [text |-> r, kept |-> kept[r], created |-> now, written |-> now]
  <2>1. row \in Rows /\ row.kept = kept[r]
    BY DEF TypeOK, Rows
  <2> QED
    BY <1>6, <1>7, <2>1 DEF CommitInsert, Disturb, TypeOK
<1>8. ASSUME NEW r \in Requests, CommitUpdate(r) PROVE GInv'
  <2> DEFINE row == [text |-> r, kept |-> kept[r],
                     created |-> store[MyKey(r)].created, written |-> now]
  <2>1. row \in Rows /\ row.kept = kept[r]
    BY <1>8, MyKeyType, RowType DEF CommitUpdate, TypeOK, Rows
  <2>2. store' = [store EXCEPT ![MyKey(r)] = row]
    BY <1>8 DEF CommitUpdate
  <2> QED
    BY <1>6, <1>8, <2>1, <2>2 DEF CommitUpdate, Disturb, TypeOK
<1>9. ASSUME NEW r \in Requests, CommitFails(r) PROVE GInv'
  BY <1>9, FailedStep DEF CommitFails
<1>10. ASSUME NEW r \in Requests, Refresh(r) PROVE GInv'
  <2>1. CASE store[MyKey(r)] = Absent
    BY <1>10, <2>1, FailedStep DEF Refresh
  <2>2. CASE store[MyKey(r)] # Absent
    <3> DEFINE a == Response(store[MyKey(r)], asks[r].packet, FALSE)
    <3>1. a \in Answers /\ Grounded(asks[r].packet, a.kept)
      BY <2>2, RowResponds
    <3>2. Finish(r, a) /\ UNCHANGED <<now, store, asks, held, kept, op, disturbed>>
      BY <1>10, <2>2 DEF Refresh
    <3> HIDE DEF a
    <3>3. TypeOK'
      BY <3>1, <3>2 DEF Finish, TypeOK, Labels
    <3>4. StoredGrounded' /\ CarriedGrounded'
      BY <3>2 DEF Finish, TypeOK, StoredGrounded, CarriedGrounded, Grounded
    <3>5. AnswersResolve'
      BY <3>1, <3>2 DEF Finish, TypeOK, AnswersResolve, Grounded
    <3> QED
      BY <3>3, <3>4, <3>5
  <2> QED
    BY <2>1, <2>2
<1>11. ASSUME NEW r \in Requests, Crash(r) PROVE GInv'
  BY <1>11, FailedStep DEF Crash
<1>12. CASE Purge
  <2> DEFINE old == {k \in Keys : Expired(k)}
  <2>1. /\ store' = [k \in Keys |-> IF k \in old THEN Absent ELSE store[k]]
        /\ disturbed' \subseteq Requests
        /\ UNCHANGED <<now, asks, pc, held, kept, op, answer>>
    BY <1>12 DEF Purge, Disturb, TypeOK
  <2> HIDE DEF old
  <2>2. TypeOK'
    BY <2>1 DEF TypeOK
  <2>3. StoredGrounded'
    BY <2>1 DEF StoredGrounded, Keys, Grounded
  <2>4. CarriedGrounded' /\ AnswersResolve'
    BY <2>1 DEF CarriedGrounded, AnswersResolve, Grounded
  <2> QED
    BY <2>2, <2>3, <2>4
<1>13. CASE Tick
  BY <1>13 DEF Tick, TypeOK, StoredGrounded, CarriedGrounded, AnswersResolve, Grounded
<1>14. CASE UNCHANGED vars
  BY <1>14 DEF vars, TypeOK, StoredGrounded, CarriedGrounded, AnswersResolve, Grounded
<1> QED
  BY <1>1, <1>2, <1>3, <1>4, <1>5, <1>7, <1>8, <1>9, <1>10, <1>11, <1>12, <1>13, <1>14
  DEF Next, Step

LEMMA GInvariant == Spec => []GInv
  BY GInit, GStep, PTL DEF Spec

\* Type correctness of the table, the sessions and the answers.
THEOREM TypeCorrect == Spec => []TypeOK
  BY GInvariant, PTL DEF GInv

\* Every stored row is grounded in exactly the input it is stored under.
THEOREM StoredIsGrounded == Spec => []StoredGrounded
  BY GInvariant, PTL DEF GInv

\* Every successful answer is grounded in the packet of its own request.
THEOREM AnswersAreGrounded == Spec => []AnswersResolve
  BY GInvariant, PTL DEF GInv

-----------------------------------------------------------------------------
(* Requests nobody disturbs.                                               *)

UInv == Fresh /\ UndisturbedKnow /\ UndisturbedExact

\* A step that leaves q's place, statement and session alone, and q's row as
\* long as q is in flight and not marked, leaves what q knows true.
LEMMA Bystander ==
  ASSUME IInv, NEW q \in Requests, q \notin disturbed', disturbed \subseteq disturbed',
         asks' = asks, pc'[q] = pc[q], op'[q] = op[q], q \in held' <=> q \in held,
         InFlight(q) => store'[MyKey(q)] = store[MyKey(q)]
  PROVE  Knows(q)'
<1>1. Knows(q)
  BY DEF IInv, UndisturbedKnow
<1>2. MyKey(q)' = MyKey(q)
  BY DEF MyKey
<1> QED
  BY <1>1, <1>2 DEF Knows, InFlight

\* A step of r alone, the table unchanged, ending r or not.
LEMMA PrivateStep ==
  ASSUME IInv, NEW r \in Requests, UNCHANGED <<store, asks, disturbed>>,
         \A q \in Requests \ {r} :
           /\ pc'[q] = pc[q] /\ op'[q] = op[q] /\ answer'[q] = answer[q]
           /\ q \in held' <=> q \in held,
         pc'[r] # "new", pc'[r] # "done" => answer'[r] = NoAnswer,
         r \notin disturbed =>
           /\ Knows(r)'
           /\ answer'[r].status # "row_error"
           /\ answer'[r].status = "ok" /\ ~answer'[r].cached => answer'[r].text = r
  PROVE  UInv'
<1>1. Fresh'
  BY DEF IInv, Fresh, NoAnswer, Failure
<1>2. UndisturbedKnow'
  BY Bystander DEF UndisturbedKnow
<1>3. UndisturbedExact'
  BY DEF IInv, UndisturbedExact
<1> QED
  BY <1>1, <1>2, <1>3 DEF UInv

\* r replaces the row under its key and marks everybody else who is using it.
LEMMA CommitStep ==
  ASSUME IInv, NEW r \in Requests, NEW row \in Rows, row.text = r,
         pc[r] = "flushing", store' = [store EXCEPT ![MyKey(r)] = row],
         Disturb(r, {MyKey(r)}), Goto(r, "refreshing"),
         UNCHANGED <<now, asks, held, kept, op>>
  PROVE  UInv'
<1> USE DEF IInv, GInv
<1>1. MyKey(r) \in Keys /\ store'[MyKey(r)] = row /\ row # Absent
  BY MyKeyType, SentinelAssumption DEF TypeOK
<1>2. Fresh'
  <2>1. \A q \in Requests : pc[q] = "new" => ~InFlight(q)
    BY DEF InFlight
  <2> QED
    BY <2>1 DEF Fresh, Goto, Disturb, TypeOK, NoAnswer, Failure
<1>3. ASSUME NEW q \in Requests, q \notin disturbed' PROVE Knows(q)'
  <2>1. CASE q = r
    BY <1>1, <2>1 DEF Knows, MyKey, Goto, TypeOK
  <2>2. CASE q # r
    <3>1. InFlight(q) => MyKey(q) # MyKey(r)
      BY <1>3, <2>2 DEF Disturb, MyKey
    <3>2. InFlight(q) => store'[MyKey(q)] = store[MyKey(q)]
      BY <3>1, MyKeyType DEF TypeOK
    <3> QED
      BY <1>3, <2>2, <3>2, Bystander DEF Goto, Disturb, TypeOK
  <2> QED
    BY <2>1, <2>2
<1>4. UndisturbedExact'
  BY DEF UndisturbedExact, Goto, Disturb
<1> QED
  BY <1>2, <1>3, <1>4 DEF UInv, UndisturbedKnow

\* Every action keeps what an undisturbed request relies on.
LEMMA UStep == IInv /\ [Next]_vars => UInv'
<1> SUFFICES ASSUME IInv, [Next]_vars PROVE UInv'
  OBVIOUS
<1> USE DEF IInv, GInv
<1>1. ASSUME NEW r \in Requests, NEW a, NEW c \in BOOLEAN,
             store[MyKey(r)] # Absent, a = Response(store[MyKey(r)], asks[r].packet, c),
             Finish(r, a), r \in disturbed \/ c \/ store[MyKey(r)].text = r,
             UNCHANGED <<now, store, asks, held, kept, op, disturbed>>
      PROVE  UInv'
  <2>1. a.status = "ok" /\ a.cached = c /\ a.text = store[MyKey(r)].text
    BY <1>1, RowResponds
  <2>2. /\ pc'[r] = "done" /\ answer'[r] = a
        /\ \A q \in Requests \ {r} : pc'[q] = pc[q] /\ answer'[q] = answer[q]
    BY <1>1 DEF Finish, TypeOK
  <2> QED
    BY <1>1, <2>1, <2>2, PrivateStep DEF Knows
<1>2. ASSUME NEW r \in Requests, NEW s \in {"llm_error", "misconfigured", "row_error", "lost"},
             Finish(r, Failure(s)), r \in disturbed \/ s # "row_error",
             UNCHANGED <<now, store, asks, held, op, disturbed>>
      PROVE  UInv'
  <2>1. /\ pc'[r] = "done" /\ answer'[r].status = s
        /\ \A q \in Requests \ {r} : pc'[q] = pc[q] /\ answer'[q] = answer[q]
    BY <1>2, FailuresAreAnswers DEF Finish, TypeOK
  <2> QED
    BY <1>2, <2>1, PrivateStep DEF Knows
<1>3. ASSUME NEW r \in Requests, NEW l \in Labels \ {"new", "done"}, Goto(r, l),
             pc[r] # "done",
             UNCHANGED <<store, asks, disturbed>>,
             \A q \in Requests \ {r} : op'[q] = op[q] /\ (q \in held' <=> q \in held),
             r \notin disturbed => Knows(r)'
      PROVE  UInv'
  <2>1. /\ pc'[r] = l /\ answer'[r] = NoAnswer
        /\ \A q \in Requests \ {r} : pc'[q] = pc[q] /\ answer'[q] = answer[q]
    BY <1>3 DEF Goto, TypeOK, Fresh
  <2>2. NoAnswer.status = "none"
    BY FailuresAreAnswers
  <2> QED
    BY <1>3, <2>1, <2>2, PrivateStep
<1>4. ASSUME NEW r \in Requests, ServeStored(r) PROVE UInv'
  BY <1>1, <1>4 DEF ServeStored
<1>5. ASSUME NEW r \in Requests, StartCall(r) PROVE UInv'
  <2>1. Knows(r)'
    BY <1>5 DEF StartCall, Goto, Knows, MyKey, TypeOK, Fresh
  <2> QED
    BY <1>3, <1>5, <2>1 DEF StartCall, Labels
<1>6. ASSUME NEW r \in Requests, NoClient(r) \/ CallFails(r) PROVE UInv'
  BY <1>2, <1>6 DEF NoClient, CallFails
<1>7. ASSUME NEW r \in Requests, CallReturns(r) PROVE UInv'
  <2>1. Finish(r, Failure("llm_error")) \/ Goto(r, "merging")
    BY <1>7 DEF CallReturns
  <2>2. CASE Finish(r, Failure("llm_error"))
    BY <1>2, <1>7, <2>2 DEF CallReturns
  <2>3. CASE Goto(r, "merging")
    <3>1. r \notin disturbed => Knows(r)'
      BY <1>7, <2>3 DEF CallReturns, Goto, UndisturbedKnow, Knows, MyKey, TypeOK
    <3> QED
      BY <1>3, <1>7, <2>3, <3>1 DEF CallReturns, Labels
  <2> QED
    BY <2>1, <2>2, <2>3
<1>8. ASSUME NEW r \in Requests, Merge(r) PROVE UInv'
  <2>1. r \notin disturbed => Knows(r)'
    BY <1>8 DEF Merge, Goto, UndisturbedKnow, Knows, MyKey, TypeOK
  <2>2. \A q \in Requests \ {r} : op'[q] = op[q]
    BY <1>8 DEF Merge, TypeOK
  <2> QED
    BY <1>3, <1>8, <2>1, <2>2 DEF Merge, Labels
<1>9. ASSUME NEW r \in Requests, CommitInsert(r) PROVE UInv'
  <2> DEFINE row == [text |-> r, kept |-> kept[r], created |-> now, written |-> now]
  <2>1. row \in Rows /\ row.text = r
    BY DEF TypeOK, Rows
  <2> QED
    BY <1>9, <2>1, CommitStep DEF CommitInsert
<1>10. ASSUME NEW r \in Requests, CommitUpdate(r) PROVE UInv'
  <2> DEFINE row == [text |-> r, kept |-> kept[r],
                     created |-> store[MyKey(r)].created, written |-> now]
  <2>1. row \in Rows /\ row.text = r
    BY <1>10, MyKeyType, RowType DEF CommitUpdate, TypeOK, Rows
  <2>2. store' = [store EXCEPT ![MyKey(r)] = row]
    BY <1>10 DEF CommitUpdate
  <2> QED
    BY <1>10, <2>1, <2>2, CommitStep DEF CommitUpdate
<1>11. ASSUME NEW r \in Requests, CommitFails(r) PROVE UInv'
  <2>1. r \in disturbed
    BY <1>11 DEF CommitFails, UndisturbedKnow, Knows
  <2> QED
    BY <1>2, <1>11, <2>1 DEF CommitFails
<1>12. ASSUME NEW r \in Requests, Refresh(r) PROVE UInv'
  <2>1. r \notin disturbed => store[MyKey(r)] # Absent /\ store[MyKey(r)].text = r
    BY <1>12 DEF Refresh, UndisturbedKnow, Knows
  <2>2. CASE store[MyKey(r)] = Absent
    BY <1>2, <1>12, <2>1, <2>2 DEF Refresh
  <2>3. CASE store[MyKey(r)] # Absent
    BY <1>1, <1>12, <2>1, <2>3 DEF Refresh
  <2> QED
    BY <2>2, <2>3
<1>13. ASSUME NEW r \in Requests, Crash(r) PROVE UInv'
  BY <1>2, <1>13 DEF Crash
<1>14. CASE Purge
  <2> DEFINE old == {k \in Keys : Expired(k)}
  <2>1. /\ store' = [k \in Keys |-> IF k \in old THEN Absent ELSE store[k]]
        /\ Disturb(NoText, old)
        /\ UNCHANGED <<now, asks, pc, held, kept, op, answer>>
    BY <1>14 DEF Purge
  <2> HIDE DEF old
  <2>2. ASSUME NEW q \in Requests, q \notin disturbed' PROVE Knows(q)'
    <3>1. InFlight(q) => MyKey(q) \notin old
      BY <2>1, <2>2, SentinelAssumption DEF Disturb, MyKey
    <3>2. InFlight(q) => store'[MyKey(q)] = store[MyKey(q)]
      BY <2>1, <3>1, MyKeyType
    <3> QED
      BY <2>1, <2>2, <3>2, Bystander DEF Disturb
  <2>3. Fresh'
    BY <2>1 DEF Disturb, InFlight, Fresh, NoAnswer, Failure
  <2>4. UndisturbedExact'
    BY <2>1 DEF Disturb, UndisturbedExact
  <2> QED
    BY <2>2, <2>3, <2>4 DEF UInv, UndisturbedKnow
<1>15. CASE Tick \/ UNCHANGED vars
  <2>1. UNCHANGED <<store, asks, pc, held, kept, op, answer, disturbed>>
    BY <1>15 DEF Tick, vars
  <2>2. Fresh' /\ UndisturbedExact'
    BY <2>1 DEF Fresh, UndisturbedExact, NoAnswer, Failure
  <2>3. UndisturbedKnow'
    BY <2>1, Bystander DEF UndisturbedKnow
  <2> QED
    BY <2>2, <2>3 DEF UInv
<1> QED
  BY <1>4, <1>5, <1>6, <1>7, <1>8, <1>9, <1>10, <1>11, <1>12, <1>13, <1>14, <1>15
  DEF Next, Step

LEMMA UInit == Init => UInv
<1>1. NoAnswer.status = "none"
  BY FailuresAreAnswers
<1> QED
  BY <1>1 DEF Init, UInv, Fresh, UndisturbedKnow, Knows, UndisturbedExact

LEMMA Invariance == Spec => []IInv
<1>1. Init => IInv
  BY GInit, UInit DEF IInv, UInv
<1>2. IInv /\ [Next]_vars => IInv'
  BY GStep, UStep DEF IInv, UInv
<1> QED
  BY <1>1, <1>2, PTL DEF Spec

\* Without a second actor on its row no request fails over that row or is
\* given a text it did not ask the model for.
THEOREM UndisturbedIsExact == Spec => []UndisturbedExact
  BY Invariance, PTL DEF IInv

-----------------------------------------------------------------------------
(* The sessions implement the promise.                                     *)

StoredMap == [p \in Packets |-> StoredText(p)]
WantedMap == [r \in Requests |-> asks[r].packet]
ReplyMap == [r \in Requests |-> Reply(r)]

LEMMA PromiseInit == Init => Promise!Init
<1> SUFFICES ASSUME Init PROVE Promise!Init
  OBVIOUS
<1>1. \A p \in Packets : StoredText(p) = {}
  BY DEF Init, StoredText, Keys
<1>2. \A r \in Requests : Reply(r) = Promise!Unanswered
  BY DEF Init, Reply, Promise!Unanswered, NoAnswer, Failure
<1>3. WantedMap \in [Requests -> Packets]
  BY DEF Init, WantedMap
<1> QED
  BY <1>1, <1>2, <1>3 DEF Promise!Init, WantedMap

\* Steps that touch neither the table nor an answer are invisible.
LEMMA Invisible ==
  ASSUME UNCHANGED <<store, asks, answer>>
  PROVE  UNCHANGED Promise!promiseVars
  BY DEF Promise!promiseVars, StoredText, Reply

\* Ending without a text is a failure of the promise.
LEMMA FailStep ==
  ASSUME IInv, NEW r \in Requests, pc[r] # "done",
         NEW s \in {"llm_error", "misconfigured", "row_error", "lost"},
         Finish(r, Failure(s)), UNCHANGED <<store, asks>>
  PROVE  Promise!Fail(r)
<1> USE DEF IInv, GInv
<1>1. answer[r] = NoAnswer /\ answer' = [answer EXCEPT ![r] = Failure(s)]
  BY DEF Fresh, Finish
<1>2. Reply(r) = Promise!Unanswered
  BY <1>1 DEF Reply, Promise!Unanswered, NoAnswer, Failure
<1>3. Reply(r)' = Promise!Failed
  BY <1>1 DEF Reply, Promise!Failed, NoAnswer, Failure, TypeOK
<1>4. \A q \in Requests \ {r} : Reply(q)' = Reply(q)
  BY <1>1 DEF Reply, TypeOK
<1>5. StoredMap' = StoredMap /\ WantedMap' = WantedMap
  BY DEF StoredMap, WantedMap, StoredText
<1>6. ReplyMap' = [ReplyMap EXCEPT ![r] = Promise!Failed]
  BY <1>3, <1>4 DEF ReplyMap
<1> QED
  BY <1>2, <1>5, <1>6 DEF Promise!Fail, StoredMap, WantedMap, ReplyMap

\* Answering from the row delivers what is stored.
LEMMA DeliverStep ==
  ASSUME IInv, NEW r \in Requests, pc[r] # "done", NEW c \in BOOLEAN,
         store[MyKey(r)] # Absent,
         Finish(r, Response(store[MyKey(r)], asks[r].packet, c)),
         UNCHANGED <<store, asks>>
  PROVE  Promise!Deliver(r)
<1> USE DEF IInv, GInv
<1> DEFINE a == Response(store[MyKey(r)], asks[r].packet, c)
<1>1. /\ a.status = "ok" /\ a.kept = store[MyKey(r)].kept
      /\ Grounded(asks[r].packet, store[MyKey(r)].kept)
  BY RowResponds
<1>2. answer[r] = NoAnswer /\ answer' = [answer EXCEPT ![r] = a]
  BY DEF Fresh, Finish
<1> HIDE DEF a
<1>3. asks[r].packet \in Packets
  BY MyKeyType
<1>4. StoredText(asks[r].packet) = a.kept /\ a.kept # {}
  BY <1>1, <1>3 DEF StoredText, MyKey, Grounded
<1>5. Reply(r) = Promise!Unanswered
  BY <1>2 DEF Reply, Promise!Unanswered, NoAnswer, Failure
<1>6. Reply(r)' = Promise!Given(a.kept)
  BY <1>1, <1>2 DEF Reply, Promise!Given, TypeOK
<1>7. \A q \in Requests \ {r} : Reply(q)' = Reply(q)
  BY <1>2 DEF Reply, TypeOK
<1>8. StoredMap' = StoredMap /\ WantedMap' = WantedMap
  BY DEF StoredMap, WantedMap, StoredText
<1>9. ReplyMap' = [ReplyMap EXCEPT ![r] = Promise!Given(a.kept)]
  BY <1>6, <1>7 DEF ReplyMap
<1>10. StoredMap[WantedMap[r]] = a.kept
  BY <1>3, <1>4 DEF StoredMap, WantedMap
<1> QED
  BY <1>4, <1>5, <1>8, <1>9, <1>10 DEF Promise!Deliver, StoredMap, WantedMap, ReplyMap

\* Committing a checked draft writes it.
LEMMA WriteStep ==
  ASSUME IInv, NEW r \in Requests, pc[r] = "flushing",
         NEW row \in Rows, row.kept = kept[r],
         store' = [store EXCEPT ![MyKey(r)] = row],
         UNCHANGED <<asks, answer>>
  PROVE  Promise!Write(r)
<1> USE DEF IInv, GInv
<1>1. asks[r].packet \in Packets /\ MyKey(r) \in Keys /\ row # Absent
  BY MyKeyType, SentinelAssumption
<1>2. Grounded(asks[r].packet, kept[r]) /\ kept[r] \in SUBSET Sentences
  BY DEF CarriedGrounded, TypeOK
<1>3. Reply(r) = Promise!Unanswered
  BY DEF Fresh, Reply, Promise!Unanswered, NoAnswer, Failure
<1>4. StoredText(asks[r].packet)' = kept[r]
  BY <1>1 DEF StoredText, MyKey, TypeOK
<1>5. ASSUME NEW p \in Packets, p # asks[r].packet PROVE StoredText(p)' = StoredText(p)
  <2>1. KeyOf(p) \in Keys /\ KeyOf(p) # MyKey(r)
    BY <1>1, <1>5, KeyInjective DEF MyKey, Keys
  <2> QED
    BY <2>1 DEF StoredText, TypeOK
<1>6. StoredMap' = [StoredMap EXCEPT ![WantedMap[r]] = kept[r]]
  BY <1>1, <1>4, <1>5 DEF StoredMap, WantedMap
<1>7. WantedMap' = WantedMap /\ ReplyMap' = ReplyMap
  BY DEF WantedMap, ReplyMap, Reply
<1> QED
  BY <1>2, <1>3, <1>6, <1>7 DEF Promise!Write, StoredMap, WantedMap, ReplyMap

\* Every step of the sessions is a step of the promise or invisible in it.
LEMMA PromiseStep == IInv /\ [Next]_vars => [Promise!Next]_(Promise!promiseVars)
<1> SUFFICES ASSUME IInv, [Next]_vars
             PROVE  Promise!Next \/ UNCHANGED Promise!promiseVars
  OBVIOUS
<1> USE DEF IInv, GInv
<1>1. ASSUME NEW r \in Requests, ServeStored(r) PROVE Promise!Next
  BY <1>1, DeliverStep DEF ServeStored, Promise!Next
<1>2. ASSUME NEW r \in Requests, StartCall(r) \/ Merge(r) PROVE UNCHANGED Promise!promiseVars
  BY <1>2, Invisible DEF StartCall, Merge, Goto
<1>3. ASSUME NEW r \in Requests,
             NoClient(r) \/ CallFails(r) \/ CommitFails(r) \/ Crash(r)
      PROVE  Promise!Next
  BY <1>3, FailStep DEF NoClient, CallFails, CommitFails, Crash, Promise!Next
<1>4. ASSUME NEW r \in Requests, CallReturns(r)
      PROVE  Promise!Next \/ UNCHANGED Promise!promiseVars
  <2>1. Finish(r, Failure("llm_error")) \/ Goto(r, "merging")
    BY <1>4 DEF CallReturns
  <2> QED
    BY <1>4, <2>1, FailStep, Invisible DEF CallReturns, Goto, Promise!Next
<1>5. ASSUME NEW r \in Requests, CommitInsert(r) PROVE Promise!Next
  <2> DEFINE row == [text |-> r, kept |-> kept[r], created |-> now, written |-> now]
  <2>1. row \in Rows /\ row.kept = kept[r]
    BY DEF TypeOK, Rows
  <2> QED
    BY <1>5, <2>1, WriteStep DEF CommitInsert, Goto, Promise!Next
<1>6. ASSUME NEW r \in Requests, CommitUpdate(r) PROVE Promise!Next
  <2> DEFINE row == [text |-> r, kept |-> kept[r],
                     created |-> store[MyKey(r)].created, written |-> now]
  <2>1. row \in Rows /\ row.kept = kept[r]
    BY <1>6, MyKeyType, RowType DEF CommitUpdate, TypeOK, Rows
  <2>2. store' = [store EXCEPT ![MyKey(r)] = row]
    BY <1>6 DEF CommitUpdate
  <2> QED
    BY <1>6, <2>1, <2>2, WriteStep DEF CommitUpdate, Goto, Promise!Next
<1>7. ASSUME NEW r \in Requests, Refresh(r) PROVE Promise!Next
  <2>1. CASE store[MyKey(r)] = Absent
    BY <1>7, <2>1, FailStep DEF Refresh, Promise!Next
  <2>2. CASE store[MyKey(r)] # Absent
    BY <1>7, <2>2, DeliverStep DEF Refresh, Promise!Next
  <2> QED
    BY <2>1, <2>2
<1>8. CASE Purge
  <2> DEFINE gone == {p \in Packets : Expired(KeyOf(p))}
  <2>1. \A p \in Packets :
          StoredText(p)' = IF p \in gone THEN {} ELSE StoredText(p)
    BY <1>8 DEF Purge, StoredText, Keys
  <2>2. StoredMap' = [p \in Packets |-> IF p \in gone THEN {} ELSE StoredMap[p]]
    BY <2>1 DEF StoredMap
  <2>3. WantedMap' = WantedMap /\ ReplyMap' = ReplyMap
    BY <1>8 DEF Purge, WantedMap, ReplyMap, Reply
  <2>4. gone \in SUBSET Packets
    OBVIOUS
  <2> HIDE DEF gone
  <2> QED
    BY <2>2, <2>3, <2>4 DEF Promise!Next, Promise!Forget, StoredMap, WantedMap, ReplyMap
<1>9. CASE Tick \/ UNCHANGED vars
  BY <1>9, Invisible DEF Tick, vars
<1> QED
  BY <1>1, <1>2, <1>3, <1>4, <1>5, <1>6, <1>7, <1>8, <1>9 DEF Next, Step

\* The explanation sessions, with all their races, implement the promise.
THEOREM ImplementsPromise == Spec => Promised
<1>1. Promised <=> Promise!Init /\ [][Promise!Next]_(Promise!promiseVars)
  BY DEF Promised, Promise!Spec
<1> QED
  BY <1>1, Invariance, PromiseInit, PromiseStep, PTL DEF Spec
=============================================================================
