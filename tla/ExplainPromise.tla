--------------------------- MODULE ExplainPromise ---------------------------
(***************************************************************************)
(* What app/llm promises its callers, without sessions, transactions or    *)
(* races: for every exact input there is at most one stored explanation,   *)
(* an explanation is only ever stored under the input it was written for   *)
(* and after every sentence in it was found to cite evidence of that       *)
(* input, and a successful answer is the explanation stored at the moment  *)
(* the answer is formed.  Module Explain implements it.                    *)
(***************************************************************************)
CONSTANTS
  Requests,    \* HTTP requests for an explanation
  Packets,     \* evidence packets
  Grounded(_, _),  \* Grounded(p, t): t only says what packet p supports
  Texts,       \* everything a model may write
  Nothing      \* no text

VARIABLES
  stored,      \* stored[p]: the explanation kept for exactly packet p
  wanted,      \* wanted[r]: the packet request r is about
  reply        \* reply[r]: how r was answered, and with which text

promiseVars == <<stored, wanted, reply>>

Unanswered == [how |-> "none", text |-> Nothing]
Failed == [how |-> "failed", text |-> Nothing]
Given(t) == [how |-> "given", text |-> t]

Init ==
  /\ stored = [p \in Packets |-> Nothing]
  /\ wanted \in [Requests -> Packets]
  /\ reply = [r \in Requests |-> Unanswered]

\* An unanswered request stores a text that its own packet supports.
Write(r) ==
  /\ reply[r] = Unanswered
  /\ \E t \in Texts :
       /\ Grounded(wanted[r], t)
       /\ stored' = [stored EXCEPT ![wanted[r]] = t]
  /\ UNCHANGED <<wanted, reply>>

\* Retention forgets any set of explanations.
Forget ==
  /\ \E old \in SUBSET Packets :
       stored' = [p \in Packets |-> IF p \in old THEN Nothing ELSE stored[p]]
  /\ UNCHANGED <<wanted, reply>>

\* A request is answered, once, with what is stored for its packet.
Deliver(r) ==
  /\ reply[r] = Unanswered
  /\ stored[wanted[r]] # Nothing
  /\ reply' = [reply EXCEPT ![r] = Given(stored[wanted[r]])]
  /\ UNCHANGED <<stored, wanted>>

Fail(r) ==
  /\ reply[r] = Unanswered
  /\ reply' = [reply EXCEPT ![r] = Failed]
  /\ UNCHANGED <<stored, wanted>>

Next ==
  \/ \E r \in Requests : Write(r) \/ Deliver(r) \/ Fail(r)
  \/ Forget

Spec == Init /\ [][Next]_promiseVars
=============================================================================
