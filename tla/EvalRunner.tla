----------------------------- MODULE EvalRunner -------------------------------
(***************************************************************************)
(* evals/repro_narrative/run.py: a runner process for each variant, its    *)
(* thread pool, and the files that a restarted process goes on from.       *)
(* An attempt that waits for a thread of the pool is one that is not yet   *)
(* generating, so the size of the pool makes no difference.  results.jsonl *)
(* and errors.jsonl are appended to under a lock; a trace is a file of its *)
(* own; a reference is created, then written.  At most one process of a    *)
(* variant runs at a time, which nothing but its user sees to.             *)
(***************************************************************************)
EXTENDS Naturals, FiniteSets, SequencesExt

CONSTANTS
  Cases,
  Variants,      \* the variants other than the baseline
  LastRep,       \* bound: the highest repetition asked of each runner
  Narratives,    \* what the model may write
  None,          \* no file, no narrative, no verdict
  Torn           \* a reference that was created and not yet written

ASSUME RunnerAssumption ==
  /\ "baseline" \notin Variants
  /\ LastRep \in [Variants \cup {"baseline"} -> Nat]
  /\ {None, Torn} \cap Narratives = {} /\ None # Torn

Runners == Variants \cup {"baseline"}
Attempts == [case : Cases, rep : 0 .. Max(Range(LastRep))]
Idle == [at |-> "idle", text |-> None, judged |-> None, better |-> None, win |-> None]

VARIABLES
  running,   \* is there a process of the variant?
  todo,      \* the attempts it has taken on
  work,      \* where each attempt of a running process is
  results,   \* results.jsonl of each variant, by attempt
  errors,    \* the attempts a running process has put into errors.jsonl
  traces,    \* traces/ of each variant
  ref,       \* baseline/ref/ of each case
  cut        \* the variants whose results.jsonl ends in a line that was cut short

memory == <<running, todo, work, errors>>
files == <<results, traces, ref, cut>>
vars == <<memory, files>>

Done(v) == {a \in Attempts : results[v][a] # <<>>}

Init ==
  /\ running = [v \in Runners |-> FALSE]
  /\ todo = [v \in Runners |-> {}]
  /\ work = [v \in Runners |-> [a \in Attempts |-> Idle]]
  /\ results = [v \in Runners |-> [a \in Attempts |-> <<>>]]
  /\ errors = [v \in Runners |-> {}]
  /\ traces = [v \in Runners |-> [a \in Attempts |-> None]]
  /\ ref = [c \in Cases |-> None]
  /\ cut = {}

-----------------------------------------------------------------------------
(* main: a process of variant v.                                           *)

\* A bug: a restarted process does everything again.
TodoAll(v, chosen) == chosen

\* What a process that is started for the chosen attempts takes on.
Todo(v, chosen) == chosen \ Done(v)

\* A process starts for some cases and repetitions 0 .. reps - 1; a variant
\* only where every case it has to do has a reference file.  With a line that was
\* cut short it fails each time: every line is parsed first.
Start(v) ==
  /\ ~running[v] /\ v \notin cut
  /\ \E cs \in SUBSET Cases, last \in 0 .. LastRep[v] :
       LET mine == Todo(v, {a \in Attempts : a.case \in cs /\ a.rep <= last}) IN
       /\ mine # {}
       /\ v # "baseline" => \A a \in mine : ref[a.case] # None
       /\ todo' = [todo EXCEPT ![v] = mine]
       /\ work' = [work EXCEPT ![v] =
            [a \in Attempts |-> IF a \in mine THEN [Idle EXCEPT !.at = "generate"] ELSE Idle]]
  /\ running' = [running EXCEPT ![v] = TRUE]
  /\ UNCHANGED <<errors, files>>

\* All attempts are over and the summary is printed.
End(v) ==
  /\ running[v]
  /\ \A a \in todo[v] : work[v][a].at = "idle"
  /\ running' = [running EXCEPT ![v] = FALSE]
  /\ todo' = [todo EXCEPT ![v] = {}]
  /\ errors' = [errors EXCEPT ![v] = {}]
  /\ UNCHANGED <<work, files>>

\* The process is killed; its files stay.  A row that it was appending may be
\* cut short.  (A row cut just before its line feed would be read well once and
\* spoil the next one; it is taken for appended here.)
Crash(v) ==
  /\ running[v]
  /\ cut' \in {cut} \cup (IF \E a \in Attempts : work[v][a].at = "append" THEN {cut \cup {v}} ELSE {})
  /\ running' = [running EXCEPT ![v] = FALSE]
  /\ todo' = [todo EXCEPT ![v] = {}]
  /\ work' = [work EXCEPT ![v] = [a \in Attempts |-> Idle]]
  /\ errors' = [errors EXCEPT ![v] = {}]
  /\ UNCHANGED <<results, traces, ref>>

-----------------------------------------------------------------------------
(* attempt and run_one: an attempt a of variant v.  better is what the     *)
(* judge found, "candidate", "reference" or "neither"; win is in halves.   *)

Become(v, a, state) == work' = [work EXCEPT ![v][a] = state] /\ UNCHANGED <<running, todo, errors>>
GoTo(v, a, at) == Become(v, a, [work[v][a] EXCEPT !.at = at])
\* A row; better is history, which the code has as verdict and position.
RowOf(v, a) ==
  LET w == work[v][a]
  IN  [text |-> w.text, judged |-> w.judged, better |-> w.better, win |-> w.win]
At(v, a, at) == running[v] /\ work[v][a].at = at

\* A bug: only model failures are recorded, and the rest is dropped.
FailUnrecorded(v, a) ==
  /\ Become(v, a, Idle)
  /\ UNCHANGED files

\* An Outcome, or any other exception, is appended to errors.jsonl.
Fail(v, a) ==
  /\ work' = [work EXCEPT ![v][a] = Idle]
  /\ errors' = [errors EXCEPT ![v] = @ \cup {a}]
  /\ UNCHANGED <<running, todo, files>>

\* The score of a narrative that is not compared: neutral, in halves, for the
\* baseline; nothing for a variant whose answer was unusable.
Uncompared(v) == IF v = "baseline" THEN 1 ELSE 0

\* The model answers with something usable; or breaks the schema, a graded
\* failure; or is cut off or refuses, which has a row and no score; or it stays
\* unavailable until attempts or time are used up, or is not the model that was
\* asked for.  (A try in between changes nothing.)
Generate(v, a) ==
  /\ At(v, a, "generate")
  /\ \/ \E text \in Narratives :
          /\ Become(v, a, [work[v][a] EXCEPT !.text = text,
               !.win = IF v = "baseline" THEN Uncompared(v) ELSE None,
               !.at = IF v # "baseline" THEN "judge" ELSE IF a.rep = 0 THEN "freeze" ELSE "trace"])
          /\ UNCHANGED files
     \/ \E win \in {Uncompared(v), None} :
          Become(v, a, [work[v][a] EXCEPT !.at = "trace", !.win = win]) /\ UNCHANGED files
     \/ Fail(v, a)

\* A bug: a reference is written again.
FreezeAgain(v, a) ==
  /\ At(v, a, "freeze")
  /\ ref' = [ref EXCEPT ![a.case] = Torn]
  /\ GoTo(v, a, "write")
  /\ UNCHANGED <<results, traces, cut>>

\* "frozen: never regenerated": the file is created where there is none.
Freeze(v, a) ==
  /\ At(v, a, "freeze")
  /\ IF ref[a.case] = None
       THEN ref' = [ref EXCEPT ![a.case] = Torn] /\ GoTo(v, a, "write")
       ELSE UNCHANGED ref /\ GoTo(v, a, "trace")
  /\ UNCHANGED <<results, traces, cut>>

WriteReference(v, a) ==
  /\ At(v, a, "write")
  /\ ref' = [ref EXCEPT ![a.case] = work[v][a].text]
  /\ GoTo(v, a, "trace")
  /\ UNCHANGED <<results, traces, cut>>

\* The judge is shown a candidate and a reference as A and B, in an order of
\* chance, and says which is better: "A", "B", or neither (a tie or both bad).
Verdict(candidate_is_a, better) ==
  IF better = "neither" THEN "neither"
  ELSE IF candidate_is_a <=> better = "candidate" THEN "A" ELSE "B"

\* A bug: the first narrative is taken for the candidate.
WinOfA(candidate_is_a, verdict) ==
  IF verdict = "A" THEN 2 ELSE IF verdict = "B" THEN 0 ELSE 1

\* What the candidate gets for a verdict, in halves.
Win(candidate_is_a, verdict) ==
  LET mine == IF candidate_is_a THEN "A" ELSE "B"
      theirs == IF candidate_is_a THEN "B" ELSE "A"
  IN  IF verdict = mine THEN 2 ELSE IF verdict = theirs THEN 0 ELSE 1

\* The reference is read, which fails where it is torn, and the judge compares
\* (judge_with_retries): a verdict, or an Outcome after the last try, for a
\* verdict that is cut off, or for a judge that is not the one asked for.
Judge(v, a) ==
  /\ At(v, a, "judge")
  /\ \/ /\ ref[a.case] # Torn
        /\ \E candidate_is_a \in BOOLEAN, better \in {"candidate", "reference", "neither"} :
             Become(v, a, [work[v][a] EXCEPT !.at = "trace",
               !.judged = ref[a.case], !.better = better,
               !.win = Win(candidate_is_a, Verdict(candidate_is_a, better))])
        /\ UNCHANGED files
     \/ Fail(v, a)

\* A bug: the repetitions of a case write one trace.
WriteTraceOfCase(v, a) ==
  /\ At(v, a, "trace")
  /\ traces' = [traces EXCEPT ![v][[a EXCEPT !.rep = 0]] = RowOf(v, a)]
  /\ GoTo(v, a, "append")
  /\ UNCHANGED <<results, ref, cut>>

WriteTrace(v, a) ==
  /\ At(v, a, "trace")
  /\ traces' = [traces EXCEPT ![v][a] = RowOf(v, a)]
  /\ GoTo(v, a, "append")
  /\ UNCHANGED <<results, ref, cut>>

AppendRow(v, a) ==
  /\ At(v, a, "append")
  /\ results' = [results EXCEPT ![v][a] = Append(@, RowOf(v, a))]
  /\ Become(v, a, Idle)
  /\ UNCHANGED <<traces, ref, cut>>

Attempt(v, a) ==
  \/ Generate(v, a)
  \/ Freeze(v, a) \/ WriteReference(v, a)
  \/ Judge(v, a)
  \/ WriteTrace(v, a) \/ AppendRow(v, a)

Next ==
  \E v \in Runners :
    \/ Start(v) \/ End(v) \/ Crash(v)
    \/ \E a \in Attempts : Attempt(v, a)

Spec == Init /\ [][Next]_vars

-----------------------------------------------------------------------------
\* "one row per scored attempt": however often the runner is killed and started
\* again, no attempt counts twice in the means of the summary, and the row has
\* the trace of the very narrative it scores, although an attempt that was cut
\* short before its row is made again.
OneRow ==
  \A v \in Runners, a \in Attempts :
    /\ Len(results[v][a]) <= 1
    /\ results[v][a] # <<>> => traces[v][a] = Last(results[v][a])

\* "The baseline's rep-0 narratives are frozen .. and every other variant is
\* judged pairwise against them": every narrative of a variant was judged, all of
\* a case against one reference, the one that is still there.  It wins if the
\* judge found it the better one and loses if not, in whichever position it was
\* shown; and no unusable answer wins.
OneReference ==
  \A v \in Variants : \A a \in Done(v) :
    LET row == Last(results[v][a]) IN
    IF row.text = None THEN row.judged = None /\ row.win \in {0, None}
    ELSE /\ row.judged = ref[a.case]
         /\ row.win = 2 <=> row.better = "candidate"
         /\ row.win = 0 <=> row.better = "reference"

\* A process that comes to its end has left a result or an error for every
\* attempt it took on.
NothingLost ==
  [][\A v \in Runners : End(v) => todo[v] \subseteq Done(v) \cup errors[v]]_vars
=============================================================================
