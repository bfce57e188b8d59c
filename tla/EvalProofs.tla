------------------------------ MODULE EvalProofs ------------------------------
(***************************************************************************)
(* What module EvalRunner guarantees for any cases, variants and           *)
(* repetitions, however often and whenever the runners are killed.         *)
(***************************************************************************)
EXTENDS EvalRunner, TLAPS

Steps == {"idle", "generate", "freeze", "write", "judge", "trace", "append"}
Texts == Narratives \cup {None}
Findings == {"candidate", "reference", "neither", None}
Wins == {0, 1, 2, None}
Rows == [text : Texts, judged : Texts, better : Findings, win : Wins]
Works == [at : Steps, text : Texts, judged : Texts, better : Findings, win : Wins]

Types ==
  /\ running \in [Runners -> BOOLEAN]
  /\ work \in [Runners -> [Attempts -> Works]]
  /\ results \in [Runners -> [Attempts -> Seq(Rows)]]
  /\ traces \in [Runners -> [Attempts -> Rows \cup {None}]]
  /\ ref \in [Cases -> Narratives \cup {None, Torn}]

(* An attempt under way has no row yet; a row has its trace, which is       *)
(* written while the attempt is under way and never after.                  *)
Progress(v, a) ==
  /\ work[v][a].at # "idle" => results[v][a] = <<>>
  /\ work[v][a].at = "append" => traces[v][a] = RowOf(v, a)
  /\ results[v][a] \in {<<>>, <<traces[v][a]>>}

(* What a row of a variant may say.                                         *)
Fair(row, a) ==
  IF row.text = None THEN row.judged = None /\ row.win \in {0, None}
  ELSE /\ row.judged = ref[a.case] /\ row.judged \in Narratives
       /\ row.win = 2 <=> row.better = "candidate"
       /\ row.win = 0 <=> row.better = "reference"

(* A variant's attempt has a reference to be judged against, and what it    *)
(* has come to is fair.                                                     *)
Judging(v, a) ==
  /\ work[v][a].at \notin {"freeze", "write"}
  /\ work[v][a].at # "idle" => ref[a.case] # None
  /\ work[v][a].at = "generate" => work[v][a].text = None /\ work[v][a].judged = None
  /\ work[v][a].at = "judge" => work[v][a].text \in Narratives
  /\ work[v][a].at \in {"trace", "append"} => Fair(RowOf(v, a), a)
  /\ results[v][a] # <<>> => Fair(results[v][a][1], a)

(* The baseline is not judged, and only its repetition 0 writes a           *)
(* reference, which it created.                                             *)
Writing(a) ==
  /\ work["baseline"][a].at # "judge"
  /\ work["baseline"][a].at \in {"freeze", "write"} =>
       a.rep = 0 /\ work["baseline"][a].text \in Narratives
  /\ work["baseline"][a].at = "write" => ref[a.case] = Torn

IInv ==
  /\ Types
  /\ \A v \in Runners, a \in Attempts : Progress(v, a)
  /\ \A v \in Variants, a \in Attempts : Judging(v, a)
  /\ \A a \in Attempts : Writing(a)

-----------------------------------------------------------------------------
(* Lemmas about attempts, rows and the judge.                              *)

LEMMA AttemptParts ==
  ASSUME NEW a \in Attempts
  PROVE  a.case \in Cases
  BY DEF Attempts

\* Repetition 0 of a case is one attempt.
LEMMA OneFirstAttempt ==
  ASSUME NEW a \in Attempts, NEW b \in Attempts, a.case = b.case, a.rep = b.rep
  PROVE  a = b
  BY DEF Attempts

LEMMA RunnerNames == Variants \subseteq Runners /\ "baseline" \in Runners /\ "baseline" \notin Variants
  BY RunnerAssumption DEF Runners

LEMMA IdleType == Idle \in Works /\ [Idle EXCEPT !.at = "generate"] \in Works
  BY DEF Idle, Works, Steps, Texts, Findings, Wins

LEMMA RowType ==
  ASSUME Types, NEW v \in Runners, NEW a \in Attempts
  PROVE  RowOf(v, a) \in Rows
  BY DEF Types, Works, Rows, RowOf

\* Whatever the order of presentation, the candidate gets what the judge found.
LEMMA JudgeIsBlind ==
  ASSUME NEW p \in BOOLEAN, NEW b \in {"candidate", "reference", "neither"}
  PROVE  /\ Win(p, Verdict(p, b)) \in {0, 1, 2}
         /\ Win(p, Verdict(p, b)) = 2 <=> b = "candidate"
         /\ Win(p, Verdict(p, b)) = 0 <=> b = "reference"
<1>1. CASE p
  <2>1. Verdict(p, b) = IF b = "neither" THEN "neither" ELSE IF b = "candidate" THEN "A" ELSE "B"
    BY <1>1 DEF Verdict
  <2>2. \A x : Win(p, x) = IF x = "A" THEN 2 ELSE IF x = "B" THEN 0 ELSE 1
    BY <1>1 DEF Win
  <2> QED
    BY <2>1, <2>2
<1>2. CASE ~p
  <2>1. Verdict(p, b) = IF b = "neither" THEN "neither" ELSE IF b = "candidate" THEN "B" ELSE "A"
    BY <1>2 DEF Verdict
  <2>2. \A x : Win(p, x) = IF x = "B" THEN 2 ELSE IF x = "A" THEN 0 ELSE 1
    BY <1>2 DEF Win
  <2> QED
    BY <2>1, <2>2
<1> QED
  BY <1>1, <1>2

-----------------------------------------------------------------------------
(* The invariant.                                                          *)

LEMMA IInit == Init => IInv
<1> SUFFICES ASSUME Init PROVE IInv
  OBVIOUS
<1>1. Types
  BY IdleType DEF Init, Types
<1>2. \A v \in Runners, a \in Attempts : work[v][a] = Idle /\ results[v][a] = <<>>
  BY DEF Init
<1> QED
  BY <1>1, <1>2, RunnerNames DEF IInv, Progress, Judging, Writing, Idle

\* A step that changes the state of attempt a of runner v and no reference.
LEMMA OwnStep ==
  ASSUME IInv, NEW v \in Runners, NEW a \in Attempts, Types', UNCHANGED ref,
         \A u \in Runners, b \in Attempts : u # v \/ b # a =>
           work'[u][b] = work[u][b] /\ results'[u][b] = results[u][b] /\ traces'[u][b] = traces[u][b],
         Progress(v, a)',
         v \in Variants => Judging(v, a)',
         v = "baseline" => Writing(a)'
  PROVE  IInv'
<1>1. ASSUME NEW u \in Runners, NEW b \in Attempts PROVE Progress(u, b)'
  <2>1. CASE u = v /\ b = a
    BY <2>1
  <2>2. CASE u # v \/ b # a
    BY <2>2 DEF IInv, Progress, RowOf
  <2> QED
    BY <2>1, <2>2
<1>2. ASSUME NEW u \in Variants, NEW b \in Attempts PROVE Judging(u, b)'
  <2>1. CASE u = v /\ b = a
    BY <2>1
  <2>2. CASE u # v \/ b # a
    BY <2>2, RunnerNames DEF IInv, Judging, Fair, RowOf
  <2> QED
    BY <2>1, <2>2
<1>3. ASSUME NEW b \in Attempts PROVE Writing(b)'
  <2>1. CASE v = "baseline" /\ b = a
    BY <2>1
  <2>2. CASE v # "baseline" \/ b # a
    BY <2>2, RunnerNames DEF IInv, Writing
  <2> QED
    BY <2>1, <2>2
<1> QED
  BY <1>1, <1>2, <1>3 DEF IInv

\* What Become and the other assignments to the state of one attempt do.
LEMMA WorkStep ==
  ASSUME Types, NEW v \in Runners, NEW a \in Attempts, NEW w \in Works,
         work' = [work EXCEPT ![v][a] = w]
  PROVE  /\ work' \in [Runners -> [Attempts -> Works]]
         /\ work'[v][a] = w
         /\ \A u \in Runners, b \in Attempts : u # v \/ b # a => work'[u][b] = work[u][b]
  BY DEF Types

\* A step that changes work only, and only of attempt a.
LEMMA WorkOnly ==
  ASSUME IInv, NEW v \in Runners, NEW a \in Attempts, NEW w \in Works,
         work' = [work EXCEPT ![v][a] = w], UNCHANGED files, running' = running,
         w.at # "idle" => work[v][a].at # "idle",
         w.at # "append",
         v \in Variants => Judging(v, a)',
         v = "baseline" => Writing(a)'
  PROVE  IInv'
<1>0. Types
  BY DEF IInv
<1>1. /\ work' \in [Runners -> [Attempts -> Works]]
      /\ work'[v][a] = w
      /\ \A u \in Runners, b \in Attempts : u # v \/ b # a => work'[u][b] = work[u][b]
  BY <1>0 DEF Types
<1>2. Types'
  BY <1>0, <1>1 DEF Types, files
<1>3. Progress(v, a)'
  BY <1>1 DEF IInv, Progress, files
<1> QED
  BY <1>1, <1>2, <1>3, OwnStep DEF files

LEMMA StartStep ==
  ASSUME IInv, NEW v \in Runners, Start(v)
  PROVE  IInv'
<1>1. PICK cs \in SUBSET Cases, last \in 0 .. LastRep[v] :
        LET mine == Todo(v, {a \in Attempts : a.case \in cs /\ a.rep <= last}) IN
        /\ v # "baseline" => \A a \in mine : ref[a.case] # None
        /\ work' = [work EXCEPT ![v] =
             [a \in Attempts |-> IF a \in mine THEN [Idle EXCEPT !.at = "generate"] ELSE Idle]]
  BY DEF Start
<1> DEFINE mine == Todo(v, {a \in Attempts : a.case \in cs /\ a.rep <= last})
           begun == [Idle EXCEPT !.at = "generate"]
<1>2. \A a \in mine : a \in Attempts /\ results[v][a] = <<>>
  BY DEF Todo, Done
<1> HIDE DEF mine, begun
<1>3. /\ running' = [running EXCEPT ![v] = TRUE] /\ UNCHANGED <<results, traces, ref>>
      /\ work' = [work EXCEPT ![v] = [a \in Attempts |-> IF a \in mine THEN begun ELSE Idle]]
  BY <1>1 DEF Start, files, mine, begun
<1>4. begun \in Works /\ Idle \in Works
  BY IdleType DEF begun
<1>5. Types'
  BY <1>3, <1>4 DEF IInv, Types
<1>6. \A a \in Attempts : work'[v][a] = IF a \in mine THEN begun ELSE Idle
  BY <1>3 DEF IInv, Types
<1>7. \A u \in Runners \ {v}, a \in Attempts : work'[u][a] = work[u][a]
  BY <1>3 DEF IInv, Types
<1>8. /\ begun.at = "generate" /\ begun.text = None /\ begun.judged = None
      /\ Idle.at = "idle"
  BY DEF begun, Idle
<1>9. ASSUME NEW u \in Runners, NEW a \in Attempts PROVE Progress(u, a)'
  <2>1. CASE u = v
    <3>1. work'[u][a].at # "append" /\ (work'[u][a].at # "idle" => results[u][a] = <<>>)
      BY <1>2, <1>6, <1>8, <2>1
    <3> QED
      BY <1>3, <3>1 DEF IInv, Progress
  <2>2. CASE u # v
    <3>1. work'[u][a] = work[u][a]
      BY <1>7, <2>2
    <3>2. RowOf(u, a)' = RowOf(u, a)
      BY <3>1 DEF RowOf
    <3> QED
      BY <1>3, <3>1, <3>2 DEF IInv, Progress
  <2> QED
    BY <2>1, <2>2
<1>10. ASSUME NEW u \in Variants, NEW a \in Attempts PROVE Judging(u, a)'
  <2>1. CASE u = v
    <3>1. a \in mine => ref[a.case] # None
      BY <1>1, <2>1, RunnerNames DEF mine
    <3>2. work'[u][a].at \in {"generate", "idle"}
      BY <1>6, <1>8, <2>1
    <3>3. work'[u][a].at = "generate" =>
            a \in mine /\ work'[u][a].text = None /\ work'[u][a].judged = None
      BY <1>6, <1>8, <2>1
    <3> QED
      BY <1>3, <3>1, <3>2, <3>3 DEF IInv, Judging, Fair
  <2>2. CASE u # v
    BY <1>3, <1>7, <2>2, RunnerNames DEF IInv, Judging, Fair, RowOf
  <2> QED
    BY <2>1, <2>2
<1>11. ASSUME NEW a \in Attempts PROVE Writing(a)'
  BY <1>3, <1>6, <1>7, <1>8, RunnerNames DEF IInv, Writing
<1> QED
  BY <1>5, <1>9, <1>10, <1>11 DEF IInv

LEMMA EndStep ==
  ASSUME IInv, NEW v \in Runners, End(v)
  PROVE  IInv'
<1>1. running' = [running EXCEPT ![v] = FALSE] /\ UNCHANGED <<work, results, traces, ref>>
  BY DEF End, files
<1> QED
  BY <1>1 DEF IInv, Types, Progress, Judging, Writing, Fair, RowOf

LEMMA CrashStep ==
  ASSUME IInv, NEW v \in Runners, Crash(v)
  PROVE  IInv'
<1>1. /\ running' = [running EXCEPT ![v] = FALSE] /\ UNCHANGED <<results, traces, ref>>
      /\ work' = [work EXCEPT ![v] = [a \in Attempts |-> Idle]]
  BY DEF Crash, files
<1>2. Types'
  BY <1>1, IdleType DEF IInv, Types
<1>3. \A u \in Runners, a \in Attempts :
        work'[u][a] = IF u = v THEN Idle ELSE work[u][a]
  BY <1>1 DEF IInv, Types
<1>4. Idle.at = "idle"
  BY DEF Idle
<1>5. ASSUME NEW u \in Runners, NEW a \in Attempts PROVE Progress(u, a)'
  <2>1. CASE u = v
    BY <1>1, <1>3, <1>4, <2>1 DEF IInv, Progress
  <2>2. CASE u # v
    <3>1. work'[u][a] = work[u][a]
      BY <1>3, <2>2
    <3>2. RowOf(u, a)' = RowOf(u, a)
      BY <3>1 DEF RowOf
    <3> QED
      BY <1>1, <3>1, <3>2 DEF IInv, Progress
  <2> QED
    BY <2>1, <2>2
<1>6. ASSUME NEW u \in Variants, NEW a \in Attempts PROVE Judging(u, a)'
  BY <1>1, <1>3, <1>4, RunnerNames DEF IInv, Judging, Fair, RowOf
<1>7. ASSUME NEW a \in Attempts PROVE Writing(a)'
  BY <1>1, <1>3, <1>4, RunnerNames DEF IInv, Writing
<1> QED
  BY <1>2, <1>5, <1>6, <1>7 DEF IInv

LEMMA FailStep ==
  ASSUME IInv, NEW v \in Runners, NEW a \in Attempts, work[v][a].at # "idle", Fail(v, a)
  PROVE  IInv'
<1>1. work' = [work EXCEPT ![v][a] = Idle] /\ UNCHANGED files /\ running' = running
  BY DEF Fail
<1>2. Idle.at = "idle" /\ Idle \in Works
  BY IdleType DEF Idle
<1>3. work'[v][a] = Idle
  BY <1>1, <1>2 DEF IInv, Types
<1>4. v \in Variants => Judging(v, a)'
  BY <1>1, <1>2, <1>3 DEF IInv, Judging, Fair, files
<1>5. v = "baseline" => Writing(a)'
  BY <1>2, <1>3 DEF Writing
<1> QED
  BY <1>1, <1>2, <1>4, <1>5, WorkOnly

LEMMA GenerateStep ==
  ASSUME IInv, NEW v \in Runners, NEW a \in Attempts, Generate(v, a)
  PROVE  IInv'
<1> DEFINE old == work[v][a]
<1>0. old \in Works /\ old.at = "generate" /\ results[v][a] = <<>>
  <2>1. old.at = "generate"
    BY DEF Generate, At
  <2> QED
    BY <2>1 DEF IInv, Types, Progress
<1>1. ASSUME NEW text \in Narratives,
             Become(v, a, [old EXCEPT !.text = text,
               !.win = IF v = "baseline" THEN Uncompared(v) ELSE None,
               !.at = IF v # "baseline" THEN "judge" ELSE IF a.rep = 0 THEN "freeze" ELSE "trace"]),
             UNCHANGED files
      PROVE  IInv'
  <2> DEFINE new == [old EXCEPT !.text = text,
               !.win = IF v = "baseline" THEN Uncompared(v) ELSE None,
               !.at = IF v # "baseline" THEN "judge" ELSE IF a.rep = 0 THEN "freeze" ELSE "trace"]
  <2>1. new \in Works
    BY <1>0 DEF Works, Steps, Texts, Wins, Uncompared
  <2>2. /\ new.text = text
        /\ v # "baseline" => new.at = "judge"
        /\ v = "baseline" => new.at = IF a.rep = 0 THEN "freeze" ELSE "trace"
    BY <1>0 DEF Works
  <2>3. work' = [work EXCEPT ![v][a] = new] /\ running' = running
    BY <1>1 DEF Become
  <2> HIDE DEF new
  <2>4. work'[v][a] = new
    BY <2>1, <2>3 DEF IInv, Types
  <2>5. v \in Variants => Judging(v, a)'
    BY <1>0, <1>1, <2>2, <2>4, RunnerNames DEF IInv, Judging, files
  <2>6. v = "baseline" => Writing(a)'
    BY <2>2, <2>4 DEF Writing
  <2> QED
    BY <1>0, <1>1, <2>1, <2>2, <2>3, <2>5, <2>6, WorkOnly
<1>2. ASSUME NEW win \in {Uncompared(v), None},
             Become(v, a, [old EXCEPT !.at = "trace", !.win = win]), UNCHANGED files
      PROVE  IInv'
  <2> DEFINE new == [old EXCEPT !.at = "trace", !.win = win]
  <2>1. new \in Works
    BY <1>0 DEF Works, Steps, Wins, Uncompared
  <2>2. new.at = "trace" /\ new.text = old.text /\ new.judged = old.judged /\ new.win = win
    BY <1>0 DEF Works
  <2>3. work' = [work EXCEPT ![v][a] = new] /\ running' = running
    BY <1>2 DEF Become
  <2> HIDE DEF new
  <2>4. work'[v][a] = new
    BY <2>1, <2>3 DEF IInv, Types
  <2>5. v \in Variants => Judging(v, a)'
    <3>1. SUFFICES ASSUME v \in Variants PROVE Judging(v, a)'
      OBVIOUS
    <3>2. old.text = None /\ old.judged = None /\ ref[a.case] # None
      BY <1>0, <3>1 DEF IInv, Judging
    <3>3. win \in {0, None}
      BY <3>1, RunnerNames DEF Uncompared
    <3>4. RowOf(v, a)'.text = None /\ RowOf(v, a)'.judged = None /\ RowOf(v, a)'.win = win
      BY <2>2, <2>4, <3>2 DEF RowOf
    <3>5. Fair(RowOf(v, a), a)'
      BY <3>3, <3>4 DEF Fair
    <3> QED
      BY <1>0, <1>2, <2>2, <2>4, <3>2, <3>5 DEF Judging, files
  <2>6. v = "baseline" => Writing(a)'
    BY <2>2, <2>4 DEF Writing
  <2> QED
    BY <1>0, <1>2, <2>1, <2>2, <2>3, <2>5, <2>6, WorkOnly
<1>3. CASE Fail(v, a)
  BY <1>0, <1>3, FailStep
<1> QED
  BY <1>1, <1>2, <1>3 DEF Generate, GoTo

LEMMA JudgeStep ==
  ASSUME IInv, NEW v \in Variants, NEW a \in Attempts, Judge(v, a)
  PROVE  IInv'
<1> DEFINE old == work[v][a]
<1>0. /\ v \in Runners /\ old \in Works /\ old.at = "judge" /\ results[v][a] = <<>>
      /\ old.text \in Narratives /\ ref[a.case] # None
  <2>1. v \in Runners /\ old.at = "judge"
    BY RunnerNames DEF Judge, At
  <2>2. old \in Works /\ results[v][a] = <<>>
    BY <2>1 DEF IInv, Types, Progress
  <2> QED
    BY <2>1, <2>2 DEF IInv, Judging
<1>1. ASSUME ref[a.case] # Torn, UNCHANGED files,
             NEW p \in BOOLEAN, NEW better \in {"candidate", "reference", "neither"},
             Become(v, a, [old EXCEPT !.at = "trace", !.judged = ref[a.case], !.better = better,
                             !.win = Win(p, Verdict(p, better))])
      PROVE  IInv'
  <2> DEFINE win == Win(p, Verdict(p, better))
             new == [old EXCEPT !.at = "trace", !.judged = ref[a.case], !.better = better, !.win = win]
  <2>1. ref[a.case] \in Narratives
    BY <1>0, <1>1, AttemptParts DEF IInv, Types
  <2>2. win \in {0, 1, 2} /\ (win = 2 <=> better = "candidate") /\ (win = 0 <=> better = "reference")
    BY JudgeIsBlind
  <2>3. work' = [work EXCEPT ![v][a] = new] /\ running' = running
    BY <1>1 DEF Become
  <2> HIDE DEF win
  <2>4. new \in Works
    BY <1>0, <2>1, <2>2 DEF Works, Steps, Texts, Findings, Wins
  <2>5. /\ new.at = "trace" /\ new.text = old.text /\ new.judged = ref[a.case]
        /\ new.better = better /\ new.win = win
    BY <1>0 DEF Works
  <2> HIDE DEF new
  <2>6. work'[v][a] = new
    BY <1>0, <2>3, <2>4 DEF IInv, Types
  <2>7. RowOf(v, a)' = [text |-> old.text, judged |-> ref[a.case], better |-> better, win |-> win]
    BY <2>5, <2>6 DEF RowOf
  <2>8. Fair(RowOf(v, a), a)'
    <3>1. old.text # None /\ ref' = ref
      BY <1>0, <1>1, RunnerAssumption DEF files
    <3> QED
      BY <2>1, <2>2, <2>7, <3>1 DEF Fair
  <2>9. Judging(v, a)'
    BY <1>0, <1>1, <2>5, <2>6, <2>8 DEF Judging, files
  <2> QED
    BY <1>0, <1>1, <2>3, <2>4, <2>5, <2>9, RunnerNames, WorkOnly
<1>2. CASE Fail(v, a)
  BY <1>0, <1>2, FailStep
<1> QED
  BY <1>1, <1>2 DEF Judge

LEMMA WriteTraceStep ==
  ASSUME IInv, NEW v \in Runners, NEW a \in Attempts, WriteTrace(v, a)
  PROVE  IInv'
<1> DEFINE old == work[v][a]
           new == [old EXCEPT !.at = "append"]
<1>0. Types /\ old \in Works /\ old.at = "trace"
  BY DEF IInv, Types, WriteTrace, At
<1>1. results[v][a] = <<>> /\ (v \in Variants => Judging(v, a))
  BY <1>0 DEF IInv, Progress
<1>2. /\ new \in Works /\ new.at = "append"
      /\ new.text = old.text /\ new.judged = old.judged /\ new.better = old.better /\ new.win = old.win
  BY <1>0 DEF Works, Steps
<1>3. /\ work' = [work EXCEPT ![v][a] = new] /\ running' = running
      /\ traces' = [traces EXCEPT ![v][a] = RowOf(v, a)]
      /\ UNCHANGED <<results, ref>>
  BY DEF WriteTrace, GoTo, Become
<1> HIDE DEF new
<1>4. /\ work' \in [Runners -> [Attempts -> Works]]
      /\ work'[v][a] = new
      /\ \A u \in Runners, b \in Attempts : u # v \/ b # a => work'[u][b] = work[u][b]
  BY <1>0, <1>2, <1>3 DEF Types
<1>5. /\ traces' \in [Runners -> [Attempts -> Rows \cup {None}]]
      /\ traces'[v][a] = RowOf(v, a)
      /\ \A u \in Runners, b \in Attempts : u # v \/ b # a => traces'[u][b] = traces[u][b]
  BY <1>0, <1>3, RowType DEF Types
<1>6. Types'
  BY <1>0, <1>3, <1>4, <1>5 DEF Types
<1>7. RowOf(v, a)' = RowOf(v, a)
  BY <1>2, <1>4 DEF RowOf
<1>8. Progress(v, a)'
  BY <1>1, <1>3, <1>5, <1>7 DEF Progress
<1>9. v \in Variants => Judging(v, a)'
  BY <1>0, <1>1, <1>2, <1>3, <1>4, <1>7 DEF Judging, Fair
<1>10. v = "baseline" => Writing(a)'
  BY <1>2, <1>4 DEF Writing
<1> QED
  BY <1>3, <1>4, <1>5, <1>6, <1>8, <1>9, <1>10, OwnStep

LEMMA AppendRowStep ==
  ASSUME IInv, NEW v \in Runners, NEW a \in Attempts, AppendRow(v, a)
  PROVE  IInv'
<1>0. Types /\ work[v][a].at = "append"
  BY DEF IInv, AppendRow, At
<1>1. results[v][a] = <<>> /\ traces[v][a] = RowOf(v, a) /\ RowOf(v, a) \in Rows
  BY <1>0, RowType DEF IInv, Progress
<1>2. /\ work' = [work EXCEPT ![v][a] = Idle] /\ running' = running
      /\ results' = [results EXCEPT ![v][a] = <<RowOf(v, a)>>]
      /\ UNCHANGED <<traces, ref>>
  <2>1. Append(results[v][a], RowOf(v, a)) = <<RowOf(v, a)>>
    BY <1>1
  <2> QED
    BY <1>0, <2>1 DEF AppendRow, Become, Types
<1>3. Idle \in Works /\ Idle.at = "idle"
  BY IdleType DEF Idle
<1>4. /\ work' \in [Runners -> [Attempts -> Works]]
      /\ work'[v][a] = Idle
      /\ \A u \in Runners, b \in Attempts : u # v \/ b # a => work'[u][b] = work[u][b]
  BY <1>0, <1>2, <1>3 DEF Types
<1>5. /\ results' \in [Runners -> [Attempts -> Seq(Rows)]]
      /\ results'[v][a] = <<RowOf(v, a)>>
      /\ \A u \in Runners, b \in Attempts : u # v \/ b # a => results'[u][b] = results[u][b]
  <2>1. <<RowOf(v, a)>> \in Seq(Rows)
    BY <1>1
  <2> QED
    BY <1>0, <1>2, <2>1 DEF Types
<1>6. Types'
  BY <1>0, <1>2, <1>4, <1>5 DEF Types
<1>7. Progress(v, a)'
  BY <1>1, <1>2, <1>3, <1>4, <1>5 DEF Progress
<1>8. v \in Variants => Judging(v, a)'
  <2>1. SUFFICES ASSUME v \in Variants PROVE Judging(v, a)'
    OBVIOUS
  <2>2. Fair(RowOf(v, a), a)
    BY <1>0, <2>1 DEF IInv, Judging
  <2>3. results'[v][a][1] = RowOf(v, a)
    BY <1>5
  <2>4. Fair(results[v][a][1], a)'
    BY <1>2, <2>2, <2>3 DEF Fair
  <2> QED
    BY <1>3, <1>4, <2>4 DEF Judging
<1>9. v = "baseline" => Writing(a)'
  BY <1>3, <1>4 DEF Writing
<1> QED
  BY <1>2, <1>4, <1>5, <1>6, <1>7, <1>8, <1>9, OwnStep

\* The baseline changes a reference that is no narrative yet.
LEMMA ReferenceStep ==
  ASSUME IInv, NEW a \in Attempts, NEW w \in Works, NEW x \in Narratives \cup {Torn},
         work["baseline"][a].at \in {"freeze", "write"}, w.at \in {"write", "trace"},
         work' = [work EXCEPT !["baseline"][a] = w], running' = running,
         ref' = [ref EXCEPT ![a.case] = x], ref[a.case] \notin Narratives,
         UNCHANGED <<results, traces>>,
         \A b \in Attempts : Writing(b)'
  PROVE  IInv'
<1>0. Types /\ a.case \in Cases /\ "baseline" \in Runners
  BY AttemptParts, RunnerNames DEF IInv
<1>1. /\ work' \in [Runners -> [Attempts -> Works]]
      /\ work'["baseline"][a] = w
      /\ \A u \in Runners, b \in Attempts : u # "baseline" \/ b # a => work'[u][b] = work[u][b]
  BY <1>0 DEF Types
<1>2. /\ ref' \in [Cases -> Narratives \cup {None, Torn}]
      /\ ref'[a.case] = x
      /\ \A c \in Cases : c # a.case => ref'[c] = ref[c]
  BY <1>0 DEF Types
<1>3. Types'
  BY <1>0, <1>1, <1>2 DEF Types
<1>4. ASSUME NEW u \in Runners, NEW b \in Attempts PROVE Progress(u, b)'
  <2>1. CASE u = "baseline" /\ b = a
    <3>1. work[u][b].at # "idle" /\ work'[u][b].at # "append"
      BY <1>1, <2>1
    <3> QED
      BY <3>1 DEF IInv, Progress
  <2>2. CASE u # "baseline" \/ b # a
    <3>1. work'[u][b] = work[u][b]
      BY <1>1, <2>2
    <3>2. RowOf(u, b)' = RowOf(u, b)
      BY <3>1 DEF RowOf
    <3> QED
      BY <3>1, <3>2 DEF IInv, Progress
  <2> QED
    BY <2>1, <2>2
<1>5. ASSUME NEW u \in Variants, NEW b \in Attempts PROVE Judging(u, b)'
  <2>1. u \in Runners /\ b.case \in Cases /\ work'[u][b] = work[u][b]
    BY <1>1, RunnerNames, AttemptParts
  <2>2. RowOf(u, b)' = RowOf(u, b)
    BY <2>1 DEF RowOf
  <2>3. ASSUME NEW r, Fair(r, b) PROVE Fair(r, b)'
    <3>1. CASE r.text = None
      BY <2>3, <3>1 DEF Fair
    <3>2. CASE r.text # None
      <4>1. ref[b.case] \in Narratives
        BY <2>3, <3>2 DEF Fair
      <4>2. ref'[b.case] = ref[b.case]
        BY <1>2, <2>1, <4>1
      <4> QED
        BY <2>3, <4>2 DEF Fair
    <3> QED
      BY <3>1, <3>2
  <2>4. ref[b.case] # None => ref'[b.case] # None
    BY <1>2, <2>1, RunnerAssumption
  <2> QED
    BY <2>1, <2>2, <2>3, <2>4 DEF IInv, Judging
<1> QED
  BY <1>3, <1>4, <1>5 DEF IInv

LEMMA FreezeStep ==
  ASSUME IInv, NEW v \in Runners, NEW a \in Attempts, Freeze(v, a)
  PROVE  IInv'
<1> DEFINE old == work[v][a]
<1>0. old.at = "freeze"
  BY DEF Freeze, At
<1>1. v = "baseline" /\ old \in Works
  BY <1>0, RunnerNames DEF IInv, Types, Judging, Runners
<1>2. old.text \in Narratives /\ a.rep = 0 /\ results[v][a] = <<>>
  BY <1>0, <1>1 DEF IInv, Writing, Progress
<1>3. CASE ref[a.case] = None
  <2> DEFINE new == [old EXCEPT !.at = "write"]
  <2>1. new \in Works /\ new.at = "write" /\ new.text = old.text
    BY <1>1 DEF Works, Steps
  <2>2. /\ work' = [work EXCEPT ![v][a] = new] /\ running' = running
        /\ ref' = [ref EXCEPT ![a.case] = Torn] /\ UNCHANGED <<results, traces>>
    BY <1>3 DEF Freeze, GoTo, Become
  <2> HIDE DEF new
  <2>3. /\ work'[v][a] = new
        /\ \A b \in Attempts : b # a => work'[v][b] = work[v][b]
    BY <2>1, <2>2 DEF IInv, Types
  <2>4. \A c \in Cases : ref'[c] = IF c = a.case THEN Torn ELSE ref[c]
    BY <2>2 DEF IInv, Types
  <2>5. ASSUME NEW b \in Attempts PROVE Writing(b)'
    <3>1. CASE b = a
      BY <1>1, <1>2, <2>1, <2>3, <2>4, <3>1, AttemptParts DEF Writing
    <3>2. CASE b # a
      BY <1>1, <2>3, <2>4, <3>2, AttemptParts DEF IInv, Writing
    <3> QED
      BY <3>1, <3>2
  <2> QED
    BY <1>0, <1>1, <1>3, <2>1, <2>2, <2>5, RunnerAssumption, ReferenceStep
<1>4. CASE ref[a.case] # None
  <2> DEFINE new == [old EXCEPT !.at = "trace"]
  <2>1. new \in Works /\ new.at = "trace"
    BY <1>1 DEF Works, Steps
  <2>2. work' = [work EXCEPT ![v][a] = new] /\ running' = running /\ UNCHANGED files
    BY <1>4 DEF Freeze, GoTo, Become, files
  <2> HIDE DEF new
  <2>3. work'[v][a] = new
    BY <2>1, <2>2 DEF IInv, Types
  <2>4. Writing(a)'
    BY <1>1, <2>1, <2>3 DEF Writing
  <2> QED
    BY <1>0, <1>1, <2>1, <2>2, <2>4, RunnerNames, WorkOnly
<1> QED
  BY <1>3, <1>4

LEMMA WriteReferenceStep ==
  ASSUME IInv, NEW v \in Runners, NEW a \in Attempts, WriteReference(v, a)
  PROVE  IInv'
<1> DEFINE old == work[v][a]
           new == [old EXCEPT !.at = "trace"]
<1>0. old.at = "write"
  BY DEF WriteReference, At
<1>1. v = "baseline" /\ old \in Works
  BY <1>0, RunnerNames DEF IInv, Types, Judging, Runners
<1>2. old.text \in Narratives /\ a.rep = 0 /\ ref[a.case] = Torn
  BY <1>0, <1>1 DEF IInv, Writing
<1>3. new \in Works /\ new.at = "trace"
  BY <1>1 DEF Works, Steps
<1>4. /\ work' = [work EXCEPT ![v][a] = new] /\ running' = running
      /\ ref' = [ref EXCEPT ![a.case] = old.text] /\ UNCHANGED <<results, traces>>
  BY DEF WriteReference, GoTo, Become
<1> HIDE DEF new
<1>5. /\ work'[v][a] = new
      /\ \A b \in Attempts : b # a => work'[v][b] = work[v][b]
  BY <1>3, <1>4 DEF IInv, Types
<1>6. \A c \in Cases : c # a.case => ref'[c] = ref[c]
  BY <1>4 DEF IInv, Types
<1>7. ASSUME NEW b \in Attempts PROVE Writing(b)'
  <2>1. CASE b = a
    BY <1>1, <1>3, <1>5, <2>1 DEF Writing
  <2>2. CASE b # a
    <3>1. work'["baseline"][b] = work["baseline"][b]
      BY <1>1, <1>5, <2>2
    <3>2. work["baseline"][b].at = "write" => b.case # a.case
      BY <1>2, <2>2, OneFirstAttempt DEF IInv, Writing
    <3> QED
      BY <1>6, <3>1, <3>2, AttemptParts DEF IInv, Writing
  <2> QED
    BY <2>1, <2>2
<1> QED
  BY <1>0, <1>1, <1>2, <1>3, <1>4, <1>7, RunnerAssumption, ReferenceStep

LEMMA IStep == IInv /\ [Next]_vars => IInv'
<1> SUFFICES ASSUME IInv, [Next]_vars PROVE IInv'
  OBVIOUS
<1>1. ASSUME NEW v \in Runners, Start(v) PROVE IInv'
  BY <1>1, StartStep
<1>2. ASSUME NEW v \in Runners, End(v) PROVE IInv'
  BY <1>2, EndStep
<1>3. ASSUME NEW v \in Runners, Crash(v) PROVE IInv'
  BY <1>3, CrashStep
<1>4. ASSUME NEW v \in Runners, NEW a \in Attempts, Attempt(v, a) PROVE IInv'
  <2>1. CASE Generate(v, a)
    BY <2>1, GenerateStep
  <2>2. CASE Freeze(v, a)
    BY <2>2, FreezeStep
  <2>3. CASE WriteReference(v, a)
    BY <2>3, WriteReferenceStep
  <2>4. CASE Judge(v, a)
    <3>1. v \in Variants
      BY <2>4 DEF Judge, At, IInv, Writing, Runners
    <3> QED
      BY <2>4, <3>1, JudgeStep
  <2>5. CASE WriteTrace(v, a)
    BY <2>5, WriteTraceStep
  <2>6. CASE AppendRow(v, a)
    BY <2>6, AppendRowStep
  <2> QED
    BY <1>4, <2>1, <2>2, <2>3, <2>4, <2>5, <2>6 DEF Attempt
<1>5. CASE UNCHANGED vars
  BY <1>5 DEF IInv, Types, Progress, Judging, Writing, Fair, RowOf, vars, memory, files
<1> QED
  BY <1>1, <1>2, <1>3, <1>4, <1>5 DEF Next

LEMMA Invariant == Spec => []IInv
  BY IInit, IStep, PTL DEF Spec

-----------------------------------------------------------------------------
\* However often a runner is killed and started again, no attempt has two rows,
\* and its row has the trace of the narrative it scores (run.py: "one row per
\* scored attempt").
THEOREM RowsAreSingle == Spec => []OneRow
<1>1. IInv => OneRow
  <2> SUFFICES ASSUME IInv, NEW v \in Runners, NEW a \in Attempts
               PROVE  /\ Len(results[v][a]) <= 1
                      /\ results[v][a] # <<>> => traces[v][a] = Last(results[v][a])
    BY DEF OneRow
  <2>1. results[v][a] = <<>> \/ results[v][a] = <<traces[v][a]>>
    BY DEF IInv, Progress
  <2>2. CASE results[v][a] = <<>>
    BY <2>2
  <2>3. CASE results[v][a] = <<traces[v][a]>>
    BY <2>3 DEF Last
  <2> QED
    BY <2>1, <2>2, <2>3
<1> QED
  BY <1>1, Invariant, PTL

\* All narratives of a case are judged against the one reference that is still
\* there, and win exactly if the judge found them better, wherever they were
\* shown (grade.py: "Blind pairwise comparison, candidate vs frozen reference").
THEOREM ReferencesAreFrozen == Spec => []OneReference
<1>1. IInv => OneReference
  <2> SUFFICES ASSUME IInv, NEW v \in Variants, NEW a \in Done(v)
               PROVE  Fair(Last(results[v][a]), a)
    BY DEF OneReference, Fair
  <2>1. v \in Runners /\ a \in Attempts /\ results[v][a] # <<>>
    BY RunnerNames DEF Done
  <2>2. results[v][a] = <<traces[v][a]>>
    BY <2>1 DEF IInv, Progress
  <2>3. Last(results[v][a]) = results[v][a][1]
    BY <2>2 DEF Last
  <2> QED
    BY <2>1, <2>3 DEF IInv, Judging
<1> QED
  BY <1>1, Invariant, PTL

-----------------------------------------------------------------------------
(* What a process took on is under way, has a row or has an error.         *)
Accounted ==
  /\ todo \in [Runners -> SUBSET Attempts]
  /\ errors \in [Runners -> SUBSET Attempts]
  /\ \A v \in Runners : \A a \in todo[v] :
       work[v][a].at # "idle" \/ results[v][a] # <<>> \/ a \in errors[v]

\* A step of attempt a that leaves it under way, or ends it with a row or error.
LEMMA AccountedStep ==
  ASSUME Types, Accounted, NEW v \in Runners, NEW a \in Attempts, NEW w \in Works,
         work' = [work EXCEPT ![v][a] = w], UNCHANGED todo,
         \/ w.at # "idle" /\ UNCHANGED <<results, errors>>
         \/ results' = [results EXCEPT ![v][a] = Append(@, RowOf(v, a))] /\ UNCHANGED errors
         \/ errors' = [errors EXCEPT ![v] = @ \cup {a}] /\ UNCHANGED results
  PROVE  Accounted'
<1>1. /\ work'[v][a] = w
      /\ \A u \in Runners, b \in Attempts : u # v \/ b # a => work'[u][b] = work[u][b]
  BY DEF Types
<1>2. /\ errors' \in [Runners -> SUBSET Attempts]
      /\ \A u \in Runners : errors[u] \subseteq errors'[u]
  BY DEF Accounted
<1>3. \A u \in Runners, b \in Attempts : results[u][b] # <<>> => results'[u][b] # <<>>
  <2>1. ASSUME results' = [results EXCEPT ![v][a] = Append(@, RowOf(v, a))],
               NEW u \in Runners, NEW b \in Attempts, results[u][b] # <<>>
        PROVE  results'[u][b] # <<>>
    <3>1. CASE u = v /\ b = a
      <4>1. results'[v][a] = Append(results[v][a], RowOf(v, a)) /\ results[v][a] \in Seq(Rows)
        BY <2>1 DEF Types
      <4> QED
        BY <3>1, <4>1, RowType
    <3>2. CASE u # v \/ b # a
      BY <2>1, <3>2 DEF Types
    <3> QED
      BY <3>1, <3>2
  <2> QED
    BY <2>1
<1>4. w.at # "idle" \/ results'[v][a] # <<>> \/ a \in errors'[v]
  <2>1. CASE results' = [results EXCEPT ![v][a] = Append(@, RowOf(v, a))]
    <3>1. results'[v][a] = Append(results[v][a], RowOf(v, a)) /\ results[v][a] \in Seq(Rows)
      BY <2>1 DEF Types
    <3> QED
      BY <3>1, RowType
  <2>2. CASE errors' = [errors EXCEPT ![v] = @ \cup {a}]
    BY <2>2 DEF Accounted
  <2> QED
    BY <2>1, <2>2
<1>5. ASSUME NEW u \in Runners, NEW b \in todo'[u]
      PROVE  work'[u][b].at # "idle" \/ results'[u][b] # <<>> \/ b \in errors'[u]
  <2>1. b \in todo[u] /\ b \in Attempts
    BY DEF Accounted
  <2>2. CASE u = v /\ b = a
    BY <1>1, <1>4, <2>2
  <2>3. CASE u # v \/ b # a
    BY <1>1, <1>2, <1>3, <2>1, <2>3 DEF Accounted
  <2> QED
    BY <2>2, <2>3
<1> QED
  BY <1>2, <1>5 DEF Accounted

LEMMA AccountedNext == Types /\ Accounted /\ [Next]_vars => Accounted'
<1> SUFFICES ASSUME Types, Accounted, [Next]_vars PROVE Accounted'
  OBVIOUS
<1>1. ASSUME NEW v \in Runners, Start(v) PROVE Accounted'
  <2>1. PICK cs \in SUBSET Cases, last \in 0 .. LastRep[v] :
          LET mine == Todo(v, {a \in Attempts : a.case \in cs /\ a.rep <= last}) IN
          /\ todo' = [todo EXCEPT ![v] = mine]
          /\ work' = [work EXCEPT ![v] =
               [a \in Attempts |-> IF a \in mine THEN [Idle EXCEPT !.at = "generate"] ELSE Idle]]
    BY <1>1 DEF Start
  <2> DEFINE mine == Todo(v, {a \in Attempts : a.case \in cs /\ a.rep <= last})
             begun == [Idle EXCEPT !.at = "generate"]
  <2>2. mine \subseteq Attempts
    BY DEF Todo
  <2>3. begun.at = "generate"
    BY DEF Idle
  <2> HIDE DEF mine, begun
  <2>4. /\ todo' = [todo EXCEPT ![v] = mine] /\ UNCHANGED <<results, errors>>
        /\ work' = [work EXCEPT ![v] = [a \in Attempts |-> IF a \in mine THEN begun ELSE Idle]]
    BY <1>1, <2>1 DEF Start, files, mine, begun
  <2>5. \A a \in mine : work'[v][a] = begun
    BY <2>2, <2>4 DEF Types
  <2>6. \A u \in Runners : u # v => work'[u] = work[u] /\ todo'[u] = todo[u]
    BY <2>4 DEF Types, Accounted
  <2>7. todo' \in [Runners -> SUBSET Attempts] /\ todo'[v] = mine
    BY <2>2, <2>4 DEF Accounted
  <2> QED
    BY <2>3, <2>4, <2>5, <2>6, <2>7 DEF Accounted
<1>2. ASSUME NEW v \in Runners, End(v) \/ Crash(v) PROVE Accounted'
  <2>1. /\ todo' = [todo EXCEPT ![v] = {}] /\ errors' = [errors EXCEPT ![v] = {}]
        /\ UNCHANGED results
        /\ work' = work \/ work' = [work EXCEPT ![v] = [a \in Attempts |-> Idle]]
    BY <1>2 DEF End, Crash, files
  <2>2. todo' \in [Runners -> SUBSET Attempts] /\ errors' \in [Runners -> SUBSET Attempts]
    BY <2>1 DEF Accounted
  <2>3. \A u \in Runners : u # v =>
          work'[u] = work[u] /\ todo'[u] = todo[u] /\ errors'[u] = errors[u]
    BY <2>1 DEF Types, Accounted
  <2>4. todo'[v] = {}
    BY <2>1 DEF Accounted
  <2> QED
    BY <2>1, <2>2, <2>3, <2>4 DEF Accounted
<1>3. ASSUME NEW v \in Runners, NEW a \in Attempts, Attempt(v, a) PROVE Accounted'
  <2>0. work[v][a] \in Works
    BY DEF Types
  <2>1. ASSUME NEW w \in Works, Become(v, a, w), w.at # "idle", UNCHANGED results PROVE Accounted'
    BY <2>1, AccountedStep DEF Become
  <2>2. ASSUME Fail(v, a) PROVE Accounted'
    BY <2>2, IdleType, AccountedStep DEF Fail, files
  <2>3. ASSUME NEW at \in Steps \ {"idle"}, GoTo(v, a, at), UNCHANGED results PROVE Accounted'
    <3>1. [work[v][a] EXCEPT !.at = at] \in Works /\ [work[v][a] EXCEPT !.at = at].at = at
      BY <2>0 DEF Works
    <3> QED
      BY <2>1, <2>3, <3>1 DEF GoTo
  <2>4. CASE Generate(v, a)
    <3>1. ASSUME NEW text \in Narratives,
                 Become(v, a, [work[v][a] EXCEPT !.text = text,
                   !.win = IF v = "baseline" THEN Uncompared(v) ELSE None,
                   !.at = IF v # "baseline" THEN "judge" ELSE IF a.rep = 0 THEN "freeze" ELSE "trace"]),
                 UNCHANGED files
          PROVE  Accounted'
      <4> DEFINE new == [work[v][a] EXCEPT !.text = text,
                   !.win = IF v = "baseline" THEN Uncompared(v) ELSE None,
                   !.at = IF v # "baseline" THEN "judge" ELSE IF a.rep = 0 THEN "freeze" ELSE "trace"]
      <4>1. new \in Works /\ new.at # "idle"
        BY <2>0 DEF Works, Steps, Texts, Wins, Uncompared
      <4> HIDE DEF new
      <4>2. Become(v, a, new) /\ UNCHANGED results
        BY <3>1 DEF files, new
      <4> QED
        BY <2>1, <4>1, <4>2
    <3>2. ASSUME NEW win \in {Uncompared(v), None},
                 Become(v, a, [work[v][a] EXCEPT !.at = "trace", !.win = win]), UNCHANGED files
          PROVE  Accounted'
      <4> DEFINE new == [work[v][a] EXCEPT !.at = "trace", !.win = win]
      <4>1. new \in Works /\ new.at # "idle"
        BY <2>0 DEF Works, Steps, Wins, Uncompared
      <4> HIDE DEF new
      <4>2. Become(v, a, new) /\ UNCHANGED results
        BY <3>2 DEF files, new
      <4> QED
        BY <2>1, <4>1, <4>2
    <3> QED
      BY <2>2, <2>4, <3>1, <3>2 DEF Generate
  <2>5. CASE Freeze(v, a) \/ WriteReference(v, a) \/ WriteTrace(v, a)
    BY <2>3, <2>5 DEF Freeze, WriteReference, WriteTrace, Steps
  <2>6. CASE Judge(v, a)
    <3>1. ASSUME ref[a.case] # Torn, UNCHANGED files, At(v, a, "judge"),
                 NEW p \in BOOLEAN, NEW better \in {"candidate", "reference", "neither"},
                 Become(v, a, [work[v][a] EXCEPT !.at = "trace", !.judged = ref[a.case],
                                 !.better = better, !.win = Win(p, Verdict(p, better))])
          PROVE  Accounted'
      <4> DEFINE judged == ref[a.case]
                 win == Win(p, Verdict(p, better))
                 new == [work[v][a] EXCEPT !.at = "trace", !.judged = judged,
                           !.better = better, !.win = win]
      <4>1. judged \in Texts
        BY <3>1, AttemptParts DEF Types, Texts
      <4>2. win \in Wins
        BY JudgeIsBlind DEF Wins
      <4> HIDE DEF judged, win
      <4>3. new \in Works /\ new.at # "idle"
        BY <2>0, <4>1, <4>2 DEF Works, Steps, Findings
      <4> HIDE DEF new
      <4>4. Become(v, a, new) /\ UNCHANGED results
        BY <3>1 DEF files, new, judged, win
      <4> QED
        BY <2>1, <4>3, <4>4
    <3> QED
      BY <2>2, <2>6, <3>1 DEF Judge
  <2>7. CASE AppendRow(v, a)
    BY <2>7, IdleType, AccountedStep DEF AppendRow, Become
  <2> QED
    BY <1>3, <2>4, <2>5, <2>6, <2>7 DEF Attempt
<1>4. CASE UNCHANGED vars
  BY <1>4 DEF Accounted, vars, memory, files
<1> QED
  BY <1>1, <1>2, <1>3, <1>4 DEF Next

\* A runner that comes to its end has left a row or an error for every attempt
\* it took on (run.py, attempt: "anything else is a harness failure, never a
\* score", and it too is recorded).
THEOREM NothingIsLost == Spec => NothingLost
<1>1. Init => Accounted
  BY DEF Init, Accounted
<1>2. Types /\ Accounted /\ [Next]_vars
        => [\A v \in Runners : End(v) => todo[v] \subseteq Done(v) \cup errors[v]]_vars
  BY DEF Accounted, End, Done
<1>3. IInv => Types
  BY DEF IInv
<1> QED
  BY <1>1, <1>2, <1>3, AccountedNext, Invariant, PTL DEF Spec, NothingLost
=============================================================================
