------------------------- MODULE OnboardingRunsProofs -------------------------
(***************************************************************************)
(* Proof that a setup run commits its configuration only when every other  *)
(* stage succeeded or was skipped, for any number of runs, drafts, retries *)
(* and crashes.                                                            *)
(*                                                                         *)
(* A stage that a file calls completed has succeeded (Earned), in the run  *)
(* file as in the copy an execution falls back on when it fails, so that a *)
(* retry, whichever stage it starts from, keeps only what was earned.      *)
(***************************************************************************)
EXTENDS OnboardingRuns, TLAPS

Others == Index \ {Commit}
Executing(r) == exec[r] # "none"

\* What a record of the run says is done was done.
Earned(r, record) ==
  /\ record \in RunFile
  /\ \A i \in Others :
       /\ record.stages[i] = "completed" => passed[r][i] # 0
       /\ record.stages[i] = "skipped" => i \in record.skip

RunsTyped ==
  /\ DOMAIN run = Run /\ DOMAIN base = Run
  /\ exec \in [Run -> Point]
  /\ draft \in Nat
  /\ loaded \in [Run -> Nat]
  /\ passed \in [Run -> [Index -> Nat]]

\* The files of the runs, and the copies of those that execute.
FilesEarned ==
  \A r \in Run :
    /\ run[r] # None \/ Executing(r) => Earned(r, run[r]) /\ draft # 0
    /\ Executing(r) => Earned(r, base[r])

\* An execution that began has loaded a draft; the last knowledge stage is
\* closed after the pipeline returned.
DraftLoaded == \A r \in Run : exec[r] \notin {"none", "queued"} => loaded[r] # 0
PipelineReturned == \A r \in Run : exec[r] = "closing" => passed[r][3] # 0

\* The commit stage is started last.
CommitIsLast ==
  \A r \in Run : exec[r] = "work" /\ run[r].current = Commit =>
    \A i \in Others : Settled(run[r].stages[i])

RunsInv == RunsTyped /\ FilesEarned /\ DraftLoaded /\ PipelineReturned /\ CommitIsLast

-----------------------------------------------------------------------------
LEMMA Indices == Index = 1 .. 5 /\ Commit \in Index /\ Knowledge \subseteq Others
BY DEF Index, Order, Commit, Knowledge, Others

LEMMA FirstIsLeast ==
  ASSUME NEW S, S \subseteq Index, S # {}
  PROVE  First(S) \in S /\ \A j \in S : First(S) <= j
<1>1. \E i \in S : \A j \in S : i <= j
  <2>1. \A i \in S : i \in 1 .. 5
      BY Indices
  <2>2. \E m \in 1 .. 5 : m \in S /\ \A j \in 1 .. 5 : j < m => j \notin S
    <3>1. CASE 1 \in S
        BY <3>1
    <3>2. CASE 1 \notin S /\ 2 \in S
        BY <3>2
    <3>3. CASE 1 \notin S /\ 2 \notin S /\ 3 \in S
        BY <3>3
    <3>4. CASE 1 \notin S /\ 2 \notin S /\ 3 \notin S /\ 4 \in S
        BY <3>4
    <3>5. CASE 1 \notin S /\ 2 \notin S /\ 3 \notin S /\ 4 \notin S
        BY <3>5, <2>1
    <3> QED BY <3>1, <3>2, <3>3, <3>4, <3>5
  <2> QED BY <2>1, <2>2
<1> QED BY <1>1 DEF First

LEMMA RunsInvInit == Init => RunsInv
BY DEF Init, RunsInv, RunsTyped, FilesEarned, DraftLoaded, PipelineReturned, CommitIsLast, Executing, Point

\* A step of one run: the others stay as they are, and what was passed stays
\* passed.
StepOf(r) ==
  /\ DOMAIN run' = Run /\ DOMAIN base' = Run
  /\ exec' \in [Run -> Point] /\ loaded' \in [Run -> Nat]
  /\ \A q \in Run \ {r} : /\ run'[q] = run[q] /\ base'[q] = base[q]
                          /\ exec'[q] = exec[q] /\ loaded'[q] = loaded[q]
  /\ passed' \in [Run -> [Index -> Nat]]
  /\ \A q \in Run, i \in Index : passed[q][i] # 0 => passed'[q][i] # 0
  /\ draft' = draft

LEMMA RunStep ==
  ASSUME RunsInv, NEW r \in Run, StepOf(r), draft # 0, Earned(r, run[r])',
         exec'[r] # "none" => Earned(r, base[r])',
         exec'[r] \notin {"none", "queued"} => loaded'[r] # 0,
         exec'[r] = "closing" => passed'[r][3] # 0,
         exec'[r] = "work" /\ run'[r].current = Commit => \A i \in Others : Settled(run'[r].stages[i])
  PROVE  RunsInv'
<1> USE DEF RunsInv, RunsTyped, StepOf
<1>1. RunsTyped'
      OBVIOUS
<1>2. FilesEarned'
  <2> SUFFICES ASSUME NEW q \in Run
               PROVE /\ run'[q] # None \/ exec'[q] # "none" => Earned(q, run[q])' /\ draft' # 0
                     /\ exec'[q] # "none" => Earned(q, base[q])'
      BY DEF FilesEarned, Executing
  <2>1. CASE q = r
      BY <2>1
  <2>2. CASE q # r
    <3>1. \A i \in Index : passed[q][i] # 0 => passed'[q][i] # 0
        OBVIOUS
    <3>2. Earned(q, run[q]) => Earned(q, run[q])'
        BY <2>2, <3>1 DEF Earned, Others
    <3>3. Earned(q, base[q]) => Earned(q, base[q])'
        BY <2>2, <3>1 DEF Earned, Others
    <3> QED BY <2>2, <3>2, <3>3 DEF FilesEarned, Executing
  <2> QED BY <2>1, <2>2
<1>3. DraftLoaded'
      BY DEF DraftLoaded
<1>4. PipelineReturned'
      BY Indices DEF PipelineReturned
<1>5. CommitIsLast'
      BY DEF CommitIsLast, Settled
<1> QED BY <1>1, <1>2, <1>3, <1>4, <1>5

LEMMA ResetKeeps ==
  ASSUME NEW p \in RunFile
  PROVE  /\ Reset(p) \in RunFile /\ Reset(p).skip = p.skip
         /\ \A i \in Index : Reset(p).stages[i] \in {p.stages[i], "pending"}
<1> DEFINE kept == [i \in Index |-> IF i < From(p) THEN p.stages[i] ELSE "pending"]
<1>1. kept \in [Index -> StageStatus] /\ \A i \in Index : kept[i] \in {p.stages[i], "pending"}
      BY DEF RunFile, StageStatus
<1>2. Reset(p) = [p EXCEPT !.status = "pending", !.current = None, !.retryable = None, !.stages = kept]
      BY DEF Reset
<1> HIDE DEF kept
<1> QED BY <1>1, <1>2 DEF RunFile

-----------------------------------------------------------------------------
\* Requests.
LEMMA StartEarned ==
  ASSUME RunsInv, NEW r \in Run, StartRun(r) PROVE RunsInv'
<1>1. PICK skip \in SUBSET {2} :
        SaveBoth(r, [status |-> "pending", stages |-> [i \in Index |-> "pending"],
                     skip |-> skip, current |-> None, retryable |-> None])
      BY DEF StartRun
<1>2. /\ run'[r] = [status |-> "pending", stages |-> [i \in Index |-> "pending"],
                    skip |-> skip, current |-> None, retryable |-> None]
      /\ base'[r] = run'[r] /\ exec'[r] = "queued" /\ draft # 0
      BY <1>1 DEF SaveBoth, Save, StartRun, Goto, RunsInv, RunsTyped
<1>3. run'[r] \in RunFile /\ \A i \in Index : run'[r].stages[i] = "pending"
      BY <1>2 DEF RunFile, StageStatus
<1>4. StepOf(r)
      BY <1>1 DEF SaveBoth, Save, StartRun, Goto, StepOf, RunsInv, RunsTyped, Point
<1>5. Earned(r, run[r])' /\ Earned(r, base[r])'
      BY <1>2, <1>3 DEF Earned, Others
<1> QED BY <1>2, <1>4, <1>5, RunStep

LEMMA RetryEarned ==
  ASSUME RunsInv, NEW r \in Run, Retry(r) PROVE RunsInv'
<1>1. Earned(r, run[r]) /\ draft # 0
      BY DEF Retry, Is, RunsInv, FilesEarned
<1>2. /\ run'[r] = Reset(run[r]) /\ base'[r] = run'[r] /\ exec'[r] = "queued" /\ passed' = passed
      BY DEF SaveBoth, Save, Retry, Goto, RunsInv, RunsTyped
<1>3. /\ run'[r] \in RunFile /\ run'[r].skip = run[r].skip
      /\ \A i \in Index : run'[r].stages[i] \in {run[r].stages[i], "pending"}
      BY <1>1, <1>2, ResetKeeps DEF Earned
<1>4. StepOf(r)
      BY DEF SaveBoth, Save, Retry, Goto, StepOf, RunsInv, RunsTyped, Point
<1>5. Earned(r, run[r])' /\ Earned(r, base[r])'
      BY <1>1, <1>2, <1>3 DEF Earned, Others
<1> QED BY <1>1, <1>2, <1>4, <1>5, RunStep

-----------------------------------------------------------------------------
\* The execution.
LEMMA Going ==
  ASSUME RunsInv, NEW r \in Run, Executing(r)
  PROVE  /\ Earned(r, run[r]) /\ Earned(r, base[r]) /\ draft # 0
         /\ exec[r] # "queued" => loaded[r] # 0
BY DEF RunsInv, FilesEarned, DraftLoaded, Executing

LEMMA BeginEarned ==
  ASSUME RunsInv, NEW r \in Run, Begin(r) PROVE RunsInv'
<1>1. Earned(r, run[r]) /\ draft # 0
      BY Going DEF Begin, At, Executing
<1>2. /\ run'[r] = [run[r] EXCEPT !.status = "running", !.retryable = None]
      /\ base'[r] = run'[r] /\ exec'[r] = "loop" /\ loaded'[r] = draft /\ passed' = passed
      BY DEF SaveBoth, Save, Begin, Goto, RunsInv, RunsTyped
<1>3. run'[r] \in RunFile /\ run'[r].skip = run[r].skip /\ run'[r].stages = run[r].stages
      BY <1>1, <1>2 DEF Earned, RunFile
<1>4. StepOf(r)
      BY DEF SaveBoth, Save, Begin, Goto, StepOf, RunsInv, RunsTyped, Point
<1>5. Earned(r, run[r])' /\ Earned(r, base[r])'
      BY <1>1, <1>2, <1>3 DEF Earned, Others
<1> QED BY <1>1, <1>2, <1>4, <1>5, RunStep

\* An execution that ends leaves a record of what was earned.
LEMMA EndEarned ==
  ASSUME RunsInv, NEW r \in Run, Executing(r), NEW record, record \in RunFile, End(r, record),
         UNCHANGED <<draft, passed>>,
         \/ record.stages = run[r].stages /\ record.skip = run[r].skip
         \/ /\ record.skip = base[r].skip
            /\ \A i \in Index : record.stages[i] \in {base[r].stages[i], "failed"}
  PROVE  RunsInv'
<1>1. Earned(r, run[r]) /\ Earned(r, base[r]) /\ draft # 0
      BY Going
<1>2. run'[r] = record /\ exec'[r] = "none" /\ passed' = passed
      BY DEF End, Save, Goto, RunsInv, RunsTyped
<1>3. StepOf(r)
      BY DEF End, Save, Goto, StepOf, RunsInv, RunsTyped, Point
<1>4. Earned(r, run[r])'
      BY <1>1, <1>2 DEF Earned, Others
<1> QED BY <1>1, <1>2, <1>3, <1>4, RunStep

LEMMA RefuseEarned ==
  ASSUME RunsInv, NEW r \in Run, Refuse(r) PROVE RunsInv'
<1>1. Executing(r) /\ run[r] \in RunFile /\ End(r, run[r]) /\ UNCHANGED <<draft, passed>>
      BY Going DEF Refuse, At, Executing, Earned
<1> QED BY <1>1, EndEarned

LEMMA CompleteRunEarned ==
  ASSUME RunsInv, NEW r \in Run, CompleteRun(r) PROVE RunsInv'
<1>1. Executing(r) /\ run[r] \in RunFile
      BY Going DEF CompleteRun, At, Executing, Earned
<1>2. PICK record : record = [run[r] EXCEPT !.status = "completed", !.current = None]
      OBVIOUS
<1>3. record \in RunFile /\ record.stages = run[r].stages /\ record.skip = run[r].skip
      BY <1>1, <1>2 DEF RunFile
<1>4. End(r, record) /\ UNCHANGED <<draft, passed>>
      BY <1>2 DEF CompleteRun
<1> QED BY <1>1, <1>3, <1>4, EndEarned

LEMMA FailRunEarned ==
  ASSUME RunsInv, NEW r \in Run, FailRun(r) PROVE RunsInv'
<1>1. Executing(r) /\ base[r] \in RunFile
      BY Going DEF FailRun, At, Executing, Earned
<1> DEFINE started == {i \in Index : base[r].stages[i] = "running"}
<1>2. PICK s : s = IF base[r].current # None THEN base[r].current
                   ELSE IF started # {} THEN First(started) ELSE None
      OBVIOUS
<1>3. s \in Index \cup {None}
      BY <1>1, <1>2, FirstIsLeast DEF RunFile
<1>4. PICK stages : stages = [i \in Index |-> IF i = s THEN "failed" ELSE base[r].stages[i]]
      OBVIOUS
<1>5. stages \in [Index -> StageStatus] /\ \A i \in Index : stages[i] \in {base[r].stages[i], "failed"}
      BY <1>1, <1>4 DEF RunFile, StageStatus
<1>6. PICK record : record = [base[r] EXCEPT !.status = "failed", !.retryable = s, !.stages = stages]
      OBVIOUS
<1>7. record \in RunFile /\ record.skip = base[r].skip /\ record.stages = stages
      BY <1>1, <1>3, <1>5, <1>6 DEF RunFile
<1>8. End(r, record) /\ UNCHANGED <<draft, passed>>
  <2>1. UNCHANGED <<draft, passed>> /\ End(r, [base[r] EXCEPT !.status = "failed", !.retryable = s,
          !.stages = [i \in Index |-> IF i = s THEN "failed" ELSE @[i]]])
      BY <1>2 DEF FailRun
  <2>2. record = [base[r] EXCEPT !.status = "failed", !.retryable = s,
          !.stages = [i \in Index |-> IF i = s THEN "failed" ELSE @[i]]]
      BY <1>4, <1>6
  <2> QED BY <2>1, <2>2
<1> QED BY <1>1, <1>5, <1>7, <1>8, EndEarned

\* The file with the status of one stage, and perhaps the current stage, replaced.
StageIs(p, q, i, status) ==
  /\ q \in RunFile /\ q.skip = p.skip
  /\ q.stages[i] = status /\ \A j \in Index \ {i} : q.stages[j] = p.stages[j]

LEMMA StageSet ==
  ASSUME NEW p \in RunFile, NEW i \in Index, NEW status \in StageStatus, NEW current \in Index
  PROVE  /\ StageIs(p, [p EXCEPT !.stages[i] = status], i, status)
         /\ StageIs(p, [p EXCEPT !.stages[i] = status, !.current = current], i, status)
<1> DEFINE stages == [p.stages EXCEPT ![i] = status]
<1>1. stages \in [Index -> StageStatus] /\ stages[i] = status
        /\ \A j \in Index \ {i} : stages[j] = p.stages[j]
      BY DEF RunFile
<1> HIDE DEF stages
<1>2. StageIs(p, [p EXCEPT !.stages = stages], i, status)
      BY <1>1 DEF RunFile, StageIs
<1>3. StageIs(p, [p EXCEPT !.stages = stages, !.current = current], i, status)
      BY <1>1 DEF RunFile, StageIs
<1> QED BY <1>2, <1>3 DEF stages

LEMMA SkipEarned ==
  ASSUME RunsInv, NEW r \in Run, SkipStage(r) PROVE RunsInv'
<1>1. Earned(r, run[r]) /\ draft # 0 /\ loaded[r] # 0 /\ exec[r] = "loop"
      BY Going DEF SkipStage, At, Executing
<1>2. PICK i \in Index : /\ i \in run[r].skip
                         /\ SaveBoth(r, [run[r] EXCEPT !.stages[i] = "skipped", !.current = i])
      BY FirstIsLeast DEF SkipStage, Undone
<1>3. /\ run'[r] = [run[r] EXCEPT !.stages[i] = "skipped", !.current = i]
      /\ base'[r] = run'[r] /\ exec' = exec /\ loaded' = loaded /\ passed' = passed
      BY <1>2 DEF SaveBoth, Save, SkipStage, RunsInv, RunsTyped
<1>4. StageIs(run[r], run'[r], i, "skipped")
  <2>1. run[r] \in RunFile /\ "skipped" \in StageStatus
      BY <1>1 DEF Earned, StageStatus
  <2>2. StageIs(run[r], [run[r] EXCEPT !.stages[i] = "skipped", !.current = i], i, "skipped")
      BY <2>1, StageSet
  <2> QED BY <2>2, <1>3
<1>5. StepOf(r)
      BY <1>2 DEF SaveBoth, Save, SkipStage, StepOf, RunsInv, RunsTyped
<1>6. Earned(r, run[r])' /\ Earned(r, base[r])'
      BY <1>1, <1>2, <1>3, <1>4 DEF Earned, Others, StageIs
<1> QED BY <1>1, <1>3, <1>5, <1>6, RunStep

LEMMA StartStageEarned ==
  ASSUME RunsInv, NEW r \in Run, StartStage(r) PROVE RunsInv'
<1>1. Earned(r, run[r]) /\ Earned(r, base[r]) /\ draft # 0 /\ loaded[r] # 0 /\ exec[r] = "loop"
      BY Going DEF StartStage, At, Executing
<1>2. PICK i \in Index : i = First(Undone(run[r]))
      BY FirstIsLeast DEF StartStage, Undone
<1>3. PICK s : s = IF i \in Knowledge THEN 2 ELSE i
      OBVIOUS
<1>4. s \in Index
      BY <1>2, <1>3, Indices
<1>5. /\ run'[r] = [run[r] EXCEPT !.stages[s] = "running", !.current = s]
      /\ base'[r] \in {run'[r], base[r]}
      /\ exec'[r] = "work" /\ loaded' = loaded /\ passed' = passed
      BY <1>2, <1>3 DEF StartStage, Save, Goto, RunsInv, RunsTyped
<1>6. StageIs(run[r], run'[r], s, "running")
  <2>1. run[r] \in RunFile /\ "running" \in StageStatus
      BY <1>1 DEF Earned, StageStatus
  <2>2. StageIs(run[r], [run[r] EXCEPT !.stages[s] = "running", !.current = s], s, "running")
      BY <1>4, <2>1, StageSet
  <2> QED BY <2>2, <1>5
<1>7. StepOf(r)
      BY DEF StartStage, Save, Goto, StepOf, RunsInv, RunsTyped, Point
<1>8. Earned(r, run[r])'
      BY <1>1, <1>5, <1>6 DEF Earned, Others, StageIs
<1>9. Earned(r, base[r])'
      BY <1>1, <1>5, <1>8 DEF Earned, Others
<1>10. run'[r].current = s
      BY <1>1, <1>5 DEF Earned, RunFile
<1>11. s = Commit => \A j \in Others : Settled(run'[r].stages[j])
  <2> SUFFICES ASSUME s = Commit, NEW j \in Others PROVE Settled(run[r].stages[j])
      BY <1>6 DEF Others, StageIs
  <2>1. i = Commit /\ j \in Index /\ j < Commit
      BY <1>3, Indices DEF Commit, Others
  <2>2. \A k \in Undone(run[r]) : i <= k
      BY <1>2, FirstIsLeast DEF StartStage, Undone
  <2> QED BY <2>1, <2>2, Indices DEF Undone, Commit
<1> QED BY <1>1, <1>5, <1>7, <1>8, <1>9, <1>10, <1>11, RunStep

LEMMA ProgressEarned ==
  ASSUME RunsInv, NEW r \in Run, Progress(r) PROVE RunsInv'
<1>1. Earned(r, run[r]) /\ Earned(r, base[r]) /\ draft # 0 /\ loaded[r] # 0 /\ exec[r] = "work"
      BY Going DEF Progress, At, Executing
<1>2. /\ run'[r] = [run[r] EXCEPT !.stages[3] = "running", !.current = 3]
      /\ base' = base /\ exec' = exec /\ loaded' = loaded /\ passed' = passed
      BY DEF Progress, Save, RunsInv, RunsTyped
<1>3. StageIs(run[r], run'[r], 3, "running") /\ run'[r].current # Commit
  <2>1. StageIs(run[r], run'[r], 3, "running")
    <3>1. run[r] \in RunFile /\ "running" \in StageStatus
        BY <1>1 DEF Earned, StageStatus
    <3>2. 3 \in Index
        BY Indices
    <3>3. StageIs(run[r], [run[r] EXCEPT !.stages[3] = "running", !.current = 3], 3, "running")
        BY <3>1, <3>2, StageSet
    <3> QED BY <3>3, <1>2
  <2>2. run'[r].current = 3
      BY <1>1, <1>2 DEF Earned, RunFile
  <2> QED BY <2>1, <2>2 DEF Commit
<1>4. StepOf(r)
      BY DEF Progress, Save, StepOf, RunsInv, RunsTyped
<1>5. Earned(r, run[r])'
      BY <1>1, <1>2, <1>3 DEF Earned, Others, StageIs
<1>6. Earned(r, base[r])'
      BY <1>1, <1>2 DEF Earned, Others
<1> QED BY <1>1, <1>2, <1>3, <1>4, <1>5, <1>6, RunStep

LEMMA CloseEarned ==
  ASSUME RunsInv, NEW r \in Run, Close(r) PROVE RunsInv'
<1>1. Earned(r, run[r]) /\ Earned(r, base[r]) /\ draft # 0 /\ loaded[r] # 0 /\ exec[r] = "work"
      BY Going DEF Close, At, Executing
<1>2. PICK status : status = IF 2 \in run[r].skip THEN "skipped" ELSE "completed"
      OBVIOUS
<1>3. /\ run'[r] = [run[r] EXCEPT !.stages[2] = status, !.current = 2]
      /\ base' = base /\ exec'[r] = "closing" /\ loaded' = loaded
      BY <1>2 DEF Close, Save, Goto, RunsInv, RunsTyped
<1>4. /\ passed' \in [Run -> [Index -> Nat]]
      /\ passed'[r] = [i \in Index |-> IF i \in Knowledge THEN loaded[r] ELSE passed[r][i]]
      /\ \A q \in Run \ {r} : passed'[q] = passed[q]
  <2>1. [i \in Index |-> IF i \in Knowledge THEN loaded[r] ELSE passed[r][i]] \in [Index -> Nat]
      BY DEF RunsInv, RunsTyped
  <2> QED BY <2>1 DEF Close, RunsInv, RunsTyped
<1>5. \A q \in Run, i \in Index : passed[q][i] # 0 => passed'[q][i] # 0
      BY <1>1, <1>4
<1>6. passed'[r][2] # 0 /\ passed'[r][3] # 0
      BY <1>1, <1>4, Indices DEF Knowledge
<1>7. StageIs(run[r], run'[r], 2, status)
  <2>1. run[r] \in RunFile /\ status \in StageStatus
      BY <1>1, <1>2 DEF Earned, StageStatus
  <2>2. 2 \in Index
      BY Indices
  <2>3. StageIs(run[r], [run[r] EXCEPT !.stages[2] = status, !.current = 2], 2, status)
      BY <2>1, <2>2, StageSet
  <2> QED BY <2>3, <1>3
<1>8. StepOf(r)
      BY <1>4, <1>5 DEF Close, Save, Goto, StepOf, RunsInv, RunsTyped, Point
<1>9. Earned(r, run[r])'
      BY <1>1, <1>2, <1>5, <1>6, <1>7 DEF Earned, Others, StageIs
<1>10. Earned(r, base[r])'
      BY <1>1, <1>3, <1>5 DEF Earned, Others
<1> QED BY <1>1, <1>3, <1>6, <1>8, <1>9, <1>10, RunStep

LEMMA CloseLastEarned ==
  ASSUME RunsInv, NEW r \in Run, CloseLast(r) PROVE RunsInv'
<1>1. /\ Earned(r, run[r]) /\ draft # 0 /\ loaded[r] # 0 /\ exec[r] = "closing"
      /\ passed[r][3] # 0
      BY Going DEF CloseLast, At, Executing, RunsInv, PipelineReturned
<1>2. /\ run'[r] = [run[r] EXCEPT !.stages[3] = "completed", !.current = 3]
      /\ base'[r] = run'[r] /\ exec'[r] = "loop" /\ loaded' = loaded /\ passed' = passed
      BY DEF CloseLast, SaveBoth, Save, Goto, RunsInv, RunsTyped
<1>3. StageIs(run[r], run'[r], 3, "completed")
  <2>1. run[r] \in RunFile /\ "completed" \in StageStatus
      BY <1>1 DEF Earned, StageStatus
  <2>2. 3 \in Index
      BY Indices
  <2>3. StageIs(run[r], [run[r] EXCEPT !.stages[3] = "completed", !.current = 3], 3, "completed")
      BY <2>1, <2>2, StageSet
  <2> QED BY <2>3, <1>2
<1>4. StepOf(r)
      BY DEF CloseLast, SaveBoth, Save, Goto, StepOf, RunsInv, RunsTyped, Point
<1>5. Earned(r, run[r])' /\ Earned(r, base[r])'
      BY <1>1, <1>2, <1>3 DEF Earned, Others, StageIs
<1> QED BY <1>1, <1>2, <1>4, <1>5, RunStep

LEMMA CommitEarned ==
  ASSUME RunsInv, NEW r \in Run, CommitConfig(r) PROVE RunsInv'
<1>1. Earned(r, run[r]) /\ Earned(r, base[r]) /\ draft # 0 /\ loaded[r] # 0
      BY Going DEF CommitConfig, At, Executing
<1>2. UNCHANGED <<run, base, loaded, passed>> /\ exec'[r] = "reload"
      BY DEF CommitConfig, Goto, RunsInv, RunsTyped
<1>3. StepOf(r)
      BY DEF CommitConfig, Goto, StepOf, RunsInv, RunsTyped, Point
<1>4. Earned(r, run[r])' /\ Earned(r, base[r])'
      BY <1>1, <1>2 DEF Earned, Others
<1> QED BY <1>1, <1>2, <1>3, <1>4, RunStep

LEMMA CompleteStageEarned ==
  ASSUME RunsInv, NEW r \in Run, CompleteStage(r) PROVE RunsInv'
<1>1. Earned(r, run[r]) /\ draft # 0 /\ loaded[r] # 0 /\ loaded[r] \in Nat
      BY Going DEF CompleteStage, At, Executing, RunsInv, RunsTyped
<1>2. PICK c : c = run[r].current
      OBVIOUS
<1>3. /\ run'[r] = [run[r] EXCEPT !.stages[c] = "completed"]
      /\ base'[r] = run'[r] /\ exec'[r] = "loop" /\ loaded' = loaded
      /\ passed' = [passed EXCEPT ![r][c] = loaded[r]]
      BY <1>2 DEF CompleteStage, SaveBoth, Save, Goto, RunsInv, RunsTyped
<1>4. passed' \in [Run -> [Index -> Nat]]
        /\ \A q \in Run, i \in Index : passed'[q][i] = IF q = r /\ i = c THEN loaded[r] ELSE passed[q][i]
      BY <1>1, <1>3 DEF RunsInv, RunsTyped
<1>5. \A q \in Run, i \in Index : passed[q][i] # 0 => passed'[q][i] # 0
      BY <1>1, <1>4
<1>6. StepOf(r)
      BY <1>4, <1>5 DEF CompleteStage, SaveBoth, Save, Goto, StepOf, RunsInv, RunsTyped, Point
<1>7. run'[r] \in RunFile /\ run'[r].skip = run[r].skip
        /\ \A i \in Index : run'[r].stages[i] = IF i = c THEN "completed" ELSE run[r].stages[i]
  <2>1. PICK stages : stages = [run[r].stages EXCEPT ![c] = "completed"]
      OBVIOUS
  <2>2. stages \in [Index -> StageStatus]
          /\ \A i \in Index : stages[i] = IF i = c THEN "completed" ELSE run[r].stages[i]
      BY <1>1, <2>1 DEF Earned, RunFile, StageStatus
  <2>3. run'[r] = [run[r] EXCEPT !.stages = stages]
      BY <1>3, <2>1
  <2> QED BY <1>1, <2>2, <2>3 DEF Earned, RunFile
<1>8. Earned(r, run[r])' /\ Earned(r, base[r])'
      BY <1>1, <1>3, <1>4, <1>5, <1>7 DEF Earned, Others
<1> QED BY <1>1, <1>3, <1>6, <1>8, RunStep

-----------------------------------------------------------------------------
\* Deaths and the start of the server.
LEMMA CrashEarned == RunsInv /\ Crash => RunsInv'
BY DEF Crash, RunsInv, RunsTyped, Point, FilesEarned, Executing, Earned, DraftLoaded, PipelineReturned,
   CommitIsLast

LEMMA RecoverEarned ==
  ASSUME RunsInv, RecoverInterrupted PROVE RunsInv'
<1>1. UNCHANGED <<draft, exec, base, loaded, passed>>
      BY DEF RecoverInterrupted
<1>2. DOMAIN run' = Run
      BY DEF RecoverInterrupted
<1>3. ASSUME NEW r \in Run, Is(r, "running")
      PROVE  /\ run'[r] \in RunFile /\ run'[r].stages = run[r].stages /\ run'[r].skip = run[r].skip
             /\ run'[r].current = run[r].current
  <2>1. run[r] \in RunFile
      BY <1>3 DEF Is, RunsInv, FilesEarned, Earned
  <2>2. run'[r] = [run[r] EXCEPT !.status = "failed", !.retryable = run[r].current]
      BY <1>3 DEF RecoverInterrupted
  <2> QED BY <2>1, <2>2 DEF RunFile
<1>4. ASSUME NEW r \in Run, ~Is(r, "running") PROVE run'[r] = run[r]
      BY <1>4 DEF RecoverInterrupted
<1>5. \A r \in Run : Earned(r, run[r]) => Earned(r, run[r])'
  <2> SUFFICES ASSUME NEW r \in Run, Earned(r, run[r]) PROVE Earned(r, run[r])'
      OBVIOUS
  <2>1. CASE Is(r, "running")
      BY <2>1, <1>1, <1>3 DEF Earned, Others
  <2>2. CASE ~Is(r, "running")
      BY <2>2, <1>1, <1>4 DEF Earned, Others
  <2> QED BY <2>1, <2>2
<1>6. \A r \in Run : run'[r] # None => run[r] # None
      BY <1>4 DEF Is
<1>7. FilesEarned'
  <2> SUFFICES ASSUME NEW r \in Run
               PROVE  /\ run'[r] # None \/ Executing(r) => Earned(r, run[r])' /\ draft # 0
                      /\ Executing(r) => Earned(r, base[r])
      BY <1>1 DEF FilesEarned, Executing, Earned
  <2> QED BY <1>5, <1>6 DEF RunsInv, FilesEarned
<1>8. CommitIsLast'
  <2> SUFFICES ASSUME NEW r \in Run, exec[r] = "work", run'[r].current = Commit, NEW i \in Others
               PROVE  Settled(run'[r].stages[i])
      BY <1>1 DEF CommitIsLast, Settled
  <2>1. run'[r].current = run[r].current /\ run'[r].stages = run[r].stages
      BY <1>3, <1>4
  <2> QED BY <2>1 DEF RunsInv, CommitIsLast
<1> QED BY <1>1, <1>2, <1>7, <1>8 DEF RunsInv, RunsTyped, DraftLoaded, PipelineReturned

LEMMA RunsInvStep == RunsInv /\ [Next]_vars => RunsInv'
<1> SUFFICES ASSUME RunsInv, [Next]_vars PROVE RunsInv'
    OBVIOUS
<1>1. ASSUME NEW r \in Run, StartRun(r) \/ Retry(r) PROVE RunsInv'
      BY <1>1, StartEarned, RetryEarned
<1>2. ASSUME NEW r \in Run, Execute(r) PROVE RunsInv'
      BY <1>2, BeginEarned, RefuseEarned, SkipEarned, StartStageEarned, ProgressEarned, CloseEarned,
         CloseLastEarned, CommitEarned, CompleteStageEarned, FailRunEarned, CompleteRunEarned DEF Execute
<1>3. CASE SaveDraft
      BY <1>3 DEF SaveDraft, RunsInv, RunsTyped, FilesEarned, Executing, Earned, DraftLoaded,
         PipelineReturned, CommitIsLast, Settled
<1>4. CASE UNCHANGED vars
      BY <1>4 DEF vars, RunsInv, RunsTyped, FilesEarned, Executing, Earned, DraftLoaded,
         PipelineReturned, CommitIsLast, Settled
<1> QED BY <1>1, <1>2, <1>3, <1>4, CrashEarned, RecoverEarned DEF Next

\* The configuration is committed only by a run whose other stages all
\* succeeded or were skipped (runner.ts execute, retry and failRun).
THEOREM CommitsOnlyWhenDone == Spec => CommitsWhenDone
<1> DEFINE Done == config' # config =>
             \A i \in Index \ {Commit} : i \in run[config'.run].skip \/ passed[config'.run][i] # 0
<1>1. RunsInv /\ [Next]_vars => Done
  <2> SUFFICES ASSUME RunsInv, [Next]_vars, config' # config PROVE Done
      OBVIOUS
  <2>1. PICK r \in Run : CommitConfig(r)
      BY DEF Next, vars, Execute, StartRun, Retry, SaveDraft, Crash, RecoverInterrupted, Begin, Refuse,
         SkipStage, StartStage, Progress, Close, CloseLast, CompleteStage, FailRun, CompleteRun
  <2>2. config'.run = r /\ exec[r] = "work" /\ run[r].current = Commit
      BY <2>1 DEF CommitConfig, At
  <2>3. Earned(r, run[r]) /\ \A i \in Others : Settled(run[r].stages[i])
      BY <2>2, Going DEF Executing, RunsInv, CommitIsLast
  <2> QED BY <2>2, <2>3 DEF Earned, Others, Settled
<1>2. RunsInv /\ [Next]_vars => [Done]_vars
      BY <1>1
<1> QED BY RunsInvInit, RunsInvStep, <1>2, PTL DEF Spec, CommitsWhenDone
=============================================================================
