--------------------------- MODULE OnboardingRuns ---------------------------
(***************************************************************************)
(* Setup runs (src/src/onboarding/run-service.ts, runner.ts,               *)
(* run-repository.ts, draft-repository.ts, config-commit.ts).              *)
(*                                                                         *)
(* A run takes the setup draft through a plan of stages and commits the    *)
(* configuration with the last one.  It is saved to a file after each      *)
(* stage; a failed run is retried from its retryable stage, and a run that *)
(* a crash interrupts is marked failed when the server starts.             *)
(*                                                                         *)
(* One action is what the runner does between two saves.  The thirteen     *)
(* stages are abstracted to five: those of the knowledge pipeline, which   *)
(* one call executes together, to two, and those before it to one.         *)
(***************************************************************************)
EXTENDS Naturals

CONSTANTS
  Run,
  None,   \* no file, no stage, no configuration
  MaxDrafts, MaxRetries, MaxCrashes   \* bounds of the exploration

ASSUME RunAssumption ==
  /\ MaxDrafts \in Nat \ {0} /\ MaxRetries \in Nat /\ MaxCrashes \in Nat

VARIABLES
  run,        \* the run files
  draft,      \* revision of the setup draft, 0 before the first save
  config,     \* the committed configuration: the run and the draft it is from
  up,         \* the server process runs
  exec,       \* per run, where its execution stands
  base,       \* per run, the copy that a failing execution falls back on
  loaded,     \* per run, the draft its execution loaded
  passed,     \* per run and stage, the draft it last succeeded with (history)
  retries, crashes

vars == <<run, draft, config, up, exec, base, loaded, passed, retries, crashes>>

Order == <<"validate_draft", "ingest_sources", "build_keyword_index",
           "health_check", "commit_config">>
Index == DOMAIN Order
Knowledge == {2, 3}
Commit == 5

StageStatus == {"pending", "running", "completed", "skipped", "failed"}
RunFile == [status : {"pending", "running", "failed", "completed"},
            stages : [Index -> StageStatus],
            skip : SUBSET {2},                 \* unchanged sources
            current : Index \cup {None}, retryable : Index \cup {None}]
Point == {"none", "queued", "loop", "work", "reload", "closing"}

Init ==
  /\ run = [r \in Run |-> None]
  /\ draft = 0 /\ config = None /\ up = TRUE
  /\ exec = [r \in Run |-> "none"]
  /\ base = [r \in Run |-> None]
  /\ loaded = [r \in Run |-> 0]
  /\ passed = [r \in Run |-> [i \in Index |-> 0]]
  /\ retries = 0 /\ crashes = 0

-----------------------------------------------------------------------------
Is(r, status) == run[r] # None /\ run[r].status = status
Active(r) == Is(r, "pending") \/ Is(r, "running")
Ended(r) == Is(r, "completed") \/ Is(r, "failed")
Settled(s) == s \in {"completed", "skipped"}
Undone(record) == {i \in Index : ~Settled(record.stages[i])}
First(S) == CHOOSE i \in S : \A j \in S : i <= j

\* A microtask runs before the next request is handled.
Serving == up /\ \A r \in Run : exec[r] # "queued"

At(r, p) == up /\ exec[r] = p
Goto(r, p) == exec' = [exec EXCEPT ![r] = p]
Save(r, record) == run' = [run EXCEPT ![r] = record]
SaveBoth(r, record) == Save(r, record) /\ base' = [base EXCEPT ![r] = record]
\* The execution is over, and what it held is gone.
End(r, record) ==
  /\ Save(r, record) /\ Goto(r, "none")
  /\ base' = [base EXCEPT ![r] = None]
  /\ loaded' = [loaded EXCEPT ![r] = 0]

-----------------------------------------------------------------------------
(* Requests.                                                               *)

SaveDraft ==
  /\ Serving /\ draft < MaxDrafts
  /\ draft' = draft + 1
  /\ UNCHANGED <<run, config, up, exec, base, loaded, passed, retries, crashes>>

\* startRun: an active run, or no draft, is an error.
StartRun(r) ==
  /\ Serving /\ run[r] = None /\ draft > 0
  /\ \A q \in Run : ~Active(q)
  /\ \E skip \in SUBSET {2} :
       SaveBoth(r, [status |-> "pending", stages |-> [i \in Index |-> "pending"],
                    skip |-> skip, current |-> None, retryable |-> None])
  /\ Goto(r, "queued")
  /\ UNCHANGED <<draft, config, up, loaded, passed, retries, crashes>>

\* A reset that keeps the stages that were started.
ResetStarted(record) ==
  [record EXCEPT !.status = "pending", !.current = None, !.retryable = None,
     !.stages = [i \in Index |-> IF @[i] = "running" THEN "completed" ELSE @[i]]]

\* The stage that a retry starts from.
From(record) == IF record.retryable = None THEN 1 ELSE record.retryable

Reset(record) ==
  [record EXCEPT !.status = "pending", !.current = None, !.retryable = None,
     !.stages = [i \in Index |-> IF i < From(record) THEN @[i] ELSE "pending"]]

\* retry: a run that has not failed is not retryable.  Whether another run is
\* active is left to execute.
Retry(r) ==
  /\ Serving /\ Is(r, "failed")
  /\ retries < MaxRetries
  /\ SaveBoth(r, Reset(run[r]))
  /\ Goto(r, "queued")
  /\ retries' = retries + 1
  /\ UNCHANGED <<draft, config, up, loaded, passed, crashes>>

-----------------------------------------------------------------------------
(* OnboardingRunner.                                                       *)

\* execute finds this run active, the one saved last.
Begin(r) ==
  /\ At(r, "queued") /\ Goto(r, "loop")
  /\ SaveBoth(r, [run[r] EXCEPT !.status = "running", !.retryable = None])
  /\ loaded' = [loaded EXCEPT ![r] = draft]
  /\ UNCHANGED <<draft, config, up, passed, retries, crashes>>

\* Or it finds another one, saved in the same millisecond, and throws.
Refuse(r) ==
  /\ At(r, "queued")
  /\ \E q \in Run \ {r} : Active(q)
  /\ End(r, run[r])
  /\ UNCHANGED <<draft, config, up, passed, retries, crashes>>

SkipStage(r) ==
  /\ At(r, "loop") /\ UNCHANGED exec
  /\ Undone(run[r]) # {}
  /\ LET i == First(Undone(run[r])) IN
       /\ i \in run[r].skip
       /\ SaveBoth(r, [run[r] EXCEPT !.stages[i] = "skipped", !.current = i])
  /\ UNCHANGED <<draft, config, up, loaded, passed, retries, crashes>>

\* A startStage that leaves the current stage of the file alone.
StartQuietly(r) ==
  /\ At(r, "loop") /\ Goto(r, "work")
  /\ Undone(run[r]) # {}
  /\ LET i == First(Undone(run[r])) IN
       /\ i \notin run[r].skip
       /\ SaveBoth(r, [run[r] EXCEPT !.stages[i] = "running"])
  /\ UNCHANGED <<draft, config, up, loaded, passed, retries, crashes>>

\* startStage.  The copy that execute holds is assigned when the stage is
\* over, except for the knowledge stages, all of them started as the first.
StartStage(r) ==
  /\ At(r, "loop") /\ Goto(r, "work")
  /\ Undone(run[r]) # {}
  /\ LET i == First(Undone(run[r]))
         s == IF i \in Knowledge THEN 2 ELSE i
         started == [run[r] EXCEPT !.stages[s] = "running", !.current = s] IN
       /\ i \notin run[r].skip
       /\ Save(r, started)
       /\ base' = IF i \in Knowledge THEN [base EXCEPT ![r] = started] ELSE base
  /\ UNCHANGED <<draft, config, up, loaded, passed, retries, crashes>>

\* The knowledge pipeline reports progress.
Progress(r) ==
  /\ At(r, "work") /\ run[r].current = 2 /\ UNCHANGED exec
  /\ Save(r, [run[r] EXCEPT !.stages[3] = "running", !.current = 3])
  /\ UNCHANGED <<draft, config, up, base, loaded, passed, retries, crashes>>

\* ... and returns.
Close(r) ==
  /\ At(r, "work") /\ run[r].current \in Knowledge /\ Goto(r, "closing")
  /\ Save(r, [run[r] EXCEPT !.stages[2] = IF 2 \in run[r].skip THEN "skipped" ELSE "completed",
                            !.current = 2])
  /\ passed' = [passed EXCEPT ![r] = [i \in Index |-> IF i \in Knowledge THEN loaded[r] ELSE @[i]]]
  /\ UNCHANGED <<draft, config, up, base, loaded, retries, crashes>>

CloseLast(r) ==
  /\ At(r, "closing") /\ Goto(r, "loop")
  /\ SaveBoth(r, [run[r] EXCEPT !.stages[3] = "completed", !.current = 3])
  /\ UNCHANGED <<draft, config, up, loaded, passed, retries, crashes>>

\* commitConfig; the gateway is then reloaded.
CommitConfig(r) ==
  /\ At(r, "work") /\ run[r].current = Commit /\ Goto(r, "reload")
  /\ config' = [run |-> r, draft |-> loaded[r]]
  /\ UNCHANGED <<run, draft, up, base, loaded, passed, retries, crashes>>

\* completeStage.
CompleteStage(r) ==
  /\ \/ At(r, "work") /\ run[r].current \notin Knowledge \cup {Commit}
     \/ At(r, "reload")
  /\ Goto(r, "loop")
  /\ SaveBoth(r, [run[r] EXCEPT !.stages[run[r].current] = "completed"])
  /\ passed' = [passed EXCEPT ![r][run[r].current] = loaded[r]]
  /\ UNCHANGED <<draft, config, up, loaded, retries, crashes>>

\* failRun, of the copy that execute holds.
FailRun(r) ==
  /\ At(r, "work") \/ At(r, "reload")
  /\ LET b == base[r]
         started == {i \in Index : b.stages[i] = "running"}
         s == IF b.current # None THEN b.current
              ELSE IF started # {} THEN First(started) ELSE None IN
       End(r, [b EXCEPT !.status = "failed", !.retryable = s,
         !.stages = [i \in Index |-> IF i = s THEN "failed" ELSE @[i]]])
  /\ UNCHANGED <<draft, config, up, passed, retries, crashes>>

CompleteRun(r) ==
  /\ At(r, "loop") /\ Undone(run[r]) = {}
  /\ End(r, [run[r] EXCEPT !.status = "completed", !.current = None])
  /\ UNCHANGED <<draft, config, up, passed, retries, crashes>>

-----------------------------------------------------------------------------
Crash ==
  /\ up /\ crashes < MaxCrashes
  /\ up' = FALSE
  /\ exec' = [r \in Run |-> "none"]
  /\ base' = [r \in Run |-> None]
  /\ loaded' = [r \in Run |-> 0]
  /\ crashes' = crashes + 1
  /\ UNCHANGED <<run, draft, config, passed, retries>>

\* A start that recovers the runs that were not yet executing.
RecoverPending ==
  /\ ~up /\ up' = TRUE
  /\ run' = [r \in Run |->
       IF Is(r, "pending")
         THEN [run[r] EXCEPT !.status = "failed", !.retryable = run[r].current] ELSE run[r]]
  /\ UNCHANGED <<draft, config, exec, base, loaded, passed, retries, crashes>>

\* recoverInterrupted, when the server starts.
RecoverInterrupted ==
  /\ ~up /\ up' = TRUE
  /\ run' = [r \in Run |->
       IF Is(r, "running")
         THEN [run[r] EXCEPT !.status = "failed", !.retryable = run[r].current] ELSE run[r]]
  /\ UNCHANGED <<draft, config, exec, base, loaded, passed, retries, crashes>>

Execute(r) == \/ Begin(r) \/ Refuse(r) \/ SkipStage(r) \/ StartStage(r) \/ Progress(r)
              \/ Close(r) \/ CloseLast(r) \/ CommitConfig(r) \/ CompleteStage(r)
              \/ FailRun(r) \/ CompleteRun(r)

Next == \/ \E r \in Run : StartRun(r) \/ Retry(r) \/ Execute(r)
        \/ SaveDraft \/ Crash \/ RecoverInterrupted

Spec == Init /\ [][Next]_vars

\* The calls that a run awaits return, and a server that died is started.
FairSpec == Spec /\ WF_vars(RecoverInterrupted) /\ \A r \in Run : WF_vars(Execute(r))

-----------------------------------------------------------------------------
(* Properties.                                                             *)

\* The values each variable takes.  A stage that awaits its work is the one
\* the file calls current.
TypeOK ==
  /\ \A r \in Run : run[r] # None => run[r] \in RunFile
  /\ \A r \in Run : base[r] # None => base[r] \in RunFile
  /\ draft \in 0 .. MaxDrafts
  /\ config # None => config \in [run : Run, draft : 1 .. MaxDrafts]
  /\ up \in BOOLEAN
  /\ exec \in [Run -> Point]
  /\ loaded \in [Run -> 0 .. MaxDrafts] /\ passed \in [Run -> [Index -> 0 .. MaxDrafts]]
  /\ \A r \in Run : exec[r] \in {"work", "reload", "closing"} =>
       run[r].current # None /\ run[r].stages[run[r].current] # "pending"
  /\ retries \in 0 .. MaxRetries /\ crashes \in 0 .. MaxCrashes

\* One run is active at a time.
OneActiveRun == \A q, r \in Run : Active(q) /\ Active(r) => q = r

\* The configuration is committed by a run whose other stages all succeeded
\* or were skipped, through whatever failures, crashes and retries it went.
CommitsWhenDone ==
  [][config' # config =>
       \A i \in Index \ {Commit} :
         i \in run[config'.run].skip \/ passed[config'.run][i] # 0]_vars

\* A run that executes is completed or failed some day, also when the server
\* dies in the middle of it.
RunningRunEnds == \A r \in Run : Is(r, "running") ~> Ended(r)

\* Every run that was accepted is completed or failed some day.
EveryRunEnds == \A r \in Run : Active(r) ~> Ended(r)

\* The committed configuration is a draft that passed validation in that run.
CommitsCheckedDraft ==
  [][config' # config => config'.draft = passed[config'.run][1]]_vars

\* A run that fails is retried from the stage that failed.
RetriesFailedStage ==
  [][\A r \in Run : Is(r, "running") /\ run'[r].status = "failed"
       => \/ From(run'[r]) = run[r].current
          \/ {From(run'[r]), run[r].current} \subseteq Knowledge]_vars

\* The configuration stays as it was when a run fails.
FailedRunKeepsConfig ==
  config # None => ~Is(config.run, "failed")
=============================================================================
