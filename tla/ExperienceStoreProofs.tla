------------------------ MODULE ExperienceStoreProofs ------------------------
(***************************************************************************)
(* The store of experiences, for any number of callers and processes, any  *)
(* tickets, jobs, imports, stops and deaths: its locks exclude and         *)
(* implement the abstract lease (ExperienceLock); the jobs that produce    *)
(* experiences keep to their budget, and the files they write implement    *)
(* the catalogue that readers rely on (ExperienceProduction).              *)
(***************************************************************************)
EXTENDS ExperienceLock, ExperienceProduction, WellFoundedInduction, TLAPS

-----------------------------------------------------------------------------
(* The locks.                                                              *)
(*                                                                         *)
(* MutualExclusion is not inductive: a recovery takes the lock directory   *)
(* away some steps after it looked at it.  The inductive invariant LockInv *)
(* says what stays true in between: the guard is held by one recovery, an  *)
(* owner it has read and found dead is nobody's who works under the lock,  *)
(* and the owner.json it is about to move away is still that owner's.      *)

Holds(c) == pc[c] \in {"holding", "leaving"}
Judged(r) == pc[r] \in {"rereading", "renaming"}
Knows(r) == pc[r] \in {"checking", "rereading", "renaming"}

\* Only running processes are in the middle of a call.
Running == \A c \in Caller : pc[c] # "idle" => PidOf[c] \in alive

\* The lock directory and its owner.json are as the caller inside left them.
Marked ==
  \A c \in Caller :
    /\ Inside(c) => locked
    /\ Holds(c) => owner = [pid |-> PidOf[c], token |-> token[c]]
    /\ pc[c] \in {"naming", "emptied"} => owner = None

\* One recovery at a time, under the guard.
Guarded ==
  /\ \A r \in Caller : Recovering(r) => guard
  /\ \A r, q \in Caller : Recovering(r) /\ Recovering(q) => r = q

\* Tokens are drawn once.
Drawn ==
  /\ owner # None => locked /\ owner.token <= tokens
  /\ \A r \in Caller : Knows(r) => seen[r] # None /\ seen[r].token <= tokens

\* A token names its process, and a judged owner works under no lock.
Judgement ==
  \A r, c \in Caller :
    Knows(r) /\ Holds(c) /\ token[c] = seen[r].token =>
      PidOf[c] = seen[r].pid /\ ~Judged(r)

\* What is about to be moved away is the lock of the judged owner.
Targeted ==
  \A r \in Caller :
    pc[r] = "renaming" => owner # None /\ owner.token = seen[r].token

LockInv == /\ TypeOK /\ Running /\ MutualExclusion /\ Marked
           /\ Guarded /\ Drawn /\ Judgement /\ Targeted

-----------------------------------------------------------------------------
LEMMA LockTypeInit == LockInit => TypeOK
<1> SUFFICES ASSUME LockInit PROVE TypeOK
  OBVIOUS
<1>1. locked \in BOOLEAN /\ guard \in BOOLEAN
  BY DEF LockInit
<1>2. QED
  BY <1>1, BoundAssumption DEF LockInit, TypeOK, Stage

LEMMA LockTypeStep == TypeOK /\ [LockNext]_lockVars => TypeOK'
<1> SUFFICES ASSUME TypeOK, [LockNext]_lockVars PROVE TypeOK'
  OBVIOUS
<1> USE PidAssumption, BoundAssumption DEF TypeOK, Stage, Owner, Goes
<1>1. ASSUME NEW c \in Caller, Hold(c) PROVE TypeOK'
  <2>1. CASE Acquire(c) \/ MakeLock(c)
    BY <2>1 DEF Acquire, MakeLock
  <2>2. CASE NameOwner(c)
    BY <2>2 DEF NameOwner
  <2>3. CASE Release(c) \/ UnlinkOwner(c) \/ RemoveLock(c)
    <3>1. locked' \in BOOLEAN
      BY <2>3 DEF Release, UnlinkOwner, RemoveLock
    <3>2. QED
      BY <2>3, <3>1 DEF Release, UnlinkOwner, RemoveLock
  <2>4. QED
    BY <1>1, <2>1, <2>2, <2>3 DEF Hold
<1>2. ASSUME NEW c \in Caller, Restore(c) PROVE TypeOK'
  <2>1. CASE MakeGuard(c) \/ RemoveGuard(c)
    <3>1. guard' \in BOOLEAN
      BY <2>1 DEF MakeGuard, RemoveGuard
    <3>2. QED
      BY <2>1, <3>1 DEF MakeGuard, RemoveGuard
  <2>2. CASE ReadOwner(c)
    BY <2>2 DEF ReadOwner
  <2>3. CASE CheckOwner(c) \/ RereadOwner(c) \/ RenameLock(c)
    BY <2>3 DEF CheckOwner, RereadOwner, RenameLock
  <2>4. QED
    BY <1>2, <2>1, <2>2, <2>3 DEF Restore
<1>3. ASSUME NEW p \in Pid, Crash(p) PROVE TypeOK'
  BY <1>3 DEF Crash
<1>4. ASSUME NEW p \in Pid, Reuse(p) PROVE TypeOK'
  BY <1>4 DEF Reuse
<1>5. CASE UNCHANGED lockVars
  BY <1>5 DEF lockVars
<1>6. QED
  BY <1>1, <1>2, <1>3, <1>4, <1>5 DEF LockNext

\* The variables of the lock take values of their types.
THEOREM LockTypeCorrect == LockSpec => []TypeOK
BY LockTypeInit, LockTypeStep, PTL DEF LockSpec

-----------------------------------------------------------------------------
LEMMA LockInvInit == LockInit => LockInv
BY LockTypeInit DEF LockInit, LockInv, Running, MutualExclusion, Marked, Guarded, Drawn, Judgement,
                Targeted, Inside, Holds, Recovering, Knows, Judged

\* A caller inside finds nobody else inside, and a lock that is not free.
LEMMA OneInside ==
  ASSUME LockInv, NEW c \in Caller, Inside(c)
  PROVE  locked /\ \A d \in Caller \ {c} : ~Inside(d)
BY DEF LockInv, Marked, MutualExclusion

\* No caller is inside when the lock directory is about to be moved away.
LEMMA NobodyInside ==
  ASSUME LockInv, NEW r \in Caller, pc[r] = "renaming"
  PROVE  \A c \in Caller : ~Inside(c)
<1> SUFFICES ASSUME NEW c \in Caller, Inside(c) PROVE FALSE
  OBVIOUS
<1>1. owner # None /\ owner.token = seen[r].token
  BY DEF LockInv, Targeted
<1>2. Holds(c)
  BY <1>1 DEF LockInv, Marked, Inside, Holds
<1>3. token[c] = owner.token
  BY <1>2 DEF LockInv, Marked
<1>4. QED
  BY <1>1, <1>2, <1>3 DEF LockInv, Judgement, Knows, Judged

LEMMA LockInvHold == ASSUME LockInv, TypeOK', NEW c \in Caller, Hold(c) PROVE LockInv'
<1> USE PidAssumption
    DEF LockInv, TypeOK, Stage, Owner, Goes, Inside, Holds, Recovering, Knows, Judged
<1> DEFINE Frame == \A d \in Caller \ {c} : pc'[d] = pc[d] /\ token'[d] = token[d]
<1>1. CASE Acquire(c)
  BY <1>1 DEF Acquire, Running, MutualExclusion, Marked, Guarded, Drawn, Judgement, Targeted
<1>2. CASE MakeLock(c)
  <2>1. CASE locked
    BY <1>2, <2>1 DEF MakeLock, Running, MutualExclusion, Marked, Guarded, Drawn, Judgement, Targeted
  <2>2. CASE ~locked
    <3>1. \A d \in Caller : ~Inside(d)
      BY <2>2 DEF Marked
    <3>2. owner = None
      BY <2>2 DEF Drawn
    <3>3. QED
      BY <1>2, <2>2, <3>1, <3>2
      DEF MakeLock, Running, MutualExclusion, Marked, Guarded, Drawn, Judgement, Targeted
  <2>3. QED
    BY <2>1, <2>2
<1>3. CASE NameOwner(c)
  <2>1. locked /\ owner = None /\ \A d \in Caller \ {c} : ~Inside(d)
    BY <1>3, OneInside DEF NameOwner, Marked
  <2>2. owner'.token = tokens + 1 /\ owner' # None /\ tokens \in Nat
    BY <1>3, NoneAssumption DEF NameOwner
  <2>3. Running' /\ MutualExclusion' /\ Guarded'
    BY <1>3, <2>1 DEF NameOwner, Running, MutualExclusion, Guarded
  <2>4. Marked'
    BY <1>3, <2>1 DEF NameOwner, Marked
  <2>5. Drawn'
    BY <1>3, <2>1, <2>2 DEF NameOwner, Drawn
  <2>6. Judgement'
    BY <1>3, <2>1, <2>2 DEF NameOwner, Judgement, Drawn
  <2>7. Targeted'
    BY <1>3, <2>1 DEF NameOwner, Targeted
  <2>8. QED
    BY <2>3, <2>4, <2>5, <2>6, <2>7
<1>4. CASE Release(c)
  BY <1>4 DEF Release, Running, MutualExclusion, Marked, Guarded, Drawn, Judgement, Targeted
<1>5. CASE UnlinkOwner(c)
  <2>1. \A d \in Caller \ {c} : ~Inside(d)
    BY <1>5, OneInside DEF UnlinkOwner
  <2>2. \A r \in Caller : pc[r] # "renaming"
    BY <1>5, NobodyInside DEF UnlinkOwner
  <2>3. QED
    BY <1>5, <2>1, <2>2
    DEF UnlinkOwner, Running, MutualExclusion, Marked, Guarded, Drawn, Judgement, Targeted
<1>6. CASE RemoveLock(c)
  <2>1. owner = None /\ \A d \in Caller \ {c} : ~Inside(d)
    BY <1>6, OneInside DEF RemoveLock, Marked
  <2>2. QED
    BY <1>6, <2>1
    DEF RemoveLock, Running, MutualExclusion, Marked, Guarded, Drawn, Judgement, Targeted
<1>7. QED
  BY <1>1, <1>2, <1>3, <1>4, <1>5, <1>6 DEF Hold

LEMMA LockInvRestore == ASSUME LockInv, TypeOK', NEW c \in Caller, Restore(c) PROVE LockInv'
<1> USE PidAssumption
    DEF LockInv, TypeOK, Stage, Owner, Goes, Inside, Holds, Recovering, Knows, Judged
<1>1. CASE MakeGuard(c)
  BY <1>1 DEF MakeGuard, Running, MutualExclusion, Marked, Guarded, Drawn, Judgement, Targeted
<1>2. CASE ReadOwner(c)
  <2>1. Running' /\ MutualExclusion' /\ Guarded' /\ Marked' /\ Targeted'
    BY <1>2 DEF ReadOwner, Running, MutualExclusion, Marked, Guarded, Targeted
  <2>2. Drawn' /\ Judgement'
    BY <1>2 DEF ReadOwner, Drawn, Judgement, Marked
  <2>3. QED
    BY <2>1, <2>2
<1>3. CASE CheckOwner(c)
  <2>1. Running' /\ MutualExclusion' /\ Guarded' /\ Marked' /\ Targeted' /\ Drawn'
    BY <1>3 DEF CheckOwner, Running, MutualExclusion, Marked, Guarded, Targeted, Drawn
  <2>2. Judgement'
    BY <1>3 DEF CheckOwner, Judgement, Running
  <2>3. QED
    BY <2>1, <2>2
<1>4. CASE RereadOwner(c)
  BY <1>4
  DEF RereadOwner, Running, MutualExclusion, Marked, Guarded, Drawn, Judgement, Targeted
<1>5. CASE RenameLock(c)
  <2>1. \A d \in Caller : ~Inside(d)
    BY <1>5, NobodyInside DEF RenameLock
  <2>2. \A r \in Caller \ {c} : pc[r] # "renaming"
    BY <1>5 DEF RenameLock, Guarded
  <2>3. QED
    BY <1>5, <2>1, <2>2
    DEF RenameLock, Running, MutualExclusion, Marked, Guarded, Drawn, Judgement, Targeted
<1>6. CASE RemoveGuard(c)
  <2>1. \A r \in Caller \ {c} : ~Recovering(r)
    BY <1>6 DEF RemoveGuard, Guarded
  <2>2. QED
    BY <1>6, <2>1
    DEF RemoveGuard, Running, MutualExclusion, Marked, Guarded, Drawn, Judgement, Targeted
<1>7. QED
  BY <1>1, <1>2, <1>3, <1>4, <1>5, <1>6 DEF Restore

LEMMA LockInvProcess ==
  ASSUME LockInv, TypeOK', NEW p \in Pid, Crash(p) \/ Reuse(p)
  PROVE  LockInv'
<1> USE PidAssumption
    DEF LockInv, TypeOK, Stage, Owner, Inside, Holds, Recovering, Knows, Judged
<1>1. CASE Crash(p)
  BY <1>1 DEF Crash, Running, MutualExclusion, Marked, Guarded, Drawn, Judgement, Targeted
<1>2. CASE Reuse(p)
  BY <1>2 DEF Reuse, Running, MutualExclusion, Marked, Guarded, Drawn, Judgement, Targeted
<1>3. QED
  BY <1>1, <1>2

LEMMA LockInvStep == LockInv /\ [LockNext]_lockVars => LockInv'
<1> SUFFICES ASSUME LockInv, [LockNext]_lockVars PROVE LockInv'
  OBVIOUS
<1>1. TypeOK'
  BY LockTypeStep DEF LockInv
<1>2. CASE LockNext
  BY <1>1, <1>2, LockInvHold, LockInvRestore, LockInvProcess DEF LockNext
<1>3. CASE UNCHANGED lockVars
  BY <1>1, <1>3 DEF lockVars, LockInv, Running, MutualExclusion, Marked, Guarded, Drawn, Judgement,
                   Targeted, Inside, Holds, Recovering, Knows, Judged
<1>4. QED
  BY <1>2, <1>3

THEOREM LockInductive == LockSpec => []LockInv
BY LockInvInit, LockInvStep, PTL DEF LockSpec

\* Two callers are never inside the lock together, whoever dies or recovers.
THEOREM Exclusion == LockSpec => []MutualExclusion
<1>1. LockInv => MutualExclusion
  BY DEF LockInv
<1>2. QED
  BY <1>1, LockInductive, PTL

\* A holder finds its lock untouched when it releases it.
THEOREM HolderKeeps == LockSpec => []HolderKeepsLock
<1>1. LockInv => HolderKeepsLock
  BY DEF LockInv, Marked, HolderKeepsLock, Inside, Holds
<1>2. QED
  BY <1>1, LockInductive, PTL

-----------------------------------------------------------------------------
(* The refinement: what each step does to the callers inside.              *)

In == {c \in Caller : Inside(c)}

LEMMA LeaseHold ==
  ASSUME LockInv, NEW c \in Caller, Hold(c)
  PROVE  [Leased!LNext]_(Leased!lvars)
<1> USE DEF LockInv, TypeOK, Stage, Goes, Inside, Leased!lvars
<1>1. CASE Acquire(c) \/ NameOwner(c) \/ UnlinkOwner(c)
  BY <1>1 DEF Acquire, NameOwner, UnlinkOwner
<1>2. CASE Release(c)
  <2>1. owner # None /\ owner.token = token[c]
    BY <1>2, PidAssumption, NoneAssumption DEF Release, Marked, Holds
  <2>2. QED
    BY <1>2, <2>1 DEF Release
<1>3. CASE MakeLock(c) /\ locked
  BY <1>3 DEF MakeLock
<1>4. CASE MakeLock(c) /\ ~locked
  <2>1. In = {} /\ In' = {c}
    BY <1>4 DEF In, MakeLock, Marked
  <2>2. Leased!Take(c)
    BY <1>4, <2>1 DEF Leased!Take, In, MakeLock
  <2>3. QED
    BY <2>2 DEF Leased!LNext
<1>5. CASE RemoveLock(c)
  <2>1. In = {c} /\ In' = {}
    BY <1>5, OneInside DEF In, RemoveLock
  <2>2. Leased!GiveBack(c)
    BY <1>5, <2>1 DEF Leased!GiveBack, In, RemoveLock
  <2>3. QED
    BY <2>2 DEF Leased!LNext
<1>6. QED
  BY <1>1, <1>2, <1>3, <1>4, <1>5 DEF Hold

LEMMA LeaseRestore ==
  ASSUME LockInv, NEW c \in Caller, Restore(c)
  PROVE  [Leased!LNext]_(Leased!lvars)
<1> USE DEF LockInv, TypeOK, Stage, Goes, Inside, Leased!lvars
<1>1. CASE MakeGuard(c) \/ ReadOwner(c) \/ CheckOwner(c) \/ RereadOwner(c) \/ RemoveGuard(c)
  BY <1>1 DEF MakeGuard, ReadOwner, CheckOwner, RereadOwner, RemoveGuard
<1>2. CASE RenameLock(c)
  <2>1. In = {} /\ In' = {}
    <3>1. \A d \in Caller : ~Inside(d)
      BY <1>2, NobodyInside DEF RenameLock
    <3>2. QED
      BY <1>2, <3>1 DEF In, RenameLock
  <2>2. locked
    BY <1>2 DEF RenameLock, Targeted, Drawn
  <2>3. Leased!Reclaim
    BY <1>2, <2>1, <2>2 DEF Leased!Reclaim, In, RenameLock
  <2>4. QED
    BY <2>3 DEF Leased!LNext
<1>3. QED
  BY <1>1, <1>2 DEF Restore

LEMMA LeaseProcess ==
  ASSUME LockInv, NEW p \in Pid, Crash(p) \/ Reuse(p)
  PROVE  [Leased!LNext]_(Leased!lvars)
<1> USE DEF LockInv, TypeOK, Stage, Inside, Leased!lvars
<1>1. CASE Reuse(p)
  BY <1>1 DEF Reuse
<1>2. CASE Crash(p) /\ \A c \in Caller : Inside(c) => PidOf[c] # p
  BY <1>2 DEF Crash
<1>3. CASE Crash(p) /\ \E c \in Caller : Inside(c) /\ PidOf[c] = p
  <2>1. PICK c \in Caller : Inside(c) /\ PidOf[c] = p
    BY <1>3
  <2>2. In = {c} /\ In' = {}
    BY <1>3, <2>1, OneInside DEF In, Crash
  <2>3. Leased!Die(c)
    BY <1>3, <2>2 DEF Leased!Die, In, Crash
  <2>4. QED
    BY <2>3 DEF Leased!LNext
<1>4. QED
  BY <1>1, <1>2, <1>3

\* The directories, tokens and pids implement the abstract lease.
THEOREM LeaseIsImplemented == LockSpec => ImplementsLease
<1>1. LockInit => Leased!LInit
  BY DEF LockInit, Leased!LInit, Inside
<1>2. LockInv /\ [LockNext]_lockVars => [Leased!LNext]_(Leased!lvars)
  <2>1. ASSUME LockInv, LockNext PROVE [Leased!LNext]_(Leased!lvars)
    BY <2>1, LeaseHold, LeaseRestore, LeaseProcess DEF LockNext
  <2>2. ASSUME UNCHANGED lockVars PROVE UNCHANGED Leased!lvars
    BY <2>2 DEF lockVars, Leased!lvars, Inside
  <2>3. QED
    BY <2>1, <2>2
<1>3. QED
  BY <1>1, <1>2, LockInductive, PTL DEF LockSpec, ImplementsLease, Leased!LSpec

-----------------------------------------------------------------------------
(* The budget.                                                             *)
(*                                                                         *)
(* What a job has used is in its file before a request goes out, so that   *)
(* the requests sent never exceed it (Accounted); a process that runs the  *)
(* job knows what the file leaves it (BudgetKnown).                        *)

JobFields == DOMAIN NoJob
ProcFields == DOMAIN NoProc

ProductionTyped ==
  /\ DOMAIN jobs = Jobs /\ \A j \in Jobs : DOMAIN jobs[j] = JobFields /\ jobs[j].used \in Nat
  /\ DOMAIN proc = ProcFields
  /\ sent \in [Jobs -> Nat]

Accounted == \A j \in Jobs : sent[j] <= jobs[j].used /\ jobs[j].used <= MaxCalls

BudgetKnown ==
  /\ proc.pc # "idle" => proc.job \in Jobs
  /\ proc.pc \notin {"idle", "open"} => proc.budget = MaxCalls - jobs[proc.job].used

BudgetInv == ProductionTyped /\ Accounted /\ BudgetKnown

-----------------------------------------------------------------------------
LEMMA BudgetInvInit == Init => BudgetInv
BY BudgetAssumption
   DEF Init, BudgetInv, ProductionTyped, Accounted, BudgetKnown, JobFields, ProcFields, NoJob, NoProc

LEMMA Fields ==
  /\ JobFields = {"dir", "file", "sources", "used", "records", "progress", "accepted"}
  /\ ProcFields = {"pc", "job", "todo", "at", "published", "progress", "budget", "tries", "object", "aborted"}
  /\ NoJob.used = 0 /\ NoProc.pc = "idle"
BY DEF JobFields, ProcFields, NoJob, NoProc

\* A step that sends nothing and leaves used and the budget alone.
Quiet ==
  /\ sent' = sent
  /\ DOMAIN jobs' = Jobs
  /\ \A j \in Jobs : DOMAIN jobs'[j] = JobFields /\ jobs'[j].used = jobs[j].used
  /\ DOMAIN proc' = ProcFields
  /\ \/ proc'.pc = "idle"
     \/ /\ proc.pc \notin {"idle", "open"} /\ proc'.job = proc.job /\ proc'.budget = proc.budget
     \/ /\ proc'.pc = proc.pc /\ proc'.job = proc.job /\ proc'.budget = proc.budget

LEMMA QuietStep == BudgetInv /\ Quiet => BudgetInv'
BY DEF Quiet, BudgetInv, ProductionTyped, Accounted, BudgetKnown

\* Saving a job's file with another field changed, and what a process does next.
LEMMA SavedField ==
  ASSUME BudgetInv, NEW j \in Jobs, NEW value, DOMAIN value = JobFields, value.used = jobs[j].used,
         jobs' = [jobs EXCEPT ![j] = value]
  PROVE  /\ DOMAIN jobs' = Jobs
         /\ \A k \in Jobs : DOMAIN jobs'[k] = JobFields /\ jobs'[k].used = jobs[k].used
BY DEF BudgetInv, ProductionTyped

LEMMA JobsKept ==
  ASSUME BudgetInv, jobs' = jobs
  PROVE  /\ DOMAIN jobs' = Jobs
         /\ \A k \in Jobs : DOMAIN jobs'[k] = JobFields /\ jobs'[k].used = jobs[k].used
BY DEF BudgetInv, ProductionTyped

-----------------------------------------------------------------------------
(* What the parts of an action do. *)

Working == proc.pc \notin {"idle", "open"}

LEMMA LeaveQuiet == ASSUME BudgetInv, Leave, UNCHANGED <<jobs, sent>> PROVE Quiet
<1>1. DOMAIN proc' = ProcFields /\ proc'.pc = "idle"
  BY Fields DEF Leave, ProcFields
<1>2. DOMAIN jobs' = Jobs /\ \A k \in Jobs : DOMAIN jobs'[k] = JobFields /\ jobs'[k].used = jobs[k].used
  BY JobsKept
<1> QED BY <1>1, <1>2 DEF Quiet

LEMMA StepKept ==
  ASSUME BudgetInv, Working, NEW stage, Step(stage)
  PROVE  DOMAIN proc' = ProcFields /\ proc'.job = proc.job /\ proc'.budget = proc.budget
BY Fields DEF BudgetInv, ProductionTyped, Step

LEMMA StepQuiet ==
  ASSUME BudgetInv, Working, NEW stage, Step(stage), UNCHANGED <<jobs, sent>>
  PROVE  Quiet
BY StepKept, JobsKept DEF Quiet, Working

LEMMA WorkingJob == ASSUME BudgetInv, Working PROVE proc.job \in Jobs
BY DEF BudgetInv, BudgetKnown, Working

LEMMA MarkKept ==
  ASSUME BudgetInv, Working, NEW status, Mark(status)
  PROVE  /\ DOMAIN jobs' = Jobs
         /\ \A k \in Jobs : DOMAIN jobs'[k] = JobFields /\ jobs'[k].used = jobs[k].used
<1> DEFINE value == [JobNow EXCEPT !.records[proc.at] = status]
<1>1. proc.job \in Jobs BY WorkingJob
<1>2. DOMAIN value = JobFields /\ value.used = jobs[proc.job].used
  BY <1>1, Fields DEF BudgetInv, ProductionTyped, JobNow
<1>3. jobs' = [jobs EXCEPT ![proc.job] = value] BY DEF Mark, Save
<1> QED BY <1>1, <1>2, <1>3, SavedField

LEMMA DoneQuiet ==
  ASSUME BudgetInv, Working, NEW status, Done(status), UNCHANGED sent
  PROVE  Quiet
<1>1. DOMAIN jobs' = Jobs /\ \A k \in Jobs : DOMAIN jobs'[k] = JobFields /\ jobs'[k].used = jobs[k].used
  BY MarkKept DEF Done
<1>2. DOMAIN proc' = ProcFields /\ proc'.job = proc.job /\ proc'.budget = proc.budget
  BY Fields DEF Done, BudgetInv, ProductionTyped
<1> QED BY <1>1, <1>2 DEF Quiet, Working

LEMMA CheckpointQuiet ==
  ASSUME BudgetInv, Working, NEW p, Checkpoint(p), UNCHANGED sent
  PROVE  Quiet
<1> DEFINE value == [JobNow EXCEPT !.progress[proc.at] = p]
<1>1. proc.job \in Jobs BY WorkingJob
<1>2. DOMAIN value = JobFields /\ value.used = jobs[proc.job].used
  BY <1>1, Fields DEF BudgetInv, ProductionTyped, JobNow
<1>3. jobs' = [jobs EXCEPT ![proc.job] = value] BY DEF Checkpoint, Save
<1>4. DOMAIN jobs' = Jobs /\ \A k \in Jobs : DOMAIN jobs'[k] = JobFields /\ jobs'[k].used = jobs[k].used
  BY <1>1, <1>2, <1>3, SavedField
<1>5. DOMAIN proc' = ProcFields /\ proc'.job = proc.job /\ proc'.budget = proc.budget
  BY Fields DEF Checkpoint, BudgetInv, ProductionTyped
<1> QED BY <1>4, <1>5 DEF Quiet, Working

\* A step outside the refining process.
LEMMA OutsideQuiet == ASSUME BudgetInv, UNCHANGED <<jobs, proc, sent>> PROVE Quiet
<1>1. DOMAIN jobs' = Jobs /\ \A k \in Jobs : DOMAIN jobs'[k] = JobFields /\ jobs'[k].used = jobs[k].used
  BY JobsKept
<1> QED BY <1>1 DEF Quiet, BudgetInv, ProductionTyped

-----------------------------------------------------------------------------
(* The actions of the refining process that change used or the budget. *)

LEMMA StartKeeps == ASSUME BudgetInv, NEW j \in Jobs, StartJob(j) PROVE BudgetInv'
<1> DEFINE value == [jobs[j] EXCEPT !.dir = TRUE]
<1>1. DOMAIN value = JobFields /\ value.used = jobs[j].used
  BY Fields DEF BudgetInv, ProductionTyped
<1>2. DOMAIN jobs' = Jobs /\ \A k \in Jobs : DOMAIN jobs'[k] = JobFields /\ jobs'[k].used = jobs[k].used
  BY <1>1, SavedField DEF StartJob, Save
<1>3. DOMAIN proc' = ProcFields /\ proc'.pc = "open" /\ proc'.job = j
  BY Fields DEF StartJob, ProcFields, NoProc
<1>4. sent' = sent BY DEF StartJob
<1> QED BY <1>2, <1>3, <1>4 DEF BudgetInv, ProductionTyped, Accounted, BudgetKnown

LEMMA OpenKeeps == ASSUME BudgetInv, Open PROVE BudgetInv'
<1> DEFINE value == [JobNow EXCEPT !.file = TRUE, !.sources = proc.todo]
<1>1. proc.job \in Jobs BY DEF Open, BudgetInv, BudgetKnown
<1>2. DOMAIN value = JobFields /\ value.used = jobs[proc.job].used
  BY <1>1, Fields DEF BudgetInv, ProductionTyped, JobNow
<1>3. jobs' = [jobs EXCEPT ![proc.job] = value] BY DEF Open, Save
<1>4. DOMAIN jobs' = Jobs /\ \A k \in Jobs : DOMAIN jobs'[k] = JobFields /\ jobs'[k].used = jobs[k].used
  BY <1>1, <1>2, <1>3, SavedField
<1>5. /\ DOMAIN proc' = ProcFields /\ proc'.job = proc.job
      /\ proc'.budget = MaxCalls - jobs[proc.job].used
  BY Fields DEF Open, JobNow, BudgetInv, ProductionTyped
<1>6. sent' = sent BY DEF Open
<1> QED BY <1>1, <1>4, <1>5, <1>6 DEF BudgetInv, ProductionTyped, Accounted, BudgetKnown

\* The request goes out only after its call is counted in the file.
LEMMA AskKeeps == ASSUME BudgetInv, Ask PROVE BudgetInv'
<1>1. Working BY DEF Ask, Working
<1>2. CASE Done("dropped") /\ UNCHANGED sent
  BY <1>1, <1>2, DoneQuiet, QuietStep
<1>3. CASE Step("judge") /\ UNCHANGED <<jobs, runner, sent>>
  BY <1>1, <1>3, StepQuiet, QuietStep
<1>4. CASE Leave /\ UNCHANGED <<jobs, sent>>
  BY <1>4, LeaveQuiet, QuietStep
<1>5. CASE /\ ~(proc.progress.attempt >= 2) /\ proc.budget # 0
           /\ Reserve /\ sent' = [sent EXCEPT ![proc.job] = @ + 1]
           /\ proc' = [proc EXCEPT !.pc = "wait", !.budget = @ - 1]
  <2> DEFINE value == [JobNow EXCEPT !.used = @ + 1]
  <2>1. proc.job \in Jobs BY <1>1, WorkingJob
  <2>2. proc.budget = MaxCalls - jobs[proc.job].used
    BY <1>1 DEF Working, BudgetInv, BudgetKnown
  <2>3. /\ jobs[proc.job].used \in Nat /\ sent[proc.job] \in Nat
        /\ sent[proc.job] <= jobs[proc.job].used /\ jobs[proc.job].used <= MaxCalls
    BY <2>1 DEF BudgetInv, ProductionTyped, Accounted
  <2>4. jobs[proc.job].used + 1 <= MaxCalls
    BY <1>5, <2>2, <2>3, BudgetAssumption
  <2>5. DOMAIN value = JobFields /\ value.used = jobs[proc.job].used + 1
    BY <2>1, Fields DEF BudgetInv, ProductionTyped, JobNow
  <2>6. jobs' = [jobs EXCEPT ![proc.job] = value] BY <1>5 DEF Reserve, Save
  <2>7. /\ DOMAIN jobs' = Jobs /\ \A k \in Jobs : DOMAIN jobs'[k] = JobFields
        /\ jobs'[proc.job].used = jobs[proc.job].used + 1
        /\ \A k \in Jobs \ {proc.job} : jobs'[k].used = jobs[k].used
    BY <2>1, <2>5, <2>6 DEF BudgetInv, ProductionTyped
  <2>8. /\ sent' \in [Jobs -> Nat] /\ sent'[proc.job] = sent[proc.job] + 1
        /\ \A k \in Jobs \ {proc.job} : sent'[k] = sent[k]
    BY <1>5, <2>1 DEF BudgetInv, ProductionTyped
  <2>9. /\ DOMAIN proc' = ProcFields /\ proc'.pc = "wait" /\ proc'.job = proc.job
        /\ proc'.budget = proc.budget - 1
    BY <1>5, Fields DEF BudgetInv, ProductionTyped
  <2>10. ProductionTyped'
    BY <2>3, <2>7, <2>8, <2>9 DEF BudgetInv, ProductionTyped
  <2>11. Accounted'
    BY <2>3, <2>4, <2>7, <2>8 DEF BudgetInv, Accounted
  <2>12. BudgetKnown'
    BY <2>1, <2>2, <2>3, <2>7, <2>9, BudgetAssumption DEF BudgetKnown
  <2> QED BY <2>10, <2>11, <2>12 DEF BudgetInv
<1> QED BY <1>2, <1>3, <1>4, <1>5 DEF Ask

-----------------------------------------------------------------------------
(* The others. *)

LEMMA NextRecordKeeps == ASSUME BudgetInv, NextRecord PROVE BudgetInv'
<1>1. Working BY DEF NextRecord, Working
<1>2. sent' = sent BY DEF NextRecord
<1>3. CASE Leave /\ UNCHANGED jobs
  BY <1>2, <1>3, LeaveQuiet, QuietStep
<1>4. ASSUME NEW s, proc' = [proc EXCEPT !.todo = @ \ {s}], UNCHANGED jobs
      PROVE  Quiet
  <2>1. DOMAIN proc' = ProcFields /\ proc'.job = proc.job /\ proc'.budget = proc.budget
    BY <1>4, Fields DEF BudgetInv, ProductionTyped
  <2> QED BY <1>1, <1>2, <1>4, <2>1, JobsKept DEF Quiet, Working
<1>5. ASSUME NEW s, proc' = [proc EXCEPT !.todo = @ \ {s}],
             Save(proc.job, [JobNow EXCEPT !.records[s] = "published"])
      PROVE  Quiet
  <2> DEFINE value == [JobNow EXCEPT !.records[s] = "published"]
  <2>1. DOMAIN proc' = ProcFields /\ proc'.job = proc.job /\ proc'.budget = proc.budget
    BY <1>5, Fields DEF BudgetInv, ProductionTyped
  <2>2. proc.job \in Jobs BY <1>1, WorkingJob
  <2>3. DOMAIN value = JobFields /\ value.used = jobs[proc.job].used
    BY <2>2, Fields DEF BudgetInv, ProductionTyped, JobNow
  <2>4. jobs' = [jobs EXCEPT ![proc.job] = value] BY <1>5 DEF Save
  <2>5. DOMAIN jobs' = Jobs /\ \A k \in Jobs : DOMAIN jobs'[k] = JobFields /\ jobs'[k].used = jobs[k].used
    BY <2>2, <2>3, <2>4, SavedField
  <2> QED BY <1>1, <1>2, <2>1, <2>5 DEF Quiet, Working
<1>6. ASSUME NEW s, NEW stage, proc' = [Begin(s) EXCEPT !.pc = stage], UNCHANGED jobs
      PROVE  Quiet
  <2>1. DOMAIN Begin(s) = ProcFields /\ Begin(s).job = proc.job /\ Begin(s).budget = proc.budget
    BY Fields DEF Begin, BudgetInv, ProductionTyped
  <2>2. DOMAIN proc' = ProcFields /\ proc'.job = proc.job /\ proc'.budget = proc.budget
    BY <1>6, <2>1, Fields
  <2> QED BY <1>1, <1>2, <1>6, <2>2, JobsKept DEF Quiet, Working
<1>7. CASE ~(proc.todo = {} \/ proc.aborted)
  <2> DEFINE s == First(proc.todo)
             status == JobNow.records[s]
  <2>1. \/ proc' = [proc EXCEPT !.todo = @ \ {s}] /\ UNCHANGED jobs
        \/ /\ Save(proc.job, [JobNow EXCEPT !.records[s] = "published"])
           /\ proc' = [proc EXCEPT !.todo = @ \ {s}]
        \/ /\ proc' = [Begin(s) EXCEPT !.pc = IF status = "accepted" THEN "publish" ELSE "ask"]
           /\ UNCHANGED jobs
    BY <1>7 DEF NextRecord
  <2> HIDE DEF s, status
  <2> QED BY <2>1, <1>4, <1>5, <1>6, QuietStep
<1> QED BY <1>3, <1>7 DEF NextRecord

LEMMA ReplyKeeps == ASSUME BudgetInv, NEW answer, answer \in Answers, Reply(answer) PROVE BudgetInv'
<1>1. Working BY DEF Reply, Working
<1>2. sent' = sent BY DEF Reply
<1>3. CASE Leave /\ UNCHANGED jobs
  BY <1>2, <1>3, LeaveQuiet, QuietStep
<1>4. ASSUME proc' = [proc EXCEPT !.pc = "ask", !.tries = @ + 1], UNCHANGED jobs
      PROVE  Quiet
  <2>1. DOMAIN proc' = ProcFields /\ proc'.job = proc.job /\ proc'.budget = proc.budget
    BY <1>4, Fields DEF BudgetInv, ProductionTyped
  <2> QED BY <1>1, <1>2, <1>4, <2>1, JobsKept DEF Quiet, Working
<1>5. ASSUME Done("dropped") PROVE Quiet
  BY <1>1, <1>2, <1>5, DoneQuiet
<1>6. ASSUME NEW p, Checkpoint(p) PROVE Quiet
  BY <1>1, <1>2, <1>6, CheckpointQuiet
<1>7. CASE Answered(answer)
  BY <1>7, <1>4, <1>5, <1>6, QuietStep DEF Answered, Answers, Advance
<1> QED BY <1>3, <1>7 DEF Reply

LEMMA JudgeKeeps == ASSUME BudgetInv, Judge PROVE BudgetInv'
<1>1. Working BY DEF Judge, Working
<1>2. sent' = sent BY DEF Judge
<1>3. CASE Leave /\ UNCHANGED jobs
  BY <1>2, <1>3, LeaveQuiet, QuietStep
<1>4. CASE /\ Save(proc.job, [JobNow EXCEPT !.accepted[proc.at] = proc.progress.draft])
           /\ Step("accept")
  <2> DEFINE value == [JobNow EXCEPT !.accepted[proc.at] = proc.progress.draft]
  <2>1. DOMAIN proc' = ProcFields /\ proc'.job = proc.job /\ proc'.budget = proc.budget
    BY <1>1, <1>4, StepKept
  <2>2. proc.job \in Jobs BY <1>1, WorkingJob
  <2>3. DOMAIN value = JobFields /\ value.used = jobs[proc.job].used
    BY <2>2, Fields DEF BudgetInv, ProductionTyped, JobNow
  <2>4. jobs' = [jobs EXCEPT ![proc.job] = value] BY <1>4 DEF Save
  <2>5. DOMAIN jobs' = Jobs /\ \A k \in Jobs : DOMAIN jobs'[k] = JobFields /\ jobs'[k].used = jobs[k].used
    BY <2>2, <2>3, <2>4, SavedField
  <2> QED BY <1>1, <1>2, <2>1, <2>5, QuietStep DEF Quiet, Working
<1>5. CASE Advance
  BY <1>1, <1>2, <1>5, CheckpointQuiet, QuietStep DEF Advance
<1> QED BY <1>3, <1>4, <1>5 DEF Judge

LEMMA AcceptKeeps == ASSUME BudgetInv, Accept PROVE BudgetInv'
<1>1. Working BY DEF Accept, Working
<1>2. DOMAIN jobs' = Jobs /\ \A k \in Jobs : DOMAIN jobs'[k] = JobFields /\ jobs'[k].used = jobs[k].used
  BY <1>1, MarkKept DEF Accept
<1>3. sent' = sent BY DEF Accept
<1>4. CASE Leave
  <2>1. DOMAIN proc' = ProcFields /\ proc'.pc = "idle"
    BY <1>4, Fields DEF Leave, ProcFields
  <2> QED BY <1>2, <1>3, <2>1, QuietStep DEF Quiet
<1>5. CASE Step("publish")
  <2>1. DOMAIN proc' = ProcFields /\ proc'.job = proc.job /\ proc'.budget = proc.budget
    BY <1>1, <1>5, StepKept
  <2> QED BY <1>1, <1>2, <1>3, <2>1, QuietStep DEF Quiet, Working
<1> QED BY <1>4, <1>5 DEF Accept

LEMMA PublicationKeeps == ASSUME BudgetInv, Publish \/ WriteFile \/ Commit PROVE BudgetInv'
<1>1. CASE Publish
  <2>1. Working BY <1>1 DEF Publish, Working
  <2>2. UNCHANGED <<jobs, sent>> BY <1>1 DEF Publish
  <2>3. CASE Leave
    BY <2>2, <2>3, LeaveQuiet, QuietStep
  <2>4. CASE Step("mark")
    BY <2>1, <2>2, <2>4, StepQuiet, QuietStep
  <2>5. ASSUME NEW object, proc' = [proc EXCEPT !.pc = "write", !.object = object] PROVE Quiet
    <3>1. DOMAIN proc' = ProcFields /\ proc'.job = proc.job /\ proc'.budget = proc.budget
      BY <2>5, Fields DEF BudgetInv, ProductionTyped
    <3> QED BY <2>1, <2>2, <3>1, JobsKept DEF Quiet, Working
  <2> QED BY <1>1, <2>3, <2>4, <2>5, QuietStep DEF Publish
<1>2. CASE WriteFile
  BY <1>2, OutsideQuiet, QuietStep DEF WriteFile
<1>3. CASE Commit
  <2>1. Working BY <1>3 DEF Commit, Working
  <2> QED BY <1>3, <2>1, StepQuiet, QuietStep DEF Commit
<1> QED BY <1>1, <1>2, <1>3

LEMMA MarkPublishedKeeps == ASSUME BudgetInv, MarkPublished PROVE BudgetInv'
<1>1. Working BY DEF MarkPublished, Working
<1> QED BY <1>1, DoneQuiet, QuietStep DEF MarkPublished

LEMMA InterruptionKeeps == ASSUME BudgetInv, Abort \/ RefinerDies PROVE BudgetInv'
<1>1. CASE Abort
  <2>1. UNCHANGED <<jobs, sent>> BY <1>1 DEF Abort
  <2>2. /\ DOMAIN proc' = ProcFields /\ proc'.pc = proc.pc
        /\ proc'.job = proc.job /\ proc'.budget = proc.budget
    BY <1>1, Fields DEF Abort, BudgetInv, ProductionTyped
  <2> QED BY <2>1, <2>2, JobsKept, QuietStep DEF Quiet
<1>2. CASE RefinerDies
  <2>1. DOMAIN proc' = ProcFields /\ proc'.pc = "idle"
    BY <1>2, Fields DEF RefinerDies, ProcFields
  <2>2. UNCHANGED <<jobs, sent>> BY <1>2 DEF RefinerDies
  <2> QED BY <2>1, <2>2, JobsKept, QuietStep DEF Quiet
<1> QED BY <1>1, <1>2

LEMMA OthersKeep ==
  ASSUME BudgetInv,
         \/ ImportRow \/ ImportEnds \/ ImporterDies \/ Recover
         \/ \E batch \in Batches : Import(batch)
         \/ \E t \in Tickets : Withdraw(t)
  PROVE  BudgetInv'
<1>1. UNCHANGED <<jobs, proc, sent>>
  BY DEF ImportRow, ImportEnds, ImporterDies, Recover, Import, Withdraw, Refining
<1> QED BY <1>1, OutsideQuiet, QuietStep

-----------------------------------------------------------------------------
(* The theorem. *)

LEMMA BudgetInvNext == BudgetInv /\ [Next]_vars => BudgetInv'
<1> SUFFICES ASSUME BudgetInv, [Next]_vars PROVE BudgetInv'
  OBVIOUS
<1>1. CASE RefinerStep
  BY <1>1, OpenKeeps, NextRecordKeeps, AskKeeps, JudgeKeeps, AcceptKeeps, PublicationKeeps,
     MarkPublishedKeeps, ReplyKeeps DEF RefinerStep
<1>2. CASE Abort \/ RefinerDies
  BY <1>2, InterruptionKeeps
<1>3. CASE \/ ImportRow \/ ImportEnds \/ ImporterDies \/ Recover
           \/ \E batch \in Batches : Import(batch)
           \/ \E t \in Tickets : Withdraw(t)
  BY <1>3, OthersKeep
<1>4. CASE \E j \in Jobs : StartJob(j)
  BY <1>4, StartKeeps
<1>5. CASE UNCHANGED vars
  BY <1>5, OutsideQuiet, QuietStep DEF vars
<1> QED BY <1>1, <1>2, <1>3, <1>4, <1>5 DEF Next

LEMMA BudgetFollows == BudgetInv => BudgetHolds
BY BudgetAssumption DEF BudgetInv, ProductionTyped, Accounted, BudgetHolds

\* Over all the runs of a job, however often its process is stopped, dies or
\* is started again, no more requests go out than --max-calls allows
\* (runner.ts reserves each call in job.json before it is sent).
THEOREM BudgetIsKept == Spec => []BudgetHolds
<1>1. Spec => []BudgetInv
  BY BudgetInvInit, BudgetInvNext, PTL DEF Spec
<1> QED BY <1>1, BudgetFollows, PTL

-----------------------------------------------------------------------------
(* The catalogue.                                                          *)
(*                                                                         *)
(* Readers follow the manifest without a lock.  The object an entry leads  *)
(* to is whole (ManifestWhole) since the manifest is written last and an   *)
(* object under work has no entry (Writing); a source has no second        *)
(* revision since the list of what is published, read once for a run, is   *)
(* current for every source still ahead of it (ListIsCurrent).             *)

Progress == [attempt : Nat, draft : Drafts \cup {NoDraft}, review : {"none", "supported", "rejected"}]

\* What the file of a job says of its records: one that is accepted has a draft.
FileTyped(file) ==
  /\ DOMAIN file.records = Sources
  /\ file.progress \in [Sources -> Progress]
  /\ file.accepted \in [Sources -> Drafts \cup {NoDraft}]
  /\ \A s \in Sources : file.records[s] = "accepted" => file.accepted[s] \in Drafts

FilesTyped == \A j \in Jobs : FileTyped(jobs[j])

\* What the store's state.json and the file of an import may hold.
ImportTyped ==
  /\ state \in [Tickets -> Sources \cup {NoSource}]
  /\ rows \in Seq(Sources)

Unpublished == {"ask", "wait", "judge", "accept", "publish", "write"}
OnRecord == Unpublished \cup {"mark"}

\* What a run of a job works on.
RunTyped ==
  /\ proc.pc \in {"idle", "open", "next"} \cup OnRecord
  /\ proc.todo \subseteq Sources
  /\ proc.progress \in Progress
  /\ proc.pc \in OnRecord => proc.at \in Sources /\ proc.at \notin proc.todo
  /\ proc.pc = "judge" => proc.progress.draft \in Drafts
  /\ proc.pc \in {"accept", "publish"} => jobs[proc.job].accepted[proc.at] \in Drafts

\* Whatever is published of the sources still to be done was published before
\* the run read the list, and is passed over.
Ahead == proc.todo \cup (IF proc.pc \in Unpublished THEN {proc.at} ELSE {})
ListIsCurrent ==
  /\ proc.pc \in Unpublished => proc.at \notin proc.published
  /\ proc.pc \notin {"idle", "open"} => Ahead \cap Published \subseteq proc.published

\* The manifest and the objects it leads to.
Object == [source : Sources, draft : Drafts, files : SUBSET Files]
StoreTyped ==
  /\ DOMAIN manifest = Tickets
  /\ \A t \in Tickets : DOMAIN manifest[t] = DOMAIN NoEntry /\ manifest[t].revision \in Nat
  /\ objects \in Seq(Object)

ManifestWhole ==
  \A t \in Tickets :
    \/ manifest[t] = NoEntry
    \/ /\ manifest[t].lifecycle \in {"published", "withdrawn"}
       /\ manifest[t].object \in DOMAIN objects
       /\ Whole(t)

\* While an object is written its writer holds the lock and nobody is led to it.
Writing ==
  /\ writer = "refine" <=> proc.pc = "write"
  /\ proc.pc = "write" =>
       /\ proc.object \in DOMAIN objects /\ objects[proc.object].source = proc.at
       /\ manifest[proc.at.ticket].lifecycle # "withdrawn"
       /\ \A t \in Tickets : manifest[t] # NoEntry => manifest[t].object # proc.object

StoreInv == StoreTyped /\ ManifestWhole /\ Writing
RecordsInv == FilesTyped /\ ImportTyped /\ RunTyped /\ ListIsCurrent
CatalogueInv == BudgetInv /\ RecordsInv /\ StoreInv

-----------------------------------------------------------------------------
LEMMA CatalogueInvInit == Init => CatalogueInv
<1> SUFFICES ASSUME Init PROVE CatalogueInv
  OBVIOUS
<1>1. FilesTyped
  BY DEF Init, FilesTyped, FileTyped, NoJob, Fresh, Progress, NoDraft
<1>2. ImportTyped
  BY DEF Init, ImportTyped
<1>3. RunTyped /\ ListIsCurrent
  BY DEF Init, NoProc, RunTyped, ListIsCurrent, Unpublished, OnRecord, Progress, Fresh
<1>4. StoreTyped /\ ManifestWhole
  BY DEF Init, StoreTyped, NoEntry, ManifestWhole, Object
<1>5. Writing
  BY DEF Init, Writing, NoProc
<1> QED BY <1>1, <1>2, <1>3, <1>4, <1>5, BudgetInvInit DEF CatalogueInv, RecordsInv, StoreInv

-----------------------------------------------------------------------------
(* What saving a file of a job does. *)

LEMMA FileMarked ==
  ASSUME NEW file, DOMAIN file = JobFields, FileTyped(file), NEW s \in Sources, NEW status,
         status = "accepted" => file.accepted[s] \in Drafts
  PROVE  /\ FileTyped([file EXCEPT !.records[s] = status])
         /\ [file EXCEPT !.records[s] = status].accepted = file.accepted
BY Fields DEF FileTyped

LEMMA FileAdvanced ==
  ASSUME NEW file, DOMAIN file = JobFields, FileTyped(file), NEW s \in Sources, NEW p \in Progress
  PROVE  FileTyped([file EXCEPT !.progress[s] = p])
BY Fields DEF FileTyped

LEMMA FileAccepted ==
  ASSUME NEW file, DOMAIN file = JobFields, FileTyped(file), NEW s \in Sources, NEW draft \in Drafts
  PROVE  /\ FileTyped([file EXCEPT !.accepted[s] = draft])
         /\ [file EXCEPT !.accepted[s] = draft].accepted[s] = draft
BY Fields DEF FileTyped

LEMMA FileHead ==
  ASSUME NEW file, DOMAIN file = JobFields, FileTyped(file), NEW todo
  PROVE  /\ FileTyped([file EXCEPT !.dir = TRUE])
         /\ FileTyped([file EXCEPT !.file = TRUE, !.sources = todo])
         /\ FileTyped([file EXCEPT !.used = @ + 1])
BY Fields DEF FileTyped

LEMMA FileSaved ==
  ASSUME BudgetInv, FilesTyped, NEW j \in Jobs, NEW value, FileTyped(value), Save(j, value)
  PROVE  FilesTyped' /\ jobs'[j] = value
BY DEF BudgetInv, ProductionTyped, FilesTyped, FileTyped, Save

LEMMA FilesKept == ASSUME FilesTyped, jobs' = jobs PROVE FilesTyped'
BY DEF FilesTyped, FileTyped

-----------------------------------------------------------------------------
(* Steps of the refining process that leave the store alone. *)

LEMMA StoreUntouched ==
  ASSUME StoreInv, UNCHANGED Publishing, proc.pc # "write", proc'.pc # "write"
  PROVE  StoreInv'
BY DEF StoreInv, StoreTyped, ManifestWhole, Whole, Writing, Publishing

LEMMA PublishedKept == ASSUME manifest' = manifest PROVE Published' = Published
BY DEF Published

LEMMA ImportKept == ASSUME ImportTyped, UNCHANGED Outside PROVE ImportTyped'
BY DEF ImportTyped, Outside

\* The process ends.
LEMMA LeaveRecords ==
  ASSUME RecordsInv, Leave \/ proc' = NoProc, FilesTyped', ImportTyped'
  PROVE  RecordsInv' /\ proc'.pc = "idle"
BY DEF Leave, NoProc, RecordsInv, RunTyped, ListIsCurrent, Unpublished, OnRecord, Progress, Fresh

\* The process is done with a record: it goes on to the next.
LEMMA DoneRecords ==
  ASSUME CatalogueInv, BudgetInv', proc.pc \in OnRecord, NEW status, status # "accepted", Done(status),
         ImportTyped', manifest' = manifest
  PROVE  RecordsInv' /\ proc'.pc = "next"
<1> DEFINE value == [JobNow EXCEPT !.records[proc.at] = status]
<1>1. proc.job \in Jobs /\ proc.at \in Sources
  BY DEF CatalogueInv, RecordsInv, RunTyped, OnRecord, Unpublished, BudgetInv, BudgetKnown
<1>2. DOMAIN JobNow = JobFields /\ FileTyped(JobNow)
  BY <1>1 DEF CatalogueInv, RecordsInv, BudgetInv, ProductionTyped, FilesTyped, JobNow
<1>3. FileTyped(value)
  BY <1>1, <1>2, FileMarked
<1>4. FilesTyped'
  BY <1>1, <1>3, FileSaved DEF Done, Mark, CatalogueInv, RecordsInv
<1>5. /\ proc'.pc = "next" /\ proc'.todo = proc.todo /\ proc'.published = proc.published
      /\ proc'.progress = Fresh
  BY Fields DEF Done, CatalogueInv, BudgetInv, ProductionTyped
<1>6. Fresh \in Progress BY DEF Fresh, Progress
<1>7. RunTyped'
  BY <1>5, <1>6 DEF RunTyped, CatalogueInv, RecordsInv, OnRecord, Unpublished
<1>8. ListIsCurrent'
  BY <1>5, PublishedKept DEF ListIsCurrent, Ahead, CatalogueInv, RecordsInv, OnRecord, Unpublished
<1> QED BY <1>4, <1>5, <1>7, <1>8 DEF RecordsInv

\* The process goes on with the record it is at.
LEMMA SameRecord ==
  ASSUME RecordsInv, FilesTyped', ImportTyped', manifest' = manifest,
         proc.pc \in Unpublished, proc'.pc \in {"ask", "wait", "judge", "accept", "publish"},
         proc'.todo = proc.todo, proc'.published = proc.published, proc'.at = proc.at,
         proc'.progress \in Progress,
         proc'.pc = "judge" => proc'.progress.draft \in Drafts,
         proc'.pc \in {"accept", "publish"} => jobs'[proc'.job].accepted[proc'.at] \in Drafts
  PROVE  RecordsInv'
<1>1. RunTyped'
  BY DEF RecordsInv, RunTyped, OnRecord, Unpublished
<1>2. ListIsCurrent'
  BY PublishedKept DEF RecordsInv, ListIsCurrent, Ahead, Unpublished
<1> QED BY <1>1, <1>2 DEF RecordsInv

LEMMA CheckpointRecords ==
  ASSUME CatalogueInv, BudgetInv', proc.pc \in {"wait", "judge"}, NEW p \in Progress, Checkpoint(p),
         ImportTyped', manifest' = manifest
  PROVE  RecordsInv' /\ proc'.pc = "ask"
<1> DEFINE value == [JobNow EXCEPT !.progress[proc.at] = p]
<1>1. proc.job \in Jobs /\ proc.at \in Sources
  BY DEF CatalogueInv, RecordsInv, RunTyped, OnRecord, Unpublished, BudgetInv, BudgetKnown
<1>2. DOMAIN JobNow = JobFields /\ FileTyped(JobNow)
  BY <1>1 DEF CatalogueInv, RecordsInv, BudgetInv, ProductionTyped, FilesTyped, JobNow
<1>3. FileTyped(value)
  BY <1>1, <1>2, FileAdvanced
<1>4. FilesTyped'
  BY <1>1, <1>3, FileSaved DEF Checkpoint, CatalogueInv, RecordsInv
<1>5. /\ proc'.pc = "ask" /\ proc'.todo = proc.todo /\ proc'.published = proc.published
      /\ proc'.at = proc.at /\ proc'.progress = p
  BY Fields DEF Checkpoint, CatalogueInv, BudgetInv, ProductionTyped
<1> QED BY <1>4, <1>5, SameRecord DEF CatalogueInv, RecordsInv, Unpublished

\* Only what the process is about changes.
LEMMA StepRecords ==
  ASSUME CatalogueInv, BudgetInv', NEW stage, Step(stage)
  PROVE  /\ proc'.pc = stage /\ proc'.todo = proc.todo /\ proc'.published = proc.published
         /\ proc'.at = proc.at /\ proc'.progress = proc.progress /\ proc'.job = proc.job
         /\ proc'.object = proc.object
BY Fields DEF Step, CatalogueInv, BudgetInv, ProductionTyped

-----------------------------------------------------------------------------
(* The actions of the refining process. *)

LEMMA StartCatalogue == ASSUME CatalogueInv, BudgetInv', NEW j \in Jobs, StartJob(j) PROVE CatalogueInv'
<1>1. DOMAIN jobs[j] = JobFields /\ FileTyped(jobs[j])
  BY DEF CatalogueInv, RecordsInv, BudgetInv, ProductionTyped, FilesTyped
<1>2. FilesTyped'
  BY <1>1, FileHead, FileSaved DEF StartJob, CatalogueInv, RecordsInv
<1>3. /\ proc'.pc = "open" /\ proc'.todo = Pending /\ proc'.progress = Fresh
  BY Fields DEF StartJob, NoProc
<1>4. Pending \subseteq Sources
  BY DEF CatalogueInv, RecordsInv, ImportTyped, Pending
<1>5. RunTyped'
  BY <1>3, <1>4 DEF RunTyped, OnRecord, Unpublished, Fresh, Progress
<1>6. ListIsCurrent'
  BY <1>3 DEF ListIsCurrent, Unpublished
<1>7. ImportTyped' BY ImportKept DEF StartJob, CatalogueInv, RecordsInv
<1>8. StoreInv' BY <1>3, StoreUntouched DEF StartJob, CatalogueInv
<1> QED BY <1>2, <1>5, <1>6, <1>7, <1>8 DEF CatalogueInv, RecordsInv

LEMMA OpenCatalogue == ASSUME CatalogueInv, BudgetInv', Open PROVE CatalogueInv'
<1>1. proc.job \in Jobs BY DEF Open, CatalogueInv, BudgetInv, BudgetKnown
<1>2. DOMAIN JobNow = JobFields /\ FileTyped(JobNow)
  BY <1>1 DEF CatalogueInv, RecordsInv, BudgetInv, ProductionTyped, FilesTyped, JobNow
<1>3. FilesTyped'
  BY <1>1, <1>2, FileHead, FileSaved DEF Open, CatalogueInv, RecordsInv
<1>4. /\ proc'.pc = "next" /\ proc'.todo = proc.todo /\ proc'.progress = proc.progress
      /\ proc'.published = Published
  BY Fields DEF Open, PublishedSources, CatalogueInv, BudgetInv, ProductionTyped
<1>5. RunTyped'
  BY <1>4 DEF RunTyped, OnRecord, Unpublished, CatalogueInv, RecordsInv
<1>6. ListIsCurrent'
  BY <1>4, PublishedKept DEF ListIsCurrent, Unpublished, Open, Publishing
<1>7. ImportTyped' BY ImportKept DEF Open, CatalogueInv, RecordsInv
<1>8. StoreInv' BY <1>4, StoreUntouched DEF Open, CatalogueInv
<1> QED BY <1>3, <1>5, <1>6, <1>7, <1>8 DEF CatalogueInv, RecordsInv

LEMMA LeastNatural ==
  ASSUME NEW T, T \subseteq Nat, T # {}
  PROVE  \E m \in T : \A n \in T : m <= n
<1>1. \E x \in T : \A y \in T : ~ (<<y, x>> \in OpToRel(<, Nat))
  <2>1. IsWellFoundedOn(OpToRel(<, Nat), Nat) BY NatLessThanWellFounded
  <2> QED BY <2>1, WFMin
<1>2. \A x, y \in T : ~(<<y, x>> \in OpToRel(<, Nat)) => x <= y BY DEF OpToRel
<1> QED BY <1>1, <1>2

LEMMA FirstIn == ASSUME NEW S, S \subseteq Sources, S # {} PROVE First(S) \in S
<1> DEFINE T == {s.rev : s \in S}
<1>1. T \subseteq Nat /\ T # {} BY SourceAssumption
<1> HIDE DEF T
<1>2. PICK m \in T : \A n \in T : m <= n BY <1>1, LeastNatural
<1>3. PICK r \in S : r.rev = m BY DEF T
<1>4. \A q \in S : r.rev <= q.rev BY <1>2, <1>3 DEF T
<1> QED BY <1>4 DEF First

LEMMA NextRecordCatalogue == ASSUME CatalogueInv, BudgetInv', NextRecord PROVE CatalogueInv'
<1>1. proc.pc = "next" /\ proc.job \in Jobs
  BY DEF NextRecord, CatalogueInv, BudgetInv, BudgetKnown
<1>2. UNCHANGED <<Publishing, Outside>> /\ manifest' = manifest
  BY DEF NextRecord, Publishing
<1>3. ImportTyped' BY <1>2, ImportKept DEF CatalogueInv, RecordsInv
<1>4. ASSUME RecordsInv', proc'.pc # "write" PROVE CatalogueInv'
  BY <1>1, <1>2, <1>4, StoreUntouched DEF CatalogueInv
<1>5. CASE Leave /\ UNCHANGED jobs
  BY <1>3, <1>4, <1>5, FilesKept, LeaveRecords DEF CatalogueInv, RecordsInv
<1>6. CASE ~(proc.todo = {} \/ proc.aborted)
  <2> DEFINE s == First(proc.todo)
             status == JobNow.records[s]
  <2>1. s \in proc.todo /\ s \in Sources
    BY <1>6, FirstIn DEF CatalogueInv, RecordsInv, RunTyped
  <2>2. \/ proc' = [proc EXCEPT !.todo = @ \ {s}] /\ UNCHANGED jobs
        \/ /\ Save(proc.job, [JobNow EXCEPT !.records[s] = "published"])
           /\ proc' = [proc EXCEPT !.todo = @ \ {s}]
        \/ /\ s \notin proc.published /\ ~Over(status)
           /\ proc' = [Begin(s) EXCEPT !.pc = IF status = "accepted" THEN "publish" ELSE "ask"]
           /\ UNCHANGED jobs
    BY <1>6 DEF NextRecord
  <2> HIDE DEF s
  <2>3. DOMAIN JobNow = JobFields /\ FileTyped(JobNow)
    BY <1>1 DEF CatalogueInv, RecordsInv, BudgetInv, ProductionTyped, FilesTyped, JobNow
  <2>4. ASSUME FilesTyped', proc' = [proc EXCEPT !.todo = @ \ {s}] PROVE CatalogueInv'
    <3>1. /\ proc'.pc = "next" /\ proc'.todo = proc.todo \ {s} /\ proc'.published = proc.published
          /\ proc'.progress = proc.progress
      BY <1>1, <2>4, Fields DEF CatalogueInv, BudgetInv, ProductionTyped
    <3>2. RunTyped' BY <3>1 DEF CatalogueInv, RecordsInv, RunTyped, OnRecord, Unpublished
    <3>3. ListIsCurrent'
      BY <1>1, <1>2, <3>1, PublishedKept DEF CatalogueInv, RecordsInv, ListIsCurrent, Ahead, Unpublished
    <3> QED BY <1>3, <1>4, <2>4, <3>1, <3>2, <3>3 DEF RecordsInv
  <2>5. CASE proc' = [proc EXCEPT !.todo = @ \ {s}] /\ UNCHANGED jobs
    BY <2>4, <2>5, FilesKept DEF CatalogueInv, RecordsInv
  <2>6. CASE /\ Save(proc.job, [JobNow EXCEPT !.records[s] = "published"])
             /\ proc' = [proc EXCEPT !.todo = @ \ {s}]
    <3>1. FileTyped([JobNow EXCEPT !.records[s] = "published"])
      BY <2>1, <2>3, FileMarked
    <3> QED BY <1>1, <2>4, <2>6, <3>1, FileSaved DEF CatalogueInv, RecordsInv
  <2>7. CASE /\ s \notin proc.published
             /\ proc' = [Begin(s) EXCEPT !.pc = IF status = "accepted" THEN "publish" ELSE "ask"]
             /\ UNCHANGED jobs
    <3>1. DOMAIN Begin(s) = ProcFields /\ Begin(s).job = proc.job /\ Begin(s).todo = proc.todo \ {s}
          /\ Begin(s).at = s /\ Begin(s).published = proc.published
          /\ Begin(s).progress = JobNow.progress[s]
      BY Fields DEF Begin, CatalogueInv, BudgetInv, ProductionTyped
    <3>2. /\ proc'.job = proc.job /\ proc'.todo = proc.todo \ {s} /\ proc'.at = s
          /\ proc'.published = proc.published /\ proc'.progress = JobNow.progress[s]
          /\ proc'.pc = IF status = "accepted" THEN "publish" ELSE "ask"
      BY <2>7, <3>1, Fields
    <3>3. proc'.progress \in Progress BY <2>1, <2>3, <3>2 DEF FileTyped
    <3>4. proc'.pc \in {"ask", "publish"} /\ (proc'.pc = "publish" => JobNow.accepted[s] \in Drafts)
      BY <2>1, <2>3, <3>2 DEF FileTyped
    <3>5. jobs'[proc'.job] = JobNow BY <2>7, <3>2 DEF JobNow
    <3>6. RunTyped'
      BY <2>1, <3>2, <3>3, <3>4, <3>5 DEF CatalogueInv, RecordsInv, RunTyped, OnRecord, Unpublished
    <3>7. ListIsCurrent'
      BY <1>1, <1>2, <2>1, <2>7, <3>2, <3>4, PublishedKept
      DEF CatalogueInv, RecordsInv, ListIsCurrent, Ahead, Unpublished
    <3>8. FilesTyped' BY <2>7, FilesKept DEF CatalogueInv, RecordsInv
    <3> QED BY <1>3, <1>4, <3>4, <3>6, <3>7, <3>8 DEF RecordsInv
  <2> QED BY <2>2, <2>5, <2>6, <2>7
<1> QED BY <1>5, <1>6 DEF NextRecord

LEMMA AskCatalogue == ASSUME CatalogueInv, BudgetInv', Ask PROVE CatalogueInv'
<1>1. proc.pc = "ask" /\ proc.job \in Jobs
  BY DEF Ask, CatalogueInv, BudgetInv, BudgetKnown
<1>2. UNCHANGED <<Publishing, Outside>> /\ manifest' = manifest
  BY DEF Ask, Publishing
<1>3. ImportTyped' BY <1>2, ImportKept DEF CatalogueInv, RecordsInv
<1>4. ASSUME RecordsInv', proc'.pc # "write" PROVE CatalogueInv'
  BY <1>1, <1>2, <1>4, StoreUntouched DEF CatalogueInv
<1>5. CASE Done("dropped")
  BY <1>1, <1>2, <1>3, <1>4, <1>5, DoneRecords DEF OnRecord, Unpublished
<1>6. CASE Complete /\ Step("judge") /\ UNCHANGED jobs
  <2>1. /\ proc'.pc = "judge" /\ proc'.todo = proc.todo /\ proc'.published = proc.published
        /\ proc'.at = proc.at /\ proc'.progress = proc.progress
    BY <1>6, StepRecords
  <2>2. proc.progress \in Progress BY DEF CatalogueInv, RecordsInv, RunTyped
  <2>3. proc.progress.draft \in Drafts BY <1>6, <2>2 DEF Complete, Progress
  <2>4. FilesTyped' BY <1>6, FilesKept DEF CatalogueInv, RecordsInv
  <2> QED BY <1>1, <1>2, <1>3, <1>4, <2>1, <2>2, <2>3, <2>4, SameRecord DEF CatalogueInv, Unpublished
<1>7. CASE Leave /\ UNCHANGED jobs
  BY <1>3, <1>4, <1>7, FilesKept, LeaveRecords DEF CatalogueInv, RecordsInv
<1>8. CASE Reserve /\ proc' = [proc EXCEPT !.pc = "wait", !.budget = @ - 1]
  <2>1. /\ proc'.pc = "wait" /\ proc'.todo = proc.todo /\ proc'.published = proc.published
        /\ proc'.at = proc.at /\ proc'.progress = proc.progress
    BY <1>8, Fields DEF CatalogueInv, BudgetInv, ProductionTyped
  <2>2. DOMAIN JobNow = JobFields /\ FileTyped(JobNow)
    BY <1>1 DEF CatalogueInv, RecordsInv, BudgetInv, ProductionTyped, FilesTyped, JobNow
  <2>3. FilesTyped'
    BY <1>1, <1>8, <2>2, FileHead, FileSaved DEF Reserve, CatalogueInv, RecordsInv
  <2>4. proc.progress \in Progress BY DEF CatalogueInv, RecordsInv, RunTyped
  <2> QED BY <1>1, <1>2, <1>3, <1>4, <2>1, <2>3, <2>4, SameRecord DEF CatalogueInv, Unpublished
<1> QED BY <1>5, <1>6, <1>7, <1>8 DEF Ask

LEMMA AdvanceRecords ==
  ASSUME CatalogueInv, BudgetInv', proc.pc \in {"wait", "judge"}, Advance, ImportTyped', manifest' = manifest
  PROVE  RecordsInv' /\ proc'.pc = "ask"
<1>1. [Fresh EXCEPT !.attempt = proc.progress.attempt + 1] \in Progress
  BY DEF CatalogueInv, RecordsInv, RunTyped, Progress, Fresh
<1> QED BY <1>1, CheckpointRecords DEF Advance

LEMMA ReplyCatalogue ==
  ASSUME CatalogueInv, BudgetInv', NEW answer, answer \in Answers, Reply(answer) PROVE CatalogueInv'
<1>1. proc.pc = "wait" /\ proc.job \in Jobs
  BY DEF Reply, CatalogueInv, BudgetInv, BudgetKnown
<1>2. UNCHANGED <<Publishing, Outside>> /\ manifest' = manifest
  BY DEF Reply, Publishing
<1>3. ImportTyped' BY <1>2, ImportKept DEF CatalogueInv, RecordsInv
<1>4. ASSUME RecordsInv', proc'.pc # "write" PROVE CatalogueInv'
  BY <1>1, <1>2, <1>4, StoreUntouched DEF CatalogueInv
<1>5. CASE Leave /\ UNCHANGED jobs
  BY <1>3, <1>4, <1>5, FilesKept, LeaveRecords DEF CatalogueInv, RecordsInv
<1>6. ASSUME proc' = [proc EXCEPT !.pc = "ask", !.tries = @ + 1], UNCHANGED jobs PROVE CatalogueInv'
  <2>1. /\ proc'.pc = "ask" /\ proc'.todo = proc.todo /\ proc'.published = proc.published
        /\ proc'.at = proc.at /\ proc'.progress = proc.progress
    BY <1>6, Fields DEF CatalogueInv, BudgetInv, ProductionTyped
  <2>2. FilesTyped' BY <1>6, FilesKept DEF CatalogueInv, RecordsInv
  <2>3. proc.progress \in Progress BY DEF CatalogueInv, RecordsInv, RunTyped
  <2> QED BY <1>1, <1>2, <1>3, <1>4, <2>1, <2>2, <2>3, SameRecord DEF CatalogueInv, Unpublished
<1>7. ASSUME Done("dropped") PROVE CatalogueInv'
  BY <1>1, <1>2, <1>3, <1>4, <1>7, DoneRecords DEF OnRecord, Unpublished
<1>8. ASSUME NEW p \in Progress, Checkpoint(p) PROVE CatalogueInv'
  BY <1>1, <1>2, <1>3, <1>4, <1>8, CheckpointRecords
<1>9. ASSUME Advance PROVE CatalogueInv'
  BY <1>1, <1>2, <1>3, <1>4, <1>9, AdvanceRecords
<1>10. proc.progress \in Progress BY DEF CatalogueInv, RecordsInv, RunTyped
<1>11. CASE Answered(answer)
  <2>1. CASE answer \in Drafts
    <3>1. /\ answer # "busy" /\ answer \notin {"error", "sensitive"} /\ answer # "invalid"
          /\ answer \notin {"supported", "rejected"}
      BY <2>1, DraftAssumption
    <3>2. Checkpoint([proc.progress EXCEPT !.draft = answer]) BY <1>11, <2>1, <3>1, Zenon DEF Answered
    <3>3. [proc.progress EXCEPT !.draft = answer] \in Progress BY <1>10, <2>1 DEF Progress
    <3> QED BY <1>8, <3>2, <3>3
  <2>2. CASE answer \in {"supported", "rejected"}
    <3>1. answer \notin Drafts \cup {"busy", "error", "sensitive", "invalid"} BY <2>2, DraftAssumption
    <3>2. Checkpoint([proc.progress EXCEPT !.review = answer]) BY <1>11, <2>2, <3>1 DEF Answered
    <3>3. [proc.progress EXCEPT !.review = answer] \in Progress BY <1>10, <2>2 DEF Progress
    <3> QED BY <1>8, <3>2, <3>3
  <2>3. CASE answer \in {"busy", "error", "sensitive", "invalid"}
    <3>1. answer \notin Drafts BY <2>3, DraftAssumption
    <3> QED BY <1>6, <1>7, <1>9, <1>11, <2>3, <3>1 DEF Answered
  <2> QED BY <2>1, <2>2, <2>3 DEF Answers
<1> QED BY <1>5, <1>11 DEF Reply

LEMMA JudgeCatalogue == ASSUME CatalogueInv, BudgetInv', Judge PROVE CatalogueInv'
<1>1. proc.pc = "judge" /\ proc.job \in Jobs
  BY DEF Judge, CatalogueInv, BudgetInv, BudgetKnown
<1>2. UNCHANGED <<Publishing, Outside>> /\ manifest' = manifest
  BY DEF Judge, Publishing
<1>3. ImportTyped' BY <1>2, ImportKept DEF CatalogueInv, RecordsInv
<1>4. ASSUME RecordsInv', proc'.pc # "write" PROVE CatalogueInv'
  BY <1>1, <1>2, <1>4, StoreUntouched DEF CatalogueInv
<1>5. CASE Leave /\ UNCHANGED jobs
  BY <1>3, <1>4, <1>5, FilesKept, LeaveRecords DEF CatalogueInv, RecordsInv
<1>6. CASE /\ Save(proc.job, [JobNow EXCEPT !.accepted[proc.at] = proc.progress.draft])
           /\ Step("accept")
  <2>1. /\ proc'.pc = "accept" /\ proc'.todo = proc.todo /\ proc'.published = proc.published
        /\ proc'.at = proc.at /\ proc'.progress = proc.progress /\ proc'.job = proc.job
    BY <1>6, StepRecords
  <2>2. /\ proc.progress \in Progress /\ proc.progress.draft \in Drafts /\ proc.at \in Sources
    BY <1>1 DEF CatalogueInv, RecordsInv, RunTyped, OnRecord, Unpublished
  <2>3. DOMAIN JobNow = JobFields /\ FileTyped(JobNow)
    BY <1>1 DEF CatalogueInv, RecordsInv, BudgetInv, ProductionTyped, FilesTyped, JobNow
  <2> DEFINE value == [JobNow EXCEPT !.accepted[proc.at] = proc.progress.draft]
  <2>4. FileTyped(value) /\ value.accepted[proc.at] = proc.progress.draft
    BY <2>2, <2>3, FileAccepted
  <2>6. Save(proc.job, value) BY <1>6
  <2> HIDE DEF value
  <2>5. FilesTyped' /\ jobs'[proc.job].accepted[proc.at] \in Drafts
    BY <1>1, <2>2, <2>4, <2>6, FileSaved DEF CatalogueInv, RecordsInv
  <2> QED BY <1>1, <1>2, <1>3, <1>4, <2>1, <2>2, <2>5, SameRecord DEF CatalogueInv, Unpublished
<1>7. CASE Advance
  BY <1>1, <1>2, <1>3, <1>4, <1>7, AdvanceRecords
<1> QED BY <1>5, <1>6, <1>7 DEF Judge

LEMMA AcceptCatalogue == ASSUME CatalogueInv, BudgetInv', Accept PROVE CatalogueInv'
<1>1. proc.pc = "accept" /\ proc.job \in Jobs /\ proc.at \in Sources /\ proc.progress \in Progress
      /\ JobNow.accepted[proc.at] \in Drafts
  BY DEF Accept, CatalogueInv, BudgetInv, BudgetKnown, RecordsInv, RunTyped, OnRecord, Unpublished, JobNow
<1>2. UNCHANGED <<Publishing, Outside>> /\ manifest' = manifest
  BY DEF Accept, Publishing
<1>3. ImportTyped' BY <1>2, ImportKept DEF CatalogueInv, RecordsInv
<1>4. ASSUME RecordsInv', proc'.pc # "write" PROVE CatalogueInv'
  BY <1>1, <1>2, <1>4, StoreUntouched DEF CatalogueInv
<1> DEFINE value == [JobNow EXCEPT !.records[proc.at] = "accepted"]
<1>5. DOMAIN JobNow = JobFields /\ FileTyped(JobNow)
  BY <1>1 DEF CatalogueInv, RecordsInv, BudgetInv, ProductionTyped, FilesTyped, JobNow
<1>6. FileTyped(value) /\ value.accepted = JobNow.accepted
  BY <1>1, <1>5, FileMarked
<1>7. Save(proc.job, value) BY DEF Accept, Mark
<1> HIDE DEF value
<1>8. FilesTyped' /\ jobs'[proc.job].accepted[proc.at] \in Drafts
  BY <1>1, <1>6, <1>7, FileSaved DEF CatalogueInv, RecordsInv
<1>9. CASE Leave
  BY <1>3, <1>4, <1>8, <1>9, LeaveRecords DEF CatalogueInv
<1>10. CASE Step("publish")
  <2>1. /\ proc'.pc = "publish" /\ proc'.todo = proc.todo /\ proc'.published = proc.published
        /\ proc'.at = proc.at /\ proc'.progress = proc.progress /\ proc'.job = proc.job
    BY <1>10, StepRecords
  <2> QED BY <1>1, <1>2, <1>3, <1>4, <1>8, <2>1, SameRecord DEF CatalogueInv, Unpublished
<1> QED BY <1>9, <1>10 DEF Accept

LEMMA AfterNextFile == ASSUME NEW written \in SUBSET Files PROVE written \cup {NextFile(written)} \in SUBSET Files
<1>1. CASE "experience.md" \notin written
  <2>1. NextFile(written) = "experience.md" BY <1>1, Zenon DEF NextFile
  <2> QED BY <2>1 DEF Files
<1>2. CASE "experience.md" \in written /\ "claims.json" \notin written
  <2>1. NextFile(written) = "claims.json" BY <1>2, Zenon DEF NextFile
  <2> QED BY <2>1 DEF Files
<1>3. CASE "experience.md" \in written /\ "claims.json" \in written
  <2>1. NextFile(written) = "review.json" BY <1>3, Zenon DEF NextFile
  <2> QED BY <2>1 DEF Files
<1> QED BY <1>1, <1>2, <1>3

\* The object is new: no entry leads to it.
LEMMA PublishNew ==
  ASSUME CatalogueInv, BudgetInv', proc.pc = "publish", ~Refused, UNCHANGED <<jobs, manifest>>, ImportTyped',
         writer' = "refine",
         objects' = Append(objects, [source |-> proc.at, draft |-> JobNow.accepted[proc.at], files |-> {}]),
         proc' = [proc EXCEPT !.pc = "write", !.object = Len(objects) + 1]
  PROVE  CatalogueInv'
<1> DEFINE new == [source |-> proc.at, draft |-> JobNow.accepted[proc.at], files |-> {}]
<1>1. proc.at \in Sources /\ JobNow.accepted[proc.at] \in Drafts /\ proc.progress \in Progress
  BY DEF CatalogueInv, RecordsInv, RunTyped, OnRecord, Unpublished, JobNow
<1>2. new \in Object BY <1>1 DEF Object
<1>3. objects \in Seq(Object) /\ objects' = Append(objects, new)
  BY DEF CatalogueInv, StoreInv, StoreTyped
<1> HIDE DEF new
<1>4. /\ objects' \in Seq(Object) /\ Len(objects') = Len(objects) + 1 /\ Len(objects) \in Nat
      /\ DOMAIN objects = 1 .. Len(objects) /\ DOMAIN objects' = 1 .. Len(objects) + 1
      /\ \A i \in 1 .. Len(objects) : objects'[i] = objects[i]
      /\ objects'[Len(objects) + 1] = new
  BY <1>2, <1>3
<1>5. /\ proc'.pc = "write" /\ proc'.todo = proc.todo /\ proc'.published = proc.published
      /\ proc'.at = proc.at /\ proc'.progress = proc.progress /\ proc'.object = Len(objects) + 1
  BY Fields DEF CatalogueInv, BudgetInv, ProductionTyped
<1>6. StoreTyped' BY <1>4 DEF CatalogueInv, StoreInv, StoreTyped
<1>7. ManifestWhole'
  BY <1>4 DEF CatalogueInv, StoreInv, ManifestWhole, Whole
<1>8. Writing'
  <2>1. \A t \in Tickets : manifest[t] # NoEntry => manifest[t].object \in 1 .. Len(objects)
    BY <1>4 DEF CatalogueInv, StoreInv, ManifestWhole
  <2>2. new.source = proc.at BY DEF new
  <2>3. manifest[proc.at.ticket].lifecycle # "withdrawn" BY DEF Refused, Entry
  <2> QED BY <1>4, <1>5, <2>1, <2>2, <2>3 DEF Writing
<1>9. FilesTyped' BY FilesKept DEF CatalogueInv, RecordsInv
<1>10. RunTyped'
  BY <1>1, <1>5 DEF CatalogueInv, RecordsInv, RunTyped, OnRecord, Unpublished
<1>11. ListIsCurrent'
  BY <1>5, PublishedKept DEF CatalogueInv, RecordsInv, ListIsCurrent, Ahead, Unpublished
<1> QED BY <1>6, <1>7, <1>8, <1>9, <1>10, <1>11 DEF CatalogueInv, RecordsInv, StoreInv

\* A source that is published is no longer ahead of the run.
LEMMA ToMark ==
  ASSUME CatalogueInv, BudgetInv', proc.pc \in Unpublished, Step("mark"), UNCHANGED <<jobs, Outside>>,
         Published' \subseteq Published \cup {proc.at}
  PROVE  RecordsInv' /\ proc'.pc = "mark"
<1>1. /\ proc'.pc = "mark" /\ proc'.todo = proc.todo /\ proc'.published = proc.published
      /\ proc'.at = proc.at /\ proc'.progress = proc.progress
  BY StepRecords
<1>2. FilesTyped' /\ ImportTyped' BY FilesKept, ImportKept DEF CatalogueInv, RecordsInv
<1>3. RunTyped'
  BY <1>1 DEF CatalogueInv, RecordsInv, RunTyped, OnRecord, Unpublished
<1>4. ListIsCurrent'
  BY <1>1 DEF CatalogueInv, RecordsInv, RunTyped, OnRecord, ListIsCurrent, Ahead, Unpublished
<1> QED BY <1>1, <1>2, <1>3, <1>4 DEF RecordsInv

LEMMA PublishCatalogue == ASSUME CatalogueInv, BudgetInv', Publish PROVE CatalogueInv'
<1>1. proc.pc = "publish" BY DEF Publish
<1>2. UNCHANGED Outside /\ ImportTyped' BY ImportKept DEF Publish, CatalogueInv, RecordsInv
<1>3. CASE Leave /\ UNCHANGED <<jobs, Publishing>>
  <2>1. RecordsInv' /\ proc'.pc = "idle"
    BY <1>2, <1>3, FilesKept, LeaveRecords DEF CatalogueInv, RecordsInv
  <2> QED BY <1>1, <1>3, <2>1, StoreUntouched DEF CatalogueInv
<1>4. CASE Step("mark") /\ UNCHANGED <<jobs, Publishing>>
  <2>1. RecordsInv' /\ proc'.pc = "mark"
    BY <1>1, <1>2, <1>4, PublishedKept, ToMark DEF Publishing, Unpublished
  <2> QED BY <1>1, <1>4, <2>1, StoreUntouched DEF CatalogueInv
<1>5. CASE ~Refused /\ ~(Leave /\ UNCHANGED <<jobs, Publishing>>) /\ ~(Step("mark") /\ UNCHANGED <<jobs, Publishing>>)
  <2>1. /\ writer' = "refine"
        /\ objects' = Append(objects, [source |-> proc.at, draft |-> JobNow.accepted[proc.at], files |-> {}])
        /\ proc' = [proc EXCEPT !.pc = "write", !.object = Len(objects) + 1]
        /\ UNCHANGED <<jobs, runner, manifest>>
    BY <1>5, Zenon DEF Publish
  <2> QED BY <1>1, <1>2, <1>5, <2>1, PublishNew
<1>6. CASE Refused
  BY <1>3, <1>6, Zenon DEF Publish
<1> QED BY <1>3, <1>4, <1>5, <1>6

LEMMA WriteFileCatalogue == ASSUME CatalogueInv, BudgetInv', WriteFile PROVE CatalogueInv'
<1> DEFINE at == proc.object
           files == objects[at].files \cup {NextFile(objects[at].files)}
<1>1. proc.pc = "write" /\ at \in DOMAIN objects /\ objects[at].source = proc.at
  BY DEF WriteFile, CatalogueInv, StoreInv, Writing
<1>2. objects \in Seq(Object) /\ objects[at] \in Object
  BY <1>1 DEF CatalogueInv, StoreInv, StoreTyped
<1>3. files \in SUBSET Files BY <1>2, AfterNextFile DEF Object
<1>4. objects' = [objects EXCEPT ![at] = [objects[at] EXCEPT !.files = files]] BY DEF WriteFile
<1> HIDE DEF files
<1> DEFINE new == [objects[at] EXCEPT !.files = files]
<1>5. new \in Object /\ new.source = proc.at
  BY <1>1, <1>2, <1>3 DEF Object
<1>12. objects' = [objects EXCEPT ![at] = new] BY <1>4
<1> HIDE DEF new
<1>6. /\ objects' \in Seq(Object) /\ DOMAIN objects' = DOMAIN objects
      /\ \A i \in DOMAIN objects \ {at} : objects'[i] = objects[i]
      /\ objects'[at].source = proc.at
  BY <1>1, <1>2, <1>5, <1>12
<1>7. UNCHANGED <<manifest, jobs, proc, writer, Outside>> BY DEF WriteFile
<1>8. StoreTyped' BY <1>6, <1>7 DEF CatalogueInv, StoreInv, StoreTyped
<1>9. ManifestWhole'
  <2> SUFFICES ASSUME NEW t \in Tickets, manifest[t] # NoEntry
               PROVE  /\ manifest'[t].lifecycle \in {"published", "withdrawn"}
                      /\ manifest'[t].object \in DOMAIN objects' /\ Whole(t)'
    BY <1>7 DEF ManifestWhole
  <2>1. manifest[t].object # at BY <1>1 DEF CatalogueInv, StoreInv, Writing
  <2>2. /\ manifest[t].lifecycle \in {"published", "withdrawn"}
        /\ manifest[t].object \in DOMAIN objects /\ Whole(t)
    BY DEF CatalogueInv, StoreInv, ManifestWhole
  <2> QED BY <1>6, <1>7, <2>1, <2>2 DEF Whole
<1>10. Writing' BY <1>1, <1>6, <1>7 DEF CatalogueInv, StoreInv, Writing
<1>11. RecordsInv'
  <2>1. FilesTyped' /\ ImportTyped' BY <1>7, FilesKept, ImportKept DEF CatalogueInv, RecordsInv
  <2>2. RunTyped' BY <1>7 DEF CatalogueInv, RecordsInv, RunTyped
  <2>3. ListIsCurrent' BY <1>7, PublishedKept DEF CatalogueInv, RecordsInv, ListIsCurrent, Ahead
  <2> QED BY <2>1, <2>2, <2>3 DEF RecordsInv
<1> QED BY <1>8, <1>9, <1>10, <1>11 DEF CatalogueInv, StoreInv

\* What the commit writes, and that it is new.
LEMMA CommitEffect ==
  ASSUME CatalogueInv, Commit
  PROVE  LET t == proc.at.ticket
             entry == [source |-> proc.at, revision |-> manifest[t].revision + 1,
                       lifecycle |-> "published", object |-> proc.object]
         IN /\ t \in Tickets /\ proc.at \in Sources
            /\ manifest' = [manifest EXCEPT ![t] = entry]
            /\ manifest[t].lifecycle # "withdrawn" /\ manifest[t].source # proc.at
            /\ manifest[t].revision \in Nat
<1>1. /\ proc.pc = "write" /\ proc.at \in Sources
      /\ manifest[proc.at.ticket].lifecycle # "withdrawn"
  BY DEF Commit, CatalogueInv, RecordsInv, RunTyped, OnRecord, Unpublished, StoreInv, Writing
<1>2. proc.at.ticket \in Tickets /\ proc.at # NoSource BY <1>1, SourceAssumption
<1>3. proc.at \notin Published
  BY <1>1 DEF CatalogueInv, RecordsInv, ListIsCurrent, Ahead, Unpublished
<1>4. manifest[proc.at.ticket].source # proc.at
  <2>1. CASE manifest[proc.at.ticket] = NoEntry BY <1>2, <2>1 DEF NoEntry
  <2>2. CASE manifest[proc.at.ticket].lifecycle = "published"
    BY <1>2, <1>3, <2>2 DEF Published
  <2> QED BY <1>1, <1>2, <2>1, <2>2 DEF CatalogueInv, StoreInv, ManifestWhole
<1>5. manifest[proc.at.ticket].revision \in Nat
  BY <1>2 DEF CatalogueInv, StoreInv, StoreTyped
<1> QED BY <1>1, <1>2, <1>4, <1>5 DEF Commit

LEMMA CommitCatalogue == ASSUME CatalogueInv, BudgetInv', Commit PROVE CatalogueInv'
<1> DEFINE t == proc.at.ticket
           entry == [source |-> proc.at, revision |-> manifest[t].revision + 1,
                     lifecycle |-> "published", object |-> proc.object]
<1>1. /\ t \in Tickets /\ proc.at \in Sources /\ manifest' = [manifest EXCEPT ![t] = entry]
      /\ manifest[t].revision \in Nat
  BY CommitEffect
<1>2. /\ proc.pc = "write" /\ proc.object \in DOMAIN objects /\ objects[proc.object].source = proc.at
      /\ objects[proc.object].files = Files
  BY DEF Commit, Written, CatalogueInv, StoreInv, Writing
<1>3. objects[proc.object].draft \in Drafts
  <2>1. objects \in Seq(Object) BY DEF CatalogueInv, StoreInv, StoreTyped
  <2>2. objects[proc.object] \in Object BY <1>2, <2>1
  <2> QED BY <2>2 DEF Object
<1>4. /\ DOMAIN entry = DOMAIN NoEntry /\ entry.revision \in Nat /\ entry.lifecycle = "published"
      /\ entry.object = proc.object /\ entry.source = proc.at
  BY <1>1 DEF NoEntry
<1> HIDE DEF entry
<1>5. /\ DOMAIN manifest' = Tickets /\ manifest'[t] = entry
      /\ \A u \in Tickets \ {t} : manifest'[u] = manifest[u]
  BY <1>1 DEF CatalogueInv, StoreInv, StoreTyped
<1>6. UNCHANGED <<jobs, objects, Outside>> /\ writer' = "free" /\ Step("mark") BY DEF Commit
<1>7. Published' \subseteq Published \cup {proc.at}
  BY <1>1, <1>4, <1>5 DEF Published
<1>8. RecordsInv' /\ proc'.pc = "mark"
  BY <1>2, <1>6, <1>7, ToMark DEF Unpublished
<1>9. StoreTyped' BY <1>4, <1>5, <1>6 DEF CatalogueInv, StoreInv, StoreTyped
<1>10. ManifestWhole'
  BY <1>2, <1>3, <1>4, <1>5, <1>6 DEF CatalogueInv, StoreInv, ManifestWhole, Whole
<1>11. Writing' BY <1>6, <1>8 DEF Writing
<1> QED BY <1>8, <1>9, <1>10, <1>11 DEF CatalogueInv, StoreInv

LEMMA MarkPublishedCatalogue == ASSUME CatalogueInv, BudgetInv', MarkPublished PROVE CatalogueInv'
<1>1. proc.pc = "mark" /\ UNCHANGED <<Publishing, Outside>> /\ manifest' = manifest /\ Done("published")
  BY DEF MarkPublished, Publishing
<1>2. RecordsInv' /\ proc'.pc = "next"
  BY <1>1, ImportKept, DoneRecords DEF OnRecord, CatalogueInv, RecordsInv
<1> QED BY <1>1, <1>2, StoreUntouched DEF CatalogueInv

-----------------------------------------------------------------------------
(* Importer, withdrawal, stops and deaths. *)

LEMMA RecordsBeside ==
  ASSUME RecordsInv, ImportTyped', UNCHANGED <<jobs, proc>>, Published' \subseteq Published
  PROVE  RecordsInv'
BY FilesKept DEF RecordsInv, RunTyped, ListIsCurrent, Ahead

LEMMA ImportCatalogue ==
  ASSUME CatalogueInv, BudgetInv',
         ImportRow \/ ImportEnds \/ ImporterDies \/ \E batch \in Batches : Import(batch)
  PROVE  CatalogueInv'
<1>1. UNCHANGED <<jobs, proc, manifest, objects>> /\ writer # "refine" /\ writer' # "refine"
  BY DEF ImportRow, ImportEnds, ImporterDies, Import, store, Refining
<1>2. ImportTyped'
  <2>1. state \in [Tickets -> Sources \cup {NoSource}] /\ rows \in Seq(Sources)
    BY DEF CatalogueInv, RecordsInv, ImportTyped
  <2>2. CASE ImportRow
    <3>1. Head(rows) \in Sources /\ Head(rows).ticket \in Tickets /\ Tail(rows) \in Seq(Sources)
      BY <2>1, <2>2, SourceAssumption DEF ImportRow
    <3> QED BY <2>1, <2>2, <3>1 DEF ImportRow, ImportTyped
  <2>3. CASE ImportEnds \/ ImporterDies
    <3>1. state' = state /\ rows' = <<>> BY <2>3 DEF ImportEnds, ImporterDies, store
    <3> QED BY <2>1, <3>1 DEF ImportTyped
  <2>4. ASSUME NEW batch \in Batches, Import(batch) PROVE ImportTyped'
    BY <2>1, <2>4, SourceAssumption DEF Import, store, ImportTyped
  <2> QED BY <2>2, <2>3, <2>4
<1>3. RecordsInv' BY <1>1, <1>2, PublishedKept, RecordsBeside DEF CatalogueInv
<1>4. StoreInv'
  BY <1>1 DEF CatalogueInv, StoreInv, StoreTyped, ManifestWhole, Whole, Writing
<1> QED BY <1>3, <1>4 DEF CatalogueInv

LEMMA WithdrawCatalogue ==
  ASSUME CatalogueInv, BudgetInv', NEW t \in Tickets, Withdraw(t)
  PROVE  CatalogueInv'
<1> DEFINE entry == [manifest[t] EXCEPT !.lifecycle = "withdrawn"]
<1>1. /\ UNCHANGED <<writer, state, rows, objects, jobs, proc>> /\ writer = "free"
      /\ manifest' = [manifest EXCEPT ![t] = entry]
  BY DEF Withdraw, Refining
<1>2. DOMAIN manifest[t] = DOMAIN NoEntry /\ manifest[t].revision \in Nat /\ DOMAIN manifest = Tickets
  BY DEF CatalogueInv, StoreInv, StoreTyped
<1>3. /\ DOMAIN entry = DOMAIN NoEntry /\ entry.revision = manifest[t].revision
      /\ entry.lifecycle = "withdrawn" /\ entry.source = manifest[t].source
      /\ entry.object = manifest[t].object
  BY <1>2 DEF NoEntry
<1> HIDE DEF entry
<1>4. /\ DOMAIN manifest' = Tickets /\ manifest'[t] = entry
      /\ \A u \in Tickets \ {t} : manifest'[u] = manifest[u]
  BY <1>1, <1>2
<1>5. manifest[t] # NoEntry BY DEF Withdraw, NoEntry
<1>6. Published' \subseteq Published BY <1>3, <1>4 DEF Published
<1>7. ImportTyped' BY <1>1 DEF CatalogueInv, RecordsInv, ImportTyped
<1>8. RecordsInv' BY <1>1, <1>6, <1>7, RecordsBeside DEF CatalogueInv
<1>9. StoreTyped' BY <1>1, <1>2, <1>3, <1>4 DEF CatalogueInv, StoreInv, StoreTyped
<1>10. ManifestWhole'
  BY <1>1, <1>3, <1>4, <1>5 DEF CatalogueInv, StoreInv, ManifestWhole, Whole
<1>11. Writing' BY <1>1 DEF CatalogueInv, StoreInv, Writing
<1> QED BY <1>8, <1>9, <1>10, <1>11 DEF CatalogueInv, StoreInv

LEMMA StopCatalogue ==
  ASSUME CatalogueInv, BudgetInv', Abort \/ RefinerDies \/ Recover
  PROVE  CatalogueInv'
<1>1. UNCHANGED <<state, rows, jobs, manifest, objects>>
  BY DEF Abort, RefinerDies, Recover, store
<1>2. ImportTyped' BY <1>1 DEF CatalogueInv, RecordsInv, ImportTyped
<1>3. StoreTyped' /\ ManifestWhole'
  BY <1>1 DEF CatalogueInv, StoreInv, StoreTyped, ManifestWhole, Whole
<1>4. CASE Abort
  <2>1. /\ proc'.pc = proc.pc /\ proc'.todo = proc.todo /\ proc'.at = proc.at /\ proc'.job = proc.job
        /\ proc'.published = proc.published /\ proc'.progress = proc.progress
        /\ proc'.object = proc.object /\ writer' = writer
    BY <1>4, Fields DEF Abort, CatalogueInv, BudgetInv, ProductionTyped
  <2>2. FilesTyped' BY <1>1, FilesKept DEF CatalogueInv, RecordsInv
  <2>3. RunTyped' BY <1>1, <2>1 DEF CatalogueInv, RecordsInv, RunTyped
  <2>4. ListIsCurrent' BY <1>1, <2>1, PublishedKept DEF CatalogueInv, RecordsInv, ListIsCurrent, Ahead
  <2>5. Writing' BY <1>1, <2>1 DEF CatalogueInv, StoreInv, Writing
  <2> QED BY <1>2, <1>3, <2>2, <2>3, <2>4, <2>5 DEF CatalogueInv, RecordsInv, StoreInv
<1>5. CASE RefinerDies
  <2>1. RecordsInv' /\ proc'.pc = "idle"
    BY <1>1, <1>2, <1>5, FilesKept, LeaveRecords DEF RefinerDies, CatalogueInv, RecordsInv
  <2>2. Writing' BY <1>5, <2>1 DEF RefinerDies, Writing
  <2> QED BY <1>3, <2>1, <2>2 DEF CatalogueInv, StoreInv
<1>6. CASE Recover
  <2>1. RecordsInv' BY <1>1, <1>2, <1>6, PublishedKept, RecordsBeside DEF Recover, CatalogueInv
  <2>2. Writing' BY <1>1, <1>6 DEF Recover, CatalogueInv, StoreInv, Writing
  <2> QED BY <1>3, <2>1, <2>2 DEF CatalogueInv, StoreInv
<1> QED BY <1>4, <1>5, <1>6

LEMMA CatalogueInvNext == CatalogueInv /\ [Next]_vars => CatalogueInv'
<1> SUFFICES ASSUME CatalogueInv, [Next]_vars PROVE CatalogueInv'
  OBVIOUS
<1>1. BudgetInv' BY BudgetInvNext DEF CatalogueInv
<1>2. CASE RefinerStep
  BY <1>1, <1>2, OpenCatalogue, NextRecordCatalogue, AskCatalogue, ReplyCatalogue, JudgeCatalogue,
     AcceptCatalogue, PublishCatalogue, WriteFileCatalogue, CommitCatalogue, MarkPublishedCatalogue
  DEF RefinerStep
<1>3. CASE ImportRow \/ ImportEnds \/ ImporterDies \/ \E batch \in Batches : Import(batch)
  BY <1>1, <1>3, ImportCatalogue
<1>4. CASE Abort \/ RefinerDies \/ Recover
  BY <1>1, <1>4, StopCatalogue
<1>5. CASE \E t \in Tickets : Withdraw(t)
  BY <1>1, <1>5, WithdrawCatalogue
<1>6. CASE \E j \in Jobs : StartJob(j)
  BY <1>1, <1>6, StartCatalogue
<1>7. CASE UNCHANGED vars
  BY <1>1, <1>7, PublishedKept, RecordsBeside
  DEF vars, CatalogueInv, RecordsInv, ImportTyped, StoreInv, StoreTyped, ManifestWhole, Whole, Writing
<1> QED BY <1>2, <1>3, <1>4, <1>5, <1>6, <1>7 DEF Next

-----------------------------------------------------------------------------
(* The refinement. *)

\* Every entry leads to a whole object, so that readers see it as it is.
Plain == [t \in Tickets |-> [source |-> manifest[t].source,
            revision |-> manifest[t].revision, lifecycle |-> manifest[t].lifecycle]]

LEMMA CatalogueIs == CatalogueInv => catalogue = Plain
<1> SUFFICES ASSUME CatalogueInv PROVE catalogue = Plain
  OBVIOUS
<1>1. \A t \in Tickets : manifest[t].lifecycle = "none" \/ Whole(t)
  BY DEF CatalogueInv, StoreInv, ManifestWhole, NoEntry
<1> QED BY <1>1 DEF catalogue, Plain

LEMMA CatalogueIsNext == CatalogueInv' => catalogue' = Plain'
<1> SUFFICES ASSUME CatalogueInv' PROVE catalogue' = Plain'
  OBVIOUS
<1>1. \A t \in Tickets : manifest'[t].lifecycle = "none" \/ Whole(t)'
  BY DEF CatalogueInv, StoreInv, ManifestWhole, NoEntry
<1> QED BY <1>1 DEF catalogue, Plain

LEMMA CatalogueInitially == Init => Catalogue!Init
BY CatalogueInvInit, CatalogueIs DEF Plain, Init, NoEntry, Catalogue!Init, Catalogue!NoEntry

LEMMA CatalogueCommit == ASSUME CatalogueInv, CatalogueInv', Commit PROVE Catalogue!Next
<1> DEFINE t == proc.at.ticket
           entry == [source |-> proc.at, revision |-> manifest[t].revision + 1,
                     lifecycle |-> "published", object |-> proc.object]
           shown == [source |-> proc.at, revision |-> manifest[t].revision + 1, lifecycle |-> "published"]
<1>1. /\ t \in Tickets /\ proc.at \in Sources /\ manifest' = [manifest EXCEPT ![t] = entry]
      /\ manifest[t].lifecycle # "withdrawn" /\ manifest[t].source # proc.at
  BY CommitEffect
<1>2. DOMAIN manifest = Tickets BY DEF CatalogueInv, StoreInv, StoreTyped
<1>3. /\ catalogue[t].source = manifest[t].source /\ catalogue[t].lifecycle = manifest[t].lifecycle
      /\ catalogue[t].revision = manifest[t].revision
  BY <1>1, CatalogueIs DEF Plain
<1>4. catalogue' = [catalogue EXCEPT ![t] = shown]
  BY <1>1, <1>2, CatalogueIs, CatalogueIsNext DEF Plain
<1>5. Catalogue!Publish(t)
  BY <1>1, <1>3, <1>4 DEF Catalogue!Publish
<1> QED BY <1>1, <1>5 DEF Catalogue!Next

LEMMA CatalogueWithdraw ==
  ASSUME CatalogueInv, CatalogueInv', NEW t \in Tickets, Withdraw(t)
  PROVE  Catalogue!Next
<1> DEFINE entry == [manifest[t] EXCEPT !.lifecycle = "withdrawn"]
           shown == [source |-> manifest[t].source, revision |-> manifest[t].revision,
                    lifecycle |-> "withdrawn"]
<1>1. DOMAIN manifest = Tickets /\ DOMAIN manifest[t] = DOMAIN NoEntry
  BY DEF CatalogueInv, StoreInv, StoreTyped
<1>2. /\ entry.source = manifest[t].source /\ entry.revision = manifest[t].revision
      /\ entry.lifecycle = "withdrawn"
  BY <1>1 DEF NoEntry
<1>3. manifest' = [manifest EXCEPT ![t] = entry]
  BY DEF Withdraw
<1> HIDE DEF entry
<1>4. catalogue[t] = [source |-> manifest[t].source, revision |-> manifest[t].revision,
                      lifecycle |-> manifest[t].lifecycle]
  BY CatalogueIs DEF Plain
<1>5. [catalogue[t] EXCEPT !.lifecycle = "withdrawn"] = shown BY <1>4
<1>6. catalogue' = [catalogue EXCEPT ![t] = shown]
  BY <1>1, <1>2, <1>3, CatalogueIs, CatalogueIsNext DEF Plain
<1>7. catalogue[t].lifecycle # "none" BY <1>4 DEF Withdraw
<1> QED BY <1>5, <1>6, <1>7 DEF Catalogue!Withdraw, Catalogue!Next

LEMMA CatalogueStep == CatalogueInv /\ CatalogueInv' /\ [Next]_vars => [Catalogue!Next]_catalogue
<1> SUFFICES ASSUME CatalogueInv, CatalogueInv', [Next]_vars PROVE [Catalogue!Next]_catalogue
  OBVIOUS
<1>1. ASSUME manifest' = manifest PROVE catalogue' = catalogue
  BY <1>1, CatalogueIs, CatalogueIsNext DEF Plain
<1>2. CASE Commit BY <1>2, CatalogueCommit
<1>3. CASE \E t \in Tickets : Withdraw(t) BY <1>3, CatalogueWithdraw
<1>4. CASE ~Commit /\ ~(\E t \in Tickets : Withdraw(t))
  <2>1. manifest' = manifest
    <3>1. CASE RefinerStep
      BY <1>4, <3>1
      DEF RefinerStep, Open, NextRecord, Ask, Reply, Judge, Accept, MarkPublished, WriteFile, Publish, Publishing
    <3>2. CASE ~RefinerStep
      BY <1>4, <3>2
      DEF Next, vars, ImportRow, ImportEnds, ImporterDies, Import, Abort, RefinerDies, Recover,
          StartJob, store, Publishing
    <3> QED BY <3>1, <3>2
  <2> QED BY <1>1, <2>1
<1> QED BY <1>2, <1>3, <1>4

\* Whoever reads the catalogue sees whole experiences only, one entry a
\* ticket: a revision is new only with its source, over all the runs of all
\* jobs and all deaths, and what was withdrawn stays withdrawn (publication.ts
\* writes the manifest last; runner.ts passes over what is published).
THEOREM CatalogueIsImplemented == Spec => ImplementsCatalogue
<1>1. Spec => []CatalogueInv
  BY CatalogueInvInit, CatalogueInvNext, PTL DEF Spec
<1>2. Spec => Catalogue!Init /\ [][Catalogue!Next]_catalogue
  BY <1>1, CatalogueInitially, CatalogueStep, PTL DEF Spec
<1> QED BY <1>2 DEF ImplementsCatalogue, Catalogue!Spec
=============================================================================
