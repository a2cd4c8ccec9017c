---------------------------- MODULE ClaudeWorker ----------------------------
(***************************************************************************)
(* The calls turns make of the Claude Code worker                          *)
(* (src/src/workers/claude/claude-code-worker.ts, claude-cli.ts).          *)
(*                                                                         *)
(* A turn that runs in its queue (TurnQueue) makes one call of diagnose,   *)
(* here with its first step, and settles with it.                          *)
(* After a reload a case has a queue in each runtime, here a Case of       *)
(* TurnQueue, while the queues of Claude sessions are static: they outlive *)
(* reloads.  Calls of one session wait for each other, a call that is      *)
(* stopped does not wait on, and the process of a call, with those it      *)
(* started itself, is ended when it is stopped or takes too long.          *)
(***************************************************************************)
EXTENDS TurnQueue, FiniteSets

CONSTANTS
  SessionOf,      \* queue |-> Claude session of its case
  Profile,        \* turn |-> "fast", "deep" or "none", resolvedProfile
  MaxRetries,     \* sessionBusyMaxRetries
  MayFail         \* bound: the turns that may reject

VARIABLES
  entry,          \* sessionQueues: the last call of a session, or None
  ahead,          \* the calls the promise chain of a call waits for
  call,           \* progress of the call of each turn
  stopped,        \* turns at work whose AbortSignal was aborted
  process,        \* the process of a call and what became of it
  attempts,       \* processes a call has spawned
  stray           \* sessions used by a process of an earlier server

worker == <<entry, ahead, call, stopped, process, attempts, stray>>
all == <<vars, worker>>

Sessions == {SessionOf[c] : c \in Case}
SessionFor(t) == SessionOf[CaseOf[t]]

\* leader: the CLI runs; busy: it found its session in use; group: processes
\* it started; ending: SIGTERM was sent and the timer of SIGKILL runs.
NoProcess == [leader |-> FALSE, busy |-> FALSE, group |-> FALSE, ending |-> "no"]

WorkerInit ==
  /\ entry = [s \in Sessions |-> None]
  /\ ahead = [t \in Turn |-> {}]
  /\ call = [t \in Turn |-> "none"]
  /\ stopped = {}
  /\ process = [t \in Turn |-> NoProcess]
  /\ attempts = [t \in Turn |-> 0]
  /\ stray \in SUBSET Sessions

\* `gate` of the call is released: diagnose is in its finally or has returned.
Released(t) == call[t] \in {"answered", "forgotten"}
-----------------------------------------------------------------------------
(* The queue of a session *)

\* withSessionLock up to its await: current chains the gate to previous.
Diagnose(t) ==
  /\ Start(t)
  /\ LET last == entry[SessionFor(t)] IN
       ahead' = [ahead EXCEPT ![t] = IF last = None THEN {} ELSE ahead[last] \cup {last}]
  /\ entry' = [entry EXCEPT ![SessionFor(t)] = t]
  /\ call' = [call EXCEPT ![t] = "waiting"]
  /\ UNCHANGED <<stopped, process, attempts, stray>>

\* diagnose returns; what it returns is the subject of WorkerResults.
Answer(t) ==
  /\ call' = [call EXCEPT ![t] = "answered"]
  /\ attempts' = [attempts EXCEPT ![t] = 0]
  /\ stopped' = stopped \ {t}
  /\ Settle(t) /\ (t \in MayFail \/ UNCHANGED failed)

\* A call that waits for the gate of the call before it, not for its chain.
LastReleased(t) ==
  ahead[t] = {} \/ \E u \in ahead[t] : Released(u) /\ ahead[u] = ahead[t] \ {u}

\* The promise `previous` of a call has settled.
SessionFree(t) == \A u \in ahead[t] : Released(u)

\* waitForSession resolves false: the call returns a mock at once.
TurnAway(t) ==
  /\ call[t] = "waiting" /\ t \in stopped
  /\ Answer(t)
  /\ UNCHANGED <<entry, ahead, process, stray>>

\* diagnoseUnlocked: the worker is disabled, the workspace is unknown or the
\* command is not on the list.
Refuse(t) ==
  /\ call[t] = "waiting" /\ t \notin stopped /\ SessionFree(t)
  /\ Answer(t)
  /\ UNCHANGED <<entry, ahead, process, stray>>

\* The finally of withSessionLock, once `current` has settled.
Forget(t) ==
  /\ call[t] = "answered" /\ SessionFree(t)
  /\ call' = [call EXCEPT ![t] = "forgotten"]
  /\ entry' = IF entry[SessionFor(t)] = t THEN [entry EXCEPT ![SessionFor(t)] = None] ELSE entry
  /\ UNCHANGED <<vars, ahead, stopped, process, attempts, stray>>
-----------------------------------------------------------------------------
(* The process of a call *)

\* The CLI refuses a session that another process uses.
InUse(t) ==
  \/ SessionFor(t) \in stray
  \/ \E u \in Turn \ {t} : SessionFor(u) = SessionFor(t) /\ process[u].leader /\ ~process[u].busy

\* runCommand: spawn, or its failure as the `error` event.
Spawn(t) ==
  \/ /\ process' = [process EXCEPT ![t] = [NoProcess EXCEPT !.leader = TRUE, !.group = ~InUse(t),
                                                         !.busy = InUse(t)]]
     /\ attempts' = [attempts EXCEPT ![t] = @ + 1]
     /\ call' = [call EXCEPT ![t] = "running"]
     /\ UNCHANGED <<vars, stopped>>
  \/ Answer(t) /\ UNCHANGED process

Begin(t) ==
  /\ call[t] = "waiting" /\ t \notin stopped /\ SessionFree(t)
  /\ Spawn(t)
  /\ UNCHANGED <<entry, ahead, stray>>

\* The delay after a busy attempt is over, or the stop cut it short: a stopped
\* call spawns nothing more.
Wake(t) ==
  /\ call[t] = "sleeping"
  /\ IF t \in stopped THEN Answer(t) /\ UNCHANGED process
     ELSE Spawn(t)
  /\ UNCHANGED <<entry, ahead, stray>>

\* terminate: SIGTERM to the group; SIGKILL follows unless it closes before.
\* Mutant of Terminated: no timer for a process that ignores SIGTERM.
AskedToEnd(t) == [process EXCEPT ![t].ending = "asked"]
Terminated(t) == [process EXCEPT ![t].ending = IF @ = "killed" THEN @ ELSE "asked_in_time"]

\* The signal of the turn aborts; a call that runs ends its process.
Stop(t) ==
  /\ state[t] = "running" /\ t \notin stopped /\ ~Released(t)
  /\ stopped' = stopped \cup {t}
  /\ process' = IF call[t] = "running" THEN Terminated(t) ELSE process
  /\ UNCHANGED <<vars, entry, ahead, call, attempts, stray>>

\* Without a profile the call has claude.timeoutMs.
TimeOut(t) ==
  /\ call[t] = "running" /\ Profile[t] = "none" /\ process[t].ending = "no"
  /\ process' = Terminated(t)
  /\ UNCHANGED <<vars, entry, ahead, call, stopped, attempts, stray>>

KillTimer(t) ==
  /\ call[t] = "running" /\ process[t].ending = "asked_in_time"
  /\ process' = [process EXCEPT ![t].ending = "killed"]
  /\ UNCHANGED <<vars, entry, ahead, call, stopped, attempts, stray>>

\* Processes that outlive the leader are killed when the call was stopped or
\* late; those of an ordinary end stay and are not followed further.
\* Mutant of GroupAfter: the former stay too.
GroupStays(t) == process[t].group /\ process[t].ending # "no"
GroupAfter(t) == FALSE

\* The close event, then runCommandWithSessionBusyRetry.
Close(t) ==
  /\ call[t] = "running"
  /\ process' = [process EXCEPT ![t] = [NoProcess EXCEPT !.group = GroupAfter(t)]]
  /\ IF process[t].busy /\ t \notin stopped /\ attempts[t] <= MaxRetries
     THEN call' = [call EXCEPT ![t] = "sleeping"] /\ UNCHANGED <<vars, stopped, attempts>>
     ELSE Answer(t)
  /\ UNCHANGED <<entry, ahead, stray>>

\* A process that an earlier server left behind is done with its session.
StrayEnds(s) ==
  /\ s \in stray /\ stray' = stray \ {s}
  /\ UNCHANGED <<vars, entry, ahead, call, stopped, process, attempts>>
-----------------------------------------------------------------------------
CallsInit == Init /\ WorkerInit

QueueStep(t) == (Run(t) \/ Cleanup(t)) /\ UNCHANGED worker

CallsNext ==
  \/ \E t \in Turn :
       \/ QueueStep(t) \/ Diagnose(t) \/ TurnAway(t) \/ Refuse(t) \/ Forget(t)
       \/ Begin(t) \/ Wake(t) \/ Stop(t) \/ TimeOut(t) \/ KillTimer(t) \/ Close(t)
  \/ \E s \in Sessions : StrayEnds(s)

\* Promises and timers run, a killed process closes, and a CLI that finds its
\* session in use exits.  Nothing makes a CLI at work, or a stray one, end.
Driven(t) ==
  \/ Cleanup(t) /\ UNCHANGED worker
  \/ Diagnose(t) \/ TurnAway(t) \/ Refuse(t) \/ Forget(t) \/ Begin(t) \/ Wake(t)
  \/ TimeOut(t) \/ KillTimer(t)
  \/ (process[t].ending = "killed" \/ process[t].busy) /\ Close(t)

CallsSpec == CallsInit /\ [][CallsNext]_all /\ \A t \in Turn : WF_all(Driven(t))
-----------------------------------------------------------------------------
\* Two calls of one session never have their processes at work together, from
\* whatever runtime they come and whoever of those that wait is stopped
\* (withSessionLock: current waits for previous and for the gate of its call).
OneProcessPerSession ==
  \A t, u \in Turn :
    t # u /\ SessionFor(t) = SessionFor(u) => ~(process[t].leader /\ process[u].leader)

\* What has ended leaves nothing behind: a call that was stopped or ran out of
\* time returns when the last process it started is gone (runCommand: the group
\* is killed when its leader has closed), and no map keeps an entry of a case or
\* session whose calls have all returned.
EndedCallLeavesNothing ==
  /\ \A t \in Turn : Released(t) => process[t] = NoProcess
  /\ IdleCaseHasNoEntry
  /\ \A s \in Sessions :
       (\A t \in Turn : SessionFor(t) = s => call[t] \in {"none", "forgotten"}) => entry[s] = None

\* A user who stops a turn gets an end of it, whatever the CLI does and
\* whichever call holds the session.
StoppedTurnEnds == \A t \in Turn : t \in stopped ~> Settled(t)

\* Every turn settles unless some CLI works on for ever and nobody stops it.
Hanging == \E t \in Turn : call[t] = "running" /\ process[t].ending = "no"
EveryTurnSettlesUnlessHanging == (<>[]Hanging) \/ EveryTurnSettles
=============================================================================
