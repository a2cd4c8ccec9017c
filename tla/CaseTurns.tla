------------------------------ MODULE CaseTurns ------------------------------
(***************************************************************************)
(* The turns of one case session: the gateway routes, the runtime that     *)
(* executes turns, and the record on disk (src/src/gateway,                *)
(* src/src/runtime, src/src/sessions).  Cases share nothing but the event  *)
(* loop, every map and file being keyed by the case id.                    *)
(*                                                                         *)
(* The server is one Node process.  An action is what it runs without      *)
(* yielding: the handler of a request once its body has been read, or a    *)
(* turn from one await to the next.  A turn loads the record when it       *)
(* begins, works on that copy until it ends, and every event it logs       *)
(* saves the whole copy.                                                   *)
(*                                                                         *)
(* A configuration change makes the gateway build a new DiagnosticRuntime  *)
(* (reload); turns of the old one run on.  r \in Runtime numbers them.     *)
(***************************************************************************)
EXTENDS CaseRecord, FiniteSets

CONSTANTS
  None,         \* no record on disk, no turn, no active investigation
  SyncMsg,      \* messages posted without `async`
  ClientOps,    \* the requests clients make
  Overlap,      \* clients post and retry while a turn of the case is pending
  SlowTurn,     \* a turn may go without a save for longer than the stale limit
  MaxRuntimes, MaxCrashes, MaxRetries   \* bounds of the exploration

ASSUME ClientAssumption ==
  /\ SyncMsg \subseteq Msg
  /\ ClientOps \subseteq {"stop", "retry", "archive", "edit", "delete"}
  /\ {Overlap, SlowTurn} \subseteq BOOLEAN
  /\ MaxRuntimes \in Nat \ {0} /\ MaxCrashes \in Nat /\ MaxRetries \in Nat

Runtime == 1 .. MaxRuntimes

Stage == {"curated", "preflight", "collect", "worker", "review"}
Entry == [msg : Msg, async : BOOLEAN]
\* attempt counts the Worker calls; open is the turn's run still running;
\* reviewed says that an earlier attempt left a reviewed answer.
Turn == [msg : Msg, async : BOOLEAN, stage : Stage, mem : CaseSession,
         attempt : 0 .. 2, open : 0 .. 1, reviewed : BOOLEAN]
\* The entry of InvestigationControl for a case.
Control == [msg : Msg, aborted : BOOLEAN]

ASSUME NoneAssumption == None \notin CaseSession /\ None \notin Turn /\ None \notin Control

VARIABLES
  disk,      \* the case file, None when deleted
  quiet,     \* updatedAt is older than the stale limit
  up,        \* the server process runs
  gateway,   \* the runtime that requests which come in are handled by
  queue,     \* per runtime, the turns chained behind the one that runs
  turn,      \* per runtime, the turn that runs
  active,    \* per runtime, the InvestigationControl entry of the case
  failing,   \* per runtime, rejected background turns not yet recorded
  accepted, stopped, closed, crashes, retries   \* history

process == <<up, gateway, queue, turn, active, failing>>
history == <<accepted, stopped, closed, crashes, retries>>
vars == <<disk, quiet, process, history>>

Init ==
  /\ disk = NewCase /\ quiet = FALSE
  /\ up = TRUE /\ gateway = 1
  /\ queue = [r \in Runtime |-> <<>>]
  /\ turn = [r \in Runtime |-> None]
  /\ active = [r \in Runtime |-> None]
  /\ failing = [r \in Runtime |-> <<>>]
  /\ accepted = {} /\ stopped = {} /\ closed = FALSE /\ crashes = 0 /\ retries = 0

-----------------------------------------------------------------------------
Busy(r) == turn[r] # None
InFlight == \E r \in Runtime : Busy(r)
Pending(r, m) == \/ Busy(r) /\ turn[r].msg = m
                 \/ \E i \in DOMAIN queue[r] : queue[r][i].msg = m
Idle == \A r \in Runtime : ~Busy(r) /\ queue[r] = <<>> /\ failing[r] = <<>>

\* Promise callbacks run before the next request or model answer is handled.
MicrotasksDrained ==
  \A r \in Runtime : /\ failing[r] = <<>>
                     /\ queue[r] = <<>> \/ Busy(r)
                     /\ Busy(r) => turn[r].stage # "curated"
Serving == up /\ MicrotasksDrained

\* The turn of r is resumed by what it awaits.
Resumes(r) == Serving /\ Busy(r)
Aborted(r) == active[r] # None /\ active[r].aborted
Mem(r) == turn[r].mem

Write(c) == disk' = c /\ quiet' = FALSE
Save(images) == Write(Last(images))

-----------------------------------------------------------------------------
(* Requests.                                                               *)

\* The default client waits for the reply before it sends again.
MaySend == Overlap \/ Idle

\* The messages that may be posted: every post makes a new one.
Postable == IF disk # None /\ ~disk.archived /\ MaySend
            THEN Msg \ (accepted \cup Range(disk.users)) ELSE {}

\* http-server.ts route: a request is handled by the runtime that served when it
\* came in, though its body may be read only after a reload.
Addressed == 1 .. gateway

Enqueue(r, m, async) ==
  queue' = [queue EXCEPT ![r] = Append(@, [msg |-> m, async |-> async])]

\* POST /api/chat: startUserTurn, then completeUserTurn in the background or
\* awaited by the request.
Post(m) ==
  /\ Serving /\ m \in Postable
  /\ Save(PostImages(disk, m))
  /\ \E r \in Addressed : Enqueue(r, m, m \notin SyncMsg)
  /\ accepted' = accepted \cup {m}
  /\ UNCHANGED <<up, gateway, turn, active, failing, stopped, closed, crashes, retries>>

CanRetry == IF disk # None /\ ~disk.archived /\ MaySend /\ "retry" \in ClientOps
            THEN {m \in Retryable(disk) : HasUser(disk, m)} ELSE {}

\* POST /api/chat/retry.
Retry(m) ==
  /\ Serving /\ m \in CanRetry /\ retries < MaxRetries
  /\ Save(RetryImages(disk, m))
  /\ \E r \in Addressed : Enqueue(r, m, TRUE)
  /\ retries' = retries + 1
  /\ UNCHANGED <<up, gateway, turn, active, failing, accepted, stopped, closed, crashes>>

\* A cancel request not compared with the turn that runs.
StopAny(m) ==
  /\ Serving /\ "stop" \in ClientOps /\ disk # None
  /\ \E r \in Addressed : /\ active[r] # None
                          /\ active' = [active EXCEPT ![r].aborted = TRUE]
  /\ stopped' = stopped \cup {m}
  /\ UNCHANGED <<disk, quiet, up, gateway, queue, turn, failing,
                 accepted, closed, crashes, retries>>

\* POST /api/chat/cancel: 409 unless m is the turn that runtime works on.
Stop(m) ==
  /\ Serving /\ "stop" \in ClientOps /\ disk # None
  /\ \E r \in Addressed : /\ active[r] # None /\ active[r].msg = m
                          /\ active' = [active EXCEPT ![r].aborted = TRUE]
  /\ stopped' = stopped \cup {m}
  /\ UNCHANGED <<disk, quiet, up, gateway, queue, turn, failing,
                 accepted, closed, crashes, retries>>

\* GET /api/session and /api/sessions.
ReadSession ==
  /\ Serving /\ disk # None /\ IsActive(disk) /\ quiet
  /\ Save(StaleImages(disk))
  /\ UNCHANGED <<process, history>>

\* PATCH /api/session: archive, or a title or pin that the model leaves out
\* but for the save.
Archive ==
  /\ Serving /\ "archive" \in ClientOps /\ disk # None
  /\ Write([disk EXCEPT !.archived = TRUE])
  /\ closed' = TRUE
  /\ UNCHANGED <<process, accepted, stopped, crashes, retries>>

Edit ==
  /\ Serving /\ "edit" \in ClientOps /\ disk # None
  /\ Write(disk)
  /\ UNCHANGED <<process, history>>

\* DELETE /api/session.
Delete ==
  /\ Serving /\ "delete" \in ClientOps /\ disk # None
  /\ disk' = None /\ quiet' = FALSE
  /\ UNCHANGED <<process, history>>

\* A committed configuration: requests that come in go to a new runtime.
Reload ==
  /\ Serving /\ gateway < MaxRuntimes
  /\ gateway' = gateway + 1
  /\ UNCHANGED <<disk, quiet, up, queue, turn, active, failing, history>>

-----------------------------------------------------------------------------
(* A turn begins: the task of CaseTurnQueue.run, up to its first await.    *)

\* The queue is TurnQueue's: the next task starts when the previous settled.
\* A rejected turn is recorded three promise callbacks later, after the next
\* task has begun; two rejections in a row are recorded alternately.
MayBegin(r) == /\ up /\ ~Busy(r) /\ queue[r] # <<>>
               /\ Len(failing[r]) <= 1

Admissible(r) == /\ disk # None /\ ~disk.archived
                 /\ HasUser(disk, Head(queue[r]).msg)
                 /\ active[r] = None

Dequeue(r) == queue' = [queue EXCEPT ![r] = Tail(@)]

\* The case or the message is gone, or the case is archived: the turn rejects.
Reject(r) ==
  /\ MayBegin(r) /\ ~Admissible(r)
  /\ Dequeue(r)
  /\ failing' = [failing EXCEPT ![r] = Append(@, Head(queue[r]))]
  /\ UNCHANGED <<disk, quiet, up, gateway, turn, active, history>>

Start(r, stage) ==
  LET e == Head(queue[r]) IN
  /\ Dequeue(r)
  /\ turn' = [turn EXCEPT ![r] =
       [msg |-> e.msg, async |-> e.async, stage |-> stage, mem |-> disk,
        attempt |-> 0, open |-> 0, reviewed |-> FALSE]]
  /\ active' = [active EXCEPT ![r] = [msg |-> e.msg, aborted |-> FALSE]]

\* The message confirms an earlier reviewed answer: a solved case is drafted
\* and the turn ends without waiting for anything but promise callbacks.
Curate(r) ==
  /\ MayBegin(r) /\ Admissible(r)
  /\ \E m \in Msg : \E reply \in Bound(disk, m) : reply.kind = "formal"
  /\ Start(r, "curated")
  /\ Save(FinishImages(disk, Head(queue[r]).msg, "waiting_user"))
  /\ UNCHANGED <<up, gateway, failing, history>>

Begin(r) ==
  /\ MayBegin(r) /\ Admissible(r)
  /\ Start(r, "preflight")
  /\ Write(disk)
  /\ UNCHANGED <<up, gateway, failing, history>>

-----------------------------------------------------------------------------
(* A turn goes on.                                                         *)

Move(r, t) ==
  /\ turn' = [turn EXCEPT ![r] = t]
  /\ Write(t.mem)
  /\ UNCHANGED <<up, gateway, queue, active, failing, history>>

\* Preflight lets the turn collect evidence (experience, knowledge, MCP,
\* historical cases), or the collecting goes on.
Collect(r) ==
  /\ Resumes(r)
  /\ \/ turn[r].stage = "collect"
     \/ turn[r].stage = "preflight" /\ ~Aborted(r)
  /\ Move(r, [turn[r] EXCEPT !.stage = "collect"])

Diagnosing(c, runs) == WithRuns(WithStatus(c, "diagnosing"), runs)

\* A collected source answers: its result is reviewed as a run of the turn.
ReviewSource(r) ==
  /\ Resumes(r) /\ turn[r].stage \in {"preflight", "collect"} /\ ~Aborted(r)
  /\ \E open \in 0 .. 1 :
       Move(r, [turn[r] EXCEPT !.stage = "review", !.open = open, !.mem = Diagnosing(@, @.runs + open)])

CallWorker(r) ==
  /\ Resumes(r) /\ turn[r].stage = "collect" /\ ~Aborted(r)
  /\ Move(r, [turn[r] EXCEPT !.stage = "worker", !.attempt = 1, !.open = 1,
                             !.mem = Diagnosing(@, @.runs + 1)])

WorkerResult(r) ==
  /\ Resumes(r) /\ turn[r].stage = "worker" /\ ~Aborted(r)
  /\ Move(r, [turn[r] EXCEPT !.stage = "review", !.open = 0, !.mem = Diagnosing(@, @.runs - 1)])

\* The review logs its progress between model calls.
ReviewOn(r) ==
  /\ Resumes(r) /\ turn[r].stage = "review"
  /\ Move(r, turn[r])

\* A partial review of the first Worker result asks for a second one.
FollowUp(r) ==
  /\ Resumes(r) /\ turn[r].stage = "review" /\ turn[r].attempt = 1 /\ ~Aborted(r)
  /\ \E reviewed \in BOOLEAN :
       Move(r, [turn[r] EXCEPT !.stage = "worker", !.attempt = 2, !.open = 1,
                               !.reviewed = reviewed, !.mem = WithRuns(@, @.runs + 1)])

-----------------------------------------------------------------------------
(* A turn ends.                                                            *)

EndTurn(r) ==
  /\ turn' = [turn EXCEPT ![r] = None]
  /\ active' = [active EXCEPT ![r] =
       IF active[r] # None /\ active[r].msg = turn[r].msg THEN None ELSE @]

\* The statuses an answered turn can leave.
AnswerStatus(r) ==
  CASE Aborted(r) -> {"partial"}
    [] ~Aborted(r) /\ turn[r].stage = "preflight" -> {"waiting_user"}
    [] OTHER -> FinalStatus

\* Preflight asks the user back, or a review ends with a reply.  After an
\* abort only an answer that some review has accepted is kept.
CanAnswer(r) ==
  LET t == turn[r] IN
  \/ t.stage = "preflight" /\ ~Aborted(r)
  \/ t.stage = "review"
  \/ t.stage = "worker" /\ t.attempt = 2 /\ t.reviewed /\ Aborted(r)

AnswerImages(r, s) ==
  FinishImages(WithRuns(Mem(r), Mem(r).runs - turn[r].open), turn[r].msg, s)

Answer(r) ==
  /\ Resumes(r) /\ CanAnswer(r)
  /\ \E s \in AnswerStatus(r) : Save(AnswerImages(r, s))
  /\ EndTurn(r)
  /\ UNCHANGED <<up, gateway, queue, failing, history>>

\* The response of a curated turn travels back through its promises.
EndCurated(r) ==
  /\ up /\ Busy(r) /\ turn[r].stage = "curated" /\ failing[r] = <<>>
  /\ EndTurn(r)
  /\ UNCHANGED <<disk, quiet, up, gateway, queue, failing, history>>

CancelImages(r) == InterruptImages(Mem(r), turn[r].msg, "user_cancelled")

\* The abort is noticed and there is no reviewed answer.
Cancel(r) ==
  /\ Resumes(r) /\ Aborted(r)
  /\ Save(CancelImages(r))
  /\ EndTurn(r)
  /\ UNCHANGED <<up, gateway, queue, failing, history>>

\* Something the turn awaits throws.
Fail(r) ==
  /\ Resumes(r) /\ ~Aborted(r)
  /\ EndTurn(r)
  /\ failing' = [failing EXCEPT ![r] =
       Append(@, [msg |-> turn[r].msg, async |-> turn[r].async])]
  /\ UNCHANGED <<disk, quiet, up, gateway, queue, history>>

\* The catch of a background turn: recordTurnFailure.  A turn awaited by its
\* request is reported in the response only.
CanCatch(r) == /\ up /\ failing[r] # <<>>
               /\ Busy(r) \/ queue[r] = <<>> \/ Len(failing[r]) = 2
CanRecord(r) == CanCatch(r) /\ Head(failing[r]).async /\ disk # None

RecordFailure(r) ==
  /\ CanCatch(r)
  /\ failing' = [failing EXCEPT ![r] = Tail(@)]
  /\ IF CanRecord(r) THEN Save(FailureImages(disk, Head(failing[r]).msg))
     ELSE UNCHANGED <<disk, quiet>>
  /\ UNCHANGED <<up, gateway, queue, turn, active, history>>

-----------------------------------------------------------------------------
(* Time, crashes and restarts.                                             *)

\* Longer than the stale limit passes without a save.
GrowQuiet ==
  /\ disk # None /\ IsActive(disk) /\ ~quiet
  /\ ~up \/ SlowTurn \/ Idle
  /\ MicrotasksDrained
  /\ quiet' = TRUE
  /\ UNCHANGED <<disk, process, history>>

Down ==
  /\ crashes < MaxCrashes
  /\ up' = FALSE
  /\ queue' = [r \in Runtime |-> <<>>]
  /\ turn' = [r \in Runtime |-> None]
  /\ active' = [r \in Runtime |-> None]
  /\ failing' = [r \in Runtime |-> <<>>]
  /\ crashes' = crashes + 1
  /\ gateway' = 1
  /\ UNCHANGED <<accepted, stopped, closed, retries>>

RecoveryImages(c) ==
  InterruptImages(c, CHOOSE m \in InheritedTurn(c) : TRUE, "service_restarted")
Inherits == disk # None /\ InheritedTurn(disk) # {}

\* The updates some step may be in the middle of.
Updates ==
  IF ~up THEN IF Inherits THEN {RecoveryImages(disk)} ELSE {}
  ELSE UNION {
    {PostImages(disk, m) : m \in IF Serving THEN Postable ELSE {}},
    {RetryImages(disk, m) : m \in IF Serving THEN CanRetry ELSE {}},
    IF Serving /\ disk # None /\ IsActive(disk) /\ quiet THEN {StaleImages(disk)} ELSE {},
    UNION {{AnswerImages(r, s) : s \in AnswerStatus(r)} :
             r \in {q \in Runtime : Resumes(q) /\ CanAnswer(q)}},
    {CancelImages(r) : r \in {q \in Runtime : Resumes(q) /\ Aborted(q)}},
    {FailureImages(disk, Head(failing[r]).msg) : r \in {q \in Runtime : CanRecord(q)}} }

\* The process dies between two steps, or between two saves of one.
Crash == up /\ Down /\ UNCHANGED <<disk, quiet>>

CrashBetweenSaves ==
  /\ Down
  /\ \E images \in Updates : \E i \in 1 .. Len(images) - 1 : Write(images[i])

\* startServer: recoverInterruptedTurns before the server listens.
StartServer ==
  /\ ~up
  /\ up' = TRUE
  /\ IF Inherits THEN Save(RecoveryImages(disk)) ELSE UNCHANGED <<disk, quiet>>
  /\ UNCHANGED <<gateway, queue, turn, active, failing, history>>

-----------------------------------------------------------------------------
Request ==
  \/ \E m \in Msg : Post(m) \/ Retry(m) \/ Stop(m)
  \/ ReadSession \/ Archive \/ Edit \/ Delete \/ Reload

Admit(r) == Reject(r) \/ Begin(r) \/ Curate(r)
Progress(r) == Collect(r) \/ ReviewOn(r)
Advance(r) == \/ ReviewSource(r) \/ CallWorker(r) \/ WorkerResult(r) \/ FollowUp(r)
              \/ Answer(r) \/ EndCurated(r) \/ Cancel(r) \/ Fail(r)

Next == \/ Request
        \/ \E r \in Runtime : Admit(r) \/ Progress(r) \/ Advance(r) \/ RecordFailure(r)
        \/ GrowQuiet \/ Crash \/ CrashBetweenSaves \/ StartServer

Spec == Init /\ [][Next]_vars

\* Promise callbacks run; what a turn awaits returns or throws; time passes;
\* the web client polls an active session (use-chat.ts) and the container
\* restarts the server (docker/compose.yml).  No user request is assumed.
Fairness ==
  /\ \A r \in Runtime : WF_vars(Admit(r)) /\ WF_vars(Advance(r)) /\ WF_vars(RecordFailure(r))
  /\ WF_vars(GrowQuiet) /\ WF_vars(ReadSession) /\ WF_vars(StartServer)

FairSpec == Spec /\ Fairness

-----------------------------------------------------------------------------
(* Properties.                                                             *)

\* The values each variable takes.
TypeOK ==
  /\ disk \in CaseSession \cup {None} /\ quiet \in BOOLEAN /\ up \in BOOLEAN
  /\ gateway \in Runtime
  /\ queue \in [Runtime -> Seq(Entry)]
  /\ turn \in [Runtime -> Turn \cup {None}]
  /\ active \in [Runtime -> Control \cup {None}]
  /\ failing \in [Runtime -> Seq(Entry)]
  /\ accepted \subseteq Msg /\ stopped \subseteq Msg /\ closed \in BOOLEAN
  /\ crashes \in 0 .. MaxCrashes /\ retries \in 0 .. MaxRetries

\* The control entry of a case is that of the turn that runs, so that no turn
\* ever fails with `case turn already active`.
ControlMatchesTurn ==
  \A r \in Runtime :
    /\ active[r] = None <=> ~Busy(r)
    /\ Busy(r) => active[r].msg = turn[r].msg

\* A request to stop ends the turn it is meant for and no other: the control
\* entry is that of the turn that runs, and a message is logged as stopped by
\* the user only if a request to stop that very message was accepted.
StopHitsItsTurn ==
  /\ ControlMatchesTurn
  /\ disk # None =>
       \A i \in DOMAIN disk.logs :
         disk.logs[i].phase = "user_cancelled" => disk.logs[i].msg \in stopped

\* A stopped turn ends the case in `partial`, with exactly one reply of this
\* turn: an answer some review accepted, or a placeholder that offers a retry.
StoppedTurnIsSettled ==
  [][\A r \in Runtime :
       Busy(r) /\ Aborted(r) /\ ~Busy(r)' /\ up' =>
         LET m == turn[r].msg IN
         /\ disk'.status = "partial"
         /\ m \in Retryable(disk') <=> ~\E reply \in Bound(disk', m) : reply.kind = "formal"]_vars

\* No message is executed twice at a time: a retry is accepted once.
OneTurnPerMessage ==
  \A m \in Msg : Cardinality(
    {p \in Runtime \X (0 .. Cardinality(Msg) + MaxRetries) :
       \/ p[2] = 0 /\ Busy(p[1]) /\ turn[p[1]].msg = m
       \/ p[2] \in DOMAIN queue[p[1]] /\ queue[p[1]][p[2]].msg = m}) <= 1

\* When nothing is pending, whatever status the case shows, every message
\* accepted for the background has a reply, unless a retry of it was cut short
\* by a crash.
SettledCaseIsAnswered ==
  up /\ Idle /\ disk # None =>
    \A m \in accepted \ SyncMsg :
      \/ disk.replies[m] # <<>>
      \/ crashes > 0 /\ [phase |-> "turn_retry_started", msg |-> m] \in Range(disk.logs)

\* One reply is bound to a message, whichever turns, retries and recoveries
\* produced it.
OneBoundReply == disk # None => \A m \in Msg : Len(disk.replies[m]) <= 1

\* The record on disk implements the conversation the user sees.
PhaseIn(c, m) ==
  IF ~HasUser(c, m) THEN "absent"
  ELSE IF c.replies[m] = <<>> THEN "waiting"
  ELSE IF \E reply \in Bound(c, m) : reply.kind # "placeholder" THEN "answered" ELSE "interrupted"
Phase == [m \in Msg |-> IF disk = None THEN "absent" ELSE PhaseIn(disk, m)]
Talk == INSTANCE Conversation WITH phase <- Phase
ImplementsConversation == Talk!Spec

\* A case does not show a turn at work for ever, also after crashes.
ActiveCaseSettles == (disk # None /\ IsActive(disk)) ~> (disk = None \/ ~IsActive(disk))

\* Documented claims about overlapping requests.

\* The turns accepted for a case are executed, in the order of acceptance: a
\* turn is rejected only when its case was deleted or archived.
AcceptedTurnIsExecuted ==
  [][\A r \in Runtime :
       queue[r] # <<>> /\ queue'[r] = Tail(queue[r]) /\ turn'[r] = None /\ up' =>
         disk = None \/ disk.archived]_vars

\* The failure reply of a background turn stays in the record.
FailureReplyStays ==
  [][\A m \in Msg :
       LET failed(c) == c # None /\ \E reply \in Bound(c, m) : reply.kind = "failure"
       IN  failed(disk) => disk' = None \/ failed(disk')]_vars

\* A retry is refused while a turn of the case is executing.
RetryWaitsForTurn == [][retries' # retries => Idle]_vars

\* A restarted server leaves no unanswered message in a case that still shows
\* a turn at work: the message can be retried when the server listens.
RestartReleasesWaitingTurn ==
  [][~up /\ up' =>
       disk' = None \/ ~IsActive(disk') \/ LatestUnanswered(disk') = {}]_vars

\* A deleted case does not come back.
DeletedCaseStaysDeleted == [][disk = None => disk' = None]_vars

\* An archived case accepts no further message.
ArchivedCaseIsClosed == [][closed => accepted' = accepted]_vars

\* The turns of a case run one at a time.
OneTurnAtATime == Cardinality({r \in Runtime : Busy(r)}) <= 1
=============================================================================
