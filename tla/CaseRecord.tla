------------------------------ MODULE CaseRecord ------------------------------
(***************************************************************************)
(* The record of a case session and the updates the runtime makes to it    *)
(* (src/src/sessions, src/src/runtime).                                    *)
(*                                                                         *)
(* A synchronous piece of code saves the record several times, after each  *)
(* message or log event it adds.  Such an update is the sequence of the    *)
(* images it writes: without a crash only the last one is ever seen, a     *)
(* crash leaves any of them on disk.                                       *)
(*                                                                         *)
(* Kept: user messages in order, the helper replies bound to each, the     *)
(* number of runs still queued or running, the interruption and retry      *)
(* logs, the status and the archive mark.  A placeholder reply carries the *)
(* position of the interruption log that names it: the log is written      *)
(* right after the placeholder and quotes its message id.                  *)
(***************************************************************************)
EXTENDS Naturals, Sequences, SequencesExt

CONSTANT Msg    \* the user messages

\* collecting_input, need_input and concluded all wait for the user.
ActiveStatus == {"ready_for_diagnosis", "diagnosing"}
FinalStatus == {"waiting_user", "partial"}
Status == ActiveStatus \cup FinalStatus

ReplyKind == {"formal", "failure", "stale", "placeholder"}
Reply == [kind : ReplyKind, log : Nat]
InterruptedPhase == {"service_restarted", "user_cancelled"}
LogEvent == [phase : InterruptedPhase \cup {"turn_retry_started"}, msg : Msg]

CaseSession == [status : Status, users : Seq(Msg), replies : [Msg -> Seq(Reply)],
                runs : Nat, logs : Seq(LogEvent), archived : BOOLEAN]

NewCase == [status |-> "waiting_user", users |-> <<>>,
            replies |-> [m \in Msg |-> <<>>],
            runs |-> 0, logs |-> <<>>, archived |-> FALSE]

IsActive(c) == c.status \in ActiveStatus
HasUser(c, m) == m \in Range(c.users)
Bound(c, m) == Range(c.replies[m])

WithReply(c, m, kind) ==
  [c EXCEPT !.replies[m] =
     Append(@, [kind |-> kind,
                log |-> IF kind = "placeholder" THEN Len(c.logs) + 1 ELSE 0])]
WithLog(c, phase, m) == [c EXCEPT !.logs = Append(@, [phase |-> phase, msg |-> m])]
WithStatus(c, s) == [c EXCEPT !.status = s]
WithoutReplies(c, m) == [c EXCEPT !.replies[m] = <<>>]
WithRuns(c, n) == [c EXCEPT !.runs = n]

-----------------------------------------------------------------------------
(* What the record says.                                                   *)

\* The last user message, if any, that no helper reply is bound to.
LatestUnanswered(c) ==
  {c.users[i] : i \in {j \in DOMAIN c.users :
     /\ c.replies[c.users[j]] = <<>>
     /\ \A k \in j + 1 .. Len(c.users) : c.replies[c.users[k]] # <<>>}}

\* A record that the start of the server turns into a retryable interruption.
InheritedTurn(c) ==
  {m \in LatestUnanswered(c) :
     /\ IsActive(c)
     /\ \A i \in DOMAIN c.logs : ~(c.logs[i].phase \in InterruptedPhase /\ c.logs[i].msg = m)}

\* Ignoring the retry log: an interruption stays retryable for ever.
RetryableTwice(c) ==
  {m \in Msg : \E i \in DOMAIN c.logs :
     /\ c.logs[i].phase \in InterruptedPhase /\ c.logs[i].msg = m
     /\ \A j \in i + 1 .. Len(c.logs) : c.logs[j].phase \notin InterruptedPhase}

\* The message of the last interruption, if its placeholder is still the only
\* reply bound to it and no retry has been started since.
Retryable(c) ==
  {m \in Msg : \E i \in DOMAIN c.logs :
     /\ c.logs[i].phase \in InterruptedPhase /\ c.logs[i].msg = m
     /\ \A j \in i + 1 .. Len(c.logs) :
          /\ c.logs[j].phase \notin InterruptedPhase
          /\ c.logs[j] # [phase |-> "turn_retry_started", msg |-> m]
     /\ Bound(c, m) = {[kind |-> "placeholder", log |-> i]}}

-----------------------------------------------------------------------------
(* Updates: the images written, in order.                                  *)

PostImages(c, m) ==
  LET c1 == [c EXCEPT !.users = Append(@, m)]
  IN  <<c1, WithStatus(c1, "ready_for_diagnosis")>>

FinishImages(c, m, s) ==
  LET c1 == WithReply(c, m, "formal") IN <<c1, WithStatus(c1, s)>>

\* The interruption logged without its placeholder first.
InterruptLogFirst(c, m, phase) ==
  LET c1 == WithLog(WithRuns(WithoutReplies(c, m), 0), phase, m)
      c2 == WithReply(c1, m, "placeholder")
  IN  <<c1, c2, WithStatus(c2, "partial")>>

\* A turn ended without an answer: by the user, or by a restart of the server.
InterruptImages(c, m, phase) ==
  LET c1 == WithReply(WithRuns(WithoutReplies(c, m), 0), m, "placeholder")
      c2 == WithLog(c1, phase, m)
  IN  <<c1, c2, WithStatus(c2, "partial")>>

\* The placeholder stays beside the answer to come.
RetryKeepingPlaceholder(c, m) ==
  LET c1 == WithLog(c, "turn_retry_started", m)
  IN  <<c1, WithStatus(c1, "ready_for_diagnosis")>>

\* The placeholder of a retryable message is the only reply bound to it.
RetryImages(c, m) ==
  LET c1 == WithLog(WithoutReplies(c, m), "turn_retry_started", m)
  IN  <<c1, WithStatus(c1, "ready_for_diagnosis")>>

\* The stale runs are closed but not the case.
StaleRunsOnly(c) == <<WithRuns(c, 0)>>

\* recoverStaleActiveTurn answers the last unanswered message only.
StaleImages(c) ==
  LET c1 == WithStatus(WithRuns(c, 0), "partial")
      c2 == IF LatestUnanswered(c1) = {} THEN c1
            ELSE WithReply(c1, CHOOSE m \in LatestUnanswered(c1) : TRUE, "stale")
  IN  <<c1, c2>>

\* The failure is logged but not told to the user.
FailureLogOnly(c, m) == <<c, WithStatus(c, "partial")>>

FailureImages(c, m) ==
  LET c1 == WithReply(c, m, "failure") IN <<c, c1, WithStatus(c1, "partial")>>
=============================================================================
