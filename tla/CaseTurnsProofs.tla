--------------------------- MODULE CaseTurnsProofs ---------------------------
(***************************************************************************)
(* Proofs about the turns of a case.  First what each update of the record *)
(* writes, image by image.  Then two inductive invariants.                 *)
(*                                                                         *)
(*   StopInv holds of every exploration: the types, and that the control   *)
(*   entry, the turn and the log of interruptions name the same message.   *)
(*                                                                         *)
(*   JobInv holds when clients wait for the reply (~Overlap) and a turn    *)
(*   saves more often than the stale limit (~SlowTurn): one turn, one      *)
(*   queued turn or one failure to record exists at a time (OneJob), the   *)
(*   record it will write is the one on disk, and every image an update    *)
(*   may leave after a crash is one the start of the server repairs.       *)
(*                                                                         *)
(* Last, that the record on disk implements Conversation.                  *)
(***************************************************************************)
EXTENDS CaseTurns, TLAPS

-----------------------------------------------------------------------------
(* The record. *)

LEMMA SessionFields ==
  ASSUME NEW c \in CaseSession
  PROVE  /\ c.status \in Status /\ c.users \in Seq(Msg) /\ c.replies \in [Msg -> Seq(Reply)]
         /\ c.runs \in Nat /\ c.logs \in Seq(LogEvent) /\ c.archived \in BOOLEAN
BY DEF CaseSession

\* d is c but for the fields that differ by name.
SameUsers(c, d) == d.users = c.users /\ d.archived = c.archived
SameRest(c, d) == SameUsers(c, d) /\ d.logs = c.logs

LEMMA StatusSet ==
  ASSUME NEW c \in CaseSession, NEW s \in Status
  PROVE  LET d == WithStatus(c, s) IN
         /\ d \in CaseSession /\ SameRest(c, d) /\ d.status = s /\ d.replies = c.replies /\ d.runs = c.runs
BY DEF CaseSession, WithStatus, SameRest, SameUsers

LEMMA LogAdded ==
  ASSUME NEW c \in CaseSession, NEW phase \in InterruptedPhase \cup {"turn_retry_started"}, NEW m \in Msg
  PROVE  LET d == WithLog(c, phase, m) IN
         /\ d \in CaseSession /\ SameUsers(c, d) /\ d.status = c.status /\ d.replies = c.replies /\ d.runs = c.runs
         /\ d.logs = Append(c.logs, [phase |-> phase, msg |-> m])
<1> DEFINE event == [phase |-> phase, msg |-> m]
           logs == Append(c.logs, event)
<1>1. event \in LogEvent
  BY DEF LogEvent
<1>2. logs \in Seq(LogEvent)
  BY <1>1, SessionFields
<1>3. WithLog(c, phase, m) = [c EXCEPT !.logs = logs]
  BY DEF WithLog
<1> HIDE DEF logs
<1>4. LET d == [c EXCEPT !.logs = logs] IN
         /\ d \in CaseSession /\ d.users = c.users /\ d.archived = c.archived
         /\ d.status = c.status /\ d.replies = c.replies /\ d.runs = c.runs
         /\ d.logs = logs
  BY <1>2 DEF CaseSession
<1> QED BY <1>3, <1>4 DEF logs, SameUsers

RepliesAre(c, m, said) == [c EXCEPT !.replies[m] = said]

LEMMA RunsSet ==
  ASSUME NEW c \in CaseSession, NEW n \in Nat
  PROVE  LET d == WithRuns(c, n) IN
         /\ d \in CaseSession /\ SameRest(c, d) /\ d.status = c.status /\ d.replies = c.replies /\ d.runs = n
BY DEF CaseSession, WithRuns, SameRest, SameUsers

LEMMA RepliesSet ==
  ASSUME NEW c \in CaseSession, NEW m \in Msg, NEW said \in Seq(Reply)
  PROVE  LET d == RepliesAre(c, m, said) IN
         /\ d \in CaseSession /\ SameRest(c, d) /\ d.status = c.status /\ d.runs = c.runs
         /\ d.replies[m] = said /\ \A n \in Msg : n # m => d.replies[n] = c.replies[n]
<1> DEFINE replies == [c.replies EXCEPT ![m] = said]
           d == [c EXCEPT !.replies = replies]
<1>1. replies \in [Msg -> Seq(Reply)] /\ replies[m] = said /\ \A n \in Msg : n # m => replies[n] = c.replies[n]
  BY SessionFields
<1>2. RepliesAre(c, m, said) = d
  BY DEF RepliesAre
<1> HIDE DEF replies
<1>3. /\ d \in CaseSession /\ d.users = c.users /\ d.archived = c.archived /\ d.logs = c.logs
      /\ d.status = c.status /\ d.runs = c.runs /\ d.replies = replies
  BY <1>1 DEF CaseSession
<1> HIDE DEF d
<1> QED BY <1>1, <1>2, <1>3 DEF SameRest, SameUsers

LEMMA RepliesCleared ==
  ASSUME NEW c \in CaseSession, NEW m \in Msg
  PROVE  LET d == WithoutReplies(c, m) IN
         /\ d \in CaseSession /\ SameRest(c, d) /\ d.status = c.status /\ d.runs = c.runs
         /\ d.replies[m] = <<>> /\ \A n \in Msg : n # m => d.replies[n] = c.replies[n]
<1> DEFINE none == <<>>
<1>1. WithoutReplies(c, m) = RepliesAre(c, m, none)
  BY DEF WithoutReplies, RepliesAre
<1>2. none \in Seq(Reply)
  OBVIOUS
<1> HIDE DEF none
<1>3. LET d == RepliesAre(c, m, none) IN
      /\ d \in CaseSession /\ SameRest(c, d) /\ d.status = c.status /\ d.runs = c.runs
      /\ d.replies[m] = none /\ \A n \in Msg : n # m => d.replies[n] = c.replies[n]
  BY <1>2, RepliesSet
<1> QED BY <1>1, <1>3 DEF none

LEMMA ReplyAdded ==
  ASSUME NEW c \in CaseSession, NEW kind \in ReplyKind, NEW m \in Msg
  PROVE  LET d == WithReply(c, m, kind)
             reply == [kind |-> kind, log |-> IF kind = "placeholder" THEN Len(c.logs) + 1 ELSE 0] IN
         /\ d \in CaseSession /\ SameRest(c, d) /\ d.status = c.status /\ d.runs = c.runs
         /\ reply \in Reply /\ d.replies[m] = Append(c.replies[m], reply)
         /\ \A n \in Msg : n # m => d.replies[n] = c.replies[n]
<1> DEFINE reply == [kind |-> kind, log |-> IF kind = "placeholder" THEN Len(c.logs) + 1 ELSE 0]
           said == Append(c.replies[m], reply)
<1>1. Len(c.logs) + 1 \in Nat /\ c.replies[m] \in Seq(Reply)
  BY SessionFields
<1>2. reply \in Reply
  BY <1>1 DEF Reply
<1>3. WithReply(c, m, kind) = RepliesAre(c, m, said)
  BY DEF WithReply, RepliesAre
<1> HIDE DEF reply
<1>4. said \in Seq(Reply)
  BY <1>1, <1>2
<1> HIDE DEF said
<1>5. LET d == RepliesAre(c, m, said) IN
      /\ d \in CaseSession /\ SameRest(c, d) /\ d.status = c.status /\ d.runs = c.runs
      /\ d.replies[m] = said /\ \A n \in Msg : n # m => d.replies[n] = c.replies[n]
  BY <1>4, RepliesSet
<1> QED BY <1>2, <1>3, <1>5 DEF said, reply

-----------------------------------------------------------------------------
(* The images of an update. *)

UsersAre(c, users) == [c EXCEPT !.users = users]

LEMMA Posted ==
  ASSUME NEW c \in CaseSession, NEW m \in Msg
  PROVE  \E d, e \in CaseSession :
           /\ PostImages(c, m) = <<d, e>> /\ d.status = c.status /\ e.status = "ready_for_diagnosis"
           /\ \A x \in {d, e} : /\ x.users = Append(c.users, m) /\ x.archived = c.archived
                               /\ x.logs = c.logs /\ x.replies = c.replies
<1> DEFINE users == Append(c.users, m)
           d == UsersAre(c, users)
           e == WithStatus(d, "ready_for_diagnosis")
<1>1. users \in Seq(Msg)
  BY SessionFields
<1>2. PostImages(c, m) = <<d, e>>
  BY DEF PostImages, UsersAre
<1> HIDE DEF users
<1>3. /\ d \in CaseSession /\ d.users = users /\ d.archived = c.archived /\ d.logs = c.logs
      /\ d.status = c.status /\ d.replies = c.replies
  BY <1>1 DEF CaseSession, UsersAre
<1> HIDE DEF d
<1>4. e \in CaseSession /\ SameRest(d, e) /\ e.status = "ready_for_diagnosis" /\ e.replies = d.replies
  BY <1>3, StatusSet DEF Status, ActiveStatus
<1> HIDE DEF e
<1> QED BY <1>2, <1>3, <1>4 DEF SameRest, SameUsers, users

LEMMA Finished ==
  ASSUME NEW c \in CaseSession, NEW m \in Msg, NEW s \in Status
  PROVE  \E d, e \in CaseSession :
           /\ FinishImages(c, m, s) = <<d, e>> /\ d.status = c.status /\ e.status = s
           /\ \A x \in {d, e} :
                /\ SameRest(c, x) /\ \A n \in Msg : n # m => x.replies[n] = c.replies[n]
                /\ x.replies[m] = Append(c.replies[m], [kind |-> "formal", log |-> 0])
<1> DEFINE d == WithReply(c, m, "formal")
           e == WithStatus(d, s)
<1>1. FinishImages(c, m, s) = <<d, e>>
  BY DEF FinishImages
<1>2. /\ d \in CaseSession /\ SameRest(c, d) /\ d.status = c.status
      /\ \A n \in Msg : n # m => d.replies[n] = c.replies[n]
      /\ d.replies[m] = Append(c.replies[m], [kind |-> "formal", log |-> 0])
  BY ReplyAdded DEF ReplyKind
<1> HIDE DEF d
<1>3. e \in CaseSession /\ SameRest(d, e) /\ e.status = s /\ e.replies = d.replies
  BY <1>2, StatusSet
<1> HIDE DEF e
<1> QED BY <1>1, <1>2, <1>3 DEF SameRest, SameUsers

LEMMA Failed ==
  ASSUME NEW c \in CaseSession, NEW m \in Msg
  PROVE  \E d, e \in CaseSession :
           /\ FailureImages(c, m) = <<c, d, e>> /\ d.status = c.status /\ e.status = "partial"
           /\ \A x \in {d, e} :
                /\ SameRest(c, x) /\ \A n \in Msg : n # m => x.replies[n] = c.replies[n]
                /\ x.replies[m] = Append(c.replies[m], [kind |-> "failure", log |-> 0])
<1> DEFINE d == WithReply(c, m, "failure")
           e == WithStatus(d, "partial")
<1>1. FailureImages(c, m) = <<c, d, e>>
  BY DEF FailureImages
<1>2. /\ d \in CaseSession /\ SameRest(c, d) /\ d.status = c.status
      /\ \A n \in Msg : n # m => d.replies[n] = c.replies[n]
      /\ d.replies[m] = Append(c.replies[m], [kind |-> "failure", log |-> 0])
  BY ReplyAdded DEF ReplyKind
<1> HIDE DEF d
<1>3. e \in CaseSession /\ SameRest(d, e) /\ e.status = "partial" /\ e.replies = d.replies
  BY <1>2, StatusSet DEF Status, FinalStatus
<1> HIDE DEF e
<1> QED BY <1>1, <1>2, <1>3 DEF SameRest, SameUsers

InterruptedAs(c, m, phase, d, e, f) ==
  /\ InterruptImages(c, m, phase) = <<d, e, f>>
  /\ d.status = c.status /\ e.status = c.status /\ f.status = "partial"
  /\ d.logs = c.logs /\ e.logs = Append(c.logs, [phase |-> phase, msg |-> m]) /\ f.logs = e.logs
  /\ \A x \in {d, e, f} :
       /\ SameUsers(c, x) /\ \A n \in Msg : n # m => x.replies[n] = c.replies[n]
       /\ x.replies[m] = <<[kind |-> "placeholder", log |-> Len(c.logs) + 1]>>

LEMMA Interrupted ==
  ASSUME NEW c \in CaseSession, NEW m \in Msg, NEW phase \in InterruptedPhase
  PROVE  \E d \in CaseSession, e \in CaseSession, f \in CaseSession : InterruptedAs(c, m, phase, d, e, f)
<1> DEFINE a == WithoutReplies(c, m)
           b == WithRuns(a, 0)
           d == WithReply(b, m, "placeholder")
           e == WithLog(d, phase, m)
           f == WithStatus(e, "partial")
<1>1. InterruptImages(c, m, phase) = <<d, e, f>>
  BY DEF InterruptImages
<1>2. /\ a \in CaseSession /\ SameRest(c, a) /\ a.status = c.status
      /\ a.replies[m] = <<>> /\ \A n \in Msg : n # m => a.replies[n] = c.replies[n]
  BY RepliesCleared
<1> HIDE DEF a
<1>3. b \in CaseSession /\ SameRest(a, b) /\ b.status = a.status /\ b.replies = a.replies
  BY <1>2, RunsSet
<1> HIDE DEF b
<1>4. /\ d \in CaseSession /\ SameRest(b, d) /\ d.status = b.status
      /\ \A n \in Msg : n # m => d.replies[n] = b.replies[n]
      /\ d.replies[m] = Append(b.replies[m], [kind |-> "placeholder", log |-> Len(b.logs) + 1])
  BY <1>3, ReplyAdded DEF ReplyKind
<1> HIDE DEF d
<1>5. /\ e \in CaseSession /\ SameUsers(d, e) /\ e.status = d.status /\ e.replies = d.replies
      /\ e.logs = Append(d.logs, [phase |-> phase, msg |-> m])
  BY <1>4, LogAdded
<1> HIDE DEF e
<1>6. f \in CaseSession /\ SameRest(e, f) /\ f.status = "partial" /\ f.replies = e.replies
  BY <1>5, StatusSet DEF Status, FinalStatus
<1> HIDE DEF f
<1>7. d.replies[m] = <<[kind |-> "placeholder", log |-> Len(c.logs) + 1]>> /\ d.logs = c.logs
  BY <1>2, <1>3, <1>4 DEF SameRest
<1>8. e.logs = Append(c.logs, [phase |-> phase, msg |-> m]) /\ f.logs = e.logs
  BY <1>5, <1>6, <1>7 DEF SameRest
<1>9. \A x \in {d, e, f} :
        /\ SameUsers(c, x) /\ \A n \in Msg : n # m => x.replies[n] = c.replies[n]
        /\ x.replies[m] = d.replies[m]
  BY <1>2, <1>3, <1>4, <1>5, <1>6 DEF SameRest, SameUsers
<1>10. d.status = c.status /\ e.status = c.status /\ f.status = "partial"
  BY <1>2, <1>3, <1>4, <1>5, <1>6
<1>11. d \in CaseSession /\ e \in CaseSession /\ f \in CaseSession
  BY <1>4, <1>5, <1>6
<1>12. InterruptedAs(c, m, phase, d, e, f)
  BY <1>1, <1>7, <1>8, <1>9, <1>10 DEF InterruptedAs
<1> QED BY <1>11, <1>12

LEMMA Retried ==
  ASSUME NEW c \in CaseSession, NEW m \in Msg
  PROVE  \E d, e \in CaseSession :
           /\ RetryImages(c, m) = <<d, e>> /\ d.status = c.status /\ e.status = "ready_for_diagnosis"
           /\ \A x \in {d, e} :
                /\ SameUsers(c, x) /\ x.logs = Append(c.logs, [phase |-> "turn_retry_started", msg |-> m])
                /\ x.replies[m] = <<>> /\ \A n \in Msg : n # m => x.replies[n] = c.replies[n]
<1> DEFINE a == WithoutReplies(c, m)
           d == WithLog(a, "turn_retry_started", m)
           e == WithStatus(d, "ready_for_diagnosis")
<1>1. RetryImages(c, m) = <<d, e>>
  BY DEF RetryImages
<1>2. /\ a \in CaseSession /\ SameRest(c, a) /\ a.status = c.status
      /\ a.replies[m] = <<>> /\ \A n \in Msg : n # m => a.replies[n] = c.replies[n]
  BY RepliesCleared
<1> HIDE DEF a
<1>3. /\ d \in CaseSession /\ SameUsers(a, d) /\ d.status = a.status /\ d.replies = a.replies
      /\ d.logs = Append(a.logs, [phase |-> "turn_retry_started", msg |-> m])
  BY <1>2, LogAdded
<1> HIDE DEF d
<1>4. e \in CaseSession /\ SameRest(d, e) /\ e.status = "ready_for_diagnosis" /\ e.replies = d.replies
  BY <1>3, StatusSet DEF Status, ActiveStatus
<1> HIDE DEF e
<1> QED BY <1>1, <1>2, <1>3, <1>4 DEF SameRest, SameUsers

LEMMA UnansweredAreMessages ==
  ASSUME NEW c \in CaseSession
  PROVE  \A m \in LatestUnanswered(c) : m \in Msg /\ HasUser(c, m) /\ c.replies[m] = <<>>
<1>1. \A i \in DOMAIN c.users : c.users[i] \in Msg
  BY SessionFields
<1> QED BY <1>1 DEF LatestUnanswered, HasUser, Range

LEMMA Stale ==
  ASSUME NEW c \in CaseSession
  PROVE  \E d, e \in CaseSession :
           /\ StaleImages(c) = <<d, e>> /\ SameRest(c, d) /\ d.replies = c.replies
           /\ SameRest(c, e) /\ d.status = "partial" /\ e.status = "partial"
           /\ \/ LatestUnanswered(c) = {} /\ e.replies = c.replies
              \/ \E m \in LatestUnanswered(c) :
                   /\ e.replies[m] = Append(c.replies[m], [kind |-> "stale", log |-> 0])
                   /\ \A n \in Msg : n # m => e.replies[n] = c.replies[n]
<1> DEFINE a == WithRuns(c, 0)
           d == WithStatus(a, "partial")
           m == CHOOSE x \in LatestUnanswered(d) : TRUE
           e == IF LatestUnanswered(d) = {} THEN d ELSE WithReply(d, m, "stale")
<1>2. StaleImages(c) = <<d, e>>
  BY DEF StaleImages
<1>3. a \in CaseSession /\ SameRest(c, a) /\ a.replies = c.replies
  BY RunsSet
<1> HIDE DEF a
<1>4. d \in CaseSession /\ SameRest(a, d) /\ d.status = "partial" /\ d.replies = a.replies
  BY <1>3, StatusSet DEF Status, FinalStatus
<1> HIDE DEF d
<1>5. LatestUnanswered(d) = LatestUnanswered(c)
  BY <1>3, <1>4 DEF LatestUnanswered, SameRest, SameUsers
<1>6. CASE LatestUnanswered(d) = {}
  BY <1>2, <1>3, <1>4, <1>5, <1>6 DEF SameRest, SameUsers
<1>7. CASE LatestUnanswered(d) # {}
  <2>1. m \in LatestUnanswered(c) /\ m \in Msg
    BY <1>4, <1>5, <1>7, UnansweredAreMessages
  <2> HIDE DEF m
  <2>2. LET x == WithReply(d, m, "stale") IN
        /\ x \in CaseSession /\ SameRest(d, x) /\ x.status = d.status
        /\ \A n \in Msg : n # m => x.replies[n] = d.replies[n]
        /\ x.replies[m] = Append(d.replies[m], [kind |-> "stale", log |-> 0])
    BY <1>4, <2>1, ReplyAdded DEF ReplyKind
  <2>3. e = WithReply(d, m, "stale")
    BY <1>7
  <2> HIDE DEF e
  <2> QED BY <1>2, <1>3, <1>4, <2>1, <2>2, <2>3 DEF SameRest, SameUsers
<1> QED BY <1>6, <1>7

-----------------------------------------------------------------------------
(* What holds of every exploration: types, and which turn a stop hits. *)

\* What the log says of stops is what users asked for.
Truthful(c) ==
  \A i \in DOMAIN c.logs : c.logs[i].phase = "user_cancelled" => c.logs[i].msg \in stopped
Fine(c) == c \in CaseSession /\ Truthful(c)
AllFine(images) == Len(images) \in Nat \ {0} /\ \A i \in 1 .. Len(images) : Fine(images[i])

\* The run a turn has open is one of its copy of the record.
RunsOpen(t) == t.mem.runs >= t.open /\ (t.stage = "worker" => t.open = 1)

RestOK ==
  /\ quiet \in BOOLEAN /\ up \in BOOLEAN /\ gateway \in Runtime
  /\ queue \in [Runtime -> Seq(Entry)] /\ failing \in [Runtime -> Seq(Entry)]
  /\ accepted \subseteq Msg /\ stopped \subseteq Msg /\ closed \in BOOLEAN
  /\ crashes \in 0 .. MaxCrashes /\ retries \in 0 .. MaxRetries

StopInv ==
  /\ TypeOK
  /\ StopHitsItsTurn
  /\ \A r \in Runtime : Busy(r) => Truthful(turn[r].mem) /\ RunsOpen(turn[r])
  /\ \A r \in Runtime : Aborted(r) => active[r].msg \in stopped /\ turn[r].stage # "curated"

LEMMA FineAppended ==
  ASSUME NEW c, Fine(c), NEW d \in CaseSession, NEW phase, NEW m,
         d.logs = Append(c.logs, [phase |-> phase, msg |-> m]), phase = "user_cancelled" => m \in stopped
  PROVE  Fine(d)
<1>1. c.logs \in Seq(LogEvent) /\ d.logs \in Seq(LogEvent)
  BY SessionFields DEF Fine
<1>2. \A i \in DOMAIN d.logs : (i \in DOMAIN c.logs /\ d.logs[i] = c.logs[i]) \/ d.logs[i] = [phase |-> phase, msg |-> m]
  BY <1>1
<1> QED BY <1>2 DEF Fine, Truthful

LEMMA FineSame ==
  ASSUME NEW c, Fine(c), NEW d \in CaseSession, d.logs = c.logs PROVE Fine(d)
BY DEF Fine, Truthful

LEMMA Pair ==
  ASSUME NEW d, NEW e, Fine(d), Fine(e) PROVE AllFine(<<d, e>>)
BY DEF AllFine

LEMMA Triple ==
  ASSUME NEW d, NEW e, NEW f, Fine(d), Fine(e), Fine(f) PROVE AllFine(<<d, e, f>>)
BY DEF AllFine

LEMMA PostFine == ASSUME NEW c, Fine(c), NEW m \in Msg PROVE AllFine(PostImages(c, m))
BY Posted, FineSame, Pair DEF Fine

LEMMA FinishFine ==
  ASSUME NEW c, Fine(c), NEW m \in Msg, NEW s \in Status PROVE AllFine(FinishImages(c, m, s))
BY Finished, FineSame, Pair DEF Fine, SameRest

LEMMA FailureFine == ASSUME NEW c, Fine(c), NEW m \in Msg PROVE AllFine(FailureImages(c, m))
BY Failed, FineSame, Triple DEF Fine, SameRest

LEMMA RetryFine == ASSUME NEW c, Fine(c), NEW m \in Msg PROVE AllFine(RetryImages(c, m))
<1>1. c \in CaseSession
  BY DEF Fine
<1>2. PICK d \in CaseSession, e \in CaseSession :
        /\ RetryImages(c, m) = <<d, e>>
        /\ \A x \in {d, e} : x.logs = Append(c.logs, [phase |-> "turn_retry_started", msg |-> m])
  BY <1>1, Retried
<1>3. Fine(d) /\ Fine(e)
  BY <1>2, FineAppended
<1> QED BY <1>2, <1>3, Pair

LEMMA StaleFine == ASSUME NEW c, Fine(c) PROVE AllFine(StaleImages(c))
BY Stale, FineSame, Pair DEF Fine, SameRest

LEMMA InterruptFine ==
  ASSUME NEW c, Fine(c), NEW m \in Msg, NEW phase \in InterruptedPhase, phase = "user_cancelled" => m \in stopped
  PROVE  AllFine(InterruptImages(c, m, phase))
<1> c \in CaseSession
  BY DEF Fine
<1>1. PICK d \in CaseSession, e \in CaseSession, f \in CaseSession : InterruptedAs(c, m, phase, d, e, f)
  BY Interrupted
<1>2. Fine(d) /\ Fine(e)
  BY <1>1, FineSame, FineAppended DEF InterruptedAs
<1>3. Fine(f)
  BY <1>1, <1>2, FineSame DEF InterruptedAs
<1> QED BY <1>1, <1>2, <1>3, Triple DEF InterruptedAs

LEMMA RecordsAreFine ==
  ASSUME StopInv
  PROVE  /\ disk # None => Fine(disk)
         /\ \A r \in Runtime : Busy(r) => /\ turn[r] \in Turn /\ Fine(Mem(r)) /\ Mem(r).runs \in Nat
                                          /\ turn[r].open \in 0 .. 1 /\ Mem(r).runs >= turn[r].open
<1>1. disk # None => Fine(disk)
  BY DEF StopInv, TypeOK, StopHitsItsTurn, Fine, Truthful
<1>2. ASSUME NEW r \in Runtime, Busy(r)
      PROVE  turn[r] \in Turn
  BY <1>2 DEF StopInv, TypeOK, Busy
<1>3. ASSUME NEW r \in Runtime, Busy(r)
      PROVE  Fine(Mem(r)) /\ turn[r].open \in 0 .. 1 /\ Mem(r).runs >= turn[r].open
  BY <1>2, <1>3 DEF StopInv, Fine, Mem, Turn, RunsOpen
<1>4. ASSUME NEW r \in Runtime, Busy(r)
      PROVE  Mem(r).runs \in Nat
  BY <1>3, <1>4, SessionFields DEF Fine
<1> QED BY <1>1, <1>2, <1>3, <1>4

LEMMA LastIsFine == ASSUME NEW images, AllFine(images) PROVE Fine(Last(images))
BY DEF AllFine, Last

\* Every image some step may leave on disk is a record of the right type in
\* which no stop is logged that nobody asked for.
LEMMA InheritedAreMessages ==
  ASSUME NEW c \in CaseSession
  PROVE  \A m \in InheritedTurn(c) : m \in LatestUnanswered(c) /\ m \in Msg /\ IsActive(c)
BY UnansweredAreMessages DEF InheritedTurn

LEMMA RecoveryFine ==
  ASSUME NEW c, Fine(c), InheritedTurn(c) # {} PROVE AllFine(RecoveryImages(c))
<1> DEFINE m == CHOOSE x \in InheritedTurn(c) : TRUE
<1>1. m \in InheritedTurn(c)
  OBVIOUS
<1>2. m \in Msg
  BY <1>1, InheritedAreMessages DEF Fine
<1>3. RecoveryImages(c) = InterruptImages(c, m, "service_restarted")
  BY DEF RecoveryImages
<1> HIDE DEF m
<1> QED BY <1>2, <1>3, InterruptFine DEF InterruptedPhase

LEMMA AnswerFine ==
  ASSUME StopInv, NEW r \in Runtime, Busy(r), NEW s \in AnswerStatus(r)
  PROVE  AllFine(AnswerImages(r, s))
<1> DEFINE runs == Mem(r).runs - turn[r].open
           c == WithRuns(Mem(r), runs)
<1>1. runs \in Nat /\ Fine(Mem(r)) /\ turn[r].msg \in Msg
  BY RecordsAreFine DEF Turn
<1>2. c \in CaseSession /\ c.logs = Mem(r).logs
  <2> HIDE DEF runs
  <2> QED BY <1>1, RunsSet DEF Fine, SameRest
<1>3. s \in Status
  BY DEF AnswerStatus, Status, FinalStatus
<1>4. AnswerImages(r, s) = FinishImages(c, turn[r].msg, s)
  BY DEF AnswerImages
<1> HIDE DEF c
<1> QED BY <1>1, <1>2, <1>3, <1>4, FineSame, FinishFine

LEMMA CancelFine ==
  ASSUME StopInv, NEW r \in Runtime, Busy(r), Aborted(r)
  PROVE  AllFine(CancelImages(r))
<1>1. Fine(Mem(r)) /\ turn[r].msg \in Msg
  BY RecordsAreFine DEF Turn
<1>2. turn[r].msg \in stopped
  BY DEF StopInv, StopHitsItsTurn, ControlMatchesTurn
<1> QED BY <1>1, <1>2, InterruptFine DEF CancelImages, InterruptedPhase

LEMMA RetryableAreMessages == ASSUME NEW m \in CanRetry PROVE m \in Msg /\ disk # None
BY DEF CanRetry, Retryable

LEMMA PostableAreMessages == ASSUME NEW m \in Postable PROVE m \in Msg /\ disk # None
BY DEF Postable

LEMMA QueuedAreEntries ==
  ASSUME NEW q \in Seq(Entry), q # <<>>
  PROVE  Head(q).msg \in Msg /\ Head(q).async \in BOOLEAN /\ Tail(q) \in Seq(Entry) /\ Head(q) \in Entry
<1>1. Head(q) \in Entry /\ Tail(q) \in Seq(Entry)
  OBVIOUS
<1> QED BY <1>1 DEF Entry

LEMMA RecordedFine ==
  ASSUME StopInv, NEW r \in Runtime, CanRecord(r)
  PROVE  AllFine(FailureImages(disk, Head(failing[r]).msg))
<1>1. failing[r] \in Seq(Entry) /\ failing[r] # <<>> /\ Fine(disk)
  BY RecordsAreFine DEF CanRecord, CanCatch, StopInv, TypeOK
<1> QED BY <1>1, QueuedAreEntries, FailureFine

LEMMA UpdatesAreFine == ASSUME StopInv, NEW images \in Updates PROVE AllFine(images)
<1>1. CASE ~up
  <2>1. disk # None /\ InheritedTurn(disk) # {} /\ images = RecoveryImages(disk)
    BY <1>1 DEF Updates, Inherits
  <2> QED BY <2>1, RecordsAreFine, RecoveryFine
<1>2. CASE up
  <2>1. \/ \E m \in Postable : images = PostImages(disk, m)
        \/ \E m \in CanRetry : images = RetryImages(disk, m)
        \/ disk # None /\ images = StaleImages(disk)
        \/ \E r \in Runtime : Busy(r) /\ \E s \in AnswerStatus(r) : images = AnswerImages(r, s)
        \/ \E r \in Runtime : Busy(r) /\ Aborted(r) /\ images = CancelImages(r)
        \/ \E r \in Runtime : CanRecord(r) /\ images = FailureImages(disk, Head(failing[r]).msg)
    BY <1>2 DEF Updates, Resumes
  <2>2. CASE \E m \in Postable : images = PostImages(disk, m)
    BY <2>2, PostableAreMessages, RecordsAreFine, PostFine
  <2>3. CASE \E m \in CanRetry : images = RetryImages(disk, m)
    BY <2>3, RetryableAreMessages, RecordsAreFine, RetryFine
  <2>4. CASE disk # None /\ images = StaleImages(disk)
    BY <2>4, RecordsAreFine, StaleFine
  <2>5. CASE \E r \in Runtime : Busy(r) /\ \E s \in AnswerStatus(r) : images = AnswerImages(r, s)
    BY <2>5, AnswerFine
  <2>6. CASE \E r \in Runtime : Busy(r) /\ Aborted(r) /\ images = CancelImages(r)
    BY <2>6, CancelFine
  <2>7. CASE \E r \in Runtime : CanRecord(r) /\ images = FailureImages(disk, Head(failing[r]).msg)
    BY <2>7, RecordedFine
  <2> QED BY <2>1, <2>2, <2>3, <2>4, <2>5, <2>6, <2>7
<1> QED BY <1>1, <1>2, RecordsAreFine DEF StopInv, TypeOK

-----------------------------------------------------------------------------
(* The shapes of a step. *)

DiskFine == disk' = None \/ Fine(disk')

LEMMA DiskStep ==
  ASSUME StopInv, RestOK', UNCHANGED <<turn, active, stopped>>, DiskFine
  PROVE  StopInv'
BY DEF StopInv, TypeOK, RestOK, StopHitsItsTurn, ControlMatchesTurn, DiskFine, Fine, Truthful,
       RunsOpen, Busy, Aborted

LEMMA MoveStep ==
  ASSUME StopInv, NEW r \in Runtime, Busy(r), NEW t \in Turn, Move(r, t), Fine(t.mem), RunsOpen(t),
         t.msg = turn[r].msg, Aborted(r) => t.stage # "curated"
  PROVE  StopInv'
<1> USE DEF StopInv, TypeOK
<1>1. /\ turn' = [turn EXCEPT ![r] = t] /\ disk' = t.mem
      /\ UNCHANGED <<active, queue, failing, gateway, up, history>> /\ quiet' = FALSE
  BY DEF Move, Write
<1>2. TypeOK'
  BY <1>1 DEF Fine, history
<1>3. StopHitsItsTurn'
  BY <1>1, NoneAssumption DEF StopHitsItsTurn, ControlMatchesTurn, Busy, Fine, Truthful, history
<1>4. \A q \in Runtime : Busy(q)' => Truthful(turn[q].mem)' /\ RunsOpen(turn[q])'
  BY <1>1 DEF Busy, Fine, Truthful, RunsOpen, history
<1>5. \A q \in Runtime : Aborted(q)' => active'[q].msg \in stopped' /\ turn'[q].stage # "curated"
  BY <1>1 DEF Aborted, history
<1> QED BY <1>2, <1>3, <1>4, <1>5

LEMMA EndStep ==
  ASSUME StopInv, RestOK', NEW r \in Runtime, Busy(r), EndTurn(r), stopped' = stopped, DiskFine
  PROVE  StopInv'
<1> USE DEF StopInv, TypeOK
<1>1. turn' = [turn EXCEPT ![r] = None] /\ active' = [active EXCEPT ![r] = None]
  BY DEF EndTurn, StopHitsItsTurn, ControlMatchesTurn
<1>2. TypeOK'
  BY <1>1 DEF RestOK, DiskFine, Fine
<1>3. StopHitsItsTurn'
  BY <1>1 DEF StopHitsItsTurn, ControlMatchesTurn, Busy, DiskFine, Fine, Truthful
<1>4. \A q \in Runtime : Busy(q)' => Truthful(turn[q].mem)' /\ RunsOpen(turn[q])'
  BY <1>1 DEF Busy, Truthful, RunsOpen
<1>5. \A q \in Runtime : Aborted(q)' => active'[q].msg \in stopped' /\ turn'[q].stage # "curated"
  BY <1>1 DEF Aborted
<1> QED BY <1>2, <1>3, <1>4, <1>5

LEMMA StartStep ==
  ASSUME StopInv, RestOK', NEW r \in Runtime, MayBegin(r), Admissible(r), NEW stage \in Stage \ {"worker"},
         Start(r, stage), stopped' = stopped, DiskFine
  PROVE  StopInv'
<1> USE DEF StopInv, TypeOK
<1> DEFINE e == Head(queue[r])
           t == [msg |-> e.msg, async |-> e.async, stage |-> stage, mem |-> disk,
                 attempt |-> 0, open |-> 0, reviewed |-> FALSE]
           a == [msg |-> e.msg, aborted |-> FALSE]
<1>1. e.msg \in Msg /\ e.async \in BOOLEAN /\ disk # None /\ Fine(disk)
  BY QueuedAreEntries, RecordsAreFine DEF MayBegin, Admissible
<1>2. turn' = [turn EXCEPT ![r] = t] /\ active' = [active EXCEPT ![r] = a]
  BY DEF Start
<1>3. t \in Turn /\ a \in Control
  BY <1>1 DEF Turn, Control, Fine
<1>4. t.mem = disk /\ t.open = 0 /\ t.stage # "worker" /\ t.msg = a.msg /\ a.aborted = FALSE
  OBVIOUS
<1>5. disk.runs >= 0
  BY <1>1, SessionFields DEF Fine
<1> HIDE DEF e, t, a
<1>6. t # None /\ a # None
  BY <1>3, NoneAssumption
<1>7. TypeOK'
  BY <1>2, <1>3 DEF RestOK, DiskFine, Fine
<1>8. StopHitsItsTurn'
  BY <1>2, <1>4, <1>6 DEF StopHitsItsTurn, ControlMatchesTurn, Busy, DiskFine, Fine, Truthful
<1>9. \A q \in Runtime : Busy(q)' => Truthful(turn[q].mem)' /\ RunsOpen(turn[q])'
  BY <1>1, <1>2, <1>4, <1>5 DEF Busy, Fine, Truthful, RunsOpen
<1>10. \A q \in Runtime : Aborted(q)' => active'[q].msg \in stopped' /\ turn'[q].stage # "curated"
  <2> TAKE q \in Runtime
  <2> HAVE Aborted(q)'
  <2>1. q # r
    BY <1>2, <1>4 DEF Aborted
  <2>2. active'[q] = active[q] /\ turn'[q] = turn[q]
    BY <1>2, <2>1
  <2> QED BY <2>2 DEF Aborted
<1> QED BY <1>7, <1>8, <1>9, <1>10

LEMMA DownStep ==
  ASSUME StopInv, Down, quiet' \in BOOLEAN, DiskFine
  PROVE  StopInv'
<1>1. /\ turn' = [r \in Runtime |-> None] /\ active' = [r \in Runtime |-> None]
      /\ queue' = [r \in Runtime |-> <<>>] /\ failing' = [r \in Runtime |-> <<>>]
      /\ up' = FALSE /\ gateway' = 1 /\ crashes < MaxCrashes /\ crashes' = crashes + 1
      /\ UNCHANGED <<accepted, stopped, closed, retries>>
  BY DEF Down
<1>2. TypeOK'
  <2>1. gateway' \in Runtime
    BY <1>1, ClientAssumption DEF Runtime
  <2>2. crashes' \in 0 .. MaxCrashes
    BY <1>1, ClientAssumption DEF StopInv, TypeOK
  <2>3. disk' \in CaseSession \cup {None}
    BY DEF DiskFine, Fine
  <2>4. queue' \in [Runtime -> Seq(Entry)] /\ failing' \in [Runtime -> Seq(Entry)]
    BY <1>1
  <2>5. turn' \in [Runtime -> Turn \cup {None}] /\ active' \in [Runtime -> Control \cup {None}]
    BY <1>1
  <2> QED BY <1>1, <2>1, <2>2, <2>3, <2>4, <2>5 DEF StopInv, TypeOK
<1>3. StopHitsItsTurn'
  BY <1>1 DEF StopHitsItsTurn, ControlMatchesTurn, Busy, DiskFine, Fine, Truthful
<1> QED BY <1>1, <1>2, <1>3 DEF StopInv, Busy, Aborted

-----------------------------------------------------------------------------
(* The invariant is inductive. *)

LEMMA Rest == ASSUME StopInv PROVE RestOK
BY DEF StopInv, TypeOK, RestOK

LEMMA Saved == ASSUME NEW images, AllFine(images), Save(images) PROVE DiskFine /\ quiet' = FALSE
BY LastIsFine DEF Save, Write, DiskFine

LEMMA StopInit == Init => StopInv
<1> HAVE Init
<1>1. NewCase \in CaseSession /\ NewCase.logs = <<>>
  BY DEF NewCase, CaseSession, Status, FinalStatus
<1>2. 1 \in Runtime /\ 0 \in 0 .. MaxCrashes /\ 0 \in 0 .. MaxRetries
  BY ClientAssumption DEF Runtime
<1>3. queue \in [Runtime -> Seq(Entry)] /\ failing \in [Runtime -> Seq(Entry)]
  BY DEF Init
<1>4. turn \in [Runtime -> Turn \cup {None}] /\ active \in [Runtime -> Control \cup {None}]
  BY DEF Init
<1>5. TypeOK
  <2>1. disk \in CaseSession \cup {None} /\ gateway \in Runtime
    BY <1>1, <1>2 DEF Init
  <2>2. quiet \in BOOLEAN /\ up \in BOOLEAN /\ closed \in BOOLEAN
    BY DEF Init
  <2>3. accepted \subseteq Msg /\ stopped \subseteq Msg /\ crashes \in 0 .. MaxCrashes /\ retries \in 0 .. MaxRetries
    BY <1>2 DEF Init
  <2> QED BY <1>3, <1>4, <2>1, <2>2, <2>3 DEF TypeOK
<1>6. StopHitsItsTurn
  BY <1>1 DEF Init, StopHitsItsTurn, ControlMatchesTurn, Busy
<1> QED BY <1>5, <1>6 DEF Init, StopInv, Busy, Aborted

LEMMA Aborting ==
  ASSUME NEW a \in Control PROVE [a EXCEPT !.aborted = TRUE] = [msg |-> a.msg, aborted |-> TRUE]
<1> DEFINE b == [a EXCEPT !.aborted = TRUE]
           d == [msg |-> a.msg, aborted |-> TRUE]
<1>1. b \in Control /\ d \in Control
  BY DEF Control
<1>2. b.msg = d.msg /\ b.aborted = d.aborted
  BY DEF Control
<1> HIDE DEF b, d
<1>3. b = d
  BY <1>1, <1>2 DEF Control
<1> QED BY <1>3 DEF b, d

\* A request is handled by a runtime, which queues its message.
LEMMA Queued ==
  ASSUME StopInv, NEW m, NEW async, [msg |-> m, async |-> async] \in Entry,
         \E r \in Addressed : Enqueue(r, m, async)
  PROVE  queue' \in [Runtime -> Seq(Entry)] /\ gateway \in Runtime
<1>1. gateway \in Runtime /\ queue \in [Runtime -> Seq(Entry)]
  BY DEF StopInv, TypeOK
<1>2. PICK r \in Runtime : Enqueue(r, m, async)
  BY <1>1, ClientAssumption DEF Addressed, Runtime
<1> QED BY <1>1, <1>2 DEF Enqueue

LEMMA Requested ==
  ASSUME StopInv, Request
  PROVE  StopInv'
<1> USE Rest DEF RestOK, process, history
<1> DiskFine <=> (disk' = None \/ Fine(disk'))
  BY DEF DiskFine
<1>1. ASSUME NEW m \in Msg, Post(m)
      PROVE  StopInv'
  <2>1. DiskFine /\ quiet' = FALSE
    BY <1>1, PostableAreMessages, RecordsAreFine, PostFine, Saved DEF Post
  <2>2. queue' \in [Runtime -> Seq(Entry)] /\ gateway \in Runtime
    <3>1. [msg |-> m, async |-> m \notin SyncMsg] \in Entry
      BY DEF Entry
    <3>2. \E r \in Addressed : Enqueue(r, m, m \notin SyncMsg) BY <1>1 DEF Post
    <3> QED BY <3>1, <3>2, Queued
  <2> QED BY <1>1, <2>1, <2>2, DiskStep DEF Post
<1>2. ASSUME NEW m \in Msg, Retry(m)
      PROVE  StopInv'
  <2>1. DiskFine /\ quiet' = FALSE
    BY <1>2, RetryableAreMessages, RecordsAreFine, RetryFine, Saved DEF Retry
  <2>2. queue' \in [Runtime -> Seq(Entry)] /\ gateway \in Runtime
    <3>1. [msg |-> m, async |-> TRUE] \in Entry
      BY DEF Entry
    <3>2. \E r \in Addressed : Enqueue(r, m, TRUE) BY <1>2 DEF Retry
    <3> QED BY <3>1, <3>2, Queued
  <2>3. retries' \in 0 .. MaxRetries
    BY <1>2, ClientAssumption DEF Retry
  <2> QED BY <1>2, <2>1, <2>2, <2>3, DiskStep DEF Retry
<1>3. ASSUME NEW m \in Msg, Stop(m)
      PROVE  StopInv'
  <2>a. PICK q \in Addressed : /\ active[q] # None /\ active[q].msg = m
                               /\ active' = [active EXCEPT ![q].aborted = TRUE]
    BY <1>3 DEF Stop
  <2>b. q \in Runtime
    BY ClientAssumption DEF StopInv, TypeOK, Addressed, Runtime
  <2>1. /\ active[q] \in Control /\ active[q].msg = m /\ q \in Runtime
        /\ active' = [active EXCEPT ![q].aborted = TRUE] /\ stopped' = stopped \cup {m}
        /\ UNCHANGED <<disk, quiet, up, gateway, queue, turn, failing, accepted, closed, crashes, retries>>
        /\ MicrotasksDrained
    BY <1>3, <2>a, <2>b DEF Stop, StopInv, TypeOK, Serving
  <2>2. active' = [active EXCEPT ![q] = [msg |-> m, aborted |-> TRUE]]
    <3>1. [active[q] EXCEPT !.aborted = TRUE] = [msg |-> m, aborted |-> TRUE]
      BY <2>1, Aborting
    <3> QED BY <2>1, <3>1
  <2>3. [msg |-> m, aborted |-> TRUE] \in Control
    BY DEF Control
  <2>4. TypeOK'
    BY <2>1, <2>2, <2>3 DEF StopInv, TypeOK
  <2>5. StopHitsItsTurn'
    <3> DEFINE a == [msg |-> m, aborted |-> TRUE]
    <3>1. a # None /\ a.msg = active[q].msg /\ active[q] # None
      BY <2>1, <2>3, NoneAssumption
    <3>2. active' = [active EXCEPT ![q] = a]
      BY <2>2
    <3> HIDE DEF a
    <3> QED BY <2>1, <3>1, <3>2 DEF StopInv, StopHitsItsTurn, ControlMatchesTurn, Busy, TypeOK
  <2>6. \A r \in Runtime : Busy(r)' => Truthful(turn[r].mem)' /\ RunsOpen(turn[r])'
    BY <2>1 DEF StopInv, Truthful, RunsOpen, Busy
  <2>7. \A r \in Runtime : Aborted(r)' => active'[r].msg \in stopped' /\ turn'[r].stage # "curated"
    <3> TAKE r \in Runtime
    <3> HAVE Aborted(r)'
    <3>1. CASE r = q
      <4>1. Busy(r)
        BY <2>1, <3>1, NoneAssumption DEF StopInv, StopHitsItsTurn, ControlMatchesTurn
      <4>2. turn[r].stage # "curated"
        BY <2>1, <4>1 DEF MicrotasksDrained
      <4> QED BY <2>1, <2>2, <3>1, <4>2 DEF StopInv, TypeOK
    <3>2. CASE r # q
      <4>1. active'[r] = active[r]
        BY <2>2, <3>2 DEF StopInv, TypeOK
      <4>2. turn'[r] = turn[r] /\ stopped \subseteq stopped'
        BY <2>1
      <4>3. Aborted(r)
        BY <4>1 DEF Aborted
      <4> QED BY <4>1, <4>2, <4>3 DEF StopInv
    <3> QED BY <3>1, <3>2
  <2> QED BY <2>4, <2>5, <2>6, <2>7 DEF StopInv
<1>4. CASE ReadSession
  <2>1. DiskFine /\ quiet' = FALSE
    BY <1>4, RecordsAreFine, StaleFine, Saved DEF ReadSession
  <2> QED BY <1>4, <2>1, DiskStep DEF ReadSession
<1>5. CASE Archive
  <2>1. DiskFine /\ quiet' = FALSE
    <3> DEFINE c == [disk EXCEPT !.archived = TRUE]
    <3>1. Fine(disk) /\ disk \in CaseSession
      BY <1>5, RecordsAreFine DEF Archive, Fine
    <3>2. c \in CaseSession /\ c.logs = disk.logs
      BY <3>1 DEF CaseSession
    <3>3. disk' = c /\ quiet' = FALSE
      BY <1>5 DEF Archive, Write
    <3> HIDE DEF c
    <3> QED BY <3>1, <3>2, <3>3, FineSame
  <2> QED BY <1>5, <2>1, DiskStep DEF Archive
<1>6. CASE Edit
  <2>1. DiskFine /\ quiet' = FALSE
    BY <1>6, RecordsAreFine DEF Edit, Write
  <2> QED BY <1>6, <2>1, DiskStep DEF Edit
<1>7. CASE Delete
  BY <1>7, DiskStep DEF Delete
<1>8. CASE Reload
  <2>1. gateway' \in Runtime /\ DiskFine
    BY <1>8, RecordsAreFine, ClientAssumption DEF Reload, Runtime
  <2> QED BY <1>8, <2>1, DiskStep DEF Reload
<1> QED BY <1>1, <1>2, <1>3, <1>4, <1>5, <1>6, <1>7, <1>8 DEF Request

LEMMA Admitted ==
  ASSUME StopInv, NEW r \in Runtime, Admit(r)
  PROVE  StopInv'
<1> USE Rest DEF RestOK, history
<1>1. queue[r] \in Seq(Entry) /\ queue[r] # <<>> /\ failing[r] \in Seq(Entry)
  BY DEF Admit, Reject, Begin, Curate, MayBegin
<1>2. Head(queue[r]) \in Entry /\ Tail(queue[r]) \in Seq(Entry) /\ Head(queue[r]).msg \in Msg
  BY <1>1, QueuedAreEntries
<1>3. Dequeue(r) => queue' \in [Runtime -> Seq(Entry)]
  BY <1>2 DEF Dequeue
<1>4. CASE Reject(r)
  <2>1. failing' \in [Runtime -> Seq(Entry)]
    BY <1>1, <1>2, <1>4 DEF Reject
  <2>2. DiskFine
    BY <1>4, RecordsAreFine DEF Reject, DiskFine
  <2> QED BY <1>3, <1>4, <2>1, <2>2, DiskStep DEF Reject
<1>5. CASE Begin(r)
  <2>1. DiskFine /\ quiet' = FALSE
    BY <1>5, RecordsAreFine DEF Begin, Write, DiskFine, Admissible
  <2>2. "preflight" \in Stage \ {"worker"}
    BY DEF Stage
  <2> QED BY <1>3, <1>5, <2>1, <2>2, StartStep DEF Begin, Start
<1>6. CASE Curate(r)
  <2>1. disk # None /\ Fine(disk) /\ "waiting_user" \in Status
    BY <1>6, RecordsAreFine DEF Curate, Admissible, Status, FinalStatus
  <2>2. DiskFine /\ quiet' = FALSE
    BY <1>2, <1>6, <2>1, FinishFine, Saved DEF Curate
  <2>3. "curated" \in Stage \ {"worker"}
    BY DEF Stage
  <2> QED BY <1>3, <1>6, <2>2, <2>3, StartStep DEF Curate, Start
<1> QED BY <1>4, <1>5, <1>6 DEF Admit

Diagnosed(c, d) == SameRest(c, d) /\ d.replies = c.replies /\ IsActive(d)

LEMMA DiagnosingSet ==
  ASSUME NEW c \in CaseSession, NEW n \in Nat
  PROVE  LET d == Diagnosing(c, n) IN d \in CaseSession /\ Diagnosed(c, d) /\ d.runs = n
<1> DEFINE a == WithStatus(c, "diagnosing")
<1>1. a \in CaseSession /\ SameRest(c, a) /\ a.replies = c.replies /\ a.status = "diagnosing"
  BY StatusSet DEF Status, ActiveStatus
<1>2. Diagnosing(c, n) = WithRuns(a, n)
  BY DEF Diagnosing
<1> HIDE DEF a
<1> QED BY <1>1, <1>2, RunsSet DEF SameRest, SameUsers, Diagnosed, IsActive, ActiveStatus

\* The turn of r goes on as t.
GoesOn(r, t) ==
  /\ Busy(r) /\ up /\ turn[r].stage # "curated" /\ Move(r, t)
  /\ t.msg = turn[r].msg /\ t.async = turn[r].async /\ t.stage # "curated"
  /\ SameRest(Mem(r), t.mem) /\ t.mem.replies = Mem(r).replies
  /\ t.mem.status = Mem(r).status \/ IsActive(t.mem)
  /\ RunsOpen(t)

LEMMA Going == ASSUME StopInv, NEW r \in Runtime, NEW t \in Turn, GoesOn(r, t) PROVE StopInv'
<1>1. Fine(t.mem)
  BY RecordsAreFine, FineSame DEF Turn, SameRest, GoesOn
<1> QED BY <1>1, MoveStep DEF GoesOn

LEMMA Collected == ASSUME StopInv, NEW r \in Runtime, Collect(r) PROVE \E t \in Turn : GoesOn(r, t)
<1> DEFINE t == [turn[r] EXCEPT !.stage = "collect"]
<1>1. Busy(r) /\ up /\ turn[r].stage # "curated" /\ Move(r, t)
  BY DEF Collect, Resumes, Serving
<1>2. turn[r] \in Turn /\ Mem(r).runs >= turn[r].open
  BY <1>1, RecordsAreFine
<1>3. /\ t \in Turn /\ t.msg = turn[r].msg /\ t.async = turn[r].async /\ t.mem = turn[r].mem
      /\ t.open = turn[r].open /\ t.stage = "collect"
  BY <1>2 DEF Turn, Stage
<1> HIDE DEF t
<1>4. GoesOn(r, t)
  BY <1>1, <1>2, <1>3 DEF GoesOn, Mem, RunsOpen, SameRest, SameUsers
<1> QED BY <1>3, <1>4

LEMMA Reviewing == ASSUME StopInv, NEW r \in Runtime, ReviewOn(r) PROVE \E t \in Turn : GoesOn(r, t)
<1>1. Busy(r) /\ up /\ Move(r, turn[r]) /\ turn[r].stage = "review"
  BY DEF ReviewOn, Resumes, Serving
<1>2. turn[r] \in Turn /\ Mem(r).runs >= turn[r].open
  BY <1>1, RecordsAreFine
<1>3. GoesOn(r, turn[r])
  BY <1>1, <1>2 DEF GoesOn, Mem, RunsOpen, SameRest, SameUsers
<1> QED BY <1>2, <1>3

LEMMA SourceReviewed == ASSUME StopInv, NEW r \in Runtime, ReviewSource(r) PROVE \E t \in Turn : GoesOn(r, t)
<1>1. PICK open \in 0 .. 1 :
        Move(r, [turn[r] EXCEPT !.stage = "review", !.open = open, !.mem = Diagnosing(@, @.runs + open)])
  BY DEF ReviewSource
<1> DEFINE n == Mem(r).runs + open
           mem == Diagnosing(Mem(r), n)
           t == [turn[r] EXCEPT !.stage = "review", !.open = open, !.mem = mem]
<1>2. /\ Busy(r) /\ up /\ turn[r].stage # "curated" /\ turn[r] \in Turn
      /\ Mem(r) \in CaseSession /\ Mem(r).runs \in Nat
  BY RecordsAreFine DEF ReviewSource, Resumes, Serving, Fine
<1>3. mem \in CaseSession /\ Diagnosed(Mem(r), mem) /\ mem.runs = Mem(r).runs + open
  <2>1. n \in Nat
    BY <1>2
  <2> HIDE DEF n
  <2>2. mem \in CaseSession /\ Diagnosed(Mem(r), mem) /\ mem.runs = n
    BY <1>2, <2>1, DiagnosingSet
  <2> QED BY <2>2 DEF n
<1>4. Move(r, t)
  BY <1>1, <1>2 DEF Mem, Turn
<1> HIDE DEF mem
<1>5. /\ t \in Turn /\ t.msg = turn[r].msg /\ t.async = turn[r].async /\ t.mem = mem
      /\ t.open = open /\ t.stage = "review"
  BY <1>2, <1>3 DEF Turn, Stage
<1> HIDE DEF t
<1>6. GoesOn(r, t)
  BY <1>2, <1>3, <1>4, <1>5 DEF GoesOn, RunsOpen, Diagnosed
<1> QED BY <1>5, <1>6

LEMMA WorkerCalled == ASSUME StopInv, NEW r \in Runtime, CallWorker(r) PROVE \E t \in Turn : GoesOn(r, t)
<1> DEFINE n == Mem(r).runs + 1
           mem == Diagnosing(Mem(r), n)
           t == [turn[r] EXCEPT !.stage = "worker", !.attempt = 1, !.open = 1, !.mem = mem]
<1>1. "worker" \in Stage /\ 1 \in 0 .. 2 /\ 1 \in 0 .. 1
  BY DEF Stage
<1>2. /\ Busy(r) /\ up /\ turn[r].stage # "curated" /\ turn[r] \in Turn
      /\ Mem(r) \in CaseSession /\ Mem(r).runs \in Nat
  BY RecordsAreFine DEF CallWorker, Resumes, Serving, Fine
<1>3. mem \in CaseSession /\ Diagnosed(Mem(r), mem) /\ mem.runs = Mem(r).runs + 1
  <2>1. n \in Nat
    BY <1>2
  <2> HIDE DEF n
  <2>2. mem \in CaseSession /\ Diagnosed(Mem(r), mem) /\ mem.runs = n
    BY <1>2, <2>1, DiagnosingSet
  <2> QED BY <2>2 DEF n
<1>4. Move(r, t)
  BY <1>2 DEF Mem, Turn, CallWorker
<1> HIDE DEF mem
<1>5. /\ t \in Turn /\ t.msg = turn[r].msg /\ t.async = turn[r].async /\ t.mem = mem
      /\ t.open = 1 /\ t.stage = "worker"
  BY <1>1, <1>2, <1>3 DEF Turn
<1> HIDE DEF t
<1>6. GoesOn(r, t)
  BY <1>2, <1>3, <1>4, <1>5 DEF GoesOn, RunsOpen, Diagnosed
<1> QED BY <1>5, <1>6

LEMMA WorkerAnswered == ASSUME StopInv, NEW r \in Runtime, WorkerResult(r) PROVE \E t \in Turn : GoesOn(r, t)
<1> DEFINE n == Mem(r).runs - 1
           mem == Diagnosing(Mem(r), n)
           t == [turn[r] EXCEPT !.stage = "review", !.open = 0, !.mem = mem]
<1>1. turn[r].open = 1 /\ "review" \in Stage /\ 0 \in 0 .. 1
  BY DEF WorkerResult, Resumes, StopInv, RunsOpen, Stage
<1>2. /\ Busy(r) /\ up /\ turn[r].stage # "curated" /\ turn[r] \in Turn
      /\ Mem(r) \in CaseSession /\ n \in Nat
  <2>1. /\ Busy(r) /\ up /\ turn[r].stage # "curated" /\ turn[r] \in Turn
        /\ Fine(Mem(r)) /\ Mem(r).runs \in Nat /\ Mem(r).runs >= turn[r].open
    BY RecordsAreFine DEF WorkerResult, Resumes, Serving
  <2> QED BY <1>1, <2>1 DEF Fine
<1>3. mem \in CaseSession /\ Diagnosed(Mem(r), mem) /\ mem.runs \in Nat
  <2> HIDE DEF n
  <2> QED BY <1>2, DiagnosingSet
<1>4. Move(r, t)
  BY <1>2 DEF Mem, Turn, WorkerResult
<1> HIDE DEF mem
<1>5. /\ t \in Turn /\ t.msg = turn[r].msg /\ t.async = turn[r].async /\ t.mem = mem
      /\ t.open = 0 /\ t.stage = "review"
  BY <1>1, <1>2, <1>3 DEF Turn
<1> HIDE DEF t
<1>6. GoesOn(r, t)
  BY <1>2, <1>3, <1>4, <1>5 DEF GoesOn, RunsOpen, Diagnosed
<1> QED BY <1>5, <1>6

LEMMA FollowedUp == ASSUME StopInv, NEW r \in Runtime, FollowUp(r) PROVE \E t \in Turn : GoesOn(r, t)
<1>1. PICK reviewed \in BOOLEAN :
        Move(r, [turn[r] EXCEPT !.stage = "worker", !.attempt = 2, !.open = 1,
                                !.reviewed = reviewed, !.mem = WithRuns(@, @.runs + 1)])
  BY DEF FollowUp
<1> DEFINE n == Mem(r).runs + 1
           mem == WithRuns(Mem(r), n)
           t == [turn[r] EXCEPT !.stage = "worker", !.attempt = 2, !.open = 1, !.reviewed = reviewed, !.mem = mem]
<1>2. /\ Busy(r) /\ up /\ turn[r].stage # "curated" /\ turn[r] \in Turn
      /\ Mem(r) \in CaseSession /\ Mem(r).runs \in Nat
  BY RecordsAreFine DEF FollowUp, Resumes, Serving, Fine
<1>3. /\ mem \in CaseSession /\ SameRest(Mem(r), mem) /\ mem.runs = Mem(r).runs + 1
      /\ mem.replies = Mem(r).replies /\ mem.status = Mem(r).status
  <2>1. n \in Nat
    BY <1>2
  <2> HIDE DEF n
  <2>2. /\ mem \in CaseSession /\ SameRest(Mem(r), mem) /\ mem.runs = n
        /\ mem.replies = Mem(r).replies /\ mem.status = Mem(r).status
    BY <1>2, <2>1, RunsSet
  <2> QED BY <2>2 DEF n
<1>4. Move(r, t)
  BY <1>1, <1>2 DEF Mem, Turn
<1> HIDE DEF mem
<1>5. /\ t \in Turn /\ t.msg = turn[r].msg /\ t.async = turn[r].async /\ t.mem = mem
      /\ t.open = 1 /\ t.stage = "worker"
  <2>1. "worker" \in Stage /\ 2 \in 0 .. 2 /\ 1 \in 0 .. 1
    BY DEF Stage
  <2> QED BY <1>2, <1>3, <2>1 DEF Turn
<1> HIDE DEF t
<1>6. GoesOn(r, t)
  BY <1>2, <1>3, <1>4, <1>5 DEF GoesOn, RunsOpen
<1> QED BY <1>5, <1>6

LEMMA Ended ==
  ASSUME StopInv, NEW r \in Runtime, Answer(r) \/ EndCurated(r) \/ Cancel(r) \/ Fail(r)
  PROVE  StopInv'
<1> USE Rest DEF RestOK, history, Resumes
<1>1. CASE Answer(r)
  <2>1. DiskFine /\ quiet' = FALSE
    BY <1>1, AnswerFine, Saved DEF Answer
  <2> QED BY <1>1, <2>1, EndStep DEF Answer
<1>2. CASE EndCurated(r)
  <2>1. DiskFine
    BY <1>2, RecordsAreFine DEF EndCurated, DiskFine
  <2> QED BY <1>2, <2>1, EndStep DEF EndCurated
<1>3. CASE Cancel(r)
  <2>1. DiskFine /\ quiet' = FALSE
    BY <1>3, CancelFine, Saved DEF Cancel
  <2> QED BY <1>3, <2>1, EndStep DEF Cancel
<1>4. CASE Fail(r)
  <2>1. DiskFine
    BY <1>4, RecordsAreFine DEF Fail, DiskFine
  <2>2. failing' \in [Runtime -> Seq(Entry)]
    <3>1. turn[r] \in Turn
      BY <1>4, RecordsAreFine DEF Fail
    <3>2. [msg |-> turn[r].msg, async |-> turn[r].async] \in Entry
      BY <3>1 DEF Turn, Entry
    <3> QED BY <1>4, <3>2 DEF Fail
  <2> QED BY <1>4, <2>1, <2>2, EndStep DEF Fail
<1> QED BY <1>1, <1>2, <1>3, <1>4

LEMMA FailureRecorded == ASSUME StopInv, NEW r \in Runtime, RecordFailure(r) PROVE StopInv'
<1> USE Rest DEF RestOK, history
<1>1. failing[r] \in Seq(Entry) /\ failing[r] # <<>>
  BY DEF RecordFailure, CanCatch
<1>2. failing' \in [Runtime -> Seq(Entry)]
  BY <1>1, QueuedAreEntries DEF RecordFailure
<1>3. DiskFine /\ quiet' \in BOOLEAN
  <2>1. CASE CanRecord(r)
    BY <2>1, RecordedFine, Saved DEF RecordFailure
  <2>2. CASE ~CanRecord(r)
    BY <2>2, RecordsAreFine DEF RecordFailure, DiskFine
  <2> QED BY <2>1, <2>2
<1> QED BY <1>2, <1>3, DiskStep DEF RecordFailure

LEMMA TimeAndCrashes ==
  ASSUME StopInv, GrowQuiet \/ Crash \/ CrashBetweenSaves \/ StartServer
  PROVE  StopInv'
<1> USE Rest DEF RestOK, history, process
<1>1. CASE GrowQuiet
  <2>1. DiskFine
    BY <1>1, RecordsAreFine DEF GrowQuiet, DiskFine
  <2> QED BY <1>1, <2>1, DiskStep DEF GrowQuiet
<1>2. CASE Crash
  <2>1. DiskFine
    BY <1>2, RecordsAreFine DEF Crash, DiskFine
  <2> QED BY <1>2, <2>1, DownStep DEF Crash
<1>3. CASE CrashBetweenSaves
  <2>1. PICK images \in Updates : \E i \in 1 .. Len(images) - 1 : Write(images[i])
    BY <1>3 DEF CrashBetweenSaves
  <2>2. AllFine(images)
    BY UpdatesAreFine
  <2>3. DiskFine /\ quiet' \in BOOLEAN
    <3>1. PICK i \in 1 .. Len(images) - 1 : Write(images[i])
      BY <2>1
    <3>2. i \in 1 .. Len(images)
      BY <2>2 DEF AllFine
    <3> QED BY <2>2, <3>1, <3>2 DEF AllFine, Write, DiskFine
  <2> QED BY <1>3, <2>3, DownStep DEF CrashBetweenSaves
<1>4. CASE StartServer
  <2>1. DiskFine /\ quiet' \in BOOLEAN
    <3>1. CASE Inherits
      BY <1>4, <3>1, RecordsAreFine, RecoveryFine, Saved DEF StartServer, Inherits
    <3>2. CASE ~Inherits
      BY <1>4, <3>2, RecordsAreFine DEF StartServer, DiskFine
    <3> QED BY <3>1, <3>2
  <2> QED BY <1>4, <2>1, DiskStep DEF StartServer
<1> QED BY <1>1, <1>2, <1>3, <1>4

LEMMA StopStep == StopInv /\ [Next]_vars => StopInv'
<1> SUFFICES ASSUME StopInv, [Next]_vars PROVE StopInv'
  OBVIOUS
<1>1. CASE Request
  BY <1>1, Requested
<1>2. ASSUME NEW r \in Runtime, Admit(r) PROVE StopInv'
  BY <1>2, Admitted
<1>3. ASSUME NEW r \in Runtime, Progress(r) PROVE StopInv'
  BY <1>3, Collected, Reviewing, Going DEF Progress
<1>4. ASSUME NEW r \in Runtime, Advance(r) PROVE StopInv'
  BY <1>4, SourceReviewed, WorkerCalled, WorkerAnswered, FollowedUp, Going, Ended DEF Advance
<1>5. ASSUME NEW r \in Runtime, RecordFailure(r) PROVE StopInv'
  BY <1>5, FailureRecorded
<1>6. CASE GrowQuiet \/ Crash \/ CrashBetweenSaves \/ StartServer
  BY <1>6, TimeAndCrashes
<1>7. CASE UNCHANGED vars
  <2>1. UNCHANGED <<disk, turn, active, stopped>> /\ RestOK'
    BY <1>7, Rest DEF vars, process, history, RestOK
  <2>2. DiskFine
    BY <2>1, RecordsAreFine DEF DiskFine
  <2> QED BY <2>1, <2>2, DiskStep
<1> QED BY <1>1, <1>2, <1>3, <1>4, <1>5, <1>6, <1>7 DEF Next

\* The control entry of InvestigationControl is that of the turn that runs, and
\* what the copies of the record log of stops is what users asked for: whatever
\* overlaps, whatever is deleted, and wherever a crash strikes.
THEOREM StopInvariant == Spec => []StopInv
BY StopInit, StopStep, PTL DEF Spec

\* Every variable of the turns of a case has the type its declaration states,
\* in every state the server can reach.
THEOREM TypeCorrect == Spec => []TypeOK
BY StopInvariant, PTL DEF StopInv

\* POST /api/chat/cancel ends the turn it is meant for and no other.
THEOREM StopEndsTheTurnItNames == Spec => []StopHitsItsTurn
BY StopInvariant, PTL DEF StopInv

-----------------------------------------------------------------------------
(* How a stopped turn ends. *)

LEMMA FinishedIsNotRetryable ==
  ASSUME NEW c \in CaseSession, NEW m \in Msg, NEW s \in Status
  PROVE  LET x == Last(FinishImages(c, m, s)) IN
         /\ x.status = s /\ \E reply \in Bound(x, m) : reply.kind = "formal"
         /\ m \notin Retryable(x)
<1> DEFINE reply == [kind |-> "formal", log |-> 0]
<1>1. PICK d \in CaseSession, e \in CaseSession :
        /\ FinishImages(c, m, s) = <<d, e>> /\ e.status = s
        /\ e.replies[m] = Append(c.replies[m], reply)
  BY Finished
<1>2. c.replies[m] \in Seq(Reply) /\ reply \in Reply
  BY SessionFields DEF Reply, ReplyKind
<1>3. Last(FinishImages(c, m, s)) = e
  BY <1>1 DEF Last
<1> HIDE DEF reply
<1>4. reply \in Bound(e, m)
  BY <1>1, <1>2 DEF Bound, Range
<1>5. reply.kind = "formal"
  BY DEF reply
<1>6. m \notin Retryable(e)
  <2> SUFFICES ASSUME NEW i, Bound(e, m) = {[kind |-> "placeholder", log |-> i]}
               PROVE  FALSE
    BY DEF Retryable
  <2>1. reply = [kind |-> "placeholder", log |-> i]
    BY <1>4
  <2> QED BY <1>5, <2>1
<1> QED BY <1>1, <1>3, <1>4, <1>5, <1>6

LEMMA InterruptedIsRetryable ==
  ASSUME NEW c \in CaseSession, NEW m \in Msg, NEW phase \in InterruptedPhase
  PROVE  LET x == Last(InterruptImages(c, m, phase)) IN
         /\ x.status = "partial" /\ m \in Retryable(x)
         /\ ~\E reply \in Bound(x, m) : reply.kind = "formal"
<1> DEFINE n == Len(c.logs) + 1
           reply == [kind |-> "placeholder", log |-> n]
           event == [phase |-> phase, msg |-> m]
<1>1. PICK d \in CaseSession, e \in CaseSession, f \in CaseSession : InterruptedAs(c, m, phase, d, e, f)
  BY Interrupted
<1>2. Last(InterruptImages(c, m, phase)) = f
  BY <1>1 DEF Last, InterruptedAs
<1>3. f.status = "partial" /\ f.logs = Append(c.logs, event) /\ f.replies[m] = <<reply>>
  BY <1>1 DEF InterruptedAs
<1>4. c.logs \in Seq(LogEvent) /\ event \in LogEvent
  BY SessionFields DEF LogEvent
<1>5. event.phase = phase /\ event.msg = m /\ reply.kind = "placeholder"
  OBVIOUS
<1> HIDE DEF event, reply
<1>6. Bound(f, m) = {reply}
  BY <1>3 DEF Bound, Range
<1>7. n \in DOMAIN f.logs /\ f.logs[n] = event /\ n + 1 .. Len(f.logs) = {}
  BY <1>3, <1>4
<1>8. m \in Retryable(f)
  BY <1>5, <1>6, <1>7 DEF Retryable, reply
<1> QED BY <1>2, <1>3, <1>5, <1>6, <1>8

LEMMA Settling ==
  ASSUME StopInv, [Next]_vars, NEW r \in Runtime, Busy(r), Aborted(r), ~Busy(r)', up'
  PROVE  Answer(r) \/ Cancel(r)
<1>1. StopInv'
  BY StopStep
<1>2. active'[r] = None /\ active[r] # None /\ turn[r].stage # "curated" /\ turn' # turn
  BY <1>1 DEF StopInv, StopHitsItsTurn, ControlMatchesTurn, Aborted, Busy
<1>3. CASE Request
  BY <1>2, <1>3 DEF Request, Post, Retry, Stop, ReadSession, Archive, Edit, Delete, Reload, process, Write
<1>4. ASSUME NEW q \in Runtime, Admit(q) PROVE FALSE
  <2>1. ~Busy(q) /\ q # r
    BY <1>4 DEF Admit, Reject, Begin, Curate, MayBegin
  <2>2. turn'[r] = turn[r]
    BY <1>4, <2>1 DEF Admit, Reject, Begin, Curate, Start, StopInv, TypeOK
  <2> QED BY <2>2 DEF Busy
<1>5. ASSUME NEW q \in Runtime, Progress(q) PROVE FALSE
  BY <1>2, <1>5 DEF Progress, Collect, ReviewOn, Move
<1>6. ASSUME NEW q \in Runtime, Advance(q) PROVE Answer(r) \/ Cancel(r)
  <2>1. CASE ReviewSource(q) \/ CallWorker(q) \/ WorkerResult(q) \/ FollowUp(q)
    BY <1>2, <2>1 DEF ReviewSource, CallWorker, WorkerResult, FollowUp, Move
  <2>2. CASE Answer(q) \/ EndCurated(q) \/ Cancel(q) \/ Fail(q)
    <3>1. turn' = [turn EXCEPT ![q] = None]
      BY <2>2 DEF Answer, EndCurated, Cancel, Fail, EndTurn
    <3>2. q = r
      BY <3>1 DEF Busy, StopInv, TypeOK
    <3> QED BY <1>2, <2>2, <3>2 DEF EndCurated, Fail
  <2> QED BY <1>6, <2>1, <2>2 DEF Advance
<1>7. ASSUME NEW q \in Runtime, RecordFailure(q) PROVE FALSE
  BY <1>2, <1>7 DEF RecordFailure
<1>8. CASE GrowQuiet \/ Crash \/ CrashBetweenSaves \/ StartServer
  BY <1>2, <1>8 DEF GrowQuiet, Crash, CrashBetweenSaves, StartServer, Down, process
<1>9. CASE UNCHANGED vars
  BY <1>2, <1>9 DEF vars, process
<1> QED BY <1>3, <1>4, <1>5, <1>6, <1>7, <1>8, <1>9 DEF Next

\* A turn the user stopped leaves the case in `partial`, with an answer that a
\* review accepted, or with a placeholder the user may retry from.
THEOREM StoppedTurnSettles == Spec => StoppedTurnIsSettled
<1> DEFINE Settled ==
      \A r \in Runtime :
        Busy(r) /\ Aborted(r) /\ ~Busy(r)' /\ up' =>
          LET m == turn[r].msg IN
          /\ disk'.status = "partial"
          /\ m \in Retryable(disk') <=> ~\E reply \in Bound(disk', m) : reply.kind = "formal"
<1>1. ASSUME StopInv, [Next]_vars PROVE Settled
  <2> SUFFICES ASSUME NEW r \in Runtime, Busy(r), Aborted(r), ~Busy(r)', up'
               PROVE  LET m == turn[r].msg IN
                      /\ disk'.status = "partial"
                      /\ m \in Retryable(disk') <=> ~\E reply \in Bound(disk', m) : reply.kind = "formal"
    OBVIOUS
  <2>1. Answer(r) \/ Cancel(r)
    BY <1>1, Settling
  <2>2. turn[r].msg \in Msg /\ Mem(r) \in CaseSession /\ Mem(r).runs - turn[r].open \in Nat
    BY <1>1, RecordsAreFine DEF Turn, Fine
  <2>3. CASE Answer(r)
    <3>1. PICK s \in AnswerStatus(r) : disk' = Last(AnswerImages(r, s))
      BY <2>3 DEF Answer, Save, Write
    <3>2. s = "partial" /\ s \in Status
      BY DEF AnswerStatus, Status, FinalStatus
    <3> DEFINE runs == Mem(r).runs - turn[r].open
               c == WithRuns(Mem(r), runs)
    <3>3. c \in CaseSession
      <4> HIDE DEF runs
      <4> QED BY <2>2, RunsSet DEF runs
    <3>4. AnswerImages(r, s) = FinishImages(c, turn[r].msg, s)
      BY DEF AnswerImages
    <3> HIDE DEF c
    <3> QED BY <2>2, <3>1, <3>2, <3>3, <3>4, FinishedIsNotRetryable
  <2>4. CASE Cancel(r)
    <3>1. disk' = Last(InterruptImages(Mem(r), turn[r].msg, "user_cancelled"))
      BY <2>4 DEF Cancel, Save, Write, CancelImages
    <3> QED BY <2>2, <3>1, InterruptedIsRetryable DEF InterruptedPhase
  <2> QED BY <2>1, <2>3, <2>4
<1> QED BY <1>1, StopInvariant, PTL DEF Spec, StoppedTurnIsSettled

-----------------------------------------------------------------------------
(* What an image of the record adds to what it says of the messages. *)

SameWords(c, d) == d.users = c.users /\ d.replies = c.replies /\ d.logs = c.logs

\* Nothing changes but for the replies and the logs about m.
Touches(c, d, m) ==
  /\ d.users = c.users /\ \A n \in Msg : n # m => d.replies[n] = c.replies[n]
  /\ \/ d.logs = c.logs
     \/ \E phase \in InterruptedPhase \cup {"turn_retry_started"} :
          d.logs = Append(c.logs, [phase |-> phase, msg |-> m])

RetryLogged(c, m) == [phase |-> "turn_retry_started", msg |-> m] \in Range(c.logs)
Awaits(c, m) == HasUser(c, m) /\ c.replies[m] = <<>>

Says(c, d, m) == Awaits(c, m) /\ Touches(c, d, m) /\ Len(d.replies[m]) = 1
Reopens(c, d, m) == HasUser(c, m) /\ Touches(c, d, m) /\ d.replies[m] = <<>> /\ RetryLogged(d, m)
Accepts(c, d, m) == /\ ~HasUser(c, m) /\ d.users = Append(c.users, m)
                    /\ d.replies = c.replies /\ d.logs = c.logs

LEMMA FirstReply == ASSUME NEW said, NEW reply, said = <<>> PROVE Len(Append(said, reply)) = 1 /\ Len(<<reply>>) = 1
OBVIOUS

LEMMA FinishSays ==
  ASSUME NEW c \in CaseSession, NEW m \in Msg, NEW s \in Status, Awaits(c, m)
  PROVE  LET images == FinishImages(c, m, s) IN
         Len(images) = 2 /\ \A i \in 1 .. 2 : images[i] \in CaseSession /\ Says(c, images[i], m)
<1>1. PICK d \in CaseSession, e \in CaseSession :
        /\ FinishImages(c, m, s) = <<d, e>>
        /\ \A x \in {d, e} :
             /\ SameRest(c, x) /\ \A n \in Msg : n # m => x.replies[n] = c.replies[n]
             /\ x.replies[m] = Append(c.replies[m], [kind |-> "formal", log |-> 0])
  BY Finished
<1>2. \A x \in {d, e} : Len(x.replies[m]) = 1
  <2> DEFINE reply == [kind |-> "formal", log |-> 0]
  <2>1. \A x \in {d, e} : x.replies[m] = Append(c.replies[m], reply)
    BY <1>1
  <2> HIDE DEF reply
  <2> QED BY <2>1, FirstReply DEF Awaits
<1>3. \A x \in {d, e} : Says(c, x, m)
  BY <1>1, <1>2 DEF Says, Touches, SameRest, SameUsers
<1> QED BY <1>1, <1>3

LEMMA FailureSays ==
  ASSUME NEW c \in CaseSession, NEW m \in Msg, Awaits(c, m)
  PROVE  LET images == FailureImages(c, m) IN
         /\ Len(images) = 3 /\ images[1] = c
         /\ \A i \in 2 .. 3 : images[i] \in CaseSession /\ Says(c, images[i], m)
<1>1. PICK d \in CaseSession, e \in CaseSession :
        /\ FailureImages(c, m) = <<c, d, e>>
        /\ \A x \in {d, e} :
             /\ SameRest(c, x) /\ \A n \in Msg : n # m => x.replies[n] = c.replies[n]
             /\ x.replies[m] = Append(c.replies[m], [kind |-> "failure", log |-> 0])
  BY Failed
<1>2. \A x \in {d, e} : Len(x.replies[m]) = 1
  <2> DEFINE reply == [kind |-> "failure", log |-> 0]
  <2>1. \A x \in {d, e} : x.replies[m] = Append(c.replies[m], reply)
    BY <1>1
  <2> HIDE DEF reply
  <2> QED BY <2>1, FirstReply DEF Awaits
<1>3. \A x \in {d, e} : Says(c, x, m)
  BY <1>1, <1>2 DEF Says, Touches, SameRest, SameUsers
<1> QED BY <1>1, <1>3

LEMMA InterruptSays ==
  ASSUME NEW c \in CaseSession, NEW m \in Msg, NEW phase \in InterruptedPhase, Awaits(c, m)
  PROVE  LET images == InterruptImages(c, m, phase) IN
         Len(images) = 3 /\ \A i \in 1 .. 3 : images[i] \in CaseSession /\ Says(c, images[i], m)
<1>1. PICK d \in CaseSession, e \in CaseSession, f \in CaseSession : InterruptedAs(c, m, phase, d, e, f)
  BY Interrupted
<1>2. \A x \in {d, e, f} : Len(x.replies[m]) = 1
  <2> DEFINE reply == [kind |-> "placeholder", log |-> Len(c.logs) + 1]
  <2>1. \A x \in {d, e, f} : x.replies[m] = <<reply>>
    BY <1>1 DEF InterruptedAs
  <2> HIDE DEF reply
  <2> QED BY <2>1, FirstReply
<1>3. \A x \in {d, e, f} : Touches(c, x, m)
  <2> DEFINE event == [phase |-> phase, msg |-> m]
  <2>1. d.logs = c.logs /\ e.logs = Append(c.logs, event) /\ f.logs = e.logs
    BY <1>1 DEF InterruptedAs
  <2>2. \A x \in {d, e, f} : x.users = c.users /\ \A n \in Msg : n # m => x.replies[n] = c.replies[n]
    BY <1>1 DEF InterruptedAs, SameUsers
  <2> QED BY <2>1, <2>2 DEF Touches
<1>4. \A x \in {d, e, f} : Says(c, x, m)
  BY <1>2, <1>3 DEF Says
<1>5. InterruptImages(c, m, phase) = <<d, e, f>>
  BY <1>1 DEF InterruptedAs
<1> QED BY <1>4, <1>5

LEMMA RetryReopens ==
  ASSUME NEW c \in CaseSession, NEW m \in Msg, HasUser(c, m)
  PROVE  LET images == RetryImages(c, m) IN
         Len(images) = 2 /\ \A i \in 1 .. 2 : images[i] \in CaseSession /\ Reopens(c, images[i], m)
<1> DEFINE event == [phase |-> "turn_retry_started", msg |-> m]
<1>1. PICK d \in CaseSession, e \in CaseSession :
        /\ RetryImages(c, m) = <<d, e>>
        /\ \A x \in {d, e} :
             /\ SameUsers(c, x) /\ x.logs = Append(c.logs, event)
             /\ x.replies[m] = <<>> /\ \A n \in Msg : n # m => x.replies[n] = c.replies[n]
  BY Retried
<1>2. c.logs \in Seq(LogEvent) /\ event \in LogEvent
  BY SessionFields DEF LogEvent
<1>3. \A x \in {d, e} : Touches(c, x, m)
  BY <1>1 DEF Touches, SameUsers
<1>4. \A x \in {d, e} : event \in Range(x.logs)
  <2> HIDE DEF event
  <2> TAKE x \in {d, e}
  <2>1. x.logs = Append(c.logs, event)
    BY <1>1
  <2>2. Len(c.logs) + 1 \in DOMAIN x.logs /\ x.logs[Len(c.logs) + 1] = event
    BY <1>2, <2>1
  <2> QED BY <2>2 DEF Range
<1>5. \A x \in {d, e} : Reopens(c, x, m)
  BY <1>1, <1>3, <1>4 DEF Reopens, RetryLogged
<1> QED BY <1>1, <1>5

LEMMA PostAccepts ==
  ASSUME NEW c \in CaseSession, NEW m \in Msg, ~HasUser(c, m)
  PROVE  LET images == PostImages(c, m) IN
         Len(images) = 2 /\ \A i \in 1 .. 2 : images[i] \in CaseSession /\ Accepts(c, images[i], m)
BY Posted DEF Accepts

LEMMA StaleSays ==
  ASSUME NEW c \in CaseSession
  PROVE  LET images == StaleImages(c) IN
         /\ Len(images) = 2 /\ \A i \in 1 .. 2 : images[i] \in CaseSession
         /\ SameWords(c, images[1])
         /\ SameWords(c, images[2]) \/ \E m \in Msg : Says(c, images[2], m)
<1>1. PICK d \in CaseSession, e \in CaseSession :
        /\ StaleImages(c) = <<d, e>> /\ SameRest(c, d) /\ d.replies = c.replies /\ SameRest(c, e)
        /\ \/ LatestUnanswered(c) = {} /\ e.replies = c.replies
           \/ \E m \in LatestUnanswered(c) :
                /\ e.replies[m] = Append(c.replies[m], [kind |-> "stale", log |-> 0])
                /\ \A n \in Msg : n # m => e.replies[n] = c.replies[n]
  BY Stale
<1>2. SameWords(c, d)
  BY <1>1 DEF SameWords, SameRest, SameUsers
<1>3. CASE LatestUnanswered(c) = {}
  BY <1>1, <1>2, <1>3 DEF SameWords, SameRest, SameUsers
<1>4. CASE LatestUnanswered(c) # {}
  <2>1. PICK m \in LatestUnanswered(c) :
          /\ e.replies[m] = Append(c.replies[m], [kind |-> "stale", log |-> 0])
          /\ \A n \in Msg : n # m => e.replies[n] = c.replies[n]
    BY <1>1, <1>4
  <2>2. m \in Msg /\ Awaits(c, m)
    BY UnansweredAreMessages DEF Awaits
  <2>3. Says(c, e, m)
    BY <1>1, <2>1, <2>2 DEF Says, Touches, Awaits, SameRest, SameUsers
  <2> QED BY <1>1, <1>2, <2>2, <2>3
<1> QED BY <1>3, <1>4

-----------------------------------------------------------------------------
(* One turn at a time: what holds when clients wait for the reply.  *)

\* A record: one reply a message, and nothing about messages it does not have.
Good(c) ==
  /\ \A m \in Msg : Len(c.replies[m]) <= 1 /\ (c.replies[m] # <<>> => HasUser(c, m))
  /\ \A i \in DOMAIN c.logs : HasUser(c, c.logs[i].msg)

\* m is at work: the newest message, of which nothing is logged, or a retry.
FirstTry(c, m) == /\ IsActive(c) /\ c.users # <<>> /\ Last(c.users) = m
                  /\ \A i \in DOMAIN c.logs : c.logs[i].msg # m
AtWork(c, m) == Awaits(c, m) /\ (FirstTry(c, m) \/ RetryLogged(c, m))

\* The messages posted for the background are answered, but for those of J.
Settled(c, J) ==
  \A m \in (accepted \ SyncMsg) \ J : c.replies[m] # <<>> \/ (crashes > 0 /\ RetryLogged(c, m))
\* The same in a record a crash has left behind.
Recoverable(c) ==
  \A m \in accepted \ SyncMsg :
    c.replies[m] # <<>> \/ RetryLogged(c, m) \/ (Awaits(c, m) /\ FirstTry(c, m))

LEMMA AppendedLogs ==
  ASSUME NEW c \in CaseSession, NEW d \in CaseSession, NEW phase, NEW m,
         d.logs = Append(c.logs, [phase |-> phase, msg |-> m])
  PROVE  /\ \A i \in DOMAIN d.logs : (i \in DOMAIN c.logs /\ d.logs[i] = c.logs[i]) \/ d.logs[i].msg = m
         /\ \A i \in DOMAIN c.logs : i \in DOMAIN d.logs /\ d.logs[i] = c.logs[i]
<1> DEFINE event == [phase |-> phase, msg |-> m]
<1>1. c.logs \in Seq(LogEvent) /\ d.logs \in Seq(LogEvent) /\ event.msg = m /\ d.logs = Append(c.logs, event)
  BY SessionFields
<1> HIDE DEF event
<1>2. \A i \in DOMAIN d.logs : (i \in DOMAIN c.logs /\ d.logs[i] = c.logs[i]) \/ d.logs[i] = event
  BY <1>1
<1>3. \A i \in DOMAIN c.logs : i \in DOMAIN d.logs /\ d.logs[i] = c.logs[i]
  BY <1>1
<1> QED BY <1>1, <1>2, <1>3

LEMMA TouchedLogs ==
  ASSUME NEW c \in CaseSession, NEW d \in CaseSession, NEW m \in Msg, Touches(c, d, m)
  PROVE  /\ \A i \in DOMAIN d.logs : (i \in DOMAIN c.logs /\ d.logs[i] = c.logs[i]) \/ d.logs[i].msg = m
         /\ \A n \in Msg : RetryLogged(c, n) => RetryLogged(d, n)
<1>1. CASE d.logs = c.logs
  BY <1>1 DEF RetryLogged
<1>2. CASE d.logs # c.logs
  <2>1. PICK phase \in InterruptedPhase \cup {"turn_retry_started"} :
          d.logs = Append(c.logs, [phase |-> phase, msg |-> m])
    BY <1>2 DEF Touches
  <2>2. /\ \A i \in DOMAIN d.logs : (i \in DOMAIN c.logs /\ d.logs[i] = c.logs[i]) \/ d.logs[i].msg = m
        /\ \A i \in DOMAIN c.logs : i \in DOMAIN d.logs /\ d.logs[i] = c.logs[i]
    BY <2>1, AppendedLogs
  <2>3. \A e \in Range(c.logs) : e \in Range(d.logs)
    BY <2>2 DEF Range
  <2> QED BY <2>2, <2>3 DEF RetryLogged
<1> QED BY <1>1, <1>2

LEMMA TouchedGood ==
  ASSUME NEW c \in CaseSession, NEW d \in CaseSession, NEW m \in Msg, Touches(c, d, m), Good(c),
         HasUser(c, m), Len(d.replies[m]) <= 1
  PROVE  Good(d)
<1>1. \A n : HasUser(d, n) <=> HasUser(c, n)
  BY DEF Touches, HasUser
<1>2. \A n \in Msg : Len(d.replies[n]) <= 1 /\ (d.replies[n] # <<>> => HasUser(d, n))
  BY <1>1 DEF Touches, Good
<1>3. \A i \in DOMAIN d.logs : HasUser(d, d.logs[i].msg)
  BY <1>1, TouchedLogs DEF Good
<1> QED BY <1>2, <1>3 DEF Good

LEMMA TouchedSettled ==
  ASSUME NEW c \in CaseSession, NEW d \in CaseSession, NEW m \in Msg, Touches(c, d, m), accepted \subseteq Msg
  PROVE  Settled(c, {m}) => Settled(d, {m})
BY TouchedLogs DEF Touches, Settled

LEMMA OneReply == ASSUME NEW q \in Seq(Reply), Len(q) = 1 PROVE Len(q) <= 1 /\ q # <<>>
OBVIOUS

LEMMA Answered ==
  ASSUME NEW c \in CaseSession, NEW d \in CaseSession, NEW m \in Msg, Says(c, d, m), Good(c), accepted \subseteq Msg
  PROVE  Good(d) /\ (Settled(c, {m}) => Settled(d, {}))
<1>1. /\ Touches(c, d, m) /\ HasUser(c, m) /\ Len(d.replies[m]) <= 1 /\ d.replies[m] # <<>>
  <2>1. Touches(c, d, m) /\ HasUser(c, m) /\ Len(d.replies[m]) = 1
    BY DEF Says, Awaits
  <2>2. d.replies[m] \in Seq(Reply)
    BY SessionFields
  <2> QED BY <2>1, <2>2, OneReply
<1>2. Good(d)
  BY <1>1, TouchedGood
<1>3. Settled(c, {m}) => Settled(d, {m})
  BY <1>1, TouchedSettled
<1> QED BY <1>1, <1>2, <1>3 DEF Settled

LEMMA Reopened ==
  ASSUME NEW c \in CaseSession, NEW d \in CaseSession, NEW m \in Msg, Reopens(c, d, m), Good(c), accepted \subseteq Msg
  PROVE  /\ Good(d) /\ AtWork(d, m) /\ (Settled(c, {m}) => Settled(d, {m}))
<1>1. Touches(c, d, m) /\ HasUser(c, m) /\ d.replies[m] = <<>> /\ RetryLogged(d, m)
  BY DEF Reopens
<1>2. Good(d)
  BY <1>1, TouchedGood
<1>3. AtWork(d, m)
  BY <1>1 DEF AtWork, Awaits, HasUser, Touches
<1> QED BY <1>1, <1>2, <1>3, TouchedSettled

LEMMA LastAppended ==
  ASSUME NEW S, NEW q \in Seq(S), NEW x \in S
  PROVE  LET p == Append(q, x) IN
         /\ p # <<>> /\ Last(p) = x /\ x \in Range(p) /\ \A y \in Range(q) : y \in Range(p)
<1> DEFINE p == Append(q, x)
<1>1. p \in Seq(S) /\ Len(p) = Len(q) + 1 /\ p[Len(q) + 1] = x /\ \A i \in 1 .. Len(q) : p[i] = q[i]
  OBVIOUS
<1> HIDE DEF p
<1>2. Last(p) = x /\ p # <<>>
  BY <1>1 DEF Last
<1>3. x \in Range(p)
  BY <1>1 DEF Range
<1>4. ASSUME NEW y \in Range(q) PROVE y \in Range(p)
  BY <1>1 DEF Range
<1> QED BY <1>2, <1>3, <1>4 DEF p

LEMMA Accepted ==
  ASSUME NEW c \in CaseSession, NEW d \in CaseSession, NEW m \in Msg, Accepts(c, d, m), Good(c)
  PROVE  /\ Good(d) /\ \A J : Settled(c, J) => Settled(d, J)
         /\ Awaits(d, m) /\ (IsActive(d) => FirstTry(d, m))
<1>1. c.users \in Seq(Msg) /\ d.users = Append(c.users, m)
  BY SessionFields DEF Accepts
<1>2. /\ d.users # <<>> /\ Last(d.users) = m /\ HasUser(d, m)
      /\ \A n : HasUser(c, n) => HasUser(d, n)
  BY <1>1, LastAppended DEF HasUser
<1>3. d.replies = c.replies /\ d.logs = c.logs /\ ~HasUser(c, m)
  BY DEF Accepts
<1>4. Good(d)
  BY <1>2, <1>3 DEF Good
<1>5. c.replies[m] = <<>> /\ \A i \in DOMAIN c.logs : c.logs[i].msg # m
  BY <1>3 DEF Good
<1>6. \A J : Settled(c, J) => Settled(d, J)
  BY <1>3 DEF Settled, RetryLogged
<1> QED BY <1>2, <1>3, <1>4, <1>5, <1>6 DEF Awaits, FirstTry

LEMMA SameGood ==
  ASSUME NEW c, NEW d, SameWords(c, d)
  PROVE  /\ Good(c) => Good(d)
         /\ \A J : Settled(c, J) => Settled(d, J)
         /\ \A m : Awaits(c, m) => Awaits(d, m)
         /\ \A m : AtWork(c, m) /\ (d.status = c.status \/ IsActive(d)) => AtWork(d, m)
BY DEF SameWords, Good, Settled, RetryLogged, Awaits, HasUser, AtWork, FirstTry, IsActive

LEMMA RecoverableWhen ==
  ASSUME NEW c
  PROVE  /\ Settled(c, {}) => Recoverable(c)
         /\ \A m : Settled(c, {m}) /\ AtWork(c, m) => Recoverable(c)
BY DEF Settled, Recoverable, AtWork

-----------------------------------------------------------------------------
(* The invariant of the instances in which clients wait for the reply: there
is one job of the case at most, queued, executing or failing. *)

Executing(r) == Busy(r) /\ turn[r].stage # "curated"

OneJob ==
  /\ \A r \in Runtime : Len(queue[r]) <= 1 /\ Len(failing[r]) <= 1
  /\ \A r, q \in Runtime :
       /\ queue[r] # <<>> => ~Busy(q) /\ failing[q] = <<>> /\ (q = r \/ queue[q] = <<>>)
       /\ failing[r] # <<>> => ~Busy(q) /\ (q = r \/ failing[q] = <<>>)
       /\ Busy(r) /\ Busy(q) => q = r
  /\ ~up \/ quiet => Idle

\* A record in which m is at work, and nothing else is left unanswered.
WorksOn(c, m) == AtWork(c, m) /\ Settled(c, {m})
Ready(e) == /\ disk # None => WorksOn(disk, e.msg)
            /\ e.msg \notin SyncMsg => e.async
Runs(r) == /\ WorksOn(Mem(r), turn[r].msg) /\ Good(Mem(r))
           /\ disk # None => SameWords(Mem(r), disk) /\ disk.status = Mem(r).status
           /\ turn[r].msg \notin SyncMsg => turn[r].async

JobInv ==
  /\ OneJob
  /\ disk # None => Good(disk)
  /\ ~up => crashes > 0 /\ (disk # None => Recoverable(disk))
  /\ up /\ disk # None /\ (Idle \/ \E r \in Runtime : Busy(r) /\ ~Executing(r)) => Settled(disk, {})
  /\ \A r \in Runtime : /\ queue[r] # <<>> => Ready(Head(queue[r]))
                        /\ failing[r] # <<>> => Ready(Head(failing[r]))
                        /\ Executing(r) => Runs(r)

LEMMA IdleAfter ==
  ASSUME Idle', accepted' = accepted, disk' # None => Good(disk'),
         up' => crashes' = crashes /\ (disk' # None => Settled(disk', {})),
         ~up' => crashes' > 0 /\ (disk' # None => Recoverable(disk'))
  PROVE  JobInv'
<1>1. \A r \in Runtime : ~Busy(r)' /\ queue'[r] = <<>> /\ failing'[r] = <<>>
  BY DEF Idle
<1>2. OneJob'
  BY <1>1 DEF OneJob
<1>3. up' /\ disk' # None => Settled(disk, {})'
  BY DEF Settled
<1>4. ~up' => crashes' > 0 /\ (disk' # None => Recoverable(disk)')
  BY DEF Recoverable
<1> QED BY <1>1, <1>2, <1>3, <1>4 DEF JobInv, Executing, Good

LEMMA Fewer == ASSUME NEW c, Settled(c, {}) PROVE \A J : Settled(c, J)
BY DEF Settled

LEMMA LastIsUnanswered ==
  ASSUME NEW c \in CaseSession, NEW m, Awaits(c, m), FirstTry(c, m)
  PROVE  InheritedTurn(c) = {m}
<1>1. c.users \in Seq(Msg) /\ c.users # <<>> /\ Last(c.users) = m /\ IsActive(c) /\ c.replies[m] = <<>>
      /\ \A i \in DOMAIN c.logs : c.logs[i].msg # m
  BY SessionFields DEF FirstTry, Awaits
<1> DEFINE n == Len(c.users)
<1>2. n \in DOMAIN c.users /\ c.users[n] = m /\ n + 1 .. Len(c.users) = {}
      /\ \A j \in DOMAIN c.users : j # n => n \in j + 1 .. Len(c.users)
  BY <1>1 DEF Last
<1> HIDE DEF n
<1>3. m \in LatestUnanswered(c)
  BY <1>1, <1>2 DEF LatestUnanswered
<1>4. ASSUME NEW x \in LatestUnanswered(c) PROVE x = m
  <2>1. PICK j \in DOMAIN c.users : /\ c.users[j] = x
                                    /\ \A k \in j + 1 .. Len(c.users) : c.replies[c.users[k]] # <<>>
    BY DEF LatestUnanswered
  <2> QED BY <1>1, <1>2, <2>1
<1> QED BY <1>1, <1>3, <1>4 DEF InheritedTurn

LEMMA RecoverySays ==
  ASSUME NEW c \in CaseSession, InheritedTurn(c) # {}, Good(c), Recoverable(c), accepted \subseteq Msg
  PROVE  LET images == RecoveryImages(c) IN
         /\ Len(images) = 3
         /\ \E m \in Msg : \A i \in 1 .. 3 : /\ images[i] \in CaseSession /\ Says(c, images[i], m)
                                             /\ Good(images[i]) /\ Recoverable(images[i])
                                             /\ crashes > 0 => Settled(images[i], {})
<1> DEFINE m == CHOOSE x \in InheritedTurn(c) : TRUE
           images == InterruptImages(c, m, "service_restarted")
<1>1. m \in InheritedTurn(c)
  OBVIOUS
<1>2. m \in Msg /\ Awaits(c, m)
  BY <1>1, InheritedAreMessages, UnansweredAreMessages DEF Awaits
<1>3. RecoveryImages(c) = images
  BY DEF RecoveryImages
<1> HIDE DEF m
<1>4. Len(images) = 3 /\ \A i \in 1 .. 3 : images[i] \in CaseSession /\ Says(c, images[i], m)
  BY <1>2, InterruptSays DEF InterruptedPhase
<1> HIDE DEF images
<1>5. ASSUME NEW n \in accepted \ SyncMsg, n # m PROVE c.replies[n] # <<>> \/ RetryLogged(c, n)
  BY <1>1, <1>5, LastIsUnanswered DEF Recoverable
<1>6. ASSUME NEW i \in 1 .. 3
      PROVE  /\ Good(images[i]) /\ Recoverable(images[i])
             /\ crashes > 0 => Settled(images[i], {})
  <2>1. images[i] \in CaseSession /\ Says(c, images[i], m)
    BY <1>4
  <2>2. Good(images[i])
    BY <1>2, <2>1, Answered
  <2>3. Touches(c, images[i], m) /\ images[i].replies[m] # <<>>
    <3>1. Len(images[i].replies[m]) = 1 /\ images[i].replies[m] \in Seq(Reply)
      BY <1>2, <2>1, SessionFields DEF Says
    <3> QED BY <2>1, <3>1, OneReply DEF Says
  <2>4. ASSUME NEW n \in accepted \ SyncMsg PROVE images[i].replies[n] # <<>> \/ RetryLogged(images[i], n)
    BY <1>2, <1>5, <2>1, <2>3, TouchedLogs DEF Touches
  <2> QED BY <2>2, <2>4 DEF Recoverable, Settled
<1> QED BY <1>2, <1>3, <1>4, <1>6

LEMMA Recovered ==
  ASSUME NEW c \in CaseSession, InheritedTurn(c) = {}, Recoverable(c), crashes > 0
  PROVE  Settled(c, {})
BY LastIsUnanswered DEF Recoverable, Settled

LEMMA JobInit == Init => JobInv
<1> HAVE Init
<1>1. disk = NewCase /\ disk.replies = [m \in Msg |-> <<>>] /\ disk.logs = <<>>
  BY DEF Init, NewCase
<1>2. Good(disk) /\ Settled(disk, {})
  BY <1>1 DEF Good, Settled, Init
<1>3. OneJob
  BY DEF Init, OneJob, Idle, Busy
<1> QED BY <1>2, <1>3 DEF Init, JobInv, Executing, Busy

LEMMA Alone ==
  ASSUME JobInv, NEW r \in Runtime
  PROVE  /\ Busy(r) => \A q \in Runtime : queue[q] = <<>> /\ failing[q] = <<>> /\ (q # r => ~Busy(q))
         /\ queue[r] # <<>> => \A q \in Runtime : ~Busy(q) /\ failing[q] = <<>> /\ (q # r => queue[q] = <<>>)
         /\ failing[r] # <<>> => \A q \in Runtime : ~Busy(q) /\ queue[q] = <<>> /\ (q # r => failing[q] = <<>>)
BY DEF JobInv, OneJob

LEMMA OneEntry ==
  ASSUME StopInv, JobInv, NEW r \in Runtime
  PROVE  /\ queue[r] # <<>> => /\ Head(queue[r]) \in Entry /\ Head(queue[r]).msg \in Msg /\ Tail(queue[r]) = <<>>
         /\ failing[r] # <<>> => /\ Head(failing[r]) \in Entry /\ Head(failing[r]).msg \in Msg /\ Tail(failing[r]) = <<>>
<1>1. queue[r] \in Seq(Entry) /\ failing[r] \in Seq(Entry) /\ Len(queue[r]) <= 1 /\ Len(failing[r]) <= 1
  BY DEF StopInv, TypeOK, JobInv, OneJob
<1>2. ASSUME NEW q \in Seq(Entry), q # <<>>, Len(q) <= 1 PROVE Tail(q) = <<>>
  BY <1>2
<1> QED BY <1>1, <1>2, QueuedAreEntries

\* The record on disk is edited, or gone; the turns go on.
LEMMA Edited ==
  ASSUME StopInv, JobInv, UNCHANGED <<up, queue, turn, failing, accepted, crashes>>,
         quiet' = FALSE \/ quiet' = quiet,
         \/ disk' = None
         \/ disk # None /\ SameWords(disk, disk') /\ disk'.status = disk.status
  PROVE  JobInv'
<1>1. OneJob'
  <2>1. Idle' <=> Idle
    BY DEF Idle, Busy
  <2>2. \A r \in Runtime : Busy(r)' <=> Busy(r)
    BY DEF Busy
  <2> QED BY <2>1, <2>2 DEF JobInv, OneJob
<1>2. disk' # None => /\ disk # None /\ SameWords(disk, disk') /\ disk'.status = disk.status
                      /\ Good(disk') /\ \A m : AtWork(disk, m) => AtWork(disk', m)
                      /\ \A J : Settled(disk, J) => Settled(disk', J)
  BY SameGood DEF JobInv
<1>5. ~up' => crashes' > 0 /\ (disk' # None => Recoverable(disk)')
  <2>1. \A m : disk' # None => (Awaits(disk, m) /\ FirstTry(disk, m) => Awaits(disk', m) /\ FirstTry(disk', m))
    BY <1>2 DEF Awaits, FirstTry, SameWords, HasUser, IsActive
  <2>2. disk' # None => (Recoverable(disk) => Recoverable(disk'))
    BY <1>2, <2>1 DEF Recoverable, RetryLogged, SameWords
  <2>3. Recoverable(disk') => Recoverable(disk)'
    BY DEF Recoverable
  <2> QED BY <2>2, <2>3 DEF JobInv
<1>6. Settled(disk', {}) => Settled(disk, {})'
  BY DEF Settled
<1>7. up' /\ disk' # None /\ (Idle' \/ \E r \in Runtime : Busy(r)' /\ ~Executing(r)') => Settled(disk, {})'
  BY <1>2, <1>6 DEF JobInv, Idle, Busy, Executing
<1>8. \A e : Ready(e) => Ready(e)'
  BY <1>2 DEF Ready, WorksOn, Settled
<1>9. \A r \in Runtime : Executing(r)' => Runs(r)'
  <2> TAKE r \in Runtime
  <2> HAVE Executing(r)'
  <2>1. Runs(r) /\ Mem(r)' = Mem(r) /\ turn'[r] = turn[r]
    BY DEF Executing, Busy, JobInv, Mem
  <2>2. disk' # None => SameWords(Mem(r), disk') /\ disk'.status = Mem(r).status
    BY <1>2, <2>1 DEF Runs, SameWords
  <2> QED BY <2>1, <2>2 DEF Runs, WorksOn, Settled
<1>10. \A r \in Runtime : /\ queue'[r] # <<>> => Ready(Head(queue[r]))'
                          /\ failing'[r] # <<>> => Ready(Head(failing[r]))'
  <2> TAKE r \in Runtime
  <2>1. Ready(Head(queue[r])) => Ready(Head(queue[r]))'
    BY <1>8 DEF Ready
  <2>2. Ready(Head(failing[r])) => Ready(Head(failing[r]))'
    BY <1>8 DEF Ready
  <2> QED BY <2>1, <2>2 DEF JobInv
<1> QED BY <1>1, <1>2, <1>5, <1>7, <1>9, <1>10 DEF JobInv

LEMMA LastOfTwo == ASSUME NEW images, Len(images) = 2, Save(images) PROVE disk' = images[2] /\ quiet' = FALSE
BY DEF Save, Write, Last

LEMMA LastOfThree == ASSUME NEW images, Len(images) = 3, Save(images) PROVE disk' = images[3] /\ quiet' = FALSE
BY DEF Save, Write, Last

\* A message is accepted, or a retry: a job is queued.
LEMMA QueuedNow ==
  ASSUME StopInv, JobInv, Idle, NEW m \in Msg, NEW async \in BOOLEAN,
         \E r \in Addressed : Enqueue(r, m, async),
         UNCHANGED <<up, turn, failing, crashes>>, up, quiet' = FALSE, disk' # None, Good(disk'),
         WorksOn(disk, m)', m \notin SyncMsg => async
  PROVE  JobInv'
<1> DEFINE e == [msg |-> m, async |-> async]
<1>0. PICK q \in Runtime : Enqueue(q, m, async)
  BY ClientAssumption DEF Addressed, Runtime, StopInv, TypeOK
<1>1. queue' = [queue EXCEPT ![q] = <<e>>] /\ queue \in [Runtime -> Seq(Entry)]
  <2>1. queue[q] = <<>> /\ queue \in [Runtime -> Seq(Entry)]
    BY DEF Idle, StopInv, TypeOK
  <2>2. queue' = [queue EXCEPT ![q] = Append(queue[q], e)]
    BY <1>0 DEF Enqueue
  <2> HIDE DEF e
  <2> QED BY <2>1, <2>2
<1>2. e.msg = m /\ e.async = async /\ Head(<<e>>) = e /\ Len(<<e>>) <= 1 /\ <<e>> # <<>> /\ Len(<<>>) <= 1
  OBVIOUS
<1> HIDE DEF e
<1>3. \A r \in Runtime : /\ ~Busy(r)' /\ failing'[r] = <<>>
                         /\ IF r = q THEN queue'[r] = <<e>> ELSE queue'[r] = <<>>
  BY <1>1 DEF Idle, Busy
<1>4. OneJob'
  <2>1. \A r \in Runtime : Len(queue'[r]) <= 1 /\ Len(failing'[r]) <= 1
    BY <1>2, <1>3
  <2>2. up' /\ ~quiet'
    OBVIOUS
  <2>3. \A r, p \in Runtime : queue'[r] # <<>> => ~Busy(p)' /\ failing'[p] = <<>> /\ (p = r \/ queue'[p] = <<>>)
    BY <1>3
  <2> QED BY <1>3, <2>1, <2>2, <2>3 DEF OneJob
<1>5. ~Idle'
  BY <1>2, <1>3 DEF Idle
<1>6. Ready(e)'
  BY <1>2 DEF Ready
<1>7. \A r \in Runtime : queue'[r] # <<>> => Ready(Head(queue[r]))'
  BY <1>2, <1>3, <1>6
<1> QED BY <1>3, <1>4, <1>5, <1>7 DEF JobInv, Executing, Good

LEMMA JobPosted ==
  ASSUME StopInv, JobInv, ~Overlap, NEW m \in Msg, Post(m)
  PROVE  JobInv'
<1>1. Idle /\ disk # None /\ up /\ m \notin accepted /\ ~HasUser(disk, m) /\ gateway \in Runtime
  BY DEF Post, Serving, Postable, MaySend, HasUser, StopInv, TypeOK
<1>2. disk \in CaseSession /\ Good(disk) /\ Settled(disk, {})
  BY <1>1, RecordsAreFine DEF JobInv, Fine
<1>3. Len(PostImages(disk, m)) = 2 /\ PostImages(disk, m)[2] \in CaseSession /\ Accepts(disk, PostImages(disk, m)[2], m)
  BY <1>1, <1>2, PostAccepts
<1>4. IsActive(PostImages(disk, m)[2])
  BY <1>2, Posted DEF IsActive, ActiveStatus
<1>5. disk' = PostImages(disk, m)[2] /\ quiet' = FALSE
  BY <1>3, LastOfTwo DEF Post
<1>6. Good(disk') /\ AtWork(disk', m) /\ Settled(disk', {})
  <2> DEFINE d == PostImages(disk, m)[2]
  <2>1. d \in CaseSession /\ Accepts(disk, d, m) /\ IsActive(d) /\ disk' = d
    BY <1>3, <1>4, <1>5
  <2> HIDE DEF d
  <2>2. Good(d) /\ Awaits(d, m) /\ FirstTry(d, m) /\ Settled(d, {})
    BY <1>2, <2>1, Accepted
  <2> QED BY <2>1, <2>2 DEF AtWork
<1>7. WorksOn(disk, m)'
  <2>1. accepted' = accepted \cup {m} /\ crashes' = crashes
    BY DEF Post
  <2>2. Settled(disk, {m})'
    BY <1>6, <2>1 DEF Settled
  <2> QED BY <1>6, <2>2 DEF WorksOn
<1>8. disk' # None
  BY <1>3, <1>5, NoneAssumption
<1> QED BY <1>1, <1>5, <1>6, <1>7, <1>8, QueuedNow DEF Post

LEMMA JobRetried ==
  ASSUME StopInv, JobInv, ~Overlap, NEW m \in Msg, Retry(m)
  PROVE  JobInv'
<1>1. Idle /\ disk # None /\ up /\ HasUser(disk, m) /\ gateway \in Runtime
  BY DEF Retry, Serving, CanRetry, MaySend, StopInv, TypeOK
<1>2. disk \in CaseSession /\ Good(disk) /\ Settled(disk, {}) /\ accepted \subseteq Msg
  BY <1>1, RecordsAreFine DEF JobInv, Fine, StopInv, TypeOK
<1> DEFINE d == RetryImages(disk, m)[2]
<1>3. Len(RetryImages(disk, m)) = 2 /\ d \in CaseSession /\ Reopens(disk, d, m)
  BY <1>1, <1>2, RetryReopens
<1>4. disk' = d /\ quiet' = FALSE
  BY <1>3, LastOfTwo DEF Retry
<1> HIDE DEF d
<1>5. Good(d) /\ AtWork(d, m) /\ Settled(d, {m})
  BY <1>2, <1>3, Fewer, Reopened
<1>6. WorksOn(disk, m)'
  BY <1>4, <1>5 DEF WorksOn, Settled, Retry
<1>7. disk' # None
  BY <1>3, <1>4, NoneAssumption
<1> QED BY <1>1, <1>4, <1>5, <1>6, <1>7, QueuedNow DEF Retry

LEMMA JobRead ==
  ASSUME StopInv, JobInv, ReadSession
  PROVE  JobInv'
<1>1. Idle /\ disk # None /\ up
  BY DEF ReadSession, Serving, JobInv, OneJob
<1>2. disk \in CaseSession /\ Good(disk) /\ Settled(disk, {}) /\ accepted \subseteq Msg
  BY <1>1, RecordsAreFine DEF JobInv, Fine, StopInv, TypeOK
<1> DEFINE d == StaleImages(disk)[2]
<1>3. /\ Len(StaleImages(disk)) = 2 /\ d \in CaseSession
      /\ SameWords(disk, d) \/ \E m \in Msg : Says(disk, d, m)
  BY <1>2, StaleSays
<1>4. disk' = d
  BY <1>3, LastOfTwo DEF ReadSession
<1> HIDE DEF d
<1>5. Good(d) /\ Settled(d, {})
  BY <1>2, <1>3, SameGood, Answered, Fewer
<1>6. Idle' /\ UNCHANGED <<up, accepted, crashes>>
  BY <1>1 DEF ReadSession, process, history, Idle, Busy
<1> QED BY <1>1, <1>4, <1>5, <1>6, IdleAfter

LEMMA JobRequested ==
  ASSUME StopInv, JobInv, ~Overlap, Request
  PROVE  JobInv'
<1>1. ASSUME NEW m \in Msg, Post(m) \/ Retry(m) PROVE JobInv'
  BY <1>1, JobPosted, JobRetried
<1>2. CASE Archive
  <2>1. SameWords(disk, disk') /\ disk'.status = disk.status
    <3> DEFINE c == [disk EXCEPT !.archived = TRUE]
    <3>1. disk \in CaseSession
      BY <1>2, RecordsAreFine DEF Archive, Fine
    <3>2. c.users = disk.users /\ c.replies = disk.replies /\ c.logs = disk.logs /\ c.status = disk.status
      BY <3>1 DEF CaseSession
    <3>3. disk' = c
      BY <1>2 DEF Archive, Write
    <3> HIDE DEF c
    <3> QED BY <3>2, <3>3 DEF SameWords
  <2> QED BY <1>2, <2>1, Edited DEF Archive, Write, process, history
<1>3. ASSUME NEW m \in Msg, Stop(m) PROVE JobInv'
  BY <1>3, Edited DEF Stop, SameWords
<1>4. CASE Edit \/ Delete
  BY <1>4, Edited DEF Edit, Delete, Write, process, history, SameWords
<1>5. CASE Reload
  <2>1. UNCHANGED <<disk, quiet, up, queue, turn, failing, accepted, crashes>>
    BY <1>5 DEF Reload, history
  <2> QED BY <2>1, Edited DEF SameWords
<1>6. CASE ReadSession
  BY <1>6, JobRead
<1> QED BY <1>1, <1>2, <1>3, <1>4, <1>5, <1>6 DEF Request

LEMMA FirstEntry == ASSUME NEW q, NEW e, q = <<>> PROVE Append(q, e) = <<e>>
OBVIOUS

LEMMA OneInQueue == ASSUME NEW e PROVE <<e>> # <<>> /\ Head(<<e>>) = e /\ Len(<<e>>) <= 1 /\ Len(<<>>) <= 1
OBVIOUS

\* A job fails: it waits to be recorded.
LEMMA FailingNow ==
  ASSUME JobInv, NEW r \in Runtime, NEW e, NEW rest, failing' = [failing EXCEPT ![r] = rest], rest = <<e>>,
         failing \in [Runtime -> Seq(Entry)], up', ~quiet',
         \A q \in Runtime : ~Busy(q)' /\ queue'[q] = <<>> /\ failing[q] = <<>>,
         disk' # None => Good(disk'), Ready(e)'
  PROVE  JobInv'
<1>1. \A q \in Runtime : failing'[q] = IF q = r THEN <<e>> ELSE <<>>
  OBVIOUS
<1>2. OneJob'
  <2>1. \A q \in Runtime : Len(queue'[q]) <= 1 /\ Len(failing'[q]) <= 1
    BY <1>1, OneInQueue
  <2>2. \A q, p \in Runtime : failing'[q] # <<>> => ~Busy(p)' /\ (p = q \/ failing'[p] = <<>>)
    BY <1>1
  <2> QED BY <2>1, <2>2 DEF OneJob
<1>3. ~Idle'
  BY <1>1, OneInQueue DEF Idle
<1>4. \A q \in Runtime : failing'[q] # <<>> => Ready(Head(failing[q]))'
  BY <1>1, OneInQueue
<1> QED BY <1>2, <1>3, <1>4 DEF JobInv, Executing, Good

\* A job is taken up by the runtime r.
LEMMA ExecutingNow ==
  ASSUME JobInv, NEW r \in Runtime, up', ~quiet', Busy(r)',
         \A q \in Runtime : queue'[q] = <<>> /\ failing'[q] = <<>> /\ (q # r => ~Busy(q)'),
         disk' # None => Good(disk'), Executing(r)' => Runs(r)',
         ~Executing(r)' /\ disk' # None => Settled(disk, {})'
  PROVE  JobInv'
<1>1. OneJob'
  BY OneInQueue DEF OneJob
<1>2. ~Idle'
  BY DEF Idle
<1>3. \A q \in Runtime : Executing(q)' => Runs(q)'
  BY DEF Executing
<1>4. \A q \in Runtime : Busy(q)' /\ ~Executing(q)' => q = r
  OBVIOUS
<1> QED BY <1>1, <1>2, <1>3, <1>4 DEF JobInv, Good

LEMMA JobAdmitted ==
  ASSUME StopInv, JobInv, NEW r \in Runtime, Admit(r)
  PROVE  JobInv'
<1>0. PICK e : e = Head(queue[r])
  OBVIOUS
<1>1. /\ queue[r] # <<>> /\ up /\ up' /\ UNCHANGED <<accepted, crashes>> /\ Ready(e)
      /\ queue' = [queue EXCEPT ![r] = <<>>] /\ e \in Entry /\ e.msg \in Msg
  <2>1. queue[r] # <<>> /\ up /\ up' /\ UNCHANGED <<accepted, crashes>> /\ Dequeue(r)
    BY DEF Admit, Reject, Begin, Curate, MayBegin, history, Start
  <2>2. Tail(queue[r]) = <<>> /\ e \in Entry /\ e.msg \in Msg
    BY <1>0, <2>1, OneEntry
  <2> QED BY <1>0, <2>1, <2>2 DEF Dequeue, JobInv
<1>2. \A q \in Runtime : ~Busy(q) /\ queue'[q] = <<>> /\ failing[q] = <<>>
  BY <1>1, Alone DEF StopInv, TypeOK
<1>3. ~quiet
  BY <1>1 DEF JobInv, OneJob, Idle
<1>4. CASE Reject(r)
  <2>1. failing' = [failing EXCEPT ![r] = Append(failing[r], e)] /\ UNCHANGED <<disk, quiet, turn>>
    BY <1>0, <1>4 DEF Reject
  <2>2. Append(failing[r], e) = <<e>>
    BY <1>2, FirstEntry
  <2>3. \A q \in Runtime : ~Busy(q)'
    BY <1>2, <2>1 DEF Busy
  <2>4. Ready(e)'
    BY <1>1, <2>1 DEF Ready, WorksOn, Settled
  <2>5. disk' # None => Good(disk')
    BY <2>1 DEF JobInv
  <2>6. failing \in [Runtime -> Seq(Entry)] /\ ~quiet'
    BY <1>3, <2>1 DEF StopInv, TypeOK
  <2> QED BY <1>1, <1>2, <1>3, <2>1, <2>2, <2>3, <2>4, <2>5, <2>6, FailingNow
<1>5. ASSUME NEW stage \in Stage, Start(r, stage), disk # None, failing' = failing
      PROVE  /\ Busy(r)' /\ \A q \in Runtime : failing'[q] = <<>> /\ (q # r => ~Busy(q)')
             /\ turn'[r].stage = stage /\ Mem(r)' = disk
             /\ turn'[r].msg = e.msg /\ turn'[r].async = e.async
  <2> DEFINE t == [msg |-> e.msg, async |-> e.async, stage |-> stage, mem |-> disk,
                   attempt |-> 0, open |-> 0, reviewed |-> FALSE]
  <2>1. turn' = [turn EXCEPT ![r] = t]
    BY <1>0, <1>5 DEF Start
  <2>2. t \in Turn
    BY <1>1, <1>5 DEF Turn, Entry, StopInv, TypeOK
  <2>3. t.stage = stage /\ t.mem = disk /\ t.msg = e.msg /\ t.async = e.async
    OBVIOUS
  <2> HIDE DEF t
  <2>4. t # None
    BY <2>2, NoneAssumption
  <2> QED BY <1>2, <1>5, <2>1, <2>3, <2>4 DEF Busy, Mem, StopInv, TypeOK
<1>6. CASE Begin(r)
  <2>1. /\ Start(r, "preflight") /\ disk # None /\ failing' = failing /\ disk' = disk /\ quiet' = FALSE
        /\ "preflight" \in Stage
    BY <1>6 DEF Begin, Admissible, Write, Stage
  <2>2. /\ Busy(r)' /\ \A q \in Runtime : failing'[q] = <<>> /\ (q # r => ~Busy(q)')
        /\ turn'[r].stage = "preflight" /\ Mem(r)' = disk
        /\ turn'[r].msg = e.msg /\ turn'[r].async = e.async
    BY <1>5, <2>1
  <2>3. Good(disk)
    BY <2>1 DEF JobInv
  <2>4. Runs(r)'
    BY <1>1, <2>1, <2>2, <2>3 DEF Runs, Ready, WorksOn, Settled, SameWords, Good
  <2>5. Executing(r)'
    BY <2>2 DEF Executing
  <2> QED BY <1>1, <1>2, <2>1, <2>2, <2>3, <2>4, <2>5, ExecutingNow
<1>7. CASE Curate(r)
  <2> DEFINE d == FinishImages(disk, e.msg, "waiting_user")[2]
  <2>1. /\ Start(r, "curated") /\ disk # None /\ failing' = failing
        /\ Save(FinishImages(disk, e.msg, "waiting_user")) /\ "curated" \in Stage
    BY <1>0, <1>7 DEF Curate, Admissible, Stage
  <2>2. /\ Busy(r)' /\ \A q \in Runtime : failing'[q] = <<>> /\ (q # r => ~Busy(q)')
        /\ turn'[r].stage = "curated"
    BY <1>5, <2>1
  <2>3. disk \in CaseSession /\ Awaits(disk, e.msg) /\ Good(disk) /\ Settled(disk, {e.msg}) /\ accepted \subseteq Msg
    BY <1>1, <2>1, RecordsAreFine DEF Fine, Ready, WorksOn, AtWork, JobInv, StopInv, TypeOK
  <2>4. Len(FinishImages(disk, e.msg, "waiting_user")) = 2 /\ d \in CaseSession /\ Says(disk, d, e.msg)
    BY <1>1, <2>3, FinishSays DEF Status, FinalStatus
  <2>5. disk' = d /\ quiet' = FALSE
    BY <2>1, <2>4, LastOfTwo
  <2> HIDE DEF d
  <2>6. Good(d) /\ Settled(d, {})
    BY <1>1, <2>3, <2>4, Answered
  <2>7. Settled(disk, {})'
    BY <1>1, <2>5, <2>6 DEF Settled
  <2>8. ~Executing(r)'
    BY <2>2 DEF Executing
  <2> QED BY <1>1, <1>2, <2>2, <2>5, <2>6, <2>7, <2>8, ExecutingNow
<1> QED BY <1>4, <1>6, <1>7 DEF Admit

LEMMA ExecutingAlone ==
  ASSUME StopInv, JobInv, NEW r \in Runtime, Busy(r)
  PROVE  /\ up /\ ~quiet /\ \A q \in Runtime : queue[q] = <<>> /\ failing[q] = <<>> /\ (q # r => ~Busy(q))
         /\ accepted \subseteq Msg /\ turn[r].msg \in Msg /\ Mem(r) \in CaseSession
<1>1. up /\ ~quiet
  BY DEF JobInv, OneJob, Idle, StopInv, TypeOK
<1> QED BY <1>1, Alone, RecordsAreFine DEF Turn, Fine, StopInv, TypeOK

LEMMA JobGoesOn ==
  ASSUME StopInv, JobInv, NEW r \in Runtime, NEW t \in Turn, GoesOn(r, t)
  PROVE  JobInv'
<1>1. Busy(r) /\ Executing(r) /\ Runs(r)
  BY DEF GoesOn, Executing, JobInv
<1>2. /\ turn' = [turn EXCEPT ![r] = t] /\ disk' = t.mem /\ quiet' = FALSE
      /\ UNCHANGED <<up, queue, failing, accepted, crashes>>
  BY DEF GoesOn, Move, Write, history
<1>3. turn'[r] = t /\ \A q \in Runtime : q # r => turn'[q] = turn[q]
  BY <1>2 DEF StopInv, TypeOK
<1>4. /\ Busy(r)' /\ \A q \in Runtime : queue'[q] = <<>> /\ failing'[q] = <<>> /\ (q # r => ~Busy(q)')
      /\ up' /\ ~quiet'
  BY <1>1, <1>2, <1>3, ExecutingAlone, NoneAssumption DEF Busy
<1>5. /\ SameWords(Mem(r), t.mem) /\ t.msg = turn[r].msg /\ t.async = turn[r].async
      /\ t.mem.status = Mem(r).status \/ IsActive(t.mem)
  BY DEF GoesOn, SameWords, SameRest, SameUsers
<1>6. Good(t.mem) /\ AtWork(t.mem, t.msg) /\ Settled(t.mem, {t.msg})
  <2>1. Good(Mem(r)) /\ AtWork(Mem(r), t.msg) /\ Settled(Mem(r), {t.msg})
    BY <1>1, <1>5 DEF Runs, WorksOn
  <2> QED BY <1>5, <2>1, SameGood
<1>7. Mem(r)' = t.mem
  BY <1>3 DEF Mem
<1>8. Runs(r)'
  <2>1. turn'[r].msg = t.msg /\ turn'[r].async = t.async /\ (t.msg \notin SyncMsg => t.async)
    BY <1>1, <1>3, <1>5 DEF Runs
  <2>2. SameWords(Mem(r), disk)' /\ disk'.status = Mem(r)'.status
    BY <1>2, <1>7 DEF SameWords
  <2>3. Good(Mem(r))'
    BY <1>6, <1>7 DEF Good
  <2>4. WorksOn(Mem(r), turn[r].msg)'
    BY <1>2, <1>6, <1>7, <2>1 DEF WorksOn, Settled
  <2> QED BY <2>1, <2>2, <2>3, <2>4 DEF Runs
<1>9. Executing(r)'
  BY <1>3, <1>4 DEF Executing, GoesOn
<1> QED BY <1>2, <1>4, <1>6, <1>8, <1>9, ExecutingNow

\* The turn of r ends, and nothing is left to do.
LEMMA IdleWhenEnded ==
  ASSUME StopInv, JobInv, NEW r \in Runtime, Busy(r), EndTurn(r)
  PROVE  /\ \A q \in Runtime : ~Busy(q)'
         /\ queue' = queue => \A q \in Runtime : queue'[q] = <<>>
         /\ UNCHANGED <<queue, failing>> => Idle'
<1>1. \A q \in Runtime : ~Busy(q)'
  BY ExecutingAlone DEF EndTurn, Busy, StopInv, TypeOK
<1> QED BY <1>1, ExecutingAlone DEF Idle

LEMMA JobAnswered ==
  ASSUME StopInv, JobInv, NEW r \in Runtime, Busy(r), Executing(r), NEW d \in CaseSession,
         Says(Mem(r), d, turn[r].msg), disk' = d, EndTurn(r),
         UNCHANGED <<up, queue, failing, accepted, crashes>>
  PROVE  JobInv'
<1>1. Idle' /\ up
  BY IdleWhenEnded, ExecutingAlone
<1>2. Good(Mem(r)) /\ Settled(Mem(r), {turn[r].msg})
  BY DEF JobInv, Runs, WorksOn
<1>3. Good(d) /\ Settled(d, {})
  BY <1>2, ExecutingAlone, Answered
<1> QED BY <1>1, <1>3, IdleAfter

LEMMA AnswerSays ==
  ASSUME StopInv, JobInv, NEW r \in Runtime, Executing(r), NEW s \in AnswerStatus(r)
  PROVE  LET images == AnswerImages(r, s) IN
         Len(images) = 2 /\ \A i \in 1 .. 2 : images[i] \in CaseSession /\ Says(Mem(r), images[i], turn[r].msg)
<1> DEFINE n == Mem(r).runs - turn[r].open
           c == WithRuns(Mem(r), n)
           m == turn[r].msg
<1>1. Busy(r) /\ Awaits(Mem(r), m) /\ s \in Status
  BY DEF JobInv, Executing, Runs, WorksOn, AtWork, AnswerStatus, Status, FinalStatus
<1>2. Mem(r) \in CaseSession /\ m \in Msg /\ n \in Nat
  BY <1>1, RecordsAreFine DEF Fine, Turn
<1>3. c \in CaseSession /\ SameWords(Mem(r), c)
  <2> HIDE DEF n
  <2> QED BY <1>2, RunsSet DEF SameWords, SameRest, SameUsers
<1>4. AnswerImages(r, s) = FinishImages(c, m, s)
  BY DEF AnswerImages
<1> HIDE DEF c, m
<1>5. Awaits(c, m)
  BY <1>1, <1>3, SameGood
<1>6. \A d : Says(c, d, m) => Says(Mem(r), d, m)
  BY <1>1, <1>3 DEF Says, Touches, SameWords
<1> QED BY <1>1, <1>2, <1>3, <1>4, <1>5, <1>6, FinishSays DEF m

LEMMA CancelSays ==
  ASSUME StopInv, JobInv, NEW r \in Runtime, Executing(r)
  PROVE  LET images == CancelImages(r) IN
         Len(images) = 3 /\ \A i \in 1 .. 3 : images[i] \in CaseSession /\ Says(Mem(r), images[i], turn[r].msg)
<1>1. Busy(r) /\ Awaits(Mem(r), turn[r].msg)
  BY DEF JobInv, Executing, Runs, WorksOn, AtWork
<1>2. Mem(r) \in CaseSession /\ turn[r].msg \in Msg
  BY <1>1, ExecutingAlone
<1> QED BY <1>1, <1>2, InterruptSays DEF CancelImages, InterruptedPhase

LEMMA ResumesExecuting ==
  ASSUME NEW r \in Runtime, Resumes(r) PROVE Executing(r) /\ Busy(r) /\ up
BY DEF Resumes, Serving, MicrotasksDrained, Executing

LEMMA JobEnded ==
  ASSUME StopInv, JobInv, NEW r \in Runtime, Answer(r) \/ EndCurated(r) \/ Cancel(r) \/ Fail(r)
  PROVE  JobInv'
<1>1. CASE Answer(r)
  <2>1. Resumes(r) /\ EndTurn(r) /\ UNCHANGED <<up, queue, failing, accepted, crashes>>
    BY <1>1 DEF Answer, history
  <2>2. PICK s \in AnswerStatus(r) : Save(AnswerImages(r, s))
    BY <1>1 DEF Answer
  <2> DEFINE d == AnswerImages(r, s)[2]
  <2>3. disk' = d /\ d \in CaseSession /\ Says(Mem(r), d, turn[r].msg)
    <3>1. Executing(r)
      BY <2>1, ResumesExecuting
    <3>2. Len(AnswerImages(r, s)) = 2 /\ d \in CaseSession /\ Says(Mem(r), d, turn[r].msg)
      BY <3>1, AnswerSays
    <3> QED BY <2>2, <3>2, LastOfTwo
  <2> HIDE DEF d
  <2> QED BY <2>1, <2>3, ResumesExecuting, JobAnswered
<1>2. CASE Cancel(r)
  <2>1. /\ Resumes(r) /\ EndTurn(r) /\ UNCHANGED <<up, queue, failing, accepted, crashes>>
        /\ Save(CancelImages(r))
    BY <1>2 DEF Cancel, history
  <2> DEFINE d == CancelImages(r)[3]
  <2>2. disk' = d /\ d \in CaseSession /\ Says(Mem(r), d, turn[r].msg)
    <3>1. Executing(r)
      BY <2>1, ResumesExecuting
    <3>2. Len(CancelImages(r)) = 3 /\ d \in CaseSession /\ Says(Mem(r), d, turn[r].msg)
      BY <3>1, CancelSays
    <3> QED BY <2>1, <3>2, LastOfThree
  <2> HIDE DEF d
  <2> QED BY <2>1, <2>2, ResumesExecuting, JobAnswered
<1>3. CASE EndCurated(r)
  <2>1. /\ Busy(r) /\ ~Executing(r) /\ EndTurn(r) /\ disk' = disk /\ up
        /\ UNCHANGED <<up, queue, failing, accepted, crashes>>
    BY <1>3 DEF EndCurated, Executing, history
  <2>2. Idle'
    BY <2>1, IdleWhenEnded
  <2>3. disk # None => Good(disk) /\ Settled(disk, {})
    BY <2>1 DEF JobInv
  <2> QED BY <2>1, <2>2, <2>3, IdleAfter
<1>4. CASE Fail(r)
  <2>1. /\ Busy(r) /\ Executing(r) /\ Runs(r) /\ EndTurn(r) /\ up
        /\ UNCHANGED <<disk, quiet, up, queue, accepted, crashes>>
    BY <1>4, ResumesExecuting DEF Fail, JobInv, history
  <2>2. PICK e : e = [msg |-> turn[r].msg, async |-> turn[r].async]
    OBVIOUS
  <2>3. e.msg = turn[r].msg /\ e.async = turn[r].async
    BY <2>2
  <2>4. failing' = [failing EXCEPT ![r] = Append(failing[r], e)]
    BY <1>4, <2>2 DEF Fail
  <2>5. Append(failing[r], e) = <<e>>
    BY <2>1, ExecutingAlone, FirstEntry
  <2>6. disk # None => WorksOn(disk, e.msg) /\ Good(disk)
    BY <2>1, <2>3, SameGood DEF Runs, WorksOn
  <2>7. Ready(e)'
    BY <2>1, <2>3, <2>6 DEF Ready, WorksOn, Settled, Runs
  <2>8. \A q \in Runtime : ~Busy(q)' /\ queue'[q] = <<>> /\ failing[q] = <<>>
    BY <2>1, IdleWhenEnded, ExecutingAlone
  <2>9. failing \in [Runtime -> Seq(Entry)] /\ ~quiet'
    BY <2>1, ExecutingAlone DEF StopInv, TypeOK
  <2> QED BY <2>1, <2>4, <2>5, <2>6, <2>7, <2>8, <2>9, FailingNow
<1> QED BY <1>1, <1>2, <1>3, <1>4

LEMMA JobRecorded ==
  ASSUME StopInv, JobInv, NEW r \in Runtime, RecordFailure(r)
  PROVE  JobInv'
<1> DEFINE m == Head(failing[r]).msg
<1>1. failing[r] # <<>> /\ up /\ failing' = [failing EXCEPT ![r] = Tail(failing[r])]
      /\ UNCHANGED <<up, queue, turn, accepted, crashes>>
  BY DEF RecordFailure, CanCatch, history
<1>2. m \in Msg /\ Tail(failing[r]) = <<>> /\ Ready(Head(failing[r])) /\ accepted \subseteq Msg
  BY <1>1, OneEntry DEF JobInv, StopInv, TypeOK
<1>3. Idle'
  BY <1>1, <1>2, Alone DEF Idle, Busy, StopInv, TypeOK
<1>4. disk # None => disk \in CaseSession /\ Good(disk) /\ AtWork(disk, m) /\ Settled(disk, {m})
  BY <1>2, RecordsAreFine DEF Fine, JobInv, Ready, WorksOn
<1>5. CASE CanRecord(r)
  <2> DEFINE d == FailureImages(disk, m)[3]
  <2>1. disk # None /\ Awaits(disk, m) /\ Save(FailureImages(disk, m))
    BY <1>4, <1>5 DEF CanRecord, AtWork, RecordFailure
  <2>2. disk' = d /\ d \in CaseSession /\ Says(disk, d, m)
    <3> HIDE DEF m
    <3>1. Len(FailureImages(disk, m)) = 3 /\ d \in CaseSession /\ Says(disk, d, m)
      BY <1>2, <1>4, <2>1, FailureSays
    <3> QED BY <2>1, <3>1, LastOfThree
  <2> HIDE DEF d, m
  <2>3. Good(d) /\ Settled(d, {})
    BY <1>2, <1>4, <2>1, <2>2, Answered
  <2> QED BY <1>1, <1>3, <2>2, <2>3, IdleAfter
<1>6. CASE ~CanRecord(r)
  <2>1. disk' = disk /\ (disk # None => ~Head(failing[r]).async)
    BY <1>1, <1>6 DEF RecordFailure, CanRecord
  <2>2. disk # None => m \in SyncMsg
    BY <1>2, <2>1 DEF Ready
  <2>3. disk # None => Settled(disk, {})
    BY <1>4, <2>2 DEF Settled
  <2> QED BY <1>1, <1>3, <1>4, <2>1, <2>3, IdleAfter
<1> QED BY <1>5, <1>6

LEMMA DiskIsRecoverable ==
  ASSUME StopInv, JobInv, disk # None
  PROVE  disk \in CaseSession /\ Good(disk) /\ Recoverable(disk) /\ accepted \subseteq Msg
<1>1. disk \in CaseSession /\ Good(disk) /\ accepted \subseteq Msg
  BY RecordsAreFine DEF Fine, JobInv, StopInv, TypeOK
<1>2. CASE ~up
  BY <1>1, <1>2 DEF JobInv
<1>3. CASE up /\ (Idle \/ \E r \in Runtime : Busy(r) /\ ~Executing(r))
  BY <1>1, <1>3, RecoverableWhen DEF JobInv
<1>4. ASSUME NEW m, WorksOn(disk, m) PROVE Recoverable(disk)
  BY <1>4, RecoverableWhen DEF WorksOn
<1>5. ASSUME NEW r \in Runtime, queue[r] # <<>> \/ failing[r] # <<>> PROVE Recoverable(disk)
  BY <1>4, <1>5 DEF JobInv, Ready
<1>6. ASSUME NEW r \in Runtime, Executing(r) PROVE Recoverable(disk)
  <2>1. Runs(r)
    BY <1>6 DEF JobInv
  <2>2. WorksOn(disk, turn[r].msg)
    BY <2>1, SameGood DEF Runs, WorksOn
  <2> QED BY <1>4, <2>2
<1>7. ~Idle => \E r \in Runtime : Busy(r) \/ queue[r] # <<>> \/ failing[r] # <<>>
  BY DEF Idle
<1>8. up \in BOOLEAN
  BY DEF StopInv, TypeOK
<1> QED BY <1>1, <1>2, <1>3, <1>5, <1>6, <1>7, <1>8 DEF Executing

\* What a crash in the middle of an update may leave.
LEMMA UpdateIsRecoverable ==
  ASSUME StopInv, JobInv, ~Overlap, NEW images \in Updates, NEW i \in 1 .. Len(images) - 1
  PROVE  Good(images[i]) /\ Recoverable(images[i])
<1>1. CASE ~up
  <2>1. disk # None /\ InheritedTurn(disk) # {} /\ images = RecoveryImages(disk)
    BY <1>1 DEF Updates, Inherits
  <2>2. Len(images) = 3
    BY <2>1, DiskIsRecoverable, RecoverySays
  <2> QED BY <2>1, <2>2, DiskIsRecoverable, RecoverySays
<1>2. CASE up
  <2>1. \/ \E m \in Postable : images = PostImages(disk, m)
        \/ \E m \in CanRetry : images = RetryImages(disk, m)
        \/ Serving /\ disk # None /\ quiet /\ images = StaleImages(disk)
        \/ \E r \in Runtime : Resumes(r) /\ \E s \in AnswerStatus(r) : images = AnswerImages(r, s)
        \/ \E r \in Runtime : Resumes(r) /\ images = CancelImages(r)
        \/ \E r \in Runtime : CanRecord(r) /\ images = FailureImages(disk, Head(failing[r]).msg)
    BY <1>2 DEF Updates
  <2>2. ASSUME NEW m \in Postable, images = PostImages(disk, m)
        PROVE  Good(images[i]) /\ Recoverable(images[i])
    <3>1. m \in Msg /\ disk # None /\ ~HasUser(disk, m) /\ Idle
      BY <2>2 DEF Postable, MaySend, HasUser
    <3>2. Settled(disk, {})
      BY <1>2, <3>1 DEF JobInv
    <3>3. Len(images) = 2 /\ images[1] \in CaseSession /\ Accepts(disk, images[1], m)
      BY <2>2, <3>1, DiskIsRecoverable, PostAccepts
    <3>4. Good(images[1]) /\ Settled(images[1], {})
      BY <3>1, <3>2, <3>3, DiskIsRecoverable, Accepted
    <3> QED BY <3>3, <3>4, RecoverableWhen
  <2>3. ASSUME NEW m \in CanRetry, images = RetryImages(disk, m)
        PROVE  Good(images[i]) /\ Recoverable(images[i])
    <3>1. m \in Msg /\ disk # None /\ HasUser(disk, m) /\ Idle
      BY <2>3 DEF CanRetry, MaySend, Retryable
    <3>2. Settled(disk, {m})
      BY <1>2, <3>1, Fewer DEF JobInv
    <3>3. Len(images) = 2 /\ images[1] \in CaseSession /\ Reopens(disk, images[1], m)
      BY <2>3, <3>1, DiskIsRecoverable, RetryReopens
    <3>4. Good(images[1]) /\ AtWork(images[1], m) /\ Settled(images[1], {m})
      BY <3>1, <3>2, <3>3, DiskIsRecoverable, Reopened
    <3> QED BY <3>3, <3>4, RecoverableWhen
  <2>4. CASE Serving /\ disk # None /\ quiet /\ images = StaleImages(disk)
    <3>1. Settled(disk, {})
      BY <1>2, <2>4 DEF JobInv, OneJob
    <3>2. Len(images) = 2 /\ SameWords(disk, images[1])
      BY <2>4, DiskIsRecoverable, StaleSays
    <3>3. Good(images[1]) /\ Settled(images[1], {})
      BY <2>4, <3>1, <3>2, DiskIsRecoverable, SameGood
    <3> QED BY <3>2, <3>3, RecoverableWhen
  <2>5. ASSUME NEW r \in Runtime, Resumes(r), NEW d \in CaseSession, Says(Mem(r), d, turn[r].msg)
        PROVE  Good(d) /\ Recoverable(d)
    <3>1. Executing(r) /\ Busy(r) /\ Good(Mem(r)) /\ Settled(Mem(r), {turn[r].msg})
      BY <2>5, ResumesExecuting DEF JobInv, Runs, WorksOn
    <3> QED BY <2>5, <3>1, ExecutingAlone, Answered, RecoverableWhen
  <2>6. ASSUME NEW r \in Runtime, Resumes(r), NEW s \in AnswerStatus(r), images = AnswerImages(r, s)
        PROVE  Good(images[i]) /\ Recoverable(images[i])
    <3>1. Len(images) = 2 /\ images[1] \in CaseSession /\ Says(Mem(r), images[1], turn[r].msg)
      BY <2>6, ResumesExecuting, AnswerSays
    <3> QED BY <2>5, <2>6, <3>1
  <2>7. ASSUME NEW r \in Runtime, Resumes(r), images = CancelImages(r)
        PROVE  Good(images[i]) /\ Recoverable(images[i])
    <3>1. /\ Len(images) = 3
          /\ \A j \in 1 .. 3 : images[j] \in CaseSession /\ Says(Mem(r), images[j], turn[r].msg)
      BY <2>7, ResumesExecuting, CancelSays
    <3> QED BY <2>5, <2>7, <3>1
  <2>8. ASSUME NEW r \in Runtime, CanRecord(r), NEW m, m = Head(failing[r]).msg, images = FailureImages(disk, m)
        PROVE  Good(images[i]) /\ Recoverable(images[i])
    <3>1. failing[r] # <<>> /\ disk # None
      BY <2>8 DEF CanRecord, CanCatch
    <3>2. m \in Msg /\ AtWork(disk, m) /\ Settled(disk, {m})
      BY <2>8, <3>1, OneEntry DEF JobInv, Ready, WorksOn
    <3>3. /\ Len(images) = 3 /\ images[1] = disk
          /\ \A j \in 2 .. 3 : images[j] \in CaseSession /\ Says(disk, images[j], m)
      BY <2>8, <3>1, <3>2, DiskIsRecoverable, FailureSays DEF AtWork
    <3>4. Good(images[2]) /\ Settled(images[2], {})
      BY <3>1, <3>2, <3>3, DiskIsRecoverable, Answered
    <3>5. Recoverable(images[2])
      BY <3>4, RecoverableWhen
    <3>6. i = 1 \/ i = 2
      BY <3>3
    <3> QED BY <3>1, <3>3, <3>4, <3>5, <3>6, DiskIsRecoverable
  <2> QED BY <2>1, <2>2, <2>3, <2>4, <2>6, <2>7, <2>8
<1> QED BY <1>1, <1>2 DEF StopInv, TypeOK

LEMMA JobTimeAndCrashes ==
  ASSUME StopInv, JobInv, ~Overlap, ~SlowTurn, GrowQuiet \/ Crash \/ CrashBetweenSaves \/ StartServer
  PROVE  JobInv'
<1>1. CASE GrowQuiet
  <2>1. UNCHANGED <<disk, up, queue, turn, failing, accepted, crashes>>
    BY <1>1 DEF GrowQuiet, process, history
  <2>2. Idle
    BY <1>1 DEF GrowQuiet, JobInv, OneJob
  <2>3. Idle'
    BY <2>1, <2>2 DEF Idle, Busy
  <2> QED BY <2>1, <2>2, <2>3, IdleAfter DEF JobInv
<1>2. ASSUME Down, disk' # None => Good(disk') /\ Recoverable(disk')
      PROVE  JobInv'
  <2>1. /\ turn' = [q \in Runtime |-> None] /\ queue' = [q \in Runtime |-> <<>>]
        /\ failing' = [q \in Runtime |-> <<>>] /\ up' = FALSE /\ crashes' = crashes + 1 /\ accepted' = accepted
    BY <1>2 DEF Down
  <2>2. Idle'
    BY <2>1 DEF Idle, Busy
  <2>3. crashes' > 0
    BY <2>1, ClientAssumption DEF StopInv, TypeOK
  <2> QED BY <1>2, <2>1, <2>2, <2>3, IdleAfter
<1>3. CASE Crash
  BY <1>2, <1>3, DiskIsRecoverable DEF Crash
<1>4. CASE CrashBetweenSaves
  <2>1. PICK images \in Updates : \E i \in 1 .. Len(images) - 1 : Write(images[i])
    BY <1>4 DEF CrashBetweenSaves
  <2>2. PICK i \in 1 .. Len(images) - 1 : Write(images[i])
    BY <2>1
  <2>3. disk' = images[i] /\ Good(images[i]) /\ Recoverable(images[i])
    BY <2>2, UpdateIsRecoverable DEF Write
  <2> QED BY <1>2, <1>4, <2>3 DEF CrashBetweenSaves
<1>5. CASE StartServer
  <2>1. ~up /\ up' = TRUE /\ UNCHANGED <<queue, turn, failing, accepted, crashes>>
    BY <1>5 DEF StartServer, history
  <2>2. Idle' /\ crashes > 0
    BY <2>1 DEF JobInv, OneJob, Idle, Busy
  <2>3. CASE Inherits
    <3> DEFINE d == RecoveryImages(disk)[3]
    <3>1. disk # None /\ InheritedTurn(disk) # {} /\ Save(RecoveryImages(disk))
      BY <1>5, <2>3 DEF StartServer, Inherits
    <3>2. Len(RecoveryImages(disk)) = 3 /\ Good(d) /\ Settled(d, {})
      BY <2>2, <3>1, DiskIsRecoverable, RecoverySays
    <3>3. disk' = d
      BY <3>1, <3>2, LastOfThree
    <3> HIDE DEF d
    <3> QED BY <2>1, <2>2, <3>2, <3>3, IdleAfter
  <2>4. CASE ~Inherits
    <3>1. disk' = disk /\ (disk # None => InheritedTurn(disk) = {})
      BY <1>5, <2>4 DEF StartServer, Inherits
    <3>2. disk # None => Good(disk) /\ Settled(disk, {})
      BY <2>2, <3>1, DiskIsRecoverable, Recovered
    <3> QED BY <2>1, <2>2, <3>1, <3>2, IdleAfter
  <2> QED BY <2>3, <2>4
<1> QED BY <1>1, <1>3, <1>4, <1>5

LEMMA JobStep == ASSUME ~Overlap, ~SlowTurn PROVE StopInv /\ JobInv /\ [Next]_vars => JobInv'
<1> SUFFICES ASSUME StopInv, JobInv, [Next]_vars PROVE JobInv'
  OBVIOUS
<1>1. CASE Request
  BY <1>1, JobRequested
<1>2. ASSUME NEW r \in Runtime, Admit(r) PROVE JobInv'
  BY <1>2, JobAdmitted
<1>3. ASSUME NEW r \in Runtime, Progress(r) PROVE JobInv'
  BY <1>3, Collected, Reviewing, JobGoesOn DEF Progress
<1>4. ASSUME NEW r \in Runtime, Advance(r) PROVE JobInv'
  BY <1>4, SourceReviewed, WorkerCalled, WorkerAnswered, FollowedUp, JobGoesOn, JobEnded DEF Advance
<1>5. ASSUME NEW r \in Runtime, RecordFailure(r) PROVE JobInv'
  BY <1>5, JobRecorded
<1>6. CASE GrowQuiet \/ Crash \/ CrashBetweenSaves \/ StartServer
  BY <1>6, JobTimeAndCrashes
<1>7. CASE UNCHANGED vars
  <2>1. UNCHANGED <<disk, quiet, up, queue, turn, failing, accepted, crashes>>
    BY <1>7 DEF vars, process, history
  <2> QED BY <2>1, Edited DEF SameWords
<1> QED BY <1>1, <1>2, <1>3, <1>4, <1>5, <1>6, <1>7 DEF Next

\* A case has one thing to do at a time, and the record says which: a message
\* is left without a reply only while a turn of it is queued, runs or has
\* failed, or by a crash whose traces the start of the server finds.
THEOREM JobInvariant == ASSUME ~Overlap, ~SlowTurn PROVE Spec => [](StopInv /\ JobInv)
<1>1. Init => StopInv /\ JobInv
  BY StopInit, JobInit
<1>2. StopInv /\ JobInv /\ [Next]_vars => (StopInv /\ JobInv)'
  BY StopStep, JobStep
<1> QED BY <1>1, <1>2, PTL DEF Spec

\* A client that waits for the reply, and turns that save more often than the
\* stale limit: one reply is bound to a message, whichever turns, retries,
\* failures and recoveries produced it.
THEOREM OneReplyIsBound == ASSUME ~Overlap, ~SlowTurn PROVE Spec => []OneBoundReply
<1>1. JobInv => OneBoundReply
  BY DEF JobInv, Good, OneBoundReply
<1> QED BY <1>1, JobInvariant, PTL

\* Under the same hypotheses no message accepted for the background is left
\* without a reply, unless a crash cut a retry of it short.
THEOREM SettledIsAnswered == ASSUME ~Overlap, ~SlowTurn PROVE Spec => []SettledCaseIsAnswered
<1>1. JobInv => SettledCaseIsAnswered
  BY DEF JobInv, Settled, RetryLogged, SettledCaseIsAnswered
<1> QED BY <1>1, JobInvariant, PTL

-----------------------------------------------------------------------------
(* The conversation the user sees. *)

Allowed == {<<"absent", "waiting">>, <<"waiting", "answered">>, <<"waiting", "interrupted">>,
            <<"interrupted", "waiting">>}

TalkStep(c, d) ==
  \/ \A m \in Msg : PhaseIn(d, m) = PhaseIn(c, m)
  \/ \E m \in Msg : /\ <<PhaseIn(c, m), PhaseIn(d, m)>> \in Allowed
                    /\ \A n \in Msg : n # m => PhaseIn(d, n) = PhaseIn(c, n)

LEMMA SameTalk == ASSUME NEW c, NEW d, SameWords(c, d) PROVE TalkStep(c, d)
BY DEF SameWords, TalkStep, PhaseIn, HasUser, Bound

LEMMA SaysTalk ==
  ASSUME NEW c \in CaseSession, NEW d \in CaseSession, NEW m \in Msg, Says(c, d, m) PROVE TalkStep(c, d)
<1>1. d.replies[m] # <<>> /\ d.users = c.users /\ \A n \in Msg : n # m => d.replies[n] = c.replies[n]
  BY SessionFields, OneReply DEF Says, Touches
<1>2. HasUser(c, m) /\ c.replies[m] = <<>>
  BY DEF Says, Awaits
<1>3. \A n \in Msg : n # m => PhaseIn(d, n) = PhaseIn(c, n)
  BY <1>1 DEF PhaseIn, HasUser, Bound
<1>4. PhaseIn(c, m) = "waiting" /\ PhaseIn(d, m) \in {"answered", "interrupted"}
  BY <1>1, <1>2 DEF PhaseIn, HasUser
<1> QED BY <1>3, <1>4 DEF TalkStep, Allowed

LEMMA ReopensTalk ==
  ASSUME NEW c \in CaseSession, NEW d \in CaseSession, NEW m \in Msg, Reopens(c, d, m), m \in Retryable(c)
  PROVE  TalkStep(c, d)
<1>1. HasUser(c, m) /\ d.replies[m] = <<>> /\ d.users = c.users
      /\ \A n \in Msg : n # m => d.replies[n] = c.replies[n]
  BY DEF Reopens, Touches
<1>2. PICK i : Bound(c, m) = {[kind |-> "placeholder", log |-> i]}
  BY DEF Retryable
<1>3. c.replies[m] # <<>>
  <2>1. ASSUME NEW q, q = <<>> PROVE Range(q) = {}
    BY <2>1 DEF Range
  <2> QED BY <1>2, <2>1 DEF Bound
<1>6. \A reply \in Bound(c, m) : reply.kind = "placeholder"
  <2>1. [kind |-> "placeholder", log |-> i].kind = "placeholder"
    OBVIOUS
  <2> QED BY <1>2, <2>1
<1>4. \A n \in Msg : n # m => PhaseIn(d, n) = PhaseIn(c, n)
  BY <1>1 DEF PhaseIn, HasUser, Bound
<1>5. PhaseIn(c, m) = "interrupted" /\ PhaseIn(d, m) = "waiting"
  BY <1>1, <1>3, <1>6 DEF PhaseIn, HasUser
<1> QED BY <1>4, <1>5 DEF TalkStep, Allowed

LEMMA RangeAppended ==
  ASSUME NEW S, NEW q \in Seq(S), NEW x \in S, NEW y \in Range(Append(q, x)) PROVE y = x \/ y \in Range(q)
<1> DEFINE p == Append(q, x)
<1>1. p \in Seq(S) /\ Len(p) = Len(q) + 1 /\ p[Len(q) + 1] = x /\ \A i \in 1 .. Len(q) : p[i] = q[i]
  OBVIOUS
<1>2. y \in Range(p)
  OBVIOUS
<1> HIDE DEF p
<1> QED BY <1>1, <1>2 DEF Range

LEMMA AcceptsTalk ==
  ASSUME NEW c \in CaseSession, NEW d \in CaseSession, NEW m \in Msg, Accepts(c, d, m), Good(c)
  PROVE  TalkStep(c, d)
<1>1. c.users \in Seq(Msg) /\ d.users = Append(c.users, m) /\ d.replies = c.replies /\ ~HasUser(c, m)
  BY SessionFields DEF Accepts
<1>2. HasUser(d, m) /\ \A n : n # m => (HasUser(d, n) <=> HasUser(c, n))
  BY <1>1, LastAppended, RangeAppended DEF HasUser
<1>3. c.replies[m] = <<>>
  BY <1>1 DEF Good
<1>4. \A n \in Msg : n # m => PhaseIn(d, n) = PhaseIn(c, n)
  BY <1>1, <1>2 DEF PhaseIn, Bound
<1>5. PhaseIn(c, m) = "absent" /\ PhaseIn(d, m) = "waiting"
  BY <1>1, <1>2, <1>3 DEF PhaseIn
<1> QED BY <1>4, <1>5 DEF TalkStep, Allowed

\* Whatever an update leaves on disk is a step of the conversation.
LEMMA UpdatesTalk ==
  ASSUME StopInv, JobInv, disk # None, NEW images \in Updates, NEW i \in 1 .. Len(images)
  PROVE  images[i] # None /\ TalkStep(disk, images[i])
<1>0. \A d \in CaseSession : d # None
  BY NoneAssumption
<1>1. CASE ~up
  <2>1. InheritedTurn(disk) # {} /\ images = RecoveryImages(disk)
    BY <1>1 DEF Updates, Inherits
  <2>2. /\ Len(images) = 3
        /\ \E m \in Msg : \A j \in 1 .. 3 : images[j] \in CaseSession /\ Says(disk, images[j], m)
    BY <2>1, DiskIsRecoverable, RecoverySays
  <2> QED BY <1>0, <2>2, DiskIsRecoverable, SaysTalk
<1>2. CASE up
  <2>1. \/ \E m \in Postable : images = PostImages(disk, m)
        \/ \E m \in CanRetry : images = RetryImages(disk, m)
        \/ images = StaleImages(disk)
        \/ \E r \in Runtime : Resumes(r) /\ \E s \in AnswerStatus(r) : images = AnswerImages(r, s)
        \/ \E r \in Runtime : Resumes(r) /\ images = CancelImages(r)
        \/ \E r \in Runtime : CanRecord(r) /\ images = FailureImages(disk, Head(failing[r]).msg)
    BY <1>2 DEF Updates
  <2>2. ASSUME NEW m \in Postable, images = PostImages(disk, m)
        PROVE  images[i] # None /\ TalkStep(disk, images[i])
    <3>1. m \in Msg /\ ~HasUser(disk, m)
      BY <2>2 DEF Postable, HasUser
    <3>2. /\ Len(images) = 2
          /\ \A j \in 1 .. 2 : images[j] \in CaseSession /\ Accepts(disk, images[j], m)
      BY <2>2, <3>1, DiskIsRecoverable, PostAccepts
    <3> QED BY <1>0, <3>1, <3>2, DiskIsRecoverable, AcceptsTalk
  <2>3. ASSUME NEW m \in CanRetry, images = RetryImages(disk, m)
        PROVE  images[i] # None /\ TalkStep(disk, images[i])
    <3>1. m \in Msg /\ HasUser(disk, m) /\ m \in Retryable(disk)
      BY <2>3 DEF CanRetry, Retryable
    <3>2. /\ Len(images) = 2
          /\ \A j \in 1 .. 2 : images[j] \in CaseSession /\ Reopens(disk, images[j], m)
      BY <2>3, <3>1, DiskIsRecoverable, RetryReopens
    <3> QED BY <1>0, <3>1, <3>2, DiskIsRecoverable, ReopensTalk
  <2>4. CASE images = StaleImages(disk)
    <3>1. /\ Len(images) = 2 /\ \A j \in 1 .. 2 : images[j] \in CaseSession
          /\ SameWords(disk, images[1])
          /\ SameWords(disk, images[2]) \/ \E m \in Msg : Says(disk, images[2], m)
      BY <2>4, DiskIsRecoverable, StaleSays
    <3>2. i = 1 \/ i = 2
      BY <3>1
    <3> QED BY <1>0, <3>1, <3>2, DiskIsRecoverable, SameTalk, SaysTalk
  <2>5. ASSUME NEW r \in Runtime, Resumes(r), NEW d \in CaseSession, Says(Mem(r), d, turn[r].msg)
        PROVE  d # None /\ TalkStep(disk, d)
    <3>1. SameWords(Mem(r), disk) /\ turn[r].msg \in Msg
      BY <2>5, ResumesExecuting, ExecutingAlone DEF JobInv, Runs
    <3>2. Says(disk, d, turn[r].msg)
      BY <2>5, <3>1 DEF Says, Touches, SameWords, Awaits, HasUser
    <3> QED BY <1>0, <3>1, <3>2, DiskIsRecoverable, SaysTalk
  <2>6. ASSUME NEW r \in Runtime, Resumes(r), NEW s \in AnswerStatus(r), images = AnswerImages(r, s)
        PROVE  images[i] # None /\ TalkStep(disk, images[i])
    <3>1. /\ Len(images) = 2
          /\ \A j \in 1 .. 2 : images[j] \in CaseSession /\ Says(Mem(r), images[j], turn[r].msg)
      BY <2>6, ResumesExecuting, AnswerSays
    <3> QED BY <2>5, <2>6, <3>1
  <2>7. ASSUME NEW r \in Runtime, Resumes(r), images = CancelImages(r)
        PROVE  images[i] # None /\ TalkStep(disk, images[i])
    <3>1. /\ Len(images) = 3
          /\ \A j \in 1 .. 3 : images[j] \in CaseSession /\ Says(Mem(r), images[j], turn[r].msg)
      BY <2>7, ResumesExecuting, CancelSays
    <3> QED BY <2>5, <2>7, <3>1
  <2>8. ASSUME NEW r \in Runtime, CanRecord(r), NEW m, m = Head(failing[r]).msg, images = FailureImages(disk, m)
        PROVE  images[i] # None /\ TalkStep(disk, images[i])
    <3>1. failing[r] # <<>>
      BY <2>8 DEF CanRecord, CanCatch
    <3>2. m \in Msg /\ Awaits(disk, m)
      BY <2>8, <3>1, OneEntry DEF JobInv, Ready, WorksOn, AtWork
    <3>3. /\ Len(images) = 3 /\ images[1] = disk
          /\ \A j \in 2 .. 3 : images[j] \in CaseSession /\ Says(disk, images[j], m)
      BY <2>8, <3>2, DiskIsRecoverable, FailureSays
    <3>4. i = 1 \/ i \in 2 .. 3
      BY <3>3
    <3>5. SameWords(disk, disk)
      BY DEF SameWords
    <3> QED BY <1>0, <3>2, <3>3, <3>4, <3>5, DiskIsRecoverable, SameTalk, SaysTalk
  <2> QED BY <2>1, <2>2, <2>3, <2>4, <2>6, <2>7, <2>8
<1> QED BY <1>1, <1>2 DEF StopInv, TypeOK

LEMMA SavedTalk ==
  ASSUME StopInv, JobInv, disk # None, NEW images \in Updates, Save(images)
  PROVE  disk' # None /\ TalkStep(disk, disk')
<1>1. Len(images) \in 1 .. Len(images)
  BY UpdatesAreFine DEF AllFine
<1>2. disk' = images[Len(images)]
  BY <1>1 DEF Save, Write, Last
<1> QED BY <1>1, <1>2, UpdatesTalk

LEMMA MovesTalk ==
  ASSUME StopInv, JobInv, disk # None, NEW r \in Runtime, NEW t \in Turn, GoesOn(r, t)
  PROVE  disk' # None /\ TalkStep(disk, disk')
<1>1. Runs(r) /\ disk' = t.mem
  BY DEF GoesOn, JobInv, Executing, Move, Write
<1>2. SameWords(disk, disk')
  BY <1>1 DEF Runs, SameWords, GoesOn, SameRest, SameUsers
<1>3. disk' # None
  BY <1>1, NoneAssumption DEF Turn
<1> QED BY <1>2, <1>3, SameTalk

LEMMA RequestsTalk ==
  ASSUME StopInv, JobInv, disk # None, Request, "delete" \notin ClientOps
  PROVE  disk' # None /\ TalkStep(disk, disk')
<1>1. ASSUME NEW m \in Msg, Post(m) PROVE disk' # None /\ TalkStep(disk, disk')
  <2>1. PostImages(disk, m) \in Updates /\ Save(PostImages(disk, m))
    BY <1>1 DEF Post, Updates, Serving
  <2> QED BY <2>1, SavedTalk
<1>2. ASSUME NEW m \in Msg, Retry(m) PROVE disk' # None /\ TalkStep(disk, disk')
  <2>1. RetryImages(disk, m) \in Updates /\ Save(RetryImages(disk, m))
    BY <1>2 DEF Retry, Updates, Serving
  <2> QED BY <2>1, SavedTalk
<1>3. CASE ReadSession
  <2>1. StaleImages(disk) \in Updates /\ Save(StaleImages(disk))
    BY <1>3 DEF ReadSession, Updates, Serving
  <2> QED BY <2>1, SavedTalk
<1>4. CASE Archive
  <2> DEFINE c == [disk EXCEPT !.archived = TRUE]
  <2>1. disk \in CaseSession
    BY DiskIsRecoverable
  <2>2. c \in CaseSession /\ SameWords(disk, c)
    BY <2>1 DEF CaseSession, SameWords
  <2>3. disk' = c
    BY <1>4 DEF Archive, Write
  <2> HIDE DEF c
  <2> QED BY <2>2, <2>3, SameTalk, NoneAssumption
<1>5. CASE disk' = disk
  BY <1>5, SameTalk DEF SameWords
<1>6. (\E m \in Msg : Stop(m)) \/ Edit \/ Delete \/ Reload => disk' = disk
  BY DEF Stop, Edit, Write, Delete, Reload
<1> QED BY <1>1, <1>2, <1>3, <1>4, <1>5, <1>6 DEF Request

LEMMA AdmissionsTalk ==
  ASSUME StopInv, JobInv, disk # None, NEW r \in Runtime, Admit(r)
  PROVE  disk' # None /\ TalkStep(disk, disk')
<1>1. CASE Curate(r)
  <2> DEFINE m == Head(queue[r]).msg
             images == FinishImages(disk, m, "waiting_user")
  <2>1. queue[r] # <<>> /\ Save(images)
    BY <1>1 DEF Curate, MayBegin
  <2>2. disk \in CaseSession /\ m \in Msg /\ Awaits(disk, m)
    BY <2>1, OneEntry, DiskIsRecoverable DEF JobInv, Ready, WorksOn, AtWork
  <2> HIDE DEF m
  <2>3. Len(images) = 2 /\ images[2] \in CaseSession /\ Says(disk, images[2], m)
    BY <2>2, FinishSays DEF Status, FinalStatus
  <2>4. disk' = images[2]
    BY <2>1, <2>3, LastOfTwo
  <2> HIDE DEF images
  <2> QED BY <2>2, <2>3, <2>4, SaysTalk, NoneAssumption
<1>2. CASE Reject(r) \/ Begin(r)
  <2>1. disk' = disk
    BY <1>2 DEF Reject, Begin, Write
  <2> QED BY <2>1, SameTalk DEF SameWords
<1> QED BY <1>1, <1>2 DEF Admit

LEMMA EndsTalk ==
  ASSUME StopInv, JobInv, disk # None, NEW r \in Runtime, Answer(r) \/ EndCurated(r) \/ Cancel(r) \/ Fail(r)
  PROVE  disk' # None /\ TalkStep(disk, disk')
<1>1. CASE Answer(r)
  <2>1. PICK s \in AnswerStatus(r) : Save(AnswerImages(r, s))
    BY <1>1 DEF Answer
  <2>2. AnswerImages(r, s) \in Updates
    BY <1>1, ResumesExecuting DEF Answer, Updates
  <2> QED BY <2>1, <2>2, SavedTalk
<1>2. CASE Cancel(r)
  <2>1. CancelImages(r) \in Updates /\ Save(CancelImages(r))
    BY <1>2, ResumesExecuting DEF Cancel, Updates
  <2> QED BY <2>1, SavedTalk
<1>3. CASE EndCurated(r) \/ Fail(r)
  <2>1. disk' = disk
    BY <1>3 DEF EndCurated, Fail
  <2> QED BY <2>1, SameTalk DEF SameWords
<1> QED BY <1>1, <1>2, <1>3

LEMMA RecordsTalk ==
  ASSUME StopInv, JobInv, disk # None, NEW r \in Runtime, RecordFailure(r)
  PROVE  disk' # None /\ TalkStep(disk, disk')
<1>1. CASE CanRecord(r)
  <2> DEFINE images == FailureImages(disk, Head(failing[r]).msg)
  <2>1. images \in Updates /\ Save(images)
    BY <1>1 DEF CanRecord, CanCatch, Updates, RecordFailure
  <2> HIDE DEF images
  <2> QED BY <2>1, SavedTalk
<1>2. CASE ~CanRecord(r)
  <2>1. disk' = disk
    BY <1>2 DEF RecordFailure
  <2> QED BY <2>1, SameTalk DEF SameWords
<1> QED BY <1>1, <1>2

LEMMA CrashesTalk ==
  ASSUME StopInv, JobInv, disk # None, GrowQuiet \/ Crash \/ CrashBetweenSaves \/ StartServer
  PROVE  disk' # None /\ TalkStep(disk, disk')
<1>1. CASE CrashBetweenSaves
  <2>1. PICK images \in Updates : \E i \in 1 .. Len(images) - 1 : Write(images[i])
    BY <1>1 DEF CrashBetweenSaves
  <2>2. PICK i \in 1 .. Len(images) - 1 : Write(images[i])
    BY <2>1
  <2>3. i \in 1 .. Len(images) /\ disk' = images[i]
    BY <2>2, UpdatesAreFine DEF AllFine, Write
  <2> QED BY <2>3, UpdatesTalk
<1>2. CASE StartServer /\ Inherits
  <2>1. RecoveryImages(disk) \in Updates /\ Save(RecoveryImages(disk))
    BY <1>2 DEF StartServer, Updates
  <2> QED BY <2>1, SavedTalk
<1>3. CASE GrowQuiet \/ Crash \/ (StartServer /\ ~Inherits)
  <2>1. disk' = disk
    BY <1>3 DEF GrowQuiet, Crash, StartServer
  <2> QED BY <2>1, SameTalk DEF SameWords
<1> QED BY <1>1, <1>2, <1>3

\* Every step of the server is a step of the conversation.
LEMMA StepsTalk ==
  ASSUME StopInv, JobInv, disk # None, [Next]_vars, "delete" \notin ClientOps
  PROVE  disk' # None /\ TalkStep(disk, disk')
<1>1. ASSUME NEW r \in Runtime, Progress(r) \/ Advance(r) PROVE disk' # None /\ TalkStep(disk, disk')
  BY <1>1, Collected, Reviewing, SourceReviewed, WorkerCalled, WorkerAnswered, FollowedUp, MovesTalk, EndsTalk
  DEF Progress, Advance
<1>2. CASE UNCHANGED vars
  <2>1. disk' = disk
    BY <1>2 DEF vars
  <2> QED BY <2>1, SameTalk DEF SameWords
<1> QED BY <1>1, <1>2, RequestsTalk, AdmissionsTalk, RecordsTalk, CrashesTalk DEF Next

LEMMA TalkNext ==
  ASSUME disk # None, disk' # None, TalkStep(disk, disk')
  PROVE  [Talk!Next]_Phase
<1>1. /\ Phase = [m \in Msg |-> PhaseIn(disk, m)]
      /\ Phase' = [m \in Msg |-> PhaseIn(disk', m)]
  BY DEF Phase
<1>2. CASE \A m \in Msg : PhaseIn(disk', m) = PhaseIn(disk, m)
  BY <1>1, <1>2
<1>3. ASSUME NEW m \in Msg, <<PhaseIn(disk, m), PhaseIn(disk', m)>> \in Allowed,
             \A n \in Msg : n # m => PhaseIn(disk', n) = PhaseIn(disk, n)
      PROVE  Talk!Next
  <2> DEFINE from == PhaseIn(disk, m)
             to == PhaseIn(disk', m)
  <2>1. Phase[m] = from /\ Phase' = [Phase EXCEPT ![m] = to]
    BY <1>1, <1>3
  <2>2. <<from, to>> \in Allowed
    BY <1>3
  <2> HIDE DEF from, to
  <2>3. Talk!Becomes(m, from, to)
    BY <2>1 DEF Talk!Becomes
  <2>4. Talk!Accept(m) \/ Talk!Answer(m) \/ Talk!Interrupt(m) \/ Talk!Retry(m)
    BY <2>2, <2>3 DEF Allowed, Talk!Accept, Talk!Answer, Talk!Interrupt, Talk!Retry
  <2> QED BY <2>4 DEF Talk!Next
<1> QED BY <1>2, <1>3 DEF TalkStep

\* The record on disk implements Conversation, step by step, for a client that
\* waits for the reply and deletes no case: a message that waits is answered,
\* failed or interrupted once, and an answered one is never touched again,
\* whatever is saved, retried or recovered, and wherever a crash strikes.
THEOREM ConversationIsImplemented ==
  ASSUME ~Overlap, ~SlowTurn, "delete" \notin ClientOps PROVE Spec => ImplementsConversation
<1> DEFINE Inv == StopInv /\ JobInv /\ disk # None
<1>1. Init => Inv /\ Talk!Init
  <2> SUFFICES ASSUME Init PROVE Inv /\ Talk!Init
    OBVIOUS
  <2>1. disk = NewCase /\ Inv
    <3>1. NewCase \in CaseSession
      BY DEF NewCase, CaseSession, Status, FinalStatus
    <3>2. disk = NewCase /\ StopInv /\ JobInv
      BY StopInit, JobInit DEF Init
    <3> QED BY <3>1, <3>2, NoneAssumption
  <2>2. \A m \in Msg : PhaseIn(disk, m) = "absent"
    BY <2>1 DEF PhaseIn, HasUser, NewCase, Range
  <2> QED BY <2>1, <2>2 DEF Talk!Init, Phase
<1>2. Inv /\ [Next]_vars => Inv' /\ [Talk!Next]_Phase
  BY StopStep, JobStep, StepsTalk, TalkNext
<1> QED BY <1>1, <1>2, PTL DEF Spec, ImplementsConversation, Talk!Spec
=============================================================================
