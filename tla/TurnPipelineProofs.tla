-------------------------- MODULE TurnPipelineProofs --------------------------
(***************************************************************************)
(* Proofs about who answers a turn, for any questions, stores, searches    *)
(* and responses of the Worker, and any number of turns.                   *)
(*                                                                         *)
(* A turn has no run before it is answered (RunsBegin), and while it is    *)
(* answered only its last run may be at work (LastAtWork).  A second run   *)
(* follows one that was reviewed and did not conclude (FirstWasReviewed).  *)
(* Of the earlier questions that may be answered again there is a first    *)
(* one (OneComesFirst), and what a model judged full covers the goal.      *)
(***************************************************************************)
EXTENDS TurnPipeline, NaturalsInduction, WellFoundedInduction, TLAPS

Kinds == {"experience", "knowledge", "mcp", "worker"}
Statuses == {"running", "concluded", "need_input", "partial"} \cup {r.status : r \in Responses}
RunRecord == [kind : Kinds, turn : Nat, status : Statuses, result : Statuses \cup {"none"},
              profile : Preferences \cup {"none"}, checked : BOOLEAN]
Executions == [kind : {"execution"}, mode : Preferences, profile : Preferences,
               attempt : {1, 2}, allowed : BOOLEAN]
Reviews == [decision : Decisions \cup {"none"}, reviewed : BOOLEAN]

Typed ==
  /\ turns \in Nat /\ pc \in Ended \cup Awaits /\ aborted \in BOOLEAN /\ preference \in Preferences
  /\ runs \in Seq(RunRecord)
  /\ execution \in Executions \cup {Nothing}
  /\ earlier \in Reviews /\ reply \in Reviews

Unanswered == {"preflight", "completeness", "knowledge", "rag", "mcp"}
AtWork == {"coverage", "review", "execute"}

\* What the runs of a list say of this turn.
UpToNow(rs) == \A i \in DOMAIN rs : rs[i].turn <= turns
Quiet(rs) == \A i \in DOMAIN rs : rs[i].turn = turns => rs[i].status # "running"
Checked(rs) == \E i \in DOMAIN rs : rs[i].turn = turns /\ rs[i].checked
Concludes(rs) == rs[Len(rs)].checked /\ rs[Len(rs)].status = "concluded" /\ rs[Len(rs)].turn = turns

RunsBegin ==
  /\ pc \in Unanswered \cup {"idle"} => earlier = NoReview
  /\ pc \in Unanswered => \A i \in DOMAIN runs : runs[i].turn < turns

LastAtWork ==
  /\ pc \in AtWork =>
       /\ runs # <<>> /\ runs[LastRun].turn = turns
       /\ \A i \in DOMAIN runs : i # LastRun /\ runs[i].turn = turns => runs[i].status # "running"
  /\ pc = "execute" => FromWorker /\ runs[LastRun].result = "none"

FirstWasReviewed ==
  pc \in AtWork \cup {"failed"} /\ earlier # NoReview =>
    /\ pc # "coverage" /\ Len(runs) > 1 /\ FromWorker
    /\ LET first == runs[LastRun - 1]
       IN first.turn = turns /\ first.checked /\ first.result # "none" /\ first.status # "concluded"
    /\ pc = "failed" => runs[LastRun].result = "none"

Inv == Typed /\ UpToNow(runs) /\ RunsBegin /\ LastAtWork /\ FirstWasReviewed /\ SettledAgrees

-----------------------------------------------------------------------------
(* Records of runs. *)

LEMMA RunsTyped ==
  ASSUME turns \in Nat, NEW kind \in Kinds, NEW status \in Statuses
  PROVE  LET r == Run(kind, status) IN
         /\ r \in RunRecord /\ [r EXCEPT !.result = "concluded"] \in RunRecord
         /\ \A p \in Preferences \cup {"none"} : [r EXCEPT !.profile = p] \in RunRecord
         /\ \A p \in Preferences \cup {"none"} :
              LET w == [r EXCEPT !.profile = p] IN w.kind = kind /\ w.turn = turns /\ w.result = "none"
         /\ r.kind = kind /\ r.turn = turns /\ r.result = "none"
         /\ LET c == [r EXCEPT !.result = "concluded"] IN c.turn = turns /\ c.kind = kind /\ c.status = status
BY DEF Run, RunRecord, Statuses

LEMMA Appended ==
  ASSUME NEW rs \in Seq(RunRecord), NEW r \in RunRecord
  PROVE  LET longer == Append(rs, r) IN
         /\ longer \in Seq(RunRecord) /\ Len(longer) = Len(rs) + 1 /\ longer # <<>>
         /\ DOMAIN longer = 1 .. Len(rs) + 1 /\ DOMAIN rs = 1 .. Len(rs) /\ Len(rs) \in Nat
         /\ longer[Len(rs) + 1] = r /\ \A i \in DOMAIN rs : longer[i] = rs[i]
OBVIOUS

LEMMA LastSet ==
  ASSUME NEW rs \in Seq(RunRecord), rs # <<>>, NEW r \in RunRecord
  PROVE  LET set == [rs EXCEPT ![Len(rs)] = r] IN
         /\ set \in Seq(RunRecord) /\ Len(set) = Len(rs) /\ DOMAIN set = DOMAIN rs
         /\ DOMAIN rs = 1 .. Len(rs) /\ Len(rs) \in Nat /\ Len(rs) \in DOMAIN rs
         /\ set[Len(rs)] = r /\ \A i \in DOMAIN rs : i # Len(rs) => set[i] = rs[i]
OBVIOUS

-----------------------------------------------------------------------------
(* How a turn ends. *)

LEMMA CancelledTyped ==
  ASSUME NEW rs \in Seq(RunRecord)
  PROVE  /\ CancelledRuns(rs) \in Seq(RunRecord)
         /\ DOMAIN CancelledRuns(rs) = DOMAIN rs
         /\ \A i \in DOMAIN rs : /\ CancelledRuns(rs)[i].turn = rs[i].turn
                               /\ CancelledRuns(rs)[i].status # "running"
<1>1. \A i \in DOMAIN rs : rs[i] \in RunRecord
  OBVIOUS
<1>2. \A r \in RunRecord : LET p == [r EXCEPT !.status = "partial"] IN
        p \in RunRecord /\ p.turn = r.turn /\ p.status = "partial"
  BY DEF RunRecord, Statuses
<1>3. DOMAIN rs = 1 .. Len(rs) /\ Len(rs) \in Nat
  OBVIOUS
<1>4. \A i \in DOMAIN rs : /\ CancelledRuns(rs)[i] \in RunRecord
                          /\ CancelledRuns(rs)[i].turn = rs[i].turn
                          /\ CancelledRuns(rs)[i].status # "running"
  BY <1>1, <1>2 DEF CancelledRuns
<1> QED BY <1>3, <1>4 DEF CancelledRuns

LEMMA CancelEnds ==
  ASSUME Inv, NEW rs \in Seq(RunRecord), UpToNow(rs), Cancel(rs), Kept PROVE Inv'
<1>1. Typed'
  BY CancelledTyped DEF Cancel, Kept, Inv, Typed, Ended, Reviews, Decisions
<1>2. UpToNow(runs)'
  BY CancelledTyped DEF Cancel, Kept, UpToNow
<1>3. SettledAgrees'
  BY CancelledTyped DEF Cancel, Kept, SettledAgrees
<1> QED BY <1>1, <1>2, <1>3 DEF Inv, Cancel, RunsBegin, LastAtWork, FirstWasReviewed, Unanswered, AtWork

LEMMA CompleteEnds ==
  ASSUME Inv, NEW rs \in Seq(RunRecord), UpToNow(rs), Quiet(rs), NEW review \in Reviews,
         review.reviewed => Checked(rs),
         review.reviewed /\ review.decision = "final" => Concludes(rs),
         Complete(rs, review), Kept
  PROVE  Inv'
<1>1. CASE aborted /\ ~review.reviewed
  BY <1>1, CancelEnds DEF Complete
<1>2. CASE ~(aborted /\ ~review.reviewed)
  <2>1. /\ pc' = "settled" /\ runs' = rs
        /\ reply' = IF aborted THEN [review EXCEPT !.decision = "partial"] ELSE review
        /\ UNCHANGED <<execution, earlier>>
    BY <1>2 DEF Complete
  <2>2. reply' \in Reviews /\ (aborted => reply'.decision = "partial") /\ (reply'.reviewed <=> review.reviewed)
        /\ (~aborted => reply' = review)
    BY <2>1 DEF Reviews, Decisions
  <2>3. Typed'
    BY <2>1, <2>2 DEF Kept, Inv, Typed, Ended
  <2>4. SettledAgrees'
    BY <2>1, <2>2 DEF Kept, SettledAgrees, LastRun, Quiet, Checked, Concludes
  <2> QED BY <2>1, <2>3, <2>4 DEF Kept, Inv, UpToNow, RunsBegin, LastAtWork, FirstWasReviewed, Unanswered, AtWork
<1> QED BY <1>1, <1>2

-----------------------------------------------------------------------------
(* Before an answer. *)

LEMMA StillUnanswered ==
  ASSUME Inv, pc \in Unanswered, pc' \in Unanswered, Kept, UNCHANGED <<runs, execution, earlier, reply>>
  PROVE  Inv'
BY DEF Inv, Typed, Awaits, UpToNow, RunsBegin, LastAtWork, FirstWasReviewed, SettledAgrees, Kept,
       Unanswered, AtWork

\* The run of an answer is the first of its turn.
LEMMA AnswerBegins ==
  ASSUME Inv, pc \in Unanswered, pc' \in AtWork, Kept,
         NEW r \in RunRecord, r.turn = turns, runs' = Append(runs, r),
         pc' = "execute" => r.kind = "worker" /\ r.result = "none",
         execution' \in Executions \cup {Nothing}, UNCHANGED <<earlier, reply>>
  PROVE  Inv'
<1>1. runs \in Seq(RunRecord) /\ turns \in Nat /\ earlier = NoReview
      /\ \A i \in DOMAIN runs : runs[i] \in RunRecord /\ runs[i].turn < turns
  BY DEF Inv, Typed, RunsBegin
<1>2. /\ runs' \in Seq(RunRecord) /\ Len(runs') = Len(runs) + 1 /\ runs' # <<>>
      /\ DOMAIN runs' = 1 .. Len(runs) + 1 /\ DOMAIN runs = 1 .. Len(runs) /\ Len(runs) \in Nat
      /\ runs'[Len(runs) + 1] = r /\ \A i \in DOMAIN runs : runs'[i] = runs[i]
  BY <1>1, Appended
<1>3. Typed'
  BY <1>2 DEF Inv, Typed, Kept, AtWork, Awaits
<1>4. UpToNow(runs)'
  BY <1>1, <1>2 DEF UpToNow, Kept, RunRecord
<1>5. LastAtWork'
  BY <1>1, <1>2 DEF LastAtWork, LastRun, FromWorker, Kept
<1> QED
  BY <1>1, <1>3, <1>4, <1>5 DEF Inv, RunsBegin, FirstWasReviewed, SettledAgrees, Unanswered, AtWork

LEMMA DispatchKeeps ==
  ASSUME Inv, pc \in {"preflight", "completeness"}, Kept, NEW items, NEW store, Dispatch(items, store)
  PROVE  Inv'
<1> DEFINE asked == [question |-> asker.question, object |-> asker.question, items |-> items]
           r == [Run("experience", "running") EXCEPT !.result = "concluded"]
<1>1. r \in RunRecord /\ r.turn = turns
  BY RunsTyped DEF Inv, Typed, Kinds, Statuses
<1>2. CASE FindExperienceMatch(asker, asked, store) # NoMatch
  <2>1. pc' = "coverage" /\ runs' = Append(runs, r) /\ UNCHANGED <<execution, earlier, reply>>
    BY <1>2 DEF Dispatch
  <2> HIDE DEF r
  <2> QED BY <1>1, <2>1, AnswerBegins DEF Unanswered, AtWork, Inv, Typed
<1>3. CASE FindExperienceMatch(asker, asked, store) = NoMatch
  <2>1. pc' \in {"knowledge", "mcp"} /\ UNCHANGED <<runs, execution, earlier, reply>>
    BY <1>3 DEF Dispatch
  <2> QED BY <2>1, StillUnanswered DEF Unanswered
<1> QED BY <1>2, <1>3

LEMMA UseKnowledgeKeeps ==
  ASSUME Inv, pc \in {"knowledge", "rag"}, Fixed, NEW s, NEW rag, UseKnowledge(s, rag)
  PROVE  Inv'
<1> DEFINE r == [Run("knowledge", "running") EXCEPT !.result = "concluded"]
           judge == FinalJudge(Judge(s.route, s.results), rag)
<1>1. r \in RunRecord /\ r.turn = turns
  BY RunsTyped DEF Inv, Typed, Kinds, Statuses
<1>2. CASE judge.answerable
  <2>1. pc' = "coverage" /\ runs' = Append(runs, r) /\ UNCHANGED <<execution, earlier, reply>>
    BY <1>2 DEF UseKnowledge
  <2> HIDE DEF r
  <2> QED BY <1>1, <2>1, AnswerBegins DEF Unanswered, AtWork, Inv, Typed, Fixed
<1>3. CASE ~judge.answerable
  <2>1. pc' = "mcp" /\ UNCHANGED <<runs, execution, earlier, reply>>
    BY <1>3 DEF UseKnowledge
  <2> QED BY <2>1, StillUnanswered DEF Unanswered, Fixed
<1> QED BY <1>2, <1>3

LEMMA ReviewRecords ==
  \A d \in Decisions \cup {"none"}, b \in BOOLEAN : [decision |-> d, reviewed |-> b] \in Reviews
BY DEF Reviews

LEMMA TurnsOfRuns ==
  ASSUME Inv
  PROVE  /\ turns \in Nat /\ runs \in Seq(RunRecord)
         /\ \A i \in DOMAIN runs : runs[i] \in RunRecord /\ runs[i].turn \in Nat /\ runs[i].turn <= turns
<1>1. turns \in Nat /\ runs \in Seq(RunRecord) /\ UpToNow(runs)
  BY DEF Inv, Typed
<1>2. \A i \in DOMAIN runs : runs[i] \in RunRecord
  BY <1>1
<1>3. \A r \in RunRecord : r.turn \in Nat
  BY DEF RunRecord
<1> QED BY <1>1, <1>2, <1>3 DEF UpToNow

LEMMA BeginKeeps ==
  ASSUME Inv, NEW p \in Preferences, NEW confirms \in BOOLEAN, Begin(p, confirms) PROVE Inv'
<1>1. /\ turns' = turns + 1 /\ preference' = p /\ aborted' = FALSE /\ execution' = Nothing
      /\ earlier' = NoReview /\ runs' = runs /\ pc' \in {"settled", "preflight"}
  BY DEF Begin
<1>2. reply' \in {NoReview, [decision |-> "final", reviewed |-> FALSE]}
  BY DEF Begin
<1>3. aborted' \in BOOLEAN
  BY <1>1
<1>4. NoReview \in Reviews /\ [decision |-> "final", reviewed |-> FALSE] \in Reviews
  BY ReviewRecords DEF NoReview, Decisions
<1>5. \A r \in {NoReview, [decision |-> "final", reviewed |-> FALSE]} : ~r.reviewed
  BY DEF NoReview
<1>6. \A i \in DOMAIN runs : runs[i].turn < turns' /\ runs[i].turn <= turns' /\ runs[i].turn # turns'
  BY <1>1, TurnsOfRuns
<1>7. reply' \in Reviews /\ earlier' \in Reviews /\ ~reply'.reviewed
  BY <1>1, <1>2, <1>4, <1>5
<1>8. pc' \in Ended \cup Awaits
  BY <1>1 DEF Ended, Awaits
<1>9. Typed'
  BY <1>1, <1>3, <1>7, <1>8, TurnsOfRuns DEF Typed
<1>10. SettledAgrees'
  BY <1>1, <1>6, <1>7 DEF SettledAgrees
<1>11. UpToNow(runs)'
  BY <1>1, <1>6 DEF UpToNow
<1> QED
  BY <1>1, <1>6, <1>9, <1>10, <1>11 DEF Inv, RunsBegin, LastAtWork, FirstWasReviewed, Unanswered, AtWork

LEMMA PreflightKeeps ==
  ASSUME Inv, NEW model, NEW proposal, NEW store, Preflight(model, proposal, store) PROVE Inv'
<1>1. pc = "preflight" /\ Kept /\ UpToNow(runs)
  BY DEF Preflight, Inv
<1>2. CASE Cancel(runs)
  BY <1>1, <1>2, CancelEnds DEF Inv, Typed
<1>3. CASE Complete(runs, [decision |-> "ask_user", reviewed |-> FALSE])
  <2>1. [decision |-> "ask_user", reviewed |-> FALSE] \in Reviews
    BY ReviewRecords DEF Decisions
  <2>2. Quiet(runs)
    BY <1>1, TurnsOfRuns DEF Quiet, Inv, RunsBegin, Unanswered
  <2> QED BY <1>1, <1>3, <2>1, <2>2, TurnsOfRuns, CompleteEnds
<1>4. CASE pc' = "completeness" /\ UNCHANGED <<runs, execution, earlier, reply>>
  BY <1>1, <1>4, StillUnanswered DEF Unanswered
<1>5. CASE Dispatch(DirectAnswer, store)
  BY <1>1, <1>5, DispatchKeeps
<1> QED BY <1>2, <1>3, <1>4, <1>5 DEF Preflight

LEMMA ReviewGoalKeeps ==
  ASSUME Inv, NEW verdict, NEW store, ReviewGoal(verdict, store) PROVE Inv'
<1>1. pc = "completeness" /\ Kept /\ UpToNow(runs)
  BY DEF ReviewGoal, Inv
<1>2. CASE Cancel(runs)
  BY <1>1, <1>2, CancelEnds DEF Inv, Typed
<1>3. CASE Dispatch(MustAnswerItems(goal, verdict), store)
  BY <1>1, <1>3, DispatchKeeps
<1> QED BY <1>2, <1>3 DEF ReviewGoal

LEMMA SearchKeeps ==
  ASSUME Inv, NEW s, Search(s) PROVE Inv'
<1>1. pc = "knowledge" /\ Fixed /\ Kept /\ UpToNow(runs)
  BY DEF Search, Inv, Fixed
<1>2. CASE Cancel(runs)
  BY <1>1, <1>2, CancelEnds DEF Inv, Typed
<1>3. CASE pc' \in {"mcp", "rag"} /\ UNCHANGED <<runs, execution, earlier, reply>>
  BY <1>1, <1>3, StillUnanswered DEF Unanswered
<1>4. CASE UseKnowledge(s, NoReviewer)
  BY <1>1, <1>4, UseKnowledgeKeeps
<1> QED BY <1>2, <1>3, <1>4 DEF Search

LEMMA AnswerabilityKeeps ==
  ASSUME Inv, NEW a, Answerability(a) PROVE Inv'
<1>1. pc = "rag" /\ Fixed /\ Kept /\ UpToNow(runs)
  BY DEF Answerability, Inv, Fixed
<1>2. CASE Cancel(runs)
  BY <1>1, <1>2, CancelEnds DEF Inv, Typed
<1>3. CASE UseKnowledge(found, Validated(a, found.results, goal))
  BY <1>1, <1>3, UseKnowledgeKeeps
<1> QED BY <1>2, <1>3 DEF Answerability

-----------------------------------------------------------------------------
(* The Worker and MCP. *)

LEMMA ExecutionsTyped ==
  ASSUME Inv
  PROVE  /\ ResolveInvestigation(preference, lead) \in Executions \cup {Nothing}
         /\ \A d : NextInvestigation(execution, d) \in Executions \cup {Nothing}
         /\ \A review : SecondExecution(review) \in Executions \cup {Nothing}
<1>1. \A mode \in Preferences, profile \in Preferences, attempt \in {1, 2}, allowed \in BOOLEAN :
        Execution(mode, profile, attempt, allowed) \in Executions
  BY DEF Execution, Executions
<1>2. preference \in Preferences /\ execution \in Executions \cup {Nothing}
  BY DEF Inv, Typed
<1>3. ResolveInvestigation(preference, lead) \in Executions \cup {Nothing}
  <2> DEFINE profile == IF preference # "auto" THEN preference
                        ELSE IF lead.conflicts \/ lead.many \/ lead.deepQuery = Nothing THEN "deep" ELSE "fast"
             allowed == preference = "auto" /\ profile = "fast"
  <2>1. profile \in Preferences
    BY <1>2 DEF Preferences
  <2>2. allowed \in BOOLEAN
    OBVIOUS
  <2> HIDE DEF profile, allowed
  <2>3. Execution(preference, profile, 1, allowed) \in Executions
    BY <1>1, <1>2, <2>1, <2>2
  <2> QED BY <2>3 DEF ResolveInvestigation, profile, allowed
<1>4. \A d : NextInvestigation(execution, d) \in Executions \cup {Nothing}
  <2>1. Execution("auto", "deep", 2, FALSE) \in Executions
    BY <1>1 DEF Preferences
  <2> QED BY <2>1 DEF NextInvestigation
<1> QED BY <1>2, <1>3, <1>4 DEF SecondExecution

\* A run of the Worker as Execute appends it.
WorkerRun(e) == [Run("worker", "running") EXCEPT !.profile = IF e = Nothing THEN "none" ELSE e.profile]

LEMMA WorkerRunTyped ==
  ASSUME turns \in Nat, NEW e \in Executions \cup {Nothing}
  PROVE  /\ WorkerRun(e) \in RunRecord /\ WorkerRun(e).kind = "worker"
         /\ WorkerRun(e).turn = turns /\ WorkerRun(e).result = "none"
<1> DEFINE profile == IF e = Nothing THEN "none" ELSE e.profile
<1>1. profile \in Preferences \cup {"none"}
  BY DEF Executions
<1>2. "worker" \in Kinds /\ "running" \in Statuses
  BY DEF Kinds, Statuses
<1>3. WorkerRun(e) = [Run("worker", "running") EXCEPT !.profile = profile]
  BY DEF WorkerRun
<1> HIDE DEF profile
<1> QED BY <1>1, <1>2, <1>3 DEF Run, RunRecord

LEMMA McpKeeps ==
  ASSUME Inv, NEW explicit \in BOOLEAN, Mcp(explicit) PROVE Inv'
<1>1. pc = "mcp" /\ Kept /\ turns \in Nat /\ runs \in Seq(RunRecord) /\ UpToNow(runs)
  BY DEF Mcp, Inv, Typed
<1>2. \A r \in RunRecord : r.turn = turns => UpToNow(Append(runs, r)) /\ Append(runs, r) \in Seq(RunRecord)
  <2> TAKE r \in RunRecord
  <2> HAVE r.turn = turns
  <2>1. \A i \in DOMAIN runs : Append(runs, r)[i] = runs[i]
    BY <1>1, Appended
  <2>2. /\ DOMAIN Append(runs, r) = 1 .. Len(runs) + 1 /\ DOMAIN runs = 1 .. Len(runs) /\ Len(runs) \in Nat
        /\ Append(runs, r)[Len(runs) + 1] = r /\ Append(runs, r) \in Seq(RunRecord)
    BY <1>1, Appended
  <2>3. \A i \in DOMAIN Append(runs, r) : i \in DOMAIN runs \/ i = Len(runs) + 1
    BY <2>2
  <2> QED BY <1>1, <2>1, <2>2, <2>3 DEF UpToNow
<1>3. CASE explicit
  <2> DEFINE r == [Run("mcp", "concluded") EXCEPT !.result = "concluded"]
  <2>1. r \in RunRecord /\ r.turn = turns
    BY <1>1, RunsTyped DEF Kinds, Statuses
  <2>2. IF aborted THEN Cancel(Append(runs, r))
        ELSE pc' = "coverage" /\ runs' = Append(runs, r) /\ UNCHANGED <<execution, earlier, reply>>
    BY <1>3 DEF Mcp
  <2> HIDE DEF r
  <2>3. CASE aborted
    BY <1>1, <1>2, <2>1, <2>2, <2>3, CancelEnds
  <2>4. CASE ~aborted
    BY <1>1, <2>1, <2>2, <2>4, AnswerBegins DEF Unanswered, AtWork, Inv, Typed
  <2> QED BY <2>3, <2>4
<1>4. CASE ~explicit
  <2> DEFINE e == ResolveInvestigation(preference, lead)
  <2>1. CASE aborted
    <3>1. Run("worker", "running") \in RunRecord /\ Run("worker", "running").turn = turns
      BY <1>1, RunsTyped DEF Kinds, Statuses
    <3> QED BY <1>1, <1>2, <1>4, <2>1, <3>1, CancelEnds DEF Mcp
  <2>2. CASE ~aborted
    <3>1. pc' = "execute" /\ runs' = Append(runs, WorkerRun(e)) /\ execution' = e /\ UNCHANGED <<earlier, reply>>
      BY <1>4, <2>2 DEF Mcp, Execute, WorkerRun
    <3>2. e \in Executions \cup {Nothing}
      BY ExecutionsTyped
    <3> HIDE DEF e
    <3> QED BY <1>1, <3>1, <3>2, WorkerRunTyped, AnswerBegins DEF Unanswered, AtWork
  <2> QED BY <2>1, <2>2
<1> QED BY <1>3, <1>4

\* The last run of a turn at work gets another record.
LEMMA Rewritten ==
  ASSUME Inv, pc \in AtWork,
         NEW r \in RunRecord, r.turn = turns, r.kind = runs[LastRun].kind
  PROVE  LET rs == [runs EXCEPT ![LastRun] = r] IN
         /\ rs \in Seq(RunRecord) /\ Len(rs) = LastRun /\ DOMAIN rs = DOMAIN runs /\ rs # <<>>
         /\ rs[LastRun] = r /\ \A i \in DOMAIN runs : i # LastRun => rs[i] = runs[i]
         /\ LastRun \in DOMAIN runs /\ DOMAIN runs = 1 .. LastRun /\ LastRun \in Nat
         /\ UpToNow(rs) /\ (r.status # "running" => Quiet(rs))
         /\ (r.checked \/ earlier # NoReview => Checked(rs))
<1> DEFINE rs == [runs EXCEPT ![LastRun] = r]
<1>1. /\ runs \in Seq(RunRecord) /\ runs # <<>> /\ UpToNow(runs) /\ turns \in Nat
      /\ \A i \in DOMAIN runs : i # LastRun /\ runs[i].turn = turns => runs[i].status # "running"
  BY DEF Inv, Typed, LastAtWork
<1>2. /\ rs \in Seq(RunRecord) /\ Len(rs) = LastRun /\ DOMAIN rs = DOMAIN runs
      /\ rs[LastRun] = r /\ \A i \in DOMAIN runs : i # LastRun => rs[i] = runs[i]
      /\ LastRun \in DOMAIN runs /\ DOMAIN runs = 1 .. LastRun /\ LastRun \in Nat
  BY <1>1, LastSet DEF LastRun
<1> HIDE DEF rs
<1>3. rs # <<>>
  BY <1>2
<1>4. UpToNow(rs)
  BY <1>1, <1>2 DEF UpToNow
<1>5. r.status # "running" => Quiet(rs)
  BY <1>1, <1>2 DEF Quiet
<1>6. r.checked => Checked(rs)
  BY <1>2 DEF Checked
<1>7. earlier # NoReview => Checked(rs)
  <2>1. earlier # NoReview => /\ LastRun > 1 /\ runs[LastRun - 1].turn = turns /\ runs[LastRun - 1].checked
    BY DEF Inv, FirstWasReviewed, LastRun
  <2>2. earlier # NoReview => LastRun - 1 \in DOMAIN runs /\ LastRun - 1 # LastRun
    BY <1>2, <2>1
  <2> QED BY <1>2, <2>1, <2>2 DEF Checked
<1> QED BY <1>2, <1>3, <1>4, <1>5, <1>6, <1>7 DEF rs

LEMMA LastRunTyped ==
  ASSUME Inv, pc \in AtWork
  PROVE  runs[LastRun] \in RunRecord /\ runs[LastRun].turn = turns
BY DEF Inv, Typed, LastAtWork, LastRun

LEMMA RespondKeeps ==
  ASSUME Inv, NEW r \in Responses, Respond(r) PROVE Inv'
<1>1. pc = "execute" /\ pc \in AtWork /\ Kept
  BY DEF Respond, Fixed, AtWork
<1>2. runs \in Seq(RunRecord) /\ UpToNow(runs) /\ earlier \in Reviews
  BY DEF Inv, Typed
<1>3. CASE aborted /\ earlier = NoReview
  BY <1>1, <1>2, <1>3, CancelEnds DEF Respond
<1>4. CASE aborted /\ earlier # NoReview
  <2> DEFINE x == [runs[LastRun] EXCEPT !.status = "partial"]
             kept == [earlier EXCEPT !.decision = "partial"]
  <2>1. x \in RunRecord /\ x.turn = turns /\ x.kind = runs[LastRun].kind /\ x.status # "running"
    BY <1>1, LastRunTyped DEF RunRecord, Statuses
  <2>2. WithStatus("partial") = [runs EXCEPT ![LastRun] = x]
    BY DEF WithStatus
  <2> HIDE DEF x
  <2>3. /\ WithStatus("partial") \in Seq(RunRecord) /\ UpToNow(WithStatus("partial"))
        /\ Quiet(WithStatus("partial")) /\ Checked(WithStatus("partial"))
    BY <1>1, <1>4, <2>1, <2>2, Rewritten
  <2>4. kept \in Reviews /\ kept.decision # "final"
    BY <1>2 DEF Reviews, Decisions
  <2>5. CancelledReview(WithStatus("partial"), earlier)
    BY <1>4 DEF Respond
  <2>6. CASE ~earlier.reviewed
    BY <1>1, <2>3, <2>5, <2>6, CancelEnds DEF CancelledReview
  <2>7. CASE earlier.reviewed
    <3>1. Complete(WithStatus("partial"), kept)
      BY <2>5, <2>7 DEF CancelledReview
    <3> HIDE DEF kept
    <3> QED BY <1>1, <2>3, <2>4, <3>1, CompleteEnds
  <2> QED BY <2>6, <2>7
<1>5. CASE ~aborted
  <2> DEFINE x == [runs[LastRun] EXCEPT !.status = r.status, !.result = r.status]
  <2>1. x \in RunRecord /\ x.turn = turns /\ x.kind = runs[LastRun].kind
    BY <1>1, LastRunTyped DEF RunRecord, Statuses
  <2>2. runs' = [runs EXCEPT ![LastRun] = x] /\ pc' = "review" /\ UNCHANGED <<execution, earlier, reply>>
    BY <1>5 DEF Respond
  <2> HIDE DEF x
  <2>3. /\ runs' \in Seq(RunRecord) /\ Len(runs') = LastRun /\ DOMAIN runs' = DOMAIN runs /\ runs' # <<>>
        /\ runs'[LastRun] = x /\ \A i \in DOMAIN runs : i # LastRun => runs'[i] = runs[i]
        /\ LastRun \in DOMAIN runs /\ DOMAIN runs = 1 .. LastRun /\ LastRun \in Nat /\ UpToNow(runs')
    BY <1>1, <2>1, <2>2, Rewritten
  <2>4. LastRun' = LastRun /\ turns' = turns
    BY <1>1, <2>3 DEF LastRun, Kept
  <2>5. LastAtWork'
    BY <1>1, <2>1, <2>2, <2>3, <2>4 DEF LastAtWork, Inv
  <2>6. FirstWasReviewed'
    <3>1. earlier # NoReview =>
            /\ LastRun > 1 /\ runs[LastRun].kind = "worker"
            /\ runs[LastRun - 1].turn = turns /\ runs[LastRun - 1].checked
            /\ runs[LastRun - 1].result # "none" /\ runs[LastRun - 1].status # "concluded"
      BY <1>1 DEF Inv, FirstWasReviewed, FromWorker, LastRun
    <3>2. earlier # NoReview => runs'[LastRun - 1] = runs[LastRun - 1]
      BY <2>3, <3>1
    <3> QED BY <2>1, <2>2, <2>3, <2>4, <3>1, <3>2 DEF FirstWasReviewed, FromWorker
  <2>7. Typed' /\ UpToNow(runs)'
    BY <1>1, <2>2, <2>3 DEF Inv, Typed, Kept, Awaits, UpToNow
  <2> QED BY <2>2, <2>5, <2>6, <2>7 DEF Inv, RunsBegin, SettledAgrees, Unanswered
<1> QED BY <1>3, <1>4, <1>5

LEMMA ThrowKeeps == ASSUME Inv, Throw PROVE Inv'
BY DEF Throw, Fixed, Kept, Inv, Typed, Ended, UpToNow, RunsBegin, LastAtWork, FirstWasReviewed, SettledAgrees,
       Unanswered, AtWork, LastRun, FromWorker

-----------------------------------------------------------------------------
(* The reviews. *)

LEMMA CoveredKeeps == ASSUME Inv, Covered PROVE Inv'
<1>1. pc = "coverage" /\ Kept /\ runs \in Seq(RunRecord) /\ UpToNow(runs)
  BY DEF Covered, Inv, Typed
<1>2. CASE aborted
  BY <1>1, <1>2, CancelEnds DEF Covered
<1>3. CASE ~aborted
  BY <1>1, <1>3 DEF Covered, Kept, Inv, Typed, Awaits, UpToNow, RunsBegin, LastAtWork, FirstWasReviewed,
                    SettledAgrees, Unanswered, AtWork, LastRun, FromWorker
<1> QED BY <1>2, <1>3

LEMMA StopKeeps == ASSUME Inv, Stop PROVE Inv'
<1>1. aborted' \in BOOLEAN
  BY DEF Stop
<1> QED
  BY <1>1 DEF Stop, Inv, Typed, Awaits, UpToNow, RunsBegin, LastAtWork, FirstWasReviewed,
              SettledAgrees, Unanswered, AtWork, LastRun, FromWorker

\* The record a review leaves, and the runs with it.
ReviewedRun(review) ==
  [runs[LastRun] EXCEPT !.status = RunStatus(review.decision), !.result = RunStatus(review.decision), !.checked = TRUE]
ReviewedRuns(review) == [runs EXCEPT ![LastRun] = ReviewedRun(review)]

LEMMA ReviewedRunsTyped ==
  ASSUME Inv, pc \in AtWork, NEW review \in Reviews
  PROVE  LET rs == ReviewedRuns(review) IN
         /\ rs \in Seq(RunRecord) /\ Len(rs) = LastRun /\ rs # <<>> /\ LastRun \in Nat /\ LastRun >= 1
         /\ UpToNow(rs) /\ Quiet(rs) /\ Checked(rs)
         /\ rs[LastRun].turn = turns /\ rs[LastRun].checked /\ rs[LastRun].result # "none"
         /\ review.decision = "final" => Concludes(rs)
         /\ review.decision # "final" => rs[LastRun].status # "concluded"
<1> DEFINE x == ReviewedRun(review)
<1>1. RunStatus(review.decision) \in {"concluded", "need_input", "partial"}
      /\ (RunStatus(review.decision) = "concluded" <=> review.decision = "final")
  BY DEF RunStatus
<1>2. /\ x \in RunRecord /\ x.turn = turns /\ x.kind = runs[LastRun].kind
      /\ x.status = RunStatus(review.decision) /\ x.result = RunStatus(review.decision) /\ x.checked
  BY <1>1, LastRunTyped DEF ReviewedRun, RunRecord, Statuses
<1> HIDE DEF x
<1> QED BY <1>1, <1>2, Rewritten DEF ReviewedRuns, Concludes, x

LEMMA SecondReviewTyped ==
  ASSUME Inv, NEW review \in Reviews
  PROVE  /\ SecondReview(review) \in Reviews
         /\ SecondReview(review).decision = "final" => review.decision = "final"
         /\ earlier.reviewed /\ (review.decision = "final" => review.reviewed) => SecondReview(review).reviewed
         /\ review.reviewed => SecondReview(review).reviewed
<1>1. earlier \in Reviews
  BY DEF Inv, Typed
<1> QED BY <1>1 DEF SecondReview, Reviews, Decisions

LEMMA CancelledReviewKeeps ==
  ASSUME Inv, pc \in AtWork, Kept, NEW review \in Reviews, NEW shown \in Reviews,
         CancelledReview(ReviewedRuns(review), shown)
  PROVE  Inv'
<1> DEFINE kept == [shown EXCEPT !.decision = "partial"]
<1>1. kept \in Reviews /\ kept.decision # "final"
  BY DEF Reviews, Decisions
<1>2. CASE ~shown.reviewed
  BY <1>2, ReviewedRunsTyped, CancelEnds DEF CancelledReview
<1>3. CASE shown.reviewed
  <2>1. Complete(ReviewedRuns(review), kept)
    BY <1>3 DEF CancelledReview
  <2> HIDE DEF kept
  <2> QED BY <1>1, <2>1, ReviewedRunsTyped, CompleteEnds
<1> QED BY <1>2, <1>3

LEMMA CompleteKeeps ==
  ASSUME Inv, pc \in AtWork, Kept, NEW review \in Reviews, NEW shown \in Reviews,
         shown.decision = "final" => review.decision = "final",
         Complete(ReviewedRuns(review), shown)
  PROVE  Inv'
BY ReviewedRunsTyped, CompleteEnds

LEMMA SecondRunKeeps ==
  ASSUME Inv, pc = "review", FromWorker, Kept, NEW review \in Reviews, review.decision # "final",
         NEW e \in Executions \cup {Nothing}, Execute(ReviewedRuns(review), e), execution' = e,
         earlier' = review, reply' = reply
  PROVE  Inv'
<1> DEFINE rs == ReviewedRuns(review)
<1>1. pc \in AtWork /\ turns \in Nat
  BY DEF AtWork, Inv, Typed
<1>2. /\ rs \in Seq(RunRecord) /\ Len(rs) = LastRun /\ LastRun \in Nat /\ LastRun >= 1
      /\ UpToNow(rs) /\ Quiet(rs)
      /\ rs[LastRun].turn = turns /\ rs[LastRun].checked /\ rs[LastRun].result # "none"
      /\ rs[LastRun].status # "concluded"
  BY <1>1, ReviewedRunsTyped
<1> HIDE DEF rs
<1>3. runs' = Append(rs, WorkerRun(e)) /\ pc' = "execute"
  BY DEF Execute, WorkerRun, rs
<1>4. /\ WorkerRun(e) \in RunRecord /\ WorkerRun(e).kind = "worker"
      /\ WorkerRun(e).turn = turns /\ WorkerRun(e).result = "none"
  BY <1>1, WorkerRunTyped
<1>5. /\ runs' \in Seq(RunRecord) /\ Len(runs') = LastRun + 1 /\ runs' # <<>>
      /\ DOMAIN runs' = 1 .. LastRun + 1 /\ DOMAIN rs = 1 .. LastRun
      /\ runs'[LastRun + 1] = WorkerRun(e) /\ \A i \in DOMAIN rs : runs'[i] = rs[i]
  BY <1>2, <1>3, <1>4, Appended
<1>6. LastRun' = LastRun + 1 /\ turns' = turns
  BY <1>5 DEF LastRun, Kept
<1>7. Typed'
  BY <1>3, <1>5 DEF Inv, Typed, Kept, Awaits
<1>8. UpToNow(runs)'
  BY <1>1, <1>2, <1>4, <1>5, <1>6 DEF UpToNow
<1>9. LastAtWork'
  BY <1>2, <1>4, <1>5, <1>6 DEF LastAtWork, FromWorker, Quiet
<1>10. FirstWasReviewed'
  <2>1. runs'[LastRun' - 1] = rs[LastRun] /\ Len(runs') > 1
    BY <1>2, <1>5, <1>6
  <2> QED BY <1>2, <1>3, <1>4, <1>5, <1>6, <2>1 DEF FirstWasReviewed, FromWorker
<1> QED BY <1>3, <1>7, <1>8, <1>9, <1>10 DEF Inv, RunsBegin, SettledAgrees, Unanswered

\* What a review does: it settles the turn, or the Worker is asked again.
LEMMA ReviewDoes ==
  ASSUME NEW review, Review(review)
  PROVE  \/ Complete(ReviewedRuns(review), review) /\ (FromWorker => earlier = NoReview)
         \/ earlier # NoReview /\ FromWorker /\ Complete(ReviewedRuns(review), SecondReview(review))
         \/ CancelledReview(ReviewedRuns(review), review) /\ earlier = NoReview
         \/ earlier # NoReview /\ CancelledReview(ReviewedRuns(review), SecondReview(review))
         \/ /\ FromWorker /\ Deeper(review) /\ Execute(ReviewedRuns(review), SecondExecution(review))
            /\ execution' = SecondExecution(review) /\ earlier' = review /\ reply' = reply
BY DEF Review, ReviewedRuns, ReviewedRun

LEMMA ReviewKeeps ==
  ASSUME Inv, NEW review \in Reviews, Review(review) PROVE Inv'
<1>1. pc = "review" /\ pc \in AtWork /\ Kept
  BY DEF Review, Fixed, AtWork
<1>2. SecondReview(review) \in Reviews /\ (SecondReview(review).decision = "final" => review.decision = "final")
  BY SecondReviewTyped
<1>3. CASE Complete(ReviewedRuns(review), review)
  BY <1>1, <1>3, CompleteKeeps
<1>4. CASE Complete(ReviewedRuns(review), SecondReview(review))
  BY <1>1, <1>2, <1>4, CompleteKeeps
<1>5. CASE CancelledReview(ReviewedRuns(review), review)
  BY <1>1, <1>5, CancelledReviewKeeps
<1>6. CASE CancelledReview(ReviewedRuns(review), SecondReview(review))
  BY <1>1, <1>2, <1>6, CancelledReviewKeeps
<1>7. CASE /\ FromWorker /\ Deeper(review) /\ Execute(ReviewedRuns(review), SecondExecution(review))
           /\ execution' = SecondExecution(review) /\ earlier' = review /\ reply' = reply
  <2>1. review.decision # "final"
    BY <1>7 DEF Deeper, NextInvestigation, FollowUpAsked
  <2>2. SecondExecution(review) \in Executions \cup {Nothing}
    BY ExecutionsTyped
  <2> QED BY <1>1, <1>7, <2>1, <2>2, SecondRunKeeps
<1> QED BY <1>3, <1>4, <1>5, <1>6, <1>7, ReviewDoes

-----------------------------------------------------------------------------
(* The theorems. *)

LEMMA OutcomesTyped ==
  ASSUME NEW p, NEW o \in Outcomes(p)
  PROVE  o \in Reviews /\ (o.decision = "final" => o.reviewed)
<1>1. DecisionsFor(p) \subseteq Decisions
  BY DEF DecisionsFor, Decisions
<1> QED BY <1>1 DEF Outcomes, Reviews, Decisions

LEMMA Inductive == Spec => []Inv
<1>1. Init => Inv
  <2> SUFFICES ASSUME Init PROVE Inv
    OBVIOUS
  <2>1. NoReview \in Reviews
    BY ReviewRecords DEF NoReview, Decisions
  <2>2. aborted \in BOOLEAN
    BY DEF Init
  <2>3. runs \in Seq(RunRecord) /\ DOMAIN runs = {}
    BY DEF Init
  <2>4. Typed
    BY <2>1, <2>2, <2>3 DEF Init, Typed, Ended, Preferences
  <2> QED BY <2>3, <2>4 DEF Init, Inv, UpToNow, RunsBegin, LastAtWork, FirstWasReviewed, SettledAgrees, Unanswered, AtWork
<1>2. Inv /\ [Next]_vars => Inv'
  <2> SUFFICES ASSUME Inv, [Next]_vars PROVE Inv'
    OBVIOUS
  <2>1. CASE \E p \in Preferences, confirms \in BOOLEAN : Begin(p, confirms)
    BY <2>1, BeginKeeps
  <2>2. CASE \E model \in {"off", "ask_user", "dispatch", "failed"}, proposal \in Proposals, store \in Stores :
               Preflight(model, proposal, store)
    BY <2>2, PreflightKeeps
  <2>3. CASE \E verdict \in Verdicts, store \in Stores : ReviewGoal(verdict, store)
    BY <2>3, ReviewGoalKeeps
  <2>4. CASE \E s \in Searches \cup {Nothing} : Search(s)
    BY <2>4, SearchKeeps
  <2>5. CASE \E a \in (IF pc = "rag" THEN found.rags ELSE {}) : Answerability(a)
    BY <2>5, AnswerabilityKeeps
  <2>6. CASE \E explicit \in BOOLEAN : Mcp(explicit)
    BY <2>6, McpKeeps
  <2>7. CASE \E r \in Responses : Respond(r)
    BY <2>7, RespondKeeps
  <2>8. CASE Throw
    BY <2>8, ThrowKeeps
  <2>9. CASE Covered
    BY <2>9, CoveredKeeps
  <2>10. CASE \E o \in (IF pc = "review" THEN Outcomes(Producer) ELSE {}) : Review(o)
    BY <2>10, OutcomesTyped, ReviewKeeps
  <2>11. CASE Stop
    BY <2>11, StopKeeps
  <2>12. CASE UNCHANGED vars
    BY <2>12 DEF vars, Inv, Typed, UpToNow, RunsBegin, LastAtWork, FirstWasReviewed, SettledAgrees,
                 LastRun, FromWorker
  <2> QED BY <2>1, <2>2, <2>3, <2>4, <2>5, <2>6, <2>7, <2>8, <2>9, <2>10, <2>11, <2>12 DEF Next
<1> QED BY <1>1, <1>2, PTL DEF Spec

\* A turn that ended has no run at work, and what it shows agrees with its
\* runs, whatever its reviews decide and wherever it is stopped.
THEOREM SettledTurnAgrees == Spec => []SettledAgrees
<1>1. Inv => SettledAgrees
  BY DEF Inv
<1> QED BY <1>1, Inductive, PTL

-----------------------------------------------------------------------------
(* A reviewed answer is kept. *)

LEMMA CompleteShows ==
  ASSUME NEW rs, NEW review \in Reviews, review.reviewed, Complete(rs, review) PROVE reply'.reviewed
BY DEF Complete, Reviews

LEMMA CancelledReviewShows ==
  ASSUME NEW rs, NEW review \in Reviews, review.reviewed, CancelledReview(rs, review) PROVE reply'.reviewed
<1> DEFINE kept == [review EXCEPT !.decision = "partial"]
<1>1. kept \in Reviews /\ kept.reviewed
  BY DEF Reviews, Decisions
<1>2. Complete(rs, kept)
  BY DEF CancelledReview
<1> HIDE DEF kept
<1> QED BY <1>1, <1>2, CompleteShows

LEMMA ReviewShows ==
  ASSUME Inv, NEW review \in Reviews, Review(review), pc' = "settled",
         review.reviewed \/ (earlier.reviewed /\ (review.decision = "final" => review.reviewed))
  PROVE  reply'.reviewed
<1>1. pc = "review" /\ (earlier # NoReview => FromWorker)
  BY DEF Review, Inv, FirstWasReviewed, AtWork
<1>2. earlier.reviewed => earlier # NoReview
  BY DEF NoReview
<1>3. SecondReview(review) \in Reviews /\ SecondReview(review).reviewed
  BY SecondReviewTyped
<1>4. CASE Complete(ReviewedRuns(review), review) /\ (FromWorker => earlier = NoReview)
  BY <1>1, <1>2, <1>4, CompleteShows
<1>5. CASE Complete(ReviewedRuns(review), SecondReview(review))
  BY <1>3, <1>5, CompleteShows
<1>6. CASE CancelledReview(ReviewedRuns(review), review) /\ earlier = NoReview
  BY <1>2, <1>6, CancelledReviewShows
<1>7. CASE CancelledReview(ReviewedRuns(review), SecondReview(review))
  BY <1>3, <1>7, CancelledReviewShows
<1>8. CASE Execute(ReviewedRuns(review), SecondExecution(review))
  BY <1>8 DEF Execute
<1> QED BY <1>4, <1>5, <1>6, <1>7, <1>8, ReviewDoes

\* The first answer of a turn that failed is not what the next one curates:
\* its run is the latest with a result, and did not conclude.
LEMMA FailedIsNotCuratable ==
  ASSUME Inv, pc = "failed", earlier # NoReview PROVE ~Curatable
<1>1. /\ runs \in Seq(RunRecord) /\ LastRun > 1 /\ runs[LastRun].result = "none"
      /\ runs[LastRun - 1].result # "none" /\ runs[LastRun - 1].status # "concluded"
  BY DEF Inv, Typed, FirstWasReviewed, LastRun
<1>2. DOMAIN runs = 1 .. LastRun /\ LastRun \in Nat
  BY <1>1 DEF LastRun
<1>3. LastRun - 1 \in WithResult /\ \A j \in WithResult : j \in Int /\ j <= LastRun - 1
  BY <1>1, <1>2 DEF WithResult
<1>4. (CHOOSE i \in WithResult : \A j \in WithResult : j <= i) = LastRun - 1
  <2>1. \A i \in WithResult : (\A j \in WithResult : j <= i) => i = LastRun - 1
    BY <1>2, <1>3
  <2>2. LastRun - 1 \in WithResult /\ \A j \in WithResult : j <= LastRun - 1
    BY <1>3
  <2> QED BY <2>1, <2>2
<1> QED BY <1>1, <1>4 DEF Curatable

\* Before it has an answer a turn is not reviewed.
LEMMA NoAnswerYet ==
  ASSUME Inv, pc \in {"preflight", "completeness", "knowledge", "rag", "mcp", "coverage", "idle"}
  PROVE  ~earlier.reviewed /\ \A o : ~Review(o)
<1>1. earlier = NoReview
  BY DEF Inv, RunsBegin, FirstWasReviewed, Unanswered, AtWork
<1> QED BY <1>1 DEF NoReview, Review

\* A reviewed answer of a turn is not lost when the turn ends: not by a stop
\* and not by a second run, whatever the Worker and the reviews answer.
THEOREM ReviewedAnswerStays == Spec => ReviewedAnswerIsKept
<1> DEFINE Shows ==
      pc # "settled" /\ pc' = "settled"
        /\ (earlier.reviewed \/ \E o \in [decision : Decisions, reviewed : {TRUE}] : Review(o))
      => reply'.reviewed
<1>1. Inv /\ Next => Shows
  <2> SUFFICES ASSUME Inv, Next, pc # "settled", pc' = "settled",
                      earlier.reviewed \/ \E o \in [decision : Decisions, reviewed : {TRUE}] : Review(o)
               PROVE  reply'.reviewed
    OBVIOUS
  <2>1. CASE \E o \in [decision : Decisions, reviewed : {TRUE}] : Review(o)
    <3>1. PICK o \in [decision : Decisions, reviewed : {TRUE}] : Review(o)
      BY <2>1
    <3>2. o \in Reviews /\ o.reviewed
      BY DEF Reviews
    <3> QED BY <3>1, <3>2, ReviewShows
  <2>2. CASE earlier.reviewed
    <3>1. earlier \in Reviews /\ earlier # NoReview
      BY <2>2 DEF Inv, Typed, NoReview
    <3>2. CASE \E p \in Preferences, confirms \in BOOLEAN : Begin(p, confirms)
      <4>1. pc = "failed" \/ pc = "idle"
        BY <3>2 DEF Begin, Ended
      <4>2. pc = "failed" => ~Curatable
        BY <3>1, FailedIsNotCuratable
      <4> QED BY <2>2, <3>2, <4>1, <4>2, NoAnswerYet DEF Begin
    <3>3. CASE \E r \in Responses : Respond(r)
      <4>1. CancelledReview(WithStatus("partial"), earlier)
        BY <3>1, <3>3 DEF Respond
      <4> QED BY <2>2, <3>1, <4>1, CancelledReviewShows
    <3>4. CASE \E o \in (IF pc = "review" THEN Outcomes(Producer) ELSE {}) : Review(o)
      BY <2>2, <3>4, OutcomesTyped, ReviewShows
    <3>5. CASE Throw \/ Stop
      BY <3>5 DEF Throw, Stop
    <3>6. pc \notin {"preflight", "completeness", "knowledge", "rag", "mcp", "coverage", "idle"}
      BY <2>2, NoAnswerYet
    <3> QED BY <3>2, <3>3, <3>4, <3>5, <3>6 DEF Next, Preflight, ReviewGoal, Search, Answerability, Mcp, Covered
  <2> QED BY <2>1, <2>2
<1>2. UNCHANGED vars => Shows
  BY DEF vars
<1>3. Inv /\ [Next]_vars => [Shows]_vars
  BY <1>1, <1>2
<1> QED BY <1>3, Inductive, PTL DEF Spec, ReviewedAnswerIsKept

-----------------------------------------------------------------------------
(* The answer of another case. *)

\* A set of numbers has a least one.
LEMMA LeastNumber ==
  ASSUME NEW T, T \subseteq Nat, T # {}
  PROVE  \E m \in T : \A n \in T : m <= n
<1>1. \E x \in T : \A y \in T : ~ (<<y, x>> \in OpToRel(<, Nat))
  <2>1. IsWellFoundedOn(OpToRel(<, Nat), Nat) BY NatLessThanWellFounded
  <2> QED BY <2>1, WFMin
<1>2. \A x, y \in T : ~(<<y, x>> \in OpToRel(<, Nat)) => x <= y BY DEF OpToRel
<1> QED BY <1>1, <1>2

\* Of places with scores one comes before all others.
LEMMA OneComesFirst ==
  ASSUME NEW places, places \subseteq Nat \X Nat, places # {},
         NEW s, \A p \in places : s[p].score \in 0 .. 100
  PROVE  \E p \in places : \A q \in places \ {p} : Before(s, p, q)
<1>1. PICK a \in places : \A q \in places : s[a].score >= s[q].score
  <2> DEFINE T == {100 - s[p].score : p \in places}
  <2>1. T \subseteq Nat /\ T # {} OBVIOUS
  <2>2. PICK m \in T : \A n \in T : m <= n BY <2>1, LeastNumber
  <2>3. PICK p \in places : m = 100 - s[p].score BY <2>2
  <2>4. ASSUME NEW q \in places PROVE s[p].score >= s[q].score
    <3>1. m <= 100 - s[q].score BY <2>2
    <3>2. s[p].score \in Int /\ s[q].score \in Int OBVIOUS
    <3> QED BY <2>3, <3>1, <3>2
  <2> QED BY <2>4
<1> DEFINE best == {p \in places : s[p].score = s[a].score}
<1>2. PICK b \in best : \A q \in best : b[1] <= q[1]
  <2> DEFINE T == {p[1] : p \in best}
  <2>1. T \subseteq Nat /\ T # {} OBVIOUS
  <2>2. PICK m \in T : \A n \in T : m <= n BY <2>1, LeastNumber
  <2>3. PICK p \in best : m = p[1] BY <2>2
  <2> QED BY <2>2, <2>3
<1> DEFINE ofCase == {p \in best : p[1] = b[1]}
<1>3. PICK c \in ofCase : \A q \in ofCase : c[2] <= q[2]
  <2> DEFINE T == {p[2] : p \in ofCase}
  <2>1. T \subseteq Nat /\ T # {} OBVIOUS
  <2>2. PICK m \in T : \A n \in T : m <= n BY <2>1, LeastNumber
  <2>3. PICK p \in ofCase : m = p[2] BY <2>2
  <2> QED BY <2>2, <2>3
<1>4. ASSUME NEW q \in places \ {c} PROVE Before(s, c, q)
  <2>0. /\ s[c].score = s[a].score /\ c[1] = b[1]
        /\ s[a].score \in Int /\ s[q].score \in Int /\ q[1] \in Nat /\ q[2] \in Nat /\ c[1] \in Nat /\ c[2] \in Nat
    OBVIOUS
  <2>1. CASE q \notin best BY <1>1, <2>0, <2>1 DEF Before
  <2>2. CASE q \in best /\ q[1] # b[1]
    <3>1. b[1] <= q[1] /\ s[q].score = s[a].score BY <1>2, <2>2
    <3>2. c[1] < q[1] BY <2>0, <2>2, <3>1
    <3> QED BY <2>0, <3>1, <3>2 DEF Before, Listed
  <2>3. CASE q \in ofCase
    <3>1. q[1] = c[1] /\ q[2] # c[2] BY <2>3
    <3> QED BY <1>3, <2>3, <3>1 DEF Before, Listed
  <2> QED BY <2>1, <2>2, <2>3
<1> QED BY <1>4

\* What makes the answer of a run one to this goal.
LEMMA NoIssueFits ==
  ASSUME NEW run, NEW persona, NEW asked, NEW generation,
         ReusabilityIssue(run, persona, asked, generation) = "none"
  PROVE  LET evidence == EvidenceToday(run, generation) IN
         /\ run.goal.question = asked.question /\ run.goal.items = asked.items
         /\ \A i \in DOMAIN evidence :
              evidence[i].age <= MaxAge /\ evidence[i].visibility \in VisibilityForPersona(persona)
<1>1. HasExactAnswerGoal(asked, run.goal)
  BY DEF ReusabilityIssue
<1>2. \A i \in DOMAIN EvidenceToday(run, generation) : Reusable(EvidenceToday(run, generation)[i], persona)
  BY DEF ReusabilityIssue
<1> QED BY <1>1, <1>2 DEF HasExactAnswerGoal, Reusable

LEMMA ExchangeFits ==
  ASSUME NEW c, NEW message, NEW who, NEW asked, NEW generation,
         Exchange(c, message, who, asked, generation).reason = "none"
  PROVE  LET match == Exchange(c, message, who, asked, generation) IN
         /\ match.case = c.id /\ match.owner = c.owner
         /\ match.goal.question = asked.question /\ match.goal.items = asked.items
         /\ \A i \in DOMAIN match.evidence :
              match.evidence[i].age <= MaxAge /\ match.evidence[i].visibility \in VisibilityForPersona(who.persona)
<1> DEFINE source == SourceRuns(c.runs, message)
           run == c.runs[CHOOSE i \in source : TRUE]
           issue == ReusabilityIssue(run, who.persona, asked, generation)
           match == [case |-> c.id, score |-> message.score, reason |-> "none",
                     owner |-> c.owner, goal |-> run.goal, evidence |-> EvidenceToday(run, generation)]
<1>1. issue = "none" /\ Exchange(c, message, who, asked, generation) = match
  <2> HIDE DEF source
  <2>1. Exchange(c, message, who, asked, generation) =
          IF ~message.replied THEN [case |-> c.id, score |-> message.score, reason |-> "reply_not_attributable"]
          ELSE IF source = {} THEN [case |-> c.id, score |-> message.score, reason |-> "run_not_attributable"]
          ELSE IF issue # "none" THEN [case |-> c.id, score |-> message.score, reason |-> issue]
          ELSE match
    BY DEF Exchange, source
  <2> HIDE DEF issue, match, run
  <2> QED BY <2>1
<1>2. LET evidence == EvidenceToday(run, generation) IN
      /\ run.goal.question = asked.question /\ run.goal.items = asked.items
      /\ \A i \in DOMAIN evidence :
           evidence[i].age <= MaxAge /\ evidence[i].visibility \in VisibilityForPersona(who.persona)
  <2> HIDE DEF run
  <2> QED BY <1>1, NoIssueFits
<1> HIDE DEF run
<1> QED BY <1>1, <1>2

LEMMA MatchFits ==
  ASSUME NEW store \in Stores, NEW items,
         LET asked == [question |-> asker.question, object |-> asker.question, items |-> items]
         IN FindExperienceMatch(asker, asked, store) # NoMatch
  PROVE  LET asked == [question |-> asker.question, object |-> asker.question, items |-> items]
         IN FitsAsker(FindExperienceMatch(asker, asked, store), items)
<1> DEFINE asked == [question |-> asker.question, object |-> asker.question, items |-> items]
           s == Exchanges(asker, asked, store)
           found0 == {p \in DOMAIN s : s[p].reason = "none"}
           At(p) == store.cases[p[1]].messages[p[2]]
<1>1. \A p \in DOMAIN s :
        /\ p \in Nat \X Nat /\ p[1] \in SameAsker(asker, store) /\ p[2] \in Near(store.cases[p[1]])
        /\ s[p] = Exchange(store.cases[p[1]], At(p), asker, asked, store.generation)
  <2> DEFINE places == IF asker.length < MinLength THEN {}
                       ELSE UNION {{n} \X Near(store.cases[n]) : n \in SameAsker(asker, store)}
  <2>1. s = [p \in places |-> Exchange(store.cases[p[1]], At(p), asker, asked, store.generation)]
    BY DEF Exchanges
  <2>2. ASSUME NEW p \in places
        PROVE  p \in Nat \X Nat /\ p[1] \in SameAsker(asker, store) /\ p[2] \in Near(store.cases[p[1]])
    <3>1. PICK n \in SameAsker(asker, store) : p \in {n} \X Near(store.cases[n]) BY <2>2
    <3>2. n \in DOMAIN store.cases /\ DOMAIN store.cases \subseteq Nat BY StoreAssumption DEF SameAsker
    <3>3. Near(store.cases[n]) \subseteq Nat BY <3>2, StoreAssumption DEF Near
    <3> QED BY <3>1, <3>2, <3>3
  <2> HIDE DEF places, At
  <2> QED BY <2>1, <2>2
<1>2. \A p \in DOMAIN s : s[p].score \in 0 .. 100
  <2> SUFFICES ASSUME NEW p \in DOMAIN s PROVE s[p].score \in 0 .. 100 OBVIOUS
  <2>1. s[p] = Exchange(store.cases[p[1]], At(p), asker, asked, store.generation) BY <1>1
  <2>2. s[p].score = At(p).score
    <3> HIDE DEF s, At, asked
    <3>1. \A c, message, generation : Exchange(c, message, asker, asked, generation).score = message.score
      BY DEF Exchange
    <3> QED BY <2>1, <3>1
  <2>3. p[1] \in DOMAIN store.cases /\ p[2] \in DOMAIN store.cases[p[1]].messages
    BY <1>1 DEF SameAsker, Near
  <2> QED BY <2>2, <2>3, StoreAssumption
<1>3. FindExperienceMatch(asker, asked, store) =
        IF found0 = {} THEN NoMatch ELSE s[CHOOSE p \in found0 : \A q \in found0 \ {p} : Before(s, p, q)]
  BY DEF FindExperienceMatch
<1>4. found0 # {} BY <1>3
<1>5. PICK p \in found0 : FindExperienceMatch(asker, asked, store) = s[p]
  <2>1. \E p \in found0 : \A q \in found0 \ {p} : Before(s, p, q)
    <3>1. found0 \subseteq Nat \X Nat /\ \A p \in found0 : s[p].score \in 0 .. 100 BY <1>1, <1>2
    <3> HIDE DEF found0, s
    <3> QED BY <1>4, <3>1, OneComesFirst
  <2> HIDE DEF found0, s
  <2> QED BY <1>3, <1>4, <2>1
<1>6. s[p].reason = "none" /\ p[1] \in SameAsker(asker, store)
      /\ s[p] = Exchange(store.cases[p[1]], At(p), asker, asked, store.generation)
  BY <1>1
<1>7. store.cases[p[1]].id # asker.case /\ store.cases[p[1]].owner = asker.owner
  BY <1>6 DEF SameAsker
<1>8. asked.question = asker.question /\ asked.items = items OBVIOUS
<1> HIDE DEF s, found0, At, asked
<1> QED BY <1>5, <1>6, <1>7, <1>8, ExchangeFits DEF FitsAsker, asked

-----------------------------------------------------------------------------
(* The answer of knowledge. *)

\* What a model looks at was found by the search.
FoundBySearch == pc = "rag" => found \in Searches

LEMMA FoundStep == FoundBySearch /\ [Next]_vars => FoundBySearch'
<1> SUFFICES ASSUME FoundBySearch, [Next]_vars, pc' = "rag" PROVE found' \in Searches
  BY DEF FoundBySearch
<1>1. CASE \E s \in Searches \cup {Nothing} : Search(s)
  <2>1. PICK s \in Searches \cup {Nothing} : Search(s) BY <1>1
  <2>2. s # Nothing /\ found' = s BY <2>1 DEF Search, Cancel, UseKnowledge
  <2> QED BY <2>2
<1>2. CASE Stop \/ UNCHANGED vars
  BY <1>2 DEF Stop, vars, FoundBySearch
<1>3. \A rs : Cancel(rs) => pc' # "rag" BY DEF Cancel
<1>4. \A rs, review : Complete(rs, review) => pc' # "rag" BY <1>3 DEF Complete
<1>5. \A rs, review : CancelledReview(rs, review) => pc' # "rag" BY <1>3, <1>4 DEF CancelledReview
<1>6. \A rs, e : Execute(rs, e) => pc' # "rag" BY DEF Execute
<1>7. \A items, store : Dispatch(items, store) => pc' # "rag" BY DEF Dispatch
<1>8. \A s, rag : UseKnowledge(s, rag) => pc' # "rag" BY DEF UseKnowledge
<1>9. \A p, confirms : ~Begin(p, confirms) BY DEF Begin
<1>10. \A model, proposal, store : ~Preflight(model, proposal, store) BY <1>3, <1>4, <1>7 DEF Preflight
<1>11. \A verdict, store : ~ReviewGoal(verdict, store) BY <1>3, <1>7 DEF ReviewGoal
<1>12. \A a : ~Answerability(a) BY <1>3, <1>8 DEF Answerability
<1>13. \A explicit : ~Mcp(explicit) BY <1>3, <1>6 DEF Mcp
<1>14. (\A r : ~Respond(r)) /\ ~Throw /\ ~Covered BY <1>3, <1>5 DEF Respond, Throw, Covered
<1>15. \A o : ~Review(o)
  BY <1>4, <1>5, <1>6 DEF Review
<1> QED BY <1>1, <1>2, <1>9, <1>10, <1>11, <1>12, <1>13, <1>14, <1>15 DEF Next

\* Knowledge answers when the judge says so and no model that was asked denies it.
LEMMA FullOrUnasked ==
  ASSUME NEW route, NEW results, NEW rag, FinalJudge(Judge(route, results), rag).answerable
  PROVE  rag.answerability \in {"unasked", "full"}
<1>1. \E a, b, c, d : Judge(route, results) = Verdict(a, b, c, d)
  BY DEF Judge
<1>2. PICK a, b, c, d : Judge(route, results) = Verdict(a, b, c, d) BY <1>1
<1> QED BY <1>2 DEF FinalJudge, Verdict

\* A full answer that passed the validation cites what it was shown and covers
\* the goal.
LEMMA ValidatedIsFull ==
  ASSUME NEW a, NEW results, NEW items, Validated(a, results, items).answerability \in {"unasked", "full"}
  PROVE  LET shown == IdsOf(SubSeq(results, 1, Least(3, Len(results))))
             rag == Validated(a, results, items) IN
         /\ rag.answerability = "full" /\ rag.claims = a.claims
         /\ \A i \in DOMAIN a.claims : a.claims[i].evidence \subseteq shown
         /\ items \subseteq UNION {a.claims[i].items : i \in DOMAIN a.claims}
BY DEF Validated, UnknownAnswerability

\* What is shown to the model is among what a result of active documents cites.
LEMMA ShownIsUsed ==
  ASSUME NEW S, NEW results \in Seq(S), Active(results) = results
  PROVE  IdsOf(SubSeq(results, 1, Least(3, Len(results)))) \subseteq IdsOf(AnswerEvidence(results))
<1> DEFINE n == Least(3, Len(results))
           m == Least(6, Len(results))
<1>1. n \in 0 .. m /\ m \in 0 .. Len(results) /\ Len(results) \in Nat BY DEF Least
<1>2. AnswerEvidence(results) = SubSeq(results, 1, m) BY DEF AnswerEvidence
<1> HIDE DEF n, m
<1>3. /\ DOMAIN SubSeq(results, 1, n) = 1 .. n /\ DOMAIN SubSeq(results, 1, m) = 1 .. m
      /\ \A i \in 1 .. n : SubSeq(results, 1, n)[i] = results[i]
      /\ \A i \in 1 .. m : SubSeq(results, 1, m)[i] = results[i]
  BY <1>1
<1>4. \A i \in 1 .. n : i \in 1 .. m BY <1>1
<1> QED BY <1>2, <1>3, <1>4 DEF IdsOf, n

LEMMA ClaimsAnswer ==
  ASSUME NEW s \in Searches, NEW a \in s.rags, NEW items, Active(s.results) = s.results,
         Validated(a, s.results, items).answerability \in {"unasked", "full"}
  PROVE  LET claims == KnowledgeClaims(s.route, s.results, Validated(a, s.results, items), items) IN
         /\ \A i \in DOMAIN claims : claims[i].evidence # {}
         /\ CanBeTold(a.claims) => items \subseteq Answered(claims)
<1> DEFINE used == AnswerEvidence(s.results)
           rag == Validated(a, s.results, items)
           claims == KnowledgeClaims(s.route, s.results, rag, items)
           told == Told(a.claims, used)
           shown == IdsOf(SubSeq(s.results, 1, Least(3, Len(s.results))))
<1>1. rag.answerability = "full" /\ rag.claims = a.claims
      /\ (\A i \in DOMAIN a.claims : a.claims[i].evidence \subseteq shown)
      /\ items \subseteq UNION {a.claims[i].items : i \in DOMAIN a.claims}
  BY ValidatedIsFull
<1>2. shown \subseteq IdsOf(used) BY SearchAssumption, ShownIsUsed
<1>3. claims = [i \in told |-> [evidence |-> a.claims[i].evidence \cap IdsOf(used), answers |-> a.claims[i].items \cap items]]
  <2> HIDE DEF rag
  <2> QED BY <1>1 DEF KnowledgeClaims
<1> HIDE DEF rag, claims, shown, used
<1>4. \A i \in told : claims[i].evidence # {} BY <1>3 DEF Told
<1>5. ASSUME CanBeTold(a.claims) PROVE items \subseteq Answered(claims)
  <2>1. told = DOMAIN a.claims
    <3> SUFFICES ASSUME NEW i \in DOMAIN a.claims PROVE i \in told BY DEF Told
    <3>1. a.claims[i].text # "blank" /\ a.claims[i].evidence # {} BY <1>5 DEF CanBeTold
    <3>2. a.claims[i].evidence \cap IdsOf(used) # {} BY <1>1, <1>2, <3>1
    <3>3. ASSUME NEW j \in DOMAIN a.claims, j < i PROVE a.claims[j].text # a.claims[i].text
      <4>1. i \in Nat BY SearchAssumption
      <4>2. j # i BY <3>3, <4>1
      <4> QED BY <1>5, <4>2 DEF CanBeTold
    <3> QED BY <3>1, <3>2, <3>3 DEF Told
  <2>2. ASSUME NEW item \in items PROVE item \in Answered(claims)
    <3>1. PICK i \in DOMAIN a.claims : item \in a.claims[i].items BY <1>1
    <3>2. i \in DOMAIN claims /\ item \in claims[i].answers BY <1>3, <2>1, <3>1
    <3> QED BY <3>2 DEF Answered
  <2> QED BY <2>2
<1> QED BY <1>3, <1>4, <1>5 DEF claims, rag

\* An answer for which the Worker is not asked is one to the question asked:
\* what a model took from active documents cites them and covers the goal, what
\* was answered before fits who asks (knowledge-diagnosis.ts, experience-agent.ts).
THEOREM AnswersTheQuestion == Spec => AnswersTheQuestionAsked
<1> DEFINE FromKnowledge ==
      pc = "rag" /\ pc' = "coverage" /\ Active(found.results) = found.results
        => /\ \A i \in DOMAIN response'.claims : response'.claims[i].evidence # {}
           /\ \A a \in found.rags :
                Answerability(a) /\ CanBeTold(a.claims) => goal \subseteq Answered(response'.claims)
    FromExperience ==
      (pc = "preflight" \/ pc = "completeness") /\ pc' = "coverage" => FitsAsker(response'.match, goal')
<1>1. FoundBySearch /\ Next => FromKnowledge
  <2> SUFFICES ASSUME FoundBySearch, Next, pc = "rag", pc' = "coverage", Active(found.results) = found.results
               PROVE  /\ \A i \in DOMAIN response'.claims : response'.claims[i].evidence # {}
                      /\ \A a \in found.rags :
                           Answerability(a) /\ CanBeTold(a.claims) => goal \subseteq Answered(response'.claims)
    OBVIOUS
  <2>1. \A a : Answerability(a) =>
          /\ Validated(a, found.results, goal).answerability \in {"unasked", "full"}
          /\ response'.claims = KnowledgeClaims(found.route, found.results, Validated(a, found.results, goal), goal)
    <3> SUFFICES ASSUME NEW a, Answerability(a)
                 PROVE  /\ Validated(a, found.results, goal).answerability \in {"unasked", "full"}
                        /\ response'.claims = KnowledgeClaims(found.route, found.results, Validated(a, found.results, goal), goal)
      OBVIOUS
    <3>1. UseKnowledge(found, Validated(a, found.results, goal)) BY DEF Answerability, Cancel
    <3>2. FinalJudge(Judge(found.route, found.results), Validated(a, found.results, goal)).answerable
      BY <3>1 DEF UseKnowledge
    <3>3. response'.claims = KnowledgeClaims(found.route, found.results, Validated(a, found.results, goal), goal)
      BY <3>1, <3>2 DEF UseKnowledge
    <3> QED BY <3>2, <3>3, FullOrUnasked
  <2>2. PICK a \in found.rags : Answerability(a)
    BY DEF Next, Begin, Ended, Preflight, ReviewGoal, Search, Mcp, Respond, Throw, Covered, Review, Stop
  <2>3. found \in Searches BY DEF FoundBySearch
  <2> QED BY <2>1, <2>2, <2>3, ClaimsAnswer
<1>2. Next => FromExperience
  <2> SUFFICES ASSUME Next, pc \in {"preflight", "completeness"}, pc' = "coverage"
               PROVE  FitsAsker(response'.match, goal')
    OBVIOUS
  <2>1. \E store \in Stores : \E items : Dispatch(items, store) /\ Kept
    <3>1. \A rs, review : ~Complete(rs, review) /\ ~Cancel(rs) BY DEF Complete, Cancel
    <3>2. CASE \E model \in {"off", "ask_user", "dispatch", "failed"}, proposal \in Proposals, store \in Stores :
                 Preflight(model, proposal, store)
      BY <3>1, <3>2 DEF Preflight
    <3>3. CASE \E verdict \in Verdicts, store \in Stores : ReviewGoal(verdict, store)
      BY <3>1, <3>3 DEF ReviewGoal
    <3> QED BY <3>2, <3>3 DEF Next, Begin, Ended, Search, Answerability, Mcp, Respond, Throw, Covered, Review, Stop
  <2>2. PICK store \in Stores : \E items : Dispatch(items, store) /\ Kept BY <2>1
  <2>3. PICK items : Dispatch(items, store) /\ Kept BY <2>2
  <2> DEFINE asked == [question |-> asker.question, object |-> asker.question, items |-> items]
             match == FindExperienceMatch(asker, asked, store)
  <2>4. match # NoMatch /\ goal' = items /\ response'.match = match
    <3> HIDE DEF match
    <3>1. match # NoMatch BY <2>3 DEF Dispatch, match
    <3> QED BY <2>3, <3>1 DEF Dispatch, match
  <2>5. FitsAsker(match, items) BY <2>4, MatchFits
  <2>6. asker' = asker BY <2>3 DEF Kept
  <2> HIDE DEF match
  <2> QED BY <2>4, <2>5
<1>3. FoundBySearch /\ [Next]_vars => [FromKnowledge]_vars /\ [FromExperience]_vars
  <2> HIDE DEF FromKnowledge, FromExperience
  <2> QED BY <1>1, <1>2
<1>4. Init => FoundBySearch BY DEF Init, FoundBySearch
<1>5. Spec => []FoundBySearch
  BY <1>4, FoundStep, PTL DEF Spec
<1> QED BY <1>3, <1>5, PTL DEF Spec, AnswersTheQuestionAsked
=============================================================================
