---------------------------- MODULE TurnPipeline ----------------------------
(***************************************************************************)
(* Who answers a turn (src/src/runtime: diagnostic-runtime, preflight-     *)
(* service, experience-turn, knowledge-turn, worker-diagnosis, worker-     *)
(* turn, investigation-policy, case-curation-service).  The turns of one   *)
(* case, one after the other: curation, preflight, experience, knowledge,  *)
(* MCP and the Worker are asked in this order, the first that has a result *)
(* answers, and a stop may come at every await.  What a review decides is  *)
(* ReviewContract; what the turn has to answer, AnswerGoal; whether        *)
(* experience or knowledge answers it, ExperienceMatch, KnowledgeAnswer.   *)
(***************************************************************************)
EXTENDS AnswerGoal, ExperienceMatch, KnowledgeAnswer, ReviewContract

CONSTANTS
  Askers,        \* who asks, in which workspace, and what
  Proposals,     \* the items of the goal that the model may propose
  Verdicts,      \* what the model may say of their completeness
  Stores,        \* other cases and the active generation, as a turn may find them
  Searches,      \* what the search may find: [route, results, rags]
  Responses,     \* what the Worker may return
  MaxTurns

\* How alike two questions are is a share.
ASSUME StoreAssumption ==
  \A store \in Stores :
    /\ DOMAIN store.cases \subseteq Nat
    /\ \A n \in DOMAIN store.cases :
         LET messages == store.cases[n].messages IN
         DOMAIN messages \subseteq Nat /\ \A m \in DOMAIN messages : messages[m].score \in 0 .. 100
ASSUME SearchAssumption ==
  \A s \in Searches :
    /\ s.results \in Seq({s.results[i] : i \in DOMAIN s.results})
    /\ \A a \in s.rags : DOMAIN a.claims \subseteq Nat

Preferences == {"auto", "fast", "deep"}
Nothing == [kind |-> "none"]

VARIABLES
  config,     \* the settings of the process that choose a way
  turns,      \* number of turns begun
  pc,         \* the await the turn is at, or how it ended
  aborted,    \* investigationControl: the turn was stopped
  preference, \* the user message's investigationPreference
  asker,      \* the case and the resolved question, the same in every turn
  goal,       \* answerGoal.mustAnswerItems, while they choose who answers;
              \* those proposed, while they are reviewed
  runs,       \* caseSession.runs
  found,      \* what the search found, while a model looks at it
  lead,       \* request.context of the Worker: knowledge and deepQuery
  execution,  \* request.investigation
  response,   \* the response or result under review
  earlier,    \* the first review of the turn when a second run was asked for
  reply,      \* decision of the turn and whether it shows a reviewed answer
  session,    \* a Claude session with the id of the case exists
  resumed     \* the Worker was told to resume one that did not

vars == <<config, turns, pc, aborted, preference, asker, goal, runs, found, lead, execution,
          response, earlier, reply, session, resumed>>

Ended == {"idle", "settled", "failed"}
Awaits == {"preflight", "completeness", "knowledge", "rag", "mcp", "execute", "coverage", "review"}

NoLead == [rejected |-> FALSE, many |-> FALSE, conflicts |-> FALSE, deepQuery |-> Nothing, judge |-> Nothing]
NoReview == [decision |-> "none", reviewed |-> FALSE]

LastRun == Len(runs)
WithStatus(status) == [runs EXCEPT ![LastRun].status = status]
Run(kind, status) == [kind |-> kind, turn |-> turns, status |-> status, result |-> "none",
                      profile |-> "none", checked |-> FALSE]
-----------------------------------------------------------------------------
(* How a turn ends. *)

\* Mutant of CancelledRuns: only the answer is taken back.
CancelledNothing(rs) == rs

\* completeCancelledInvestigation: nothing that runs is left.
CancelledRuns(rs) ==
  [i \in DOMAIN rs |-> IF rs[i].status = "running" THEN [rs[i] EXCEPT !.status = "partial"] ELSE rs[i]]

Cancel(rs) ==
  /\ pc' = "settled" /\ runs' = CancelledRuns(rs) /\ reply' = [decision |-> "partial", reviewed |-> FALSE]
  /\ UNCHANGED <<found, lead, execution, response, earlier, session, resumed>>

\* A reviewed answer of a stopped turn is kept as a preliminary one.
Complete(rs, review) ==
  IF aborted /\ ~review.reviewed THEN Cancel(rs)
  ELSE /\ pc' = "settled" /\ runs' = rs
       /\ reply' = IF aborted THEN [review EXCEPT !.decision = "partial"] ELSE review
       /\ UNCHANGED <<found, lead, execution, response, earlier, session, resumed>>

Kept == UNCHANGED <<config, turns, aborted, preference, asker>>
Fixed == Kept /\ UNCHANGED goal
-----------------------------------------------------------------------------
(* The stages before the Worker. *)

\* hasCuratableDiagnosticResult: the latest run with a result is concluded.
WithResult == {i \in DOMAIN runs : runs[i].result # "none"}
Curatable == WithResult # {} /\ LET r == runs[CHOOSE i \in WithResult : \A j \in WithResult : j <= i]
                                IN r.status = "concluded" /\ r.result = "concluded"

\* "Solved" makes a draft of the latest result; it is no diagnosis.
Begin(p, confirms) ==
  /\ pc \in Ended /\ turns < MaxTurns
  /\ turns' = turns + 1 /\ preference' = p /\ goal' = {} /\ aborted' = FALSE
  /\ found' = Nothing /\ lead' = NoLead /\ execution' = Nothing /\ response' = Nothing
  /\ earlier' = NoReview
  /\ IF confirms /\ Curatable
     THEN pc' = "settled" /\ reply' = [decision |-> "final", reviewed |-> FALSE]
     ELSE pc' = "preflight" /\ reply' = NoReview
  /\ UNCHANGED <<config, asker, runs, session, resumed>>

\* ExperienceTurnService.answer: the result of another case is reviewed for
\* this one; why none is good enough goes to the Worker.
Dispatch(items, store) ==
  LET asked == [question |-> asker.question, object |-> asker.question, items |-> items]
      match == FindExperienceMatch(asker, asked, store)
  IN /\ goal' = items
     /\ IF match # NoMatch
        THEN /\ pc' = "coverage" /\ lead' = lead
             /\ runs' = Append(runs, [Run("experience", "running") EXCEPT !.result = "concluded"])
             /\ response' = [status |-> "concluded", action |-> "final_answer", match |-> match]
        ELSE /\ pc' = IF config.online THEN "knowledge" ELSE "mcp"
             /\ lead' = [lead EXCEPT !.rejected = RejectedCandidates(asker, asked, store) # {}]
             /\ UNCHANGED <<runs, response>>
     /\ UNCHANGED <<found, execution, earlier, reply, session, resumed>>

\* PreflightService.decide, until items that are in scope are to be reviewed.
Preflight(model, proposal, store) ==
  /\ pc = "preflight" /\ Kept
  /\ IF aborted THEN Cancel(runs) /\ goal' = goal
     ELSE IF ~Dispatches(asker, model)
     THEN Complete(runs, [decision |-> "ask_user", reviewed |-> FALSE]) /\ goal' = goal
     ELSE IF model = "dispatch" /\ InScope(proposal)
     THEN /\ pc' = "completeness" /\ goal' = ItemsOf(proposal)
          /\ UNCHANGED <<runs, found, lead, execution, response, earlier, reply, session, resumed>>
     ELSE Dispatch(DirectAnswer, store)

\* The completeness review has answered.
ReviewGoal(verdict, store) ==
  /\ pc = "completeness" /\ Kept
  /\ IF aborted THEN Cancel(runs) /\ goal' = goal
     ELSE Dispatch(MustAnswerItems(goal, verdict), store)

LeadOf(s, judge) ==
  [lead EXCEPT !.many = Cardinality(s.route.modules) > 1, !.conflicts = judge.conflicts # {},
               !.deepQuery = DeepQuery(s.route), !.judge = judge]

\* Knowledge answers, or its findings become the lead of the Worker.
UseKnowledge(s, rag) ==
  LET judge == FinalJudge(Judge(s.route, s.results), rag) IN
  /\ IF judge.answerable
     THEN /\ pc' = "coverage"
          /\ runs' = Append(runs, [Run("knowledge", "running") EXCEPT !.result = "concluded"])
          /\ response' = [status |-> "concluded", action |-> "final_answer",
                          claims |-> KnowledgeClaims(s.route, s.results, rag, goal)]
          /\ lead' = lead
     ELSE pc' = "mcp" /\ lead' = LeadOf(s, judge) /\ UNCHANGED <<runs, response>>
  /\ found' = Nothing
  /\ UNCHANGED <<execution, earlier, reply, session, resumed>>

Search(s) ==
  /\ pc = "knowledge" /\ Fixed
  /\ IF aborted THEN Cancel(runs)
     ELSE IF s = Nothing   \* no documents
     THEN pc' = "mcp" /\ UNCHANGED <<runs, found, lead, execution, response, earlier, reply, session, resumed>>
     ELSE IF config.rag /\ s.results # <<>>
     THEN pc' = "rag" /\ found' = s /\ UNCHANGED <<runs, lead, execution, response, earlier, reply, session, resumed>>
     ELSE UseKnowledge(s, NoReviewer)

Answerability(a) ==
  /\ pc = "rag" /\ Fixed
  /\ IF aborted THEN Cancel(runs) ELSE UseKnowledge(found, Validated(a, found.results, goal))
-----------------------------------------------------------------------------
(* The Worker. *)

Execution(mode, profile, attempt, allowed) ==
  [kind |-> "execution", mode |-> mode, profile |-> profile, attempt |-> attempt, allowed |-> allowed]

\* prepareInvestigation: what is not bounded, or crosses modules, goes deep.
ResolveInvestigation(p, l) ==
  LET profile == IF p # "auto" THEN p
                 ELSE IF l.conflicts \/ l.many \/ l.deepQuery = Nothing THEN "deep" ELSE "fast"
  IN IF p = "auto" /\ ~config.profiles THEN Nothing
     ELSE Execution(p, profile, 1, p = "auto" /\ profile = "fast")

NextInvestigation(e, decision) ==
  IF e # Nothing /\ decision \notin {"final", "escalate"}
     /\ e.mode = "auto" /\ e.profile = "fast" /\ e.allowed /\ e.attempt = 1
  THEN Execution("auto", "deep", 2, FALSE) ELSE Nothing

\* prepareDeepQueryRetry: "none" when there is neither a retry nor a stop.
DeepRetry(l, r, decision) ==
  LET pivot == Pivot(l.deepQuery, l.judge) IN
  CASE l.deepQuery = Nothing -> "none"
    [] l.deepQuery # Nothing /\ r.error -> "worker_failure"
    [] OTHER -> IF decision = "escalate" THEN "human_escalation"
                ELSE IF r.action = "ask_user" THEN "needs_user"
                ELSE IF pivot.stop # "none" THEN pivot.stop
                ELSE IF pivot.targets = l.deepQuery.targets THEN "no_new_pivot" ELSE "retry"

\* shouldRunFollowUp
FollowUpAsked(r, decision) == decision = "partial" /\ r.action = "continue_diagnosis" /\ ~r.error

\* A run of the Worker begins: run_01 opens the Claude session, every other
\* one resumes it.
Execute(rs, e) ==
  /\ pc' = "execute"
  /\ runs' = Append(rs, [Run("worker", "running") EXCEPT !.profile = IF e = Nothing THEN "none" ELSE e.profile])
  /\ resumed' = (resumed \/ (Len(rs) > 0 /\ ~session))
  /\ session' = TRUE

\* MCP has an explicit result, or the Worker is asked; neither looks first
\* whether the turn was stopped.
Mcp(explicit) ==
  /\ pc = "mcp" /\ Kept /\ goal' = {}
  /\ IF explicit
     THEN LET rs == Append(runs, [Run("mcp", "concluded") EXCEPT !.result = "concluded"]) IN
          IF aborted THEN Cancel(rs)
          ELSE /\ pc' = "coverage" /\ runs' = rs /\ response' = [status |-> "concluded", action |-> "final_answer"]
               /\ UNCHANGED <<found, lead, execution, earlier, reply, session, resumed>>
     ELSE LET e == ResolveInvestigation(preference, lead) IN
          IF aborted THEN Cancel(Append(runs, Run("worker", "running")))
          ELSE /\ Execute(runs, e) /\ execution' = e
               /\ UNCHANGED <<found, lead, response, earlier, reply>>

\* Mutant of CancelledReview: a stop takes the turn's answer away.
CancelledAlways(rs, review) == Cancel(rs)

CancelledReview(rs, review) ==
  IF ~review.reviewed THEN Cancel(rs) ELSE Complete(rs, [review EXCEPT !.decision = "partial"])

\* A stopped Worker returns a failure, never a result.
Respond(r) ==
  /\ pc = "execute" /\ Fixed
  /\ IF aborted THEN (IF earlier = NoReview THEN Cancel(runs) ELSE CancelledReview(WithStatus("partial"), earlier))
     ELSE /\ pc' = "review" /\ response' = r
          /\ runs' = [runs EXCEPT ![LastRun].status = r.status, ![LastRun].result = r.status]
          /\ UNCHANGED <<found, lead, execution, earlier, reply, session, resumed>>

\* What the Worker does with a result throws (a stopped one has none): the
\* turn fails and the run stays as it is.
Throw ==
  /\ pc = "execute" /\ ~aborted /\ Fixed
  /\ pc' = "failed"
  /\ UNCHANGED <<runs, found, lead, execution, response, earlier, reply, session, resumed>>
-----------------------------------------------------------------------------
(* The reviews. *)

FromWorker == runs[LastRun].kind = "worker"

\* The coverage model has answered: the last time a stop undoes the result.
Covered ==
  /\ pc = "coverage" /\ Kept /\ goal' = {}
  /\ IF aborted THEN Cancel(runs)
     ELSE pc' = "review" /\ UNCHANGED <<runs, found, lead, execution, response, earlier, reply, session, resumed>>

\* A second run: an automatic fast one goes deep, any other one continues
\* when it found something new and the leads offer another place to look.
Deeper(review) ==
  LET escalation == IF response.error THEN Nothing ELSE NextInvestigation(execution, review.decision)
  IN \/ escalation # Nothing
     \/ /\ execution = Nothing \/ (execution.profile = "deep" /\ response.progress)
        /\ FollowUpAsked(response, review.decision)
        /\ DeepRetry(lead, response, review.decision) \in {"none", "retry"}

SecondExecution(review) ==
  LET next == NextInvestigation(execution, review.decision) IN IF next # Nothing THEN next ELSE execution

\* Mutant of SecondReview: the second review replaces the first one.
SecondReviewOnly(review) == review

\* What the second run adds; the first answer stands when it adds nothing.
SecondReview(review) ==
  IF review.decision # "final" /\ ~review.reviewed /\ earlier.reviewed
  THEN [earlier EXCEPT !.decision = "partial"] ELSE review

Review(review) ==
  /\ pc = "review" /\ Fixed
  /\ LET rs == [runs EXCEPT ![LastRun].status = RunStatus(review.decision),
                            ![LastRun].result = RunStatus(review.decision), ![LastRun].checked = TRUE]
     IN CASE ~FromWorker -> Complete(rs, review)
          [] FromWorker /\ earlier # NoReview ->
               IF aborted THEN CancelledReview(rs, SecondReview(review)) ELSE Complete(rs, SecondReview(review))
          [] OTHER ->
               IF aborted THEN CancelledReview(rs, review)
               ELSE IF Deeper(review)
               THEN /\ Execute(rs, SecondExecution(review)) /\ execution' = SecondExecution(review)
                    /\ earlier' = review /\ response' = Nothing
                    /\ UNCHANGED <<found, lead, reply>>
               ELSE Complete(rs, review)

Stop ==
  /\ pc \in Awaits /\ ~aborted
  /\ aborted' = TRUE
  /\ UNCHANGED <<config, turns, pc, preference, asker, goal, runs, found, lead, execution, response, earlier, reply, session, resumed>>

Producer ==
  [status |-> response.status, action |-> response.action, authority |-> FromWorker,
   failed |-> FromWorker /\ response.error]

Init ==
  /\ config \in [online : BOOLEAN, rag : BOOLEAN, profiles : BOOLEAN]
  /\ turns = 0 /\ pc = "idle" /\ aborted = FALSE /\ preference = "auto"
  /\ asker \in Askers /\ goal = {}
  /\ runs = <<>> /\ found = Nothing /\ lead = NoLead /\ execution = Nothing
  /\ response = Nothing /\ earlier = NoReview /\ reply = NoReview
  /\ session = FALSE /\ resumed = FALSE

Next ==
  \/ \E p \in Preferences, confirms \in BOOLEAN : Begin(p, confirms)
  \/ \E model \in {"off", "ask_user", "dispatch", "failed"}, proposal \in Proposals, store \in Stores :
       Preflight(model, proposal, store)
  \/ \E verdict \in Verdicts, store \in Stores : ReviewGoal(verdict, store)
  \/ \E s \in Searches \cup {Nothing} : Search(s)
  \/ \E a \in (IF pc = "rag" THEN found.rags ELSE {}) : Answerability(a)
  \/ \E explicit \in BOOLEAN : Mcp(explicit)
  \/ \E r \in Responses : Respond(r)
  \/ Throw
  \/ Covered
  \/ \E o \in (IF pc = "review" THEN Outcomes(Producer) ELSE {}) : Review(o)
  \/ Stop

Spec == Init /\ [][Next]_vars
-----------------------------------------------------------------------------
\* A turn that showed, or may still show, a reviewed answer does not end
\* without one: neither a stop nor a second run that finds less takes it
\* back.  (Only a Worker that throws does.)
ReviewedAnswerIsKept ==
  [][pc # "settled" /\ pc' = "settled"
       /\ (earlier.reviewed \/ \E o \in [decision : Decisions, reviewed : {TRUE}] : Review(o))
     => reply'.reviewed]_vars

\* A settled turn has no run at work; a stopped one is partial; a final
\* answer of a review is that of its last run, which is concluded.
SettledAgrees ==
  pc = "settled" =>
    /\ \A i \in DOMAIN runs : runs[i].turn = turns => runs[i].status # "running"
    /\ aborted => reply.decision = "partial"
    /\ reply.reviewed => \E i \in DOMAIN runs : runs[i].turn = turns /\ runs[i].checked
    /\ reply.reviewed /\ reply.decision = "final" =>
         runs[LastRun].checked /\ runs[LastRun].status = "concluded" /\ runs[LastRun].turn = turns

\* An answer for which the Worker is not asked is one to the question asked,
\* since the Worker is not asked any more when the review rejects it.  What
\* a model selects from active documents cites evidence, and covers every
\* item of the goal if each of its claims can be told; what another case
\* answered was asked by the same user with the same items, and rests on
\* knowledge of today that he may see.
Answered(claims) == UNION {claims[i].answers : i \in DOMAIN claims}

\* Each claim cites something, and no two say the same.
CanBeTold(claims) ==
  \A i \in DOMAIN claims :
    /\ claims[i].text # "blank" /\ claims[i].evidence # {}
    /\ \A j \in DOMAIN claims : claims[j].text = claims[i].text => j = i

FitsAsker(match, items) ==
  /\ match.owner = asker.owner /\ match.case # asker.case
  /\ match.goal.question = asker.question /\ match.goal.items = items
  /\ \A i \in DOMAIN match.evidence :
       match.evidence[i].age <= MaxAge /\ match.evidence[i].visibility \in VisibilityForPersona(asker.persona)

AnswersTheQuestionAsked ==
  /\ [][pc = "rag" /\ pc' = "coverage" /\ Active(found.results) = found.results
           => /\ \A i \in DOMAIN response'.claims : response'.claims[i].evidence # {}
              /\ \A a \in found.rags :
                   Answerability(a) /\ CanBeTold(a.claims) => goal \subseteq Answered(response'.claims)]_vars
  /\ [][(pc = "preflight" \/ pc = "completeness") /\ pc' = "coverage"
           => FitsAsker(response'.match, goal')]_vars

\* What the validation of the model's answer promises of a full one: all items
\* of the goal are covered.
FullAnswerCoversGoal ==
  [][pc = "rag" /\ pc' = "coverage" /\ Active(found.results) = found.results
       => goal \subseteq Answered(response'.claims)]_vars

\* The claim of the Worker's documentation: the first run creates the Claude
\* session and later runs resume it, so what is resumed was created.
ResumedSessionExists == ~resumed

\* A solved case is curated from a result that was reviewed.
CuratedIsReviewed ==
  pc = "settled" /\ reply.decision = "final" /\ ~reply.reviewed =>
    runs[CHOOSE i \in WithResult : \A j \in WithResult : j <= i].checked
=============================================================================
