-------------------------- MODULE CaseInvestigation --------------------------
(***************************************************************************)
(* A turn in a workspace with a source of historical cases (src/src/       *)
(* runtime/case-investigation, src/src/mcp/historical-case-evidence-       *)
(* service, src/src/mcp-servers/redmine): knowledge, experience and        *)
(* Redmine are collected side by side, the Worker checks the leads Redmine *)
(* gave, a model compares the two, and a gate decides what may be said.    *)
(* Every source may fail, and a stop may come at every await.              *)
(***************************************************************************)
EXTENDS ReviewContract, RedmineScan

CONSTANTS
  Issues,       \* ids of Redmine issues that may match the question
  LocatorIn,    \* pairs of issues: the locator of one contains that of the other
  Grounds,      \* what a lead the analyzing model writes may cite
  WorkerReplies, \* what the Worker may return: [status, action, error, evidence], the
                \* evidence a list of [id, kind, readBack]
  Judgements,   \* what the verifying model may say of one lead
  TTL           \* ticks a candidate grant lives

ASSUME TTLAssumption == TTL \in Nat \ {0} /\ IsFiniteSet(Issues)

VARIABLES
  pc,         \* the await the turn is at, or how it ended
  aborted,    \* investigationControl: the turn was stopped
  knowledge,  \* sources.knowledge: [status, answers, conflicts]
  experience, \* sources.experience: "match", "no_hit" or "failed"
  branch,     \* the await the Redmine branch is at, or "done"
  grant,      \* the server's grant of this search
  redmine,    \* sources.redmine: [status, details, leads]
  worker,     \* worker: [status, reply]
  verdicts,   \* verification.verifications, in the order of the leads
  result,     \* the result that is reviewed
  run,        \* the run of this turn: [status, checked]
  reply       \* decision of the turn and whether it shows a reviewed answer

sources == <<knowledge, experience, branch, grant, redmine>>
vars == <<pc, aborted, knowledge, experience, branch, grant, redmine, worker,
          verdicts, result, run, reply, scanVars>>

Ended == {"idle", "settled"}
NoGrant == [ids |-> {}, left |-> 0, used |-> FALSE]
NoRedmine(status) == [status |-> status, details |-> <<>>, leads |-> <<>>]
Thrown == [status |-> "none", action |-> "none", error |-> TRUE, evidence |-> <<>>]
NoWorker(status) == [status |-> status, reply |-> Thrown]
NoResult == [origin |-> "none", status |-> "none", action |-> "none", evidence |-> {}, blockers |-> {}]
NoRun == [status |-> "none", checked |-> FALSE]
NoReply == [decision |-> "none", reviewed |-> FALSE]
-----------------------------------------------------------------------------
(* Evidence has the id its source gave it; ids of sources may collide, and the *)
(* Worker may use one for several items.  An item is vouched for when its      *)
(* source made an envelope for it.                                             *)

Item(id, kind, source, vouched) == [id |-> id, kind |-> kind, source |-> source, vouched |-> vouched]
KnowledgeEvidence == IF knowledge.answers THEN {Item("k1", "knowledge", "knowledge", TRUE)} ELSE {}
ExperienceEvidence == IF experience = "match" THEN {Item("k2", "knowledge", "experience", TRUE)} ELSE {}
HistoricalId(i) == IF i = 1 THEN "h1" ELSE "h2"
HistoricalEvidence == {Item(HistoricalId(i), "mcp", "redmine", TRUE) : i \in DOMAIN redmine.details}

\* The Worker's items in the order of its reply.  Of these only a place in the
\* workspace has an envelope, when it was read back.
WorkerEvidence(w) ==
  [i \in DOMAIN w.reply.evidence |->
     LET e == w.reply.evidence[i] IN Item(e.id, e.kind, "worker", e.kind = "workspace" /\ e.readBack)]
WorkerItems(w) == {WorkerEvidence(w)[i] : i \in DOMAIN w.reply.evidence}
CurrentEvidence(w) == {e \in WorkerItems(w) : e.kind \in {"workspace", "log"}}
IdsOf(items) == {e.id : e \in items}

\* The first source that used an id keeps it, ...
Merged(first, second) == first \cup {e \in second : e.id \notin IdsOf(first)}
MergedWith(items) ==
  Merged(Merged(KnowledgeEvidence, ExperienceEvidence), Merged(HistoricalEvidence, items))

\* ... and of the Worker's items at some places of its reply the first one.
FirstAt(w, places) ==
  {WorkerEvidence(w)[i] : i \in {i \in places :
      \A j \in places : WorkerEvidence(w)[j].id = WorkerEvidence(w)[i].id => i <= j}}

\* uniqueEvidence and uniqueEnvelopes: two maps of their own, so the item and
\* the envelope that are kept for an id may be those of different items.
Collected(w) == MergedWith(FirstAt(w, DOMAIN w.reply.evidence))
Enveloped(w) ==
  MergedWith(FirstAt(w, {i \in DOMAIN w.reply.evidence : WorkerEvidence(w)[i].vouched}))
-----------------------------------------------------------------------------
(* The sources. *)

\* The experience is looked up before the first await of the collection.
Start(e) ==
  /\ pc = "idle" /\ pc' = "collect"
  /\ experience' = e /\ branch' = "plan"
  /\ UNCHANGED <<aborted, knowledge, grant, redmine, worker, verdicts, result, run, reply>>

Collect(k) ==
  /\ pc = "collect" /\ knowledge.status = "asked"
  /\ knowledge' = IF aborted THEN [status |-> "failed", answers |-> FALSE, conflicts |-> FALSE] ELSE k
  /\ UNCHANGED <<pc, aborted, experience, branch, grant, redmine, worker, verdicts, result, run, reply>>

\* A branch that was stopped rejects; the collector makes a failure of it.
Left(status) == branch' = "done" /\ redmine' = NoRedmine(IF aborted THEN "failed" ELSE status)
Fixed == UNCHANGED <<pc, aborted, knowledge, experience, worker, verdicts, result, run, reply>>

\* The plan always leads to a search: a model that fails has a fallback.
\* A source that is not configured, or not allowed, is not asked.
Plan(permitted) ==
  /\ pc = "collect" /\ branch = "plan" /\ Fixed
  /\ IF aborted \/ ~permitted THEN Left("failed") /\ UNCHANGED grant
     ELSE branch' = "search" /\ UNCHANGED <<grant, redmine>>

\* The client has the answer of the server, or has given up before; the server
\* grants what it found all the same.
Search(matching, seen) ==
  /\ pc = "collect" /\ branch = "search" /\ Fixed
  /\ seen = "ok" => found.stage \notin {"idle", "reading"}
  /\ LET served == SearchStatus(matching)
         candidates == IF served = "ok" THEN ToSet(found.issues) \cap matching ELSE {}
         status == IF seen = "ok" THEN served ELSE seen
     IN /\ grant' = IF candidates = {} THEN NoGrant ELSE [ids |-> candidates, left |-> TTL, used |-> FALSE]
        /\ CASE status # "ok" -> Left(status)
             [] status = "ok" /\ candidates = {} -> Left("no_hit")
             [] OTHER -> branch' = "select" /\ UNCHANGED redmine
  /\ found' = NoSearch /\ touched' = <<>> /\ UNCHANGED <<backend, tracker>>

\* Time passes while the model selects; nothing bounds it by the grant.
Tick ==
  /\ pc = "collect" /\ branch \in {"select", "detail"} /\ grant.left > 0
  /\ grant' = [grant EXCEPT !.left = @ - 1]
  /\ UNCHANGED <<pc, aborted, knowledge, experience, branch, redmine, worker, verdicts, result, run, reply>>

\* What of a selection is kept: the model may name only candidates, and of
\* those only relevant ones are read; otherwise the first relevant ones are.
\* 0 stands for an id that is no candidate.
Selected(named, relevant) == IF named \subseteq grant.ids THEN named \cap relevant ELSE relevant

Select(named, relevant) ==
  /\ pc = "collect" /\ branch = "select" /\ Fixed
  /\ LET ids == Selected(named, relevant) IN
     IF aborted \/ ids = {} THEN Left("no_hit") /\ UNCHANGED grant
     ELSE branch' = "detail" /\ redmine' = [redmine EXCEPT !.details = SetToSeq(ids)] /\ UNCHANGED grant

Granted(ids) == grant.left > 0 /\ ~grant.used /\ ids \subseteq grant.ids

\* consume, then one request for each issue: the first that fails decides.
Detail(codes) ==
  /\ pc = "collect" /\ branch = "detail" /\ Fixed
  /\ LET ids == ToSet(redmine.details)
         failing == {i \in DOMAIN redmine.details : codes[redmine.details[i]] # "ok"}
     IN IF ~Granted(ids) THEN Left("failed") /\ UNCHANGED grant
        ELSE /\ grant' = [grant EXCEPT !.used = TRUE]
             /\ CASE aborted -> Left("failed")
                  [] ~aborted /\ failing # {} -> Left(codes[redmine.details[Min(failing)]])
                  [] OTHER -> branch' = "analyze" /\ UNCHANGED redmine

\* validAnalysis: the evidence of a lead must name its issue.  One lead that
\* does not costs all of them.
Supports(lead) ==
  /\ lead.cites # {} /\ lead.issue \in ToSet(redmine.details)
  /\ \A id \in lead.cites : \E i \in DOMAIN redmine.details :
       id = HistoricalId(i) /\ <<lead.issue, redmine.details[i]>> \in LocatorIn \cup {<<j, j>> : j \in Issues}

Analyze(leads) ==
  /\ pc = "collect" /\ branch = "analyze" /\ Fixed /\ UNCHANGED grant
  /\ branch' = "done"
  /\ redmine' = IF aborted THEN NoRedmine("failed")
                ELSE [redmine EXCEPT !.status = "completed",
                                     !.leads = IF \A i \in DOMAIN leads : Supports(leads[i]) THEN leads ELSE <<>>]
-----------------------------------------------------------------------------
(* The barrier, the Worker and the comparison. *)

\* completeCancelledInvestigation: only a run that is running becomes partial.
Cancel(r) ==
  /\ pc' = "settled" /\ reply' = [decision |-> "partial", reviewed |-> FALSE]
  /\ run' = IF r.status = "running" THEN [r EXCEPT !.status = "partial"] ELSE r
  /\ verdicts' = <<>> /\ result' = NoResult
  /\ UNCHANGED <<aborted, worker>> /\ UNCHANGED sources

\* Mutant of WorkerAsked: only leads send for the Worker.
WorkerAskedForLeads(leads) == leads # <<>>

WorkerAsked(leads) == leads # <<>> \/ (~knowledge.answers /\ experience # "match")

\* No source is waited for longer than the others, and none fails the rest.
Join ==
  /\ pc = "collect" /\ knowledge.status # "asked" /\ branch = "done"
  /\ IF aborted THEN Cancel(run)
     ELSE /\ pc' = IF WorkerAsked(redmine.leads) THEN "worker" ELSE "verify"
          /\ worker' = NoWorker(IF WorkerAsked(redmine.leads) THEN "asked" ELSE "skipped")
          /\ UNCHANGED <<aborted, verdicts, result, run, reply>> /\ UNCHANGED sources

\* A Worker that throws is a failed source; one that was killed or crashed
\* has completed, with its log as evidence.
Work(response) ==
  /\ pc = "worker"
  /\ IF aborted THEN Cancel(run)
     ELSE /\ pc' = "verify"
          /\ worker' = IF response = Thrown THEN NoWorker("failed") ELSE [status |-> "completed", reply |-> response]
          /\ UNCHANGED <<aborted, verdicts, result, run, reply>> /\ UNCHANGED sources

\* validVerification: a verdict cites what the model was shown.
ValidVerdict(lead, v) ==
  /\ v.historical \subseteq IdsOf(HistoricalEvidence)
  /\ v.current \subseteq IdsOf(CurrentEvidence(worker))
  /\ v.conflicting \subseteq IdsOf(HistoricalEvidence) \cup IdsOf(CurrentEvidence(worker))

Conservative(lead) == [class |-> "lead", historical |-> lead.cites, current |-> {}, conflicting |-> {}]

Verified(leads, vs) ==
  IF Len(vs) = Len(leads) /\ \A i \in DOMAIN leads : ValidVerdict(leads[i], vs[i])
  THEN vs ELSE [i \in DOMAIN leads |-> Conservative(leads[i])]
-----------------------------------------------------------------------------
(* gateHistoricalCases *)

Has(items, id, kinds) == \E e \in items : e.id = id /\ e.kind \in kinds

\* What is evidence of history, with the envelope of a call to Redmine.
HistoricalProof(v) ==
  {id \in v.historical : Has(Collected(worker), id, {"mcp"}) /\ Has(Enveloped(worker), id, {"mcp"})}

CurrentCandidates(v) == {id \in v.current : Has(Collected(worker), id, {"workspace", "log"})}

\* Mutant of CurrentProof: evidence of the Worker counts unread.
CurrentClaimed(v) == CurrentCandidates(v)

\* Evidence of the Worker under whose id there is an envelope of its run; of
\* the item's own kind the gate asks nothing more.
CurrentProof(v) == {id \in CurrentCandidates(v) : Has(Enveloped(worker), id, {"workspace"})}

\* The blockers of a lead: what its verdict refers to, and what is missing
\* for the same root cause.
BlockersOf(v) ==
  LET known == IdsOf(Collected(worker))
      refs == v.historical \cup v.current \cup v.conflicting
      when(condition, blocker) == IF condition THEN {blocker} ELSE {}
  IN IF ~(refs \subseteq known)
     THEN {"evidence_reference_invalid"} \cup when(v.current \cap known = {}, "current_evidence_missing")
     ELSE IF v.class # "same" THEN {}
     ELSE when(redmine.status # "completed", "historical_source_incomplete")
          \cup when(HistoricalProof(v) = {}, "current_run_provenance_missing")
          \cup when(CurrentCandidates(v) = {}, "current_evidence_missing")
          \cup when(CurrentCandidates(v) # {} /\ CurrentProof(v) = {}, "current_run_provenance_missing")
          \cup when(worker.status # "completed", "worker_verification_incomplete")
          \cup when(v.conflicting # {}, "current_evidence_conflict")
          \cup when(knowledge.conflicts, "knowledge_conflict")

Decide(lead, v) ==
  LET refs == v.historical \cup v.current \cup v.conflicting IN
  IF ~(refs \subseteq IdsOf(Collected(worker))) THEN [class |-> "lead", ids |-> lead.cites]
  ELSE IF v.class # "same" THEN [class |-> v.class, ids |-> lead.cites \cup refs]
  ELSE IF BlockersOf(v) = {} THEN [class |-> "same", ids |-> HistoricalProof(v) \cup CurrentProof(v)]
  ELSE [class |-> "lead", ids |-> lead.cites \cup CurrentProof(v)]

Priority(class) == CASE class = "same" -> 4 [] class = "different" -> 3 [] class = "lead" -> 2 [] OTHER -> 1
-----------------------------------------------------------------------------
(* buildCaseInvestigationResult *)

Answer(origin, status, action, evidence, blockers) ==
  [origin |-> origin, status |-> status, action |-> action, evidence |-> evidence, blockers |-> blockers]

\* Who answers when history has nothing to say.
Fallback(blockers) ==
  IF knowledge.answers THEN Answer("knowledge", "concluded", "final_answer", KnowledgeEvidence, blockers)
  ELSE IF experience = "match"
  THEN Answer("experience", "concluded", "final_answer", ExperienceEvidence, blockers)
  ELSE IF worker.status = "completed"
  THEN Answer("worker", worker.reply.status, worker.reply.action, WorkerItems(worker), blockers)
  ELSE Answer("unknown", "partial", "continue_diagnosis", {}, blockers)

Confirmed(primary, blockers) == primary.class = "same" /\ blockers = {}

\* The decision the answer is about: of the highest class, and the first of these.
Primary(decisions, meaningful) ==
  decisions[CHOOSE i \in meaningful : \A j \in meaningful :
    \/ Priority(decisions[i].class) > Priority(decisions[j].class)
    \/ Priority(decisions[i].class) = Priority(decisions[j].class) /\ i <= j]

Result(leads, vs) ==
  LET decisions == [i \in DOMAIN leads |-> Decide(leads[i], vs[i])]
      blockers == UNION {BlockersOf(vs[i]) : i \in DOMAIN leads}
      meaningful == {i \in DOMAIN leads : decisions[i].class # "irrelevant"}
      confirmed == Confirmed(Primary(decisions, meaningful), blockers)
      used == UNION {decisions[i].ids : i \in meaningful}
  IN IF meaningful = {} THEN Fallback(blockers)
     ELSE Answer("history",
                 IF confirmed THEN "concluded" ELSE "partial",
                 IF confirmed THEN "final_answer" ELSE "continue_diagnosis",
                 {e \in Collected(worker) : e.id \in used}, blockers)

\* Without leads no model is asked.  The result is stored before it is
\* reviewed, as concluded when it concludes.
Verify(vs) ==
  /\ pc = "verify"
  /\ redmine.leads = <<>> => vs = <<>>
  /\ IF aborted THEN Cancel(run)
     ELSE /\ pc' = "coverage"
          /\ verdicts' = Verified(redmine.leads, vs)
          /\ result' = Result(redmine.leads, Verified(redmine.leads, vs))
          /\ run' = [status |-> result'.status, checked |-> FALSE]
          /\ UNCHANGED <<aborted, worker, reply>> /\ UNCHANGED sources

Producer ==
  [status |-> result.status, action |-> result.action, authority |-> result.origin = "worker",
   failed |-> result.origin = "worker" /\ worker.reply.error]

Covered ==
  /\ pc = "coverage"
  /\ IF aborted THEN Cancel(run)
     ELSE pc' = "review" /\ UNCHANGED <<aborted, worker, verdicts, result, run, reply>> /\ UNCHANGED sources

Review(review) ==
  /\ pc = "review"
  /\ LET reviewedRun == [status |-> RunStatus(review.decision), checked |-> TRUE] IN
     IF aborted /\ ~review.reviewed THEN Cancel(reviewedRun)
     ELSE /\ pc' = "settled" /\ run' = reviewedRun
          /\ reply' = IF aborted THEN [review EXCEPT !.decision = "partial"] ELSE review
          /\ UNCHANGED <<aborted, worker, verdicts, result>> /\ UNCHANGED sources

Stop ==
  /\ pc \notin Ended /\ ~aborted
  /\ aborted' = TRUE
  /\ UNCHANGED <<pc, worker, verdicts, result, run, reply>> /\ UNCHANGED sources

Init ==
  /\ pc = "idle" /\ aborted = FALSE
  /\ knowledge = [status |-> "asked", answers |-> FALSE, conflicts |-> FALSE]
  /\ experience = "no_hit" /\ branch = "idle" /\ grant = NoGrant /\ redmine = NoRedmine("none")
  /\ worker = NoWorker("none") /\ verdicts = <<>> /\ result = NoResult /\ run = NoRun /\ reply = NoReply
  /\ ScanInit

\* A knowledge judge that finds a conflict does not answer.
Knowledge ==
  {k \in [status : {"completed", "no_hit", "failed"}, answers : BOOLEAN, conflicts : BOOLEAN] :
     /\ k.status # "completed" => ~k.answers /\ ~k.conflicts
     /\ ~(k.answers /\ k.conflicts)}

\* Bound: two of the three leads a model may write; both may be of one issue.
LeadSeqs == {<<>>} \cup {<<a>> : a \in Grounds} \cup (Grounds \X Grounds)
Verdicts == {<<>>} \cup {<<v>> : v \in Judgements} \cup (Judgements \X Judgements)

Turn ==
  \/ \E e \in {"match", "no_hit", "failed"} : Start(e)
  \/ \E k \in Knowledge : Collect(k)
  \/ \E permitted \in BOOLEAN : Plan(permitted)
  \/ Tick
  \/ \E named \in SUBSET (Issues \cup {0}), relevant \in SUBSET grant.ids : Select(named, relevant)
  \/ \E codes \in [Issues -> {"ok", "timeout", "failed"}] : Detail(codes)
  \/ \E leads \in LeadSeqs : Analyze(leads)
  \/ Join
  \/ \E response \in WorkerReplies \cup {Thrown} : Work(response)
  \/ \E vs \in Verdicts : Verify(vs)
  \/ Covered
  \/ \E o \in (IF pc = "review" THEN Outcomes(Producer) ELSE {}) : Review(o)
  \/ Stop

\* The server's part of the search, beside the collection of knowledge.
Scan ==
  /\ pc = "collect" /\ branch = "search" /\ ScanNext
  /\ UNCHANGED <<pc, aborted, worker, verdicts, result, run, reply>> /\ UNCHANGED sources

Next ==
  \/ Turn /\ UNCHANGED scanVars
  \/ \E matching \in SUBSET Issues, seen \in {"ok", "timeout", "failed"} : Search(matching, seen)
  \/ Scan

Spec == Init /\ [][Next]_vars
-----------------------------------------------------------------------------
\* The same root cause is concluded only on evidence of both sides that this
\* turn obtained: a detail read under the grant of its search, and an item of
\* the Worker under whose id it named a place that was read back, while neither
\* the verdicts it rests on nor knowledge contradict it.  The ids are those a
\* model wrote: the place may be another item's of that id.
ConfirmedByBothSources ==
  result.origin = "history" /\ result.status = "concluded" =>
    /\ redmine.status = "completed" /\ grant.used /\ grant.left > 0
    /\ worker.status = "completed" /\ ~knowledge.conflicts
    /\ \E h \in result.evidence : h.source = "redmine"
    /\ \E w \in result.evidence :
         /\ w.source = "worker" /\ w.kind \in {"workspace", "log"}
         /\ \E place \in WorkerItems(worker) : place.id = w.id /\ place.vouched
    /\ \A i \in DOMAIN verdicts : verdicts[i].class = "same" => verdicts[i].conflicting = {}

\* The claim of the change's specification: the evidence of the current run that
\* is concluded on is itself a place that was read, not an item sharing its id.
TheProofItselfWasRead ==
  result.origin = "history" /\ result.status = "concluded" =>
    \E w \in result.evidence : w.source = "worker" /\ w.vouched

\* A source that fails takes no other one's answer with it: the turn has
\* nothing to say only when every source was asked, the Worker too, and none
\* of them answered.
NothingIsSaidOnlyWhenNobodyAnswered ==
  result.origin = "unknown" =>
    ~knowledge.answers /\ experience # "match" /\ worker.status = "failed"

\* The claim of the change's specification: only a successful empty search
\* may become no_hit.
OnlyAnEmptySearchIsNoHit == redmine.status = "no_hit" => grant.ids = {}

\* A turn that was stopped leaves no run that passes for concluded.
StoppedRunIsPartial == pc = "settled" /\ aborted /\ ~reply.reviewed => run.status # "concluded"
=============================================================================
