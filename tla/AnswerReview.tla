---------------------------- MODULE AnswerReview ----------------------------
(***************************************************************************)
(* The review of one diagnostic result (src/src/runtime: result-validator, *)
(* answer-coverage, review-gate, safe-answer-projection,                   *)
(* review-presentation).  Producers and models are not trusted: a result   *)
(* is validated, an independent model says which claims answer what, the   *)
(* outcome is frozen, and only what was frozen is projected and shown.     *)
(*                                                                         *)
(* Claims and evidence are functions on their positions, so that what is   *)
(* kept of them keeps its place.  A text is its length in hundreds of      *)
(* characters, 0 when redaction leaves nothing of it.                      *)
(***************************************************************************)
EXTENDS ResultStructure, FiniteSetsExt, ReviewContract

CONSTANTS
  Items,              \* answerGoal.mustAnswerItems
  Requests,           \* what a producer hands to the review
  CoverageAnswers,    \* what the coverage model may answer
  Question,           \* the length of the question and the items
  ClaimLimit, EvidenceLimit, TotalLimit   \* COVERAGE_LIMITS.claims, .evidence, .totalCodePoints

PromptLimit == 3
SupportingLimit == 6
RequiredLimit == 10   \* also the limit of a coverage segment
MissingLimit == 20

Severe == {"identity_or_safety_blocker", "evidence_conflict"}

\* An action of the Worker is shown only as a proposal: nothing it carried out
\* itself, and marked when it is not read-only (WorkerResults).
Proposed(c) ==
  "safety" \in DOMAIN c => c.execution = "proposed" /\ (c.safety = "read_only" \/ c.marked)

\* What WorkerResults keeps of an action is a proposal.
ActionsAreProposed ==
  \A r \in Requests : \A i \in DOMAIN r.result.claims :
    r.result.claims[i].role = "next_action" => Proposed(r.result.claims[i])

\* Lists have positions, and a call that failed says so in a partial result
\* (WorkerResults); a coverage answer is a list of bindings.
ASSUME RequestAssumption ==
  \A r \in Requests :
    /\ DOMAIN r.result.claims \subseteq Nat /\ DOMAIN r.result.evidence \subseteq Nat
    /\ r.failed => r.result.status = "partial"

ASSUME AnswerAssumption ==
  \A a \in CoverageAnswers : Len(a.bindings) \in Nat /\ DOMAIN a.bindings = 1 .. Len(a.bindings)

VARIABLES
  phase,      \* the await the review is at, or how it ended
  request,    \* the result, its provenance and how it is to be reviewed
  aborted,    \* the turn was stopped
  review,     \* the AnswerCoverageReview
  run,        \* run.result as the review leaves it
  reply       \* what reviewAndFormat returns

vars == <<phase, request, aborted, review, run, reply>>

NoReview == [status |-> "none", bindings |-> <<>>, full |-> "unknown",
             fullClaims |-> {}, missing |-> 0]
Unknown == [NoReview EXCEPT !.status = "unknown"]
NoReply == [label |-> "none", decision |-> "none", caseStatus |-> "none", reviewed |-> FALSE,
            primary |-> {}, supporting |-> {}, actions |-> {}, prompts |-> {}]

-----------------------------------------------------------------------------
(* The coverage review. *)

\* An envelope vouches for evidence of its kind when what it was taken from
\* is current: this run, a message of this turn, the active generation.
\* `checked` is what MCP calls (read-only, on the list, completed) and
\* knowledge (strictly eligible) must also be.
EligibleEnvelope(v) ==
  /\ v.kind \in {"workspace", "log", "mcp", "manual", "knowledge"}
  /\ v.current
  /\ v.kind \in {"mcp", "knowledge"} => v.checked

Vouching(e, envelopes) ==
  {v \in envelopes : /\ v.id = e.id /\ v.kind = e.kind /\ v.validated
                     /\ EligibleEnvelope(v) /\ v.text \in 1 .. RequiredLimit}
Vouched(e, envelopes) == Vouching(e, envelopes) # {}

Candidates(claims) ==
  {i \in DOMAIN claims :
     /\ claims[i].type \in Factual
     /\ claims[i].role \in {"primary_answer", "next_action", "supporting_context"}
     /\ claims[i].answers \cap Items # {}}

\* What the model is asked about; nothing when a part of it may not be shown.
Selected(st) == UNION {st.claims[i].evidence : i \in Candidates(st.claims)}
Total(st, envelopes) ==
  Question + MapThenSumSet(LAMBDA i : st.claims[i].text, Candidates(st.claims))
    + MapThenSumSet(LAMBDA v : v.text,
        UNION {Vouching(st.evidence[j], envelopes) :
                 j \in {k \in DOMAIN st.evidence : st.evidence[k].id \in Selected(st)}})

Materializes(st, envelopes) ==
  /\ Cardinality(Candidates(st.claims)) <= ClaimLimit
  /\ Cardinality(Selected(st)) <= EvidenceLimit
  /\ \A i \in Candidates(st.claims) : st.claims[i].text \in 1 .. RequiredLimit
  /\ \A j \in DOMAIN st.evidence :
       st.evidence[j].id \in Selected(st) => Vouched(st.evidence[j], envelopes)
  /\ Total(st, envelopes) <= TotalLimit

ValidBinding(b, st) ==
  \E i \in Candidates(st.claims) :
    /\ st.claims[i].id = b.claim
    /\ b.items # {} /\ b.items \subseteq Items \cap st.claims[i].answers
    /\ b.evidence # {} /\ b.evidence \subseteq st.claims[i].evidence

\* The answer of the model, taken only when every part of it is valid.
ValidateCoverage(a, st) ==
  LET ids == {st.claims[i].id : i \in Candidates(st.claims)}
      primary == {st.claims[i].id : i \in {j \in Candidates(st.claims) : st.claims[j].role = "primary_answer"}}
      bound == {a.bindings[k].claim : k \in DOMAIN a.bindings}
  IN IF /\ a.status = "accepted" /\ a.full \in {"full", "partial", "none"}
        /\ \A k \in DOMAIN a.bindings : ValidBinding(a.bindings[k], st)
        /\ a.fullClaims \subseteq ids /\ a.missing <= MissingLimit
        /\ a.full = "full" => /\ a.missing = 0 /\ a.fullClaims # {}
                              /\ a.fullClaims \subseteq primary \cap bound
     THEN a ELSE Unknown

\* Of several bindings of one claim the last counts.
Binding(rv, id) ==
  rv.bindings[Max({k \in DOMAIN rv.bindings : rv.bindings[k].claim = id})]

\* Mutant of SelectFrozenPrimary: nobody asks whether an item stays uncovered.
SelectFrozenUncovered(claims, rv) ==
  IF rv.status = "accepted" /\ rv.full = "full"
  THEN {i \in DOMAIN claims : \E k \in DOMAIN rv.bindings : rv.bindings[k].claim = claims[i].id}
  ELSE {}

\* Primary claims that cover an item not covered before them, and those the
\* model needs for the full question; none when an item stays uncovered.
SelectFrozenPrimary(claims, rv) ==
  LET eligible == {i \in DOMAIN claims :
                     /\ claims[i].role = "primary_answer" /\ claims[i].type \in Factual
                     /\ \E k \in DOMAIN rv.bindings : rv.bindings[k].claim = claims[i].id}
      ItemsOf(i) == Binding(rv, claims[i].id).items
      Before(i) == UNION {ItemsOf(j) : j \in {j \in eligible : j < i}}
      needed == {i \in eligible : claims[i].id \in rv.fullClaims}
  IN IF /\ rv.status = "accepted" /\ rv.full = "full" /\ rv.missing = 0
        /\ rv.fullClaims \subseteq {claims[i].id : i \in eligible}
        /\ Items \subseteq UNION {ItemsOf(i) : i \in eligible}
     THEN {i \in eligible : ~(ItemsOf(i) \subseteq Before(i))} \cup needed
     ELSE {}
-----------------------------------------------------------------------------
(* Freezing. *)

\* Without a reviewer the primary claims with evidence stand as they are.
FrozenPrimary(st, rv) ==
  IF rv.status # "none" THEN SelectFrozenPrimary(st.claims, rv)
  ELSE {i \in DOMAIN st.claims :
          /\ st.claims[i].role = "primary_answer" /\ st.claims[i].type \in Factual
          /\ st.claims[i].answers \cap Items # {} /\ st.claims[i].evidence # {}}

\* Mutant of FreezeOutcome: a question to the user comes before an escalation.
FreezeAskFirst(r, covered, blockers) ==
  IF r.status = "need_input" \/ r.action = "ask_user" \/ r.missing # <<>> THEN <<"need_input", "ask_user">>
  ELSE IF r.action = "escalate_to_human" \/ blockers \cap Severe # {} THEN <<"partial", "escalate_to_human">>
  ELSE IF covered /\ blockers = {} THEN <<"concluded", "final_answer">>
  ELSE <<"partial", "continue_diagnosis">>

FreezeOutcome(r, covered, blockers) ==
  CASE r.action = "escalate_to_human" -> <<"partial", "escalate_to_human">>
    [] r.action # "escalate_to_human" /\ blockers \cap Severe # {} -> <<"partial", "escalate_to_human">>
    [] OTHER ->
       IF r.status = "need_input" \/ r.action = "ask_user" THEN <<"need_input", "ask_user">>
       ELSE IF r.status = "partial" \/ r.action = "continue_diagnosis" THEN <<"partial", "continue_diagnosis">>
       ELSE IF covered /\ blockers = {} THEN <<"concluded", "final_answer">>
       ELSE IF r.missing # <<>> THEN <<"need_input", "ask_user">>
       ELSE <<"partial", "continue_diagnosis">>

\* The reviewed result, and the positions of its primary answers.
Freeze(r, st, rv, upstream) ==
  LET primary == FrozenPrimary(st, rv)
      covered == primary # {} /\ Items \subseteq UNION {st.claims[i].answers : i \in primary}
      final == r.status = "concluded" \/ r.action = "final_answer"
      blockers == st.blockers \cup upstream
                  \cup (IF final /\ ~covered THEN {"primary_coverage_incomplete"} ELSE {})
      outcome == FreezeOutcome(r, covered, blockers)
  IN [status |-> outcome[1], action |-> outcome[2], missing |-> r.missing,
      claims |-> st.claims, evidence |-> st.evidence, primary |-> primary]
-----------------------------------------------------------------------------
(* The projection: what of the frozen result may be shown. *)

\* Accepted unknowns, and what the producer says is missing.
PromptCandidates(f) ==
  {<<"unknown", i>> : i \in {j \in DOMAIN f.claims :
       /\ "unknown" \in {f.claims[j].role, f.claims[j].type}
       /\ f.claims[j].text \in 1 .. PromptLimit}}
  \cup {<<"missing", k>> : k \in {j \in DOMAIN f.missing : f.missing[j] \in 1 .. PromptLimit}}

\* Mutant of ReviewedClaims: a review that failed counts as none.
ReviewedUnlessAccepted(f, rv) ==
  {i \in DOMAIN f.claims :
     IF rv.status = "accepted" THEN \E k \in DOMAIN rv.bindings : rv.bindings[k].claim = f.claims[i].id
     ELSE f.claims[i].type \in Factual /\ f.claims[i].evidence # {}}

\* Claims an accepted review bound; without a reviewer every one with evidence.
ReviewedClaims(f, rv) ==
  {i \in DOMAIN f.claims :
     CASE rv.status = "none" -> f.claims[i].type \in Factual /\ f.claims[i].evidence # {}
       [] rv.status = "accepted" -> \E k \in DOMAIN rv.bindings : rv.bindings[k].claim = f.claims[i].id
       [] OTHER -> FALSE}

Showable(c, limit) == c.type \in Factual /\ c.text \in 1 .. limit

OutcomeOf(f) ==
  CASE f.action = "escalate_to_human" -> "escalate"
    [] f.action # "escalate_to_human" /\ (f.status = "need_input" \/ f.action = "ask_user") -> "ask_user"
    [] f.status = "concluded" /\ f.action = "final_answer" -> "final"
    [] OTHER -> "partial"

\* Evidence is shown as the texts of the visible claims that cite it; a
\* required part that cannot be shown takes the outcome down.
Project(f, rv, accepted) ==
  LET bound == ReviewedClaims(f, rv)
      WithRole(role) == {i \in bound : f.claims[i].role = role}
      source == IF f.primary # {} THEN f.primary
                ELSE IF OutcomeOf(f) = "final" THEN {}
                ELSE {i \in WithRole("primary_answer") : f.claims[i].type \in Factual}
      primary == {i \in source : Showable(f.claims[i], RequiredLimit)}
      actions == {i \in WithRole("next_action") : Showable(f.claims[i], RequiredLimit)}
      supporting == {i \in WithRole("supporting_context") : Showable(f.claims[i], SupportingLimit)}
      Citing(e) == {i \in primary \cup actions \cup supporting : e \in f.claims[i].evidence}
      required == UNION {f.claims[i].evidence : i \in primary \cup actions}
      shown == {e \in IdsIn(f.evidence) :
                  MapThenSumSet(LAMBDA i : f.claims[i].text, Citing(e)) \in 1 .. RequiredLimit}
      blocked == \/ primary # source
                 \/ actions # WithRole("next_action")
                 \/ ~(required \subseteq shown)
      prompts == PromptCandidates(f) \cap accepted
      frozen == OutcomeOf(f)
      outcome == IF blocked THEN (IF frozen = "escalate" THEN "escalate" ELSE "partial") ELSE frozen
  IN [outcome |-> IF outcome = "ask_user" /\ prompts = {} THEN "partial" ELSE outcome,
      primary |-> primary, supporting |-> supporting, actions |-> actions, prompts |-> prompts]

\* Mutant of ApplyOutcome: the result stays what it was.
ApplyNothing(f, outcome) == f

ApplyOutcome(f, outcome) ==
  CASE outcome = "final" -> f
    [] outcome = "ask_user" -> [f EXCEPT !.status = "need_input", !.action = "ask_user"]
    [] outcome = "escalate" -> [f EXCEPT !.status = "partial", !.action = "escalate_to_human"]
    [] OTHER -> [f EXCEPT !.status = "partial", !.action = "continue_diagnosis"]
-----------------------------------------------------------------------------
(* The decision and the reply. *)

HasPrimaryShape(f) ==
  \E i \in DOMAIN f.claims :
    LET c == f.claims[i] IN
    /\ c.role = "primary_answer" /\ c.type \in Factual /\ c.answers # {} /\ c.evidence # {}
    /\ Supported(c, f.evidence)

DecisionOf(f) ==
  CASE "ask_user" = f.action \/ f.status = "need_input" -> "ask_user"
    [] f.action = "escalate_to_human" /\ f.status # "need_input" -> "escalate"
    [] f.action = "final_answer" /\ f.status # "need_input" ->
         IF f.status = "concluded" /\ HasPrimaryShape(f) THEN "final" ELSE "partial"
    [] OTHER -> "partial"

CaseStatusOf(f) ==
  IF f.status = "concluded" /\ f.action = "final_answer" /\ HasPrimaryShape(f) THEN "concluded"
  ELSE IF f.status = "need_input" THEN "need_input" ELSE "partial"

\* A failed call may speak only through evidence that is no log of the failure.
WorkerFailed(req, f) ==
  req.failed /\ ~\E i \in DOMAIN f.evidence : f.evidence[i].kind # "log" /\ f.evidence[i].confidence # "low"

\* The reply is rendered from the projection; a plan of the presentation
\* model only orders its supporting parts.
Render(f, p, failed) ==
  IF failed THEN [NoReply EXCEPT !.label = "failure", !.decision = DecisionOf(f), !.caseStatus = CaseStatusOf(f)]
  ELSE [label |-> CASE p.primary # {} /\ p.outcome = "final" -> "conclusion"
                    [] p.primary # {} /\ p.outcome # "final" -> "preliminary"
                    [] OTHER -> "insufficient",
        decision |-> DecisionOf(f), caseStatus |-> CaseStatusOf(f),
        reviewed |-> p.primary \cup p.supporting # {},
        primary |-> p.primary, supporting |-> p.supporting,
        actions |-> p.actions, prompts |-> p.prompts]
-----------------------------------------------------------------------------
Init ==
  /\ request \in Requests
  /\ phase = "start" /\ aborted = FALSE
  /\ review = NoReview /\ run = request.result /\ reply = NoReply

\* reviewAndFormat begins; an authority's own result is reviewed by no model.
Start ==
  /\ phase = "start"
  /\ LET st == Structure(request.result, Items) IN
     CASE aborted -> phase' = "cancelled" /\ review' = review
       [] ~aborted /\ (request.authority \/ ~request.reviewer) -> phase' = "prompts" /\ review' = NoReview
       [] OTHER -> IF Materializes(st, request.envelopes)
                   THEN phase' = "coverage" /\ review' = review
                   ELSE phase' = "prompts" /\ review' = Unknown
  /\ UNCHANGED <<request, aborted, run, reply>>

\* The coverage model answers or fails; an abort is noticed after its answer.
Coverage(a) ==
  /\ phase = "coverage"
  /\ IF aborted THEN phase' = "cancelled" /\ review' = review
     ELSE phase' = "prompts" /\ review' = ValidateCoverage(a, Structure(request.result, Items))
  /\ UNCHANGED <<request, aborted, run, reply>>

Frozen == Freeze(request.result, Structure(request.result, Items), review,
                 IF request.authority THEN {} ELSE request.upstream)

\* The prompt reviewer answers with the prompts that may be shown; after an
\* abort, or a failure, it is as if it accepted none.  The outcome is
\* projected twice, the second time from the result the first one left.
Present(accepted) ==
  /\ phase = "prompts"
  /\ LET prompts == IF aborted THEN {} ELSE accepted
         first == Project(Frozen, review, prompts)
         result == ApplyOutcome(Frozen, first.outcome)
         second == Project(result, review, prompts)
     IN /\ run' = result
        /\ reply' = Render(result, second, WorkerFailed(request, result))
  /\ phase' = "done"
  /\ UNCHANGED <<request, aborted, review>>

Abort ==
  /\ phase \in {"start", "coverage", "prompts"} /\ ~aborted
  /\ aborted' = TRUE
  /\ UNCHANGED <<phase, request, review, run, reply>>

Next ==
  \/ Start
  \/ \E a \in CoverageAnswers : Coverage(a)
  \/ \E accepted \in SUBSET (IF phase = "prompts" THEN PromptCandidates(Frozen) ELSE {}) : Present(accepted)
  \/ Abort

Spec == Init /\ [][Next]_vars
-----------------------------------------------------------------------------
\* The state keeps its types; the run a review leaves is a reviewed result.
TypeOK ==
  /\ phase \in {"start", "coverage", "prompts", "done", "cancelled"}
  /\ aborted \in BOOLEAN
  /\ review \in CoverageAnswers \cup {NoReview, Unknown}
  /\ <<run.status, run.action>> \in
       IF phase = "done"
       THEN {<<"partial", "escalate_to_human">>, <<"need_input", "ask_user">>,
             <<"partial", "continue_diagnosis">>, <<"concluded", "final_answer">>}
       ELSE {<<request.result.status, request.result.action>>}

\* A final answer was held back by nobody: its producer, whose status and
\* action nobody checks, called it neither partial nor open and asked for
\* nothing else.  It is blocked by nothing, and shows for each item a primary
\* claim that answers it; if a reviewer was there, one it bound to the item by
\* evidence that is current.
FinalIsProven ==
  reply.decision = "final" =>
    /\ request.result.status \notin {"partial", "need_input"}
    /\ request.result.action \notin {"ask_user", "continue_diagnosis", "escalate_to_human"}
    /\ Structure(request.result, Items).blockers = {}
    /\ ~request.authority => request.upstream = {}
    /\ \A item \in Items : \E i \in reply.primary :
         LET c == run.claims[i] IN
         /\ item \in c.answers /\ c.role = "primary_answer" /\ Supported(c, run.evidence)
         /\ request.reviewer /\ ~request.authority =>
              \E k \in DOMAIN review.bindings :
                LET b == review.bindings[k] IN
                /\ b.claim = c.id /\ item \in b.items
                /\ \A j \in DOMAIN run.evidence :
                     run.evidence[j].id \in b.evidence => Vouched(run.evidence[j], request.envelopes)

\* What the reply calls itself, the decision of the turn and the status of
\* the case agree, although they are derived from two projections and the
\* result; a case that waits for the user shows what it asks.
ReplyAgrees ==
  phase = "done" =>
    /\ (reply.decision = "final") <=> (reply.caseStatus = "concluded")
    /\ (reply.decision = "final") <=> (reply.label = "conclusion")
    /\ (reply.decision = "ask_user") <=> (reply.caseStatus = "need_input")
    /\ reply.decision = "ask_user" => reply.prompts # {} \/ reply.label = "failure"

\* With a reviewer, the reply states only what the review bound to current
\* evidence of the claim, and nothing when the review failed; and whoever
\* produced it and reviews it, an action in it is a proposal.
ShownIsReviewed ==
  phase = "done" =>
    /\ \A i \in reply.actions : Proposed(run.claims[i])
    /\ (request.reviewer /\ ~request.authority) =>
         \A i \in reply.primary \cup reply.supporting \cup reply.actions :
           /\ review.status = "accepted"
           /\ \E k \in DOMAIN review.bindings :
                review.bindings[k].claim = run.claims[i].id
                /\ review.bindings[k].evidence \subseteq run.claims[i].evidence
           /\ \A j \in DOMAIN run.evidence :
                run.evidence[j].id \in run.claims[i].evidence => Vouched(run.evidence[j], request.envelopes)

\* Whatever the reviewers answer, the decision is one the callers of the
\* review are prepared for: see TurnPipeline, which takes no other.
KeepsContract ==
  phase = "done" =>
    LET p == [status |-> request.result.status, action |-> request.result.action,
              authority |-> request.authority, failed |-> WorkerFailed(request, run)]
    IN /\ [decision |-> reply.decision, reviewed |-> reply.reviewed] \in Outcomes(p)
       /\ run.status = RunStatus(reply.decision)

\* The claim of the output-review specification: a supporting claim that is
\* rejected is taken away and the answer, complete without it, stays final.
LocalRejectionStaysLocal ==
  phase = "done" =>
    LET r == request.result
        st == Structure(r, Items)
        rejected == DOMAIN r.claims \ DOMAIN st.claims
        without == Restrict(r.claims, DOMAIN st.claims)
    IN /\ r.status = "concluded" /\ r.action = "final_answer"
       /\ rejected # {}
       /\ \A i \in rejected : r.claims[i].role = "supporting_context" /\ i \in Firsts(r.claims)
       /\ Structure([r EXCEPT !.claims = without], Items).blockers \cup request.upstream = {}
       /\ FrozenPrimary(st, review) # {}
       /\ Items \subseteq UNION {st.claims[i].answers : i \in FrozenPrimary(st, review)}
       => run.action = "final_answer"
=============================================================================
