------------------------------ MODULE AnswerGoal ------------------------------
(***************************************************************************)
(* What a turn has to answer (src/src/runtime: preflight-decision,         *)
(* preflight-service, answer-goal, answer-goal-reconciliation,             *)
(* answer-goal-completeness-review-service).  The model that plans a turn  *)
(* may split the question into items.  They become the goal only when each *)
(* is a part of the question and a second review finds them complete;      *)
(* otherwise the goal is one direct answer.                                *)
(***************************************************************************)
EXTENDS Integers, Sequences, FiniteSets

MaxItemCount == 5
MaxMissingElements == 5
DirectAnswer == {"direct_answer"}

\* preflight: the only questions that are asked before anybody looked.
MissingInfo(asker) ==
  (IF asker.workspace = "none" THEN {"workspace"} ELSE {})
  \cup (IF asker.question = "blank" THEN {"question"} ELSE {})

\* A model that wants to ask is overruled when nothing is missing; one that
\* dispatches is not, and one that fails leaves it to the local rules.
Dispatches(asker, model) == model = "dispatch" \/ MissingInfo(asker) = {}

\* An item is sound when it is a text of 1 to 80 characters without a secret
\* or a control character, and scoped when the resolved question contains it.
InScope(proposal) ==
  /\ proposal.list
  /\ Len(proposal.items) \in 1 .. MaxItemCount
  /\ \A i \in DOMAIN proposal.items : proposal.items[i].sound /\ proposal.items[i].scoped

ItemsOf(proposal) == {proposal.items[i].item : i \in DOMAIN proposal.items}

\* validateCompletenessReview: an answer that contradicts itself, is not of
\* the shape asked for or does not come at all says nothing.
Completeness(answer) ==
  IF /\ answer.shaped /\ answer.missing <= MaxMissingElements
     /\ answer.status = "complete" => answer.missing = 0
  THEN answer.status ELSE "unknown"

\* reconcileMustAnswerItems, once the items are known to be in scope.
MustAnswerItems(items, answer) ==
  IF Completeness(answer) = "complete" THEN items ELSE DirectAnswer
=============================================================================
