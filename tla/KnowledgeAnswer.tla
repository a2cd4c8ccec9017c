--------------------------- MODULE KnowledgeAnswer ---------------------------
(***************************************************************************)
(* May knowledge answer a question without a look at the code?             *)
(* (src/src/runtime: evidence-judge, rag-answerability-service,            *)
(* knowledge-diagnosis, knowledge-turn, deep-query-planner,                *)
(* query-correction.)  The judge looks at what the search returned, a      *)
(* model at whether it covers the answer goal; only when both agree is a   *)
(* result built from it, otherwise the Worker gets it as a lead.           *)
(*                                                                         *)
(* Scores are in hundredths and ages in days.                              *)
(***************************************************************************)
EXTENDS Integers, Sequences, FiniteSets

Top(results) == results[1]
Active(results) == SelectSeq(results, LAMBDA r : r.status = "active")
IdsOf(results) == {results[i].id : i \in DOMAIN results}
Least(a, b) == IF a <= b THEN a ELSE b
Clamp(x) == IF x < 0 THEN 0 ELSE Least(x, 100)
-----------------------------------------------------------------------------
(* The judge. *)

Stale(r) == r.status \in {"deprecated", "archived", "review_required", "draft"} \/ r.age > 180

Retired == {"deprecated", "archived", "review_required"}
Conflicts(results) ==
  {k \in {<<results[i].module, results[i].intent>> : i \in DOMAIN results} :
     LET statuses == {results[i].status : i \in {j \in DOMAIN results : <<results[j].module, results[j].intent>> = k}}
     IN "active" \in statuses /\ statuses \cap Retired # {}}

SourceAuthority(source) ==
  CASE source \in {"faq", "runbook"} -> 90
    [] source = "whitepaper" -> 85
    [] source = "module_doc" -> 80
    [] source = "solved_case" -> 75
    [] source = "glossary" -> 45
    [] source = "unresolved_case" -> 25
    [] OTHER -> 40

Relevance(route, top) ==
  LET found == 18 * top.matched + (IF top.titled THEN 25 ELSE 0)
               + (IF route.modules = {} \/ top.module \in route.modules THEN 15 ELSE 0)
  IN IF found < 10 THEN 10 ELSE Least(found, 100)

Score(route, results) ==
  LET top == Top(results)
      positive == 25 * Relevance(route, top)
                  + 15 * (IF top.source \in {"faq", "runbook", "whitepaper", "solved_case"} THEN 85 ELSE 45)
                  + 15 * SourceAuthority(top.source)
                  + 10 * (IF Stale(top) THEN 35 ELSE 90)
                  + 10 * (IF top.status = "active" THEN 80 ELSE 45)
                  + 10 * (IF Conflicts(results) # {} THEN 20 ELSE IF Len(results) > 1 THEN 90 ELSE 75)
                  + 15 * (IF top.source \in {"faq", "runbook", "solved_case"} THEN 90 ELSE 65)
      penalties == (IF Conflicts(results) # {} THEN 25 ELSE 0) + (IF top.matched < 2 THEN 15 ELSE 0)
                   + (IF route.risky THEN 20 ELSE 0)
                   + (CASE top.quality = "error" -> 30 [] top.quality = "warn" -> 10 [] OTHER -> 0)
  IN Clamp((positive + 50) \div 100 - penalties)

Threshold(top) ==
  IF top.source \in {"faq", "runbook"} THEN 70 ELSE IF top.intent = "troubleshooting" THEN 78 ELSE 68

\* What rerank scored needs 0.7; what only words found, two specific ones.
Confident(top) == IF top.rerank >= 0 THEN top.rerank >= 70 ELSE top.specific >= 2

TopBlockers(route, top) ==
  (IF route.modules # {} /\ top.module \notin route.modules THEN {"module_mismatch"} ELSE {})
  \cup (IF route.modules # {} /\ ~top.known THEN {"unknown_module"} ELSE {})
  \cup (IF ~top.span THEN {"missing_answer_bearing_sentence"} ELSE {})
  \cup (IF top.quality \notin {"ok", "info"} THEN {"low_quality_evidence"} ELSE {})
  \cup (IF ~top.provenance THEN {"missing_provenance"} ELSE {})
  \cup (IF top.specific < 2 THEN {"low_signal_terms"} ELSE {})
  \cup (IF ~Confident(top) THEN {"low_retrieval_confidence"} ELSE {})

Verdict(answerable, blockers, conflicts, action) ==
  [answerable |-> answerable, blockers |-> blockers, conflicts |-> conflicts, action |-> action]

Judge(route, results) ==
  LET conflicts == Conflicts(results)
      blockers == TopBlockers(route, Top(results))
      No(extra, action) == Verdict(FALSE, blockers \cup extra, conflicts, action)
  IN CASE route.signals ->
            Verdict(FALSE, {"implementation_detail"}, conflicts, "dispatch_code_diagnosis")
       [] ~route.signals /\ results = <<>> ->
            Verdict(FALSE, {"no_active_evidence"}, {}, "dispatch_code_diagnosis")
       [] OTHER ->
            IF conflicts # {} THEN No({"conflicting_knowledge"}, "dispatch_code_diagnosis")
            ELSE IF route.risky THEN No({"high_risk_uncertainty"}, "escalate_to_human")
            ELSE IF Stale(Top(results)) THEN No({"stale_knowledge"}, "dispatch_code_diagnosis")
            ELSE IF Top(results).status # "active" THEN No({}, "dispatch_code_diagnosis")
            ELSE IF Score(route, results) >= Threshold(Top(results)) /\ blockers = {}
                 THEN Verdict(TRUE, {}, {}, "final_answer")
                 ELSE No({}, "dispatch_code_diagnosis")
-----------------------------------------------------------------------------
(* The answerability review, by a model that sees the first three results. *)

UnknownAnswerability == [answerability |-> "unknown", selected |-> {}, claims |-> <<>>]

\* Mutant of Validated: the model's word counts, not the items it covered.
ValidatedByWord(a, results, items) ==
  IF a.selected \subseteq IdsOf(SubSeq(results, 1, Least(3, Len(results))))
  THEN [answerability |-> a.answerability, selected |-> a.selected, claims |-> a.claims]
  ELSE UnknownAnswerability

Validated(a, results, items) ==
  LET shown == IdsOf(SubSeq(results, 1, Least(3, Len(results))))
      cited == a.selected \cup UNION {a.claims[i].evidence : i \in DOMAIN a.claims}
      covered == (UNION {a.claims[i].items : i \in DOMAIN a.claims}) \cap items
      sound == CASE a.answerability = "full" ->
                      a.claims # <<>> /\ a.selected # {} /\ a.missing = 0 /\ a.escalate # "yes" /\ items \subseteq covered
                 [] a.answerability = "partial" -> a.claims # <<>> /\ a.selected # {} /\ a.escalate # "no"
                 [] a.answerability = "none" -> a.escalate # "no"
                 [] OTHER -> FALSE
  IN IF sound /\ cited \subseteq shown
     THEN [answerability |-> a.answerability, selected |-> a.selected,
           claims |-> IF a.answerability = "none" THEN <<>> ELSE a.claims]
     ELSE UnknownAnswerability

NoReviewer == [UnknownAnswerability EXCEPT !.answerability = "unasked"]

FinalJudge(judge, rag) ==
  IF rag.answerability \in {"unasked", "full"} THEN judge
  ELSE [judge EXCEPT !.answerable = FALSE, !.blockers = @ \cup {"question_not_answered"},
                     !.action = "dispatch_code_diagnosis"]
-----------------------------------------------------------------------------
(* The result: claims of the model, one of each result, or the first one. *)

AnswerEvidence(results) == SubSeq(Active(results), 1, Least(6, Len(Active(results))))

\* A claim of the model is told when it cites some of that evidence, in words
\* that no claim before it has.
Told(claims, used) ==
  {i \in DOMAIN claims :
     /\ claims[i].text # "blank" /\ claims[i].evidence \cap IdsOf(used) # {}
     /\ \A j \in DOMAIN claims : j < i => claims[j].text # claims[i].text}

KnowledgeClaims(route, results, rag, items) ==
  LET used == AnswerEvidence(results)
      Fact(evidence, answers) == [evidence |-> evidence, answers |-> answers \cap items]
  IN IF rag.answerability = "full"
     THEN [i \in Told(rag.claims, used) |-> Fact(rag.claims[i].evidence \cap IdsOf(used), rag.claims[i].items)]
     ELSE IF route.overview \/ Len(used) > 1
     THEN [i \in DOMAIN used |-> Fact({used[i].id}, items)]
     ELSE <<Fact(IdsOf(used), items)>>
-----------------------------------------------------------------------------
(* Leads for the Worker, when knowledge does not answer. *)

\* The kinds of code a question points at; the service when it names none.
ArtifactTargets(route) == IF route.targets = {} THEN {"service"} ELSE route.targets

DeepQuery(route) == [targets |-> ArtifactTargets(route), attempt |-> 1, maxAttempts |-> 2]

Broad == {"module_aliases", "static_workspace_search"}
Family(target) ==
  CASE target = "route" -> {"controller", "service", "config"}
    [] target = "controller" -> {"service", "config"}
    [] target = "service" -> {"config", "middleware"}
    [] target = "config" -> {"env", "settings"}
    [] OTHER -> {}

\* Where a second look goes, or why there is none.
Pivot(deepQuery, judge) ==
  LET families == UNION {Family(t) : t \in deepQuery.targets}
      Stop(reason) == [stop |-> reason, targets |-> deepQuery.targets]
      To(targets) == [stop |-> "none", targets |-> targets]
  IN CASE judge.answerable -> Stop("sufficient_evidence")
       [] ~judge.answerable /\ deepQuery.attempt >= deepQuery.maxAttempts -> Stop("max_attempts")
       [] OTHER ->
            IF "high_risk_uncertainty" \in judge.blockers THEN Stop("human_escalation")
            ELSE IF judge.blockers \cap {"no_active_evidence", "stale_knowledge"} # {}
                 THEN To(Broad \cup {"glossary"})
            ELSE IF families = {} THEN To(Broad) ELSE To(families)
=============================================================================
