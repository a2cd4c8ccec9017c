--------------------------- MODULE ExperienceMatch ---------------------------
(***************************************************************************)
(* May the answer of another case be given again?  (src/src/runtime:       *)
(* experience-agent, knowledge-experience-resolver.)  A question much like *)
(* this one must have been answered for the same user in the same          *)
(* workspace, with the same answer goal, by a run that can be named, and   *)
(* all its evidence must be knowledge that is active today and that this   *)
(* user may see.                                                           *)
(*                                                                         *)
(* How alike two texts are is a number of hundredths, ages are in days.    *)
(***************************************************************************)
EXTENDS ResultStructure

CONSTANT CaseLimit    \* listCases(200)

MinLength == 6
Alike == 92
MaxAge == 180
MaxCandidates == 5

NoMatch == [kind |-> "none"]
NoParent == [kind |-> "none"]
NoGoal == [kind |-> "none"]
Unresolved == [id |-> "none"]

VisibilityForPersona(persona) ==
  CASE persona = "customer" -> {"customer_safe"}
    [] persona = "operations" -> {"customer_safe", "internal"}
    [] OTHER -> {"customer_safe", "internal", "support"}
-----------------------------------------------------------------------------
(* What the evidence of an earlier run is worth today. *)

\* The chunk is of the present format and whole, and it and its document
\* are in force, verified and of a quality to be quoted.
Vouches(chunk) ==
  /\ chunk.format = "v4" /\ chunk.status = "active" /\ chunk.quality = "ok"
  /\ chunk.whole /\ chunk.grounded /\ chunk.span /\ chunk.parent # NoParent
  /\ chunk.parent.status = "active" /\ chunk.parent.quality = "ok"
  /\ chunk.parent.confidence \in {"medium", "high"}
  /\ chunk.parent.age \in 0 .. MaxAge

\* Only knowledge resolves, by the chunk it was taken from.  The pointer to
\* the generation is read again: the chunks were those of the active one.
Resolve(e, generation) ==
  LET chunks == {c \in generation.chunks : c.id = e.id} IN
  IF /\ e.kind = "knowledge" /\ chunks # {}
     /\ generation.active # "none" /\ generation.after = generation.active
     /\ \A c \in chunks : Vouches(c)
  THEN LET parent == (CHOOSE c \in chunks : TRUE).parent
       IN [id |-> e.id, kind |-> e.kind, confidence |-> parent.confidence,
           visibility |-> parent.visibility, age |-> parent.age]
  ELSE Unresolved

Reusable(e, persona) ==
  e # Unresolved /\ e.confidence # "low" /\ e.age <= MaxAge /\ e.visibility \in VisibilityForPersona(persona)
-----------------------------------------------------------------------------
(* Which run gave an answer, and may its result be used again. *)

HasExactAnswerGoal(goal, source) ==
  /\ source.question = goal.question /\ source.object = goal.object
  /\ goal.items # {} /\ source.items = goal.items

\* The one run with a result that names the message; when none does, the one
\* whose goal reads like it.
SourceRuns(runs, message) ==
  LET named == {i \in DOMAIN runs : runs[i].result /\ message.id \in runs[i].sources}
      legacy == {i \in DOMAIN runs : runs[i].result /\ message.id \in runs[i].alike}
      source == IF named # {} THEN named ELSE legacy
  IN IF Cardinality(source) = 1 THEN source ELSE {}

EvidenceToday(run, generation) == [i \in DOMAIN run.evidence |-> Resolve(run.evidence[i], generation)]

ReusabilityIssue(run, persona, goal, generation) ==
  LET evidence == EvidenceToday(run, generation)
      st == Structure([claims |-> run.claims, evidence |-> evidence], goal.items)
  IN IF run.status # "concluded" \/ run.outcome # <<"concluded", "final_answer">> THEN "run_not_final"
     ELSE IF run.goal = NoGoal THEN "answer_goal_unavailable"
     ELSE IF ~HasExactAnswerGoal(goal, run.goal) THEN "answer_goal_not_exact"
     ELSE IF evidence = <<>> THEN "evidence_missing"
     ELSE IF \E i \in DOMAIN evidence : ~Reusable(evidence[i], persona) THEN "evidence_not_current_or_visible"
     ELSE IF \A i \in DOMAIN st.claims : st.claims[i].role # "primary_answer" THEN "answer_goal_not_covered"
     ELSE IF DOMAIN st.claims # DOMAIN run.claims \/ st.blockers # {} THEN "strict_review_failed"
     ELSE "none"

\* The questions of one case that read like this one, each with the run that
\* answered it or the reason why its answer is not given again.
Exchange(c, message, asker, goal, generation) ==
  LET source == SourceRuns(c.runs, message)
      run == c.runs[CHOOSE i \in source : TRUE]
      Found(reason) == [case |-> c.id, score |-> message.score, reason |-> reason]
  IN IF ~message.replied THEN Found("reply_not_attributable")
     ELSE IF source = {} THEN Found("run_not_attributable")
     ELSE LET issue == ReusabilityIssue(run, asker.persona, goal, generation) IN
          IF issue # "none" THEN Found(issue)
          ELSE [case |-> c.id, score |-> message.score, reason |-> "none",
                owner |-> c.owner, goal |-> run.goal, evidence |-> EvidenceToday(run, generation)]

\* By case as listed, and by message: the questions much like this one, of the
\* same user in the same workspace and tenant.
SameAsker(asker, store) ==
  {n \in DOMAIN store.cases \cap 1 .. CaseLimit :
     store.cases[n].id # asker.case /\ store.cases[n].owner = asker.owner}
Near(c) == {m \in DOMAIN c.messages : c.messages[m].score >= Alike}

Exchanges(asker, goal, store) ==
  LET places == IF asker.length < MinLength THEN {}
                ELSE UNION {{n} \X Near(store.cases[n]) : n \in SameAsker(asker, store)}
      At(p) == store.cases[p[1]].messages[p[2]]
  IN [p \in places |-> Exchange(store.cases[p[1]], At(p), asker, goal, store.generation)]

\* Sorted by score, and of equal ones as they are listed.
Listed(p, q) == p[1] < q[1] \/ (p[1] = q[1] /\ p[2] < q[2])
Before(s, p, q) == s[p].score > s[q].score \/ (s[p].score = s[q].score /\ Listed(p, q))

FindExperienceMatch(asker, goal, store) ==
  LET s == Exchanges(asker, goal, store)
      found == {p \in DOMAIN s : s[p].reason = "none"}
  IN IF found = {} THEN NoMatch ELSE s[CHOOSE p \in found : \A q \in found \ {p} : Before(s, p, q)]

RejectedCandidates(asker, goal, store) ==
  LET s == Exchanges(asker, goal, store)
      rejected == {p \in DOMAIN s : s[p].reason # "none"}
  IN {s[p] : p \in {q \in rejected : Cardinality({o \in rejected : Before(s, o, q)}) < MaxCandidates}}
=============================================================================
