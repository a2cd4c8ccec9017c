--------------------------- MODULE ResultStructure ---------------------------
(***************************************************************************)
(* The structural validation of a diagnostic result against an answer goal *)
(* (src/src/runtime/result-validator.ts).  The review of every answer      *)
(* begins with it, and a result of another case must pass it to be reused. *)
(*                                                                         *)
(* Claims and evidence are functions on their positions, so that what is   *)
(* kept of them keeps its place.                                           *)
(***************************************************************************)
EXTENDS Integers, Sequences, FiniteSets, Functions

ClaimTypes == {"fact", "inference", "assumption", "unknown"}
Factual == {"fact", "inference"}
Roles == {"primary_answer", "supporting_context", "evidence_locator",
          "process_note", "next_action", "unknown"}

Firsts(s) == {i \in DOMAIN s : \A j \in DOMAIN s : j < i => s[j].id # s[i].id}
IdsIn(s) == {s[i].id : i \in DOMAIN s}

Authority(e) == e.kind # "unknown" /\ e.confidence \in {"medium", "high"}
AnswersGoal(c, items) == c.declared /\ c.answers \cap items # {}

Supported(c, evidence) ==
  /\ c.type \in ClaimTypes /\ c.role \in Roles /\ c.declared
  /\ c.role = "primary_answer" => c.answers # {}
  /\ c.evidence \subseteq IdsIn(evidence)
  /\ c.type \in Factual => c.evidence # {}
  /\ c.type = "fact" =>
       \E i \in DOMAIN evidence : evidence[i].id \in c.evidence /\ Authority(evidence[i])

\* Evidence and claims with an id seen before are discarded, and claims
\* without the support their type asks for.  Blockers forbid a final answer.
Structure(r, items) ==
  LET evidence == Restrict(r.evidence, Firsts(r.evidence))
      accepted == {i \in Firsts(r.claims) : Supported(r.claims[i], evidence)}
      rejected == DOMAIN r.claims \ accepted
  IN [claims |-> Restrict(r.claims, accepted),
      evidence |-> evidence,
      blockers |->
        (IF DOMAIN evidence # DOMAIN r.evidence THEN {"duplicate_evidence_id"} ELSE {})
        \cup (IF Firsts(r.claims) # DOMAIN r.claims THEN {"duplicate_claim_id"} ELSE {})
        \cup (IF \E i \in rejected : AnswersGoal(r.claims[i], items)
              THEN {"rejected_answer_content"} ELSE {})]
=============================================================================
