--------------------------- MODULE ReviewContract ---------------------------
(***************************************************************************)
(* What a turn may rely on when it has a result reviewed: the decisions    *)
(* reviewAndFormat can take on it.  AnswerReview keeps this contract, and  *)
(* TurnPipeline is checked against it.                                     *)
(***************************************************************************)
Decisions == {"final", "ask_user", "partial", "escalate"}

\* A producer is the status and the action of its result, whether it is the
\* Worker (an authority), and whether its call failed without evidence.  What
\* the Worker says is not checked: status and action need not fit, and an
\* action without a name is taken as a final answer.
DecisionsFor(p) ==
  CASE p.action = "escalate_to_human" -> {"escalate"}
    [] p.action = "ask_user" -> {"ask_user", "partial"}
    [] p.action = "continue_diagnosis" -> IF p.status = "need_input" THEN {"ask_user", "partial"} ELSE {"partial"}
    [] OTHER -> IF p.status = "partial" THEN {"partial"} ELSE {"final", "ask_user", "partial"}

\* A conflict found upstream escalates all that is not the Worker's own.
Outcomes(p) ==
  {o \in [decision : DecisionsFor(p) \cup (IF p.authority THEN {} ELSE {"escalate"}), reviewed : BOOLEAN] :
     /\ o.decision = "final" => o.reviewed
     /\ p.failed => ~o.reviewed}

RunStatus(decision) ==
  CASE decision = "final" -> "concluded"
    [] decision = "ask_user" -> "need_input"
    [] OTHER -> "partial"
=============================================================================
