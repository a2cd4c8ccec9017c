----------------------------- MODULE McpEvidence -----------------------------
(***************************************************************************)
(* The MCP stage of a turn (src/src/mcp: evidence-service, policy,         *)
(* normalizer): up to two tools of the allowed servers are called one      *)
(* after the other, what they return is normalised and bounded, and claims *)
(* a tool states in the agreed envelope become a result when they cover    *)
(* every item of the goal.                                                 *)
(*                                                                         *)
(* Lengths are in hundreds of characters.                                  *)
(***************************************************************************)
EXTENDS Naturals, Sequences, SequencesExt, FiniteSets, FiniteSetsExt

MaxCalls == 2
MaxResult == 200    \* MAX_MCP_RESULT_CHARS
MaxSafeText == 10
-----------------------------------------------------------------------------
(* One call *)

\* validateMcpExecutionPolicy: what a server and the command of its transport
\* must be before anything is connected.
PolicyAllows(server, tool) ==
  /\ server.enabled /\ server.inWorkspace /\ server.readOnly
  /\ tool \in Range(server.tools)
  /\ server.transport     \* a command on the whitelist, or a url

\* normalizeMcpResult: the text takes up to three quarters of the budget and
\* the structured content what is left; once redacted inside or cut it is no
\* JSON any more.  The envelope asks for claims of two types and roles.
Normalized(answer) ==
  LET budget == IF answer.structured = 0 THEN MaxResult ELSE (MaxResult * 3) \div 4
      rest == MaxResult - (IF answer.text < budget THEN answer.text ELSE budget)
  IN [claims |-> IF answer.structured = 0 \/ answer.redacted \/ answer.structured > rest
                    \/ \E i \in DOMAIN answer.claims :
                         \/ answer.claims[i].type \notin {"fact", "inference"}
                         \/ answer.claims[i].role \notin {"primary_answer", "supporting_context"}
                         \/ answer.claims[i].text = 0
                 THEN <<>> ELSE answer.claims]

\* executeMcpTool: rejected, failed (also by a time-out, after which a late
\* answer is ignored), or completed.
Execute(plan, answer) ==
  IF ~PolicyAllows(plan.server, plan.tool) \/ (answer.connected /\ ~answer.discovered)
  THEN [status |-> "rejected", claims |-> <<>>]
  ELSE IF ~answer.connected \/ answer.late THEN [status |-> "failed", claims |-> <<>>]
  ELSE [status |-> "completed", claims |-> Normalized(answer).claims]
-----------------------------------------------------------------------------
(* The stage *)

Planned(servers) ==
  LET allowed == SelectSeq(servers, LAMBDA server : server.requested)
      plans == FlattenSeq([s \in DOMAIN allowed |->
                 [t \in DOMAIN allowed[s].tools |-> [server |-> allowed[s], tool |-> allowed[s].tools[t]]]])
  IN SubSeq(plans, 1, Min({MaxCalls, Len(plans)}))

\* The calls that completed, in order; the place of a call is the id of its
\* evidence.
Completed(servers, answers) ==
  LET plans == Planned(servers)
      calls == [p \in DOMAIN plans |-> Execute(plans[p], answers[p])]
  IN SelectSeq(calls, LAMBDA call : call.status = "completed")

\* A call with claims in the envelope raises its evidence from medium.
McpEvidenceOf(calls) ==
  [k \in DOMAIN calls |->
     [id |-> k, kind |-> "mcp", confidence |-> IF calls[k].claims # <<>> THEN "high" ELSE "medium"]]

\* The id of a claim counts those before it and its place in its own call.
ClaimOf(c, before, place, evidenceId, items) ==
  [id |-> before + place, type |-> c.type, role |-> c.role, declared |-> TRUE,
   answers |-> IF c.role = "primary_answer" THEN c.answers \cap items ELSE {},
   evidence |-> {evidenceId}, text |-> c.text]

ClaimsOf(calls, items) ==
  LET Before(k) == FoldLeft(LAMBDA n, call : n + Len(call.claims), 0, SubSeq(calls, 1, k - 1))
  IN FlattenSeq([k \in DOMAIN calls |->
       [i \in DOMAIN calls[k].claims |->
          ClaimOf(calls[k].claims[i], Before(k) + i - 1, i, k, items)]])

\* What the review asks of ids, and what does not hold: of two calls the second
\* begins with an id of the first when that stated two claims.
ClaimIdsAreDistinct(calls, items) == IsInjective([i \in DOMAIN ClaimsOf(calls, items) |-> ClaimsOf(calls, items)[i].id])

\* extractExplicitResult: a result only when every item is answered.
Extracted(calls, items) ==
  LET claims == ClaimsOf(calls, items) IN
  [found |-> items \subseteq UNION {claims[i].answers : i \in DOMAIN claims},
   result |-> [status |-> "concluded", action |-> "final_answer", missing |-> <<>>,
               claims |-> claims, evidence |-> McpEvidenceOf(calls)]]

\* currentCoverageEvidence: the texts of the claims of a call, read anew.
CurrentCoverage(calls) ==
  {[id |-> k, kind |-> "mcp", validated |-> TRUE, current |-> TRUE, checked |-> TRUE,
    text |-> FoldLeft(LAMBDA n, c : n + c.text, 0, calls[k].claims)] :
     k \in {j \in DOMAIN calls :
              /\ calls[j].claims # <<>>
              /\ FoldLeft(LAMBDA n, c : n + c.text, 0, calls[j].claims) <= MaxSafeText}}
=============================================================================
