--------------------------- MODULE MCAnswerReview ---------------------------
(***************************************************************************)
(* Two items, and the results of three producers.  Knowledge: up to two    *)
(* claims of a pool with one of each way a claim can be kept or rejected,  *)
(* over every state of evidence and envelopes, and a complete answer with  *)
(* a third claim over every outcome, blocker and way to be reviewed.  The  *)
(* Worker: what WorkerResults makes of an execution.  MCP: what            *)
(* McpEvidence makes of two calls.                                         *)
(***************************************************************************)
EXTENDS SolvedCases, WorkerResults, McpEvidence

CONSTANTS i1, i2, other

TwoItems == {i1, i2}

Claim(id, type, role, answers, evidence, text) ==
  [id |-> id, type |-> type, role |-> role, declared |-> TRUE,
   answers |-> answers, evidence |-> evidence, text |-> text]

Full == Claim(1, "fact", "primary_answer", TwoItems, {1}, 5)
First == Claim(1, "fact", "primary_answer", {i1}, {1}, 5)
Second == Claim(2, "inference", "primary_answer", {i2}, {2}, 5)
Pool == {
  Full, First, Second,
  [Second EXCEPT !.evidence = {}],
  [Second EXCEPT !.text = 11],
  Claim(2, "inference", "supporting_context", {i1}, {1}, 6),
  Claim(2, "fact", "supporting_context", {i2}, {3}, 2),
  Claim(2, "fact", "next_action", {i1}, {2}, 2),
  [Claim(2, "sql", "next_action", {i1}, {2}, 2) EXCEPT !.declared = FALSE, !.answers = {}],
  Claim(3, "unknown", "unknown", {}, {}, 2),
  Claim(3, "fact", "process_note", {}, {1}, 2)}

Ev(id, kind, confidence) == [id |-> id, kind |-> kind, confidence |-> confidence]
W1 == Ev(1, "workspace", "high")
Evidences == {<<W1, Ev(2, "knowledge", "medium")>>, <<W1, Ev(2, "history", "high")>>,
              <<W1, W1>>, <<Ev(1, "log", "low"), Ev(2, "unknown", "high")>>}

Envelope(id, kind) == [id |-> id, kind |-> kind, validated |-> TRUE, current |-> TRUE,
                       checked |-> TRUE, text |-> 2]
Good == {Envelope(1, "workspace"), Envelope(2, "knowledge")}
EnvelopeSets == {Good, {Envelope(1, "workspace")},
                 {Envelope(1, "workspace"), [Envelope(2, "knowledge") EXCEPT !.current = FALSE]},
                 {Envelope(2, "knowledge"), [Envelope(1, "workspace") EXCEPT !.validated = FALSE]}}

Request(claims, evidence, envelopes, status, action, missing, upstream, reviewer, authority, failed) ==
  [result |-> [status |-> status, action |-> action, missing |-> missing,
               claims |-> claims, evidence |-> evidence],
   envelopes |-> envelopes, upstream |-> upstream,
   reviewer |-> reviewer, authority |-> authority, failed |-> failed]

Sequences(pool) == {<<>>} \cup {<<c>> : c \in pool} \cup {<<c, d>> : c \in pool, d \in pool}

KnowledgeRequests ==
  {Request(cs, ev, env, "concluded", "final_answer", <<>>, {}, rv, FALSE, FALSE)
     : cs \in Sequences(Pool), ev \in Evidences, env \in EnvelopeSets, rv \in BOOLEAN}
  \cup {Request(<<First, Second, c>>, <<W1, Ev(2, "knowledge", "medium")>>, Good,
                sa[1], sa[2], missing, upstream, rv, au, FALSE)
     : c \in Pool,
       sa \in {<<"concluded", "final_answer">>, <<"concluded", "escalate_to_human">>,
               <<"need_input", "ask_user">>, <<"partial", "continue_diagnosis">>, <<"partial", "final_answer">>},
       missing \in {<<>>, <<2>>, <<4>>},
       upstream \in {{}, {"evidence_conflict"}, {"identity_or_safety_blocker"}, {"historical_case"}},
       rv \in BOOLEAN, au \in BOOLEAN}

\* The Worker: an object in prose or in a fence, alone or after another one.
RawEvidence(id, kind, confidence, excerpt) ==
  [id |-> id, kind |-> kind, confidence |-> confidence, excerpt |-> excerpt]
RawClaim(id, type, role, answers, evidence, safety, execution) ==
  [Said(id, type, role) EXCEPT !.answers = answers, !.evidence = evidence,
                               !.safety = safety, !.execution = execution]
Primary == RawClaim(1, "fact", "primary_answer", TwoItems, {1}, "none", "none")
RawClaims == {
  RawClaim(2, "sql", "primary_answer", {i2, other}, {2, 3}, "none", "none"),
  RawClaim(2, "query", "evidence_locator", {i2}, {2}, "none", "none"),
  RawClaim(1, "fact", "supporting_context", {i2}, {2}, "none", "none")}
  \cup {RawClaim(2, "command", "next_action", {i2}, {2}, safety, execution) :
          safety \in {"none", "read_only", "requires_authorization"}, execution \in {"proposed", "executed"}}
Raw(claims, excerpt, status, action) ==
  [shaped |-> TRUE, status |-> status, action |-> action, missing |-> <<>>, claims |-> claims,
   evidence |-> <<RawEvidence(1, "workspace", "high", excerpt), RawEvidence(2, "workspace", "medium", 2)>>]
RawResults ==
  {Raw(<<Primary, c>>, excerpt, outcome[1], outcome[2]) :
     c \in RawClaims, excerpt \in {0, 5, 11},
     outcome \in {<<"concluded", "final_answer">>, <<"partial", "continue_diagnosis">>,
                  <<"need_input", "continue_diagnosis">>, <<"none", "none">>}}
Piece(fenced, objects) == [fenced |-> fenced, objects |-> objects]
Texts == {<<Piece(TRUE, <<raw>>)>> : raw \in RawResults}
         \cup {<<Piece(FALSE, <<Shapeless>>), Piece(TRUE, <<raw, Shapeless>>)>> : raw \in RawResults}
         \cup {<<Piece(FALSE, <<Shapeless>>)>>, <<Piece(FALSE, <<>>)>>}
Output(subtype, text) == [outer |-> "result", subtype |-> subtype, text |-> text, bare |-> FALSE]
Line(subtype, text, dropped) ==
  [outer |-> "result", subtype |-> subtype, text |-> text, dropped |-> dropped]
Outputs == {Output("success", text) : text \in Texts} \cup {NoOutput, Output("error_max_turns", <<>>)}
           \cup {StreamResult(<<Line("success", text, dropped), Line(subtype, text, FALSE)>>) :
                    text \in Texts, dropped \in BOOLEAN, subtype \in {"error_during_execution", "success"}}
Execution(spawned, ok, out, mode) ==
  [spawned |-> spawned, ok |-> ok, signalled |-> FALSE, out |-> out, mode |-> mode,
   unknowns |-> IF mode = "deep" THEN <<2>> ELSE <<>>]
Executions ==
  {Execution(TRUE, TRUE, out, mode) : out \in Outputs, mode \in {"none", "fast"}}
  \cup {Execution(FALSE, FALSE, NoOutput, mode) : mode \in {"none", "deep"}}
  \cup {Execution(TRUE, FALSE, out, mode) : out \in {NoOutput, Output("error_max_turns", <<>>)},
                                           mode \in {"none", "fast"}}
WorkerRequests ==
  {Request(r.result.claims, r.result.evidence, r.envelopes, r.result.status, r.result.action,
           r.result.missing, {}, rv, au, r.failed)
     : r \in {w \in {WorkerResponse(ex, TwoItems) : ex \in Executions} : ~Throws(w)},
       rv \in BOOLEAN, au \in BOOLEAN}

\* MCP: three tools are planned of which two are called.
Server(tools, readOnly, requested) ==
  [tools |-> tools, enabled |-> TRUE, inWorkspace |-> TRUE, readOnly |-> readOnly,
   transport |-> TRUE, requested |-> requested]
ServerLists == {<<Server(<<"a", "b", "c">>, TRUE, TRUE)>>}
  \cup {<<Server(<<"a">>, TRUE, FALSE), Server(<<"a">>, readOnly, TRUE), Server(<<"b">>, TRUE, TRUE)>>
          : readOnly \in BOOLEAN}
ToolClaim(role, answers) == [type |-> "fact", role |-> role, answers |-> answers, text |-> 4]
ToolClaims == {<<>>, <<ToolClaim("primary_answer", {i1, other})>>, <<ToolClaim("primary_answer", {i2})>>,
  <<ToolClaim("primary_answer", TwoItems), ToolClaim("supporting_context", {i2})>>,
  <<ToolClaim("primary_answer", {i1}), ToolClaim("primary_answer", {i1}), ToolClaim("primary_answer", {i2})>>}
ToolAnswer == [connected |-> TRUE, discovered |-> TRUE, late |-> FALSE, text |-> 10,
               structured |-> 20, redacted |-> FALSE, claims |-> <<>>]
ToolAnswers ==
  {[ToolAnswer EXCEPT !.claims = claims] : claims \in ToolClaims}
  \cup {[ToolAnswer EXCEPT !.claims = <<ToolClaim("primary_answer", TwoItems)>>, !.structured = structured,
                            !.redacted = redacted, !.late = late, !.discovered = discovered]
          : structured \in {20, 60, 200}, redacted \in BOOLEAN, late \in BOOLEAN, discovered \in BOOLEAN}
ToolCalls ==
  {Completed(servers, <<one, two>>) : servers \in ServerLists, one \in ToolAnswers, two \in ToolAnswers}
McpRequest(r, calls, rv) ==
  Request(r.claims, r.evidence, CurrentCoverage(calls), r.status, r.action, r.missing, {}, rv, FALSE, FALSE)
McpRequests ==
  {McpRequest(Extracted(calls, TwoItems).result, calls, rv)
     : calls \in {c \in ToolCalls : Extracted(c, TwoItems).found}, rv \in BOOLEAN}

AllRequests == KnowledgeRequests \cup WorkerRequests \cup McpRequests

Bind(claim, items, evidence) == [claim |-> claim, items |-> items, evidence |-> evidence]
Answer(bindings, full, fullClaims, missing) ==
  [status |-> "accepted", bindings |-> bindings, full |-> full, fullClaims |-> fullClaims, missing |-> missing]
B1 == Bind(1, {i1}, {1})
B2 == Bind(2, {i2}, {2})
Answers == {
  Answer(<<Bind(1, TwoItems, {1})>>, "full", {1}, 0),
  Answer(<<B1, B2>>, "full", {1, 2}, 0),
  Answer(<<B1, B2>>, "full", {1}, 0),
  Answer(<<B1, Bind(2, {i2}, {2}), Bind(3, {i2}, {2})>>, "full", {1, 2}, 0),
  Answer(<<B1, Bind(5, {i2}, {1})>>, "full", {1, 5}, 0),
  Answer(<<B2, B1>>, "full", {2}, 1),
  Answer(<<B1>>, "full", {1}, 0),
  Answer(<<B1, Bind(1, {i2}, {1})>>, "partial", {}, 1),
  Answer(<<B1, Bind(2, {i1}, {1})>>, "partial", {1}, 1),
  Answer(<<Bind(2, {i1}, {2})>>, "none", {}, 0),
  Answer(<<B1>>, "partial", {}, MissingLimit + 1),
  Unknown}
=============================================================================
