---------------------------- MODULE WorkerResults ----------------------------
(***************************************************************************)
(* What a call of the Claude Code worker returns (src/src/workers/claude): *)
(* the output of the CLI is searched for a JSON object, what is found is   *)
(* normalised to the claims the request asks for, and evidence that names  *)
(* lines of the workspace is read back to vouch for it.                    *)
(*                                                                         *)
(* A text is a sequence of pieces, each in a code fence or not, with the   *)
(* JSON objects in it in order.  Lengths are in hundreds of characters.    *)
(***************************************************************************)
EXTENDS Naturals, Sequences, SequencesExt

KnownTypes == {"fact", "inference", "assumption", "unknown"}
Answering == {"primary_answer", "next_action", "supporting_context"}
MaxExcerpt == 10   \* MAX_SAFE_EXCERPT_CODE_POINTS

\* A JSON object without the lists of claims and evidence.
Shapeless == [shaped |-> FALSE, status |-> "none", action |-> "none", missing |-> <<>>,
              claims |-> <<>>, evidence |-> <<>>]

Own(kind, confidence) == [id |-> 1, kind |-> kind, confidence |-> confidence, excerpt |-> 0]
Said(id, type, role) ==
  [id |-> id, type |-> type, role |-> role, declared |-> TRUE, answers |-> {}, evidence |-> {1},
   text |-> 1, safety |-> "none", execution |-> "none", marked |-> FALSE]
Incomplete(action, missing, evidence, claims) ==
  [shaped |-> TRUE, status |-> "partial", action |-> action, missing |-> missing,
   claims |-> claims, evidence |-> <<evidence>>]

MockResult(unknowns) ==
  Incomplete(IF unknowns # <<>> THEN "ask_user" ELSE "continue_diagnosis", unknowns,
             Own("manual", "low"), <<Said(1, "assumption", "process_note")>>)
FailedExecution ==
  Incomplete("escalate_to_human", <<>>, Own("log", "high"),
             <<Said(1, "fact", "process_note"), Said(2, "unknown", "unknown")>>)
EndedEarly == Incomplete("continue_diagnosis", <<>>, Own("log", "low"), <<Said(1, "unknown", "unknown")>>)
Unparsable == Incomplete("escalate_to_human", <<>>, Own("unknown", "low"), <<Said(1, "unknown", "unknown")>>)
-----------------------------------------------------------------------------
(* From the output to a result *)

\* An output is [outer, subtype, text, bare]: outer is "result" for the
\* envelope of the CLI, "object" for a JSON object of another kind, "other"
\* for what is no object; bare tells a text that is JSON but no object.
NoOutput == [outer |-> "other", subtype |-> "none", text |-> <<>>, bare |-> FALSE]

\* ClaudeStream: of the lines of a deep call the last envelope counts; only
\* a successful one keeps its text, and lines over 5 MB are dropped.
StreamResult(lines) ==
  LET envelopes == SelectSeq(lines, LAMBDA line : line.outer = "result" /\ ~line.dropped)
  IN IF envelopes = <<>> THEN NoOutput
     ELSE LET last == Last(envelopes) IN
          [NoOutput EXCEPT !.outer = "result", !.subtype = last.subtype,
                           !.text = IF last.subtype = "success" THEN last.text ELSE <<>>]

\* The first object in a code fence, else the first one anywhere.
ExtractFirstJsonObject(text) ==
  LET holding == SelectSeq(text, LAMBDA piece : piece.objects # <<>>)
      fenced == SelectSeq(holding, LAMBDA piece : piece.fenced)
  IN Head(Head(IF fenced # <<>> THEN fenced ELSE holding).objects)

NormalizedType(c) ==
  IF /\ c.type \notin KnownTypes
     /\ \/ c.role = "next_action"
        \/ c.role \in {"primary_answer", "supporting_context"} /\ c.type \in {"sql", "query"}
  THEN "inference" ELSE c.type

\* Mutant of Proposal: the Worker says itself whether it was carried out.
ProposalOrDone(c) ==
  c.safety \in {"read_only", "requires_authorization"} /\ c.evidence # {} /\ c.answers # {}

\* An action is kept when it is only proposed and answers an item.
Proposal(c) ==
  /\ c.safety \in {"read_only", "requires_authorization"} /\ c.execution = "proposed"
  /\ c.evidence # {} /\ c.answers # {}

NormalizeResult(result, items) ==
  LET known == {result.evidence[i].id : i \in DOMAIN result.evidence}
      Normalized(c) ==
        [c EXCEPT !.declared = TRUE, !.type = NormalizedType(c), !.evidence = @ \cap known,
                  !.answers = IF c.role \in Answering THEN @ \cap items ELSE {},
                  !.marked = c.role = "next_action" /\ c.safety = "requires_authorization"]
      all == [i \in DOMAIN result.claims |-> Normalized(result.claims[i])]
  IN [result EXCEPT !.claims = SelectSeq(all, LAMBDA c : c.role = "next_action" => Proposal(c))]

ParseOutput(out, items) ==
  LET objects == \E i \in DOMAIN out.text : out.text[i].objects # <<>> IN
  CASE out.outer = "result" /\ out.subtype # "success" -> EndedEarly
    [] out.outer = "other" \/ (~objects /\ ~out.bare) -> Unparsable
    [] OTHER -> IF ~objects THEN Shapeless
                ELSE LET found == ExtractFirstJsonObject(out.text) IN
                     IF found.shaped THEN NormalizeResult(found, items) ELSE found
-----------------------------------------------------------------------------
(* The response *)

\* Evidence of the workspace whose lines were found and may be shown.
CoverageEvidence(result) ==
  {[id |-> e.id, kind |-> e.kind, validated |-> TRUE, current |-> TRUE, checked |-> TRUE, text |-> e.excerpt] :
     e \in {result.evidence[i] : i \in
              {j \in DOMAIN result.evidence :
                 /\ result.evidence[j].kind = "workspace" /\ result.evidence[j].confidence # "low"
                 /\ result.evidence[j].excerpt \in 1 .. MaxExcerpt}}}

Response(result, envelopes, failed) == [result |-> result, envelopes |-> envelopes, failed |-> failed]

\* An execution is [spawned, ok, signalled, out, unknowns, mode]; one with
\* `ok` exited with 0, unsignalled and without an error.
MaxTurns(ex) ==
  ex.mode = "fast" /\ ~ex.signalled /\ ex.out.outer = "result" /\ ex.out.subtype = "error_max_turns"

WorkerResponse(ex, items) ==
  CASE ~ex.spawned -> Response(MockResult(ex.unknowns), {}, TRUE)
    [] ex.spawned /\ MaxTurns(ex) -> Response(EndedEarly, {}, FALSE)
    [] ex.spawned /\ ~MaxTurns(ex) ->
       IF ~ex.ok THEN Response(FailedExecution, {}, TRUE)
       ELSE LET result == ParseOutput(ex.out, items) IN Response(result, CoverageEvidence(result), FALSE)

\* Reading the evidence of a result that has none throws: the turn fails.
Throws(response) == ~response.result.shaped
=============================================================================
