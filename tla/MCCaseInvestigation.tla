------------------------- MODULE MCCaseInvestigation -------------------------
(***************************************************************************)
(* Three issues of which two may match, the locator of one being a prefix  *)
(* of the other's.  The Worker returns a place it read, one it did not, a  *)
(* log, two items of one id with the place first or last, an id Redmine    *)
(* uses too, or nothing; the verdicts take each class with each gap.       *)
(***************************************************************************)
EXTENDS CaseInvestigation

TwoIssues == {1, 12}
ThreeIssues == {1, 12, 30}
OneInTwelve == {<<1, 12>>}

Lead(issue, cites) == [issue |-> issue, cites |-> cites]
AllGrounds == {Lead(1, {"h1"}), Lead(12, {"h2"}), Lead(12, {"h1"}), Lead(1, {"h2"}), Lead(1, {"h9"})}

Response(status, action, error, evidence) ==
  [status |-> status, action |-> action, error |-> error, evidence |-> evidence]
Named(id, kind, readBack) == [id |-> id, kind |-> kind, readBack |-> readBack]
Place == Named("w1", "workspace", TRUE)
Unread == Named("w1", "workspace", FALSE)
Log(id) == Named(id, "log", FALSE)
AllReplies == {
  Response("concluded", "final_answer", FALSE, <<Place>>),
  Response("concluded", "final_answer", FALSE, <<Unread>>),
  Response("partial", "continue_diagnosis", FALSE, <<Place, Log("w2")>>),
  Response("concluded", "final_answer", FALSE, <<Log("w1"), Place>>),
  Response("concluded", "final_answer", FALSE, <<Unread, Log("w1")>>),
  Response("concluded", "final_answer", FALSE, <<Named("h1", "workspace", TRUE)>>),
  Response("need_input", "ask_user", FALSE, <<>>),
  Response("partial", "escalate_to_human", TRUE, <<Log("w2")>>)}

Verdict(class, historical, current, conflicting) ==
  [class |-> class, historical |-> historical, current |-> current, conflicting |-> conflicting]
AllJudgements == {
  Verdict("same", {"h1"}, {"w1"}, {}),
  Verdict("same", {"h2"}, {"w1"}, {}),
  Verdict("same", {"h1"}, {"w1"}, {"w2"}),
  Verdict("same", {"h1"}, {"w2"}, {}),
  Verdict("same", {"h1"}, {"h1"}, {}),
  Verdict("same", {"h1"}, {}, {}),
  Verdict("same", {}, {"w1"}, {}),
  Verdict("same", {"h1"}, {"w9"}, {}),
  Verdict("different", {"h1"}, {"w1"}, {"w1"}),
  Verdict("lead", {"h1"}, {}, {}),
  Verdict("irrelevant", {"h1"}, {}, {})}

\* Once the server has answered, how the issues stand in Redmine is read no more.
InvestigationView ==
  <<pc, aborted, knowledge, experience, branch, grant, redmine, worker, verdicts,
    result, run, reply, found, touched,
    IF branch \in {"idle", "plan", "search"} THEN <<backend, tracker>> ELSE <<>> >>
=============================================================================
