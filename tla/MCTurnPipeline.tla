--------------------------- MODULE MCTurnPipeline ---------------------------
(***************************************************************************)
(* Two turns, of someone in operations, and of one who asks nothing.       *)
(* The earlier cases have one of each way their answer may be given again  *)
(* or not.  The searches have one of each way knowledge answers or does    *)
(* not: clear and doubtful results, none, conflicts, stale and risky ones, *)
(* one module or two.  The Worker returns each status and action.          *)
(***************************************************************************)
EXTENDS TurnPipeline

CONSTANTS i1, i2

TwoItems == {i1, i2}

Here == <<"t1", "u1", "w1">>
Asker(persona) == [case |-> "c1", owner |-> Here, workspace |-> "w1", persona |-> persona,
                   question |-> "q1", length |-> 12]
AllAskers == {Asker("operations"), [Asker("customer") EXCEPT !.question = "blank", !.length = 0]}

Part(item) == [item |-> item, sound |-> TRUE, scoped |-> TRUE]
Proposal(items) == [list |-> TRUE, items |-> items]
AllProposals == {
  Proposal(<<Part(i1), Part(i2)>>),
  Proposal(<<Part(i1), Part(i2), Part(i1), Part(i2), Part(i1), Part(i2)>>),
  Proposal(<<Part(i1), [Part(i2) EXCEPT !.scoped = FALSE]>>),
  Proposal(<<>>)}

AllVerdicts == [shaped : {TRUE}, status : {"complete", "incomplete"}, missing : {0, 1}]
               \cup [shaped : {FALSE}, status : {"complete"}, missing : {0}]

\* What an earlier run of the case said, and the generation it was taken from.
Goal(items) == [question |-> "q1", object |-> "q1", items |-> items]
Earlier(sources, items) ==
  [result |-> TRUE, status |-> "concluded", outcome |-> <<"concluded", "final_answer">>,
   sources |-> sources, alike |-> {}, goal |-> Goal(items),
   evidence |-> <<[id |-> "k1", kind |-> "knowledge", confidence |-> "high"]>>,
   claims |-> <<[id |-> 1, type |-> "fact", role |-> "primary_answer", declared |-> TRUE,
                 answers |-> items, evidence |-> {"k1"}]>>]
Message(id, score) == [id |-> id, score |-> score, replied |-> TRUE]
Other(id, messages, rs) == [id |-> id, owner |-> Here, messages |-> messages, runs |-> rs]
Single(run) == Other("c2", <<Message("m1", 95)>>, <<run>>)

Doc(visibility) == [kind |-> "parent", status |-> "active", quality |-> "ok", confidence |-> "high",
                    visibility |-> visibility, age |-> 180]
Source(visibility) ==
  [id |-> "k1", format |-> "v4", status |-> "active", quality |-> "ok", whole |-> TRUE,
   grounded |-> TRUE, span |-> TRUE, parent |-> Doc(visibility)]
Generation(chunks) == [active |-> "g1", after |-> "g1", chunks |-> chunks]
Store(cases, chunk) == [cases |-> cases, generation |-> Generation({chunk})]

Direct == Earlier({"m1"}, DirectAnswer)
Split == Earlier({"m1"}, TwoItems)
Public == Source("customer_safe")
Cases == {
  Other("c1", <<Message("m1", 100)>>, <<Split>>),
  [Single(Split) EXCEPT !.owner = <<"t1", "u2", "w1">>],
  Other("c2", <<Message("m1", 91)>>, <<Split>>),
  Other("c2", <<[Message("m1", 95) EXCEPT !.replied = FALSE]>>, <<Split>>),
  Single([Split EXCEPT !.result = FALSE]),
  Single([Split EXCEPT !.status = "partial"]),
  Single([Split EXCEPT !.goal = NoGoal]),
  Single([Split EXCEPT !.goal.question = "q2"]),
  Single([Split EXCEPT !.evidence = <<>>]),
  Single([Split EXCEPT !.claims[1].role = "next_action"]),
  Single([Split EXCEPT !.claims = @ \o <<[@[1] EXCEPT !.id = 2, !.evidence = {"k2"}]>>]),
  Other("c2", <<Message("m1", 95)>>, <<[Split EXCEPT !.sources = {}, !.alike = {"m1"}]>>),
  Other("c2", <<Message("m1", 95), Message("m2", 100)>>, <<Split, Earlier({"m1", "m2"}, TwoItems)>>)}
Generations == {
  Generation({}),
  [Generation({Public}) EXCEPT !.after = "g2"],
  Generation({[Public EXCEPT !.parent = NoParent]}),
  Generation({[Public EXCEPT !.parent.age = 181]}),
  Generation({[Public EXCEPT !.whole = FALSE]})}
AllStores ==
  {Store(<<c>>, Public) : c \in Cases}
  \cup {[cases |-> <<Single(Split)>>, generation |-> g] : g \in Generations}
  \cup {Store(<<Single(Direct)>>, Source("internal")),
        Store(<<Single(Direct)>>, Source("support")),
        Store(<<Single(Direct), [Single(Split) EXCEPT !.id = "c3"]>>, Public),
        Store(<<Single(Direct), Single(Direct), [Single(Split) EXCEPT !.id = "c3"]>>, Public)}

Route(modules, signals, risky, targets) ==
  [modules |-> modules, signals |-> signals, risky |-> risky, overview |-> FALSE, targets |-> targets]
Plain == Route({"m1"}, FALSE, FALSE, {})

Chunk(id) ==
  [id |-> id, module |-> "m1", known |-> TRUE, intent |-> "howto", source |-> "faq", status |-> "active",
   age |-> 10, span |-> TRUE, quality |-> "ok", provenance |-> TRUE, matched |-> 3, titled |-> TRUE,
   specific |-> 2, rerank |-> 80]
C1 == Chunk("k1")
C2 == Chunk("k2")

Claim(text, evidence, items) == [text |-> text, evidence |-> evidence, items |-> items]
Rag(answerability, selected, claims, missing, escalate) ==
  [answerability |-> answerability, selected |-> selected, claims |-> claims,
   missing |-> missing, escalate |-> escalate]
Rags == {
  Rag("full", {"k1"}, <<Claim("a", {"k1"}, DirectAnswer)>>, 0, "no"),
  Rag("full", {"k1", "k2"}, <<Claim("a", {"k1"}, {i1}), Claim("b", {"k2"}, {i2})>>, 0, "no"),
  Rag("full", {"k1"}, <<Claim("a", {"k1"}, {i1}), Claim("b", {}, {i2})>>, 0, "no"),
  Rag("full", {"k1"}, <<Claim("a", {"k1"}, {i1}), Claim("a", {"k1"}, {i2})>>, 0, "no"),
  Rag("full", {"k1"}, <<Claim("a", {"k1"}, {i1})>>, 0, "no"),
  Rag("full", {"k1"}, <<Claim("a", {"k1"}, {i1, i2})>>, 1, "none"),
  Rag("full", {"k3"}, <<Claim("a", {"k3"}, {i1, i2})>>, 0, "no"),
  Rag("partial", {"k1"}, <<Claim("a", {"k1"}, {i1})>>, 1, "yes"),
  Rag("none", {}, <<>>, 2, "yes")}

Found(route, results) == [kind |-> "search", route |-> route, results |-> results, rags |-> Rags]
AllSearches == {
  Found(Plain, <<C1, C2>>),
  Found(Plain, <<C1>>),
  Found(Plain, <<C1, [C2 EXCEPT !.status = "draft"]>>),
  Found(Plain, <<C1, [C2 EXCEPT !.status = "archived"]>>),
  Found(Plain, <<[C1 EXCEPT !.age = 200], C2>>),
  Found(Plain, <<[C1 EXCEPT !.rerank = -1, !.specific = 1]>>),
  Found(Plain, <<>>),
  Found(Route({"m1"}, TRUE, FALSE, {"config"}), <<C1>>),
  Found(Route({"m1"}, FALSE, TRUE, {"config"}), <<C1, C2>>),
  Found(Route({"m1", "m2"}, FALSE, FALSE, {"route"}), <<[C1 EXCEPT !.span = FALSE]>>)}

Response(status, action, progress, error) ==
  [status |-> status, action |-> action, progress |-> progress, error |-> error]
AllResponses == {
  Response("concluded", "final_answer", TRUE, FALSE),
  Response("need_input", "ask_user", FALSE, FALSE),
  Response("partial", "continue_diagnosis", TRUE, FALSE),
  Response("partial", "continue_diagnosis", FALSE, FALSE),
  Response("partial", "escalate_to_human", FALSE, TRUE),
  Response("partial", "ask_user", FALSE, TRUE)}
=============================================================================
