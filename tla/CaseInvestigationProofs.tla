----------------------- MODULE CaseInvestigationProofs -----------------------
(***************************************************************************)
(* A turn that asks history, for any issues, leads, judgements, replies of *)
(* the Worker and stops: what it concludes rests on both sides, a source   *)
(* that fails silences no other, and a scan misses no issue at rest.       *)
(***************************************************************************)
EXTENDS CaseInvestigation, FiniteSetTheorems, SequenceTheorems, WellFoundedInduction, TLAPS

Outcome == {"ok", "timeout", "failed"}
SearchStages == {"idle", "reading", "found", "timeout", "failed"}
SourceStatuses == {"none", "no_hit", "timeout", "failed", "completed"}

\* What the branch and the server hold while the sources are collected.
SourcesTyped ==
  /\ grant \in [ids : SUBSET Issues, left : Nat, used : BOOLEAN]
  /\ redmine \in [status : SourceStatuses, details : Seq(Issues), leads : Seq(Grounds)]

ScanTyped ==
  /\ tracker \in Seq(Tracked) /\ touched \in Seq(Tracked)
  /\ found \in [stage : SearchStages, page : Nat, issues : Seq(Tracked)]

\* Leads come from details, and details only under an unspent, living grant.
ReadUnderGrant ==
  /\ pc = "idle" => redmine.status = "none"
  /\ branch = "analyze" => grant.used /\ grant.left > 0
  /\ redmine.status = "completed" => branch = "done" /\ grant.used /\ grant.left > 0

\* The Worker is left out only when there is nothing for it to do.
WorkerJoined ==
  pc = "verify" =>
    /\ worker.status \in {"skipped", "completed", "failed"}
    /\ worker.status = "skipped" => knowledge.answers \/ experience = "match"

\* A result is there only when all sources have settled.
ResultComesLast == pc \notin {"coverage", "review", "settled"} => result = NoResult

InvestigationInv ==
  /\ SourcesTyped /\ ScanTyped /\ ReadUnderGrant /\ WorkerJoined /\ ResultComesLast
  /\ ConfirmedByBothSources /\ NothingIsSaidOnlyWhenNobodyAnswered

\* A place is behind the pages read when a page that was read reached it.
Behind(place) == place <= found.page * PageSize

\* Of the places behind the pages, the untouched issues have been listed.
PagesAreCovered ==
  found.stage = "reading" /\ backend = "issues_scan" =>
    \A place \in DOMAIN tracker :
      tracker[place] \notin ToSet(touched) /\ Behind(place) => tracker[place] \in ToSet(found.issues)

ScanInv == ScanTyped /\ PagesAreCovered /\ UntouchedIssuesAreFound

-----------------------------------------------------------------------------
(* Positions in lists. *)

\* A set of positions has a first one.
LEMMA LeastOf ==
  ASSUME NEW T, T \subseteq Nat, T # {}
  PROVE  \E m \in T : \A n \in T : m <= n
<1>1. \E x \in T : \A y \in T : ~ (<<y, x>> \in OpToRel(<, Nat))
  <2>1. IsWellFoundedOn(OpToRel(<, Nat), Nat) BY NatLessThanWellFounded
  <2> QED BY <2>1, WFMin
<1>2. \A x, y \in T : ~(<<y, x>> \in OpToRel(<, Nat)) => x <= y BY DEF OpToRel
<1> QED BY <1>1, <1>2

LEMMA MinOf == ASSUME NEW T, T \subseteq Nat, T # {} PROVE Min(T) \in T /\ \A n \in T : Min(T) <= n
BY LeastOf DEF Min

\* The enumeration of some of a finite set lists members of it.
LEMMA Enumerated ==
  ASSUME NEW S, IsFiniteSet(S), NEW ids \in SUBSET S
  PROVE  SetToSeq(ids) \in Seq(S)
<1>1. IsFiniteSet(ids) BY FS_Subset
<1> DEFINE n == Cardinality(ids)
<1>2. n \in Nat /\ ExistsBijection(1 .. n, ids) BY <1>1, FS_CardinalityType
<1>3. \E f \in [1 .. n -> ids] : IsInjective(f)
  <2>1. PICK f : f \in Bijection(1 .. n, ids) BY <1>2 DEF ExistsBijection
  <2>2. f \in [1 .. n -> ids] /\ \A i, j \in 1 .. n : f[i] = f[j] => i = j
    BY <2>1 DEF Bijection, Injection, IsInjective
  <2> QED BY <2>2 DEF IsInjective
<1>4. SetToSeq(ids) \in [1 .. n -> ids] BY <1>3 DEF SetToSeq
<1> QED BY <1>2, <1>4

\* Lists of leads and of judgements are lists.
LEMMA TwoAreAList == ASSUME NEW A, NEW p \in A \X A PROVE p \in Seq(A)
<1>1. PICK a \in A, b \in A : p = <<a, b>> OBVIOUS
<1>2. <<a, b>> \in Seq(A) OBVIOUS
<1> QED BY <1>1, <1>2

LEMMA ListsAreLists == LeadSeqs \subseteq Seq(Grounds) /\ Verdicts \subseteq Seq(Judgements)
<1>1. \A A : <<>> \in Seq(A) /\ \A a \in A : <<a>> \in Seq(A) OBVIOUS
<1>2. ASSUME NEW s \in LeadSeqs PROVE s \in Seq(Grounds)
  <2>1. s = <<>> \/ (\E a \in Grounds : s = <<a>>) \/ s \in Grounds \X Grounds
    BY Zenon DEF LeadSeqs
  <2> QED BY <1>1, <2>1, TwoAreAList, Zenon
<1>3. ASSUME NEW s \in Verdicts PROVE s \in Seq(Judgements)
  <2>1. s = <<>> \/ (\E a \in Judgements : s = <<a>>) \/ s \in Judgements \X Judgements
    BY Zenon DEF Verdicts
  <2> QED BY <1>1, <2>1, TwoAreAList, Zenon
<1> QED BY <1>2, <1>3

-----------------------------------------------------------------------------
(* The gate and the result. *)

LEMMA SameDecision ==
  ASSUME NEW lead, NEW v, Decide(lead, v).class = "same"
  PROVE  /\ v.class = "same" /\ BlockersOf(v) = {}
         /\ Decide(lead, v).ids = HistoricalProof(v) \cup CurrentProof(v)
BY DEF Decide

LEMMA UnblockedIsProven ==
  ASSUME NEW v, v.class = "same", BlockersOf(v) = {}
  PROVE  /\ redmine.status = "completed" /\ worker.status = "completed"
         /\ HistoricalProof(v) # {} /\ CurrentProof(v) # {}
         /\ v.conflicting = {} /\ ~knowledge.conflicts
BY DEF BlockersOf

LEMMA PriorityOf == ASSUME NEW class PROVE Priority(class) \in 1 .. 4
<1>1. CASE class = "same"
  <2>1. Priority(class) = 4 BY <1>1, Zenon DEF Priority
  <2> QED BY <2>1
<1>2. CASE class = "different"
  <2>1. class # "same" BY <1>2
  <2>2. class # "lead" BY <1>2
  <2>3. Priority(class) = 3 BY <1>2, <2>1, <2>2, Zenon DEF Priority
  <2> QED BY <2>3
<1>3. CASE class = "lead"
  <2>1. class # "same" BY <1>3
  <2>2. class # "different" BY <1>3
  <2>3. Priority(class) = 2 BY <1>3, <2>1, <2>2, Zenon DEF Priority
  <2> QED BY <2>3
<1>4. CASE class # "same" /\ class # "different" /\ class # "lead"
  <2>1. Priority(class) = 1 BY <1>4, Zenon DEF Priority
  <2> QED BY <2>1
<1> QED BY <1>1, <1>2, <1>3, <1>4

\* Of some decisions one is the first of the highest class.
LEMMA PrimaryIsOne ==
  ASSUME NEW decisions, NEW S, S \subseteq Nat, S # {}
  PROVE  \E i \in S : Primary(decisions, S) = decisions[i]
<1> DEFINE Rank == [i \in S |-> Priority(decisions[i].class)]
           T == {4 - Rank[i] : i \in S}
<1>1. Rank \in [S -> 1 .. 4] BY PriorityOf
<1>2. \A i \in S : Rank[i] = Priority(decisions[i].class) OBVIOUS
<1> HIDE DEF Rank
<1>3. T \subseteq Nat /\ T # {}
  <2>1. \A i \in S : 4 - Rank[i] \in Nat BY <1>1
  <2> QED BY <2>1
<1>4. PICK m \in T : \A n \in T : m <= n BY <1>3, LeastOf
<1> DEFINE U == {i \in S : 4 - Rank[i] = m}
<1>5. U # {} /\ U \subseteq Nat BY <1>4
<1>6. PICK k \in U : \A n \in U : k <= n BY <1>5, LeastOf
<1>7. k \in S /\ 4 - Rank[k] = m BY <1>6
<1>8. ASSUME NEW j \in S PROVE Rank[k] > Rank[j] \/ (Rank[k] = Rank[j] /\ k <= j)
  <2>1. m <= 4 - Rank[j] BY <1>4
  <2>2. Rank[j] \in 1 .. 4 /\ Rank[k] \in 1 .. 4 BY <1>1, <1>7
  <2>3. CASE 4 - Rank[j] = m
    <3>1. j \in U BY <2>3
    <3>2. k <= j BY <1>6, <3>1
    <3>3. 4 - Rank[j] = 4 - Rank[k] BY <1>7, <2>3
    <3> QED BY <2>2, <3>2, <3>3
  <2>4. CASE 4 - Rank[j] # m BY <1>7, <2>1, <2>2, <2>4
  <2> QED BY <2>3, <2>4
<1>9. \E i \in S : \A j \in S : \/ Priority(decisions[i].class) > Priority(decisions[j].class)
                                \/ Priority(decisions[i].class) = Priority(decisions[j].class) /\ i <= j
  BY <1>2, <1>7, <1>8
<1> QED BY <1>9 DEF Primary

\* What the merge of the sources keeps is of one of them, and nothing of the
\* Worker's under an id of Redmine's.
LEMMA MergedFrom ==
  ASSUME NEW items, NEW e \in MergedWith(items)
  PROVE  \/ e \in KnowledgeEvidence \cup ExperienceEvidence
         \/ e \in HistoricalEvidence
         \/ e \in items /\ e.id \notin IdsOf(HistoricalEvidence)
BY DEF MergedWith, Merged

LEMMA KindsOfSources ==
  /\ \A e \in KnowledgeEvidence \cup ExperienceEvidence : e.kind = "knowledge"
  /\ \A e \in HistoricalEvidence : e.source = "redmine"
BY DEF KnowledgeEvidence, ExperienceEvidence, HistoricalEvidence, Item

LEMMA FirstIsAnItem ==
  ASSUME NEW w, NEW places \in SUBSET DOMAIN w.reply.evidence, NEW e \in FirstAt(w, places)
  PROVE  e \in WorkerItems(w) /\ \E i \in places : e = WorkerEvidence(w)[i]
BY DEF FirstAt, WorkerItems

LEMMA KindsOfWorker ==
  ASSUME NEW w, NEW e \in WorkerItems(w)
  PROVE  e.source = "worker" /\ (e.vouched => e.kind = "workspace")
<1>1. PICK i \in DOMAIN w.reply.evidence : e = WorkerEvidence(w)[i] BY Zenon DEF WorkerItems
<1> DEFINE named == w.reply.evidence[i]
           vouched == named.kind = "workspace" /\ named.readBack
<1>2. e = Item(named.id, named.kind, "worker", vouched) BY <1>1, Zenon DEF WorkerEvidence
<1>3. e.source = "worker" /\ e.kind = named.kind /\ e.vouched = vouched BY <1>2 DEF Item
<1> QED BY <1>3

\* An envelope of the Worker is one of a place that was read back.
LEMMA EnvelopeOfWorker ==
  ASSUME NEW e, e \in FirstAt(worker, {i \in DOMAIN worker.reply.evidence : WorkerEvidence(worker)[i].vouched})
  PROVE  e \in WorkerItems(worker) /\ e.vouched
<1> DEFINE places == {i \in DOMAIN worker.reply.evidence : WorkerEvidence(worker)[i].vouched}
<1>1. places \in SUBSET DOMAIN worker.reply.evidence OBVIOUS
<1>2. e \in WorkerItems(worker) /\ \E i \in places : e = WorkerEvidence(worker)[i]
  BY <1>1, FirstIsAnItem
<1> QED BY <1>2

\* Proof of history is a detail of Redmine's: an item of the Worker under its
\* id is not kept, and no envelope of the Worker is one of a call to Redmine.
LEMMA HistoricalIsRedmines ==
  ASSUME NEW v, NEW id \in HistoricalProof(v)
  PROVE  \E h \in Collected(worker) : h.id = id /\ h.source = "redmine"
<1>1. PICK e \in Collected(worker) : e.id = id /\ e.kind = "mcp" BY DEF HistoricalProof, Has
<1>2. PICK x \in Enveloped(worker) : x.id = id /\ x.kind = "mcp" BY DEF HistoricalProof, Has
<1>3. x \in HistoricalEvidence
  <2>1. x \notin KnowledgeEvidence \cup ExperienceEvidence BY <1>2, KindsOfSources
  <2>2. ASSUME x \in FirstAt(worker, {i \in DOMAIN worker.reply.evidence : WorkerEvidence(worker)[i].vouched})
        PROVE  FALSE
    <3>1. x \in WorkerItems(worker) /\ x.vouched BY <2>2, EnvelopeOfWorker
    <3> QED BY <1>2, <3>1, KindsOfWorker
  <2> QED BY <1>2, <2>1, <2>2, MergedFrom DEF Enveloped
<1>4. id \in IdsOf(HistoricalEvidence) BY <1>2, <1>3 DEF IdsOf
<1>5. e \in HistoricalEvidence
  <2>1. e \notin KnowledgeEvidence \cup ExperienceEvidence BY <1>1, KindsOfSources
  <2> QED BY <1>1, <1>4, <2>1, MergedFrom DEF Collected
<1> QED BY <1>1, <1>5, KindsOfSources

\* Proof of this run is an item of the Worker, under whose id it named a place
\* that was read back.
LEMMA CurrentIsTheWorkers ==
  ASSUME NEW v, NEW id \in CurrentProof(v)
  PROVE  \E w \in Collected(worker) :
           /\ w.id = id /\ w.source = "worker" /\ w.kind \in {"workspace", "log"}
           /\ \E place \in WorkerItems(worker) : place.id = id /\ place.vouched
<1>1. PICK e \in Collected(worker) : e.id = id /\ e.kind \in {"workspace", "log"}
  BY DEF CurrentProof, CurrentCandidates, Has
<1>2. PICK x \in Enveloped(worker) : x.id = id /\ x.kind = "workspace" BY DEF CurrentProof, Has
<1>a. \A h \in HistoricalEvidence : h.kind = "mcp" BY DEF HistoricalEvidence, Item
<1>3. e.source = "worker"
  <2>1. e \notin KnowledgeEvidence \cup ExperienceEvidence BY <1>1, KindsOfSources
  <2>2. e \notin HistoricalEvidence BY <1>1, <1>a
  <2>3. e \in FirstAt(worker, DOMAIN worker.reply.evidence) BY <1>1, <2>1, <2>2, MergedFrom DEF Collected
  <2>4. e \in WorkerItems(worker) BY <2>3, FirstIsAnItem
  <2> QED BY <2>4, KindsOfWorker
<1>4. x \in WorkerItems(worker) /\ x.vouched
  <2>1. x \notin KnowledgeEvidence \cup ExperienceEvidence BY <1>2, KindsOfSources
  <2>2. x \notin HistoricalEvidence BY <1>2, <1>a
  <2>3. x \in FirstAt(worker, {i \in DOMAIN worker.reply.evidence : WorkerEvidence(worker)[i].vouched})
    BY <1>2, <2>1, <2>2, MergedFrom DEF Enveloped
  <2> QED BY <2>3, EnvelopeOfWorker
<1> QED BY <1>1, <1>2, <1>3, <1>4

\* What a result of history says when it concludes.
LEMMA ConcludedIsProven ==
  ASSUME NEW leads, DOMAIN leads \subseteq Nat, NEW vs,
         Result(leads, vs).origin = "history", Result(leads, vs).status = "concluded"
  PROVE  /\ redmine.status = "completed" /\ worker.status = "completed" /\ ~knowledge.conflicts
         /\ \E h \in Result(leads, vs).evidence : h.source = "redmine"
         /\ \E w \in Result(leads, vs).evidence :
              /\ w.source = "worker" /\ w.kind \in {"workspace", "log"}
              /\ \E place \in WorkerItems(worker) : place.id = w.id /\ place.vouched
         /\ \A i \in DOMAIN leads : vs[i].class = "same" => vs[i].conflicting = {}
<1> DEFINE decisions == [i \in DOMAIN leads |-> Decide(leads[i], vs[i])]
           blockers == UNION {BlockersOf(vs[i]) : i \in DOMAIN leads}
           meaningful == {i \in DOMAIN leads : decisions[i].class # "irrelevant"}
           primary == Primary(decisions, meaningful)
           used == UNION {decisions[i].ids : i \in meaningful}
           evidence == {e \in Collected(worker) : e.id \in used}
<1>1. Result(leads, vs) =
        IF meaningful = {} THEN Fallback(blockers)
        ELSE Answer("history",
                    IF Confirmed(primary, blockers) THEN "concluded" ELSE "partial",
                    IF Confirmed(primary, blockers) THEN "final_answer" ELSE "continue_diagnosis",
                    evidence, blockers)
  BY Zenon DEF Result
<1>2. PICK k \in DOMAIN leads : TRUE /\ meaningful # {}
  <2>1. Fallback(blockers).origin # "history" BY DEF Fallback, Answer
  <2> QED BY <1>1, <2>1
<1>3. meaningful \subseteq Nat OBVIOUS
<1>4. PICK i \in meaningful : primary = decisions[i]
  BY <1>2, <1>3, PrimaryIsOne
<1> HIDE DEF decisions, blockers, meaningful, used, evidence, primary
<1>5. Result(leads, vs).evidence = evidence /\ Confirmed(primary, blockers)
  BY <1>1, <1>2 DEF Answer
<1>6. primary.class = "same" /\ blockers = {} BY <1>5 DEF Confirmed
<1>7. i \in DOMAIN leads /\ decisions[i] = Decide(leads[i], vs[i])
  BY DEF decisions, meaningful
<1>8. /\ vs[i].class = "same" /\ BlockersOf(vs[i]) = {}
      /\ decisions[i].ids = HistoricalProof(vs[i]) \cup CurrentProof(vs[i])
  BY <1>4, <1>6, <1>7, SameDecision
<1>9. /\ redmine.status = "completed" /\ worker.status = "completed" /\ ~knowledge.conflicts
      /\ HistoricalProof(vs[i]) # {} /\ CurrentProof(vs[i]) # {}
  BY <1>8, UnblockedIsProven
<1>10. decisions[i].ids \subseteq used BY DEF used
<1>11. \E h \in evidence : h.source = "redmine"
  <2>1. PICK id \in HistoricalProof(vs[i]) : TRUE BY <1>9
  <2>2. PICK h \in Collected(worker) : h.id = id /\ h.source = "redmine"
    BY <2>1, HistoricalIsRedmines
  <2> QED BY <1>8, <1>10, <2>1, <2>2 DEF evidence
<1>12. \E w \in evidence :
         /\ w.source = "worker" /\ w.kind \in {"workspace", "log"}
         /\ \E place \in WorkerItems(worker) : place.id = w.id /\ place.vouched
  <2>1. PICK id \in CurrentProof(vs[i]) : TRUE BY <1>9
  <2>2. PICK w \in Collected(worker) :
          /\ w.id = id /\ w.source = "worker" /\ w.kind \in {"workspace", "log"}
          /\ \E place \in WorkerItems(worker) : place.id = id /\ place.vouched
    BY <2>1, CurrentIsTheWorkers
  <2> QED BY <1>8, <1>10, <2>1, <2>2 DEF evidence
<1>13. ASSUME NEW j \in DOMAIN leads, vs[j].class = "same" PROVE vs[j].conflicting = {}
  <2>1. BlockersOf(vs[j]) = {} BY <1>6 DEF blockers
  <2> QED BY <1>13, <2>1, UnblockedIsProven
<1> QED BY <1>5, <1>9, <1>11, <1>12, <1>13

\* Nothing is said only by the last of the four who may answer.
LEMMA UnknownIsLast ==
  ASSUME NEW leads, NEW vs, Result(leads, vs).origin = "unknown"
  PROVE  ~knowledge.answers /\ experience # "match" /\ worker.status # "completed"
BY DEF Result, Fallback, Answer

LEMMA VerifiedLike ==
  ASSUME NEW leads \in Seq(Grounds), NEW vs \in Seq(Judgements)
  PROVE  DOMAIN Verified(leads, vs) = DOMAIN leads
BY DEF Verified
-----------------------------------------------------------------------------
(* The search of Redmine. *)

LEMMA RequestOutcome == RequestOutcomes \subseteq Outcome
<1>1. ASSUME NEW first, NEW second PROVE Request(first, second) \in Outcome
  <2>1. CASE first = "ok" \/ (first = "busy" /\ second = "ok")
    <3>1. Request(first, second) = "ok" BY <2>1, Zenon DEF Request
    <3> QED BY <3>1 DEF Outcome
  <2>2. CASE first = "late"
    <3>1. ~(first = "ok" \/ (first = "busy" /\ second = "ok")) BY <2>2
    <3>2. Request(first, second) = "timeout" BY <2>2, <3>1, Zenon DEF Request
    <3> QED BY <3>2 DEF Outcome
  <2>3. CASE ~(first = "ok" \/ (first = "busy" /\ second = "ok")) /\ first # "late"
    <3>1. Request(first, second) = "failed" BY <2>3, Zenon DEF Request
    <3> QED BY <3>1 DEF Outcome
  <2> QED BY <2>1, <2>2, <2>3
<1> QED BY <1>1 DEF RequestOutcomes

\* A search that has ended is a success or names what failed.
LEMMA StatusOfSearch ==
  ASSUME NEW matching, found.stage \in SearchStages, found.stage \notin {"idle", "reading"}
  PROVE  SearchStatus(matching) \in Outcome
<1>1. CASE found.stage # "found"
  <2>1. ~(found.stage = "found" /\ ~IsInjective(Candidates(matching))) BY <1>1
  <2>2. SearchStatus(matching) = found.stage BY <1>1, <2>1, Zenon DEF SearchStatus
  <2> QED BY <1>1, <2>2 DEF SearchStages, Outcome
<1>2. CASE found.stage = "found" /\ ~IsInjective(Candidates(matching))
  <2>1. ~(found.stage # "found") BY <1>2
  <2>2. SearchStatus(matching) = "failed" BY <1>2, <2>1, Zenon DEF SearchStatus
  <2> QED BY <2>2 DEF Outcome
<1>3. CASE found.stage = "found" /\ IsInjective(Candidates(matching))
  <2>1. ~(found.stage # "found") /\ ~(found.stage = "found" /\ ~IsInjective(Candidates(matching)))
    BY <1>3
  <2>2. SearchStatus(matching) = "ok" BY <2>1, Zenon DEF SearchStatus
  <2> QED BY <2>2 DEF Outcome
<1> QED BY <1>1, <1>2, <1>3

\* Without the first occurrence of an issue, the list holds at each place what
\* it held there or one place further.
LEMMA RemovedFirst ==
  ASSUME NEW S, NEW list \in Seq(S), NEW issue
  PROVE  /\ RemoveFirst(list, issue) \in Seq(S)
         /\ Len(RemoveFirst(list, issue)) <= Len(list)
         /\ \A q \in 1 .. Len(RemoveFirst(list, issue)) :
              \/ RemoveFirst(list, issue)[q] = list[q]
              \/ q + 1 <= Len(list) /\ RemoveFirst(list, issue)[q] = list[q + 1]
<1>1. CASE ~ \E i \in 1 .. Len(list) : list[i] = issue
  BY <1>1 DEF RemoveFirst
<1>2. CASE \E i \in 1 .. Len(list) : list[i] = issue
  <2> DEFINE I == {i \in 1 .. Len(list) : list[i] = issue}
             k == Min(I)
             front == SubSeq(list, 1, k - 1)
             back == SubSeq(list, k + 1, Len(list))
  <2>1. SelectInSeq(list, LAMBDA v : v = issue) = k BY <1>2 DEF SelectInSeq
  <2>2. RemoveFirst(list, issue) = front \o back
    BY <1>2, <2>1 DEF RemoveFirst, RemoveAt
  <2>3. k \in 1 .. Len(list)
    <3>1. I \subseteq Nat /\ I # {} BY <1>2
    <3>2. k \in I BY <3>1, MinOf
    <3> QED BY <3>2
  <2> HIDE DEF k
  <2>4. /\ front \in Seq(S) /\ Len(front) = k - 1
        /\ \A q \in 1 .. k - 1 : front[q] = list[q]
    BY <2>3
  <2>5. /\ back \in Seq(S) /\ Len(back) = Len(list) - k
        /\ \A q \in 1 .. Len(list) - k : back[q] = list[q + k]
    BY <2>3
  <2> HIDE DEF front, back
  <2>6. /\ front \o back \in Seq(S)
        /\ Len(front \o back) = Len(list) - 1
        /\ \A q \in 1 .. Len(list) - 1 :
             (front \o back)[q] = IF q <= k - 1 THEN front[q] ELSE back[q - (k - 1)]
    <3>1. Len(front) + Len(back) = Len(list) - 1 BY <2>3, <2>4, <2>5
    <3>2. /\ front \o back \in Seq(S)
          /\ Len(front \o back) = Len(front) + Len(back)
          /\ \A i \in 1 .. Len(front) + Len(back) : (front \o back)[i] =
                IF i <= Len(front) THEN front[i] ELSE back[i - Len(front)]
      BY <2>4, <2>5, ConcatProperties
    <3> QED BY <2>4, <3>1, <3>2
  <2>7. ASSUME NEW q \in 1 .. Len(list) - 1
        PROVE  (front \o back)[q] = list[q] \/ (q + 1 <= Len(list) /\ (front \o back)[q] = list[q + 1])
    <3>1. CASE q <= k - 1 BY <2>3, <2>4, <2>6, <3>1
    <3>2. CASE ~(q <= k - 1)
      <4>1. q - (k - 1) \in 1 .. Len(list) - k /\ (q - (k - 1)) + k = q + 1
        BY <2>3, <3>2
      <4>2. (front \o back)[q] = back[q - (k - 1)] BY <2>6, <3>2
      <4>3. back[q - (k - 1)] = list[q + 1] BY <2>5, <4>1
      <4> QED BY <4>2, <4>3
    <3> QED BY <3>1, <3>2
  <2> DEFINE whole == front \o back
  <2>8. whole \in Seq(S) /\ Len(whole) = Len(list) - 1 BY <2>6
  <2>9. \A q \in 1 .. Len(list) - 1 : whole[q] = list[q] \/ (q + 1 <= Len(list) /\ whole[q] = list[q + 1])
    BY <2>7
  <2>10. RemoveFirst(list, issue) = whole BY <2>2
  <2> HIDE DEF whole
  <2> QED BY <2>8, <2>9, <2>10
<1> QED BY <1>1, <1>2

\* The issue that was changed comes first, and no other one comes earlier than
\* it was.
LEMMA MovedFirstList ==
  ASSUME NEW issue \in Tracked, NEW list \in Seq(Tracked)
  PROVE  /\ MovedFirst(issue, list) \in Seq(Tracked)
         /\ \A p \in DOMAIN MovedFirst(issue, list) :
              \/ MovedFirst(issue, list)[p] = issue
              \/ \E q \in DOMAIN list : q <= p /\ MovedFirst(issue, list)[p] = list[q]
<1> DEFINE rest == RemoveFirst(list, issue)
<1>1. /\ rest \in Seq(Tracked)
      /\ Len(rest) <= Len(list)
      /\ \A q \in 1 .. Len(rest) : rest[q] = list[q] \/ (q + 1 <= Len(list) /\ rest[q] = list[q + 1])
  BY RemovedFirst
<1> HIDE DEF rest
<1>2. MovedFirst(issue, list) = <<issue>> \o rest BY DEF MovedFirst, rest
<1>3. /\ <<issue>> \o rest \in Seq(Tracked)
      /\ Len(<<issue>> \o rest) = 1 + Len(rest)
      /\ (<<issue>> \o rest)[1] = issue
      /\ \A p \in 2 .. 1 + Len(rest) : (<<issue>> \o rest)[p] = rest[p - 1]
  BY <1>1
<1>4. ASSUME NEW p \in 2 .. 1 + Len(rest)
      PROVE  \E q \in DOMAIN list : q <= p /\ rest[p - 1] = list[q]
  <2>1. p - 1 \in 1 .. Len(rest) /\ (p - 1) + 1 = p BY <1>1
  <2>2. CASE rest[p - 1] = list[p - 1]
    <3>1. p - 1 \in DOMAIN list /\ p - 1 <= p BY <1>1, <2>1
    <3> QED BY <2>2, <3>1
  <2>3. CASE p <= Len(list) /\ rest[p - 1] = list[p]
    <3>1. p \in DOMAIN list /\ p <= p BY <2>3
    <3> QED BY <2>3, <3>1
  <2> QED BY <1>1, <2>1, <2>2, <2>3
<1>5. DOMAIN (<<issue>> \o rest) = 1 .. 1 + Len(rest) BY <1>3
<1>6. ASSUME NEW p \in 1 .. 1 + Len(rest)
      PROVE  \/ (<<issue>> \o rest)[p] = issue
             \/ \E q \in DOMAIN list : q <= p /\ (<<issue>> \o rest)[p] = list[q]
  <2>1. CASE p = 1 BY <1>3, <2>1
  <2>2. CASE p # 1
    <3>1. p \in 2 .. 1 + Len(rest) BY <1>1, <2>2
    <3> QED BY <1>3, <1>4, <3>1
  <2> QED BY <2>1, <2>2
<1> QED BY <1>2, <1>3, <1>5, <1>6
-----------------------------------------------------------------------------
(* Every step keeps what the turn rests on. *)

\* A step of the collection need only keep what the sources hold.
LEMMA CollectionKeeps ==
  ASSUME InvestigationInv, pc \in {"idle", "collect"}, pc' = "collect", result' = result,
         SourcesTyped', ScanTyped', ReadUnderGrant'
  PROVE  InvestigationInv'
<1>1. result' = NoResult BY DEF InvestigationInv, ResultComesLast
<1>2. NoResult.origin = "none" BY DEF NoResult
<1>3. ConfirmedByBothSources' /\ NothingIsSaidOnlyWhenNobodyAnswered'
  BY <1>1, <1>2 DEF ConfirmedByBothSources, NothingIsSaidOnlyWhenNobodyAnswered
<1>4. WorkerJoined' /\ ResultComesLast' BY <1>1 DEF WorkerJoined, ResultComesLast
<1> QED BY <1>3, <1>4 DEF InvestigationInv

\* A branch that leaves keeps its grant or none, and no detail.
LEMMA LeftKeeps ==
  ASSUME NEW status \in {"no_hit", "timeout", "failed"}, Left(status), pc' # "idle"
  PROVE  /\ redmine' \in [status : SourceStatuses, details : Seq(Issues), leads : Seq(Grounds)]
         /\ ReadUnderGrant'
<1>1. \E s \in {"no_hit", "timeout", "failed"} :
        redmine' = [status |-> s, details |-> <<>>, leads |-> <<>>]
  BY DEF Left, NoRedmine
<1>2. <<>> \in Seq(Issues) /\ <<>> \in Seq(Grounds) OBVIOUS
<1>3. branch' = "done" BY DEF Left
<1> QED BY <1>1, <1>2, <1>3 DEF ReadUnderGrant, SourceStatuses

LEMMA InitKeeps == Init => InvestigationInv
<1> SUFFICES ASSUME Init PROVE InvestigationInv OBVIOUS
<1>1. SourcesTyped
  <2>1. <<>> \in Seq(Issues) /\ <<>> \in Seq(Grounds) OBVIOUS
  <2> QED BY <2>1 DEF Init, SourcesTyped, NoGrant, NoRedmine, SourceStatuses
<1>2. ScanTyped
  <2>1. PICK listed \in SUBSET Tracked : tracker \in SetToSeqs(listed) BY DEF Init, ScanInit
  <2>2. IsFiniteSet(listed) BY ScanAssumption, FS_Subset
  <2>3. Cardinality(listed) \in Nat BY <2>2, FS_CardinalityType
  <2>4. tracker \in [1 .. Cardinality(listed) -> listed] BY <2>1 DEF SetToSeqs
  <2>5. tracker \in Seq(Tracked) BY <2>3, <2>4
  <2>6. <<>> \in Seq(Tracked) OBVIOUS
  <2> QED BY <2>5, <2>6 DEF Init, ScanInit, ScanTyped, NoSearch, SearchStages
<1>3. ReadUnderGrant /\ WorkerJoined /\ ResultComesLast
  BY DEF Init, ReadUnderGrant, WorkerJoined, ResultComesLast, NoRedmine
<1>4. ConfirmedByBothSources /\ NothingIsSaidOnlyWhenNobodyAnswered
  BY DEF Init, ConfirmedByBothSources, NothingIsSaidOnlyWhenNobodyAnswered, NoResult
<1> QED BY <1>1, <1>2, <1>3, <1>4 DEF InvestigationInv

LEMMA StartKeeps ==
  ASSUME InvestigationInv, NEW e, Start(e), UNCHANGED scanVars
  PROVE  InvestigationInv'
<1>1. ReadUnderGrant' /\ SourcesTyped' /\ ScanTyped'
  <2>1. redmine' = redmine /\ grant' = grant /\ branch' = "plan" BY DEF Start
  <2>2. redmine.status # "completed"
    BY DEF Start, InvestigationInv, ReadUnderGrant
  <2> QED BY DEF Start, InvestigationInv, SourcesTyped, ScanTyped, ReadUnderGrant, scanVars
<1> QED BY <1>1, CollectionKeeps DEF Start

LEMMA CollectKeeps ==
  ASSUME InvestigationInv, NEW k, Collect(k), UNCHANGED scanVars
  PROVE  InvestigationInv'
<1>1. ReadUnderGrant' /\ SourcesTyped' /\ ScanTyped'
  BY DEF Collect, InvestigationInv, SourcesTyped, ScanTyped, ReadUnderGrant, scanVars
<1> QED BY <1>1, CollectionKeeps DEF Collect

LEMMA PlanKeeps ==
  ASSUME InvestigationInv, NEW permitted \in BOOLEAN, Plan(permitted), UNCHANGED scanVars
  PROVE  InvestigationInv'
<1>1. ScanTyped' BY DEF InvestigationInv, ScanTyped, scanVars
<1>2. SourcesTyped' /\ ReadUnderGrant'
  <2>1. CASE aborted \/ ~permitted
    BY <2>1, LeftKeeps DEF Plan, Fixed, InvestigationInv, SourcesTyped
  <2>2. CASE ~(aborted \/ ~permitted)
    BY <2>2 DEF Plan, Fixed, InvestigationInv, SourcesTyped, ReadUnderGrant
  <2> QED BY <2>1, <2>2
<1> QED BY <1>1, <1>2, CollectionKeeps DEF Plan, Fixed

LEMMA SearchKeeps ==
  ASSUME InvestigationInv, NEW matching \in SUBSET Issues, NEW seen \in Outcome, Search(matching, seen)
  PROVE  InvestigationInv'
<1> DEFINE served == SearchStatus(matching)
           candidates == IF served = "ok" THEN ToSet(found.issues) \cap matching ELSE {}
           status == IF seen = "ok" THEN served ELSE seen
<1>1. status \in Outcome
  <2>1. CASE seen = "ok"
    <3>1. found.stage \notin {"idle", "reading"} BY <2>1 DEF Search
    <3>2. found.stage \in SearchStages BY DEF InvestigationInv, ScanTyped
    <3> QED BY <2>1, <3>1, <3>2, StatusOfSearch
  <2>2. CASE seen # "ok" BY <2>2
  <2> QED BY <2>1, <2>2
<1>2. candidates \subseteq Issues OBVIOUS
<1>3. /\ pc = "collect" /\ branch = "search" /\ Fixed
      /\ grant' = IF candidates = {} THEN NoGrant ELSE [ids |-> candidates, left |-> TTL, used |-> FALSE]
      /\ CASE status # "ok" -> Left(status)
           [] status = "ok" /\ candidates = {} -> Left("no_hit")
           [] OTHER -> branch' = "select" /\ UNCHANGED redmine
      /\ found' = NoSearch /\ touched' = <<>> /\ UNCHANGED <<backend, tracker>>
  BY Zenon DEF Search
<1> HIDE DEF served, candidates, status
<1>4. grant' \in [ids : SUBSET Issues, left : Nat, used : BOOLEAN]
  BY <1>2, <1>3, TTLAssumption DEF NoGrant
<1>5. /\ redmine' \in [status : SourceStatuses, details : Seq(Issues), leads : Seq(Grounds)]
      /\ ReadUnderGrant'
  <2>1. CASE status # "ok"
    <3>1. Left(status) BY <1>3, <2>1, Zenon
    <3>2. status \in {"no_hit", "timeout", "failed"} BY <1>1, <2>1 DEF Outcome
    <3> QED BY <1>3, <3>1, <3>2, LeftKeeps DEF Fixed
  <2>2. CASE status = "ok" /\ candidates = {}
    <3>1. ~(status # "ok") BY <2>2
    <3>2. Left("no_hit") BY <1>3, <2>2, <3>1, Zenon
    <3> QED BY <1>3, <3>2, LeftKeeps DEF Fixed
  <2>3. CASE status = "ok" /\ candidates # {}
    <3>1. ~(status # "ok") /\ ~(status = "ok" /\ candidates = {}) BY <2>3
    <3>2. branch' = "select" /\ UNCHANGED redmine BY <1>3, <3>1, Zenon
    <3>3. redmine.status # "completed" BY <1>3 DEF InvestigationInv, ReadUnderGrant
    <3> QED BY <1>3, <3>2, <3>3 DEF InvestigationInv, SourcesTyped, ReadUnderGrant, Fixed
  <2> QED BY <2>1, <2>2, <2>3
<1>6. ScanTyped'
  <2>1. <<>> \in Seq(Tracked) OBVIOUS
  <2> QED BY <1>3, <2>1 DEF InvestigationInv, ScanTyped, NoSearch, SearchStages
<1> QED BY <1>3, <1>4, <1>5, <1>6, CollectionKeeps DEF Fixed, SourcesTyped

LEMMA TickKeeps ==
  ASSUME InvestigationInv, Tick, UNCHANGED scanVars
  PROVE  InvestigationInv'
<1>1. ScanTyped' BY DEF InvestigationInv, ScanTyped, scanVars
<1>2. grant' \in [ids : SUBSET Issues, left : Nat, used : BOOLEAN]
  BY DEF Tick, InvestigationInv, SourcesTyped
<1>3. SourcesTyped' BY <1>2 DEF Tick, InvestigationInv, SourcesTyped
<1>4. ReadUnderGrant' BY DEF Tick, InvestigationInv, ReadUnderGrant
<1> QED BY <1>1, <1>3, <1>4, CollectionKeeps DEF Tick

LEMMA SelectKeeps ==
  ASSUME InvestigationInv, NEW named, NEW relevant \in SUBSET grant.ids, Select(named, relevant),
         UNCHANGED scanVars
  PROVE  InvestigationInv'
<1> DEFINE ids == Selected(named, relevant)
<1>1. ids \subseteq Issues BY DEF Selected, InvestigationInv, SourcesTyped
<1>2. /\ pc = "collect" /\ branch = "select" /\ Fixed
      /\ IF aborted \/ ids = {} THEN Left("no_hit") /\ UNCHANGED grant
         ELSE branch' = "detail" /\ redmine' = [redmine EXCEPT !.details = SetToSeq(ids)] /\ UNCHANGED grant
  BY Zenon DEF Select
<1> HIDE DEF ids
<1>3. ScanTyped' BY DEF InvestigationInv, ScanTyped, scanVars
<1>4. SourcesTyped' /\ ReadUnderGrant'
  <2>1. CASE aborted \/ ids = {}
    BY <1>2, <2>1, LeftKeeps DEF InvestigationInv, SourcesTyped, Fixed
  <2>2. CASE ~(aborted \/ ids = {})
    <3>1. SetToSeq(ids) \in Seq(Issues) BY <1>1, TTLAssumption, Enumerated
    <3>2. redmine' = [redmine EXCEPT !.details = SetToSeq(ids)] /\ branch' = "detail" /\ grant' = grant
      BY <1>2, <2>2
    <3>3. redmine.status # "completed" BY <1>2 DEF InvestigationInv, ReadUnderGrant
    <3>4. /\ redmine' \in [status : SourceStatuses, details : Seq(Issues), leads : Seq(Grounds)]
          /\ redmine'.status = redmine.status
      BY <3>1, <3>2 DEF InvestigationInv, SourcesTyped
    <3> QED BY <1>2, <3>2, <3>3, <3>4 DEF InvestigationInv, SourcesTyped, ReadUnderGrant, Fixed
  <2> QED BY <2>1, <2>2
<1> QED BY <1>2, <1>3, <1>4, CollectionKeeps DEF Fixed

LEMMA DetailKeeps ==
  ASSUME InvestigationInv, NEW codes \in [Issues -> Outcome], Detail(codes), UNCHANGED scanVars
  PROVE  InvestigationInv'
<1> DEFINE ids == ToSet(redmine.details)
           failing == {i \in DOMAIN redmine.details : codes[redmine.details[i]] # "ok"}
           code == codes[redmine.details[Min(failing)]]
<1>1. /\ pc = "collect" /\ branch = "detail" /\ Fixed
      /\ IF ~Granted(ids) THEN Left("failed") /\ UNCHANGED grant
         ELSE /\ grant' = [grant EXCEPT !.used = TRUE]
              /\ CASE aborted -> Left("failed")
                   [] ~aborted /\ failing # {} -> Left(code)
                   [] OTHER -> branch' = "analyze" /\ UNCHANGED redmine
  BY Zenon DEF Detail
<1>2. failing # {} => code \in {"timeout", "failed"}
  <2> SUFFICES ASSUME failing # {} PROVE code \in {"timeout", "failed"} OBVIOUS
  <2>1. redmine.details \in Seq(Issues) BY DEF InvestigationInv, SourcesTyped
  <2>2. failing \subseteq Nat BY <2>1
  <2>3. Min(failing) \in failing BY <2>2, MinOf
  <2>4. Min(failing) \in DOMAIN redmine.details /\ code # "ok" BY <2>3
  <2>5. redmine.details[Min(failing)] \in Issues
    <3>1. \A i \in DOMAIN redmine.details : redmine.details[i] \in Issues BY <2>1
    <3> QED BY <2>4, <3>1, Zenon
  <2> QED BY <2>4, <2>5 DEF Outcome
<1> HIDE DEF ids, failing, code
<1>3. ScanTyped' BY DEF InvestigationInv, ScanTyped, scanVars
<1>4. redmine.status # "completed" BY <1>1 DEF InvestigationInv, ReadUnderGrant
<1>5. CASE ~Granted(ids)
  <2>1. Left("failed") /\ grant' = grant BY <1>1, <1>5
  <2>2. SourcesTyped' /\ ReadUnderGrant' BY <1>1, <2>1, LeftKeeps DEF Fixed, InvestigationInv, SourcesTyped
  <2> QED BY <1>1, <1>3, <2>2, CollectionKeeps DEF Fixed
<1>6. CASE Granted(ids)
  <2>1. grant' = [grant EXCEPT !.used = TRUE] BY <1>1, <1>6
  <2>2. /\ grant' \in [ids : SUBSET Issues, left : Nat, used : BOOLEAN]
        /\ grant'.used /\ grant'.left = grant.left
    BY <2>1 DEF InvestigationInv, SourcesTyped
  <2>3. grant.left > 0 BY <1>6 DEF Granted
  <2>4. CASE aborted
    <3>1. Left("failed") BY <1>1, <1>6, <2>4, Zenon
    <3>2. SourcesTyped' /\ ReadUnderGrant' BY <1>1, <2>2, <3>1, LeftKeeps DEF Fixed, SourcesTyped
    <3> QED BY <1>1, <1>3, <3>2, CollectionKeeps DEF Fixed
  <2>5. CASE ~aborted /\ failing # {}
    <3>1. Left(code) BY <1>1, <1>6, <2>5, Zenon
    <3>2. SourcesTyped' /\ ReadUnderGrant' BY <1>1, <1>2, <2>2, <2>5, <3>1, LeftKeeps DEF Fixed, SourcesTyped
    <3> QED BY <1>1, <1>3, <3>2, CollectionKeeps DEF Fixed
  <2>6. CASE ~aborted /\ failing = {}
    <3>1. ~(~aborted /\ failing # {}) BY <2>6
    <3>2. branch' = "analyze" /\ UNCHANGED redmine BY <1>1, <1>6, <2>6, <3>1, Zenon
    <3>3. SourcesTyped' BY <2>2, <3>2 DEF InvestigationInv, SourcesTyped
    <3>4. ReadUnderGrant' BY <1>1, <1>4, <2>2, <2>3, <3>2 DEF ReadUnderGrant, Fixed
    <3> QED BY <1>1, <1>3, <3>3, <3>4, CollectionKeeps DEF Fixed
  <2> QED BY <2>4, <2>5, <2>6
<1> QED BY <1>5, <1>6

LEMMA AnalyzeKeeps ==
  ASSUME InvestigationInv, NEW leads \in LeadSeqs, Analyze(leads), UNCHANGED scanVars
  PROVE  InvestigationInv'
<1>1. ScanTyped' BY DEF InvestigationInv, ScanTyped, scanVars
<1>2. pc = "collect" /\ branch = "analyze" /\ Fixed /\ grant' = grant /\ branch' = "done"
  BY DEF Analyze
<1>3. grant.used /\ grant.left > 0 BY <1>2 DEF InvestigationInv, ReadUnderGrant
<1>4. redmine' \in [status : SourceStatuses, details : Seq(Issues), leads : Seq(Grounds)]
  <2>1. <<>> \in Seq(Issues) /\ <<>> \in Seq(Grounds) /\ leads \in Seq(Grounds) BY ListsAreLists
  <2>2. CASE aborted
    BY <2>1, <2>2 DEF Analyze, NoRedmine, SourceStatuses
  <2>3. CASE ~aborted
    <3> DEFINE kept == IF \A i \in DOMAIN leads : Supports(leads[i]) THEN leads ELSE <<>>
    <3>1. kept \in Seq(Grounds) BY <2>1
    <3>2. redmine' = [redmine EXCEPT !.status = "completed", !.leads = kept] BY <2>3, Zenon DEF Analyze
    <3> HIDE DEF kept
    <3> QED BY <3>1, <3>2 DEF InvestigationInv, SourcesTyped, SourceStatuses
  <2> QED BY <2>2, <2>3
<1>5. SourcesTyped' BY <1>2, <1>4 DEF InvestigationInv, SourcesTyped
<1>6. ReadUnderGrant' BY <1>2, <1>3 DEF ReadUnderGrant, Fixed
<1> QED BY <1>1, <1>2, <1>5, <1>6, CollectionKeeps DEF Fixed

\* Once the sources have settled nothing but the turn itself goes on.
LEMMA StandKeeps ==
  ASSUME InvestigationInv, UNCHANGED sources, UNCHANGED scanVars, pc' # "idle"
  PROVE  SourcesTyped' /\ ScanTyped' /\ ReadUnderGrant'
BY DEF InvestigationInv, SourcesTyped, ScanTyped, ReadUnderGrant, sources, scanVars

LEMMA CancelKeeps ==
  ASSUME InvestigationInv, NEW r, Cancel(r), UNCHANGED scanVars
  PROVE  InvestigationInv'
<1>1. UNCHANGED sources /\ pc' = "settled" /\ result' = NoResult BY DEF Cancel
<1>2. SourcesTyped' /\ ScanTyped' /\ ReadUnderGrant' BY <1>1, StandKeeps
<1>3. WorkerJoined' /\ ResultComesLast' BY <1>1 DEF WorkerJoined, ResultComesLast
<1>4. ConfirmedByBothSources' /\ NothingIsSaidOnlyWhenNobodyAnswered'
  BY <1>1 DEF ConfirmedByBothSources, NothingIsSaidOnlyWhenNobodyAnswered, NoResult
<1> QED BY <1>2, <1>3, <1>4 DEF InvestigationInv

\* A result that stays, while the Worker and the verdicts do, says the same.
LEMMA ResultStays ==
  ASSUME InvestigationInv, UNCHANGED <<worker, verdicts, result>>, UNCHANGED sources
  PROVE  ConfirmedByBothSources' /\ NothingIsSaidOnlyWhenNobodyAnswered'
BY DEF InvestigationInv, ConfirmedByBothSources, NothingIsSaidOnlyWhenNobodyAnswered, sources

\* No result, nothing concluded.
LEMMA NoResultYet ==
  ASSUME result' = NoResult
  PROVE  ConfirmedByBothSources' /\ NothingIsSaidOnlyWhenNobodyAnswered'
BY DEF ConfirmedByBothSources, NothingIsSaidOnlyWhenNobodyAnswered, NoResult

LEMMA JoinKeeps ==
  ASSUME InvestigationInv, Join, UNCHANGED scanVars
  PROVE  InvestigationInv'
<1>1. CASE aborted BY <1>1, CancelKeeps DEF Join
<1>2. CASE ~aborted
  <2>1. /\ pc = "collect" /\ result' = result /\ UNCHANGED sources
        /\ pc' = IF WorkerAsked(redmine.leads) THEN "worker" ELSE "verify"
        /\ worker' = NoWorker(IF WorkerAsked(redmine.leads) THEN "asked" ELSE "skipped")
    BY <1>2 DEF Join
  <2>2. result' = NoResult BY <2>1 DEF InvestigationInv, ResultComesLast
  <2>3. WorkerJoined'
    <3>1. CASE WorkerAsked(redmine.leads) BY <2>1, <3>1 DEF WorkerJoined
    <3>2. CASE ~WorkerAsked(redmine.leads)
      <4>1. knowledge.answers \/ experience = "match" BY <3>2 DEF WorkerAsked
      <4>2. worker'.status = "skipped" BY <2>1, <3>2 DEF NoWorker
      <4> QED BY <2>1, <4>1, <4>2 DEF WorkerJoined, sources
    <3> QED BY <3>1, <3>2
  <2>4. SourcesTyped' /\ ScanTyped' /\ ReadUnderGrant' BY <2>1, StandKeeps
  <2> QED BY <2>2, <2>3, <2>4, NoResultYet DEF InvestigationInv, ResultComesLast
<1> QED BY <1>1, <1>2

LEMMA WorkKeeps ==
  ASSUME InvestigationInv, NEW response, Work(response), UNCHANGED scanVars
  PROVE  InvestigationInv'
<1>1. CASE aborted BY <1>1, CancelKeeps DEF Work
<1>2. CASE ~aborted
  <2>1. /\ pc = "worker" /\ pc' = "verify" /\ result' = result /\ UNCHANGED sources
        /\ worker' = IF response = Thrown THEN NoWorker("failed") ELSE [status |-> "completed", reply |-> response]
    BY <1>2 DEF Work
  <2>2. result' = NoResult BY <2>1 DEF InvestigationInv, ResultComesLast
  <2>3. WorkerJoined' BY <2>1 DEF WorkerJoined, NoWorker
  <2>4. SourcesTyped' /\ ScanTyped' /\ ReadUnderGrant' BY <2>1, StandKeeps
  <2> QED BY <2>2, <2>3, <2>4, NoResultYet DEF InvestigationInv, ResultComesLast
<1> QED BY <1>1, <1>2

LEMMA VerifyKeeps ==
  ASSUME InvestigationInv, NEW vs \in Verdicts, Verify(vs), UNCHANGED scanVars
  PROVE  InvestigationInv'
<1>1. CASE aborted BY <1>1, CancelKeeps DEF Verify
<1>2. CASE ~aborted
  <2> DEFINE leads == redmine.leads
             vv == Verified(redmine.leads, vs)
             res == Result(leads, vv)
  <2>1. /\ pc = "verify" /\ pc' = "coverage" /\ worker' = worker /\ UNCHANGED sources
        /\ verdicts' = vv /\ result' = res
    BY <1>2, Zenon DEF Verify
  <2>2. SourcesTyped' /\ ScanTyped' /\ ReadUnderGrant' BY <2>1, StandKeeps
  <2>3. leads \in Seq(Grounds) BY DEF InvestigationInv, SourcesTyped
  <2>4. DOMAIN vv = DOMAIN leads /\ DOMAIN leads \subseteq Nat
    <3>1. vs \in Seq(Judgements) BY ListsAreLists
    <3> QED BY <2>3, <3>1, VerifiedLike
  <2> HIDE DEF leads, vv
  <2>5. ConfirmedByBothSources'
    <3> SUFFICES ASSUME res.origin = "history", res.status = "concluded"
                 PROVE  /\ redmine.status = "completed" /\ grant.used /\ grant.left > 0
                        /\ worker.status = "completed" /\ ~knowledge.conflicts
                        /\ \E h \in res.evidence : h.source = "redmine"
                        /\ \E w \in res.evidence :
                             /\ w.source = "worker" /\ w.kind \in {"workspace", "log"}
                             /\ \E place \in WorkerItems(worker) : place.id = w.id /\ place.vouched
                        /\ \A i \in DOMAIN vv : vv[i].class = "same" => vv[i].conflicting = {}
      <4> HIDE DEF res
      <4> QED BY <2>1 DEF ConfirmedByBothSources, sources
    <3>1. /\ redmine.status = "completed" /\ worker.status = "completed" /\ ~knowledge.conflicts
          /\ \E h \in res.evidence : h.source = "redmine"
          /\ \E w \in res.evidence :
               /\ w.source = "worker" /\ w.kind \in {"workspace", "log"}
               /\ \E place \in WorkerItems(worker) : place.id = w.id /\ place.vouched
          /\ \A i \in DOMAIN leads : vv[i].class = "same" => vv[i].conflicting = {}
      BY <2>4, ConcludedIsProven, Zenon
    <3>2. grant.used /\ grant.left > 0 BY <3>1 DEF InvestigationInv, ReadUnderGrant
    <3> HIDE DEF res
    <3> QED BY <2>4, <3>1, <3>2
  <2>6. NothingIsSaidOnlyWhenNobodyAnswered'
    <3>1. res.origin = "unknown" =>
            ~knowledge.answers /\ experience # "match" /\ worker.status # "completed"
      BY UnknownIsLast
    <3> HIDE DEF res
    <3>2. WorkerJoined BY DEF InvestigationInv
    <3> QED BY <2>1, <3>1, <3>2 DEF NothingIsSaidOnlyWhenNobodyAnswered, WorkerJoined, sources
  <2>7. WorkerJoined' /\ ResultComesLast' BY <2>1 DEF WorkerJoined, ResultComesLast
  <2> QED BY <2>2, <2>5, <2>6, <2>7 DEF InvestigationInv
<1> QED BY <1>1, <1>2

LEMMA CoveredKeeps ==
  ASSUME InvestigationInv, Covered, UNCHANGED scanVars
  PROVE  InvestigationInv'
<1>1. CASE aborted BY <1>1, CancelKeeps DEF Covered
<1>2. CASE ~aborted
  <2>1. pc' = "review" /\ UNCHANGED <<worker, verdicts, result>> /\ UNCHANGED sources
    BY <1>2 DEF Covered
  <2>2. SourcesTyped' /\ ScanTyped' /\ ReadUnderGrant' BY <2>1, StandKeeps
  <2>3. ConfirmedByBothSources' /\ NothingIsSaidOnlyWhenNobodyAnswered' BY <2>1, ResultStays
  <2> QED BY <2>1, <2>2, <2>3 DEF InvestigationInv, WorkerJoined, ResultComesLast
<1> QED BY <1>1, <1>2

LEMMA ReviewKeeps ==
  ASSUME InvestigationInv, NEW review, Review(review), UNCHANGED scanVars
  PROVE  InvestigationInv'
<1> DEFINE reviewedRun == [status |-> RunStatus(review.decision), checked |-> TRUE]
<1>1. CASE aborted /\ ~review.reviewed
  <2>1. Cancel(reviewedRun) BY <1>1 DEF Review
  <2> HIDE DEF reviewedRun
  <2> QED BY <2>1, CancelKeeps
<1>2. CASE ~(aborted /\ ~review.reviewed)
  <2>1. pc' = "settled" /\ UNCHANGED <<worker, verdicts, result>> /\ UNCHANGED sources
    BY <1>2 DEF Review
  <2>2. SourcesTyped' /\ ScanTyped' /\ ReadUnderGrant' BY <2>1, StandKeeps
  <2>3. ConfirmedByBothSources' /\ NothingIsSaidOnlyWhenNobodyAnswered' BY <2>1, ResultStays
  <2> QED BY <2>1, <2>2, <2>3 DEF InvestigationInv, WorkerJoined, ResultComesLast
<1> QED BY <1>1, <1>2

\* A stop, or no step at all.
LEMMA StillKeeps ==
  ASSUME InvestigationInv, UNCHANGED <<pc, worker, verdicts, result>>, UNCHANGED sources, UNCHANGED scanVars
  PROVE  InvestigationInv'
<1>1. SourcesTyped' /\ ScanTyped' /\ ReadUnderGrant'
  BY DEF InvestigationInv, SourcesTyped, ScanTyped, ReadUnderGrant, sources, scanVars
<1>2. ConfirmedByBothSources' /\ NothingIsSaidOnlyWhenNobodyAnswered' BY ResultStays
<1>3. WorkerJoined' /\ ResultComesLast' BY DEF InvestigationInv, WorkerJoined, ResultComesLast, sources
<1> QED BY <1>1, <1>2, <1>3 DEF InvestigationInv

\* The issues as they are changed, and a page as it is read, are lists of issues.
LEMMA ScanKeepsType ==
  ASSUME ScanTyped, ScanNext
  PROVE  ScanTyped'
<1> USE DEF ScanTyped
<1>0. \A stage : [NoSearch EXCEPT !.stage = stage] = [stage |-> stage, page |-> 0, issues |-> <<>>]
  BY DEF NoSearch
<1> DEFINE Stopped(stage) == [stage |-> stage, page |-> 0, issues |-> <<>>]
<1>a. \A stage \in SearchStages : Stopped(stage) \in [stage : SearchStages, page : Nat, issues : Seq(Tracked)]
  <2>1. <<>> \in Seq(Tracked) OBVIOUS
  <2> QED BY <2>1
<1>1. CASE BeginSearch BY <1>0, <1>a, <1>1 DEF BeginSearch, SearchStages
<1>2. ASSUME NEW issue \in Tracked, Touch(issue) PROVE ScanTyped'
  <2>1. MovedFirst(issue, tracker) \in Seq(Tracked) BY MovedFirstList
  <2>2. Append(touched, issue) \in Seq(Tracked) OBVIOUS
  <2> QED BY <1>2, <2>1, <2>2 DEF Touch
<1>3. ASSUME NEW issue \in Tracked, Leave(issue) PROVE ScanTyped'
  <2>1. RemoveFirst(tracker, issue) \in Seq(Tracked) BY RemovedFirst
  <2>2. Append(touched, issue) \in Seq(Tracked) OBVIOUS
  <2> QED BY <1>3, <2>1, <2>2 DEF Leave
<1>4. ASSUME NEW outcome \in RequestOutcomes, ReadPage(outcome) PROVE ScanTyped'
  <2> DEFINE offset == found.page * PageSize
             bound == IF offset + PageSize < Len(tracker) THEN offset + PageSize ELSE Len(tracker)
             page == SubSeq(Listing(tracker), offset + 1, bound)
             last == Len(page) < PageSize \/ offset + Len(page) >= Len(tracker) \/ found.page + 1 = MaxPages
  <2>1. /\ found' = IF outcome # "ok" THEN [NoSearch EXCEPT !.stage = outcome]
                    ELSE [stage |-> IF last THEN "found" ELSE "reading", page |-> found.page + 1,
                          issues |-> found.issues \o page]
        /\ UNCHANGED <<backend, tracker, touched>>
    BY <1>4, Zenon DEF ReadPage
  <2>2. page \in Seq(Tracked)
    <3>1. offset \in Nat /\ bound \in Int /\ bound <= Len(tracker) BY ScanAssumption
    <3> HIDE DEF offset, bound
    <3> QED BY <3>1, SubSeqProperties DEF Listing
  <2>3. outcome \in Outcome BY RequestOutcome
  <2> HIDE DEF page, last
  <2>4. found.issues \o page \in Seq(Tracked) BY <2>2
  <2>5. CASE outcome # "ok"
    <3>1. outcome \in SearchStages /\ found' = Stopped(outcome)
      BY <1>0, <2>1, <2>3, <2>5 DEF Outcome, SearchStages
    <3> QED BY <1>a, <2>1, <3>1
  <2>6. CASE outcome = "ok" BY <2>1, <2>4, <2>6 DEF SearchStages
  <2> QED BY <2>5, <2>6
<1>5. ASSUME NEW named \in SUBSET Tracked, NEW outcome \in RequestOutcomes, ReadNamed(named, outcome)
      PROVE  ScanTyped'
  <2>1. outcome \in Outcome BY RequestOutcome
  <2>2. Readable(named) \in Seq(Tracked)
    <3>1. ToSet(tracker) \cap named \in SUBSET Tracked OBVIOUS
    <3> QED BY <3>1, ScanAssumption, Enumerated DEF Readable
  <2>3. CASE outcome = "ok"
    <3>1. found' = [NoSearch EXCEPT !.stage = "found", !.issues = Readable(named)]
      BY <1>5, <2>3 DEF ReadNamed
    <3>2. found' = [stage |-> "found", page |-> 0, issues |-> Readable(named)]
      BY <3>1 DEF NoSearch
    <3>3. UNCHANGED <<tracker, touched>> BY <1>5 DEF ReadNamed
    <3> QED BY <2>2, <3>2, <3>3 DEF SearchStages
  <2>4. CASE outcome # "ok"
    <3>1. outcome \in SearchStages /\ found' = Stopped(outcome)
      BY <1>0, <1>5, <2>1, <2>4 DEF ReadNamed, Outcome, SearchStages
    <3> QED BY <1>5, <1>a, <3>1 DEF ReadNamed
  <2> QED BY <2>3, <2>4
<1> QED BY <1>1, <1>2, <1>3, <1>4, <1>5 DEF ScanNext

LEMMA ScanStepKeeps ==
  ASSUME InvestigationInv, Scan
  PROVE  InvestigationInv'
<1>1. ScanTyped' BY ScanKeepsType DEF Scan, InvestigationInv
<1>2. SourcesTyped' /\ ReadUnderGrant'
  BY DEF Scan, InvestigationInv, SourcesTyped, ReadUnderGrant, sources
<1> QED BY <1>1, <1>2, CollectionKeeps DEF Scan

THEOREM InvestigationInductive == Spec => []InvestigationInv
<1>1. Init => InvestigationInv BY InitKeeps
<1>2. InvestigationInv /\ [Next]_vars => InvestigationInv'
  <2> SUFFICES ASSUME InvestigationInv, [Next]_vars PROVE InvestigationInv' OBVIOUS
  <2>1. CASE Turn /\ UNCHANGED scanVars
    <3> UNCHANGED scanVars BY <2>1
    <3>1. CASE \E e \in {"match", "no_hit", "failed"} : Start(e) BY <3>1, StartKeeps
    <3>2. CASE \E k \in Knowledge : Collect(k) BY <3>2, CollectKeeps
    <3>3. CASE \E permitted \in BOOLEAN : Plan(permitted) BY <3>3, PlanKeeps
    <3>4. CASE Tick BY <3>4, TickKeeps
    <3>5. CASE \E named \in SUBSET (Issues \cup {0}), relevant \in SUBSET grant.ids : Select(named, relevant)
      BY <3>5, SelectKeeps
    <3>6. CASE \E codes \in [Issues -> {"ok", "timeout", "failed"}] : Detail(codes)
      BY <3>6, DetailKeeps DEF Outcome
    <3>7. CASE \E leads \in LeadSeqs : Analyze(leads) BY <3>7, AnalyzeKeeps
    <3>8. CASE Join BY <3>8, JoinKeeps
    <3>9. CASE \E response \in WorkerReplies \cup {Thrown} : Work(response) BY <3>9, WorkKeeps
    <3>10. CASE \E vs \in Verdicts : Verify(vs) BY <3>10, VerifyKeeps
    <3>11. CASE Covered BY <3>11, CoveredKeeps
    <3>12. CASE \E o \in (IF pc = "review" THEN Outcomes(Producer) ELSE {}) : Review(o)
      BY <3>12, ReviewKeeps
    <3>13. CASE Stop BY <3>13, StillKeeps DEF Stop
    <3> QED BY <2>1, <3>1, <3>2, <3>3, <3>4, <3>5, <3>6, <3>7, <3>8, <3>9, <3>10, <3>11, <3>12, <3>13
            DEF Turn
  <2>2. CASE \E matching \in SUBSET Issues, seen \in {"ok", "timeout", "failed"} : Search(matching, seen)
    BY <2>2, SearchKeeps DEF Outcome
  <2>3. CASE Scan BY <2>3, ScanStepKeeps
  <2>4. CASE UNCHANGED vars BY <2>4, StillKeeps DEF vars, sources
  <2> QED BY <2>1, <2>2, <2>3, <2>4 DEF Next
<1> QED BY <1>1, <1>2, PTL DEF Spec

\* The same root cause is concluded only on what this turn obtained from both
\* sides, undisputed (historical-case-gate.ts, result-builder.ts), whatever the
\* issues, the leads, the judgements of the models and the Worker's replies,
\* those that use one id for several items too.  Of the Worker's side it says
\* that a place was read under the id that is concluded on, not that the item
\* kept for the id is this place (TheProofItselfWasRead, which does not hold).
THEOREM BothSourcesConfirm == Spec => []ConfirmedByBothSources
<1>1. InvestigationInv => ConfirmedByBothSources BY DEF InvestigationInv
<1> QED BY <1>1, InvestigationInductive, PTL

\* A turn has nothing to say only when nobody it asked answered, and it asked
\* everybody (source-collector.ts, service.ts).
THEOREM SomebodySpeaks == Spec => []NothingIsSaidOnlyWhenNobodyAnswered
<1>1. InvestigationInv => NothingIsSaidOnlyWhenNobodyAnswered BY DEF InvestigationInv
<1> QED BY <1>1, InvestigationInductive, PTL
-----------------------------------------------------------------------------
(* The scan. *)

\* What is listed after another list is listed still.
LEMMA ListedStill ==
  ASSUME NEW S, NEW list \in Seq(S), NEW more \in Seq(S)
  PROVE  /\ ToSet(list) \subseteq ToSet(list \o more)
         /\ ToSet(more) \subseteq ToSet(list \o more)
<1>1. /\ list \o more \in Seq(S)
      /\ Len(list \o more) = Len(list) + Len(more)
      /\ \A i \in 1 .. Len(list) + Len(more) : (list \o more)[i] =
            IF i <= Len(list) THEN list[i] ELSE more[i - Len(list)]
  BY ConcatProperties
<1>2. ASSUME NEW i \in DOMAIN list PROVE list[i] \in ToSet(list \o more)
  <2>1. i \in DOMAIN (list \o more) /\ (list \o more)[i] = list[i] BY <1>1
  <2> QED BY <2>1 DEF ToSet
<1>3. ASSUME NEW i \in DOMAIN more PROVE more[i] \in ToSet(list \o more)
  <2>1. Len(list) + i \in DOMAIN (list \o more) /\ (list \o more)[Len(list) + i] = more[i] BY <1>1
  <2> QED BY <2>1 DEF ToSet
<1> QED BY <1>2, <1>3 DEF ToSet

LEMMA TouchKeepsCover ==
  ASSUME ScanInv, NEW issue \in Tracked, Touch(issue)
  PROVE  ScanInv'
<1>1. /\ found.stage = "reading" /\ found' = found /\ backend' = backend
      /\ tracker' = MovedFirst(issue, tracker) /\ touched' = Append(touched, issue)
  BY DEF Touch
<1>2. tracker \in Seq(Tracked) /\ touched \in Seq(Tracked) BY DEF ScanInv, ScanTyped
<1>3. /\ tracker' \in Seq(Tracked)
      /\ \A p \in DOMAIN tracker' :
           tracker'[p] = issue \/ \E q \in DOMAIN tracker : q <= p /\ tracker'[p] = tracker[q]
  BY <1>1, <1>2, MovedFirstList
<1>4. touched' \in Seq(Tracked) /\ ToSet(touched') = ToSet(touched) \cup {issue}
  <2>1. /\ Append(touched, issue) \in Seq(Tracked)
        /\ Len(Append(touched, issue)) = Len(touched) + 1
        /\ \A i \in 1 .. Len(touched) : Append(touched, issue)[i] = touched[i]
        /\ Append(touched, issue)[Len(touched) + 1] = issue
    BY <1>2, AppendProperties
  <2>2. ASSUME NEW i \in DOMAIN touched PROVE touched[i] \in ToSet(touched')
    <3>1. i \in DOMAIN touched' /\ touched'[i] = touched[i] BY <1>1, <1>2, <2>1
    <3> QED BY <3>1 DEF ToSet
  <2>3. issue \in ToSet(touched')
    <3>1. Len(touched) + 1 \in DOMAIN touched' /\ touched'[Len(touched) + 1] = issue BY <1>1, <1>2, <2>1
    <3> QED BY <3>1 DEF ToSet
  <2>4. ASSUME NEW i \in DOMAIN touched' PROVE touched'[i] \in ToSet(touched) \cup {issue}
    <3>1. i \in 1 .. Len(touched) \/ i = Len(touched) + 1 BY <1>1, <1>2, <2>1
    <3>2. CASE i \in 1 .. Len(touched) BY <1>1, <1>2, <2>1, <3>2 DEF ToSet
    <3>3. CASE i = Len(touched) + 1 BY <1>1, <2>1, <3>3
    <3> QED BY <3>1, <3>2, <3>3
  <2> QED BY <1>1, <2>1, <2>2, <2>3, <2>4 DEF ToSet
<1>5. PagesAreCovered'
  <2> SUFFICES ASSUME backend = "issues_scan", NEW p \in DOMAIN tracker',
                      tracker'[p] \notin ToSet(touched'), p <= found.page * PageSize
               PROVE  tracker'[p] \in ToSet(found.issues)
    BY <1>1 DEF PagesAreCovered, Behind
  <2>1. PICK q \in DOMAIN tracker : q <= p /\ tracker'[p] = tracker[q] BY <1>3, <1>4
  <2>2. tracker[q] \notin ToSet(touched) BY <1>4, <2>1
  <2>3. q <= found.page * PageSize
    <3>1. q \in Nat /\ p \in Nat /\ found.page * PageSize \in Nat
      BY <1>2, <1>3, ScanAssumption DEF ScanInv, ScanTyped
    <3> QED BY <2>1, <3>1
  <2>4. tracker[q] \in ToSet(found.issues)
    BY <1>1, <2>2, <2>3 DEF ScanInv, PagesAreCovered, Behind
  <2> QED BY <2>1, <2>4
<1>6. UntouchedIssuesAreFound' BY <1>1 DEF UntouchedIssuesAreFound
<1>7. ScanTyped' BY <1>1, <1>3, <1>4 DEF ScanInv, ScanTyped
<1> QED BY <1>5, <1>6, <1>7 DEF ScanInv

LEMMA ReadPageKeepsCover ==
  ASSUME ScanInv, NEW outcome \in RequestOutcomes, ReadPage(outcome)
  PROVE  ScanInv'
<1> DEFINE offset == found.page * PageSize
           bound == IF offset + PageSize < Len(tracker) THEN offset + PageSize ELSE Len(tracker)
           page == SubSeq(Listing(tracker), offset + 1, bound)
           last == Len(page) < PageSize \/ offset + Len(page) >= Len(tracker) \/ found.page + 1 = MaxPages
<1>1. /\ found' = IF outcome # "ok" THEN [NoSearch EXCEPT !.stage = outcome]
                  ELSE [stage |-> IF last THEN "found" ELSE "reading", page |-> found.page + 1,
                        issues |-> found.issues \o page]
      /\ UNCHANGED <<backend, tracker, touched>>
      /\ found.stage = "reading" /\ backend = "issues_scan"
  BY Zenon DEF ReadPage
<1>2. ScanTyped'
  <2>1. ScanNext BY DEF ScanNext
  <2> QED BY <2>1, ScanKeepsType DEF ScanInv
<1>3. CASE outcome # "ok"
  <2>1. found'.stage \notin {"reading", "found"}
    <3>1. outcome \in {"timeout", "failed"} BY <1>3, RequestOutcome DEF Outcome
    <3> QED BY <1>1, <1>3, <3>1 DEF NoSearch
  <2> QED BY <1>2, <2>1 DEF ScanInv, PagesAreCovered, UntouchedIssuesAreFound
<1>4. CASE outcome = "ok"
  <2>1. /\ tracker \in Seq(Tracked) /\ found.page \in Nat /\ found.issues \in Seq(Tracked)
        /\ offset \in Nat /\ PageSize \in Nat /\ PageSize > 0 /\ MaxPages \in Nat /\ Len(tracker) \in Nat
    BY ScanAssumption DEF ScanInv, ScanTyped
  <2>2. (found.page + 1) * PageSize = offset + PageSize BY <2>1
  <2>3. found'.page = found.page + 1 BY <1>1, <1>4
  <2>4. found'.issues = found.issues \o page BY <1>1, <1>4
  <2>5. found'.stage = IF last THEN "found" ELSE "reading" BY <1>1, <1>4
  <2> HIDE DEF offset
  <2>6. bound \in Nat /\ bound <= Len(tracker) /\ bound <= offset + PageSize BY <2>1
  <2>7. bound = offset + PageSize \/ bound = Len(tracker) BY <2>1
  <2> HIDE DEF bound
  <2>8. /\ page \in Seq(Tracked)
        /\ Len(page) = IF offset + 1 <= bound THEN bound - offset ELSE 0
        /\ \A i \in 1 .. bound - offset : page[i] = tracker[offset + i]
    <3>1. \A i \in offset + 1 .. bound : tracker[i] \in Tracked BY <2>1, <2>6
    <3>2. /\ page \in Seq(Tracked)
          /\ Len(page) = IF offset + 1 <= bound THEN bound - (offset + 1) + 1 ELSE 0
          /\ \A i \in 1 .. bound - (offset + 1) + 1 : page[i] = tracker[(offset + 1) + i - 1]
      BY <2>1, <2>6, <3>1, SubSeqProperties DEF Listing
    <3>3. bound - (offset + 1) + 1 = bound - offset BY <2>1, <2>6
    <3>4. \A i \in 1 .. bound - offset : (offset + 1) + i - 1 = offset + i BY <2>1
    <3> HIDE DEF page
    <3> QED BY <3>2, <3>3, <3>4
  <2> HIDE DEF page
  <2>9. ToSet(found.issues) \subseteq ToSet(found'.issues) /\ ToSet(page) \subseteq ToSet(found'.issues)
    BY <2>1, <2>4, <2>8, ListedStill
  <2>10. ASSUME NEW p \in DOMAIN tracker, tracker[p] \notin ToSet(touched), p <= offset + PageSize
         PROVE  tracker[p] \in ToSet(found'.issues)
    <3>1. p \in Nat /\ 1 <= p /\ p <= Len(tracker) BY <2>1
    <3>2. CASE p <= offset
      <4>1. Behind(p) BY <3>2 DEF Behind, offset
      <4>2. tracker[p] \in ToSet(found.issues) BY <1>1, <2>10, <4>1 DEF ScanInv, PagesAreCovered
      <4> QED BY <2>9, <4>2
    <3>3. CASE p > offset
      <4>1. p <= bound BY <2>7, <2>10, <3>1
      <4>2. p - offset \in 1 .. bound - offset /\ offset + (p - offset) = p BY <2>1, <2>6, <3>1, <3>3, <4>1
      <4>3. page[p - offset] = tracker[p] BY <2>8, <4>2
      <4>4. p - offset \in DOMAIN page BY <2>1, <2>6, <2>8, <4>2
      <4> QED BY <2>9, <4>3, <4>4 DEF ToSet
    <3> QED BY <2>1, <3>1, <3>2, <3>3
  <2>11. PagesAreCovered'
    BY <1>1, <2>2, <2>3, <2>10 DEF PagesAreCovered, Behind
  <2>12. UntouchedIssuesAreFound'
    <3> SUFFICES ASSUME last, NEW p \in DOMAIN tracker, tracker[p] \notin ToSet(touched),
                        p <= MaxPages * PageSize
                 PROVE  tracker[p] \in ToSet(found'.issues)
      BY <1>1, <2>5 DEF UntouchedIssuesAreFound
    <3>1. p \in Nat /\ p <= Len(tracker) BY <2>1
    <3>2. CASE Len(page) < PageSize \/ offset + Len(page) >= Len(tracker)
      <4>1. Len(tracker) <= offset + PageSize BY <2>1, <2>6, <2>7, <2>8, <3>2
      <4>2. p <= offset + PageSize BY <2>1, <3>1, <4>1
      <4> QED BY <2>10, <4>2
    <3>3. CASE found.page + 1 = MaxPages
      <4>1. p <= offset + PageSize BY <2>2, <3>3
      <4> QED BY <2>10, <4>1
    <3> QED BY <3>2, <3>3
  <2> QED BY <1>2, <2>11, <2>12 DEF ScanInv
<1> QED BY <1>3, <1>4

\* Whoever goes on working on the issues while they are listed page by page: an
\* issue at rest is not passed over, as long as none is deleted or moved to
\* another project (search.ts scanIssues).
THEOREM ScanPassesNothingOver ==
  ASSUME ~MayLeave
  PROVE  Spec => []UntouchedIssuesAreFound
<1>1. Init => ScanInv
  <2> SUFFICES ASSUME Init PROVE ScanInv OBVIOUS
  <2>1. ScanTyped BY InitKeeps DEF InvestigationInv
  <2>2. found.stage = "idle" BY DEF Init, ScanInit, NoSearch
  <2> QED BY <2>1, <2>2 DEF ScanInv, PagesAreCovered, UntouchedIssuesAreFound
<1>2. ScanInv /\ InvestigationInv' /\ [Next]_vars => ScanInv'
  <2> SUFFICES ASSUME ScanInv, InvestigationInv', [Next]_vars PROVE ScanInv' OBVIOUS
  <2>1. ScanTyped' BY DEF InvestigationInv
  <2>2. CASE UNCHANGED scanVars
    BY <2>1, <2>2 DEF ScanInv, PagesAreCovered, Behind, UntouchedIssuesAreFound, scanVars
  <2>3. CASE found'.stage \notin {"reading", "found"}
    BY <2>1, <2>3 DEF ScanInv, PagesAreCovered, UntouchedIssuesAreFound
  <2>4. CASE \E matching \in SUBSET Issues, seen \in {"ok", "timeout", "failed"} : Search(matching, seen)
    BY <2>3, <2>4 DEF Search, NoSearch
  <2>5. CASE Scan
    <3>1. CASE BeginSearch
      <4>1. found'.stage = "reading" /\ found'.page = 0 /\ tracker' = tracker BY <3>1 DEF BeginSearch, NoSearch
      <4>2. PagesAreCovered'
        <5>1. \A p \in DOMAIN tracker' : ~ (p <= 0 * PageSize)
          BY <4>1, ScanAssumption DEF ScanInv, ScanTyped
        <5> QED BY <4>1, <5>1 DEF PagesAreCovered, Behind
      <4> QED BY <2>1, <4>1, <4>2 DEF ScanInv, UntouchedIssuesAreFound
    <3>2. CASE \E issue \in Tracked : Touch(issue) \/ Leave(issue)
      <4>1. PICK issue \in Tracked : Touch(issue) \/ Leave(issue) BY <3>2
      <4>2. ~Leave(issue) BY DEF Leave
      <4> QED BY <4>1, <4>2, TouchKeepsCover
    <3>3. CASE \E outcome \in RequestOutcomes : ReadPage(outcome) BY <3>3, ReadPageKeepsCover
    <3>4. CASE \E named \in SUBSET Tracked, outcome \in RequestOutcomes : ReadNamed(named, outcome)
      <4>1. backend' = "rest_search" BY <3>4 DEF ReadNamed
      <4> QED BY <2>1, <4>1 DEF ScanInv, PagesAreCovered, UntouchedIssuesAreFound
    <3> QED BY <2>5, <3>1, <3>2, <3>3, <3>4 DEF Scan, ScanNext
  <2> QED BY <2>2, <2>4, <2>5 DEF Next, vars
<1>3. ScanInv => UntouchedIssuesAreFound BY DEF ScanInv
<1> QED BY <1>1, <1>2, <1>3, InvestigationInductive, PTL DEF Spec
=============================================================================
