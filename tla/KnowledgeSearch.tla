--------------------------- MODULE KnowledgeSearch ---------------------------
(***************************************************************************)
(* A search of the knowledge index (src/src/retrieval/service.ts): BM25    *)
(* and embedding recall, reciprocal rank fusion, one candidate a document, *)
(* rerank, and the evidence that is handed to the diagnosis.               *)
(*                                                                         *)
(* The search waits for two providers, the one that embeds the query and   *)
(* the one that reranks.  Meanwhile other processes go on: an index        *)
(* generation is published, a document is audited, reviewed or removed.    *)
(* How a strategy scores a chunk is left open: it yields any ranking.      *)
(***************************************************************************)
EXTENDS VectorIndex

CONSTANTS
    Documents,        \* formal documents
    ParentOf,         \* chunk |-> its document
    Answering,        \* the chunks with a span that answers the question
    BuiltTrusted,     \* chunks whose own quality_status, of the build, is ok
    QueryModel,       \* the embedding model of the running configuration
    RecallLimit,      \* 40: candidates of a strategy
    FusionLimit,      \* 20: candidates that are fused on
    Limit,            \* 8: evidence of a search
    Scores,           \* the relevance scores a reranker gives
    Returned,         \* bound: results in a rerank response
    MaxChanges        \* bound: documents that change during the search

ASSUME SearchAssumption ==
    /\ RecallLimit \in Nat /\ FusionLimit \in Nat /\ Limit \in Nat
    /\ Returned \in Nat /\ Scores \subseteq Int

VARIABLES
    quality,          \* document |-> "ok", "bad", "unchecked" or "gone"
    changes,          \* documents changed so far
    search            \* the search: its stage and local variables

searchVars == <<generations, build, quality, changes, search>>

Chunks == DOMAIN ParentOf
Unranked == [bm25 |-> <<>>, embedding |-> <<>>]
Start == [stage |-> "idle", generation |-> 0, recalled |-> Unranked,
          candidates |-> <<>>, failed |-> FALSE, results |-> <<>>]

SearchInit ==
    /\ InitIndex /\ quality \in [Documents -> {"ok", "unchecked"}]
    /\ changes = 0 /\ search = Start

\* The rankings a strategy may yield for these chunks.
Rankings(chunks) ==
    UNION {{ranking \in [1..n -> chunks] : IsInjective(ranking)} : n \in 0..RecallLimit}

-----------------------------------------------------------------------------
(* What goes on meanwhile *)

\* A rebuild goes on.  The generations before stay on disk.
RebuildIndex == IndexNext /\ UNCHANGED <<quality, changes, search>>

\* An audit, review or removal changes how a document grounds its chunks.
ChangeDocument(document, state) ==
    /\ changes < MaxChanges /\ changes' = changes + 1
    /\ quality[document] # state
    /\ quality' = [quality EXCEPT ![document] = state]
    /\ UNCHANGED <<generations, build, search>>

\* These places of a list, and the list up to a limit.
Picked(list, places) ==
    LET order == Ranked(places, {p \in places \X places : p[1] < p[2]})
    IN  [n \in DOMAIN order |-> list[order[n]]]
Cut(list, limit) == SubSeq(list, 1, IF Len(list) < limit THEN Len(list) ELSE limit)

-----------------------------------------------------------------------------
(* Recall *)

\* retrieval-grounding.ts and vector-search.ts: the quality of the document as
\* it is now, else that of the chunk when it was built.
Trusted(chunk) ==
    \/ quality[ParentOf[chunk]] = "ok"
    \/ quality[ParentOf[chunk]] \in {"unchecked", "gone"} /\ chunk \in BuiltTrusted

\* bm25/strategy.ts: all chunks of the generation read at the start.
Ask ==
    /\ search.stage = "idle"
    /\ \E ranking \in Rankings(generations[Active].chunks) :
          search' = [search EXCEPT !.stage = "asked", !.generation = Active,
                                   !.recalled.bm25 = ranking]
    /\ UNCHANGED <<generations, build, quality, changes>>

\* Mutant of SearchedIndex: the vectors of the generation active by now.
ActiveIndex(generation) == generations[Active]

\* embedding/strategy.ts: the vectors of the generation read at the start.
SearchedIndex(generation) == generations[generation]

\* checkKnowledgeVectorCompatibility: without vectors, or with those of another
\* model, the strategy fails.
Compatible(index) == index.model = QueryModel

-----------------------------------------------------------------------------
(* Fusion *)

\* rrf.ts: 1 / (60 + rank), in units of 10^-8 as toFixed(8) keeps it.
\* Mutant of Contribution: the rank itself counts.
RankItself(rank) == rank
Contribution(rank) == 100000000 \div (60 + rank)

RankIn(ranking, chunk) ==
    LET ranks == {n \in DOMAIN ranking : ranking[n] = chunk} IN
    IF ranks = {} THEN 0 ELSE Min(ranks)

Points(ranking, chunk) ==
    LET rank == RankIn(ranking, chunk) IN IF rank = 0 THEN 0 ELSE Contribution(rank)

RrfScore(recalled, chunk) == Points(recalled.bm25, chunk) + Points(recalled.embedding, chunk)

\* The place at which a chunk was first seen, BM25 before embedding.
FirstSeen(recalled, chunk) == RankIn(recalled.bm25 \o recalled.embedding, chunk)

\* rrf.ts fuseWithRrf and the cut at fusionLimit: distinct chunks by score.
FuseWithRrf(recalled) ==
    LET found == ToSet(recalled.bm25) \cup ToSet(recalled.embedding)
        Precedes(a, b) ==
            LET s == RrfScore(recalled, a)
                t == RrfScore(recalled, b)
            IN  s > t \/ (s = t /\ FirstSeen(recalled, a) < FirstSeen(recalled, b))
    IN  Cut(Ranked(found, {p \in found \X found : Precedes(p[1], p[2])}), FusionLimit)

\* parent-dedupe.ts answerStrength: only BM25 knows the terms a span needs.
AnswerStrength(recalled, chunk) ==
    IF chunk \in Answering /\ RankIn(recalled.bm25, chunk) # 0 THEN 1 ELSE 0

\* parent-dedupe.ts dedupeRetrievalCandidatesByParent: the best chunk stands
\* for its document, with the text of a later one that answers better.
DedupeByParent(recalled, chunks) ==
    LET places == DOMAIN chunks
        Siblings(n) == {k \in places : ParentOf[chunks[k]] = ParentOf[chunks[n]]}
        Answerers(n) == {k \in Siblings(n) : AnswerStrength(recalled, chunks[k]) = 1}
        Excerpt(n) == IF Answerers(n) = {} THEN n ELSE Min(Answerers(n))
    IN  Picked([n \in places |->
                   [chunk |-> chunks[n], excerpt |-> chunks[Excerpt(n)],
                    children |-> {chunks[k] : k \in Siblings(n)},
                    score |-> RrfScore(recalled, chunks[n])]],
               {n \in places : n = Min(Siblings(n))})

\* service.ts retrieve after recall.  A failed strategy has no candidates.
Fused(recalled) ==
    LET candidates == DedupeByParent(recalled, FuseWithRrf(recalled)) IN
    [search EXCEPT !.stage = "fused", !.recalled = recalled, !.candidates = candidates]

\* The query is embedded and the vectors are searched with the documents as
\* they are by then; or the strategy is disabled or fails, which costs only its
\* candidates.  At most RecallLimit are kept.
RecallVectors ==
    /\ search.stage = "asked"
    /\ LET index == SearchedIndex(search.generation)
           found == IF Compatible(index) THEN {c \in ToSet(index.vectors) : Trusted(c)} ELSE {}
       IN  \E ranking \in Rankings(found) :
              search' = Fused([search.recalled EXCEPT !.embedding = ranking])
    /\ UNCHANGED <<generations, build, quality, changes>>

-----------------------------------------------------------------------------
(* Rerank *)

\* rerank/service.ts: the response names candidates, each once, in any order;
\* what is unknown or named again is passed over.
Named(candidates, response) ==
    LET Known(n) == \E k \in DOMAIN candidates : candidates[k].chunk = response[n].id
        First(n) == \A k \in 1..(n - 1) : response[k].id # response[n].id
        kept == Picked(response, {n \in DOMAIN response : Known(n) /\ First(n)})
    IN  [n \in DOMAIN kept |->
            [candidate |-> CHOOSE c \in ToSet(candidates) : c.chunk = kept[n].id,
             relevance |-> kept[n].score]]

\* fuseRerankFinalScore: 0.7 relevance + 0.3 fusion score, each scaled to its
\* range among the named; a range of no width counts nothing.
FinalScore(named, item) ==
    LET relevances == {named[n].relevance : n \in DOMAIN named}
        fusions == {named[n].candidate.score : n \in DOMAIN named}
        Width(set) == IF Max(set) = Min(set) THEN 1 ELSE Max(set) - Min(set)
    IN  7 * (item.relevance - Min(relevances)) * Width(fusions)
          + 3 * (item.candidate.score - Min(fusions)) * Width(relevances)

\* Mutant of Unnamed: what the response leaves out is dropped.
NoneLeft(candidates, named) == <<>>
Unnamed(candidates, named) ==
    Picked(candidates, {k \in DOMAIN candidates :
        \A n \in DOMAIN named : named[n].candidate # candidates[k]})

Reranked(candidates, response) ==
    LET named == Named(candidates, response)
        places == DOMAIN named
        Precedes(a, b) ==
            LET s == FinalScore(named, named[a])
                t == FinalScore(named, named[b])
            IN  s > t \/ (s = t /\ a < b)
        order == Ranked(places, {p \in places \X places : Precedes(p[1], p[2])})
    IN  [n \in DOMAIN order |-> named[order[n]].candidate] \o Unnamed(candidates, named)

Best(candidates) == Cut(candidates, Limit)

Answered(failed, results) ==
    [search EXCEPT !.stage = "answered", !.failed = failed, !.results = Best(results)]

\* The reranker is not configured, there is nothing to rank, or it fails: the
\* fused order stands.
SkipRerank ==
    /\ search.stage = "fused"
    /\ search' = Answered(TRUE, search.candidates)
    /\ UNCHANGED <<generations, build, quality, changes>>

Responses ==
    LET ids == {c.chunk : c \in ToSet(search.candidates)} \cup {"unknown"} IN
    UNION {[1..n -> [id : ids, score : Scores]] : n \in 0..Returned}

Rerank ==
    /\ search.stage = "fused" /\ search.candidates # <<>>
    /\ \E response \in Responses :
          search' = Answered(FALSE, Reranked(search.candidates, response))
    /\ UNCHANGED <<generations, build, quality, changes>>

-----------------------------------------------------------------------------
SearchNext ==
    \/ RebuildIndex
    \/ \E document \in Documents, state \in {"ok", "bad", "gone"} :
          ChangeDocument(document, state)
    \/ Ask \/ RecallVectors \/ SkipRerank \/ Rerank

SearchSpec == SearchInit /\ [][SearchNext]_searchVars

-----------------------------------------------------------------------------
(* Properties *)

Recalled == ToSet(search.recalled.bm25) \cup ToSet(search.recalled.embedding)

\* A search sees one index: what its two strategies find, an await apart, is of
\* the generation that was active when it began, whatever is published since;
\* the vectors it compares the query with are of the same model, and all that
\* generation should have (service.ts knowledgeGenerationId, strategy.ts).
OneGeneration ==
    /\ search.stage # "idle" =>
          LET index == generations[search.generation] IN
          /\ ToSet(search.recalled.bm25) \subseteq index.chunks
          /\ search.recalled.embedding # <<>> =>
                index.model = QueryModel /\ ToSet(search.recalled.embedding) \subseteq ToSet(index.vectors)
    /\ VectorsAreWhole

\* One chunk beats another in every strategy that found either.
Beats(a, b) ==
    \A strategy \in DOMAIN search.recalled :
        LET rankA == RankIn(search.recalled[strategy], a)
            rankB == RankIn(search.recalled[strategy], b)
        IN  rankB = 0 \/ (rankA # 0 /\ rankA < rankB)

\* Fusion keeps what the strategies agree on: no candidate stands before
\* another, and no document is cut in favour of another, that beats it in both
\* rankings (rrf.ts fuseWithRrf, parent-dedupe.ts).
FusionRespectsAgreement ==
    LET candidates == search.candidates IN
    search.stage = "fused" =>
        \A n \in DOMAIN candidates :
            /\ \A k \in (n + 1)..Len(candidates) :
                  ~Beats(candidates[k].chunk, candidates[n].chunk)
            /\ \A chunk \in Recalled :
                  Beats(chunk, candidates[n].chunk) /\ chunk # candidates[n].chunk =>
                      \E k \in 1..n : ParentOf[candidates[k].chunk] = ParentOf[chunk]

\* A reranker orders and never decides what was found: whatever it returns, the
\* evidence is as long as before, of distinct documents, and when it fails the
\* fused order stands (rerank/service.ts, service.ts retrieve).
RerankKeepsCandidates ==
    search.stage = "answered" =>
        /\ Len(search.results) = Len(Best(search.candidates))
        /\ ToSet(search.results) \subseteq ToSet(search.candidates)
        /\ IsInjective(search.results)
        /\ search.failed => search.results = Best(search.candidates)
=============================================================================
