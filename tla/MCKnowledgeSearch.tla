-------------------------- MODULE MCKnowledgeSearch --------------------------
(* KnowledgeSearch for TLC: two documents of two chunks, read before and after *)
(* b's first chunk gave way to another.                                        *)
EXTENDS KnowledgeSearch

MCParentOf == [a1 |-> "a", a2 |-> "a", b1 |-> "b", b2 |-> "b"]
MCContents == {{"a1", "a2", "b1"}, {"a1", "a2", "b2"}}

AfterRecall == search.stage \in {"fused", "answered"}

\* Bound: what goes on during the rerank is left out, since from recall on a
\* search reads no file.
QuietAfterRecall ==
    AfterRecall => UNCHANGED <<generations, build, quality>>

\* From then on states that differ only in what the search does not read are one.
SearchView ==
    IF AfterRecall THEN <<search, generations[search.generation]>> ELSE searchVars
=============================================================================
