----------------------------- MODULE VectorIndex -----------------------------
(***************************************************************************)
(* The index generations a rebuild publishes, with or without vectors      *)
(* (src/src/application/knowledge-rebuild-service.ts and                   *)
(* src/src/knowledge/vector-index.ts).  The eligible chunks are embedded   *)
(* batch by batch, each batch an answer of the provider to wait for, while *)
(* other processes publish.  How a generation is published on disk is the  *)
(* subject of KnowledgeGenerations: here it is one compare-and-append.     *)
(***************************************************************************)
EXTENDS Integers, Sequences, SequencesExt, FiniteSets, FiniteSetsExt

CONSTANTS
    Contents,         \* the sets of chunks the published documents may give
    Embeddable,       \* the chunks that may leave for the embedding provider
    Models,           \* embedding models a configuration may name
    BatchSize,        \* embedding.batchSize
    MaxAttempts,      \* rebuildKnowledgeArtifactsWithRetry, 1..3
    MaxGenerations    \* bound: generations published

ASSUME IndexAssumption ==
    /\ \A chunks \in Contents : IsFiniteSet(chunks)
    /\ BatchSize \in Nat \ {0}

VARIABLES
    generations,      \* the generations published, the last one active
    build             \* the rebuild that embeds: its stage and local variables

\* A generation: its chunks, the chunks of its vectors and their model; "none"
\* for one of mode bm25_only.
Bm25Only(chunks) == [chunks |-> chunks, vectors |-> <<>>, model |-> "none"]
Active == Len(generations)

NoBuild == [stage |-> "idle", expected |-> 0, chunks |-> {}, model |-> "none",
            left |-> <<>>, vectors |-> <<>>, failed |-> FALSE, attempt |-> 0]

\* A first rebuild has embedded everything.
InitIndex ==
    /\ \E chunks \in Contents, model \in Models :
          generations = <<[chunks |-> chunks, vectors |-> SetToSeq(chunks \cap Embeddable),
                           model |-> model]>>
    /\ build = NoBuild

\* isChunkEligibleForRemoteEmbedding: active, of this format and size, of good
\* quality, and neither restricted nor empty.
Eligible(chunks) == chunks \cap Embeddable

\* rebuildKnowledgeArtifacts until the first batch is sent: the active
\* generation is pinned, then the documents are read.
Begun(chunks, model, attempt) ==
    [NoBuild EXCEPT !.stage = "embedding", !.expected = Active, !.chunks = chunks,
                    !.model = model, !.left = SetToSeq(Eligible(chunks)),
                    !.attempt = attempt]

BeginRebuild(model) ==
    /\ build.stage = "idle" /\ Active < MaxGenerations
    /\ \E chunks \in Contents : build' = Begun(chunks, model, 1)
    /\ UNCHANGED generations

\* The members of a finite set, in the order of this relation.
Ranked(set, Precedes) ==
    [n \in 1..Cardinality(set) |->
        CHOOSE x \in set : Cardinality({y \in set : <<y, x>> \in Precedes}) = n - 1]

-----------------------------------------------------------------------------
(* The provider's answer to a batch: the index of an input for each vector,  *)
(* 0 where the item has none; fewer or more items, or an index twice, are     *)
(* what a provider may get wrong.                                             *)

Answers(n) == UNION {[1..k -> 0..n] : k \in (n - 1)..(n + 1)}

\* Sorted by index, an item without one first and where it then stands.
InputOf(answer) ==
    LET Key(item) == IF answer[item] = 0 THEN 1 ELSE answer[item]
        Precedes(a, b) == Key(a) < Key(b) \/ (Key(a) = Key(b) /\ a < b)
        items == DOMAIN answer
        sorted == Ranked(items, {p \in items \X items : Precedes(p[1], p[2])})
    IN  [n \in items |-> IF answer[sorted[n]] = 0 THEN n ELSE answer[sorted[n]]]

\* Mutant of Accepted: the items are not counted.
AcceptedUncounted(answer, count) ==
    IsInjective(InputOf(answer)) /\ ToSet(InputOf(answer)) \subseteq 1..count

\* mapSiliconFlowEmbeddingResponse throws unless each input has one vector.
Accepted(answer, count) ==
    /\ Len(answer) = count
    /\ IsInjective(InputOf(answer))

\* embedDocuments: the inputs of the vectors in order, or a failure of the whole
\* batch: no key, no answer in time, an error, or an answer not accepted.
Embedded(count) ==
    {[failed |-> TRUE, inputs |-> <<>>]} \cup
    {[failed |-> FALSE, inputs |-> InputOf(answer)] :
        answer \in {any \in Answers(count) : Accepted(any, count)}}

\* prepareKnowledgeVectorGeneration for a batch: a record for each vector; after
\* a failure the next batch is sent all the same.
EmbedBatch ==
    /\ build.stage = "embedding" /\ build.left # <<>>
    /\ LET count == Min({BatchSize, Len(build.left)}) IN
       \E result \in Embedded(count) :
          build' = [build EXCEPT
                       !.left = SubSeq(@, count + 1, Len(@)),
                       !.failed = @ \/ result.failed,
                       !.vectors = @ \o [n \in DOMAIN result.inputs |-> build.left[result.inputs[n]]]]
    /\ UNCHANGED generations

-----------------------------------------------------------------------------
(* Publication *)

\* validateGenerationFiles of a hybrid generation: every vector is of one of
\* its chunks.  Whether every chunk has a vector is not asked.
ValidFiles(chunks, vectors) == ToSet(vectors) \subseteq chunks

PublishHybrid ==
    /\ build.stage = "embedding" /\ build.left = <<>>
    /\ ~build.failed /\ build.expected = Active /\ Active < MaxGenerations
    /\ ValidFiles(build.chunks, build.vectors)
    /\ generations' = Append(generations,
           [chunks |-> build.chunks, vectors |-> build.vectors, model |-> build.model])
    /\ build' = NoBuild

\* embedding_generation_incomplete: nothing is published, nothing tried again.
FailIncomplete ==
    /\ build.stage = "embedding" /\ build.left = <<>> /\ build.failed
    /\ build' = NoBuild /\ UNCHANGED generations

\* KnowledgeGenerationConflictError: all is read and embedded again, up to
\* MaxAttempts times.
Conflict ==
    /\ build.stage = "embedding" /\ build.left = <<>>
    /\ ~build.failed /\ build.expected # Active
    /\ \/ /\ build.attempt = MaxAttempts /\ build' = NoBuild
       \/ /\ build.attempt < MaxAttempts
          /\ \E chunks \in Contents :
                build' = Begun(chunks, build.model, build.attempt + 1)
    /\ UNCHANGED generations

\* A rebuild without embedding, in another process: nothing is awaited.
PublishBm25 ==
    /\ Active < MaxGenerations
    /\ \E chunks \in Contents : generations' = Append(generations, Bm25Only(chunks))
    /\ UNCHANGED build

IndexNext ==
    \/ \E model \in Models : BeginRebuild(model)
    \/ EmbedBatch \/ PublishHybrid \/ FailIncomplete \/ Conflict \/ PublishBm25

\* A generation with vectors has one for each eligible chunk, whatever the
\* provider answered and whoever published meanwhile: a search by meaning
\* misses no document that a search by words may find (vector-index.ts).
VectorsAreWhole ==
    \A n \in DOMAIN generations : LET generation == generations[n] IN
        generation.model # "none" =>
            /\ IsInjective(generation.vectors)
            /\ ToSet(generation.vectors) = Eligible(generation.chunks)
=============================================================================
