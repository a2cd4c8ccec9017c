------------------------- MODULE KnowledgeDocuments -------------------------
(***************************************************************************)
(* A source file on its way into the knowledge index: intake and slicing   *)
(* (src/src/knowledge/ingest.ts), quality audit, repair, review, publish   *)
(* and the rebuild of the index (publish*.ts, repair*.ts, quality/,        *)
(* indexes/build.ts, src/src/application/knowledge-rebuild-service.ts,     *)
(* src/src/onboarding/review-service.ts and review-state.ts).              *)
(*                                                                         *)
(* Every stage is a command of its own that reads the files the others     *)
(* left.  There is one source; its drafts are files of one directory,      *)
(* numbered in order, and a formal document is a file named by the slug of *)
(* its title, or by its draft when the legacy import wrote it.  A body is  *)
(* the sequence of the source blocks in it and the lists that say where    *)
(* they are from.                                                          *)
(***************************************************************************)
EXTENDS SourceSlices, ChunkPacking, FiniteSetsExt

CONSTANTS
    Paragraphs,       \* the items a source file is written from
    MaxItems,         \* bound: items in the file
    Imported,         \* bound: the texts that are imported, not only sliced
    MinBody,          \* minBodyChars, 80: a shorter body is too_short
    ListHead,         \* the size of a list of provenance without its block ids
    BlockId,          \* the size of a block id in it
    AnswerBearing,    \* the texts with an answer-bearing sentence
    MinTerms,         \* minRelatedTerms, 3
    AsciiTitles,      \* FALSE: titles whose slug is only the part number
    Gates,            \* the quality gates in use
    AsyncRebuild,     \* vectors are embedded: a rebuild lets others run
    MaxOps            \* bound: commands run

ASSUME ParagraphAssumption == \A item \in Paragraphs : item.text \in DOMAIN Sentences

VARIABLES
    text,             \* the source file
    meta,             \* its .meta.json exists: intake is recorded
    drafts,           \* knowledge/_pipeline/drafts/<source>/
    docs,             \* slug |-> formal document under knowledge/whitepapers/
    report,           \* knowledge/indexes/quality-report.json
    plan,             \* the last repair plan
    repairing,        \* the actions of the plan still to apply
    index,            \* the documents of the active index generation
    dirty,            \* knowledge/indexes/dirty.flag exists
    rebuild,          \* the documents a rebuild in flight has read
    overtaken,        \* history: documents came while the index was being built
    ops               \* commands run so far

fileVars == <<text, meta, drafts, docs, report, plan, repairing, index, dirty, rebuild, overtaken, ops>>
Files == <<text, meta>>
Repair == <<plan, repairing>>
Index == <<index, dirty, rebuild, overtaken>>

NoReport == [made |-> FALSE, broken |-> FALSE, issues |-> {}]
NoRebuild == [on |-> FALSE, docs |-> <<>>, late |-> FALSE]
NoDocs == <<>>

FilesInit ==
    /\ text = <<>> /\ meta = FALSE /\ drafts = <<>> /\ docs = NoDocs
    /\ report = NoReport /\ plan = {} /\ repairing = {}
    /\ index = NoDocs /\ dirty = TRUE /\ rebuild = NoRebuild /\ overtaken = FALSE /\ ops = 0

\* A command starts: synchronous ones exclude each other.
Command ==
    /\ repairing = {} /\ (rebuild.on => AsyncRebuild)
    /\ ops < MaxOps /\ ops' = ops + 1

-----------------------------------------------------------------------------
(* Intake *)

\* The author writes the file, one item at a time.
Write(item) ==
    /\ ~meta /\ Len(text) < MaxItems
    /\ text' = Append(text, item)
    /\ UNCHANGED <<meta, drafts, docs, report, Repair, Index, ops>>

\* slicer-render.ts renderDraftSlice: below the blocks stands the list of where
\* they are from, which names the section and every block.
Draft(n, slice) ==
    LET orders == [k \in DOMAIN slice.blocks |-> slice.blocks[k].order] IN
    [id |-> n, title |-> slice.title, part |-> slice.part, sectionPath |-> slice.sectionPath,
     carries |-> orders, lists |-> << [path |-> slice.sectionPath, blocks |-> orders] >>,
     placed |-> FALSE, enriched |-> FALSE, status |-> "draft", pipeline |-> "draft", quality |-> "unchecked"]

\* slicer.ts writes every slice anew and removes the files it did not write.
Sliced == [file \in Imported |-> Slices(file)]
NewDrafts(slices) == [n \in DOMAIN slices |-> Draft(n, slices[n])]

\* knowledge-pipeline.ts runOnboardingKnowledgePipeline up to its audit: the
\* workspace is made, which marks the index, and a file not known yet is taken
\* in and sliced.  The metadata is written first; when extraction then throws,
\* the next import of the file finds it and reuses nothing.
Ingest(extracted) ==
    /\ text \in Imported /\ ~meta /\ Command
    /\ meta' = TRUE /\ dirty' = TRUE
    /\ drafts' = IF extracted THEN NewDrafts(Sliced[text]) ELSE drafts
    /\ UNCHANGED <<text, docs, report, Repair, index, rebuild, overtaken>>

\* command-pipeline.ts, "knowledge slice": the known files are sliced anew.
Reslice ==
    /\ meta /\ Command
    /\ drafts' = NewDrafts(Sliced[text])
    /\ UNCHANGED <<Files, docs, report, Repair, Index>>

\* A person rewrites drafts, as a review asks for: the blocks stay, the list of
\* where they are from does not.
Edit(ids) ==
    /\ Command /\ \E n \in ids : drafts[n].lists # <<>>
    /\ drafts' = [n \in DOMAIN drafts |->
                     IF n \in ids THEN [drafts[n] EXCEPT !.lists = <<>>] ELSE drafts[n]]
    /\ UNCHANGED <<Files, docs, report, Repair, Index>>

-----------------------------------------------------------------------------
(* Audit *)

TextOf(order) == text[order].text
IsHeading(order) == InferBlockType(text[order]) = "heading"
\* slice-rules.ts meaningfulBody: the body without its headings.  The list of
\* provenance stays, only the heading above it goes.
MeaningfulBody(file) ==
    LET said == SelectSeq(file.carries, LAMBDA order : ~IsHeading(order)) IN
    [said |-> [n \in DOMAIN said |-> TextOf(said[n])], lists |-> file.lists]
Empty(body) == body.said = <<>> /\ body.lists = <<>>

\* slicer-render.ts related_terms: the title with its part number, the path
\* and the source title, with the module once a repair added it.
RelatedTerms(file) ==
    Cardinality({<<file.title, file.part>>, <<FileTitle, 0>>}
                  \cup {<<heading, 0>> : heading \in ToSet(file.sectionPath)})
      + (IF file.enriched THEN 1 ELSE 0)

Size(body) ==
    FoldLeft(LAMBDA n, said : n + Length(said), 0, body.said)
      + FoldLeft(LAMBDA n, list : n + ListHead + BlockId * Len(list.blocks), 0, body.lists)

\* slice-heuristics.ts hasAnswerBearingSentence, of the whole body with its
\* title, its headings and its lists.
AnswersIn(file) ==
    {file.title} \cup {TextOf(order) : order \in ToSet(file.carries)}
      \cup UNION {ToSet(list.path) : list \in ToSet(file.lists)}

\* slice-rules.ts auditSlice, the rules a body of the pipeline can break.
Codes(file, bodies) ==
    LET body == MeaningfulBody(file) IN
    (IF file.sectionPath = <<>> /\ ~file.placed THEN {"missing_section_path"} ELSE {})
    \cup
    IF Empty(body) THEN {"empty_body"}
    ELSE (IF Size(body) < MinBody THEN {"too_short"} ELSE {})
         \cup (IF Size(body) > MaxParent THEN {"too_long"} ELSE {})
         \cup (IF AnswersIn(file) \cap AnswerBearing = {} THEN {"not_answer_bearing"} ELSE {})
         \cup (IF RelatedTerms(file) < MinTerms THEN {"low_signal_terms"} ELSE {})
         \cup (IF \E other \in bodies : other.id # file.id /\ other.body = body
               THEN {"duplicate_content"} ELSE {})

\* chunk-rules.ts auditKnowledgeChunks, for the documents an index was built of:
\* a formal document without a chunk, and a chunk that could not be split.
ManualSplit(order) ==
    LET sentences == Sentences[TextOf(order)] IN
    /\ Length(TextOf(order)) > MaxChars
    /\ Len(sentences) = 1 \/ \E n \in DOMAIN sentences : sentences[n].size > MaxChars

ChunkIssues(formal, indexed) ==
    LET Chunked == {s \in DOMAIN indexed : ~Empty(MeaningfulBody(indexed[s]))}
        Rigid == {s \in Chunked :
                    \/ \E order \in ToSet(indexed[s].carries) : ~IsHeading(order) /\ ManualSplit(order)
                    \/ \E list \in ToSet(indexed[s].lists) : BlockId * Len(list.blocks) > MaxChars}
        Unchunked == {file.id : file \in formal} \ {indexed[s].id : s \in Chunked}
    IN  {[id |-> id, code |-> "missing_parent", formal |-> TRUE] : id \in Unchunked}
        \cup {[id |-> indexed[s].id, code |-> "too_long", formal |-> TRUE] : s \in Rigid}

\* source-rules.ts: a source without headings is a warning on all its slices.
HeadingStructureBroken ==
    /\ \A n \in DOMAIN text : ~IsHeading(n)
    /\ \E n \in DOMAIN text : InferBlockType(text[n]) = "paragraph"

\* audit.ts auditKnowledgeQuality of the drafts and the formal documents alike,
\* with the chunks of an index.
Formal(documents) == {documents[s] : s \in DOMAIN documents}
AuditReport(files, documents, indexed) ==
    LET formal == Formal(documents)
        audited == formal \cup ToSet(files)
        bodies == {[id |-> file.id, body |-> MeaningfulBody(file)] : file \in audited}
    IN  [made |-> TRUE,
         broken |-> files # <<>> /\ HeadingStructureBroken,
         issues |-> (UNION {{[id |-> file.id, code |-> code, formal |-> file \in formal] :
                               code \in Codes(file, bodies)} : file \in audited})
                    \cup ChunkIssues(formal, indexed)]

\* report-io.ts writeKnowledgeQualityReport; the chunks are the active index's.
\* init.ts does the same without a source, once it has marked the index.
Audit ==
    /\ meta /\ Command
    /\ report' = AuditReport(drafts, docs, index)
    /\ dirty' \in {dirty, TRUE}
    /\ UNCHANGED <<Files, drafts, docs, Repair, index, rebuild, overtaken>>

Worst(codes) ==
    IF codes \ {"low_signal_terms"} # {} THEN "warn" ELSE IF codes # {} THEN "info" ELSE "ok"

-----------------------------------------------------------------------------
(* Review *)

ReviewActions == {"approve", "accept_warnings", "reject", "request_edits"}

\* publish-review.ts computeNextStatus and the frontmatter it writes.
Reviewed(draft, action) ==
    LET accepted == action \in {"approve", "accept_warnings"} IN
    [draft EXCEPT
        !.pipeline = IF accepted THEN "approved"
                     ELSE IF action = "reject" THEN "rejected" ELSE "review_required",
        !.status = IF accepted THEN "draft" ELSE "review_required",
        !.quality = IF action = "reject" THEN "error"
                    ELSE IF action = "accept_warnings" THEN "warn" ELSE @]

ReviewedDrafts(ids, action) ==
    [n \in DOMAIN drafts |-> IF n \in ids THEN Reviewed(drafts[n], action) ELSE drafts[n]]

\* publish-review.ts reviewDraftSlices, for some drafts or the whole source.
\* A draft that was merged away is reviewed like any other.
Review(ids, action) ==
    /\ Command /\ ids # {}
    /\ drafts' = ReviewedDrafts(ids, action)
    /\ UNCHANGED <<Files, docs, report, Repair, Index>>

\* publish.ts highestQualitySeverity.
HighestSeverity(n) ==
    LET own == Worst({i.code : i \in {i \in report.issues : i.id = n}}) IN
    IF drafts[n].quality \in {"error", "warn"} THEN drafts[n].quality
    ELSE IF own = "warn" \/ report.broken THEN "warn" ELSE "ok"

\* publish.ts approveQualityCleanDraftSlices.  Without a report all is clean.
AutoApprove ==
    LET clean == {n \in DOMAIN drafts : /\ drafts[n].pipeline \in {"draft", "review_required"}
                                        /\ HighestSeverity(n) = "ok"}
    IN  Review(clean, "approve")

-----------------------------------------------------------------------------
(* Publish *)

\* publish.ts safeSlug of the title: what is not ASCII is dropped from it.
Slug(draft) ==
    IF draft.part = 0 THEN <<draft.title, 0>>
    ELSE <<IF AsciiTitles THEN draft.title ELSE "", draft.part>>

\* publish.ts publishBlockReason.
Blocked(draft, gate) ==
    LET codes == {i.code : i \in {i \in report.issues : i.id = draft.id}} IN
    \/ draft.quality = "error"
    \/ ~report.made /\ gate # "off"
    \/ report.made /\ gate = "strict" /\ (draft.quality = "warn" \/ Worst(codes) = "warn")

\* publish.ts publishOneDraft: the document takes over the draft's state.
Published(draft) ==
    [draft EXCEPT !.status = "active", !.pipeline = "published",
                  !.quality = IF @ = "unchecked" /\ report.made THEN "ok" ELSE @]

\* Mutant of Marked: publishing leaves the flag as it is.
DirtyKept(written) == dirty
Marked(written) == written # {} \/ dirty

\* publish.ts publishApprovedDraftSlices: drafts in order, so of two with one
\* slug the later stays.  They stay approved.
PublishApproved(files, gate) ==
    LET written == {n \in DOMAIN files : files[n].pipeline = "approved" /\ ~Blocked(files[n], gate)}
        slugs == {Slug(files[n]) : n \in written}
        Latest(slug) == Max({n \in written : Slug(files[n]) = slug})
    IN  /\ docs' = [slug \in DOMAIN docs \cup slugs |->
                       IF slug \in slugs THEN Published(files[Latest(slug)]) ELSE docs[slug]]
        /\ dirty' = Marked(written)

\* A rebuild in flight that goes on after this command has read the documents
\* as they were before it.
Outrun == [rebuild EXCEPT !.late = rebuild.on /\ (@ \/ docs' # docs)]

PublishDrafts(gate) ==
    /\ drafts # <<>> /\ Command
    /\ PublishApproved(drafts, gate)
    /\ rebuild' = Outrun
    /\ UNCHANGED <<Files, drafts, report, Repair, index, overtaken>>

\* A rebuild reads the documents.  Of two in flight the one that publishes
\* first makes the other fail, so one of them is followed.
Reads(documents) == [on |-> TRUE, docs |-> documents, late |-> FALSE]
InFlight == {Reads(docs')} \cup (IF rebuild.on THEN {Outrun} ELSE {})

-----------------------------------------------------------------------------
(* The dashboard's review *)

\* review-state.ts reviewSeverity of the issues qualityIssuesForSlice finds: its
\* own by the id, which its formal document has too, and those of the source.
ReviewSeverity(draft) ==
    LET own == {i.code : i \in {i \in report.issues : i.id = draft.id}} IN
    IF draft.quality = "error" THEN "error"
    ELSE IF \/ draft.quality = "warn" \/ draft.pipeline = "review_required"
            \/ report.broken \/ Worst(own) = "warn"
    THEN "warn" ELSE "ok"

\* review-state.ts buildReviewState: what the dashboard offers for review.
ReviewItems ==
    {n \in DOMAIN drafts : /\ drafts[n].pipeline \notin {"approved", "published", "rejected"}
                           /\ ReviewSeverity(drafts[n]) # "ok"}

\* review-service.ts submitReview, for the items asked or all: the verdict, the
\* publication of all that is approved, and the rebuild.  An item with an error
\* lets no other be approved.
SubmitReview(asked, action) ==
    /\ Command
    /\ \E targets \in {IF asked = {} THEN ReviewItems ELSE ReviewItems \cap asked} :
        /\ targets # {}
        /\ action \in {"approve", "accept_warnings"} =>
              \A n \in targets : ReviewSeverity(drafts[n]) # "error"
        /\ drafts' = ReviewedDrafts(targets, action)
        /\ PublishApproved(drafts', "warn")
        /\ rebuild' \in InFlight
        /\ UNCHANGED <<Files, report, Repair, index, overtaken>>

-----------------------------------------------------------------------------
(* Repair *)

\* repair-plan.ts mapIssueToAction, the safe actions by issue code in the order
\* of the report; the others wait for a person.
SafeRepairs == << [code |-> "empty_body", kind |-> "mark_review_required"],
                  [code |-> "low_signal_terms", kind |-> "add_related_terms"],
                  [code |-> "missing_section_path", kind |-> "add_section_path"],
                  [code |-> "not_answer_bearing", kind |-> "mark_review_required"],
                  [code |-> "too_short", kind |-> "merge_adjacent_short_slices"] >>

Reported(code) == {i.id : i \in {i \in report.issues : i.code = code}}

\* repair-plan.ts generateKnowledgeRepairPlan: one action for a document id and
\* type, on the file of its first issue, which is the formal document's if any.
RepairsAt(k) ==
    LET code == SafeRepairs[k].code
        kind == SafeRepairs[k].kind
        Before == {j \in 1..(k - 1) : SafeRepairs[j].kind = kind}
    IN  {[place |-> k, kind |-> kind, id |-> id,
          formal |-> [id |-> id, code |-> code, formal |-> TRUE] \in report.issues] :
            id \in {id \in Reported(code) : \A j \in Before : id \notin Reported(SafeRepairs[j].code)}}

RepairPlan == UNION {RepairsAt(k) : k \in DOMAIN SafeRepairs}

PlanRepair ==
    /\ report.made /\ plan # RepairPlan /\ Command
    /\ plan' = RepairPlan
    /\ UNCHANGED <<Files, drafts, docs, report, repairing, Index>>

ApplyPlan ==
    /\ plan # {} /\ drafts # <<>> /\ Command
    /\ repairing' = plan
    /\ UNCHANGED <<Files, drafts, docs, report, plan, Index>>

\* repair.ts applyActionToFile on a file of either kind.
Repaired(file, kind) ==
    IF kind = "add_related_terms" THEN [file EXCEPT !.enriched = TRUE]
    ELSE IF kind = "add_section_path" THEN [file EXCEPT !.placed = TRUE]
    ELSE [file EXCEPT !.pipeline = "review_required", !.quality = "error"]

RepairFile(action) ==
    /\ action.kind # "merge_adjacent_short_slices"
    /\ IF action.formal
       THEN /\ \E s \in {s \in DOMAIN docs : docs[s].id = action.id} :
                  docs' = [docs EXCEPT ![s] = Repaired(@, action.kind)]
            /\ UNCHANGED drafts
       ELSE /\ drafts' = [drafts EXCEPT ![action.id] = Repaired(@, action.kind)]
            /\ UNCHANGED docs
    /\ repairing' = repairing \ {action}

\* repair.ts findAdjacentMergeCandidate: the next draft, or the one before,
\* that was not merged away itself; 0 when there is none.
MergeCandidate(n) ==
    LET Open(k) == k \in DOMAIN drafts /\ drafts[k].status # "archived" IN
    IF Open(n + 1) THEN n + 1 ELSE IF Open(n - 1) THEN n - 1 ELSE 0

Mergeable(action) ==
    /\ ~action.formal /\ drafts[action.id].status # "archived"
    /\ MergeCandidate(action.id) # 0

\* Mutant of FirstWritten: the neighbour is archived before the target is saved.
NeighbourFirst(n, target, k, neighbour) == [drafts EXCEPT ![k] = neighbour]
FirstWritten(n, target, k, neighbour) == [drafts EXCEPT ![n] = target]

\* repair.ts applyMergeAdjacentShortSlices: the neighbour's body is appended to
\* the target, then the neighbour is archived.  The two files are written one
\* after the other; a crash may leave the first alone, never the second.
Merge(action, both) ==
    LET n == action.id
        k == MergeCandidate(n)
        target == [drafts[n] EXCEPT !.carries = @ \o drafts[k].carries,
                                    !.lists = @ \o drafts[k].lists,
                                    !.quality = IF @ = "error" THEN @ ELSE "warn"]
        neighbour == [drafts[k] EXCEPT !.status = "archived", !.pipeline = "review_required",
                                       !.quality = "warn"]
    IN  /\ action.kind = "merge_adjacent_short_slices"
        /\ drafts' = IF ~Mergeable(action) THEN drafts
                     ELSE IF both THEN [drafts EXCEPT ![n] = target, ![k] = neighbour]
                     ELSE FirstWritten(n, target, k, neighbour)
        /\ repairing' = IF both THEN repairing \ {action} ELSE {}
        /\ UNCHANGED docs

\* The actions of a plan in the order of the report: by code, then by id.
IsNext(action) ==
    \A other \in repairing \ {action} :
        action.place < other.place \/ (action.place = other.place /\ action.id < other.id)

RepairStep ==
    /\ \E action \in repairing :
          /\ IsNext(action)
          /\ RepairFile(action) \/ \E both \in BOOLEAN : Merge(action, both)
    /\ UNCHANGED <<Files, report, plan, Index, ops>>

-----------------------------------------------------------------------------
(* Index *)

\* build.ts prepareKnowledgeIndexGeneration reads the formal documents; with a
\* gate the audit is written first.  What this pipeline writes breaks no rule of
\* error severity, so the gate, which counts those alone, lets it pass.
PrepareRebuild(gated) ==
    /\ meta /\ Command
    /\ report' = IF gated THEN AuditReport(drafts, docs, docs) ELSE report
    /\ UNCHANGED <<Files, drafts, docs, Repair, index, dirty, overtaken>>
    /\ rebuild' \in InFlight

\* publish of the generation, then build.ts finalizeKnowledgeIndexGeneration,
\* which removes the flag whoever set it.  The rebuild may also fail (a vector
\* is missing, another generation came first) or die between the two.
FinishRebuild(published, finalized) ==
    /\ rebuild.on /\ (finalized => published)
    /\ rebuild' = NoRebuild
    /\ index' = IF published THEN rebuild.docs ELSE index
    /\ overtaken' = IF published THEN rebuild.late ELSE overtaken
    /\ dirty' = (dirty /\ ~finalized)
    /\ UNCHANGED <<Files, drafts, docs, report, Repair, ops>>

-----------------------------------------------------------------------------
(* The legacy import *)

\* ingest.ts legacyWriteActiveSlicesToFormalTree: every draft becomes a formal
\* document at once, under the name of its file, unless there is one.
LegacySlug(draft) == <<draft.id, draft.title, draft.part>>
LegacyPublished(draft) ==
    [draft EXCEPT !.status = "active", !.pipeline = "published",
                  !.quality = IF @ = "unchecked" THEN "ok" ELSE @]
WithLegacy(files) ==
    LET slugs == {LegacySlug(files[n]) : n \in DOMAIN files}
        Of(slug) == CHOOSE n \in DOMAIN files : LegacySlug(files[n]) = slug
    IN  [slug \in DOMAIN docs \cup slugs |->
            IF slug \in DOMAIN docs THEN docs[slug] ELSE LegacyPublished(files[Of(slug)])]

\* init.ts initKnowledgeWorkspace with a source directory: the index is marked,
\* the file taken in and sliced if it is unknown or forced and extraction does
\* not throw, then the index updated, which makes a rebuild in flight fail, and
\* with a gate the audit written.  The update may fail, or die before the flag
\* is removed.
InitWorkspace(sliced, legacy, gated, published, finalized) ==
    /\ text \in Imported /\ Command /\ (legacy => sliced) /\ (finalized => published)
    /\ meta' = TRUE
    /\ drafts' = IF sliced THEN NewDrafts(Sliced[text]) ELSE drafts
    /\ docs' = IF legacy THEN WithLegacy(drafts') ELSE docs
    /\ index' = IF published THEN docs' ELSE index
    /\ overtaken' = (overtaken /\ ~published)
    /\ dirty' = ~finalized
    /\ rebuild' = IF published THEN NoRebuild ELSE Outrun
    /\ report' = IF finalized /\ gated THEN AuditReport(drafts', docs', docs') ELSE report
    /\ UNCHANGED <<text, Repair>>

-----------------------------------------------------------------------------
(* Health *)

IndexStatus == IF dirty THEN "warn" ELSE "ok"
SearchStatus == IF docs = NoDocs THEN "warn" ELSE "ok"

\* health.ts buildKnowledgeHealthSummary: the index is judged by the flag, the
\* search by the number of formal documents.
Health == [index |-> IndexStatus, search |-> SearchStatus]

-----------------------------------------------------------------------------
Gated == {gate # "off" : gate \in Gates}

FilesNext ==
    \/ \E item \in Paragraphs : Write(item)
    \/ \E extracted \in BOOLEAN : Ingest(extracted)
    \/ \E sliced, legacy, published, finalized \in BOOLEAN : \E gated \in Gated :
          InitWorkspace(sliced, legacy, gated, published, finalized)
    \/ Reslice
    \/ \E ids \in SUBSET DOMAIN drafts : Edit(ids)
    \/ Audit
    \/ \E action \in ReviewActions :
          \/ \E n \in DOMAIN drafts : Review({n}, action)
          \/ Review(DOMAIN drafts, action)
          \/ \E asked \in {{}} \cup {{n} : n \in DOMAIN drafts} : SubmitReview(asked, action)
    \/ AutoApprove
    \/ \E gate \in Gates : PublishDrafts(gate)
    \/ \E gated \in Gated : PrepareRebuild(gated)
    \/ PlanRepair \/ ApplyPlan \/ RepairStep
    \/ \E published, finalized \in BOOLEAN : FinishRebuild(published, finalized)

FilesSpec == FilesInit /\ [][FilesNext]_fileVars

-----------------------------------------------------------------------------
(* Properties *)

\* The blocks of a file that are not left out of every slice.
Kept(file) == {n \in DOMAIN file : ExcludedReason(SourceBlocks(file), SourceBlocks(file)[n]) = "none"}
KeptOf == [file \in Imported |-> Kept(file)]

\* These slices carry every block that is kept, once and in the order of the
\* file, and one over the limit cannot be cut: at most one block is its body.
TellTheSource(slices) ==
    LET Carried(n) == Draft(n, slices[n]).carries
        Body(n) == {k \in DOMAIN slices[n].blocks : slices[n].blocks[k].type # "heading"}
    IN  /\ UNION {ToSet(Carried(n)) : n \in DOMAIN slices} = Kept(text)
        /\ \A n, m \in DOMAIN slices : \A j \in DOMAIN Carried(n), k \in DOMAIN Carried(m) :
              n < m \/ (n = m /\ j < k) => Carried(n)[j] < Carried(m)[k]
        /\ \A n \in DOMAIN slices :
              BlocksLength(slices[n].blocks) > MaxParent => \A j, k \in Body(n) : j = k

\* Slicing a file tells what it says, however it is headed and however long its
\* blocks are (normalize.ts, slicer.ts splitBlockGroupIntoDraftGroups).
SlicesTellTheSource == ~meta => TellTheSource(Slices(text))

\* No repair, review or re-import loses text: once the file is sliced, every
\* block that was kept is in a draft that was not merged away (repair.ts
\* applyMergeAdjacentShortSlices archives the neighbour it copied from).
BlocksAreCarried ==
    drafts # <<>> =>
        \A order \in KeptOf[text] : \E n \in DOMAIN drafts :
            drafts[n].status # "archived" /\ order \in ToSet(drafts[n].carries)

\* What a publication alone writes of a document that the index holds.
Tells(file) == [id |-> file.id, title |-> file.title, part |-> file.part,
                sectionPath |-> file.sectionPath, carries |-> file.carries, lists |-> file.lists]

\* A knowledge base whose health is reported as good is searched for every
\* formal document as it was published: what a publication, the dashboard's
\* review or a legacy import wrote since has marked the index (health.ts
\* indexStatus; publish.ts: "Mark dirty so next update rebuilds indexes").  Left
\* out are what a repair changes of a formal document, which marks nothing, and
\* documents that came while the index was being embedded, whose mark it took.
PublishedIsSearched ==
    Health.index = "ok" /\ ~overtaken =>
        /\ \A slug \in DOMAIN docs :
              slug \in DOMAIN index /\ Tells(index[slug]) = Tells(docs[slug])
        /\ Health.search = "ok" => index # NoDocs

\* The same without the exceptions, which does not hold: a rebuild that awaits
\* embeddings takes the mark of what was published meanwhile (build.ts) ...
AlwaysSearched ==
    Health.index = "ok" =>
        \A slug \in DOMAIN docs : slug \in DOMAIN index /\ Tells(index[slug]) = Tells(docs[slug])

\* ... and a repair of a formal document changes what is indexed of it, its
\* terms, path and state, and marks nothing (repair.ts applyActionToFile).
RepairsAreIndexed ==
    Health.index = "ok" /\ ~overtaken =>
        \A slug \in DOMAIN docs : slug \in DOMAIN index /\ index[slug] = docs[slug]

\* A merge that dies between its two writes leaves a block in two drafts.
CarriedOnce ==
    \A n, m \in {n \in DOMAIN drafts : drafts[n].status # "archived"} :
        n # m => ToSet(drafts[n].carries) \cap ToSet(drafts[m].carries) = {}
=============================================================================
