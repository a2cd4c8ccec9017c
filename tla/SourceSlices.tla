---------------------------- MODULE SourceSlices ----------------------------
(***************************************************************************)
(* How a source file becomes draft slices: src/src/knowledge/extract.ts,   *)
(* normalize.ts, slicer.ts and slicer-render.ts.  The three stages are     *)
(* functions of the parsed items of the file, so they are operators here   *)
(* and no state.                                                           *)
(*                                                                         *)
(* An item is what the DOCX or Markdown parser yields for one paragraph:   *)
(* its text, the heading level (0 for none), the paragraph style, whether  *)
(* it is a list entry and whether it is a table.  A text is a name; its    *)
(* length is that of its sentences.                                        *)
(***************************************************************************)
EXTENDS Integers, Sequences, SequencesExt, FiniteSets, FiniteSetsExt

CONSTANTS
    Sentences,        \* text |-> sequence of [size, ended]: its sentences
    FileTitle,        \* the title of the source, used when there is no heading
    ShortTitle,       \* 60: only a shorter heading counts as a repeated title
    ShortLine,        \* 80: only a shorter paragraph counts as a footer
    MaxParent         \* maxParentChars, 2800 by default

ASSUME SentenceAssumption ==
    /\ \A name \in DOMAIN Sentences : Sentences[name] \in Seq([size : Nat, ended : BOOLEAN])
    /\ MaxParent \in Nat

\* These numbers in increasing order, and what they add up to.
InOrder(places) ==
    [n \in 1..Cardinality(places) |->
        CHOOSE p \in places : Cardinality({q \in places : q < p}) = n - 1]
Total(sizes) ==
    LET sum[n \in 0..Len(sizes)] == IF n = 0 THEN 0 ELSE sum[n - 1] + sizes[n]
    IN  sum[Len(sizes)]

\* The length of a text, and of a sequence of blocks, in characters.
Length(text) == Total([n \in DOMAIN Sentences[text] |-> Sentences[text][n].size])
BlocksLength(blocks) == Total([n \in DOMAIN blocks |-> Length(blocks[n].text)])

-----------------------------------------------------------------------------
(* Extraction *)

\* extract.ts inferBlockType: explicit type, then heading, list, then style.
InferBlockType(item) ==
    IF item.table THEN "table"
    ELSE IF item.level > 0 THEN "heading"
    ELSE IF item.list THEN "list_item"
    ELSE IF item.style \in {"toc", "header_footer", "image_caption"} THEN item.style
    ELSE "paragraph"

\* extract.ts extractSourceBlocks: the blocks, numbered in file order.
SourceBlocks(items) ==
    [n \in DOMAIN items |->
        [order |-> n, type |-> InferBlockType(items[n]),
         text |-> items[n].text, level |-> items[n].level]]

-----------------------------------------------------------------------------
(* Normalisation *)

\* Texts shorter than limit that at least `times` blocks of the type repeat.
Repeated(blocks, type, limit, times) ==
    LET Of(text) == {n \in DOMAIN blocks : blocks[n].type = type /\ blocks[n].text = text}
    IN  {text \in DOMAIN Sentences : Length(text) < limit /\ Cardinality(Of(text)) >= times}

\* normalize.ts detectTitleRepetitions, detectHeaderFooterRepetitions.
TitleRepetitions(blocks) == Repeated(blocks, "heading", ShortTitle, 3)
FooterRepetitions(blocks) == Repeated(blocks, "paragraph", ShortLine, 4)

\* Why a block is left out of every slice, or "none".
ExcludedReason(blocks, block) ==
    IF block.type \in {"toc", "header_footer"} THEN block.type
    ELSE IF block.type = "heading" /\ block.text \in TitleRepetitions(blocks)
         THEN "repeated_title"
    ELSE IF block.type = "paragraph" /\ block.text \in FooterRepetitions(blocks)
         THEN "repeated_footer"
    ELSE "none"

\* The heading path after a block: a heading of level k keeps k - 1 entries.
\* An excluded heading changes the path all the same.
HeadingPath(path, block) ==
    IF block.type # "heading" \/ block.level = 0 THEN path
    ELSE Append(SubSeq(path, 1, IF Len(path) < block.level THEN Len(path)
                                ELSE block.level - 1), block.text)

\* normalize.ts normalizeSourceBlocks: path and inclusion of every block.
NormalizeSourceBlocks(blocks) ==
    LET path[n \in 0..Len(blocks)] ==
            IF n = 0 THEN <<>> ELSE HeadingPath(path[n - 1], blocks[n])
    IN  [n \in DOMAIN blocks |->
            [order |-> blocks[n].order, type |-> blocks[n].type, text |-> blocks[n].text,
             sectionPath |-> path[n], excluded |-> ExcludedReason(blocks, blocks[n])]]

\* What is included in a slice, in the order of the file.
Included(normalized) ==
    LET kept == InOrder({n \in DOMAIN normalized : normalized[n].excluded = "none"})
    IN  [n \in DOMAIN kept |-> normalized[kept[n]]]

-----------------------------------------------------------------------------
(* Slicing *)

\* slicer.ts groupBlocksByHeading: a heading opens a group, and so does the
\* first block.  The group of a block lasts until the next one opens.
Opens(blocks, n) == n = 1 \/ blocks[n].type = "heading"
GroupStart(blocks, n) == Max({k \in 1..n : Opens(blocks, k)})
GroupEnd(blocks, n) == Min({k \in n..Len(blocks) : k = Len(blocks) \/ Opens(blocks, k + 1)})
Group(blocks, n) == SubSeq(blocks, GroupStart(blocks, n), GroupEnd(blocks, n))

\* Mutant of HasBody: a heading counts as the body of a part, text does not.
HasHeading(blocks) == \E n \in DOMAIN blocks : blocks[n].type = "heading"
HasBody(blocks) == \E n \in DOMAIN blocks : blocks[n].type # "heading"

\* An open part ends before a block that makes its body too long, and after an
\* oversized one that met no body.
Ends(part, block) ==
    \/ HasBody(part) /\ BlocksLength(part) + Length(block.text) > MaxParent
    \/ Length(Last(part).text) > MaxParent /\ ~HasBody(Front(part))

\* slicer.ts splitBlockGroupIntoDraftGroups: a block begins a part when its group
\* opens, or when the part that is open since `open` ends and the group is over
\* the limit.
BeginsPart(blocks, n, open) ==
    \/ Opens(blocks, n)
    \/ /\ BlocksLength(Group(blocks, n)) > MaxParent
       /\ Ends(SubSeq(blocks, open, n - 1), blocks[n])

\* Where the part of each block begins.
PartStart(blocks) ==
    LET start[n \in 0..Len(blocks)] ==
            IF n = 0 THEN 0
            ELSE IF BeginsPart(blocks, n, start[n - 1]) THEN n ELSE start[n - 1]
    IN  start

\* slicer.ts buildDraftSlices: the slices of the file in order.  `part` is 0
\* for a group that was not split; the title of a part ends in its number.
BuildDraftSlices(included) ==
    LET start == PartStart(included)
        begins == {n \in DOMAIN included : start[n] = n}
        from == InOrder(begins)
        To(k) == IF k = Len(from) THEN Len(included) ELSE from[k + 1] - 1
        Parts(k) == {n \in begins : GroupStart(included, n) = GroupStart(included, from[k])}
        Heading(k) == included[GroupStart(included, from[k])]
        Headed(k) == Heading(k).type = "heading"
    IN  [k \in DOMAIN from |->
            [title |-> IF Headed(k) THEN Heading(k).text ELSE FileTitle,
             part |-> IF Cardinality(Parts(k)) = 1 THEN 0
                      ELSE Cardinality({n \in Parts(k) : n <= from[k]}),
             sectionPath |-> IF Headed(k) THEN Heading(k).sectionPath ELSE <<>>,
             blocks |-> SubSeq(included, from[k], To(k))]]

Slices(items) == BuildDraftSlices(Included(NormalizeSourceBlocks(SourceBlocks(items))))
=============================================================================
