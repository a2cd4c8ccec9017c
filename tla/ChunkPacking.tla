---------------------------- MODULE ChunkPacking ----------------------------
(***************************************************************************)
(* How the body of a published document becomes the child chunks that are  *)
(* indexed: src/src/knowledge/documents/chunks.ts, chunk-rebalance.ts and  *)
(* chunk-utils.ts.                                                         *)
(*                                                                         *)
(* A body is a sequence of blocks [section, sentences]; a text is a        *)
(* sequence of tokens, one per sentence, with a break of two characters    *)
(* between joined blocks.  Only the last sentence of a block may lack its  *)
(* full stop.  A token cut out of a sentence by a sliding overlap is not   *)
(* `whole`.                                                                *)
(***************************************************************************)
EXTENDS Integers, Sequences, SequencesExt, FiniteSets

CONSTANTS
    MaxChars,         \* 800 by default
    MinChars,         \* 80 by default, at most MaxChars
    OverlapChars,     \* 120 by default, at most MaxChars
    Sliding           \* overlapStrategy: "sliding" or, when FALSE, "sentence"

\* chunk-utils.ts normalizeChunkingOptions caps both by maxChars.
ASSUME ChunkingOptions ==
    /\ MaxChars \in Nat \ {0} /\ MinChars \in 1..MaxChars
    /\ OverlapChars \in 0..MaxChars /\ Sliding \in BOOLEAN

Break == [block |-> 0, sentence |-> 0, size |-> 2, ended |-> TRUE, whole |-> FALSE]

Chars(text) == FoldLeft(LAMBDA n, t : n + t.size, 0, text)

Least(set) == CHOOSE n \in set : \A k \in set : n <= k
Greatest(set) == CHOOSE n \in set : \A k \in set : k <= n

\* Text with the breaks at its two ends trimmed.
Between(text, kept) == IF kept = {} THEN <<>> ELSE SubSeq(text, Least(kept), Greatest(kept))
Trim(text) == Between(text, {n \in DOMAIN text : text[n] # Break})

\* Mutant of Joined: the parts change places.
JoinedBefore(left, right) ==
    IF left = <<>> THEN right ELSE IF right = <<>> THEN left
    ELSE right \o <<Break>> \o left

Joined(left, right) ==
    IF left = <<>> THEN right ELSE IF right = <<>> THEN left
    ELSE left \o <<Break>> \o right

\* The last n characters of a text; the first token may be cut.
LastChars(text, n) ==
    LET Take(token, acc) ==
            LET room == n - Chars(acc) IN
            IF room <= 0 THEN acc
            ELSE IF token.size <= room THEN <<token>> \o acc
            ELSE <<[token EXCEPT !.size = room, !.whole = FALSE]>> \o acc
    IN  Trim(FoldRight(Take, text, <<>>))

\* The sentences of a text: tokens up to and with a full stop.  Breaks do not
\* end one, and what follows the last full stop is none.
Stops(text) == {n \in DOMAIN text : text[n].ended /\ text[n] # Break}
LastOf(text, stops) ==
    IF stops = {} THEN <<>>
    ELSE Trim(SubSeq(text, 1 + Greatest({0} \cup (stops \ {Greatest(stops)})), Greatest(stops)))
LastSentence(text) == LastOf(text, Stops(text))

\* chunk-utils.ts lastBoundedCompleteSentence, <<>> when there is none.
Bounded(sentence) == IF Chars(sentence) <= OverlapChars THEN sentence ELSE <<>>
LastBoundedSentence(text) == Bounded(LastSentence(text))

\* chunk-utils.ts overlapText: what the next chunk repeats of this one.
OverlapText(text) ==
    IF OverlapChars = 0 THEN <<>>
    ELSE IF Sliding THEN LastChars(text, OverlapChars)
    ELSE LastBoundedSentence(text)

\* chunk-utils.ts windowOverlap: here the last sentence need not be complete.
WindowOverlap(window) ==
    IF OverlapChars = 0 \/ window = <<>> THEN <<>>
    ELSE IF Sliding THEN LastChars(window, OverlapChars)
    ELSE IF Last(window).size <= OverlapChars THEN <<Last(window)>> ELSE <<>>

Child(text, blocks, manual, overlap, undersized) ==
    [text |-> text, blocks |-> blocks, manual |-> manual,
     overlap |-> overlap, undersized |-> undersized]

-----------------------------------------------------------------------------
(* Packing *)

\* chunks.ts splitLongBlock: windows of whole sentences; a block with one
\* sentence, or with a sentence over the limit, is left whole and marked.
SplitLongBlock(block, text) ==
    LET Step(acc, token) ==
            LET full == acc.window # <<>> /\ Chars(acc.window) + token.size > MaxChars
                overlap == WindowOverlap(acc.window)
            IN  IF full
                THEN [children |-> Append(acc.children,
                                          Child(acc.window, {block}, FALSE, acc.overlap, FALSE)),
                      window |-> Append(overlap, token), overlap |-> Chars(overlap)]
                ELSE [acc EXCEPT !.window = Append(@, token)]
        end == FoldLeft(Step, [children |-> <<>>, window |-> <<>>, overlap |-> 0], text)
    IN  IF Len(text) <= 1 \/ \E n \in DOMAIN text : text[n].size > MaxChars
        THEN <<Child(text, {block}, TRUE, 0, Chars(text) < MinChars)>>
        ELSE Append(end.children, Child(end.window, {block}, FALSE, end.overlap, FALSE))

\* chunk-rebalance.ts rebalancePair: the ways to move the tail of the previous
\* child to an undersized one, the most even first; <<>> when there is none.
LeftPart(text, n) == Trim(SubSeq(text, 1, n))
RightPart(text, n, following) == Joined(Trim(SubSeq(text, n + 1, Len(text))), following)
Fits(part) == Chars(part) \in MinChars..MaxChars

Boundaries(text, following) ==
    {n \in 1..(Len(text) - 1) :
        /\ text[n].ended /\ Trim(SubSeq(text, n + 1, Len(text))) # <<>>
        /\ Fits(LeftPart(text, n)) /\ Fits(RightPart(text, n, following))}

Imbalance(text, n, following) ==
    LET d == Chars(LeftPart(text, n)) - Chars(RightPart(text, n, following)) IN
    IF d < 0 THEN -d ELSE d

\* Of the boundaries the most even one, the first of those.
MostEven(boundaries, cost) ==
    CHOOSE n \in boundaries : \A k \in boundaries :
        cost[n] < cost[k] \/ (cost[n] = cost[k] /\ n <= k)

\* The sentence repeated in front of the right part is dropped again when it
\* makes the part too long.
RightChild(previous, child, right, overlap) ==
    Child(overlap \o right, previous.blocks \cup child.blocks,
          previous.manual \/ child.manual, Chars(overlap), FALSE)

DividedAt(previous, child, left, right) ==
    LET overlap == IF OverlapChars > 0 THEN LastBoundedSentence(left) ELSE <<>> IN
    << [previous EXCEPT !.text = left, !.undersized = FALSE],
       RightChild(previous, child, right,
                  IF Chars(overlap) + Chars(right) <= MaxChars THEN overlap ELSE <<>>) >>

RebalanceAt(previous, child, boundaries) ==
    IF boundaries = {} THEN <<>>
    ELSE LET best == MostEven(boundaries,
                              [n \in boundaries |-> Imbalance(previous.text, n, child.text)])
         IN  DividedAt(previous, child, LeftPart(previous.text, best),
                       RightPart(previous.text, best, child.text))

RebalancePair(previous, child) ==
    RebalanceAt(previous, child, Boundaries(previous.text, child.text))

\* chunk-rebalance.ts rebalanceUndersized: from the last child to the second,
\* an undersized child is merged into the one before, or takes its tail, or is
\* marked.  The first child is never marked.
Rebalanced(previous, child, merged, pair) ==
    IF Chars(child.text) >= MinChars THEN <<previous, child>>
    ELSE IF Chars(merged) <= MaxChars
    THEN <<Child(merged, previous.blocks \cup child.blocks,
                 previous.manual \/ child.manual, 0, FALSE)>>
    ELSE IF pair # <<>> THEN pair
    ELSE <<previous, [child EXCEPT !.undersized = TRUE]>>

RebalanceUndersized(children) ==
    LET Step(previous, done) ==
            Rebalanced(previous, Head(done), Joined(previous.text, Head(done).text),
                       RebalancePair(previous, Head(done))) \o Tail(done)
    IN  IF Len(children) < 2
        THEN [n \in DOMAIN children |->
                 [children[n] EXCEPT !.undersized = Chars(children[n].text) < MinChars]]
        ELSE FoldRight(Step, Front(children), <<Last(children)>>)

\* chunks.ts packSection: blocks are joined while they fit; a new child starts
\* with the overlap of the last block, and the sum is not checked again.
PackSection(blocks) ==
    LET Flush(acc) ==
            IF acc.text = <<>> THEN acc
            ELSE [children |-> Append(acc.children,
                                      Child(acc.text, acc.blocks, FALSE, acc.overlap, FALSE)),
                  text |-> <<>>, last |-> <<>>, blocks |-> {}, overlap |-> 0]
        Push(acc, block) ==
            [acc EXCEPT !.text = Joined(@, block.text), !.last = block.text,
                        !.blocks = @ \cup {block.index}]
        Step(acc, block) ==
            LET overlap == OverlapText(acc.last) IN
            IF Chars(block.text) > MaxChars
            THEN [Flush(acc) EXCEPT !.children = @ \o SplitLongBlock(block.index, block.text)]
            ELSE IF acc.text # <<>> /\ Chars(Joined(acc.text, block.text)) > MaxChars
            THEN Push([Flush(acc) EXCEPT !.text = overlap, !.overlap = Chars(overlap)], block)
            ELSE Push(acc, block)
        start == [children |-> <<>>, text |-> <<>>, last |-> <<>>, blocks |-> {}, overlap |-> 0]
    IN  RebalanceUndersized(Flush(FoldLeft(Step, start, blocks)).children)

\* The tokens of the sentences of the block with this index.
Tokens(index, sentences) ==
    [n \in DOMAIN sentences |->
        [block |-> index, sentence |-> n, size |-> sentences[n].size,
         ended |-> sentences[n].ended, whole |-> TRUE]]

\* chunks.ts sectionBlocks: the blocks of a body, numbered in order.
SectionBlocks(body) ==
    [n \in DOMAIN body |->
        [section |-> body[n].section, index |-> n, text |-> Tokens(n, body[n].sentences)]]

\* chunks.ts buildSectionChildren, chunkDocument: blocks of equal section path
\* are packed together wherever they stand, sections in order of appearance.
ChunkDocument(body) ==
    LET blocks == SectionBlocks(body)
        sections == FoldLeft(LAMBDA seen, b : IF b.section \in ToSet(seen) THEN seen
                                              ELSE Append(seen, b.section), <<>>, blocks)
    IN  FlattenSeq([n \in DOMAIN sections |->
            PackSection(SelectSeq(blocks, LAMBDA b : b.section = sections[n]))])
=============================================================================
