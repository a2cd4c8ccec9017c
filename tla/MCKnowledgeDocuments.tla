------------------------ MODULE MCKnowledgeDocuments ------------------------
(* KnowledgeDocuments for TLC: every file of up to MaxItems items is sliced  *)
(* and chunked, and three of them go through the pipeline.                   *)
EXTENDS KnowledgeDocuments

Ended(n) == [size |-> n, ended |-> TRUE]
Open(n) == [size |-> n, ended |-> FALSE]

MCSentences ==
    [head |-> <<Open(1)>>, sub |-> <<Open(1)>>,
     rule |-> <<Ended(2), Ended(2)>>, note |-> <<Open(3)>>, crumb |-> <<Ended(1)>>,
     long |-> <<Ended(3), Ended(4), Ended(2)>>, wall |-> <<Ended(9)>>]

Item(name, level) ==
    [text |-> name, level |-> level, style |-> "none", list |-> FALSE, table |-> FALSE]
Paragraph(name) == Item(name, 0)
Chapter == Item("head", 1)
Heading == Item("sub", 2)

MCParagraphs ==
    {Chapter, Heading, [Paragraph("rule") EXCEPT !.style = "toc"]}
    \cup {Paragraph(name) : name \in {"rule", "crumb", "long", "wall"}}

\* Two sections, the first without a heading; one paragraph that cannot be cut.
MCImported ==
    {<<Paragraph("rule"), Heading, Paragraph("rule")>>, <<Heading, Paragraph("wall")>>}

-----------------------------------------------------------------------------
Whole(said) == SelectSeq(said, LAMBDA token : token.whole)
Once(said) == FoldLeft(LAMBDA seen, token : IF token \in ToSet(seen) THEN seen
                                            ELSE Append(seen, token), <<>>, said)
Body == [n \in DOMAIN text |->
            [section |-> text[n].level, sentences |-> Sentences[text[n].text]]]
Sections == Once([n \in DOMAIN text |-> [whole |-> TRUE, name |-> text[n].level]])
Said(section) == FlattenSeq([n \in DOMAIN text |->
    IF text[n].level = section THEN Tokens(n, Sentences[text[n].text]) ELSE <<>>])

\* Chunking a body tells what it says: without the repeated tails, the chunks
\* of a section hold its sentences in order, once, and a chunk that is not
\* marked for manual splitting exceeds maxChars by at most the tail repeated in
\* front of it and one break (chunks.ts packSection, chunk-rebalance.ts).
ChunksTellTheText ==
    ~meta => \E chunks \in {ChunkDocument(Body)} :
                 /\ Once(Whole(FlattenSeq([n \in DOMAIN chunks |-> chunks[n].text])))
                      = FlattenSeq([n \in DOMAIN Sections |-> Said(Sections[n].name)])
                 /\ \A n \in DOMAIN chunks :
                        chunks[n].manual \/ Chars(chunks[n].text) <= MaxChars + OverlapChars + 2
=============================================================================
