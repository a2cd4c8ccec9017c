SPECIFICATION FilesSpec
CONSTANTS
    Sentences <- MCSentences
    FileTitle = "file"
    ShortTitle = 60
    ShortLine = 80
    MaxParent = 9
    MaxChars = 8
    MinChars = 3
    OverlapChars = 2
    Sliding = FALSE
    Paragraphs <- MCParagraphs
    MaxItems = 4
    Imported <- MCImported
    MinBody = 5
    ListHead = 2
    BlockId = 1
    AnswerBearing = {"rule", "long"}
    MinTerms = 3
    AsciiTitles = TRUE
    Gates = {"warn", "strict"}
    AsyncRebuild = TRUE
    MaxOps = 5
INVARIANTS
    SlicesTellTheSource
    ChunksTellTheText
    BlocksAreCarried
    
CHECK_DEADLOCK FALSE
