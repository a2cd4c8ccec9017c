SPECIFICATION SearchSpec
CONSTANTS
    Documents = {"a", "b"}
    ParentOf <- MCParentOf
    Contents <- MCContents
    Answering = {"a2", "b1"}
    BuiltTrusted = {"a1", "b1", "b2"}
    Embeddable = {"a1", "b1", "b2"}
    Models = {"bge", "other"}
    QueryModel = "bge"
    BatchSize = 2
    MaxAttempts = 2
    MaxGenerations = 3
    RecallLimit = 2
    FusionLimit = 3
    Limit = 2
    Scores = {1, 3}
    Returned = 2
    MaxChanges = 1
ACTION_CONSTRAINT
    QuietAfterRecall
VIEW SearchView
INVARIANTS
    OneGeneration
    FusionRespectsAgreement
    RerankKeepsCandidates
CHECK_DEADLOCK FALSE
