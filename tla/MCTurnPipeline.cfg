CONSTANTS
  i1 = i1  i2 = i2
  Askers <- AllAskers
  Proposals <- AllProposals
  Verdicts <- AllVerdicts
  Stores <- AllStores
  CaseLimit = 2
  Searches <- AllSearches
  Responses <- AllResponses
  MaxTurns = 2
SPECIFICATION Spec
INVARIANTS
  SettledAgrees
PROPERTIES
  ReviewedAnswerIsKept
  AnswersTheQuestionAsked
\* After the last turn there is nothing to do.
CHECK_DEADLOCK FALSE
