CONSTANTS
  i1 = i1  i2 = i2  other = other
  Items <- TwoItems
  Requests <- AllRequests
  CoverageAnswers <- Answers
  ClaimLimit = 2
  EvidenceLimit = 2
  Question = 4
  TotalLimit = 20
  CaseModule = "m1"
  Days = {"monday"}
  Issue = "4711"
  IssueModules = {"m1", "m2"}
  MaxCommands = 3
SPECIFICATION CasesSpec
INVARIANTS
  FinalIsProven
  ReplyAgrees
  ShownIsReviewed
  KeepsContract
  ActiveCardWasAccepted
\* A review ends.
CHECK_DEADLOCK FALSE
