CONSTANTS
  Issues <- TwoIssues
  LocatorIn <- OneInTwelve
  Grounds <- AllGrounds
  WorkerReplies <- AllReplies
  Judgements <- AllJudgements
  TTL = 1
  Tracked <- ThreeIssues
  PageSize = 1
  MaxPages = 3
  Backends = {"rest_search", "issues_scan"}
  MayLeave = FALSE
  MaxChanges = 2
VIEW InvestigationView
SPECIFICATION Spec
INVARIANTS
  ConfirmedByBothSources
  UntouchedIssuesAreFound
  NothingIsSaidOnlyWhenNobodyAnswered
\* The turn ends.
CHECK_DEADLOCK FALSE
