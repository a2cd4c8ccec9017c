CONSTANTS
  Tickets = {"a"}
  Sources <- Rows
  NoSource <- NoRow
  Jobs = {"j1", "j2"}
  Batches <- OneFile
  Drafts = {"d1", "d2"}
  MaxCalls = 2
  Tries = 2
  MaxImports = 2
  MaxWithdrawals = 1
  MaxStops = 1
SPECIFICATION Spec
INVARIANT BudgetHolds
PROPERTIES
  ImplementsCatalogue
  JobSettles
\* Every ticket may be settled and every import done.
CHECK_DEADLOCK FALSE
