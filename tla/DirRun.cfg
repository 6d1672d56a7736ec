SPECIFICATION FairSpec
CONSTANTS
  Reqs <- AllReqs
  Results <- AllResults
  LineKinds = {"progress", "skipped", "noDash"}
  retryMaxLimit = 3
  MaxLimit = 3
  MaxVanished = 2
  MaxLines = 3
  PipeCap = 1
INVARIANTS
  RetryBudget
  NoFalseSuccess
  UnexplainedFailureIsReported
  ReportSkew
PROPERTIES
  ReportsNeverRecede
  RunTerminates
