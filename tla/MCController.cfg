CONSTANTS
  Decisions = {1, 2, 3, 4}
  Value <- MCValue
  Keyed = {2, 3, 4}
  Certified = {2, 3}
  Runs <- MCRuns
  Budgets = {0, 1, 3, 5, 8, 9, 11, 14, 15, 20}
SPECIFICATION ReportFairSpec
INVARIANTS
  StepsBounded
  DefectNeverCompletes
  EscalatesThePlan
  ClosingSetSuffices
  TelemetryTellsWhy
PROPERTIES
  Terminates
CHECK_DEADLOCK FALSE
