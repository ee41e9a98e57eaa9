SPECIFICATION MCSpec
CONSTANTS
  TMin = 1
  TMax = 3
  KMax = 3
  CMax = 15
  KOracle = 3
  COracle = 15
  CGates = 6
  TauFloor = 1
  TauRate = 100
  MaxUnresolvedRatioBps = 3250
  CReview = 2
  CException = 1
  Draws = 1
  MemberMax = 2
  Agents = {"ASSAY", "A2-NOABSTAIN"}
  Inputs <- Datasets
INVARIANTS
  TruthIsFound
  BothAgree
  MetricsAgree
  BatchIsAccountedFor
