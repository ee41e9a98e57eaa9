SPECIFICATION Spec
CONSTANTS
  Families <- AllFamilies
  Captures = 4
  Uncaptured = 1
  DayCount = 2
  RefundCount = 2
  PartialRefunds = 1
  DisputeCount = 1
  Draws <- TwoDraws
  Delays <- SameOrNextDay
  Late = 1
  Early = 0
  LateWindow = 1
  RateChangeDay = 2
  MinCredit = 1000
  MinRefund = 25
  SubTau <- Deltas
  Amb5Days = 1
  Amb5Drop = 2
  Ben1Days = 1
  Ben1Drop = 1
  Ben2Days = 0
  Ben2Drop = 2
  Ben3Gap = 100
  Rate <- SmallRates
  F05Selected = 1
INVARIANTS
  TruthReconciles
