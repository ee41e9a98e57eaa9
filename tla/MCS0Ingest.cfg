CONSTANTS
  MAX_PAISE = 200
  Throws = Throws
  Batches <- MCBatches
  From = 1
  To = 5
  NormalizedUtr <- MCNormalizedUtr
  Totals <- MCTotals
  Weights <- MCWeights
  Divisors = {1, 2, 3, 4}
SPECIFICATION Spec
INVARIANTS
  CandidatesAreSound
  MoneyExact
CHECK_DEADLOCK FALSE
