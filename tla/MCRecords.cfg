SPECIFICATION MCSpec
CONSTANTS
  Payloads = {p1, p2}
  Runs = {r1, r2}
  EvtIds = {e1, e2, e3}
  MaxEvents = 3
  MaxDamage = 3
  SafeMax = 3
  MaxDecisions = 2
  MaxFaults = 1
  Stores = {"log", "observations", "terminal", "queue", "posted"}
  Amounts = {1, 2}
  Batches = {3}
  Multiviews = {0, 1}
  LegacyMaxUnresolved = 1
  SafePaise = 40000
  MaxUnresolvedRatioBps = 5000
INVARIANTS
  VerifiesWhatWasSealed
  FaultReportedWhereMade
  FaultIsPlaced
  HashCoversReport
SYMMETRY Symmetry
CHECK_DEADLOCK FALSE
