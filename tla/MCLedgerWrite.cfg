CONSTANTS
  rec1 = rec1
  rec2 = rec2
  exc = exc
  abst = abst
  failed = failed
  uncertified = uncertified
  lopsided = lopsided
  Decisions = {rec1, rec2, exc, abst, failed, uncertified, lopsided}
  EventIds = {e1, e2, e3, e4}
  Attr <- MCAttr
  SafeMax = 5
SPECIFICATION Spec
INVARIANTS
  TypeOK
  StoredChainLinked
  PostedOnce
  RepliesTellTheTruth
PROPERTIES
  RefinesDecisionLog
