CONSTANTS
  Members = {"m1", "m2", "m3"}
  Ids = {1, 2, 3, 4}
  NoId = 99
  PMax = 3
  EpsilonBps = 1500
  SE3Bps = 1500
  SE5Bps = 2000
  TicksPerDay = 2
  WindowDays = 6
  TauFloorPaise = 10
  TauBps = 10
  Components <- MCComponents
  Observed = {1, 2, 3}
  Shaped = {1, 2, 3}
  Batch <- MCBatch
  Contexts = {{}, {2}, {1, 2, 4}, {3}}
  Providers = {"offline", "replay", "live"}
  Retries = 1
SPECIFICATION FairSpec
INVARIANTS
  TypeOK
  EveryProbeLogged
  SolveFollowsEvidence
  ResolvedByOwnReport
PROPERTIES
  ProbesJustified
  Terminates
CHECK_DEADLOCK FALSE
