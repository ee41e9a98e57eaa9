SPECIFICATION BSpec
CONSTANTS
  TMin = 1
  TMax = 2
  KMax = 3
  CMax = 7
  MaxUnresolvedRatioBps = 50
  Inputs <- AllInputs
  Agents = {"ASSAY", "A1-NOVALIDATE", "A2-NOABSTAIN"}
INVARIANTS
  AllocatedOnce
  MemberFollowsTarget
  BankFollowsStatement
  OpenIsQueued
  EndsUnblocked
  CutSearchAbstains
  FloorHolds
