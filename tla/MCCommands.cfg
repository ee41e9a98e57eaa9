SPECIFICATION MCSpec
CONSTANTS
  TrainSeeds = {4}
  DevSeeds = {1, 2}
  TestSeeds = {3}
  Epsilons <- MCEpsilons
  OperatingPoint = 25
  Floors <- MCFloors
  Requests <- MCRequests
  RunIds = {r1}
  r1 = r1
  MaxRows = 4
  MaxBenchCommands = 2
  MaxVersion = 2
  MaxCommands = 4
INVARIANTS
  ProcedureSeals
  MetricsAreWhole
CHECK_DEADLOCK FALSE
