----------------------------- MODULE MCCommands -----------------------------
(***************************************************************************)
(* Small instances of the command line's two jobs over a benchmark         *)
(* directory.  A behaviour either makes and seals datasets (Pipeline) or   *)
(* scores what was sealed (Bench), over an empty directory of the other's  *)
(* files; one command runs at a time in both.                              *)
(***************************************************************************)
EXTENDS Pipeline

CONSTANTS TrainSeeds, Epsilons, OperatingPoint, Floors, Requests, RunIds, MaxRows,
          MaxBenchCommands

VARIABLES
  tool,                                                  \* which of the two
  files, cache, filed, printed, recorded, opened, dead   \* Bench's own

benchVars == <<files, cache, filed, printed, recorded, opened, dead>>
datasetVars == <<version, faults, disk, prescribed>>

Scored == INSTANCE Bench WITH MaxCommands <- MaxBenchCommands

ASSUME BenchAssumption == Scored!BenchDeclared

\* One seed of TRAIN and TEST, two of DEV; three grid points; the second request is
\* Tier0 of Bench.
MCEpsilons == <<0, 25, 50>>
MCFloors == <<10, 100>>
MCRequests == {{"ASSAY", "B0-IDONLY"},
               {"ASSAY", "B0-IDONLY", "B2-LLM-DIRECT", "A1-NOVALIDATE", "A2-NOABSTAIN", "A3-NOLLM"}}

MCInit ==
  \/ /\ tool = "dataset" /\ Init
     /\ files = <<>> /\ cache = FALSE /\ filed = <<>> /\ printed = Scored!NoTable
     /\ recorded = {} /\ opened = {} /\ dead = {}
  \/ tool = "bench" /\ Init /\ faults = {} /\ Scored!Init

MCNext ==
  \/ tool = "dataset" /\ Next /\ UNCHANGED <<tool, benchVars>>
  \/ tool = "bench" /\ Scored!Next /\ UNCHANGED <<tool, datasetVars>>

MCSpec == MCInit /\ [][MCNext]_<<tool, vars, benchVars>>

\* What Bench promises: every metrics.json is whole and of its own key (bench.ts).
MetricsAreWhole == Scored!UnitsAreWhole
=============================================================================
