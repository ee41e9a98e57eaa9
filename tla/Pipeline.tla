------------------------------ MODULE Pipeline ------------------------------
(***************************************************************************)
(* The dataset commands of apps/cli over one benchmark directory:          *)
(* `assay generate`, `assay oracle` and `assay seal`                       *)
(* (commands/generate.ts, oracle.ts, seal.ts, with artifacts/gate.ts and   *)
(* the files of packages/generator's dataset.ts and manifest.ts).          *)
(*                                                                         *)
(* One command runs at a time and may be killed between two writes.        *)
(* Between commands the generator may move on (a commit).  A dataset is    *)
(* what one version generates at one seed: equal datasets have equal       *)
(* bytes, so a digest is the dataset's seed and version.  What the gates   *)
(* find in a dataset is fixed from the start; what they find in a mixture  *)
(* of two versions is left open.                                           *)
(***************************************************************************)
EXTENDS Naturals, Sequences, FiniteSetsExt

CONSTANTS DevSeeds,      \* the declared seeds of the dev split
          TestSeeds,     \* the declared seeds of the test split, none of dev
          MaxVersion,    \* versions of the generator, at least 1
          MaxCommands    \* commands of a behaviour

VARIABLES version,    \* of the code the next command runs
          faults,     \* <<seed, version, gate>> the gates would find
          disk,       \* the artifacts under bench/
          job,        \* the command in progress
          commands,   \* how many were begun
          prescribed  \* per seed, how far an uninterrupted procedure has come

vars == <<version, faults, disk, job, commands, prescribed>>

Splits == {"dev", "test"}
Seeds == DevSeeds \cup TestSeeds
SeedsOf(split) == IF split = "dev" THEN DevSeeds ELSE TestSeeds
SplitOf(seed) == IF seed \in DevSeeds THEN "dev" ELSE "test"

\* What the declared seeds are: numbers, each of one split.
SeedsDeclared == Seeds \subseteq Nat /\ DevSeeds \cap TestSeeds = {}
ASSUME SeedsAssumption == SeedsDeclared

Absent == 0      \* a file that was never written; versions are 1..MaxVersion
Versions == 1..MaxVersion

NoGate == [obs |-> Absent, truth |-> Absent, completeness |-> FALSE,
           consistency |-> FALSE, authoritative |-> FALSE]
NoManifest == [obs |-> Absent, truth |-> Absent, labels |-> Absent, report |-> {},
               gate |-> NoGate, gateOf |-> 0, prescribed |-> FALSE]
Idle == [cmd |-> "none"]

-----------------------------------------------------------------------------
(* Which zone may open what: fs/guard.ts                                   *)

Unlocked(artifact) ==
  CASE artifact = "ground_truth" -> {"GENERATOR_TRUST"}
    [] artifact = "recon_report" -> {"PROBE_DISPATCH", "SEAL"}
    [] OTHER -> {"AGENT", "GENERATOR_TRUST", "PROBE_DISPATCH", "SEAL"}

Reads(seed, artifact, zone) ==
  zone \in Unlocked(artifact) /\ disk[artifact][seed] # Absent

-----------------------------------------------------------------------------
(* generate: three files per seed, then the report of this invocation.     *)
(* A command takes its seeds in ascending order.                           *)

\* --seal-tag is demanded by the test split and refused by the others.
Attested(split, tag) == tag = (split = "test")

\* buildDataset, at the version of the code that is running.
Dataset(seed) == <<seed, version>>

\* The three files of one seed, in the order they are written.
SeedFileWritten(file, seed) ==
  CASE file = 1 -> [disk EXCEPT !.observations[seed] = version]
    [] file = 2 -> [disk EXCEPT !.untrusted_text[seed] = version]
    [] file = 3 -> [disk EXCEPT !.ground_truth[seed] = version]

GenerateStart(split, seeds, tag) ==
  /\ job = Idle /\ commands < MaxCommands
  /\ Attested(split, tag)
  /\ seeds # {} /\ seeds \subseteq SeedsOf(split)
  /\ job' = [cmd |-> "generate", split |-> split, seeds |-> seeds,
             todo |-> seeds, file |-> 1, made |-> {}]
  /\ commands' = commands + 1
  /\ prescribed' = [s \in Seeds |-> IF SplitOf(s) = split THEN "none" ELSE prescribed[s]]
  /\ UNCHANGED <<version, faults, disk>>

WriteSeedFile ==
  /\ job.cmd = "generate" /\ job.todo # {}
  /\ LET seed == Min(job.todo)
         last == job.file = 3
     IN  /\ disk' = SeedFileWritten(job.file, seed)
         /\ job' = [job EXCEPT !.todo = IF last THEN @ \ {seed} ELSE @,
                               !.file = IF last THEN 1 ELSE @ + 1,
                               !.made = @ \cup {Dataset(seed)}]
  /\ UNCHANGED <<version, faults, commands, prescribed>>

\* Fault: the list of datasets is started anew for every seed.
MergedReportLast(made) == {d \in made : \A e \in made : e[1] <= d[1]}

\* mergeReconReports over the datasets of this invocation, then the command ends.
MergedReport(made) == made

WriteReport ==
  /\ job.cmd = "generate" /\ job.todo = {}
  /\ disk' = [disk EXCEPT !.recon_report[job.split] = MergedReport(job.made)]
  /\ prescribed' = [s \in Seeds |-> IF job.seeds = SeedsOf(job.split) /\ s \in job.seeds
                                    THEN "generated" ELSE prescribed[s]]
  /\ job' = Idle
  /\ UNCHANGED <<version, faults, commands>>

-----------------------------------------------------------------------------
(* oracle: per seed the labels, then the gates and their report            *)

\* The consistency gate draws its pairs from the dev split only.
RunsConsistencyGate(split) == split = "dev"

OracleStart(split, seeds, override) ==
  /\ job = Idle /\ commands < MaxCommands
  /\ seeds # {} /\ seeds \subseteq SeedsOf(split)
  /\ override => RunsConsistencyGate(split)
  /\ job' = [cmd |-> "oracle", split |-> split, seeds |-> seeds, todo |-> seeds,
             labelled |-> FALSE, override |-> override, failures |-> {}]
  /\ commands' = commands + 1
  /\ prescribed' = [s \in Seeds |-> IF s \in seeds /\ prescribed[s] = "gated"
                                    THEN "generated" ELSE prescribed[s]]
  /\ UNCHANGED <<version, faults, disk>>

\* A file that is not there, or may not be read: the command dies where it stands.
Dies == job' = Idle /\ UNCHANGED disk

LabelSeed ==
  /\ job.cmd = "oracle" /\ job.todo # {} /\ ~job.labelled
  /\ LET seed == Min(job.todo)
     IN  IF Reads(seed, "observations", "AGENT")
         THEN /\ disk' = [disk EXCEPT !.oracle_labels[seed] = disk.observations[seed]]
              /\ job' = [job EXCEPT !.labelled = TRUE]
         ELSE Dies
  /\ UNCHANGED <<version, faults, commands, prescribed>>

\* What a gate may say of observations and truth of these versions.
Outcomes(seed, gate, obs, truth) ==
  IF obs = truth THEN {<<seed, obs, gate>> \notin faults} ELSE BOOLEAN

GateReport(seed, complete, consistent) ==
  [obs |-> disk.observations[seed], truth |-> disk.ground_truth[seed],
   completeness |-> complete,
   consistency |-> RunsConsistencyGate(job.split) => consistent,
   authoritative |-> ~job.override]

\* gateReport.passed, which the command's exit code reports and the seal does not read.
GatePassed(gate) == gate.completeness /\ gate.consistency

GateSeed ==
  /\ job.cmd = "oracle" /\ job.todo # {} /\ job.labelled
  /\ LET seed == Min(job.todo)
         obs == disk.observations[seed]
         truth == disk.ground_truth[seed]
     IN  \/ /\ Reads(seed, "ground_truth", "GENERATOR_TRUST")
            /\ \E complete \in Outcomes(seed, "completeness", obs, truth),
                  consistent \in Outcomes(seed, "consistency", obs, obs) :
                 LET gate == GateReport(seed, complete, consistent)
                 IN  /\ disk' = [disk EXCEPT !.oracle_gate[seed] = gate]
                     /\ job' = [job EXCEPT !.todo = @ \ {seed}, !.labelled = FALSE,
                                           !.failures = IF GatePassed(gate) THEN @
                                                        ELSE @ \cup {seed}]
                     /\ prescribed' = [prescribed EXCEPT
                          ![seed] = IF @ = "generated" THEN "gated" ELSE @]
         \* no truth, or a truth that names a settlement these observations lack
         \/ /\ obs # truth
            /\ Dies
            /\ UNCHANGED prescribed
  /\ UNCHANGED <<version, faults, commands>>

\* The exit status: GateFailedError names the seeds that failed.
OracleEnds ==
  /\ job.cmd = "oracle" /\ job.todo = {}
  /\ job' = Idle
  /\ prescribed' = [s \in Seeds |-> IF s \in job.failures THEN "none" ELSE prescribed[s]]
  /\ UNCHANGED <<version, faults, disk, commands>>

-----------------------------------------------------------------------------
(* seal: one manifest per seed                                             *)

\* All the seal asks of the gate artifact it is pointed at.
GateArtifactPasses(gate) == gate.completeness

Manifest(seed, gateOf) ==
  [obs |-> disk.observations[seed], truth |-> disk.ground_truth[seed],
   labels |-> disk.oracle_labels[seed], report |-> disk.recon_report[SplitOf(seed)],
   gate |-> disk.oracle_gate[gateOf], gateOf |-> gateOf,
   prescribed |-> prescribed[seed] = "gated" /\ gateOf = seed]

\* --oracle-gate may name any seed's artifact; the other flags name this seed's.
Seal(seed, gateOf) ==
  /\ job = Idle /\ commands < MaxCommands
  /\ disk.oracle_gate[gateOf] # NoGate
  /\ GateArtifactPasses(disk.oracle_gate[gateOf])
  /\ Reads(seed, "observations", "AGENT")
  /\ Reads(seed, "ground_truth", "GENERATOR_TRUST")
  /\ Reads(seed, "oracle_labels", "AGENT")
  /\ "SEAL" \in Unlocked("recon_report") /\ disk.recon_report[SplitOf(seed)] # {}
  /\ disk' = [disk EXCEPT !.manifest[seed] = Manifest(seed, gateOf)]
  /\ commands' = commands + 1
  /\ UNCHANGED <<version, faults, job, prescribed>>

-----------------------------------------------------------------------------
Init ==
  /\ version = 1
  /\ \/ faults = {}
     \/ \E s \in Seeds, v \in Versions, g \in {"completeness", "consistency"} :
          faults = {<<s, v, g>>}
  /\ LET none == [s \in Seeds |-> Absent]
     IN  disk = [observations |-> none, untrusted_text |-> none, ground_truth |-> none,
                 oracle_labels |-> none, oracle_gate |-> [s \in Seeds |-> NoGate],
                 recon_report |-> [p \in Splits |-> {}],
                 manifest |-> [s \in Seeds |-> NoManifest]]
  /\ job = Idle /\ commands = 0
  /\ prescribed = [s \in Seeds |-> "none"]

\* The process is killed: what was written stays.
Kill ==
  /\ job # Idle /\ job' = Idle
  /\ UNCHANGED <<version, faults, disk, commands, prescribed>>

\* The generator moves on between two commands.
Upgrade ==
  /\ job = Idle /\ version < MaxVersion
  /\ version' = version + 1
  /\ UNCHANGED <<faults, disk, job, commands, prescribed>>

Next ==
  \/ \E p \in Splits, s \in SUBSET Seeds, tag \in BOOLEAN : GenerateStart(p, s, tag)
  \/ WriteSeedFile \/ WriteReport
  \/ \E p \in Splits, s \in SUBSET Seeds, o \in BOOLEAN : OracleStart(p, s, o)
  \/ LabelSeed \/ GateSeed \/ OracleEnds
  \/ \E s, g \in Seeds : Seal(s, g)
  \/ Kill \/ Upgrade

Spec == Init /\ [][Next]_vars

-----------------------------------------------------------------------------
Sealed == {s \in Seeds : disk.manifest[s] # NoManifest}

(* A manifest sealed at the end of an uninterrupted generate of the whole  *)
(* split and an oracle run over it describes one dataset that the          *)
(* completeness gate passed: observations, truth and labels are of one     *)
(* version, the report holds the rows of that dataset and of every other   *)
(* of the split, and the gate artifact was made from those very files --   *)
(* whatever was generated, killed or sealed before (commands/generate.ts:  *)
(* 149-197, oracle.ts:191-283, seal.ts:146-228).  Seal reads no verdict of *)
(* the consistency gate, no draw seed and no seed of the gate file.        *)
ProcedureSeals ==
  \A s \in Sealed :
    LET m == disk.manifest[s]
    IN  m.prescribed =>
          /\ m.obs = m.truth /\ m.labels = m.obs
          /\ m.report = {<<d, m.obs>> : d \in SeedsOf(SplitOf(s))}
          /\ m.gate.obs = m.obs /\ m.gate.truth = m.truth
          /\ <<s, m.obs, "completeness">> \notin faults

(* One recon_report_sha256 in every manifest of a split (seal.ts:75-77).      *)
ReportIsOfTheSplit ==
  \A s, t \in Sealed :
    SplitOf(s) = SplitOf(t) => disk.manifest[s].report = disk.manifest[t].report

(* A dataset whose gates failed is not sealed (oracle.ts:289).             *)
FailedGateNotSealed == \A s \in Sealed : GatePassed(disk.manifest[s].gate)

(* A seal taken without step 3 is told from one taken after it: the gate   *)
(* report accepted is that of the files hashed (seal.ts:91-97).            *)
SealFollowsItsGate ==
  \A s \in Sealed :
    LET m == disk.manifest[s]
    IN  m.gateOf = s /\ m.gate.obs = m.obs /\ m.gate.truth = m.truth

(* A gate run at another draw seed does not pass for the official one      *)
(* (oracle.ts:78-87).                                                      *)
SealIsOfficial == \A s \in Sealed : disk.manifest[s].gate.authoritative
=============================================================================
