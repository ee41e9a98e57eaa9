-------------------------- MODULE PipelineProofs --------------------------
(***************************************************************************)
(* For any declared seeds, any number of versions of the generator and any *)
(* number of commands, each killed between any two of its writes: a        *)
(* manifest sealed at the end of the procedure describes one dataset.      *)
(*                                                                         *)
(* The seal reads what is on disk; that it is of one dataset is owed to    *)
(* the commands before it.  The invariant says, per seed, what the disk    *)
(* holds once an uninterrupted generate of its split, and then an oracle   *)
(* run over it, have ended -- and what a command in progress has written   *)
(* so far, which is what a kill leaves.                                    *)
(*                                                                         *)
(* For any seeds, grids, requests and kills, the units that the bench files*)
(* are whole.  A unit is written at once, from what the sweep before it    *)
(* gathered: BenchInv says how far that is at each stage, and that every   *)
(* row of the baseline, printed, carried or carried twice, was measured.   *)
(***************************************************************************)
EXTENDS MCCommands, TLAPS, WellFoundedInduction, FiniteSetTheorems, SequenceTheorems

Gates == [obs : Nat, truth : Nat, completeness : BOOLEAN, consistency : BOOLEAN,
          authoritative : BOOLEAN]
Manifests == [obs : Nat, truth : Nat, labels : Nat, report : SUBSET (Seeds \X Nat),
              gate : Gates, gateOf : Seeds \cup {0}, prescribed : BOOLEAN]
Disks == [observations : [Seeds -> Nat], untrusted_text : [Seeds -> Nat],
          ground_truth : [Seeds -> Nat], oracle_labels : [Seeds -> Nat],
          oracle_gate : [Seeds -> Gates], recon_report : [Splits -> SUBSET (Seeds \X Nat)],
          manifest : [Seeds -> Manifests]]
Generates == [cmd : {"generate"}, split : Splits, seeds : SUBSET Seeds, todo : SUBSET Seeds,
              file : 1..3, made : SUBSET (Seeds \X Nat)]
Oracles == [cmd : {"oracle"}, split : Splits, seeds : SUBSET Seeds, todo : SUBSET Seeds,
            labelled : BOOLEAN, override : BOOLEAN, failures : SUBSET Seeds]

TypeOK ==
  /\ version \in Nat
  /\ disk \in Disks
  /\ job \in {Idle} \cup Generates \cup Oracles
  /\ prescribed \in [Seeds -> {"none", "generated", "gated"}]

\* What a generate in progress has written, all of the version that is running.
Generating ==
  job.cmd = "generate" =>
    /\ job.seeds \subseteq SeedsOf(job.split) /\ job.todo \subseteq job.seeds
    /\ job.made \subseteq {<<s, version>> : s \in job.seeds}
    /\ \A s \in job.seeds \ job.todo :
         /\ <<s, version>> \in job.made
         /\ disk.observations[s] = version /\ disk.ground_truth[s] = version
    /\ job.todo # {} /\ job.file > 1 => disk.observations[Min(job.todo)] = version
    /\ \A s \in Seeds : SplitOf(s) = job.split => prescribed[s] = "none"

\* The seed an oracle run is at was labelled from what it is gated on.
Oracling ==
  job.cmd = "oracle" /\ job.labelled =>
    /\ job.todo # {}
    /\ disk.oracle_labels[Min(job.todo)] = disk.observations[Min(job.todo)]

\* What a generate of the whole split leaves of one of its seeds.
Generated(s) ==
  /\ disk.ground_truth[s] = disk.observations[s]
  /\ disk.recon_report[SplitOf(s)] = {<<d, disk.observations[s]>> : d \in SeedsOf(SplitOf(s))}

\* What an oracle run over it adds.
Gated(s) ==
  LET gate == disk.oracle_gate[s]
  IN  /\ disk.oracle_labels[s] = disk.observations[s]
      /\ gate.obs = disk.observations[s] /\ gate.truth = disk.ground_truth[s]
      /\ gate.completeness => <<s, disk.observations[s], "completeness">> \notin faults

Prescribed ==
  \A s \in Seeds : /\ prescribed[s] # "none" => Generated(s)
                   /\ prescribed[s] = "gated" => Gated(s)

IInv == TypeOK /\ Generating /\ Oracling /\ Prescribed /\ ProcedureSeals

-----------------------------------------------------------------------------
(* Seeds and splits                                                        *)

\* The least of a set of naturals is one of them.
LEMMA FirstIsIn ==
  ASSUME NEW S, S \subseteq Nat, S # {}
  PROVE  Min(S) \in S
<1> DEFINE before == {p \in Nat \X Nat : p[1] < p[2]}
<1>1. IsWellFoundedOn(before, Nat)
  BY NatLessThanWellFounded DEF OpToRel
<1> HIDE DEF before
<1>2. PICK x \in S : \A y \in S : ~ (<<y, x>> \in before)
  BY <1>1, WFMin, Zenon
<1>3. ASSUME NEW y \in S PROVE x <= y
  <2>1. x \in Nat /\ y \in Nat /\ <<y, x>> \notin before
    BY <1>2
  <2> QED BY <2>1 DEF before
<1> QED BY <1>3 DEF Min

LEMMA SplitsDivide ==
  ASSUME SeedsDeclared
  PROVE  /\ \A s \in Seeds : SplitOf(s) \in Splits /\ s \in SeedsOf(SplitOf(s))
         /\ \A p \in Splits : \A s \in SeedsOf(p) : s \in Seeds /\ SplitOf(s) = p
BY DEF SeedsDeclared, Seeds, Splits, SplitOf, SeedsOf

LEMMA NextSeed ==
  ASSUME SeedsDeclared, NEW S \in SUBSET Seeds, S # {}
  PROVE  Min(S) \in S /\ Min(S) \in Seeds
<1>1. S \subseteq Nat
  BY DEF SeedsDeclared
<1> QED BY <1>1, FirstIsIn

\* What is true of a disk and the faults stays true of the same.
LEMMA SameDisk ==
  ASSUME IInv, disk' = disk, faults' = faults
  PROVE  /\ ProcedureSeals'
         /\ \A s \in Seeds : /\ prescribed[s] # "none" => Generated(s)'
                             /\ prescribed[s] = "gated" => Gated(s)'
<1>1. ProcedureSeals'
  BY DEF IInv, ProcedureSeals, Sealed
<1>2. \A s \in Seeds : Generated(s)' = Generated(s) /\ Gated(s)' = Gated(s)
  BY DEF Generated, Gated
<1> QED BY <1>1, <1>2 DEF IInv, Prescribed

\* What is sealed stays sealed of what it is of.
LEMMA SameManifests ==
  ASSUME IInv, disk'.manifest = disk.manifest, faults' = faults
  PROVE  ProcedureSeals'
BY DEF IInv, ProcedureSeals, Sealed

-----------------------------------------------------------------------------
(* The steps                                                               *)

LEMMA InitIInv == Init => IInv
<1> SUFFICES ASSUME Init PROVE IInv
  OBVIOUS
<1>1. NoGate \in Gates
  BY DEF NoGate, Gates, Absent
<1>2. NoManifest \in Manifests /\ ~NoManifest.prescribed
  BY <1>1 DEF NoManifest, Manifests, Absent
<1>3. disk \in Disks
  BY <1>1, <1>2 DEF Init, Disks, Absent
<1>4. TypeOK
  BY <1>3 DEF Init, TypeOK
<1>5. Generating /\ Oracling
  BY DEF Init, Idle, Generating, Oracling
<1>6. Prescribed
  BY DEF Init, Prescribed
<1>7. ProcedureSeals
  BY <1>2 DEF Init, ProcedureSeals, Sealed
<1> QED BY <1>4, <1>5, <1>6, <1>7 DEF IInv

LEMMA GenerateStartKeeps ==
  ASSUME SeedsDeclared, IInv, NEW p \in Splits, NEW s \in SUBSET Seeds, NEW tag \in BOOLEAN,
         GenerateStart(p, s, tag)
  PROVE  IInv'
<1>1. /\ job' = [cmd |-> "generate", split |-> p, seeds |-> s, todo |-> s, file |-> 1,
                 made |-> {}]
      /\ prescribed' = [t \in Seeds |-> IF SplitOf(t) = p THEN "none" ELSE prescribed[t]]
      /\ disk' = disk /\ faults' = faults /\ version' = version /\ s \subseteq SeedsOf(p)
  BY DEF GenerateStart
<1>2. TypeOK'
  <2>1. job' \in Generates
    BY <1>1 DEF Generates
  <2>2. prescribed' \in [Seeds -> {"none", "generated", "gated"}]
    BY <1>1 DEF IInv, TypeOK
  <2> QED BY <1>1, <2>1, <2>2 DEF IInv, TypeOK
<1>3. Generating' /\ Oracling'
  BY <1>1 DEF Generating, Oracling
<1>4. \A t \in Seeds : prescribed'[t] = "none" \/ prescribed'[t] = prescribed[t]
  BY <1>1
<1> QED BY <1>1, <1>2, <1>3, <1>4, SameDisk DEF IInv, Prescribed

\* One file of one seed: the others, the report and the manifests stay.
LEMMA WriteSeedFileKeeps ==
  ASSUME SeedsDeclared, IInv, WriteSeedFile
  PROVE  IInv'
<1> DEFINE seed == Min(job.todo)
           last == job.file = 3
<1>1. /\ job \in Generates /\ job.cmd = "generate" /\ job.todo # {}
      /\ version' = version /\ faults' = faults /\ prescribed' = prescribed
      /\ disk' = SeedFileWritten(job.file, seed)
      /\ job' = [job EXCEPT !.todo = IF last THEN job.todo \ {seed} ELSE job.todo,
                            !.file = IF last THEN 1 ELSE job.file + 1,
                            !.made = job.made \cup {Dataset(seed)}]
  BY DEF WriteSeedFile, IInv, TypeOK, Idle, Generates, Oracles
<1>2. seed \in job.todo /\ seed \in Seeds /\ seed \in job.seeds
  <2>1. job.todo \in SUBSET Seeds
    BY <1>1 DEF Generates
  <2> QED BY <1>1, <2>1, NextSeed DEF IInv, Generating
<1>3. Dataset(seed) = <<seed, version>> /\ version \in Nat /\ disk \in Disks
  BY DEF Dataset, IInv, TypeOK
<1> HIDE DEF seed
<1>4. /\ job' \in Generates /\ job'.split = job.split /\ job'.seeds = job.seeds
      /\ job'.todo = (IF last THEN job.todo \ {seed} ELSE job.todo)
      /\ job'.file = (IF last THEN 1 ELSE job.file + 1)
      /\ job'.made = job.made \cup {<<seed, version>>}
  <2>1. /\ job.file \in {1, 2, 3} /\ job.todo \in SUBSET Seeds
        /\ job.made \in SUBSET (Seeds \X Nat)
    BY <1>1 DEF Generates
  <2> DEFINE todo == IF last THEN job.todo \ {seed} ELSE job.todo
             file == IF last THEN 1 ELSE job.file + 1
             made == job.made \cup {<<seed, version>>}
  <2>2. todo \in SUBSET Seeds /\ file \in 1..3 /\ made \in SUBSET (Seeds \X Nat)
    BY <1>2, <1>3, <2>1
  <2>3. job' = [job EXCEPT !.todo = todo, !.file = file, !.made = made]
    BY <1>1, <1>3
  <2> HIDE DEF todo, file, made, last
  <2>4. /\ job' \in Generates /\ job'.split = job.split /\ job'.seeds = job.seeds
        /\ job'.todo = todo /\ job'.file = file /\ job'.made = made
    BY <1>1, <2>2, <2>3 DEF Generates
  <2> QED BY <2>4 DEF todo, file, made
<1>5. /\ disk' \in Disks /\ disk'.recon_report = disk.recon_report
      /\ disk'.manifest = disk.manifest /\ disk'.oracle_gate = disk.oracle_gate
      /\ disk'.oracle_labels = disk.oracle_labels
      /\ \A s \in Seeds \ {seed} : /\ disk'.observations[s] = disk.observations[s]
                                   /\ disk'.ground_truth[s] = disk.ground_truth[s]
      /\ disk'.observations[seed] =
           (IF job.file = 1 THEN version ELSE disk.observations[seed])
      /\ disk'.ground_truth[seed] =
           (IF job.file = 3 THEN version ELSE disk.ground_truth[seed])
  <2>1. job.file \in {1, 2, 3}
    BY <1>1 DEF Generates
  <2>2. CASE job.file = 1
    <3>1. disk' = [disk EXCEPT !.observations[seed] = version]
      BY <1>1, <2>2 DEF SeedFileWritten
    <3> QED BY <1>2, <1>3, <2>2, <3>1 DEF Disks
  <2>3. CASE job.file = 2
    <3>1. disk' = [disk EXCEPT !.untrusted_text[seed] = version]
      BY <1>1, <2>3 DEF SeedFileWritten
    <3> QED BY <1>2, <1>3, <2>3, <3>1 DEF Disks
  <2>4. CASE job.file = 3
    <3>1. disk' = [disk EXCEPT !.ground_truth[seed] = version]
      BY <1>1, <2>4 DEF SeedFileWritten
    <3> QED BY <1>2, <1>3, <2>4, <3>1 DEF Disks
  <2> QED BY <2>1, <2>2, <2>3, <2>4
<1>6. /\ job.seeds \subseteq SeedsOf(job.split) /\ job.todo \subseteq job.seeds
      /\ job.made \subseteq {<<s, version>> : s \in job.seeds}
      /\ \A s \in job.seeds \ job.todo :
           /\ <<s, version>> \in job.made
           /\ disk.observations[s] = version /\ disk.ground_truth[s] = version
      /\ job.file > 1 => disk.observations[seed] = version
      /\ \A s \in Seeds : SplitOf(s) = job.split => prescribed[s] = "none"
  BY <1>1 DEF IInv, Generating, seed
<1>7. job.seeds \subseteq Seeds /\ job.split \in Splits /\ job.file \in {1, 2, 3}
  BY <1>1 DEF Generates
<1>8. Generating'
  <2>1. \A s \in job.seeds \ job'.todo :
          /\ <<s, version>> \in job'.made
          /\ disk'.observations[s] = version /\ disk'.ground_truth[s] = version
    <3> SUFFICES ASSUME NEW s \in job.seeds \ job'.todo
                 PROVE  /\ <<s, version>> \in job'.made
                        /\ disk'.observations[s] = version /\ disk'.ground_truth[s] = version
      OBVIOUS
    <3>1. CASE s = seed
      <4>1. last
        BY <1>2, <1>4, <3>1
      <4> QED BY <1>4, <1>5, <1>6, <3>1, <4>1
    <3>2. CASE s # seed
      <4>1. s \in job.seeds \ job.todo
        BY <1>4, <3>2
      <4> QED BY <1>4, <1>5, <1>6, <1>7, <3>2, <4>1
    <3> QED BY <3>1, <3>2
  <2>2. job'.todo # {} /\ job'.file > 1 => disk'.observations[Min(job'.todo)] = version
    <3> SUFFICES ASSUME job'.file > 1 PROVE disk'.observations[Min(job'.todo)] = version
      OBVIOUS
    <3>1. ~last /\ Min(job'.todo) = seed
      BY <1>4 DEF seed
    <3> QED BY <1>5, <1>6, <1>7, <3>1
  <2>3. job'.todo \subseteq job'.seeds /\ job'.made \subseteq {<<s, version>> : s \in job.seeds}
    BY <1>2, <1>4, <1>6
  <2> QED BY <1>1, <1>4, <1>6, <2>1, <2>2, <2>3 DEF Generating
<1>9. Oracling'
  BY <1>4 DEF Oracling, Generates
<1>10. Prescribed'
  <2> SUFFICES ASSUME NEW s \in Seeds
               PROVE  /\ prescribed[s] # "none" => Generated(s)'
                      /\ prescribed[s] = "gated" => Gated(s)'
    BY <1>1 DEF Prescribed
  <2>1. CASE prescribed[s] = "none"
    BY <2>1
  <2>2. CASE prescribed[s] # "none"
    <3>1. SplitOf(s) # job.split
      BY <1>6, <2>2
    <3>2. s # seed
      BY <1>2, <1>6, <1>7, <3>1, SplitsDivide
    <3>3. Generated(s)' = Generated(s) /\ Gated(s)' = Gated(s)
      BY <1>1, <1>5, <3>2 DEF Generated, Gated
    <3> QED BY <2>2, <3>3 DEF IInv, Prescribed
  <2> QED BY <2>1, <2>2
<1>11. ProcedureSeals'
  BY <1>1, <1>5, SameManifests
<1>12. TypeOK'
  BY <1>1, <1>3, <1>4, <1>5 DEF IInv, TypeOK
<1> QED BY <1>8, <1>9, <1>10, <1>11, <1>12 DEF IInv

\* The report of the split: of this invocation's datasets, which are the split's if
\* all of its seeds were asked for.
LEMMA WriteReportKeeps ==
  ASSUME SeedsDeclared, IInv, WriteReport
  PROVE  IInv'
<1>1. /\ job \in Generates /\ job.cmd = "generate" /\ job.todo = {}
      /\ version' = version /\ faults' = faults /\ job' = Idle
      /\ disk' = [disk EXCEPT !.recon_report[job.split] = job.made]
      /\ prescribed' = [s \in Seeds |-> IF job.seeds = SeedsOf(job.split) /\ s \in job.seeds
                                        THEN "generated" ELSE prescribed[s]]
  BY DEF WriteReport, MergedReport, IInv, TypeOK, Idle, Generates, Oracles
<1>2. /\ job.split \in Splits /\ job.made \subseteq Seeds \X Nat /\ disk \in Disks
      /\ prescribed \in [Seeds -> {"none", "generated", "gated"}]
  BY <1>1 DEF Generates, IInv, TypeOK
<1>3. /\ disk' \in Disks /\ disk'.manifest = disk.manifest
      /\ disk'.observations = disk.observations /\ disk'.ground_truth = disk.ground_truth
      /\ disk'.oracle_gate = disk.oracle_gate /\ disk'.oracle_labels = disk.oracle_labels
      /\ disk'.recon_report[job.split] = job.made
      /\ \A p \in Splits \ {job.split} : disk'.recon_report[p] = disk.recon_report[p]
  BY <1>1, <1>2 DEF Disks
<1>4. /\ \A s \in job.seeds : disk.observations[s] = version /\ disk.ground_truth[s] = version
      /\ job.made = {<<s, version>> : s \in job.seeds}
      /\ \A s \in Seeds : SplitOf(s) = job.split => prescribed[s] = "none"
  <2>1. /\ job.made \subseteq {<<s, version>> : s \in job.seeds}
        /\ \A s \in job.seeds : /\ <<s, version>> \in job.made
                                /\ disk.observations[s] = version
                                /\ disk.ground_truth[s] = version
        /\ \A s \in Seeds : SplitOf(s) = job.split => prescribed[s] = "none"
    BY <1>1 DEF IInv, Generating
  <2> QED BY <2>1
<1>5. Generating' /\ Oracling'
  BY <1>1 DEF Generating, Oracling, Idle
<1>6. Prescribed'
  <2> SUFFICES ASSUME NEW s \in Seeds
               PROVE  /\ prescribed'[s] # "none" => Generated(s)'
                      /\ prescribed'[s] = "gated" => Gated(s)'
    BY DEF Prescribed
  <2>1. CASE SplitOf(s) = job.split
    <3>1. prescribed[s] = "none"
      BY <1>4, <2>1
    <3>2. CASE job.seeds = SeedsOf(job.split) /\ s \in job.seeds
      <4>1. disk'.observations[s] = version /\ disk'.ground_truth[s] = version
        BY <1>3, <1>4, <3>2
      <4>2. disk'.recon_report[SplitOf(s)] = {<<d, version>> : d \in SeedsOf(SplitOf(s))}
        BY <1>3, <1>4, <2>1, <3>2
      <4>3. prescribed'[s] = "generated"
        BY <1>1, <3>2
      <4> QED BY <4>1, <4>2, <4>3 DEF Generated
    <3>3. CASE ~(job.seeds = SeedsOf(job.split) /\ s \in job.seeds)
      BY <1>1, <3>1, <3>3
    <3> QED BY <3>2, <3>3
  <2>2. CASE SplitOf(s) # job.split
    <3>1. prescribed'[s] = prescribed[s]
      <4>1. job.seeds # SeedsOf(job.split) \/ s \notin job.seeds
        BY <1>2, <2>2, SplitsDivide
      <4> QED BY <1>1, <4>1
    <3>2. disk'.recon_report[SplitOf(s)] = disk.recon_report[SplitOf(s)]
      BY <1>3, <2>2, SplitsDivide
    <3>3. Generated(s)' = Generated(s) /\ Gated(s)' = Gated(s)
      BY <1>1, <1>3, <3>2 DEF Generated, Gated
    <3> QED BY <3>1, <3>3 DEF IInv, Prescribed
  <2> QED BY <2>1, <2>2
<1>7. ProcedureSeals'
  BY <1>1, <1>3, SameManifests
<1>8. TypeOK'
  BY <1>1, <1>2, <1>3 DEF IInv, TypeOK
<1> QED BY <1>5, <1>6, <1>7, <1>8 DEF IInv

LEMMA OracleStartKeeps ==
  ASSUME SeedsDeclared, IInv, NEW p \in Splits, NEW s \in SUBSET Seeds, NEW o \in BOOLEAN,
         OracleStart(p, s, o)
  PROVE  IInv'
<1>1. /\ job' = [cmd |-> "oracle", split |-> p, seeds |-> s, todo |-> s, labelled |-> FALSE,
                 override |-> o, failures |-> {}]
      /\ prescribed' = [t \in Seeds |-> IF t \in s /\ prescribed[t] = "gated"
                                        THEN "generated" ELSE prescribed[t]]
      /\ disk' = disk /\ faults' = faults /\ version' = version
  BY DEF OracleStart
<1>2. TypeOK'
  <2>1. job' \in Oracles
    BY <1>1 DEF Oracles
  <2>2. prescribed' \in [Seeds -> {"none", "generated", "gated"}]
    BY <1>1 DEF IInv, TypeOK
  <2> QED BY <1>1, <2>1, <2>2 DEF IInv, TypeOK
<1>3. Generating' /\ Oracling'
  BY <1>1 DEF Generating, Oracling
<1>4. \A t \in Seeds : /\ prescribed'[t] # "none" => prescribed[t] # "none"
                       /\ prescribed'[t] = "gated" => prescribed[t] = "gated"
  BY <1>1
<1> QED BY <1>1, <1>2, <1>3, <1>4, SameDisk DEF IInv, Prescribed

\* The command dies, ends or is killed: what was written stays.
LEMMA EndKeeps ==
  ASSUME IInv, job' = Idle, disk' = disk, faults' = faults, version' = version,
         \/ prescribed' = prescribed
         \/ \E failed \in SUBSET Seeds :
              prescribed' = [s \in Seeds |-> IF s \in failed THEN "none" ELSE prescribed[s]]
  PROVE  IInv'
<1>1. TypeOK'
  BY DEF IInv, TypeOK
<1>2. Generating' /\ Oracling'
  BY DEF Generating, Oracling, Idle
<1>3. \A s \in Seeds : prescribed'[s] = "none" \/ prescribed'[s] = prescribed[s]
  OBVIOUS
<1> QED BY <1>1, <1>2, <1>3, SameDisk DEF IInv, Prescribed

LEMMA LabelSeedKeeps ==
  ASSUME SeedsDeclared, IInv, LabelSeed
  PROVE  IInv'
<1> DEFINE seed == Min(job.todo)
<1>1. /\ job \in Oracles /\ job.cmd = "oracle" /\ job.todo # {}
      /\ version' = version /\ faults' = faults /\ prescribed' = prescribed
      /\ \/ Dies
         \/ /\ disk' = [disk EXCEPT !.oracle_labels[seed] = disk.observations[seed]]
            /\ job' = [job EXCEPT !.labelled = TRUE]
  BY DEF LabelSeed, IInv, TypeOK, Idle, Generates, Oracles
<1>2. seed \in Seeds
  <2>1. job.todo \in SUBSET Seeds
    BY <1>1 DEF Oracles
  <2> QED BY <1>1, <2>1, NextSeed
<1>3. CASE Dies
  BY <1>1, <1>3, EndKeeps DEF Dies
<1>4. CASE /\ disk' = [disk EXCEPT !.oracle_labels[seed] = disk.observations[seed]]
           /\ job' = [job EXCEPT !.labelled = TRUE]
  <2>1. disk \in Disks /\ disk.observations[seed] \in Nat
    BY <1>2 DEF IInv, TypeOK, Disks
  <2>2. job' \in Oracles /\ job'.todo = job.todo
    BY <1>1, <1>4 DEF Oracles
  <2> HIDE DEF seed
  <2>3. /\ disk' \in Disks /\ disk'.manifest = disk.manifest
        /\ disk'.observations = disk.observations /\ disk'.ground_truth = disk.ground_truth
        /\ disk'.oracle_gate = disk.oracle_gate /\ disk'.recon_report = disk.recon_report
        /\ disk'.oracle_labels[seed] = disk.observations[seed]
        /\ \A s \in Seeds \ {seed} : disk'.oracle_labels[s] = disk.oracle_labels[s]
    BY <1>2, <1>4, <2>1 DEF Disks
  <2>4. Generating'
    BY <2>2 DEF Generating, Oracles
  <2>5. Oracling'
    BY <1>1, <2>2, <2>3 DEF Oracling, seed
  <2>6. Prescribed'
    <3> SUFFICES ASSUME NEW s \in Seeds
                 PROVE  /\ prescribed[s] # "none" => Generated(s)'
                        /\ prescribed[s] = "gated" => Gated(s)'
      BY <1>1 DEF Prescribed
    <3>1. /\ prescribed[s] # "none" => Generated(s)
          /\ prescribed[s] = "gated" => Gated(s)
      BY DEF IInv, Prescribed
    <3>2. Generated(s)' = Generated(s)
      BY <2>3 DEF Generated
    <3>3. Gated(s) => Gated(s)'
      BY <1>1, <2>3 DEF Gated
    <3> QED BY <3>1, <3>2, <3>3
  <2>7. ProcedureSeals'
    BY <1>1, <2>3, SameManifests
  <2> QED BY <1>1, <2>2, <2>3, <2>4, <2>5, <2>6, <2>7 DEF IInv, TypeOK
<1> QED BY <1>1, <1>3, <1>4

\* A gate over files of one version finds what is in that dataset.
LEMMA GateSeedKeeps ==
  ASSUME SeedsDeclared, IInv, GateSeed
  PROVE  IInv'
<1> DEFINE seed == Min(job.todo)
           obs == disk.observations[seed]
           truth == disk.ground_truth[seed]
<1>1. /\ job \in Oracles /\ job.cmd = "oracle" /\ job.todo # {} /\ job.labelled
      /\ version' = version /\ faults' = faults
  <2>1. /\ job.cmd = "oracle" /\ job.todo # {} /\ job.labelled
        /\ version' = version /\ faults' = faults
    BY DEF GateSeed
  <2> QED BY <2>1 DEF IInv, TypeOK, Idle, Generates, Oracles
<1>2. seed \in Seeds
  <2>1. job.todo \in SUBSET Seeds
    BY <1>1 DEF Oracles
  <2> QED BY <1>1, <2>1, NextSeed
<1>3. /\ disk \in Disks /\ obs \in Nat /\ truth \in Nat
      /\ prescribed \in [Seeds -> {"none", "generated", "gated"}]
  BY <1>2 DEF IInv, TypeOK, Disks
<1>4. CASE Dies /\ UNCHANGED prescribed
  BY <1>1, <1>4, EndKeeps DEF Dies
<1>5. ASSUME NEW complete \in Outcomes(seed, "completeness", obs, truth),
             NEW consistent \in Outcomes(seed, "consistency", obs, obs),
             disk' = [disk EXCEPT !.oracle_gate[seed] = GateReport(seed, complete, consistent)],
             job' = [job EXCEPT !.todo = job.todo \ {seed}, !.labelled = FALSE,
                                !.failures = IF GatePassed(GateReport(seed, complete, consistent))
                                             THEN job.failures ELSE job.failures \cup {seed}],
             prescribed' = [prescribed EXCEPT ![seed] = IF prescribed[seed] = "generated"
                                                        THEN "gated" ELSE prescribed[seed]]
      PROVE  IInv'
  <2> DEFINE gate == GateReport(seed, complete, consistent)
  <2>1. complete \in BOOLEAN /\ consistent \in BOOLEAN
    BY DEF Outcomes
  <2>2. /\ gate \in Gates /\ gate.obs = obs /\ gate.truth = truth
        /\ gate.completeness = complete
    BY <1>1, <1>3, <2>1 DEF GateReport, Gates, Oracles, RunsConsistencyGate
  <2> HIDE DEF gate
  <2>3. /\ job' \in Oracles /\ ~job'.labelled
    BY <1>1, <1>2, <1>5 DEF Oracles
  <2>4. seed \in Seeds /\ disk' = [disk EXCEPT !.oracle_gate[seed] = gate]
    BY <1>2, <1>5 DEF gate
  <2>5. disk.oracle_labels[seed] = obs
    BY <1>1 DEF IInv, Oracling
  <2>6. prescribed' \in [Seeds -> {"none", "generated", "gated"}]
        /\ prescribed'[seed] = (IF prescribed[seed] = "generated" THEN "gated"
                                ELSE prescribed[seed])
        /\ \A s \in Seeds \ {seed} : prescribed'[s] = prescribed[s]
    BY <1>2, <1>3, <1>5
  <2>7. obs = truth => complete = (<<seed, obs, "completeness">> \notin faults)
    BY DEF Outcomes
  <2> HIDE DEF seed
  <2>8. /\ disk' \in Disks /\ disk'.manifest = disk.manifest
        /\ disk'.observations = disk.observations /\ disk'.ground_truth = disk.ground_truth
        /\ disk'.oracle_labels = disk.oracle_labels /\ disk'.recon_report = disk.recon_report
        /\ disk'.oracle_gate[seed] = gate
        /\ \A s \in Seeds \ {seed} : disk'.oracle_gate[s] = disk.oracle_gate[s]
    BY <1>3, <2>2, <2>4 DEF Disks
  <2>9. Generating' /\ Oracling'
    BY <2>3 DEF Generating, Oracling, Oracles
  <2>10. Prescribed'
    <3> SUFFICES ASSUME NEW s \in Seeds
                 PROVE  /\ prescribed'[s] # "none" => Generated(s)'
                        /\ prescribed'[s] = "gated" => Gated(s)'
      BY DEF Prescribed
    <3>1. /\ prescribed[s] # "none" => Generated(s)
          /\ prescribed[s] = "gated" => Gated(s)
      BY DEF IInv, Prescribed
    <3>2. Generated(s)' = Generated(s)
      BY <2>8 DEF Generated
    <3>3. CASE s = seed
      <4>1. Generated(s) => Gated(s)'
        BY <1>1, <2>2, <2>5, <2>7, <2>8, <3>3 DEF Generated, Gated
      <4> QED BY <2>6, <3>1, <3>2, <3>3, <4>1
    <3>4. CASE s # seed
      <4>1. Gated(s)' = Gated(s)
        BY <1>1, <2>8, <3>4 DEF Gated
      <4> QED BY <2>6, <3>1, <3>2, <3>4, <4>1
    <3> QED BY <3>3, <3>4
  <2>11. ProcedureSeals'
    BY <1>1, <2>8, SameManifests
  <2> QED BY <1>1, <2>3, <2>6, <2>8, <2>9, <2>10, <2>11 DEF IInv, TypeOK
<1> HIDE DEF seed, obs, truth
<1>6. \/ Dies /\ UNCHANGED prescribed
      \/ \E complete \in Outcomes(seed, "completeness", obs, truth),
            consistent \in Outcomes(seed, "consistency", obs, obs) :
           LET gate == GateReport(seed, complete, consistent)
           IN  /\ disk' = [disk EXCEPT !.oracle_gate[seed] = gate]
               /\ job' = [job EXCEPT !.todo = job.todo \ {seed}, !.labelled = FALSE,
                                     !.failures = IF GatePassed(gate) THEN job.failures
                                                  ELSE job.failures \cup {seed}]
               /\ prescribed' = [prescribed EXCEPT ![seed] = IF prescribed[seed] = "generated"
                                                             THEN "gated" ELSE prescribed[seed]]
  BY DEF GateSeed, seed, obs, truth
<1> QED BY <1>4, <1>5, <1>6

\* A seal is of what the disk holds, and by the invariant that is one dataset.
LEMMA SealKeeps ==
  ASSUME SeedsDeclared, IInv, NEW s \in Seeds, NEW g \in Seeds, Seal(s, g)
  PROVE  IInv'
<1> DEFINE m == Manifest(s, g)
<1>1. /\ disk' = [disk EXCEPT !.manifest[s] = m] /\ disk.oracle_gate[g].completeness
      /\ version' = version /\ faults' = faults /\ job' = job /\ prescribed' = prescribed
  BY DEF Seal, GateArtifactPasses
<1>2. disk \in Disks
  BY DEF IInv, TypeOK
<1>3. /\ m \in Manifests
      /\ m.obs = disk.observations[s] /\ m.truth = disk.ground_truth[s]
      /\ m.labels = disk.oracle_labels[s] /\ m.report = disk.recon_report[SplitOf(s)]
      /\ m.gate = disk.oracle_gate[g]
      /\ m.prescribed = (prescribed[s] = "gated" /\ g = s)
  BY <1>2, SplitsDivide DEF Manifest, Manifests, Disks
<1> HIDE DEF m
<1>4. /\ disk' \in Disks /\ disk'.observations = disk.observations
      /\ disk'.ground_truth = disk.ground_truth /\ disk'.oracle_labels = disk.oracle_labels
      /\ disk'.oracle_gate = disk.oracle_gate /\ disk'.recon_report = disk.recon_report
      /\ disk'.manifest[s] = m
      /\ \A t \in Seeds \ {s} : disk'.manifest[t] = disk.manifest[t]
  BY <1>1, <1>2, <1>3 DEF Disks
<1>5. TypeOK'
  BY <1>1, <1>4 DEF IInv, TypeOK
<1>6. Generating' /\ Oracling'
  BY <1>1, <1>4 DEF IInv, Generating, Oracling
<1>7. Prescribed'
  BY <1>1, <1>4 DEF IInv, Prescribed, Generated, Gated
<1>8. m.prescribed =>
        /\ m.obs = m.truth /\ m.labels = m.obs
        /\ m.report = {<<d, m.obs>> : d \in SeedsOf(SplitOf(s))}
        /\ m.gate.obs = m.obs /\ m.gate.truth = m.truth
        /\ <<s, m.obs, "completeness">> \notin faults
  <2> SUFFICES ASSUME m.prescribed
               PROVE  /\ m.obs = m.truth /\ m.labels = m.obs
                      /\ m.report = {<<d, m.obs>> : d \in SeedsOf(SplitOf(s))}
                      /\ m.gate.obs = m.obs /\ m.gate.truth = m.truth
                      /\ <<s, m.obs, "completeness">> \notin faults
    OBVIOUS
  <2>1. prescribed[s] = "gated" /\ g = s
    BY <1>3
  <2>2. Generated(s) /\ Gated(s)
    BY <2>1 DEF IInv, Prescribed
  <2> QED BY <1>1, <1>3, <2>1, <2>2 DEF Generated, Gated
<1>9. ProcedureSeals'
  <2> SUFFICES ASSUME NEW t \in Sealed', disk'.manifest[t].prescribed
               PROVE  LET n == disk'.manifest[t]
                      IN  /\ n.obs = n.truth /\ n.labels = n.obs
                          /\ n.report = {<<d, n.obs>> : d \in SeedsOf(SplitOf(t))}
                          /\ n.gate.obs = n.obs /\ n.gate.truth = n.truth
                          /\ <<t, n.obs, "completeness">> \notin faults
    BY <1>1 DEF ProcedureSeals
  <2>1. CASE t = s
    BY <1>4, <1>8, <2>1
  <2>2. CASE t # s
    <3>1. t \in Sealed /\ disk'.manifest[t] = disk.manifest[t]
      BY <1>4, <2>2 DEF Sealed
    <3> QED BY <3>1 DEF IInv, ProcedureSeals
  <2> QED BY <2>1, <2>2
<1> QED BY <1>5, <1>6, <1>7, <1>9 DEF IInv

LEMMA NextIInv ==
  ASSUME SeedsDeclared, IInv, [Next]_vars
  PROVE  IInv'
<1>1. ASSUME NEW p \in Splits, NEW s \in SUBSET Seeds, NEW tag \in BOOLEAN,
             GenerateStart(p, s, tag)
      PROVE  IInv'
  BY <1>1, GenerateStartKeeps
<1>2. CASE WriteSeedFile
  BY <1>2, WriteSeedFileKeeps
<1>3. CASE WriteReport
  BY <1>3, WriteReportKeeps
<1>4. ASSUME NEW p \in Splits, NEW s \in SUBSET Seeds, NEW o \in BOOLEAN, OracleStart(p, s, o)
      PROVE  IInv'
  BY <1>4, OracleStartKeeps
<1>5. CASE LabelSeed
  BY <1>5, LabelSeedKeeps
<1>6. CASE GateSeed
  BY <1>6, GateSeedKeeps
<1>7. CASE OracleEnds
  <2>1. job \in Oracles
    BY <1>7 DEF OracleEnds, IInv, TypeOK, Idle, Generates, Oracles
  <2>2. job.failures \in SUBSET Seeds
    BY <2>1 DEF Oracles
  <2> QED BY <1>7, <2>2, EndKeeps DEF OracleEnds
<1>8. ASSUME NEW s \in Seeds, NEW g \in Seeds, Seal(s, g) PROVE IInv'
  BY <1>8, SealKeeps
<1>9. CASE Kill
  BY <1>9, EndKeeps DEF Kill
<1>10. CASE Upgrade
  <2>1. job = Idle /\ job' = Idle /\ disk' = disk /\ faults' = faults /\ version' = version + 1
        /\ prescribed' = prescribed
    BY <1>10 DEF Upgrade
  <2>2. TypeOK' /\ Generating' /\ Oracling'
    BY <2>1 DEF IInv, TypeOK, Generating, Oracling, Idle
  <2> QED BY <2>1, <2>2, SameDisk DEF IInv, Prescribed
<1>11. CASE UNCHANGED vars
  <2>1. TypeOK' /\ Generating' /\ Oracling'
    BY <1>11 DEF vars, IInv, TypeOK, Generating, Oracling
  <2> QED BY <1>11, <2>1, SameDisk DEF vars, IInv, Prescribed
<1> QED BY <1>1, <1>2, <1>3, <1>4, <1>5, <1>6, <1>7, <1>8, <1>9, <1>10, <1>11 DEF Next

-----------------------------------------------------------------------------
\* A manifest sealed at the end of the procedure is of one dataset its gates passed,
\* whatever was generated, killed or sealed before: generate.ts, oracle.ts, seal.ts.
THEOREM SealsDescribeOneDataset == Spec => []ProcedureSeals
<1>1. Init => IInv
  BY SeedsAssumption, InitIInv
<1>2. IInv /\ [Next]_vars => IInv'
  BY SeedsAssumption, NextIInv
<1>3. IInv => ProcedureSeals
  BY DEF IInv
<1> QED BY <1>1, <1>2, <1>3, PTL DEF Spec

-----------------------------------------------------------------------------
(* The bench commands: Bench, as MCCommands puts it beside the pipeline     *)

\* The key of the unit a sweep is at.
KeyOf(j) == <<j.run_id, Scored!Min(j.seeds), j.agents[j.at], j.mode>>

PointOf(key, name, value) == Scored!Point(key[3], key[2], key[4], name, value)

\* A curve as far as it is drawn.
Drawn(points, key, name, grid) ==
  /\ points \in Seq({PointOf(key, name, grid[n]) : n \in DOMAIN grid})
  /\ Len(points) <= Len(grid)
  /\ \A n \in DOMAIN points : points[n] = PointOf(key, name, grid[n])

\* What a scored sweep holds of the unit it is at.
CurvesReached(j) ==
  /\ Drawn(j.epsilon, KeyOf(j), "epsilon_bps", Epsilons)
  /\ Drawn(j.tau, KeyOf(j), "tau_floor_paise", Floors)
  /\ j.stage = "epsilon" =>
       Scored!HasCurves(KeyOf(j)) /\ Len(j.epsilon) < Len(Epsilons) /\ j.tau = <<>>
  /\ j.stage = "tau" =>
       Scored!HasCurves(KeyOf(j)) /\ Len(j.epsilon) = Len(Epsilons) /\ Len(j.tau) < Len(Floors)
  /\ j.stage = "file" =>
       IF Scored!HasCurves(KeyOf(j))
       THEN Len(j.epsilon) = Len(Epsilons) /\ Len(j.tau) = Len(Floors)
       ELSE j.epsilon = <<>> /\ j.tau = <<>>

Sweeping(j) ==
  /\ j.cmd = "bench"
  /\ DOMAIN j = {"cmd", "seeds", "agents", "at", "mode", "run_id", "stage", "base", "epsilon", "tau"}
  /\ j.seeds \subseteq Scored!Seeds /\ j.seeds # {}
  /\ j.stage \in {"load", "execute"} => j.epsilon = <<>> /\ j.tau = <<>>
  /\ j.stage \in {"epsilon", "tau", "file"} => Scored!BaseIsOf(j.base, KeyOf(j)) /\ CurvesReached(j)

\* A row of the baseline is of DEV runs of its key, wherever it is.
TrueRow(r) == DOMAIN r = {"agent", "mode", "of", "copy"} /\ Scored!Measured(r, r.agent, r.mode)

SampleOf(j, n) == Scored!Run(j.agents[j.at], Scored!BASELINE_SEEDS[n], j.mode, Scored!FrozenPoint)

Sampling(j) ==
  /\ j.cmd = "baseline"
  /\ DOMAIN j = {"cmd", "agents", "at", "mode", "samples", "rows"}
  /\ j.samples \in Seq({SampleOf(j, n) : n \in Nat})
  /\ \A n \in DOMAIN j.samples : j.samples[n] = SampleOf(j, n)
  /\ \A r \in j.rows : TrueRow(r)

BenchInv ==
  /\ job = Scored!Idle \/ Sweeping(job) \/ Sampling(job)
  /\ \A r \in printed.rows : TrueRow(r)
  /\ \A r \in recorded : TrueRow(r)
  /\ MetricsAreWhole

\* The seed of a unit is a declared one, and has an answer key unless it is of TRAIN.
LEMMA UnitSeed ==
  ASSUME Scored!BenchDeclared, NEW S, S \subseteq Scored!Seeds, S # {}
  PROVE  /\ Scored!Min(S) \in S
         /\ Scored!truthSource(Scored!Min(S)) =
              IF Scored!SplitOf(Scored!Min(S)) = "train" THEN 0 ELSE Scored!Min(S)
         /\ Scored!Min(S) # 0
<1>1. S \subseteq Nat \ {0}
  BY DEF Scored!BenchDeclared, Scored!Seeds
<1>2. Min(S) \in S
  BY <1>1, FirstIsIn
<1>3. Scored!Min(S) = Min(S)
  BY DEF Scored!Min, Min
<1> QED BY <1>1, <1>2, <1>3 DEF Scored!truthSource, Scored!isTruthScoredSplit, Scored!SplitOf

\* The seeds of the baseline are a sequence.
LEMMA SeedsListed ==
  ASSUME Scored!BenchDeclared
  PROVE  /\ Len(Scored!BASELINE_SEEDS) \in Nat
         /\ DOMAIN Scored!BASELINE_SEEDS = 1..Len(Scored!BASELINE_SEEDS)
<1>1. PICK N \in Nat : N = Scored!Cardinality(DevSeeds)
  <2>1. Scored!Cardinality(DevSeeds) = Cardinality(DevSeeds)
    BY DEF Scored!Cardinality, Cardinality
  <2>2. IsFiniteSet(DevSeeds)
    BY DEF Scored!BenchDeclared, Scored!IsFiniteSet, IsFiniteSet
  <2> QED BY <2>1, <2>2, FS_CardinalityType
<1>2. Scored!BASELINE_SEEDS = [n \in 1..N |-> Scored!NthSeed(n)]
  BY <1>1 DEF Scored!BASELINE_SEEDS
<1>3. Scored!BASELINE_SEEDS \in Seq({Scored!NthSeed(n) : n \in 1..N})
  BY <1>1, <1>2
<1> QED BY <1>2, <1>3, LenProperties

\* A report taken against truth is there with its key's answer, and a cost with it.
LEMMA AgainstTheKey ==
  ASSUME NEW run, NEW source, NEW key, source # 0 => source = key[2],
         source = 0 <=> Scored!SplitOf(key[2]) = "train"
  PROVE  LET truth == Scored!scoreTruth(run, source)
             cost == Scored!scoreCostSensitivity(run, truth)
         IN  /\ Scored!Answered(truth, key) /\ Scored!Answered(cost, key)
             /\ Scored!Against(truth.report, run, Scored!AnswerTo(key))
             /\ \A c \in cost.report : c.run = run /\ c.harm = truth.report /\ c.harm # {}
<1>1. Scored!AnswerTo(key) = IF source = 0 THEN {} ELSE {source}
  BY DEF Scored!AnswerTo
<1>2. CASE source = 0
  <2>1. /\ Scored!scoreTruth(run, source) = [report |-> {}, reason |-> "not_scored_on_split"]
        /\ Scored!scoreCostSensitivity(run, [report |-> {}, reason |-> "not_scored_on_split"]) =
             [report |-> {}, reason |-> "needs_truth"]
    BY <1>2 DEF Scored!scoreTruth, Scored!scoreCostSensitivity, Scored!NotScored
  <2> QED BY <1>1, <1>2, <2>1 DEF Scored!Answered, Scored!Against
<1>3. CASE source # 0
  <2> DEFINE r == [run |-> run, key |-> source]
             truth == Scored!scoreTruth(run, source)
             cost == Scored!scoreCostSensitivity(run, truth)
  <2>1. truth.report = {r} /\ truth.reason = "none"
    BY <1>3 DEF Scored!scoreTruth, Scored!Scored
  <2> HIDE DEF truth
  <2>2. cost.report = {[run |-> run, harm |-> {r}]} /\ cost.reason = "none"
    BY <2>1 DEF Scored!scoreCostSensitivity, Scored!Scored
  <2>3. {q \in {r} : q.run = run /\ {q.key} = Scored!AnswerTo(key)} = {r}
    BY <1>1, <1>3
  <2>4. \A c \in cost.report : c.run = run /\ c.harm = {r}
    BY <2>2
  <2> HIDE DEF r, cost
  <2>5. /\ Scored!Answered(truth, key) /\ Scored!Answered(cost, key)
        /\ Scored!Against(truth.report, run, Scored!AnswerTo(key))
        /\ \A c \in cost.report : c.run = run /\ c.harm = truth.report /\ c.harm # {}
    BY <1>1, <1>3, <2>1, <2>2, <2>3, <2>4 DEF Scored!Answered, Scored!Against
  <2> QED BY <2>5 DEF truth, cost
<1> QED BY <1>2, <1>3

\* What one execution fixes is of its own unit.
LEMMA BaseIsWhole ==
  ASSUME Scored!BenchDeclared, NEW j, Sweeping(j), \A r \in recorded : TrueRow(r),
         ~Scored!RefusesBaseline(j.agents[j.at], Scored!Min(j.seeds), j.mode)
  PROVE  Scored!BaseIsOf(Scored!BaseMetrics(j.agents[j.at], Scored!Min(j.seeds), j.mode), KeyOf(j))
<1> DEFINE agent == j.agents[j.at]  seed == Scored!Min(j.seeds)  key == KeyOf(j)
           run == Scored!Run(agent, seed, j.mode, Scored!FrozenPoint)
           source == Scored!truthSource(seed)
           truth == Scored!scoreTruth(run, source)
           cost == Scored!scoreCostSensitivity(run, truth)
           spike == Scored!scoreAbstentionSpike(run)
           base == Scored!BaseMetrics(agent, seed, j.mode)
<1>1. /\ base.run = run /\ base.truth = truth /\ base.cost = cost /\ base.spike = spike
      /\ Scored!RunOf(key) = run /\ key[2] = seed /\ key[3] = agent /\ key[4] = j.mode
  BY DEF Scored!BaseMetrics, Scored!RunOf, KeyOf
<1>2. seed # 0 /\ source = IF Scored!SplitOf(seed) = "train" THEN 0 ELSE seed
  BY UnitSeed DEF Sweeping
<1>3. /\ Scored!Answered(truth, key) /\ Scored!Answered(cost, key)
      /\ Scored!Against(truth.report, run, Scored!AnswerTo(key))
      /\ \A c \in cost.report : c.run = run /\ c.harm = truth.report /\ c.harm # {}
  BY <1>1, <1>2, AgainstTheKey
<1>5. /\ spike.rate = run
      /\ spike.flag = {} <=> spike.state # "none"
      /\ \A f, g \in spike.flag : f = g
      /\ \A f \in spike.flag :
           /\ Scored!SplitOf(seed) = "test" /\ f.rate = run
           /\ Scored!Measured(f.bar, agent, j.mode)
  <2> DEFINE read == Scored!consumesBaseline(Scored!SplitOf(seed))
             rows == IF read THEN Scored!metric17BaselineFor(agent, j.mode) ELSE {}
  <2>1. run.seed = seed /\ run.agent = agent /\ run.mode = j.mode
    BY DEF Scored!Run
  <2>2. /\ spike.rate = run /\ spike.flag = {[rate |-> run, bar |-> row] : row \in rows}
        /\ spike.state = IF ~read THEN "not_compared_on_split"
                         ELSE IF spike.flag = {} THEN "not_recorded" ELSE "none"
    BY <2>1 DEF Scored!scoreAbstentionSpike, Scored!metric17
  <2>3. /\ \A r, q \in rows : r = q
        /\ \A r \in rows : read /\ r \in recorded /\ r.agent = agent /\ r.mode = j.mode
    BY DEF Scored!RefusesBaseline, Scored!metric17BaselineFor, Scored!RowsOf
  <2>4. \A r \in rows : Scored!Measured(r, agent, j.mode)
    BY <2>3 DEF TrueRow
  <2>5. read => Scored!SplitOf(seed) = "test"
    BY DEF Scored!consumesBaseline
  <2> HIDE DEF read, rows, run, spike
  <2> QED BY <2>2, <2>3, <2>4, <2>5
<1> HIDE DEF run, truth, cost, spike, base, key
<1>4. \A c \in cost.report : Scored!Against(c.harm, run, Scored!AnswerTo(key))
  BY <1>3
<1>6. Scored!BaseIsOf(base, key)
  BY <1>1, <1>3, <1>4, <1>5 DEF Scored!BaseIsOf
<1> QED BY <1>6 DEF base, key

\* One point more of a curve that is not yet at the end of its grid.
LEMMA DrawnFurther ==
  ASSUME NEW points, NEW key, NEW name, NEW grid \in Seq(Nat), Drawn(points, key, name, grid),
         Len(points) < Len(grid)
  PROVE  /\ Drawn(Append(points, PointOf(key, name, grid[Len(points) + 1])), key, name, grid)
         /\ Len(Append(points, PointOf(key, name, grid[Len(points) + 1]))) = Len(points) + 1
<1> DEFINE Points == {PointOf(key, name, grid[n]) : n \in DOMAIN grid}
           next == PointOf(key, name, grid[Len(points) + 1])
           longer == Append(points, next)
<1>1. points \in Seq(Points) /\ Len(points) \in Nat /\ Len(grid) \in Nat
      /\ \A n \in DOMAIN points : points[n] = PointOf(key, name, grid[n])
  BY DEF Drawn
<1>2. Len(points) + 1 \in DOMAIN grid
  BY <1>1
<1>3. next \in Points
  BY <1>2
<1> HIDE DEF Points, next
<1>4. /\ longer \in Seq(Points) /\ Len(longer) = Len(points) + 1
      /\ DOMAIN longer = 1..(Len(points) + 1) /\ DOMAIN points = 1..Len(points)
      /\ \A n \in 1..Len(points) : longer[n] = points[n]
      /\ longer[Len(points) + 1] = next
  BY <1>1, <1>3
<1>5. \A n \in DOMAIN longer : longer[n] = PointOf(key, name, grid[n])
  BY <1>1, <1>4 DEF next
<1>6. Len(longer) <= Len(grid)
  BY <1>1, <1>4
<1> QED BY <1>4, <1>5, <1>6 DEF Drawn, Points, next

\* No point at all is a curve begun.
LEMMA DrawnNothing ==
  ASSUME NEW key, NEW name, NEW grid \in Seq(Nat)
  PROVE  Drawn(<<>>, key, name, grid)
BY DEF Drawn

LEMMA PointFields ==
  ASSUME NEW key, NEW name, NEW value
  PROVE  /\ PointOf(key, name, value).run =
              Scored!Run(key[3], key[2], key[4], [name |-> name, value |-> value])
         /\ name = "epsilon_bps" => (PointOf(key, name, value).operating <=> value = OperatingPoint)
BY DEF PointOf, Scored!Point

\* A curve drawn to the end of its grid is the curve of its unit.
LEMMA CurveIsDrawn ==
  ASSUME NEW points, NEW key, NEW name, NEW grid \in Seq(Nat), Drawn(points, key, name, grid),
         Len(points) = Len(grid), Scored!HasCurves(key)
  PROVE  /\ Scored!RunsOf(points) = Scored!Curve(key, name, grid)
         /\ DOMAIN points = DOMAIN grid
         /\ \A n \in DOMAIN grid : points[n] = PointOf(key, name, grid[n])
<1>1. DOMAIN points = DOMAIN grid
  BY DEF Drawn
<1>2. \A n \in DOMAIN grid : points[n] = PointOf(key, name, grid[n])
  BY <1>1 DEF Drawn
<1>3. ASSUME NEW n \in DOMAIN grid
      PROVE  points[n].run = Scored!Run(key[3], key[2], key[4], [name |-> name, value |-> grid[n]])
  BY <1>2, PointFields
<1>4. Scored!RunsOf(points) =
        [n \in DOMAIN grid |-> Scored!Run(key[3], key[2], key[4], [name |-> name, value |-> grid[n]])]
  BY <1>1, <1>3 DEF Scored!RunsOf
<1>5. Scored!Curve(key, name, grid) =
        [n \in DOMAIN grid |-> Scored!Run(key[3], key[2], key[4], [name |-> name, value |-> grid[n]])]
  BY DEF Scored!Curve
<1> QED BY <1>1, <1>2, <1>4, <1>5

\* The harm of a point is taken against the key's answer, by its own run.
LEMMA PointIsAgainst ==
  ASSUME NEW key, NEW value, Scored!truthSource(key[2]) # 0 => Scored!truthSource(key[2]) = key[2],
         Scored!truthSource(key[2]) = 0 <=> Scored!SplitOf(key[2]) = "train"
  PROVE  LET point == PointOf(key, "epsilon_bps", value)
         IN  /\ point.harm = {} <=> Scored!AnswerTo(key) = {}
             /\ Scored!Against(point.harm, point.run, Scored!AnswerTo(key))
<1> DEFINE point == PointOf(key, "epsilon_bps", value)
<1>1. point.harm = Scored!scoreTruth(point.run, Scored!truthSource(key[2])).report
  BY DEF PointOf, Scored!Point, Scored!balanceHarmOf
<1> HIDE DEF point
<1>2. /\ Scored!Answered(Scored!scoreTruth(point.run, Scored!truthSource(key[2])), key)
      /\ Scored!Against(Scored!scoreTruth(point.run, Scored!truthSource(key[2])).report, point.run,
                        Scored!AnswerTo(key))
  BY AgainstTheKey
<1>3. /\ point.harm = {} <=> Scored!AnswerTo(key) = {}
      /\ Scored!Against(point.harm, point.run, Scored!AnswerTo(key))
  BY <1>1, <1>2 DEF Scored!Answered
<1> QED BY <1>3 DEF point

\* What is declared of the two grids; the operating point lies on the first.
LEMMA GridsAreDeclared ==
  ASSUME Scored!BenchDeclared
  PROVE  /\ Epsilons \in Seq(Nat) /\ Floors \in Seq(Nat) /\ Epsilons # <<>>
         /\ \E n \in DOMAIN Epsilons : \A m \in DOMAIN Epsilons : Epsilons[m] = OperatingPoint <=> m = n
<1>1. Epsilons \in Seq(Nat) /\ Floors \in Seq(Nat)
  BY Zenon DEF Scored!BenchDeclared
<1>2. \E n \in DOMAIN Epsilons : \A m \in DOMAIN Epsilons : Epsilons[m] = OperatingPoint <=> m = n
  BY Zenon DEF Scored!BenchDeclared
<1>3. Epsilons # <<>>
  <2>1. DOMAIN Epsilons # {}
    BY <1>2
  <2>2. DOMAIN << >> = {}
    OBVIOUS
  <2> QED BY <2>1, <2>2
<1> QED BY <1>1, <1>2, <1>3

\* What is filed at the end of a unit is whole.
LEMMA UnitIsWhole ==
  ASSUME Scored!BenchDeclared, NEW j, Sweeping(j), j.stage = "file"
  PROVE  LET u == Scored!ScoredMetrics(j.base, j.epsilon, j.tau)
         IN  /\ Scored!BaseIsOf(u.base, KeyOf(j))
             /\ Scored!CurvesAreOf(u.epsilon, u.tau, KeyOf(j))
             /\ Scored!RiskIsOf(u.risk, KeyOf(j))
<1> DEFINE key == KeyOf(j)
           risk == Scored!scoreRiskCoverage(j.epsilon, j.base)
           u == Scored!ScoredMetrics(j.base, j.epsilon, j.tau)
<1>1. u.base = j.base /\ u.epsilon = j.epsilon /\ u.tau = j.tau /\ u.risk = risk
  BY DEF Scored!ScoredMetrics
<1>2. Scored!BaseIsOf(j.base, key) /\ CurvesReached(j)
  BY DEF Sweeping
<1>3. Epsilons \in Seq(Nat) /\ Floors \in Seq(Nat) /\ Epsilons # <<>>
      /\ \E n \in DOMAIN Epsilons : \A m \in DOMAIN Epsilons : Epsilons[m] = OperatingPoint <=> m = n
  BY GridsAreDeclared
<1>4. /\ Scored!truthSource(key[2]) # 0 => Scored!truthSource(key[2]) = key[2]
      /\ Scored!truthSource(key[2]) = 0 <=> Scored!SplitOf(key[2]) = "train"
  <2>1. key[2] = Scored!Min(j.seeds)
    BY DEF KeyOf
  <2> QED BY <2>1, UnitSeed DEF Sweeping
<1> HIDE DEF key, risk, u
<1>5. Scored!Answered(j.base.truth, key) /\ j.base.run = Scored!RunOf(key)
  BY <1>2 DEF Scored!BaseIsOf
<1>6. CASE Scored!HasCurves(key)
  <2>1. /\ Scored!RunsOf(j.epsilon) = Scored!Curve(key, "epsilon_bps", Epsilons)
        /\ DOMAIN j.epsilon = DOMAIN Epsilons
        /\ \A n \in DOMAIN Epsilons : j.epsilon[n] = PointOf(key, "epsilon_bps", Epsilons[n])
    <3>1. Drawn(j.epsilon, key, "epsilon_bps", Epsilons) /\ Len(j.epsilon) = Len(Epsilons)
      BY <1>2, <1>6 DEF CurvesReached, key
    <3> QED BY <1>3, <1>6, <3>1, CurveIsDrawn
  <2>2. Scored!RunsOf(j.tau) = Scored!Curve(key, "tau_floor_paise", Floors)
    <3>1. Drawn(j.tau, key, "tau_floor_paise", Floors) /\ Len(j.tau) = Len(Floors)
      BY <1>2, <1>6 DEF CurvesReached, key
    <3> QED BY <1>3, <1>6, <3>1, CurveIsDrawn
  <2>3. \A n \in DOMAIN Epsilons :
          /\ j.epsilon[n].harm = {} <=> Scored!AnswerTo(key) = {}
          /\ Scored!Against(j.epsilon[n].harm, j.epsilon[n].run, Scored!AnswerTo(key))
    BY <1>4, <2>1, PointIsAgainst
  <2>4. Scored!Cardinality({n \in DOMAIN j.epsilon : j.epsilon[n].operating}) = 1
    <3>1. PICK o \in DOMAIN Epsilons : \A m \in DOMAIN Epsilons : Epsilons[m] = OperatingPoint <=> m = o
      BY <1>3
    <3>2. ASSUME NEW n \in DOMAIN Epsilons
          PROVE  j.epsilon[n].operating <=> n = o
      <4>1. j.epsilon[n] = PointOf(key, "epsilon_bps", Epsilons[n])
        BY <2>1
      <4>2. PointOf(key, "epsilon_bps", Epsilons[n]).operating <=> Epsilons[n] = OperatingPoint
        BY PointFields, Zenon
      <4>3. Epsilons[n] = OperatingPoint <=> n = o
        BY <3>1
      <4> QED BY <4>1, <4>2, <4>3, Zenon
    <3>3. {n \in DOMAIN j.epsilon : j.epsilon[n].operating} = {o}
      BY <2>1, <3>1, <3>2
    <3>4. Scored!Cardinality({o}) = Cardinality({o})
      BY DEF Scored!Cardinality, Cardinality
    <3> QED BY <3>3, <3>4, FS_Singleton
  <2>5. Scored!CurvesAreOf(j.epsilon, j.tau, key)
    BY <2>1, <2>2, <2>3, <2>4 DEF Scored!CurvesAreOf
  <2>6. Scored!RiskIsOf(risk, key)
    <3>1. j.epsilon # Scored!NoPoints
      BY <1>3, <2>1 DEF Scored!NoPoints
    <3>2. (\E n \in DOMAIN j.epsilon : j.epsilon[n].harm = {}) <=> Scored!AnswerTo(key) = {}
      BY <1>3, <2>1, <2>3
    <3>3. risk = IF Scored!AnswerTo(key) = {} THEN [report |-> {}, reason |-> "no_risk_axis"]
                 ELSE [report |-> {Scored!RunsOf(j.epsilon)}, reason |-> "none"]
      BY <3>1, <3>2 DEF risk, Scored!scoreRiskCoverage, Scored!NotScored, Scored!Scored, Scored!RunsOf
    <3> QED BY <1>6, <2>1, <3>3 DEF Scored!RiskIsOf, Scored!Answered
  <2> QED BY <1>1, <1>2, <2>5, <2>6 DEF key, u
<1>7. CASE ~Scored!HasCurves(key)
  <2>1. j.epsilon = <<>> /\ j.tau = <<>>
    BY <1>2, <1>7 DEF CurvesReached, key
  <2>2. Scored!CurvesAreOf(j.epsilon, j.tau, key)
    BY <1>7, <2>1 DEF Scored!CurvesAreOf, Scored!RunsOf, Scored!Curve, Scored!NoPoints
  <2>3. Scored!RiskIsOf(risk, key)
    <3> DEFINE drawn == <<[run |-> j.base.run, harm |-> j.base.truth.report]>>
    <3>1. risk = IF \E n \in DOMAIN drawn : drawn[n].harm = {}
                 THEN [report |-> {}, reason |-> "no_risk_axis"]
                 ELSE [report |-> {[n \in DOMAIN drawn |-> drawn[n].run]}, reason |-> "none"]
      BY <2>1 DEF risk, Scored!scoreRiskCoverage, Scored!NotScored, Scored!Scored, Scored!NoPoints
    <3>2. DOMAIN drawn = {1} /\ drawn[1].run = j.base.run /\ drawn[1].harm = j.base.truth.report
      OBVIOUS
    <3>3. [n \in DOMAIN drawn |-> drawn[n].run] = <<j.base.run>>
      BY <3>2
    <3> HIDE DEF drawn
    <3>4. (\E n \in DOMAIN drawn : drawn[n].harm = {}) <=> Scored!AnswerTo(key) = {}
      BY <1>5, <3>2 DEF Scored!Answered
    <3> QED BY <1>5, <1>7, <3>1, <3>3, <3>4 DEF Scored!RiskIsOf, Scored!Answered
  <2> QED BY <1>1, <1>2, <2>2, <2>3 DEF key, u
<1> QED BY <1>6, <1>7

\* A sweep with only its stage, its parts or its place changed is at the same unit.
LEMMA SameUnit ==
  ASSUME NEW j, NEW k, k.run_id = j.run_id, k.seeds = j.seeds, k.agents = j.agents, k.at = j.at,
         k.mode = j.mode
  PROVE  KeyOf(k) = KeyOf(j)
BY DEF KeyOf

LEMMA EpsilonDrawn ==
  ASSUME Scored!BenchDeclared, NEW j, Sweeping(j), j.stage = "epsilon", NEW k,
         k = [j EXCEPT !.epsilon = Append(j.epsilon, PointOf(KeyOf(j), "epsilon_bps",
                                                             Epsilons[Len(j.epsilon) + 1])),
                       !.stage = IF Len(j.epsilon) + 1 < Len(Epsilons) THEN "epsilon" ELSE "tau"]
  PROVE  Sweeping(k)
<1> DEFINE longer == Append(j.epsilon, PointOf(KeyOf(j), "epsilon_bps", Epsilons[Len(j.epsilon) + 1]))
           stage == IF Len(j.epsilon) + 1 < Len(Epsilons) THEN "epsilon" ELSE "tau"
<1>1. /\ Epsilons \in Seq(Nat) /\ Floors \in Seq(Nat) /\ Len(Floors) > 0
      /\ Scored!BaseIsOf(j.base, KeyOf(j)) /\ Scored!HasCurves(KeyOf(j))
      /\ Drawn(j.epsilon, KeyOf(j), "epsilon_bps", Epsilons) /\ Len(j.epsilon) < Len(Epsilons)
      /\ j.tau = <<>> /\ Drawn(j.tau, KeyOf(j), "tau_floor_paise", Floors)
  BY DEF Scored!BenchDeclared, Sweeping, CurvesReached
<1>2. Drawn(longer, KeyOf(j), "epsilon_bps", Epsilons) /\ Len(longer) = Len(j.epsilon) + 1
  BY <1>1, DrawnFurther
<1>3. Len(j.epsilon) \in Nat /\ Len(Epsilons) \in Nat
  BY <1>1 DEF Drawn
<1> HIDE DEF longer
<1>4. /\ k.cmd = "bench" /\ DOMAIN k = DOMAIN j /\ k.seeds = j.seeds /\ k.base = j.base
      /\ k.epsilon = longer /\ k.tau = j.tau /\ k.stage = stage
      /\ k.run_id = j.run_id /\ k.agents = j.agents /\ k.at = j.at /\ k.mode = j.mode
  BY DEF Sweeping, longer
<1>5. KeyOf(k) = KeyOf(j)
  BY <1>4, SameUnit
<1>6. CurvesReached(k)
  <2>1. Drawn(k.epsilon, KeyOf(k), "epsilon_bps", Epsilons)
        /\ Drawn(k.tau, KeyOf(k), "tau_floor_paise", Floors)
    BY <1>1, <1>2, <1>4, <1>5, Zenon
  <2>2. Scored!HasCurves(KeyOf(k))
    BY <1>1, <1>5
  <2>3. /\ k.stage = "epsilon" => Len(k.epsilon) < Len(Epsilons) /\ k.tau = <<>>
        /\ k.stage = "tau" => Len(k.epsilon) = Len(Epsilons) /\ Len(k.tau) < Len(Floors)
        /\ k.stage # "file"
    <3>1. Len(k.tau) = 0
      BY <1>1, <1>4
    <3>2. /\ Len(k.epsilon) = Len(j.epsilon) + 1 /\ k.tau = <<>>
          /\ k.stage = IF Len(j.epsilon) + 1 < Len(Epsilons) THEN "epsilon" ELSE "tau"
      BY <1>1, <1>2, <1>4
    <3> QED BY <1>1, <1>3, <3>1, <3>2
  <2> QED BY <2>1, <2>2, <2>3 DEF CurvesReached
<1> QED BY <1>1, <1>4, <1>5, <1>6 DEF Sweeping

LEMMA TauDrawn ==
  ASSUME Scored!BenchDeclared, NEW j, Sweeping(j), j.stage = "tau", NEW k,
         k = [j EXCEPT !.tau = Append(j.tau, PointOf(KeyOf(j), "tau_floor_paise",
                                                     Floors[Len(j.tau) + 1])),
                       !.stage = IF Len(j.tau) + 1 < Len(Floors) THEN "tau" ELSE "file"]
  PROVE  Sweeping(k)
<1> DEFINE longer == Append(j.tau, PointOf(KeyOf(j), "tau_floor_paise", Floors[Len(j.tau) + 1]))
           stage == IF Len(j.tau) + 1 < Len(Floors) THEN "tau" ELSE "file"
<1>1. /\ Epsilons \in Seq(Nat) /\ Floors \in Seq(Nat)
      /\ Scored!BaseIsOf(j.base, KeyOf(j)) /\ Scored!HasCurves(KeyOf(j))
      /\ Drawn(j.epsilon, KeyOf(j), "epsilon_bps", Epsilons) /\ Len(j.epsilon) = Len(Epsilons)
      /\ Drawn(j.tau, KeyOf(j), "tau_floor_paise", Floors) /\ Len(j.tau) < Len(Floors)
  BY DEF Scored!BenchDeclared, Sweeping, CurvesReached
<1>2. Drawn(longer, KeyOf(j), "tau_floor_paise", Floors) /\ Len(longer) = Len(j.tau) + 1
  BY <1>1, DrawnFurther
<1>3. Len(j.tau) \in Nat /\ Len(Floors) \in Nat
  BY <1>1 DEF Drawn
<1> HIDE DEF longer
<1>4. /\ k.cmd = "bench" /\ DOMAIN k = DOMAIN j /\ k.seeds = j.seeds /\ k.base = j.base
      /\ k.epsilon = j.epsilon /\ k.tau = longer /\ k.stage = stage
      /\ k.run_id = j.run_id /\ k.agents = j.agents /\ k.at = j.at /\ k.mode = j.mode
  BY DEF Sweeping, longer
<1>5. KeyOf(k) = KeyOf(j)
  BY <1>4, SameUnit
<1>6. CurvesReached(k)
  <2>1. Drawn(k.epsilon, KeyOf(k), "epsilon_bps", Epsilons)
        /\ Drawn(k.tau, KeyOf(k), "tau_floor_paise", Floors)
    BY <1>1, <1>2, <1>4, <1>5, Zenon
  <2>2. Scored!HasCurves(KeyOf(k))
    BY <1>1, <1>5
  <2>3. /\ k.stage # "epsilon"
        /\ k.stage = "tau" => Len(k.epsilon) = Len(Epsilons) /\ Len(k.tau) < Len(Floors)
        /\ k.stage = "file" => Len(k.epsilon) = Len(Epsilons) /\ Len(k.tau) = Len(Floors)
    <3>1. /\ Len(k.tau) = Len(j.tau) + 1 /\ k.epsilon = j.epsilon
          /\ k.stage = IF Len(j.tau) + 1 < Len(Floors) THEN "tau" ELSE "file"
      BY <1>1, <1>2, <1>4
    <3> QED BY <1>1, <1>3, <3>1
  <2> QED BY <2>1, <2>2, <2>3 DEF CurvesReached
<1> QED BY <1>1, <1>4, <1>5, <1>6 DEF Sweeping

-----------------------------------------------------------------------------
(* The steps of bench                                                      *)

\* What is filed, printed and recorded stays as it is while a command goes on or ends.
LEMMA BenchGoesOn ==
  ASSUME BenchInv, filed' = filed, printed' = printed, recorded' = recorded,
         job' = Scored!Idle \/ Sweeping(job') \/ Sampling(job')
  PROVE  BenchInv'
<1>1. MetricsAreWhole'
  BY DEF BenchInv, MetricsAreWhole, Scored!UnitsAreWhole
<1>2. (job = Scored!Idle \/ Sweeping(job) \/ Sampling(job))'
  OBVIOUS
<1> QED BY <1>1, <1>2 DEF BenchInv

LEMMA JobIsSweeping ==
  ASSUME BenchInv, job.cmd = "bench"
  PROVE  Sweeping(job)
BY DEF BenchInv, Scored!Idle, Sampling

LEMMA JobIsSampling ==
  ASSUME BenchInv, job.cmd = "baseline"
  PROVE  Sampling(job)
BY DEF BenchInv, Scored!Idle, Sweeping

LEMMA BenchStartKeeps ==
  ASSUME BenchInv, NEW split, NEW seeds \in SUBSET Scored!Seeds, NEW ids, NEW mode, NEW run_id,
         Scored!BenchStart(split, seeds, ids, mode, run_id)
  PROVE  BenchInv'
<1>1. PICK k : k = job'
  OBVIOUS
<1>2. k = [cmd |-> "bench", seeds |-> seeds, agents |-> Scored!selectAgents(ids), at |-> 1,
           mode |-> mode, run_id |-> run_id, stage |-> "load", base |-> Scored!NoMetrics,
           epsilon |-> <<>>, tau |-> <<>>]
  BY <1>1 DEF Scored!BenchStart, Scored!NoPoints
<1>3. seeds # {}
  BY DEF Scored!BenchStart
<1>4. Sweeping(k)
  BY <1>2, <1>3 DEF Sweeping
<1>5. filed' = filed /\ printed' = printed /\ recorded' = recorded
  BY DEF Scored!BenchStart
<1> QED BY <1>1, <1>4, <1>5, BenchGoesOn

LEMMA LoadSeedKeeps ==
  ASSUME BenchInv, Scored!LoadSeed
  PROVE  BenchInv'
<1>1. PICK j, k : j = job /\ k = job'
  OBVIOUS
<1>2. /\ Sweeping(j) /\ j.stage = "load"
      /\ k = [j EXCEPT !.stage = "execute"] \/ k = Scored!Idle
      /\ filed' = filed /\ printed' = printed /\ recorded' = recorded
  BY <1>1, JobIsSweeping DEF Scored!LoadSeed, Scored!Dies
<1>3. k = [j EXCEPT !.stage = "execute"] => Sweeping(k)
  BY <1>2 DEF Sweeping
<1> QED BY <1>1, <1>2, <1>3, BenchGoesOn

LEMMA UnitNames ==
  /\ Scored!metricsPath = KeyOf(job)
  /\ Scored!Seed = Scored!Min(job.seeds) /\ Scored!Agent = job.agents[job.at]
  /\ Scored!IsSwept(Scored!Agent) <=> Scored!HasCurves(KeyOf(job))
BY DEF Scored!metricsPath, Scored!Seed, Scored!Agent, Scored!IsSwept, Scored!HasCurves, KeyOf

LEMMA ExecuteKeeps ==
  ASSUME Scored!BenchDeclared, BenchInv, Scored!Execute
  PROVE  BenchInv'
<1> DEFINE base == Scored!BaseMetrics(Scored!Agent, Scored!Seed, job.mode)
<1>1. PICK swept \in BOOLEAN : swept <=> Scored!IsSwept(Scored!Agent)
  OBVIOUS
<1>2. PICK j, k, b : j = job /\ k = job' /\ b = base
  OBVIOUS
<1> HIDE DEF base
<1>3. /\ Sweeping(j) /\ j.stage = "execute"
      /\ \/ /\ k = [j EXCEPT !.stage = IF swept THEN "epsilon" ELSE "file", !.base = b]
            /\ ~Scored!RefusesBaseline(Scored!Agent, Scored!Seed, job.mode)
         \/ k = Scored!Idle
      /\ filed' = filed /\ printed' = printed /\ recorded' = recorded
  BY <1>1, <1>2, JobIsSweeping DEF Scored!Execute, Scored!Dies, base
<1>4. CASE k = Scored!Idle
  BY <1>2, <1>3, <1>4, BenchGoesOn
<1>5. CASE /\ k = [j EXCEPT !.stage = IF swept THEN "epsilon" ELSE "file", !.base = b]
           /\ ~Scored!RefusesBaseline(Scored!Agent, Scored!Seed, job.mode)
  <2>1. Scored!BaseIsOf(b, KeyOf(j))
    <3>1. ~Scored!RefusesBaseline(j.agents[j.at], Scored!Min(j.seeds), j.mode)
      BY <1>2, <1>5, UnitNames
    <3>2. b = Scored!BaseMetrics(j.agents[j.at], Scored!Min(j.seeds), j.mode)
      BY <1>2, UnitNames DEF base
    <3>3. \A r \in recorded : TrueRow(r)
      BY DEF BenchInv
    <3> QED BY <1>3, <3>1, <3>2, <3>3, BaseIsWhole
  <2>2. swept <=> Scored!HasCurves(KeyOf(j))
    BY <1>1, <1>2, UnitNames
  <2>3. j.epsilon = <<>> /\ j.tau = <<>>
    BY <1>3 DEF Sweeping
  <2>4. /\ k.cmd = "bench" /\ DOMAIN k = DOMAIN j /\ k.seeds = j.seeds /\ k.base = b
        /\ k.epsilon = <<>> /\ k.tau = <<>> /\ k.stage = IF swept THEN "epsilon" ELSE "file"
        /\ k.run_id = j.run_id /\ k.agents = j.agents /\ k.at = j.at /\ k.mode = j.mode
    BY <1>3, <1>5, <2>3 DEF Sweeping
  <2>5. KeyOf(k) = KeyOf(j)
    BY <2>4, SameUnit
  <2>6. CurvesReached(k)
    <3>1. /\ Epsilons \in Seq(Nat) /\ Floors \in Seq(Nat) /\ 0 < Len(Epsilons)
      BY GridsAreDeclared
    <3>2. Drawn(k.epsilon, KeyOf(k), "epsilon_bps", Epsilons)
          /\ Drawn(k.tau, KeyOf(k), "tau_floor_paise", Floors)
      BY <2>4, <3>1, DrawnNothing
    <3> QED BY <2>2, <2>4, <2>5, <3>1, <3>2 DEF CurvesReached
  <2>7. Sweeping(k)
    BY <1>3, <2>1, <2>4, <2>5, <2>6 DEF Sweeping
  <2> QED BY <1>2, <1>3, <2>7, BenchGoesOn
<1> QED BY <1>3, <1>4, <1>5

LEMMA EpsilonPointKeeps ==
  ASSUME Scored!BenchDeclared, BenchInv, Scored!EpsilonPoint
  PROVE  BenchInv'
<1>1. PICK j, k : j = job /\ k = job'
  OBVIOUS
<1>2. /\ Sweeping(j) /\ j.stage = "epsilon"
      /\ filed' = filed /\ printed' = printed /\ recorded' = recorded
  BY <1>1, JobIsSweeping DEF Scored!EpsilonPoint
<1>3. \/ k = [j EXCEPT !.epsilon = Append(j.epsilon, PointOf(KeyOf(j), "epsilon_bps",
                                                             Epsilons[Len(j.epsilon) + 1])),
                       !.stage = IF Len(j.epsilon) + 1 < Len(Epsilons) THEN "epsilon" ELSE "tau"]
      \/ k = Scored!Idle
  <2>1. KeyOf(j)[2] = Scored!Seed /\ KeyOf(j)[3] = Scored!Agent /\ KeyOf(j)[4] = job.mode
    BY <1>1 DEF KeyOf, Scored!Seed, Scored!Agent
  <2> QED BY <1>1, <1>2, <2>1 DEF Scored!EpsilonPoint, Scored!SweepPoint, Scored!Walked,
                                   Scored!AfterCurve, Scored!Dies, PointOf
<1>4. Sweeping(k) \/ k = Scored!Idle
  BY <1>2, <1>3, EpsilonDrawn
<1> QED BY <1>1, <1>2, <1>4, BenchGoesOn

LEMMA TauPointKeeps ==
  ASSUME Scored!BenchDeclared, BenchInv, Scored!TauPoint
  PROVE  BenchInv'
<1>1. PICK j, k : j = job /\ k = job'
  OBVIOUS
<1>2. /\ Sweeping(j) /\ j.stage = "tau"
      /\ filed' = filed /\ printed' = printed /\ recorded' = recorded
  BY <1>1, JobIsSweeping DEF Scored!TauPoint
<1>3. \/ k = [j EXCEPT !.tau = Append(j.tau, PointOf(KeyOf(j), "tau_floor_paise",
                                                     Floors[Len(j.tau) + 1])),
                       !.stage = IF Len(j.tau) + 1 < Len(Floors) THEN "tau" ELSE "file"]
      \/ k = Scored!Idle
  <2>1. KeyOf(j)[2] = Scored!Seed /\ KeyOf(j)[3] = Scored!Agent /\ KeyOf(j)[4] = job.mode
    BY <1>1 DEF KeyOf, Scored!Seed, Scored!Agent
  <2> QED BY <1>1, <1>2, <2>1 DEF Scored!TauPoint, Scored!SweepPoint, Scored!Walked,
                                   Scored!AfterCurve, Scored!Dies, PointOf
<1>4. Sweeping(k) \/ k = Scored!Idle
  BY <1>2, <1>3, TauDrawn
<1> QED BY <1>1, <1>2, <1>4, BenchGoesOn

LEMMA FileKeeps ==
  ASSUME Scored!BenchDeclared, BenchInv, Scored!File
  PROVE  BenchInv'
<1>1. PICK j, k, s : j = job /\ k = job' /\ s = Scored!Seed
  OBVIOUS
<1>2. /\ Sweeping(j) /\ j.stage = "file" /\ k = Scored!NextUnit
      /\ printed' = printed /\ recorded' = recorded
      /\ filed' = [n \in DOMAIN filed \cup {Scored!metricsPath} |->
                     IF n = Scored!metricsPath
                     THEN Scored!ScoredMetrics(job.base, job.epsilon, job.tau) ELSE filed[n]]
  BY <1>1, JobIsSweeping DEF Scored!File
<1>3. MetricsAreWhole'
  <2> DEFINE unit == Scored!ScoredMetrics(j.base, j.epsilon, j.tau)
             Fine(u, key) == /\ Scored!BaseIsOf(u.base, key)
                             /\ Scored!CurvesAreOf(u.epsilon, u.tau, key)
                             /\ Scored!RiskIsOf(u.risk, key)
  <2>1. Fine(unit, KeyOf(j))
    BY <1>2, UnitIsWhole
  <2>2. filed' = [n \in DOMAIN filed \cup {KeyOf(j)} |-> IF n = KeyOf(j) THEN unit ELSE filed[n]]
    BY <1>1, <1>2, UnitNames
  <2>3. \A key \in DOMAIN filed : Fine(filed[key], key)
    BY DEF BenchInv, MetricsAreWhole, Scored!UnitsAreWhole
  <2>4. PICK f : f = filed'
    OBVIOUS
  <2> HIDE DEF unit, Fine
  <2>5. \A key \in DOMAIN f : Fine(f[key], key)
    BY <2>1, <2>2, <2>3, <2>4
  <2>6. \A key \in DOMAIN f : /\ Scored!BaseIsOf(f[key].base, key)
                              /\ Scored!CurvesAreOf(f[key].epsilon, f[key].tau, key)
                              /\ Scored!RiskIsOf(f[key].risk, key)
    BY <2>5 DEF Fine
  <2> QED BY <2>4, <2>6 DEF MetricsAreWhole, Scored!UnitsAreWhole
<1>4. Sweeping(k) \/ k = Scored!Idle
  <2>1. s \in j.seeds
    <3>1. Scored!Min(j.seeds) \in j.seeds
      BY <1>2, UnitSeed DEF Sweeping
    <3> QED BY <1>1, <3>1, UnitNames
  <2>2. \/ k = [j EXCEPT !.at = @ + 1, !.stage = "execute", !.base = Scored!NoMetrics,
                         !.epsilon = <<>>, !.tau = <<>>]
        \/ /\ j.seeds # {s}
           /\ k = [j EXCEPT !.at = 1, !.seeds = @ \ {s}, !.stage = "load", !.base = Scored!NoMetrics,
                            !.epsilon = <<>>, !.tau = <<>>]
        \/ k = Scored!Idle
    BY <1>1, <1>2 DEF Scored!NextUnit, Scored!NoPoints
  <2>3. \/ /\ k.cmd = "bench" /\ DOMAIN k = DOMAIN j
           /\ k.seeds = j.seeds \/ (k.seeds = j.seeds \ {s} /\ j.seeds # {s})
           /\ k.stage \in {"load", "execute"} /\ k.epsilon = <<>> /\ k.tau = <<>>
        \/ k = Scored!Idle
    BY <1>2, <2>2 DEF Sweeping
  <2> QED BY <1>2, <2>1, <2>3 DEF Sweeping
<1>5. (job = Scored!Idle \/ Sweeping(job) \/ Sampling(job))'
  BY <1>1, <1>4
<1> QED BY <1>2, <1>3, <1>5 DEF BenchInv

LEMMA BaselineStartKeeps ==
  ASSUME BenchInv, NEW ids, NEW mode, Scored!BaselineStart(ids, mode)
  PROVE  BenchInv'
<1>1. PICK k : k = job'
  OBVIOUS
<1>2. /\ k = [cmd |-> "baseline", agents |-> Scored!selectAgents(ids), at |-> 1, mode |-> mode,
              samples |-> <<>>, rows |-> {}]
      /\ filed' = filed /\ printed' = printed /\ recorded' = recorded
  BY <1>1 DEF Scored!BaselineStart
<1>3. Sampling(k)
  BY <1>2 DEF Sampling
<1> QED BY <1>1, <1>2, <1>3, BenchGoesOn

LEMMA BaselineSampleKeeps ==
  ASSUME Scored!BenchDeclared, BenchInv, Scored!BaselineSample
  PROVE  BenchInv'
<1>1. PICK j, k : j = job /\ k = job'
  OBVIOUS
<1> DEFINE N == Len(Scored!BASELINE_SEEDS)
           samples == Append(j.samples, SampleOf(j, Len(j.samples) + 1))
<1>2. /\ Sampling(j)
      /\ filed' = filed /\ printed' = printed /\ recorded' = recorded
  BY <1>1, JobIsSampling DEF Scored!BaselineSample
<1>3. /\ samples \in Seq({SampleOf(j, n) : n \in Nat})
      /\ \A n \in DOMAIN samples : samples[n] = SampleOf(j, n)
  <2>1. /\ j.samples \in Seq({SampleOf(j, n) : n \in Nat}) /\ Len(j.samples) + 1 \in Nat
        /\ DOMAIN j.samples = 1..Len(j.samples)
        /\ \A n \in DOMAIN j.samples : j.samples[n] = SampleOf(j, n)
    BY <1>2 DEF Sampling
  <2> HIDE DEF samples
  <2>2. /\ samples \in Seq({SampleOf(j, n) : n \in Nat})
        /\ DOMAIN samples = 1..(Len(j.samples) + 1)
        /\ \A n \in 1..Len(j.samples) : samples[n] = j.samples[n]
        /\ samples[Len(j.samples) + 1] = SampleOf(j, Len(j.samples) + 1)
    BY <2>1 DEF samples
  <2> QED BY <2>1, <2>2
<1> HIDE DEF samples
<1>4. \/ k = [j EXCEPT !.samples = samples]
      \/ /\ Len(samples) = N
         /\ \E row \in Scored!BaselineRows(j.agents[j.at], j.mode, samples) :
              k = [j EXCEPT !.samples = <<>>, !.rows = @ \cup {row}, !.at = @ + 1]
      \/ k = Scored!Idle
  <2>1. samples = Append(j.samples, Scored!Run(Scored!Agent, Scored!BASELINE_SEEDS[Len(j.samples) + 1],
                                               j.mode, Scored!FrozenPoint))
    BY <1>1 DEF samples, SampleOf, Scored!Agent
  <2> QED BY <1>1, <2>1 DEF Scored!BaselineSample, Scored!Dies, Scored!Agent
<1>5. CASE k = [j EXCEPT !.samples = samples]
  <2>1. /\ k.cmd = "baseline" /\ DOMAIN k = DOMAIN j /\ k.agents = j.agents /\ k.at = j.at
        /\ k.mode = j.mode /\ k.samples = samples /\ k.rows = j.rows
    BY <1>2, <1>5 DEF Sampling
  <2>2. \A n : SampleOf(k, n) = SampleOf(j, n)
    BY <2>1 DEF SampleOf
  <2>3. Sampling(k)
    BY <1>2, <1>3, <2>1, <2>2 DEF Sampling
  <2> QED BY <1>1, <1>2, <2>3, BenchGoesOn
<1>6. ASSUME Len(samples) = N, NEW row \in Scored!BaselineRows(j.agents[j.at], j.mode, samples),
             k = [j EXCEPT !.samples = <<>>, !.rows = @ \cup {row}, !.at = @ + 1]
      PROVE  BenchInv'
  <2>1. row = [agent |-> j.agents[j.at], mode |-> j.mode, of |-> samples, copy |-> 0]
    BY <1>6 DEF Scored!BaselineRows, Scored!metric17BaselineStatistic
  <2>2. samples = [n \in DOMAIN Scored!BASELINE_SEEDS |-> SampleOf(j, n)]
    <3>1. DOMAIN samples = DOMAIN Scored!BASELINE_SEEDS
      BY <1>3, <1>6, SeedsListed
    <3>2. samples = [n \in DOMAIN samples |-> samples[n]]
      BY <1>3
    <3> QED BY <1>3, <3>1, <3>2
  <2>3. TrueRow(row)
    BY <2>1, <2>2 DEF TrueRow, Scored!Measured, SampleOf
  <2>4. /\ k.cmd = "baseline" /\ DOMAIN k = DOMAIN j /\ k.samples = <<>> /\ k.rows = j.rows \cup {row}
    BY <1>2, <1>6 DEF Sampling
  <2>5. Sampling(k)
    BY <1>2, <2>3, <2>4 DEF Sampling
  <2> QED BY <1>1, <1>2, <2>5, BenchGoesOn
<1>7. CASE k = Scored!Idle
  BY <1>1, <1>2, <1>7, BenchGoesOn
<1> QED BY <1>4, <1>5, <1>6, <1>7

LEMMA BaselineEndsKeeps ==
  ASSUME BenchInv, Scored!BaselineEnds
  PROVE  BenchInv'
<1>1. /\ printed'.rows = job.rows /\ job' = Scored!Idle
      /\ filed' = filed /\ recorded' = recorded
  BY DEF Scored!BaselineEnds
<1>2. \A r \in job.rows : TrueRow(r)
  BY JobIsSampling DEF Scored!BaselineEnds, Sampling
<1>3. (\A r \in printed.rows : TrueRow(r))'
  BY <1>1, <1>2
<1>4. (\A r \in recorded : TrueRow(r))'
  BY <1>1 DEF BenchInv
<1>5. MetricsAreWhole'
  BY <1>1 DEF BenchInv, MetricsAreWhole, Scored!UnitsAreWhole
<1>6. (job = Scored!Idle \/ Sweeping(job) \/ Sampling(job))'
  BY <1>1
<1> QED BY <1>3, <1>4, <1>5, <1>6 DEF BenchInv

LEMMA TranscribeKeeps ==
  ASSUME BenchInv, Scored!Transcribe
  PROVE  BenchInv'
<1>1. PICK kept \in SUBSET recorded :
        /\ recorded' = kept \cup {Scored!Copied(kept, row) : row \in printed.rows}
        /\ job' = job /\ filed' = filed /\ printed' = printed
  BY DEF Scored!Transcribe
<1>2. ASSUME NEW row \in printed.rows
      PROVE  TrueRow(Scored!Copied(kept, row))
  <2>1. TrueRow(row)
    BY DEF BenchInv
  <2> DEFINE copy == Scored!Copied(kept, row)
  <2>2. DOMAIN copy = DOMAIN row /\ copy.agent = row.agent /\ copy.mode = row.mode /\ copy.of = row.of
    BY <2>1 DEF Scored!Copied, TrueRow
  <2> HIDE DEF copy
  <2>3. TrueRow(copy)
    BY <2>1, <2>2 DEF TrueRow, Scored!Measured
  <2> QED BY <2>3 DEF copy
<1>3. \A r \in recorded' : TrueRow(r)
  BY <1>1, <1>2 DEF BenchInv
<1>4. (\A r \in recorded : TrueRow(r))'
  BY <1>3
<1>5. (\A r \in printed.rows : TrueRow(r))'
  BY <1>1 DEF BenchInv
<1>6. MetricsAreWhole'
  BY <1>1 DEF BenchInv, MetricsAreWhole, Scored!UnitsAreWhole
<1>7. (job = Scored!Idle \/ Sweeping(job) \/ Sampling(job))'
  BY <1>1 DEF BenchInv
<1> QED BY <1>4, <1>5, <1>6, <1>7 DEF BenchInv

LEMMA InitBenchInv ==
  ASSUME Scored!Init
  PROVE  BenchInv
<1>1. /\ job = Scored!Idle /\ filed = <<>> /\ printed.rows = {} /\ recorded = {}
  BY DEF Scored!Init, Scored!NoTable
<1>2. DOMAIN filed = {}
  BY <1>1
<1> QED BY <1>1, <1>2 DEF BenchInv, MetricsAreWhole, Scored!UnitsAreWhole

LEMMA NextBenchInv ==
  ASSUME Scored!BenchDeclared, BenchInv, [Scored!Next]_(Scored!vars)
  PROVE  BenchInv'
<1>1. ASSUME NEW p \in {"train", "dev", "test"}, NEW s \in SUBSET Scored!Seeds, NEW ids \in Requests,
             NEW m \in Scored!SCORED_LLM_MODES, NEW r \in RunIds, Scored!BenchStart(p, s, ids, m, r)
      PROVE  BenchInv'
  BY <1>1, BenchStartKeeps
<1>2. CASE Scored!LoadSeed
  BY <1>2, LoadSeedKeeps
<1>3. CASE Scored!Execute
  BY <1>3, ExecuteKeeps
<1>4. CASE Scored!EpsilonPoint
  BY <1>4, EpsilonPointKeeps
<1>5. CASE Scored!TauPoint
  BY <1>5, TauPointKeeps
<1>6. CASE Scored!File
  BY <1>6, FileKeeps
<1>7. ASSUME NEW ids \in Requests, NEW m \in Scored!SCORED_LLM_MODES, Scored!BaselineStart(ids, m)
      PROVE  BenchInv'
  BY <1>7, BaselineStartKeeps
<1>8. CASE Scored!BaselineSample
  BY <1>8, BaselineSampleKeeps
<1>9. CASE Scored!BaselineEnds
  BY <1>9, BaselineEndsKeeps
<1>10. CASE Scored!Transcribe
  BY <1>10, TranscribeKeeps
<1>11. CASE Scored!Kill
  <2>1. job' = Scored!Idle /\ filed' = filed /\ printed' = printed /\ recorded' = recorded
    BY <1>11 DEF Scored!Kill
  <2> QED BY <2>1, BenchGoesOn
<1>12. CASE UNCHANGED Scored!vars
  <2>1. job' = job /\ filed' = filed /\ printed' = printed /\ recorded' = recorded
    BY <1>12 DEF Scored!vars
  <2>2. job' = Scored!Idle \/ Sweeping(job') \/ Sampling(job')
    BY <2>1 DEF BenchInv
  <2> QED BY <2>1, <2>2, BenchGoesOn
<1> QED BY <1>1, <1>2, <1>3, <1>4, <1>5, <1>6, <1>7, <1>8, <1>9, <1>10, <1>11, <1>12 DEF Scored!Next

\* Whatever was killed, failed, run again or written twice into the baseline table,
\* every metrics.json on disk is of its own key and against its own answer key, with
\* whole curves or none, and its spike judged by the one row measured for it:
\* commands/bench.ts, bench/scorer.ts, sweep.ts and baseline.ts.
THEOREM UnitsStayWhole == Scored!Spec => []MetricsAreWhole
<1>1. Scored!Init => BenchInv
  BY InitBenchInv
<1>2. BenchInv /\ [Scored!Next]_(Scored!vars) => BenchInv'
  BY BenchAssumption, NextBenchInv
<1>3. BenchInv => MetricsAreWhole
  BY DEF BenchInv
<1> QED BY <1>1, <1>2, <1>3, PTL DEF Scored!Spec
=============================================================================
