------------------------------- MODULE Bench -------------------------------
(***************************************************************************)
(* `assay bench` (apps/cli/src/commands/bench.ts with bench/scorer.ts,     *)
(* sweep.ts and baseline.ts, artifacts/metrics.ts, agents/index.ts): the   *)
(* scored sweep over seeds and agents, which files one metrics.json per    *)
(* unit, and `--baseline`, which files nothing and prints a table a person *)
(* writes into packages/eval/src/frozen.ts.                                *)
(*                                                                         *)
(* A run of an agent stands for everything measured on it, so a unit says  *)
(* which runs and which answer key its numbers came from; Scoring models   *)
(* the numbers.  A seed is its own answer key, 0 is null.                  *)
(***************************************************************************)
EXTENDS Naturals, Sequences, FiniteSetsExt, SequencesExt

CONSTANTS TrainSeeds, DevSeeds, TestSeeds,  \* the declared seeds of each split
          Epsilons,        \* EPSILON_GRID_BPS, ascending
          OperatingPoint,  \* EPSILON_BPS, the frozen one
          Floors,          \* TAU_SWEEP_FLOOR_PAISE
          Requests,        \* the agent sets asked for; Tier0 is also "all"
          RunIds,
          MaxRows,         \* rows of METRIC_17_BASELINE
          MaxCommands      \* commands of a behaviour

\* What the declared seeds and the frozen grids are: the operating point is one
\* point of its grid.
BenchDeclared ==
  /\ TrainSeeds \cup DevSeeds \cup TestSeeds \subseteq Nat \ {0}
  /\ IsFiniteSet(DevSeeds)
  /\ Epsilons \in Seq(Nat) /\ Floors \in Seq(Nat) /\ Floors # <<>>
  /\ \E n \in DOMAIN Epsilons : \A m \in DOMAIN Epsilons : Epsilons[m] = OperatingPoint <=> m = n
  /\ MaxRows \in Nat /\ MaxCommands \in Nat

VARIABLES
  files,     \* per seed, the artifacts a reader would accept, and what F10 injected
  cache,     \* a recorded replay cache exists
  job,       \* the command in progress
  filed,     \* runs/<run_id>/<split>/<seed>/<agent>/<llm_mode>/metrics.json
  printed,   \* the baseline block last printed
  recorded,  \* METRIC_17_BASELINE; of two rows of a key, the later has the greater copy
  opened,    \* splits whose answer key a scored run opened
  dead,      \* the commands accepted that did not end well, with the cause
  commands

vars == <<files, cache, job, filed, printed, recorded, opened, dead, commands>>

Seeds == TrainSeeds \cup DevSeeds \cup TestSeeds
SplitOf(seed) == IF seed \in TrainSeeds THEN "train" ELSE IF seed \in DevSeeds THEN "dev" ELSE "test"

ALL_AGENTS == <<"ASSAY", "B0-IDONLY", "B1-GREEDY", "B2-LLM-DIRECT",
                "A1-NOVALIDATE", "A2-NOABSTAIN", "A3-NOLLM">>
AgentIds == ToSet(ALL_AGENTS)
Tier0 == AgentIds \ {"B1-GREEDY"}
Unavailable == {"B1-GREEDY", "B2-LLM-DIRECT"}  \* run raises AgentUnavailableError
Swept == {"ASSAY", "A1-NOVALIDATE"}
SCORED_LLM_MODES == {"replay", "offline"}

Idle == [cmd |-> "none"]
NoTable == [rows |-> {}, deferred |-> {}, known |-> {}]
NoPoints == <<>>
NoMetrics == [run |-> {}]

\* selectAgents: in the declared order, whatever the order asked for.
selectAgents(ids) == SelectSeq(ALL_AGENTS, LAMBDA a : a \in ids)

-----------------------------------------------------------------------------
(* What a unit is made of                                                  *)

FrozenPoint == [name |-> "frozen", value |-> 0]
Run(agent, seed, mode, at) == [agent |-> agent, seed |-> seed, mode |-> mode, at |-> at]

isTruthScoredSplit(split) == split \in {"dev", "test"}
isExercisedSplit(split) == split = "test"
consumesBaseline(split) == split = "test"

\* The seed whose answer key a unit is scored against.
truthSource(seed) == IF isTruthScoredSplit(SplitOf(seed)) THEN seed ELSE 0

\* A part of a unit holds a report or the reason there is none.
Scored(report) == [report |-> {report}, reason |-> "none"]
NotScored(reason) == [report |-> {}, reason |-> reason]

\* scoreTruth: every report of one execution and one answer key.
scoreTruth(run, source) ==
  IF source = 0 THEN NotScored("not_scored_on_split") ELSE Scored([run |-> run, key |-> source])

balanceHarmOf(run, source) == scoreTruth(run, source).report

\* The costs sweep re-scores the run already scored, with the harm already measured.
scoreCostSensitivity(run, truth) ==
  IF truth.report = {} THEN NotScored("needs_truth")
  ELSE Scored([run |-> run, harm |-> truth.report])

metric7EceState(truth) == IF truth.report = {} THEN "unavailable" ELSE "of_population"

scoreRobustness(seed) ==
  IF ~isExercisedSplit(SplitOf(seed)) THEN "not_exercised_on_split"
  ELSE IF files[seed].injected THEN "exercised" ELSE "empty_population"

RowsOf(table, agent, mode) == {r \in table : r.agent = agent /\ r.mode = mode}

\* metric17BaselineFor: the row, or none where none is recorded; it refuses two.
metric17BaselineFor(agent, mode) == RowsOf(recorded, agent, mode)
RefusesBaseline(agent, seed, mode) ==
  /\ consumesBaseline(SplitOf(seed))
  /\ \E r, q \in RowsOf(recorded, agent, mode) : r # q

\* The rate always; a flag where there is a row to compare it against.
metric17(run, baseline) ==
  [rate |-> run, flag |-> {[rate |-> run, bar |-> row] : row \in baseline}]

scoreAbstentionSpike(run) ==
  LET read == consumesBaseline(SplitOf(run.seed))
      spike == metric17(run, IF read THEN metric17BaselineFor(run.agent, run.mode) ELSE {})
  IN  [rate |-> spike.rate, flag |-> spike.flag,
       state |-> IF ~read THEN "not_compared_on_split"
                 ELSE IF spike.flag = {} THEN "not_recorded" ELSE "none"]

\* One point of a sweep: the run at the parameter and, on the epsilon axis, its harm.
Point(agent, seed, mode, name, value) ==
  LET run == Run(agent, seed, mode, [name |-> name, value |-> value])
  IN  [run |-> run, operating |-> name = "epsilon_bps" /\ value = OperatingPoint,
       harm |-> IF name = "epsilon_bps" THEN balanceHarmOf(run, truthSource(seed)) ELSE {}]

\* Metric 3: over the curve, or the single operating point of an agent that has none.
scoreRiskCoverage(points, base) ==
  LET drawn == IF points # NoPoints THEN points
               ELSE <<[run |-> base.run, harm |-> base.truth.report]>>
  IN  IF \E n \in DOMAIN drawn : drawn[n].harm = {} THEN NotScored("no_risk_axis")
      ELSE Scored([n \in DOMAIN drawn |-> drawn[n].run])

\* execute: what one base execution fixes.
BaseMetrics(agent, seed, mode) ==
  LET run == Run(agent, seed, mode, FrozenPoint)
      truth == scoreTruth(run, truthSource(seed))
  IN  [run |-> run, truth |-> truth, cost |-> scoreCostSensitivity(run, truth),
       ece_state |-> metric7EceState(truth), robustness |-> scoreRobustness(seed),
       spike |-> scoreAbstentionSpike(run)]

ScoredMetrics(base, epsilon, tau) ==
  [base |-> base, epsilon |-> epsilon, tau |-> tau, risk |-> scoreRiskCoverage(epsilon, base)]

-----------------------------------------------------------------------------
(* bench                                                                   *)

\* The unit the scored sweep is at.
Seed == Min(job.seeds)
Agent == job.agents[job.at]

\* readSplit, checkSeed, selectAgents, checkRunId, readLlmMode: what is refused
\* leaves everything as it was.
BenchStart(split, seeds, ids, mode, run_id) ==
  /\ job = Idle /\ commands < MaxCommands
  /\ seeds # {} /\ \A s \in seeds : SplitOf(s) = split
  /\ ids # {} /\ ids \subseteq AgentIds
  /\ mode \in SCORED_LLM_MODES
  /\ job' = [cmd |-> "bench", seeds |-> seeds, agents |-> selectAgents(ids), at |-> 1,
             mode |-> mode, run_id |-> run_id, stage |-> "load", base |-> NoMetrics,
             epsilon |-> NoPoints, tau |-> NoPoints]
  /\ commands' = commands + 1
  /\ UNCHANGED <<files, cache, filed, printed, recorded, opened, dead>>

Dies(cause) ==
  /\ dead' = dead \cup {[cause |-> cause, agents |-> ToSet(job.agents)]}
  /\ job' = Idle

\* Observations, then, where truth is scored, the answer key and the labels, once a seed.
LoadSeed ==
  /\ job.cmd = "bench" /\ job.stage = "load"
  /\ LET truth == truthSource(Seed) # 0
         accepted == files[Seed].observations /\ (truth => files[Seed].truth /\ files[Seed].labels)
     IN  /\ IF accepted THEN job' = [job EXCEPT !.stage = "execute"] /\ UNCHANGED dead
                        ELSE Dies("artifact")
         /\ opened' = IF truth /\ files[Seed].observations THEN opened \cup {SplitOf(Seed)} ELSE opened
  /\ UNCHANGED <<files, cache, filed, printed, recorded, commands>>

IsSwept(agent) == agent \in Swept /\ job.mode = "offline"

\* The base execution and its metrics; then the curves, of an agent that has
\* them, offline.
Execute ==
  /\ job.cmd = "bench" /\ job.stage = "execute"
  /\ \/ /\ Agent \notin Unavailable /\ ~RefusesBaseline(Agent, Seed, job.mode)
        /\ job' = [job EXCEPT !.stage = IF IsSwept(Agent) THEN "epsilon" ELSE "file",
                              !.base = BaseMetrics(Agent, Seed, job.mode)]
        /\ UNCHANGED dead
     \/ Agent \notin Unavailable /\ RefusesBaseline(Agent, Seed, job.mode) /\ Dies("baseline")
     \/ Dies(IF Agent \in Unavailable THEN "unavailable" ELSE "agent")
  /\ UNCHANGED <<files, cache, filed, printed, recorded, opened, commands>>

AfterCurve(field) == IF field = "epsilon" THEN "tau" ELSE "file"

Walked(field, name, grid) ==
  [job EXCEPT ![field] = Append(@, Point(Agent, Seed, job.mode, name, grid[Len(@) + 1])),
              !.stage = IF Len(job[field]) + 1 < Len(grid) THEN @ ELSE AfterCurve(field)]

\* Fault: a point that fails ends its curve and not the command.
SweepPointShort(field, name, grid) ==
  /\ job' \in {Walked(field, name, grid), [job EXCEPT !.stage = AfterCurve(field)]}
  /\ UNCHANGED dead

\* evaluatePoint: a point that fails ends the command.
SweepPoint(field, name, grid) ==
  \/ job' = Walked(field, name, grid) /\ UNCHANGED dead
  \/ Dies("agent")

EpsilonPoint ==
  /\ job.cmd = "bench" /\ job.stage = "epsilon"
  /\ SweepPoint("epsilon", "epsilon_bps", Epsilons)
  /\ UNCHANGED <<files, cache, filed, printed, recorded, opened, commands>>

TauPoint ==
  /\ job.cmd = "bench" /\ job.stage = "tau"
  /\ SweepPoint("tau", "tau_floor_paise", Floors)
  /\ UNCHANGED <<files, cache, filed, printed, recorded, opened, commands>>

metricsPath == <<job.run_id, Seed, Agent, job.mode>>

\* The next agent of the seed, the first agent of the next seed, or the end.
NextUnit ==
  IF job.at < Len(job.agents)
  THEN [job EXCEPT !.at = @ + 1, !.stage = "execute", !.base = NoMetrics,
                    !.epsilon = NoPoints, !.tau = NoPoints]
  ELSE IF job.seeds # {Seed}
  THEN [job EXCEPT !.at = 1, !.seeds = @ \ {Seed}, !.stage = "load", !.base = NoMetrics,
                    !.epsilon = NoPoints, !.tau = NoPoints]
  ELSE Idle

\* Metric 3, and the write, which may overwrite an earlier invocation's unit.
File ==
  /\ job.cmd = "bench" /\ job.stage = "file"
  /\ filed' = [k \in DOMAIN filed \cup {metricsPath} |->
                 IF k = metricsPath THEN ScoredMetrics(job.base, job.epsilon, job.tau)
                                    ELSE filed[k]]
  /\ job' = NextUnit
  /\ UNCHANGED <<files, cache, printed, recorded, opened, dead, commands>>

-----------------------------------------------------------------------------
(* bench --baseline                                                        *)

\* The declared seeds of DEV, ascending as the frozen list is.
NthSeed(n) == CHOOSE s \in DevSeeds : Cardinality({t \in DevSeeds : t < s}) = n - 1
BASELINE_SEEDS == [n \in 1..Cardinality(DevSeeds) |-> NthSeed(n)]
BASELINE_AGENT_IDS == Tier0 \ {"B2-LLM-DIRECT"}

\* baselinePass takes no split but dev, no seed and no run id.
BaselineStart(ids, mode) ==
  /\ job = Idle /\ commands < MaxCommands
  /\ ids # {} /\ ids \subseteq BASELINE_AGENT_IDS
  /\ mode \in SCORED_LLM_MODES /\ mode = "replay" => cache
  /\ job' = [cmd |-> "baseline", agents |-> selectAgents(ids), at |-> 1, mode |-> mode,
             samples |-> <<>>, rows |-> {}]
  /\ commands' = commands + 1
  /\ UNCHANGED <<files, cache, filed, printed, recorded, opened, dead>>

\* metric17BaselineStatistic: over one rate of each declared seed, or refused.
metric17BaselineStatistic(samples) ==
  IF Len(samples) = Len(BASELINE_SEEDS) /\ {samples[n].seed : n \in DOMAIN samples} = DevSeeds
  THEN {samples} ELSE {}

\* The row of an agent, where the statistic takes its samples.
BaselineRows(agent, mode, samples) ==
  {[agent |-> agent, mode |-> mode, of |-> s, copy |-> 0] : s \in metric17BaselineStatistic(samples)}

\* One rate of one agent; the statistic of its row is over all five.
BaselineSample ==
  /\ job.cmd = "baseline" /\ job.at <= Len(job.agents)
  /\ LET seed == BASELINE_SEEDS[Len(job.samples) + 1]
         samples == Append(job.samples, Run(Agent, seed, job.mode, FrozenPoint))
         last == Len(samples) = Len(BASELINE_SEEDS)
     IN  \/ files[seed].observations /\ ~last
            /\ job' = [job EXCEPT !.samples = samples] /\ UNCHANGED dead
         \/ files[seed].observations /\ last
            /\ \E row \in BaselineRows(Agent, job.mode, samples) :
                 job' = [job EXCEPT !.samples = <<>>, !.rows = @ \cup {row}, !.at = @ + 1]
            /\ UNCHANGED dead
         \/ Dies(IF files[seed].observations THEN "agent" ELSE "artifact")
  /\ UNCHANGED <<files, cache, filed, printed, recorded, opened, commands>>

Keys(rows) == {<<r.agent, r.mode>> : r \in rows}

Reason(agent, mode) ==
  IF agent = "B2-LLM-DIRECT" THEN "DEFERRED_BY_F2_AGENT"
  ELSE IF mode = "replay" /\ ~cache THEN "DEFERRED_BY_F2_REPLAY"
  ELSE "NOT_TAKEN_THIS_INVOCATION"

\* baselineDeferrals: every key of the table that no row of this pass measured.
baselineDeferrals(rows) ==
  {[agent |-> k[1], mode |-> k[2], reason |-> Reason(k[1], k[2])] :
     k \in (Tier0 \X SCORED_LLM_MODES) \ Keys(rows)}

\* baselineTableLines: printed once every row is in; known is a history field.
BaselineEnds ==
  /\ job.cmd = "baseline" /\ job.at > Len(job.agents)
  /\ printed' = [rows |-> job.rows, deferred |-> baselineDeferrals(job.rows), known |-> Keys(recorded)]
  /\ job' = Idle
  /\ UNCHANGED <<files, cache, filed, recorded, opened, dead, commands>>

\* A row as it is written beside those of its key that are kept.
Copied(kept, row) == [row EXCEPT !.copy = Cardinality(RowsOf(kept, row.agent, row.mode))]

\* BASELINE_TRANSCRIPTION: a person carries the rows, not the reasons, into the
\* table, over the rows of the same keys or beside them.
Transcribe ==
  /\ job = Idle /\ printed # NoTable
  /\ LET others == {r \in recorded : <<r.agent, r.mode>> \notin Keys(printed.rows)}
     IN  \E kept \in {others, recorded} :
           recorded' = kept \cup {Copied(kept, row) : row \in printed.rows}
  /\ recorded' # recorded /\ Cardinality(recorded') <= MaxRows
  /\ UNCHANGED <<files, cache, job, filed, printed, opened, dead, commands>>

-----------------------------------------------------------------------------
\* The process is killed: what was written stays.
Kill ==
  /\ job # Idle /\ job' = Idle
  /\ UNCHANGED <<files, cache, filed, printed, recorded, opened, dead, commands>>

Whole(injected) == [observations |-> TRUE, truth |-> TRUE, labels |-> TRUE, injected |-> injected]

\* At most one artifact is missing or refused by its reader.
Init ==
  /\ \E injected \in SUBSET TestSeeds :
       LET whole == [s \in Seeds |-> Whole(s \in injected)]
       IN  files \in {whole} \cup {[whole EXCEPT ![s][a] = FALSE] :
                                     s \in Seeds, a \in {"observations", "truth", "labels"}}
  /\ cache \in BOOLEAN
  /\ job = Idle /\ filed = <<>> /\ printed = NoTable
  /\ recorded = {} /\ opened = {} /\ dead = {} /\ commands = 0

Next ==
  \/ \E p \in {"train", "dev", "test"}, s \in SUBSET Seeds, ids \in Requests,
        m \in SCORED_LLM_MODES, r \in RunIds : BenchStart(p, s, ids, m, r)
  \/ LoadSeed \/ Execute \/ EpsilonPoint \/ TauPoint \/ File
  \/ \E ids \in Requests, m \in SCORED_LLM_MODES : BaselineStart(ids, m)
  \/ BaselineSample \/ BaselineEnds \/ Transcribe \/ Kill

Spec == Init /\ [][Next]_vars

-----------------------------------------------------------------------------
(* Properties                                                              *)

\* What a unit's key fixes: its base run, its answer key or none, whether it has curves.
RunOf(key) == Run(key[3], key[2], key[4], FrozenPoint)
AnswerTo(key) == IF SplitOf(key[2]) = "train" THEN {} ELSE {key[2]}
HasCurves(key) == key[3] \in Swept /\ key[4] = "offline"

\* The runs of its curve over a grid, one at every value, in the grid's order.
Curve(key, name, grid) ==
  IF ~HasCurves(key) THEN NoPoints
  ELSE [n \in DOMAIN grid |-> Run(key[3], key[2], key[4], [name |-> name, value |-> grid[n]])]

RunsOf(points) == [n \in DOMAIN points |-> points[n].run]

\* A part has a report exactly where there is an answer key, a reason exactly elsewhere.
Answered(part, key) ==
  /\ part.report = {} <=> AnswerTo(key) = {}
  /\ part.reason # "none" <=> AnswerTo(key) = {}

\* Every figure taken against truth in a part is of the run and the answer key given.
Against(part, run, answer) == {r \in part : r.run = run /\ {r.key} = answer} = part

\* A row of METRIC_17_BASELINE that DEV runs of the agent and mode measured.
Measured(row, agent, mode) ==
  row.of = [n \in DOMAIN BASELINE_SEEDS |-> Run(agent, BASELINE_SEEDS[n], mode, FrozenPoint)]

BaseIsOf(base, key) ==
  /\ base.run = RunOf(key) /\ base.spike.rate = RunOf(key)
  /\ Answered(base.truth, key) /\ Against(base.truth.report, RunOf(key), AnswerTo(key))
  /\ Answered(base.cost, key)
  /\ \A c \in base.cost.report :
       c.run = RunOf(key) /\ c.harm # {} /\ Against(c.harm, RunOf(key), AnswerTo(key))
  /\ base.spike.flag = {} <=> base.spike.state # "none"
  /\ \A f, g \in base.spike.flag : f = g
  /\ \A f \in base.spike.flag :
       SplitOf(key[2]) = "test" /\ f.rate = RunOf(key) /\ Measured(f.bar, key[3], key[4])

CurvesAreOf(epsilon, tau, key) ==
  /\ RunsOf(epsilon) = Curve(key, "epsilon_bps", Epsilons)
  /\ RunsOf(tau) = Curve(key, "tau_floor_paise", Floors)
  /\ HasCurves(key) => Cardinality({n \in DOMAIN epsilon : epsilon[n].operating}) = 1
  /\ \A n \in DOMAIN epsilon : Against(epsilon[n].harm, epsilon[n].run, AnswerTo(key))

RiskIsOf(risk, key) ==
  /\ Answered(risk, key)
  /\ risk.report \subseteq {IF HasCurves(key) THEN Curve(key, "epsilon_bps", Epsilons) ELSE <<RunOf(key)>>}

\* Whatever was killed, failed, run again, scored under the same run id before or
\* written twice into the baseline table, every metrics.json on disk is of its
\* own key: its runs are of that agent, seed and mode, its curves hold the frozen
\* grids in order or nothing, with one operating point, every truth-side figure
\* of every part is against that seed's answer key or absent with all the others,
\* each cost and each point of metric 3 with the harm of its own run, and a spike
\* is judged only on TEST, by the one row that DEV runs of the same agent and
\* mode measured (bench.ts, scorer.ts, sweep.ts, metrics/abstention.ts).
UnitsAreWhole ==
  \A key \in DOMAIN filed :
    LET u == filed[key]
    IN  BaseIsOf(u.base, key) /\ CurvesAreOf(u.epsilon, u.tau, key) /\ RiskIsOf(u.risk, key)

-----------------------------------------------------------------------------
(* What the code says of itself and does not keep                          *)

\* commands/bench.ts:433: "step 7's scored run may legitimately spell
\* `--agents all`": asking for all of Tier-0 does not end in an agent that
\* cannot run.
AllMayBeAsked == \A d \in dead : d.agents = Tier0 => d.cause # "unavailable"

\* commands/bench.ts:496-497: "`train` and `dev` open neither artifact".
OnlyTestOpens == opened \subseteq {"test"}

\* bench/baseline.ts:220-224: a key not taken by this invocation "is recordable
\* and is not yet recorded".
NotTakenMeansNotRecorded ==
  \A d \in printed.deferred :
    d.reason = "NOT_TAKEN_THIS_INVOCATION" => <<d.agent, d.mode>> \notin printed.known
=============================================================================
