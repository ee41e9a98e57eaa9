# A verification project for the ASSAY finance controller

This directory holds TLA+ models of the repository's reconciliation and close
pipeline and of what surrounds it, the TLC configurations that check them on
small instances, and proofs checked by TLAPS. Source paths are relative to
`src/`.

## 1. Inventory

The program reconciles a merchant's payment-gateway, settlement and bank
observations for one period, posts every conclusion to a hash-chained
double-entry ledger, holds what it cannot justify in Suspense, decides whether
the period may close, and drives an observe-only controller over what is left.
A generator makes its datasets, an oracle labels them, and a bench scores the
agents against the answer key.

| component | state it keeps | operations | interacts with |
|---|---|---|---|
| money (`packages/money`) | none | exact paise arithmetic, rounding, split, allocate | everything |
| S0 ingest, schemas (`packages/domain`) | none beyond one call | parse, window, check, stamp, refund pass, duplicates | everything reads its output |
| engine S1-S3 (`packages/engine/src/s1-*`, `s2-*`, `s3-*`) | none | anchor, generate candidates, decompose | feeds S4 |
| engine S4 (`s4-solve.ts`) | none | score, rank, weigh materiality, classify the component | called again after every probe |
| engine S5 (`s5-validate.ts`) | none | invariants I1-I9; the only constructor of a `ValidatedDecision` | feeds the write path |
| probe loop (`packages/probe`, `apps/cli/src/probe`) | attempts spent, reports gathered | decide, offer a proposal, dispatch, accept, solve again | R3 through the adjudicator, S4 |
| LLM adjudicator (`packages/llm`) | none between calls | invoke, check schema, allowlist and grounding; retry; fall back | probe loop, explain |
| composed run (`apps/cli/src/agents/assay.ts`) | write state, settled observations, allocated members, certificates | post anchors, targets, members, the rest; close | S1-S5, probe loop, ledger, close gate |
| baselines (`agents/b0.ts`) | the same | two exact joins in place of S1-S4 | write path, close gate |
| ledger write path (`write.ts`, `store.ts`) | `LedgerWriteState`, the store behind the port | open, post | hash chain, store |
| hash chain (`hash-chain.ts`) | the chain value | create, append, verify | write path, close gate, API |
| journal, events, projection (`packages/ledger`) | none | posting rules P1-P8; reading events; balances from the log | S4, S5, close gate |
| close gate and close (`close-gate.ts`, `close.ts`) | none | G1-G5, threshold, status, report, CLOSE draft | composed run, controller |
| controller (`packages/controller`) | loop state, memory, trace | one policy decision a turn, four read tools, telemetry | API over a sealed run |
| API (`apps/api`) | in-memory registry of runs | create, look up, explain, controller | web client, composed run |
| web client (`apps/web`) | run context, views, session pointer | start, rehydrate, retry, read | API |
| generator (`packages/generator`) | none beyond one call | simulate, emit, degrade, truth | dataset commands |
| oracle (`packages/oracle`), gates (`packages/eval/src/gates`) | none | enumerate, label, two gates | generator, engine |
| evaluation (`packages/eval`), bench (`apps/cli`) | files | score a run, sweep, baselines | composed run, oracle |
| dataset commands (`apps/cli`) | files | generate, oracle, seal | generator, oracle, bench |

**What is hard here.** Nothing in the core is multi-threaded; the hard behaviour
is in *sequences* and *failures*: a commit whose outcome the caller never learns;
a resumed run whose duplicate checks are rebuilt once; records that decayed at
rest in ways every local check passes; target after target solved against lines
that an earlier target will take; a search cut short that looks complete; a loop
of policy and tools in which a tool may refuse, lie about its subject or never
make progress while a budget runs out; retries across providers; answers that
reach the browser after the run they belong to has left the screen; commands
killed between two files; and two implementations of one specification, the
engine and the oracle, that have to agree. `PROJECT.json` lists each hazard at
its line with the properties that cover it; where they cover a part only, the
hazard's note names the clause that no run checks and the module that states it.

**What makes each component correct.**

- *Write path*: what is durable is one gapless linked chain; one decision is
  durable at most once; what is durable is balanced and admissible; a reply can
  be believed.
- *Chain verification*: no false alarm; a pass means the sealed content; a
  failure is reported where it is.
- *Close*: one damaged record blocks it, at the gate that reads the record; the
  digest covers what the report shows.
- *Composed run*: no member is explained by two targets; members end as their
  settlement does; the bank accounts follow the statement; what is open is in
  the queue; only the posting table stops a run, at one of five named seams; a
  search cut short abstains.
- *Probe loop*: the budget bounds it; its result is the solve over all the
  evidence it paid for; only the component's own report resolves it.
- *Controller*: ends, within its bound, for the reason it states, having escalated
  the smallest set that would close the period, never over a defect; its
  telemetry agrees with what happened.
- *Web session*: what is on screen belongs to the run on screen, across reloads,
  restarts and late answers. *Explain*: what is shown stays inside the evidence.
- *Ingest and money*: what is handed on is consistent as a set; no paisa is lost.
- *Generator, oracle, scoring*: dataset and answer key describe one state of the
  world; the truth is among what the oracle finds; the metrics tell right from
  wrong. *Commands*: a seal describes what passed the completeness gate; a metrics file is
  whole.

## 2. Plan

The order followed what would hurt most if it were wrong: what makes the ledger
trustworthy, then what decides, then what reads, then what measures.

| step | modules | composes | status |
|---|---|---|---|
| 1 | `DecisionLog`, `LedgerWrite`, `LedgerWriteProofs` | `LedgerWrite` implements `DecisionLog` | done |
| 2 | `ChainVerify`, `CloseGate`, `CloseRecords` | what was sealed, damaged, read back and closed | done |
| 3 | `Controller`, `ControllerProofs`, `ControllerReport` | the loop, its trace and what is read of it | done |
| 4 | `S4Solve`, `ProbeLoop`, `ProbeLoopProofs` | the loop re-runs S4 | done |
| 5 | `Candidates`, `Journal`, `ReconRun`, `ReconRunProofs`, `Baseline` | S1-S5, the posting table and the gate; the baseline after the run | done |
| 6 | `WebSession`, `Explain` | client, registry, explanation | done |
| 7 | `Money`, `S0Ingest` | ingest over the arithmetic | done |
| 8 | `Simulate`, `Generate`, `GroundTruth`, `Oracle`, `OracleGates`, `Scoring` | the answer key read by oracle, gates and metrics | done |
| 9 | `Pipeline`, `Bench` | the commands over the files | done |
| 10 | `ChainVerifyProofs`, `WebSessionProofs`, `PipelineProofs`; `ReconRunProofs` and `ControllerProofs` continued | proofs about steps 2, 3, 5, 6 and 9 | done |
| 11 | `ReconRunProofs` and `PipelineProofs` continued: queue, close, baseline, scorer, bench; `IngestProofs` | proofs about steps 5, 7, 8 and 9 | done |

Theorems left, in this order: `FaultIsPlaced` and `HashCoversReport`; the answer key (section 5 says what stands in the way).

## 3. Modules and code

**`LedgerWrite`** is `packages/ledger/src/write.ts` over `hash-chain.ts`.
`stored` is what the `LedgerStore` port has made durable; `up`, `chain`,
`postedDecisions` and `postedEvents` are the `LedgerWriteState` a process holds.
`OpenWriteState` rebuilds the two indexes from the stored events. `Post` is
`postValidatedDecision` accepted; each refusal is an action that leaves the state
as it was and sets `reply`. The two crash actions separate a death before the
commit from one after it. `stored` is modelled from the contract the port's
comment states, since the repository ships no durable store. A digest is the
sequence of what was hashed into it: two digests are equal exactly if the
histories are. **`DecisionLog`** is the abstraction: a sequence of admissible
decisions, each at most once; `LedgerWrite!Booked` maps durable events to their
decisions.

**`ChainVerify`** is `verifyChain`, one operator per check, and the API's
genesis-to-root check. A state is a sealed chain and the records read back, after
losses, repetitions, swaps, edits, re-hashes and re-links. `VerifiesWhatWasSealed`
is what a pass means; that nothing sealed and unharmed is faulted is
`SealedVerifies`, a part of `FaultReportedWhereMade`. **`CloseGate`** is
`closeGate` and `attemptClose` as operators on the gate's input.
**`CloseRecords`** puts the stores between a run and that input: `Refer` and
`Decide` are the run booking an observation into `intact`, `Damage` one record of
one store of `given` lost, repeated or changed in one field, `Close` the close
that reads `given`, through the event
schema (`events.ts`), the projection (`projection.ts`) and the gates, up to the
report, the CLOSE draft and its digest.

**`Journal`** is the posting table: the rule of an occasion, its legs, what it
refuses. A posting is what it puts on each account, since no rule names one twice,
and the lines of a record are known by the place of their rule and their account. **`Candidates`** holds S1's anchors, the seam's targets and pool, S2's
bounded enumeration and S3's components over `obs`, the observations sorted by
id. The enumeration is a set: a subset is generated if its class is reached and
searched and its rank is within `C_max`. A component is the least set of targets
closed under sharing a member, where the code keeps a union-find.

**`ReconRun`** is `runAssayComposed`. `outcomes`, `targetOf` and `certificateOf`
are its maps; `posted` is the list it turns into terminal states, queue and gate
input. `Solve` is one turn of the solve loop, the `Post...` actions one turn of
each of the four passes, all through `Post`, which tries the proposed decision,
falls back to `E05` if S5 refuses it, and aborts the run where the posting table
throws. S4's answer is any that S4 could give. **`Baseline`** is B0-IDONLY
composed after it on the same input.

**`S4Solve`** is `solve` and everything below it: the modal lag, SE3 and SE5, the
score, the ranking, materiality, tau and the table of outcomes. **`ProbeLoop`** is
`runProbeLoop` over it, with the adjudicator of role R3: ask, discard and retry,
fall back to the offline rule, offer, dispatch, record, solve again. An awaited
provider call is a step of its own.

**`Controller`** is `packages/controller`: `decide` is one action per rule in the
order of `policy.ts`, `Turn` is the loop of `machine.ts` with its transition
table, step budget and no-progress guard. A tool may refuse at any call; the
evidence tool may answer for another decision. **`ControllerReport`** adds the
trace the loop pushes, the telemetry computed from it, the route's body and the
panel's statements.

**`WebSession`** is one tab and the API's registry: `registry` is what the living
server knows, `pointer` the tab's session storage, `ui` the run context with
what each page fetched and which requests it still hears. A start or a lookup is
served and answered by two steps, and the answer may be late or lost; a reload
keeps the pointer only, a restart of the server keeps nothing. A handler and the effects of the
render it causes are one step. **`Explain`** is one request: evidence from the
sealed run, configuration, the attempts, the three checks of an answer, reply.

**`Money`** is `packages/money` over a small `MAX_PAISE`; a quotient of two doubles
may miss by one before the code repairs it. **`S0Ingest`** is `ingest` record by
record: `Stage` is steps 1 to 5 with their early returns in order (`StageThrows`
where a rule throws), `CheckRefund` the refund pass over what was staged, `Emit`
the last pass, which tells duplicates.

**`Simulate`** is the generator's true state, one action per draw and per day;
**`Generate`** emits, degrades and publishes it with the truth, and runs the
generator's own checks. **`GroundTruth`** is the answer key a reader sees.
**`Oracle`** is the second reading of anchors, pool and constraints, clause by
clause; **`OracleGates`** is `assay oracle` on one dataset with both gates.
**`Scoring`** is the `AgentRun` a composed run hands over, its map of the state
each observation ended in among it, and the metrics of `packages/eval` over it.

**`Pipeline`** is generate, oracle and seal over a benchmark directory, write by
write, each of which may be the last: `todo` is what a command has still to
write. **`Bench`** is the scored sweep and the baseline pass. A unit is filed with
every part as a report or the reason there is none; a person carries the printed
rows into the table the spike is judged by, over the old rows or, by mistake,
beside them, which the next command on TEST refuses.

The `MC` modules give the constants. Three of them put two machines side by side
and choose one at the start, so that one run answers for both: `MCRecords`
(`reading`: `ChainVerify` or `CloseRecords`), `MCAnswerKey` (`job`: `OracleGates`
or `Scoring`) and `MCCommands` (`tool`: `Pipeline` or `Bench`). `MCObservations`
holds the observations the catalogues are made of.

## 4. Runs

| run | question | bounds |
|---|---|---|
| `ledger_write` | is what is durable one chain of admissible decisions, each once, through refusals and crashes? | 7 decisions, one of each kind the path tells apart; 4 event ids; totals that overflow at the third amount |
| `records` | does verification pass exactly what was sealed, and does a close over one damaged record block where the damage is? | chain: 3 events, 3 damaging steps, 2 payloads, 2 run ids; close: 2 decisions over 4 stores, 1 fault, in any field |
| `controller` | does the loop end, in its bound, for the reason it states, with the smallest closing set, and does its telemetry say so? | 4 decisions with a tie and one without a Suspense item; every queue; residuals under, at, over the threshold and beyond the queue; 10 budgets from 0 to past the longest run |
| `probe_loop` | is every probe paid for, logged and believed once? | 12 components: every outcome of S4, epsilon and tau met exactly and missed by one; 4 identifiers; 4 contexts; 3 kinds of provider; 1 retry; `P_max` 3 |
| `recon_run` | are allocations disjoint, members decided with their settlement, the books what queue and bank say, cut searches abstained, and is the baseline a floor? | subsets of ten catalogues of up to 10 observations; `K_max` 3, `C_max` 7; agents ASSAY, A1 and A2, B0 after ASSAY |
| `answer_key` | does the oracle find the truth, agree with the engine where both have one anchor, do the metrics tell right from wrong, and is every paisa of the batch counted once? | subsets of seven catalogues that some truth explains; `K_max` 3, `C_max` 15, and 6 for the gates; one drawn pair |
| `answer_key_misdirected` | is a payment filed under the wrong settlement misdirected value? (section 6) | the same |
| `web_session` | does what is on screen belong to the run on screen? | 2 datasets, 3 starts, 2 restarts, any late or lost answer, reload or navigation |
| `explain` | can the reply be believed, as an explanation and as an account of a failure? | every request over 4 rows, every configuration, 1 retry |
| `s0_ingest` | is what ingest hands on consistent, and the arithmetic exact? | batches of 3 of 17 rows, of 4 of the 6 payment and refund rows; totals from -9 to 9 and at the edge of the range over up to 4 weights |
| `generate` | do dataset, truth and report describe one world? | 14 families; 4 captures, 1 uncaptured; 2 days, 2 refunds, 1 dispute |
| `commands` | does a seal describe what passed the completeness gate, and is a metrics file whole? | 4 dataset commands over 3 splits and 4 seeds, 2 generator versions; 2 bench commands and a table of up to 4 rows; a kill between any two writes |

Why this is enough. The write path and the chain only compare decisions, ids and
digests for equality, and every check relates at most two neighbouring events, so
three or four of each meet every case; the totals' overflow is a parameter. A
fault in one record is seen by at most the stores that repeat it, and two
decisions give an intact neighbour to be wrongly blamed. The controller's rules
read the queue only through its order and its sum; four items give ties, a
strict subset, and a queue that cannot cover the residual. The probe loop's
budget is the code's own 3. The catalogues of `recon_run` put in one place what
interferes: two settlements that want the same lines, with allocations that
overlap in part or wholly; settlements tied out by name, named in part and not
named; refunds and adjustments on either side; two bank credits with one
identifier; two settlements with one UTR; a debit; an amount of zero; a refund's
other view; a line on hold and one in another currency; a tax above its fee and an
adjustment on both sides, which the posting table refuses; kinds that never post.
Taking every subset checks the same passes with each of them missing. The
baseline, oracle and scoring read the same observations, of which two
settlements and their lines are the least that can be confused. Three starts
give a web session an answer late by two; two datasets are what a pointer can
mistake. Two versions of the generator are what a mixture needs.

The counts of observations, the search bounds and the amounts of a few paise are
small; the runs do not show that no larger dataset behaves otherwise. The
theorems of section 5 do, for the properties they name.

**Fairness.** `ControllerReport` and `ProbeLoop` assume weak fairness of the whole
next-state relation: both are `while` loops over awaited calls in one task, and a
call that is awaited either returns or throws (the tools read an in-memory run;
the adjudicator's provider calls settle). No choice of answer is assumed fair:
the loops end even if every answer is useless. Nothing is assumed fair
elsewhere; the other modules state safety only.

**Deadlock** is checked where an ended system stutters by an action of its own
(`ledger_write`, `recon_run`, `answer_key`, `web_session`, `generate`); the others
end by stopping.

## 5. Proofs

Every theorem holds for all values of the constants under the module's named
assumption; the provers are an SMT solver, Zenon and, for the temporal step, LS4.
In each module the property is not inductive; what follows is what its inductive
invariant adds, and why it has to.

- **`LedgerWriteProofs`**, from `LedgerAssumption`. A resumed process could refuse
  or accept wrongly if its indexes differed from the log. `IInv` adds that they
  index exactly what is durable (`IndexExact`), that each event is the one its
  decision was sealed into (`Faithful`) and that the held totals balance. From it:
  types, chain intact, at most once, durable content sound, never rewritten,
  truthful replies, and the refinement of `DecisionLog` (initial states map to
  the empty log, a commit to an append, every other step, crashes included, to a
  stutter).
- **`ControllerProofs`**, from `ControllerAssumption`, in three invariants, each on
  top of the last. `IInv` adds what the policy has gathered in each state and
  that evidence is filed under its own id. From it: the bound, integrity before
  completion, reasons, escalation order, and CLOSED only where the report says
  so. `PlanInv` adds that the plan in memory is the closing set of this run and
  that the hand-over has passed exactly its first items; that this set is the
  smallest rests on lemmas about sums over a finite set (they add, grow with the
  set and do not depend on the order) and about the rank order (every nonempty
  set has a best item, and no set of as many items sums to more than the top
  ones). `TraceInv` adds what the trace holds when the loop is in each state, so
  that each check of the telemetry can be told from what happened.
- **`ProbeLoopProofs`**, from `ProbeAssumption` and `S4Assumption`. `IInv` adds
  that the current solve is the solve over the reports, that the offers are what
  the context allows and that what is undecided has not been probed by its own
  report. From it: types, the budget, no stale solve, truthful certificates,
  offered only, resolution by the own report, no waste. Of S4 the proofs use the
  table of outcomes and that a comparison is by the two best candidates
  (`ComparedByRank`); how a score or a materiality is summed stays closed to them.
- **`ReconRunProofs`**. I2 looks up what is *recorded* as allocated, so `IInv` adds
  that the record holds the members of every decision posted; `AllocatedOnce`
  follows with no assumption on the observations or on S4's answers. How lines
  end needs the passes told apart: `RunInv` adds that what is on record was
  allocated by a decision that reconciles, that nothing allocates once a member
  is posted, that every certificate on record was issued on an abstained target
  of its component, and that every answer held is one S4 gives. From
  `InputsAssumption` (the inputs are sequences of observations) and
  `AgentsAssumption`: lines follow their settlement, cut searches abstain, a
  line's abstention has its target's open item. That the books follow the
  statement (`BankFollows`) is a fact about the end of the run and about three
  sums: over the legs of a posting, the lines of a row's postings, the rows of a
  settlement. `BookInv` adds what has to be remembered till then: no row is
  posted twice, S5 lets no later decision take a member over, a settlement
  reconciled ties out clause by clause, every row posted fired the rule of its
  ingest and, exactly if its settlement's credit was seen, the rule of its
  evidence. What these rules sum to on an account is `RuledNets`; the rest is
  that a sum of differences is the difference of the sums. The queue and the close
  sum the same journal lines twice over, by the posting they are of and by the
  identifier they are keyed on, and `SumInParts` says that the order does not
  matter. `ItemInv` adds which rules every posting fired and that one is refused
  at a seam only; then each posting leaves in Suspense nothing or its own open
  item, on the side its kind is open on (`SuspenseNets`). From it: what Suspense
  holds is queued, identifier by identifier (`OpenItemsQueued`); G1, G2 and G3
  cannot stop a run (`RunsEndUnblocked`).
  That B0 is a floor relates two runs of one input. `PassInv` says of ASSAY's that
  what the anchors alone decide is laid down in the order of the passes and that
  what is allocated beyond them comes after; `FloorInv` says of B0's that each
  decision it has posted so far is one of ASSAY's, with the same journal lines,
  though the two go through the rows in different orders and S5 may refuse either
  (`FloorIsHeld`).
  That the metrics read the books as the answer key does (`MetricsStayTrue`, in
  `Scoring`) compares sums over decisions, over lines and over identifiers, none
  of which is over the others' set. `QuietInv` adds that what is reconciled and is
  no line books nothing; with `BookInv` an account's balance is then the sum of
  what its allocated identifiers book, the key's is the sum of theirs, the
  magnitude of a sum is at most the sum of the magnitudes, and a table of accounts
  and identifiers sums to the same by rows and by columns (`SumExchanged`). That
  leaves one line: where its edge is true and its credit was seen exactly if it
  came, the rules the run fired on it are the key's (`BookedAsTrue`).
  That every paisa is counted once (`BatchStaysAccountedFor`) holds without S5. The
  coverage reads states from a map, the exceptions and the multiview come from the
  decisions, the batch from the rows, the unresolved value from the queue; each is
  what some set of observations is worth (`Worth`), and the rest is which sets lie
  in which. A map entry is the state of the one decision there is (`StateIs`);
  `ItemsFit` adds that what is reconciled has no item and that a payment's line
  which is an exception has one, since no certificate on record is the missing one
  and S5 therefore never turns such a line into an E05.
- **`WebSessionProofs`**, from `WebAssumption`. That a lookup's late answer lands on
  nothing needs that no page offers a start while one is out (`GateHolds`) and
  that the lookup asks for the pointer; that a panel's data is the run's needs
  every view's key to be that of the page, the run and the selection at once.
  From `ExplainAssumption`, besides: the reply to a request is computed once, at the
  end; what makes it honest is kept by the attempts: only the last can have been
  accepted, an accepted answer passed the checks against this decision's
  evidence, and a transport failure is the last attempt's own.
- **`IngestProofs`**, from `MoneyAssumption`, `ArithmeticAssumption`, `IngestAssumption`
  and `BatchesAssumption`. Ingest is three passes, and what it hands on is known only
  when the last has ended. `IngestInv` says what each leaves behind: what is staged or
  rejected, once each and in input order; what its row alone decides and, up to the
  pointer of the refund pass, whether the refund still fitted; that `refundedSoFar`
  is the sum of the refunds accepted so far, payment by payment; what the last pass
  has told of those before its pointer. From it `CandidatesStaySound`. That no paisa is lost
  by an allocation (`ArithmeticIsExact`) is that the remainders of the floors sum to the
  leftover times the total weight, so that the leftover is no more than the shares
  that have a remainder, and that the first `n` of a strict total order are `n`;
  `split` is the same with equal weights, and a rounding is right though the quotient
  of two doubles may miss by one.
- **`PipelineProofs`**, from `SeedsAssumption`. The seal reads files; that they are of
  one dataset is owed to the commands before it. `IInv` says per seed what the
  disk holds once an uninterrupted generate, and then an oracle run, have ended,
  and what a command in progress has written so far, which is what a kill leaves.
  From `BenchAssumption`, through the instance of `Bench` in `MCCommands`:
  `UnitsStayWhole`. A unit is written at once, but gathered over many steps, each
  of which may be the last; `BenchInv` says for each stage how much of the base and
  of each curve is there, and that every baseline row, on paper or in the table,
  is one that DEV runs of its own key measured.
- **`ChainVerifyProofs`**, from `VerifyAssumption`. `IInv` is the sealed chain's own
  shape and the type of what damage can make; the first theorem is then one
  induction along the records that passed: the root they fold to holds their
  bodies, and the sealed root holds the sealed ones. That a single fault is named
  alone needs `FaultInv` besides: sealed ids and links in order, every sealed body
  balanced at one, so that the running totals are sums of ones but for the edited
  debit and, since `appendEvent` refuses to leave the safe range, stay safe.

The assumptions are what the code gives: `LedgerAssumption` and the others bound
nothing but the types of the constants, `InputsAssumption` says that a run is given
observations that passed S0, and `SeedsAssumption` that the splits' seed lists are
disjoint sets of numbers, as `seeds.ts` writes them. `RowsAssumption` is of S0
too: a payment row debits nothing and a refund row credits nothing, or
`checkReconLineInvariants` fails and ingest keeps the row out of the observations.
That the credit is the amount less the fee, which the same check sees to, is not
assumed: the proof takes it from S5's clause C5. `IdentifiersAssumption` says that
two rows of one identifier would be left open on one side. The comment of
`entityIdOf` (`observation.ts`) has identifiers one-to-one on a conforming dataset but
for a repeated bank line; without that, two adjustments of one identifier on opposite
sides would net in Suspense and stand twice in the queue.
`KeyAssumption` says that a row of the report has an identifier of its own and none
that a settlement has: the answer key and the metrics are kept by identifier, and the
report is not built with one that appears twice (`assertDistinct`, `recon-report.ts`).
`RefundsAssumption` is of the same prefixes (`ids.ts`): a refund has no identifier
of a settlement's or a bank line's. `BenchAssumption` says that seeds are finite sets of
positive numbers, that the frozen grids are not empty and that the operating point
is one point of its grid, which `sweep.ts` refuses to do without.
`BatchesAssumption` says that a batch is a sequence of records, each from a source
ingest has a schema for, and that the schema has read an integer where a payment or a
refund states an amount; `ArithmeticAssumption` that totals and weights are integers and
divisors positive ones, as `ops.ts` and `round.ts` require.

Induction over data is done where it was needed by a least counterexample: the
well-founded order of the naturals (`ChainVerifyProofs`, `WebSessionProofs`,
`PipelineProofs`, `IngestProofs`) or of strict subset on finite sets (`ChainVerifyProofs`,
`ControllerProofs`, `ReconRunProofs`, `IngestProofs`, for the sums). No theorem rests on an unproved step.

Some theorems state what no run checks by itself, because a stronger property
does or because the proof is the better evidence: the soundness of what is durable and
that it is never rewritten (`DurableSound`, `NeverRewritten`; the refinement
covers both in the run), the controller's reasons and its CLOSED (`ReasonsTell`,
`ClosedTruthfully`), the probe loop's certificate and its offers
(`CertificateTruthful`, `OfferedOnly`), the item behind a line's abstention
(`AbstentionsHaveItems`, a half of `OpenIsQueued`).

Model-checked only:

- liveness (`Terminates`, in both loops);
- what other sums, selections and folds over data compute:
  `FaultIsPlaced`, `HashCoversReport`, `TruthReconciles`, `TruthIsFound`,
  `BothAgree`. Their modules fold
  sequences with operators of the community modules, whose definitions by recursion
  over the data the provers cannot unfold for every length.

## 6. Where the repository and its words part

One run shows a disagreement with its finding: in `answer_key_misdirected` a
payment filed under the wrong settlement adds nothing to `misdirected_value`,
because the first record of the file that carries an identifier gives it its
value and a payment view's value is 0. `PROJECT.json` quotes both sides.

The modules state further sentences of the repository that the code does not
keep. Each is the last part of its module, preceded by the words it
translates; naming one under `INVARIANTS` (`PROPERTIES` for `StartTakesOver`) of
the module's configuration gives TLC's counterexample. Names in a module that an `MC`
module instantiates need the prefix of that instance, through a definition in the
`MC` module.

| module | statement | what the code does |
|---|---|---|
| `ReconRun` | `CertificateRepeated` | a component's certificate is its last target's; the run's list lacks certificates its decisions carry |
| | `ZeroReachesDecision` | a settlement of zero paise that nothing is anchored to aborts the run |
| | `RelievedOnce` | lines anchored to an abstained settlement post to Suspense beside it |
| `ProbeLoop` | `ProposerNamesItsModel` | after a fallback the PROBE event names the offline provider with the configured provider's model |
| | `WrongProposalOnlyCostsBudget` | a proposal of the wrong kind for an offered id throws out of the loop |
| `ControllerReport` | `AwaitingMeansHandedOver`, `BoundMeansUnfinished`, `ReadMeansAnswered`, `OverBudgetIsTheBudget` | the panel infers the end of a run from counts that a refusal or the budget can leave alike |
| `CloseRecords` | `CloseIsInTheChain` | the CLOSE draft is appended by nothing |
| | `OpenItemsAreQueued` | two lost or repeated queue items of equal value offset each other (`MaxFaults` 2) |
| | `ThrowsInputErrors` | a batch value whose product with the ratio leaves the safe range throws a `RangeError` (`Batches` with 9) |
| `WebSession` | `VerdictIsOfShownRun`, `SelectionIsOfRun` | a verdict, or a selected decision, outlives a change of run |
| | `EmptyMeansNoneComing`, `StartTakesOver`, `FailedStartShown` | what the screen says of a start under way, answered or failed |
| `Explain` | `DiscardedFiguresWereReached`, `UnknownIdIsNamed` | verdicts of an earlier attempt are reported of the last |
| | `AllowedWasShown`, `PricedAgainstItsTarget` | a certificate is read against the first abstained row of its key |
| `S0Ingest` | `RepeatedIsDuplicate` | a copy that fails the refund pass is not reported a duplicate |
| | `RecordsNeverThrow` | a fee beyond the range throws out of the batch |
| `Generate` | `ReversalFollowsDeduction` | a dispute's reversal is settled without its deduction |
| `OracleGates` | `VerdictsEqual`, `AmbiguityIsShared` | oracle and engine differ where one keeps an anchor the other drops |
| `Scoring` | `AbstainedIsNoMiss`, `ExceptedIsNotCovered`, `SilentGuessIsCommitted`, `InjectedWereTouched` | a member's abstention, an excepted line, a guess without a certificate and an injected row fall into the wrong population |
| `Pipeline` | `FailedGateNotSealed`, `SealFollowsItsGate`, `SealIsOfficial` | the seal takes the completeness verdict of any seed, draw seed and age of gate file, and no consistency verdict |
| | `ReportIsOfTheSplit` | a split regenerated in part between two seals leaves two report hashes (`MaxDatasetCommands` 5) |
| `Bench` | `AllMayBeAsked`, `OnlyTestOpens`, `NotTakenMeansNotRecorded` | what asking for all agents, reading DEV and a spike not taken lead to |

## 7. What is not modelled

`PROJECT.json` lists every component with its status and reason. Left out whole:

- ids and canonical JSON: pure conversions; an id or a hash is a name, and two are
  equal exactly if what they were made of is;
- `metrics/close-loop.ts`, which hands on the fields of the close it is given,
  rounds the same threshold and is called by no command;
- the commands run, close and report, which always throw; verify, whose two
  answers are `ChainVerify`'s and the projection's; flags and environment;
- the drawing of pages, the read routes that project a finished run, CORS,
  envelopes, prompt text and provider wire formats.

Left out of what is modelled:

- `ReconRun`: S4's answers are any best allocation and any reason it could give, so
  its properties hold whatever the ranking; C1, C2 and C8 are one flag of an
  observation; C7 reads a set the run leaves empty; AN3, AN4 and the seam's
  coherence errors bear on no decision of a run; I1 is the balance of a sealed
  posting, I6 holds of a decision over the run's own observations, I9 is not
  supplied; P7 has no caller; amounts are unbounded integers, the totals check of
  the write path being `LedgerWrite`'s;
- `S4Solve`: SE1, SE2 and SE4 are 0 in the code; what a swept epsilon or tau is refused
  for;
- the adjudicator's roles R1 and R2, whose answers the composed run does not ask
  for, and its cache keys;
- `S0Ingest`: the field schemas are one flag of a record;
- the generator's pseudo-random streams are choices; id minting, the table of the
  amount distribution and receipt text are left out;
- `Scoring`: bootstrap intervals and the wording of the metric list;
- `CloseRecords`: an event is any of the kinds a run books, with lines of one value;
  `Pipeline` and `Bench`: the contents of a file are its version and the numbers
  measured on it.
