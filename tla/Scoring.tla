------------------------------ MODULE Scoring ------------------------------
(***************************************************************************)
(* A composed run scored against the answer key: what the run reports of   *)
(* itself (the AgentRun assembled at the end of assay.ts), the metrics of  *)
(* packages/eval over it (coverage, match, harm, abstention, net cost,     *)
(* robustness), and their assembly in apps/cli/src/commands/bench.ts.      *)
(*                                                                         *)
(* Rates are their numerators and denominators.  An edge is an entity and  *)
(* the entity it is filed under.                                           *)
(***************************************************************************)
EXTENDS ReconRun, Oracle, GroundTruth

CONSTANTS CReview, CException   \* C_REVIEW_PAISE, C_EXCEPTION_PAISE

ASSUME CostAssumption == {CReview, CException} \subseteq Nat

\* The key is kept by identifier: a row of the report has one of its own, or the report
\* is not built (assertDistinct), and a settlement's is of another prefix (ids.ts).
OfOneRow(input) ==
  \A i, j \in DOMAIN input :
    /\ input[i].kind \in {"recon_line", "adjustment"}
    /\ input[j].kind \in {"recon_line", "adjustment", "settlement"}
    /\ input[i].entity = input[j].entity
    => i = j

ASSUME KeyAssumption == \A input \in Inputs : OfOneRow(input)

VARIABLES
  truth,   \* the answer key: line, withheld, carried, degraded
  score    \* the metrics, <<>> until the run is scored

scoringVars == <<vars, truth, score>>

-----------------------------------------------------------------------------
(* The AgentRun                                                            *)

Entity(n) == obs[posted[n].obs].entity

Allocations ==
  UNION {{<<obs[m].entity, Entity(n)>> : m \in posted[n].members} : n \in DecidedAs("RECONCILED")}

Abstentions == {n \in DecidedAs("ABSTAINED") : posted[n].key # 0}

OpenExceptions == DecidedAs("EXCEPTION")

\* Fault: the states are kept by identifier.
stateByEntityId(i) ==
  LET records == {n \in DOMAIN posted : Entity(n) = obs[i].entity}
  IN  IF records = {} THEN "REFERENCE" ELSE posted[Max(records)].state

\* The outcome of an observation: its last decision's, REFERENCE if it has none.
stateByObsId(i) ==
  LET records == {n \in DOMAIN posted : posted[n].obs = i}
  IN  IF records = {} THEN "REFERENCE" ELSE posted[Max(records)].state

\* unresolved_value_paise_multiview of the close.
multiview == SumFunction([n \in DOMAIN posted \ DecidedAs("RECONCILED") |-> valueOf(posted[n].obs)])

unresolvedEntityIds == {Entity(n) : n \in Abstentions \cup OpenExceptions}

coveredEntityIds == {e[1] : e \in Allocations}

-----------------------------------------------------------------------------
(* Coverage                                                                *)

ObservationStates == States \cup {"REFERENCE"}

sumWhere(states, kinds) ==
  SumFunction([i \in {i \in OfKind(kinds) : stateByObsId(i) \in states} |-> valueOf(i)])

coverageByValue(kinds) ==
  [numerator |-> sumWhere({"RECONCILED"}, kinds), denominator |-> sumWhere(ObservationStates, kinds)]

batchValuePaise == coverageByValue({"recon_line"}).denominator

coverage ==
  [ by_value |-> coverageByValue({"recon_line"}),
    by_count |-> LET reconcilable == DOMAIN obs \ References
                 IN  [numerator |-> Cardinality({i \in reconcilable : stateByObsId(i) = "RECONCILED"}),
                      denominator |-> Cardinality(reconcilable)],
    bank     |-> coverageByValue({"bank_line"}),
    ledger   |-> coverageByValue({"ledger_entry"}),
    all_observations |-> coverageByValue({Kind(i) : i \in DOMAIN obs}) ]

-----------------------------------------------------------------------------
(* The observations' values, by identifier                                 *)

EmissionOrder == <<"order", "payment", "recon_line", "adjustment", "settlement", "bank_line",
                   "ledger_entry", "refund", "dispute">>

EmittedBefore(i, j) ==
  LET place(k) == CHOOSE n \in DOMAIN EmissionOrder : EmissionOrder[n] = Kind(k)
  IN  \/ place(i) < place(j)
      \/ place(i) = place(j) /\ i < j

\* The first observation of the file that carries the identifier.
valueByEntityId(entity) ==
  LET bearers == {i \in DOMAIN obs : obs[i].entity = entity}
  IN  IF bearers = {} THEN 0
      ELSE valueOf(CHOOSE i \in bearers : \A j \in bearers \ {i} : EmittedBefore(i, j))

-----------------------------------------------------------------------------
(* The answer key                                                          *)

\* The line withheld from a settlement is known by minus its settlement.
scoringTruth ==
  {<<obs[m].entity, truth.line[m]>> : m \in {m \in MemberEligible : truth.line[m] # 0}}
    \cup {<<-id, id>> : id \in truth.withheld}
    \cup {<<obs[s].entity, obs[BankLineOf(s)].entity>> : s \in {s \in Settlements : BankLineOf(s) # 0}}

\* P1 and P3 always; P2, P4 and P8 where the settlement's credit has arrived.
TrueRules(m) ==
  (IF Kind(m) = "recon_line" THEN {IngestRule(m)} ELSE {})
    \cup IF truth.line[m] \notin truth.carried THEN {}
         ELSE {IF Kind(m) = "adjustment" THEN "P8" ELSE BankEvidenceRule(m)}

projectTruth(account, entities) ==
  SumFunction([m \in {m \in MemberEligible : obs[m].entity \in entities} |->
                 SumFunction([rule \in TrueRules(m) |-> LegNet(Legs(rule, m), account)])])

-----------------------------------------------------------------------------
(* Match and harm                                                          *)

matchMetrics ==
  [ tp |-> Allocations \cap scoringTruth,
    fp |-> Allocations \ scoringTruth,
    fn |-> {e \in scoringTruth \ Allocations : e[1] \notin unresolvedEntityIds} ]

\* Fault: the postings of every decision are compared.
projectAgentAll(account) == SumFunction([n \in DOMAIN posted |-> NetOn(account, posted[n].lines)])

projectAgent(account) ==
  SumFunction([n \in DecidedAs("RECONCILED") |-> NetOn(account, posted[n].lines)])

\* Suspense is reported and not counted.
HarmAccounts == Accounts \ {"SUSPENSE"}

balanceHarm ==
  SumFunction([a \in HarmAccounts |-> AbsOf(projectAgent(a) - projectTruth(a, coveredEntityIds))])

misdirectedValue ==
  SumFunction([entity \in {e[1] : e \in Allocations \ scoringTruth} |-> valueByEntityId(entity)])

\* The harm of one identifier, 0 where nothing allocated it.
caseBalanceHarm(entity) ==
  LET booked(a) == SumFunction([n \in {n \in DecidedAs("RECONCILED") : Entity(n) = entity} |->
                                  NetOn(a, posted[n].lines)])
  IN  IF entity \notin coveredEntityIds THEN 0
      ELSE SumFunction([a \in HarmAccounts |-> AbsOf(booked(a) - projectTruth(a, {entity}))])

-----------------------------------------------------------------------------
(* Abstention and cost                                                     *)

trulyAmbiguousTargets ==
  LET found == enumerateAll
  IN  {obs[t].entity : t \in {t \in AllTargets : classify(found, t) = "TRULY_AMBIGUOUS"}}

abstentionMetrics ==
  LET abstained == {Entity(n) : n \in Abstentions}
  IN  [ correct      |-> abstained \cap trulyAmbiguousTargets,
        over         |-> abstained \ trulyAmbiguousTargets,
        silent_guess |-> MapThenSumSet(valueByEntityId, trulyAmbiguousTargets \ abstained) ]

abstentionRateByValue ==
  [numerator |-> sumWhere({"ABSTAINED"}, {"recon_line"}), denominator |-> batchValuePaise]

LedgerOnly == {n \in OpenExceptions : posted[n].class = "E13"}

netCost ==
  balanceHarm + Cardinality(Abstentions) * CReview + Cardinality(OpenExceptions) * CException

oraclePolicyNetCost ==
  Cardinality(trulyAmbiguousTargets) * CReview + Cardinality(LedgerOnly) * CException

-----------------------------------------------------------------------------
(* Robustness: who was attacked                                            *)

\* A record names an observation, or the identifier of a row it changed.
NoRecord == [op |-> "none", obs_id |-> 0, entity |-> 0]

Records ==
  {NoRecord}
    \cup {[NoRecord EXCEPT !.op = "INJECT_NOTES", !.obs_id = i] :
            i \in OfKind({"order", "payment", "refund"})}
    \cup {[NoRecord EXCEPT !.op = "CONFLICT_REFERENCE", !.entity = obs[m].entity] :
            m \in {m \in OfKind({"recon_line"}) : obs[m].settlement # 0}}

observationsForRecord(r) ==
  {i \in DOMAIN obs : i = r.obs_id \/ (r.entity # 0 /\ obs[i].entity = r.entity)}

injected == observationsForRecord(truth.degraded)

control == {i \in DOMAIN obs \ injected : \E j \in injected : Kind(i) = Kind(j)}

injectedWithHarm == {i \in injected \ References : caseBalanceHarm(obs[i].entity) > 0}

AbstainedIn(population) == population \cap {posted[n].obs : n \in DecidedAs("ABSTAINED")}

robustness ==
  [ injected |-> injected, with_harm |-> injectedWithHarm,
    abstained_injected |-> AbstainedIn(injected), abstained_control |-> AbstainedIn(control) ]

-----------------------------------------------------------------------------
\* What bench files of one execution: the coverage, metric 17's rate, what scoreTruth
\* and scoreRobustness return.
BaseMetrics ==
  [ coverage |-> coverage, abstention_rate |-> abstentionRateByValue,
    match |-> matchMetrics, harm |-> balanceHarm, misdirected |-> misdirectedValue,
    abstention |-> abstentionMetrics, net_cost |-> netCost,
    gap_to_oracle |-> netCost - oraclePolicyNetCost, robustness |-> robustness ]

NoTruth == <<>>

\* The key is read when the run is over, and no step of the run reads it.
ReadTruth ==
  /\ status = "done" /\ truth = NoTruth
  /\ \E key \in Truths, degraded \in Records,
        carried \in SUBSET {obs[s].entity : s \in Settlements} :
       /\ \A s \in Settlements : CreditsFor(s) # {} => obs[s].entity \in carried
       /\ truth' = [line |-> key.line, withheld |-> key.withheld, carried |-> carried,
                    degraded |-> degraded]
  /\ UNCHANGED <<vars, score>>

Score ==
  /\ truth # NoTruth /\ score = <<>>
  /\ score' = BaseMetrics
  /\ UNCHANGED <<vars, truth>>

RunStep ==
  /\ Solve \/ PostAnchor \/ PostTarget \/ PostMember \/ PostRest \/ Close
  /\ UNCHANGED <<truth, score>>

ScoringEnded == (status = "aborted" \/ score # <<>>) /\ UNCHANGED scoringVars

\* The dataset is one that some key explains.
ScoringInit == Init /\ Truths # {} /\ truth = NoTruth /\ score = <<>>

ScoringNext == RunStep \/ ReadTruth \/ Score \/ ScoringEnded

ScoringSpec == ScoringInit /\ [][ScoringNext]_scoringVars

-----------------------------------------------------------------------------
(* Properties                                                              *)

Scored == score # <<>> /\ agent # "A1-NOVALIDATE"

\* An allocation posts as the answer key does: it is of lines, and its credit was
\* seen exactly if it arrived.
PostsAsTheKey(n) ==
  /\ \A m \in posted[n].members : Kind(m) = "recon_line"
  /\ HasEvidence(posted[n].obs) = (Entity(n) \in truth.carried)

AllocatedLines ==
  {m \in UNION {posted[n].members : n \in DecidedAs("RECONCILED")} : Kind(m) = "recon_line"}

\* The books tell right from wrong: where every asserted edge is true and every
\* credit that arrived was seen there is no harm and nothing misdirected; what harm
\* there is, is the harm of some line the run allocated, so a run that allocates
\* nothing has none; and what is covered is what was allocated, line by line
\* (harm.ts, robustness.ts, coverage.ts over the journal of assay.ts).
MetricsAgree ==
  Scored =>
    /\ score.match.fp = {} => score.misdirected = 0
    /\ score.match.fp = {}
         /\ (\A n \in DecidedAs("RECONCILED") : posted[n].members # {} => PostsAsTheKey(n))
         => score.harm = 0
    /\ score.harm <= SumFunction([entity \in coveredEntityIds |-> caseBalanceHarm(entity)])
    /\ score.coverage.by_value.numerator = SumFunction([m \in AllocatedLines |-> valueOf(m)])

\* The settlement lines left as exceptions, and the payments among them.
ExceptedLines == {n \in OpenExceptions : Kind(posted[n].obs) = "recon_line"}

ExceptedPayments == {n \in ExceptedLines : obs[posted[n].obs].type = "payment"}

ValueIn(decisions) == SumFunction([n \in decisions |-> valueOf(posted[n].obs)])

\* Every paisa of the report is in one population.  The rates look each observation's
\* state up in a map that calls REFERENCE what no pass decided; the exceptions and the
\* multiview are summed over the decisions, the batch over the rows, the unresolved
\* value over the queue (assay.ts:1333-1462, coverage.ts:52-96, abstention.ts:174-189).
\* They agree all the same: the lines covered, abstained and excepted make up the
\* batch the close was measured against; what the coverage leaves out is the
\* multiview; and what the close weighs has every payment in it that is an exception
\* (a refund line's is no item) and nothing the coverage counts.
BatchIsAccountedFor ==
  score # <<>> =>
    LET lines == score.coverage.by_value
        all   == score.coverage.all_observations
    IN  /\ lines.numerator + score.abstention_rate.numerator + ValueIn(ExceptedLines)
              = GateInput.batch
        /\ all.denominator - all.numerator = multiview
        /\ ValueIn(ExceptedPayments) <= Unresolved(GateInput)
        /\ Unresolved(GateInput) <= multiview

-----------------------------------------------------------------------------
(* What the code says of itself and does not keep                          *)

\* EVALUATION_SPEC.md:816 sums "entity.amount" over the covered entities whose
\* allocated target is not the true one: a payment filed under the wrong settlement
\* is misdirected value.
MisdirectedIsCounted ==
  Scored =>
    \A m \in MemberEligible :
      (\E e \in score.match.fp : e[1] = obs[m].entity) => score.misdirected >= obs[m].amount

\* match.ts:18 says that a true edge "whose entity the agent abstained on or raised
\* an exception on is not a false negative".
AbstainedIsNoMiss ==
  Scored => \A n \in DecidedAs("ABSTAINED") : \A e \in score.match.fn : e[1] # Entity(n)

\* EVALUATION_SPEC.md:821 says that "an abstained or excepted entity has no allocated
\* target", so it enters neither side of the harm.
ExceptedIsNotCovered ==
  Scored => \A n \in DecidedAs("EXCEPTION") : Entity(n) \notin coveredEntityIds

\* EVALUATION_SPEC.md:726 says that silent_guess_value is the value "of decisions the
\* system committed" on ambiguous cases.
SilentGuessIsCommitted ==
  Scored =>
    score.abstention.silent_guess =
      MapThenSumSet(valueByEntityId,
                    trulyAmbiguousTargets \cap {Entity(n) : n \in DecidedAs("RECONCILED")})

\* truth.ts:214 says that the injected population is the observations "targeted by"
\* a record: CONFLICT_REFERENCE rewrites a recon line and nothing else.
InjectedWereTouched ==
  Scored /\ truth.degraded.op = "CONFLICT_REFERENCE" =>
    \A i \in score.robustness.injected : Kind(i) = "recon_line"
=============================================================================
