---------------------------- MODULE OracleGates ----------------------------
(***************************************************************************)
(* assay oracle on one dataset: the labels (labelAll), the completeness    *)
(* gate (packages/oracle/src/completeness-gate.ts), which looks for the    *)
(* true allocation among the solutions, and the consistency gate           *)
(* (packages/eval/src/gates), which compares the oracle with the engine on *)
(* pairs drawn at random.  Reports and tallies are left out.               *)
(***************************************************************************)
EXTENDS Oracle, GroundTruth

CONSTANTS
  Inputs,             \* the observation sets a dataset may hold
  Draws, MemberMax    \* CONSISTENCY_SAMPLE_SIZE and CONSISTENCY_MEMBER_SET_MAX

VARIABLES
  truth,        \* the true settlement of a line, and the settlements a line of
                \* which is withheld
  results,      \* the solutions of every target, found once
  labels,       \* OracleLabel of every target
  findings,     \* the completeness gate's, target -> outcome
  divergences,  \* the consistency gate's, <<target, members, clause>>
  drawn,        \* pairs compared so far
  step

vars == <<obs, truth, results, labels, findings, divergences, drawn, step>>

-----------------------------------------------------------------------------
LabelAll ==
  /\ step = "label"
  /\ results' = enumerateAll
  /\ labels' = [t \in AllTargets |-> classify(results', t)]
  /\ step' = "complete"
  /\ UNCHANGED <<obs, truth, findings, divergences, drawn>>

-----------------------------------------------------------------------------
(* The completeness gate                                                   *)

\* The true members of a settlement that the dataset shows.
TrueMembers(t) == MembersIn(truth.line, t)

\* A withheld member has no observation: the allocation cannot be expressed.
expressible(t) == obs[t].entity \notin truth.withheld

Outcome(t) ==
  IF ~expressible(t) THEN "SCOPED_OUT_INEXPRESSIBLE"
  ELSE IF Status(t) = "EXCEEDED" THEN "SCOPED_OUT_BUDGET_EXHAUSTED"
  ELSE IF TrueMembers(t) \in results[t] THEN "PASS"
  ELSE "TRUE_ALLOCATION_ABSENT"

completenessGate ==
  /\ step = "complete"
  /\ findings' = [t \in {s \in Settlements : TrueMembers(s) # {} \/ ~expressible(s)} |-> Outcome(t)]
  /\ step' = "compare"
  /\ UNCHANGED <<obs, truth, results, labels, divergences, drawn>>

-----------------------------------------------------------------------------
(* The consistency gate                                                    *)

\* A pair carries no bank line: the date is the target's own or none.
PairDate(t) == IF Kind(t) = "bank_line" THEN obs[t].value_date ELSE 0

(* The declaration the two implement (packages/domain constraints.decl.ts) *)

Declared(clause, binding, settledAtNull) ==
  [clause |-> clause, binding |-> binding, settledAtNull |-> settledAtNull]

HARD_CONSTRAINTS ==
  {Declared("C1", "binding", FALSE),
   Declared("C2/refund", "binding", FALSE),
   Declared("C2/adjustment", "expected-non-binding", FALSE),
   Declared("C3/ordering", "binding", TRUE),
   Declared("C3/bank-arrival", "binding-when-in-scope", TRUE),
   Declared("C4", "binding", TRUE),
   Declared("C5", "binding", FALSE),
   Declared("C6", "binding", FALSE),
   Declared("C7", "binding", FALSE),
   Declared("C8", "expected-non-binding", FALSE)}

nonBindingClauses ==
  {c.clause : c \in {d \in HARD_CONSTRAINTS : d.binding = "expected-non-binding"}}

conditionallyBindingClauses ==
  {c.clause : c \in {d \in HARD_CONSTRAINTS : d.binding = "binding-when-in-scope"}}

\* The clauses no member without a settlement instant satisfies.
SETTLED_AT_NULL_CONSTRAINTS == {c.clause : c \in {d \in HARD_CONSTRAINTS : d.settledAtNull}}

\* A clause left out of the criterion: C8, the adjustment half, and the arrival where
\* the pair has no bank line.
exclusionFor(clause) ==
  IF clause \in {"C8", "C2/adjustment"} THEN "DECLARED_NON_BINDING"
  ELSE IF clause = "C3/bank-arrival" THEN "OUT_OF_SCOPE_ON_THIS_TARGET"
  ELSE "none"

\* The clauses one excludes the pair by and the other does not, of those that count,
\* and whether the two admit it.
comparePair(M, t) ==
  LET engine == evaluate(M, t, PairDate(t))
      oracle == checkAll(M, t, PairDate(t))
      differ == (engine \cup oracle) \ (engine \cap oracle)
      admits == engine = {} /\ coSettlementCoherent(M, t)
  IN  {clause \in differ : exclusionFor(clause) = "none"}
        \cup (IF admits = isAdmissible(M, t, PairDate(t)) THEN {} ELSE {"admissible"})

ComparePair ==
  /\ step = "compare" /\ drawn < Draws
  /\ \E t \in AllTargets, M \in SUBSET MemberEligible :
       /\ Cardinality(M) \in 1..MemberMax
       /\ divergences' = divergences \cup {<<t, M, clause>> : clause \in comparePair(M, t)}
  /\ drawn' = drawn + 1
  /\ UNCHANGED <<obs, truth, results, labels, findings, step>>

\* A dataset with no target or no member draws no pair.
GateEnds ==
  /\ step = "compare"
  /\ drawn = Draws \/ AllTargets = {} \/ MemberEligible = {}
  /\ step' = "done"
  /\ UNCHANGED <<obs, truth, results, labels, findings, divergences, drawn>>

consistencyPassed == divergences = {}

-----------------------------------------------------------------------------
Init ==
  /\ obs \in Inputs
  /\ truth \in Truths
  /\ results = <<>> /\ labels = <<>> /\ findings = <<>>
  /\ divergences = {} /\ drawn = 0
  /\ step = "label"

Ended == step = "done" /\ UNCHANGED vars

Next == LabelAll \/ completenessGate \/ ComparePair \/ GateEnds \/ Ended

Spec == Init /\ [][Next]_vars
-----------------------------------------------------------------------------
(* Properties                                                              *)

\* The oracle never misses the truth where it claims to have looked: an allocation
\* every member of which is observed is among the solutions of its settlement,
\* whatever was dropped from its lines (completeness-gate.ts, enumerate.ts), and
\* a target called unambiguous has no other.
TruthIsFound ==
  /\ \A t \in DOMAIN findings : findings[t] # "TRUE_ALLOCATION_ABSENT"
  /\ labels # <<>> => \A t \in Settlements :
       labels[t] = "UNAMBIGUOUS" /\ expressible(t) => results[t] = {TrueMembers(t)}

\* Where each has one anchor and neither is stopped by a bound, the oracle and the
\* engine find the same allocations, by other anchors, another pool and another
\* enumeration; no drawn pair separates a clause of theirs; each refuses a line that
\* never settled by the clauses declared to; and what the comparison leaves out is
\* what the declaration calls non-binding (constraints.decl.ts, consistency-gate.ts).
BothAgree ==
  /\ step = "complete" => \A t \in Settlements :
       Status(t) # "EXCEEDED" /\ ~Truncated(t) /\ ValueDate(t) = EngineDate(t) =>
         /\ Status(t) = "ANCHORED" <=> t \in AnchorResolved
         /\ Status(t) = "ENUMERATED" => results[t] = Generated(t)
  /\ \A d \in divergences : d[3] = "admissible"
  /\ \A m \in MemberEligible, t \in AllTargets : obs[m].settled = 0 =>
       SETTLED_AT_NULL_CONSTRAINTS \ conditionallyBindingClauses
         \subseteq evaluate({m}, t, 0) \cap checkAll({m}, t, 0)
  /\ \A c \in HARD_CONSTRAINTS :
       exclusionFor(c.clause) = "DECLARED_NON_BINDING" <=> c.clause \in nonBindingClauses

-----------------------------------------------------------------------------
(* What the code says of itself and does not keep                          *)

\* PREREGISTRATION.md:2692: "the engine's admissibility verdict must equal the
\* oracle's": no drawn pair is admitted by one and refused by the other.
VerdictsEqual == consistencyPassed

\* PREREGISTRATION.md:2623 calls the two "two independent implementations of one
\* declarative specification": a target the oracle calls truly ambiguous is one
\* the engine, unless a bound stopped it, finds two allocations of.
AmbiguityIsShared ==
  labels # <<>> => \A t \in Settlements :
    labels[t] = "TRULY_AMBIGUOUS" /\ ~Truncated(t) => Cardinality(Generated(t)) > 1
=============================================================================
