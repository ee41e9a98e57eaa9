------------------------------- MODULE Oracle -------------------------------
(***************************************************************************)
(* The ambiguity oracle (packages/oracle): a second reading of the anchors,*)
(* the pool and the constraints, which enumerates every subset of a        *)
(* settlement's pool and labels the target by what it finds.               *)
(*                                                                         *)
(* The engine is Candidates.  C7 reads a set that is empty wherever the    *)
(* oracle runs.                                                            *)
(***************************************************************************)
EXTENDS Candidates, TLC

CONSTANTS
  KOracle, COracle,   \* the oracle's search budget
  TauFloor, TauRate   \* tau: a floor, and basis points of the component's value

ASSUME OracleAssumption ==
  {KOracle, COracle, TauFloor, TauRate} \subseteq Nat

-----------------------------------------------------------------------------
(* The oracle's own anchors and pool                                       *)

\* AN2 by key: a settlement and a bank line on it, unless either has another.
BankPairs ==
  {p \in Settlements \X BankLines : obs[p[2]].utr # 0 /\ SameKey(p[1], p[2])}

anchorBankLines ==
  {p \in BankPairs : \A q \in BankPairs : (q[1] = p[1]) = (q[2] = p[2])}

ValueDate(t) ==
  IF Kind(t) = "bank_line" THEN obs[t].value_date
  ELSE LET own == {p \in anchorBankLines : p[1] = t}
       IN  IF own = {} THEN 0 ELSE obs[(CHOOSE p \in own : TRUE)[2]].value_date

unanchoredMembers == {m \in MemberEligible : obs[m].settlement = 0}

NamedBy(t) == {m \in MemberEligible : obs[m].settlement = obs[t].entity}

anchoredNet(t) == Net(NamedBy(t))

-----------------------------------------------------------------------------
(* C1-C8, the oracle's reading of them                                     *)

checkC1(M) == \A m \in M : obs[m].inr

\* The order of every payment the dataset shows, the recon lines merged over the
\* payments.
orderIdByEntity ==
  LET orders(ids) == [e \in {obs[i].entity : i \in ids} |->
                        obs[Max({i \in ids : obs[i].entity = e})].order]
  IN  orders({i \in MemberEligible : obs[i].type = "payment"}) @@ orders(OfKind({"payment"}))

\* Fault: a payment that has no observation has no order, and refuses its refunds.
checkC2Orphan(M) ==
  \A m \in {n \in M : obs[n].type = "refund" /\ obs[n].payment # 0} :
    obs[m].payment \in DOMAIN orderIdByEntity /\ orderIdByEntity[obs[m].payment] = obs[m].order

checkC2(M) ==
  \A m \in {n \in M : obs[n].type = "refund"} :
    obs[m].payment \in DOMAIN orderIdByEntity => orderIdByEntity[obs[m].payment] = obs[m].order

checkC3Ordering(M) == \A m \in M : obs[m].settled # 0 /\ obs[m].created <= obs[m].settled

checkC3BankArrival(M, date) ==
  date # 0 => \A m \in M : obs[m].settled # 0 /\ obs[m].settled <= date

checkC4(M) ==
  \A m \in M : obs[m].settled # 0 /\ obs[m].settled - obs[m].created \in TMin..TMax

checkC5(M) ==
  \A m \in M :
    CASE obs[m].type = "payment" -> obs[m].credit = obs[m].amount - obs[m].fee
                                      /\ obs[m].debit = 0
      [] obs[m].type = "refund"  -> obs[m].debit = obs[m].amount
                                      /\ obs[m].credit = 0 /\ obs[m].fee = 0 /\ obs[m].tax = 0
      [] obs[m].type = "adjustment" -> (obs[m].debit # 0) # (obs[m].credit # 0)

checkC6(M, t) == Net(M) = obs[t].amount

checkC8(M) == \A m \in M : ~obs[m].hold

\* The verdict on one clause; C3 is the conjunction of its two.
Satisfied(clause, M, t, date) ==
  CASE clause = "C1"              -> checkC1(M)
    [] clause = "C2/refund"       -> checkC2(M)
    [] clause = "C3/ordering"     -> checkC3Ordering(M)
    [] clause = "C3/bank-arrival" -> checkC3BankArrival(M, date)
    [] clause = "C4"              -> checkC4(M)
    [] clause = "C5"              -> checkC5(M)
    [] clause = "C6"              -> checkC6(M, t)
    [] clause = "C8"              -> checkC8(M)

\* The constraints a candidate does not satisfy.
checkAll(M, t, date) == {clause \in ClauseKeys : ~Satisfied(clause, M, t, date)}

isAdmissible(M, t, date) == checkAll(M, t, date) = {}

-----------------------------------------------------------------------------
(* Enumeration                                                             *)

settledAtClass(instant) == {m \in unanchoredMembers : obs[m].settled = instant}

\* The classes of the pool; the one of the anchored members where they have one.
candidateInstants(t) ==
  LET instants == {obs[m].settled : m \in unanchoredMembers} \ {0}
      anchored == {obs[m].settled : m \in NamedBy(t)} \ {0}
  IN  IF Cardinality(anchored) = 1 THEN instants \cap anchored ELSE instants

Exceeded(t) ==
  \/ \E i \in candidateInstants(t) : Cardinality(settledAtClass(i)) > KOracle
  \/ MapThenSumSet(LAMBDA i : 2 ^ Cardinality(settledAtClass(i)), candidateInstants(t)) > COracle

\* Fault: the members that name the settlement are left out of a candidate.
CandidatesWithoutNamed(t) == UNION {SUBSET settledAtClass(i) : i \in candidateInstants(t)}

CandidatesOf(t) ==
  {NamedBy(t) \cup K : K \in UNION {SUBSET settledAtClass(i) : i \in candidateInstants(t)}}

Status(t) ==
  IF Kind(t) = "bank_line" THEN "NO_ELIGIBLE_MEMBER_KIND"
  ELSE IF anchoredNet(t) = obs[t].amount THEN "ANCHORED"
  ELSE IF Exceeded(t) THEN "EXCEEDED"
  ELSE "ENUMERATED"

\* Nothing is ranked, pruned or stopped early.
Solutions(t) ==
  CASE Status(t) \in {"NO_ELIGIBLE_MEMBER_KIND", "EXCEEDED"} -> {}
    [] Status(t) = "ANCHORED"   -> {NamedBy(t)}
    [] Status(t) = "ENUMERATED" -> {M \in CandidatesOf(t) : isAdmissible(M, t, ValueDate(t))}

AllTargets == Settlements \cup BankLines

-----------------------------------------------------------------------------
(* Components and labels                                                   *)

observationValue(m) ==
  IF obs[m].type # "adjustment" THEN obs[m].amount
  ELSE IF obs[m].debit # 0 THEN obs[m].debit ELSE obs[m].credit

\* What the enumeration found, target by target.
enumerateAll == [t \in AllTargets |-> Solutions(t)]

Touches(found, t) == UNION found[t] \cap unanchoredMembers

\* The members connected to t by the solutions of the targets between them.
ComponentMembers(found, t) ==
  LET touched   == {<<u, Touches(found, u)>> : u \in AllTargets}
      closed(T) == \A p, q \in touched : p[1] \in T /\ p[2] \cap q[2] # {} => q[1] \in T
      component == {u \in AllTargets : \A T \in SUBSET AllTargets : t \in T /\ closed(T) => u \in T}
  IN  UNION {Touches(found, u) : u \in component}

RoundHalfUp(num, den) == (2 * num + den) \div (2 * den)

tauFor(value) == Max({TauFloor, RoundHalfUp(value * TauRate, 10000)})

OracleAccounts == {"BANK", "FEE", "GST", "RECEIVABLE", "LIABILITY"}

\* What an allocation posts of its own: P2 a payment, P4 a refund.
projectAllocation(M, account) ==
  LET payments == {m \in M : obs[m].type = "payment"}
      refunds  == {m \in M : obs[m].type = "refund"}
  IN  CASE account = "BANK"       -> MapThenSumSet(LAMBDA m : obs[m].credit, payments)
                                       - MapThenSumSet(LAMBDA m : obs[m].amount, refunds)
        [] account = "FEE"        -> MapThenSumSet(LAMBDA m : obs[m].fee - obs[m].tax, payments)
        [] account = "GST"        -> MapThenSumSet(LAMBDA m : obs[m].tax, payments)
        [] account = "RECEIVABLE" -> - MapThenSumSet(LAMBDA m : obs[m].amount, payments)
        [] account = "LIABILITY"  -> MapThenSumSet(LAMBDA m : obs[m].amount, refunds)

AbsOf(n) == IF n < 0 THEN -n ELSE n

materiality(M, N) ==
  Max({AbsOf(projectAllocation(M, a) - projectAllocation(N, a)) : a \in OracleAccounts})

\* The label of a target, given what was found.
classify(found, t) ==
  LET sols == found[t]
  IN  CASE Status(t) = "EXCEEDED" -> "INTRACTABLE"
        [] Status(t) # "EXCEEDED" /\ sols = {} -> "NO_SOLUTION"
        [] Cardinality(sols) = 1 -> "UNAMBIGUOUS"
        [] Cardinality(sols) > 1 ->
             IF Max({materiality(M, N) : M, N \in sols})
                  > tauFor(MapThenSumSet(observationValue, ComponentMembers(found, t)))
             THEN "TRULY_AMBIGUOUS" ELSE "IMMATERIALLY_AMBIGUOUS"
=============================================================================
