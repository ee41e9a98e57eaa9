------------------------------ MODULE S4Solve ------------------------------
(***************************************************************************)
(* Stage S4 (packages/engine/src/s4-solve.ts): rank the candidates of one  *)
(* component by evidence and classify the component.                       *)
(*                                                                         *)
(* A candidate is known by its place in the order of canonical allocation  *)
(* keys, so k < l says that k's key is the smaller string.  SE1, SE2 and   *)
(* SE4 are constant 0 in the code.  Scores are exact where the code adds   *)
(* two doubles; lags are counted in ticks, TicksPerDay of them to a day.   *)
(***************************************************************************)
EXTENDS Integers, FiniteSets, FiniteSetsExt

CONSTANTS
  Members,      \* obs_ids of the run's member observations
  Ids,          \* entity ids, ordered as the code orders the strings
  NoId,         \* null
  PMax,         \* P_MAX
  EpsilonBps,   \* EPSILON_BPS, or the epsilon of a sweep
  SE3Bps,       \* SE_WEIGHTS_BPS.SE3
  SE5Bps,       \* SE_WEIGHTS_BPS.SE5
  TicksPerDay,  \* SECONDS_PER_DAY
  WindowDays,   \* SETTLEMENT_WINDOW.t_max_days - SETTLEMENT_WINDOW.t_min_days
  TauFloorPaise, \* TAU.floor_paise, or the floor of a sweep
  TauBps        \* TAU.component_value_bps

EvidenceScoreMaxBps == 10000

\* What resolveEpsilonBps and resolveTauFloorPaise refuse is left out.
ASSUME S4Assumption ==
  /\ IsFiniteSet(Members)
  /\ Ids \subseteq Nat
  /\ NoId \notin Ids
  /\ PMax \in Nat \ {0}
  /\ EpsilonBps \in 0..EvidenceScoreMaxBps
  /\ {SE3Bps, SE5Bps, TauBps} \subseteq Nat
  /\ {TicksPerDay, WindowDays, TauFloorPaise} \subseteq Nat \ {0}

Outcomes == {"UNIQUE", "IMMATERIALLY_AMBIGUOUS", "DISCRIMINATED", "AMBIGUOUS",
             "INTRACTABLE"}

Reasons == {"EVIDENCE_TIE", "NO_USEFUL_PROBE_AVAILABLE", "PROBE_BUDGET_EXHAUSTED",
            "MATERIALITY_UNDETERMINED", "SEARCH_BOUND_EXCEEDED"}

None == "none"

Candidates(c) == DOMAIN c.members

-----------------------------------------------------------------------------
(* Evidence                                                                *)

\* floor(p / q + 1/2)
RoundHalfUp(p, q) == (2 * p + q) \div (2 * q)

\* The most frequent lag of the recon lines in whole days, the smallest of several,
\* 0 without a line.
modalLagDays(lag, lines) ==
  LET day(m)   == lag[m] \div TicksPerDay
      count(d) == Cardinality({m \in lines : day(m) = d})
      days     == {day(m) : m \in lines}
      most     == {d \in days : \A e \in days : count(e) <= count(d)}
  IN  IF days = {} THEN 0 ELSE Min(most)

\* What the solver is handed: members[k] is the allocation of candidate k; lag[m] is
\* what passed between a member's creation and its settlement, and lines are the
\* members that are recon lines and not adjustments; booked[m] is what the credit's
\* arrival posts for m, net by account, where there is bank evidence.
SolveInput(c) ==
  /\ {c.exceeds_k_max, c.bank_evidence} \subseteq BOOLEAN
  /\ c.target \in Ids \cup {NoId}
  /\ \A k \in DOMAIN c.members : c.members[k] \subseteq Members
  /\ c.lag \in [Members -> Int] /\ c.lines \subseteq Members
  /\ c.mode_days = modalLagDays(c.lag, c.lines)
  /\ \A m \in Members : \A a \in DOMAIN c.booked[m] : c.booked[m][a] \in Int
  /\ c.total_value_paise \in Nat

\* A signal is a fraction of its weight.
Signal(num, den) == [num |-> num, den |-> den]

Distance(a, b) == IF a < b THEN b - a ELSE a - b

\* SE3: the mean closeness of a candidate's lags to the usual one; a window away
\* from it, or more, counts for nothing.
se3(c, k) ==
  LET window == WindowDays * TicksPerDay
      usual  == c.mode_days * TicksPerDay
      fit(m) == Max({0, window - Distance(c.lag[m], usual)})
  IN  IF c.members[k] = {} THEN Signal(0, 1)
      ELSE Signal(MapThenSumSet(fit, c.members[k]), window * Cardinality(c.members[k]))

\* SE5: Jaccard agreement of a candidate with rStar, the observed members that the
\* reports on the component's own settlement name.
se5(c, k, rStar) ==
  LET union == rStar \cup c.members[k]
  IN  IF union = {} THEN Signal(0, 1)
      ELSE Signal(Cardinality(rStar \cap c.members[k]), Cardinality(union))

\* Both signals, weighted and rounded once.
Score(c, k, rStar) ==
  LET fit    == se3(c, k)
      agreed == se5(c, k, rStar)
  IN  Min({EvidenceScoreMaxBps,
           RoundHalfUp(SE3Bps * fit.num * agreed.den + SE5Bps * agreed.num * fit.den,
                       fit.den * agreed.den)})

-----------------------------------------------------------------------------
(* Rank                                                                    *)

Scored(c, rStar) == {<<Score(c, k, rStar), k>> : k \in Candidates(c)}

Outscores(s, t) == s[1] > t[1] \/ (s[1] = t[1] /\ s[2] < t[2])

First(scored) == CHOOSE s \in scored : \A t \in scored \ {s} : Outscores(s, t)

\* The one member of a set: TLC evaluates it once.
The(S) == CHOOSE x \in S : TRUE

\* The two best of two or more.
Ranked(c, rStar) ==
  The({<<First(scored), First(scored \ {First(scored)})>> : scored \in {Scored(c, rStar)}})

-----------------------------------------------------------------------------
(* Materiality                                                             *)

\* Without bank evidence neither allocation posts, and what they would differ by is
\* undefined.
Determined(c) == c.bank_evidence

AccountsOf(c, S) == UNION {DOMAIN c.booked[m] : m \in S}

\* What posting an allocation nets on an account.
balances(c, k, account) ==
  MapThenSumSet(LAMBDA m : c.booked[m][account],
                {m \in c.members[k] : account \in DOMAIN c.booked[m]})

\* The most any account would differ by.
materiality(c, k, l) ==
  Max({0} \cup {Distance(balances(c, k, a), balances(c, l, a)) :
                  a \in AccountsOf(c, c.members[k] \cup c.members[l])})

tauFor(c) == Max({TauFloorPaise, (c.total_value_paise * TauBps) \div 10000})

-----------------------------------------------------------------------------
(* Classify                                                                *)

certificateReason(attempts) ==
  CASE attempts <= 0    -> "EVIDENCE_TIE"
    [] attempts >= PMax -> "PROBE_BUDGET_EXHAUSTED"
    [] OTHER            -> "NO_USEFUL_PROBE_AVAILABLE"

Result(outcome, best, second, reason) ==
  [outcome |-> outcome, best |-> best, second |-> second,
   certificate_reason |-> reason]

\* Two or more candidates: the two best are compared, in the table's order.
Classify(c, best, second, attempts) ==
  IF Determined(c) /\ materiality(c, best[2], second[2]) <= tauFor(c)
  THEN Result("IMMATERIALLY_AMBIGUOUS", best[2], second[2], None)
  ELSE IF best[1] - second[1] >= EpsilonBps
  THEN Result("DISCRIMINATED", best[2], second[2], None)
  ELSE Result("AMBIGUOUS", best[2], second[2],
              IF Determined(c) THEN certificateReason(attempts)
              ELSE "MATERIALITY_UNDETERMINED")

Compare(c, rStar, attempts) ==
  The({Classify(c, two[1], two[2], attempts) : two \in {Ranked(c, rStar)}})

\* best and second are 0 where the code returns null.
solve(c, rStar, attempts) ==
  IF c.exceeds_k_max
  THEN Result("INTRACTABLE", 0, 0, "SEARCH_BOUND_EXCEEDED")
  ELSE IF Cardinality(Candidates(c)) <= 1
  THEN Result("UNIQUE", IF Candidates(c) = {} THEN 0 ELSE CHOOSE k \in Candidates(c) : TRUE,
              0, None)
  ELSE Compare(c, rStar, attempts)
=============================================================================
