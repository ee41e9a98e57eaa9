----------------------------- MODULE Candidates -----------------------------
(***************************************************************************)
(* What a composed run knows before it decides anything: the anchors of S1 *)
(* (packages/engine/src/s1-anchor.ts), the targets and the pool of the     *)
(* seam (s1-s2-seam.ts), the candidate allocations of S2                   *)
(* (s2-candidates.ts) and the components of S3 (s3-decompose.ts).          *)
(*                                                                         *)
(* obs is the input sorted by obs_id; an observation is known by its place *)
(* in it.  Identifiers are numbers, 0 is null, a UTR is known by its       *)
(* normalised form.  Fields a kind does not carry are 0; inr is false of a *)
(* line in another currency, hold true of one on hold.  C7 reads a set the *)
(* run leaves empty.                                                       *)
(***************************************************************************)
EXTENDS Integers, Sequences, FiniteSetsExt, Functions

CONSTANTS
  TMin, TMax,   \* SETTLEMENT_WINDOW
  KMax,         \* SEARCH_BOUND.k_max
  CMax          \* SEARCH_BOUND.c_max

ASSUME BoundsAssumption ==
  /\ TMin \in Nat /\ TMax \in Nat
  /\ KMax \in Nat /\ CMax \in Nat

VARIABLE obs

ObservationKinds == {"recon_line", "bank_line", "ledger_entry", "payment", "order",
                     "refund", "settlement", "adjustment", "dispute"}

\* A row of the recon report that is a payment or a refund enters as a recon_line,
\* one that is an adjustment as an adjustment; no other kind has a row type, and
\* only a bank line a direction.
OfItsKind(o) ==
  /\ o.kind = "recon_line" <=> o.type \in {"payment", "refund"}
  /\ o.kind = "adjustment" <=> o.type = "adjustment"
  /\ o.kind = "bank_line"  <=> o.direction \in {"credit", "debit"}

\* What the schemas let in: amounts are paise and never negative, every
\* observation has an identifier.
Observations ==
  {o \in [kind : ObservationKinds,
          type : {"payment", "refund", "adjustment", "none"},
          entity : Nat \ {0},
          amount : Nat, credit : Nat, debit : Nat, fee : Nat, tax : Nat,
          settlement : Nat, payment : Nat, order : Nat, utr : Nat,
          direction : {"credit", "debit", "none"},
          value_date : Nat, created : Nat, settled : Nat,
          inr : BOOLEAN, hold : BOOLEAN] : OfItsKind(o)}

Kind(i) == obs[i].kind

OfKind(kinds) == {i \in DOMAIN obs : Kind(i) \in kinds}

MemberEligible == OfKind({"recon_line", "adjustment"})
Settlements    == OfKind({"settlement"})
BankLines      == OfKind({"bank_line"})
References     == OfKind({"payment", "order"})

Credit(M) == SumFunction([m \in M |-> obs[m].credit])
Debit(M)  == SumFunction([m \in M |-> obs[m].debit])
Net(M)    == Credit(M) - Debit(M)

-----------------------------------------------------------------------------
(* S1: anchors                                                             *)

\* AN1: the settlement a member names; the last of that id wins.
AnchorOf(m) ==
  LET named == {s \in Settlements : obs[s].entity = obs[m].settlement}
  IN  IF named = {} THEN 0 ELSE Max(named)

AnchoredMembers(s) == {m \in MemberEligible : AnchorOf(m) = s}

SameKey(i, j) == obs[i].utr = obs[j].utr /\ obs[i].amount = obs[j].amount

\* E14: two settlements with one UTR and amount are not matched at all.
Collides(s) == \E other \in Settlements \ {s} : SameKey(s, other)

CreditsFor(s) == {b \in BankLines : obs[b].utr # 0 /\ SameKey(s, b)}

Earlier(b, c) ==
  \/ obs[b].value_date < obs[c].value_date
  \/ obs[b].value_date = obs[c].value_date /\ b < c

\* AN2: the earliest credit that carries the settlement's UTR and amount.
BankLineOf(s) ==
  IF Collides(s) \/ CreditsFor(s) = {} THEN 0
  ELSE CHOOSE b \in CreditsFor(s) : \A c \in CreditsFor(s) \ {b} : Earlier(b, c)

\* The bank line's amount equals the settlements it carries.
HasEvidence(s) ==
  LET b == BankLineOf(s)
  IN  b # 0 /\ SumFunction([t \in {t \in Settlements : BankLineOf(t) = b} |-> obs[t].amount])
                 = obs[b].amount

-----------------------------------------------------------------------------
(* The seam: what S1 resolved, what is left to decide                      *)

AnchorResolved ==
  {s \in Settlements : AnchoredMembers(s) # {} /\ Net(AnchoredMembers(s)) = obs[s].amount}
    \cup {b \in BankLines : \E s \in Settlements : BankLineOf(s) = b}

Targets == (Settlements \cup BankLines) \ AnchorResolved

Pool == {m \in MemberEligible : AnchorOf(m) = 0}

-----------------------------------------------------------------------------
(* S2: candidate allocations of a settlement                               *)

Unknown == -1

\* The order of a payment: its recon line governs over the payment itself, the last
\* of either over the others.
parentOrderId(payment) ==
  LET lines == {i \in MemberEligible : obs[i].type = "payment" /\ obs[i].entity = payment}
      views == {i \in OfKind({"payment"}) : obs[i].entity = payment}
  IN  IF lines \cup views = {} THEN Unknown
      ELSE obs[Max(IF lines # {} THEN lines ELSE views)].order

c1(M) == \A m \in M : obs[m].inr

\* A refund that names no payment, or one nothing is known of, excludes nothing.
c2Refund(M) ==
  \A m \in M : obs[m].type = "refund" /\ obs[m].payment # 0 =>
    parentOrderId(obs[m].payment) \in {Unknown, obs[m].order}

c3Ordering(M) == \A m \in M : obs[m].settled # 0 /\ obs[m].created <= obs[m].settled

c3BankArrival(M, date) ==
  date # 0 => \A m \in M : obs[m].settled # 0 /\ obs[m].settled <= date

c4(M) == \A m \in M : obs[m].settled # 0 /\ obs[m].settled - obs[m].created \in TMin..TMax

c5(M) ==
  \A m \in M : /\ obs[m].type = "payment" => obs[m].credit = obs[m].amount - obs[m].fee
               /\ obs[m].type = "refund"  => obs[m].debit = obs[m].amount

c6(M, t) == Net(M) = obs[t].amount

c8(M) == \A m \in M : obs[m].settled # 0 => ~obs[m].hold

ClauseKeys ==
  {"C1", "C2/refund", "C3/ordering", "C3/bank-arrival", "C4", "C5", "C6", "C8"}

ClauseHolds(clause, M, t, date) ==
  CASE clause = "C1"              -> c1(M)
    [] clause = "C2/refund"       -> c2Refund(M)
    [] clause = "C3/ordering"     -> c3Ordering(M)
    [] clause = "C3/bank-arrival" -> c3BankArrival(M, date)
    [] clause = "C4"              -> c4(M)
    [] clause = "C5"              -> c5(M)
    [] clause = "C6"              -> c6(M, t)
    [] clause = "C8"              -> c8(M)

\* The clauses that fail of the target with these members.
evaluate(M, t, date) == {clause \in ClauseKeys : ~ClauseHolds(clause, M, t, date)}

\* The members of a settlement settle at one instant.
coSettlementCoherent(M, t) ==
  Kind(t) = "settlement" =>
    \A m, n \in M : obs[m].settled # 0 /\ obs[m].settled = obs[n].settled

\* The date of the credit the settlement was matched with.
EngineDate(t) == IF BankLineOf(t) = 0 THEN 0 ELSE obs[BankLineOf(t)].value_date

Admissible(M, t) ==
  c6(M, t) /\ evaluate(M, t, EngineDate(t)) = {} /\ coSettlementCoherent(M, t)

\* The pool in classes of one settlement instant, an anchored member's if any.
Class(t, instant) ==
  LET anchored == AnchoredMembers(t)
      fixed    == IF anchored = {} THEN 0 ELSE obs[Min(anchored)].settled
  IN  {m \in Pool : obs[m].settled = instant /\ instant # 0
                      /\ (fixed # 0 => instant = fixed)}

Instants(t) == {obs[m].settled : m \in Pool}

Searched(t, instant) == Cardinality(Class(t, instant)) <= KMax

\* A class too large is passed over; the enumeration stops at the end of the next
\* one it searches.
Reached(t, instant) ==
  \A i \in Instants(t) :
    i < instant /\ Class(t, i) # {} /\ Searched(t, i) =>
      \A k \in Instants(t) : k < i => Searched(t, k)

\* The place of a subset in the enumeration: classes by instant, then by mask.
Rank(t, instant, K) ==
  LET before == {i \in Instants(t) : i < instant /\ Searched(t, i)}
      bit(m) == 2 ^ Cardinality({n \in Class(t, instant) : n < m})
  IN  SumFunction([i \in before |-> 2 ^ Cardinality(Class(t, i)) - 1])
        + SumFunction([m \in K |-> bit(m)])

Generated(t) ==
  IF Kind(t) = "bank_line" THEN {}
  ELSE { AnchoredMembers(t) \cup K :
           K \in UNION { {K \in (SUBSET Class(t, i)) \ {{}} :
                            /\ Searched(t, i) /\ Reached(t, i)
                            /\ Rank(t, i, K) <= CMax
                            /\ Admissible(AnchoredMembers(t) \cup K, t)} : i \in Instants(t) } }

\* The enumeration stopped at a bound.
Truncated(t) ==
  /\ Kind(t) = "settlement"
  /\ \/ \E i \in Instants(t) : ~Searched(t, i)
     \/ SumFunction([i \in Instants(t) |-> 2 ^ Cardinality(Class(t, i)) - 1]) > CMax

-----------------------------------------------------------------------------
(* S3: components                                                          *)

Reaches(t) == UNION Generated(t) \cap Pool

\* The targets connected to t through members their candidates share.
ComponentOf(t) ==
  LET reached   == {<<u, Reaches(u)>> : u \in Targets}
      closed(T) == \A p, q \in reached : p[1] \in T /\ p[2] \cap q[2] # {} => q[1] \in T
  IN  {u \in Targets : \A T \in SUBSET Targets : t \in T /\ closed(T) => u \in T}

MembersOfComponent(c) == UNION {Reaches(t) : t \in c}

ExceedsKMax(t) == Cardinality(MembersOfComponent(ComponentOf(t))) > KMax
=============================================================================
