------------------------------- MODULE Money -------------------------------
(***************************************************************************)
(* Integer paise (packages/money): the checked operations, half-up         *)
(* rounding, the even split and the largest-remainder allocation.          *)
(*                                                                         *)
(* An operation whose operand or result leaves the safe-integer range      *)
(* throws; Throws stands for the thrown RangeError.  A quotient is a       *)
(* double division floored, which may miss by one for large operands: the  *)
(* code repairs it, and the model lets it miss (Quotients).                *)
(***************************************************************************)
EXTENDS Integers, Sequences, FiniteSets, FiniteSetsExt, SequencesExt, Functions

CONSTANTS
  MAX_PAISE,   \* Number.MAX_SAFE_INTEGER; small in an instance
  Throws       \* what stands for a thrown RangeError

ASSUME MoneyAssumption == MAX_PAISE \in Nat \ {0}

isPaise(v) == v \in (0 - MAX_PAISE)..MAX_PAISE

paise(v) == IF isPaise(v) THEN v ELSE Throws

add(a, b) == paise(a + b)
sub(a, b) == paise(a - b)
Magnitude(a) == IF a < 0 THEN 0 - a ELSE a

\* sum: every partial sum must be safe.
Prefix(values, k) == SumFunctionOnSet(values, 1..k)
sum(values) ==
  IF \A k \in 0..Len(values) : isPaise(Prefix(values, k))
  THEN Prefix(values, Len(values)) ELSE Throws

-----------------------------------------------------------------------------
(* floorDivMod                                                             *)

\* Math.floor(n / d) in double arithmetic: exact, or off by one.
Quotients(n, d) == {(n \div d) - 1, n \div d, (n \div d) + 1}

\* Fault: a quotient that is one too small is not repaired.
RepairLowOnly(n, d, q) == IF n - q * d < 0 THEN [q |-> q - 1, r |-> n - q * d + d]
                                           ELSE [q |-> q, r |-> n - q * d]

Repair(n, d, q) ==
  LET r == n - q * d
  IN  IF r < 0 THEN [q |-> q - 1, r |-> r + d]
      ELSE IF r >= d THEN [q |-> q + 1, r |-> r - d]
      ELSE [q |-> q, r |-> r]

floorDivMod(n, d) == Repair(n, d, n \div d)

\* roundHalfUp: ties go up; a negative numerator is out of its domain.
roundHalfUp(n, d) ==
  IF ~isPaise(n) \/ ~isPaise(d) \/ d <= 0 \/ n < 0 THEN Throws
  ELSE LET f == floorDivMod(n, d)
       IN  paise(IF f.r >= d - f.r THEN f.q + 1 ELSE f.q)

-----------------------------------------------------------------------------
(* split and allocate                                                      *)

Signed(total, v) == IF total < 0 THEN 0 - v ELSE v

\* The first r parts carry the remainder.
split(total, parts) ==
  IF ~isPaise(total) \/ parts <= 0 THEN Throws
  ELSE LET f == floorDivMod(Magnitude(total), parts)
       IN  [i \in 1..parts |-> Signed(total, IF i <= f.r THEN f.q + 1 ELSE f.q)]

Refused(total, weights) ==
  \/ ~isPaise(total) \/ weights = <<>>
  \/ \E i \in DOMAIN weights : weights[i] < 0
  \/ \E k \in DOMAIN weights : ~isPaise(Prefix(weights, k))
  \/ Prefix(weights, Len(weights)) = 0
  \/ \E i \in DOMAIN weights : Magnitude(total) * weights[i] > MAX_PAISE

\* Largest remainder first, the earlier index on a tie.
Before(entries, i, j) ==
  \/ entries[i].r > entries[j].r
  \/ entries[i].r = entries[j].r /\ i < j

\* Fault: ties go to the later index, and to equals of the last one served.
ServedInclusive(entries, i, leftover) ==
  Cardinality({j \in DOMAIN entries : Before(entries, j, i)}) <= leftover

\* i is one of the first leftover entries of that order.
Served(entries, i, leftover) ==
  Cardinality({j \in DOMAIN entries : Before(entries, j, i)}) < leftover

Entries(total, weights) ==
  LET all == Prefix(weights, Len(weights))
  IN  [i \in DOMAIN weights |-> floorDivMod(Magnitude(total) * weights[i], all)]

allocate(total, weights) ==
  IF Refused(total, weights) THEN Throws
  ELSE LET entries == Entries(total, weights)
           leftover == Magnitude(total) - SumFunction([i \in DOMAIN weights |-> entries[i].q])
       IN  [i \in DOMAIN weights |->
              Signed(total, IF Served(entries, i, leftover) THEN entries[i].q + 1 ELSE entries[i].q)]

-----------------------------------------------------------------------------
(* Properties of the results                                               *)

Total(shares) == SumFunction(shares)

\* "Repair" undoes a quotient off by one either way, and what a rounding
\* returns is the nearest integer, the upper one of two (round.ts:29-105).
RoundsExactly(n, d) ==
  /\ \A q \in Quotients(n, d) : Repair(n, d, q) = [q |-> n \div d, r |-> n % d]
  /\ roundHalfUp(n, d) # Throws =>
       LET v == roundHalfUp(n, d) IN 2 * n < (2 * v + 1) * d /\ (2 * v - 1) * d <= 2 * n

\* No paisa is lost or made: the parts of a split add up and differ by one at
\* most, in order; an allocation adds up, gives nothing to a zero weight, is
\* within one of the exact share, and never gives a smaller weight more, or an
\* equal later one (ops.ts:70-190).
SharesAddUp(total, weights) ==
  /\ allocate(total, weights) # Throws =>
       LET shares == allocate(total, weights)
           all == Total(weights)
       IN  /\ Total(shares) = total
           /\ \A i \in DOMAIN weights :
                /\ weights[i] = 0 => shares[i] = 0
                /\ Magnitude(shares[i] * all - total * weights[i]) < all
                /\ \A j \in DOMAIN weights :
                     weights[i] > weights[j] \/ (weights[i] = weights[j] /\ i < j) =>
                       Magnitude(shares[i]) >= Magnitude(shares[j])
  /\ weights # <<>> /\ split(total, Len(weights)) # Throws =>
       LET parts == split(total, Len(weights))
       IN  /\ Total(parts) = total
           /\ \A i, j \in DOMAIN parts :
                i < j => Magnitude(parts[i]) - Magnitude(parts[j]) \in {0, 1}

=============================================================================
