------------------------------ MODULE Simulate ------------------------------
(***************************************************************************)
(* The generator's true state (packages/generator/src/simulate.ts): one    *)
(* family instance, drawn payment by payment, batched day by day, its twin *)
(* days split, and the journal the truth keeps of it (truth-journal.ts).   *)
(*                                                                         *)
(* Clocks are days: nothing happens at two instants of one day except the  *)
(* batch, which closes after every event of its day.  0 stands for null,   *)
(* in a day and in a dispute.  A settlement is its position; its id and    *)
(* its UTR are minted with it and never change.  Every draw of a stream is *)
(* a choice.  Payments are interchangeable before their draws, so the      *)
(* captured ones are the first ones and are dealt to the days in order.    *)
(***************************************************************************)
EXTENDS Integers, Sequences, FiniteSets, FiniteSetsExt, SequencesExt, Functions

CONSTANTS
  Families,       \* the families instantiated
  Captures,       \* N, the captured payments
  Uncaptured,     \* A, the authorised ones
  DayCount,       \* DAY_COUNT
  RefundCount,    \* R
  PartialRefunds, \* PARTIAL_REFUND_COUNT
  DisputeCount,   \* D
  Draws,          \* the <<amount, method>> a payment may draw
  Delays,         \* days from a payment to its refund or dispute
  Late,           \* T_PLUS_3_BATCHES
  Early,          \* T_PLUS_1_BATCHES
  LateWindow,     \* F09_LATE_WINDOW_DAYS
  RateChangeDay,  \* the day of F03_RATE_CHANGE_AT
  MinCredit,      \* AMB1_MIN_CREDIT_PAISE
  MinRefund,      \* AMB2_MIN_REFUND_PAISE
  SubTau,         \* AMB3_DELTA_RANGE_PAISE
  Amb5Days, Amb5Drop,                   \* AMB5_DAY_COUNT, AMB5_DROP_COUNT
  Ben1Days, Ben1Drop, Ben2Days, Ben2Drop, Ben3Gap

ASSUME SimulateAssumption ==
  /\ Captures % DayCount = 0
  /\ Late + Early <= DayCount /\ LateWindow <= Late

VARIABLES
  family, step,
  payments, refunds, disputes, adjustments,
  cycleDays,      \* day -> days to its settlement
  twinPairs,      \* the pairs whose day is to be split
  batches,        \* the settlements, in order
  splitBatches,
  identityDrops,  \* the members whose recon line loses its batch
  failure         \* what stopped the generator, "" if nothing has

simVars == <<family, step, payments, refunds, disputes, adjustments, cycleDays, twinPairs,
             batches, splitBatches, identityDrops, failure>>

P == Captures + Uncaptured

Days == 1..DayCount

Captured == 1..Captures

-----------------------------------------------------------------------------
(* Money                                                                   *)

roundHalfUp(n, d) == (2 * n + d) \div (2 * d)

FeeRateBps(method) == IF method = "emi" THEN 300 ELSE 200

feeExGst(amount, rate) == roundHalfUp(amount * rate, 10000)

tax(amount, rate) == roundHalfUp(feeExGst(amount, rate) * 1800, 10000)

creditOf(amount, rate) == amount - feeExGst(amount, rate) - tax(amount, rate)

\* The least gross that nets the credit: the search starts below the estimate.
amountForCredit(credit, rate) ==
  Min({a \in credit..(credit + credit \div 10 + 10) : creditOf(a, rate) = credit})

Credit(i) == creditOf(payments[i].amount, payments[i].rate)

rateBpsFor(method, cardRate) == IF method = "card" THEN cardRate ELSE FeeRateBps(method)

cardRateOn(day) == IF family = "F03" /\ day >= RateChangeDay THEN 195 ELSE 200

-----------------------------------------------------------------------------
(* Clocks                                                                  *)

AtMostLast(day) == IF day > DayCount THEN DayCount ELSE day

DealtDay(i) == IF i <= Captures THEN (i - 1) \div (Captures \div DayCount) + 1 ELSE 1

SettledAt(day) == day + cycleDays[day]

CycleMixes ==
  LET forced == IF family = "F09" THEN (DayCount - LateWindow + 1)..DayCount ELSE {}
  IN  { c \in [Days -> 1..3] :
          /\ \A d \in forced : c[d] = 3
          /\ Cardinality({d \in Days : c[d] = 3}) = Late
          /\ Cardinality({d \in Days : c[d] = 1}) = Early }

\* The first later day whose batch settles strictly after the deduction's.
ReversalDay(day) ==
  LET later == {d \in (day + 1)..DayCount : SettledAt(d) > SettledAt(day)}
  IN  IF later = {} THEN 0 ELSE Min(later)

-----------------------------------------------------------------------------
(* The draws                                                               *)

NewPayment(i, draw) ==
  [amount |-> draw[1], method |-> draw[2], day |-> DealtDay(i), captured |-> i <= Captures,
   rate |-> rateBpsFor(draw[2], cardRateOn(DealtDay(i))),
   refunded |-> 0, dispute |-> 0, settles |-> i <= Captures]

Init ==
  /\ family \in Families
  /\ step = "draw"
  /\ cycleDays \in CycleMixes
  /\ payments = <<>> /\ refunds = <<>> /\ disputes = <<>> /\ adjustments = <<>>
  /\ twinPairs = <<>> /\ batches = <<>> /\ splitBatches = <<>> /\ identityDrops = {}
  /\ failure = ""

\* An uncaptured payment moves no money: its draw is the first one.
DrawPayments ==
  /\ step = "draw"
  /\ \E drawn \in [Captured -> Draws] :
       payments' = [i \in 1..P |-> NewPayment(i, IF i <= Captures THEN drawn[i]
                                                 ELSE CHOOSE d \in Draws : TRUE)]
  /\ step' = IF family = "F06" THEN "collide" ELSE "refund"
  /\ UNCHANGED <<family, refunds, disputes, adjustments, cycleDays, twinPairs, batches,
                 splitBatches, identityDrops, failure>>

\* F06: two captures of a day share an amount and a method, and one of them is
\* allocated to no settlement.
Collide ==
  /\ step = "collide"
  /\ \E i, j \in Captured, draw \in Draws :
       /\ i # j /\ payments[i].day = payments[j].day
       /\ payments' = [payments EXCEPT
            ![i] = [NewPayment(i, draw) EXCEPT !.settles = FALSE],
            ![j] = NewPayment(j, draw)]
  /\ step' = "refund"
  /\ UNCHANGED <<family, refunds, disputes, adjustments, cycleDays, twinPairs, batches,
                 splitBatches, identityDrops, failure>>

\* The partial refund of an amount; which part is not told apart.
PartOf(amount) == amount \div 2

RefundOf(i, partial, delay) ==
  LET day     == AtMostLast(payments[i].day + delay)
      shifted == IF family = "F02" THEN day + 2 ELSE day
  IN  [payment |-> i, day |-> day,
       amount |-> IF partial THEN PartOf(payments[i].amount) ELSE payments[i].amount,
       settles |-> IF shifted <= DayCount THEN shifted ELSE 0]

RefundedOf(i, rs) == MapThenSumSet(LAMBDA r : rs[r].amount,
                                                 {r \in DOMAIN rs : rs[r].payment = i})

DrawRefunds ==
  /\ step = "refund"
  /\ \E refunded \in kSubset(RefundCount, Captured), parts \in kSubset(PartialRefunds, 1..RefundCount),
        delay \in [1..RefundCount -> Delays] :
       LET order == SetToSortSeq(refunded, LAMBDA x, y : x < y)
           drawn == [r \in 1..RefundCount |-> RefundOf(order[r], r \in parts, delay[r])]
       IN  /\ refunds' = drawn
           /\ payments' = [i \in 1..P |->
                             [payments[i] EXCEPT !.refunded = RefundedOf(i, drawn)]]
  /\ step' = "dispute"
  /\ UNCHANGED <<family, disputes, adjustments, cycleDays, twinPairs, batches, splitBatches,
                 identityDrops, failure>>

-----------------------------------------------------------------------------
(* Disputes and, in F07, the chargeback and the win that follow            *)

Deduction(d, n) == [dispute |-> n, amount |-> d.amount, direction |-> "debit",
                    day |-> d.day, settles |-> d.day]

\* Past the last day the reversal keeps a clock of its own and settles nowhere.
Reversal(d, n) ==
  LET day == ReversalDay(d.day)
  IN  [dispute |-> n, amount |-> d.amount, direction |-> "credit",
       day |-> IF day = 0 THEN DayCount + 1 ELSE day, settles |-> day]

DrawDisputes ==
  /\ step = "dispute"
  /\ \E disputed \in kSubset(DisputeCount, Captured), delay \in [1..DisputeCount -> Delays] :
       LET order == SetToSortSeq(disputed, LAMBDA x, y : x < y)
           drawn == [n \in 1..DisputeCount |->
                       [payment |-> order[n], amount |-> payments[order[n]].amount,
                        day |-> AtMostLast(payments[order[n]].day + delay[n])]]
       IN  /\ disputes' = drawn
           /\ payments' = [i \in 1..P |->
                IF i \in disputed
                THEN [payments[i] EXCEPT !.dispute = CHOOSE n \in DOMAIN order : order[n] = i]
                ELSE payments[i]]
           /\ adjustments' =
                IF family # "F07" THEN <<>>
                ELSE FoldLeft(LAMBDA acc, n : acc \o <<Deduction(drawn[n], n), Reversal(drawn[n], n)>>,
                              <<>>, [n \in 1..DisputeCount |-> n])
  /\ step' = "twins"
  /\ UNCHANGED <<family, refunds, cycleDays, twinPairs, batches, splitBatches, identityDrops,
                 failure>>

-----------------------------------------------------------------------------
(* The twins, one pair an instance                                         *)

TwinFamilies == {"A01", "A02", "A03", "B01"}

twinEligible(day) ==
  {i \in Captured :
     /\ payments[i].settles /\ payments[i].day = day
     /\ \A r \in DOMAIN refunds : refunds[r].payment # i
     /\ payments[i].dispute = 0}

\* The pairs a day offers: in B01 those whose credits are apart.
PairsOn(day) ==
  { <<a, b>> \in twinEligible(day) \X twinEligible(day) :
      /\ a # b
      /\ family = "B01" => (Credit(a) - Credit(b) >= Ben3Gap \/ Credit(b) - Credit(a) >= Ben3Gap) }

Amounts == {d[1] : d \in Draws}

\* The gross of twin A, at 200 bps.
TwinAmounts ==
  CASE family = "A01" -> {g \in Amounts : creditOf(g, 200) >= MinCredit}
    [] family = "A03" -> {g \in Amounts : amountForCredit(creditOf(g, 200), 300) - g \in SubTau}
    [] OTHER          -> Amounts

Rewritten(i, amount, method) ==
  [payments[i] EXCEPT !.amount = amount, !.method = method, !.rate = FeeRateBps(method)]

NewPair(day, a, b, refund) ==
  [construction |-> family, day |-> day, a |-> a, b |-> b, refund |-> refund]

\* A01 and A03: one credit at two rates.
RateTwins ==
  /\ step = "twins" /\ family \in {"A01", "A03"}
  /\ \E day \in Days : \E pair \in PairsOn(day), amount \in TwinAmounts :
       LET a == pair[1]
           b == pair[2]
       IN  /\ payments' = [payments EXCEPT
                ![a] = Rewritten(a, amount, "upi"),
                ![b] = Rewritten(b, amountForCredit(creditOf(amount, 200), 300), "emi")]
           /\ twinPairs' = <<NewPair(day, a, b, 0)>>
  /\ step' = "batch"
  /\ UNCHANGED <<family, refunds, disputes, adjustments, cycleDays, batches, splitBatches,
                 identityDrops, failure>>

\* A02: an existing refund is moved to the second twin, whose credit exceeds the
\* first one's by it; the payment it was of loses it.
RefundTwins ==
  /\ step = "twins" /\ family = "A02"
  /\ \E day \in Days : \E pair \in PairsOn(day), amount \in TwinAmounts, r \in DOMAIN refunds :
       LET p      == pair[1]
           p2     == pair[2]
           five   == roundHalfUp(creditOf(amount, 200) * 500, 10000)
           refund == IF five > MinRefund THEN five ELSE MinRefund
           former == refunds[r].payment
       IN  /\ payments' = [payments EXCEPT
                ![p]  = Rewritten(p, amount, "upi"),
                ![p2] = [Rewritten(p2, amountForCredit(creditOf(amount, 200) + refund, 200), "upi")
                           EXCEPT !.refunded = @ + refund],
                ![former] = [@ EXCEPT !.refunded = @ - refunds[r].amount]]
           /\ refunds' = [refunds EXCEPT ![r] =
                [payment |-> p2, day |-> day, amount |-> refund, settles |-> day]]
           /\ twinPairs' = <<NewPair(day, p, p2, r)>>
  /\ step' = "batch"
  /\ UNCHANGED <<family, disputes, adjustments, cycleDays, batches, splitBatches,
                 identityDrops, failure>>

\* BEN-3: the split alone.
SplitTwins ==
  /\ step = "twins" /\ family = "B01"
  /\ \E day \in Days : \E pair \in PairsOn(day) :
       twinPairs' = <<NewPair(day, pair[1], pair[2], 0)>>
  /\ step' = "batch"
  /\ UNCHANGED <<family, payments, refunds, disputes, adjustments, cycleDays, batches,
                 splitBatches, identityDrops, failure>>

NoTwins ==
  /\ step = "twins" /\ family \notin TwinFamilies
  /\ step' = "batch"
  /\ UNCHANGED <<family, payments, refunds, disputes, adjustments, cycleDays, twinPairs, batches,
                 splitBatches, identityDrops, failure>>

NoTwinDay ==
  /\ step = "twins" /\ family \in TwinFamilies
  /\ \A day \in Days : PairsOn(day) = {}
  /\ failure' = "needs days" /\ step' = "failed"
  /\ UNCHANGED <<family, payments, refunds, disputes, adjustments, cycleDays, twinPairs, batches,
                 splitBatches, identityDrops>>

-----------------------------------------------------------------------------
(* The day batches                                                         *)

AmountOf(m) ==
  CASE m[1] = "payment"    -> Credit(m[2])
    [] m[1] = "refund"     -> refunds[m[2]].amount
    [] m[1] = "adjustment" -> adjustments[m[2]].amount

IsDebit(m) == m[1] = "refund" \/ (m[1] = "adjustment" /\ adjustments[m[2]].direction = "debit")

SettlingOn(day) ==
  ({"payment"}    \X {i \in Captured : payments[i].settles /\ payments[i].day = day}) \cup
  ({"refund"}     \X {r \in DOMAIN refunds : refunds[r].settles = day}) \cup
  ({"adjustment"} \X {a \in DOMAIN adjustments : adjustments[a].settles = day})

CreditsOf(ms) == {m \in ms : ~IsDebit(m)}

DebitsOf(ms)  == {m \in ms : IsDebit(m)}

TotalOf(ms) == MapThenSumSet(AmountOf, ms)

NetOf(ms) == TotalOf(CreditsOf(ms)) - TotalOf(DebitsOf(ms))

\* Ascending amount, then index, a refund before an adjustment.
Before(x, y) ==
  \/ AmountOf(x) < AmountOf(y)
  \/ /\ AmountOf(x) = AmountOf(y)
     /\ x[2] < y[2] \/ (x[2] = y[2] /\ x[1] = "refund" /\ y[1] = "adjustment")

\* The debits the batch can carry: in that order, while the net stays non-negative.
Admitted(ms) ==
  {x \in DebitsOf(ms) :
     TotalOf({y \in DebitsOf(ms) : y = x \/ Before(y, x)}) <= TotalOf(CreditsOf(ms))}

\* Fault: a refund no batch could carry keeps its settlement day.
RefundsStillSettling(ms) == refunds

\* A debit no batch could carry settles nowhere.
RefundsWithout(ms) ==
  [r \in DOMAIN refunds |->
     IF <<"refund", r>> \in ms THEN [refunds[r] EXCEPT !.settles = 0] ELSE refunds[r]]

AdjustmentsWithout(ms) ==
  [a \in DOMAIN adjustments |->
     IF <<"adjustment", a>> \in ms THEN [adjustments[a] EXCEPT !.settles = 0] ELSE adjustments[a]]

NewBatch(day, ms) ==
  [day |-> day, at |-> SettledAt(day), amount |-> NetOf(ms), members |-> ms]

DayBatch ==
  /\ step = "batch" /\ Len(batches) < DayCount
  /\ LET day     == Len(batches) + 1
         ms      == SettlingOn(day)
         carried == CreditsOf(ms) \cup Admitted(ms)
     IN  /\ batches' = Append(batches, NewBatch(day, carried))
         /\ refunds' = RefundsWithout(ms \ carried)
         /\ adjustments' = AdjustmentsWithout(ms \ carried)
  /\ step' = IF Len(batches) + 1 = DayCount THEN "split" ELSE "batch"
  /\ UNCHANGED <<family, payments, disputes, cycleDays, twinPairs, splitBatches, identityDrops,
                 failure>>

-----------------------------------------------------------------------------
(* The split of a twin day                                                 *)

\* One debit dealt: to the half its coin prefers, to the other, or to none.
DealDebit(halves, m, prefers) ==
  LET other == 1 - prefers
  IN  CASE NetOf(halves[prefers]) >= AmountOf(m) -> [halves EXCEPT ![prefers] = @ \cup {m}]
        [] NetOf(halves[prefers]) < AmountOf(m) /\ NetOf(halves[other]) >= AmountOf(m) ->
             [halves EXCEPT ![other] = @ \cup {m}]
        [] OTHER -> halves

\* The day's members over the two halves, by one coin each.  The twin that stays
\* is in half 0 and the one that moves in half 1; A02's refund goes with twin b.
HalvesOf(ms, pair, stay, move, coin) ==
  LET forced  == IF pair.refund = 0 THEN {} ELSE {<<"refund", pair.refund>>} \cap ms
      halfOf(m) == CASE m = <<"payment", stay>> -> 0
                     [] m = <<"payment", move>> -> 1
                     [] m \in forced            -> IF move = pair.b THEN 1 ELSE 0
                     [] OTHER                   -> coin[m]
      dealt   == CreditsOf(ms) \cup forced
      start   == [h \in {0, 1} |-> {m \in dealt : halfOf(m) = h}]
      debits  == SetToSortSeq(DebitsOf(ms) \ forced, Before)
  IN  FoldLeft(LAMBDA halves, m : DealDebit(halves, m, coin[m]), start, debits)

Split ==
  /\ step = "split" /\ twinPairs # <<>>
  /\ LET pair == Head(twinPairs)
         ms   == batches[pair.day].members
     IN  \E stay \in {pair.a, pair.b},
            coin \in [ms \ {<<"payment", pair.a>>, <<"payment", pair.b>>} -> {0, 1}] :
           LET move   == IF stay = pair.a THEN pair.b ELSE pair.a
               halves == HalvesOf(ms, pair, stay, move, coin)
               left   == ms \ (halves[0] \cup halves[1])
           IN  /\ batches' = Append([batches EXCEPT ![pair.day] = NewBatch(pair.day, halves[0])],
                                    NewBatch(pair.day, halves[1]))
               /\ refunds' = RefundsWithout(left)
               /\ adjustments' = AdjustmentsWithout(left)
               /\ splitBatches' = Append(splitBatches,
                    [first |-> pair.day, second |-> Len(batches) + 1, pair |-> pair])
               /\ identityDrops' = identityDrops \cup
                    {<<"payment", pair.a>>, <<"payment", pair.b>>} \cup
                    (IF pair.refund = 0 THEN {} ELSE {<<"refund", pair.refund>>})
  /\ twinPairs' = Tail(twinPairs)
  /\ UNCHANGED <<family, step, payments, disputes, cycleDays, failure>>

-----------------------------------------------------------------------------
(* The batches that lose lines without a split                             *)

LinesOf(b) == {m \in batches[b].members : m[1] = "payment"}

\* One choice of `n' lines of every batch of `bs'.
DropsOf(bs, n) == {d \in SUBSET UNION {LinesOf(b) : b \in bs} :
                     \A b \in bs : Cardinality(d \cap LinesOf(b)) = n}

\* AMB-5: batches of enough lines, at pairwise distinct instants.
Amb5Choices ==
  LET holding == {b \in DOMAIN batches : Cardinality(LinesOf(b)) >= Amb5Drop}
  IN  {bs \in kSubset(Amb5Days, holding) : IsInjective([b \in bs |-> batches[b].at])}

\* BEN-1 and BEN-2: ordinary batches, on other days and at other instants than
\* the split ones.
Ordinary ==
  {b \in DOMAIN batches :
     /\ Cardinality(LinesOf(b)) >= Ben2Drop
     /\ \A s \in DOMAIN splitBatches :
          /\ batches[b].day # splitBatches[s].pair.day
          /\ batches[b].at # batches[splitBatches[s].first].at}

Settled == step = "split" /\ twinPairs = <<>>

DropFromBatches ==
  /\ Settled /\ family = "A05"
  /\ \E bs \in Amb5Choices : \E ds \in DropsOf(bs, Amb5Drop) : identityDrops' = identityDrops \cup ds
  /\ step' = "emit"
  /\ UNCHANGED <<family, payments, refunds, disputes, adjustments, cycleDays, twinPairs, batches,
                 splitBatches, failure>>

DropFromOrdinary ==
  /\ Settled /\ family = "B01"
  /\ \E one \in kSubset(Ben1Days, Ordinary) : \E two \in kSubset(Ben2Days, Ordinary \ one) :
       \E ds \in DropsOf(one, Ben1Drop), es \in DropsOf(two, Ben2Drop) :
         identityDrops' = identityDrops \cup ds \cup es
  /\ step' = "emit"
  /\ UNCHANGED <<family, payments, refunds, disputes, adjustments, cycleDays, twinPairs, batches,
                 splitBatches, failure>>

TooFewBatches ==
  /\ Settled
  /\ \/ family = "A05" /\ Amb5Choices = {}
     \/ family = "B01" /\ Cardinality(Ordinary) < Ben1Days + Ben2Days
  /\ failure' = "needs days" /\ step' = "failed"
  /\ UNCHANGED <<family, payments, refunds, disputes, adjustments, cycleDays, twinPairs, batches,
                 splitBatches, identityDrops>>

NoDrops ==
  /\ Settled /\ family \notin {"A05", "B01"}
  /\ step' = "emit"
  /\ UNCHANGED <<family, payments, refunds, disputes, adjustments, cycleDays, twinPairs, batches,
                 splitBatches, identityDrops, failure>>

SimNext ==
  \/ DrawPayments \/ Collide \/ DrawRefunds \/ DrawDisputes
  \/ RateTwins \/ RefundTwins \/ SplitTwins \/ NoTwins \/ NoTwinDay
  \/ DayBatch \/ Split
  \/ DropFromBatches \/ DropFromOrdinary \/ TooFewBatches \/ NoDrops

=============================================================================
