------------------------------ MODULE Generate ------------------------------
(***************************************************************************)
(* generateFamily (packages/generator/src/generate.ts): the true state of  *)
(* Simulate is emitted as observations (emit.ts), which the family's       *)
(* operators degrade one after another (degrade.ts); its journal, ground   *)
(* truth and recon report are built from the state itself, and the checks  *)
(* the generator makes of its own work throw.                              *)
(***************************************************************************)
EXTENDS Simulate

CONSTANTS
  Rate,          \* operator -> the share of the eligible rows, <<num, den>>
  F05Selected    \* F05_SELECTED_SETTLEMENT_COUNT

VARIABLES
  rows,          \* the observations
  degradations,  \* the pairs <<operator, what it names>>
  operators      \* the operators still to apply

vars == <<simVars, rows, degradations, operators>>

-----------------------------------------------------------------------------
(* The journal of the truth                                                *)

\* The settlement that carries a member, 0 for none.
CarriedBy(m) == IF \E b \in DOMAIN batches : m \in batches[b].members
                THEN CHOOSE b \in DOMAIN batches : m \in batches[b].members ELSE 0

Line(m, ref, account, dr, cr) == [of |-> m, ref |-> ref, account |-> account, dr |-> dr, cr |-> cr]

PaymentLegs(i) ==
  LET m == <<"payment", i>>
      p == payments[i]
  IN  {Line(m, "P1", "RECEIVABLE", p.amount, 0), Line(m, "P1", "REVENUE", 0, p.amount)} \cup
      (IF CarriedBy(m) = 0 THEN {}
       ELSE {Line(m, "P2", "BANK", Credit(i), 0),
             Line(m, "P2", "FEE", feeExGst(p.amount, p.rate), 0),
             Line(m, "P2", "GST", tax(p.amount, p.rate), 0),
             Line(m, "P2", "RECEIVABLE", 0, p.amount)})

RefundLegs(r) ==
  LET m == <<"refund", r>>
      n == refunds[r].amount
  IN  {Line(m, "P3", "REVENUE", n, 0), Line(m, "P3", "LIABILITY", 0, n)} \cup
      (IF CarriedBy(m) = 0 THEN {}
       ELSE {Line(m, "P4", "LIABILITY", n, 0), Line(m, "P4", "BANK", 0, n)})

truthAdjustmentLegs(a) ==
  LET m == <<"adjustment", a>>
      n == adjustments[a].amount
  IN  IF CarriedBy(m) = 0 THEN {}
      ELSE IF IsDebit(m)
      THEN {Line(m, "P8", "SUSPENSE", n, 0), Line(m, "P8", "BANK", 0, n)}
      ELSE {Line(m, "P8", "BANK", n, 0), Line(m, "P8", "SUSPENSE", 0, n)}

buildTrueJournal ==
  UNION ({PaymentLegs(i) : i \in Captured} \cup {RefundLegs(r) : r \in DOMAIN refunds} \cup
         {truthAdjustmentLegs(a) : a \in DOMAIN adjustments})

trialBalance ==
  MapThenSumSet(LAMBDA l : l.dr - l.cr, buildTrueJournal)

projectTrueBalances(account) ==
  MapThenSumSet(LAMBDA l : l.dr - l.cr, {l \in buildTrueJournal : l.account = account})

-----------------------------------------------------------------------------
(* Emission                                                                *)

\* An observation of `of'; a recon line names its batch by id and by UTR.
Row(kind, of, batch) == [kind |-> kind, of |-> of, id |-> batch, utr |-> batch, copy |-> 0]

RowsOf(kind, ofs) == {Row(kind, of, 0) : of \in ofs}

ReconLines(ms) == {Row("recon_line", m, CarriedBy(m)) : m \in ms}

Indices(kind, n) == {kind} \X (1..n)

\* F05: one payment line of each selected settlement is absent.
Withholdings ==
  IF family # "F05" THEN {{}}
  ELSE UNION {DropsOf(bs, 1) : bs \in kSubset(F05Selected, DOMAIN batches)}

AllRows(withheld) ==
  UNION { RowsOf("order", Indices("payment", P)),
          RowsOf("payment", Indices("payment", P)),
          ReconLines(({"payment"} \X Captured) \ withheld),
          ReconLines(Indices("refund", Len(refunds))),
          RowsOf("refund", Indices("refund", Len(refunds))),
          {Row("adjustment", m, CarriedBy(m)) : m \in Indices("adjustment", Len(adjustments))},
          RowsOf("settlement", Indices("settlement", Len(batches))),
          RowsOf("bank_line", Indices("settlement", Len(batches))),
          RowsOf("ledger_entry", {"payment"} \X Captured),
          RowsOf("dispute", Indices("dispute", Len(disputes))) }

OperatorsOf(f) ==
  CASE f = "F04" -> <<"DUPLICATE_ROW">>
    [] f = "F08" -> <<"DROP_SETTLEMENT_ID", "MANGLE_UTR", "TRUNCATE_NARRATION">>
    [] f = "F10" -> <<"INJECT_NOTES", "CONFLICT_REFERENCE">>
    [] f \in {"A01", "A02", "A03", "A05", "B01"} -> <<"DROP_BATCH_IDENTITY">>
    [] OTHER     -> <<>>

\* A settlement without a payment line cannot be withheld from.
Emit ==
  /\ step = "emit"
  /\ \E withheld \in Withholdings : rows' = AllRows(withheld)
  /\ operators' = OperatorsOf(family)
  /\ step' = "degrade"
  /\ UNCHANGED <<family, payments, refunds, disputes, adjustments, cycleDays, twinPairs, batches,
                 splitBatches, identityDrops, failure, degradations>>

-----------------------------------------------------------------------------
(* Degradation                                                             *)

Eligible(op) ==
  {r \in rows :
     CASE op = "DROP_SETTLEMENT_ID"  -> r.kind = "recon_line"
       [] op \in {"MANGLE_UTR", "DUPLICATE_ROW", "TRUNCATE_NARRATION"} -> r.kind = "bank_line"
       [] op = "INJECT_NOTES"        -> r.kind \in {"order", "payment", "refund"}
       [] op = "CONFLICT_REFERENCE"  -> r.kind = "recon_line" /\ r.id # 0 /\ r.utr # 0
       [] op = "DROP_BATCH_IDENTITY" -> r.kind = "recon_line" /\ r.of \in identityDrops}

CountOf(op) ==
  LET n == roundHalfUp(Rate[op][1] * Cardinality(Eligible(op)), Rate[op][2])
  IN  IF n < Cardinality(Eligible(op)) THEN n ELSE Cardinality(Eligible(op))

\* The rows an operator may pick.  Notes change no row: one pick stands for all.
Picks(op) ==
  CASE op \in {"TRUNCATE_NARRATION", "DROP_BATCH_IDENTITY"} -> {Eligible(op)}
    [] op = "INJECT_NOTES" -> {CHOOSE rs \in kSubset(CountOf(op), Eligible(op)) : TRUE}
    [] OTHER               -> kSubset(CountOf(op), Eligible(op))

\* What stands for a picked row afterwards: the narration, the reference's
\* characters and the notes are not told apart.
DegradedRows(op, r) ==
  CASE op = "DROP_SETTLEMENT_ID"  -> {[r EXCEPT !.id = 0]}
    [] op = "DROP_BATCH_IDENTITY" -> {[r EXCEPT !.id = 0, !.utr = 0]}
    [] op = "DUPLICATE_ROW"       -> {r, [r EXCEPT !.copy = 1]}
    [] op = "CONFLICT_REFERENCE"  -> {[r EXCEPT !.utr = (r.utr % Len(batches)) + 1]}
    [] OTHER                      -> {r}

\* An identity drop that names no recon line throws.
Degrade ==
  /\ step = "degrade" /\ operators # <<>>
  /\ LET op == Head(operators)
     IN  /\ \E picked \in Picks(op) :
              /\ rows' = (rows \ picked) \cup UNION {DegradedRows(op, r) : r \in picked}
              /\ degradations' = degradations \cup {<<op, r.kind, r.of>> : r \in picked}
         /\ failure' = IF op # "DROP_BATCH_IDENTITY"
                          \/ Cardinality(Eligible(op)) = Cardinality(identityDrops)
                       THEN "" ELSE "drop not found"
  /\ step' = IF failure' = "" THEN step ELSE "failed"
  /\ operators' = Tail(operators)
  /\ UNCHANGED <<family, payments, refunds, disputes, adjustments, cycleDays, twinPairs, batches,
                 splitBatches, identityDrops>>

-----------------------------------------------------------------------------
(* The generator's checks of its own work                                  *)

Base == 2 * P + 2 * Captures + 2 * RefundCount + DisputeCount + 2 * DayCount

familyDelta ==
  CASE family = "F04" -> roundHalfUp(Rate["DUPLICATE_ROW"][1] * DayCount, Rate["DUPLICATE_ROW"][2])
    [] family = "F05" -> - F05Selected
    [] family = "F07" -> 2 * DisputeCount
    [] family \in TwinFamilies -> 2
    [] OTHER -> 0

\* The recon report: one row a carried or uncarried member, and no member twice.
ReconReport ==
  {[of |-> m, settlement |-> CarriedBy(m)] :
     m \in ({"payment"} \X Captured) \cup Indices("refund", Len(refunds))
           \cup Indices("adjustment", Len(adjustments))}

SelfCheck ==
  CASE trialBalance # 0                       -> "I1"
    [] Cardinality(rows) # Base + familyDelta -> "record count"
    [] \E b \in DOMAIN batches : batches[b].amount # NetOf(batches[b].members) -> "I4"
    [] OTHER                                  -> ""

Publish ==
  /\ step = "degrade" /\ operators = <<>>
  /\ failure' = SelfCheck
  /\ step' = IF failure' = "" THEN "generated" ELSE "failed"
  /\ UNCHANGED <<family, payments, refunds, disputes, adjustments, cycleDays, twinPairs, batches,
                 splitBatches, identityDrops, rows, degradations, operators>>

Ended == step \in {"generated", "failed"} /\ UNCHANGED vars

-----------------------------------------------------------------------------
GenInit == Init /\ rows = {} /\ degradations = {} /\ operators = <<>>

Next ==
  \/ SimNext /\ UNCHANGED <<rows, degradations, operators>>
  \/ Emit \/ Degrade \/ Publish \/ Ended

Spec == GenInit /\ [][Next]_vars

-----------------------------------------------------------------------------
(* Properties                                                              *)

\* The members that settle on a day, whatever batch came to carry them.
DayOfMember(m) ==
  CASE m[1] = "payment"    -> payments[m[2]].day
    [] m[1] = "refund"     -> refunds[m[2]].day
    [] m[1] = "adjustment" -> adjustments[m[2]].day

SettlesOn(m) ==
  CASE m[1] = "payment"    -> IF payments[m[2]].settles THEN payments[m[2]].day ELSE 0
    [] m[1] = "refund"     -> refunds[m[2]].settles
    [] m[1] = "adjustment" -> adjustments[m[2]].settles

\* A member is in one settlement, of the day it settles on, within C4's window;
\* a debit no batch could carry settles nowhere (simulate.ts 757-769, 1150-1158).
CarriedOnce ==
  \A row \in ReconReport :
    LET m == row.of
    IN  /\ Cardinality({b \in DOMAIN batches : m \in batches[b].members}) <= 1
        /\ (row.settlement = 0) = (SettlesOn(m) = 0)
        /\ row.settlement # 0 =>
             /\ batches[row.settlement].day = SettlesOn(m)
             /\ batches[row.settlement].at - DayOfMember(m) \in 1..7

\* What the journal of the truth holds of cash, of uncollected captures and of
\* refunds owed is what the batches carried and what they left.
BooksAreTheBatches ==
  /\ projectTrueBalances("BANK") = MapThenSumSet(LAMBDA b : batches[b].amount, DOMAIN batches)
  /\ projectTrueBalances("RECEIVABLE") =
       MapThenSumSet(LAMBDA i : payments[i].amount, {i \in Captured : CarriedBy(<<"payment", i>>) = 0})
  /\ - projectTrueBalances("LIABILITY") =
       MapThenSumSet(LAMBDA r : refunds[r].amount,
                     {r \in DOMAIN refunds : CarriedBy(<<"refund", r>>) = 0})

\* The twins of a split day are in its two halves, at one instant, and in A01 to
\* A03 the half of each gains one credit from its own.
TwinsTie ==
  \A s \in DOMAIN splitBatches :
    LET pair == splitBatches[s].pair
        of(i) == CarriedBy(<<"payment", i>>)
    IN  /\ {of(pair.a), of(pair.b)} = {splitBatches[s].first, splitBatches[s].second}
        /\ batches[of(pair.a)].at = batches[of(pair.b)].at
        /\ pair.construction # "B01" =>
             Credit(pair.a) = Credit(pair.b) -
               (IF pair.refund = 0 THEN 0 ELSE refunds[pair.refund].amount)
        /\ pair.refund # 0 => CarriedBy(<<"refund", pair.refund>>) = of(pair.b)

\* A win's credit settles strictly after the deduction it returns.
ReversalsAreLater ==
  \A a \in DOMAIN adjustments :
    LET credit == CarriedBy(<<"adjustment", a>>)
        debit  == CarriedBy(<<"adjustment", a - 1>>)
    IN  (adjustments[a].direction = "credit" /\ credit # 0 /\ debit # 0) =>
          batches[credit].at > batches[debit].at

\* The dataset the generator publishes describes one state of the world, whatever
\* was drawn, deferred and split: every batch closes at a net its members add up to
\* and a bank can pay; each member is in the batch of its day or in none; the
\* books are the batches'; a win follows its deduction; what a payment says was
\* refunded and disputed is what its refunds and dispute say; and the generator's
\* own checks never refuse a state for anything but days the draws did not offer.
TruthReconciles ==
  /\ failure \in {"", "needs days"}
  /\ step = "emit" =>
       /\ \A b \in DOMAIN batches :
            batches[b].amount = NetOf(batches[b].members) /\ batches[b].amount >= 0
       /\ CarriedOnce
       /\ BooksAreTheBatches
       /\ TwinsTie
       /\ ReversalsAreLater
       /\ \A i \in 1..P : payments[i].refunded = RefundedOf(i, refunds)
                          /\ payments[i].refunded <= payments[i].amount
       /\ \A d \in DOMAIN disputes : disputes[d].amount = payments[disputes[d].payment].amount

-----------------------------------------------------------------------------
(* What the code says of itself and does not keep                          *)

\* simulate.ts:532 quotes 4.1 F07: "a debit adjustment line in one settlement and
\* a subsequent win as a credit adjustment line in a later cycle".
ReversalFollowsDeduction ==
  step = "generated" =>
    \A a \in DOMAIN adjustments :
      (adjustments[a].direction = "credit" /\ CarriedBy(<<"adjustment", a>>) # 0) =>
        CarriedBy(<<"adjustment", a - 1>>) # 0

=============================================================================
