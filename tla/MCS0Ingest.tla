----------------------------- MODULE MCS0Ingest -----------------------------
(* Small instance of S0Ingest: every batch of up to four records drawn from *)
(* a payment in two versions, refunds of it that fit, exhaust and predate   *)
(* it, recon rows that hold and break the fee and GST identities, one whose *)
(* fee leaves the safe integers, and records refused by schema or window.   *)
(* The arithmetic under it is checked on every small total and weights, and *)
(* on totals whose products are about to leave the safe range.              *)
EXTENDS S0Ingest

CONSTANTS
  Totals, Weights, Divisors   \* what the arithmetic is evaluated on

ASSUME ArithmeticAssumption ==
  Totals \subseteq Int /\ Weights \subseteq Seq(Int) /\ Divisors \subseteq Nat \ {0}

Payment(amount) ==
  [source |-> "pg_payments", type |-> "none", well_formed |-> TRUE, texts |-> {"notes"},
   id |-> "pay1", amount |-> amount, amount_refunded |-> 0, captured |-> TRUE,
   status |-> "captured", at |-> 3]

Refund(amount, at) ==
  [source |-> "pg_refunds", type |-> "none", well_formed |-> TRUE, texts |-> {},
   id |-> "rfnd1", payment_id |-> "pay1", amount |-> amount, at |-> at]

ReconRow(type, amount, fee, tax, debit, credit) ==
  [source |-> "pg_recon", type |-> type, well_formed |-> TRUE, texts |-> {"description"},
   amount |-> amount, fee |-> fee, tax |-> tax, debit |-> debit, credit |-> credit,
   utr |-> "utr 1a", at |-> 4]

Order(due) ==
  [source |-> "pg_orders", type |-> "none", well_formed |-> TRUE, texts |-> {},
   amount |-> 4, amount_paid |-> 4 - due, amount_due |-> due, status |-> "paid", at |-> 2]

Rows ==
  {Payment(6), Payment(9), [Payment(6) EXCEPT !.captured = FALSE],
   Refund(3, 4), Refund(6, 4), Refund(2, 1), [Refund(3, 4) EXCEPT !.texts = {"notes"}],
   ReconRow("payment", 20, 7, 1, 0, 13), ReconRow("payment", 20, 7, 2, 0, 13),
   ReconRow("payment", 20, 7, 2, 0, 20), ReconRow("adjustment", 5, 0, 0, 0, 0),
   ReconRow("transfer", 5, 0, 0, 0, 5), Order(0), Order(1),
   ReconRow("payment", 20, 12, 0, 0, 8),
   [Refund(3, 4) EXCEPT !.at = 9], [Refund(3, 4) EXCEPT !.well_formed = FALSE]}

\* The rows the refund pass is about may fill a batch of four.
RefundRows == {Payment(6), Payment(9), Refund(3, 4), Refund(6, 4), Refund(2, 1),
               [Refund(3, 4) EXCEPT !.texts = {"notes"}]}

MCBatches == SeqOf(Rows, 3) \cup [1..4 -> RefundRows]

MCTotals  == (0 - 9)..9 \cup {0 - 60, 50, 51, 199, 200}
MCWeights == SeqOf(0..4, 4)

\* Every result over the instance's totals and weights is exact: no paisa lost,
\* and every rounding the nearest (packages/money). It is evaluated with the empty
\* batch.
MoneyExact ==
  batch = <<>> =>
  \A total \in Totals :
    /\ \A weights \in Weights : SharesAddUp(total, weights)
    /\ \A d \in Divisors : RoundsExactly(Magnitude(total), d)

MCNormalizedUtr == [raw \in {"utr 1a"} |-> "UTR1A"]
=============================================================================
