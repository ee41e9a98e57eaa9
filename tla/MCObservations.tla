--------------------------- MODULE MCObservations ---------------------------
(***************************************************************************)
(* Small observations for the instances: amounts are a few paise, instants *)
(* small numbers, identifiers numbers.                                     *)
(***************************************************************************)
EXTENDS Integers, Sequences, TLC

Blank == [kind |-> "none", type |-> "none", entity |-> 0, amount |-> 0, credit |-> 0,
          debit |-> 0, fee |-> 0, tax |-> 0, settlement |-> 0, payment |-> 0,
          direction |-> "none", utr |-> 0, value_date |-> 0, settled |-> 0,
          created |-> 0, inr |-> TRUE, order |-> 0, hold |-> FALSE]

Payment(id, amount, fee, settlement) ==
  [entity |-> id, kind |-> "recon_line", type |-> "payment", amount |-> amount,
   fee |-> fee, tax |-> IF fee > 1 THEN 1 ELSE 0, credit |-> amount - fee,
   settlement |-> settlement, created |-> 1, settled |-> 2] @@ Blank

Refund(id, amount, settlement) ==
  [entity |-> id, kind |-> "recon_line", type |-> "refund", amount |-> amount,
   debit |-> amount, settlement |-> settlement, created |-> 1, settled |-> 2] @@ Blank

Adjustment(id, credit, debit, settlement) ==
  [entity |-> id, kind |-> "adjustment", type |-> "adjustment", amount |-> credit + debit,
   credit |-> credit, debit |-> debit, settlement |-> settlement,
   created |-> 1, settled |-> 2] @@ Blank

Settlement(id, amount, utr) ==
  [entity |-> id, kind |-> "settlement", amount |-> amount, utr |-> utr] @@ Blank

BankLine(id, amount, utr, direction) ==
  [entity |-> id, kind |-> "bank_line", amount |-> amount, utr |-> utr,
   direction |-> direction, value_date |-> 3] @@ Blank

View(kind, id, amount, payment) ==
  [entity |-> id, kind |-> kind, amount |-> amount, payment |-> payment] @@ Blank

SubsOf(catalogue) ==
  { SelectSeq([n \in DOMAIN catalogue |-> [at |-> n, o |-> catalogue[n]]],
              LAMBDA r : r.at \in places) : places \in SUBSET (DOMAIN catalogue) }

Sets(catalogue) == {[n \in DOMAIN s |-> s[n].o] : s \in SubsOf(catalogue)} \ {<<>>}

WithOrder(o, order) == [o EXCEPT !.order = order]

RefundNaming(id, payment, order) == [Refund(id, 2, 0) EXCEPT !.payment = payment, !.order = order]

Later(o, settled) == [o EXCEPT !.settled = settled]
=============================================================================
