----------------------------- MODULE MCReconRun -----------------------------
(***************************************************************************)
(* Observation sets for ReconRun, and for Baseline after it: every subset  *)
(* of a few small catalogues, in one order.                                *)
(***************************************************************************)
EXTENDS Baseline, MCObservations

\* Two settlements that compete for three lines; one of them banked.
Twins == <<BankLine(31, 6, 7, "credit"), Payment(1, 8, 2, 0), Payment(2, 8, 2, 0),
           Payment(3, 7, 1, 0), Settlement(21, 6, 7), Settlement(22, 6, 8)>>

\* Allocations that overlap in part: one line is enough for the first settlement,
\* the second takes two.
Overlaps == <<BankLine(31, 12, 9, "credit"), Payment(1, 8, 2, 0), Payment(2, 8, 2, 0),
              Payment(3, 7, 1, 0), Settlement(21, 6, 7), Settlement(22, 12, 9)>>

\* One settlement tied out by what names it, another part named, with a refund,
\* an adjustment and the views of other systems.
Named == <<Adjustment(41, 2, 0, 0), BankLine(31, 6, 7, "credit"), Payment(1, 9, 1, 21),
           Refund(11, 2, 21), Payment(2, 5, 1, 22), Payment(3, 3, 1, 0),
           View("refund", 11, 2, 1), Settlement(21, 6, 7), Settlement(22, 6, 9)>>

\* What the bank and the others may show besides.
Odd == <<BankLine(31, 4, 7, "credit"), BankLine(31, 4, 7, "credit"),
         BankLine(33, 5, 0, "credit"), BankLine(34, 5, 0, "debit"),
         Payment(1, 5, 1, 0), Adjustment(41, 0, 2, 22),
         View("refund", 12, 2, 9), Settlement(21, 4, 7), Settlement(22, 4, 7),
         Settlement(23, 0, 0)>>

\* A settlement one of whose lines is named and whose rest two lines may be.
PartNamed == <<Payment(1, 3, 1, 21), Payment(2, 5, 1, 0), Payment(3, 5, 1, 0),
               Settlement(21, 6, 9)>>

\* Lines of three settlement instants, more of the first than k_max allows and more
\* subsets of all than c_max.
Instants3 == <<BankLine(31, 6, 7, "credit"), Payment(1, 8, 2, 0), Payment(2, 8, 2, 0),
               Payment(3, 8, 2, 0), Payment(4, 8, 2, 0), Later(Payment(5, 8, 2, 0), 3),
               Later(Payment(6, 8, 2, 0), 4), Settlement(21, 6, 7)>>

\* Two payments of one identifier that name two settlements, two settlements of
\* one identifier, a line whose fee does not add up, a settlement before capture.
Repeats == <<BankLine(31, 4, 7, "credit"), BankLine(32, 4, 6, "credit"),
             Payment(1, 5, 1, 21), Payment(1, 5, 1, 22),
             [Payment(2, 6, 1, 23) EXCEPT !.credit = 4], Later(Payment(3, 5, 1, 24), 0),
             Settlement(21, 4, 7), Settlement(22, 4, 8), Settlement(22, 4, 9),
             Settlement(23, 4, 6)>>

\* Lines a clause refuses beside lines that would do: a refund of another order, one
\* of a payment nothing is known of, another currency, a line on hold.
Excluded == <<RefundNaming(11, 1, 92), RefundNaming(12, 9, 92), WithOrder(Payment(1, 8, 0, 0), 91),
              [Payment(2, 6, 0, 0) EXCEPT !.inr = FALSE], [Payment(3, 6, 0, 0) EXCEPT !.hold = TRUE],
              View("refund", 11, 2, 1), Settlement(21, 6, 7)>>

\* What the posting table refuses of a row: a tax above its fee, an adjustment on both
\* sides.
Refusals == <<BankLine(31, 4, 7, "credit"), [Payment(1, 5, 1, 21) EXCEPT !.tax = 2],
              Adjustment(41, 2, 2, 0), Settlement(21, 4, 7)>>

View3 == <<View("ledger_entry", 51, 3, 0), View("dispute", 61, 3, 0), View("payment", 1, 5, 0),
           View("order", 71, 0, 0)>>

\* The subsets that hold one of the catalogue's observations for sure.
With(catalogue, n) == {s \in Sets(catalogue) : \E k \in DOMAIN s : s[k] = catalogue[n]}

AllInputs ==
  UNION {Sets(c) : c \in {Twins, Named, PartNamed, Refusals, View3}}
    \cup (With(Overlaps, 5) \cap With(Overlaps, 6))
    \cup With(Excluded, 7) \cup With(Instants3, 8) \cup With(Odd, 8)
    \cup (With(Repeats, 3) \cap With(Repeats, 7))
=============================================================================
