----------------------------- MODULE MCGenerate -----------------------------
(***************************************************************************)
(* Two days of two captures and one authorised payment, two refunds (one   *)
(* partial), one dispute, two amounts.  F01 is F04 without its operator.   *)
(***************************************************************************)
EXTENDS Generate

AllFamilies == {"F02", "F03", "F04", "F05", "F06", "F07", "F08", "F09", "F10",
                "A01", "A02", "A03", "A05", "B01"}

TwoDraws == {<<100, "upi">>, <<2000, "card">>}

SameOrNextDay == {0, 1}

Deltas == 1..5

SmallRates ==
  [op \in {"DROP_SETTLEMENT_ID", "CONFLICT_REFERENCE"} |-> <<1, 6>>]
    @@ [op \in {"MANGLE_UTR", "DUPLICATE_ROW"} |-> <<1, 2>>]
    @@ ("INJECT_NOTES" :> <<1, 12>>)

=============================================================================
