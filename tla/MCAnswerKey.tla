---------------------------- MODULE MCAnswerKey ----------------------------
(***************************************************************************)
(* Datasets with an answer key: the sets of a few catalogues that some     *)
(* truth explains.  A behaviour either labels one and runs its gates       *)
(* (OracleGates) or has an agent reconcile one and scores it (Scoring).    *)
(***************************************************************************)
EXTENDS Scoring, MCObservations

CONSTANTS CGates, Draws, MemberMax

VARIABLES
  job,                                                  \* which of the two
  results, labels, findings, divergences, drawn, step   \* OracleGates' own

gateVars == <<results, labels, findings, divergences, drawn, step>>

Unsettled(o) == [o EXCEPT !.settled = 0]

DatedAt(o, date) == [o EXCEPT !.value_date = date]

\* Three lines of one instant for two settlements, one of them named by a line.
OneInstant == <<BankLine(31, 6, 7, "credit"), Payment(1, 8, 2, 0), Payment(2, 8, 2, 0),
                Payment(3, 10, 4, 0), Payment(4, 3, 1, 23), Settlement(21, 6, 7),
                Settlement(22, 12, 8), Settlement(23, 8, 9)>>

\* A credit shown once or twice, and lines of two instants around its date.
TwoInstants == <<BankLine(31, 6, 7, "credit"), DatedAt(BankLine(32, 6, 7, "credit"), 4),
                 Payment(1, 8, 2, 0), Later(Payment(2, 10, 4, 0), 4),
                 [Unsettled(Payment(3, 8, 2, 0)) EXCEPT !.hold = TRUE], Settlement(21, 6, 7), Settlement(22, 6, 8),
                 Settlement(23, 12, 9)>>

\* A payment less a refund, and an adjustment.
Mixed == <<Adjustment(41, 2, 0, 0), Payment(1, 10, 2, 0), Refund(11, 2, 0),
           Later(Payment(2, 8, 2, 0), 4), Settlement(21, 6, 7), Settlement(22, 8, 8),
           Settlement(23, 6, 9)>>

\* Refunds of a payment two sources show under two orders, a refund of one nothing
\* is known of, a line in another currency and one on hold.
Excluded == <<RefundNaming(11, 1, 91), RefundNaming(12, 1, 92), RefundNaming(13, 9, 92),
             View("payment", 1, 10, 0), WithOrder(View("payment", 1, 10, 0), 92),
             WithOrder(Payment(1, 10, 2, 0), 91), [Payment(2, 8, 2, 0) EXCEPT !.inr = FALSE],
             [Payment(3, 8, 2, 0) EXCEPT !.hold = TRUE], Settlement(21, 6, 7)>>

GateInputs ==
  Sets(OneInstant) \cup Sets(TwoInstants) \cup Sets(Mixed)
    \cup {s \in Sets(Excluded) : s[Len(s)].kind = "settlement"}

\* Two settlements and the lines they compete for, one payment and one refund also
\* shown as such.
Competing == <<BankLine(31, 6, 7, "credit"), Payment(1, 8, 2, 0), Payment(2, 10, 2, 0),
               Refund(11, 2, 0), View("payment", 1, 8, 0), View("refund", 11, 2, 1),
               Settlement(21, 6, 7), Settlement(22, 6, 8)>>

\* A settlement tied out by what names it, with a refund and an adjustment.
TiedOut == <<Adjustment(41, 2, 0, 21), BankLine(31, 6, 7, "credit"), Payment(1, 7, 1, 21),
             Refund(11, 2, 21), Payment(2, 5, 1, 22), View("payment", 1, 7, 0),
             Settlement(21, 6, 7), Settlement(22, 4, 9)>>

\* A credit the bank shows twice.
Twice == <<BankLine(31, 6, 7, "credit"), BankLine(32, 6, 7, "credit"), Payment(1, 8, 2, 0),
           Later(Payment(2, 10, 4, 0), 4), Settlement(21, 6, 7), View("ledger_entry", 51, 3, 0)>>

Datasets ==
  {o \in Sets(Competing) \cup Sets(TiedOut) \cup Sets(Twice) :
     \E n \in DOMAIN o : o[n].kind = "settlement"}

\* The gates' search is given fewer subsets than the scorer's labels, so that it is
\* also exceeded.
Gated == INSTANCE OracleGates WITH Inputs <- GateInputs, COracle <- CGates

MCInit ==
  \/ /\ job = "oracle" /\ Gated!Init
     /\ agent = "none" /\ outcomes = <<>> /\ posted = <<>> /\ targetOf = <<>>
     /\ certificateOf = <<>> /\ status = "none" /\ close = NoClose /\ score = <<>>
  \/ /\ job = "score" /\ ScoringInit
     /\ results = <<>> /\ labels = <<>> /\ findings = <<>> /\ divergences = {} /\ drawn = 0 /\ step = "none"

MCNext ==
  \/ /\ job = "oracle" /\ Gated!Next
     /\ UNCHANGED <<job, agent, outcomes, posted, targetOf, certificateOf, status, close, score>>
  \/ job = "score" /\ ScoringNext /\ UNCHANGED <<job, gateVars>>

MCSpec == MCInit /\ [][MCNext]_<<job, scoringVars, gateVars>>

\* What OracleGates promises of the labels and the gates (enumerate.ts,
\* completeness-gate.ts), and of the oracle against the engine (packages/eval).
TruthIsFound == job = "oracle" => Gated!TruthIsFound
BothAgree == job = "oracle" => Gated!BothAgree
=============================================================================
