------------------------------ MODULE Journal ------------------------------
(***************************************************************************)
(* The posting table (packages/ledger/src/journal.ts): which rule P1-P8 an *)
(* observation posts at an occasion, and the journal lines of the rule.    *)
(* P7 reverses an opening and is reached from no caller in src; it is left *)
(* out.                                                                    *)
(*                                                                         *)
(* A rule is "silent" where the table posts nothing and "throws" where     *)
(* journalFor raises a JournalError.                                       *)
(***************************************************************************)
EXTENDS Candidates

Accounts == {"BANK", "RECEIVABLE", "GST_INPUT_CREDIT", "PG_FEE_EXPENSE",
             "REFUND_LIABILITY", "REVENUE", "SUSPENSE"}

States == {"RECONCILED", "ABSTAINED", "EXCEPTION"}

ExceptionClasses == {"E01", "E02", "E03", "E04", "E05", "E10", "E11", "E12", "E13"}

Silent == "silent"
Throws == "throws"

-----------------------------------------------------------------------------
(* selectRule                                                              *)

SilentKinds == {"payment", "order", "ledger_entry", "dispute"}

\* The classes that post, the rule each posts and the one kind it is keyed on.
\* E09 and E14 are never assigned by the composed run.
ExceptionRow ==
  [class \in {"E01", "E02", "E03", "E04", "E12"} |->
     CASE class \in {"E01", "E04"} -> [rule |-> "P6", kind |-> "settlement"]
       [] class = "E02" -> [rule |-> "P6", kind |-> "recon_line"]
       [] class = "E03" -> [rule |-> "P5", kind |-> "bank_line"]
       [] class = "E12" -> [rule |-> "P8", kind |-> "adjustment"]]

IngestRule(i) ==
  CASE obs[i].type = "payment" -> "P1"
    [] obs[i].type = "refund"  -> "P3"

BankEvidenceRule(i) ==
  CASE obs[i].type = "payment" -> "P2"
    [] obs[i].type = "refund"  -> "P4"

AbstainedRule(i, role) ==
  CASE Kind(i) = "adjustment" -> Throws
    [] Kind(i) # "adjustment" /\ role = "MEMBER" -> Silent
    [] Kind(i) = "bank_line" /\ role = "TARGET" -> "P5"
    [] Kind(i) = "settlement" /\ role = "TARGET" -> "P6"
    [] OTHER -> Throws

ExceptionRule(i, class) ==
  IF class \notin DOMAIN ExceptionRow THEN Silent
  ELSE IF ExceptionRow[class].kind # Kind(i) THEN Throws
  ELSE ExceptionRow[class].rule

\* The rule at TERMINAL_STATE of an observation classified c.
TerminalRule(i, c) ==
  CASE Kind(i) \in SilentKinds -> Silent
    [] Kind(i) \notin SilentKinds /\ c.state = "RECONCILED" ->
         IF Kind(i) = "adjustment" THEN Throws ELSE Silent
    [] Kind(i) \notin SilentKinds /\ c.state = "ABSTAINED" -> AbstainedRule(i, c.role)
    [] Kind(i) \notin SilentKinds /\ c.state = "EXCEPTION" -> ExceptionRule(i, c.class)

-----------------------------------------------------------------------------
(* buildLegs                                                               *)

\* A posting names an account once: it is known by what it puts on each.
dr(amount) == [dr |-> amount, cr |-> 0]
cr(amount) == [dr |-> 0, cr |-> amount]

Transfer(debited, credited, amount) ==
  [account \in {debited, credited} |-> IF account = debited THEN dr(amount) ELSE cr(amount)]

LegsOfP2(i) ==
  [account \in {"BANK", "PG_FEE_EXPENSE", "GST_INPUT_CREDIT", "RECEIVABLE"} |->
     CASE account = "BANK"             -> dr(obs[i].credit)
       [] account = "PG_FEE_EXPENSE"   -> dr(obs[i].fee - obs[i].tax)
       [] account = "GST_INPUT_CREDIT" -> dr(obs[i].tax)
       [] account = "RECEIVABLE"       -> cr(obs[i].amount)]

\* M: the one of debit and credit that is not zero.
AdjustmentM(i) == IF obs[i].debit = 0 THEN obs[i].credit ELSE obs[i].debit

Legs(rule, i) ==
  CASE rule = "P1" -> Transfer("RECEIVABLE", "REVENUE", obs[i].amount)
    [] rule = "P2" -> LegsOfP2(i)
    [] rule = "P3" -> Transfer("REVENUE", "REFUND_LIABILITY", obs[i].amount)
    [] rule = "P4" -> Transfer("REFUND_LIABILITY", "BANK", obs[i].amount)
    [] rule = "P5" -> Transfer("BANK", "SUSPENSE", obs[i].amount)
    [] rule = "P6" -> Transfer("SUSPENSE", "RECEIVABLE", obs[i].amount)
    [] rule = "P8" -> IF obs[i].debit # 0 THEN Transfer("SUSPENSE", "BANK", AdjustmentM(i))
                      ELSE Transfer("BANK", "SUSPENSE", AdjustmentM(i))
    [] rule = Silent -> <<>>

TotalDr(legs) == SumFunction([account \in DOMAIN legs |-> legs[account].dr])
TotalCr(legs) == SumFunction([account \in DOMAIN legs |-> legs[account].cr])

\* What a leg puts on an account, debits positive.
LegNet(legs, account) ==
  IF account \in DOMAIN legs THEN legs[account].dr - legs[account].cr ELSE 0

\* What a rule refuses: the side of a bank line, a fee below its tax, a class
\* row keyed on a payment, an adjustment on both sides or neither, and, in
\* sealPosting, a posting of nothing or one that does not balance.
Refused(rule, i) ==
  \/ rule = Throws
  \/ rule = "P5" /\ obs[i].direction # "credit"
  \/ rule = "P2" /\ obs[i].fee < obs[i].tax
  \/ rule = "P6" /\ Kind(i) = "recon_line" /\ obs[i].type # "payment"
  \/ rule = "P8" /\ (obs[i].debit = 0) = (obs[i].credit = 0)
  \/ rule # Silent /\ rule # Throws
       /\ \/ \A account \in DOMAIN Legs(rule, i) :
              Legs(rule, i)[account].dr + Legs(rule, i)[account].cr = 0
          \/ TotalDr(Legs(rule, i)) # TotalCr(Legs(rule, i))

\* The lines of the postings of these rules, by the place of the rule and the account,
\* each keyed on the observation's own identifier; a leg of zero paise is none.
LinesOf(rules, i) ==
  LET leg(l) == Legs(rules[l[1]], i)[l[2]]
      lines  == {l \in (DOMAIN rules) \X Accounts :
                   l[2] \in DOMAIN Legs(rules[l[1]], i) /\ leg(l) # dr(0)}
  IN  [l \in lines |-> [account |-> l[2], dr |-> leg(l).dr, cr |-> leg(l).cr,
                        key |-> obs[i].entity]]

\* What journal lines book to an account.
NetOn(account, lines) ==
  SumFunction([l \in {l \in DOMAIN lines : lines[l].account = account} |->
                 lines[l].dr - lines[l].cr])
=============================================================================
