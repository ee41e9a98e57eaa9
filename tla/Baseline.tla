------------------------------ MODULE Baseline ------------------------------
(***************************************************************************)
(* The baseline B0-IDONLY (apps/cli/src/agents/b0.ts) beside ASSAY: a bench*)
(* runs both on the observations of one dataset.  ASSAY's composition is   *)
(* ReconRun; when it has closed, B0 starts on the same input, with its own *)
(* two exact joins in place of S1 to S4, and the same S5, posting table,   *)
(* write path and close.                                                   *)
(***************************************************************************)
EXTENDS ReconRun

\* A refund shares its identifier with its own line of the report; a settlement's and
\* a bank line's have other prefixes.
ASSUME RefundsAssumption ==
  \A input \in Inputs : \A i, j \in DOMAIN input :
    input[i].kind = "refund" /\ input[j].kind \in {"settlement", "bank_line"} =>
      input[i].entity # input[j].entity

VARIABLE rival   \* what ASSAY posted, <<>> while it runs

bvars == <<obs, agent, outcomes, posted, targetOf, certificateOf, status, close, rival>>

-----------------------------------------------------------------------------
(* The joins                                                               *)

\* The bucket of a settlement: the lines that name an id it was the last to carry.
an1Join(s) ==
  {m \in MemberEligible :
     /\ obs[m].settlement = obs[s].entity
     /\ \A t \in Settlements : obs[t].entity = obs[s].entity => t <= s}

keyOf(i) == <<obs[i].utr, obs[i].amount>>

EarliestOfKey(s, b) ==
  /\ obs[b].utr # 0 /\ keyOf(b) = keyOf(s)
  /\ \A c \in BankLines \ {b} : keyOf(c) = keyOf(b) => Earlier(b, c)

\* Fault: the settlements of one key are matched each to the earliest credit.
an2JoinCollided == {pair \in Settlements \X BankLines : EarliestOfKey(pair[1], pair[2])}

\* The matched pairs: a key that one settlement has, and its earliest credit.
an2Join ==
  {pair \in Settlements \X BankLines :
     /\ \A t \in Settlements : keyOf(t) = keyOf(pair[1]) => t = pair[1]
     /\ EarliestOfKey(pair[1], pair[2])}

matchedBankLines == {pair[2] : pair \in an2Join}

-----------------------------------------------------------------------------
(* Its decisions                                                           *)

classifySettlement(s) ==
  IF an1Join(s) = {} THEN exceptionFor("E01")
  ELSE [Nothing EXCEPT !.state   = "RECONCILED",
                       !.members = an1Join(s),
                       !.amount  = obs[s].amount]

classifyBankLine(b) ==
  IF b \in matchedBankLines THEN [Nothing EXCEPT !.state = "RECONCILED"]
  ELSE exceptionFor("E03")

\* The settlement a member went to, where the second join found its credit.
evidenceOf(m) == IF \E pair \in an2Join : pair[1] = targetOf[m] THEN targetOf[m] ELSE 0

classifyLine(m) ==
  IF Kind(m) = "adjustment" THEN exceptionFor("E12")
  ELSE IF m \in DOMAIN targetOf
  THEN [Nothing EXCEPT !.state = "RECONCILED", !.evidence = evidenceOf(m)]
  ELSE exceptionFor(IF obs[m].type = "payment" THEN "E02" ELSE "E11")

-----------------------------------------------------------------------------
(* The bench runs the next agent on the same observations                  *)

B0Start ==
  /\ agent = "ASSAY" /\ status = "done"
  /\ rival' = posted
  /\ agent' = "B0-IDONLY"
  /\ posted' = <<>> /\ targetOf' = <<>> /\ status' = "running" /\ close' = NoClose
  /\ UNCHANGED <<obs, outcomes, certificateOf>>

Running == agent = "B0-IDONLY" /\ status = "running"

ToJoin  == (Settlements \cup BankLines) \ Settled

B0Target ==
  /\ Running /\ ToJoin # {}
  /\ LET i == Min(ToJoin)
     IN  Post(i, IF i \in Settlements THEN classifySettlement(i) ELSE classifyBankLine(i),
              certificateOf)
  /\ UNCHANGED rival

B0Member ==
  /\ Running /\ ToJoin = {} /\ Members # {}
  /\ Post(Min(Members), classifyLine(Min(Members)), certificateOf)
  /\ UNCHANGED rival

B0Rest ==
  /\ Running /\ ToJoin \cup Members = {} /\ Rest # {}
  /\ Post(Min(Rest), classifyUnpostable(Min(Rest)), certificateOf)
  /\ UNCHANGED rival

B0Close ==
  /\ Running /\ ToJoin \cup Members \cup Rest = {}
  /\ close' = attemptClose(GateInput)
  /\ status' = "done"
  /\ UNCHANGED <<obs, agent, outcomes, posted, targetOf, certificateOf, rival>>

-----------------------------------------------------------------------------
BInit == Init /\ rival = <<>>

Assay ==
  /\ agent # "B0-IDONLY"
  /\ Solve \/ PostAnchor \/ PostTarget \/ PostMember \/ PostRest \/ Close
  /\ UNCHANGED rival

BEnded ==
  /\ status = "aborted" \/ (agent # "ASSAY" /\ status = "done")
  /\ UNCHANGED bvars

BNext == Assay \/ B0Start \/ B0Target \/ B0Member \/ B0Rest \/ B0Close \/ BEnded

BSpec == BInit /\ [][BNext]_bvars

-----------------------------------------------------------------------------
(* Properties                                                              *)

\* EVALUATION_SPEC.md 3.1 calls B0 "the honest floor" whose "failure mode is
\* coverage, not error": what its two joins reconcile, though it posts in another
\* order and falls back to E05 where S5 refuses, ASSAY reconciles to the same
\* members on the same input.
FloorHolds ==
  agent = "B0-IDONLY" /\ status = "done" =>
    \A n \in DecidedAs("RECONCILED") :
      \E k \in DOMAIN rival :
        /\ rival[k].obs = posted[n].obs /\ rival[k].state = "RECONCILED"
        /\ rival[k].members = posted[n].members /\ rival[k].lines = posted[n].lines
=============================================================================
