------------------------------ MODULE ReconRun ------------------------------
(***************************************************************************)
(* One composed run (apps/cli/src/agents/assay.ts): every target is solved *)
(* first, then every observation is decided, validated by S5               *)
(* (packages/engine/src/s5-validate.ts) and posted, in four passes, and the*)
(* close of the period is attempted at the end.                            *)
(*                                                                         *)
(* A step is one target solved, one observation posted, or the close.  S4  *)
(* and the probe loop are here what they may answer; S4Solve and ProbeLoop *)
(* model them.  The write path the postings go through is LedgerWrite.     *)
(*                                                                         *)
(* An observation is its place in obs, 0 is null.                          *)
(***************************************************************************)
EXTENDS Journal, CloseGate

CONSTANTS
  Inputs,   \* the observation sets a run may be given, each sorted by obs_id
  Agents    \* the agents composed: ASSAY and its ablations A1 and A2

ASSUME InputsAssumption == \A input \in Inputs : input \in Seq(Observations)

\* A payment row debits nothing and a refund row credits nothing.
OneSided(o) == /\ o.type = "payment" => o.debit = 0
               /\ o.type = "refund"  => o.credit = 0

ASSUME RowsAssumption == \A input \in Inputs : \A i \in DOMAIN input : OneSided(input[i])

\* The kinds that may be left open in Suspense, and the ones left open on its debit
\* side.
MayStayOpen(o) == o.kind \in {"recon_line", "adjustment", "settlement", "bank_line"}

OpensAsDebit(o) ==
  \/ o.kind \in {"recon_line", "settlement"}
  \/ o.kind = "adjustment" /\ o.debit # 0

\* What has one identifier is left open on one side: an identifier names one
\* observation, but for the bank line that a statement repeats.
ASSUME IdentifiersAssumption ==
  \A input \in Inputs : \A i, j \in DOMAIN input :
    MayStayOpen(input[i]) /\ MayStayOpen(input[j]) /\ input[i].entity = input[j].entity =>
      OpensAsDebit(input[i]) = OpensAsDebit(input[j])

ASSUME AgentsAssumption == Agents \subseteq {"ASSAY", "A1-NOVALIDATE", "A2-NOABSTAIN"}

VARIABLES
  agent,          \* which composition runs
  outcomes,       \* TargetOutcome of every target solved so far
  posted,         \* the decisions posted, in order
  targetOf,       \* targetOfMember, and allocatedEntityIds by its domain
  certificateOf,  \* certificateByComponent
  status,         \* running, then done or aborted by a JournalError
  close           \* the CloseAttempt

vars == <<obs, agent, outcomes, posted, targetOf, certificateOf, status, close>>

NoAmount == -1
NoClose  == [period_status |-> "none", failed_gates |-> {}, report |-> FALSE]

Reasons == {"EVIDENCE_TIE", "NO_USEFUL_PROBE_AVAILABLE", "PROBE_BUDGET_EXHAUSTED",
            "MATERIALITY_UNDETERMINED", "SEARCH_BOUND_EXCEEDED"}

NoReason == "none"

NoCertificate == [target |-> 0, reason |-> NoReason]

-----------------------------------------------------------------------------
(* S4                                                                      *)

\* What S4 and the probe loop may say of a target: the best allocation, {} if
\* there is none, and why it may not be committed.
SolveOutcomes(t) ==
  LET generated == Generated(t)
      settled   == {[best |-> M, reason |-> NoReason] : M \in generated}
      tied      == {[best |-> M, reason |-> r] : M \in generated,
                    r \in IF HasEvidence(t)
                          THEN {"EVIDENCE_TIE", "NO_USEFUL_PROBE_AVAILABLE",
                                "PROBE_BUDGET_EXHAUSTED"}
                          ELSE {"MATERIALITY_UNDETERMINED"}}
  IN  IF ExceedsKMax(t) THEN {[best |-> {}, reason |-> "SEARCH_BOUND_EXCEEDED"]}
      ELSE IF generated = {} THEN {[best |-> {}, reason |-> NoReason]}
      ELSE IF Cardinality(generated) = 1 THEN settled
      ELSE settled \cup tied

\* Fault: the bound the enumeration stopped at is not looked at.
ReasonOfSolve(t) == outcomes[t].reason

\* An enumeration that stopped at a bound is a reason of its own.
ReasonOf(t) ==
  IF outcomes[t].reason = NoReason /\ Truncated(t) THEN "SEARCH_BOUND_EXCEEDED"
  ELSE outcomes[t].reason

-----------------------------------------------------------------------------
(* S9: what becomes of an observation                                      *)

Nothing == [state |-> "none", class |-> Silent, role |-> "none", members |-> {},
            amount |-> NoAmount, tied_to |-> 0, evidence |-> 0, certificate |-> NoCertificate]

exceptionFor(class) == [Nothing EXCEPT !.state = "EXCEPTION", !.class = class]

Abstained(role, certificate) ==
  [Nothing EXCEPT !.state = "ABSTAINED", !.role = role, !.certificate = certificate]

\* A settlement's bank line stands for its I5 tie-out.
Reconciled(i, members) ==
  [Nothing EXCEPT !.state = "RECONCILED",
                  !.members = members,
                  !.amount  = IF Kind(i) = "settlement" THEN obs[i].amount ELSE NoAmount,
                  !.tied_to = IF Kind(i) = "settlement" THEN BankLineOf(i) ELSE 0]

classifyAnchored(i) ==
  Reconciled(i, IF Kind(i) = "settlement" THEN AnchoredMembers(i) ELSE {})

classifyTarget(t) ==
  IF ReasonOf(t) # NoReason /\ agent # "A2-NOABSTAIN"
  THEN Abstained("TARGET", [target |-> t, reason |-> ReasonOf(t)])
  ELSE IF outcomes[t].best # {} THEN Reconciled(t, outcomes[t].best)
  ELSE IF Kind(t) = "bank_line" THEN exceptionFor("E03")
  ELSE exceptionFor(IF BankLineOf(t) # 0 THEN "E01" ELSE "E04")

DecidedAs(state) == {n \in DOMAIN posted : posted[n].state = state}

\* The certificate of the abstained component a member is in, if there is one.
CertificatesOver(m) == {certificateOf[c] : c \in {c \in DOMAIN certificateOf :
                          /\ m \in MembersOfComponent(c)
                          /\ \E n \in DecidedAs("ABSTAINED") : posted[n].obs \in c}}

\* Fault: a line posts its bank leg on its own settlement_id only.
EvidenceIfNamed(m) == IF HasEvidence(targetOf[m]) /\ AnchorOf(m) # 0 THEN targetOf[m] ELSE 0

\* The settlement a line was allocated to, where S1 established its credit.
EvidenceFor(m) == IF HasEvidence(targetOf[m]) THEN targetOf[m] ELSE 0

classifyMember(m) ==
  IF Kind(m) = "adjustment" THEN exceptionFor("E12")
  ELSE IF m \in DOMAIN targetOf
  THEN [Nothing EXCEPT !.state = "RECONCILED", !.evidence = EvidenceFor(m)]
  ELSE IF CertificatesOver(m) # {}
  THEN Abstained("MEMBER", CHOOSE certificate \in CertificatesOver(m) : TRUE)
  ELSE exceptionFor(IF obs[m].type = "payment" THEN "E02" ELSE "E11")

\* The state of a refund's own line, the last posted of that identifier.
LineReconciled(entity) ==
  LET lines == {n \in DOMAIN posted : /\ obs[posted[n].obs].entity = entity
                                      /\ Kind(posted[n].obs) \in
                                           {"recon_line", "adjustment", "settlement", "bank_line"}}
  IN  lines # {} /\ posted[Max(lines)].state = "RECONCILED"

classifyUnpostable(i) ==
  IF Kind(i) = "ledger_entry" THEN exceptionFor("E13")
  ELSE IF Kind(i) = "dispute" THEN exceptionFor("E12")
  ELSE IF LineReconciled(obs[i].entity) THEN Reconciled(i, {})
  ELSE exceptionFor(IF \E j \in DOMAIN obs : obs[j].entity = obs[i].payment THEN "E11" ELSE "E10")

-----------------------------------------------------------------------------
(* The journal lines of a decision                                         *)

\* The rules its observation fires, one per occasion.
RulesOf(i, c) ==
  << IF Kind(i) = "recon_line" THEN IngestRule(i) ELSE Silent,
     IF Kind(i) = "recon_line" /\ c.evidence # 0 THEN BankEvidenceRule(i) ELSE Silent,
     TerminalRule(i, c) >>

Raises(i, c) == \E n \in 1..3 : Refused(RulesOf(i, c)[n], i)

LinesFor(i, c) == LinesOf(RulesOf(i, c), i)

SuspenseKeyOf(i, c) == IF TerminalRule(i, c) = Silent THEN 0 ELSE obs[i].entity

-----------------------------------------------------------------------------
(* S5                                                                      *)

Allocated == {obs[m].entity : m \in DOMAIN targetOf}

\* Fault: what earlier decisions of the run allocated is not looked at.
I2Within(c) == \A m, n \in c.members : obs[m].entity = obs[n].entity => m = n

I2(c) ==
  /\ \A m \in c.members : obs[m].entity \notin Allocated
  /\ \A m, n \in c.members : obs[m].entity = obs[n].entity => m = n

I3(c) == c5(c.members)

I4(c) == c.amount # NoAmount => Net(c.members) = c.amount

I5(c) == c.tied_to # 0 =>
  SumFunction([s \in {s \in Settlements : BankLineOf(s) = c.tied_to} |-> obs[s].amount])
    = obs[c.tied_to].amount

I7(c) == \A m \in c.members : obs[m].credit <= obs[m].amount /\ obs[m].debit <= obs[m].amount

I8(c) == c3Ordering(c.members)

\* I1 is the balance sealPosting asks of every rule; I6 holds because a decision
\* names nothing but observations of the run; I9 is never supplied.
Valid(c) ==
  /\ (c.state = "ABSTAINED") = (c.certificate # NoCertificate)
  /\ agent # "A1-NOVALIDATE" => I2(c) /\ I3(c) /\ I4(c) /\ I5(c) /\ I7(c) /\ I8(c)

-----------------------------------------------------------------------------
(* The four passes                                                         *)

Settled == {posted[n].obs : n \in DOMAIN posted}

Unsolved  == Targets \ DOMAIN outcomes
Anchors   == AnchorResolved \ Settled
Undecided == Targets \ Settled
Members   == MemberEligible \ Settled
Rest      == (DOMAIN obs \ References) \ Settled

\* The decision that reaches the chain: the proposed one if S5 accepts it.
Accepted(c) == IF Valid(c) THEN c ELSE exceptionFor("E05")

\* Fault: the allocation is recorded as proposed, whatever S5 said.
CommittedAnyway(c) == c.members

\* commitAllocation: the members of a decision that was let through.
Committed(c) == Accepted(c).members

Abort ==
  /\ status' = "aborted"
  /\ UNCHANGED <<obs, agent, outcomes, posted, targetOf, certificateOf, close>>

Record(i, c) ==
  [obs |-> i, state |-> c.state, class |-> c.class, members |-> c.members,
   certificate |-> c.certificate, key |-> SuspenseKeyOf(i, c), lines |-> LinesFor(i, c)]

\* post; the proposed lines are built, and may throw, before S5 is asked.
Post(i, c, certificates) ==
  LET decided == Accepted(c)
  IN  IF Raises(i, c) \/ Raises(i, decided) THEN Abort
      ELSE /\ posted' = Append(posted, Record(i, decided))
           /\ targetOf' = [m \in Committed(c) \cup DOMAIN targetOf |->
                              IF m \in Committed(c) THEN i ELSE targetOf[m]]
           /\ certificateOf' = certificates
           /\ UNCHANGED <<obs, agent, outcomes, status, close>>

Solve ==
  /\ status = "running" /\ Unsolved # {}
  /\ LET t == Min(Unsolved)
     IN  \E outcome \in SolveOutcomes(t) :
          outcomes' = [u \in DOMAIN outcomes \cup {t} |-> IF u = t THEN outcome ELSE outcomes[u]]
  /\ UNCHANGED <<obs, agent, posted, targetOf, certificateOf, status, close>>

PostAnchor ==
  /\ status = "running" /\ Unsolved = {} /\ Anchors # {}
  /\ Post(Min(Anchors), classifyAnchored(Min(Anchors)), certificateOf)

\* The certificate of a component is its last abstained target's.
Certify(t, c) ==
  IF c.certificate = NoCertificate THEN certificateOf
  ELSE LET own == ComponentOf(t)
       IN  [k \in DOMAIN certificateOf \cup {own} |->
              IF k = own THEN c.certificate ELSE certificateOf[k]]

PostTarget ==
  /\ status = "running" /\ Unsolved = {} /\ Anchors = {} /\ Undecided # {}
  /\ LET t == Min(Undecided)
     IN  Post(t, classifyTarget(t), Certify(t, classifyTarget(t)))

PostMember ==
  /\ status = "running" /\ Unsolved = {} /\ Anchors = {} /\ Undecided = {} /\ Members # {}
  /\ Post(Min(Members), classifyMember(Min(Members)), certificateOf)

PostRest ==
  /\ status = "running" /\ Unsolved = {} /\ Anchors \cup Undecided \cup Members = {}
  /\ Rest # {}
  /\ Post(Min(Rest), classifyUnpostable(Min(Rest)), certificateOf)

-----------------------------------------------------------------------------
(* The close                                                               *)

\* Fault: a line is queued net of the fee.
valueOfNet(i) == IF Kind(i) = "recon_line" THEN obs[i].credit ELSE obs[i].amount

valueOf(i) ==
  CASE Kind(i) \in {"bank_line", "settlement", "recon_line", "ledger_entry", "refund",
                    "dispute"} -> obs[i].amount
    [] Kind(i) = "adjustment" -> AdjustmentM(i)
    [] Kind(i) \in {"payment", "order"} -> 0

Open == {n \in DOMAIN posted : posted[n].key # 0}

GateInput ==
  [ kinds    |-> [i \in DOMAIN obs |-> Kind(i)],
    terminal |-> [e \in ({"input"} \X References) \cup ({"posted"} \X (DOMAIN posted)) |->
                    IF e[1] = "input" THEN [obs |-> e[2], state |-> "REFERENCE"]
                    ELSE [obs |-> posted[e[2]].obs, state |-> posted[e[2]].state]],
    lines    |-> [l \in UNION {{n} \X (DOMAIN posted[n].lines) : n \in DOMAIN posted} |->
                    posted[l[1]].lines[l[2]]],
    queue    |-> [n \in Open |->
                    [key |-> posted[n].key, value |-> valueOf(posted[n].obs),
                     origin |-> IF posted[n].state = "ABSTAINED" THEN "ABSTENTION" ELSE "EXCEPTION"]],
    failed   |-> [n \in DOMAIN posted |-> FALSE],
    chain    |-> TRUE,
    batch    |-> SumFunction([i \in OfKind({"recon_line"}) |-> obs[i].amount]) ]

Close ==
  /\ status = "running" /\ Unsolved = {}
  /\ Anchors \cup Undecided \cup Members \cup Rest = {}
  /\ close' = attemptClose(GateInput)
  /\ status' = "done"
  /\ UNCHANGED <<obs, agent, outcomes, posted, targetOf, certificateOf>>

-----------------------------------------------------------------------------
Init ==
  /\ obs \in Inputs
  /\ agent \in Agents
  /\ outcomes = <<>>
  /\ posted = <<>>
  /\ targetOf = <<>>
  /\ certificateOf = <<>>
  /\ status = "running"
  /\ close = NoClose

Ended == status # "running" /\ UNCHANGED vars

Next == Solve \/ PostAnchor \/ PostTarget \/ PostMember \/ PostRest \/ Close \/ Ended

Spec == Init /\ [][Next]_vars

-----------------------------------------------------------------------------
(* Properties                                                              *)

\* Targets are solved before any of them commits, so two answers may want the
\* same line; no identifier is allocated by two decisions of a run all the same
\* (I2 at assay.ts:540 over what post committed before).  A1 skips S5.
AllocatedOnce ==
  agent # "A1-NOVALIDATE" =>
    \A n, k \in DOMAIN posted : \A m \in posted[n].members, l \in posted[k].members :
      obs[m].entity = obs[l].entity => n = k /\ m = l

\* A payment or refund line ends RECONCILED exactly if a decision that S5 let
\* through allocated it: a refused allocation leaves no member behind.
MemberFollowsTarget ==
  status = "done" =>
    \A n \in {k \in DOMAIN posted : Kind(posted[k].obs) = "recon_line"} :
      ( posted[n].state = "RECONCILED" <=>
          \E k \in DecidedAs("RECONCILED") : posted[n].obs \in posted[k].members )

Booked(account, i) ==
  SumFunction([n \in {n \in DOMAIN posted : posted[n].obs = i} |->
                 NetOn(account, posted[n].lines)])

SettledInBank ==
  {n \in DecidedAs("RECONCILED") : Kind(posted[n].obs) = "settlement"
                                     /\ HasEvidence(posted[n].obs)}

\* What the run books to BANK for the members of a settlement it reconciled to a
\* credit is what arrived, and nothing of them stays open on the gateway, though
\* the legs are posted line by line, the ones of adjustments in Suspense, and the
\* credit itself posts nothing.
BankBooksSettled ==
  status = "done" /\ agent # "A1-NOVALIDATE" =>
    \A n \in SettledInBank :
      /\ SumFunction([m \in posted[n].members |-> Booked("BANK", m)])
           = obs[posted[n].obs].amount
      /\ \A m \in posted[n].members :
           Booked("RECEIVABLE", m) = 0 /\ Booked("REFUND_LIABILITY", m) = 0

\* Nor is money booked to BANK for a payment or refund where no statement line
\* carries the settlement the line went to.
BankOnlyOnEvidence ==
  \A n \in DOMAIN posted :
    Kind(posted[n].obs) = "recon_line" /\ Booked("BANK", posted[n].obs) # 0 =>
      posted[n].obs \in DOMAIN targetOf /\ HasEvidence(targetOf[posted[n].obs])

\* The cash position follows the statement in both directions.
BankFollowsStatement == BankBooksSettled /\ BankOnlyOnEvidence

\* Gate G3 compares two totals; the books and the queue agree item by item.
BooksMatchQueue ==
  status = "done" =>
    \A key \in {obs[i].entity : i \in DOMAIN obs} :
      AbsPaise(ItemNet(GateInput, key)) = QueuedUnder(GateInput, key)

\* An abstained member posts nothing of its own, so its component holds a target
\* that abstained, with the certificate the member carries and an open item.
AbstentionHasItem ==
  status # "running" =>
    \A n \in {l \in DecidedAs("ABSTAINED") : Kind(posted[l].obs) = "recon_line"} :
      \E k \in DecidedAs("ABSTAINED") :
        /\ posted[k].key # 0 /\ posted[k].certificate = posted[n].certificate
        /\ posted[n].obs \in MembersOfComponent(ComponentOf(posted[k].obs))

\* What the run leaves open is what a reviewer finds in the queue: its items and
\* the books agree, and no abstention is without one.
OpenIsQueued == BooksMatchQueue /\ AbstentionHasItem

\* A search that a bound cut short has not shown that there is no allocation, or
\* only one: ASSAY neither commits its target nor reports it missing.
CutSearchAbstains ==
  agent = "ASSAY" /\ status # "running" =>
    \A n \in DOMAIN posted : LET t == posted[n].obs IN
      t \in Targets /\ (Truncated(t) \/ ExceedsKMax(t)) =>
        posted[n].state = "ABSTAINED" /\ posted[n].key # 0

\* A run never ends in a close its own gates refuse (metric 14 asks for it).
NeverBlocked == status = "done" => close.period_status # "BLOCKED"

\* What the posting table refuses: an unmatched bank debit (journal.ts:1122), an item
\* of zero paise (:1375), a tax above its fee (:1044), an adjustment on both sides or
\* on neither (:980), and, where A1 lets a line through whose fee does not add up,
\* legs that do not balance (:1404).
Seam ==
  \/ \E t \in Targets : obs[t].direction = "debit"
  \/ \E i \in Targets \cup OfKind({"recon_line"}) : obs[i].amount = 0
  \/ \E i \in OfKind({"recon_line"}) : obs[i].fee < obs[i].tax
  \/ \E i \in OfKind({"adjustment"}) : (obs[i].debit = 0) = (obs[i].credit = 0)
  \/ agent = "A1-NOVALIDATE" /\ ~c5(OfKind({"recon_line"}))

\* The posting table raises at its seams and nowhere else.
AbortsOnlyOnSeam == status = "aborted" => Seam

\* However a run ends, nothing but a seam has stopped it.
EndsUnblocked == NeverBlocked /\ AbortsOnlyOnSeam

-----------------------------------------------------------------------------
(* What the code says of itself and does not keep                          *)

\* assay.ts:941 says that one certificate covers an abstained target and its
\* component, "so the per-decision field repeats it and this list does not":
\* every certificate a decision carries is in the list.
CertificateRepeated ==
  status = "done" =>
    \A n \in DecidedAs("ABSTAINED") :
      \E c \in DOMAIN certificateOf : posted[n].certificate = certificateOf[c]

\* s1-s2-seam.ts:66 says that a zero-amount settlement no anchor touches "stays a
\* target and reaches S9 on its own evidence".
ZeroReachesDecision ==
  (\A t \in Targets : obs[t].direction # "debit") => status # "aborted"

\* DATA_MODEL.md:2080 says that a member of an abstained component posts nothing:
\* a second posting "would relieve 1100_GATEWAY_RECEIVABLE again for one break".
RelievedOnce ==
  status = "done" =>
    \A n \in DecidedAs("ABSTAINED"), k \in DOMAIN posted :
      Kind(posted[n].obs) = "settlement" /\ Kind(posted[k].obs) = "recon_line"
        /\ posted[k].obs \in UNION Generated(posted[n].obs) => posted[k].key = 0
=============================================================================
