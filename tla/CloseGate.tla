------------------------------ MODULE CloseGate ------------------------------
(***************************************************************************)
(* The close of a period (packages/ledger/src/close-gate.ts and close.ts): *)
(* the five gates G1-G5 over the observations, the books and the queue of  *)
(* unresolved items, and the outcome they allow.                           *)
(*                                                                         *)
(* An input is a record                                                    *)
(*   kinds     the kind of every observation, by observation               *)
(*   terminal  the terminal states recorded by place, [obs, state]         *)
(*   lines     the journal lines of the log by place, [account, dr, cr,    *)
(*             key]                                                       *)
(*   queue     the unresolved items by place, [key, origin, value]         *)
(*   failed    for every posted decision, whether an invariant failed      *)
(*   chain     the answer of verifyChain, which ChainVerify models         *)
(*   batch     batch_value_paise                                           *)
(* Records the code cannot read, and totals beyond the safe integers, which*)
(* make it throw, are left out.                                            *)
(***************************************************************************)
EXTENDS Integers, Sequences, FiniteSetsExt, SequencesExt, Functions

CONSTANT MaxUnresolvedRatioBps   \* MAX_UNRESOLVED_RATIO_BPS

ASSUME RatioAssumption == MaxUnresolvedRatioBps \in Nat

ReferenceKinds == {"payment", "order"}

DecisionStates == {"RECONCILED", "ABSTAINED", "EXCEPTION"}

Gates == {"g1_all_terminal", "g2_trial_balance", "g3_suspense_identity",
          "g4_hash_chain", "g5_no_failed_invariant_posted"}

Total(entries, Value(_)) == SumFunction([n \in DOMAIN entries |-> Value(entries[n])])

-----------------------------------------------------------------------------
(* G1: every observation in one terminal state, of its kind                *)

StatesOf(input, o) == {n \in DOMAIN input.terminal : input.terminal[n].obs = o}

OneState(input, o) == \E n \in StatesOf(input, o) : StatesOf(input, o) = {n}

\* A reference kind is retired as REFERENCE and nothing else is.
StateFitsKind(input, o) ==
  \A n \in StatesOf(input, o) :
    (input.terminal[n].state = "REFERENCE") <=> (input.kinds[o] \in ReferenceKinds)

runG1(input) ==
  /\ \A o \in DOMAIN input.kinds : OneState(input, o) /\ StateFitsKind(input, o)
  /\ \A n \in DOMAIN input.terminal : input.terminal[n].obs \in DOMAIN input.kinds

-----------------------------------------------------------------------------
(* G2 and G3: the books balance, and Suspense is what the queue says       *)

TrialBalance(input) ==
  Total(input.lines, LAMBDA l : l.dr) = Total(input.lines, LAMBDA l : l.cr)

SuspenseLines(input) == {n \in DOMAIN input.lines : input.lines[n].account = "SUSPENSE"}

SuspenseKeys(input) == {input.lines[n].key : n \in SuspenseLines(input)}

ItemNet(input, key) ==
  SumFunction([n \in {n \in SuspenseLines(input) : input.lines[n].key = key} |->
                 input.lines[n].dr - input.lines[n].cr])

AbsPaise(x) == IF x < 0 THEN -x ELSE x

\* Fault: inbound and outbound items are netted against each other.
SuspenseNetted(input) ==
  AbsPaise(SumFunction([key \in SuspenseKeys(input) |-> ItemNet(input, key)]))

\* Items that net to zero are not open; every other counts at its magnitude.
SuspenseGross(input) ==
  SumFunction([key \in SuspenseKeys(input) |-> AbsPaise(ItemNet(input, key))])

Unresolved(input) == Total(input.queue, LAMBDA r : r.value)

\* What the queue holds under a key.
QueuedUnder(input, key) ==
  SumFunction([n \in {n \in DOMAIN input.queue : input.queue[n].key = key} |->
                 input.queue[n].value])

runG3(input) == SuspenseGross(input) = Unresolved(input)

-----------------------------------------------------------------------------
(* G5 and the verdict                                                      *)

runG5(input) == \A n \in DOMAIN input.failed : ~input.failed[n]

Passes(gate, input) ==
  CASE gate = "g1_all_terminal"               -> runG1(input)
    [] gate = "g2_trial_balance"              -> TrialBalance(input)
    [] gate = "g3_suspense_identity"          -> runG3(input)
    [] gate = "g4_hash_chain"                 -> input.chain
    [] gate = "g5_no_failed_invariant_posted" -> runG5(input)

FailedGates(input) == {gate \in Gates : ~Passes(gate, input)}

-----------------------------------------------------------------------------
(* attemptClose                                                            *)

\* roundHalfUp(batch * MAX_UNRESOLVED_RATIO_BPS, 10 000)
closeThresholdPaise(batch) == (2 * batch * MaxUnresolvedRatioBps + 10000) \div 20000

periodStatusFrom(passed, unresolved, threshold) ==
  IF ~passed THEN "BLOCKED" ELSE IF unresolved <= threshold THEN "CLOSED" ELSE "OPEN"

\* A blocked period has neither a report nor a CLOSE event.
attemptClose(input) ==
  LET status == periodStatusFrom(FailedGates(input) = {}, Unresolved(input),
                                 closeThresholdPaise(input.batch))
  IN  [period_status |-> status, failed_gates |-> FailedGates(input),
       report |-> status # "BLOCKED"]
=============================================================================
