----------------------------- MODULE Controller -----------------------------
(***************************************************************************)
(* The observe-only close controller: the policy (packages/controller/src/ *)
(* policy.ts) driven by the loop of machine.ts over the tools of a sealed  *)
(* run (apps/api/src/controller/runtime.ts).                               *)
(*                                                                         *)
(* One step of this specification is one turn of runController's loop.     *)
(* Rule order is the code's: integrity first, the budget second, then the  *)
(* rule of the current state.  Every tool call may be refused (a throw or a*)
(* schema failure); decision_evidence may also answer for another decision,*)
(* the case machine.ts's no-progress guard exists for.                     *)
(*                                                                         *)
(* The answers of the run are fixed when it is sealed, so the memory keeps *)
(* which reads have been answered (seen) and reads the values from run.    *)
(***************************************************************************)
EXTENDS Integers, Sequences, FiniteSets, FiniteSetsExt

CONSTANTS
  Decisions,    \* decision_ids, ordered as the code orders the strings
  Value,        \* Value[d]: value_paise of a queue item
  Keyed,        \* the decisions whose suspense_key is not null
  Runs,         \* the sealed runs the controller may be started on
  Budgets       \* step budgets it may be started with

Gates == {"G1", "G2", "G3", "G4", "G5"}

SealedRuns == [chain_ok : BOOLEAN, root_matches : BOOLEAN, trial_ok : BOOLEAN,
               failed_gates : SUBSET Gates,
               unresolved : Nat, threshold : Nat,
               queue : SUBSET Decisions]

ASSUME ControllerAssumption ==
  /\ Decisions \subseteq Nat
  /\ IsFiniteSet(Decisions)
  /\ Value \in [Decisions -> Nat]
  /\ Keyed \subseteq Decisions
  /\ Runs \subseteq SealedRuns
  /\ Budgets \subseteq Nat

VARIABLES
  run,          \* the sealed run behind the tools
  budget,       \* RunControllerOptions.budget
  state,        \* ControllerState
  seen,         \* the once-only reads already in memory
  refused,      \* memory.refusal is not null
  closing_set,  \* memory.closing_set
  cursor,       \* memory.cursor
  inspected,    \* memory.inspected: decision_id -> the decision its evidence is about
  escalated,    \* the decisions of the escalation records, in order
  steps,        \* steps.length
  stop,         \* StopReason, or "none"
  halt,         \* HaltReason, or "none"
  thrown        \* the loop has thrown IllegalTransitionError

memory == <<seen, refused, closing_set, cursor, inspected, escalated>>
vars == <<run, budget, state, memory, steps, stop, halt, thrown>>

ControllerStates ==
  {"INIT", "OBSERVE_CLOSE", "TRIAGE", "PLAN", "ACT", "ESCALATE", "AWAIT_HUMAN",
   "APPLY_RESOLUTION", "RECHECK", "COMPLETE", "HALT"}

TerminalStates == {"COMPLETE", "HALT"}

StopReasons == {"CLOSED", "ESCALATED", "NO_ELIGIBLE_ITEM", "NO_PROGRESS",
                "BUDGET_EXHAUSTED"}
HaltReasons == {"CHAIN_BROKEN", "TRIAL_BALANCE_FAILED", "PERIOD_BLOCKED",
                "TOOL_REFUSED"}

AllowedTransitions ==
  [s \in ControllerStates |->
     CASE s = "INIT"             -> {"OBSERVE_CLOSE"}
       [] s = "OBSERVE_CLOSE"    -> {"OBSERVE_CLOSE", "TRIAGE", "COMPLETE", "HALT"}
       [] s = "TRIAGE"           -> {"TRIAGE", "PLAN", "COMPLETE", "HALT"}
       [] s = "PLAN"             -> {"ACT", "COMPLETE", "HALT"}
       [] s = "ACT"              -> {"ACT", "ESCALATE", "COMPLETE", "HALT"}
       [] s = "ESCALATE"         -> {"ACT", "AWAIT_HUMAN", "COMPLETE", "HALT"}
       [] s = "AWAIT_HUMAN"      -> {"APPLY_RESOLUTION", "COMPLETE"}
       [] s = "APPLY_RESOLUTION" -> {"RECHECK", "HALT"}
       [] s = "RECHECK"          -> {"OBSERVE_CLOSE", "HALT"}
       [] s = "COMPLETE"         -> {}
       [] s = "HALT"             -> {}]

-----------------------------------------------------------------------------
(* The closing set                                                         *)

\* periodStatusFrom, as the close report carries it.
PeriodStatus(r) == IF r.failed_gates # {} THEN "BLOCKED"
                   ELSE IF r.unresolved <= r.threshold THEN "CLOSED" ELSE "OPEN"

Eligible(r) == r.queue \cap Keyed

Need(r) == r.unresolved - r.threshold

ValueOf(S) == MapThenSumSet(LAMBDA d : Value[d], S)

\* Fault: the cheapest item first.
OutranksAscending(a, b) == \/ Value[a] < Value[b]
                           \/ Value[a] = Value[b] /\ a < b

\* Value descending, decision_id ascending on ties.
Outranks(a, b) == \/ Value[a] > Value[b]
                  \/ Value[a] = Value[b] /\ a < b

\* Items are taken in rank order while what is covered falls short.
Chosen(r) ==
  {d \in Eligible(r) :
     ValueOf({e \in Eligible(r) : Outranks(e, d)}) < Need(r)}

ClosingSet(r) ==
  [k \in 1..Cardinality(Chosen(r)) |->
     CHOOSE d \in Chosen(r) :
       Cardinality({e \in Chosen(r) : Outranks(e, d)}) = k - 1]

-----------------------------------------------------------------------------
(* The loop                                                                *)

Running == ~thrown /\ state \notin TerminalStates

\* integrityHalt: the first reason that applies.
HaltReason ==
  IF refused THEN "TOOL_REFUSED"
  ELSE IF "ledger_verify" \in seen /\ ~(run.chain_ok /\ run.root_matches) THEN "CHAIN_BROKEN"
  ELSE IF "ledger_verify" \in seen /\ ~run.trial_ok THEN "TRIAL_BALANCE_FAILED"
  ELSE IF "close_report" \in seen /\ PeriodStatus(run) = "BLOCKED" THEN "PERIOD_BLOCKED"
  ELSE "none"

Defective ==
  \/ refused
  \/ "ledger_verify" \in seen /\ ~(run.chain_ok /\ run.root_matches /\ run.trial_ok)
  \/ "close_report" \in seen /\ PeriodStatus(run) = "BLOCKED"

\* Fault: the bound is met one step late.
SpentLate == steps > budget

Spent == steps >= budget

\* The state's own rule runs: no defect, steps left.
Free == Running /\ ~Defective /\ ~Spent

\* marker(): sizes and presences, not contents.
Marker == <<cursor, Len(closing_set), Cardinality(DOMAIN inspected),
            Len(escalated), seen, refused>>

\* The end of a turn: the step is pushed and the state moves on, unless
\* nothing observable changed, which ends the run with a second step.
Turn(next, stopReason, haltReason) ==
  /\ next \in AllowedTransitions[state]
  /\ IF next = state /\ Marker' = Marker
     THEN /\ state' = "COMPLETE"
          /\ stop' = "NO_PROGRESS"
          /\ halt' = "none"
          /\ steps' = steps + 2
     ELSE /\ state' = next
          /\ stop' = stopReason
          /\ halt' = haltReason
          /\ steps' = steps + 1
  /\ UNCHANGED <<run, budget, thrown>>

\* P0_INTEGRITY
Halt ==
  /\ Running
  /\ Defective
  /\ UNCHANGED memory
  /\ Turn("HALT", "none", HaltReason)

\* Fault: the budget outranks integrity.
OutOfBudgetFirst ==
  /\ Running
  /\ Spent
  /\ UNCHANGED memory
  /\ Turn("COMPLETE", "BUDGET_EXHAUSTED", "none")

\* SEQ_BUDGET
OutOfBudget ==
  /\ Running
  /\ ~Defective
  /\ Spent
  /\ UNCHANGED memory
  /\ Turn("COMPLETE", "BUDGET_EXHAUSTED", "none")

\* Fault: an undeclared transition is skipped and the loop goes round again.
IllegalTransitionSkipped ==
  /\ Running
  /\ ~Defective /\ Spent /\ "COMPLETE" \notin AllowedTransitions[state]
  /\ UNCHANGED vars

\* A transition the table does not declare is thrown, not taken.
IllegalTransition ==
  /\ Running
  /\ Defective \/ Spent
  /\ (IF Defective THEN "HALT" ELSE "COMPLETE") \notin AllowedTransitions[state]
  /\ thrown' = TRUE
  /\ UNCHANGED <<run, budget, state, memory, steps, stop, halt>>

\* invoke + observe for a read that is made once: its answer, or a refusal.
Read(tool) ==
  /\ \/ seen' = seen \cup {tool} /\ UNCHANGED refused
     \/ refused' = TRUE /\ UNCHANGED seen
  /\ UNCHANGED <<closing_set, cursor, inspected, escalated>>

\* SEQ_VERIFY
Verify ==
  /\ Free /\ state = "INIT"
  /\ Read("ledger_verify")
  /\ Turn("OBSERVE_CLOSE", "none", "none")

\* SEQ_OBSERVE, gathering
ObserveClose ==
  /\ Free /\ state = "OBSERVE_CLOSE"
  /\ "close_report" \notin seen
  /\ Read("close_report")
  /\ Turn("OBSERVE_CLOSE", "none", "none")

\* P1_ALREADY_CLOSED
AlreadyClosed ==
  /\ Free /\ state = "OBSERVE_CLOSE"
  /\ "close_report" \in seen
  /\ PeriodStatus(run) = "CLOSED"
  /\ UNCHANGED memory
  /\ Turn("COMPLETE", "CLOSED", "none")

\* SEQ_OBSERVE, with a residual to work
BeginTriage ==
  /\ Free /\ state = "OBSERVE_CLOSE"
  /\ "close_report" \in seen
  /\ PeriodStatus(run) # "CLOSED"
  /\ UNCHANGED memory
  /\ Turn("TRIAGE", "none", "none")

\* SEQ_TRIAGE, gathering
Triage ==
  /\ Free /\ state = "TRIAGE"
  /\ "exception_queue" \notin seen
  /\ Read("exception_queue")
  /\ Turn("TRIAGE", "none", "none")

\* SEQ_TRIAGE, with the queue in hand
BeginPlan ==
  /\ Free /\ state = "TRIAGE"
  /\ "exception_queue" \in seen
  /\ UNCHANGED memory
  /\ Turn("PLAN", "none", "none")

\* P2_NO_CLOSING_SET; a plan, empty, is still recorded
NoClosingSet ==
  /\ Free /\ state = "PLAN"
  /\ Chosen(run) = {}
  /\ closing_set' = ClosingSet(run)
  /\ cursor' = 0
  /\ UNCHANGED <<seen, refused, inspected, escalated>>
  /\ Turn("COMPLETE", IF Need(run) <= 0 THEN "CLOSED" ELSE "NO_ELIGIBLE_ITEM", "none")

\* SEQ_PLAN
Plan ==
  /\ Free /\ state = "PLAN"
  /\ Chosen(run) # {}
  /\ closing_set' = ClosingSet(run)
  /\ cursor' = 0
  /\ UNCHANGED <<seen, refused, inspected, escalated>>
  /\ Turn("ACT", "none", "none")

\* Fault: evidence is filed under the decision_id that was asked for.
FileRequested(requested, answered) ==
  inspected' = [d \in DOMAIN inspected \cup {requested} |->
                  IF d = requested THEN answered ELSE inspected[d]]

\* observe files evidence under the decision_id the evidence carries.
File(requested, answered) ==
  inspected' = [d \in DOMAIN inspected \cup {answered} |->
                  IF d = answered THEN answered ELSE inspected[d]]

\* SEQ_INSPECT: the item under the cursor has no evidence in memory yet.
Inspect ==
  /\ Free /\ state = "ACT"
  /\ cursor < Len(closing_set)
  /\ closing_set[cursor + 1] \notin DOMAIN inspected
  /\ \/ \E d \in Decisions : File(closing_set[cursor + 1], d) /\ UNCHANGED refused
     \/ refused' = TRUE /\ UNCHANGED inspected
  /\ UNCHANGED <<seen, closing_set, cursor, escalated>>
  /\ Turn("ACT", "none", "none")

\* P3_ESCALATE: the record is built from the evidence filed under the item.
Escalate ==
  /\ Free /\ state = "ACT"
  /\ cursor < Len(closing_set)
  /\ closing_set[cursor + 1] \in DOMAIN inspected
  /\ escalated' = Append(escalated, inspected[closing_set[cursor + 1]])
  /\ cursor' = cursor + 1
  /\ UNCHANGED <<seen, refused, closing_set, inspected>>
  /\ Turn("ESCALATE", "none", "none")

\* P4_ADVANCE_CURSOR, items left
NextItem ==
  /\ Free /\ state = "ESCALATE"
  /\ cursor < Len(closing_set)
  /\ UNCHANGED memory
  /\ Turn("ACT", "none", "none")

\* P4_ADVANCE_CURSOR, set worked through
HandOver ==
  /\ Free /\ state = "ESCALATE"
  /\ cursor >= Len(closing_set)
  /\ UNCHANGED memory
  /\ Turn("AWAIT_HUMAN", "none", "none")

\* SEQ_HANDOFF
AwaitHuman ==
  /\ Free /\ state = "AWAIT_HUMAN"
  /\ UNCHANGED memory
  /\ Turn("COMPLETE", "ESCALATED", "none")

-----------------------------------------------------------------------------
Init ==
  /\ run \in Runs
  /\ budget \in Budgets
  /\ state = "INIT"
  /\ seen = {}
  /\ refused = FALSE
  /\ closing_set = <<>>
  /\ cursor = 0
  /\ inspected = <<>>
  /\ escalated = <<>>
  /\ steps = 0
  /\ stop = "none"
  /\ halt = "none"
  /\ thrown = FALSE

Next ==
  \/ Halt \/ OutOfBudget \/ IllegalTransition
  \/ Verify
  \/ ObserveClose \/ AlreadyClosed \/ BeginTriage
  \/ Triage \/ BeginPlan
  \/ NoClosingSet \/ Plan
  \/ Inspect \/ Escalate
  \/ NextItem \/ HandOver
  \/ AwaitHuman

Spec == Init /\ [][Next]_vars

\* The loop is a while over synchronous turns whose tool promises settle.
FairSpec == Spec /\ WF_vars(Next)

-----------------------------------------------------------------------------
(* Properties                                                              *)

\* A started loop ends within its budget plus the one step that reports the
\* bound or the lack of progress (the 65 / 64 of apps/web's copy.ts:712).
StepsBounded == steps <= budget + 1

\* Integrity outranks every goal: a run that has seen a broken chain, a failed
\* trial balance, a BLOCKED period or a refused tool never reports COMPLETE,
\* not even when the budget ran out in the same step (policy.ts:350-356).
DefectNeverCompletes == state = "COMPLETE" => ~Defective

\* COMPLETE carries a stop reason and no halt reason, HALT the reverse
\* (telemetry.ts:169-172), and no reason is reported before the end.
ReasonsCoherent ==
  /\ state = "COMPLETE" <=> stop # "none"
  /\ state = "HALT" <=> halt # "none"

\* Each escalation record is about the very item of the closing set it was
\* raised for, in plan order, whatever a tool answered on the way.
EscalatesThePlan ==
  /\ Len(escalated) = cursor
  /\ \A i \in 1..cursor : escalated[i] = closing_set[i]

\* "The smallest set of Suspense items whose clearance would bring the residual
\* under the close threshold" (policy.ts:180-181): when some set of eligible
\* items covers the residual, the plan covers it too and no smaller set does.
SmallestClosingSet ==
  state = "ACT" =>
    \A S \in SUBSET Eligible(run) :
      ValueOf(S) >= Need(run) =>
        /\ Len(closing_set) <= Cardinality(S)
        /\ ValueOf({closing_set[i] : i \in DOMAIN closing_set}) >= Need(run)

\* ESCALATED: "every item that blocks the close has been escalated"
\* (state.ts:105-111).  Clearing what was escalated would close the period, or
\* nothing that could move the residual was left out.
EscalatedBlocksNothing ==
  stop = "ESCALATED" =>
    LET named == {escalated[i] : i \in DOMAIN escalated}
    IN  \/ run.unresolved - ValueOf(named) <= run.threshold
        \/ named = Eligible(run)

\* From the plan to the hand-over: the closing set is planned no larger than the
\* residual asks for, and a run that ends ESCALATED has left nothing of it out.
ClosingSetSuffices == SmallestClosingSet /\ EscalatedBlocksNothing

\* CLOSED is reported only of a period the close gate reported CLOSED
\* (state.ts:103-104).
ClosedIsClosed == stop = "CLOSED" => PeriodStatus(run) = "CLOSED"

\* Every started loop ends: in a terminal state, or by the legality throw.
Terminates == <>(state \in TerminalStates \/ thrown)

\* "every transition the policy can produce appears here" (state.ts:239-240):
\* the legality check never throws.
TransitionsDeclared == ~thrown
=============================================================================
