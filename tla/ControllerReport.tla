-------------------------- MODULE ControllerReport --------------------------
(***************************************************************************)
(* What a controller run leaves behind and how it is read: the trace       *)
(* machine.ts pushes step by step (packages/controller/src/trace.ts), the  *)
(* telemetry computed from it (telemetry.ts), the route's body             *)
(* (apps/api/src/routes/controller.ts) and the sentences the panel derives *)
(* (apps/web/src/components/ControllerPanel.tsx, src/lib/copy.ts).         *)
(*                                                                         *)
(* The loop is Controller's; trace only records it.  Digests are collision *)
(* free, so an input hash is the input: the decision that was asked about. *)
(* A sentence is a name for what it says.                                  *)
(***************************************************************************)
EXTENDS Controller, SequencesExt

CONSTANT Certified    \* the decisions whose evidence carries a certificate

ASSUME ReportAssumption == Certified \subseteq Decisions

VARIABLE trace        \* ControllerTrace.steps, each with what its tool returned

rvars == <<vars, trace>>

Ended == state \in TerminalStates

WritePhaseStates == {"APPLY_RESOLUTION", "RECHECK"}

ToolNames == {"close_report", "exception_queue", "decision_evidence", "ledger_verify"}

PolicyRules ==
  {"P0_INTEGRITY", "P1_ALREADY_CLOSED", "P2_NO_CLOSING_SET", "P3_ESCALATE",
   "P4_ADVANCE_CURSOR", "P5_NO_PROGRESS", "SEQ_VERIFY", "SEQ_OBSERVE", "SEQ_TRIAGE",
   "SEQ_INSPECT", "SEQ_PLAN", "SEQ_HANDOFF", "SEQ_BUDGET"}

-----------------------------------------------------------------------------
(* The trace: one entry per turn, and a second one when nothing changed    *)

NoTool == "none"
NoOne == 0 - 1

NoProgressEntry == [state |-> state, rule |-> "P5_NO_PROGRESS", tool |-> NoTool,
                    asked |-> NoOne, next |-> "COMPLETE"]

Record(rule, tool, asked) ==
  LET stuck == stop' = "NO_PROGRESS"
      entry == [state |-> state, rule |-> rule, tool |-> tool, asked |-> asked,
                next |-> IF stuck THEN state ELSE state']
  IN  trace' = trace \o <<entry>> \o (IF stuck THEN <<NoProgressEntry>> ELSE <<>>)

Call(rule, tool) == Record(rule, tool, NoOne)
Silent(rule) == Record(rule, NoTool, NoOne)

ReportInit == Init /\ trace = <<>>

ReportNext ==
  \/ Halt /\ Silent("P0_INTEGRITY")
  \/ OutOfBudget /\ Silent("SEQ_BUDGET")
  \/ IllegalTransition /\ UNCHANGED trace
  \/ Verify /\ Call("SEQ_VERIFY", "ledger_verify")
  \/ ObserveClose /\ Call("SEQ_OBSERVE", "close_report")
  \/ AlreadyClosed /\ Silent("P1_ALREADY_CLOSED")
  \/ BeginTriage /\ Silent("SEQ_OBSERVE")
  \/ Triage /\ Call("SEQ_TRIAGE", "exception_queue")
  \/ BeginPlan /\ Silent("SEQ_TRIAGE")
  \/ NoClosingSet /\ Silent("P2_NO_CLOSING_SET")
  \/ Plan /\ Silent("SEQ_PLAN")
  \/ Inspect /\ Record("SEQ_INSPECT", "decision_evidence", closing_set[cursor + 1])
  \/ Escalate /\ Silent("P3_ESCALATE")
  \/ NextItem /\ Silent("P4_ADVANCE_CURSOR")
  \/ HandOver /\ Silent("P4_ADVANCE_CURSOR")
  \/ AwaitHuman /\ Silent("SEQ_HANDOFF")

ReportSpec == ReportInit /\ [][ReportNext]_rvars

\* The loop is one task over awaited calls, as Controller's FairSpec says.
ReportFairSpec == ReportSpec /\ WF_rvars(ReportNext)

\* ControllerTrace.plan is not null, and its fields.
Planned == \E i \in DOMAIN trace : trace[i].rule \in {"SEQ_PLAN", "P2_NO_CLOSING_SET"}
PlanIds == ToSet(closing_set)
AlreadyUnder == Need(run) <= 0
CoversResidual == AlreadyUnder \/ ValueOf(PlanIds) >= Need(run)

\* residual_trajectory is filled by close_report answers.
GateRead == "close_report" \in seen

\* "observe-only": the literals of the trace, and of each step.
WritesAttempted == 0
WritesApplied == 0
CausedEvents == 0
ModelCalls == 0

TraceId == <<run, [i \in DOMAIN trace |-> <<i, trace[i].state, trace[i].rule, trace[i].next>>]>>

-----------------------------------------------------------------------------
(* evaluateController                                                      *)

CallsOf(tool) == Cardinality({i \in DOMAIN trace : trace[i].tool = tool})

\* Fault: only the last inspection is looked at.
InspectedLast(d) ==
  LET asks == {i \in DOMAIN trace : trace[i].tool = "decision_evidence"}
  IN  asks # {} /\ trace[CHOOSE i \in asks : \A j \in asks : j <= i].asked = d

\* Some step's input hash is the hash of a request for d.
Inspected(d) ==
  \E i \in DOMAIN trace : trace[i].tool = "decision_evidence" /\ trace[i].asked = d

\* escalationFor: the record's suspense key is the evidence's or the item's.
SuspenseKeyed(d) == d \in Keyed

\* escalationReasonFor and certificate_reason both read evidence.certificate.
ReasonOf(d) == IF d \in Certified THEN "AMBIGUOUS_CERTIFICATE" ELSE "NO_DETERMINISTIC_WARRANT"

CheckIds ==
  {"terminal_reached", "terminal_reason_coherent", "transitions_declared",
   "rules_declared", "budget_not_exhausted", "no_write_phase_state",
   "no_writes_attempted", "no_writes_applied", "no_caused_events", "no_model_call",
   "reads_only", "observations_hashed", "escalations_inspected",
   "trace_id_recomputes", "escalations_eligible", "escalations_planned",
   "escalation_reason_consistent"}

Group(c) ==
  IF c \in {"terminal_reached", "terminal_reason_coherent"} THEN "terminal"
  ELSE IF c \in {"transitions_declared", "rules_declared", "budget_not_exhausted"} THEN "policy"
  ELSE IF c \in {"observations_hashed", "escalations_inspected", "trace_id_recomputes"} THEN "grounding"
  ELSE IF c \in {"escalations_eligible", "escalations_planned", "escalation_reason_consistent"}
       THEN "escalation"
  ELSE "containment"

\* The checks of how the run ended, of the policy and of containment.
Obeyed(c) ==
  CASE c = "terminal_reached" -> state \in TerminalStates
    [] c = "terminal_reason_coherent" ->
         IF state = "COMPLETE" THEN stop # "none" /\ halt = "none"
                               ELSE halt # "none" /\ stop = "none"
    [] c = "transitions_declared" ->
         \A i \in DOMAIN trace : trace[i].next \in AllowedTransitions[trace[i].state]
    [] c = "rules_declared" -> \A i \in DOMAIN trace : trace[i].rule \in PolicyRules
    [] c = "budget_not_exhausted" -> stop # "BUDGET_EXHAUSTED"
    [] c = "no_write_phase_state" ->
         \A i \in DOMAIN trace : {trace[i].state, trace[i].next} \cap WritePhaseStates = {}
    [] c = "no_writes_attempted" -> WritesAttempted = 0
    [] c = "no_writes_applied" -> WritesApplied = 0
    [] c = "no_caused_events" -> CausedEvents = 0
    [] c = "no_model_call" -> ModelCalls = 0
    [] c = "reads_only" -> \A i \in DOMAIN trace : trace[i].tool \in ToolNames \cup {NoTool}

\* The checks of grounding and of escalation.
Grounded(c) ==
  CASE c = "observations_hashed" ->
         \A i \in DOMAIN trace :
           trace[i].tool = "decision_evidence" => trace[i].asked # NoOne
    [] c = "escalations_inspected" -> \A i \in DOMAIN escalated : Inspected(escalated[i])
    [] c = "trace_id_recomputes" -> Len(TraceId[2]) = Len(trace)
    [] c = "escalations_eligible" -> \A i \in DOMAIN escalated : SuspenseKeyed(escalated[i])
    [] c = "escalations_planned" -> ToSet(escalated) \subseteq (IF Planned THEN PlanIds ELSE {})
    [] c = "escalation_reason_consistent" ->
         \A i \in DOMAIN escalated :
           (ReasonOf(escalated[i]) = "AMBIGUOUS_CERTIFICATE") <=> escalated[i] \in Certified

Passed(c) == IF Group(c) \in {"grounding", "escalation"} THEN Grounded(c) ELSE Obeyed(c)

FailedChecks == {c \in CheckIds : ~Passed(c)}

Counters ==
  [steps |-> Len(trace), step_budget |-> budget,
   tool_calls |-> Cardinality({i \in DOMAIN trace : trace[i].tool # NoTool}),
   tool_calls_by_name |-> [t \in ToolNames |-> CallsOf(t)],
   escalations |-> Len(escalated),
   plan_size |-> IF Planned THEN Cardinality(PlanIds) ELSE 0,
   eligible_items |-> IF Planned THEN Cardinality(Eligible(run)) ELSE 0,
   ineligible_items |-> IF Planned THEN Cardinality(run.queue \ Eligible(run)) ELSE 0]

\* traceBody
financial_write_performed == WritesAttempted > 0 \/ WritesApplied > 0
awaiting_human_review == Len(escalated) > 0

-----------------------------------------------------------------------------
(* The panel                                                               *)

TerminalLabel == IF state = "HALT" THEN "Halted" ELSE stop

OutcomeTone == IF state = "HALT" THEN "halt" ELSE IF stop = "CLOSED" THEN "closed" ELSE "open"

StopHeadline ==
  IF state = "HALT" THEN "a guard stopped the loop"
  ELSE CASE stop = "CLOSED" -> "already inside the threshold"
         [] stop = "ESCALATED" -> "handed to human review"
         [] stop = "BUDGET_EXHAUSTED" -> "bound reached before the closing set was finished"
         [] stop = "NO_ELIGIBLE_ITEM" -> "no closing set exists"
         [] stop = "NO_PROGRESS" -> "no remaining step could move the residual"

\* outcomeSummary repeats the headline with the counts it names.
OutcomeSummary ==
  [headline |-> StopHeadline, wrote |-> financial_write_performed,
   escalated |-> Len(escalated), planned |-> Cardinality(PlanIds)]

Banner ==
  [label |-> TerminalLabel, tone |-> OutcomeTone,
   reason |-> IF state = "HALT" THEN halt ELSE stop,
   partial_badge |-> stop = "BUDGET_EXHAUSTED",
   bound_note |-> Counters.steps > Counters.step_budget,
   writes_clean |-> WritesApplied = 0]

EscalationClaim ==
  IF Counters.escalations = 0 THEN "nothing reached a person"
  ELSE IF awaiting_human_review THEN "with a person now"
  ELSE "recorded before the loop stopped"

\* stepBudgetBasis and stepBudgetCounterBasis: a trace over its budget ends in
\* "the terminal SEQ_BUDGET record".
StepBudgetBasis ==
  IF Counters.steps > Counters.step_budget THEN "used its full budget and stopped itself"
                                           ELSE "finished before the bound"

Visited == {trace[i].state : i \in DOMAIN trace}

ResultSummary == IF GateRead THEN PeriodStatus(run) ELSE "not read"

\* escalationWhy
EscalationWhy(d) ==
  IF ReasonOf(d) = "AMBIGUOUS_CERTIFICATE" THEN "abstained between two allocations"
                                           ELSE "no deterministic rule can clear it"

StageStates == <<"OBSERVE_CLOSE", "TRIAGE", "PLAN", "ACT", "ESCALATE", "AWAIT_HUMAN">>

Observed == IF GateRead THEN PeriodStatus(run) ELSE "the close gate was never read"

Triaged ==
  IF CallsOf("exception_queue") = 0 THEN "never read"
  ELSE IF ~Planned THEN "read, stopped before the plan"
  ELSE "read and ranked"

PlanStage ==
  IF ~Planned THEN "no plan was formed"
  ELSE IF AlreadyUnder THEN "already under the threshold"
  ELSE IF closing_set = <<>> THEN "nothing was eligible"
  ELSE IF CoversResidual THEN "clearing it would close" ELSE "clearing it would not close"

\* "n decision(s) were read in full"
ReadInFull == CallsOf("decision_evidence")

EscalatedStage ==
  IF escalated # <<>> THEN {EscalationWhy(escalated[i]) : i \in DOMAIN escalated}
  ELSE IF stop = "CLOSED" THEN {"nothing needed escalating"}
  ELSE IF stop = "NO_ELIGIBLE_ITEM" THEN {"nothing was eligible"}
  ELSE {"nothing was escalated"}

ReviewStage ==
  IF stop = "BUDGET_EXHAUSTED" THEN "ran out before the closing set was finished"
  ELSE IF awaiting_human_review THEN "waiting on a person"
  ELSE "no handoff was made"

\* RunNarrative: each stage, and whether its state was visited.
Narrative ==
  LET said == <<Observed, Triaged, PlanStage, ReadInFull, EscalatedStage, ReviewStage>>
  IN  [i \in 1..6 |-> [reached |-> StageStates[i] \in Visited, detail |-> said[i]]]

\* TELEMETRY_SUMMARY_ROWS: every check is covered by one row.
SummaryRow(c) == IF c = "trace_id_recomputes" THEN "reproducible" ELSE Group(c)

SummaryFails == {SummaryRow(c) : c \in FailedChecks}

\* The heading over the escalation records.
Heading == IF awaiting_human_review THEN "Awaiting human review"
                                    ELSE "the loop stopped before the handoff"

-----------------------------------------------------------------------------
(* Properties                                                              *)

\* What an inspection of d was answered with is what was asked, unless it was
\* filed under a decision nobody asked about.
OnlyAskedIsFiled == \A d \in DOMAIN inspected : Inspected(d)

\* "Every entry below is a property of one execution, verifiable from the trace
\* alone" (telemetry.ts:22-30): at the end of every run the checks agree with
\* what happened.  The bound is reported exactly when it stopped the run, and an
\* escalation fails its grounding check exactly when its evidence came in answer
\* to a request for another decision; nothing else ever fails.
TelemetryTellsWhy ==
  Ended =>
    /\ FailedChecks \subseteq {"budget_not_exhausted", "escalations_inspected"}
    /\ "budget_not_exhausted" \in FailedChecks <=> trace[Len(trace)].rule = "SEQ_BUDGET"
    /\ "escalations_inspected" \in FailedChecks
         <=> \E d \in ToSet(escalated) : \A i \in DOMAIN trace :
               (trace[i].rule = "SEQ_INSPECT" => trace[i].asked # d)
    /\ OnlyAskedIsFiled => "escalations_inspected" \notin FailedChecks

\* "Only the run that actually reached AWAIT_HUMAN is waiting on a person.
\* [...] awaiting_human_review is the trace's own field for it"
\* (ControllerPanel.tsx:1084-1089).
AwaitingMeansHandedOver == Ended /\ awaiting_human_review => "AWAIT_HUMAN" \in Visited

\* "The step bound was reached before the closing set was finished"
\* (ControllerPanel.tsx:145).
BoundMeansUnfinished ==
  Ended /\ StopHeadline = "bound reached before the closing set was finished" =>
    (Planned => Len(escalated) < Len(closing_set))

\* "the exception queue was read, but the loop stopped before the plan that
\* ranks it was formed" (ControllerPanel.tsx:566).
ReadMeansAnswered == Ended /\ Triaged # "never read" => "exception_queue" \in seen

\* "plus one terminal SEQ_BUDGET record marking where it stopped" (copy.ts:734-735).
OverBudgetIsTheBudget ==
  Ended /\ StepBudgetBasis = "used its full budget and stopped itself" =>
    trace[Len(trace)].rule = "SEQ_BUDGET"
=============================================================================
