-------------------------- MODULE ControllerProofs --------------------------
(***************************************************************************)
(* Proofs about Controller and ControllerReport, for any set of runs, any  *)
(* decisions and any budgets.  Three invariants, each on top of the last:  *)
(* IInv, the loop (a property needs to know where in it a piece of memory  *)
(* can already hold something: Gathered, Untouched, InBudget); PlanInv,    *)
(* the plan, over what is proved of sums and of the rank order; TraceInv,  *)
(* the trace.                                                              *)
(***************************************************************************)
EXTENDS ControllerReport, FiniteSetTheorems, WellFoundedInduction, TLAPS

\* What the proofs need of the types; PlanInHand adds that of closing_set.
LoopTyped ==
  /\ run \in Runs
  /\ budget \in Nat
  /\ state \in ControllerStates
  /\ refused \in BOOLEAN
  /\ cursor \in Nat
  /\ escalated \in Seq(Decisions)
  /\ steps \in Nat

\* Evidence is filed under the decision it is about.
EvidenceUnderItsOwnId ==
  \A d \in DOMAIN inspected : d \in Decisions /\ inspected[d] = d

\* From TRIAGE on the close report is in memory.
Gathered ==
  state \in {"TRIAGE", "PLAN", "ACT", "ESCALATE", "AWAIT_HUMAN"} =>
    "close_report" \in seen

\* Before the plan is made nothing has been escalated.
Untouched ==
  state \in {"INIT", "OBSERVE_CLOSE", "TRIAGE", "PLAN"} =>
    cursor = 0 /\ escalated = <<>>

\* A loop that goes on has not overrun its budget.
InBudget == state \notin TerminalStates => steps <= budget

Supports == /\ LoopTyped
            /\ EvidenceUnderItsOwnId
            /\ Gathered
            /\ Untouched
            /\ InBudget

IInv == /\ Supports
        /\ StepsBounded
        /\ DefectNeverCompletes
        /\ ReasonsCoherent
        /\ EscalatesThePlan
        /\ ClosedIsClosed

-----------------------------------------------------------------------------
(* What a defect is, and what a period status says                         *)

\* integrityHalt names a reason exactly when there is a defect.
LEMMA DefectNamed == Defective <=> HaltReason # "none"
BY DEF Defective, HaltReason

\* A report that is neither BLOCKED nor over the threshold is CLOSED.
LEMMA UnderThresholdCloses ==
  ASSUME NEW r \in Runs, PeriodStatus(r) # "BLOCKED", Need(r) <= 0
  PROVE  PeriodStatus(r) = "CLOSED"
<1>1. r.unresolved \in Nat /\ r.threshold \in Nat
  BY ControllerAssumption DEF SealedRuns
<1> QED BY <1>1 DEF PeriodStatus, Need

-----------------------------------------------------------------------------
(* The inductive invariant                                                 *)

LEMMA InitIInv == Init => IInv
<1> SUFFICES ASSUME Init PROVE IInv
  OBVIOUS
<1>1. budget \in Nat
  BY ControllerAssumption DEF Init
<1>2. LoopTyped
  <2>1. escalated \in Seq(Decisions)
    BY DEF Init
  <2>2. state \in ControllerStates
    BY DEF Init, ControllerStates
  <2>3. refused \in BOOLEAN
    BY DEF Init
  <2> QED BY <1>1, <2>1, <2>2, <2>3 DEF Init, LoopTyped
<1>3. EvidenceUnderItsOwnId
  BY DEF Init, EvidenceUnderItsOwnId
<1>4. Gathered /\ Untouched /\ InBudget
  BY <1>1 DEF Init, Gathered, Untouched, InBudget
<1>5. StepsBounded /\ DefectNeverCompletes /\ ReasonsCoherent /\ EscalatesThePlan
      /\ ClosedIsClosed
  BY <1>1 DEF Init, StepsBounded, DefectNeverCompletes, ReasonsCoherent,
              EscalatesThePlan, ClosedIsClosed
<1> QED BY <1>2, <1>3, <1>4, <1>5 DEF IInv, Supports

\* What one turn does to the variables of the loop: the budget holds, and the
\* run either stops for lack of progress or moves to the state asked for.
LEMMA TurnStep ==
  ASSUME NEW next, NEW stopReason, NEW haltReason,
         Turn(next, stopReason, haltReason)
  PROVE  /\ run' = run /\ budget' = budget /\ thrown' = thrown
         /\ \/ /\ next = state /\ Marker' = Marker
               /\ state' = "COMPLETE" /\ stop' = "NO_PROGRESS" /\ halt' = "none"
               /\ steps' = steps + 2
            \/ /\ state' = next /\ stop' = stopReason /\ halt' = haltReason
               /\ steps' = steps + 1
BY DEF Turn

LEMMA NextIInv == IInv /\ [Next]_vars => IInv'
<1> SUFFICES ASSUME IInv, [Next]_vars PROVE IInv'
  OBVIOUS
<1> USE DEF IInv, Supports, LoopTyped, EvidenceUnderItsOwnId, Gathered, Untouched,
            InBudget, StepsBounded, DefectNeverCompletes, ReasonsCoherent,
            EscalatesThePlan, ClosedIsClosed, memory, TerminalStates, Running
<1>1. CASE Halt
  <2>1. HaltReason # "none"
    BY <1>1, DefectNamed DEF Halt
  <2>2. Running /\ Turn("HALT", "none", HaltReason) /\ UNCHANGED memory
    BY <1>1 DEF Halt
  <2>3. /\ run' = run /\ budget' = budget /\ steps' = steps + 1
        /\ state' = "HALT" /\ stop' = "none" /\ halt' = HaltReason
    BY <2>2, TurnStep
  <2> QED BY <2>1, <2>2, <2>3 DEF ControllerStates
<1>2. CASE OutOfBudget
  <2>1. Turn("COMPLETE", "BUDGET_EXHAUSTED", "none") /\ UNCHANGED memory /\ ~Defective
    BY <1>2 DEF OutOfBudget
  <2>2. /\ run' = run /\ budget' = budget /\ steps' = steps + 1
        /\ state' = "COMPLETE" /\ stop' = "BUDGET_EXHAUSTED" /\ halt' = "none"
    BY <1>2, <2>1, TurnStep DEF OutOfBudget
  <2> QED BY <1>2, <2>1, <2>2 DEF ControllerStates, Defective, OutOfBudget
<1>3. CASE IllegalTransition
  BY <1>3 DEF IllegalTransition, Defective
<1>4. CASE Verify
  <2>1. /\ Running /\ steps < budget /\ state = "INIT"
        /\ Read("ledger_verify") /\ Turn("OBSERVE_CLOSE", "none", "none")
    BY <1>4 DEF Verify, Free, Spent
  <2>2. /\ run' = run /\ budget' = budget /\ steps' = steps + 1
        /\ state' = "OBSERVE_CLOSE" /\ stop' = "none" /\ halt' = "none"
    BY <2>1, TurnStep
  <2>3. /\ refused' \in BOOLEAN /\ UNCHANGED <<closing_set, cursor, inspected, escalated>>
    BY <2>1 DEF Read
  <2> QED BY <2>1, <2>2, <2>3 DEF ControllerStates
<1>5. CASE ObserveClose
  <2>1. /\ Running /\ steps < budget /\ ~Defective /\ state = "OBSERVE_CLOSE"
        /\ "close_report" \notin seen /\ Read("close_report") /\ Turn("OBSERVE_CLOSE", "none", "none")
    BY <1>5 DEF ObserveClose, Free, Spent
  <2>2. Marker' # Marker
    BY <2>1 DEF Read, Marker, Defective
  <2>3. /\ run' = run /\ budget' = budget /\ steps' = steps + 1
        /\ state' = "OBSERVE_CLOSE" /\ stop' = "none" /\ halt' = "none"
    BY <2>1, <2>2, TurnStep
  <2>4. /\ refused' \in BOOLEAN /\ UNCHANGED <<closing_set, cursor, inspected, escalated>>
        /\ seen \subseteq seen'
    BY <2>1 DEF Read
  <2> QED BY <2>1, <2>3, <2>4 DEF ControllerStates
<1>6. CASE AlreadyClosed
  <2>1. /\ Running /\ steps < budget /\ ~Defective /\ state = "OBSERVE_CLOSE"
        /\ PeriodStatus(run) = "CLOSED"
        /\ UNCHANGED memory /\ Turn("COMPLETE", "CLOSED", "none")
    BY <1>6 DEF AlreadyClosed, Free, Spent
  <2>2. /\ run' = run /\ budget' = budget /\ steps' = steps + 1
        /\ state' = "COMPLETE" /\ stop' = "CLOSED" /\ halt' = "none"
    BY <2>1, TurnStep
  <2> QED BY <2>1, <2>2 DEF ControllerStates, Defective
<1>7. CASE BeginTriage
  <2>1. /\ Running /\ steps < budget /\ ~Defective /\ state = "OBSERVE_CLOSE"
        /\ "close_report" \in seen
        /\ UNCHANGED memory /\ Turn("TRIAGE", "none", "none")
    BY <1>7 DEF BeginTriage, Free, Spent
  <2>2. /\ run' = run /\ budget' = budget /\ steps' = steps + 1
        /\ state' = "TRIAGE" /\ stop' = "none" /\ halt' = "none"
    BY <2>1, TurnStep
  <2> QED BY <2>1, <2>2 DEF ControllerStates
<1>8. CASE Triage
  <2>1. /\ Running /\ steps < budget /\ ~Defective /\ state = "TRIAGE"
        /\ "exception_queue" \notin seen /\ Read("exception_queue") /\ Turn("TRIAGE", "none", "none")
    BY <1>8 DEF Triage, Free, Spent
  <2>2. Marker' # Marker
    BY <2>1 DEF Read, Marker, Defective
  <2>3. /\ run' = run /\ budget' = budget /\ steps' = steps + 1
        /\ state' = "TRIAGE" /\ stop' = "none" /\ halt' = "none"
    BY <2>1, <2>2, TurnStep
  <2>4. /\ refused' \in BOOLEAN /\ UNCHANGED <<closing_set, cursor, inspected, escalated>>
        /\ seen \subseteq seen'
    BY <2>1 DEF Read
  <2> QED BY <2>1, <2>3, <2>4 DEF ControllerStates
<1>9. CASE BeginPlan
  <2>1. /\ Running /\ steps < budget /\ ~Defective /\ state = "TRIAGE"
        /\ UNCHANGED memory /\ Turn("PLAN", "none", "none")
    BY <1>9 DEF BeginPlan, Free, Spent
  <2>2. /\ run' = run /\ budget' = budget /\ steps' = steps + 1
        /\ state' = "PLAN" /\ stop' = "none" /\ halt' = "none"
    BY <2>1, TurnStep
  <2> QED BY <2>1, <2>2 DEF ControllerStates
<1>10. CASE NoClosingSet
  <2> DEFINE reason == IF Need(run) <= 0 THEN "CLOSED" ELSE "NO_ELIGIBLE_ITEM"
  <2>1. /\ Running /\ steps < budget /\ ~Defective /\ state = "PLAN"
        /\ cursor' = 0 /\ UNCHANGED <<seen, refused, inspected, escalated>>
        /\ Turn("COMPLETE", reason, "none")
    BY <1>10 DEF NoClosingSet, Free, Spent
  <2>2. /\ run' = run /\ budget' = budget /\ steps' = steps + 1
        /\ state' = "COMPLETE" /\ stop' = reason /\ halt' = "none"
    BY <2>1, TurnStep
  <2>3. ~Defective'
    BY <2>1, <2>2 DEF Defective
  <2>4. reason = "CLOSED" => PeriodStatus(run) = "CLOSED"
    BY <2>1, UnderThresholdCloses DEF Defective
  <2>5. reason # "none" /\ (reason = "CLOSED" \/ reason = "NO_ELIGIBLE_ITEM")
    OBVIOUS
  <2> HIDE DEF reason
  <2>6. cursor = 0 /\ escalated = <<>>
    BY <2>1
  <2>7. LoopTyped' /\ EscalatesThePlan' /\ ClosedIsClosed' /\ EvidenceUnderItsOwnId'
    BY <2>1, <2>2, <2>4, <2>6 DEF ControllerStates
  <2> QED BY <2>1, <2>2, <2>3, <2>5, <2>7
<1>11. CASE Plan
  <2>1. /\ Running /\ steps < budget /\ ~Defective /\ state = "PLAN"
        /\ cursor' = 0 /\ UNCHANGED <<seen, refused, inspected, escalated>>
        /\ Turn("ACT", "none", "none")
    BY <1>11 DEF Plan, Free, Spent
  <2>2. /\ run' = run /\ budget' = budget /\ steps' = steps + 1
        /\ state' = "ACT" /\ stop' = "none" /\ halt' = "none"
    BY <2>1, TurnStep
  <2>3. cursor = 0 /\ escalated = <<>>
    BY <2>1
  <2> QED BY <2>1, <2>2, <2>3 DEF ControllerStates
<1>12. CASE Inspect
  <2>1. /\ Running /\ steps < budget /\ ~Defective /\ state = "ACT"
        /\ UNCHANGED <<seen, closing_set, cursor, escalated>>
        /\ Turn("ACT", "none", "none")
    BY <1>12 DEF Inspect, Free, Spent
  <2>2. \/ refused' = refused /\ \E d \in Decisions : File(closing_set[cursor + 1], d)
        \/ refused' = TRUE /\ inspected' = inspected
    BY <1>12 DEF Inspect
  <2>3. EvidenceUnderItsOwnId'
    BY <2>2 DEF File
  <2>4. refused' \in BOOLEAN
    BY <2>2
  <2>5. /\ run' = run /\ budget' = budget
        /\ \/ /\ refused' = refused /\ steps' = steps + 2
              /\ state' = "COMPLETE" /\ stop' = "NO_PROGRESS" /\ halt' = "none"
           \/ /\ state' = "ACT" /\ stop' = "none" /\ halt' = "none"
              /\ steps' = steps + 1
    BY <2>1, TurnStep DEF Marker
  <2>6. DefectNeverCompletes'
    BY <2>1, <2>5 DEF Defective
  <2> QED BY <2>1, <2>3, <2>4, <2>5, <2>6 DEF ControllerStates
<1>13. CASE Escalate
  <2> DEFINE item == closing_set[cursor + 1]
  <2>1. /\ Running /\ steps < budget /\ ~Defective /\ state = "ACT"
        /\ item \in DOMAIN inspected
        /\ escalated' = Append(escalated, inspected[item]) /\ cursor' = cursor + 1
        /\ UNCHANGED <<seen, refused, closing_set, inspected>>
        /\ Turn("ESCALATE", "none", "none")
    BY <1>13 DEF Escalate, Free, Spent
  <2>2. /\ run' = run /\ budget' = budget /\ steps' = steps + 1
        /\ state' = "ESCALATE" /\ stop' = "none" /\ halt' = "none"
    BY <2>1, TurnStep
  <2>3. item \in Decisions /\ inspected[item] = item
    BY <2>1
  <2>4. /\ escalated' \in Seq(Decisions) /\ Len(escalated') = cursor'
        /\ \A i \in 1..cursor' : escalated'[i] = closing_set'[i]
    BY <2>1, <2>3
  <2> QED BY <2>1, <2>2, <2>4 DEF ControllerStates
<1>14. CASE NextItem
  <2>1. /\ Running /\ steps < budget /\ ~Defective /\ state = "ESCALATE"
        /\ UNCHANGED memory /\ Turn("ACT", "none", "none")
    BY <1>14 DEF NextItem, Free, Spent
  <2>2. /\ run' = run /\ budget' = budget /\ steps' = steps + 1
        /\ state' = "ACT" /\ stop' = "none" /\ halt' = "none"
    BY <2>1, TurnStep
  <2> QED BY <2>1, <2>2 DEF ControllerStates
<1>15. CASE HandOver
  <2>1. /\ Running /\ steps < budget /\ ~Defective /\ state = "ESCALATE"
        /\ UNCHANGED memory /\ Turn("AWAIT_HUMAN", "none", "none")
    BY <1>15 DEF HandOver, Free, Spent
  <2>2. /\ run' = run /\ budget' = budget /\ steps' = steps + 1
        /\ state' = "AWAIT_HUMAN" /\ stop' = "none" /\ halt' = "none"
    BY <2>1, TurnStep
  <2> QED BY <2>1, <2>2 DEF ControllerStates
<1>16. CASE AwaitHuman
  <2>1. /\ Running /\ steps < budget /\ ~Defective /\ state = "AWAIT_HUMAN"
        /\ UNCHANGED memory /\ Turn("COMPLETE", "ESCALATED", "none")
    BY <1>16 DEF AwaitHuman, Free, Spent
  <2>2. /\ run' = run /\ budget' = budget /\ steps' = steps + 1
        /\ state' = "COMPLETE" /\ stop' = "ESCALATED" /\ halt' = "none"
    BY <2>1, TurnStep
  <2> QED BY <2>1, <2>2 DEF ControllerStates, Defective
<1>17. CASE UNCHANGED vars
  BY <1>17 DEF vars, Defective
<1> QED
  BY <1>1, <1>2, <1>3, <1>4, <1>5, <1>6, <1>7, <1>8, <1>9, <1>10, <1>11, <1>12,
     <1>13, <1>14, <1>15, <1>16, <1>17 DEF Next

-----------------------------------------------------------------------------
(* Sums over sets of decisions.  The library adds in an order CHOOSE picks; *)
(* that no order matters is proved from a smallest set where one would.    *)

\* A set of subsets of a finite set has a smallest member.
LEMMA SmallestSubset ==
  ASSUME NEW D, IsFiniteSet(D), NEW F, F \subseteq SUBSET D, F # {}
  PROVE  \E T \in F : \A S \in F : S \subseteq T => S = T
<1>1. IsWellFoundedOn(StrictSubsetOrdering(D), SUBSET D)
  BY FS_StrictSubsetOrderingWellFounded, FS_FiniteSubsetsOfFinite
<1>2. PICK T \in F : \A S \in F : ~ (<<S, T>> \in StrictSubsetOrdering(D))
  BY <1>1, WFMin
<1>3. \A S \in F : S \subseteq T => S = T
  <2> SUFFICES ASSUME NEW S \in F, S \subseteq T, S # T
               PROVE  <<S, T>> \in StrictSubsetOrdering(D)
    BY <1>2
  <2> QED BY DEF StrictSubsetOrdering
<1> QED BY <1>3

\* The item ValueOf takes first out of a set, what it leaves, and the equation
\* its library definition solves.
First(s) == CHOOSE x \in s : TRUE
Rest(s) == s \ {First(s)}
Adds(f, S) == f = [s \in SUBSET S |-> IF s = {} THEN 0 ELSE Value[First(s)] + f[Rest(s)]]

LEMMA ValueOfChooses == \A S : ValueOf(S) = (CHOOSE f : Adds(f, S))[S]
BY DEF ValueOf, MapThenSumSet, MapThenFoldSet, Adds, First, Rest

LEMMA FirstIsIn == \A s : s # {} => First(s) \in s
BY DEF First

\* Two solutions of the equation agree.
LEMMA AddsOnce ==
  ASSUME NEW S, IsFiniteSet(S), NEW f, NEW g, Adds(f, S), Adds(g, S)
  PROVE  f = g
<1> DEFINE F == {s \in SUBSET S : f[s] # g[s]}
<1>1. SUFFICES F = {}
  BY DEF Adds
<1>2. SUFFICES ASSUME F # {} PROVE FALSE
  OBVIOUS
<1>3. PICK T \in F : \A s \in F : s \subseteq T => s = T
  <2>1. F \subseteq SUBSET S
    OBVIOUS
  <2> HIDE DEF F
  <2> QED BY <1>2, <2>1, SmallestSubset
<1>4. T # {}
  BY <1>3 DEF Adds
<1>5. Rest(T) \subseteq T /\ Rest(T) # T /\ Rest(T) \in SUBSET S
  BY <1>3, <1>4, FirstIsIn DEF Rest
<1>6. f[Rest(T)] = g[Rest(T)]
  BY <1>3, <1>5
<1>7. /\ f[T] = Value[First(T)] + f[Rest(T)]
      /\ g[T] = Value[First(T)] + g[Rest(T)]
  BY <1>3, <1>4 DEF Adds
<1> QED BY <1>3, <1>6, <1>7

\* The sum over a set is its first item's value and the sum over the rest.
Unfolds(S) == ValueOf(S) = IF S = {} THEN 0 ELSE Value[First(S)] + ValueOf(Rest(S))

LEMMA SumUnfolds ==
  ASSUME NEW D, IsFiniteSet(D)
  PROVE  Unfolds(D)
<1> DEFINE F == {s \in SUBSET D : ~Unfolds(s)}
<1>1. SUFFICES ASSUME F # {} PROVE FALSE
  OBVIOUS
<1>2. PICK T \in F : \A s \in F : s \subseteq T => s = T
  <2>1. F \subseteq SUBSET D
    OBVIOUS
  <2> HIDE DEF F
  <2> QED BY <1>1, <2>1, SmallestSubset
<1>3. \A s \in SUBSET T : s # T => Unfolds(s)
  BY <1>2
<1> DEFINE f == [s \in SUBSET T |-> IF s = {} THEN 0 ELSE Value[First(s)] + ValueOf(Rest(s))]
<1>4. \A s \in SUBSET T : s # T => f[s] = ValueOf(s)
  BY <1>3 DEF Unfolds
<1>5. \A s \in SUBSET T : s # {} => Rest(s) \in SUBSET T /\ Rest(s) # T
  BY FirstIsIn DEF Rest
<1>6. Adds(f, T)
  <2>1. \A s \in SUBSET T : s # {} => ValueOf(Rest(s)) = f[Rest(s)]
    BY <1>4, <1>5
  <2>2. f = [s \in SUBSET T |-> IF s = {} THEN 0 ELSE Value[First(s)] + f[Rest(s)]]
    BY <2>1, Zenon
  <2> QED BY <2>2 DEF Adds
<1> HIDE DEF f
<1>7. (CHOOSE h : Adds(h, T)) = f
  <2>1. Adds((CHOOSE h : Adds(h, T)), T)
    BY <1>6
  <2>2. IsFiniteSet(T)
    BY <1>2, FS_Subset
  <2> QED BY <1>6, <2>1, <2>2, AddsOnce
<1>8. ValueOf(T) = f[T]
  BY <1>7, ValueOfChooses
<1>9. Unfolds(T)
  BY <1>8 DEF Unfolds, f
<1> QED BY <1>2, <1>9

LEMMA SumOfNone == ValueOf({}) = 0
BY SumUnfolds, FS_EmptySet DEF Unfolds

LEMMA PartsAreFinite == \A S \in SUBSET Decisions : IsFiniteSet(S)
BY ControllerAssumption, FS_Subset

\* A property of sets of decisions that fails somewhere fails first somewhere.
LEMMA FirstFailure ==
  ASSUME NEW F, F \subseteq SUBSET Decisions, F # {}
  PROVE  \E T \in F : \A S \in F : S \subseteq T => S = T
<1>1. IsFiniteSet(Decisions)
  BY ControllerAssumption
<1> QED BY <1>1, SmallestSubset

LEMMA SumIsNat == \A S \in SUBSET Decisions : ValueOf(S) \in Nat
<1> DEFINE F == {S \in SUBSET Decisions : ValueOf(S) \notin Nat}
<1>1. SUFFICES ASSUME F # {} PROVE FALSE
  OBVIOUS
<1>2. PICK T \in F : \A S \in F : S \subseteq T => S = T
  <2>1. F \subseteq SUBSET Decisions
    OBVIOUS
  <2> HIDE DEF F
  <2> QED BY <1>1, <2>1, FirstFailure
<1>3. T \in SUBSET Decisions /\ ValueOf(T) \notin Nat /\ T # {}
  BY <1>2, SumOfNone
<1>4. First(T) \in T /\ Rest(T) \in SUBSET Decisions /\ ValueOf(Rest(T)) \in Nat
  BY <1>2, <1>3, FirstIsIn DEF Rest
<1>5. Value[First(T)] \in Nat
  BY <1>3, <1>4, ControllerAssumption
<1>6. ValueOf(T) = Value[First(T)] + ValueOf(Rest(T))
  BY <1>3, SumUnfolds, PartsAreFinite DEF Unfolds
<1> QED BY <1>3, <1>4, <1>5, <1>6

\* Any item may be taken out first.
LEMMA SumTakesAny ==
  \A S \in SUBSET Decisions : \A x \in S : ValueOf(S) = Value[x] + ValueOf(S \ {x})
<1> DEFINE F == {S \in SUBSET Decisions : \E x \in S : ValueOf(S) # Value[x] + ValueOf(S \ {x})}
<1>1. SUFFICES ASSUME F # {} PROVE FALSE
  OBVIOUS
<1>2. PICK T \in F : \A S \in F : S \subseteq T => S = T
  <2>1. F \subseteq SUBSET Decisions
    OBVIOUS
  <2> HIDE DEF F
  <2> QED BY <1>1, <2>1, FirstFailure
<1>3. PICK x \in T : ValueOf(T) # Value[x] + ValueOf(T \ {x})
  BY <1>2
<1> DEFINE y == First(T)
<1>4. T \in SUBSET Decisions /\ y \in T
  BY <1>2, <1>3, FirstIsIn
<1>5. ValueOf(T) = Value[y] + ValueOf(T \ {y})
  BY <1>3, <1>4, SumUnfolds, PartsAreFinite DEF Unfolds, Rest
<1> HIDE DEF y
<1>6. x # y
  BY <1>3, <1>5
<1>7. ValueOf(T \ {y}) = Value[x] + ValueOf((T \ {y}) \ {x})
  <2>1. T \ {y} \in SUBSET Decisions /\ T \ {y} \notin F /\ x \in T \ {y}
    BY <1>2, <1>3, <1>4, <1>6
  <2> QED BY <2>1
<1>8. ValueOf(T \ {x}) = Value[y] + ValueOf((T \ {x}) \ {y})
  <2>1. T \ {x} \in SUBSET Decisions /\ T \ {x} \notin F /\ y \in T \ {x}
    BY <1>2, <1>3, <1>4, <1>6
  <2> QED BY <2>1
<1>9. (T \ {x}) \ {y} = (T \ {y}) \ {x}
  OBVIOUS
<1>10. Value[x] \in Nat /\ Value[y] \in Nat /\ ValueOf((T \ {y}) \ {x}) \in Nat
  <2>1. (T \ {y}) \ {x} \in SUBSET Decisions
    BY <1>4
  <2>2. ValueOf((T \ {y}) \ {x}) \in Nat
    BY <2>1, SumIsNat
  <2> QED BY <1>3, <1>4, <2>2, ControllerAssumption
<1> QED BY <1>3, <1>5, <1>7, <1>8, <1>9, <1>10

\* More items are worth no less.
LEMMA SumGrows ==
  \A B \in SUBSET Decisions : \A A \in SUBSET B : ValueOf(A) <= ValueOf(B)
<1> DEFINE F == {B \in SUBSET Decisions : \E A \in SUBSET B : ~(ValueOf(A) <= ValueOf(B))}
<1>1. SUFFICES ASSUME F # {} PROVE FALSE
  OBVIOUS
<1>2. PICK B \in F : \A S \in F : S \subseteq B => S = B
  <2>1. F \subseteq SUBSET Decisions
    OBVIOUS
  <2> HIDE DEF F
  <2> QED BY <1>1, <2>1, FirstFailure
<1>3. PICK A \in SUBSET B : ~(ValueOf(A) <= ValueOf(B))
  BY <1>2
<1>4. ValueOf(B) \in Nat /\ ValueOf(A) \in Nat
  BY <1>2, SumIsNat
<1>5. PICK x \in B : x \notin A
  BY <1>3, <1>4
<1>6. ValueOf(A) <= ValueOf(B \ {x})
  <2>1. B \ {x} \in SUBSET Decisions /\ B \ {x} \notin F
    BY <1>2
  <2>2. A \in SUBSET (B \ {x})
    BY <1>5
  <2> QED BY <2>1, <2>2
<1>7. /\ ValueOf(B) = Value[x] + ValueOf(B \ {x})
      /\ Value[x] \in Nat /\ ValueOf(B \ {x}) \in Nat
  BY <1>2, SumTakesAny, SumIsNat, ControllerAssumption
<1> QED BY <1>3, <1>4, <1>6, <1>7

\* A sum is the sum of what lies in a set and of what lies outside it.
LEMMA SumSplits ==
  \A S, T \in SUBSET Decisions : ValueOf(S) = ValueOf(S \cap T) + ValueOf(S \ T)
<1> SUFFICES ASSUME NEW T \in SUBSET Decisions
             PROVE  \A S \in SUBSET Decisions : ValueOf(S) = ValueOf(S \cap T) + ValueOf(S \ T)
  OBVIOUS
<1> DEFINE F == {S \in SUBSET Decisions : ValueOf(S) # ValueOf(S \cap T) + ValueOf(S \ T)}
<1>1. SUFFICES ASSUME F # {} PROVE FALSE
  OBVIOUS
<1>2. PICK S \in F : \A U \in F : U \subseteq S => U = S
  <2>1. F \subseteq SUBSET Decisions
    OBVIOUS
  <2> HIDE DEF F
  <2> QED BY <1>1, <2>1, FirstFailure
<1>3. ASSUME S \ T = {} PROVE FALSE
  <2>1. S \cap T = S
    BY <1>3
  <2>2. ValueOf(S) \in Nat /\ ValueOf(S \ T) = 0
    BY <1>2, <1>3, SumOfNone, SumIsNat
  <2>3. ValueOf(S) # ValueOf(S) + 0
    BY <1>2, <2>1, <2>2
  <2> QED BY <2>2, <2>3
<1>4. PICK x \in S : x \notin T
  BY <1>3
<1>5. ValueOf(S \ {x}) = ValueOf(S \cap T) + ValueOf((S \ T) \ {x})
  <2>1. S \ {x} \in SUBSET Decisions /\ S \ {x} \notin F
    BY <1>2
  <2>2. (S \ {x}) \cap T = S \cap T /\ (S \ {x}) \ T = (S \ T) \ {x}
    BY <1>4
  <2> QED BY <2>1, <2>2
<1>6. /\ ValueOf(S) = Value[x] + ValueOf(S \ {x})
      /\ ValueOf(S \ T) = Value[x] + ValueOf((S \ T) \ {x})
  BY <1>2, <1>4, SumTakesAny
<1>7. /\ Value[x] \in Nat
      /\ ValueOf(S \cap T) \in Nat /\ ValueOf((S \ T) \ {x}) \in Nat
  <2>1. S \cap T \in SUBSET Decisions /\ (S \ T) \ {x} \in SUBSET Decisions
    BY <1>2
  <2> QED BY <1>2, <2>1, SumIsNat, ControllerAssumption
<1> QED BY <1>2, <1>5, <1>6, <1>7

\* No more items, none of them worth more, are worth no more together.
LEMMA SumExchanges ==
  \A A, B \in SUBSET Decisions :
    Cardinality(A) <= Cardinality(B) /\ (\A a \in A, b \in B : Value[a] <= Value[b])
      => ValueOf(A) <= ValueOf(B)
<1> DEFINE Worse(A, B) ==
      /\ Cardinality(A) <= Cardinality(B)
      /\ \A a \in A, b \in B : Value[a] <= Value[b]
      /\ ~(ValueOf(A) <= ValueOf(B))
<1> DEFINE F == {A \in SUBSET Decisions : \E B \in SUBSET Decisions : Worse(A, B)}
<1>1. SUFFICES ASSUME F # {} PROVE FALSE
  OBVIOUS
<1>2. PICK A \in F : \A U \in F : U \subseteq A => U = A
  <2>1. F \subseteq SUBSET Decisions
    OBVIOUS
  <2> HIDE DEF F
  <2> QED BY <1>1, <2>1, FirstFailure
<1>3. PICK B \in SUBSET Decisions : Worse(A, B)
  BY <1>2
<1>4. /\ IsFiniteSet(A) /\ IsFiniteSet(B) /\ A \in SUBSET Decisions
      /\ ValueOf(A) \in Nat /\ ValueOf(B) \in Nat
  BY <1>2, SumIsNat, PartsAreFinite
<1>5. PICK a \in A : TRUE
  BY <1>3, <1>4, SumOfNone
<1>6. Cardinality(A) \in Nat /\ Cardinality(B) \in Nat /\ Cardinality(A) # 0
  BY <1>4, <1>5, FS_CardinalityType, FS_EmptySet
<1>7. PICK b \in B : TRUE
  BY <1>3, <1>4, <1>6, FS_EmptySet
<1>8. ValueOf(A \ {a}) <= ValueOf(B \ {b})
  <2>1. A \ {a} \in SUBSET Decisions /\ A \ {a} \notin F /\ B \ {b} \in SUBSET Decisions
    BY <1>2, <1>5
  <2>2. Cardinality(A \ {a}) <= Cardinality(B \ {b})
    <3>1. Cardinality(A \ {a}) = Cardinality(A) - 1
      BY <1>4, <1>5, FS_RemoveElement
    <3>2. Cardinality(B \ {b}) = Cardinality(B) - 1
      BY <1>4, <1>7, FS_RemoveElement
    <3> QED BY <1>3, <1>6, <3>1, <3>2
  <2>3. \A x \in A \ {a}, y \in B \ {b} : Value[x] <= Value[y]
    BY <1>3
  <2> QED BY <2>1, <2>2, <2>3
<1>9. /\ ValueOf(A) = Value[a] + ValueOf(A \ {a})
      /\ ValueOf(B) = Value[b] + ValueOf(B \ {b})
      /\ ValueOf(A \ {a}) \in Nat /\ ValueOf(B \ {b}) \in Nat
  BY <1>4, <1>5, <1>7, SumTakesAny, SumIsNat
<1>10. Value[a] \in Nat /\ Value[b] \in Nat /\ Value[a] <= Value[b]
  BY <1>3, <1>4, <1>5, <1>7, ControllerAssumption
<1>11. ~(ValueOf(A) <= ValueOf(B))
  BY <1>3
<1> QED BY <1>8, <1>9, <1>10, <1>11

-----------------------------------------------------------------------------
(* The rank order, and the set taken from its top                          *)

Above(d, S) == {e \in S : Outranks(e, d)}

LEMMA DecisionTyped == \A d \in Decisions : d \in Nat /\ Value[d] \in Nat
BY ControllerAssumption

LEMMA OutranksIsOrder ==
  /\ \A a \in Decisions : ~Outranks(a, a)
  /\ \A a, b \in Decisions : a # b => Outranks(a, b) \/ Outranks(b, a)
  /\ \A a, b, c \in Decisions : Outranks(a, b) /\ Outranks(b, c) => Outranks(a, c)
  /\ \A a, b \in Decisions : ~Outranks(a, b) => Value[a] <= Value[b]
  /\ \A a, b \in Decisions : Outranks(a, b) => Value[b] <= Value[a]
BY DecisionTyped DEF Outranks

\* What outranks an item outranks whatever the item outranks, and the item too.
LEMMA AboveNests ==
  ASSUME NEW S \in SUBSET Decisions, NEW d \in S, NEW e \in S, Outranks(d, e)
  PROVE  Above(d, S) \subseteq Above(e, S) /\ d \in Above(e, S) /\ d \notin Above(d, S)
BY OutranksIsOrder DEF Above

\* A set of decisions that is not empty has a best and a worst item.
LEMMA HasBest ==
  ASSUME NEW S \in SUBSET Decisions, S # {}
  PROVE  \E d \in S : \A e \in S : ~Outranks(e, d)
<1> DEFINE F == {Above(d, S) : d \in S}
<1>1. PICK T \in F : \A U \in F : U \subseteq T => U = T
  <2>1. F \subseteq SUBSET Decisions /\ F # {}
    BY DEF Above
  <2> HIDE DEF F
  <2> QED BY <2>1, FirstFailure
<1>2. PICK d \in S : T = Above(d, S)
  BY <1>1
<1>3. ASSUME NEW e \in S, Outranks(e, d) PROVE FALSE
  <2>1. Above(e, S) \subseteq Above(d, S) /\ e \in Above(d, S) /\ e \notin Above(e, S)
    BY <1>3, AboveNests
  <2>2. Above(e, S) \in F
    OBVIOUS
  <2> QED BY <1>1, <1>2, <2>1, <2>2
<1> QED BY <1>3

LEMMA HasWorst ==
  ASSUME NEW S \in SUBSET Decisions, S # {}
  PROVE  \E d \in S : \A e \in S : ~Outranks(d, e)
<1> DEFINE Below(d) == {e \in S : Outranks(d, e)}
           F == {Below(d) : d \in S}
<1>1. PICK T \in F : \A U \in F : U \subseteq T => U = T
  <2>1. F \subseteq SUBSET Decisions /\ F # {}
    OBVIOUS
  <2> HIDE DEF F
  <2> QED BY <2>1, FirstFailure
<1>2. PICK d \in S : T = Below(d)
  BY <1>1
<1>3. ASSUME NEW e \in S, Outranks(d, e) PROVE FALSE
  <2>1. Below(e) \subseteq Below(d) /\ e \in Below(d) /\ e \notin Below(e)
    BY <1>3, OutranksIsOrder
  <2>2. Below(e) \in F
    OBVIOUS
  <2> QED BY <1>1, <1>2, <2>1, <2>2
<1> QED BY <1>3

LEMMA RunTyped ==
  ASSUME NEW r \in Runs
  PROVE  /\ Eligible(r) \in SUBSET Decisions /\ Chosen(r) \in SUBSET Eligible(r)
         /\ Need(r) \in Int
BY ControllerAssumption DEF SealedRuns, Eligible, Need, Chosen

LEMMA ChosenSays ==
  ASSUME NEW r \in Runs, NEW d \in Eligible(r)
  PROVE  d \in Chosen(r) <=> ValueOf(Above(d, Eligible(r))) < Need(r)
BY DEF Chosen, Above

\* Whatever outranks a chosen item is chosen.
LEMMA ChosenFromTheTop ==
  ASSUME NEW r \in Runs, NEW d \in Chosen(r), NEW e \in Eligible(r), Outranks(e, d)
  PROVE  e \in Chosen(r)
<1>1. Eligible(r) \in SUBSET Decisions /\ d \in Eligible(r) /\ Need(r) \in Int
  BY RunTyped
<1>2. Above(e, Eligible(r)) \subseteq Above(d, Eligible(r))
  BY <1>1, AboveNests
<1>3. /\ Above(d, Eligible(r)) \in SUBSET Decisions
      /\ Above(e, Eligible(r)) \in SUBSET Above(d, Eligible(r))
  BY <1>1, <1>2 DEF Above
<1>4. ValueOf(Above(e, Eligible(r))) <= ValueOf(Above(d, Eligible(r)))
  BY <1>3, SumGrows
<1>5. /\ ValueOf(Above(e, Eligible(r))) \in Nat
      /\ ValueOf(Above(d, Eligible(r))) \in Nat
  BY <1>3, SumIsNat
<1> QED BY <1>1, <1>4, <1>5, ChosenSays

\* The items taken cover the residual unless every eligible item was taken.
LEMMA ChosenCovers ==
  ASSUME NEW r \in Runs, Chosen(r) # Eligible(r)
  PROVE  ValueOf(Chosen(r)) >= Need(r)
<1> DEFINE E == Eligible(r)
           C == Chosen(r)
<1>1. E \in SUBSET Decisions /\ C \in SUBSET E /\ C # E /\ Need(r) \in Int
  BY RunTyped
<1>2. PICK d \in E \ C : \A e \in E \ C : ~Outranks(e, d)
  <2>1. E \ C \in SUBSET Decisions /\ E \ C # {}
    BY <1>1
  <2> QED BY <2>1, HasBest
<1>3. Above(d, E) \in SUBSET C /\ C \in SUBSET Decisions
  BY <1>1, <1>2 DEF Above
<1>4. ~(ValueOf(Above(d, E)) < Need(r))
  BY <1>2, ChosenSays
<1>5. ValueOf(Above(d, E)) <= ValueOf(C) /\ ValueOf(Above(d, E)) \in Nat /\ ValueOf(C) \in Nat
  BY <1>1, <1>3, SumGrows, SumIsNat
<1> QED BY <1>1, <1>4, <1>5

\* Fewer eligible items than were taken never cover the residual.
LEMMA FewerFallShort ==
  ASSUME NEW r \in Runs, NEW S \in SUBSET Eligible(r),
         Cardinality(S) < Cardinality(Chosen(r))
  PROVE  ValueOf(S) < Need(r)
<1> DEFINE E == Eligible(r)
           C == Chosen(r)
<1>1. E \in SUBSET Decisions /\ C \in SUBSET E /\ C \in SUBSET Decisions /\ S \in SUBSET Decisions
      /\ Need(r) \in Int
  BY RunTyped
<1>2. IsFiniteSet(S) /\ IsFiniteSet(C) /\ Cardinality(S) \in Nat /\ Cardinality(C) \in Nat
  BY <1>1, PartsAreFinite, FS_CardinalityType
<1>3. C # {}
  BY <1>2, FS_EmptySet
<1>4. PICK d \in C : \A e \in C : ~Outranks(d, e)
  BY <1>1, <1>3, HasWorst
<1> DEFINE U == C \ {d}
<1>5. U = Above(d, E)
  <2>1. \A e \in U : e \in Above(d, E)
    BY <1>1, <1>4, OutranksIsOrder DEF Above
  <2>2. \A e \in Above(d, E) : e \in C /\ e # d
    BY <1>1, <1>4, ChosenFromTheTop, OutranksIsOrder DEF Above
  <2> QED BY <2>1, <2>2
<1>6. ValueOf(U) < Need(r)
  BY <1>1, <1>4, <1>5, ChosenSays
<1>7. \A a \in S \ U, b \in U \ S : Value[a] <= Value[b]
  <2> SUFFICES ASSUME NEW a \in S \ U, NEW b \in U \ S PROVE Value[a] <= Value[b]
    OBVIOUS
  <2>1. a \in E /\ ~Outranks(a, d) /\ Outranks(b, d) /\ a \in Decisions /\ b \in Decisions /\ d \in Decisions
    BY <1>1, <1>5 DEF Above
  <2> QED BY <2>1, OutranksIsOrder
<1>8. Cardinality(S \ U) <= Cardinality(U \ S)
  <2>1. Cardinality(U) = Cardinality(C) - 1 /\ IsFiniteSet(U)
    BY <1>2, <1>4, FS_RemoveElement
  <2>2. Cardinality(S \ U) = Cardinality(S) - Cardinality(S \cap U)
    BY <1>2, FS_Difference
  <2>3. Cardinality(U \ S) = Cardinality(U) - Cardinality(U \cap S)
    BY <2>1, FS_Difference
  <2>4. S \cap U = U \cap S /\ IsFiniteSet(S \cap U)
    BY <1>2, FS_Intersection
  <2>5. Cardinality(S \cap U) \in Nat
    BY <2>4, FS_CardinalityType
  <2> HIDE DEF U
  <2> QED BY <1>2, <2>1, <2>2, <2>3, <2>4, <2>5
<1>9. ValueOf(S \ U) <= ValueOf(U \ S)
  BY <1>1, <1>7, <1>8, SumExchanges
<1>10. /\ ValueOf(S) = ValueOf(S \cap U) + ValueOf(S \ U)
       /\ ValueOf(U) = ValueOf(S \cap U) + ValueOf(U \ S)
  <2>1. U \in SUBSET Decisions /\ U \cap S = S \cap U
    BY <1>1
  <2> HIDE DEF U
  <2> QED BY <1>1, <2>1, SumSplits
<1>11. /\ ValueOf(S \cap U) \in Nat /\ ValueOf(S \ U) \in Nat /\ ValueOf(U \ S) \in Nat
  BY <1>1, SumIsNat
<1> HIDE DEF U
<1> QED BY <1>1, <1>6, <1>9, <1>10, <1>11

-----------------------------------------------------------------------------
(* The closing set lists what was chosen, best first                       *)

\* Exactly one chosen item stands at each place of the closing set.
LEMMA PlacesAreFilled ==
  ASSUME NEW C \in SUBSET Decisions
  PROVE  /\ Cardinality(C) \in Nat
         /\ \A d \in C : Cardinality(Above(d, C)) + 1 \in 1..Cardinality(C)
         /\ \A d, e \in C : d # e => Cardinality(Above(d, C)) # Cardinality(Above(e, C))
         /\ \A k \in 1..Cardinality(C) : \E d \in C : Cardinality(Above(d, C)) = k - 1
<1> DEFINE n == Cardinality(C)
           place == [d \in C |-> Cardinality(Above(d, C)) + 1]
<1>1. IsFiniteSet(C) /\ n \in Nat
  BY PartsAreFinite, FS_CardinalityType
<1>2. \A d \in C : IsFiniteSet(Above(d, C)) /\ Cardinality(Above(d, C)) \in Nat
                   /\ Cardinality(Above(d, C)) < n
  <2> SUFFICES ASSUME NEW d \in C
               PROVE  IsFiniteSet(Above(d, C)) /\ Cardinality(Above(d, C)) \in Nat
                      /\ Cardinality(Above(d, C)) < n
    OBVIOUS
  <2>1. Above(d, C) \in SUBSET C /\ Above(d, C) # C
    BY OutranksIsOrder DEF Above
  <2>2. IsFiniteSet(Above(d, C)) /\ Cardinality(Above(d, C)) <= n
        /\ Cardinality(Above(d, C)) # n
    BY <1>1, <2>1, FS_Subset
  <2>3. Cardinality(Above(d, C)) \in Nat
    BY <2>2, FS_CardinalityType
  <2> QED BY <1>1, <2>2, <2>3
<1>3. ASSUME NEW d \in C, NEW e \in C, Outranks(d, e)
      PROVE  Cardinality(Above(d, C)) # Cardinality(Above(e, C))
  <2>1. Above(d, C) \in SUBSET Above(e, C) /\ Above(d, C) # Above(e, C)
    BY <1>3, AboveNests
  <2> QED BY <1>2, <2>1, FS_Subset
<1>4. \A d, e \in C : d # e => Cardinality(Above(d, C)) # Cardinality(Above(e, C))
  <2> SUFFICES ASSUME NEW d \in C, NEW e \in C, d # e
               PROVE  Cardinality(Above(d, C)) # Cardinality(Above(e, C))
    OBVIOUS
  <2>1. CASE Outranks(d, e)
    BY <1>3, <2>1
  <2>2. CASE Outranks(e, d)
    BY <1>3, <2>2
  <2> QED BY <2>1, <2>2, OutranksIsOrder
<1>5. place \in Injection(C, 1..n)
  <2>1. place \in [C -> 1..n]
    <3>1. \A d \in C : Cardinality(Above(d, C)) + 1 \in 1..n
      BY <1>1, <1>2
    <3> HIDE DEF n
    <3> QED BY <3>1
  <2>2. \A d, e \in C : place[d] = place[e] => d = e
    BY <1>2, <1>4
  <2> HIDE DEF place
  <2> QED BY <2>1, <2>2 DEF Injection, IsInjective
<1>6. IsFiniteSet(1..n) /\ Cardinality(1..n) = n
  BY <1>1, FS_Interval
<1>7. place \in Surjection(C, 1..n)
  <2> HIDE DEF place
  <2> QED BY <1>5, <1>6, FS_Injection
<1>8. \A k \in 1..n : \E d \in C : Cardinality(Above(d, C)) = k - 1
  <2> SUFFICES ASSUME NEW k \in 1..n PROVE \E d \in C : Cardinality(Above(d, C)) = k - 1
    OBVIOUS
  <2>1. PICK d \in C : place[d] = k
    BY <1>7 DEF Surjection
  <2>2. Cardinality(Above(d, C)) + 1 = k /\ Cardinality(Above(d, C)) \in Nat /\ k \in Nat
    BY <1>1, <1>2, <2>1
  <2> HIDE DEF place, n
  <2>3. Cardinality(Above(d, C)) = k - 1
    BY <2>2
  <2> QED BY <2>3
<1>9. \A d \in C : Cardinality(Above(d, C)) + 1 \in 1..n
  BY <1>1, <1>2
<1> QED BY <1>1, <1>4, <1>8, <1>9

LEMMA ClosingSetListsChosen ==
  ASSUME NEW r \in Runs
  PROVE  /\ ClosingSet(r) \in Seq(Chosen(r))
         /\ Len(ClosingSet(r)) = Cardinality(Chosen(r))
         /\ {ClosingSet(r)[i] : i \in DOMAIN ClosingSet(r)} = Chosen(r)
<1> DEFINE C == Chosen(r)
           n == Cardinality(C)
           at(k) == CHOOSE d \in C : Cardinality(Above(d, C)) = k - 1
<1>1. C \in SUBSET Decisions
  BY RunTyped
<1>2. n \in Nat
  BY <1>1, PlacesAreFilled
<1>3. \A k \in 1..n : at(k) \in C /\ Cardinality(Above(at(k), C)) = k - 1
  <2> SUFFICES ASSUME NEW k \in 1..n PROVE at(k) \in C /\ Cardinality(Above(at(k), C)) = k - 1
    OBVIOUS
  <2>1. \E d \in C : Cardinality(Above(d, C)) = k - 1
    BY <1>1, PlacesAreFilled
  <2> HIDE DEF C, n
  <2> QED BY <2>1
<1>4. ClosingSet(r) = [k \in 1..n |-> at(k)]
  BY DEF ClosingSet, Above
<1> HIDE DEF at
<1>5. ClosingSet(r) \in [1..n -> C] /\ DOMAIN ClosingSet(r) = 1..n
      /\ \A k \in 1..n : ClosingSet(r)[k] = at(k)
  <2> HIDE DEF n, C
  <2> QED BY <1>3, <1>4
<1>6. ClosingSet(r) \in Seq(C) /\ Len(ClosingSet(r)) = n
  <2> HIDE DEF n, C
  <2> QED BY <1>2, <1>5
<1>7. \A d \in C : \E k \in 1..n : ClosingSet(r)[k] = d
  <2> SUFFICES ASSUME NEW d \in C PROVE \E k \in 1..n : ClosingSet(r)[k] = d
    OBVIOUS
  <2> DEFINE k == Cardinality(Above(d, C)) + 1
  <2>1. k \in 1..n
    BY <1>1, PlacesAreFilled
  <2>2. at(k) \in C /\ Cardinality(Above(at(k), C)) = k - 1
    BY <1>3, <2>1
  <2>3. k - 1 = Cardinality(Above(d, C))
    <3>1. Cardinality(Above(d, C)) \in Nat
      <4>1. Above(d, C) \in SUBSET Decisions
        BY <1>1 DEF Above
      <4> QED BY <4>1, PartsAreFinite, FS_CardinalityType
    <3> QED BY <3>1
  <2>4. at(k) = d
    BY <1>1, <2>2, <2>3, PlacesAreFilled
  <2> QED BY <1>5, <2>1, <2>4
<1> QED
  <2> HIDE DEF n
  <2>1. {ClosingSet(r)[i] : i \in DOMAIN ClosingSet(r)} = C
    BY <1>5, <1>7
  <2> QED BY <1>6, <2>1 DEF n

-----------------------------------------------------------------------------
(* The loop keeps its bounds and its reasons                               *)

\* The conjunction the theorems below take their parts from.
THEOREM Invariance == Spec => []IInv
BY InitIInv, NextIInv, PTL DEF Spec

\* The budget bounds the trace: machine.ts never records more than one step
\* beyond the bound it was given, whatever the run and the tools do.
THEOREM BudgetHolds == Spec => []StepsBounded
<1>1. IInv => StepsBounded
  BY DEF IInv
<1> QED BY <1>1, Invariance, PTL

\* policy.ts's P0 rule: what integrityHalt would stop on is never completed over.
THEOREM IntegrityFirst == Spec => []DefectNeverCompletes
<1>1. IInv => DefectNeverCompletes
  BY DEF IInv
<1> QED BY <1>1, Invariance, PTL

\* A trace carries the one reason its terminal state calls for.
THEOREM ReasonsTell == Spec => []ReasonsCoherent
<1>1. IInv => ReasonsCoherent
  BY DEF IInv
<1> QED BY <1>1, Invariance, PTL

\* Escalations follow the plan even over a tool that answers for the wrong item.
THEOREM EscalationsFollowPlan == Spec => []EscalatesThePlan
<1>1. IInv => EscalatesThePlan
  BY DEF IInv
<1> QED BY <1>1, Invariance, PTL

\* The controller says CLOSED only of a period its close report closed.
THEOREM ClosedTruthfully == Spec => []ClosedIsClosed
<1>1. IInv => ClosedIsClosed
  BY DEF IInv
<1> QED BY <1>1, Invariance, PTL

-----------------------------------------------------------------------------
(* The plan                                                                *)

\* The plan lists chosen items and the cursor stays in it; from PLAN on it is
\* the closing set of the run.
PlanInHand ==
  /\ closing_set \in Seq(Chosen(run))
  /\ cursor <= Len(closing_set)
  /\ state \in {"ACT", "ESCALATE", "AWAIT_HUMAN"} => closing_set = ClosingSet(run)

\* What is handed over is the whole closing set.
HandsOverAll ==
  state = "AWAIT_HUMAN" \/ stop = "ESCALATED" =>
    closing_set = ClosingSet(run) /\ cursor = Len(closing_set)

PlanInv == IInv /\ PlanInHand /\ HandsOverAll

LEMMA InitPlan == Init => PlanInv
<1> SUFFICES ASSUME Init PROVE PlanInHand /\ HandsOverAll
  BY InitIInv DEF PlanInv
<1> QED BY DEF Init, PlanInHand, HandsOverAll

LEMMA NextPlan == PlanInv /\ [Next]_vars => PlanInv'
<1> SUFFICES ASSUME PlanInv, [Next]_vars PROVE PlanInHand' /\ HandsOverAll'
  BY NextIInv DEF PlanInv
<1>1. /\ run \in Runs /\ cursor \in Nat /\ state \in ControllerStates
      /\ closing_set \in Seq(Chosen(run)) /\ cursor <= Len(closing_set)
      /\ (state = "COMPLETE" <=> stop # "none")
  BY DEF PlanInv, IInv, Supports, LoopTyped, PlanInHand, ReasonsCoherent
<1>2. ClosingSet(run) \in Seq(Chosen(run))
  BY <1>1, ClosingSetListsChosen
<1> USE DEF PlanInHand, HandsOverAll
<1>3. ASSUME NEW next, NEW stopReason, NEW haltReason, Turn(next, stopReason, haltReason),
             UNCHANGED memory, stopReason # "ESCALATED",
             next \notin {"ACT", "ESCALATE", "AWAIT_HUMAN"}
      PROVE  PlanInHand' /\ HandsOverAll'
  <2>1. /\ run' = run /\ closing_set' = closing_set /\ cursor' = cursor
        /\ \/ state' = "COMPLETE" /\ stop' = "NO_PROGRESS"
           \/ state' = next /\ stop' = stopReason
    BY <1>3, TurnStep DEF memory
  <2> QED BY <1>1, <1>3, <2>1
<1>4. ASSUME NEW tool, NEW next, Read(tool), Turn(next, "none", "none"),
             next \notin {"ACT", "ESCALATE", "AWAIT_HUMAN"}
      PROVE  PlanInHand' /\ HandsOverAll'
  <2>1. /\ run' = run /\ closing_set' = closing_set /\ cursor' = cursor
        /\ \/ state' = "COMPLETE" /\ stop' = "NO_PROGRESS"
           \/ state' = next /\ stop' = "none"
    BY <1>4, TurnStep DEF Read
  <2> QED BY <1>1, <1>4, <2>1
<1>5. ASSUME NEW next, NEW stopReason, Turn(next, stopReason, "none"),
             closing_set' = ClosingSet(run), cursor' = 0, state = "PLAN",
             next \in {"ACT", "COMPLETE"}, stopReason # "ESCALATED"
      PROVE  PlanInHand' /\ HandsOverAll'
  <2>1. /\ run' = run /\ closing_set' = ClosingSet(run) /\ cursor' = 0
        /\ \/ state' = "COMPLETE" /\ stop' = "NO_PROGRESS"
           \/ state' = next /\ stop' = stopReason
    BY <1>5, TurnStep
  <2>2. state' # "AWAIT_HUMAN" /\ stop' # "ESCALATED"
    BY <1>5, <2>1
  <2> QED BY <1>2, <2>1, <2>2
<1>6. CASE Halt \/ OutOfBudget \/ AlreadyClosed \/ BeginTriage \/ BeginPlan
  BY <1>3, <1>6 DEF Halt, OutOfBudget, AlreadyClosed, BeginTriage, BeginPlan
<1>7. CASE Verify \/ ObserveClose \/ Triage
  BY <1>4, <1>7 DEF Verify, ObserveClose, Triage
<1>8. CASE NoClosingSet \/ Plan
  BY <1>5, <1>8 DEF NoClosingSet, Plan, Free
<1>9. CASE IllegalTransition
  BY <1>1, <1>9 DEF IllegalTransition, PlanInv, memory
<1>10. CASE Inspect
  <2>1. /\ state = "ACT" /\ closing_set' = closing_set /\ cursor' = cursor
        /\ Turn("ACT", "none", "none")
    BY <1>10 DEF Inspect, Free
  <2>2. /\ run' = run
        /\ \/ state' = "COMPLETE" /\ stop' = "NO_PROGRESS"
           \/ state' = "ACT" /\ stop' = "none"
    BY <2>1, TurnStep
  <2> QED BY <1>1, <2>1, <2>2 DEF PlanInv
<1>11. CASE Escalate
  <2>1. /\ state = "ACT" /\ closing_set' = closing_set /\ cursor' = cursor + 1
        /\ cursor < Len(closing_set) /\ Turn("ESCALATE", "none", "none")
    BY <1>11 DEF Escalate, Free
  <2>2. run' = run /\ state' = "ESCALATE" /\ stop' = "none"
    BY <2>1, TurnStep
  <2> QED BY <1>1, <2>1, <2>2 DEF PlanInv
<1>12. CASE NextItem
  <2>1. /\ state = "ESCALATE" /\ closing_set' = closing_set /\ cursor' = cursor
        /\ Turn("ACT", "none", "none")
    BY <1>12 DEF NextItem, Free, memory
  <2>2. run' = run /\ state' = "ACT" /\ stop' = "none"
    BY <2>1, TurnStep
  <2> QED BY <1>1, <2>1, <2>2 DEF PlanInv
<1>13. CASE HandOver
  <2>1. /\ state = "ESCALATE" /\ closing_set' = closing_set /\ cursor' = cursor
        /\ cursor >= Len(closing_set) /\ Turn("AWAIT_HUMAN", "none", "none")
    BY <1>13 DEF HandOver, Free, memory
  <2>2. run' = run /\ state' = "AWAIT_HUMAN" /\ stop' = "none"
    BY <2>1, TurnStep
  <2>3. cursor = Len(closing_set)
    BY <1>1, <2>1
  <2> QED BY <1>1, <2>1, <2>2, <2>3 DEF PlanInv
<1>14. CASE AwaitHuman
  <2>1. /\ state = "AWAIT_HUMAN" /\ closing_set' = closing_set /\ cursor' = cursor
        /\ Turn("COMPLETE", "ESCALATED", "none")
    BY <1>14 DEF AwaitHuman, Free, memory
  <2>2. run' = run /\ state' = "COMPLETE"
    BY <2>1, TurnStep
  <2> QED BY <1>1, <2>1, <2>2 DEF PlanInv
<1>15. CASE UNCHANGED vars
  BY <1>15 DEF vars, memory, PlanInv
<1> QED
  BY <1>6, <1>7, <1>8, <1>9, <1>10, <1>11, <1>12, <1>13, <1>14, <1>15 DEF Next

THEOREM PlanInvariance == Spec => []PlanInv
BY InitPlan, NextPlan, PTL DEF Spec

LEMMA PlanSuffices == PlanInv => ClosingSetSuffices
<1> SUFFICES ASSUME PlanInv PROVE SmallestClosingSet /\ EscalatedBlocksNothing
  BY DEF ClosingSetSuffices
<1>1. /\ run \in Runs /\ escalated \in Seq(Decisions) /\ cursor \in Nat
      /\ Len(escalated) = cursor
      /\ \A i \in 1..cursor : escalated[i] = closing_set[i]
  BY DEF PlanInv, IInv, Supports, LoopTyped, EscalatesThePlan
<1> DEFINE C == Chosen(run)
           E == Eligible(run)
<1>2. E \in SUBSET Decisions /\ C \in SUBSET E /\ C \in SUBSET Decisions /\ Need(run) \in Int
  BY <1>1, RunTyped
<1>3. SmallestClosingSet
  <2> SUFFICES ASSUME state = "ACT", NEW S \in SUBSET E, ValueOf(S) >= Need(run)
               PROVE  /\ Len(closing_set) <= Cardinality(S)
                      /\ ValueOf({closing_set[i] : i \in DOMAIN closing_set}) >= Need(run)
    BY DEF SmallestClosingSet
  <2>1. closing_set = ClosingSet(run)
    BY DEF PlanInv, PlanInHand
  <2>2. /\ Len(closing_set) = Cardinality(C)
        /\ {closing_set[i] : i \in DOMAIN closing_set} = C
    BY <1>1, <2>1, ClosingSetListsChosen
  <2>3. S \in SUBSET Decisions /\ ValueOf(S) \in Nat /\ ValueOf(C) \in Nat
    BY <1>2, SumIsNat
  <2>4. Cardinality(S) \in Nat /\ Cardinality(C) \in Nat
    BY <1>2, <2>3, PartsAreFinite, FS_CardinalityType
  <2>5. ~(Cardinality(S) < Cardinality(C))
    BY <1>1, <1>2, <2>3, FewerFallShort
  <2>6. ValueOf(C) >= Need(run)
    <3>1. CASE C = E
      <4>1. ValueOf(S) <= ValueOf(C)
        BY <1>2, <3>1, SumGrows
      <4> QED BY <1>2, <2>3, <4>1
    <3>2. CASE C # E
      BY <1>1, <3>2, ChosenCovers
    <3> QED BY <3>1, <3>2
  <2>7. Len(closing_set) <= Cardinality(S)
    <3> HIDE DEF C
    <3> QED BY <2>2, <2>4, <2>5
  <2>8. ValueOf({closing_set[i] : i \in DOMAIN closing_set}) >= Need(run)
    BY <2>2, <2>6
  <2> QED BY <2>7, <2>8
<1>4. EscalatedBlocksNothing
  <2> SUFFICES ASSUME stop = "ESCALATED"
               PROVE  LET named == {escalated[i] : i \in DOMAIN escalated}
                      IN  \/ run.unresolved - ValueOf(named) <= run.threshold
                          \/ named = Eligible(run)
    BY DEF EscalatedBlocksNothing
  <2>1. closing_set = ClosingSet(run) /\ cursor = Len(closing_set)
    BY DEF PlanInv, HandsOverAll
  <2>2. closing_set \in Seq(C) /\ {closing_set[i] : i \in DOMAIN closing_set} = C
    BY <1>1, <2>1, ClosingSetListsChosen
  <2>3. DOMAIN escalated = 1..cursor /\ DOMAIN closing_set = 1..cursor
    BY <1>1, <2>1, <2>2
  <2>4. {escalated[i] : i \in DOMAIN escalated} = C
    BY <1>1, <2>2, <2>3
  <2>5. CASE C = E
    BY <2>4, <2>5
  <2>6. CASE C # E
    <3>1. ValueOf(C) >= Need(run)
      BY <1>1, <2>6, ChosenCovers
    <3>2. ValueOf(C) \in Nat /\ run.unresolved \in Nat /\ run.threshold \in Nat
      BY <1>1, <1>2, SumIsNat, ControllerAssumption DEF SealedRuns
    <3>3. run.unresolved - ValueOf(C) <= run.threshold
      <4> HIDE DEF C
      <4> QED BY <3>1, <3>2 DEF Need
    <3> QED BY <2>4, <3>3
  <2> QED BY <2>5, <2>6
<1> QED BY <1>3, <1>4

\* The plan of policy.ts is the smallest set that would close the period, and
\* an ESCALATED run has put every item of it, or every eligible one, to a person.
THEOREM ClosingSetDoes == Spec => []ClosingSetSuffices
BY PlanInvariance, PlanSuffices, PTL

-----------------------------------------------------------------------------
(* The trace                                                               *)

\* The states a turn is taken in, and the entries it may leave.
LoopStates == {"INIT", "OBSERVE_CLOSE", "TRIAGE", "PLAN", "ACT", "ESCALATE", "AWAIT_HUMAN"}

Entries ==
  {e \in [state : LoopStates, rule : PolicyRules, tool : ToolNames \cup {NoTool},
          asked : Decisions \cup {NoOne}, next : LoopStates \cup TerminalStates] :
     /\ e.next \in AllowedTransitions[e.state]
     /\ e.rule = "SEQ_INSPECT" <=> e.tool = "decision_evidence"
     /\ e.tool = "decision_evidence" => e.asked \in Decisions}

\* Every entry is one the policy can produce.
TraceTyped == trace \in Seq(Entries) /\ state \in LoopStates \cup TerminalStates

\* A plan is in the trace once it is in memory.
PlanRecorded == closing_set # <<>> => Planned

\* What was escalated is still filed under its own id.
EscalatedFiled == \A i \in DOMAIN escalated : escalated[i] \in DOMAIN inspected

\* The last entry of a finished trace names the budget exactly when that is why.
BudgetNamed ==
  Ended => /\ Len(trace) > 0
           /\ trace[Len(trace)].rule = "SEQ_BUDGET" <=> stop = "BUDGET_EXHAUSTED"

TraceInv == PlanInv /\ TraceTyped /\ PlanRecorded /\ EscalatedFiled /\ BudgetNamed

LEMMA SelfTransitions ==
  /\ \A s \in LoopStates : s \in AllowedTransitions[s] => "COMPLETE" \in AllowedTransitions[s]
  /\ LoopStates \cap TerminalStates = {}
BY DEF LoopStates, TerminalStates, AllowedTransitions, ControllerStates

LEMMA PlainEntry ==
  ASSUME NEW s \in LoopStates, NEW rule \in PolicyRules, rule # "SEQ_INSPECT",
         NEW tool \in ToolNames \cup {NoTool}, tool # "decision_evidence",
         NEW next \in LoopStates \cup TerminalStates, next \in AllowedTransitions[s]
  PROVE  [state |-> s, rule |-> rule, tool |-> tool, asked |-> NoOne, next |-> next] \in Entries
BY DEF Entries

\* What a turn and its record do to the trace.
LEMMA TurnRecords ==
  ASSUME TraceTyped, state \in LoopStates,
         NEW next \in LoopStates \cup TerminalStates, NEW stopReason, NEW haltReason,
         NEW rule \in PolicyRules, NEW tool, NEW asked,
         Turn(next, stopReason, haltReason), Record(rule, tool, asked),
         stopReason # "NO_PROGRESS",
         [state |-> state, rule |-> rule, tool |-> tool, asked |-> asked, next |-> next] \in Entries
  PROVE  /\ TraceTyped'
         /\ Len(trace') > 0
         /\ \E i \in DOMAIN trace' : trace'[i].rule = rule /\ trace'[i].asked = asked
         /\ \A i \in DOMAIN trace : i \in DOMAIN trace' /\ trace'[i] = trace[i]
         /\ trace'[Len(trace')].rule = "SEQ_BUDGET"
              <=> rule = "SEQ_BUDGET" /\ stop' # "NO_PROGRESS"
<1> DEFINE entry == [state |-> state, rule |-> rule, tool |-> tool, asked |-> asked, next |-> next]
<1>1. next \in AllowedTransitions[state]
  BY DEF Turn
<1>2. CASE stop' = "NO_PROGRESS"
  <2>1. next = state /\ state' = "COMPLETE"
    BY <1>2, TurnStep
  <2>2. trace' = trace \o <<entry>> \o <<NoProgressEntry>>
    BY <1>2, <2>1 DEF Record
  <2>3. NoProgressEntry \in Entries
    <3>1. "COMPLETE" \in AllowedTransitions[state]
      BY <1>1, <2>1, SelfTransitions
    <3>2. /\ "P5_NO_PROGRESS" \in PolicyRules /\ NoTool \in ToolNames \cup {NoTool}
          /\ NoTool # "decision_evidence" /\ "COMPLETE" \in LoopStates \cup TerminalStates
      BY DEF PolicyRules, NoTool, TerminalStates
    <3> QED BY <3>1, <3>2, PlainEntry DEF NoProgressEntry
  <2>4. NoProgressEntry.rule = "P5_NO_PROGRESS" /\ entry.rule = rule /\ entry.asked = asked
    BY DEF NoProgressEntry
  <2>5. trace \in Seq(Entries) /\ entry \in Entries
    BY DEF TraceTyped
  <2>6. "COMPLETE" \in TerminalStates
    BY DEF TerminalStates
  <2> HIDE DEF entry
  <2>7. trace' \in Seq(Entries) /\ Len(trace') = Len(trace) + 2
        /\ trace'[Len(trace) + 1] = entry /\ trace'[Len(trace) + 2] = NoProgressEntry
        /\ \A i \in DOMAIN trace : i \in DOMAIN trace' /\ trace'[i] = trace[i]
    BY <2>2, <2>3, <2>5
  <2>8. Len(trace) \in Nat /\ Len(trace) + 1 \in DOMAIN trace'
    BY <2>5, <2>7
  <2> QED BY <1>2, <2>1, <2>4, <2>6, <2>7, <2>8 DEF TraceTyped
<1>3. CASE stop' # "NO_PROGRESS"
  <2>1. state' = next
    BY <1>3, TurnStep
  <2>2. trace' = trace \o <<entry>> \o <<>>
    BY <1>3, <2>1 DEF Record
  <2>3. trace \in Seq(Entries) /\ entry \in Entries /\ entry.rule = rule /\ entry.asked = asked
    BY DEF TraceTyped
  <2> HIDE DEF entry
  <2>4. trace' \in Seq(Entries) /\ Len(trace') = Len(trace) + 1
        /\ trace'[Len(trace) + 1] = entry
        /\ \A i \in DOMAIN trace : i \in DOMAIN trace' /\ trace'[i] = trace[i]
    BY <2>2, <2>3
  <2>5. Len(trace) \in Nat /\ Len(trace) + 1 \in DOMAIN trace'
    BY <2>3, <2>4
  <2> QED BY <1>3, <2>1, <2>3, <2>4, <2>5 DEF TraceTyped
<1> QED BY <1>2, <1>3

\* A recorded turn keeps the trace as described, when a new plan comes under a
\* planning rule, only the budget's rule stops on the budget, and what is
\* escalated is filed.
LEMMA TurnKeepsTrace ==
  ASSUME TraceInv, state \in LoopStates,
         NEW next \in LoopStates \cup TerminalStates, NEW stopReason, NEW haltReason,
         NEW rule \in PolicyRules, NEW tool, NEW asked,
         Turn(next, stopReason, haltReason), Record(rule, tool, asked),
         stopReason # "NO_PROGRESS",
         [state |-> state, rule |-> rule, tool |-> tool, asked |-> asked, next |-> next] \in Entries,
         rule = "SEQ_BUDGET" <=> stopReason = "BUDGET_EXHAUSTED",
         closing_set' = closing_set \/ rule \in {"SEQ_PLAN", "P2_NO_CLOSING_SET"},
         \A i \in DOMAIN escalated' : escalated'[i] \in DOMAIN inspected'
  PROVE  TraceTyped' /\ PlanRecorded' /\ EscalatedFiled' /\ BudgetNamed'
<1>1. /\ TraceTyped'
      /\ Len(trace') > 0
      /\ \E i \in DOMAIN trace' : trace'[i].rule = rule /\ trace'[i].asked = asked
      /\ \A i \in DOMAIN trace : i \in DOMAIN trace' /\ trace'[i] = trace[i]
      /\ trace'[Len(trace')].rule = "SEQ_BUDGET"
           <=> rule = "SEQ_BUDGET" /\ stop' # "NO_PROGRESS"
  BY TurnRecords DEF TraceInv
<1>2. PlanRecorded'
  <2>1. CASE rule \in {"SEQ_PLAN", "P2_NO_CLOSING_SET"}
    BY <1>1, <2>1 DEF PlanRecorded, Planned
  <2>2. CASE closing_set' = closing_set
    BY <1>1, <2>2 DEF TraceInv, PlanRecorded, Planned
  <2> QED BY <2>1, <2>2
<1>3. EscalatedFiled'
  BY DEF EscalatedFiled
<1>4. stop' = "NO_PROGRESS" \/ stop' = stopReason
  BY TurnStep
<1>5. BudgetNamed'
  BY <1>1, <1>4 DEF BudgetNamed
<1> QED BY <1>1, <1>2, <1>3, <1>5

LEMMA ReportNextIsNext == [ReportNext]_rvars => [Next]_vars
BY DEF ReportNext, Next, rvars

LEMMA InitTrace == ReportInit => TraceInv
<1> SUFFICES ASSUME ReportInit PROVE TraceTyped /\ PlanRecorded /\ EscalatedFiled /\ BudgetNamed
  BY InitPlan DEF ReportInit, TraceInv
<1>1. /\ trace = <<>> /\ state = "INIT" /\ closing_set = <<>> /\ escalated = <<>>
  BY DEF ReportInit, Init
<1> QED BY <1>1 DEF TraceTyped, PlanRecorded, EscalatedFiled, BudgetNamed, Ended,
                    TerminalStates, LoopStates

\* <1>3 is for the turns that inspect nothing and leave the evidence alone.
LEMMA NextTrace == TraceInv /\ [ReportNext]_rvars => TraceInv'
<1> SUFFICES ASSUME TraceInv, [ReportNext]_rvars
             PROVE  TraceTyped' /\ PlanRecorded' /\ EscalatedFiled' /\ BudgetNamed'
  BY NextPlan, ReportNextIsNext DEF TraceInv
<1> DEFINE Goal == TraceTyped' /\ PlanRecorded' /\ EscalatedFiled' /\ BudgetNamed'
<1>1. /\ EscalatedFiled /\ TraceTyped
      /\ closing_set \in Seq(Decisions) /\ cursor \in Nat /\ escalated \in Seq(Decisions)
      /\ EvidenceUnderItsOwnId
  <2>1. run \in Runs /\ cursor \in Nat /\ escalated \in Seq(Decisions)
        /\ EvidenceUnderItsOwnId
    BY DEF TraceInv, PlanInv, IInv, Supports, LoopTyped
  <2>2. Chosen(run) \subseteq Decisions
    BY <2>1, RunTyped
  <2>3. closing_set \in Seq(Chosen(run))
    BY DEF TraceInv, PlanInv, PlanInHand
  <2> QED BY <2>1, <2>2, <2>3 DEF TraceInv
<1>2. Running => state \in LoopStates
  BY <1>1 DEF TraceTyped, Running
<1>3. ASSUME NEW next \in LoopStates \cup TerminalStates, NEW stopReason, NEW haltReason,
             NEW rule \in PolicyRules, rule # "SEQ_INSPECT",
             NEW tool \in ToolNames \cup {NoTool}, tool # "decision_evidence",
             Running, Turn(next, stopReason, haltReason), Record(rule, tool, NoOne),
             stopReason # "NO_PROGRESS",
             rule = "SEQ_BUDGET" <=> stopReason = "BUDGET_EXHAUSTED",
             closing_set' = closing_set \/ rule \in {"SEQ_PLAN", "P2_NO_CLOSING_SET"},
             UNCHANGED <<inspected, escalated>>
      PROVE  Goal
  <2>1. next \in AllowedTransitions[state] /\ state \in LoopStates
    BY <1>2, <1>3 DEF Turn
  <2>2. [state |-> state, rule |-> rule, tool |-> tool, asked |-> NoOne, next |-> next] \in Entries
    BY <1>3, <2>1, PlainEntry
  <2>3. \A i \in DOMAIN escalated' : escalated'[i] \in DOMAIN inspected'
    BY <1>1, <1>3 DEF EscalatedFiled
  <2> HIDE DEF Goal
  <2>4. TraceTyped' /\ PlanRecorded' /\ EscalatedFiled' /\ BudgetNamed'
    BY <1>3, <2>1, <2>2, <2>3, TurnKeepsTrace
  <2> QED BY <2>4 DEF Goal
<1> USE DEF PolicyRules, ToolNames, NoTool, LoopStates, TerminalStates, Call, Silent
<1>4. CASE Halt /\ Silent("P0_INTEGRITY")
  BY <1>3, <1>4 DEF Halt, memory
<1>5. CASE OutOfBudget /\ Silent("SEQ_BUDGET")
  BY <1>3, <1>5 DEF OutOfBudget, memory
<1>6. CASE IllegalTransition /\ UNCHANGED trace
  BY <1>6 DEF IllegalTransition, memory, TraceInv, TraceTyped, PlanRecorded, EscalatedFiled,
              BudgetNamed, Ended, Planned
<1>7. CASE Verify /\ Call("SEQ_VERIFY", "ledger_verify")
  BY <1>3, <1>7 DEF Verify, Free, Read
<1>8. CASE ObserveClose /\ Call("SEQ_OBSERVE", "close_report")
  BY <1>3, <1>8 DEF ObserveClose, Free, Read
<1>9. CASE AlreadyClosed /\ Silent("P1_ALREADY_CLOSED")
  BY <1>3, <1>9 DEF AlreadyClosed, Free, memory
<1>10. CASE BeginTriage /\ Silent("SEQ_OBSERVE")
  BY <1>3, <1>10 DEF BeginTriage, Free, memory
<1>11. CASE Triage /\ Call("SEQ_TRIAGE", "exception_queue")
  BY <1>3, <1>11 DEF Triage, Free, Read
<1>12. CASE BeginPlan /\ Silent("SEQ_TRIAGE")
  BY <1>3, <1>12 DEF BeginPlan, Free, memory
<1>13. CASE NoClosingSet /\ Silent("P2_NO_CLOSING_SET")
  BY <1>3, <1>13 DEF NoClosingSet, Free
<1>14. CASE Plan /\ Silent("SEQ_PLAN")
  BY <1>3, <1>14 DEF Plan, Free
<1>15. CASE Inspect /\ Record("SEQ_INSPECT", "decision_evidence", closing_set[cursor + 1])
  <2>1. /\ Running /\ state = "ACT" /\ Turn("ACT", "none", "none")
        /\ closing_set' = closing_set /\ escalated' = escalated
        /\ closing_set[cursor + 1] \in Decisions
    BY <1>1, <1>15 DEF Inspect, Free
  <2>2. DOMAIN inspected \subseteq DOMAIN inspected'
    BY <1>15 DEF Inspect, File
  <2>3. \A i \in DOMAIN escalated' : escalated'[i] \in DOMAIN inspected'
    BY <1>1, <2>1, <2>2 DEF EscalatedFiled
  <2>4. "ACT" \in AllowedTransitions["ACT"]
    BY <2>1 DEF Turn
  <2>5. [state |-> state, rule |-> "SEQ_INSPECT", tool |-> "decision_evidence",
         asked |-> closing_set[cursor + 1], next |-> "ACT"] \in Entries
    BY <2>1, <2>4 DEF Entries
  <2> QED BY <1>15, <2>1, <2>3, <2>5, TurnKeepsTrace
<1>16. CASE Escalate /\ Silent("P3_ESCALATE")
  <2> DEFINE item == closing_set[cursor + 1]
  <2>1. /\ Running /\ state = "ACT" /\ Turn("ESCALATE", "none", "none")
        /\ closing_set' = closing_set /\ inspected' = inspected
        /\ item \in DOMAIN inspected /\ escalated' = Append(escalated, inspected[item])
    BY <1>16 DEF Escalate, Free
  <2>2. inspected[item] = item /\ item \in Decisions
    BY <1>1, <2>1 DEF EvidenceUnderItsOwnId
  <2>3. \A i \in DOMAIN escalated' : escalated'[i] \in DOMAIN inspected'
    BY <1>1, <2>1, <2>2 DEF EscalatedFiled
  <2>4. "ESCALATE" \in AllowedTransitions["ACT"]
    BY <2>1 DEF Turn
  <2>5. [state |-> state, rule |-> "P3_ESCALATE", tool |-> NoTool, asked |-> NoOne,
         next |-> "ESCALATE"] \in Entries
    BY <2>1, <2>4, PlainEntry
  <2> QED BY <1>16, <2>1, <2>3, <2>5, TurnKeepsTrace
<1>17. CASE NextItem /\ Silent("P4_ADVANCE_CURSOR")
  BY <1>3, <1>17 DEF NextItem, Free, memory
<1>18. CASE HandOver /\ Silent("P4_ADVANCE_CURSOR")
  BY <1>3, <1>18 DEF HandOver, Free, memory
<1>19. CASE AwaitHuman /\ Silent("SEQ_HANDOFF")
  BY <1>3, <1>19 DEF AwaitHuman, Free, memory
<1>20. CASE UNCHANGED rvars
  BY <1>20 DEF rvars, vars, memory, TraceInv, TraceTyped, PlanRecorded, EscalatedFiled,
               BudgetNamed, Ended, Planned
<1> QED
  BY <1>4, <1>5, <1>6, <1>7, <1>8, <1>9, <1>10, <1>11, <1>12, <1>13, <1>14, <1>15,
     <1>16, <1>17, <1>18, <1>19, <1>20 DEF ReportNext

THEOREM TraceInvariance == ReportSpec => []TraceInv
BY InitTrace, NextTrace, PTL DEF ReportSpec

\* Each entry of a trace is one the policy can produce.
LEMMA EntryFacts ==
  ASSUME TraceTyped, NEW i \in DOMAIN trace
  PROVE  /\ trace[i].next \in AllowedTransitions[trace[i].state]
         /\ trace[i].rule \in PolicyRules
         /\ {trace[i].state, trace[i].next} \cap WritePhaseStates = {}
         /\ trace[i].tool \in ToolNames \cup {NoTool}
         /\ trace[i].tool = "decision_evidence" => trace[i].asked # NoOne
         /\ trace[i].rule = "SEQ_INSPECT" <=> trace[i].tool = "decision_evidence"
<1>1. trace[i] \in Entries
  BY DEF TraceTyped
<1>2. NoOne \notin Decisions
  BY ControllerAssumption DEF NoOne
<1> QED BY <1>1, <1>2 DEF Entries, LoopStates, TerminalStates, WritePhaseStates

\* What a run that has ended keeps to, whatever was asked of its tools.
LEMMA EndedObeys ==
  ASSUME TraceInv, Ended
  PROVE  \A c \in CheckIds \ {"budget_not_exhausted", "escalations_inspected"} : Passed(c)
<1>1. \A i \in DOMAIN trace :
        /\ trace[i].next \in AllowedTransitions[trace[i].state]
        /\ trace[i].rule \in PolicyRules
        /\ {trace[i].state, trace[i].next} \cap WritePhaseStates = {}
        /\ trace[i].tool \in ToolNames \cup {NoTool}
        /\ trace[i].tool = "decision_evidence" => trace[i].asked # NoOne
  BY EntryFacts DEF TraceInv
<1>2. /\ state = "COMPLETE" <=> stop # "none"
      /\ state = "HALT" <=> halt # "none"
      /\ state \in TerminalStates
  BY DEF TraceInv, PlanInv, IInv, ReasonsCoherent, Ended
<1>3. \A i \in DOMAIN escalated : escalated[i] \in PlanIds /\ escalated[i] \in Keyed /\ Planned
  <2> SUFFICES ASSUME NEW i \in DOMAIN escalated
               PROVE  escalated[i] \in PlanIds /\ escalated[i] \in Keyed /\ Planned
    OBVIOUS
  <2>1. /\ run \in Runs /\ escalated \in Seq(Decisions) /\ cursor \in Nat
        /\ Len(escalated) = cursor /\ \A k \in 1..cursor : escalated[k] = closing_set[k]
        /\ closing_set \in Seq(Chosen(run)) /\ cursor <= Len(closing_set)
    BY DEF TraceInv, PlanInv, IInv, Supports, LoopTyped, EscalatesThePlan, PlanInHand
  <2>2. i \in 1..cursor /\ i \in DOMAIN closing_set /\ escalated[i] = closing_set[i]
    BY <2>1
  <2>3. closing_set[i] \in Chosen(run) /\ closing_set # <<>>
    BY <2>1, <2>2
  <2>4. escalated[i] \in PlanIds
    BY <2>2 DEF PlanIds, ToSet
  <2>5. Planned
    BY <2>3 DEF TraceInv, PlanRecorded
  <2>6. escalated[i] \in Keyed
    BY <2>1, <2>2, <2>3, RunTyped DEF Eligible
  <2> QED BY <2>4, <2>5, <2>6
<1>4. Passed("terminal_reached") /\ Passed("terminal_reason_coherent")
  BY <1>2 DEF Passed, Group, Obeyed, TerminalStates
<1>5. Passed("transitions_declared") /\ Passed("rules_declared")
  BY <1>1 DEF Passed, Group, Obeyed
<1>6. Passed("no_write_phase_state") /\ Passed("reads_only")
  BY <1>1 DEF Passed, Group, Obeyed
<1>7. /\ Passed("no_writes_attempted") /\ Passed("no_writes_applied")
      /\ Passed("no_caused_events") /\ Passed("no_model_call")
  BY DEF Passed, Group, Obeyed, WritesAttempted, WritesApplied, CausedEvents, ModelCalls
<1>8. Passed("observations_hashed")
  BY <1>1 DEF Passed, Group, Grounded
<1>9. Passed("trace_id_recomputes")
  <2>1. trace \in Seq(Entries)
    BY DEF TraceInv, TraceTyped
  <2>2. Len(TraceId[2]) = Len(trace)
    BY <2>1 DEF TraceId
  <2> QED BY <2>2 DEF Passed, Group, Grounded
<1>10. Passed("escalations_eligible")
  BY <1>3 DEF Passed, Group, Grounded, SuspenseKeyed
<1>11. Passed("escalations_planned")
  BY <1>3 DEF Passed, Group, Grounded, ToSet
<1>12. Passed("escalation_reason_consistent")
  BY DEF Passed, Group, Grounded, ReasonOf
<1> QED BY <1>4, <1>5, <1>6, <1>7, <1>8, <1>9, <1>10, <1>11, <1>12 DEF CheckIds

LEMMA TraceTells == TraceInv => TelemetryTellsWhy
<1> SUFFICES ASSUME TraceInv, Ended
             PROVE  /\ FailedChecks \subseteq {"budget_not_exhausted", "escalations_inspected"}
                    /\ "budget_not_exhausted" \in FailedChecks <=> trace[Len(trace)].rule = "SEQ_BUDGET"
                    /\ "escalations_inspected" \in FailedChecks
                         <=> \E d \in ToSet(escalated) : \A i \in DOMAIN trace :
                               (trace[i].rule = "SEQ_INSPECT" => trace[i].asked # d)
                    /\ OnlyAskedIsFiled => "escalations_inspected" \notin FailedChecks
  BY DEF TelemetryTellsWhy
<1>1. FailedChecks \subseteq {"budget_not_exhausted", "escalations_inspected"}
  BY EndedObeys DEF FailedChecks
<1>2. "budget_not_exhausted" \in FailedChecks <=> stop = "BUDGET_EXHAUSTED"
  BY DEF FailedChecks, CheckIds, Passed, Group, Obeyed
<1>3. "budget_not_exhausted" \in FailedChecks <=> trace[Len(trace)].rule = "SEQ_BUDGET"
  BY <1>2 DEF TraceInv, BudgetNamed
<1>4. "escalations_inspected" \in FailedChecks
        <=> \E i \in DOMAIN escalated : ~Inspected(escalated[i])
  BY DEF FailedChecks, CheckIds, Passed, Group, Grounded
<1>5. \A d : Inspected(d) <=> \E i \in DOMAIN trace : trace[i].rule = "SEQ_INSPECT" /\ trace[i].asked = d
  BY EntryFacts DEF TraceInv, Inspected
<1>6. "escalations_inspected" \in FailedChecks
        <=> \E d \in ToSet(escalated) : \A i \in DOMAIN trace :
              (trace[i].rule = "SEQ_INSPECT" => trace[i].asked # d)
  BY <1>4, <1>5 DEF ToSet
<1>7. OnlyAskedIsFiled => "escalations_inspected" \notin FailedChecks
  BY <1>4 DEF OnlyAskedIsFiled, TraceInv, EscalatedFiled
<1> QED BY <1>1, <1>3, <1>6, <1>7

\* A finished run's telemetry fails no check but the two that report what went
\* wrong, and those exactly when it did.
THEOREM TelemetryHolds == ReportSpec => []TelemetryTellsWhy
BY TraceInvariance, TraceTells, PTL
=============================================================================
