-------------------------- MODULE ProbeLoopProofs --------------------------
(***************************************************************************)
(* Proofs about ProbeLoop, for any components, reports, contexts and       *)
(* providers, any P_max and any number of retries.                         *)
(***************************************************************************)
EXTENDS ProbeLoop, TLAPS, SequenceTheorems, WellFoundedInduction

-----------------------------------------------------------------------------
(* S4                                                                      *)

\* Two or more candidates are classified by the two best.
LEMMA ComparedByRank ==
  ASSUME NEW c, NEW r, NEW n
  PROVE  Compare(c, r, n) = Classify(c, Ranked(c, r)[1], Ranked(c, r)[2], n)
<1> DEFINE two == Ranked(c, r)
           result == Classify(c, two[1], two[2], n)
<1>1. {Classify(c, pair[1], pair[2], n) : pair \in {two}} = {result}
  OBVIOUS
<1>2. ASSUME NEW x PROVE The({x}) = x
  BY DEF The
<1> HIDE DEF result
<1>3. Compare(c, r, n) = The({result})
  BY <1>1 DEF Compare
<1>4. Compare(c, r, n) = result
  BY <1>2, <1>3
<1> QED BY <1>4 DEF result

\* How a result's outcome and its certificate reason go together, at n probes.
LEMMA OutcomeTells ==
  ASSUME NEW c, NEW r, NEW n
  PROVE  LET s == solve(c, r, n)
         IN  /\ s.outcome \in Outcomes
             /\ s.certificate_reason = None <=> s.outcome \notin {"AMBIGUOUS", "INTRACTABLE"}
             /\ s.outcome = "INTRACTABLE" =>
                  c.exceeds_k_max /\ s.certificate_reason = "SEARCH_BOUND_EXCEEDED"
             /\ c.exceeds_k_max => s.outcome = "INTRACTABLE"
             /\ s.outcome = "AMBIGUOUS" =>
                  \/ ~c.bank_evidence /\ s.certificate_reason = "MATERIALITY_UNDETERMINED"
                  \/ s.certificate_reason = certificateReason(n)
<1> USE DEF Result, Outcomes, None, Determined
<1>1. \A n1 : certificateReason(n1) # None
  BY DEF certificateReason
<1>2. CASE c.exceeds_k_max
  BY <1>2 DEF solve
<1>3. CASE ~c.exceeds_k_max /\ Cardinality(Candidates(c)) <= 1
  BY <1>3 DEF solve
<1>4. CASE ~c.exceeds_k_max /\ ~(Cardinality(Candidates(c)) <= 1)
  <2>1. solve(c, r, n) = Classify(c, Ranked(c, r)[1], Ranked(c, r)[2], n)
    BY <1>4, ComparedByRank DEF solve
  <2> QED BY <1>1, <1>4, <2>1 DEF Classify
<1> QED BY <1>2, <1>3, <1>4

\* Probes change an outcome through the reports only, not through their number.
LEMMA OutcomeIgnoresAttempts ==
  ASSUME NEW c, NEW r, NEW n, NEW m
  PROVE  solve(c, r, n).outcome = solve(c, r, m).outcome
<1>1. Compare(c, r, n).outcome = Compare(c, r, m).outcome
  BY ComparedByRank DEF Classify, Result
<1> QED BY <1>1 DEF solve, Result

\* Reports on other settlements are no evidence.
LEMMA OthersAreNoEvidence ==
  ASSUME NEW c, NEW S, c.target \notin S
  PROVE  RStar(c, S) = RStar(c, {})
BY DEF RStar

-----------------------------------------------------------------------------
(* The offline rule                                                        *)

\* A non-empty set of ids has a smallest one, and it is on offer.
LEMMA SmallestIsOffered ==
  ASSUME NEW S, S \subseteq Nat, S # {}
  PROVE  Min(S) \in S
<1> DEFINE Less == {ss \in Nat \X Nat : ss[1] < ss[2]}
<1>1. IsWellFoundedOn(Less, Nat)
  BY NatLessThanWellFounded DEF OpToRel
<1>2. PICK x \in S : \A y \in S : ~ (<<y, x>> \in Less)
  <2> HIDE DEF Less
  <2> QED BY <1>1, WFMin, Zenon
<1>3. ASSUME NEW y \in S PROVE x <= y
  <2>1. x \in Nat /\ y \in Nat /\ <<y, x>> \in Nat \X Nat
    OBVIOUS
  <2>2. <<y, x>> \notin Less
    BY <1>2, Zenon
  <2>3. ~ (y < x)
    BY <2>1, <2>2
  <2> QED BY <2>1, <2>3
<1> QED BY <1>3 DEF Min

\* What the offline rule answers is always allowed.
LEMMA OfflineIsAllowed ==
  \/ offlineR3 = NoProbe
  \/ offlineR3 \in [probe : R3Kinds, id : Ids] /\ Allowed(offlineR3)
<1>1. Available \subseteq Ids /\ Available \subseteq Nat
  BY S4Assumption, ProbeAssumption DEF Available
<1>2. ASSUME Available = {} PROVE offlineR3 = NoProbe
  BY <1>2, Zenon DEF offlineR3
<1>3. CASE Available # {}
  <2>1. Min(Available) \in Available
    BY <1>1, <1>3, SmallestIsOffered
  <2> DEFINE p == [probe |-> "fetch_settlement_recon", id |-> Min(Available)]
  <2>2. offlineR3 = p
    BY <1>3 DEF offlineR3
  <2>3. p \in [probe : R3Kinds, id : Ids]
    BY <1>1, <2>1 DEF R3Kinds
  <2>4. p.id \in Available
    BY <2>1
  <2> QED BY <2>2, <2>3, <2>4 DEF Allowed
<1> QED BY <1>2, <1>3, Zenon

-----------------------------------------------------------------------------
(* The inductive invariant                                                 *)

\* The reports are those of the logged probes.
LogMatches ==
  /\ Len(reports) = Len(events)
  /\ \A i \in DOMAIN events : events[i].subject = reports[i]

\* Only an undecided component with budget left is asked about.
AskedWithCause ==
  pc \in {"ASK", "FALLBACK", "OFFER"} => current.outcome = "AMBIGUOUS" /\ attempts < PMax

\* A provider is asked while it has tries left, and afresh in every round.
TriesLeft == /\ pc = "ASK" => tries <= Retries
             /\ pc \in {"DECIDE", "OFFER"} => tries = 0

\* What is offered was answered in this round and passed the allowlist.
Answered ==
  pc = "OFFER" => /\ calls # <<>>
                  /\ Last(calls).round = attempts
                  /\ answer = NoProbe \/ (answer \in [probe : R3Kinds, id : Ids] /\ Allowed(answer))

\* Nobody is asked about a component that could not be searched.
UnsearchedUnasked == comp.exceeds_k_max => calls = <<>>

\* Lookups of other settlements leave the component undecided.
OthersDecideNothing ==
  attempts > 0 /\ comp.target \notin Subjects => current.outcome = "AMBIGUOUS"

AcceptedDecided == pc = "ACCEPTED" => current.certificate_reason = None

IInv == /\ TypeOK
        /\ EveryProbeLogged
        /\ SolveFollowsEvidence
        /\ StopTellsWhy
        /\ OnlyOfferedDispatched
        /\ LogMatches
        /\ AskedWithCause
        /\ TriesLeft
        /\ Answered
        /\ UnsearchedUnasked
        /\ OthersDecideNothing
        /\ AcceptedDecided

EventRecords == [subject : Ids, attempts_before : Nat,
                 proposer : [llm_provider : Providers \cup {"offline"},
                             model_id : Models, llm_call : Nat]]

CallRecords == [round : Nat, provider : Providers \cup {"offline"},
                model_id : Models, outcome : CallOutcomes]

\* Reports that match the events name the subjects of the events.
LEMMA ReportsAreSubjects ==
  ASSUME NEW rs \in Seq(Ids), NEW es \in Seq(EventRecords), Len(rs) = Len(es),
         \A i \in DOMAIN es : es[i].subject = rs[i]
  PROVE  Range(rs) = {es[i].subject : i \in DOMAIN es}
<1>1. DOMAIN rs = DOMAIN es
  OBVIOUS
<1> QED BY <1>1 DEF Range

LEMMA InitIInv == Init => IInv
<1> SUFFICES ASSUME Init PROVE IInv
  OBVIOUS
<1> USE S4Assumption, ProbeAssumption DEF Init, initialState
<1>1. Subjects = {} /\ Range(<<>>) = {}
  BY DEF Subjects, Range
<1>2. current = solve(comp, RStar(comp, Subjects), attempts)
  BY <1>1 DEF Solved
<1>3. TypeOK
  <2>1. current.outcome \in Outcomes
    BY <1>2, OutcomeTells
  <2>2. current.certificate_reason \in Reasons \cup {None}
    BY <1>2, OutcomeTells DEF certificateReason, Reasons, Outcomes
  <2> QED BY <2>1, <2>2 DEF TypeOK, NoStop, Proposals
<1>4. EveryProbeLogged /\ SolveFollowsEvidence /\ OnlyOfferedDispatched /\ LogMatches
  BY <1>1, <1>2 DEF EveryProbeLogged, SolveFollowsEvidence, OnlyOfferedDispatched, LogMatches
<1>5. StopTellsWhy /\ AskedWithCause /\ TriesLeft /\ Answered /\ AcceptedDecided
  BY DEF StopTellsWhy, AskedWithCause, TriesLeft, Answered, AcceptedDecided
<1>6. UnsearchedUnasked /\ OthersDecideNothing
  BY DEF UnsearchedUnasked, OthersDecideNothing
<1> QED BY <1>3, <1>4, <1>5, <1>6 DEF IInv

-----------------------------------------------------------------------------
(* Steps                                                                   *)

\* Steps that log no probe and call nobody leave all but the ending alone.
LEMMA DecideIInv == IInv /\ Decide => IInv'
<1> SUFFICES ASSUME IInv, Decide PROVE IInv'
  OBVIOUS
<1> USE DEF IInv, loopState
<1>0. UNCHANGED <<comp, context, provider, attempts, reports, current, events, calls, tries, answer>>
  BY DEF Decide
<1>1. /\ pc' \in {"ACCEPTED", "ASK", "STOPPED"}
      /\ stop' = stop \/ stop' = [certificate_reason |-> current.certificate_reason, rejection |-> None]
  BY DEF Decide, StopWith
<1>2. TypeOK'
  BY <1>0, <1>1 DEF TypeOK, Ended, None
<1>3. (EveryProbeLogged /\ SolveFollowsEvidence /\ OnlyOfferedDispatched /\ LogMatches)'
  BY <1>0 DEF EveryProbeLogged, SolveFollowsEvidence, OnlyOfferedDispatched, LogMatches, Subjects
<1>4. StopTellsWhy'
  <2> SUFFICES ASSUME pc' = "STOPPED" PROVE StopTellsWhy'
    BY DEF StopTellsWhy
  <2>1. /\ stop'.certificate_reason = current.certificate_reason
        /\ stop'.rejection = None
        /\ current.certificate_reason # None
        /\ ~WantsProbe
    BY DEF Decide, StopWith
  <2>2. CASE current.outcome = "AMBIGUOUS"
    <3>1. attempts = PMax /\ Len(events) = PMax /\ PMax \in Nat \ {0}
      BY <2>1, <2>2, S4Assumption DEF WantsProbe, TypeOK, EveryProbeLogged
    <3>2. \/ ~comp.bank_evidence /\ current.certificate_reason = "MATERIALITY_UNDETERMINED"
          \/ current.certificate_reason = certificateReason(attempts)
      BY <2>2, OutcomeTells DEF SolveFollowsEvidence
    <3>3. certificateReason(attempts) = "PROBE_BUDGET_EXHAUSTED"
      BY <3>1 DEF certificateReason
    <3> QED BY <1>0, <2>1, <3>1, <3>2, <3>3 DEF StopTellsWhy
  <2>3. CASE current.outcome # "AMBIGUOUS"
    <3>1. comp.exceeds_k_max /\ current.certificate_reason = "SEARCH_BOUND_EXCEEDED"
      BY <2>1, <2>3, OutcomeTells DEF SolveFollowsEvidence, Outcomes
    <3> QED BY <1>0, <2>1, <3>1 DEF StopTellsWhy, UnsearchedUnasked
  <2> QED BY <2>2, <2>3
<1>5. (AskedWithCause /\ TriesLeft /\ Answered /\ AcceptedDecided)'
  <2>1. pc' = "ASK" => WantsProbe
    BY DEF Decide, StopWith
  <2>2. pc' = "ACCEPTED" => current.certificate_reason = None
    BY DEF Decide, StopWith
  <2>3. pc' = "ASK" => tries <= Retries
    BY ProbeAssumption DEF Decide, TriesLeft
  <2> QED BY <1>0, <1>1, <2>1, <2>2, <2>3 DEF AskedWithCause, TriesLeft, Answered, AcceptedDecided, WantsProbe
<1>6. (UnsearchedUnasked /\ OthersDecideNothing)'
  BY <1>0 DEF UnsearchedUnasked, OthersDecideNothing, Subjects
<1> QED BY <1>2, <1>3, <1>4, <1>5, <1>6

\* Recording a call in a round that asks.
LEMMA RecordKeeps ==
  ASSUME IInv, pc \in {"ASK", "FALLBACK"},
         NEW p \in Providers \cup {"offline"}, NEW o \in CallOutcomes, Record(p, o),
         UNCHANGED <<comp, context, provider, loopState, stop>>,
         pc' \notin {"DECIDE", "ACCEPTED", "STOPPED"}
  PROVE  /\ calls' \in Seq(CallRecords) /\ calls' # <<>>
         /\ Last(calls').round = attempts'
         /\ (EveryProbeLogged /\ SolveFollowsEvidence /\ OnlyOfferedDispatched)'
         /\ (LogMatches /\ StopTellsWhy /\ UnsearchedUnasked)'
         /\ (OthersDecideNothing /\ AcceptedDecided)'
<1> USE DEF IInv, loopState
<1> DEFINE r == [round |-> attempts, provider |-> p, model_id |-> ModelOf(p), outcome |-> o]
<1>1. r \in CallRecords
  <2>1. attempts \in Nat
    BY S4Assumption DEF TypeOK
  <2>2. ModelOf(p) \in Models
    BY DEF ModelOf, Models
  <2> QED BY <2>1, <2>2 DEF CallRecords
<1>2. calls \in Seq(CallRecords) /\ calls' = Append(calls, r)
  BY DEF Record, TypeOK, CallRecords
<1>3. calls' \in Seq(CallRecords) /\ Len(calls') = Len(calls) + 1 /\ calls'[Len(calls) + 1] = r
  <2> HIDE DEF r
  <2> QED BY <1>1, <1>2
<1>4. Last(calls').round = attempts'
  BY <1>3 DEF Last
<1>5. (EveryProbeLogged /\ SolveFollowsEvidence /\ OnlyOfferedDispatched /\ LogMatches)'
  BY DEF EveryProbeLogged, SolveFollowsEvidence, OnlyOfferedDispatched, LogMatches, Subjects
<1>6. StopTellsWhy' /\ AcceptedDecided'
  BY DEF StopTellsWhy, AcceptedDecided
<1>7. UnsearchedUnasked'
  <2>1. current.outcome = "AMBIGUOUS"
    BY DEF AskedWithCause
  <2>2. ~comp.exceeds_k_max
    BY <2>1, OutcomeTells DEF SolveFollowsEvidence
  <2> QED BY <2>2 DEF UnsearchedUnasked
<1>8. OthersDecideNothing'
  BY DEF OthersDecideNothing, Subjects
<1> QED BY <1>3, <1>4, <1>5, <1>6, <1>7, <1>8

LEMMA AcceptKeeps ==
  ASSUME IInv, pc \in {"ASK", "FALLBACK"},
         NEW p \in Providers \cup {"offline"}, NEW a, Accept(p, a),
         \/ a = NoProbe
         \/ a \in [probe : R3Kinds, id : Ids] /\ Allowed(a),
         UNCHANGED <<comp, context, provider, loopState, stop>>
  PROVE  IInv'
<1> USE DEF loopState
<1>1. /\ Record(p, "accepted") /\ answer' = a /\ tries' = 0 /\ pc' = "OFFER"
  BY DEF Accept
<1>2. "accepted" \in CallOutcomes
  BY DEF CallOutcomes
<1>3. /\ calls' \in Seq(CallRecords) /\ calls' # <<>>
      /\ Last(calls').round = attempts'
      /\ (EveryProbeLogged /\ SolveFollowsEvidence /\ OnlyOfferedDispatched)'
      /\ (LogMatches /\ StopTellsWhy /\ UnsearchedUnasked)'
      /\ (OthersDecideNothing /\ AcceptedDecided)'
  BY <1>1, <1>2, RecordKeeps
<1>4. TypeOK'
  BY <1>1, <1>3, ProbeAssumption DEF IInv, TypeOK, CallRecords, Proposals
<1>5. Answered' /\ AskedWithCause' /\ TriesLeft'
  BY <1>1, <1>3 DEF IInv, Answered, AskedWithCause, TriesLeft, Allowed, Available
<1> QED BY <1>3, <1>4, <1>5 DEF IInv

LEMMA AskIInv == IInv /\ Ask => IInv'
<1> SUFFICES ASSUME IInv, Ask PROVE IInv'
  OBVIOUS
<1>0. /\ pc = "ASK" /\ provider \in Providers
      /\ UNCHANGED <<comp, context, provider, loopState, stop>>
  BY DEF Ask, IInv, TypeOK
<1>1. CASE Accept("offline", offlineR3)
  BY <1>0, <1>1, OfflineIsAllowed, AcceptKeeps
<1>2. ASSUME NEW a \in Proposals, Allowed(a), Accept(provider, a) PROVE IInv'
  BY <1>0, <1>2, AcceptKeeps DEF Proposals
<1>3. ASSUME NEW o \in CallOutcomes, Discard(o) PROVE IInv'
  <2>1. /\ Record(provider, o) /\ tries' = tries + 1 /\ answer' = answer
        /\ pc' = IF RetriesLeft THEN "ASK" ELSE "FALLBACK"
    BY <1>3 DEF Discard
  <2>2. /\ calls' \in Seq(CallRecords) /\ calls' # <<>>
        /\ Last(calls').round = attempts'
        /\ (EveryProbeLogged /\ SolveFollowsEvidence /\ OnlyOfferedDispatched)'
        /\ (LogMatches /\ StopTellsWhy /\ UnsearchedUnasked)'
        /\ (OthersDecideNothing /\ AcceptedDecided)'
    BY <1>0, <2>1, RecordKeeps
  <2>3. tries \in Nat /\ tries <= Retries /\ Retries \in Nat
    BY <1>0, ProbeAssumption DEF IInv, TypeOK, TriesLeft
  <2>4. TypeOK'
    BY <1>0, <2>1, <2>2, <2>3 DEF IInv, TypeOK, CallRecords, loopState
  <2>5. Answered' /\ AskedWithCause' /\ TriesLeft'
    BY <1>0, <2>1, <2>3 DEF IInv, Answered, AskedWithCause, TriesLeft, RetriesLeft, loopState
  <2> QED BY <2>2, <2>4, <2>5 DEF IInv
<1> QED BY <1>1, <1>2, <1>3 DEF Ask, CallOutcomes

LEMMA FallBackIInv == IInv /\ FallBack => IInv'
<1> SUFFICES ASSUME IInv, FallBack PROVE IInv'
  OBVIOUS
<1>1. /\ pc = "FALLBACK" /\ Accept("offline", offlineR3)
      /\ UNCHANGED <<comp, context, provider, loopState, stop>>
  BY DEF FallBack
<1> QED BY <1>1, OfflineIsAllowed, AcceptKeeps

LEMMA MissIInv == IInv /\ Miss => IInv'
<1> SUFFICES ASSUME IInv, Miss PROVE IInv'
  OBVIOUS
<1> USE DEF IInv
<1>1. /\ pc' = "REPLAY_MISS"
      /\ UNCHANGED <<comp, context, provider, attempts, reports, current, events,
                     calls, tries, answer, stop>>
  BY DEF Miss, loopState
<1>2. TypeOK'
  BY <1>1 DEF TypeOK, Ended
<1>3. (EveryProbeLogged /\ SolveFollowsEvidence /\ OnlyOfferedDispatched /\ LogMatches)'
  BY <1>1 DEF EveryProbeLogged, SolveFollowsEvidence, OnlyOfferedDispatched, LogMatches, Subjects
<1>4. (StopTellsWhy /\ AskedWithCause /\ TriesLeft /\ Answered /\ AcceptedDecided)'
  BY <1>1 DEF StopTellsWhy, AskedWithCause, TriesLeft, Answered, AcceptedDecided
<1>5. (UnsearchedUnasked /\ OthersDecideNothing)'
  BY <1>1 DEF UnsearchedUnasked, OthersDecideNothing, Subjects
<1> QED BY <1>2, <1>3, <1>4, <1>5

\* An offer that ends the loop, with the component undecided and budget left.
LEMMA DeclineIInv ==
  ASSUME IInv, pc = "OFFER", NEW x \in Rejections \cup {None},
         StopWith(current.certificate_reason, x),
         UNCHANGED <<comp, context, provider, calls, tries, answer, loopState>>
  PROVE  IInv'
<1> USE DEF IInv
<1>1. /\ pc' = "STOPPED"
      /\ stop' = [certificate_reason |-> current.certificate_reason, rejection |-> x]
      /\ UNCHANGED <<comp, context, provider, attempts, reports, current, events,
                     calls, tries, answer>>
  BY DEF StopWith, loopState
<1>2. TypeOK'
  BY <1>1 DEF TypeOK, Ended
<1>3. (EveryProbeLogged /\ SolveFollowsEvidence /\ OnlyOfferedDispatched /\ LogMatches)'
  BY <1>1 DEF EveryProbeLogged, SolveFollowsEvidence, OnlyOfferedDispatched, LogMatches, Subjects
<1>4. StopTellsWhy'
  <2>1. /\ current.outcome = "AMBIGUOUS" /\ attempts < PMax /\ attempts \in Nat
        /\ calls # <<>> /\ Last(calls).round = attempts
        /\ attempts = Len(events)
    BY S4Assumption DEF AskedWithCause, Answered, EveryProbeLogged, TypeOK
  <2>2. \/ ~comp.bank_evidence /\ current.certificate_reason = "MATERIALITY_UNDETERMINED"
        \/ current.certificate_reason = certificateReason(attempts)
    BY <2>1, OutcomeTells DEF SolveFollowsEvidence
  <2>3. CASE attempts = 0
    <3>1. certificateReason(attempts) = "EVIDENCE_TIE"
      BY <2>3, S4Assumption DEF certificateReason
    <3>2. events = <<>>
      <4>1. events \in Seq(EventRecords)
        BY DEF TypeOK, EventRecords
      <4> QED BY <4>1, <2>1, <2>3, EmptySeq
    <3> QED BY <1>1, <2>1, <2>2, <3>1, <3>2 DEF StopTellsWhy
  <2>4. CASE attempts > 0
    <3>1. certificateReason(attempts) = "NO_USEFUL_PROBE_AVAILABLE"
      BY <2>1, <2>4, S4Assumption DEF certificateReason
    <3>2. events # <<>>
      BY <2>1, <2>4
    <3> QED BY <1>1, <2>1, <2>2, <3>1, <3>2 DEF StopTellsWhy
  <2> QED BY <2>1, <2>3, <2>4
<1>5. (AskedWithCause /\ TriesLeft /\ Answered /\ AcceptedDecided)'
  BY <1>1 DEF AskedWithCause, TriesLeft, Answered, AcceptedDecided
<1>6. (UnsearchedUnasked /\ OthersDecideNothing)'
  BY <1>1 DEF UnsearchedUnasked, OthersDecideNothing, Subjects
<1> QED BY <1>2, <1>3, <1>4, <1>5, <1>6

\* A lookup on the component's own settlement is needed to decide it.
LEMMA UndecidedByOthers ==
  ASSUME NEW c, NEW S, NEW n, NEW T, NEW m,
         c.target \notin T, S \subseteq T, solve(c, RStar(c, S), n).outcome = "AMBIGUOUS"
  PROVE  solve(c, RStar(c, T), m).outcome = "AMBIGUOUS"
<1>1. c.target \notin S
  OBVIOUS
<1>2. RStar(c, S) = RStar(c, {}) /\ RStar(c, T) = RStar(c, {})
  BY <1>1, OthersAreNoEvidence
<1> QED BY <1>2, OutcomeIgnoresAttempts

\* A dispatched lookup: logged, charged, kept and solved over.
LEMMA DispatchIInv ==
  ASSUME IInv, pc = "OFFER", offerR3Proposal(answer).kind = "CALL", Dispatch(answer),
         UNCHANGED <<comp, context, provider, calls, tries, answer>>
  PROVE  IInv'
<1> USE DEF IInv
<1> DEFINE e == [subject |-> answer.id, attempts_before |-> attempts, proposer |-> Proposer]
<1>1. /\ answer \in [probe : R3Kinds, id : Ids] /\ answer.id \in Ids
      /\ answer.id \in Observed /\ answer.id \in context
  <2>0. answer # NoProbe /\ validate(answer) = None
    BY DEF offerR3Proposal, offerProposal, StopOutcome
  <2>1. answer \in [probe : R3Kinds, id : Ids] /\ Allowed(answer)
    BY <2>0 DEF Answered
  <2>2. answer.id \in Observed
    BY <2>0 DEF validate, None
  <2> QED BY <2>1, <2>2, ProbeAssumption DEF Allowed, Available
<1>2. /\ attempts \in Nat /\ attempts < PMax /\ PMax \in Nat
      /\ current.outcome = "AMBIGUOUS"
  BY S4Assumption DEF AskedWithCause, TypeOK
<1>3. e \in EventRecords
  <2>1. calls \in Seq(CallRecords) /\ calls # <<>>
    BY DEF TypeOK, CallRecords, Answered
  <2>2. Last(calls) \in CallRecords /\ Len(calls) \in Nat
    BY <2>1 DEF Last
  <2>3. Proposer \in [llm_provider : Providers \cup {"offline"}, model_id : Models, llm_call : Nat]
    BY <2>2 DEF Proposer, CallRecords, ModelOf, Models
  <2> QED BY <1>1, <1>2, <2>3 DEF EventRecords
<1>4. /\ events' = Append(events, e) /\ attempts' = attempts + 1
      /\ reports' = Append(reports, answer.id)
      /\ current' = Solved(attempts', reports')
      /\ pc' = "DECIDE" /\ stop' = stop
  BY DEF Dispatch, AttemptsAfter, ReportsWith
<1>5. events \in Seq(EventRecords) /\ reports \in Seq(Ids)
  BY DEF TypeOK, EventRecords
<1>6. /\ events' \in Seq(EventRecords) /\ Len(events') = Len(events) + 1
      /\ \A i \in DOMAIN events : events'[i] = events[i]
      /\ events'[Len(events) + 1] = e
      /\ DOMAIN events' = DOMAIN events \cup {Len(events) + 1}
  <2> HIDE DEF e
  <2> QED BY <1>3, <1>4, <1>5
<1>7. EveryProbeLogged'
  <2>1. attempts' = Len(events') /\ attempts' <= PMax
    BY <1>2, <1>4, <1>6 DEF EveryProbeLogged
  <2>2. ASSUME NEW i \in DOMAIN events' PROVE events'[i].attempts_before = i - 1
    <3>1. CASE i \in DOMAIN events
      BY <1>6, <3>1 DEF EveryProbeLogged
    <3>2. CASE i = Len(events) + 1
      BY <1>2, <1>5, <1>6, <3>2 DEF EveryProbeLogged
    <3> QED BY <1>6, <3>1, <3>2
  <2> QED BY <2>1, <2>2 DEF EveryProbeLogged
<1>8. LogMatches'
  <2>1. reports' \in Seq(Ids) /\ Len(reports') = Len(reports) + 1
        /\ reports'[Len(reports) + 1] = answer.id
        /\ \A i \in DOMAIN reports : reports'[i] = reports[i]
    BY <1>1, <1>4, <1>5
  <2>2. DOMAIN reports = DOMAIN events
    BY <1>5 DEF LogMatches
  <2> QED BY <1>5, <1>6, <2>1, <2>2 DEF LogMatches
<1>9. Subjects' = Subjects \cup {answer.id}
  BY <1>6 DEF Subjects
<1>10. SolveFollowsEvidence'
  <2>1. reports' \in Seq(Ids)
    BY <1>1, <1>4, <1>5
  <2>2. Range(reports') = Subjects'
    BY <1>6, <1>8, <2>1, ReportsAreSubjects DEF LogMatches, Subjects
  <2> QED BY <1>4, <2>2 DEF Solved, SolveFollowsEvidence
<1>11. OnlyOfferedDispatched'
  BY <1>1, <1>9 DEF OnlyOfferedDispatched
<1>12. OthersDecideNothing'
  BY <1>2, <1>9, <1>10, UndecidedByOthers DEF SolveFollowsEvidence, OthersDecideNothing
<1>13. TypeOK'
  <2>1. current'.outcome \in Outcomes
    BY <1>10, OutcomeTells DEF SolveFollowsEvidence
  <2>2. current'.certificate_reason \in Reasons \cup {None}
    BY <1>10, OutcomeTells DEF SolveFollowsEvidence, certificateReason, Reasons, Outcomes
  <2>3. attempts' \in 0..PMax /\ reports' \in Seq(Ids)
    BY <1>1, <1>2, <1>4, <1>5
  <2> QED BY <1>4, <1>6, <2>1, <2>2, <2>3 DEF TypeOK, EventRecords
<1>14. (StopTellsWhy /\ AskedWithCause /\ TriesLeft /\ Answered /\ AcceptedDecided)'
  BY <1>4 DEF StopTellsWhy, AskedWithCause, TriesLeft, Answered, AcceptedDecided
<1>15. UnsearchedUnasked'
  BY DEF UnsearchedUnasked
<1> QED BY <1>7, <1>8, <1>10, <1>11, <1>12, <1>13, <1>14, <1>15

LEMMA OfferIInv == IInv /\ Offer => IInv'
<1> SUFFICES ASSUME IInv, Offer PROVE IInv'
  OBVIOUS
<1>1. pc = "OFFER" /\ UNCHANGED <<comp, context, provider, calls, tries, answer>>
  BY DEF Offer
<1>2. stopReason = current.certificate_reason
  BY <1>1, OutcomeTells DEF stopReason, IInv, AskedWithCause, SolveFollowsEvidence
<1>3. CASE /\ offerR3Proposal(answer).kind = "STOP"
           /\ StopWith(offerR3Proposal(answer).certificate_reason,
                       offerR3Proposal(answer).rejection)
           /\ UNCHANGED loopState
  <2> DEFINE x == offerR3Proposal(answer).rejection
  <2>1. /\ offerR3Proposal(answer).certificate_reason = stopReason
        /\ x \in Rejections \cup {None}
    BY <1>3 DEF offerR3Proposal, offerProposal, StopOutcome, CallOutcome, validate, Rejections
  <2>2. StopWith(current.certificate_reason, x) /\ UNCHANGED loopState
    BY <1>2, <1>3, <2>1
  <2> HIDE DEF x
  <2> QED BY <1>1, <2>1, <2>2, DeclineIInv
<1>5. CASE offerR3Proposal(answer).kind = "CALL" /\ Dispatch(answer)
  BY <1>1, <1>5, DispatchIInv
<1>6. CASE pc' = "SOURCE_UNAVAILABLE" /\ UNCHANGED <<loopState, stop>>
  <2> USE DEF IInv
  <2>1. UNCHANGED <<comp, context, provider, attempts, reports, current, events,
                    calls, tries, answer, stop>>
    BY <1>1, <1>6 DEF loopState
  <2>2. TypeOK'
    BY <1>6, <2>1 DEF TypeOK, Ended
  <2>3. (EveryProbeLogged /\ SolveFollowsEvidence /\ OnlyOfferedDispatched /\ LogMatches)'
    BY <2>1 DEF EveryProbeLogged, SolveFollowsEvidence, OnlyOfferedDispatched, LogMatches, Subjects
  <2>4. (StopTellsWhy /\ AskedWithCause /\ TriesLeft /\ Answered /\ AcceptedDecided)'
    BY <1>6, <2>1 DEF StopTellsWhy, AskedWithCause, TriesLeft, Answered, AcceptedDecided
  <2>5. (UnsearchedUnasked /\ OthersDecideNothing)'
    BY <2>1 DEF UnsearchedUnasked, OthersDecideNothing, Subjects
  <2> QED BY <2>2, <2>3, <2>4, <2>5
<1> QED BY <1>3, <1>5, <1>6 DEF Offer

LEMMA StutterIInv == IInv /\ UNCHANGED vars => IInv'
<1> SUFFICES ASSUME IInv, UNCHANGED vars PROVE IInv'
  OBVIOUS
<1> USE DEF vars, loopState, IInv
<1>1. TypeOK'
  BY DEF TypeOK
<1>2. (EveryProbeLogged /\ SolveFollowsEvidence /\ OnlyOfferedDispatched /\ LogMatches)'
  BY DEF EveryProbeLogged, SolveFollowsEvidence, OnlyOfferedDispatched, LogMatches, Subjects
<1>3. (StopTellsWhy /\ AskedWithCause /\ TriesLeft /\ Answered /\ AcceptedDecided)'
  BY DEF StopTellsWhy, AskedWithCause, TriesLeft, Answered, AcceptedDecided, Allowed, Available
<1>4. (UnsearchedUnasked /\ OthersDecideNothing)'
  BY DEF UnsearchedUnasked, OthersDecideNothing, Subjects
<1> QED BY <1>1, <1>2, <1>3, <1>4

THEOREM Invariance == Spec => []IInv
<1>1. IInv /\ [Next]_vars => IInv'
  BY DecideIInv, AskIInv, MissIInv, FallBackIInv, OfferIInv, StutterIInv DEF Next
<1> QED BY InitIInv, <1>1, PTL DEF Spec

-----------------------------------------------------------------------------
(* What follows                                                            *)

THEOREM TypeCorrect == Spec => []TypeOK
<1>1. IInv => TypeOK
  BY DEF IInv
<1> QED BY <1>1, Invariance, PTL

\* The probe budget bounds the loop, and the log accounts for all of it,
\* whatever the proposer answers.
THEOREM BudgetAccounted == Spec => []EveryProbeLogged
<1>1. IInv => EveryProbeLogged
  BY DEF IInv
<1> QED BY <1>1, Invariance, PTL

\* A decision is never taken from a solve that misses evidence paid for.
THEOREM NeverStale == Spec => []SolveFollowsEvidence
<1>1. IInv => SolveFollowsEvidence
  BY DEF IInv
<1> QED BY <1>1, Invariance, PTL

\* The abstention certificate tells what happened.
THEOREM CertificateTruthful == Spec => []StopTellsWhy
<1>1. IInv => StopTellsWhy
  BY DEF IInv
<1> QED BY <1>1, Invariance, PTL

\* No proposer reaches a settlement that was not offered to it.
THEOREM OfferedOnly == Spec => []OnlyOfferedDispatched
<1>1. IInv => OnlyOfferedDispatched
  BY DEF IInv
<1> QED BY <1>1, Invariance, PTL

\* Only the component's own settlement report can resolve it.
THEOREM OwnReportResolves == Spec => []ResolvedByOwnReport
<1>1. IInv => ResolvedByOwnReport
  <2> SUFFICES ASSUME IInv, pc = "ACCEPTED", attempts > 0, comp.target \notin Subjects
               PROVE  FALSE
    BY DEF ResolvedByOwnReport
  <2>1. current.outcome = "AMBIGUOUS" /\ current.certificate_reason = None
    BY DEF IInv, OthersDecideNothing, AcceptedDecided
  <2> QED BY <2>1, OutcomeTells DEF IInv, SolveFollowsEvidence
<1> QED BY <1>1, Invariance, PTL

\* Every call and every probe has an ambiguous component for its cause and an
\* offered settlement for its subject.
THEOREM NothingWasted == Spec => ProbesJustified
<1>1. IInv /\ IInv' /\ [Next]_vars
        => [/\ calls' # calls \/ events' # events => current.outcome = "AMBIGUOUS"
            /\ OnlyOfferedDispatched']_vars
  <2> SUFFICES ASSUME IInv, IInv', Next, calls' # calls \/ events' # events
               PROVE  current.outcome = "AMBIGUOUS"
    BY DEF IInv
  <2>1. pc \in {"ASK", "FALLBACK", "OFFER"}
    BY DEF Next, Decide, Ask, Miss, FallBack, Offer, loopState
  <2> QED BY <2>1 DEF IInv, AskedWithCause
<1> QED BY <1>1, Invariance, PTL DEF Spec, ProbesJustified
=============================================================================
