----------------------------- MODULE ProbeLoop -----------------------------
(***************************************************************************)
(* The probe loop of one component (apps/cli/src/probe/run.ts driving      *)
(* packages/probe/src/loop.ts): S4 says AMBIGUOUS, the R3 role proposes one*)
(* lookup through the adjudicator (packages/llm/src/adjudicator.ts), the   *)
(* lookup is dispatched, S4 solves again over everything gathered.         *)
(*                                                                         *)
(* An awaited provider call is a step of its own (Ask, FallBack).  What the*)
(* code does between two awaits is one step: Decide, or Offer with the     *)
(* dispatch, the PROBE event, acceptResult and the re-solve.               *)
(*                                                                         *)
(* A provider is "offline" (the frozen rule), "replay" (a committed cache, *)
(* which answers a repeated request the same way and may miss) or "live"   *)
(* (anything at all, or unreachable).  The fallback is the offline rule; it*)
(* always yields a usable answer, so adjudicate never returns null here.   *)
(***************************************************************************)
EXTENDS S4Solve, Sequences, SequencesExt

CONSTANTS
  Components,   \* the components the loop may be started on
  Observed,     \* the ids of observations: ObservationUniverse.hasEntityId
  Shaped,       \* the ids that carry a known prefix: isEntityIdShaped
  Batch,        \* Batch[id]: the members the committed report of id names
  Contexts,     \* the settlement_ids a caller may offer
  Providers,    \* the providers that may be configured
  Retries       \* retries of one adjudication before the fallback

R3Kinds == {"fetch_order", "fetch_payment", "fetch_refund", "fetch_settlement_recon"}

ASSUME ProbeAssumption ==
  /\ \A c \in Components : SolveInput(c)
  /\ Observed \subseteq Shaped /\ Shaped \subseteq Ids
  /\ IsFiniteSet(Observed)
  /\ Batch \in [Ids -> SUBSET Members]
  /\ Contexts \subseteq SUBSET Ids
  /\ Providers \subseteq {"offline", "replay", "live"}
  /\ Retries \in Nat

VARIABLES
  comp,      \* the component
  context,   \* context.settlement_ids
  provider,  \* provider.id
  attempts,  \* state.attempts
  reports,   \* state.reports: the settlement each is on, in order
  current,   \* the last SolveResult
  events,    \* the PROBE event drafts
  calls,     \* the LlmCall records
  tries,     \* attempts made in the running adjudication
  answer,    \* the adjudicated proposal
  stop,      \* ProbeRunResult.stop, or NoStop
  pc         \* where the loop is

loopState == <<attempts, reports, current, events>>
vars == <<comp, context, provider, loopState, calls, tries, answer, stop, pc>>

NoProbe == [probe |-> "NO_USEFUL_PROBE", id |-> NoId]
Proposals == [probe : R3Kinds, id : Ids] \cup {NoProbe}

CallOutcomes == {"accepted", "rejected_schema", "rejected_allowlist", "fallback_offline"}
Rejections == {"NOT_R3_PROPOSABLE", "BUDGET_EXHAUSTED", "ARGUMENT_NOT_IN_OBSERVATION_SET"}
Ended == {"ACCEPTED", "STOPPED", "REPLAY_MISS", "SOURCE_UNAVAILABLE"}

NoStop == [certificate_reason |-> None, rejection |-> None]

\* One model stands for whatever the configured provider runs.
Models == {"rules-v1", "model"}

ModelOf(p) == IF p = "offline" THEN "rules-v1" ELSE "model"

-----------------------------------------------------------------------------
(* Evidence gathered                                                       *)

\* Fault: reports on other settlements count as well.
RStarOfAll(c, asked) == UNION {Batch[s] : s \in asked}

\* The reports on the target's own settlement, as observed members.
RStar(c, asked) == UNION {Batch[s] : s \in {t \in asked : t = c.target}}

\* Fault: only the newest report is kept.
ReportsNewest(call) == <<call.id>>

\* acceptResult keeps every report, repeated ones too.
ReportsWith(call) == Append(reports, call.id)

Solved(n, rs) == solve(comp, RStar(comp, Range(rs)), n)

-----------------------------------------------------------------------------
(* What is offered and what may be answered                                *)

\* buildAvailableProbes: only fetch_settlement_recon has a source.
Available == context \cap Observed

\* The frozen policy: the smallest argument of the first kind on offer.
offlineR3 == IF Available = {} THEN NoProbe
             ELSE [probe |-> "fetch_settlement_recon", id |-> Min(Available)]

\* Fault: an empty allowlist allows everything.
AllowedWhenEmpty(p) == p.id \in Shaped => Available = {} \/ p.id \in Available

\* checkAllowlist: only strings shaped like an id are governed.
Allowed(p) == p.id \in Shaped => p.id \in Available

\* validate, in its order.
validate(p) ==
  IF attempts >= PMax THEN "BUDGET_EXHAUSTED"
  ELSE IF p.id \notin Observed THEN "ARGUMENT_NOT_IN_OBSERVATION_SET"
  ELSE None

\* What a stop is certified with: what S4 said, or why the probes ended.
stopReason == IF current.certificate_reason # None THEN current.certificate_reason
              ELSE certificateReason(attempts)

CallOutcome == [kind |-> "CALL"]
StopOutcome(rejection) ==
  [kind |-> "STOP", certificate_reason |-> stopReason, rejection |-> rejection]

offerProposal(p) ==
  IF p = NoProbe THEN StopOutcome(None)
  ELSE IF validate(p) # None THEN StopOutcome(validate(p)) ELSE CallOutcome

\* The R3 role may not propose every kind of probe there is.
offerR3Proposal(p) ==
  IF p # NoProbe /\ p.probe \notin R3Kinds THEN StopOutcome("NOT_R3_PROPOSABLE")
  ELSE offerProposal(p)

initialState == [attempts |-> 0, reports |-> <<>>]

-----------------------------------------------------------------------------
Init ==
  /\ comp \in Components
  /\ context \in Contexts
  /\ provider \in Providers
  /\ attempts = initialState.attempts
  /\ reports = initialState.reports
  /\ current = Solved(attempts, reports)
  /\ events = <<>>
  /\ calls = <<>>
  /\ tries = 0
  /\ answer = NoProbe
  /\ stop = NoStop
  /\ pc = "DECIDE"

StopWith(reason, rejection) ==
  /\ stop' = [certificate_reason |-> reason, rejection |-> rejection]
  /\ pc' = "STOPPED"

\* decide: PROBE.
WantsProbe == current.outcome = "AMBIGUOUS" /\ attempts < PMax

Decide ==
  /\ pc = "DECIDE"
  /\ \/ /\ current.certificate_reason = None
        /\ pc' = "ACCEPTED"
        /\ UNCHANGED stop
     \/ /\ current.certificate_reason # None
        /\ WantsProbe
        /\ pc' = "ASK"
        /\ UNCHANGED stop
     \/ /\ current.certificate_reason # None
        /\ ~WantsProbe
        /\ StopWith(current.certificate_reason, None)
  /\ UNCHANGED <<comp, context, provider, loopState, calls, tries, answer>>

-----------------------------------------------------------------------------
(* adjudicate                                                              *)

Record(p, outcome) ==
  calls' = Append(calls, [round |-> attempts, provider |-> p,
                          model_id |-> ModelOf(p), outcome |-> outcome])

Accept(p, proposal) ==
  /\ Record(p, "accepted")
  /\ answer' = proposal
  /\ tries' = 0
  /\ pc' = "OFFER"

\* The same request to a replay cache brings the same response.
MayAnswer(outcome) ==
  provider = "replay" /\ tries > 0 => outcome = Last(calls).outcome

\* Fault: one retry too many.
RetriesLeftLate == tries <= Retries

RetriesLeft == tries < Retries

Discard(outcome) ==
  /\ MayAnswer(outcome)
  /\ Record(provider, outcome)
  /\ tries' = tries + 1
  /\ pc' = IF RetriesLeft THEN "ASK" ELSE "FALLBACK"
  /\ UNCHANGED answer

\* One attempt on the configured provider.
Ask ==
  /\ pc = "ASK"
  /\ \/ /\ provider = "offline"
        /\ Accept("offline", offlineR3)
     \/ /\ provider # "offline"
        /\ MayAnswer("accepted")
        /\ \E p \in Proposals : Allowed(p) /\ Accept(provider, p)
     \/ /\ provider # "offline"
        /\ \E p \in Proposals : ~Allowed(p)
        /\ Discard("rejected_allowlist")
     \/ /\ provider # "offline"
        /\ Discard("rejected_schema")
     \/ \* unreachable, or a miss of a cache that is not strict
        /\ provider # "offline"
        /\ Discard("fallback_offline")
  /\ UNCHANGED <<comp, context, provider, loopState, stop>>

\* Strict replay: a miss is an error of the run, never a live call.
Miss ==
  /\ pc = "ASK"
  /\ provider = "replay"
  /\ tries = 0
  /\ pc' = "REPLAY_MISS"
  /\ UNCHANGED <<comp, context, provider, loopState, calls, tries, answer, stop>>

\* Fault: only a live provider is fallen back from.
FallBackLiveOnly ==
  /\ pc = "FALLBACK"
  /\ provider = "live"
  /\ Accept("offline", offlineR3)
  /\ UNCHANGED <<comp, context, provider, loopState, stop>>

FallBack ==
  /\ pc = "FALLBACK"
  /\ Accept("offline", offlineR3)
  /\ UNCHANGED <<comp, context, provider, loopState, stop>>

-----------------------------------------------------------------------------
(* Offer, dispatch, accept, solve again                                    *)

Proposer == [llm_provider |-> Last(calls).provider, model_id |-> ModelOf(provider),
             llm_call |-> Len(calls)]

\* Fault: a lookup that names nothing is not charged.
AttemptsWhenYielding(call) == IF Batch[call.id] = {} THEN attempts ELSE attempts + 1

\* One of P_max is spent whatever the lookup returns.
AttemptsAfter(call) == attempts + 1

Dispatch(call) ==
  /\ events' = Append(events, [subject |-> call.id, attempts_before |-> attempts,
                               proposer |-> Proposer])
  /\ attempts' = AttemptsAfter(call)
  /\ reports' = ReportsWith(call)
  /\ current' = Solved(attempts', reports')
  /\ pc' = "DECIDE"
  /\ UNCHANGED stop

Offer ==
  /\ pc = "OFFER"
  /\ \/ /\ offerR3Proposal(answer).kind = "STOP"
        /\ StopWith(offerR3Proposal(answer).certificate_reason,
                    offerR3Proposal(answer).rejection)
        /\ UNCHANGED loopState
     \/ /\ offerR3Proposal(answer).kind = "CALL"
        /\ answer.probe = "fetch_settlement_recon"
        /\ Dispatch(answer)
     \/ \* dispatchProbe throws ProbeSourceUnavailableError out of the loop
        /\ offerR3Proposal(answer).kind = "CALL"
        /\ answer.probe # "fetch_settlement_recon"
        /\ pc' = "SOURCE_UNAVAILABLE"
        /\ UNCHANGED <<loopState, stop>>
  /\ UNCHANGED <<comp, context, provider, calls, tries, answer>>

Next == Decide \/ Ask \/ Miss \/ FallBack \/ Offer

Spec == Init /\ [][Next]_vars

\* Every awaited provider call settles.
FairSpec == Spec /\ WF_vars(Next)

-----------------------------------------------------------------------------
(* What must hold                                                          *)

Subjects == {events[i].subject : i \in DOMAIN events}

TypeOK ==
  /\ comp \in Components /\ context \in Contexts /\ provider \in Providers
  /\ attempts \in 0..PMax
  /\ reports \in Seq(Ids)
  /\ current.outcome \in Outcomes /\ current.certificate_reason \in Reasons \cup {None}
  /\ events \in Seq([subject : Ids, attempts_before : Nat,
                     proposer : [llm_provider : Providers \cup {"offline"},
                                 model_id : Models, llm_call : Nat]])
  /\ calls \in Seq([round : Nat, provider : Providers \cup {"offline"},
                    model_id : Models, outcome : CallOutcomes])
  /\ tries \in 0..Retries + 1
  /\ answer \in Proposals
  /\ stop.certificate_reason \in Reasons \cup {None}
  /\ stop.rejection \in Rejections \cup {None}
  /\ pc \in Ended \cup {"DECIDE", "ASK", "FALLBACK", "OFFER"}

\* Every probe spent is one PROBE event and every event one probe, numbered
\* without a gap; no proposer gets more than P_max of them ("there is no input
\* that can make this iterate more than P_max times", run.ts:207).
EveryProbeLogged ==
  /\ attempts = Len(events)
  /\ attempts <= PMax
  /\ \A i \in DOMAIN events : events[i].attempts_before = i - 1

\* The result a decision is taken from is never stale: it is the solve over the
\* reports of every probe that was logged, at the number of probes spent.
SolveFollowsEvidence == current = solve(comp, RStar(comp, Subjects), attempts)

\* The certificate says why the loop stopped, told from what happened: a tie
\* only if nothing was probed, an exhausted budget only if all of it was spent,
\* no useful probe only if the proposer was asked again after the last one, a
\* search bound only if nobody was asked (s4-solve.ts:779-809).
StopTellsWhy ==
  pc = "STOPPED" =>
    CASE stop.certificate_reason = "EVIDENCE_TIE" -> events = <<>> /\ calls # <<>>
      [] stop.certificate_reason = "PROBE_BUDGET_EXHAUSTED" ->
           Len(events) = PMax /\ stop.rejection = None
      [] stop.certificate_reason = "NO_USEFUL_PROBE_AVAILABLE" ->
           events # <<>> /\ Last(calls).round = Len(events) /\ Len(events) < PMax
      [] stop.certificate_reason = "MATERIALITY_UNDETERMINED" -> ~comp.bank_evidence
      [] stop.certificate_reason = "SEARCH_BOUND_EXCEEDED" ->
           comp.exceeds_k_max /\ calls = <<>>
      [] OTHER -> FALSE

\* Only what the caller offered, and the run observed, is ever looked up,
\* whatever the provider answers; with nothing on offer nothing is.
OnlyOfferedDispatched == Subjects \subseteq context \cap Observed

\* Every lookup has a cause and a subject: neither a model call nor a probe is
\* spent on a component that S4 has decided or could not search
\* (assay.ts:1089-1093), and none is about anything that was not on offer.
ProbesJustified ==
  [][/\ calls' # calls \/ events' # events => current.outcome = "AMBIGUOUS"
     /\ OnlyOfferedDispatched']_vars

\* An ambiguous component is only ever resolved by a report on its own
\* settlement: other lookups cost budget and change nothing.
ResolvedByOwnReport == pc = "ACCEPTED" /\ attempts > 0 => comp.target \in Subjects

\* DATA_MODEL.md:1760: model_id is "rules-v1" for the offline provider.
ProposerNamesItsModel ==
  \A i \in DOMAIN events :
    events[i].proposer.model_id = ModelOf(events[i].proposer.llm_provider)

\* packages/llm/src/roles/r3.ts:17-19: a wrong proposal wastes probe budget and
\* nothing else.
WrongProposalOnlyCostsBudget == pc # "SOURCE_UNAVAILABLE"

\* The loop ends on every path (run.ts:205-208).
Terminates == <>(pc \in Ended)
=============================================================================
