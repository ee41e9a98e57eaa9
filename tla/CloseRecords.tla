---------------------------- MODULE CloseRecords ----------------------------
(***************************************************************************)
(* A close attempt over records that were lost, repeated or changed on     *)
(* their way to it: the event schema every stored event is read through    *)
(* (packages/ledger/src/events.ts), the projection (projection.ts), the    *)
(* gates' findings (close-gate.ts), and the report, the CLOSE draft and its*)
(* inputs_hash (close.ts).  CloseGate has the gates and ChainVerify the    *)
(* hash chain.                                                             *)
(*                                                                         *)
(* A run books up to MaxDecisions observations; what it hands over is      *)
(* intact, what the close reads is given.  An observation's number is its  *)
(* identifier in every store.                                              *)
(***************************************************************************)
EXTENDS CloseGate

CONSTANTS
  MaxDecisions,  \* bound: observations booked
  MaxFaults,     \* bound: records lost, repeated or changed
  Stores,        \* the stores they are of
  Amounts,       \* the values of an observation
  Batches,       \* batch values a caller may give
  Multiviews,    \* the unresolved values it may give for every view
  LegacyMaxUnresolved,  \* LEGACY_MAX_UNRESOLVED_ABS_PAISE
  SafeMax        \* Number.MAX_SAFE_INTEGER

VARIABLES
  intact,   \* [log, observations, terminal, queue, posted, root] as the run left them
  given,    \* the same as the close reads them
  faults,   \* what happened in between, <<[store, what, subjects], ...>>
  attempt,  \* the answer of attemptClose, NoAttempt before it
  root      \* the root hash the run publishes, <<>> before it

recordsVars == <<intact, given, faults, attempt, root>>

AccountCodes == {"BANK", "RECEIVABLE", "GST_INPUT_CREDIT", "PG_FEE_EXPENSE",
                 "REFUND_LIABILITY", "REVENUE", "SUSPENSE"}

-----------------------------------------------------------------------------
(* The event schema.  A field holds its value as written ("sound"), another *)
(* value of the kind ("other"), or something else.                         *)

Values == {"sound", "other", "foreign", "null", "malformed"}

\* A token is any text without control characters; the other readers know their
\* values by shape, by prefix or by list, and none reads undefined.
Admits(reader) ==
  IF reader = "token" THEN {"sound", "other", "foreign"} ELSE {"sound", "other"}

ActorReaders ==
  [type |-> "member", component |-> "token", engine_commit |-> "token", llm_provider |-> "member",
   model_id |-> "token", prompt_hash |-> "sha256", llm_call_id |-> "token"]

\* Two solutions, each a candidate and its members, and what was weighed.
CertificateReaders ==
  [comp_id |-> "prefixed",
   a_candidate_id |-> "prefixed", a_member_obs_ids |-> "array",
   b_candidate_id |-> "prefixed", b_member_obs_ids |-> "array",
   shared_hard_constraints |-> "array", evidence_score_gap_bps |-> "integer",
   materiality_paise |-> "paise", epsilon_bps |-> "integer", tau_paise |-> "paise",
   probes_attempted |-> "array", reason |-> "member"]

EventReaders ==
  [evt_id |-> "prefixed", run_id |-> "token", ts |-> "integer", actor |-> "object",
   kind |-> "member", subject_ids |-> "array", evidence_ids |-> "array",
   decision_id |-> "prefixed", inputs_hash |-> "sha256", journal_lines |-> "array",
   certificate |-> "object", seq |-> "integer", prev_hash |-> "sha256", hash |-> "sha256"]

Nullable == {"llm_provider", "model_id", "prompt_hash", "llm_call_id", "decision_id", "certificate"}

Readers == ActorReaders @@ CertificateReaders @@ EventReaders

Fields == DOMAIN Readers

\* A certificate is read where there is one.
FieldsOf(e) ==
  IF e.form.certificate = "null" THEN Fields \ DOMAIN CertificateReaders ELSE Fields

\* ts, evt_id and run_id are outside the hashed body.
Unhashed == {"evt_id", "run_id", "ts"}

\* By field, what its reader admits.
Admitted ==
  LET readers == Readers
  IN  [f \in DOMAIN readers |->
         Admits(readers[f]) \cup IF f \in Nullable THEN {"null"} ELSE {}]

\* A line is on one side, of a control account, under an identifier of the five
\* families of business identifiers.
sealJournalLine(l) ==
  /\ l.account \in AccountCodes
  /\ l.dr >= 0 /\ l.cr >= 0
  /\ (l.dr = 0) # (l.cr = 0)
  /\ l.memo \in Admits("token")
  /\ l.key \in Nat

\* The engine calls no model, and certifies what it abstains on.
Written(kind) ==
  [f \in Fields |->
     IF f \in {"llm_provider", "model_id", "prompt_hash", "llm_call_id"} THEN "null"
     ELSE IF f = "certificate" /\ kind # "ABSTAIN" THEN "null" ELSE "sound"]

\* The record is strict; what a RECONCILE event says, a deterministic actor said.
sealStoredEvent(e) ==
  /\ ~e.extra
  /\ LET admitted == Admitted IN \A f \in FieldsOf(e) : e.form[f] \in admitted[f]
  /\ e.kind = "RECONCILE" /\ e.form.kind = "sound" => e.form.type = "sound"
  /\ \A n \in DOMAIN e.lines : sealJournalLine(e.lines[n])

RunOf(e) == e.form.run_id

EvtOf(e) == IF e.form.evt_id = "sound" THEN e.evt ELSE 0

journalTotals(lines) ==
  [dr |-> Total(lines, LAMBDA l : l.dr), cr |-> Total(lines, LAMBDA l : l.cr)]

-----------------------------------------------------------------------------
(* The chain                                                               *)

\* Fault: the lines are left out of the digest.
BodyWithoutLines(e) ==
  [seq |-> e.seq, payload |-> [decision |-> e.decision, form |-> e.form],
   dr |-> journalTotals(e.lines).dr, cr |-> journalTotals(e.lines).cr]

Body(e) ==
  [seq |-> IF e.form.seq = "sound" THEN e.seq ELSE MaxDecisions + 1,
   payload |-> [kind |-> e.kind, decision |-> e.decision, lines |-> e.lines,
                form |-> [f \in Fields \ (Unhashed \cup {"prev_hash", "hash"}) |-> e.form[f]]],
   dr |-> journalTotals(e.lines).dr, cr |-> journalTotals(e.lines).cr]

Forged == [seq |-> MaxDecisions + 2]

\* The record as verifyChain sees it; a digest that is not the one written is
\* another one.
ChainRecord(e) ==
  [intact |-> sealStoredEvent(e), legible |-> e.form.hash \in Admits("sha256"),
   evt |-> EvtOf(e), run |-> RunOf(e), body |-> Body(e),
   prev |-> IF e.form.prev_hash = "sound" THEN e.prev ELSE <<Forged>>,
   hash |-> IF e.form.hash = "sound" THEN e.hash ELSE <<Forged>>]

ChainRecords(log) == [n \in DOMAIN log |-> ChainRecord(log[n])]

Chain(log) == INSTANCE ChainVerify
  WITH records <- ChainRecords(log), sealed <- ChainRecords(intact.log),
       damage <- Len(faults), Payloads <- {}, Runs <- Values, EvtIds <- 0..MaxDecisions,
       MaxEvents <- MaxDecisions, MaxDamage <- MaxFaults

appendEvent(log, event) ==
  LET prev == IF log = <<>> THEN Chain(log)!Genesis ELSE Last(log).hash
      e == [event EXCEPT !.seq = Len(log), !.prev = prev]
  IN  Append(log, [e EXCEPT !.hash = Chain(log)!Hash(Body(e), prev)])

-----------------------------------------------------------------------------
(* The projection                                                          *)

LinesOfLog(log) == FlattenSeq([n \in DOMAIN log |-> log[n].lines])

\* It reports a log that does not balance, and refuses one it cannot sum.
Projects(log) ==
  /\ \A n \in DOMAIN log : sealStoredEvent(log[n]) /\ RunOf(log[n]) = RunOf(log[1])
  /\ \A m, n \in DOMAIN log : EvtOf(log[m]) = EvtOf(log[n]) => m = n
  /\ {journalTotals(LinesOfLog(log)).dr, journalTotals(LinesOfLog(log)).cr} \subseteq 0..SafeMax

Balances(log) ==
  [a \in AccountCodes |->
     Total(SelectSeq(LinesOfLog(log), LAMBDA l : l.account = a), LAMBDA l : l.dr - l.cr)]

\* What the report carries of it.
projectLedger(log) ==
  [ balances |-> Balances(log), totals |-> journalTotals(LinesOfLog(log)),
    eventCount |-> Len(log),
    postingEventCount |-> Len(SelectSeq(log, LAMBDA e : e.lines # <<>>)),
    journalLineCount |-> Len(LinesOfLog(log)),
    lastSeq |-> IF log = <<>> THEN <<>> ELSE <<Last(log).seq>> ]

-----------------------------------------------------------------------------
(* The gates over the records, and their findings                          *)

\* The observations are a set and the queue's total is exact, or the gates throw.
Malformed(records) ==
  \/ \E m, n \in DOMAIN records.observations :
       m # n /\ records.observations[m].obs = records.observations[n].obs
  \/ Total(records.queue, LAMBDA r : r.value) > SafeMax

\* failures are what verifyChain found.
GateInput(records, failures) ==
  [ kinds |-> [o \in {r.obs : r \in ToSet(records.observations)} |->
                 (CHOOSE r \in ToSet(records.observations) : r.obs = o).kind],
    terminal |-> records.terminal, lines |-> LinesOfLog(records.log), queue |-> records.queue,
    failed |-> [n \in DOMAIN records.posted |-> records.posted[n].failed],
    chain |-> failures = {} ]

\* Beyond the safe range the items are not computed.
ItemsComputed(records, input) == Projects(records.log) /\ SuspenseGross(input) <= SafeMax

\* Without a projection there is no G2, and without the items no books side of G3.
Failed(records, input) ==
  FailedGates(input)
    \cup (IF Projects(records.log) THEN {} ELSE {"g2_trial_balance"})
    \cup (IF ItemsComputed(records, input) THEN {} ELSE {"g3_suspense_identity"})

\* subjects is empty where the code's subject is null.
Finding(gate, code, subjects) == [gate |-> gate, code |-> code, subjects |-> subjects]

\* An observation counts as decided, or as a reference, when it has one state, of
\* its kind.
Settled(input) == {o \in DOMAIN input.kinds : OneState(input, o) /\ StateFitsKind(input, o)}

G1Code(input, o) ==
  CASE StatesOf(input, o) = {} -> "OBSERVATION_WITHOUT_TERMINAL_STATE"
    [] Cardinality(StatesOf(input, o)) > 1 -> "OBSERVATION_WITH_MULTIPLE_TERMINAL_STATES"
    [] OTHER -> IF input.kinds[o] \in ReferenceKinds THEN "NON_REFERENCE_STATE_ON_REFERENCE_KIND"
                ELSE "REFERENCE_ASSIGNED_TO_RECONCILABLE_KIND"

G1Findings(input) ==
  {Finding("g1_all_terminal", G1Code(input, o), {o}) : o \in DOMAIN input.kinds \ Settled(input)}
  \cup {Finding("g1_all_terminal", "TERMINAL_STATE_FOR_UNKNOWN_OBSERVATION", {r.obs}) :
          r \in {r \in ToSet(input.terminal) : r.obs \notin DOMAIN input.kinds}}

G2Findings(records, input) ==
  IF ~Projects(records.log) THEN {Finding("g2_trial_balance", "PROJECTION_FAILED", {})}
  ELSE IF ~TrialBalance(input) THEN {Finding("g2_trial_balance", "TRIAL_BALANCE_UNEQUAL", {})}
  ELSE {}

OpenItems(input) == {key \in SuspenseKeys(input) : ItemNet(input, key) # 0}

QueuedKeys(input) == {r.key : r \in ToSet(input.queue)}

\* Where the sums differ, the keys the two stores disagree about.
describeKeyDivergence(input) ==
  {Finding("g3_suspense_identity", "ITEM_MISSING_FROM_QUEUE", {key}) :
     key \in OpenItems(input) \ QueuedKeys(input)}
  \cup {Finding("g3_suspense_identity", "ITEM_VALUE_MISMATCH", {key}) :
          key \in {k \in OpenItems(input) \cap QueuedKeys(input) :
                     QueuedUnder(input, k) # AbsPaise(ItemNet(input, k))}}
  \cup {Finding("g3_suspense_identity", "ITEM_MISSING_FROM_BOOKS", {key}) :
          key \in QueuedKeys(input) \ OpenItems(input)}

G3Findings(records, input) ==
  IF ~Projects(records.log) THEN {Finding("g3_suspense_identity", "PROJECTION_FAILED", {})}
  ELSE IF ~ItemsComputed(records, input)
       THEN {Finding("g3_suspense_identity", "SUSPENSE_ITEMS_UNCOMPUTABLE", {})}
  ELSE IF runG3(input) THEN {}
  ELSE {Finding("g3_suspense_identity", "SUSPENSE_IDENTITY_MISMATCH", {})}
         \cup describeKeyDivergence(input)

\* Each failure of the chain, by the event it is at.
G4Findings(records, failures) ==
  {Finding("g4_hash_chain", "CHAIN_CHECK_FAILED",
           IF failure.index = 0 THEN {} ELSE {EvtOf(records.log[failure.index])}) :
     failure \in failures}

G5Findings(records) ==
  {Finding("g5_no_failed_invariant_posted", "INVARIANT_FAILED_DECISION_POSTED", {r.decision}) :
     r \in {r \in ToSet(records.posted) : r.failed}}

Findings(records, input, failures) ==
  UNION {G1Findings(input), G2Findings(records, input), G3Findings(records, input),
         G4Findings(records, failures), G5Findings(records)}

QueueHalf(records, origin) ==
  Total(SelectSeq(records.queue, LAMBDA r : r.origin = origin), LAMBDA r : r.value)

\* What the gates make of the records: <<result>>, or nothing where they throw.
closeGate(records) ==
  LET failures == Chain(records.log)!Failures(records.root)
      input == GateInput(records, failures)
  IN  IF Malformed(records) THEN <<>> ELSE
      <<[ failed |-> Failed(records, input), findings |-> Findings(records, input, failures),
          projection |-> IF Projects(records.log) THEN <<projectLedger(records.log)>> ELSE <<>>,
          suspense_items |-> [key \in OpenItems(input) |-> ItemNet(input, key)],
          suspense_gross_item_paise |-> SuspenseGross(input),
          unresolved_value_paise |-> Unresolved(input),
          value_abstained_paise |-> QueueHalf(records, "ABSTENTION"),
          value_exceptions_paise |-> QueueHalf(records, "EXCEPTION"),
          recomputed_root_hash |-> Chain(records.log)!RecomputedRoot,
          observations_total |-> Cardinality(DOMAIN input.kinds),
          observations_reference |->
            Cardinality({o \in Settled(input) : input.kinds[o] \in ReferenceKinds}),
          decisions |->
            [s \in DecisionStates |->
               Cardinality({o \in Settled(input) :
                              \E n \in StatesOf(input, o) : input.terminal[n].state = s})] ]>>

-----------------------------------------------------------------------------
(* attemptClose                                                            *)

Periods == {"month", "quarter", "reversed"}

Closers == {[actor |-> "system", id |-> "null"], [actor |-> "human", id |-> "name"]}

\* actor is the CLOSE event's.
Callers == [period : Periods, batch : Batches, multiview : Multiviews, closed_by : Closers,
            actor : {"deterministic", "human"}]

readPeriod(caller) == caller.period # "reversed"

\* A close by a person says so on the event, and only such a one.
readClosedBy(caller) == (caller.closed_by.actor = "human") = (caller.actor = "human")

legacyCloseThresholdPaise(batch) == Min({closeThresholdPaise(batch), LegacyMaxUnresolved})

\* The gates' own result, and the verdict of the policy before this one beside this
\* one's.
Report(gate, caller, status) ==
  [ period |-> caller.period, period_status |-> status,
    period_status_legacy_policy |->
      periodStatusFrom(TRUE, gate.unresolved_value_paise, legacyCloseThresholdPaise(caller.batch)),
    gate |-> gate, closed_by |-> caller.closed_by, batch_value_paise |-> caller.batch,
    close_threshold_paise |-> closeThresholdPaise(caller.batch),
    unresolved_value_paise_multiview |-> caller.multiview ]

\* A sequence sorted: how often it has each record.
Unordered(seq) == [r \in ToSet(seq) |-> Len(SelectSeq(seq, LAMBDA x : x = r))]

\* Fault: where an item comes from is left out.
HashedQueueByValue(queue) == Unordered([n \in DOMAIN queue |-> [queue[n] EXCEPT !.origin = ""]])

HashedQueue(queue) == Unordered(queue)

\* The sets are sorted, so their order does not matter; the log is known by its root.
closeInputsHash(gate, records, caller) ==
  [ period |-> caller.period, batch |-> caller.batch, multiview |-> caller.multiview,
    threshold |-> closeThresholdPaise(caller.batch), closed_by |-> caller.closed_by,
    genesis |-> Chain(records.log)!Genesis, event_count |-> Len(records.log),
    ledger_root_hash |-> gate.recomputed_root_hash, stored_root_hash |-> records.root,
    observations |-> Unordered(records.observations), terminal_states |-> Unordered(records.terminal),
    unresolved_items |-> HashedQueue(records.queue), posted_decisions |-> Unordered(records.posted) ]

NoAttempt == [period_status |-> "none", failed |-> {}, findings |-> {}, report |-> <<>>,
              close_event |-> <<>>, threshold |-> 0, legacy_threshold |-> 0]

Thrown(error) == [NoAttempt EXCEPT !.period_status = error]

\* roundHalfUp takes the batch fifty-fold, or throws.
ThresholdExact(batch) == batch * MaxUnresolvedRatioBps <= SafeMax

buildCloseEvent(gate, records, caller) ==
  [kind |-> "CLOSE", actor |-> caller.actor, inputs_hash |-> closeInputsHash(gate, records, caller)]

\* The caller's fields are read first, then the threshold is taken, then the gates run.
attemptClosing(gate, records, caller) ==
  IF ~readPeriod(caller) \/ ~readClosedBy(caller) THEN Thrown("ProjectionInputError")
  ELSE IF ~ThresholdExact(caller.batch) THEN Thrown("RangeError")
  ELSE IF gate = <<>> THEN Thrown("ProjectionInputError")
  ELSE LET status == periodStatusFrom(gate[1].failed = {}, gate[1].unresolved_value_paise,
                                      closeThresholdPaise(caller.batch))
       IN  [ period_status |-> status, failed |-> gate[1].failed, findings |-> gate[1].findings,
             report |-> IF status = "BLOCKED" THEN <<>>
                        ELSE <<Report(gate[1], caller, status)>>,
             close_event |->
               IF status = "BLOCKED" THEN <<>> ELSE <<buildCloseEvent(gate[1], records, caller)>>,
             threshold |-> closeThresholdPaise(caller.batch),
             legacy_threshold |-> legacyCloseThresholdPaise(caller.batch) ]

-----------------------------------------------------------------------------
(* The run                                                                 *)

line(account, dr, cr, key) ==
  [account |-> account, dr |-> dr, cr |-> cr, memo |-> "sound", key |-> key]

\* What a run decides of an observation: a payment's line reconciled before its
\* credit, a settlement held, a credit nothing explains, a settlement refused
\* without a posting (P1, P6, P5 and no rule).
Decisions ==
  {[kind |-> "recon_line", state |-> "RECONCILED", event |-> "RECONCILE"],
   [kind |-> "settlement", state |-> "ABSTAINED", event |-> "ABSTAIN"],
   [kind |-> "bank_line", state |-> "EXCEPTION", event |-> "EXCEPTION"],
   [kind |-> "settlement", state |-> "EXCEPTION", event |-> "EXCEPTION"]}

PostedLines(d, value, key) ==
  CASE d.kind = "recon_line" -> <<line("RECEIVABLE", value, 0, key), line("REVENUE", 0, value, key)>>
    [] d.state = "ABSTAINED" -> <<line("SUSPENSE", value, 0, key), line("RECEIVABLE", 0, value, key)>>
    [] d.kind = "bank_line"  -> <<line("BANK", value, 0, key), line("SUSPENSE", 0, value, key)>>
    [] OTHER -> <<>>

QueuedItems(d, value, key) ==
  IF d.state = "ABSTAINED" THEN <<[key |-> key, origin |-> "ABSTENTION", value |-> value]>>
  ELSE IF d.kind = "bank_line" THEN <<[key |-> key, origin |-> "EXCEPTION", value |-> value]>>
  ELSE <<>>

NewEvent(d, value, n) ==
  [extra |-> FALSE, form |-> Written(d.event), evt |-> n, kind |-> d.event, decision |-> n,
   lines |-> PostedLines(d, value, n), seq |-> 0, prev |-> <<>>, hash |-> <<>>]

NextObs == Len(intact.observations) + 1

Observed(kind, state) ==
  [intact EXCEPT !.observations = Append(@, [obs |-> NextObs, kind |-> kind]),
                 !.terminal = Append(@, [obs |-> NextObs, state |-> state])]

Booking == attempt = NoAttempt /\ faults = <<>> /\ NextObs <= MaxDecisions

Booked(records) ==
  /\ intact' = [records EXCEPT !.root = IF records.log = <<>> THEN <<>> ELSE Last(records.log).hash]
  /\ given' = intact'
  /\ UNCHANGED <<faults, attempt, root>>

\* A reference observation has its state from its kind and no event.
Refer == Booking /\ Booked(Observed("payment", "REFERENCE"))

Decide(d, value) ==
  /\ Booking
  /\ Booked([Observed(d.kind, d.state) EXCEPT
               !.log = appendEvent(@, NewEvent(d, value, NextObs)),
               !.queue = @ \o QueuedItems(d, value, NextObs),
               !.posted = Append(@, [decision |-> NextObs, failed |-> FALSE])])

\* The run closes and publishes its root; the draft goes no further.
Close ==
  /\ attempt = NoAttempt /\ given.observations # <<>>
  /\ \E gate \in {closeGate(given)}, caller \in Callers :
       attempt' = attemptClosing(gate, given, caller)
  /\ root' = given.root
  /\ UNCHANGED <<intact, given, faults>>

-----------------------------------------------------------------------------
(* Records at rest                                                         *)

Fault(store, what, subjects) ==
  /\ store \in Stores
  /\ faults' = Append(faults, [store |-> store, what |-> what, subjects |-> subjects])
  /\ UNCHANGED <<intact, attempt, root>>

KeysOf(e) == {e.lines[n].key : n \in DOMAIN e.lines}

LoseEvent(n) ==
  /\ Fault("log", "lost", KeysOf(given.log[n]))
  /\ given' = [given EXCEPT !.log = RemoveAt(@, n)]

RepeatEvent(n) ==
  /\ Fault("log", "repeated", KeysOf(given.log[n]))
  /\ given' = [given EXCEPT !.log = InsertAt(@, n, @[n])]

EditField(n, field, value) ==
  /\ field \in FieldsOf(given.log[n]) /\ value # given.log[n].form[field]
  /\ Fault("log", IF field \in Unhashed THEN "restamped" ELSE "edited", KeysOf(given.log[n]))
  /\ given' = [given EXCEPT !.log[n].form[field] = value]

ExtraField(n) ==
  /\ Fault("log", "edited", KeysOf(given.log[n]))
  /\ given' = [given EXCEPT !.log[n].extra = TRUE]

\* A line is refiled, turned round, doubled, annotated, or of no account.
EditedLines(l) ==
  {[l EXCEPT !.key = k] : k \in (1..MaxDecisions) \ {l.key}}
    \cup {[l EXCEPT !.dr = l.cr, !.cr = l.dr], [l EXCEPT !.dr = 2 * @, !.cr = 2 * @],
          [l EXCEPT !.dr = l.cr], [l EXCEPT !.dr = -1], [l EXCEPT !.key = -1],
          [l EXCEPT !.account = "none"]}
    \cup {[l EXCEPT !.memo = m] : m \in {"other", "malformed"}}

EditLine(n, m, edited) ==
  /\ Fault("log", "edited", KeysOf(given.log[n]) \cup {edited.key})
  /\ given' = [given EXCEPT !.log[n].lines[m] = edited]

LoseRecord(store, n, subject) ==
  /\ Fault(store, "lost", {subject})
  /\ given' = [given EXCEPT ![store] = RemoveAt(@, n)]

RepeatRecord(store, n, subject) ==
  /\ Fault(store, "repeated", {subject})
  /\ given' = [given EXCEPT ![store] = InsertAt(@, n, @[n])]

\* A state or a kind from the wrong side of REFERENCE is a change; one decision
\* state for another is a relabelling.
EditState(n, state) ==
  LET r == given.terminal[n]
  IN  /\ state # r.state
      /\ Fault("terminal", IF "REFERENCE" \in {state, r.state} THEN "edited" ELSE "relabelled",
               {r.obs})
      /\ given' = [given EXCEPT !.terminal[n].state = state]

EditQueued(n, r) ==
  LET was == given.queue[n]
  IN  /\ r # was
      /\ Fault("queue", IF r.value # was.value THEN "edited" ELSE "relabelled", {was.key, r.key})
      /\ given' = [given EXCEPT !.queue[n] = r]

\* A decision comes to say that an invariant of it failed.
EditPosted(n) ==
  /\ Fault("posted", "edited", {given.posted[n].decision})
  /\ given' = [given EXCEPT !.posted[n].failed = TRUE]

Damage ==
  /\ attempt = NoAttempt /\ Len(faults) < MaxFaults
  /\ \/ \E n \in DOMAIN given.log :
          \/ LoseEvent(n) \/ RepeatEvent(n) \/ ExtraField(n)
          \/ \E field \in Fields, value \in Values : EditField(n, field, value)
          \/ \E m \in DOMAIN given.log[n].lines :
               \E edited \in EditedLines(given.log[n].lines[m]) : EditLine(n, m, edited)
     \/ \E store \in {"observations", "terminal"} : \E n \in DOMAIN given[store] :
          LoseRecord(store, n, given[store][n].obs) \/ RepeatRecord(store, n, given[store][n].obs)
     \/ \E n \in DOMAIN given.terminal, state \in DecisionStates \cup {"REFERENCE"} :
          EditState(n, state)
     \/ \E n \in DOMAIN given.queue :
          \/ LoseRecord("queue", n, given.queue[n].key)
          \/ RepeatRecord("queue", n, given.queue[n].key)
          \/ \E key \in 1..MaxDecisions, origin \in {"ABSTENTION", "EXCEPTION"}, value \in Amounts :
               EditQueued(n, [key |-> key, origin |-> origin, value |-> value])
     \/ \E n \in DOMAIN given.posted : EditPosted(n)

-----------------------------------------------------------------------------
NoRecords == [log |-> <<>>, observations |-> <<>>, terminal |-> <<>>, queue |-> <<>>,
              posted |-> <<>>, root |-> <<>>]

RecordsInit ==
  intact = NoRecords /\ given = NoRecords /\ faults = <<>> /\ attempt = NoAttempt /\ root = <<>>

RecordsNext ==
  \/ Refer
  \/ \E d \in Decisions, value \in Amounts : Decide(d, value)
  \/ Damage
  \/ Close

RecordsSpec == RecordsInit /\ [][RecordsNext]_recordsVars

-----------------------------------------------------------------------------
(* Properties                                                              *)

Answered == attempt.period_status \in {"CLOSED", "OPEN", "BLOCKED"}

\* The gate a store's damage must fail, and the gates it may.
GateOf(store) ==
  CASE store = "log" -> "g4_hash_chain"
    [] store \in {"observations", "terminal"} -> "g1_all_terminal"
    [] store = "queue" -> "g3_suspense_identity"
    [] store = "posted" -> "g5_no_failed_invariant_posted"

MayFail(store) ==
  IF store = "log" THEN {"g2_trial_balance", "g3_suspense_identity", "g4_hash_chain"}
  ELSE {GateOf(store)}

\* One record lost, repeated or changed blocks the close, at the gate of its store
\* and at no other that did not read it, and every finding outside the chain that
\* names an item, an observation or a decision names one the record was about
\* (closeGate, attemptClose); each gate that fails has a finding that says so.  What
\* the digest leaves out and what no other store repeats may pass.  Nothing blocks
\* a close of what the run booked.
FaultIsPlaced ==
  Answered =>
    /\ faults = <<>> => attempt.failed = {}
    /\ {f.gate : f \in attempt.findings} = attempt.failed
    /\ \A fault \in ToSet(faults) :
         Len(faults) = 1 =>
           /\ attempt.failed \subseteq MayFail(fault.store)
           /\ fault.what \notin {"restamped", "relabelled"} => GateOf(fault.store) \in attempt.failed
           /\ \A f \in attempt.findings :
                f.gate # "g4_hash_chain" => f.subjects \subseteq fault.subjects

\* Two attempts with one inputs_hash have one report: whatever the report shows is
\* in the digest of what the step read (closeInputsHash).
HashCoversReport ==
  attempt.report # <<>> =>
    \A gate \in {closeGate(intact)}, caller \in Callers :
      LET other == attemptClosing(gate, intact, caller)
      IN  other.report # <<>> /\ other.report # attempt.report
            => other.close_event # attempt.close_event

-----------------------------------------------------------------------------
(* What the code says of itself and does not keep                          *)

\* RECONCILIATION_SPEC.md:1855 ends the procedure with "append a CLOSE event whose
\* hash becomes the run root hash".
CloseIsInTheChain ==
  attempt.close_event # <<>> => given.log # <<>> /\ Last(given.log).kind = "CLOSE"

\* DATA_MODEL.md:1807 says that "offsetting suppression across different keys is
\* what the gross form catches": where records were lost or repeated, a period that
\* still closes has every open item on the queue.
OpenItemsAreQueued ==
  attempt.report # <<>> /\ (\A f \in ToSet(faults) : f.what \in {"lost", "repeated"}) =>
    OpenItems(GateInput(given, {})) \subseteq QueuedKeys(GateInput(given, {}))

\* close.ts:387 gives ProjectionInputError as what a malformed argument throws.
ThrowsInputErrors == attempt.period_status # "RangeError"
=============================================================================
