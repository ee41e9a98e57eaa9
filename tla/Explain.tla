------------------------------ MODULE Explain ------------------------------
(***************************************************************************)
(* One request to explain a decision (apps/api/src/routes/explain.ts and   *)
(* explain/): what of the sealed run becomes evidence, which provider the  *)
(* configuration yields, the attempts adjudicate makes on it, the three    *)
(* checks of an answer, and what the route replies.                        *)
(*                                                                         *)
(* Prose is the identifiers it names, the figures it quotes and the field  *)
(* that begins with an identifier, if one does; an identifier or a figure  *)
(* is one digit run.  The wording of prompts and messages is left out.     *)
(***************************************************************************)
EXTENDS Naturals, Sequences, SequencesExt

CONSTANTS
  Rows,        \* the sealed run's decisions, in order: records, see RowFields
  Certs,       \* certificates by name
  Terms,       \* the C6 term of each observation the run holds, or Null
  Unresolved,  \* the close report's unresolved value
  Prose,       \* what a provider's prose may name, contain and begin with
  Retries,     \* adjudicate's retries
  Null

RowFields == {"id", "obs", "entity", "comp", "state", "value", "suspense", "cert"}

TransportCodes == {"AUTHENTICATION", "RATE_LIMITED", "TIMEOUT", "BAD_REQUEST",
                   "PROVIDER_UNAVAILABLE"}
VerificationCodes == {"MALFORMED_RESPONSE", "UNKNOWN_ENTITY_ID", "UNGROUNDED_NUMERAL"}

ASSUME ExplainAssumption ==
  /\ \A i \in DOMAIN Rows : DOMAIN Rows[i] = RowFields
  /\ Rows \in Seq({Rows[i] : i \in DOMAIN Rows})
  /\ Null \notin Prose /\ Null \notin TransportCodes \cup VerificationCodes
  /\ Retries \in Nat

VARIABLES
  request,    \* what was asked for
  env,        \* the server's environment
  phase,      \* "received", "asking", "exhausted" or "replied"
  calls,      \* LlmCall records of the configured provider
  seen,       \* the last grounding verdict: service.ts's seen.check
  failures,   \* ExplainProvider.failures
  reply

explainVars == <<request, env, phase, calls, seen, failures, reply>>

-----------------------------------------------------------------------------
(* The evidence of a decision                                              *)

Row(d) == Rows[CHOOSE i \in DOMAIN Rows : Rows[i].id = d]
Cert(d) == Row(d).cert
Solutions(k) == {Certs[k].a, Certs[k].b}
Members(k) == UNION {ToSet(s.members) : s \in Solutions(k)}

IsTarget(row, comp) == row.comp = comp /\ row.state = "ABSTAINED" /\ row.suspense

\* certificateAllocation's target: the first row that has the obligation.
CertificateTarget(k) ==
  LET found == {i \in DOMAIN Rows : IsTarget(Rows[i], Certs[k].comp)}
  IN  IF found = {} THEN Null ELSE Rows[Min(found)]

Term(o) == IF o \in DOMAIN Terms THEN Terms[o] ELSE Null

\* A candidate's figures: its priced terms, and their total if all are priced.
CandidateFigures(s) ==
  LET terms == {Term(o) : o \in ToSet(s.members)}
  IN  (terms \ {Null}) \cup
      (IF Null \notin terms /\ s.members # <<>> THEN {s.total} ELSE {})

\* The identifiers that are string leaves of the envelope.
Shown(d) ==
  {d, Row(d).obs, Row(d).entity, Row(d).comp} \cup
  (IF Cert(d) = Null THEN {}
   ELSE {s.cand : s \in Solutions(Cert(d))} \cup Members(Cert(d)))

TargetOf(d) == IF Cert(d) = Null THEN Null ELSE CertificateTarget(Cert(d))

\* Every digit run the answer may quote.
EvidenceSet(d) ==
  Shown(d) \cup {Row(d).value, Unresolved} \cup
  (IF Cert(d) = Null THEN {}
   ELSE {Certs[Cert(d)].materiality} \cup UNION {CandidateFigures(s) : s \in Solutions(Cert(d))}) \cup
  (IF TargetOf(d) = Null THEN {} ELSE {TargetOf(d).value})

\* Every identifier the answer may name.
IdAllowlist(d) ==
  (Shown(d) \cup (IF TargetOf(d) = Null THEN {} ELSE {TargetOf(d).obs, TargetOf(d).entity}))
    \ {Null}

-----------------------------------------------------------------------------
(* The checks of an answer                                                 *)

\* A field that begins with an identifier is one to the allowlist's walk; it
\* is a member of the list only if it is that identifier and nothing more.
AllowlistViolations(d, p) ==
  IF p.opens = Null \/ p.field \in IdAllowlist(d) THEN {} ELSE {p.field}

Named(p) == p.tokens \cup ({p.opens} \ {Null})

GroundR4(d, p) ==
  [ids |-> Named(p) \ IdAllowlist(d),
   numerals |-> (Named(p) \cup p.figures) \ EvidenceSet(d)]

Ok(check) == check.ids = {} /\ check.numerals = {}
Clean == [ids |-> {}, numerals |-> {}]

-----------------------------------------------------------------------------
(* The route                                                               *)

Decisions == {Rows[i].id : i \in DOMAIN Rows}
Requests == [run : {"known", "unknown"}, decision : Decisions \cup {"unknown"},
             preferences : {"ok", "unexpected_field", "unknown_audience"}]
Envs == [selected : {"unset", "anthropic", "gemini", "other"},
         key : BOOLEAN, model : {"ok", "malformed"}]
NotReached == [schema |-> "not_reached", allowlist |-> "not_reached", numerals |-> "not_reached"]
Pending == [status |-> "pending"]

Refusal ==
  IF request.run = "unknown" THEN "unknown_run"
  ELSE IF request.decision = "unknown" THEN "unknown_decision"
  ELSE IF request.preferences # "ok" THEN request.preferences
  ELSE Null

\* resolveProvider: the default is used when none is named.
ConfigFailure ==
  IF env.selected = "other" THEN "UNSUPPORTED_PROVIDER"
  ELSE IF ~env.key THEN "MISSING_CREDENTIAL"
  ELSE IF env.model = "malformed" THEN "INVALID_MODEL_ID"
  ELSE Null

ExplainInit ==
  /\ request \in Requests /\ env \in Envs
  /\ phase = "received" /\ calls = <<>> /\ seen = Null /\ failures = <<>> /\ reply = Pending

Refuse ==
  /\ phase = "received" /\ Refusal # Null
  /\ phase' = "replied"
  /\ reply' = [status |-> "refused", failure |-> Refusal]
  /\ UNCHANGED <<request, env, calls, seen, failures>>

\* The evidence summary, with no provider.
Unconfigured ==
  /\ phase = "received" /\ Refusal = Null /\ ConfigFailure # Null
  /\ phase' = "replied"
  /\ reply' = [status |-> "unavailable", failure |-> ConfigFailure, fallback |-> TRUE,
               prose |-> Null, checks |-> NotReached, ids |-> {}, numerals |-> {}]
  /\ UNCHANGED <<request, env, calls, seen, failures>>

Begin ==
  /\ phase = "received" /\ Refusal = Null /\ ConfigFailure = Null
  /\ phase' = "asking"
  /\ UNCHANGED <<request, env, calls, seen, failures, reply>>

\* One attempt is over: the next one, the offline provider, or the reply.
Proceed(outcome) ==
  phase' = IF outcome = "accepted" \/ Len(calls) = Retries THEN "exhausted" ELSE "asking"

Call(outcome, violations, prose) ==
  /\ calls' = Append(calls, [outcome |-> outcome, violations |-> violations, prose |-> prose])
  /\ Proceed(outcome)

\* The provider throws: no verdict, and its code is the last failure.
AttemptFails(code) ==
  /\ phase = "asking"
  /\ failures' = Append(failures, code)
  /\ Call("fallback_offline", {}, Null)
  /\ UNCHANGED <<request, env, seen, reply>>

\* An answer that is not of the role's shape, refused by the provider.
AttemptMalformed ==
  /\ phase = "asking"
  /\ failures' = Append(failures, "MALFORMED_RESPONSE")
  /\ Call("rejected_schema", {}, Null)
  /\ UNCHANGED <<request, env, seen, reply>>

\* Fault: an answer whose identifiers pass is not grounded.
AttemptAnsweredUngrounded(p) ==
  LET violations == AllowlistViolations(request.decision, p)
  IN  /\ phase = "asking"
      /\ seen' = IF violations = {} THEN GroundR4(request.decision, p) ELSE seen
      /\ Call(IF violations # {} THEN "rejected_allowlist" ELSE "accepted", violations, p)
      /\ UNCHANGED <<request, env, failures, reply>>

\* An answer of the right shape: the allowlist, then the grounding rule.
AttemptAnswered(p) ==
  LET violations == AllowlistViolations(request.decision, p)
      check == GroundR4(request.decision, p)
  IN  /\ phase = "asking"
      /\ seen' = IF violations = {} THEN check ELSE seen
      /\ Call(IF violations # {} THEN "rejected_allowlist"
              ELSE IF ~Ok(check) THEN "rejected_grounding" ELSE "accepted", violations, p)
      /\ UNCHANGED <<request, env, failures, reply>>

-----------------------------------------------------------------------------
(* explainDecision's answer                                                *)

Stray == IF seen = Null THEN Clean ELSE seen

Checks(call) ==
  LET verdict(found) == IF found = {} THEN "pass" ELSE "fail"
  IN  CASE call.outcome = "accepted" ->
             [schema |-> "pass", allowlist |-> "pass", numerals |-> "pass"]
        [] call.outcome = "rejected_schema" -> [NotReached EXCEPT !.schema = "fail"]
        [] call.outcome = "rejected_allowlist" ->
             [schema |-> "pass", allowlist |-> "fail", numerals |-> "not_reached"]
        [] call.outcome = "rejected_grounding" ->
             [schema |-> "pass", allowlist |-> verdict(Stray.ids),
              numerals |-> verdict(Stray.numerals)]
        [] OTHER -> NotReached

VerificationFailure(call) ==
  CASE call.outcome = "rejected_schema" -> "MALFORMED_RESPONSE"
    [] call.outcome = "rejected_allowlist" -> "UNKNOWN_ENTITY_ID"
    [] call.outcome = "rejected_grounding" ->
         IF Stray.ids # {} THEN "UNKNOWN_ENTITY_ID" ELSE "UNGROUNDED_NUMERAL"
    [] OTHER -> Null

\* The decisive call is the accepted one, else the last.
ReplyOf(call) ==
  LET rejected == VerificationFailure(call)
  IN  [status |-> IF call.outcome = "accepted" THEN "ok"
                  ELSE IF rejected # Null THEN "rejected" ELSE "unavailable",
       failure |-> IF call.outcome = "accepted" THEN Null
                   ELSE IF rejected # Null THEN rejected ELSE Last(failures),
       fallback |-> call.outcome # "accepted" /\ rejected = Null,
       prose |-> IF call.outcome = "accepted" THEN call.prose ELSE Null,
       checks |-> Checks(call),
       ids |-> call.violations \cup Stray.ids, numerals |-> Stray.numerals]

\* adjudicate tries the offline provider, which has no R4; the reply is of
\* the configured provider's calls alone.
Reply ==
  /\ phase = "exhausted"
  /\ phase' = "replied"
  /\ reply' = ReplyOf(Last(calls))
  /\ UNCHANGED <<request, env, calls, seen, failures>>

ExplainNext ==
  \/ Refuse \/ Unconfigured \/ Begin \/ AttemptMalformed \/ Reply
  \/ \E code \in TransportCodes : AttemptFails(code)
  \/ \E p \in Prose : AttemptAnswered(p)

ExplainSpec == ExplainInit /\ [][ExplainNext]_explainVars

-----------------------------------------------------------------------------
(* Properties                                                              *)

Explained == phase = "replied" /\ reply.status \in {"ok", "rejected", "unavailable"}

\* What is shown as an explanation names nothing and quotes nothing that is
\* not of this decision's evidence, whatever the attempts before it did (the
\* digits of an identifier it may see are evidence too); and an answer that
\* was refused is never shown in its place.
AnswerIsGrounded ==
  Explained =>
    /\ reply.status = "ok" <=> reply.prose # Null
    /\ reply.status = "ok" =>
         /\ Named(reply.prose) \subseteq IdAllowlist(request.decision)
         /\ reply.prose.figures \subseteq
              Shown(request.decision) \cup {Row(request.decision).value, Unresolved} \cup
              UNION {{Certs[k].materiality} \cup {r.value : r \in ToSet(Rows)} \cup
                     UNION {CandidateFigures(s) : s \in Solutions(k)} :
                     k \in {Cert(request.decision)} \ {Null}}

\* The failure is the last attempt's own: a transport failure before a
\* refused answer, or the other way round, is not reported for it; the
\* evidence summary is attached exactly when no answer was judged.
RefusalSaysWhy ==
  Explained /\ calls # <<>> =>
    LET last == Last(calls)
    IN  /\ reply.fallback <=> last.outcome = "fallback_offline"
        /\ reply.failure \in TransportCodes <=> last.outcome = "fallback_offline"
        /\ reply.failure \in TransportCodes =>
             Len(calls) = Retries + 1 /\ reply.failure = failures[Len(failures)]
        /\ \A i \in 1..(Len(calls) - 1) : calls[i].outcome # "accepted"

\* The reply can be believed either way: as an explanation of this decision,
\* or as the account of why there is none.
ReplyIsHonest == AnswerIsGrounded /\ RefusalSaysWhy

\* "Numerals the response wrote that the evidence set does not contain"
\* (service.ts): the figures reported as discarded are the decisive
\* response's, so none is reported of one whose numerals were not reached.
DiscardedFiguresWereReached ==
  Explained /\ reply.checks.numerals = "not_reached" => reply.numerals = {}

\* "Built from the ids this envelope actually carries" (evidence.ts).
AllowedWasShown ==
  phase = "asking" => IdAllowlist(request.decision) \subseteq Shown(request.decision)

\* "Entity ids the response named that the call did not allow" (service.ts):
\* an unknown identifier is reported of an answer that names one.
UnknownIdIsNamed ==
  Explained /\ reply.failure = "UNKNOWN_ENTITY_ID" =>
    ~(Named(Last(calls).prose) \subseteq IdAllowlist(request.decision))

\* "exactly one abstained decision in a component has a non-null suspense_key,
\* and that row is the target" (allocation.ts): the figure the solutions of a
\* certificate tie out against is of the target the certificate is of.
PricedAgainstItsTarget ==
  phase = "asking" /\ Cert(request.decision) # Null =>
    \A r \in ToSet(Rows) :
      r = CertificateTarget(Cert(request.decision)) => r.cert = Cert(request.decision)
=============================================================================
