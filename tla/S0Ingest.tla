------------------------------ MODULE S0Ingest ------------------------------
(***************************************************************************)
(* Stage S0, normalization and quarantine of source records                *)
(* (packages/domain/src/s0-ingest.ts with schemas/): each record of the    *)
(* documents is parsed, windowed, checked, split from its free text and    *)
(* stamped; then the refunds are checked against the payments; then the    *)
(* staged records are told apart and duplicates reported.                  *)
(*                                                                         *)
(* A record is a row of fields; well_formed stands for its strict schema,  *)
(* hashes are collision free, so a payload is its own ingest_hash, and the *)
(* position of a record in the batch is its obs_id.                        *)
(***************************************************************************)
EXTENDS Money

CONSTANTS
  Batches,          \* the batches of records, documents and lines flattened
  From, To,         \* the dataset window
  NormalizedUtr     \* normalizeUtr on the raw references of the batches

ASSUME IngestAssumption == From \in Nat /\ To \in Nat /\ From <= To

VARIABLES
  batch,      \* the records, in input order
  read,       \* how many have been staged or rejected
  staged,     \* Staged[]: [obs, violations]
  rejected,   \* positions refused by step 1
  checked,    \* how many staged records the refund pass has been over
  refunded,   \* refundedSoFar: payment id -> paise
  emitted,    \* how many staged records the last pass has been over
  observations, failures, duplicates,
  thrown      \* a rule has thrown out of ingest

vars == <<batch, read, staged, rejected, checked, refunded, emitted,
          observations, failures, duplicates, thrown>>

-----------------------------------------------------------------------------
(* Records                                                                 *)

SingleKind == [bank_statement |-> "bank_line", merchant_ledger |-> "ledger_entry",
               pg_payments |-> "payment", pg_orders |-> "order", pg_refunds |-> "refund",
               pg_settlements |-> "settlement", pg_disputes |-> "dispute"]

ReferenceKinds == {"payment", "order"}

\* kindOf: pg_recon is told apart by its row's type; "transfer" is refused.
Unknown == "unknown"
KindOf(row) ==
  IF row.source # "pg_recon" THEN SingleKind[row.source]
  ELSE IF row.type = "adjustment" THEN "adjustment"
  ELSE IF row.type \in {"payment", "refund"} THEN "recon_line" ELSE Unknown

\* QUARANTINED_FIELDS
QuarantinedFields(kind) ==
  CASE kind \in {"recon_line", "adjustment"} -> {"description", "notes", "order_receipt"}
    [] kind = "bank_line" -> {"narration"}
    [] kind = "ledger_entry" -> {"memo"}
    [] kind = "payment" -> {"description", "notes"}
    [] kind = "order" -> {"order_receipt", "notes"}
    [] kind = "refund" -> {"notes"}
    [] kind \in {"settlement", "dispute"} -> {}

\* The strict schema of the row's entity: every field present, typed and known.
WellFormed(row) == row.well_formed

\* SOURCE_SCHEMA: that schema, and the text fields of its kind.
Parses(row) == WellFormed(row) /\ row.texts \subseteq QuarantinedFields(KindOf(row))

\* The sources are those of the documents, and PaiseSchema admits integers only.
ASSUME BatchesAssumption ==
  \A b \in Batches :
    /\ Len(b) \in Nat /\ DOMAIN b = 1..Len(b)
    /\ \A o \in DOMAIN b :
         /\ b[o].source \in DOMAIN SingleKind \cup {"pg_recon"}
         /\ WellFormed(b[o]) /\ KindOf(b[o]) \in {"payment", "refund"} => b[o].amount \in Int

InWindow(row) == row.at \in From..To

\* The record without its free text: the payload, and what is hashed.
Structural(row) == [f \in DOMAIN row \ {"texts"} |-> row[f]]

IngestKey(row) == <<row.source, Structural(row)>>

\* UntrustedText and DerivedUtr rows of a stamped record.
Untrusted(row) == row.texts
DerivedUtr(row) ==
  IF KindOf(row) \in {"settlement", "recon_line", "adjustment", "bank_line"}
  THEN NormalizedUtr[row.utr] ELSE "none"

-----------------------------------------------------------------------------
(* Ingest invariants (the rate in hundredths: 1800 of 10000)               *)

GstRateBps == 18
BpsDenominator == 100

\* tax = round_half_up(0.18 * (fee - tax)), exactly
GstIdentity(row) ==
  row.fee - row.tax >= 0
    /\ row.tax = roundHalfUp((row.fee - row.tax) * GstRateBps, BpsDenominator)

\* A product past the safe integers throws, where a fee covers its tax.
GstThrows(row) ==
  /\ KindOf(row) \in {"recon_line", "adjustment"}
  /\ row.fee - row.tax >= 0
  /\ ~isPaise((row.fee - row.tax) * GstRateBps)

PaymentRules(row) ==
  {r \in {"amount_refunded", "captured", "amount"} :
     CASE r = "amount_refunded" -> row.amount_refunded > row.amount
       [] r = "captured" -> row.captured # (row.status \in {"captured", "refunded"})
       [] r = "amount" -> row.amount <= 0}

OrderRules(row) ==
  {r \in {"paid_and_due", "status"} :
     CASE r = "paid_and_due" -> row.amount_paid + row.amount_due # row.amount
       [] r = "status" -> (row.status = "paid") # (row.amount_due = 0)}

RefundRules(row) == IF row.amount <= 0 THEN {"amount"} ELSE {}

ReconRules(row) ==
  (CASE row.type = "payment" ->
          {r \in {"credit", "debit"} :
             IF r = "credit" THEN row.credit # sub(row.amount, row.fee) ELSE row.debit # 0}
     [] row.type = "refund" ->
          {r \in {"debit", "credit", "fee"} :
             CASE r = "debit" -> row.debit # row.amount
               [] r = "credit" -> row.credit # 0
               [] r = "fee" -> row.fee # 0 \/ row.tax # 0}
     [] row.type = "adjustment" -> IF (row.debit # 0) = (row.credit # 0) THEN {"one_side"} ELSE {})
  \cup (IF GstIdentity(row) THEN {} ELSE {"gst"})

\* perRecordViolations: settlements, bank lines, entries and disputes have none.
Violations(row) ==
  CASE KindOf(row) = "payment" -> PaymentRules(row)
    [] KindOf(row) = "order" -> OrderRules(row)
    [] KindOf(row) = "refund" -> RefundRules(row)
    [] KindOf(row) \in {"recon_line", "adjustment"} -> ReconRules(row)
    [] OTHER -> {}

\* classify: one class a record, the fee identity first.
ExceptionClass(row) ==
  IF KindOf(row) \notin {"recon_line", "adjustment"} THEN "E05_AMOUNT_MISMATCH"
  ELSE IF row.type = "payment" /\ row.credit # sub(row.amount, row.fee) THEN "E06_FEE_MISMATCH"
  ELSE IF ~GstIdentity(row) THEN "E07_GST_MISMATCH" ELSE "E05_AMOUNT_MISMATCH"

-----------------------------------------------------------------------------
(* Steps 1-5 over one record                                               *)

Row(s) == batch[staged[s].obs]

Init ==
  /\ batch \in Batches
  /\ read = 0 /\ staged = <<>> /\ rejected = {}
  /\ checked = 0 /\ refunded = <<>>
  /\ emitted = 0 /\ observations = <<>> /\ failures = {} /\ duplicates = {}
  /\ thrown = FALSE

Admitted(row) == KindOf(row) # Unknown /\ Parses(row) /\ InWindow(row)

\* The rules of the next record throw, and nothing catches it.
StageThrows ==
  /\ ~thrown /\ read < Len(batch)
  /\ Admitted(batch[read + 1]) /\ GstThrows(batch[read + 1])
  /\ thrown' = TRUE
  /\ UNCHANGED <<batch, read, staged, rejected, checked, refunded, emitted,
                 observations, failures, duplicates>>

Stage ==
  /\ ~thrown /\ read < Len(batch)
  /\ LET row == batch[read + 1]
     IN  \/ /\ Admitted(row) /\ ~GstThrows(row)
            /\ staged' = Append(staged, [obs |-> read + 1, violations |-> Violations(row)])
            /\ UNCHANGED rejected
         \/ /\ ~Admitted(row)
            /\ rejected' = rejected \cup {read + 1}
            /\ UNCHANGED staged
  /\ read' = read + 1
  /\ UNCHANGED <<batch, checked, refunded, emitted, observations, failures, duplicates, thrown>>

-----------------------------------------------------------------------------
(* crossRecordRefundInvariants                                             *)

\* The first staged payment of an id that passed its own rules.
IndexedPayments ==
  {s \in DOMAIN staged :
     /\ KindOf(Row(s)) = "payment" /\ staged[s].violations = {}
     /\ \A t \in 1..(s - 1) : ~(/\ KindOf(Row(t)) = "payment" /\ staged[t].violations = {}
                                /\ Row(t).id = Row(s).id)}

PaymentOf(row) == {s \in IndexedPayments : Row(s).id = row.payment_id}

RefundedSoFar(id) == IF id \in DOMAIN refunded THEN refunded[id] ELSE 0

CrossRules(row, payment) ==
  {r \in {"amount", "created_at", "sum"} :
     CASE r = "amount" -> row.amount > payment.amount
       [] r = "created_at" -> row.at < payment.at
       [] r = "sum" -> RefundedSoFar(payment.id) + row.amount > payment.amount}

\* Fault: a refund that fails still counts against its payment.
CheckRefundCounted ==
  /\ read = Len(batch) /\ checked < Len(staged)
  /\ LET s == checked + 1
         row == Row(s)
     IN  IF KindOf(row) = "refund" /\ staged[s].violations = {} /\ PaymentOf(row) # {}
         THEN LET payment == Row(CHOOSE p \in PaymentOf(row) : TRUE)
                  running == RefundedSoFar(payment.id) + row.amount
              IN  /\ staged' = [staged EXCEPT ![s].violations = CrossRules(row, payment)]
                  /\ refunded' = [id \in DOMAIN refunded \cup {payment.id} |->
                                    IF id = payment.id THEN running ELSE refunded[id]]
         ELSE UNCHANGED <<staged, refunded>>
  /\ checked' = checked + 1
  /\ UNCHANGED <<batch, read, rejected, emitted, observations, failures, duplicates, thrown>>

CheckRefund ==
  /\ read = Len(batch) /\ checked < Len(staged)
  /\ LET s == checked + 1
         row == Row(s)
     IN  IF KindOf(row) = "refund" /\ staged[s].violations = {} /\ PaymentOf(row) # {}
         THEN LET payment == Row(CHOOSE p \in PaymentOf(row) : TRUE)
                  found == CrossRules(row, payment)
                  running == RefundedSoFar(payment.id) + row.amount
              IN  /\ staged' = [staged EXCEPT ![s].violations = found]
                  /\ refunded' = IF found # {} THEN refunded
                                 ELSE [id \in DOMAIN refunded \cup {payment.id} |->
                                         IF id = payment.id THEN running ELSE refunded[id]]
         ELSE UNCHANGED <<staged, refunded>>
  /\ checked' = checked + 1
  /\ UNCHANGED <<batch, read, rejected, emitted, observations, failures, duplicates, thrown>>

-----------------------------------------------------------------------------
(* The last pass                                                           *)

\* firstSeen: the earliest accepted record of the same source and hash.
FirstSeen(s) ==
  {o \in ToSet(observations) : IngestKey(batch[o]) = IngestKey(Row(s))}

Emit ==
  /\ read = Len(batch) /\ checked = Len(staged) /\ emitted < Len(staged)
  /\ LET s == emitted + 1
         obs == staged[s].obs
     IN  IF staged[s].violations # {}
         THEN /\ failures' = failures \cup {[obs |-> obs, class |-> ExceptionClass(Row(s))]}
              /\ UNCHANGED <<observations, duplicates>>
         ELSE /\ observations' = Append(observations, obs)
              /\ duplicates' = IF FirstSeen(s) = {} THEN duplicates
                               ELSE duplicates \cup {[obs |-> obs, first |-> Min(FirstSeen(s))]}
              /\ UNCHANGED failures
  /\ emitted' = emitted + 1
  /\ UNCHANGED <<batch, read, staged, rejected, checked, refunded, thrown>>

Done == read = Len(batch) /\ checked = Len(staged) /\ emitted = Len(staged)

\* The statically classified records of the result.
ReferenceObs == {o \in ToSet(observations) : KindOf(batch[o]) \in ReferenceKinds}

Next == Stage \/ StageThrows \/ CheckRefund \/ Emit

Spec == Init /\ [][Next]_vars

-----------------------------------------------------------------------------
(* Properties                                                              *)

Accepted == ToSet(observations)
Failed == {f.obs : f \in failures}

RefundsOf(o) == {r \in Accepted : /\ KindOf(batch[r]) = "refund"
                                  /\ batch[r].payment_id = batch[o].id}

AmountOf(S) == SumFunctionOnSet([o \in S |-> batch[o].amount], S)

\* A record failing an ingest invariant "never enters the candidate space"
\* (s0-ingest.ts:198): what ingest hands on is consistent as a set.  Every record is
\* accepted, failed or rejected, once; the accepted refunds of a payment fit in
\* it and none predates it; and a refund that is sound by itself is kept out
\* only for a payment that was accepted, and only when it predates it or could
\* not have been added to the refunds accepted before it.
CandidatesAreSound ==
  Done =>
    /\ Cardinality(Accepted) + Cardinality(Failed) + Cardinality(rejected) = Len(batch)
    /\ Accepted \cup Failed \cup rejected = DOMAIN batch
    /\ \A s \in IndexedPayments :
         LET o == staged[s].obs
         IN  /\ AmountOf(RefundsOf(o)) <= batch[o].amount
             /\ \A r \in RefundsOf(o) : batch[r].at >= batch[o].at
    /\ \A f \in Failed :
         KindOf(batch[f]) = "refund" /\ Violations(batch[f]) = {} =>
           \E o \in Accepted :
             /\ KindOf(batch[o]) = "payment" /\ batch[o].id = batch[f].payment_id
             /\ \/ batch[f].at < batch[o].at
                \/ AmountOf({r \in RefundsOf(o) : r < f}) + batch[f].amount > batch[o].amount

\* "ingest_hash collision within a source => E08" (docs/RECONCILIATION_SPEC.md:
\* 1564): a staged record that repeats an accepted one is reported a duplicate.
RepeatedIsDuplicate ==
  Done =>
    \A s \in DOMAIN staged : \A o \in Accepted :
      o < staged[s].obs /\ IngestKey(batch[o]) = IngestKey(Row(s)) =>
        \E d \in duplicates : d.obs = staged[s].obs

\* ingest throws for a malformed request only: "a caller contract violation,
\* not untrusted input" (s0-ingest.ts:630-633); a record it cannot use is a
\* RejectedRecord or a failure.
RecordsNeverThrow == ~thrown
=============================================================================
