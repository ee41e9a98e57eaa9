---------------------------- MODULE ChainVerify ----------------------------
(***************************************************************************)
(* verifyChain (packages/ledger/src/hash-chain.ts) over records read back  *)
(* from storage.  A run first seals a chain; the records then decay: one   *)
(* may be lost, repeated, swapped, edited field by field, made unreadable, *)
(* or have its digest or link recomputed after an edit.  The verdict is    *)
(* computed afresh from genesis in every state, as GET .../ledger/verify   *)
(* does on every request (apps/api/src/routes/ledger-verify.ts).           *)
(*                                                                         *)
(* A digest stands for the sequence of bodies hashed into it, as in        *)
(* LedgerWrite.  evt_id and run_id are outside the hashed body.            *)
(***************************************************************************)
EXTENDS Integers, Sequences, FiniteSets, FiniteSetsExt, SequencesExt

CONSTANTS
  Payloads,     \* the hashed content of an event besides seq and its amounts
  Runs,         \* run_ids
  EvtIds,       \* evt_ids
  MaxEvents,    \* bound: events sealed
  MaxDamage,    \* bound: damaging steps
  SafeMax       \* Number.MAX_SAFE_INTEGER

ASSUME VerifyAssumption == /\ MaxEvents \in Nat /\ MaxDamage \in Nat
                           /\ SafeMax \in Nat
                           /\ Runs # {} /\ EvtIds # {}

VARIABLES
  sealed,       \* the events as appendEvent sealed them
  records,      \* the records read back
  damage        \* how many damaging steps there were

vars == <<sealed, records, damage>>

Genesis == <<>>
Hash(body, prev) == Append(prev, body)

\* The expected root: the last sealed digest, published with the run.
RootOf(events) == IF events = <<>> THEN Genesis ELSE Last(events).hash

-----------------------------------------------------------------------------
(* verifyChain                                                             *)

RecordChecks == {"RUN_ID", "EVENT_ID_UNIQUE", "SEQUENCE", "PREV_HASH",
                 "EVENT_HASH", "TRIAL_BALANCE"}

Failure(i, check) == [index |-> i, check |-> check]

\* sealStoredEvent refuses a record whose structure was broken; such a record
\* is skipped by every later check.
Readable(i) == records[i].intact

\* Fault: only readable records hand on a link.
ExpectedPrevReadable(i) ==
  LET carried == {j \in 1..(i - 1) : Readable(j)}
  IN  IF carried = {} THEN Genesis ELSE records[Max(carried)].hash

\* The link the record at i must carry: the digest stored in the nearest
\* earlier record whose digest is well formed, else genesis.
ExpectedPrev(i) ==
  LET carried == {j \in 1..(i - 1) : records[j].legible}
  IN  IF carried = {} THEN Genesis ELSE records[Max(carried)].hash

ReadableBefore(i) == {j \in 1..(i - 1) : Readable(j)}

\* Running totals over the readable records up to i.
Debits == [j \in DOMAIN records |-> records[j].body.dr]
Credits == [j \in DOMAIN records |-> records[j].body.cr]
TotalDr(i) == SumFunctionOnSet(Debits, ReadableBefore(i + 1))
TotalCr(i) == SumFunctionOnSet(Credits, ReadableBefore(i + 1))

OutOfBalance(i) == \/ TotalDr(i) > SafeMax
                   \/ TotalCr(i) > SafeMax
                   \/ TotalDr(i) # TotalCr(i)

\* Fault: the digest is taken on trust.
DigestTrusted(r) == Len(r.hash) = Len(r.prev) + 1

\* Recomputed over the record's own stored prev_hash.
DigestHolds(r) == r.hash = Hash(r.body, r.prev)

Passes(i, check) ==
  LET r == records[i]
      earlier == ReadableBefore(i)
  IN  CASE check = "RUN_ID" -> earlier = {} \/ r.run = records[Min(earlier)].run
        [] check = "EVENT_ID_UNIQUE" -> \A j \in earlier : records[j].evt # r.evt
        [] check = "SEQUENCE" -> r.body.seq = i - 1
        [] check = "PREV_HASH" -> r.prev = ExpectedPrev(i)
        [] check = "EVENT_HASH" -> DigestHolds(r)
        [] check = "TRIAL_BALANCE" -> \* reported once, where it first fails
             OutOfBalance(i) => \E j \in earlier : OutOfBalance(j)

RecordFailures(i) ==
  IF Readable(i)
  THEN {Failure(i, c) : c \in {k \in RecordChecks : ~Passes(i, k)}}
  ELSE {Failure(i, "STRUCTURE")}

RecomputedRoot == ExpectedPrev(Len(records) + 1)

Failures(expectedRoot) ==
  (UNION {RecordFailures(i) : i \in DOMAIN records})
    \cup (IF RecomputedRoot # expectedRoot THEN {Failure(0, "ROOT_HASH")} ELSE {})

Verified == Failures(RootOf(sealed)) = {}

\* The route's genesis_to_root check: chain_ok and root_matches, leaving the
\* trial balance to a check of its own.
GenesisToRoot ==
  \A f \in Failures(RootOf(sealed)) : f.check = "TRIAL_BALANCE"

-----------------------------------------------------------------------------
(* Sealing                                                                 *)

\* appendEvent: seq is the length, prev the root; an event's amounts are equal, 1
\* here, and totals outside the safe integers are refused.
Seal(p, e, r) ==
  /\ damage = 0
  /\ Len(sealed) < MaxEvents /\ Len(sealed) < SafeMax
  /\ \A i \in DOMAIN sealed : sealed[i].evt # e /\ sealed[i].run = r
  /\ LET body == [seq |-> Len(sealed), payload |-> p, dr |-> 1, cr |-> 1]
         prev == RootOf(sealed)
     IN  sealed' = Append(sealed, [intact |-> TRUE, legible |-> TRUE,
                                  evt |-> e, run |-> r, body |-> body,
                                   prev |-> prev, hash |-> Hash(body, prev)])
  /\ records' = sealed'
  /\ UNCHANGED damage

-----------------------------------------------------------------------------
(* Damage at rest                                                          *)

Damaged == /\ damage < MaxDamage
           /\ damage' = damage + 1
           /\ UNCHANGED sealed

Lose(i) == Damaged /\ records' = RemoveAt(records, i)

Repeat(i) == /\ Damaged
             /\ Len(records) <= MaxEvents
             /\ records' = InsertAt(records, i, records[i])

Swap(i) == /\ Damaged
           /\ i + 1 \in DOMAIN records
           /\ records' = [records EXCEPT ![i] = records[i + 1], ![i + 1] = records[i]]

EditHashed(i) ==
  /\ Damaged
  /\ \/ \E p \in Payloads : records' = [records EXCEPT ![i].body.payload = p]
     \/ \E n \in 0..MaxEvents : records' = [records EXCEPT ![i].body.seq = n]
     \/ records' = [records EXCEPT ![i].body.dr = 2]

EditUnhashed(i) ==
  /\ Damaged
  /\ \/ \E e \in EvtIds : records' = [records EXCEPT ![i].evt = e]
     \/ \E r \in Runs : records' = [records EXCEPT ![i].run = r]

BreakStructure(i) ==
  /\ Damaged
  /\ \/ records' = [records EXCEPT ![i].intact = FALSE]
     \/ records' = [records EXCEPT ![i].intact = FALSE, ![i].legible = FALSE]

\* The digest of a record recomputed over whatever it now says.
Rehash(i) ==
  /\ Damaged
  /\ records[i].legible
  /\ records' = [records EXCEPT ![i].hash = Hash(records[i].body, records[i].prev)]

\* The link of a record rewritten to fit its neighbour, and the digest with it.
Relink(i) ==
  /\ Damaged
  /\ records[i].legible
  /\ records' = [records EXCEPT ![i].prev = ExpectedPrev(i),
                                ![i].hash = Hash(records[i].body, ExpectedPrev(i))]

-----------------------------------------------------------------------------
Init == sealed = <<>> /\ records = <<>> /\ damage = 0

Next ==
  \/ \E p \in Payloads, e \in EvtIds, r \in Runs : Seal(p, e, r)
  \/ \E i \in DOMAIN records :
       \/ Lose(i)
       \/ Repeat(i)
       \/ Swap(i)
       \/ EditHashed(i)
       \/ EditUnhashed(i)
       \/ BreakStructure(i)
       \/ Rehash(i)
       \/ Relink(i)

Spec == Init /\ [][Next]_vars

-----------------------------------------------------------------------------
(* Properties                                                              *)

Content(events) == [i \in DOMAIN events |-> events[i].body]

\* Gate G4: whatever was lost, swapped, edited, re-hashed or re-linked, a chain
\* whose genesis_to_root check passes against the published root is readable
\* throughout and books exactly the sealed content, in the sealed order.
VerifiesWhatWasSealed ==
  GenesisToRoot => /\ Content(records) = Content(sealed)
                   /\ \A i \in DOMAIN records : records[i].intact

\* There is no false alarm: the records as sealed do verify.
SealedVerifies == records = sealed => Verified

\* One corrupt record does not report as a failure on every record after it
\* (hash-chain.ts:479-481): with its stored digest still well formed, an
\* unreadable record is the only one reported.
CorruptRecordReportedAlone ==
  \A i \in DOMAIN sealed :
    records = [sealed EXCEPT ![i].intact = FALSE]
      => Failures(RootOf(sealed)) = {Failure(i, "STRUCTURE")}

\* A broken digest does not cascade into the links behind it
\* (hash-chain.ts:537-539): a content edit of one record is reported on that
\* record and nowhere else.
EditReportedWhereMade ==
  \A i \in DOMAIN sealed :
    ( /\ Len(records) = Len(sealed)
      /\ \A j \in DOMAIN sealed \ {i} : records[j] = sealed[j]
      /\ records[i].intact
      /\ records[i].hash = sealed[i].hash
      /\ records[i].prev = sealed[i].prev
      /\ records[i].evt = sealed[i].evt /\ records[i].run = sealed[i].run
      /\ records[i].body # sealed[i].body )
    => /\ Failure(i, "EVENT_HASH") \in Failures(RootOf(sealed))
       /\ \A f \in Failures(RootOf(sealed)) : f.index = i

\* verifyChain names the record that is damaged and no other, whether it can no
\* longer be read or says something else than what was sealed; and none if none is.
FaultReportedWhereMade ==
  SealedVerifies /\ CorruptRecordReportedAlone /\ EditReportedWhereMade
=============================================================================
