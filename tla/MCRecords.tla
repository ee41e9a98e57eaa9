----------------------------- MODULE MCRecords -----------------------------
(***************************************************************************)
(* Small instances of the two readings of stored records: the chain alone  *)
(* (ChainVerify), where records may be damaged up to three times in a row, *)
(* and the close over every store (CloseRecords), where one is.  A         *)
(* behaviour is one of them.  Payloads, run_ids and evt_ids are only       *)
(* compared for equality, so they may be permuted.                         *)
(***************************************************************************)
EXTENDS ChainVerify, TLC

CONSTANTS MaxDecisions, MaxFaults, Stores, Amounts, Batches, Multiviews, LegacyMaxUnresolved,
          SafePaise, MaxUnresolvedRatioBps

VARIABLES
  reading,                               \* which of the two
  intact, given, faults, attempt, root   \* CloseRecords' own

closeVars == <<intact, given, faults, attempt, root>>

Closing == INSTANCE CloseRecords WITH SafeMax <- SafePaise

Symmetry == Permutations(Payloads) \cup Permutations(Runs) \cup Permutations(EvtIds)

MCInit ==
  /\ reading \in {"chain", "close"}
  /\ Init /\ Closing!RecordsInit

MCNext ==
  \/ reading = "chain" /\ Next /\ UNCHANGED <<reading, closeVars>>
  \/ reading = "close" /\ Closing!RecordsNext /\ UNCHANGED <<reading, vars>>

MCSpec == MCInit /\ [][MCNext]_<<reading, vars, closeVars>>

\* What CloseRecords promises: one fault blocks the close at the gate of its store
\* (closeGate), and inputs_hash covers what the report shows (closeInputsHash).
FaultIsPlaced == Closing!FaultIsPlaced
HashCoversReport == Closing!HashCoversReport
=============================================================================
