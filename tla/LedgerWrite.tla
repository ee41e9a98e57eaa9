---------------------------- MODULE LedgerWrite ----------------------------
(***************************************************************************)
(* The single mutating write path of packages/ledger: postValidatedDecision*)
(* (write.ts) over appendEvent (hash-chain.ts), committing through the     *)
(* LedgerStore port (store.ts).                                            *)
(*                                                                         *)
(* One process holds a LedgerWriteState (chain + the two posted-id sets).  *)
(* The store behind the port is durable and atomic: a commit that throws   *)
(* has stored nothing.  The process may die at any point, also after the   *)
(* store has accepted the unit and before the new state is returned, and   *)
(* is resumed with openWriteState over the chain rebuilt from the store.   *)
(*                                                                         *)
(* A digest is modelled by what was digested: Hash(body, prev) appends the *)
(* body to the sequence of bodies prev stands for, so two digests are equal*)
(* exactly when the same bodies were hashed in the same order.             *)
(***************************************************************************)
EXTENDS Integers, Sequences, FiniteSets, Functions

CONSTANTS
  Decisions,      \* decision_ids of the ValidatedDecisions handed to the path
  EventIds,       \* evt_ids a caller may stamp
  Attr,           \* Attr[d]: what the path reads of decision d
  SafeMax         \* Number.MAX_SAFE_INTEGER

DecisionStates == {"RECONCILED", "ABSTAINED", "EXCEPTION"}

Attributes == [type : DecisionStates,  \* Decision.type
               failed : BOOLEAN,       \* invariants_failed is not empty
               certified : BOOLEAN,    \* certificate is not null
               dr : Nat, cr : Nat]     \* the two sides of its journal_lines

ASSUME LedgerAssumption == /\ Attr \in [Decisions -> Attributes]
                           /\ SafeMax \in Nat

VARIABLES
  stored,         \* the durable event log behind LedgerStore.commit
  up,             \* a process holds a LedgerWriteState
  chain,          \* LedgerWriteState.chain
  postedDecisions,\* LedgerWriteState.posted_decision_ids
  postedEvents,   \* LedgerWriteState.posted_event_ids
  reply           \* what the last call of postValidatedDecision did

vars == <<stored, up, chain, postedDecisions, postedEvents, reply>>
held == <<up, chain, postedDecisions, postedEvents>>

-----------------------------------------------------------------------------
(* Events and digests                                                      *)

Genesis == <<>>

Hash(body, prev) == Append(prev, body)

\* EVENT_KIND_BY_DECISION_TYPE
EventKind(type) ==
  CASE type = "RECONCILED" -> "RECONCILE"
    [] type = "ABSTAINED"  -> "ABSTAIN"
    [] type = "EXCEPTION"  -> "EXCEPTION"

EventKinds == {"RECONCILE", "ABSTAIN", "EXCEPTION"}

Bodies == [seq : Nat, kind : EventKinds, decision : Decisions,
           dr : Nat, cr : Nat]

Digests == Seq(Bodies)

Events == [evt : EventIds, body : Bodies, prev : Digests, hash : Digests]

Chains == [events : Seq(Events), root : Digests, dr : 0..SafeMax, cr : 0..SafeMax]

\* canonicalEventBody: everything but evt_id, ts and run_id is hashed
Body(seq, d) == [seq |-> seq, kind |-> EventKind(Attr[d].type), decision |-> d,
                 dr |-> Attr[d].dr, cr |-> Attr[d].cr]

\* createChain
EmptyChain == [events |-> <<>>, root |-> Genesis, dr |-> 0, cr |-> 0]

\* The event appendEvent seals for decision d stamped e.
SealedEvent(c, d, e) ==
  LET body == Body(Len(c.events), d)
  IN  [evt |-> e, body |-> body, prev |-> c.root, hash |-> Hash(body, c.root)]

\* Fault: no safe-integer check.
TotalsHoldInexact(c, d) == c.dr + Attr[d].dr = c.cr + Attr[d].cr

\* The new totals are exact and equal: otherwise appendEvent throws.
TotalsHold(c, d) ==
  /\ c.dr + Attr[d].dr <= SafeMax
  /\ c.cr + Attr[d].cr <= SafeMax
  /\ c.dr + Attr[d].dr = c.cr + Attr[d].cr

AppendEvent(c, d, e) ==
  LET ev == SealedEvent(c, d, e)
  IN  [events |-> Append(c.events, ev),
       root   |-> ev.hash,
       dr     |-> c.dr + Attr[d].dr,
       cr     |-> c.cr + Attr[d].cr]

-----------------------------------------------------------------------------
(* Opening a write state                                                   *)

DecisionsIn(events) == {events[i].body.decision : i \in DOMAIN events}
EventIdsIn(events)  == {events[i].evt : i \in DOMAIN events}

RootOf(events) == IF events = <<>> THEN Genesis ELSE events[Len(events)].hash

TotalDr(events) == SumFunction([i \in DOMAIN events |-> events[i].body.dr])
TotalCr(events) == SumFunction([i \in DOMAIN events |-> events[i].body.cr])

\* The chain a caller rebuilds from the stored events to resume a run.
Rebuilt(events) == [events |-> events, root |-> RootOf(events),
                    dr |-> TotalDr(events), cr |-> TotalCr(events)]

\* Faults: a resumed run indexes nothing; only its event ids.
OpenUnindexed ==
  /\ ~up
  /\ up' = TRUE
  /\ chain' = Rebuilt(stored)
  /\ postedDecisions' = {}
  /\ postedEvents' = {}
  /\ reply' = [decision |-> "none", outcome |-> "opened"]
  /\ UNCHANGED stored
OpenIndexingEvents ==
  /\ ~up
  /\ up' = TRUE
  /\ chain' = Rebuilt(stored)
  /\ postedDecisions' = {}
  /\ postedEvents' = EventIdsIn(stored)
  /\ reply' = [decision |-> "none", outcome |-> "opened"]
  /\ UNCHANGED stored

\* openWriteState: index the chain for the duplicate checks.
OpenWriteState ==
  /\ ~up
  /\ TotalDr(stored) \in 0..SafeMax
  /\ TotalCr(stored) \in 0..SafeMax
  /\ up' = TRUE
  /\ chain' = Rebuilt(stored)
  /\ postedDecisions' = DecisionsIn(stored)
  /\ postedEvents' = EventIdsIn(stored)
  /\ reply' = [decision |-> "none", outcome |-> "opened"]
  /\ UNCHANGED stored

-----------------------------------------------------------------------------
(* postValidatedDecision                                                   *)

\* Gate G5 and the certificate biconditional.
Admitted(d) == /\ ~Attr[d].failed
               /\ (Attr[d].type = "ABSTAINED") <=> Attr[d].certified

\* Fault: only the evt_id is looked up.
FreshEvent(d, e) == e \notin postedEvents

Fresh(d, e) == /\ d \notin postedDecisions
               /\ e \notin postedEvents

\* Every check precedes the commit.
MayCommit(d, e) == /\ up
                   /\ Admitted(d)
                   /\ Fresh(d, e)
                   /\ TotalsHold(chain, d)

Answer(d, outcome) == reply' = [decision |-> d, outcome |-> outcome]

\* The write state returned once commit has returned.
Advance(d, e) ==
  /\ chain' = AppendEvent(chain, d, e)
  /\ postedDecisions' = postedDecisions \cup {d}
  /\ postedEvents' = postedEvents \cup {e}
  /\ UNCHANGED up

\* LedgerStore.commit accepting its one-event unit.
Commit(d, e) == stored' = Append(stored, SealedEvent(chain, d, e))

\* The process is gone, and its write state with it.
Forget == /\ up' = FALSE
          /\ chain' = EmptyChain
          /\ postedDecisions' = {}
          /\ postedEvents' = {}

Post(d, e) ==
  /\ MayCommit(d, e)
  /\ Commit(d, e)
  /\ Advance(d, e)
  /\ Answer(d, "posted")

\* Fault: the state advances before the store has answered.
PostRefusedAdvancing(d, e) ==
  /\ MayCommit(d, e)
  /\ Advance(d, e)
  /\ Answer(d, "store_threw")
  /\ UNCHANGED stored

\* commit throws: nothing is stored, no state is returned.
PostRefusedByStore(d, e) ==
  /\ MayCommit(d, e)
  /\ Answer(d, "store_threw")
  /\ UNCHANGED <<stored, held>>

\* The unit is durable but the caller dies before it learns so.
PostThenCrash(d, e) ==
  /\ MayCommit(d, e)
  /\ Commit(d, e)
  /\ Forget
  /\ reply' = [decision |-> "none", outcome |-> "crashed"]

PostRejected(d) ==
  /\ up
  /\ ~Admitted(d)
  /\ Answer(d, "rejected")
  /\ UNCHANGED <<stored, held>>

PostDuplicate(d, e) ==
  /\ up
  /\ Admitted(d)
  /\ \/ /\ d \in postedDecisions
        /\ Answer(d, "duplicate_decision")
     \/ /\ d \notin postedDecisions
        /\ e \in postedEvents
        /\ Answer(d, "duplicate_event")
  /\ UNCHANGED <<stored, held>>

PostUnbalanced(d, e) ==
  /\ up
  /\ Admitted(d)
  /\ Fresh(d, e)
  /\ ~TotalsHold(chain, d)
  /\ Answer(d, "trial_balance")
  /\ UNCHANGED <<stored, held>>

Crash ==
  /\ up
  /\ Forget
  /\ reply' = [decision |-> "none", outcome |-> "crashed"]
  /\ UNCHANGED stored

-----------------------------------------------------------------------------
Init ==
  /\ stored = <<>>
  /\ up = FALSE
  /\ chain = EmptyChain
  /\ postedDecisions = {}
  /\ postedEvents = {}
  /\ reply = [decision |-> "none", outcome |-> "crashed"]

Next ==
  \/ OpenWriteState
  \/ Crash
  \/ \E d \in Decisions :
       \/ PostRejected(d)
       \/ \E e \in EventIds :
            \/ Post(d, e)
            \/ PostRefusedByStore(d, e)
            \/ PostThenCrash(d, e)
            \/ PostDuplicate(d, e)
            \/ PostUnbalanced(d, e)

Spec == Init /\ [][Next]_vars

-----------------------------------------------------------------------------
(* Properties                                                              *)

\* The variables keep their types (hash-chain.ts:268-295, write.ts:190-205).
TypeOK ==
  /\ stored \in Seq(Events)
  /\ up \in BOOLEAN
  /\ chain \in Chains
  /\ postedDecisions \subseteq Decisions
  /\ postedEvents \subseteq EventIds

\* The event at position i has seq i-1, links to its predecessor's hash (the
\* first to genesis) and carries the hash of its own body over that link.
Linked(events) ==
  \A i \in DOMAIN events :
    /\ events[i].body.seq = i - 1
    /\ events[i].prev = IF i = 1 THEN Genesis ELSE events[i - 1].hash
    /\ events[i].hash = Hash(events[i].body, events[i].prev)

\* Across any sequence of posts, refusals, crashes and resumes, what is
\* durable is one gapless chain from genesis: the obligation that a resumed
\* state continues the stored chain and a refused one does not advance past it.
StoredChainLinked == Linked(stored)

\* While a process holds a write state, that state is the whole truth: its
\* chain is exactly what is durable (write.ts:401-404: "the caller's `state`
\* argument remains the whole truth").
HeldIsStored ==
  up => /\ chain.events = stored
        /\ chain.root = RootOf(stored)

\* One decision, one event; one evt_id, one event, whatever was retried
\* after a crash or a refused commit.
PostedOnce ==
  \A i, j \in DOMAIN stored :
    (stored[i].body.decision = stored[j].body.decision \/ stored[i].evt = stored[j].evt)
      => i = j

\* Invariant I1 on what is durable: every event in the store is balanced, so
\* every prefix of the ledger is, whatever the validator let through.
StoredBalanced == \A i \in DOMAIN stored : stored[i].body.dr = stored[i].body.cr

\* Gate G5 and boundary 3: nothing S5 failed, and no abstention without its
\* certificate, is ever durable.
OnlyAdmitted ==
  \A i \in DOMAIN stored :
    LET a == Attr[stored[i].body.decision]
    IN  ~a.failed /\ (a.certified <=> stored[i].body.kind = "ABSTAIN")

\* The caller may believe the answer it got: "posted" and the duplicate
\* refusal mean the decision is durable, every other refusal means it is not
\* durable unless an earlier call made it so.
RepliesTellTheTruth ==
  /\ reply.outcome \in {"posted", "duplicate_decision"}
       => reply.decision \in DecisionsIn(stored)
  /\ reply.outcome \in {"store_threw", "trial_balance", "duplicate_event", "rejected"}
       => reply.decision \notin DecisionsIn(stored)

\* Append-only (ARCHITECTURE.md section 8): no step rewrites or drops an event.
AppendOnly ==
  [][/\ Len(stored') \in {Len(stored), Len(stored) + 1}
     /\ \A i \in DOMAIN stored : stored'[i] = stored[i]]_vars

\* The ledger is a DecisionLog of what it booked.
Booked == INSTANCE DecisionLog WITH
            Admissible <- {d \in Decisions : Admitted(d)},
            log <- [i \in DOMAIN stored |-> stored[i].body.decision]

\* Refinement: every behaviour of the write path, crashes included, is one of
\* the at-most-once log a reader of the ledger relies on.
RefinesDecisionLog == Booked!Spec
=============================================================================
