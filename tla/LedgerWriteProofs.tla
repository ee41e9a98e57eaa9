-------------------------- MODULE LedgerWriteProofs --------------------------
(***************************************************************************)
(* Theorems about LedgerWrite for every set of decisions, every evt_id set *)
(* and every safe-integer bound.  The inductive invariant adds to the      *)
(* checked ones that the two posted-id sets index exactly what is durable, *)
(* that every event carries its decision's own amounts and kind, and that  *)
(* the held totals balance.                                                *)
(***************************************************************************)
EXTENDS LedgerWrite, TLAPS

\* The duplicate checks of a held state look up exactly what is durable.
IndexExact == up => /\ postedDecisions = DecisionsIn(stored)
                    /\ postedEvents = EventIdsIn(stored)

\* Every durable event is the one its decision was sealed into, unmodified.
Faithful == \A i \in DOMAIN stored :
              stored[i].body = Body(i - 1, stored[i].body.decision)

\* The held chain's running totals balance, as each append asserted.
HeldBalanced == chain.dr = chain.cr

IInv == /\ TypeOK
        /\ StoredChainLinked
        /\ HeldIsStored
        /\ PostedOnce
        /\ StoredBalanced
        /\ OnlyAdmitted
        /\ IndexExact
        /\ Faithful
        /\ HeldBalanced

-----------------------------------------------------------------------------
\* The event sealed on a typed chain is typed.
LEMMA SealedEventType ==
  ASSUME NEW c \in Chains, NEW d \in Decisions, NEW e \in EventIds
  PROVE  /\ SealedEvent(c, d, e) \in Events
         /\ Body(Len(c.events), d) \in Bodies
<1>1. Attr[d] \in Attributes
  BY LedgerAssumption
<1>2. Len(c.events) \in Nat
  BY DEF Chains
<1>3. EventKind(Attr[d].type) \in EventKinds
  BY <1>1 DEF Attributes, DecisionStates, EventKind, EventKinds
<1>4. Body(Len(c.events), d) \in Bodies
  BY <1>1, <1>2, <1>3 DEF Body, Bodies, Attributes
<1>5. Hash(Body(Len(c.events), d), c.root) \in Digests
  BY <1>4 DEF Hash, Digests, Chains
<1> QED
  BY <1>4, <1>5 DEF SealedEvent, Events, Chains

\* Appending a balanced, exact decision keeps the chain typed and balanced.
LEMMA AppendEventType ==
  ASSUME NEW c \in Chains, NEW d \in Decisions, NEW e \in EventIds,
         TotalsHold(c, d)
  PROVE  /\ AppendEvent(c, d, e) \in Chains
         /\ AppendEvent(c, d, e).dr = AppendEvent(c, d, e).cr
         /\ AppendEvent(c, d, e).events = Append(c.events, SealedEvent(c, d, e))
         /\ AppendEvent(c, d, e).root = SealedEvent(c, d, e).hash
<1>1. Attr[d] \in Attributes
  BY LedgerAssumption
<1>2. SealedEvent(c, d, e) \in Events
  BY SealedEventType
<1>3. /\ c.dr + Attr[d].dr \in 0..SafeMax
      /\ c.cr + Attr[d].cr \in 0..SafeMax
  BY <1>1, LedgerAssumption DEF TotalsHold, Chains, Attributes
<1>4. SealedEvent(c, d, e).hash \in Digests
  BY <1>2 DEF Events
<1> QED
  BY <1>2, <1>3, <1>4 DEF AppendEvent, Chains, TotalsHold

LEMMA InitIInv == Init => IInv
<1> SUFFICES ASSUME Init PROVE IInv
  OBVIOUS
<1>1. EmptyChain \in Chains
  BY LedgerAssumption DEF EmptyChain, Chains, Digests, Genesis
<1>2. DOMAIN stored = {}
  BY DEF Init
<1>3. TypeOK
  <2>1. stored \in Seq(Events)
    BY DEF Init
  <2>4. up \in BOOLEAN
    BY DEF Init
  <2>2. postedDecisions \subseteq Decisions /\ postedEvents \subseteq EventIds
    BY DEF Init
  <2>3. chain \in Chains
    BY <1>1 DEF Init
  <2> QED
    BY <2>1, <2>2, <2>3, <2>4 DEF TypeOK
<1>4. /\ StoredChainLinked /\ PostedOnce /\ StoredBalanced
      /\ OnlyAdmitted /\ Faithful
  BY <1>2 DEF StoredChainLinked, Linked, PostedOnce, StoredBalanced,
     OnlyAdmitted, Faithful
<1>5. HeldIsStored /\ IndexExact /\ HeldBalanced
  BY DEF Init, HeldIsStored, IndexExact, HeldBalanced, EmptyChain
<1> QED
  BY <1>3, <1>4, <1>5 DEF IInv

\* Reopening the stored log restores every conjunct: the rebuilt totals agree
\* because the two sides being summed agree event by event.
LEMMA OpenIInv == IInv /\ OpenWriteState => IInv'
<1> SUFFICES ASSUME IInv, OpenWriteState PROVE IInv'
  OBVIOUS
<1> USE DEF IInv, OpenWriteState
<1>1. TotalDr(stored) = TotalCr(stored)
  <2>1. [i \in DOMAIN stored |-> stored[i].body.dr]
          = [i \in DOMAIN stored |-> stored[i].body.cr]
    BY DEF StoredBalanced
  <2> QED
    BY <2>1 DEF TotalDr, TotalCr
<1>0. \A i \in DOMAIN stored : stored[i] \in Events
  BY DEF TypeOK
<1>2. RootOf(stored) \in Digests
  <2>1. CASE stored = <<>>
    BY <2>1 DEF RootOf, Genesis, Digests
  <2>2. CASE stored # <<>>
    <3>1. Len(stored) \in DOMAIN stored
      BY <2>2 DEF TypeOK
    <3> QED
      BY <1>0, <2>2, <3>1 DEF RootOf, Events
  <2> QED
    BY <2>1, <2>2
<1>3. TypeOK'
  <2>1. chain' \in Chains
    BY <1>2 DEF TypeOK, Rebuilt, Chains
  <2>2. /\ DecisionsIn(stored) \subseteq Decisions
        /\ EventIdsIn(stored) \subseteq EventIds
    BY <1>0 DEF DecisionsIn, EventIdsIn, Events, Bodies
  <2> QED
    BY <2>1, <2>2 DEF TypeOK
<1>4. /\ StoredChainLinked' /\ PostedOnce' /\ StoredBalanced'
      /\ OnlyAdmitted' /\ Faithful'
  BY DEF StoredChainLinked, PostedOnce, StoredBalanced, OnlyAdmitted, Faithful
<1>5. HeldIsStored' /\ IndexExact' /\ HeldBalanced'
  BY <1>1 DEF HeldIsStored, IndexExact, HeldBalanced, Rebuilt
<1> QED
  BY <1>3, <1>4, <1>5
-----------------------------------------------------------------------------
\* What the durable log keeps when the store accepts one more event.
StoredInv == /\ stored \in Seq(Events)
             /\ StoredChainLinked
             /\ PostedOnce
             /\ StoredBalanced
             /\ OnlyAdmitted
             /\ Faithful

\* A committed event extends the durable chain: it links to the stored root,
\* is new, balanced and admitted.
LEMMA CommitStoredInv ==
  ASSUME IInv, NEW d \in Decisions, NEW e \in EventIds,
         MayCommit(d, e), Commit(d, e)
  PROVE  /\ StoredInv'
         /\ DecisionsIn(stored)' = DecisionsIn(stored) \cup {d}
         /\ EventIdsIn(stored)' = EventIdsIn(stored) \cup {e}
         /\ RootOf(stored)' = SealedEvent(chain, d, e).hash
<1> DEFINE ev == SealedEvent(chain, d, e)
           n == Len(stored)
<1>1. /\ chain \in Chains /\ chain.events = stored /\ chain.root = RootOf(stored)
      /\ stored \in Seq(Events) /\ n \in Nat
  BY DEF IInv, TypeOK, HeldIsStored, MayCommit
<1>2. ev \in Events
  BY <1>1, SealedEventType
<1>3. ev.body = Body(n, d) /\ ev.evt = e /\ ev.prev = RootOf(stored)
      /\ ev.hash = Hash(ev.body, ev.prev)
  BY <1>1 DEF SealedEvent
<1>4. ev.body.decision = d /\ ev.body.seq = n
      /\ ev.body.dr = Attr[d].dr /\ ev.body.cr = Attr[d].cr
      /\ ev.body.kind = EventKind(Attr[d].type)
  BY <1>3 DEF Body
<1> HIDE DEF ev
<1>5. /\ stored' = Append(stored, ev)
      /\ DOMAIN stored' = DOMAIN stored \cup {n + 1}
      /\ DOMAIN stored = 1..n
      /\ stored'[n + 1] = ev
      /\ \A i \in DOMAIN stored : stored'[i] = stored[i]
  BY <1>1, <1>2 DEF Commit, ev
<1>6. stored' \in Seq(Events)
  BY <1>1, <1>2, <1>5
<1>7. d \notin DecisionsIn(stored) /\ e \notin EventIdsIn(stored)
  BY DEF IInv, IndexExact, MayCommit, Fresh
<1>8. StoredChainLinked'
  <2>1. \A i \in DOMAIN stored :
          /\ stored'[i].body.seq = i - 1
          /\ stored'[i].prev = IF i = 1 THEN Genesis ELSE stored'[i - 1].hash
          /\ stored'[i].hash = Hash(stored'[i].body, stored'[i].prev)
    BY <1>1, <1>5 DEF IInv, StoredChainLinked, Linked
  <2>2. /\ stored'[n + 1].body.seq = (n + 1) - 1
        /\ stored'[n + 1].prev = IF n + 1 = 1 THEN Genesis ELSE stored'[n].hash
        /\ stored'[n + 1].hash = Hash(stored'[n + 1].body, stored'[n + 1].prev)
    <3>1. RootOf(stored) = IF n = 0 THEN Genesis ELSE stored[n].hash
      BY <1>1 DEF RootOf
    <3>2. n # 0 => n \in DOMAIN stored
      BY <1>1, <1>5
    <3>3. (n + 1 = 1 <=> n = 0) /\ (n + 1) - 1 = n
      BY <1>1
    <3>4. n # 0 => stored'[n].hash = stored[n].hash
      BY <1>5, <3>2
    <3>5. ev.prev = IF n + 1 = 1 THEN Genesis ELSE stored'[n].hash
      BY <1>3, <3>1, <3>3, <3>4
    <3> QED
      BY <1>3, <1>4, <1>5, <3>3, <3>5
  <2>3. (n + 1) - 1 = n
    BY <1>1
  <2> QED
    BY <1>5, <2>1, <2>2, <2>3 DEF StoredChainLinked, Linked
<1>9. PostedOnce'
  BY <1>1, <1>3, <1>4, <1>5, <1>7
  DEF IInv, PostedOnce, DecisionsIn, EventIdsIn
<1>10. StoredBalanced'
  <2>1. Attr[d].dr = Attr[d].cr
    <3>1. Attr[d] \in Attributes
      BY LedgerAssumption
    <3>2. chain.dr = chain.cr /\ chain.dr \in Nat
      BY <1>1, LedgerAssumption DEF IInv, HeldBalanced, Chains
    <3> QED
      BY <3>1, <3>2 DEF MayCommit, TotalsHold, Attributes
  <2> QED
    BY <1>4, <1>5, <2>1 DEF IInv, StoredBalanced
<1>11. OnlyAdmitted'
  <2>1. /\ ~Attr[d].failed
        /\ Attr[d].certified <=> EventKind(Attr[d].type) = "ABSTAIN"
    <3>1. Attr[d].type \in DecisionStates /\ Attr[d].certified \in BOOLEAN
      BY LedgerAssumption DEF Attributes
    <3>2. EventKind(Attr[d].type) = "ABSTAIN" <=> Attr[d].type = "ABSTAINED"
      BY <3>1 DEF DecisionStates, EventKind
    <3> QED
      BY <3>1, <3>2 DEF MayCommit, Admitted
  <2> QED
    BY <1>4, <1>5, <2>1 DEF IInv, OnlyAdmitted
<1>12. Faithful'
  BY <1>1, <1>3, <1>4, <1>5 DEF IInv, Faithful
<1>13. DecisionsIn(stored)' = DecisionsIn(stored) \cup {d}
  BY <1>4, <1>5 DEF DecisionsIn
<1>14. EventIdsIn(stored)' = EventIdsIn(stored) \cup {e}
  BY <1>3, <1>5 DEF EventIdsIn
<1>15. RootOf(stored)' = ev.hash
  BY <1>1, <1>5, <1>6 DEF RootOf
<1> QED
  BY <1>6, <1>8, <1>9, <1>10, <1>11, <1>12, <1>13, <1>14, <1>15 DEF StoredInv, ev

\* Every step of the write path preserves the inductive invariant.
LEMMA NextIInv == IInv /\ [Next]_vars => IInv'
<1> SUFFICES ASSUME IInv, [Next]_vars PROVE IInv'
  OBVIOUS
<1>0. EmptyChain \in Chains /\ EmptyChain.dr = EmptyChain.cr
  BY LedgerAssumption DEF EmptyChain, Chains, Digests, Genesis
<1>1. CASE OpenWriteState
  BY <1>1, OpenIInv
<1>2. CASE Crash
  BY <1>0, <1>2 DEF IInv, TypeOK, StoredChainLinked, HeldIsStored, PostedOnce,
     StoredBalanced, OnlyAdmitted, IndexExact, Faithful, HeldBalanced, Crash, Forget
<1>3. ASSUME NEW d \in Decisions, NEW e \in EventIds, Post(d, e)
      PROVE  IInv'
  <2>1. MayCommit(d, e) /\ Commit(d, e) /\ Advance(d, e)
    BY <1>3 DEF Post
  <2>2. /\ StoredInv'
        /\ DecisionsIn(stored)' = DecisionsIn(stored) \cup {d}
        /\ EventIdsIn(stored)' = EventIdsIn(stored) \cup {e}
        /\ RootOf(stored)' = SealedEvent(chain, d, e).hash
    BY <2>1, CommitStoredInv
  <2>3. /\ chain \in Chains /\ chain.events = stored
        /\ TotalsHold(chain, d) /\ up
        /\ postedDecisions = DecisionsIn(stored) /\ postedEvents = EventIdsIn(stored)
    BY <2>1 DEF IInv, TypeOK, HeldIsStored, MayCommit, IndexExact
  <2>4. /\ chain' \in Chains /\ chain'.dr = chain'.cr
        /\ chain'.events = Append(chain.events, SealedEvent(chain, d, e))
        /\ chain'.root = SealedEvent(chain, d, e).hash
    BY <2>1, <2>3, AppendEventType DEF Advance
  <2>5. TypeOK'
    BY <2>1, <2>2, <2>4 DEF IInv, TypeOK, StoredInv, Advance
  <2>6. HeldIsStored' /\ IndexExact' /\ HeldBalanced'
    BY <2>1, <2>2, <2>3, <2>4
    DEF HeldIsStored, IndexExact, HeldBalanced, Advance, Commit
  <2> QED
    BY <2>2, <2>5, <2>6 DEF IInv, StoredInv
<1>4. ASSUME NEW d \in Decisions, NEW e \in EventIds, PostThenCrash(d, e)
      PROVE  IInv'
  <2>1. MayCommit(d, e) /\ Commit(d, e) /\ Forget
    BY <1>4 DEF PostThenCrash
  <2>2. StoredInv'
    BY <2>1, CommitStoredInv
  <2>3. TypeOK'
    BY <1>0, <2>1, <2>2 DEF TypeOK, StoredInv, Forget
  <2>4. HeldIsStored' /\ IndexExact' /\ HeldBalanced'
    BY <1>0, <2>1 DEF HeldIsStored, IndexExact, HeldBalanced, Forget
  <2> QED
    BY <2>2, <2>3, <2>4 DEF IInv, StoredInv
<1>5. ASSUME UNCHANGED <<stored, held>>
      PROVE  IInv'
  BY <1>5 DEF IInv, TypeOK, StoredChainLinked, HeldIsStored, PostedOnce,
     StoredBalanced, OnlyAdmitted, IndexExact, Faithful, HeldBalanced, held
<1>6. ASSUME NEW d \in Decisions, PostRejected(d)
      PROVE  IInv'
  BY <1>5, <1>6 DEF PostRejected
<1>7. ASSUME NEW d \in Decisions, NEW e \in EventIds,
             PostRefusedByStore(d, e) \/ PostDuplicate(d, e) \/ PostUnbalanced(d, e)
      PROVE  IInv'
  BY <1>5, <1>7 DEF PostRefusedByStore, PostDuplicate, PostUnbalanced
<1>8. CASE UNCHANGED vars
  BY <1>5, <1>8 DEF vars, held
<1> QED
  BY <1>1, <1>2, <1>3, <1>4, <1>6, <1>7, <1>8 DEF Next

\* The inductive invariant holds throughout.
THEOREM Invariance == Spec => []IInv
  BY InitIInv, NextIInv, PTL DEF Spec

\* Type correctness of the write path (hash-chain.ts:268-295).
THEOREM TypeCorrect == Spec => []TypeOK
  BY Invariance, PTL DEF IInv

\* Over any sequence of posts, refused commits, crashes and resumes, what is
\* durable is one gapless hash chain, equal to the held one.
THEOREM ChainIntact == Spec => [](StoredChainLinked /\ HeldIsStored)
  BY Invariance, PTL DEF IInv

\* One decision, one event; one evt_id, one event.
THEOREM AtMostOnce == Spec => []PostedOnce
  BY Invariance, PTL DEF IInv

\* Invariant I1 and gate G5 hold of every durable event.
THEOREM DurableSound == Spec => [](StoredBalanced /\ OnlyAdmitted)
  BY Invariance, PTL DEF IInv

-----------------------------------------------------------------------------
\* A step of the write path either leaves the durable log alone or appends to
\* it the event of an admitted decision it does not hold yet.
LEMMA StoredStep ==
  ASSUME IInv, [Next]_vars
  PROVE  \/ stored' = stored
         \/ \E d \in Decisions, e \in EventIds : MayCommit(d, e) /\ Commit(d, e)
BY DEF Next, vars, held, OpenWriteState, Crash, Post, PostThenCrash,
   PostRejected, PostRefusedByStore, PostDuplicate, PostUnbalanced

\* No step rewrites or drops a durable event (ARCHITECTURE.md section 8).
THEOREM NeverRewritten == Spec => AppendOnly
<1>1. ASSUME IInv, [Next]_vars
      PROVE  /\ Len(stored') \in {Len(stored), Len(stored) + 1}
             /\ \A i \in DOMAIN stored : stored'[i] = stored[i]
  <2>1. stored \in Seq(Events)
    BY <1>1 DEF IInv, TypeOK
  <2>2. CASE stored' = stored
    BY <2>2
  <2>3. ASSUME NEW d \in Decisions, NEW e \in EventIds, MayCommit(d, e), Commit(d, e)
        PROVE  /\ Len(stored') = Len(stored) + 1
               /\ \A i \in DOMAIN stored : stored'[i] = stored[i]
    BY <2>1, <2>3 DEF Commit
  <2> QED
    BY <1>1, <2>2, <2>3, StoredStep
<1> QED
  BY <1>1, Invariance, PTL DEF Spec, AppendOnly

\* The write path implements the abstract at-most-once log: every step appends
\* one admissible decision not yet logged, or leaves the log alone.
THEOREM Implements == Spec => RefinesDecisionLog
<1> DEFINE log == [i \in DOMAIN stored |-> stored[i].body.decision]
<1>1. Init => Booked!Init
  BY DEF Init, Booked!Init
<1>2. ASSUME IInv, [Next]_vars
      PROVE  [Booked!Next]_log
  <2>1. stored \in Seq(Events)
    BY <1>2 DEF IInv, TypeOK
  <2>2. CASE stored' = stored
    BY <2>2
  <2>3. ASSUME NEW d \in Decisions, NEW e \in EventIds, MayCommit(d, e), Commit(d, e)
        PROVE  Booked!Next
    <3>1. d \notin Booked!Logged
      BY <1>2, <2>3 DEF IInv, IndexExact, MayCommit, Fresh, DecisionsIn, Booked!Logged
    <3>2. SealedEvent(chain, d, e).body.decision = d
      BY DEF SealedEvent, Body
    <3>3. log' = Append(log, d)
      BY <2>1, <2>3, <3>2 DEF Commit
    <3>4. Admitted(d)
      BY <2>3 DEF MayCommit
    <3> QED
      BY <3>1, <3>3, <3>4 DEF Booked!Next, Booked!Book
  <2> QED
    BY <1>2, <2>2, <2>3, StoredStep
<1> QED
  BY <1>1, <1>2, Invariance, PTL DEF Spec, RefinesDecisionLog, Booked!Spec

-----------------------------------------------------------------------------
\* No decision the path would reject is durable: its event carries the kind
\* of its own type, and the durable ones are admitted.
LEMMA DurableIsAdmitted ==
  ASSUME IInv, NEW d \in Decisions, d \in DecisionsIn(stored)
  PROVE  Admitted(d)
<1>1. PICK i \in DOMAIN stored : stored[i].body.decision = d
  BY DEF DecisionsIn
<1>2. /\ ~Attr[d].failed
      /\ Attr[d].certified <=> stored[i].body.kind = "ABSTAIN"
  BY <1>1 DEF IInv, OnlyAdmitted
<1>3. stored[i].body.kind = EventKind(Attr[d].type)
  <2>1. stored[i].body = Body(i - 1, d)
    BY <1>1 DEF IInv, Faithful
  <2> QED
    BY <2>1 DEF Body
<1>4. Attr[d].type \in DecisionStates /\ Attr[d].certified \in BOOLEAN
  BY LedgerAssumption DEF Attributes
<1>5. EventKind(Attr[d].type) = "ABSTAIN" <=> Attr[d].type = "ABSTAINED"
  BY <1>4 DEF DecisionStates, EventKind
<1> QED
  BY <1>2, <1>3, <1>4, <1>5 DEF Admitted

\* Whatever a call answers agrees with what the store holds once it answered.
LEMMA RepliesStep == IInv /\ RepliesTellTheTruth /\ [Next]_vars => RepliesTellTheTruth'
<1> SUFFICES ASSUME IInv, RepliesTellTheTruth, [Next]_vars
             PROVE  RepliesTellTheTruth'
  OBVIOUS
<1> USE DEF RepliesTellTheTruth
<1>1. ASSUME reply'.outcome \in {"opened", "crashed"}
      PROVE  RepliesTellTheTruth'
  BY <1>1
<1>2. CASE OpenWriteState \/ Crash
  BY <1>1, <1>2 DEF OpenWriteState, Crash
<1>3. ASSUME NEW d \in Decisions, NEW e \in EventIds, Post(d, e)
      PROVE  RepliesTellTheTruth'
  <2>1. DecisionsIn(stored)' = DecisionsIn(stored) \cup {d}
    BY <1>3, CommitStoredInv DEF Post
  <2>2. reply' = [decision |-> d, outcome |-> "posted"]
    BY <1>3 DEF Post, Answer
  <2> QED
    BY <2>1, <2>2
<1>4. ASSUME NEW d \in Decisions, NEW e \in EventIds, PostThenCrash(d, e)
      PROVE  RepliesTellTheTruth'
  BY <1>1, <1>4 DEF PostThenCrash
<1>5. ASSUME NEW d \in Decisions, PostRejected(d)
      PROVE  RepliesTellTheTruth'
  <2>1. d \notin DecisionsIn(stored)
    BY <1>5, DurableIsAdmitted DEF PostRejected
  <2>2. reply' = [decision |-> d, outcome |-> "rejected"] /\ stored' = stored
    BY <1>5 DEF PostRejected, Answer
  <2> QED
    BY <2>1, <2>2 DEF DecisionsIn
<1>6. ASSUME NEW d \in Decisions, NEW e \in EventIds,
             up, Fresh(d, e), stored' = stored,
             \E o \in {"store_threw", "trial_balance"} : Answer(d, o)
      PROVE  RepliesTellTheTruth'
  <2>1. d \notin DecisionsIn(stored)
    BY <1>6 DEF Fresh, IInv, IndexExact
  <2> QED
    BY <1>6, <2>1 DEF Answer, DecisionsIn
<1>7. ASSUME NEW d \in Decisions, NEW e \in EventIds,
             PostRefusedByStore(d, e) \/ PostUnbalanced(d, e)
      PROVE  RepliesTellTheTruth'
  BY <1>6, <1>7 DEF PostRefusedByStore, PostUnbalanced, MayCommit
<1>8. ASSUME NEW d \in Decisions, NEW e \in EventIds, PostDuplicate(d, e)
      PROVE  RepliesTellTheTruth'
  <2>1. postedDecisions = DecisionsIn(stored) /\ stored' = stored
    BY <1>8 DEF PostDuplicate, IInv, IndexExact
  <2>2. \/ d \in postedDecisions
           /\ reply' = [decision |-> d, outcome |-> "duplicate_decision"]
        \/ d \notin postedDecisions
           /\ reply' = [decision |-> d, outcome |-> "duplicate_event"]
    BY <1>8 DEF PostDuplicate, Answer
  <2> QED
    BY <2>1, <2>2 DEF DecisionsIn
<1>9. CASE UNCHANGED vars
  BY <1>9 DEF vars, DecisionsIn
<1> QED
  BY <1>2, <1>3, <1>4, <1>5, <1>7, <1>8, <1>9 DEF Next

\* The caller may believe the answer it got: "posted" and the duplicate
\* refusal mean the decision is durable, every other refusal that it is not.
THEOREM AnswersAreTrue == Spec => []RepliesTellTheTruth
<1>1. Init => RepliesTellTheTruth
  BY DEF Init, RepliesTellTheTruth
<1> QED
  BY <1>1, RepliesStep, Invariance, PTL DEF Spec
=============================================================================
