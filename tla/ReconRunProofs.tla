--------------------------- MODULE ReconRunProofs ---------------------------
(***************************************************************************)
(* For every observation set, every search bound and every answer of S4.   *)
(*                                                                         *)
(* AllocatedOnce is not inductive: I2 looks at the identifiers recorded as *)
(* allocated, so the record must hold the members of every decision posted *)
(* (IInv).  How a line ends, that a cut search abstains and that a line's  *)
(* abstention has an item need the passes told apart: RunInv adds who put  *)
(* on record what is there, which certificate was issued on which target,  *)
(* and that nothing allocates once the first member is posted.             *)
(*                                                                         *)
(* That the books follow the statement is a fact about three sums: of the  *)
(* legs of a posting, of the lines of a row's postings, of the rows of a   *)
(* settlement.  BookInv adds that no row is posted twice, that S5 lets no  *)
(* later decision take a member over, and which rules a posted row fired.  *)
(* What a set sums to is proved without induction, from a smallest set     *)
(* that would be a counterexample.                                         *)
(*                                                                         *)
(* That the queue is what the books leave open, and that no run ends in a  *)
(* close its gates refuse, sum the same lines in two orders: by the posting*)
(* they are of and by the identifier they are keyed on (SumInParts).       *)
(* ItemInv adds what every posting fired, and that a posting is refused at *)
(* a seam only.                                                            *)
(*                                                                         *)
(* That B0 is a floor compares two runs of one input.  PassInv says of     *)
(* ASSAY's what the anchors alone decide (Laid); what it allocates beyond  *)
(* them comes after.  FloorInv says of B0's that each decision so far is   *)
(* one of ASSAY's, though B0 takes the settlements in one pass with others.*)
(*                                                                         *)
(* That the metrics read the books as the key does compares sums over the  *)
(* decisions, the lines and the identifiers of one run.  QuietInv says that*)
(* what is reconciled and is no line books nothing; then an account's      *)
(* balance is the sum of its identifiers' (AgentByEntity), and a true line *)
(* books what the key does (BookedAsTrue).                                 *)
(*                                                                         *)
(* That every paisa is counted once sums the rows, the decisions and the   *)
(* queue.  A state read from the map is that of the one decision there is  *)
(* (StateIs); ItemsFit says which decisions of a line have an item.        *)
(***************************************************************************)
EXTENDS Scoring, Baseline, TLAPS, FiniteSetTheorems, WellFoundedInduction

\* The decisions posted are a sequence; nothing more of them is needed here.
PostedIsSeq == posted \in Seq({posted[n] : n \in DOMAIN posted})

\* What a posted decision allocated is on record.
Recorded == \A n \in DOMAIN posted : posted[n].members \subseteq DOMAIN targetOf

IInv == PostedIsSeq /\ Recorded /\ AllocatedOnce

-----------------------------------------------------------------------------
\* A fallback decision allocates nothing.
LEMMA FallbackAllocatesNothing ==
  ASSUME NEW class PROVE exceptionFor(class).members = {}
BY DEF exceptionFor, Nothing

\* What is let through was not allocated before and names no identifier twice.
LEMMA AcceptedIsFresh ==
  ASSUME NEW c, agent # "A1-NOVALIDATE"
  PROVE  /\ \A m \in Accepted(c).members : obs[m].entity \notin Allocated
         /\ \A m, l \in Accepted(c).members : obs[m].entity = obs[l].entity => m = l
<1>1. CASE Valid(c)
  BY <1>1 DEF Accepted, Valid, I2
<1>2. CASE ~Valid(c)
  BY <1>2, FallbackAllocatesNothing DEF Accepted
<1> QED BY <1>1, <1>2

\* A posted decision keeps the invariant, whatever was proposed.
LEMMA PostKeeps ==
  ASSUME IInv, NEW i, NEW c, NEW certificates, Post(i, c, certificates)
  PROVE  IInv'
<1>1. CASE Raises(i, c) \/ Raises(i, Accepted(c))
  BY <1>1 DEF Post, Abort, IInv, PostedIsSeq, Recorded, AllocatedOnce
<1>2. CASE ~(Raises(i, c) \/ Raises(i, Accepted(c)))
  <2> DEFINE r == Record(i, Accepted(c))
             old == {posted[n] : n \in DOMAIN posted}
  <2>1. /\ posted' = Append(posted, r)
        /\ targetOf' = [m \in Committed(c) \cup DOMAIN targetOf |->
                           IF m \in Committed(c) THEN i ELSE targetOf[m]]
        /\ obs' = obs /\ agent' = agent
    BY <1>2 DEF Post
  <2>2. r.members = Accepted(c).members
    BY DEF Record
  <2>3. DOMAIN targetOf' = Accepted(c).members \cup DOMAIN targetOf
    BY <2>1 DEF Committed
  <2> HIDE DEF r
  <2>4. /\ posted \in Seq(old \cup {r}) /\ Len(posted) \in Nat
        /\ DOMAIN posted = 1..Len(posted)
    BY DEF IInv, PostedIsSeq
  <2>5. /\ posted' \in Seq(old \cup {r})
        /\ DOMAIN posted' = 1..(Len(posted) + 1)
        /\ \A n \in DOMAIN posted : posted'[n] = posted[n]
        /\ posted'[Len(posted) + 1] = r
    BY <2>1, <2>4
  <2>6. PostedIsSeq'
    <3>1. old \cup {r} = {posted'[n] : n \in DOMAIN posted'}
      BY <2>4, <2>5
    <3> QED BY <2>5, <3>1 DEF PostedIsSeq
  <2>7. Recorded'
    BY <2>2, <2>3, <2>4, <2>5 DEF IInv, Recorded
  <2>8. ASSUME agent # "A1-NOVALIDATE",
               NEW n \in DOMAIN posted', NEW k \in DOMAIN posted',
               NEW m \in posted'[n].members, NEW l \in posted'[k].members,
               obs[m].entity = obs[l].entity
        PROVE  n = k /\ m = l
    <3>1. /\ \A h \in r.members : obs[h].entity \notin Allocated
          /\ \A h, j \in r.members : obs[h].entity = obs[j].entity => h = j
      BY <2>2, <2>8, AcceptedIsFresh
    <3>2. \A h \in DOMAIN posted : \A j \in posted[h].members : obs[j].entity \in Allocated
      BY DEF IInv, Recorded, Allocated
    <3>3. CASE n \in DOMAIN posted /\ k \in DOMAIN posted
      BY <2>5, <2>8, <3>3 DEF IInv, AllocatedOnce
    <3>4. CASE n = Len(posted) + 1 /\ k = Len(posted) + 1
      BY <2>5, <2>8, <3>1, <3>4
    <3>5. CASE n = Len(posted) + 1 /\ k \in DOMAIN posted
      BY <2>5, <2>8, <3>1, <3>2, <3>5
    <3>6. CASE n \in DOMAIN posted /\ k = Len(posted) + 1
      BY <2>5, <2>8, <3>1, <3>2, <3>6
    <3> QED BY <2>4, <2>5, <3>3, <3>4, <3>5, <3>6
  <2>9. AllocatedOnce'
    BY <2>1, <2>8 DEF AllocatedOnce
  <2> QED BY <2>6, <2>7, <2>9 DEF IInv
<1> QED BY <1>1, <1>2

\* Every step of a run keeps the invariant.
LEMMA NextIInv == IInv /\ [Next]_vars => IInv'
<1> SUFFICES ASSUME IInv, [Next]_vars PROVE IInv'
  OBVIOUS
<1>1. CASE Solve
  BY <1>1 DEF Solve, IInv, PostedIsSeq, Recorded, AllocatedOnce
<1>2. CASE PostAnchor
  BY <1>2, PostKeeps DEF PostAnchor
<1>3. CASE PostTarget
  BY <1>3, PostKeeps DEF PostTarget
<1>4. CASE PostMember
  BY <1>4, PostKeeps DEF PostMember
<1>5. CASE PostRest
  BY <1>5, PostKeeps DEF PostRest
<1>6. CASE Close
  BY <1>6 DEF Close, IInv, PostedIsSeq, Recorded, AllocatedOnce
<1>7. CASE Ended \/ UNCHANGED vars
  BY <1>7 DEF Ended, vars, IInv, PostedIsSeq, Recorded, AllocatedOnce
<1> QED BY <1>1, <1>2, <1>3, <1>4, <1>5, <1>6, <1>7 DEF Next

\* No identifier is allocated by two decisions of a run that consults S5, though
\* every target is solved before any of them commits.
THEOREM NoneAllocatedTwice == Spec => []AllocatedOnce
<1>1. Init => IInv
  BY DEF Init, IInv, PostedIsSeq, Recorded, AllocatedOnce
<1>2. IInv => AllocatedOnce
  BY DEF IInv
<1> QED BY <1>1, <1>2, NextIInv, PTL DEF Spec

-----------------------------------------------------------------------------
(* What a posting leaves behind                                            *)

\* The run's input and agent are the ones it started with.
InputKept == obs \in Seq(Observations) /\ agent \in {"ASSAY", "A1-NOVALIDATE", "A2-NOABSTAIN"}

\* Nothing is posted but observations of the input.
PostedAreObserved == Settled \subseteq DOMAIN obs

\* Every target solved so far has one of the answers S4 and the probe loop give.
OutcomesSound == \A t \in DOMAIN outcomes : outcomes[t] \in SolveOutcomes(t)

\* What is on record as allocated was allocated by a decision that reconciles.
RecordedBy ==
  \A m \in DOMAIN targetOf : \E n \in DecidedAs("RECONCILED") : m \in posted[n].members

\* Once a member is posted no anchor and no target is left to allocate anything.
MembersLast ==
  (\E n \in DOMAIN posted : posted[n].obs \in MemberEligible) => Anchors \cup Undecided = {}

\* A posted line is reconciled exactly if it is on record as allocated.
LinesFollowRecord ==
  \A n \in DOMAIN posted : Kind(posted[n].obs) = "recon_line" =>
    (posted[n].state = "RECONCILED" <=> posted[n].obs \in DOMAIN targetOf)

\* A target whose search a bound cut short is posted as abstained, with an item.
CutsAbstain ==
  agent = "ASSAY" =>
    \A n \in DOMAIN posted : LET t == posted[n].obs IN
      t \in Targets /\ (Truncated(t) \/ ExceedsKMax(t)) =>
        posted[n].state = "ABSTAINED" /\ posted[n].key # 0

\* Decision n is the abstained target a certificate was issued on, and has an item.
Certifies(n, certificate, c) ==
  /\ n \in DecidedAs("ABSTAINED")
  /\ posted[n].key # 0
  /\ posted[n].certificate = certificate
  /\ ComponentOf(posted[n].obs) = c

\* Every certificate on record is an abstained target's of that component.
CertificatesHeld ==
  \A c \in DOMAIN certificateOf : \E n \in DOMAIN posted : Certifies(n, certificateOf[c], c)

\* A line posted as abstained carries the certificate of its component's target.
LinesCertified ==
  \A n \in DecidedAs("ABSTAINED") : Kind(posted[n].obs) = "recon_line" =>
    \E k \in DOMAIN posted :
      /\ Certifies(k, posted[n].certificate, ComponentOf(posted[k].obs))
      /\ posted[n].obs \in MembersOfComponent(ComponentOf(posted[k].obs))

RunInv ==
  /\ PostedIsSeq
  /\ Recorded
  /\ InputKept
  /\ PostedAreObserved
  /\ OutcomesSound
  /\ RecordedBy
  /\ MembersLast
  /\ LinesFollowRecord
  /\ CutsAbstain
  /\ CertificatesHeld
  /\ LinesCertified

-----------------------------------------------------------------------------
(* What is known of the observations is the same as long as they are       *)

LEMMA KindsKept ==
  ASSUME obs' = obs
  PROVE  /\ Settlements' = Settlements /\ BankLines' = BankLines
         /\ MemberEligible' = MemberEligible /\ References' = References
         /\ \A i : Kind(i)' = Kind(i)
BY DEF Settlements, BankLines, MemberEligible, References, OfKind, Kind

LEMMA AnchorsKept ==
  ASSUME obs' = obs
  PROVE  /\ \A s : BankLineOf(s)' = BankLineOf(s)
         /\ \A s : AnchorOf(s)' = AnchorOf(s)
         /\ \A s : AnchoredMembers(s)' = AnchoredMembers(s)
         /\ \A M : Net(M)' = Net(M)
         /\ Pool' = Pool
<1>1. \A s : BankLineOf(s)' = BankLineOf(s)
  BY DEF BankLineOf, Collides, CreditsFor, SameKey, Earlier, Settlements, BankLines, OfKind, Kind
<1>2. \A s : AnchorOf(s)' = AnchorOf(s)
  BY DEF AnchorOf, Settlements, OfKind, Kind
<1>3. \A s : AnchoredMembers(s)' = AnchoredMembers(s)
  BY KindsKept, <1>2 DEF AnchoredMembers
<1>4. \A M : Net(M)' = Net(M)
  BY DEF Net, Credit, Debit
<1>5. Pool' = Pool
  BY KindsKept, <1>2 DEF Pool
<1> QED BY <1>1, <1>2, <1>3, <1>4, <1>5

LEMMA TargetsKept ==
  ASSUME obs' = obs
  PROVE  Targets' = Targets /\ AnchorResolved' = AnchorResolved
BY KindsKept, AnchorsKept DEF Targets, AnchorResolved

LEMMA AdmissibleKept ==
  ASSUME obs' = obs
  PROVE  \A M, t : Admissible(M, t)' = Admissible(M, t)
<1>1. ASSUME NEW M PROVE c2Refund(M)' = c2Refund(M)
  <2>1. \A payment : parentOrderId(payment)' = parentOrderId(payment)
    BY DEF parentOrderId, MemberEligible, OfKind, Kind
  <2> QED BY <2>1 DEF c2Refund
<1>2. ASSUME NEW M, NEW t PROVE c6(M, t)' = c6(M, t)
  BY AnchorsKept DEF c6
<1>3. ASSUME NEW M, NEW t, NEW date PROVE evaluate(M, t, date)' = evaluate(M, t, date)
  <2>1. c1(M)' = c1(M) /\ c8(M)' = c8(M)
    BY DEF c1, c8
  <2>2. c3Ordering(M)' = c3Ordering(M) /\ c3BankArrival(M, date)' = c3BankArrival(M, date)
    BY DEF c3Ordering, c3BankArrival
  <2>3. c4(M)' = c4(M) /\ c5(M)' = c5(M)
    BY DEF c4, c5
  <2>4. \A clause : ClauseHolds(clause, M, t, date)' = ClauseHolds(clause, M, t, date)
    BY <1>1, <1>2, <2>1, <2>2, <2>3 DEF ClauseHolds
  <2> QED BY <2>4 DEF evaluate
<1>4. ASSUME NEW M, NEW t PROVE coSettlementCoherent(M, t)' = coSettlementCoherent(M, t)
  BY DEF coSettlementCoherent, Kind
<1>5. ASSUME NEW t PROVE EngineDate(t)' = EngineDate(t)
  BY AnchorsKept DEF EngineDate
<1> QED BY <1>2, <1>3, <1>4, <1>5 DEF Admissible

LEMMA SearchKept ==
  ASSUME obs' = obs
  PROVE  /\ \A t : Generated(t)' = Generated(t)
         /\ \A t : Truncated(t)' = Truncated(t)
<1>1. \A t, i : Class(t, i)' = Class(t, i)
  BY AnchorsKept DEF Class
<1>2. \A t : Instants(t)' = Instants(t)
  BY AnchorsKept DEF Instants
<1>3. \A t, i : Searched(t, i)' = Searched(t, i)
  BY <1>1 DEF Searched
<1>4. \A t, i : Reached(t, i)' = Reached(t, i)
  BY <1>1, <1>2, <1>3 DEF Reached
<1>5. \A t, i, K : Rank(t, i, K)' = Rank(t, i, K)
  BY <1>1, <1>2, <1>3 DEF Rank
<1>6. ASSUME NEW t PROVE Generated(t)' = Generated(t)
  <2> DEFINE of(i) == {K \in (SUBSET Class(t, i)) \ {{}} :
                         /\ Searched(t, i) /\ Reached(t, i)
                         /\ Rank(t, i, K) <= CMax
                         /\ Admissible(AnchoredMembers(t) \cup K, t)}
             all == UNION {of(i) : i \in Instants(t)}
  <2>1. \A K : Admissible(AnchoredMembers(t) \cup K, t)'
                 = Admissible(AnchoredMembers(t) \cup K, t)
    BY AnchorsKept, AdmissibleKept
  <2>2. \A i : of(i)' = of(i)
    BY <1>1, <1>3, <1>4, <1>5, <2>1
  <2>3. (Kind(t) = "bank_line")' <=> Kind(t) = "bank_line"
    BY KindsKept
  <2>4. AnchoredMembers(t)' = AnchoredMembers(t)
    BY AnchorsKept
  <2>5. Generated(t) = IF Kind(t) = "bank_line" THEN {}
                       ELSE {AnchoredMembers(t) \cup K : K \in all}
    BY DEF Generated
  <2>6. Generated(t)' = (IF Kind(t) = "bank_line" THEN {}
                         ELSE {AnchoredMembers(t) \cup K : K \in all})'
    BY DEF Generated
  <2>7. {of(i) : i \in Instants(t)}' = {of(i) : i \in Instants(t)}
    <3> HIDE DEF of
    <3> QED BY <1>2, <2>2
  <2>8. all' = all
    <3> HIDE DEF of
    <3> QED BY <2>7
  <2> HIDE DEF all
  <2>9. {AnchoredMembers(t) \cup K : K \in all}' = {AnchoredMembers(t) \cup K : K \in all}
    BY <2>4, <2>8
  <2> QED BY <2>3, <2>5, <2>6, <2>9 DEF all
<1>7. \A t : Truncated(t)' = Truncated(t)
  BY <1>1, <1>2, <1>3, KindsKept DEF Truncated
<1> QED BY <1>6, <1>7

LEMMA ComponentsKept ==
  ASSUME obs' = obs
  PROVE  /\ \A t : ComponentOf(t)' = ComponentOf(t)
         /\ \A c : MembersOfComponent(c)' = MembersOfComponent(c)
         /\ \A t : ExceedsKMax(t)' = ExceedsKMax(t)
<1>1. \A t : Reaches(t)' = Reaches(t)
  BY SearchKept, AnchorsKept DEF Reaches
<1>2. \A t : ComponentOf(t)' = ComponentOf(t)
  BY <1>1, TargetsKept DEF ComponentOf
<1>3. \A c : MembersOfComponent(c)' = MembersOfComponent(c)
  BY <1>1 DEF MembersOfComponent
<1>4. \A t : ExceedsKMax(t)' = ExceedsKMax(t)
  BY <1>2, <1>3 DEF ExceedsKMax
<1> QED BY <1>2, <1>3, <1>4

LEMMA SolvesKept ==
  ASSUME obs' = obs
  PROVE  \A t : SolveOutcomes(t)' = SolveOutcomes(t)
<1>1. \A t : HasEvidence(t)' = HasEvidence(t)
  BY AnchorsKept, KindsKept DEF HasEvidence
<1> QED BY <1>1, SearchKept, ComponentsKept DEF SolveOutcomes

-----------------------------------------------------------------------------
(* What is decided of an observation                                       *)

\* A non-empty set of places has a first one.
LEMMA FirstIsIn ==
  ASSUME NEW S, S \subseteq Nat, S # {}
  PROVE  Min(S) \in S /\ \A x \in S : Min(S) <= x
<1> DEFINE before == {p \in Nat \X Nat : p[1] < p[2]}
<1>1. IsWellFoundedOn(before, Nat)
  BY NatLessThanWellFounded DEF OpToRel
<1> HIDE DEF before
<1>2. PICK x \in S : \A y \in S : ~ (<<y, x>> \in before)
  BY <1>1, WFMin, Zenon
<1>3. ASSUME NEW y \in S PROVE x <= y
  <2>1. x \in Nat /\ y \in Nat /\ <<y, x>> \notin before
    BY <1>2
  <2> QED BY <2>1 DEF before
<1> QED BY <1>3 DEF Min

\* S5 lets through what names no member, amount or bank line, as long as it
\* carries a certificate exactly if it abstains.
LEMMA PlainIsValid ==
  ASSUME NEW c, c.members = {}, c.amount = NoAmount, c.tied_to = 0,
         (c.state = "ABSTAINED") = (c.certificate # NoCertificate)
  PROVE  Valid(c)
BY DEF Valid, I2, I3, I4, I5, I7, I8, c5, c3Ordering

\* An abstention on a certificate reaches the chain as it is proposed.
LEMMA AbstentionAccepted ==
  ASSUME NEW role, NEW certificate, certificate # NoCertificate
  PROVE  /\ Accepted(Abstained(role, certificate)) = Abstained(role, certificate)
         /\ Abstained(role, certificate).state = "ABSTAINED"
         /\ Abstained(role, certificate).role = role
         /\ Abstained(role, certificate).certificate = certificate
         /\ Abstained(role, certificate).members = {}
<1> DEFINE c == Abstained(role, certificate)
<1>1. /\ c.state = "ABSTAINED" /\ c.role = role /\ c.certificate = certificate
      /\ c.members = {} /\ c.amount = NoAmount /\ c.tied_to = 0
  BY DEF Abstained, Nothing
<1> HIDE DEF c
<1>2. Valid(c)
  BY <1>1, PlainIsValid
<1> QED BY <1>1, <1>2 DEF Accepted, c

\* What an exception carries, and that no refusal makes of it anything else.
LEMMA ExceptionAccepted ==
  ASSUME NEW class, NEW c, c = exceptionFor(class) \/ ~Valid(c)
  PROVE  /\ Accepted(c).state = "EXCEPTION"
         /\ Accepted(c).members = {}
<1>1. \A k : exceptionFor(k).state = "EXCEPTION" /\ exceptionFor(k).members = {}
  BY DEF exceptionFor, Nothing
<1> QED BY <1>1 DEF Accepted

\* Only a decision that reconciles names members.
LEMMA MembersReconcile ==
  ASSUME NEW c, c.members # {} => c.state = "RECONCILED"
  PROVE  Accepted(c).members # {} => Accepted(c).state = "RECONCILED"
BY FallbackAllocatesNothing DEF Accepted

-----------------------------------------------------------------------------
(* One more decision                                                       *)

\* posted' is posted with r after it.
Appends(r) ==
  /\ Len(posted) \in Nat /\ DOMAIN posted = 1..Len(posted)
  /\ DOMAIN posted' = 1..(Len(posted) + 1)
  /\ \A n \in DOMAIN posted : posted'[n] = posted[n]
  /\ posted'[Len(posted) + 1] = r
  /\ PostedIsSeq'

\* What r, decided of observation i, and the certificates after it must be for the
\* invariant to survive it.
FitsRun(i, r) ==
  /\ i \in DOMAIN obs /\ r.obs = i
  /\ r.members # {} => r.state = "RECONCILED" /\ Anchors \cup Undecided # {}
  /\ i \in MemberEligible => Anchors \cup Undecided = {}
  /\ Kind(i) = "recon_line" => (r.state = "RECONCILED" <=> i \in DOMAIN targetOf)
  /\ agent = "ASSAY" /\ i \in Targets /\ (Truncated(i) \/ ExceedsKMax(i)) =>
       r.state = "ABSTAINED" /\ r.key # 0
  /\ Kind(i) = "recon_line" /\ r.state = "ABSTAINED" =>
       \E c \in DOMAIN certificateOf :
         i \in MembersOfComponent(c) /\ r.certificate = certificateOf[c]
  /\ \A c \in DOMAIN certificateOf' :
       \/ c \in DOMAIN certificateOf /\ certificateOf'[c] = certificateOf[c]
       \/ /\ r.state = "ABSTAINED" /\ r.key # 0
          /\ c = ComponentOf(i) /\ certificateOf'[c] = r.certificate

LEMMA AppendKeeps ==
  ASSUME RunInv, NEW i, NEW r, FitsRun(i, r), Appends(r),
         obs' = obs, agent' = agent, outcomes' = outcomes,
         DOMAIN targetOf' = r.members \cup DOMAIN targetOf
  PROVE  RunInv'
<1> DEFINE last == Len(posted) + 1
<1>0. /\ last \in DOMAIN posted' /\ posted'[last] = r
      /\ DOMAIN posted' = DOMAIN posted \cup {last}
      /\ \A n \in DOMAIN posted : posted'[n] = posted[n]
      /\ last \notin DOMAIN posted
  BY DEF Appends
<1> HIDE DEF last
<1>1. PostedIsSeq'
  BY DEF Appends
<1>2. Recorded'
  BY <1>0 DEF RunInv, Recorded
<1>3. InputKept'
  BY DEF RunInv, InputKept
<1>4. Settled' = Settled \cup {i}
  BY <1>0 DEF Settled, FitsRun
<1>5. PostedAreObserved'
  BY <1>4 DEF RunInv, PostedAreObserved, FitsRun
<1>6. OutcomesSound'
  BY SolvesKept DEF RunInv, OutcomesSound
<1>7. /\ \A state : DecidedAs(state) \subseteq DecidedAs(state)'
      /\ \A state : r.state = state => last \in DecidedAs(state)'
      /\ \A state : \A n \in DecidedAs(state)' : n = last \/ n \in DecidedAs(state)
      /\ \A state : last \in DecidedAs(state)' => r.state = state
  BY <1>0 DEF DecidedAs
<1>8. RecordedBy'
  <2> SUFFICES ASSUME NEW m \in DOMAIN targetOf'
               PROVE  \E n \in DecidedAs("RECONCILED")' : m \in posted'[n].members
    BY DEF RecordedBy
  <2>1. CASE m \in r.members
    BY <1>0, <1>7, <2>1 DEF FitsRun
  <2>2. CASE m \in DOMAIN targetOf
    <3>1. PICK n \in DecidedAs("RECONCILED") : m \in posted[n].members
      BY <2>2 DEF RunInv, RecordedBy
    <3>2. n \in DOMAIN posted
      BY <3>1 DEF DecidedAs
    <3> QED BY <1>0, <1>7, <3>1, <3>2
  <2> QED BY <2>1, <2>2
<1>9. Anchors \cup Undecided = {} => (Anchors \cup Undecided)' = {}
  BY <1>4, TargetsKept DEF Anchors, Undecided
<1>10. MembersLast'
  <2> SUFFICES ASSUME NEW n \in DOMAIN posted', posted'[n].obs \in MemberEligible
               PROVE  (Anchors \cup Undecided)' = {}
    BY KindsKept DEF MembersLast
  <2>1. CASE n = last
    BY <1>0, <1>9, <2>1 DEF FitsRun
  <2>2. CASE n \in DOMAIN posted
    BY <1>0, <1>9, <2>2 DEF RunInv, MembersLast
  <2> QED BY <1>0, <2>1, <2>2
<1>11. \A n \in DOMAIN posted : Kind(posted[n].obs) = "recon_line" =>
         posted[n].obs \in MemberEligible
  BY DEF RunInv, PostedAreObserved, Settled, MemberEligible, OfKind
<1>12. ASSUME NEW n \in DOMAIN posted', Kind(posted'[n].obs) = "recon_line"
       PROVE  posted'[n].state = "RECONCILED" <=> posted'[n].obs \in DOMAIN targetOf'
  <2>1. CASE n = last
    <3>1. Kind(i) = "recon_line" /\ posted'[n].obs = i /\ posted'[n].state = r.state
      BY <1>0, <1>12, <2>1 DEF FitsRun
    <3>2. i \in MemberEligible
      BY <3>1 DEF FitsRun, MemberEligible, OfKind
    <3>3. r.members = {}
      BY <3>2 DEF FitsRun
    <3> QED BY <3>1, <3>3 DEF FitsRun
  <2>2. CASE n \in DOMAIN posted
    <3>1. Anchors \cup Undecided = {}
      BY <1>0, <1>11, <1>12, <2>2 DEF RunInv, MembersLast
    <3>2. r.members = {}
      BY <3>1 DEF FitsRun
    <3> QED BY <1>0, <1>12, <2>2, <3>2 DEF RunInv, LinesFollowRecord
  <2> QED BY <1>0, <2>1, <2>2
<1>13. LinesFollowRecord'
  BY <1>12, KindsKept DEF LinesFollowRecord
<1>14. CutsAbstain'
  <2> SUFFICES ASSUME agent = "ASSAY", NEW n \in DOMAIN posted',
                      posted'[n].obs \in Targets,
                      Truncated(posted'[n].obs) \/ ExceedsKMax(posted'[n].obs)
               PROVE  posted'[n].state = "ABSTAINED" /\ posted'[n].key # 0
    BY TargetsKept, SearchKept, ComponentsKept DEF CutsAbstain
  <2>1. CASE n = last
    BY <1>0, <2>1 DEF FitsRun
  <2>2. CASE n \in DOMAIN posted
    BY <1>0, <2>2 DEF RunInv, CutsAbstain
  <2> QED BY <1>0, <2>1, <2>2
<1>15. ASSUME NEW n \in DOMAIN posted, NEW certificate, NEW c, Certifies(n, certificate, c)
       PROVE  Certifies(n, certificate, c)'
  BY <1>0, <1>7, <1>15, ComponentsKept DEF Certifies
<1>16. CertificatesHeld'
  <2> SUFFICES ASSUME NEW c \in DOMAIN certificateOf'
               PROVE  \E n \in DOMAIN posted' : Certifies(n, certificateOf[c], c)'
    BY DEF CertificatesHeld
  <2>1. CASE c \in DOMAIN certificateOf /\ certificateOf'[c] = certificateOf[c]
    <3>1. PICK n \in DOMAIN posted : Certifies(n, certificateOf[c], c)
      BY <2>1 DEF RunInv, CertificatesHeld
    <3> QED BY <1>0, <1>7, <2>1, <3>1, ComponentsKept DEF Certifies
  <2>2. CASE /\ r.state = "ABSTAINED" /\ r.key # 0
             /\ c = ComponentOf(i) /\ certificateOf'[c] = r.certificate
    BY <1>0, <1>7, <2>2, ComponentsKept DEF Certifies, FitsRun
  <2> QED BY <2>1, <2>2 DEF FitsRun
<1>17. LinesCertified'
  <2> SUFFICES ASSUME NEW n \in DecidedAs("ABSTAINED")', Kind(posted'[n].obs) = "recon_line"
               PROVE  \E k \in DOMAIN posted :
                        /\ Certifies(k, posted'[n].certificate, ComponentOf(posted[k].obs))
                        /\ posted'[n].obs \in MembersOfComponent(ComponentOf(posted[k].obs))
    BY <1>0, <1>15, KindsKept, ComponentsKept DEF LinesCertified, Certifies
  <2>1. CASE n = last
    <3>1. PICK c \in DOMAIN certificateOf :
            i \in MembersOfComponent(c) /\ r.certificate = certificateOf[c]
      BY <1>0, <1>7, <2>1 DEF FitsRun
    <3>2. PICK k \in DOMAIN posted : Certifies(k, certificateOf[c], c)
      BY DEF RunInv, CertificatesHeld
    <3>3. c = ComponentOf(posted[k].obs)
      BY <3>2 DEF Certifies
    <3>4. posted'[n].certificate = certificateOf[c] /\ posted'[n].obs = i
      BY <1>0, <2>1, <3>1 DEF FitsRun
    <3> QED BY <3>1, <3>2, <3>3, <3>4
  <2>2. CASE n \in DecidedAs("ABSTAINED")
    <3>1. posted'[n] = posted[n]
      BY <1>0, <2>2 DEF DecidedAs
    <3> QED BY <2>2, <3>1 DEF RunInv, LinesCertified
  <2> QED BY <1>7, <2>1, <2>2
<1> QED BY <1>1, <1>2, <1>3, <1>5, <1>6, <1>8, <1>10, <1>13, <1>14, <1>16, <1>17 DEF RunInv

\* What post does: the run aborts and nothing is posted, or one decision is, with
\* its members on record.
LEMMA PostAppends ==
  ASSUME PostedIsSeq, NEW i, NEW c, NEW certificates, Post(i, c, certificates)
  PROVE  /\ obs' = obs /\ agent' = agent /\ outcomes' = outcomes
         /\ \/ posted' = posted /\ targetOf' = targetOf /\ certificateOf' = certificateOf
            \/ /\ Appends(Record(i, Accepted(c)))
               /\ targetOf' = [m \in Accepted(c).members \cup DOMAIN targetOf |->
                                  IF m \in Accepted(c).members THEN i ELSE targetOf[m]]
               /\ certificateOf' = certificates
<1>1. CASE Raises(i, c) \/ Raises(i, Accepted(c))
  BY <1>1 DEF Post, Abort
<1>2. CASE ~(Raises(i, c) \/ Raises(i, Accepted(c)))
  <2> DEFINE r == Record(i, Accepted(c))
             old == {posted[n] : n \in DOMAIN posted}
  <2>1. /\ posted' = Append(posted, r)
        /\ targetOf' = [m \in Accepted(c).members \cup DOMAIN targetOf |->
                           IF m \in Accepted(c).members THEN i ELSE targetOf[m]]
        /\ certificateOf' = certificates
        /\ obs' = obs /\ agent' = agent /\ outcomes' = outcomes
    BY <1>2 DEF Post, Committed
  <2> HIDE DEF r
  <2>2. /\ posted \in Seq(old \cup {r}) /\ Len(posted) \in Nat
        /\ DOMAIN posted = 1..Len(posted)
    BY DEF PostedIsSeq
  <2>3. /\ posted' \in Seq(old \cup {r})
        /\ DOMAIN posted' = 1..(Len(posted) + 1)
        /\ \A n \in DOMAIN posted : posted'[n] = posted[n]
        /\ posted'[Len(posted) + 1] = r
    BY <2>1, <2>2
  <2>4. old \cup {r} = {posted'[n] : n \in DOMAIN posted'}
    BY <2>2, <2>3
  <2>5. PostedIsSeq'
    BY <2>3, <2>4 DEF PostedIsSeq
  <2> QED BY <2>1, <2>2, <2>3, <2>5 DEF Appends, r
<1> QED BY <1>1, <1>2

LEMMA PostEffect ==
  ASSUME RunInv, NEW i, NEW c, NEW certificates, Post(i, c, certificates)
  PROVE  /\ obs' = obs /\ agent' = agent /\ outcomes' = outcomes
         /\ \/ posted' = posted /\ targetOf' = targetOf /\ certificateOf' = certificateOf
            \/ /\ Appends(Record(i, Accepted(c)))
               /\ DOMAIN targetOf' = Accepted(c).members \cup DOMAIN targetOf
               /\ certificateOf' = certificates
<1>1. PostedIsSeq
  BY DEF RunInv
<1> QED BY <1>1, PostAppends

\* A posting of a decision that fits, or none, keeps the invariant.
LEMMA FittingPostKeeps ==
  ASSUME RunInv, NEW i, NEW c, NEW certificates, Post(i, c, certificates),
         Appends(Record(i, Accepted(c))) /\ certificateOf' = certificates
           => FitsRun(i, Record(i, Accepted(c)))
  PROVE  RunInv'
<1>1. CASE posted' = posted /\ targetOf' = targetOf /\ certificateOf' = certificateOf
  <2>1. obs' = obs /\ agent' = agent /\ outcomes' = outcomes
    BY PostEffect
  <2>2. Settled' = Settled /\ \A state : DecidedAs(state)' = DecidedAs(state)
    BY <1>1 DEF Settled, DecidedAs
  <2>3. PostedIsSeq' /\ Recorded' /\ InputKept' /\ PostedAreObserved' /\ RecordedBy'
    BY <1>1, <2>1, <2>2
    DEF RunInv, PostedIsSeq, Recorded, InputKept, PostedAreObserved, RecordedBy
  <2>4. OutcomesSound'
    BY <2>1, SolvesKept DEF RunInv, OutcomesSound
  <2>5. MembersLast'
    BY <1>1, <2>1, <2>2, KindsKept, TargetsKept DEF RunInv, MembersLast, Anchors, Undecided
  <2>6. LinesFollowRecord'
    BY <1>1, <2>1, KindsKept DEF RunInv, LinesFollowRecord
  <2>7. CutsAbstain'
    BY <1>1, <2>1, TargetsKept, SearchKept, ComponentsKept DEF RunInv, CutsAbstain
  <2>8. CertificatesHeld'
    BY <1>1, <2>1, <2>2, ComponentsKept DEF RunInv, CertificatesHeld, Certifies
  <2>9. LinesCertified'
    BY <1>1, <2>1, <2>2, KindsKept, ComponentsKept DEF RunInv, LinesCertified, Certifies
  <2> QED BY <2>3, <2>4, <2>5, <2>6, <2>7, <2>8, <2>9 DEF RunInv
<1>2. CASE /\ Appends(Record(i, Accepted(c)))
           /\ DOMAIN targetOf' = Accepted(c).members \cup DOMAIN targetOf
           /\ certificateOf' = certificates
  <2>1. obs' = obs /\ agent' = agent /\ outcomes' = outcomes
    BY PostEffect
  <2>2. Record(i, Accepted(c)).members = Accepted(c).members
    BY DEF Record
  <2> QED BY <1>2, <2>1, <2>2, AppendKeeps
<1> QED BY <1>1, <1>2, PostEffect

-----------------------------------------------------------------------------
(* The four passes                                                         *)

\* The kinds of what a pass may post.
LEMMA KindsOfPasses ==
  ASSUME NEW i
  PROVE  /\ i \in AnchorResolved \cup Targets =>
              i \in DOMAIN obs /\ Kind(i) \in {"settlement", "bank_line"} /\ i \notin MemberEligible
         /\ i \in MemberEligible =>
              i \in DOMAIN obs /\ Kind(i) \in {"recon_line", "adjustment"} /\ i \notin Targets
         /\ i \in AnchorResolved => i \notin Targets
         /\ i \in DOMAIN obs /\ Kind(i) = "recon_line" => i \in MemberEligible
BY DEF AnchorResolved, Targets, Settlements, BankLines, MemberEligible, OfKind

LEMMA FieldsOfRecord ==
  ASSUME NEW i, NEW c
  PROVE  /\ Record(i, c).obs = i /\ Record(i, c).state = c.state
         /\ Record(i, c).members = c.members /\ Record(i, c).certificate = c.certificate
         /\ Record(i, c).key = SuspenseKeyOf(i, c)
BY DEF Record

\* What a reconciling decision carries.
LEMMA FieldsOfReconciled ==
  ASSUME NEW i, NEW members
  PROVE  /\ Reconciled(i, members).state = "RECONCILED"
         /\ Reconciled(i, members).members = members
         /\ Reconciled(i, members).certificate = NoCertificate
BY DEF Reconciled, Nothing

LEMMA AnchorPassKeeps == RunInv /\ PostAnchor => RunInv'
<1> SUFFICES ASSUME RunInv, PostAnchor PROVE RunInv'
  OBVIOUS
<1> DEFINE i == Min(Anchors)
           c == classifyAnchored(i)
           r == Record(i, Accepted(c))
<1>1. i \in Anchors
  <2>1. Anchors \subseteq Nat
    BY DEF Anchors, AnchorResolved, Settlements, BankLines, OfKind, RunInv, InputKept
  <2> QED BY <2>1, FirstIsIn DEF PostAnchor
<1>2. Post(i, c, certificateOf)
  BY DEF PostAnchor
<1> HIDE DEF i
<1>3. c.state = "RECONCILED"
  BY FieldsOfReconciled DEF classifyAnchored
<1>4. Accepted(c).state \in {"RECONCILED", "EXCEPTION"}
  BY <1>3, ExceptionAccepted DEF Accepted
<1>5. r.obs = i /\ r.state = Accepted(c).state /\ r.members = Accepted(c).members
  BY FieldsOfRecord
<1>6. r.members # {} => r.state = "RECONCILED"
  BY <1>3, <1>5, MembersReconcile
<1>7. /\ i \in DOMAIN obs /\ Kind(i) # "recon_line" /\ i \notin MemberEligible
      /\ i \notin Targets /\ Anchors # {}
  BY <1>1, KindsOfPasses DEF Anchors
<1> HIDE DEF c, r
<1>8. ASSUME certificateOf' = certificateOf PROVE FitsRun(i, r)
  BY <1>4, <1>5, <1>6, <1>7, <1>8 DEF FitsRun
<1> QED BY <1>2, <1>8, FittingPostKeeps DEF r

\* A certificate on a reason is not the missing one.
LEMMA ReasonCertifies ==
  ASSUME NEW t, NEW reason, reason # NoReason
  PROVE  [target |-> t, reason |-> reason] # NoCertificate
BY DEF NoCertificate

\* An abstained settlement or bank line is an open item.
LEMMA AbstainedTargetIsOpen ==
  ASSUME InputKept, NEW t \in Targets, NEW c, c.state = "ABSTAINED", c.role = "TARGET"
  PROVE  SuspenseKeyOf(t, c) # 0
<1>1. Kind(t) \in {"settlement", "bank_line"} /\ t \in DOMAIN obs
  BY KindsOfPasses
<1>2. TerminalRule(t, c) = AbstainedRule(t, c.role)
  BY <1>1 DEF TerminalRule, SilentKinds
<1>3. AbstainedRule(t, c.role) \in {"P5", "P6"}
  BY <1>1 DEF AbstainedRule
<1>4. obs[t].entity \in Nat \ {0}
  BY <1>1 DEF InputKept, Observations
<1> QED BY <1>2, <1>3, <1>4 DEF SuspenseKeyOf, Silent

\* A search a bound cut short is a reason not to commit.
LEMMA CutIsReason ==
  ASSUME RunInv, NEW t \in DOMAIN outcomes, Truncated(t) \/ ExceedsKMax(t)
  PROVE  ReasonOf(t) # NoReason
<1>1. outcomes[t] \in SolveOutcomes(t)
  BY DEF RunInv, OutcomesSound
<1>2. ASSUME ExceedsKMax(t) PROVE outcomes[t].reason = "SEARCH_BOUND_EXCEEDED"
  BY <1>1, <1>2 DEF SolveOutcomes
<1>3. "SEARCH_BOUND_EXCEEDED" # NoReason
  BY DEF NoReason
<1> QED BY <1>2, <1>3 DEF ReasonOf

LEMMA TargetPassKeeps == RunInv /\ PostTarget => RunInv'
<1> SUFFICES ASSUME RunInv, PostTarget PROVE RunInv'
  OBVIOUS
<1> DEFINE t == Min(Undecided)
           c == classifyTarget(t)
           r == Record(t, Accepted(c))
<1>1. t \in Undecided
  <2>1. Undecided \subseteq Nat
    BY DEF Undecided, Targets, Settlements, BankLines, OfKind, RunInv, InputKept
  <2> QED BY <2>1, FirstIsIn DEF PostTarget
<1>2. Post(t, c, Certify(t, c)) /\ Unsolved = {}
  BY DEF PostTarget
<1> HIDE DEF t
<1>3. /\ t \in Targets /\ t \in DOMAIN outcomes
      /\ t \in DOMAIN obs /\ Kind(t) # "recon_line" /\ t \notin MemberEligible
      /\ Undecided # {}
  BY <1>1, <1>2, KindsOfPasses DEF Undecided, Unsolved
<1>4. r.obs = t /\ r.state = Accepted(c).state /\ r.members = Accepted(c).members
      /\ r.certificate = Accepted(c).certificate /\ r.key = SuspenseKeyOf(t, Accepted(c))
  BY FieldsOfRecord
<1>5. CASE ReasonOf(t) # NoReason /\ agent # "A2-NOABSTAIN"
  <2> DEFINE certificate == [target |-> t, reason |-> ReasonOf(t)]
  <2>1. c = Abstained("TARGET", certificate)
    BY <1>5 DEF classifyTarget
  <2>2. certificate # NoCertificate
    BY <1>5, ReasonCertifies
  <2> HIDE DEF certificate, c
  <2>3. /\ Accepted(c) = c /\ c.state = "ABSTAINED" /\ c.role = "TARGET"
        /\ c.certificate = certificate /\ c.members = {}
    BY <2>1, <2>2, AbstentionAccepted
  <2>4. SuspenseKeyOf(t, c) # 0
    BY <1>3, <2>3, AbstainedTargetIsOpen DEF RunInv
  <2>5. Certify(t, c) = [k \in DOMAIN certificateOf \cup {ComponentOf(t)} |->
                           IF k = ComponentOf(t) THEN c.certificate ELSE certificateOf[k]]
    BY <2>2, <2>3 DEF Certify
  <2> HIDE DEF r
  <2>6. ASSUME certificateOf' = Certify(t, c) PROVE FitsRun(t, r)
    <3>1. \A k \in DOMAIN certificateOf' :
            \/ k \in DOMAIN certificateOf /\ certificateOf'[k] = certificateOf[k]
            \/ k = ComponentOf(t) /\ certificateOf'[k] = r.certificate
      BY <1>4, <2>3, <2>5, <2>6
    <3> QED BY <1>3, <1>4, <2>3, <2>4, <3>1 DEF FitsRun
  <2> QED BY <1>2, <2>6, FittingPostKeeps DEF r, c
<1>6. CASE ~(ReasonOf(t) # NoReason /\ agent # "A2-NOABSTAIN")
  <2>1. \/ c = Reconciled(t, outcomes[t].best)
        \/ \E class : c = exceptionFor(class)
    BY <1>6 DEF classifyTarget
  <2>2. /\ c.state \in {"RECONCILED", "EXCEPTION"} /\ c.certificate = NoCertificate
        /\ c.members # {} => c.state = "RECONCILED"
    <3>1. ASSUME NEW class
          PROVE  /\ exceptionFor(class).state = "EXCEPTION" /\ exceptionFor(class).members = {}
                 /\ exceptionFor(class).certificate = NoCertificate
      BY DEF exceptionFor, Nothing
    <3> HIDE DEF c
    <3> QED BY <2>1, <3>1, FieldsOfReconciled
  <2> HIDE DEF c
  <2>3. Accepted(c).state \in {"RECONCILED", "EXCEPTION"}
    BY <2>2, ExceptionAccepted DEF Accepted
  <2>4. Accepted(c).members # {} => Accepted(c).state = "RECONCILED"
    BY <2>2, MembersReconcile
  <2>5. Certify(t, c) = certificateOf
    BY <2>2 DEF Certify
  <2>6. agent = "ASSAY" => ~(Truncated(t) \/ ExceedsKMax(t))
    BY <1>3, <1>6, CutIsReason
  <2> HIDE DEF r
  <2>7. ASSUME certificateOf' = Certify(t, c) PROVE FitsRun(t, r)
    BY <1>3, <1>4, <2>3, <2>4, <2>5, <2>6, <2>7 DEF FitsRun
  <2> QED BY <1>2, <2>7, FittingPostKeeps DEF r, c
<1> QED BY <1>5, <1>6

\* A line is reconciled exactly if it is on record as allocated, and abstained
\* only on a certificate of a component it is in.
LEMMA LineDecision ==
  ASSUME NEW m
  PROVE  LET decided == Accepted(classifyMember(m)) IN
         /\ decided.members = {}
         /\ Kind(m) = "recon_line" => (decided.state = "RECONCILED" <=> m \in DOMAIN targetOf)
         /\ decided.state = "ABSTAINED" => decided.certificate \in CertificatesOver(m)
<1> DEFINE c == classifyMember(m)
<1>1. ASSUME NEW class, c = exceptionFor(class)
      PROVE  Accepted(c).members = {} /\ Accepted(c).state = "EXCEPTION"
  BY <1>1, ExceptionAccepted
<1>2. CASE Kind(m) = "adjustment"
  <2>1. c = exceptionFor("E12")
    BY <1>2 DEF classifyMember
  <2> HIDE DEF c
  <2> QED BY <1>1, <1>2, <2>1 DEF c
<1>3. CASE Kind(m) # "adjustment" /\ m \in DOMAIN targetOf
  <2>1. c = [Nothing EXCEPT !.state = "RECONCILED", !.evidence = EvidenceFor(m)]
    BY <1>3 DEF classifyMember
  <2>2. /\ c.state = "RECONCILED" /\ c.members = {} /\ c.amount = NoAmount
        /\ c.tied_to = 0 /\ c.certificate = NoCertificate
    BY <2>1 DEF Nothing
  <2> HIDE DEF c
  <2>3. Accepted(c) = c
    BY <2>2, PlainIsValid DEF Accepted
  <2> QED BY <1>3, <2>2, <2>3 DEF c
<1>4. CASE Kind(m) # "adjustment" /\ m \notin DOMAIN targetOf /\ CertificatesOver(m) # {}
  <2> DEFINE certificate == CHOOSE certificate \in CertificatesOver(m) : TRUE
  <2>1. c = Abstained("MEMBER", certificate)
    BY <1>4 DEF classifyMember
  <2>2. certificate \in CertificatesOver(m)
    BY <1>4
  <2> HIDE DEF certificate
  <2>3. c.state = "ABSTAINED" /\ c.members = {} /\ c.certificate = certificate
    BY <2>1 DEF Abstained, Nothing
  <2> HIDE DEF c
  <2>4. \/ Accepted(c) = c
        \/ Accepted(c).members = {} /\ Accepted(c).state = "EXCEPTION"
    BY ExceptionAccepted DEF Accepted
  <2> QED BY <1>4, <2>2, <2>3, <2>4 DEF c
<1>5. CASE Kind(m) # "adjustment" /\ m \notin DOMAIN targetOf /\ CertificatesOver(m) = {}
  <2>1. c = exceptionFor(IF obs[m].type = "payment" THEN "E02" ELSE "E11")
    BY <1>5 DEF classifyMember
  <2> HIDE DEF c
  <2> QED BY <1>1, <1>5, <2>1 DEF c
<1> QED BY <1>2, <1>3, <1>4, <1>5

LEMMA MemberPassKeeps == RunInv /\ PostMember => RunInv'
<1> SUFFICES ASSUME RunInv, PostMember PROVE RunInv'
  OBVIOUS
<1> DEFINE m == Min(Members)
           c == classifyMember(m)
           r == Record(m, Accepted(c))
<1>1. m \in Members
  <2>1. Members \subseteq Nat
    BY DEF Members, MemberEligible, OfKind, RunInv, InputKept
  <2> QED BY <2>1, FirstIsIn DEF PostMember
<1>2. Post(m, c, certificateOf) /\ Anchors \cup Undecided = {}
  BY DEF PostMember
<1> HIDE DEF m
<1>3. m \in MemberEligible /\ m \in DOMAIN obs /\ m \notin Targets
  BY <1>1, KindsOfPasses DEF Members
<1>4. r.obs = m /\ r.state = Accepted(c).state /\ r.members = Accepted(c).members
      /\ r.certificate = Accepted(c).certificate
  BY FieldsOfRecord
<1>5. /\ r.members = {}
      /\ Kind(m) = "recon_line" => (r.state = "RECONCILED" <=> m \in DOMAIN targetOf)
      /\ r.state = "ABSTAINED" => r.certificate \in CertificatesOver(m)
  BY <1>4, LineDecision
<1> HIDE DEF c, r
<1>6. ASSUME certificateOf' = certificateOf PROVE FitsRun(m, r)
  BY <1>2, <1>3, <1>4, <1>5, <1>6 DEF FitsRun, CertificatesOver
<1> QED BY <1>2, <1>6, FittingPostKeeps DEF r

LEMMA RestPassKeeps == RunInv /\ PostRest => RunInv'
<1> SUFFICES ASSUME RunInv, PostRest PROVE RunInv'
  OBVIOUS
<1> DEFINE i == Min(Rest)
           c == classifyUnpostable(i)
           r == Record(i, Accepted(c))
<1>1. i \in Rest
  <2>1. Rest \subseteq Nat
    BY DEF Rest, RunInv, InputKept
  <2> QED BY <2>1, FirstIsIn DEF PostRest
<1>2. Post(i, c, certificateOf) /\ Undecided \cup Members = {}
  BY DEF PostRest
<1> HIDE DEF i
<1>3. i \in DOMAIN obs /\ i \notin MemberEligible /\ i \notin Targets
  BY <1>1, <1>2 DEF Rest, Undecided, Members
<1>4. Kind(i) # "recon_line"
  BY <1>3, KindsOfPasses
<1>5. r.obs = i /\ r.members = Accepted(c).members
  BY FieldsOfRecord
<1>6. c = Reconciled(i, {}) \/ \E class : c = exceptionFor(class)
  BY DEF classifyUnpostable
<1>7. c.members = {}
  BY <1>6, FieldsOfReconciled, FallbackAllocatesNothing
<1>8. r.members = {}
  BY <1>5, <1>7, FallbackAllocatesNothing DEF Accepted
<1> HIDE DEF c, r
<1>9. ASSUME certificateOf' = certificateOf PROVE FitsRun(i, r)
  BY <1>3, <1>4, <1>5, <1>8, <1>9 DEF FitsRun
<1> QED BY <1>2, <1>9, FittingPostKeeps DEF r

\* Solving a target adds one of the answers S4 and the probe loop may give.
LEMMA SolveKeeps == RunInv /\ Solve => RunInv'
<1> SUFFICES ASSUME RunInv, Solve PROVE RunInv'
  OBVIOUS
<1>1. /\ obs' = obs /\ agent' = agent /\ posted' = posted
      /\ targetOf' = targetOf /\ certificateOf' = certificateOf
  BY DEF Solve
<1>2. OutcomesSound'
  <2> DEFINE t == Min(Unsolved)
  <2>1. PICK outcome \in SolveOutcomes(t) :
          outcomes' = [u \in DOMAIN outcomes \cup {t} |->
                         IF u = t THEN outcome ELSE outcomes[u]]
    BY DEF Solve
  <2> HIDE DEF t
  <2>2. \A u \in DOMAIN outcomes' : outcomes'[u] \in SolveOutcomes(u)
    BY <2>1 DEF RunInv, OutcomesSound
  <2> QED BY <1>1, <2>2, SolvesKept DEF OutcomesSound
<1> QED BY <1>1, <1>2, KindsKept, TargetsKept, SearchKept, ComponentsKept
        DEF RunInv, PostedIsSeq, Recorded, InputKept, PostedAreObserved, RecordedBy,
            MembersLast, LinesFollowRecord, CutsAbstain, CertificatesHeld, LinesCertified,
            Settled, DecidedAs, Certifies, Anchors, Undecided

\* Nothing that is posted or on record changes with the close.
LEMMA IdleKeeps ==
  ASSUME RunInv, UNCHANGED <<obs, agent, outcomes, posted, targetOf, certificateOf>>
  PROVE  RunInv'
BY KindsKept, TargetsKept, SearchKept, ComponentsKept, SolvesKept
   DEF RunInv, PostedIsSeq, Recorded, InputKept, PostedAreObserved, OutcomesSound,
       RecordedBy, MembersLast, LinesFollowRecord, CutsAbstain, CertificatesHeld,
       LinesCertified, Settled, DecidedAs, Certifies, Anchors, Undecided

LEMMA NextRunInv == RunInv /\ [Next]_vars => RunInv'
<1> SUFFICES ASSUME RunInv, [Next]_vars PROVE RunInv'
  OBVIOUS
<1>1. CASE Close \/ Ended \/ UNCHANGED vars
  BY <1>1, IdleKeeps DEF Close, Ended, vars
<1> QED BY <1>1, SolveKeeps, AnchorPassKeeps, TargetPassKeeps, MemberPassKeeps, RestPassKeeps
        DEF Next

LEMMA InitRunInv == Init => RunInv
<1> SUFFICES ASSUME Init PROVE RunInv
  OBVIOUS
<1>1. DOMAIN posted = {} /\ DOMAIN outcomes = {} /\ DOMAIN targetOf = {}
      /\ DOMAIN certificateOf = {}
  BY DEF Init
<1>2. InputKept
  BY InputsAssumption, AgentsAssumption DEF Init, InputKept
<1>3. PostedIsSeq
  BY DEF Init, PostedIsSeq
<1> QED BY <1>1, <1>2, <1>3
        DEF RunInv, Recorded, PostedAreObserved, OutcomesSound, RecordedBy, MembersLast,
            LinesFollowRecord, CutsAbstain, CertificatesHeld, LinesCertified, Settled, DecidedAs

\* What is on record of a run, at every point of it.
THEOREM RunInvariance == Spec => []RunInv
  BY InitRunInv, NextRunInv, PTL DEF Spec

-----------------------------------------------------------------------------
(* What follows for a finished run                                         *)

\* A payment or refund line ends reconciled exactly if a decision S5 let through
\* allocated it, under every composition, ablated or not.
THEOREM LinesFollowTargets == Spec => []MemberFollowsTarget
<1>1. RunInv => MemberFollowsTarget
  <2> SUFFICES ASSUME RunInv, NEW n \in DOMAIN posted, Kind(posted[n].obs) = "recon_line"
               PROVE  posted[n].state = "RECONCILED" <=>
                        \E k \in DecidedAs("RECONCILED") : posted[n].obs \in posted[k].members
    BY DEF MemberFollowsTarget
  <2>1. posted[n].state = "RECONCILED" <=> posted[n].obs \in DOMAIN targetOf
    BY DEF RunInv, LinesFollowRecord
  <2>2. posted[n].obs \in DOMAIN targetOf =>
          \E k \in DecidedAs("RECONCILED") : posted[n].obs \in posted[k].members
    BY DEF RunInv, RecordedBy
  <2>3. \A k \in DecidedAs("RECONCILED") :
          posted[n].obs \in posted[k].members => posted[n].obs \in DOMAIN targetOf
    BY DEF RunInv, Recorded, DecidedAs
  <2> QED BY <2>1, <2>2, <2>3
<1> QED BY <1>1, RunInvariance, PTL

\* A search that a bound cut short ends in an abstention with an open item: ASSAY
\* neither commits its target nor reports it missing.
THEOREM CutSearchesAbstain == Spec => []CutSearchAbstains
<1>1. RunInv => CutSearchAbstains
  BY DEF RunInv, CutsAbstain, CutSearchAbstains
<1> QED BY <1>1, RunInvariance, PTL

\* The second half of OpenIsQueued: a line that abstains, and so posts nothing of its
\* own, is in the component of a target that abstained on the same certificate and is
\* an open item.
THEOREM AbstentionsHaveItems == Spec => []AbstentionHasItem
<1>1. RunInv => AbstentionHasItem
  <2> SUFFICES ASSUME RunInv,
                      NEW n \in DecidedAs("ABSTAINED"), Kind(posted[n].obs) = "recon_line"
               PROVE  \E k \in DecidedAs("ABSTAINED") :
                        /\ posted[k].key # 0 /\ posted[k].certificate = posted[n].certificate
                        /\ posted[n].obs \in MembersOfComponent(ComponentOf(posted[k].obs))
    BY DEF AbstentionHasItem
  <2>1. PICK k \in DOMAIN posted :
          /\ Certifies(k, posted[n].certificate, ComponentOf(posted[k].obs))
          /\ posted[n].obs \in MembersOfComponent(ComponentOf(posted[k].obs))
    BY DEF RunInv, LinesCertified
  <2> QED BY <2>1 DEF Certifies
<1> QED BY <1>1, RunInvariance, PTL

-----------------------------------------------------------------------------
(* Sums over a finite set                                                  *)

LEMMA SmallestSubset ==
  ASSUME NEW D, IsFiniteSet(D), NEW F, F \subseteq SUBSET D, F # {}
  PROVE  \E T \in F : \A S \in F : S \subseteq T => S = T
<1>1. IsWellFoundedOn(StrictSubsetOrdering(D), SUBSET D)
  BY FS_StrictSubsetOrderingWellFounded, FS_FiniteSubsetsOfFinite
<1>2. PICK T \in F : \A S \in F : ~ (<<S, T>> \in StrictSubsetOrdering(D))
  BY <1>1, WFMin
<1> QED BY <1>2 DEF StrictSubsetOrdering

\* The index a sum takes first out of a set, what it leaves, and the equation that
\* the function behind the sum solves.
FirstOf(s) == CHOOSE x \in s : TRUE
RestOf(s) == s \ {FirstOf(s)}
Adds(w, f, S) == f = [s \in SUBSET S |-> IF s = {} THEN 0 ELSE w[FirstOf(s)] + f[RestOf(s)]]

LEMMA SumChooses == \A w, S : SumFunctionOnSet(w, S) = (CHOOSE f : Adds(w, f, S))[S]
BY DEF SumFunctionOnSet, FoldFunctionOnSet, MapThenFoldSet, Adds, FirstOf, RestOf

LEMMA RestIsLess == \A s : s # {} => FirstOf(s) \in s /\ RestOf(s) \subseteq s /\ RestOf(s) # s
BY DEF FirstOf, RestOf

LEMMA AddsOnce ==
  ASSUME NEW w, NEW S, IsFiniteSet(S), NEW f, NEW g, Adds(w, f, S), Adds(w, g, S)
  PROVE  f = g
<1> DEFINE F == {s \in SUBSET S : f[s] # g[s]}
<1>1. SUFFICES F = {}
  BY DEF Adds
<1>2. SUFFICES ASSUME F # {} PROVE FALSE
  OBVIOUS
<1>3. PICK T \in F : \A s \in F : s \subseteq T => s = T
  <2>1. F \subseteq SUBSET S
    OBVIOUS
  <2> HIDE DEF F
  <2> QED BY <1>2, <2>1, SmallestSubset
<1>4. T # {}
  BY <1>3 DEF Adds
<1>5. RestOf(T) \subseteq T /\ RestOf(T) # T /\ RestOf(T) \in SUBSET S
  BY <1>3, <1>4, RestIsLess
<1>6. f[RestOf(T)] = g[RestOf(T)]
  BY <1>3, <1>5
<1>7. f[T] = w[FirstOf(T)] + f[RestOf(T)] /\ g[T] = w[FirstOf(T)] + g[RestOf(T)]
  BY <1>3, <1>4 DEF Adds
<1> QED BY <1>3, <1>6, <1>7

\* A sum is its first term and the sum over the rest.
Unfolds(w, S) ==
  SumFunctionOnSet(w, S) = IF S = {} THEN 0 ELSE w[FirstOf(S)] + SumFunctionOnSet(w, RestOf(S))

LEMMA SumUnfolds ==
  ASSUME NEW w, NEW D, IsFiniteSet(D)
  PROVE  Unfolds(w, D)
<1> DEFINE F == {s \in SUBSET D : ~Unfolds(w, s)}
<1>1. SUFFICES ASSUME F # {} PROVE FALSE
  OBVIOUS
<1>2. PICK T \in F : \A s \in F : s \subseteq T => s = T
  <2>1. F \subseteq SUBSET D
    OBVIOUS
  <2> HIDE DEF F
  <2> QED BY <1>1, <2>1, SmallestSubset
<1>3. \A s \in SUBSET T : s # T => Unfolds(w, s)
  BY <1>2
<1> DEFINE sum(s) == SumFunctionOnSet(w, s)
           f == [s \in SUBSET T |-> IF s = {} THEN 0 ELSE w[FirstOf(s)] + sum(RestOf(s))]
<1>4. \A s \in SUBSET T : s # T => f[s] = sum(s)
  BY <1>3 DEF Unfolds
<1>5. \A s \in SUBSET T : s # {} => RestOf(s) \in SUBSET T /\ RestOf(s) # T
  BY RestIsLess
<1>6. Adds(w, f, T)
  <2>1. \A s \in SUBSET T : s # {} => sum(RestOf(s)) = f[RestOf(s)]
    BY <1>4, <1>5
  <2>2. f = [s \in SUBSET T |-> IF s = {} THEN 0 ELSE w[FirstOf(s)] + f[RestOf(s)]]
    BY <2>1, Zenon
  <2> QED BY <2>2 DEF Adds
<1> HIDE DEF f
<1>7. (CHOOSE h : Adds(w, h, T)) = f
  <2>1. Adds(w, (CHOOSE h : Adds(w, h, T)), T)
    BY <1>6
  <2>2. IsFiniteSet(T)
    BY <1>2, FS_Subset
  <2> QED BY <1>6, <2>1, <2>2, AddsOnce
<1>8. sum(T) = f[T]
  BY <1>7, SumChooses
<1>9. Unfolds(w, T)
  BY <1>8 DEF Unfolds, f
<1> QED BY <1>2, <1>9


LEMMA SumOfNone == \A w : SumFunctionOnSet(w, {}) = 0
<1> TAKE w
<1>1. Unfolds(w, {})
  BY SumUnfolds, FS_EmptySet
<1> QED BY <1>1 DEF Unfolds

LEMMA SumIsInt ==
  ASSUME NEW D, IsFiniteSet(D), NEW w, \A x \in D : w[x] \in Int
  PROVE  SumFunctionOnSet(w, D) \in Int
<1> DEFINE F == {S \in SUBSET D : SumFunctionOnSet(w, S) \notin Int}
<1>1. SUFFICES ASSUME F # {} PROVE FALSE
  OBVIOUS
<1>2. PICK T \in F : \A S \in F : S \subseteq T => S = T
  <2>1. F \subseteq SUBSET D
    OBVIOUS
  <2> HIDE DEF F
  <2> QED BY <1>1, <2>1, SmallestSubset
<1>3. T \in SUBSET D /\ SumFunctionOnSet(w, T) \notin Int /\ IsFiniteSet(T)
  BY <1>2, FS_Subset
<1>4. T # {}
  BY <1>3, SumOfNone
<1>5. FirstOf(T) \in T /\ RestOf(T) \subseteq T /\ RestOf(T) # T
  BY <1>4, RestIsLess
<1>6. SumFunctionOnSet(w, RestOf(T)) \in Int
  BY <1>2, <1>5
<1>7. SumFunctionOnSet(w, T) = w[FirstOf(T)] + SumFunctionOnSet(w, RestOf(T))
  BY <1>3, <1>4, SumUnfolds DEF Unfolds
<1> QED BY <1>3, <1>5, <1>6, <1>7

\* Any term may be taken out first.
LEMMA SumTakesAny ==
  ASSUME NEW D, IsFiniteSet(D), NEW w, \A x \in D : w[x] \in Int
  PROVE  \A x \in D : SumFunctionOnSet(w, D) = w[x] + SumFunctionOnSet(w, D \ {x})
<1> DEFINE sum(S) == SumFunctionOnSet(w, S)
           F == {S \in SUBSET D : \E x \in S : sum(S) # w[x] + sum(S \ {x})}
<1>1. SUFFICES ASSUME F # {} PROVE FALSE
  OBVIOUS
<1>2. PICK T \in F : \A S \in F : S \subseteq T => S = T
  <2>1. F \subseteq SUBSET D
    OBVIOUS
  <2> HIDE DEF F
  <2> QED BY <1>1, <2>1, SmallestSubset
<1>3. PICK x \in T : sum(T) # w[x] + sum(T \ {x})
  BY <1>2
<1> DEFINE y == FirstOf(T)
<1>4. T \in SUBSET D /\ y \in T /\ IsFiniteSet(T)
  BY <1>2, <1>3, RestIsLess, FS_Subset
<1>5. sum(T) = w[y] + sum(T \ {y})
  BY <1>3, <1>4, SumUnfolds DEF Unfolds, RestOf
<1> HIDE DEF y
<1>6. x # y
  BY <1>3, <1>5
<1>7. sum(T \ {y}) = w[x] + sum((T \ {y}) \ {x})
  <2>1. T \ {y} \in SUBSET D /\ T \ {y} \notin F /\ x \in T \ {y}
    BY <1>2, <1>3, <1>4, <1>6
  <2> QED BY <2>1
<1>8. sum(T \ {x}) = w[y] + sum((T \ {x}) \ {y})
  <2>1. T \ {x} \in SUBSET D /\ T \ {x} \notin F /\ y \in T \ {x}
    BY <1>2, <1>3, <1>4, <1>6
  <2> QED BY <2>1
<1> DEFINE both == sum((T \ {y}) \ {x})
<1>9. sum((T \ {x}) \ {y}) = both
  <2>1. (T \ {x}) \ {y} = (T \ {y}) \ {x}
    OBVIOUS
  <2> QED BY <2>1
<1>10. w[x] \in Int /\ w[y] \in Int
  BY <1>3, <1>4
<1>11. both \in Int
  <2> DEFINE U == (T \ {y}) \ {x}
  <2>1. U \subseteq D /\ IsFiniteSet(U)
    BY <1>4, FS_Subset
  <2>2. \A z \in U : w[z] \in Int
    BY <2>1
  <2> HIDE DEF U
  <2>3. SumFunctionOnSet(w, U) \in Int
    BY <2>1, <2>2, SumIsInt
  <2> QED BY <2>3 DEF U
<1> HIDE DEF sum, both
<1>12. sum(T) = w[y] + (w[x] + both) /\ w[x] + sum(T \ {x}) = w[x] + (w[y] + both)
  BY <1>5, <1>7, <1>8, <1>9 DEF both
<1> QED BY <1>3, <1>10, <1>11, <1>12

\* A term counts where it is one.
LEMMA SumWithout ==
  ASSUME NEW D, IsFiniteSet(D), NEW w, \A x \in D : w[x] \in Int, NEW x
  PROVE  SumFunctionOnSet(w, D) = (IF x \in D THEN w[x] ELSE 0) + SumFunctionOnSet(w, D \ {x})
<1>1. CASE x \in D
  BY <1>1, SumTakesAny
<1>2. CASE x \notin D
  <2> DEFINE s == SumFunctionOnSet(w, D)
  <2>1. SumFunctionOnSet(w, D \ {x}) = s
    <3>1. D \ {x} = D
      BY <1>2
    <3> QED BY <3>1
  <2>2. s \in Int
    BY SumIsInt
  <2> HIDE DEF s
  <2>3. s = (IF x \in D THEN w[x] ELSE 0) + s
    BY <1>2, <2>2
  <2> QED BY <2>1, <2>3 DEF s
<1> QED BY <1>1, <1>2

LEMMA SumOfThree ==
  ASSUME NEW x, NEW y, NEW z, x # y, x # z, y # z,
         NEW D \in SUBSET {x, y, z}, NEW w, \A d \in D : w[d] \in Int
  PROVE  SumFunctionOnSet(w, D) = (IF x \in D THEN w[x] ELSE 0)
                                    + (IF y \in D THEN w[y] ELSE 0)
                                    + (IF z \in D THEN w[z] ELSE 0)
<1>1. IsFiniteSet({x, y, z})
  <2>1. IsFiniteSet({x})
    BY FS_Singleton
  <2>2. IsFiniteSet({x} \cup {y})
    BY <2>1, FS_AddElement
  <2>3. IsFiniteSet(({x} \cup {y}) \cup {z})
    BY <2>2, FS_AddElement
  <2>4. {x, y, z} = ({x} \cup {y}) \cup {z}
    OBVIOUS
  <2> QED BY <2>3, <2>4, Zenon
<1>2. \A S \in SUBSET D : IsFiniteSet(S)
  BY <1>1, FS_Subset
<1> DEFINE A == D \ {x}
           B == A \ {y}
           C == B \ {z}
<1>3. A \subseteq D /\ B \subseteq D /\ C = {}
  OBVIOUS
<1>4. SumFunctionOnSet(w, D) = (IF x \in D THEN w[x] ELSE 0) + SumFunctionOnSet(w, A)
  BY <1>2, SumWithout
<1>5. SumFunctionOnSet(w, A) = (IF y \in A THEN w[y] ELSE 0) + SumFunctionOnSet(w, B)
  <2>1. IsFiniteSet(A) /\ \A d \in A : w[d] \in Int
    BY <1>2, <1>3
  <2> HIDE DEF A
  <2> QED BY <2>1, SumWithout
<1>6. SumFunctionOnSet(w, B) = (IF z \in B THEN w[z] ELSE 0) + SumFunctionOnSet(w, C)
  <2>1. IsFiniteSet(B) /\ \A d \in B : w[d] \in Int
    BY <1>2, <1>3
  <2> HIDE DEF B
  <2> QED BY <2>1, SumWithout
<1>7. SumFunctionOnSet(w, C) = 0
  BY <1>3, SumOfNone
<1>8. (y \in A <=> y \in D) /\ (z \in B <=> z \in D)
  OBVIOUS
<1>9. /\ x \in D => w[x] \in Int
      /\ y \in D => w[y] \in Int
      /\ z \in D => w[z] \in Int
  OBVIOUS
<1> HIDE DEF A, B, C
<1> QED BY <1>4, <1>5, <1>6, <1>7, <1>8, <1>9

\* A sum of differences is the difference of the sums.
LEMMA SumOfDifferences ==
  ASSUME NEW D, IsFiniteSet(D), NEW w, NEW u, NEW v,
         \A x \in D : u[x] \in Int /\ v[x] \in Int /\ w[x] = u[x] - v[x]
  PROVE  SumFunctionOnSet(w, D) = SumFunctionOnSet(u, D) - SumFunctionOnSet(v, D)
<1> DEFINE F == {S \in SUBSET D : SumFunctionOnSet(w, S)
                                    # SumFunctionOnSet(u, S) - SumFunctionOnSet(v, S)}
<1>1. SUFFICES ASSUME F # {} PROVE FALSE
  OBVIOUS
<1>2. PICK T \in F : \A S \in F : S \subseteq T => S = T
  <2>1. F \subseteq SUBSET D
    OBVIOUS
  <2> HIDE DEF F
  <2> QED BY <1>1, <2>1, SmallestSubset
<1>3. /\ T \in SUBSET D /\ IsFiniteSet(T)
      /\ SumFunctionOnSet(w, T) # SumFunctionOnSet(u, T) - SumFunctionOnSet(v, T)
  BY <1>2, FS_Subset
<1>4. ASSUME T = {} PROVE FALSE
  <2>1. /\ SumFunctionOnSet(w, T) = 0 /\ SumFunctionOnSet(u, T) = 0
        /\ SumFunctionOnSet(v, T) = 0
    BY <1>4, SumOfNone, Zenon
  <2> QED BY <1>3, <2>1
<1> DEFINE x == FirstOf(T)
           rest == RestOf(T)
<1>5. x \in T /\ rest \subseteq T /\ rest # T /\ IsFiniteSet(rest)
  BY <1>3, <1>4, RestIsLess, FS_Subset
<1>6. SumFunctionOnSet(w, rest) = SumFunctionOnSet(u, rest) - SumFunctionOnSet(v, rest)
  BY <1>2, <1>5
<1>7. /\ SumFunctionOnSet(w, T) = w[x] + SumFunctionOnSet(w, rest)
      /\ SumFunctionOnSet(u, T) = u[x] + SumFunctionOnSet(u, rest)
      /\ SumFunctionOnSet(v, T) = v[x] + SumFunctionOnSet(v, rest)
  BY <1>3, <1>4, SumUnfolds DEF Unfolds
<1>8. SumFunctionOnSet(u, rest) \in Int /\ SumFunctionOnSet(v, rest) \in Int
  <2>1. \A d \in rest : u[d] \in Int /\ v[d] \in Int
    BY <1>3, <1>5
  <2> HIDE DEF rest
  <2> QED BY <1>5, <2>1, SumIsInt
<1>9. u[x] \in Int /\ v[x] \in Int /\ w[x] = u[x] - v[x]
  BY <1>3, <1>5
<1> HIDE DEF x, rest
<1> QED BY <1>3, <1>6, <1>7, <1>8, <1>9

-----------------------------------------------------------------------------
(* What a posting books                                                    *)

\* The rules a run fires, and none.
RuleNames == {"P1", "P2", "P3", "P4", "P5", "P6", "P8", Silent}

\* What three rules book to an account is what each puts on it; a leg of zero paise,
\* which is no line, adds nothing.
LEMMA NetOnLines ==
  ASSUME NEW rules, DOMAIN rules = 1..3, NEW i, NEW account \in Accounts,
         \A n \in 1..3 : LegNet(Legs(rules[n], i), account) \in Int
  PROVE  NetOn(account, LinesOf(rules, i)) = LegNet(Legs(rules[1], i), account)
                                               + LegNet(Legs(rules[2], i), account)
                                               + LegNet(Legs(rules[3], i), account)
<1> DEFINE legs(n) == Legs(rules[n], i)
           lines == LinesOf(rules, i)
           S == {l \in DOMAIN lines : lines[l].account = account}
           w == [l \in S |-> lines[l].dr - lines[l].cr]
           at(n) == <<n, account>>
<1>1. NetOn(account, lines) = SumFunctionOnSet(w, S)
  BY DEF NetOn, SumFunction
<1>2. /\ DOMAIN lines = {l \in (1..3) \X Accounts :
                           l[2] \in DOMAIN legs(l[1]) /\ legs(l[1])[l[2]] # dr(0)}
      /\ \A l \in DOMAIN lines : /\ lines[l].account = l[2]
                                 /\ lines[l].dr = legs(l[1])[l[2]].dr
                                 /\ lines[l].cr = legs(l[1])[l[2]].cr
  BY DEF LinesOf
<1> HIDE DEF lines, legs
<1>3. S = {l \in {at(1), at(2), at(3)} :
             account \in DOMAIN legs(l[1]) /\ legs(l[1])[account] # dr(0)}
  <2>1. {at(1), at(2), at(3)} = {l \in (1..3) \X Accounts : l[2] = account}
    OBVIOUS
  <2> QED BY <1>2, <2>1
<1>4. \A l \in S : w[l] = LegNet(legs(l[1]), account)
  <2> SUFFICES ASSUME NEW l \in S PROVE w[l] = LegNet(legs(l[1]), account)
    OBVIOUS
  <2>1. l \in DOMAIN lines /\ l[2] = account /\ account \in DOMAIN legs(l[1])
    BY <1>2, <1>3
  <2>2. w[l] = lines[l].dr - lines[l].cr
    OBVIOUS
  <2>3. lines[l].dr = legs(l[1])[account].dr /\ lines[l].cr = legs(l[1])[account].cr
    BY <1>2, <2>1
  <2> QED BY <2>1, <2>2, <2>3 DEF LegNet
<1>5. \A n \in 1..3 : at(n) \notin S => LegNet(legs(n), account) = 0
  <2> SUFFICES ASSUME NEW n \in 1..3, at(n) \notin S
               PROVE  LegNet(legs(n), account) = 0
    OBVIOUS
  <2>1. account \in DOMAIN legs(n) => legs(n)[account] = dr(0)
    BY <1>3
  <2>2. dr(0).dr - dr(0).cr = 0
    BY DEF dr
  <2> QED BY <2>1, <2>2 DEF LegNet
<1> HIDE DEF S, w
<1>6. S \in SUBSET {at(1), at(2), at(3)} /\ at(1) # at(2) /\ at(1) # at(3) /\ at(2) # at(3)
  BY <1>3
<1>7. \A n \in 1..3 : at(n) \in S => w[at(n)] = LegNet(legs(n), account)
  BY <1>4
<1>8. \A n \in 1..3 : LegNet(legs(n), account) \in Int
  BY DEF legs
<1>9. \A l \in S : w[l] \in Int
  <2> SUFFICES ASSUME NEW l \in S PROVE w[l] \in Int
    OBVIOUS
  <2>1. \E n \in 1..3 : l = at(n)
    BY <1>6
  <2> QED BY <1>7, <1>8, <2>1
<1>10. SumFunctionOnSet(w, S) = (IF at(1) \in S THEN w[at(1)] ELSE 0)
                                  + (IF at(2) \in S THEN w[at(2)] ELSE 0)
                                  + (IF at(3) \in S THEN w[at(3)] ELSE 0)
  <2> HIDE DEF at
  <2> QED BY <1>6, <1>9, SumOfThree
<1> DEFINE term(n) == IF at(n) \in S THEN w[at(n)] ELSE 0
<1>11. \A n \in 1..3 : term(n) = LegNet(legs(n), account)
  BY <1>5, <1>7
<1>12. SumFunctionOnSet(w, S) = term(1) + term(2) + term(3)
  BY <1>10
<1>13. SumFunctionOnSet(w, S)
         = LegNet(legs(1), account) + LegNet(legs(2), account) + LegNet(legs(3), account)
  <2> HIDE DEF term
  <2> QED BY <1>11, <1>12
<1> QED BY <1>1, <1>13 DEF lines, legs

LEMMA ObservedIs == InputKept => \A i \in DOMAIN obs : obs[i] \in Observations
BY DEF InputKept

\* What each rule puts on the bank, the gateway and the refund liability.
LEMMA LegNets ==
  ASSUME InputKept, NEW i \in DOMAIN obs
  PROVE  /\ LegNet(Legs("P1", i), "BANK") = 0
         /\ LegNet(Legs("P1", i), "RECEIVABLE") = obs[i].amount
         /\ LegNet(Legs("P1", i), "REFUND_LIABILITY") = 0
         /\ LegNet(Legs("P2", i), "BANK") = obs[i].credit
         /\ LegNet(Legs("P2", i), "RECEIVABLE") = -obs[i].amount
         /\ LegNet(Legs("P2", i), "REFUND_LIABILITY") = 0
         /\ LegNet(Legs("P3", i), "BANK") = 0
         /\ LegNet(Legs("P3", i), "RECEIVABLE") = 0
         /\ LegNet(Legs("P3", i), "REFUND_LIABILITY") = -obs[i].amount
         /\ LegNet(Legs("P4", i), "BANK") = -obs[i].amount
         /\ LegNet(Legs("P4", i), "RECEIVABLE") = 0
         /\ LegNet(Legs("P4", i), "REFUND_LIABILITY") = obs[i].amount
         /\ LegNet(Legs("P6", i), "BANK") = 0
         /\ LegNet(Legs("P6", i), "RECEIVABLE") = -obs[i].amount
         /\ LegNet(Legs("P6", i), "REFUND_LIABILITY") = 0
         /\ obs[i].debit # 0 => LegNet(Legs("P8", i), "BANK") = -obs[i].debit
         /\ obs[i].debit = 0 => LegNet(Legs("P8", i), "BANK") = obs[i].credit
         /\ LegNet(Legs("P8", i), "RECEIVABLE") = 0
         /\ LegNet(Legs("P8", i), "REFUND_LIABILITY") = 0
<1>1. /\ obs[i].amount \in Nat /\ obs[i].credit \in Nat /\ obs[i].debit \in Nat
      /\ obs[i].fee \in Nat /\ obs[i].tax \in Nat
  BY ObservedIs DEF Observations
<1>2. ASSUME NEW x \in Nat, NEW a, NEW b, a # b, NEW account
      PROVE  LegNet(Transfer(a, b, x), account) = IF account = a THEN x ELSE IF account = b THEN -x ELSE 0
  BY <1>2 DEF LegNet, Transfer, dr, cr
<1>3. /\ Legs("P1", i) = Transfer("RECEIVABLE", "REVENUE", obs[i].amount)
      /\ Legs("P2", i) = LegsOfP2(i)
      /\ Legs("P3", i) = Transfer("REVENUE", "REFUND_LIABILITY", obs[i].amount)
      /\ Legs("P4", i) = Transfer("REFUND_LIABILITY", "BANK", obs[i].amount)
      /\ Legs("P6", i) = Transfer("SUSPENSE", "RECEIVABLE", obs[i].amount)
      /\ obs[i].debit # 0 => Legs("P8", i) = Transfer("SUSPENSE", "BANK", obs[i].debit)
      /\ obs[i].debit = 0 => Legs("P8", i) = Transfer("BANK", "SUSPENSE", obs[i].credit)
  BY DEF Legs, AdjustmentM, Silent
<1>4. /\ LegNet(LegsOfP2(i), "BANK") = obs[i].credit
      /\ LegNet(LegsOfP2(i), "RECEIVABLE") = -obs[i].amount
      /\ LegNet(LegsOfP2(i), "REFUND_LIABILITY") = 0
  BY <1>1 DEF LegNet, LegsOfP2, dr, cr
<1> QED BY <1>1, <1>2, <1>3, <1>4

LEMMA SilentBooksNothing == \A i, account : LegNet(Legs(Silent, i), account) = 0
BY DEF LegNet, Legs, Silent

-----------------------------------------------------------------------------
(* What is on record of the books                                          *)

RowsOneSided == \A i \in DOMAIN obs : OneSided(obs[i])

PostedOnce == \A n, k \in DOMAIN posted : posted[n].obs = posted[k].obs => n = k

\* Only rows of the report are allocated, and only to what the input holds.
MembersAreRows ==
  /\ \A n \in DOMAIN posted : posted[n].members \subseteq MemberEligible
  /\ \A m \in DOMAIN targetOf : targetOf[m] \in DOMAIN obs

\* S5 lets no later decision take a member over.
RecordNamesTarget ==
  agent # "A1-NOVALIDATE" =>
    \A n \in DOMAIN posted : \A m \in posted[n].members : targetOf[m] = posted[n].obs

\* A settlement is reconciled to what its members say of themselves.
SettledTiesOut ==
  agent # "A1-NOVALIDATE" =>
    \A n \in DecidedAs("RECONCILED") : Kind(posted[n].obs) = "settlement" =>
      c5(posted[n].members) /\ Net(posted[n].members) = obs[posted[n].obs].amount

\* The settlement a line is on record for has its credit.
CreditSeen(m) == m \in DOMAIN targetOf /\ HasEvidence(targetOf[m])

\* The rules a row of the report fires.
Ruled(rules, i) ==
  /\ Kind(i) = "recon_line" =>
       /\ rules[1] = IngestRule(i)
       /\ rules[2] = IF CreditSeen(i) THEN BankEvidenceRule(i) ELSE Silent
       /\ rules[3] \in {"P6", Silent}
       /\ i \in DOMAIN targetOf => rules[3] = Silent
  /\ Kind(i) = "adjustment" =>
       /\ rules[1] = Silent /\ rules[2] = Silent /\ rules[3] = "P8"
       /\ (obs[i].debit = 0) # (obs[i].credit = 0)

LinesAsRuled ==
  \A n \in DOMAIN posted : \A i \in MemberEligible : posted[n].obs = i =>
    \E rules \in [1..3 -> RuleNames] : Ruled(rules, i) /\ posted[n].lines = LinesOf(rules, i)

AllPostedWhenDone == status = "done" => MemberEligible \subseteq Settled

BookInv ==
  /\ RowsOneSided
  /\ PostedOnce
  /\ MembersAreRows
  /\ RecordNamesTarget
  /\ SettledTiesOut
  /\ LinesAsRuled
  /\ AllPostedWhenDone

-----------------------------------------------------------------------------
(* What a row books                                                        *)

LEMMA RuledNets ==
  ASSUME InputKept, RowsOneSided, NEW i \in MemberEligible,
         NEW rules \in [1..3 -> RuleNames], Ruled(rules, i)
  PROVE  /\ NetOn("BANK", LinesOf(rules, i)) \in Int
         /\ NetOn("RECEIVABLE", LinesOf(rules, i)) \in Int
         /\ NetOn("REFUND_LIABILITY", LinesOf(rules, i)) \in Int
         /\ Kind(i) = "recon_line" /\ ~CreditSeen(i) => NetOn("BANK", LinesOf(rules, i)) = 0
         /\ (Kind(i) = "recon_line" => CreditSeen(i)) /\ c5({i}) =>
              /\ NetOn("BANK", LinesOf(rules, i)) = obs[i].credit - obs[i].debit
              /\ NetOn("RECEIVABLE", LinesOf(rules, i)) = 0
              /\ NetOn("REFUND_LIABILITY", LinesOf(rules, i)) = 0
<1> DEFINE net(n, account) == LegNet(Legs(rules[n], i), account)
           booked(account) == NetOn(account, LinesOf(rules, i))
           Watched == {"BANK", "RECEIVABLE", "REFUND_LIABILITY"}
<1>1. i \in DOMAIN obs /\ Kind(i) \in {"recon_line", "adjustment"}
  BY DEF MemberEligible, OfKind
<1>2. /\ obs[i].amount \in Nat /\ obs[i].credit \in Nat /\ obs[i].debit \in Nat
      /\ obs[i].type \in {"payment", "refund"} <=> Kind(i) = "recon_line"
      /\ OneSided(obs[i])
  BY <1>1, ObservedIs DEF Observations, OfItsKind, Kind, RowsOneSided
<1>3. \A n \in 1..3 : \A account \in Watched :
        rules[n] \in {"P1", "P2", "P3", "P4", "P6", "P8", Silent} => net(n, account) \in Int
  <2> SUFFICES ASSUME NEW n \in 1..3, NEW account \in Watched,
                      rules[n] \in {"P1", "P2", "P3", "P4", "P6", "P8", Silent}
               PROVE  net(n, account) \in Int
    OBVIOUS
  <2> QED BY <1>1, <1>2, LegNets, SilentBooksNothing
<1>4. \A n \in 1..3 : rules[n] \in {"P1", "P2", "P3", "P4", "P6", "P8", Silent}
  BY <1>1, <1>2 DEF Ruled, IngestRule, BankEvidenceRule
<1>5. DOMAIN rules = 1..3 /\ Watched \subseteq Accounts
  BY DEF Accounts
<1>6. \A account \in Watched : /\ booked(account) = net(1, account) + net(2, account) + net(3, account)
                               /\ booked(account) \in Int
  <2> SUFFICES ASSUME NEW account \in Watched
               PROVE  /\ booked(account) = net(1, account) + net(2, account) + net(3, account)
                      /\ booked(account) \in Int
    OBVIOUS
  <2>1. \A n \in 1..3 : net(n, account) \in Int
    BY <1>3, <1>4
  <2>2. booked(account) = net(1, account) + net(2, account) + net(3, account)
    BY <1>5, <2>1, NetOnLines
  <2> HIDE DEF net, booked
  <2> QED BY <2>1, <2>2
<1>7. ASSUME Kind(i) = "recon_line", ~CreditSeen(i) PROVE booked("BANK") = 0
  <2>1. /\ rules[1] \in {"P1", "P3"} /\ rules[2] = Silent /\ rules[3] \in {"P6", Silent}
    BY <1>2, <1>7 DEF Ruled, IngestRule
  <2>2. net(1, "BANK") = 0 /\ net(2, "BANK") = 0 /\ net(3, "BANK") = 0
    BY <1>1, <2>1, LegNets, SilentBooksNothing
  <2> HIDE DEF net, booked
  <2> QED BY <1>6, <2>2
<1>8. ASSUME Kind(i) = "recon_line" => CreditSeen(i), c5({i})
      PROVE  /\ booked("BANK") = obs[i].credit - obs[i].debit
             /\ booked("RECEIVABLE") = 0 /\ booked("REFUND_LIABILITY") = 0
  <2>1. CASE obs[i].type = "payment"
    <3>1. rules[1] = "P1" /\ rules[2] = "P2" /\ rules[3] = Silent
      BY <1>2, <1>8, <2>1 DEF Ruled, IngestRule, BankEvidenceRule, CreditSeen
    <3>2. obs[i].debit = 0
      BY <1>2, <2>1 DEF OneSided
    <3>3. /\ net(1, "BANK") = 0 /\ net(2, "BANK") = obs[i].credit
          /\ net(1, "RECEIVABLE") = obs[i].amount /\ net(2, "RECEIVABLE") = -obs[i].amount
          /\ net(1, "REFUND_LIABILITY") = 0 /\ net(2, "REFUND_LIABILITY") = 0
          /\ \A account \in Watched : net(3, account) = 0
      BY <1>1, <3>1, LegNets, SilentBooksNothing
    <3> HIDE DEF net, booked
    <3> QED BY <1>2, <1>6, <3>2, <3>3
  <2>2. CASE obs[i].type = "refund"
    <3>1. rules[1] = "P3" /\ rules[2] = "P4" /\ rules[3] = Silent
      BY <1>2, <1>8, <2>2 DEF Ruled, IngestRule, BankEvidenceRule, CreditSeen
    <3>2. obs[i].credit = 0 /\ obs[i].debit = obs[i].amount
      BY <1>2, <1>8, <2>2 DEF OneSided, c5
    <3>3. /\ net(1, "BANK") = 0 /\ net(2, "BANK") = -obs[i].amount
          /\ net(1, "RECEIVABLE") = 0 /\ net(2, "RECEIVABLE") = 0
          /\ net(1, "REFUND_LIABILITY") = -obs[i].amount
          /\ net(2, "REFUND_LIABILITY") = obs[i].amount
          /\ \A account \in Watched : net(3, account) = 0
      BY <1>1, <3>1, LegNets, SilentBooksNothing
    <3> HIDE DEF net, booked
    <3> QED BY <1>2, <1>6, <3>2, <3>3
  <2>3. CASE obs[i].type \notin {"payment", "refund"}
    <3>1. Kind(i) = "adjustment"
      BY <1>1, <1>2, <2>3
    <3>2. /\ rules[1] = Silent /\ rules[2] = Silent /\ rules[3] = "P8"
          /\ (obs[i].debit = 0) # (obs[i].credit = 0)
      BY <3>1 DEF Ruled
    <3>3. /\ \A account \in Watched : net(1, account) = 0 /\ net(2, account) = 0
          /\ net(3, "RECEIVABLE") = 0 /\ net(3, "REFUND_LIABILITY") = 0
      BY <1>1, <3>2, LegNets, SilentBooksNothing
    <3>4. net(3, "BANK") = obs[i].credit - obs[i].debit
      <4>1. CASE obs[i].debit = 0
        <5>1. net(3, "BANK") = obs[i].credit
          BY <1>1, <3>2, <4>1, LegNets
        <5> HIDE DEF net
        <5> QED BY <1>2, <4>1, <5>1
      <4>2. CASE obs[i].debit # 0
        <5>1. net(3, "BANK") = -obs[i].debit
          BY <1>1, <3>2, <4>2, LegNets
        <5>2. obs[i].credit = 0
          BY <3>2, <4>2
        <5> HIDE DEF net
        <5> QED BY <1>2, <5>1, <5>2
      <4> QED BY <4>1, <4>2
    <3> HIDE DEF net, booked
    <3> QED BY <1>2, <1>6, <3>3, <3>4
  <2> QED BY <2>1, <2>2, <2>3
<1> QED BY <1>6, <1>7, <1>8

\* An observation is posted once, so what is booked on it is its one posting.
LEMMA BookedIs ==
  ASSUME PostedOnce, NEW n \in DOMAIN posted, NEW account,
         NetOn(account, posted[n].lines) \in Int
  PROVE  Booked(account, posted[n].obs) = NetOn(account, posted[n].lines)
<1> DEFINE S == {k \in DOMAIN posted : posted[k].obs = posted[n].obs}
           w == [k \in S |-> NetOn(account, posted[k].lines)]
<1>1. S = {n}
  BY DEF PostedOnce
<1>2. Booked(account, posted[n].obs) = SumFunctionOnSet(w, S)
  BY DEF Booked, SumFunction
<1>3. w[n] = NetOn(account, posted[n].lines)
  BY <1>1
<1> HIDE DEF S, w
<1>4. IsFiniteSet(S) /\ \A k \in S : w[k] \in Int
  BY <1>1, <1>3, FS_Singleton
<1>5. SumFunctionOnSet(w, S) = w[n] + SumFunctionOnSet(w, S \ {n})
  BY <1>1, <1>4, SumTakesAny
<1>6. SumFunctionOnSet(w, S \ {n}) = 0
  <2>1. S \ {n} = {}
    BY <1>1
  <2> QED BY <2>1, SumOfNone, Zenon
<1>7. w[n] \in Int
  BY <1>3
<1> QED BY <1>2, <1>3, <1>5, <1>6, <1>7

-----------------------------------------------------------------------------
(* One more posting                                                        *)

LEMMA EvidenceKept == ASSUME obs' = obs PROVE \A s : HasEvidence(s)' = HasEvidence(s)
BY AnchorsKept, KindsKept DEF HasEvidence

LEMMA LinesKept == ASSUME obs' = obs PROVE \A rules, i : LinesOf(rules, i)' = LinesOf(rules, i)
<1>1. \A rule, i : Legs(rule, i)' = Legs(rule, i)
  BY DEF Legs, LegsOfP2, AdjustmentM
<1> QED BY <1>1 DEF LinesOf

LEMMA RulesKept ==
  ASSUME obs' = obs
  PROVE  \A i : IngestRule(i)' = IngestRule(i) /\ BankEvidenceRule(i)' = BankEvidenceRule(i)
BY DEF IngestRule, BankEvidenceRule

LEMMA TieOutsKept == ASSUME obs' = obs PROVE \A M : c5(M)' = c5(M) /\ Net(M)' = Net(M)
BY AnchorsKept DEF c5

\* What r, decided of observation i, must be for the books to stay as they should.
FitsBooks(i, r) ==
  /\ i \in DOMAIN obs /\ i \notin Settled /\ r.obs = i
  /\ r.members \subseteq MemberEligible
  /\ r.members # {} => Anchors \cup Undecided # {}
  /\ agent # "A1-NOVALIDATE" => r.members \cap DOMAIN targetOf = {}
  /\ agent # "A1-NOVALIDATE" /\ r.state = "RECONCILED" /\ Kind(i) = "settlement" =>
       c5(r.members) /\ Net(r.members) = obs[i].amount
  /\ i \in MemberEligible =>
       /\ r.members = {}
       /\ \E rules \in [1..3 -> RuleNames] : Ruled(rules, i) /\ r.lines = LinesOf(rules, i)

\* The rules of a row are the same as long as the record of allocations is.
LEMMA RuledKept ==
  ASSUME obs' = obs, DOMAIN targetOf' = DOMAIN targetOf,
         \A m \in DOMAIN targetOf : targetOf'[m] = targetOf[m]
  PROVE  \A rules, i : Ruled(rules, i) => Ruled(rules, i)'
<1> SUFFICES ASSUME NEW rules, NEW i, Ruled(rules, i) PROVE Ruled(rules, i)'
  OBVIOUS
<1>1. CreditSeen(i)' = CreditSeen(i)
  BY EvidenceKept DEF CreditSeen
<1> QED BY <1>1, KindsKept, RulesKept DEF Ruled

LEMMA AppendKeepsBooks ==
  ASSUME RunInv, BookInv, NEW i, NEW r, FitsBooks(i, r), Appends(r),
         obs' = obs, agent' = agent, status' # "done",
         targetOf' = [m \in r.members \cup DOMAIN targetOf |->
                        IF m \in r.members THEN i ELSE targetOf[m]]
  PROVE  BookInv'
<1> DEFINE last == Len(posted) + 1
<1>1. /\ last \in DOMAIN posted' /\ posted'[last] = r
      /\ DOMAIN posted' = DOMAIN posted \cup {last}
      /\ \A n \in DOMAIN posted : posted'[n] = posted[n]
      /\ last \notin DOMAIN posted
  BY DEF Appends
<1> HIDE DEF last
<1>2. RowsOneSided'
  BY DEF BookInv, RowsOneSided
<1>3. PostedOnce'
  BY <1>1 DEF BookInv, PostedOnce, FitsBooks, Settled
<1>4. MembersAreRows'
  BY <1>1, KindsKept DEF BookInv, MembersAreRows, FitsBooks
<1>5. RecordNamesTarget'
  <2> SUFFICES ASSUME agent # "A1-NOVALIDATE", NEW n \in DOMAIN posted',
                      NEW m \in posted'[n].members
               PROVE  targetOf'[m] = posted'[n].obs
    BY DEF RecordNamesTarget
  <2>1. CASE n = last
    BY <1>1, <2>1 DEF FitsBooks
  <2>2. CASE n \in DOMAIN posted
    <3>1. m \in DOMAIN targetOf /\ targetOf[m] = posted[n].obs
      BY <1>1, <2>2 DEF RunInv, Recorded, BookInv, RecordNamesTarget
    <3>2. m \notin r.members
      BY <3>1 DEF FitsBooks
    <3> QED BY <1>1, <2>2, <3>1, <3>2
  <2> QED BY <1>1, <2>1, <2>2
<1>6. SettledTiesOut'
  <2> SUFFICES ASSUME agent # "A1-NOVALIDATE", NEW n \in DOMAIN posted',
                      posted'[n].state = "RECONCILED", Kind(posted'[n].obs) = "settlement"
               PROVE  /\ c5(posted'[n].members)
                      /\ Net(posted'[n].members) = obs[posted'[n].obs].amount
    BY KindsKept, TieOutsKept DEF SettledTiesOut, DecidedAs
  <2>1. CASE n = last
    BY <1>1, <2>1 DEF FitsBooks
  <2>2. CASE n \in DOMAIN posted
    BY <1>1, <2>2 DEF BookInv, SettledTiesOut, DecidedAs
  <2> QED BY <1>1, <2>1, <2>2
<1>7. LinesAsRuled'
  <2> SUFFICES ASSUME NEW n \in DOMAIN posted', NEW j \in MemberEligible, posted'[n].obs = j
               PROVE  \E rules \in [1..3 -> RuleNames] :
                        Ruled(rules, j)' /\ posted'[n].lines = LinesOf(rules, j)
    BY KindsKept, LinesKept DEF LinesAsRuled
  <2>1. \E rules \in [1..3 -> RuleNames] :
          Ruled(rules, j) /\ posted'[n].lines = LinesOf(rules, j)
    <3>1. CASE n = last
      BY <1>1, <3>1 DEF FitsBooks
    <3>2. CASE n \in DOMAIN posted
      BY <1>1, <3>2 DEF BookInv, LinesAsRuled
    <3> QED BY <1>1, <3>1, <3>2
  <2>2. r.members = {}
    <3>1. CASE n = last
      BY <1>1, <3>1 DEF FitsBooks
    <3>2. CASE n \in DOMAIN posted
      BY <1>1, <3>2 DEF RunInv, MembersLast, FitsBooks
    <3> QED BY <1>1, <3>1, <3>2
  <2>3. DOMAIN targetOf' = DOMAIN targetOf /\ \A m \in DOMAIN targetOf : targetOf'[m] = targetOf[m]
    BY <2>2
  <2>4. \A rules : Ruled(rules, j) => Ruled(rules, j)'
    BY <2>3, RuledKept
  <2> QED BY <2>1, <2>4
<1>8. AllPostedWhenDone'
  BY DEF AllPostedWhenDone
<1> QED BY <1>2, <1>3, <1>4, <1>5, <1>6, <1>7, <1>8 DEF BookInv

\* Nothing posted or on record changes, and a run that ends has posted every row.
LEMMA IdleKeepsBooks ==
  ASSUME BookInv, UNCHANGED <<obs, agent, posted, targetOf>>,
         status' = "done" => MemberEligible \subseteq Settled
  PROVE  BookInv'
<1>1. RowsOneSided' /\ PostedOnce' /\ MembersAreRows' /\ RecordNamesTarget'
  BY KindsKept DEF BookInv, RowsOneSided, PostedOnce, MembersAreRows, RecordNamesTarget
<1>2. SettledTiesOut'
  BY KindsKept, TieOutsKept DEF BookInv, SettledTiesOut, DecidedAs
<1>3. LinesAsRuled'
  BY KindsKept, LinesKept, RuledKept DEF BookInv, LinesAsRuled
<1>4. AllPostedWhenDone'
  BY KindsKept DEF AllPostedWhenDone, Settled
<1> QED BY <1>1, <1>2, <1>3, <1>4 DEF BookInv

\* Posting a decision that fits, or refusing to, keeps the books.
LEMMA PostKeepsBooks ==
  ASSUME RunInv, BookInv, status = "running", NEW i, NEW c, NEW certificates,
         Post(i, c, certificates),
         ~Raises(i, Accepted(c)) => FitsBooks(i, Record(i, Accepted(c)))
  PROVE  BookInv'
<1>1. CASE Raises(i, c) \/ Raises(i, Accepted(c))
  BY <1>1, IdleKeepsBooks DEF Post, Abort
<1>2. CASE ~(Raises(i, c) \/ Raises(i, Accepted(c)))
  <2> DEFINE r == Record(i, Accepted(c))
  <2>1. /\ posted' = Append(posted, r)
        /\ targetOf' = [m \in Committed(c) \cup DOMAIN targetOf |->
                           IF m \in Committed(c) THEN i ELSE targetOf[m]]
        /\ obs' = obs /\ agent' = agent /\ status' = status
    BY <1>2 DEF Post
  <2>2. r.members = Committed(c)
    BY DEF Record, Committed
  <2>3. FitsBooks(i, r)
    BY <1>2
  <2> HIDE DEF r
  <2>4. Appends(r)
    <3> DEFINE old == {posted[n] : n \in DOMAIN posted}
    <3>1. /\ posted \in Seq(old \cup {r}) /\ Len(posted) \in Nat
          /\ DOMAIN posted = 1..Len(posted)
      BY DEF RunInv, PostedIsSeq
    <3>2. /\ posted' \in Seq(old \cup {r})
          /\ DOMAIN posted' = 1..(Len(posted) + 1)
          /\ \A n \in DOMAIN posted : posted'[n] = posted[n]
          /\ posted'[Len(posted) + 1] = r
      BY <2>1, <3>1
    <3>3. old \cup {r} = {posted'[n] : n \in DOMAIN posted'}
      BY <3>1, <3>2
    <3>4. PostedIsSeq'
      BY <3>2, <3>3 DEF PostedIsSeq
    <3> QED BY <3>1, <3>2, <3>4 DEF Appends
  <2>5. targetOf' = [m \in r.members \cup DOMAIN targetOf |->
                       IF m \in r.members THEN i ELSE targetOf[m]]
    BY <2>1, <2>2
  <2> QED BY <2>1, <2>3, <2>4, <2>5, AppendKeepsBooks
<1> QED BY <1>1, <1>2

-----------------------------------------------------------------------------
(* The passes and the books                                                *)

\* What S4 answers is rows of the report.
LEMMA BestIsOfRows ==
  ASSUME RunInv, NEW t \in DOMAIN outcomes
  PROVE  outcomes[t].best \subseteq MemberEligible
<1>1. outcomes[t] \in SolveOutcomes(t)
  BY DEF RunInv, OutcomesSound
<1>2. \A M \in Generated(t) : M \subseteq MemberEligible
  <2> SUFFICES ASSUME NEW M \in Generated(t) PROVE M \subseteq MemberEligible
    OBVIOUS
  <2>1. \E K : M = AnchoredMembers(t) \cup K /\ \E i \in Instants(t) : K \subseteq Class(t, i)
    <3> DEFINE Taken(i) == {K \in (SUBSET Class(t, i)) \ {{}} :
                              /\ Searched(t, i) /\ Reached(t, i)
                              /\ Rank(t, i, K) <= CMax
                              /\ Admissible(AnchoredMembers(t) \cup K, t)}
               All == UNION {Taken(i) : i \in Instants(t)}
    <3>1. Kind(t) # "bank_line"
      BY DEF Generated
    <3>2. Generated(t) = {AnchoredMembers(t) \cup K : K \in All}
      BY <3>1 DEF Generated
    <3>3. \A i : \A K \in Taken(i) : K \subseteq Class(t, i)
      OBVIOUS
    <3> HIDE DEF Taken
    <3>4. \A K \in All : \E i \in Instants(t) : K \subseteq Class(t, i)
      BY <3>3
    <3> HIDE DEF All
    <3> QED BY <3>2, <3>4
  <2>2. AnchoredMembers(t) \subseteq MemberEligible /\ \A i : Class(t, i) \subseteq MemberEligible
    BY DEF AnchoredMembers, Class, Pool
  <2> QED BY <2>1, <2>2
<1>3. outcomes[t].best \in Generated(t) \/ outcomes[t].best = {}
  BY <1>1 DEF SolveOutcomes
<1> QED BY <1>2, <1>3

\* A settlement S5 lets be reconciled ties out.
LEMMA ReconciledTiesOut ==
  ASSUME InputKept, NEW i \in DOMAIN obs, Kind(i) = "settlement", NEW members,
         agent # "A1-NOVALIDATE", Accepted(Reconciled(i, members)).state = "RECONCILED"
  PROVE  /\ c5(Accepted(Reconciled(i, members)).members)
         /\ Net(Accepted(Reconciled(i, members)).members) = obs[i].amount
<1> DEFINE c == Reconciled(i, members)
<1>1. c.amount = obs[i].amount
  BY DEF Reconciled, Nothing
<1>2. Valid(c)
  <2>1. exceptionFor("E05").state = "EXCEPTION"
    BY DEF exceptionFor, Nothing
  <2> HIDE DEF c
  <2> QED BY <2>1 DEF Accepted, c
<1>3. obs[i].amount # NoAmount
  <2>1. obs[i].amount \in Nat
    BY ObservedIs DEF Observations
  <2> QED BY <2>1 DEF NoAmount
<1> HIDE DEF c
<1>4. Accepted(c) = c
  BY <1>2 DEF Accepted
<1> QED BY <1>1, <1>2, <1>3, <1>4 DEF c, Valid, I3, I4

\* What S5 lets through was on record of nothing.
LEMMA AcceptedIsNew ==
  ASSUME agent # "A1-NOVALIDATE", NEW c
  PROVE  Accepted(c).members \cap DOMAIN targetOf = {}
BY AcceptedIsFresh DEF Allocated

LEMMA LinesOfRecord ==
  ASSUME NEW i, NEW c PROVE Record(i, c).lines = LinesOf(RulesOf(i, c), i)
BY DEF Record, LinesFor

LEMMA AnchorKeepsBooks == RunInv /\ BookInv /\ PostAnchor => BookInv'
<1> SUFFICES ASSUME RunInv, BookInv, PostAnchor PROVE BookInv'
  OBVIOUS
<1> DEFINE i == Min(Anchors)
           c == classifyAnchored(i)
           r == Record(i, Accepted(c))
<1>1. i \in Anchors
  <2>1. Anchors \subseteq Nat
    BY DEF Anchors, AnchorResolved, Settlements, BankLines, OfKind, RunInv, InputKept
  <2> QED BY <2>1, FirstIsIn DEF PostAnchor
<1>2. Post(i, c, certificateOf) /\ status = "running"
  BY DEF PostAnchor
<1> HIDE DEF i
<1>3. i \in DOMAIN obs /\ i \notin MemberEligible /\ i \notin Settled /\ Anchors # {}
  BY <1>1, KindsOfPasses DEF Anchors
<1>4. r.obs = i /\ r.state = Accepted(c).state /\ r.members = Accepted(c).members
  BY FieldsOfRecord
<1>5. r.members \subseteq MemberEligible
  <2>1. c.members \subseteq MemberEligible
    BY FieldsOfReconciled DEF classifyAnchored, AnchoredMembers
  <2> QED BY <1>4, <2>1, FallbackAllocatesNothing DEF Accepted
<1>6. agent # "A1-NOVALIDATE" => r.members \cap DOMAIN targetOf = {}
  BY <1>4, AcceptedIsNew
<1>7. agent # "A1-NOVALIDATE" /\ r.state = "RECONCILED" /\ Kind(i) = "settlement" =>
        c5(r.members) /\ Net(r.members) = obs[i].amount
  BY <1>3, <1>4, ReconciledTiesOut DEF classifyAnchored, RunInv
<1> HIDE DEF c, r
<1>8. FitsBooks(i, r)
  BY <1>3, <1>4, <1>5, <1>6, <1>7 DEF FitsBooks
<1> QED BY <1>2, <1>8, PostKeepsBooks DEF r

LEMMA TargetKeepsBooks == RunInv /\ BookInv /\ PostTarget => BookInv'
<1> SUFFICES ASSUME RunInv, BookInv, PostTarget PROVE BookInv'
  OBVIOUS
<1> DEFINE t == Min(Undecided)
           c == classifyTarget(t)
           r == Record(t, Accepted(c))
<1>1. t \in Undecided
  <2>1. Undecided \subseteq Nat
    BY DEF Undecided, Targets, Settlements, BankLines, OfKind, RunInv, InputKept
  <2> QED BY <2>1, FirstIsIn DEF PostTarget
<1>2. Post(t, c, Certify(t, c)) /\ Unsolved = {} /\ status = "running"
  BY DEF PostTarget
<1> HIDE DEF t
<1>3. /\ t \in DOMAIN outcomes /\ t \in DOMAIN obs /\ t \notin MemberEligible
      /\ t \notin Settled /\ Undecided # {}
  BY <1>1, <1>2, KindsOfPasses DEF Undecided, Unsolved
<1>4. r.obs = t /\ r.state = Accepted(c).state /\ r.members = Accepted(c).members
  BY FieldsOfRecord
<1>5. \/ c = Reconciled(t, outcomes[t].best)
      \/ \E class : c = exceptionFor(class)
      \/ \E certificate : c = Abstained("TARGET", certificate)
  BY DEF classifyTarget
<1>6. /\ c.members \subseteq MemberEligible
      /\ c.state = "RECONCILED" => c = Reconciled(t, outcomes[t].best)
  <2>1. ASSUME NEW class
        PROVE  exceptionFor(class).state = "EXCEPTION" /\ exceptionFor(class).members = {}
    BY DEF exceptionFor, Nothing
  <2>2. ASSUME NEW certificate
        PROVE  /\ Abstained("TARGET", certificate).state = "ABSTAINED"
               /\ Abstained("TARGET", certificate).members = {}
    BY DEF Abstained, Nothing
  <2> HIDE DEF c
  <2> QED BY <1>3, <1>5, <2>1, <2>2, BestIsOfRows, FieldsOfReconciled
<1> HIDE DEF c
<1>7. r.members \subseteq MemberEligible
  BY <1>4, <1>6, FallbackAllocatesNothing DEF Accepted
<1>8. agent # "A1-NOVALIDATE" => r.members \cap DOMAIN targetOf = {}
  BY <1>4, AcceptedIsNew
<1>9. r.state = "RECONCILED" => c.state = "RECONCILED"
  <2>1. exceptionFor("E05").state = "EXCEPTION"
    BY DEF exceptionFor, Nothing
  <2> QED BY <1>4, <2>1 DEF Accepted
<1>10. agent # "A1-NOVALIDATE" /\ r.state = "RECONCILED" /\ Kind(t) = "settlement" =>
         c5(r.members) /\ Net(r.members) = obs[t].amount
  BY <1>3, <1>4, <1>6, <1>9, ReconciledTiesOut DEF RunInv
<1> HIDE DEF r
<1>11. FitsBooks(t, r)
  BY <1>3, <1>4, <1>7, <1>8, <1>10 DEF FitsBooks
<1> QED BY <1>2, <1>11, PostKeepsBooks DEF r

\* What the rest of the observations post touches no row.
LEMMA RestKeepsBooks == RunInv /\ BookInv /\ PostRest => BookInv'
<1> SUFFICES ASSUME RunInv, BookInv, PostRest PROVE BookInv'
  OBVIOUS
<1> DEFINE i == Min(Rest)
           c == classifyUnpostable(i)
           r == Record(i, Accepted(c))
<1>1. i \in Rest
  <2>1. Rest \subseteq Nat
    BY DEF Rest, RunInv, InputKept
  <2> QED BY <2>1, FirstIsIn DEF PostRest
<1>2. Post(i, c, certificateOf) /\ Anchors \cup Undecided \cup Members = {} /\ status = "running"
  BY DEF PostRest
<1> HIDE DEF i
<1>3. i \in DOMAIN obs /\ i \notin MemberEligible /\ i \notin Settled
  BY <1>1, <1>2 DEF Rest, Members
<1>4. Kind(i) # "settlement"
  BY <1>2, <1>3 DEF Anchors, Undecided, Targets, Settlements, OfKind
<1>5. r.obs = i /\ r.members = Accepted(c).members
  BY FieldsOfRecord
<1>6. c = Reconciled(i, {}) \/ \E class : c = exceptionFor(class)
  BY DEF classifyUnpostable
<1>7. c.members = {}
  BY <1>6, FieldsOfReconciled, FallbackAllocatesNothing
<1>8. r.members = {}
  BY <1>5, <1>7, FallbackAllocatesNothing DEF Accepted
<1> HIDE DEF c, r
<1>9. FitsBooks(i, r)
  BY <1>3, <1>4, <1>5, <1>8 DEF FitsBooks
<1> QED BY <1>2, <1>9, PostKeepsBooks DEF r

\* An exception is let through as it is proposed.
LEMMA ExceptionIs ==
  ASSUME NEW class
  PROVE  /\ Accepted(exceptionFor(class)) = exceptionFor(class)
         /\ exceptionFor(class).state = "EXCEPTION" /\ exceptionFor(class).class = class
         /\ exceptionFor(class).evidence = 0
<1> DEFINE c == exceptionFor(class)
<1>1. /\ c.state = "EXCEPTION" /\ c.class = class /\ c.evidence = 0
      /\ c.members = {} /\ c.amount = NoAmount /\ c.tied_to = 0
      /\ c.certificate = NoCertificate
  BY DEF exceptionFor, Nothing
<1> HIDE DEF c
<1>2. Valid(c)
  BY <1>1, PlainIsValid
<1> QED BY <1>1, <1>2 DEF Accepted, c

\* The rules of the decision of a row.
LEMMA RowsAreRuled ==
  ASSUME RunInv, BookInv, NEW m \in MemberEligible,
         ~Raises(m, Accepted(classifyMember(m)))
  PROVE  LET rules == RulesOf(m, Accepted(classifyMember(m))) IN
         rules \in [1..3 -> RuleNames] /\ Ruled(rules, m)
<1> DEFINE c == classifyMember(m)
           d == Accepted(c)
           rules == RulesOf(m, d)
<1>1. /\ m \in DOMAIN obs /\ Kind(m) \in {"recon_line", "adjustment"}
      /\ Kind(m) \notin SilentKinds
      /\ obs[m].type \in {"payment", "refund"} <=> Kind(m) = "recon_line"
  BY ObservedIs DEF RunInv, MemberEligible, OfKind, SilentKinds, Observations, OfItsKind, Kind
<1>2. /\ DOMAIN rules = 1..3
      /\ rules[1] = IF Kind(m) = "recon_line" THEN IngestRule(m) ELSE Silent
      /\ rules[2] = IF Kind(m) = "recon_line" /\ d.evidence # 0 THEN BankEvidenceRule(m) ELSE Silent
      /\ rules[3] = TerminalRule(m, d)
      /\ rules = [n \in 1..3 |-> rules[n]]
  BY DEF RulesOf
<1>3. SUFFICES rules[3] \in RuleNames /\ Ruled(rules, m)
  <2>1. rules[1] \in RuleNames /\ rules[2] \in RuleNames
    BY <1>1, <1>2 DEF RuleNames, IngestRule, BankEvidenceRule
  <2> HIDE DEF rules
  <2>2. ASSUME rules[3] \in RuleNames PROVE rules \in [1..3 -> RuleNames]
    BY <1>2, <2>1, <2>2
  <2> QED BY <2>2 DEF rules
<1> HIDE DEF rules
<1>4. CASE Kind(m) = "adjustment"
  <2>1. c = exceptionFor("E12")
    BY <1>4 DEF classifyMember
  <2> HIDE DEF c
  <2>2. d.state = "EXCEPTION" /\ d.class = "E12"
    BY <2>1, ExceptionIs
  <2> HIDE DEF d
  <2>3. TerminalRule(m, d) = ExceptionRule(m, "E12")
    BY <1>1, <2>2 DEF TerminalRule
  <2>4. ExceptionRule(m, "E12") = "P8"
    BY <1>4 DEF ExceptionRule, ExceptionRow
  <2>5. ~Refused("P8", m)
    <3>1. ~Refused(RulesOf(m, d)[3], m)
      BY DEF Raises, d, c
    <3> QED BY <1>2, <2>3, <2>4, <3>1 DEF rules
  <2>6. (obs[m].debit = 0) # (obs[m].credit = 0)
    BY <2>5 DEF Refused
  <2> QED BY <1>2, <1>4, <2>3, <2>4, <2>6 DEF Ruled, RuleNames
<1>5. CASE Kind(m) # "adjustment"
  <2>1. Kind(m) = "recon_line"
    BY <1>1, <1>5
  <2>2. SUFFICES /\ d.evidence # 0 <=> CreditSeen(m)
                 /\ TerminalRule(m, d) \in {"P6", Silent}
                 /\ m \in DOMAIN targetOf => TerminalRule(m, d) = Silent
    BY <1>2, <2>1 DEF Ruled, RuleNames
  <2>3. CASE m \in DOMAIN targetOf
    <3>1. c = [Nothing EXCEPT !.state = "RECONCILED", !.evidence = EvidenceFor(m)]
      BY <1>5, <2>3 DEF classifyMember
    <3>2. /\ c.state = "RECONCILED" /\ c.members = {} /\ c.amount = NoAmount
          /\ c.tied_to = 0 /\ c.certificate = NoCertificate /\ c.evidence = EvidenceFor(m)
      BY <3>1 DEF Nothing
    <3> HIDE DEF c
    <3>3. d = c
      BY <3>2, PlainIsValid DEF Accepted
    <3>4. TerminalRule(m, c) = Silent
      BY <1>1, <2>1, <3>2 DEF TerminalRule
    <3>5. targetOf[m] # 0
      <4>1. targetOf[m] \in DOMAIN obs
        BY <2>3 DEF BookInv, MembersAreRows
      <4> QED BY <4>1 DEF RunInv, InputKept
    <3>6. EvidenceFor(m) # 0 <=> CreditSeen(m)
      BY <2>3, <3>5 DEF EvidenceFor, CreditSeen
    <3> HIDE DEF d
    <3> QED BY <3>2, <3>3, <3>4, <3>6
  <2>4. CASE m \notin DOMAIN targetOf /\ CertificatesOver(m) # {}
    <3> DEFINE certificate == CHOOSE certificate \in CertificatesOver(m) : TRUE
    <3>1. c = Abstained("MEMBER", certificate)
      BY <1>5, <2>4 DEF classifyMember
    <3>2. c.state = "ABSTAINED" /\ c.role = "MEMBER" /\ c.evidence = 0
      BY <3>1 DEF Abstained, Nothing
    <3> HIDE DEF c
    <3>3. d = c \/ d = exceptionFor("E05")
      BY DEF Accepted
    <3>4. TerminalRule(m, c) = Silent
      BY <1>1, <2>1, <3>2 DEF TerminalRule, AbstainedRule
    <3>5. TerminalRule(m, exceptionFor("E05")) = Silent /\ exceptionFor("E05").evidence = 0
      BY <1>1, ExceptionIs DEF TerminalRule, ExceptionRule, ExceptionRow
    <3> HIDE DEF d
    <3> QED BY <2>4, <3>2, <3>3, <3>4, <3>5 DEF CreditSeen
  <2>5. CASE m \notin DOMAIN targetOf /\ CertificatesOver(m) = {}
    <3> DEFINE class == IF obs[m].type = "payment" THEN "E02" ELSE "E11"
    <3>1. c = exceptionFor(class)
      BY <1>5, <2>5 DEF classifyMember
    <3> HIDE DEF c
    <3>2. d.state = "EXCEPTION" /\ d.class = class /\ d.evidence = 0
      BY <3>1, ExceptionIs
    <3> HIDE DEF d
    <3>3. TerminalRule(m, d) = ExceptionRule(m, class)
      BY <1>1, <3>2 DEF TerminalRule
    <3>4. ExceptionRule(m, class) \in {"P6", Silent}
      BY <2>1 DEF ExceptionRule, ExceptionRow
    <3> QED BY <2>5, <3>2, <3>3, <3>4 DEF CreditSeen
  <2> QED BY <2>3, <2>4, <2>5
<1> QED BY <1>4, <1>5

LEMMA MemberKeepsBooks == RunInv /\ BookInv /\ PostMember => BookInv'
<1> SUFFICES ASSUME RunInv, BookInv, PostMember PROVE BookInv'
  OBVIOUS
<1> DEFINE m == Min(Members)
           c == classifyMember(m)
           d == Accepted(c)
           r == Record(m, d)
<1>1. m \in Members
  <2>1. Members \subseteq Nat
    BY DEF Members, MemberEligible, OfKind, RunInv, InputKept
  <2> QED BY <2>1, FirstIsIn DEF PostMember
<1>2. Post(m, c, certificateOf) /\ status = "running"
  BY DEF PostMember
<1> HIDE DEF m
<1>3. m \in MemberEligible /\ m \in DOMAIN obs /\ m \notin Settled
  BY <1>1, KindsOfPasses DEF Members
<1>4. r.obs = m /\ r.members = d.members /\ d.members = {}
  BY FieldsOfRecord, LineDecision
<1>5. Kind(m) # "settlement"
  BY <1>3 DEF MemberEligible, OfKind
<1>6. ASSUME ~Raises(m, d) PROVE FitsBooks(m, r)
  <2>1. RulesOf(m, d) \in [1..3 -> RuleNames] /\ Ruled(RulesOf(m, d), m)
    BY <1>3, <1>6, RowsAreRuled
  <2>2. r.lines = LinesOf(RulesOf(m, d), m)
    BY LinesOfRecord
  <2> HIDE DEF r, d
  <2> QED BY <1>3, <1>4, <1>5, <2>1, <2>2 DEF FitsBooks
<1> QED BY <1>2, <1>6, PostKeepsBooks

LEMMA NextBookInv == RunInv /\ BookInv /\ [Next]_vars => BookInv'
<1> SUFFICES ASSUME RunInv, BookInv, [Next]_vars PROVE BookInv'
  OBVIOUS
<1>1. CASE Solve
  BY <1>1, IdleKeepsBooks DEF Solve
<1>2. CASE Close
  <2>1. MemberEligible \subseteq Settled
    BY <1>2 DEF Close, Members
  <2> QED BY <1>2, <2>1, IdleKeepsBooks DEF Close
<1>3. CASE Ended \/ UNCHANGED vars
  BY <1>3, IdleKeepsBooks DEF Ended, vars, BookInv, AllPostedWhenDone
<1> QED BY <1>1, <1>2, <1>3, AnchorKeepsBooks, TargetKeepsBooks, MemberKeepsBooks,
        RestKeepsBooks DEF Next

LEMMA InitBookInv == Init => BookInv
<1> SUFFICES ASSUME Init PROVE BookInv
  OBVIOUS
<1>1. DOMAIN posted = {} /\ DOMAIN targetOf = {} /\ status = "running"
  BY DEF Init
<1>2. RowsOneSided
  BY RowsAssumption DEF Init, RowsOneSided
<1> QED BY <1>1, <1>2 DEF BookInv, PostedOnce, MembersAreRows, RecordNamesTarget,
        SettledTiesOut, DecidedAs, LinesAsRuled, AllPostedWhenDone

\* What is on record of the books, at every point of a run.
THEOREM BookInvariance == Spec => []BookInv
  BY InitBookInv, NextBookInv, RunInvariance, PTL DEF Spec

-----------------------------------------------------------------------------
(* The theorem the books are for                                           *)

\* A member of a settlement reconciled to its credit books what it settled for
\* to BANK, and leaves nothing open on the gateway.
LEMMA MemberBooks ==
  ASSUME RunInv, BookInv, status = "done", agent # "A1-NOVALIDATE",
         NEW n \in SettledInBank, NEW m \in posted[n].members
  PROVE  /\ m \in MemberEligible
         /\ Booked("BANK", m) = obs[m].credit - obs[m].debit
         /\ Booked("RECEIVABLE", m) = 0
         /\ Booked("REFUND_LIABILITY", m) = 0
<1>1. /\ n \in DOMAIN posted /\ n \in DecidedAs("RECONCILED")
      /\ Kind(posted[n].obs) = "settlement" /\ HasEvidence(posted[n].obs)
  BY DEF SettledInBank, DecidedAs
<1>2. m \in MemberEligible
  BY <1>1 DEF BookInv, MembersAreRows
<1>3. CreditSeen(m)
  <2>1. m \in DOMAIN targetOf /\ targetOf[m] = posted[n].obs
    BY <1>1 DEF RunInv, Recorded, BookInv, RecordNamesTarget
  <2> QED BY <1>1, <2>1 DEF CreditSeen
<1>4. c5({m})
  <2>1. c5(posted[n].members)
    BY <1>1 DEF BookInv, SettledTiesOut
  <2> QED BY <2>1 DEF c5
<1>5. PICK k \in DOMAIN posted : posted[k].obs = m
  BY <1>2 DEF BookInv, AllPostedWhenDone, Settled
<1>6. PICK rules \in [1..3 -> RuleNames] : Ruled(rules, m) /\ posted[k].lines = LinesOf(rules, m)
  BY <1>2, <1>5 DEF BookInv, LinesAsRuled
<1>7. InputKept /\ RowsOneSided /\ PostedOnce
  BY DEF RunInv, BookInv
<1>8. /\ NetOn("BANK", posted[k].lines) = obs[m].credit - obs[m].debit
      /\ NetOn("BANK", posted[k].lines) \in Int
      /\ NetOn("RECEIVABLE", posted[k].lines) = 0
      /\ NetOn("REFUND_LIABILITY", posted[k].lines) = 0
  BY <1>2, <1>3, <1>4, <1>6, <1>7, RuledNets
<1>9. 0 \in Int
  OBVIOUS
<1>10. \A account \in {"BANK", "RECEIVABLE", "REFUND_LIABILITY"} :
         NetOn(account, posted[k].lines) \in Int
  BY <1>8, <1>9
<1>11. \A account \in {"BANK", "RECEIVABLE", "REFUND_LIABILITY"} :
         Booked(account, m) = NetOn(account, posted[k].lines)
  BY <1>5, <1>7, <1>10, BookedIs
<1> QED BY <1>2, <1>8, <1>11

\* In every run of every input the money on the BANK account is the money on the
\* statement: what the members of a settlement with a credit book there sums to
\* the credit, and no payment or refund books any without one.
THEOREM BankFollows == Spec => []BankFollowsStatement
<1>1. RunInv /\ BookInv => BankBooksSettled
  <2> SUFFICES ASSUME RunInv, BookInv, status = "done", agent # "A1-NOVALIDATE",
                      NEW n \in SettledInBank
               PROVE  /\ SumFunction([m \in posted[n].members |-> Booked("BANK", m)])
                           = obs[posted[n].obs].amount
                      /\ \A m \in posted[n].members :
                           Booked("RECEIVABLE", m) = 0 /\ Booked("REFUND_LIABILITY", m) = 0
    BY DEF BankBooksSettled
  <2>1. \A m \in posted[n].members :
          /\ m \in MemberEligible
          /\ Booked("BANK", m) = obs[m].credit - obs[m].debit
          /\ Booked("RECEIVABLE", m) = 0
          /\ Booked("REFUND_LIABILITY", m) = 0
    BY MemberBooks
  <2> DEFINE M == posted[n].members
             w == [m \in M |-> Booked("BANK", m)]
             u == [m \in M |-> obs[m].credit]
             v == [m \in M |-> obs[m].debit]
  <2>2. IsFiniteSet(M)
    <3>1. M \subseteq 1..Len(obs) /\ Len(obs) \in Nat
      BY <2>1 DEF MemberEligible, OfKind, RunInv, InputKept
    <3>2. IsFiniteSet(1..Len(obs))
      BY <3>1, FS_Interval
    <3> QED BY <3>1, <3>2, FS_Subset
  <2>3. \A m \in M : u[m] \in Int /\ v[m] \in Int /\ w[m] = u[m] - v[m]
    <3>1. \A m \in M : obs[m].credit \in Int /\ obs[m].debit \in Int
      <4>1. \A m \in M : obs[m] \in Observations
        BY <2>1, ObservedIs DEF RunInv, MemberEligible, OfKind
      <4> QED BY <4>1 DEF Observations
    <3> QED BY <2>1, <3>1
  <2>4. Net(M) = obs[posted[n].obs].amount
    BY DEF SettledInBank, BookInv, SettledTiesOut, DecidedAs
  <2>5. /\ Net(M) = SumFunctionOnSet(u, M) - SumFunctionOnSet(v, M)
        /\ SumFunction(w) = SumFunctionOnSet(w, M)
    BY DEF Net, Credit, Debit, SumFunction
  <2> HIDE DEF M, w, u, v
  <2>6. SumFunctionOnSet(w, M) = SumFunctionOnSet(u, M) - SumFunctionOnSet(v, M)
    BY <2>2, <2>3, SumOfDifferences
  <2>7. SumFunction(w) = obs[posted[n].obs].amount
    BY <2>4, <2>5, <2>6
  <2> QED BY <2>1, <2>7 DEF w, M
<1>2. RunInv /\ BookInv => BankOnlyOnEvidence
  <2> SUFFICES ASSUME RunInv, BookInv, NEW n \in DOMAIN posted,
                      Kind(posted[n].obs) = "recon_line", ~CreditSeen(posted[n].obs)
               PROVE  Booked("BANK", posted[n].obs) = 0
    BY DEF BankOnlyOnEvidence, CreditSeen
  <2>1. posted[n].obs \in MemberEligible
    BY DEF RunInv, PostedAreObserved, Settled, MemberEligible, OfKind
  <2>2. PICK rules \in [1..3 -> RuleNames] :
          Ruled(rules, posted[n].obs) /\ posted[n].lines = LinesOf(rules, posted[n].obs)
    BY <2>1 DEF BookInv, LinesAsRuled
  <2>3. NetOn("BANK", posted[n].lines) = 0
    BY <2>1, <2>2, RuledNets DEF RunInv, BookInv
  <2>4. NetOn("BANK", posted[n].lines) \in Int
    BY <2>3
  <2> QED BY <2>3, <2>4, BookedIs DEF BookInv
<1> QED BY <1>1, <1>2, RunInvariance, BookInvariance, PTL DEF BankFollowsStatement

-----------------------------------------------------------------------------
(* Sums by parts                                                           *)

LEMMA SumOfZeros ==
  ASSUME NEW D, IsFiniteSet(D), NEW w, \A x \in D : w[x] = 0
  PROVE  SumFunctionOnSet(w, D) = 0
<1>1. \A x \in D : w[x] \in Int /\ w[x] \in Int /\ w[x] = w[x] - w[x]
  OBVIOUS
<1>2. SumFunctionOnSet(w, D) = SumFunctionOnSet(w, D) - SumFunctionOnSet(w, D)
  BY <1>1, SumOfDifferences
<1>3. SumFunctionOnSet(w, D) \in Int
  BY <1>1, SumIsInt
<1> DEFINE s == SumFunctionOnSet(w, D)
<1> HIDE DEF s
<1> QED BY <1>2, <1>3 DEF s

\* A sum looks at nothing but its terms.
LEMMA SumAgrees ==
  ASSUME NEW D, IsFiniteSet(D), NEW w, NEW u, \A x \in D : u[x] \in Int /\ w[x] = u[x]
  PROVE  SumFunctionOnSet(w, D) = SumFunctionOnSet(u, D)
<1> DEFINE z == [x \in D |-> 0]
<1>1. \A x \in D : u[x] \in Int /\ z[x] \in Int /\ w[x] = u[x] - z[x]
  OBVIOUS
<1>2. SumFunctionOnSet(z, D) = 0
  <2>1. \A x \in D : z[x] = 0
    OBVIOUS
  <2> HIDE DEF z
  <2> QED BY <2>1, SumOfZeros
<1> HIDE DEF z
<1>3. SumFunctionOnSet(w, D) = SumFunctionOnSet(u, D) - SumFunctionOnSet(z, D)
  BY <1>1, SumOfDifferences
<1>4. SumFunctionOnSet(u, D) \in Int
  BY SumIsInt
<1> QED BY <1>2, <1>3, <1>4

LEMMA SumIsNat ==
  ASSUME NEW D, IsFiniteSet(D), NEW w, \A x \in D : w[x] \in Nat
  PROVE  SumFunctionOnSet(w, D) \in Nat
<1> DEFINE F == {S \in SUBSET D : SumFunctionOnSet(w, S) \notin Nat}
<1>1. SUFFICES ASSUME F # {} PROVE FALSE
  OBVIOUS
<1>2. PICK T \in F : \A S \in F : S \subseteq T => S = T
  <2>1. F \subseteq SUBSET D
    OBVIOUS
  <2> HIDE DEF F
  <2> QED BY <1>1, <2>1, SmallestSubset
<1>3. T \in SUBSET D /\ SumFunctionOnSet(w, T) \notin Nat /\ IsFiniteSet(T)
  BY <1>2, FS_Subset
<1>4. T # {}
  BY <1>3, SumOfNone
<1>5. FirstOf(T) \in T /\ RestOf(T) \subseteq T /\ RestOf(T) # T
  BY <1>4, RestIsLess
<1>6. SumFunctionOnSet(w, RestOf(T)) \in Nat
  BY <1>2, <1>5
<1>7. SumFunctionOnSet(w, T) = w[FirstOf(T)] + SumFunctionOnSet(w, RestOf(T))
  BY <1>3, <1>4, SumUnfolds DEF Unfolds
<1> QED BY <1>3, <1>5, <1>6, <1>7

\* The terms of T in each of the parts P, and their sums.
PartOf(T, p, c) == {x \in T : p[x] = c}
Parts(w, T, p, P) == [c \in P |-> SumFunctionOnSet(w, PartOf(T, p, c))]

\* Taking a term out of T takes it out of its part.
LEMMA PartsWithout ==
  ASSUME NEW T, IsFiniteSet(T), NEW w, \A x \in T : w[x] \in Int,
         NEW P, IsFiniteSet(P), NEW p, \A x \in T : p[x] \in P, NEW y \in T
  PROVE  SumFunctionOnSet(Parts(w, T, p, P), P)
           = w[y] + SumFunctionOnSet(Parts(w, T \ {y}, p, P), P)
<1> DEFINE v == Parts(w, T, p, P)
           u == Parts(w, T \ {y}, p, P)
           c == p[y]
<1>1. \A d \in P : v[d] = SumFunctionOnSet(w, PartOf(T, p, d))
                   /\ u[d] = SumFunctionOnSet(w, PartOf(T \ {y}, p, d))
  BY DEF Parts
<1>2. \A S \in SUBSET T : SumFunctionOnSet(w, S) \in Int
  <2> SUFFICES ASSUME NEW S \in SUBSET T PROVE SumFunctionOnSet(w, S) \in Int
    OBVIOUS
  <2>1. IsFiniteSet(S)
    BY FS_Subset
  <2> QED BY <2>1, SumIsInt
<1>3. \A d \in P : PartOf(T, p, d) \in SUBSET T /\ PartOf(T \ {y}, p, d) \in SUBSET T
  BY DEF PartOf
<1>4. \A d \in P : v[d] \in Int /\ u[d] \in Int
  <2> HIDE DEF v, u
  <2> QED BY <1>1, <1>2, <1>3
<1>5. v[c] = w[y] + u[c]
  <2> DEFINE S == PartOf(T, p, c)
  <2>1. S \subseteq T /\ y \in S
    BY DEF PartOf
  <2>2. S \ {y} = PartOf(T \ {y}, p, c)
    BY DEF PartOf
  <2> HIDE DEF S
  <2>3. SumFunctionOnSet(w, S) = w[y] + SumFunctionOnSet(w, S \ {y})
    <3>1. IsFiniteSet(S) /\ \A x \in S : w[x] \in Int
      BY <2>1, FS_Subset
    <3> QED BY <2>1, <3>1, SumTakesAny
  <2> HIDE DEF v, u
  <2> QED BY <1>1, <2>2, <2>3 DEF S
<1>6. \A d \in P \ {c} : v[d] = u[d]
  <2> SUFFICES ASSUME NEW d \in P \ {c} PROVE v[d] = u[d]
    OBVIOUS
  <2>1. PartOf(T, p, d) = PartOf(T \ {y}, p, d)
    BY DEF PartOf
  <2> HIDE DEF v, u
  <2> QED BY <1>1, <2>1
<1>7. c \in P /\ w[y] \in Int
  OBVIOUS
<1> HIDE DEF v, u, c
<1>8. SumFunctionOnSet(v, P) = v[c] + SumFunctionOnSet(v, P \ {c})
  BY <1>4, <1>7, SumTakesAny
<1>9. SumFunctionOnSet(u, P) = u[c] + SumFunctionOnSet(u, P \ {c})
  BY <1>4, <1>7, SumTakesAny
<1>10. IsFiniteSet(P \ {c})
  BY FS_Subset
<1>11. SumFunctionOnSet(v, P \ {c}) = SumFunctionOnSet(u, P \ {c})
  <2>1. \A d \in P \ {c} : u[d] \in Int /\ v[d] = u[d]
    BY <1>4, <1>6
  <2> QED BY <1>10, <2>1, SumAgrees
<1>12. SumFunctionOnSet(u, P \ {c}) \in Int
  BY <1>4, <1>10, SumIsInt
<1>13. u[c] \in Int
  BY <1>4, <1>7
<1> DEFINE rest == SumFunctionOnSet(u, P \ {c})
<1> HIDE DEF rest
<1>14. SumFunctionOnSet(v, P) = (w[y] + u[c]) + rest
  BY <1>5, <1>8, <1>11 DEF rest
<1>15. SumFunctionOnSet(u, P) = u[c] + rest
  BY <1>9 DEF rest
<1>16. rest \in Int
  BY <1>12 DEF rest
<1>17. SumFunctionOnSet(v, P) = w[y] + SumFunctionOnSet(u, P)
  BY <1>7, <1>13, <1>14, <1>15, <1>16
<1> QED BY <1>17 DEF v, u

\* A sum is the sum of the sums of its parts.
LEMMA SumByParts ==
  ASSUME NEW D, IsFiniteSet(D), NEW w, \A x \in D : w[x] \in Int,
         NEW P, IsFiniteSet(P), NEW p, \A x \in D : p[x] \in P
  PROVE  SumFunctionOnSet(w, D) = SumFunctionOnSet(Parts(w, D, p, P), P)
<1> DEFINE F == {S \in SUBSET D : SumFunctionOnSet(w, S) # SumFunctionOnSet(Parts(w, S, p, P), P)}
<1>1. SUFFICES ASSUME F # {} PROVE FALSE
  OBVIOUS
<1>2. PICK T \in F : \A S \in F : S \subseteq T => S = T
  <2>1. F \subseteq SUBSET D
    OBVIOUS
  <2> HIDE DEF F
  <2> QED BY <1>1, <2>1, SmallestSubset
<1>3. /\ T \in SUBSET D /\ IsFiniteSet(T)
      /\ SumFunctionOnSet(w, T) # SumFunctionOnSet(Parts(w, T, p, P), P)
  BY <1>2, FS_Subset
<1>4. T # {}
  <2> SUFFICES ASSUME T = {} PROVE FALSE
    OBVIOUS
  <2> DEFINE v == Parts(w, T, p, P)
  <2>1. \A c \in P : v[c] = 0
    <3> SUFFICES ASSUME NEW c \in P PROVE v[c] = 0
      OBVIOUS
    <3>1. PartOf(T, p, c) = {}
      BY DEF PartOf
    <3>2. v[c] = SumFunctionOnSet(w, PartOf(T, p, c))
      BY DEF Parts
    <3> HIDE DEF v
    <3> QED BY <3>1, <3>2, SumOfNone, Zenon
  <2> HIDE DEF v
  <2>2. SumFunctionOnSet(v, P) = 0
    BY <2>1, SumOfZeros
  <2>3. SumFunctionOnSet(w, T) = 0
    BY SumOfNone, Zenon
  <2> QED BY <1>3, <2>2, <2>3 DEF v
<1> DEFINE y == FirstOf(T)
           rest == RestOf(T)
<1>5. y \in T /\ rest = T \ {y} /\ rest \subseteq T /\ rest # T
  BY <1>4, RestIsLess DEF RestOf
<1>6. SumFunctionOnSet(w, rest) = SumFunctionOnSet(Parts(w, rest, p, P), P)
  BY <1>2, <1>5
<1>7. SumFunctionOnSet(w, T) = w[y] + SumFunctionOnSet(w, rest)
  BY <1>3, <1>4, SumUnfolds DEF Unfolds
<1> HIDE DEF y, rest
<1>8. SumFunctionOnSet(Parts(w, T, p, P), P)
        = w[y] + SumFunctionOnSet(Parts(w, T \ {y}, p, P), P)
  <2>1. \A x \in T : w[x] \in Int /\ p[x] \in P
    BY <1>3
  <2> QED BY <1>3, <1>5, <2>1, PartsWithout
<1> QED BY <1>3, <1>5, <1>6, <1>7, <1>8

\* The same, with the sums of the parts at hand.
LEMMA SumInParts ==
  ASSUME NEW D, IsFiniteSet(D), NEW w, \A x \in D : w[x] \in Int,
         NEW P, IsFiniteSet(P), NEW p, \A x \in D : p[x] \in P,
         NEW v, \A c \in P : v[c] \in Int /\ SumFunctionOnSet(w, PartOf(D, p, c)) = v[c]
  PROVE  SumFunctionOnSet(w, D) = SumFunctionOnSet(v, P)
<1>1. SumFunctionOnSet(w, D) = SumFunctionOnSet(Parts(w, D, p, P), P)
  BY SumByParts
<1>2. \A c \in P : v[c] \in Int /\ Parts(w, D, p, P)[c] = v[c]
  BY DEF Parts
<1> DEFINE u == Parts(w, D, p, P)
<1> HIDE DEF u
<1>3. SumFunctionOnSet(u, P) = SumFunctionOnSet(v, P)
  <2>1. \A c \in P : v[c] \in Int /\ u[c] = v[c]
    BY <1>2 DEF u
  <2> QED BY <2>1, SumAgrees
<1> QED BY <1>1, <1>3 DEF u

LEMMA SumOfOne ==
  ASSUME NEW x, NEW w, w[x] \in Int
  PROVE  SumFunctionOnSet(w, {x}) = w[x]
<1>1. IsFiniteSet({x}) /\ \A y \in {x} : w[y] \in Int
  BY FS_Singleton
<1>2. SumFunctionOnSet(w, {x}) = w[x] + SumFunctionOnSet(w, {x} \ {x})
  BY <1>1, SumTakesAny
<1>3. SumFunctionOnSet(w, {x} \ {x}) = 0
  <2>1. {x} \ {x} = {}
    OBVIOUS
  <2> QED BY <2>1, SumOfNone, Zenon
<1> QED BY <1>2, <1>3

\* A sum over other indices: each term of the one is at one place of the other, and
\* what is at no place is zero.
LEMMA SumElsewhere ==
  ASSUME NEW D, IsFiniteSet(D), NEW w, NEW P, IsFiniteSet(P), NEW p, NEW v,
         \A x \in D : p[x] \in P /\ v[p[x]] = w[x],
         \A x, y \in D : p[x] = p[y] => x = y,
         \A c \in P : v[c] \in Int /\ ((\A x \in D : p[x] # c) => v[c] = 0)
  PROVE  SumFunctionOnSet(w, D) = SumFunctionOnSet(v, P)
<1>1. \A x \in D : w[x] \in Int /\ p[x] \in P
  OBVIOUS
<1>2. ASSUME NEW c \in P PROVE SumFunctionOnSet(w, PartOf(D, p, c)) = v[c]
  <2>1. CASE \E x \in D : p[x] = c
    <3>1. PICK x \in D : p[x] = c
      BY <2>1
    <3>2. PartOf(D, p, c) = {x}
      BY <3>1 DEF PartOf
    <3>3. SumFunctionOnSet(w, {x}) = w[x]
      BY <1>1, SumOfOne
    <3> QED BY <3>1, <3>2, <3>3
  <2>2. CASE \A x \in D : p[x] # c
    <3>1. PartOf(D, p, c) = {}
      BY <2>2 DEF PartOf
    <3>2. SumFunctionOnSet(w, {}) = 0
      BY SumOfNone, Zenon
    <3> QED BY <2>2, <3>1, <3>2
  <2> QED BY <2>1, <2>2
<1> QED BY <1>1, <1>2, SumInParts

-----------------------------------------------------------------------------
(* What the rules of a posting put on the accounts                         *)

LEMMA AccountsFinite == IsFiniteSet(Accounts)
<1>1. IsFiniteSet({"BANK"})
  BY FS_Singleton
<1>2. IsFiniteSet({"BANK"} \cup {"RECEIVABLE"})
  BY <1>1, FS_AddElement
<1>3. IsFiniteSet({"BANK", "RECEIVABLE"} \cup {"GST_INPUT_CREDIT"})
  <2>1. {"BANK"} \cup {"RECEIVABLE"} = {"BANK", "RECEIVABLE"}
    OBVIOUS
  <2> QED BY <1>2, <2>1, FS_AddElement
<1>4. IsFiniteSet({"BANK", "RECEIVABLE", "GST_INPUT_CREDIT"} \cup {"PG_FEE_EXPENSE"})
  <2>1. {"BANK", "RECEIVABLE"} \cup {"GST_INPUT_CREDIT"} = {"BANK", "RECEIVABLE", "GST_INPUT_CREDIT"}
    OBVIOUS
  <2> QED BY <1>3, <2>1, FS_AddElement
<1> DEFINE four == {"BANK", "RECEIVABLE", "GST_INPUT_CREDIT", "PG_FEE_EXPENSE"}
<1>5. IsFiniteSet(four)
  <2>1. {"BANK", "RECEIVABLE", "GST_INPUT_CREDIT"} \cup {"PG_FEE_EXPENSE"} = four
    OBVIOUS
  <2> QED BY <1>4, <2>1
<1>6. IsFiniteSet(((four \cup {"REFUND_LIABILITY"}) \cup {"REVENUE"}) \cup {"SUSPENSE"})
  <2> HIDE DEF four
  <2>1. IsFiniteSet(four \cup {"REFUND_LIABILITY"})
    BY <1>5, FS_AddElement
  <2>2. IsFiniteSet((four \cup {"REFUND_LIABILITY"}) \cup {"REVENUE"})
    BY <2>1, FS_AddElement
  <2> QED BY <2>2, FS_AddElement
<1>7. Accounts = ((four \cup {"REFUND_LIABILITY"}) \cup {"REVENUE"}) \cup {"SUSPENSE"}
  BY DEF Accounts
<1> HIDE DEF four
<1> QED BY <1>6, <1>7

LEMMA LegsAre ==
  ASSUME NEW i
  PROVE  /\ Legs("P1", i) = Transfer("RECEIVABLE", "REVENUE", obs[i].amount)
         /\ Legs("P2", i) = LegsOfP2(i)
         /\ Legs("P3", i) = Transfer("REVENUE", "REFUND_LIABILITY", obs[i].amount)
         /\ Legs("P4", i) = Transfer("REFUND_LIABILITY", "BANK", obs[i].amount)
         /\ Legs("P5", i) = Transfer("BANK", "SUSPENSE", obs[i].amount)
         /\ Legs("P6", i) = Transfer("SUSPENSE", "RECEIVABLE", obs[i].amount)
         /\ obs[i].debit # 0 => Legs("P8", i) = Transfer("SUSPENSE", "BANK", AdjustmentM(i))
         /\ obs[i].debit = 0 => Legs("P8", i) = Transfer("BANK", "SUSPENSE", AdjustmentM(i))
         /\ Legs(Silent, i) = <<>>
BY DEF Legs, Silent

LEMMA LegsAreOnAccounts ==
  ASSUME InputKept, NEW i \in DOMAIN obs, NEW rule \in RuleNames
  PROVE  /\ DOMAIN Legs(rule, i) \subseteq Accounts
         /\ \A a \in DOMAIN Legs(rule, i) : /\ Legs(rule, i)[a].dr \in Int
                                             /\ Legs(rule, i)[a].cr \in Int
<1>1. /\ obs[i].amount \in Nat /\ obs[i].credit \in Nat /\ obs[i].debit \in Nat
      /\ obs[i].fee \in Nat /\ obs[i].tax \in Nat
  BY ObservedIs DEF Observations
<1>2. ASSUME NEW x \in Nat, NEW a \in Accounts, NEW b \in Accounts
      PROVE  /\ DOMAIN Transfer(a, b, x) \subseteq Accounts
             /\ \A c \in DOMAIN Transfer(a, b, x) : /\ Transfer(a, b, x)[c].dr \in Int
                                                    /\ Transfer(a, b, x)[c].cr \in Int
  BY DEF Transfer, dr, cr
<1>3. /\ "BANK" \in Accounts /\ "RECEIVABLE" \in Accounts /\ "REFUND_LIABILITY" \in Accounts
      /\ "REVENUE" \in Accounts /\ "SUSPENSE" \in Accounts
  BY DEF Accounts
<1>4. AdjustmentM(i) \in Nat
  BY <1>1 DEF AdjustmentM
<1>5. CASE rule = "P2"
  <2>1. Legs(rule, i) = LegsOfP2(i)
    BY <1>5, LegsAre
  <2>2. DOMAIN LegsOfP2(i) \subseteq Accounts
    BY DEF LegsOfP2, Accounts
  <2>3. \A a \in DOMAIN LegsOfP2(i) : LegsOfP2(i)[a].dr \in Int /\ LegsOfP2(i)[a].cr \in Int
    BY <1>1 DEF LegsOfP2, dr, cr
  <2> QED BY <2>1, <2>2, <2>3
<1>6. CASE rule = Silent
  BY <1>6, LegsAre
<1>7. CASE rule \in {"P1", "P3", "P4", "P5", "P6", "P8"}
  <2>1. \E x \in Nat : \E a, b \in Accounts : Legs(rule, i) = Transfer(a, b, x)
    <3>1. CASE rule = "P1"
      BY <1>1, <1>3, <3>1, LegsAre
    <3>2. CASE rule = "P3"
      BY <1>1, <1>3, <3>2, LegsAre
    <3>3. CASE rule = "P4"
      BY <1>1, <1>3, <3>3, LegsAre
    <3>4. CASE rule = "P5"
      BY <1>1, <1>3, <3>4, LegsAre
    <3>5. CASE rule = "P6"
      BY <1>1, <1>3, <3>5, LegsAre
    <3>6. CASE rule = "P8"
      BY <1>3, <1>4, <3>6, LegsAre
    <3> QED BY <1>7, <3>1, <3>2, <3>3, <3>4, <3>5, <3>6
  <2> QED BY <1>2, <2>1
<1> QED BY <1>5, <1>6, <1>7 DEF RuleNames

\* What a rule that is let through puts on all accounts together is nothing.
LEMMA RuleBalances ==
  ASSUME InputKept, NEW i \in DOMAIN obs, NEW rule \in RuleNames, ~Refused(rule, i)
  PROVE  /\ \A a \in Accounts : LegNet(Legs(rule, i), a) \in Int
         /\ SumFunctionOnSet([a \in Accounts |-> LegNet(Legs(rule, i), a)], Accounts) = 0
<1> DEFINE legs == Legs(rule, i)
           D == DOMAIN legs
           u == [a \in D |-> legs[a].dr]
           v == [a \in D |-> legs[a].cr]
           w == [a \in D |-> legs[a].dr - legs[a].cr]
           net == [a \in Accounts |-> LegNet(legs, a)]
           same == [a \in D |-> a]
<1>1. D \subseteq Accounts /\ \A a \in D : legs[a].dr \in Int /\ legs[a].cr \in Int
  BY LegsAreOnAccounts
<1>2. TotalDr(legs) = TotalCr(legs)
  <2>1. CASE rule # Silent
    BY <2>1 DEF Refused
  <2>2. CASE rule = Silent
    <3>1. legs = <<>>
      BY <2>2, LegsAre
    <3> HIDE DEF legs
    <3>2. D = {} /\ u = v
      BY <3>1
    <3> QED BY <3>2 DEF TotalDr, TotalCr
  <2> QED BY <2>1, <2>2
<1>3. TotalDr(legs) = SumFunctionOnSet(u, D) /\ TotalCr(legs) = SumFunctionOnSet(v, D)
  BY DEF TotalDr, TotalCr, SumFunction
<1>4. \A a \in Accounts : net[a] = IF a \in D THEN legs[a].dr - legs[a].cr ELSE 0
  BY DEF LegNet
<1> HIDE DEF legs
<1>5. IsFiniteSet(D)
  BY <1>1, AccountsFinite, FS_Subset
<1>6. \A a \in D : u[a] \in Int /\ v[a] \in Int /\ w[a] = u[a] - v[a]
  BY <1>1
<1>7. SumFunctionOnSet(w, D) = SumFunctionOnSet(u, D) - SumFunctionOnSet(v, D)
  <2> HIDE DEF u, v, w
  <2> QED BY <1>5, <1>6, SumOfDifferences
<1>8. SumFunctionOnSet(v, D) \in Int
  <2> HIDE DEF v
  <2> QED BY <1>5, <1>6, SumIsInt
<1>9. SumFunctionOnSet(w, D) = 0
  <2> DEFINE total == SumFunctionOnSet(v, D)
  <2>1. SumFunctionOnSet(u, D) = total /\ total \in Int
    BY <1>2, <1>3, <1>8
  <2>2. SumFunctionOnSet(w, D) = SumFunctionOnSet(u, D) - total
    BY <1>7
  <2> HIDE DEF u, v, w, D, total
  <2> QED BY <2>1, <2>2
<1>10. \A a \in D : same[a] \in Accounts /\ net[same[a]] = w[a]
  BY <1>1, <1>4
<1>11. \A a, b \in D : same[a] = same[b] => a = b
  OBVIOUS
<1>12. \A a \in Accounts : net[a] \in Int /\ ((\A b \in D : same[b] # a) => net[a] = 0)
  BY <1>1, <1>4
<1>13. SumFunctionOnSet(w, D) = SumFunctionOnSet(net, Accounts)
  <2> HIDE DEF w, net, same
  <2> QED BY <1>5, <1>10, <1>11, <1>12, AccountsFinite, SumElsewhere
<1> QED BY <1>9, <1>12, <1>13 DEF legs

LEMMA ThreeFinite == IsFiniteSet(1..3)
<1>1. 1 \in Int /\ 3 \in Int
  OBVIOUS
<1> QED BY <1>1, FS_Interval

LEMMA LinesAre ==
  ASSUME InputKept, NEW i \in DOMAIN obs, NEW rules \in [1..3 -> RuleNames]
  PROVE  LET lines == LinesOf(rules, i) IN
         /\ IsFiniteSet(DOMAIN lines)
         /\ \A l \in DOMAIN lines : /\ l \in (1..3) \X Accounts
                                    /\ lines[l].account = l[2]
                                    /\ lines[l].key = obs[i].entity
                                    /\ lines[l].dr \in Int /\ lines[l].cr \in Int
                                    /\ lines[l].dr - lines[l].cr = LegNet(Legs(rules[l[1]], i), l[2])
         /\ \A l \in (1..3) \X Accounts :
              l \notin DOMAIN lines => LegNet(Legs(rules[l[1]], i), l[2]) = 0
<1> DEFINE legs(n) == Legs(rules[n], i)
           lines == LinesOf(rules, i)
<1>1. /\ DOMAIN lines = {l \in (1..3) \X Accounts :
                           l[2] \in DOMAIN legs(l[1]) /\ legs(l[1])[l[2]] # dr(0)}
      /\ \A l \in DOMAIN lines : /\ lines[l].account = l[2]
                                 /\ lines[l].key = obs[i].entity
                                 /\ lines[l].dr = legs(l[1])[l[2]].dr
                                 /\ lines[l].cr = legs(l[1])[l[2]].cr
  BY DEF LinesOf
<1>2. \A n \in 1..3 : \A a \in DOMAIN legs(n) : legs(n)[a].dr \in Int /\ legs(n)[a].cr \in Int
  <2> SUFFICES ASSUME NEW n \in 1..3
               PROVE  \A a \in DOMAIN legs(n) : legs(n)[a].dr \in Int /\ legs(n)[a].cr \in Int
    OBVIOUS
  <2>1. rules[n] \in RuleNames
    OBVIOUS
  <2> QED BY <2>1, LegsAreOnAccounts
<1> HIDE DEF legs, lines
<1>3. IsFiniteSet(DOMAIN lines)
  <2>1. IsFiniteSet((1..3) \X Accounts)
    BY ThreeFinite, AccountsFinite, FS_Product
  <2> QED BY <1>1, <2>1, FS_Subset
<1>4. ASSUME NEW l \in DOMAIN lines
      PROVE  /\ l \in (1..3) \X Accounts
             /\ lines[l].dr \in Int /\ lines[l].cr \in Int
             /\ lines[l].dr - lines[l].cr = LegNet(legs(l[1]), l[2])
  <2>1. l \in (1..3) \X Accounts /\ l[2] \in DOMAIN legs(l[1])
    BY <1>1
  <2> QED BY <1>1, <1>2, <2>1 DEF LegNet
<1>5. ASSUME NEW l \in (1..3) \X Accounts, l \notin DOMAIN lines
      PROVE  LegNet(legs(l[1]), l[2]) = 0
  <2>1. l[2] \in DOMAIN legs(l[1]) => legs(l[1])[l[2]] = dr(0)
    BY <1>1, <1>5
  <2>2. dr(0).dr - dr(0).cr = 0
    BY DEF dr
  <2> QED BY <2>1, <2>2 DEF LegNet
<1> QED BY <1>1, <1>3, <1>4, <1>5 DEF legs, lines

\* The lines of a posting no rule of which is refused balance.
LEMMA PostingBalances ==
  ASSUME InputKept, NEW i \in DOMAIN obs, NEW rules \in [1..3 -> RuleNames],
         \A n \in 1..3 : ~Refused(rules[n], i)
  PROVE  LET lines == LinesOf(rules, i) IN
         SumFunctionOnSet([l \in DOMAIN lines |-> lines[l].dr - lines[l].cr], DOMAIN lines) = 0
<1> DEFINE lines == LinesOf(rules, i)
           D == DOMAIN lines
           w == [l \in D |-> lines[l].dr - lines[l].cr]
           place == [l \in D |-> l[1]]
           zero == [n \in 1..3 |-> 0]
<1>1. /\ IsFiniteSet(D)
      /\ \A l \in D : l \in (1..3) \X Accounts /\ lines[l].dr \in Int /\ lines[l].cr \in Int
      /\ \A l \in D : w[l] = LegNet(Legs(rules[l[1]], i), l[2])
      /\ \A l \in (1..3) \X Accounts : l \notin D => LegNet(Legs(rules[l[1]], i), l[2]) = 0
  BY LinesAre
<1>2. \A l \in D : w[l] \in Int /\ place[l] \in 1..3
  BY <1>1
<1> HIDE DEF lines, w
<1>3. ASSUME NEW n \in 1..3 PROVE SumFunctionOnSet(w, PartOf(D, place, n)) = 0
  <2> DEFINE S == PartOf(D, place, n)
             account == [l \in S |-> l[2]]
             net == [a \in Accounts |-> LegNet(Legs(rules[n], i), a)]
  <2>1. S = {l \in D : l[1] = n}
    BY DEF PartOf
  <2>2. IsFiniteSet(S)
    BY <1>1, <2>1, FS_Subset
  <2> HIDE DEF S
  <2>3. \A l \in S : account[l] \in Accounts /\ net[account[l]] = w[l]
    BY <1>1, <2>1
  <2>4. \A l, k \in S : account[l] = account[k] => l = k
    BY <1>1, <2>1
  <2>5. rules[n] \in RuleNames /\ ~Refused(rules[n], i)
    OBVIOUS
  <2>6. \A a \in Accounts : net[a] \in Int
    BY <2>5, RuleBalances
  <2>7. SumFunctionOnSet(net, Accounts) = 0
    BY <2>5, RuleBalances
  <2>8. ASSUME NEW a \in Accounts, \A l \in S : account[l] # a PROVE net[a] = 0
    <3> DEFINE l == <<n, a>>
    <3>1. ASSUME l \in D PROVE FALSE
      <4>1. l \in S
        BY <2>1, <3>1
      <4>2. account[l] = a
        BY <4>1
      <4> QED BY <2>8, <4>1, <4>2
    <3>2. LegNet(Legs(rules[l[1]], i), l[2]) = 0
      <4>1. l \in (1..3) \X Accounts
        OBVIOUS
      <4> HIDE DEF l
      <4> QED BY <1>1, <3>1, <4>1
    <3> QED BY <3>2
  <2> HIDE DEF account, net
  <2>9. SumFunctionOnSet(w, S) = SumFunctionOnSet(net, Accounts)
    BY <2>2, <2>3, <2>4, <2>6, <2>8, AccountsFinite, SumElsewhere
  <2> QED BY <2>7, <2>9 DEF S
<1>4. \A n \in 1..3 : zero[n] \in Int /\ zero[n] = 0
  OBVIOUS
<1> HIDE DEF D, place, zero
<1>5. \A n \in 1..3 : zero[n] \in Int /\ SumFunctionOnSet(w, PartOf(D, place, n)) = zero[n]
  BY <1>3, <1>4
<1>6. SumFunctionOnSet(w, D) = SumFunctionOnSet(zero, 1..3)
  <2>1. IsFiniteSet(D) /\ \A l \in D : w[l] \in Int /\ place[l] \in 1..3
    BY <1>1, <1>2
  <2> QED BY <1>5, <2>1, ThreeFinite, SumInParts
<1>7. SumFunctionOnSet(zero, 1..3) = 0
  BY <1>4, ThreeFinite, SumOfZeros
<1> QED BY <1>6, <1>7 DEF w, D, lines

-----------------------------------------------------------------------------
(* What is on record of the items                                          *)

\* What has one identifier is left open on one side.
IdentifiersSided ==
  \A i, j \in DOMAIN obs :
    MayStayOpen(obs[i]) /\ MayStayOpen(obs[j]) /\ obs[i].entity = obs[j].entity =>
      OpensAsDebit(obs[i]) = OpensAsDebit(obs[j])

\* The rules a posting of an observation may come of.
Fits(rules, i) ==
  /\ rules[1] \in {"P1", "P3", Silent} /\ rules[2] \in {"P2", "P4", Silent}
  /\ rules[3] \in {"P5", "P6", "P8", Silent}
  /\ rules[3] = "P5" => Kind(i) = "bank_line"
  /\ rules[3] = "P6" => Kind(i) \in {"settlement", "recon_line"}
  /\ rules[3] = "P8" => Kind(i) = "adjustment"
  /\ \A n \in 1..3 : ~Refused(rules[n], i)

\* What is posted is the lines of such rules, and an item if the last of them posts.
Fired(r, i) ==
  \E rules \in [1..3 -> RuleNames] :
    /\ Fits(rules, i)
    /\ r.lines = LinesOf(rules, i)
    /\ r.key = IF rules[3] = Silent THEN 0 ELSE obs[i].entity

PostingsFired ==
  \A n \in DOMAIN posted :
    /\ Kind(posted[n].obs) \notin ReferenceKinds
    /\ posted[n].state \in DecisionStates
    /\ Fired(posted[n], posted[n].obs)

\* S5 puts no line on record whose fee does not add up.
RecordTiesOut == agent # "A1-NOVALIDATE" => \A m \in DOMAIN targetOf : c5({m})

\* The close is attempted on all there is to post, and not before.
ClosedOnAll ==
  status = "done" => DOMAIN obs \ References \subseteq Settled /\ close = attemptClose(GateInput)

ItemInv ==
  /\ IdentifiersSided
  /\ PostingsFired
  /\ RecordTiesOut
  /\ ClosedOnAll
  /\ AbortsOnlyOnSeam

-----------------------------------------------------------------------------
(* What the posting table refuses                                          *)

LEMMA TransferTotals ==
  ASSUME NEW a, NEW b, a # b, NEW x \in Nat
  PROVE  /\ TotalDr(Transfer(a, b, x)) = x /\ TotalCr(Transfer(a, b, x)) = x
         /\ (\A c \in DOMAIN Transfer(a, b, x) :
                Transfer(a, b, x)[c].dr + Transfer(a, b, x)[c].cr = 0) => x = 0
<1> DEFINE legs == Transfer(a, b, x)
           D == {a, b}
           u == [c \in D |-> legs[c].dr]
           v == [c \in D |-> legs[c].cr]
<1>1. /\ DOMAIN legs = D
      /\ legs[a].dr = x /\ legs[a].cr = 0
      /\ legs[b].dr = 0 /\ legs[b].cr = x
  BY DEF Transfer, dr, cr
<1>2. TotalDr(legs) = SumFunctionOnSet(u, D) /\ TotalCr(legs) = SumFunctionOnSet(v, D)
  BY <1>1 DEF TotalDr, TotalCr, SumFunction
<1>3. u[a] = x /\ u[b] = 0 /\ v[a] = 0 /\ v[b] = x
  BY <1>1
<1>4. \E c : c # a /\ c # b
  <2>1. CASE 0 # a /\ 0 # b
    BY <2>1
  <2>2. CASE 1 # a /\ 1 # b
    BY <2>2
  <2>3. CASE 2 # a /\ 2 # b
    BY <2>3
  <2> QED BY <2>1, <2>2, <2>3
<1>5. PICK c : c # a /\ c # b
  BY <1>4
<1> HIDE DEF u, v
<1>6. /\ D \in SUBSET {a, b, c} /\ a \in D /\ b \in D /\ c \notin D
      /\ \A d \in D : u[d] \in Int /\ v[d] \in Int
  BY <1>3, <1>5
<1> HIDE DEF D
<1>7. SumFunctionOnSet(u, D) = (IF a \in D THEN u[a] ELSE 0) + (IF b \in D THEN u[b] ELSE 0)
                                 + (IF c \in D THEN u[c] ELSE 0)
  BY <1>5, <1>6, SumOfThree
<1>8. SumFunctionOnSet(v, D) = (IF a \in D THEN v[a] ELSE 0) + (IF b \in D THEN v[b] ELSE 0)
                                 + (IF c \in D THEN v[c] ELSE 0)
  BY <1>5, <1>6, SumOfThree
<1>9. SumFunctionOnSet(u, D) = x /\ SumFunctionOnSet(v, D) = x
  BY <1>3, <1>6, <1>7, <1>8
<1> HIDE DEF legs
<1>10. (\A d \in D : legs[d].dr + legs[d].cr = 0) => x = 0
  BY <1>1, <1>6
<1> QED BY <1>1, <1>2, <1>9, <1>10 DEF legs

\* P2 balances where the fee adds up.
LEMMA TotalsOfP2 ==
  ASSUME InputKept, NEW i \in DOMAIN obs
  PROVE  /\ obs[i].credit = obs[i].amount - obs[i].fee =>
              TotalDr(LegsOfP2(i)) = TotalCr(LegsOfP2(i))
         /\ (\A a \in DOMAIN LegsOfP2(i) : LegsOfP2(i)[a].dr + LegsOfP2(i)[a].cr = 0)
              => obs[i].amount = 0
<1> DEFINE legs == LegsOfP2(i)
           D == {"BANK", "PG_FEE_EXPENSE", "GST_INPUT_CREDIT", "RECEIVABLE"}
           rest == D \ {"RECEIVABLE"}
           u == [a \in D |-> legs[a].dr]
           v == [a \in D |-> legs[a].cr]
<1>1. /\ obs[i].amount \in Nat /\ obs[i].credit \in Nat /\ obs[i].fee \in Nat
      /\ obs[i].tax \in Nat
  BY ObservedIs DEF Observations
<1>2. /\ DOMAIN legs = D
      /\ legs["BANK"] = dr(obs[i].credit)
      /\ legs["PG_FEE_EXPENSE"] = dr(obs[i].fee - obs[i].tax)
      /\ legs["GST_INPUT_CREDIT"] = dr(obs[i].tax)
      /\ legs["RECEIVABLE"] = cr(obs[i].amount)
  BY DEF LegsOfP2
<1>3. TotalDr(legs) = SumFunctionOnSet(u, D) /\ TotalCr(legs) = SumFunctionOnSet(v, D)
  BY <1>2 DEF TotalDr, TotalCr, SumFunction
<1> HIDE DEF legs
<1>4. /\ u["BANK"] = obs[i].credit /\ u["PG_FEE_EXPENSE"] = obs[i].fee - obs[i].tax
      /\ u["GST_INPUT_CREDIT"] = obs[i].tax /\ u["RECEIVABLE"] = 0
      /\ v["BANK"] = 0 /\ v["PG_FEE_EXPENSE"] = 0
      /\ v["GST_INPUT_CREDIT"] = 0 /\ v["RECEIVABLE"] = obs[i].amount
  BY <1>2 DEF dr, cr
<1> HIDE DEF u, v
<1> DEFINE bank == "BANK"
           fees == "PG_FEE_EXPENSE"
           gst == "GST_INPUT_CREDIT"
<1>5. /\ \A a \in D : u[a] \in Int /\ v[a] \in Int
      /\ rest = {bank, fees, gst} /\ bank # fees /\ bank # gst /\ fees # gst
      /\ "RECEIVABLE" \in D /\ rest \subseteq D
  BY <1>1, <1>4
<1>6. IsFiniteSet(D)
  <2>1. D \subseteq Accounts
    BY DEF Accounts
  <2> QED BY <2>1, AccountsFinite, FS_Subset
<1>7. /\ SumFunctionOnSet(u, D) = u["RECEIVABLE"] + SumFunctionOnSet(u, rest)
      /\ SumFunctionOnSet(v, D) = v["RECEIVABLE"] + SumFunctionOnSet(v, rest)
  <2> HIDE DEF D
  <2> QED BY <1>5, <1>6, SumTakesAny
<1>8. \A a \in rest : u[a] \in Int /\ v[a] \in Int
  BY <1>5
<1>9. /\ u[bank] = obs[i].credit /\ u[fees] = obs[i].fee - obs[i].tax /\ u[gst] = obs[i].tax
      /\ v[bank] = 0 /\ v[fees] = 0 /\ v[gst] = 0
  BY <1>4
<1> HIDE DEF rest, D, bank, fees, gst
<1>10. ASSUME NEW f, \A a \in rest : f[a] \in Int
       PROVE  SumFunctionOnSet(f, rest) = f[bank] + f[fees] + f[gst]
  <2>1. rest \in SUBSET {bank, fees, gst} /\ bank # fees /\ bank # gst /\ fees # gst
    BY <1>5
  <2>2. SumFunctionOnSet(f, rest) = (IF bank \in rest THEN f[bank] ELSE 0)
                                      + (IF fees \in rest THEN f[fees] ELSE 0)
                                      + (IF gst \in rest THEN f[gst] ELSE 0)
    BY <1>10, <2>1, SumOfThree
  <2> QED BY <1>5, <2>2
<1>11. SumFunctionOnSet(u, D) = obs[i].credit + (obs[i].fee - obs[i].tax) + obs[i].tax
  BY <1>1, <1>4, <1>7, <1>8, <1>9, <1>10
<1>12. SumFunctionOnSet(v, D) = obs[i].amount
  BY <1>1, <1>4, <1>7, <1>8, <1>9, <1>10
<1>13. obs[i].credit = obs[i].amount - obs[i].fee => TotalDr(legs) = TotalCr(legs)
  BY <1>1, <1>3, <1>11, <1>12
<1>14. (\A a \in DOMAIN legs : legs[a].dr + legs[a].cr = 0) => obs[i].amount = 0
  <2>1. "RECEIVABLE" \in DOMAIN legs
    BY <1>2, <1>5
  <2> QED BY <1>1, <1>2, <2>1 DEF cr
<1> QED BY <1>13, <1>14 DEF legs

\* What a rule refuses is a seam, if the run fires it where it belongs.
LEMMA RefusalIsSeam ==
  ASSUME InputKept, NEW i \in DOMAIN obs, NEW rule \in RuleNames, Refused(rule, i),
         rule \in {"P1", "P2", "P3", "P4"} => Kind(i) = "recon_line",
         rule = "P2" => obs[i].type = "payment" /\ (agent = "A1-NOVALIDATE" \/ c5({i})),
         rule = "P5" => i \in Targets /\ Kind(i) = "bank_line",
         rule = "P6" => \/ i \in Targets /\ Kind(i) = "settlement"
                        \/ Kind(i) = "recon_line" /\ obs[i].type = "payment",
         rule = "P8" => Kind(i) = "adjustment"
  PROVE  Seam
<1>1. /\ obs[i].amount \in Nat /\ obs[i].credit \in Nat /\ obs[i].debit \in Nat
      /\ Kind(i) = "bank_line" => obs[i].direction \in {"credit", "debit"}
  BY ObservedIs DEF Observations, OfItsKind, Kind
<1>2. rule # Throws
  BY DEF RuleNames, Throws, Silent
<1>3. rule # Silent
  BY DEF Refused, Silent, Throws
<1>4. \A kind : Kind(i) = kind => i \in OfKind({kind})
  BY DEF OfKind
<1> DEFINE nothing(legs) == \A a \in DOMAIN legs : legs[a].dr + legs[a].cr = 0
           unbalanced(legs) == TotalDr(legs) # TotalCr(legs)
<1>5. \/ rule = "P5" /\ obs[i].direction # "credit"
      \/ rule = "P2" /\ obs[i].fee < obs[i].tax
      \/ rule = "P6" /\ Kind(i) = "recon_line" /\ obs[i].type # "payment"
      \/ rule = "P8" /\ (obs[i].debit = 0) = (obs[i].credit = 0)
      \/ nothing(Legs(rule, i)) \/ unbalanced(Legs(rule, i))
  BY <1>2 DEF Refused
<1>6. ASSUME NEW a, NEW b, a # b, NEW x \in Nat, Legs(rule, i) = Transfer(a, b, x)
      PROVE  /\ ~unbalanced(Legs(rule, i))
             /\ nothing(Legs(rule, i)) => x = 0
  BY <1>6, TransferTotals
<1> HIDE DEF nothing, unbalanced
<1>7. CASE rule \in {"P1", "P3", "P4"}
  <2>1. \E a, b : a # b /\ Legs(rule, i) = Transfer(a, b, obs[i].amount)
    <3>1. CASE rule = "P1"
      BY <3>1, LegsAre
    <3>2. CASE rule = "P3"
      BY <3>2, LegsAre
    <3>3. CASE rule = "P4"
      BY <3>3, LegsAre
    <3> QED BY <1>7, <3>1, <3>2, <3>3
  <2>2. obs[i].amount = 0
    BY <1>1, <1>5, <1>6, <1>7, <2>1
  <2> QED BY <1>4, <1>7, <2>2 DEF Seam
<1>8. CASE rule = "P2"
  <2>1. Legs(rule, i) = LegsOfP2(i)
    BY <1>8, LegsAre
  <2>2. nothing(Legs(rule, i)) => obs[i].amount = 0
    BY <2>1, TotalsOfP2 DEF nothing
  <2>3. unbalanced(Legs(rule, i)) => ~c5({i})
    BY <1>8, <2>1, TotalsOfP2 DEF unbalanced, c5
  <2>4. i \in OfKind({"recon_line"})
    BY <1>4, <1>8
  <2>5. ~c5({i}) => ~c5(OfKind({"recon_line"}))
    BY <2>4 DEF c5
  <2> QED BY <1>5, <1>8, <2>2, <2>3, <2>4, <2>5 DEF Seam
<1>9. CASE rule = "P5"
  <2>1. Legs(rule, i) = Transfer("BANK", "SUSPENSE", obs[i].amount)
    BY <1>9, LegsAre
  <2>2. obs[i].amount = 0 \/ obs[i].direction = "debit"
    BY <1>1, <1>5, <1>6, <1>9, <2>1
  <2> QED BY <1>9, <2>2 DEF Seam
<1>10. CASE rule = "P6"
  <2>1. Legs(rule, i) = Transfer("SUSPENSE", "RECEIVABLE", obs[i].amount)
    BY <1>10, LegsAre
  <2>2. Kind(i) = "recon_line" => obs[i].type = "payment"
    BY <1>10
  <2>3. obs[i].amount = 0
    BY <1>1, <1>5, <1>6, <1>10, <2>1, <2>2
  <2> QED BY <1>4, <1>10, <2>3 DEF Seam
<1>11. CASE rule = "P8"
  <2>1. i \in OfKind({"adjustment"})
    BY <1>4, <1>11
  <2>2. CASE (obs[i].debit = 0) = (obs[i].credit = 0)
    BY <2>1, <2>2 DEF Seam
  <2>3. CASE (obs[i].debit = 0) # (obs[i].credit = 0)
    <3>1. AdjustmentM(i) \in Nat \ {0}
      BY <1>1, <2>3 DEF AdjustmentM
    <3>2. \E a, b : a # b /\ Legs(rule, i) = Transfer(a, b, AdjustmentM(i))
      BY <1>1, <1>11, LegsAre
    <3>3. ~unbalanced(Legs(rule, i)) /\ ~nothing(Legs(rule, i))
      BY <1>6, <3>1, <3>2
    <3> QED BY <1>5, <1>11, <2>3, <3>3
  <2> QED BY <2>2, <2>3
<1> QED BY <1>3, <1>7, <1>8, <1>9, <1>10, <1>11 DEF RuleNames

-----------------------------------------------------------------------------
(* One more item                                                           *)

LEMMA RefusalsKept ==
  ASSUME obs' = obs PROVE \A rule, i : Refused(rule, i)' = Refused(rule, i)
<1>1. \A rule, i : Legs(rule, i)' = Legs(rule, i)
  BY DEF Legs, LegsOfP2, AdjustmentM
<1> QED BY <1>1, KindsKept DEF Refused

LEMMA FiredKept ==
  ASSUME obs' = obs, NEW r, NEW i PROVE Fired(r, i)' = Fired(r, i)
<1>1. ASSUME NEW rules PROVE Fits(rules, i)' = Fits(rules, i)
  <2>1. \A n \in 1..3 : Refused(rules[n], i)' = Refused(rules[n], i)
    BY RefusalsKept
  <2> QED BY <2>1, KindsKept DEF Fits
<1>2. \A rules : LinesOf(rules, i)' = LinesOf(rules, i)
  BY LinesKept
<1> QED BY <1>1, <1>2 DEF Fired

LEMMA SeamKept ==
  ASSUME obs' = obs, agent' = agent PROVE Seam' = Seam
<1>1. \A kinds : OfKind(kinds)' = OfKind(kinds)
  BY DEF OfKind, Kind
<1>2. \A M : c5(M)' = c5(M)
  BY TieOutsKept
<1> QED BY <1>1, <1>2, TargetsKept DEF Seam

\* A decision that raises nothing posts by rules that fit its observation.
LEMMA NotRaisedFires ==
  ASSUME InputKept, NEW i \in DOMAIN obs, NEW c, c.state \in DecisionStates, ~Raises(i, c)
  PROVE  Fired(Record(i, c), i)
<1> DEFINE rules == RulesOf(i, c)
<1>1. /\ DOMAIN rules = 1..3
      /\ rules[1] = IF Kind(i) = "recon_line" THEN IngestRule(i) ELSE Silent
      /\ rules[2] = IF Kind(i) = "recon_line" /\ c.evidence # 0 THEN BankEvidenceRule(i) ELSE Silent
      /\ rules[3] = TerminalRule(i, c)
      /\ rules = [n \in 1..3 |-> rules[n]]
  BY DEF RulesOf
<1>2. \A n \in 1..3 : ~Refused(rules[n], i)
  BY DEF Raises
<1>3. /\ Kind(i) = "recon_line" <=> obs[i].type \in {"payment", "refund"}
      /\ Kind(i) \in ObservationKinds
  BY ObservedIs DEF Observations, OfItsKind, Kind
<1> HIDE DEF rules
<1>4. rules[1] \in {"P1", "P3", Silent} /\ rules[2] \in {"P2", "P4", Silent}
  BY <1>1, <1>3 DEF IngestRule, BankEvidenceRule
<1>5. rules[3] # Throws
  BY <1>2 DEF Refused
<1>6. /\ rules[3] \in {"P5", "P6", "P8", Silent}
      /\ rules[3] = "P5" => Kind(i) = "bank_line"
      /\ rules[3] = "P6" => Kind(i) \in {"settlement", "recon_line"}
      /\ rules[3] = "P8" => Kind(i) = "adjustment"
  <2>1. CASE Kind(i) \in SilentKinds
    BY <1>1, <2>1 DEF TerminalRule, Silent
  <2>2. CASE Kind(i) \notin SilentKinds /\ c.state = "RECONCILED"
    BY <1>1, <1>5, <2>2 DEF TerminalRule, Silent
  <2>3. CASE Kind(i) \notin SilentKinds /\ c.state = "ABSTAINED"
    <3>1. rules[3] = AbstainedRule(i, c.role)
      BY <1>1, <2>3 DEF TerminalRule
    <3> QED BY <1>5, <3>1 DEF AbstainedRule, Silent, Throws
  <2>4. CASE Kind(i) \notin SilentKinds /\ c.state = "EXCEPTION"
    <3>1. rules[3] = ExceptionRule(i, c.class)
      BY <1>1, <2>4 DEF TerminalRule
    <3> QED BY <1>5, <3>1 DEF ExceptionRule, ExceptionRow, Silent, Throws
  <2> QED BY <2>1, <2>2, <2>3, <2>4 DEF DecisionStates
<1>7. Fits(rules, i)
  BY <1>2, <1>4, <1>6 DEF Fits
<1>8. rules \in [1..3 -> RuleNames]
  <2>1. \A n \in 1..3 : rules[n] \in RuleNames
    BY <1>4, <1>6 DEF RuleNames
  <2> QED BY <1>1, <2>1
<1>9. /\ Record(i, c).lines = LinesOf(rules, i)
      /\ Record(i, c).key = IF rules[3] = Silent THEN 0 ELSE obs[i].entity
  BY <1>1, LinesOfRecord, FieldsOfRecord DEF SuspenseKeyOf, rules
<1> QED BY <1>7, <1>8, <1>9 DEF Fired

\* S5 lets members through whose fees add up.
LEMMA AcceptedTiesOut ==
  ASSUME agent # "A1-NOVALIDATE", NEW c
  PROVE  \A m \in Accepted(c).members : c5({m})
<1>1. CASE Valid(c)
  BY <1>1 DEF Accepted, Valid, I3, c5
<1>2. CASE ~Valid(c)
  BY <1>2, FallbackAllocatesNothing DEF Accepted
<1> QED BY <1>1, <1>2

LEMMA AcceptedIsDecision ==
  ASSUME NEW c, c.state \in DecisionStates
  PROVE  Accepted(c).state \in DecisionStates
BY DEF Accepted, exceptionFor, Nothing, DecisionStates

\* Posting a decision keeps the items, if what it refuses is a seam.
LEMMA PostKeepsItems ==
  ASSUME RunInv, ItemInv, status = "running", NEW i, NEW c, NEW certificates,
         Post(i, c, certificates), i \in DOMAIN obs, Kind(i) \notin ReferenceKinds,
         c.state \in DecisionStates, Raises(i, c) \/ Raises(i, Accepted(c)) => Seam
  PROVE  ItemInv'
<1>1. obs' = obs /\ agent' = agent
  BY PostEffect
<1>2. IdentifiersSided'
  BY <1>1 DEF ItemInv, IdentifiersSided
<1>3. CASE Raises(i, c) \/ Raises(i, Accepted(c))
  <2>1. /\ status' = "aborted" /\ posted' = posted /\ targetOf' = targetOf
    BY <1>3 DEF Post, Abort
  <2>2. PostingsFired'
    <3> SUFFICES ASSUME NEW n \in DOMAIN posted
                 PROVE  /\ Kind(posted[n].obs) \notin ReferenceKinds
                        /\ posted[n].state \in DecisionStates
                        /\ Fired(posted[n], posted[n].obs)'
      BY <1>1, <2>1, KindsKept DEF PostingsFired
    <3>1. /\ Kind(posted[n].obs) \notin ReferenceKinds /\ posted[n].state \in DecisionStates
          /\ Fired(posted[n], posted[n].obs)
      BY DEF ItemInv, PostingsFired
    <3>2. PICK r, j : r = posted[n] /\ j = posted[n].obs
      OBVIOUS
    <3>3. Fired(r, j)' = Fired(r, j)
      BY <1>1, FiredKept
    <3>4. (r = posted[n] /\ j = posted[n].obs)'
      BY <2>1, <3>2
    <3> QED BY <2>1, <3>1, <3>2, <3>3, <3>4
  <2>3. RecordTiesOut'
    BY <1>1, <2>1, TieOutsKept DEF ItemInv, RecordTiesOut
  <2>4. ClosedOnAll'
    BY <2>1 DEF ClosedOnAll
  <2>5. AbortsOnlyOnSeam'
    BY <1>1, <1>3, SeamKept DEF AbortsOnlyOnSeam
  <2> QED BY <1>2, <2>2, <2>3, <2>4, <2>5 DEF ItemInv
<1>4. CASE ~(Raises(i, c) \/ Raises(i, Accepted(c)))
  <2> DEFINE r == Record(i, Accepted(c))
             last == Len(posted) + 1
  <2>1. /\ posted' = Append(posted, r) /\ status' = status
        /\ targetOf' = [m \in Committed(c) \cup DOMAIN targetOf |->
                           IF m \in Committed(c) THEN i ELSE targetOf[m]]
    BY <1>4 DEF Post
  <2>2. DOMAIN targetOf' = Accepted(c).members \cup DOMAIN targetOf
    BY <2>1 DEF Committed
  <2>3. /\ r.obs = i /\ r.state \in DecisionStates /\ Fired(r, i)
    BY <1>4, FieldsOfRecord, AcceptedIsDecision, NotRaisedFires DEF RunInv
  <2> HIDE DEF r
  <2>4. /\ posted' = Append(posted, r)
        /\ DOMAIN posted = 1..Len(posted) /\ Len(posted) \in Nat
        /\ DOMAIN posted' = DOMAIN posted \cup {last}
        /\ \A n \in DOMAIN posted : posted'[n] = posted[n]
        /\ posted'[last] = r
    <3> DEFINE old == {posted[n] : n \in DOMAIN posted}
    <3>1. /\ posted \in Seq(old \cup {r}) /\ Len(posted) \in Nat
          /\ DOMAIN posted = 1..Len(posted)
      BY DEF RunInv, PostedIsSeq
    <3> QED BY <2>1, <3>1
  <2> HIDE DEF last
  <2>5. PostingsFired'
    <3> SUFFICES ASSUME NEW n \in DOMAIN posted'
                 PROVE  /\ Kind(posted'[n].obs) \notin ReferenceKinds
                        /\ posted'[n].state \in DecisionStates
                        /\ Fired(posted[n], posted[n].obs)'
      BY <1>1, KindsKept DEF PostingsFired
    <3>1. PICK q, j : /\ posted'[n] = q /\ posted'[n].obs = j
                      /\ Kind(j) \notin ReferenceKinds /\ q.state \in DecisionStates
                      /\ Fired(q, j)
      <4>1. CASE n = last
        BY <2>3, <2>4, <4>1
      <4>2. CASE n \in DOMAIN posted
        BY <2>4, <4>2 DEF ItemInv, PostingsFired
      <4> QED BY <2>4, <4>1, <4>2
    <3>2. Fired(q, j)' = Fired(q, j)
      BY <1>1, FiredKept
    <3> QED BY <3>1, <3>2
  <2>6. RecordTiesOut'
    <3>1. agent # "A1-NOVALIDATE" => \A m \in DOMAIN targetOf' : c5({m})
      BY <2>2, AcceptedTiesOut DEF ItemInv, RecordTiesOut
    <3> QED BY <1>1, <3>1, TieOutsKept DEF RecordTiesOut
  <2>7. ClosedOnAll' /\ AbortsOnlyOnSeam'
    BY <2>1 DEF ClosedOnAll, AbortsOnlyOnSeam
  <2> QED BY <1>2, <2>5, <2>6, <2>7 DEF ItemInv
<1> QED BY <1>3, <1>4

\* The rule a decision ends in is one of its observation, and an item of a target or
\* of a row.
EndsWhereItBelongs(i, c) ==
  LET rule == TerminalRule(i, c) IN
  \/ rule = Silent
  \/ rule = "P5" /\ i \in Targets /\ Kind(i) = "bank_line"
  \/ rule = "P6" /\ i \in Targets /\ Kind(i) = "settlement"
  \/ rule = "P6" /\ Kind(i) = "recon_line" /\ obs[i].type = "payment"
  \/ rule = "P8" /\ Kind(i) = "adjustment"

LEMMA RaisesIsSeam ==
  ASSUME InputKept, NEW i \in DOMAIN obs, NEW c, Raises(i, c), EndsWhereItBelongs(i, c),
         Kind(i) = "recon_line" /\ c.evidence # 0 => agent = "A1-NOVALIDATE" \/ c5({i})
  PROVE  Seam
<1> DEFINE rules == RulesOf(i, c)
<1>1. /\ rules[1] = IF Kind(i) = "recon_line" THEN IngestRule(i) ELSE Silent
      /\ rules[2] = IF Kind(i) = "recon_line" /\ c.evidence # 0 THEN BankEvidenceRule(i) ELSE Silent
      /\ rules[3] = TerminalRule(i, c)
  BY DEF RulesOf
<1>2. Kind(i) = "recon_line" <=> obs[i].type \in {"payment", "refund"}
  BY ObservedIs DEF Observations, OfItsKind, Kind
<1>3. PICK n \in 1..3 : Refused(rules[n], i)
  BY DEF Raises
<1> HIDE DEF rules
<1>4. ~Refused(Silent, i)
  BY DEF Refused, Silent, Throws
<1>5. CASE n = 1
  <2>1. Kind(i) = "recon_line" /\ rules[1] = IngestRule(i)
    BY <1>1, <1>3, <1>4, <1>5
  <2>2. rules[1] \in {"P1", "P3"}
    BY <1>2, <2>1 DEF IngestRule
  <2> QED BY <1>3, <1>5, <2>1, <2>2, RefusalIsSeam DEF RuleNames
<1>6. CASE n = 2
  <2>1. Kind(i) = "recon_line" /\ c.evidence # 0 /\ rules[2] = BankEvidenceRule(i)
    BY <1>1, <1>3, <1>4, <1>6
  <2>2. rules[2] \in {"P2", "P4"} /\ (rules[2] = "P2" => obs[i].type = "payment")
    BY <1>2, <2>1 DEF BankEvidenceRule
  <2> QED BY <1>3, <1>6, <2>1, <2>2, RefusalIsSeam DEF RuleNames
<1>7. CASE n = 3
  <2>1. rules[3] # Silent
    BY <1>3, <1>4, <1>7
  <2>2. /\ rules[3] \in {"P5", "P6", "P8"}
        /\ rules[3] = "P5" => i \in Targets /\ Kind(i) = "bank_line"
        /\ rules[3] = "P6" => \/ i \in Targets /\ Kind(i) = "settlement"
                              \/ Kind(i) = "recon_line" /\ obs[i].type = "payment"
        /\ rules[3] = "P8" => Kind(i) = "adjustment"
    BY <1>1, <2>1 DEF EndsWhereItBelongs
  <2> QED BY <1>3, <1>7, <2>2, RefusalIsSeam DEF RuleNames
<1> QED BY <1>5, <1>6, <1>7

LEMMA FallbackIsQuiet ==
  ASSUME NEW i PROVE EndsWhereItBelongs(i, exceptionFor("E05"))
<1>1. exceptionFor("E05").state = "EXCEPTION" /\ exceptionFor("E05").class = "E05"
  BY DEF exceptionFor, Nothing
<1> DEFINE c == exceptionFor("E05")
<1> HIDE DEF c
<1>2. TerminalRule(i, c) = Silent
  <2>1. CASE Kind(i) \in SilentKinds
    BY <2>1 DEF TerminalRule
  <2>2. CASE Kind(i) \notin SilentKinds
    <3>1. TerminalRule(i, c) = ExceptionRule(i, "E05")
      BY <1>1, <2>2 DEF TerminalRule, c
    <3> QED BY <3>1 DEF ExceptionRule, ExceptionRow
  <2> QED BY <2>1, <2>2
<1> QED BY <1>2 DEF EndsWhereItBelongs, c

\* Whether it is let through or falls back, a decision raises at a seam only.
LEMMA DecisionRaisesAtSeam ==
  ASSUME InputKept, NEW i \in DOMAIN obs, NEW c, EndsWhereItBelongs(i, c),
         Kind(i) = "recon_line" /\ c.evidence # 0 => agent = "A1-NOVALIDATE" \/ c5({i})
  PROVE  Raises(i, c) \/ Raises(i, Accepted(c)) => Seam
<1>1. Raises(i, c) => Seam
  BY RaisesIsSeam
<1> DEFINE d == exceptionFor("E05")
<1>2. EndsWhereItBelongs(i, d) /\ d.evidence = 0
  BY FallbackIsQuiet DEF exceptionFor, Nothing
<1> HIDE DEF d
<1>3. Raises(i, d) => Seam
  BY <1>2, RaisesIsSeam
<1> QED BY <1>1, <1>3 DEF Accepted, d

LEMMA AnchorKeepsItems == RunInv /\ ItemInv /\ PostAnchor => ItemInv'
<1> SUFFICES ASSUME RunInv, ItemInv, PostAnchor PROVE ItemInv'
  OBVIOUS
<1> DEFINE i == Min(Anchors)
           c == classifyAnchored(i)
<1>1. i \in Anchors
  <2>1. Anchors \subseteq Nat
    BY DEF Anchors, AnchorResolved, Settlements, BankLines, OfKind, RunInv, InputKept
  <2> QED BY <2>1, FirstIsIn DEF PostAnchor
<1>2. Post(i, c, certificateOf) /\ status = "running"
  BY DEF PostAnchor
<1> HIDE DEF i
<1>3. i \in DOMAIN obs /\ Kind(i) \in {"settlement", "bank_line"}
  BY <1>1, KindsOfPasses DEF Anchors
<1>4. c.state = "RECONCILED"
  BY FieldsOfReconciled DEF classifyAnchored
<1> HIDE DEF c
<1>5. TerminalRule(i, c) = Silent
  BY <1>3, <1>4 DEF TerminalRule, SilentKinds
<1>6. EndsWhereItBelongs(i, c) /\ Kind(i) \notin ReferenceKinds /\ c.state \in DecisionStates
  BY <1>3, <1>4, <1>5 DEF EndsWhereItBelongs, ReferenceKinds, DecisionStates
<1>7. Raises(i, c) \/ Raises(i, Accepted(c)) => Seam
  BY <1>3, <1>6, DecisionRaisesAtSeam DEF RunInv
<1> QED BY <1>2, <1>3, <1>6, <1>7, PostKeepsItems

LEMMA TargetKeepsItems == RunInv /\ ItemInv /\ PostTarget => ItemInv'
<1> SUFFICES ASSUME RunInv, ItemInv, PostTarget PROVE ItemInv'
  OBVIOUS
<1> DEFINE t == Min(Undecided)
           c == classifyTarget(t)
<1>1. t \in Undecided
  <2>1. Undecided \subseteq Nat
    BY DEF Undecided, Targets, Settlements, BankLines, OfKind, RunInv, InputKept
  <2> QED BY <2>1, FirstIsIn DEF PostTarget
<1>2. Post(t, c, Certify(t, c)) /\ status = "running"
  BY DEF PostTarget
<1> HIDE DEF t
<1>3. t \in Targets /\ t \in DOMAIN obs /\ Kind(t) \in {"settlement", "bank_line"}
  BY <1>1, KindsOfPasses DEF Undecided
<1>4. Kind(t) \notin SilentKinds /\ Kind(t) \notin ReferenceKinds
  BY <1>3 DEF SilentKinds, ReferenceKinds
<1>5. \/ c = Reconciled(t, outcomes[t].best)
      \/ Kind(t) = "bank_line" /\ c = exceptionFor("E03")
      \/ Kind(t) = "settlement" /\ \E class \in {"E01", "E04"} : c = exceptionFor(class)
      \/ \E certificate : c = Abstained("TARGET", certificate)
  BY <1>3 DEF classifyTarget
<1>6. ASSUME NEW class
      PROVE  exceptionFor(class).state = "EXCEPTION" /\ exceptionFor(class).class = class
  BY DEF exceptionFor, Nothing
<1>7. ASSUME NEW certificate
      PROVE  /\ Abstained("TARGET", certificate).state = "ABSTAINED"
             /\ Abstained("TARGET", certificate).role = "TARGET"
  BY DEF Abstained, Nothing
<1> HIDE DEF c
<1>8. \/ c.state = "RECONCILED"
      \/ Kind(t) = "bank_line" /\ c.state = "EXCEPTION" /\ c.class = "E03"
      \/ Kind(t) = "settlement" /\ c.state = "EXCEPTION" /\ c.class \in {"E01", "E04"}
      \/ c.state = "ABSTAINED" /\ c.role = "TARGET"
  BY <1>5, <1>6, <1>7, FieldsOfReconciled
<1>9. EndsWhereItBelongs(t, c)
  <2>1. CASE c.state = "RECONCILED"
    <3>1. TerminalRule(t, c) = Silent
      BY <1>3, <1>4, <2>1 DEF TerminalRule
    <3> QED BY <3>1 DEF EndsWhereItBelongs
  <2>2. CASE c.state = "ABSTAINED" /\ c.role = "TARGET"
    <3>1. TerminalRule(t, c) = AbstainedRule(t, c.role)
      BY <1>4, <2>2 DEF TerminalRule
    <3>2. AbstainedRule(t, c.role) = IF Kind(t) = "bank_line" THEN "P5" ELSE "P6"
      BY <1>3, <2>2 DEF AbstainedRule
    <3> QED BY <1>3, <3>1, <3>2 DEF EndsWhereItBelongs
  <2>3. CASE Kind(t) = "bank_line" /\ c.state = "EXCEPTION" /\ c.class = "E03"
    <3>1. TerminalRule(t, c) = ExceptionRule(t, "E03")
      BY <1>4, <2>3 DEF TerminalRule
    <3>2. ExceptionRule(t, "E03") = "P5"
      BY <2>3 DEF ExceptionRule, ExceptionRow
    <3> QED BY <1>3, <2>3, <3>1, <3>2 DEF EndsWhereItBelongs
  <2>4. CASE Kind(t) = "settlement" /\ c.state = "EXCEPTION" /\ c.class \in {"E01", "E04"}
    <3>1. TerminalRule(t, c) = ExceptionRule(t, c.class)
      BY <1>4, <2>4 DEF TerminalRule
    <3>2. ExceptionRule(t, "E01") = "P6" /\ ExceptionRule(t, "E04") = "P6"
      BY <2>4 DEF ExceptionRule, ExceptionRow
    <3> QED BY <1>3, <2>4, <3>1, <3>2 DEF EndsWhereItBelongs
  <2> QED BY <1>8, <2>1, <2>2, <2>3, <2>4
<1>10. c.state \in DecisionStates
  BY <1>8 DEF DecisionStates
<1>11. Kind(t) # "recon_line"
  BY <1>3
<1>12. Raises(t, c) \/ Raises(t, Accepted(c)) => Seam
  BY <1>3, <1>9, <1>11, DecisionRaisesAtSeam DEF RunInv
<1> QED BY <1>2, <1>3, <1>4, <1>10, <1>12, PostKeepsItems

LEMMA MemberKeepsItems == RunInv /\ ItemInv /\ PostMember => ItemInv'
<1> SUFFICES ASSUME RunInv, ItemInv, PostMember PROVE ItemInv'
  OBVIOUS
<1> DEFINE m == Min(Members)
           c == classifyMember(m)
<1>1. m \in Members
  <2>1. Members \subseteq Nat
    BY DEF Members, MemberEligible, OfKind, RunInv, InputKept
  <2> QED BY <2>1, FirstIsIn DEF PostMember
<1>2. Post(m, c, certificateOf) /\ status = "running"
  BY DEF PostMember
<1> HIDE DEF m
<1>3. /\ m \in DOMAIN obs /\ Kind(m) \in {"recon_line", "adjustment"}
      /\ Kind(m) \notin SilentKinds /\ Kind(m) \notin ReferenceKinds
  BY <1>1, KindsOfPasses DEF Members, SilentKinds, ReferenceKinds
<1>4. SUFFICES /\ c.state \in DecisionStates /\ EndsWhereItBelongs(m, c)
               /\ c.evidence # 0 => m \in DOMAIN targetOf
  <2>1. c.evidence # 0 => agent = "A1-NOVALIDATE" \/ c5({m})
    BY <1>4 DEF ItemInv, RecordTiesOut
  <2> HIDE DEF c
  <2>2. Raises(m, c) \/ Raises(m, Accepted(c)) => Seam
    BY <1>3, <1>4, <2>1, DecisionRaisesAtSeam DEF RunInv
  <2> QED BY <1>2, <1>3, <1>4, <2>2, PostKeepsItems
<1>5. CASE Kind(m) = "adjustment"
  <2>1. c = exceptionFor("E12")
    BY <1>5 DEF classifyMember
  <2> HIDE DEF c
  <2>2. c.state = "EXCEPTION" /\ c.class = "E12" /\ c.evidence = 0
    BY <2>1, ExceptionIs
  <2>3. TerminalRule(m, c) = ExceptionRule(m, "E12")
    BY <1>3, <2>2 DEF TerminalRule
  <2>4. ExceptionRule(m, "E12") = "P8"
    BY <1>5 DEF ExceptionRule, ExceptionRow
  <2> QED BY <1>5, <2>2, <2>3, <2>4 DEF EndsWhereItBelongs, DecisionStates
<1>6. CASE Kind(m) # "adjustment" /\ m \in DOMAIN targetOf
  <2>1. c = [Nothing EXCEPT !.state = "RECONCILED", !.evidence = EvidenceFor(m)]
    BY <1>6 DEF classifyMember
  <2>2. c.state = "RECONCILED"
    BY <2>1 DEF Nothing
  <2> HIDE DEF c
  <2>3. TerminalRule(m, c) = Silent
    BY <1>3, <1>6, <2>2 DEF TerminalRule
  <2> QED BY <1>6, <2>2, <2>3 DEF EndsWhereItBelongs, DecisionStates
<1>7. CASE Kind(m) # "adjustment" /\ m \notin DOMAIN targetOf /\ CertificatesOver(m) # {}
  <2>1. c = Abstained("MEMBER", CHOOSE certificate \in CertificatesOver(m) : TRUE)
    BY <1>7 DEF classifyMember
  <2>2. c.state = "ABSTAINED" /\ c.role = "MEMBER" /\ c.evidence = 0
    BY <2>1 DEF Abstained, Nothing
  <2> HIDE DEF c
  <2>3. TerminalRule(m, c) = Silent
    BY <1>3, <1>7, <2>2 DEF TerminalRule, AbstainedRule
  <2> QED BY <2>2, <2>3 DEF EndsWhereItBelongs, DecisionStates
<1>8. CASE Kind(m) # "adjustment" /\ m \notin DOMAIN targetOf /\ CertificatesOver(m) = {}
  <2>1. c = exceptionFor(IF obs[m].type = "payment" THEN "E02" ELSE "E11")
    BY <1>8 DEF classifyMember
  <2> HIDE DEF c
  <2>2. /\ c.state = "EXCEPTION" /\ c.evidence = 0
        /\ c.class = IF obs[m].type = "payment" THEN "E02" ELSE "E11"
    BY <2>1, ExceptionIs
  <2>3. TerminalRule(m, c) = ExceptionRule(m, c.class)
    BY <1>3, <2>2 DEF TerminalRule
  <2>4. ExceptionRule(m, "E02") = "P6" /\ ExceptionRule(m, "E11") = Silent
    BY <1>3, <1>8 DEF ExceptionRule, ExceptionRow
  <2> QED BY <1>3, <1>8, <2>2, <2>3, <2>4 DEF EndsWhereItBelongs, DecisionStates
<1> QED BY <1>5, <1>6, <1>7, <1>8

LEMMA RestKeepsItems == RunInv /\ ItemInv /\ PostRest => ItemInv'
<1> SUFFICES ASSUME RunInv, ItemInv, PostRest PROVE ItemInv'
  OBVIOUS
<1> DEFINE i == Min(Rest)
           c == classifyUnpostable(i)
<1>1. i \in Rest
  <2>1. Rest \subseteq Nat
    BY DEF Rest, RunInv, InputKept
  <2> QED BY <2>1, FirstIsIn DEF PostRest
<1>2. Post(i, c, certificateOf) /\ Anchors \cup Undecided \cup Members = {} /\ status = "running"
  BY DEF PostRest
<1> HIDE DEF i
<1>3. i \in DOMAIN obs /\ i \notin References /\ i \notin MemberEligible /\ i \notin Targets
      /\ i \notin AnchorResolved
  BY <1>1, <1>2 DEF Rest, Members, Undecided, Anchors
<1>4. Kind(i) \in {"ledger_entry", "dispute", "refund"}
  <2>1. Kind(i) \in ObservationKinds
    BY <1>3, ObservedIs DEF RunInv, Observations, Kind
  <2>2. Kind(i) \notin {"payment", "order", "recon_line", "adjustment", "settlement", "bank_line"}
    BY <1>3 DEF References, MemberEligible, Targets, Settlements, BankLines, OfKind
  <2> QED BY <2>1, <2>2 DEF ObservationKinds
<1>5. \/ c = Reconciled(i, {})
      \/ Kind(i) = "refund" /\ \E class \in {"E10", "E11"} : c = exceptionFor(class)
      \/ Kind(i) # "refund" /\ \E class : c = exceptionFor(class)
  BY <1>4 DEF classifyUnpostable
<1>6. ASSUME NEW class
      PROVE  exceptionFor(class).state = "EXCEPTION" /\ exceptionFor(class).class = class
  BY DEF exceptionFor, Nothing
<1> HIDE DEF c
<1>7. \/ c.state = "RECONCILED"
      \/ c.state = "EXCEPTION" /\ (Kind(i) = "refund" => c.class \in {"E10", "E11"})
  BY <1>5, <1>6, FieldsOfReconciled
<1>8. TerminalRule(i, c) = Silent
  <2>1. CASE Kind(i) # "refund"
    BY <1>4, <2>1 DEF TerminalRule, SilentKinds
  <2>2. CASE Kind(i) = "refund" /\ c.state = "RECONCILED"
    BY <2>2 DEF TerminalRule, SilentKinds
  <2>3. CASE Kind(i) = "refund" /\ c.state = "EXCEPTION"
    <3>1. TerminalRule(i, c) = ExceptionRule(i, c.class)
      BY <2>3 DEF TerminalRule, SilentKinds
    <3> QED BY <1>7, <2>3, <3>1 DEF ExceptionRule, ExceptionRow
  <2> QED BY <1>7, <2>1, <2>2, <2>3
<1>9. EndsWhereItBelongs(i, c) /\ Kind(i) \notin ReferenceKinds /\ c.state \in DecisionStates
  BY <1>4, <1>7, <1>8 DEF EndsWhereItBelongs, ReferenceKinds, DecisionStates
<1>10. Kind(i) # "recon_line"
  BY <1>4
<1>11. Raises(i, c) \/ Raises(i, Accepted(c)) => Seam
  BY <1>3, <1>9, <1>10, DecisionRaisesAtSeam DEF RunInv
<1> QED BY <1>2, <1>3, <1>9, <1>11, PostKeepsItems

\* Nothing posted or on record changes, and a run that ends has posted all there is.
LEMMA IdleKeepsItems ==
  ASSUME ItemInv, UNCHANGED <<obs, agent, posted, targetOf>>, ClosedOnAll',
         status' = "aborted" => status = "aborted"
  PROVE  ItemInv'
<1>1. IdentifiersSided' /\ RecordTiesOut'
  BY TieOutsKept DEF ItemInv, IdentifiersSided, RecordTiesOut
<1>2. PostingsFired'
  <2> SUFFICES ASSUME NEW n \in DOMAIN posted
               PROVE  /\ Kind(posted[n].obs) \notin ReferenceKinds
                      /\ posted[n].state \in DecisionStates
                      /\ Fired(posted[n], posted[n].obs)'
    BY KindsKept DEF PostingsFired
  <2>1. PICK r, j : /\ posted[n] = r /\ posted[n].obs = j
                    /\ Kind(j) \notin ReferenceKinds /\ r.state \in DecisionStates
                    /\ Fired(r, j)
    BY DEF ItemInv, PostingsFired
  <2>2. Fired(r, j)' = Fired(r, j)
    BY FiredKept
  <2>3. (posted[n] = r /\ posted[n].obs = j)'
    BY <2>1
  <2> QED BY <2>1, <2>2, <2>3
<1>3. AbortsOnlyOnSeam'
  BY SeamKept DEF ItemInv, AbortsOnlyOnSeam
<1> QED BY <1>1, <1>2, <1>3 DEF ItemInv

LEMMA GateInputKept == ASSUME UNCHANGED <<obs, posted>> PROVE GateInput' = GateInput
<1>1. References' = References /\ \A i : Kind(i)' = Kind(i)
  BY KindsKept
<1>2. \A i : valueOf(i)' = valueOf(i)
  BY DEF valueOf, Kind, AdjustmentM
<1>3. Open' = Open
  BY DEF Open
<1>4. OfKind({"recon_line"})' = OfKind({"recon_line"})
  BY DEF OfKind, Kind
<1>5. GateInput.kinds' = GateInput.kinds
  BY <1>1 DEF GateInput
<1>6. GateInput.terminal' = GateInput.terminal
  BY <1>1 DEF GateInput
<1>7. GateInput.lines' = GateInput.lines
  BY DEF GateInput
<1>8. GateInput.queue' = GateInput.queue
  BY <1>2, <1>3 DEF GateInput
<1>9. GateInput.failed' = GateInput.failed
  BY DEF GateInput
<1>10. GateInput.batch' = GateInput.batch
  BY <1>4 DEF GateInput
<1> QED BY <1>5, <1>6, <1>7, <1>8, <1>9, <1>10 DEF GateInput

LEMMA NextItemInv == RunInv /\ ItemInv /\ [Next]_vars => ItemInv'
<1> SUFFICES ASSUME RunInv, ItemInv, [Next]_vars PROVE ItemInv'
  OBVIOUS
<1>1. CASE Solve
  BY <1>1, IdleKeepsItems DEF Solve, ClosedOnAll
<1>2. CASE Close
  <2>1. UNCHANGED <<obs, agent, posted, targetOf>> /\ status' = "done"
    BY <1>2 DEF Close
  <2>2. close' = attemptClose(GateInput)' /\ DOMAIN obs \ References \subseteq Settled
    <3>1. close' = attemptClose(GateInput) /\ Rest = {}
      BY <1>2 DEF Close
    <3>2. PICK input : input = GateInput
      OBVIOUS
    <3>3. GateInput' = input
      BY <2>1, <3>2, GateInputKept
    <3>4. close' = attemptClose(input)
      BY <3>1, <3>2
    <3> QED BY <3>1, <3>3, <3>4 DEF Rest
  <2>3. ClosedOnAll'
    BY <2>1, <2>2, KindsKept DEF ClosedOnAll, Settled
  <2> QED BY <2>1, <2>3, IdleKeepsItems
<1>3. CASE Ended \/ UNCHANGED vars
  <2>1. UNCHANGED vars
    BY <1>3 DEF Ended
  <2>2. ClosedOnAll'
    <3>1. GateInput' = GateInput
      BY <2>1, GateInputKept DEF vars
    <3>2. PICK input : input = GateInput
      OBVIOUS
    <3>3. GateInput' = input
      BY <3>1, <3>2
    <3>4. status = "done" => DOMAIN obs \ References \subseteq Settled /\ close = attemptClose(input)
      BY <3>2 DEF ItemInv, ClosedOnAll
    <3> QED BY <2>1, <3>3, <3>4, KindsKept DEF ClosedOnAll, Settled, vars
  <2> QED BY <2>1, <2>2, IdleKeepsItems DEF vars
<1> QED BY <1>1, <1>2, <1>3, AnchorKeepsItems, TargetKeepsItems, MemberKeepsItems,
        RestKeepsItems DEF Next

LEMMA InitItemInv == Init => ItemInv
<1> SUFFICES ASSUME Init PROVE ItemInv
  OBVIOUS
<1>1. DOMAIN posted = {} /\ DOMAIN targetOf = {} /\ status = "running"
  BY DEF Init
<1>2. IdentifiersSided
  BY IdentifiersAssumption DEF Init, IdentifiersSided
<1> QED BY <1>1, <1>2 DEF ItemInv, PostingsFired, RecordTiesOut, ClosedOnAll, AbortsOnlyOnSeam

\* What is on record of the items, at every point of a run.
THEOREM ItemInvariance == Spec => []ItemInv
  BY InitItemInv, NextItemInv, RunInvariance, PTL DEF Spec

-----------------------------------------------------------------------------
(* What a posting leaves in Suspense                                       *)

\* A posting leaves nothing in Suspense, or its item, on the side its kind is open on.
LEMMA SuspenseNets ==
  ASSUME InputKept, NEW i \in DOMAIN obs, NEW rules \in [1..3 -> RuleNames], Fits(rules, i)
  PROVE  /\ rules[3] = Silent => NetOn("SUSPENSE", LinesOf(rules, i)) = 0
         /\ rules[3] # Silent =>
              /\ MayStayOpen(obs[i]) /\ valueOf(i) \in Nat
              /\ NetOn("SUSPENSE", LinesOf(rules, i))
                   = IF OpensAsDebit(obs[i]) THEN valueOf(i) ELSE -valueOf(i)
<1> DEFINE net(n) == LegNet(Legs(rules[n], i), "SUSPENSE")
           booked == NetOn("SUSPENSE", LinesOf(rules, i))
<1>1. obs[i].amount \in Nat /\ obs[i].credit \in Nat /\ obs[i].debit \in Nat
  BY ObservedIs DEF Observations
<1>2. ASSUME NEW x \in Nat, NEW a, NEW b, a # b, NEW account
      PROVE  LegNet(Transfer(a, b, x), account)
               = IF account = a THEN x ELSE IF account = b THEN -x ELSE 0
  BY <1>2 DEF LegNet, Transfer, dr, cr
<1>3. net(1) = 0
  <2>1. CASE rules[1] = "P1"
    BY <1>1, <1>2, <2>1, LegsAre
  <2>2. CASE rules[1] = "P3"
    BY <1>1, <1>2, <2>2, LegsAre
  <2>3. CASE rules[1] = Silent
    BY <2>3, SilentBooksNothing
  <2> QED BY <2>1, <2>2, <2>3 DEF Fits
<1>4. net(2) = 0
  <2>1. CASE rules[2] = "P2"
    <3>1. LegNet(LegsOfP2(i), "SUSPENSE") = 0
      BY DEF LegNet, LegsOfP2
    <3> QED BY <2>1, <3>1, LegsAre
  <2>2. CASE rules[2] = "P4"
    BY <1>1, <1>2, <2>2, LegsAre
  <2>3. CASE rules[2] = Silent
    BY <2>3, SilentBooksNothing
  <2> QED BY <2>1, <2>2, <2>3 DEF Fits
<1>5. /\ rules[3] = Silent => net(3) = 0
      /\ rules[3] # Silent =>
           /\ MayStayOpen(obs[i]) /\ valueOf(i) \in Nat
           /\ net(3) = IF OpensAsDebit(obs[i]) THEN valueOf(i) ELSE -valueOf(i)
  <2>1. CASE rules[3] = Silent
    BY <2>1, SilentBooksNothing
  <2>2. CASE rules[3] = "P5"
    <3>1. obs[i].kind = "bank_line"
      BY <2>2 DEF Fits, Silent, Kind
    <3>2. net(3) = -obs[i].amount
      BY <1>1, <1>2, <2>2, LegsAre
    <3>3. valueOf(i) = obs[i].amount /\ MayStayOpen(obs[i]) /\ ~OpensAsDebit(obs[i])
      BY <3>1 DEF valueOf, Kind, MayStayOpen, OpensAsDebit
    <3> QED BY <1>1, <2>2, <3>2, <3>3 DEF Silent
  <2>3. CASE rules[3] = "P6"
    <3>1. obs[i].kind \in {"settlement", "recon_line"}
      BY <2>3 DEF Fits, Silent, Kind
    <3>2. net(3) = obs[i].amount
      BY <1>1, <1>2, <2>3, LegsAre
    <3>3. valueOf(i) = obs[i].amount /\ MayStayOpen(obs[i]) /\ OpensAsDebit(obs[i])
      BY <3>1 DEF valueOf, Kind, MayStayOpen, OpensAsDebit
    <3> QED BY <1>1, <2>3, <3>2, <3>3 DEF Silent
  <2>4. CASE rules[3] = "P8"
    <3>1. obs[i].kind = "adjustment"
      BY <2>4 DEF Fits, Silent, Kind
    <3>2. AdjustmentM(i) \in Nat
      BY <1>1 DEF AdjustmentM
    <3>3. /\ obs[i].debit # 0 => net(3) = AdjustmentM(i)
          /\ obs[i].debit = 0 => net(3) = -AdjustmentM(i)
      BY <1>2, <2>4, <3>2, LegsAre
    <3>4. /\ valueOf(i) = AdjustmentM(i) /\ MayStayOpen(obs[i])
          /\ OpensAsDebit(obs[i]) <=> obs[i].debit # 0
      BY <3>1 DEF valueOf, Kind, MayStayOpen, OpensAsDebit
    <3> QED BY <2>4, <3>2, <3>3, <3>4 DEF Silent
  <2> QED BY <2>1, <2>2, <2>3, <2>4 DEF Fits
<1>6. booked = net(1) + net(2) + net(3)
  <2>1. \A n \in 1..3 : net(n) \in Int
    <3>1. net(3) \in Int
      BY <1>5
    <3> HIDE DEF net
    <3> QED BY <1>3, <1>4, <3>1
  <2>2. DOMAIN rules = 1..3 /\ "SUSPENSE" \in Accounts
    BY DEF Accounts
  <2> QED BY <2>1, <2>2, NetOnLines
<1> HIDE DEF net, booked
<1>7. net(3) \in Int
  BY <1>5
<1>8. booked = net(3)
  BY <1>3, <1>4, <1>6, <1>7
<1> QED BY <1>5, <1>8 DEF booked

NetOf(n) == NetOn("SUSPENSE", posted[n].lines)
EntityOf(n) == obs[posted[n].obs].entity
Owed(n) == IF posted[n].key = 0 THEN 0 ELSE valueOf(posted[n].obs)

\* The item of a posting is what it leaves in Suspense, and its lines balance.
LEMMA PostedItem ==
  ASSUME RunInv, ItemInv, NEW n \in DOMAIN posted
  PROVE  LET i == posted[n].obs
             lines == posted[n].lines
         IN  /\ i \in DOMAIN obs
             /\ \A l \in DOMAIN lines : /\ l \in (1..3) \X Accounts /\ lines[l].key = EntityOf(n)
                                        /\ lines[l].dr \in Int /\ lines[l].cr \in Int
             /\ IsFiniteSet(DOMAIN lines)
             /\ SumFunctionOnSet([l \in DOMAIN lines |-> lines[l].dr - lines[l].cr], DOMAIN lines) = 0
             /\ posted[n].key = 0 => NetOf(n) = 0
             /\ posted[n].key # 0 =>
                  /\ posted[n].key = EntityOf(n)
                  /\ MayStayOpen(obs[i]) /\ valueOf(i) \in Nat
                  /\ NetOf(n) = IF OpensAsDebit(obs[i]) THEN valueOf(i) ELSE -valueOf(i)
<1> DEFINE i == posted[n].obs
           lines == posted[n].lines
<1>1. i \in DOMAIN obs /\ InputKept
  BY DEF RunInv, PostedAreObserved, Settled
<1>2. PICK rules \in [1..3 -> RuleNames] :
        /\ Fits(rules, i) /\ lines = LinesOf(rules, i)
        /\ posted[n].key = IF rules[3] = Silent THEN 0 ELSE obs[i].entity
  BY DEF ItemInv, PostingsFired, Fired
<1>3. obs[i].entity # 0
  BY <1>1, ObservedIs DEF Observations
<1>4. NetOf(n) = NetOn("SUSPENSE", LinesOf(rules, i)) /\ EntityOf(n) = obs[i].entity
  BY <1>2 DEF NetOf, EntityOf
<1> HIDE DEF i, lines
<1>5. /\ IsFiniteSet(DOMAIN lines)
      /\ \A l \in DOMAIN lines : /\ l \in (1..3) \X Accounts /\ lines[l].key = obs[i].entity
                                 /\ lines[l].dr \in Int /\ lines[l].cr \in Int
  BY <1>1, <1>2, LinesAre
<1>6. SumFunctionOnSet([l \in DOMAIN lines |-> lines[l].dr - lines[l].cr], DOMAIN lines) = 0
  <2>1. \A k \in 1..3 : ~Refused(rules[k], i)
    BY <1>2 DEF Fits
  <2> QED BY <1>1, <1>2, <2>1, PostingBalances
<1>7. /\ rules[3] = Silent => NetOf(n) = 0
      /\ rules[3] # Silent =>
           /\ MayStayOpen(obs[i]) /\ valueOf(i) \in Nat
           /\ NetOf(n) = IF OpensAsDebit(obs[i]) THEN valueOf(i) ELSE -valueOf(i)
  BY <1>1, <1>2, <1>4, SuspenseNets
<1> QED BY <1>1, <1>2, <1>3, <1>4, <1>5, <1>6, <1>7 DEF i, lines

-----------------------------------------------------------------------------
(* The books and the queue, posting by posting                             *)

LEMMA PostedFinite == RunInv => IsFiniteSet(DOMAIN posted)
<1> SUFFICES ASSUME RunInv PROVE IsFiniteSet(DOMAIN posted)
  OBVIOUS
<1>1. posted \in Seq({posted[n] : n \in DOMAIN posted})
  BY DEF RunInv, PostedIsSeq
<1>2. DOMAIN posted = 1..Len(posted) /\ Len(posted) \in Int /\ 1 \in Int
  BY <1>1
<1> QED BY <1>2, FS_Interval

LEMMA LinesOfRun ==
  ASSUME RunInv, ItemInv
  PROVE  LET all == GateInput.lines IN
         /\ IsFiniteSet(DOMAIN all)
         /\ \A l \in DOMAIN all : /\ l[1] \in DOMAIN posted /\ l[2] \in DOMAIN posted[l[1]].lines
                                  /\ l = <<l[1], l[2]>> /\ all[l] = posted[l[1]].lines[l[2]]
                                  /\ all[l].key = EntityOf(l[1])
                                  /\ all[l].dr \in Int /\ all[l].cr \in Int
         /\ \A n \in DOMAIN posted : \A p \in DOMAIN posted[n].lines : <<n, p>> \in DOMAIN all
<1> DEFINE all == GateInput.lines
<1>1. /\ DOMAIN all = UNION {{n} \X (DOMAIN posted[n].lines) : n \in DOMAIN posted}
      /\ \A l \in DOMAIN all : all[l] = posted[l[1]].lines[l[2]]
  BY DEF GateInput
<1> HIDE DEF all
<1>2. \A n \in DOMAIN posted : \A l \in DOMAIN posted[n].lines :
        /\ l \in (1..3) \X Accounts /\ posted[n].lines[l].key = EntityOf(n)
        /\ posted[n].lines[l].dr \in Int /\ posted[n].lines[l].cr \in Int
  BY PostedItem
<1>3. \A l \in DOMAIN all : l[1] \in DOMAIN posted /\ l[2] \in DOMAIN posted[l[1]].lines
                            /\ l = <<l[1], l[2]>>
  BY <1>1
<1>4. \A n \in DOMAIN posted : \A p \in DOMAIN posted[n].lines : <<n, p>> \in DOMAIN all
  BY <1>1
<1>5. DOMAIN all \subseteq (DOMAIN posted) \X ((1..3) \X Accounts)
  BY <1>2, <1>3
<1>6. IsFiniteSet((DOMAIN posted) \X ((1..3) \X Accounts))
  BY PostedFinite, ThreeFinite, AccountsFinite, FS_Product
<1>7. IsFiniteSet(DOMAIN all)
  BY <1>5, <1>6, FS_Subset
<1> QED BY <1>1, <1>2, <1>3, <1>4, <1>7 DEF all

\* The lines of a posting that are among S.
Own(S, n) == {p \in DOMAIN posted[n].lines : <<n, p>> \in S}

\* A sum over journal lines is the sum of what each posting puts there.
LEMMA SumByPosting ==
  ASSUME RunInv, ItemInv, NEW S \in SUBSET DOMAIN GateInput.lines,
         NEW w, \A l \in S : w[l] \in Int,
         NEW u, NEW v,
         \A n \in DOMAIN posted :
           /\ \A p \in Own(S, n) : u[n][p] = w[<<n, p>>]
           /\ v[n] \in Int /\ SumFunctionOnSet(u[n], Own(S, n)) = v[n]
  PROVE  SumFunctionOnSet(w, S) = SumFunctionOnSet(v, DOMAIN posted)
<1> DEFINE place == [l \in S |-> l[1]]
<1>1. /\ IsFiniteSet(S)
      /\ \A l \in S : l[1] \in DOMAIN posted /\ l[2] \in DOMAIN posted[l[1]].lines
                      /\ l = <<l[1], l[2]>>
  BY LinesOfRun, FS_Subset
<1>2. \A l \in S : place[l] \in DOMAIN posted
  BY <1>1
<1>3. ASSUME NEW n \in DOMAIN posted
      PROVE  SumFunctionOnSet(w, PartOf(S, place, n)) = v[n]
  <2> DEFINE D == PartOf(S, place, n)
             second == [l \in D |-> l[2]]
             P == Own(S, n)
             terms == u[n]
  <2>1. D \subseteq S /\ \A l \in D : l[1] = n /\ l = <<n, l[2]>>
    BY <1>1 DEF PartOf
  <2>2. \A l \in D : second[l] \in P /\ terms[second[l]] = w[l]
    <3> SUFFICES ASSUME NEW l \in D PROVE second[l] \in P /\ terms[second[l]] = w[l]
      OBVIOUS
    <3>1. l \in S /\ l = <<n, l[2]>> /\ l[2] \in DOMAIN posted[n].lines
      BY <1>1, <2>1
    <3>2. l[2] \in P
      BY <3>1 DEF Own
    <3> QED BY <3>1, <3>2
  <2>3. \A l, k \in D : second[l] = second[k] => l = k
    BY <2>1
  <2>4. \A p \in P : terms[p] \in Int /\ ((\A l \in D : second[l] # p) => terms[p] = 0)
    <3> SUFFICES ASSUME NEW p \in P
                 PROVE  terms[p] \in Int /\ \E l \in D : second[l] = p
      OBVIOUS
    <3>1. <<n, p>> \in S
      BY DEF Own
    <3>2. <<n, p>> \in D
      BY <3>1 DEF PartOf
    <3>3. terms[p] = w[<<n, p>>]
      OBVIOUS
    <3>4. second[<<n, p>>] = p
      BY <3>2
    <3> QED BY <3>1, <3>2, <3>3, <3>4
  <2>5. IsFiniteSet(D) /\ IsFiniteSet(P)
    <3>1. IsFiniteSet(DOMAIN posted[n].lines) /\ P \subseteq DOMAIN posted[n].lines
      BY PostedItem DEF Own
    <3> QED BY <1>1, <2>1, <3>1, FS_Subset
  <2>6. SumFunctionOnSet(terms, P) = v[n]
    OBVIOUS
  <2> HIDE DEF D, second, P, terms
  <2>7. SumFunctionOnSet(w, D) = SumFunctionOnSet(terms, P)
    BY <2>2, <2>3, <2>4, <2>5, SumElsewhere
  <2> QED BY <2>6, <2>7 DEF D
<1>4. \A n \in DOMAIN posted : v[n] \in Int /\ SumFunctionOnSet(w, PartOf(S, place, n)) = v[n]
  BY <1>3
<1> DEFINE P == DOMAIN posted
<1>5. /\ IsFiniteSet(P) /\ IsFiniteSet(S)
      /\ \A l \in S : w[l] \in Int /\ place[l] \in P
      /\ \A n \in P : v[n] \in Int /\ SumFunctionOnSet(w, PartOf(S, place, n)) = v[n]
  BY <1>1, <1>2, <1>4, PostedFinite
<1> HIDE DEF place, P
<1>6. SumFunctionOnSet(w, S) = SumFunctionOnSet(v, P)
  BY <1>5, SumInParts
<1> QED BY <1>6 DEF P

\* G2: what balances posting by posting balances.
LEMMA BooksBalance == RunInv /\ ItemInv => TrialBalance(GateInput)
<1> SUFFICES ASSUME RunInv, ItemInv PROVE TrialBalance(GateInput)
  OBVIOUS
<1> DEFINE all == GateInput.lines
           S == DOMAIN all
           d == [l \in S |-> all[l].dr]
           c == [l \in S |-> all[l].cr]
           w == [l \in S |-> all[l].dr - all[l].cr]
           u == [n \in DOMAIN posted |->
                   [p \in DOMAIN posted[n].lines |->
                      posted[n].lines[p].dr - posted[n].lines[p].cr]]
           zero == [n \in DOMAIN posted |-> 0]
<1>1. /\ Total(GateInput.lines, LAMBDA l : l.dr) = SumFunctionOnSet(d, S)
      /\ Total(GateInput.lines, LAMBDA l : l.cr) = SumFunctionOnSet(c, S)
  BY DEF Total, SumFunction
<1>2. \A l \in S : /\ l[1] \in DOMAIN posted /\ all[l] = posted[l[1]].lines[l[2]]
                   /\ all[l].dr \in Int /\ all[l].cr \in Int
  BY LinesOfRun
<1>3. IsFiniteSet(S) /\ \A n \in DOMAIN posted : \A p \in DOMAIN posted[n].lines : <<n, p>> \in S
  BY LinesOfRun
<1> HIDE DEF all
<1>4. \A l \in S : d[l] \in Int /\ c[l] \in Int /\ w[l] = d[l] - c[l]
  BY <1>2
<1>5. ASSUME NEW n \in DOMAIN posted
      PROVE  /\ \A p \in Own(S, n) : u[n][p] = w[<<n, p>>]
             /\ zero[n] \in Int /\ SumFunctionOnSet(u[n], Own(S, n)) = zero[n]
  <2>1. Own(S, n) = DOMAIN posted[n].lines
    BY <1>3 DEF Own
  <2>2. \A p \in Own(S, n) : u[n][p] = w[<<n, p>>]
    <3> SUFFICES ASSUME NEW p \in Own(S, n) PROVE u[n][p] = w[<<n, p>>]
      OBVIOUS
    <3> DEFINE l == <<n, p>>
    <3>1. l \in S /\ l[1] = n /\ l[2] = p
      BY DEF Own
    <3>2. all[l] = posted[n].lines[p]
      BY <1>2, <3>1
    <3>3. u[n][p] = posted[n].lines[p].dr - posted[n].lines[p].cr
      BY <2>1
    <3> HIDE DEF l
    <3>4. w[l] = all[l].dr - all[l].cr
      BY <3>1
    <3> QED BY <3>2, <3>3, <3>4 DEF l
  <2>3. SumFunctionOnSet([p \in DOMAIN posted[n].lines |->
                            posted[n].lines[p].dr - posted[n].lines[p].cr],
                         DOMAIN posted[n].lines) = 0
    BY PostedItem
  <2>4. SumFunctionOnSet(u[n], Own(S, n)) = 0
    BY <2>1, <2>3
  <2> QED BY <2>2, <2>4
<1>6. \A l \in S : w[l] \in Int
  BY <1>4
<1>7. SumFunctionOnSet(w, S) = SumFunctionOnSet(zero, DOMAIN posted)
  <2>1. S \in SUBSET DOMAIN GateInput.lines
    BY DEF all
  <2> HIDE DEF S, w, u, zero
  <2> QED BY <1>5, <1>6, <2>1, SumByPosting
<1>8. SumFunctionOnSet(zero, DOMAIN posted) = 0
  <2>1. \A n \in DOMAIN posted : zero[n] = 0
    OBVIOUS
  <2> HIDE DEF zero
  <2> QED BY <2>1, PostedFinite, SumOfZeros
<1> HIDE DEF d, c, w
<1>9. SumFunctionOnSet(w, S) = SumFunctionOnSet(d, S) - SumFunctionOnSet(c, S)
  BY <1>3, <1>4, SumOfDifferences
<1>10. SumFunctionOnSet(d, S) \in Int /\ SumFunctionOnSet(c, S) \in Int
  BY <1>3, <1>4, SumIsInt
<1> DEFINE x == SumFunctionOnSet(d, S)
           y == SumFunctionOnSet(c, S)
<1>11. x - y = 0 /\ x \in Int /\ y \in Int
  BY <1>7, <1>8, <1>9, <1>10
<1> HIDE DEF x, y
<1>12. x = y
  BY <1>11
<1> QED BY <1>1, <1>12 DEF TrialBalance, x, y

\* What the books hold in Suspense under an identifier, posting by posting.
LEMMA ItemNetIs ==
  ASSUME RunInv, ItemInv, NEW key
  PROVE  /\ ItemNet(GateInput, key)
              = SumFunctionOnSet([n \in DOMAIN posted |-> IF EntityOf(n) = key THEN NetOf(n) ELSE 0],
                                 DOMAIN posted)
         /\ \A n \in DOMAIN posted : NetOf(n) \in Int
<1> DEFINE all == GateInput.lines
           S == {l \in SuspenseLines(GateInput) : all[l].key = key}
           w == [l \in S |-> all[l].dr - all[l].cr]
           booked(n) == {p \in DOMAIN posted[n].lines : posted[n].lines[p].account = "SUSPENSE"}
           u == [n \in DOMAIN posted |->
                   [p \in booked(n) |-> posted[n].lines[p].dr - posted[n].lines[p].cr]]
           v == [n \in DOMAIN posted |-> IF EntityOf(n) = key THEN NetOf(n) ELSE 0]
<1>1. ItemNet(GateInput, key) = SumFunctionOnSet(w, S)
  BY DEF ItemNet, SumFunction
<1>2. \A l \in DOMAIN all : /\ l[1] \in DOMAIN posted /\ l[2] \in DOMAIN posted[l[1]].lines
                            /\ l = <<l[1], l[2]>> /\ all[l] = posted[l[1]].lines[l[2]]
                            /\ all[l].key = EntityOf(l[1])
                            /\ all[l].dr \in Int /\ all[l].cr \in Int
  BY LinesOfRun
<1>3. \A n \in DOMAIN posted : \A p \in DOMAIN posted[n].lines : <<n, p>> \in DOMAIN all
  BY LinesOfRun
<1>4. S = {l \in DOMAIN all : all[l].account = "SUSPENSE" /\ all[l].key = key}
  BY DEF SuspenseLines
<1>5. \A n \in DOMAIN posted : /\ NetOf(n) \in Int
                               /\ NetOf(n) = SumFunctionOnSet(u[n], booked(n))
  <2> SUFFICES ASSUME NEW n \in DOMAIN posted
               PROVE  NetOf(n) \in Int /\ NetOf(n) = SumFunctionOnSet(u[n], booked(n))
    OBVIOUS
  <2>1. NetOf(n) = SumFunctionOnSet(u[n], booked(n))
    BY DEF NetOf, NetOn, SumFunction
  <2>2. /\ posted[n].key = 0 => NetOf(n) = 0
        /\ posted[n].key # 0 => NetOf(n) \in Int
    <3>1. /\ posted[n].key = 0 => NetOf(n) = 0
          /\ posted[n].key # 0 =>
               /\ valueOf(posted[n].obs) \in Nat
               /\ NetOf(n) = IF OpensAsDebit(obs[posted[n].obs]) THEN valueOf(posted[n].obs)
                             ELSE -valueOf(posted[n].obs)
      BY PostedItem
    <3> QED BY <3>1
  <2>3. NetOf(n) \in Int
    BY <2>2
  <2> QED BY <2>1, <2>3
<1>6. \A l \in S : w[l] \in Int
  BY <1>2, <1>4
<1>7. S \in SUBSET DOMAIN GateInput.lines
  BY <1>4
<1> HIDE DEF all
<1>8. ASSUME NEW n \in DOMAIN posted
      PROVE  /\ \A p \in Own(S, n) : u[n][p] = w[<<n, p>>]
             /\ v[n] \in Int /\ SumFunctionOnSet(u[n], Own(S, n)) = v[n]
  <2>1. \A p \in DOMAIN posted[n].lines :
          /\ <<n, p>> \in DOMAIN all
          /\ all[<<n, p>>] = posted[n].lines[p] /\ all[<<n, p>>].key = EntityOf(n)
    <3> SUFFICES ASSUME NEW p \in DOMAIN posted[n].lines
                 PROVE  /\ <<n, p>> \in DOMAIN all
                        /\ all[<<n, p>>] = posted[n].lines[p] /\ all[<<n, p>>].key = EntityOf(n)
      OBVIOUS
    <3> DEFINE l == <<n, p>>
    <3>1. l \in DOMAIN all /\ l[1] = n /\ l[2] = p
      BY <1>3
    <3> HIDE DEF l
    <3>2. all[l] = posted[n].lines[p] /\ all[l].key = EntityOf(n)
      BY <1>2, <3>1
    <3> QED BY <3>1, <3>2 DEF l
  <2>2. Own(S, n) = IF EntityOf(n) = key THEN booked(n) ELSE {}
    BY <1>4, <2>1 DEF Own
  <2>3. \A p \in Own(S, n) : u[n][p] = w[<<n, p>>]
    <3> SUFFICES ASSUME NEW p \in Own(S, n) PROVE u[n][p] = w[<<n, p>>]
      OBVIOUS
    <3>1. p \in DOMAIN posted[n].lines /\ <<n, p>> \in S
      BY DEF Own
    <3>2. p \in booked(n)
      BY <2>2
    <3>3. u[n][p] = posted[n].lines[p].dr - posted[n].lines[p].cr
      BY <3>2
    <3>4. w[<<n, p>>] = all[<<n, p>>].dr - all[<<n, p>>].cr
      BY <3>1
    <3> HIDE DEF u, w
    <3> QED BY <2>1, <3>1, <3>3, <3>4
  <2>4. v[n] = IF EntityOf(n) = key THEN NetOf(n) ELSE 0
    OBVIOUS
  <2> HIDE DEF u, v, booked
  <2>5. v[n] \in Int /\ SumFunctionOnSet(u[n], Own(S, n)) = v[n]
    <3>1. CASE EntityOf(n) = key
      BY <1>5, <2>2, <2>4, <3>1
    <3>2. CASE EntityOf(n) # key
      <4>1. Own(S, n) = {} /\ v[n] = 0
        BY <2>2, <2>4, <3>2
      <4>2. SumFunctionOnSet(u[n], {}) = 0
        BY SumOfNone, Zenon
      <4> QED BY <4>1, <4>2
    <3> QED BY <3>1, <3>2
  <2> QED BY <2>3, <2>5
<1>9. SumFunctionOnSet(w, S) = SumFunctionOnSet(v, DOMAIN posted)
  <2> HIDE DEF S, w, u, v, booked
  <2> QED BY <1>6, <1>7, <1>8, SumByPosting
<1> QED BY <1>1, <1>5, <1>9

\* What the queue holds under it, posting by posting.
LEMMA QueuedIs ==
  ASSUME RunInv, ItemInv, NEW key
  PROVE  LET owed == [n \in DOMAIN posted |-> IF EntityOf(n) = key THEN Owed(n) ELSE 0]
         IN  /\ QueuedUnder(GateInput, key) = SumFunctionOnSet(owed, DOMAIN posted)
             /\ \A n \in DOMAIN posted : owed[n] \in Nat
<1> DEFINE owed == [n \in DOMAIN posted |-> IF EntityOf(n) = key THEN Owed(n) ELSE 0]
           queue == GateInput.queue
           D == {n \in DOMAIN queue : queue[n].key = key}
           w == [n \in D |-> queue[n].value]
           same == [n \in D |-> n]
           P == DOMAIN posted
<1>1. QueuedUnder(GateInput, key) = SumFunctionOnSet(w, D)
  BY DEF QueuedUnder, SumFunction
<1>2. /\ DOMAIN queue = {n \in P : posted[n].key # 0}
      /\ \A n \in DOMAIN queue : /\ queue[n].key = posted[n].key
                                 /\ queue[n].value = valueOf(posted[n].obs)
  BY DEF GateInput, Open
<1> HIDE DEF queue
<1>3. \A n \in P : posted[n].key # 0 => /\ posted[n].key = EntityOf(n)
                                        /\ valueOf(posted[n].obs) \in Nat
  BY PostedItem
<1>4. \A n \in P : owed[n] \in Nat
  BY <1>3 DEF Owed
<1>5. D = {n \in P : posted[n].key # 0 /\ EntityOf(n) = key}
  BY <1>2, <1>3
<1>6. \A n \in D : same[n] \in P /\ owed[same[n]] = w[n]
  BY <1>2, <1>5 DEF Owed
<1>7. \A n, k \in D : same[n] = same[k] => n = k
  OBVIOUS
<1>8. \A n \in P : owed[n] \in Int /\ ((\A k \in D : same[k] # n) => owed[n] = 0)
  <2> SUFFICES ASSUME NEW n \in P PROVE owed[n] \in Int /\ (n \notin D => owed[n] = 0)
    OBVIOUS
  <2>1. n \notin D => owed[n] = 0
    BY <1>5 DEF Owed
  <2> QED BY <1>4, <2>1
<1>9. IsFiniteSet(P) /\ IsFiniteSet(D)
  BY <1>5, PostedFinite, FS_Subset
<1> HIDE DEF D, w, same, P, owed
<1>10. SumFunctionOnSet(w, D) = SumFunctionOnSet(owed, P)
  BY <1>6, <1>7, <1>8, <1>9, SumElsewhere
<1> QED BY <1>1, <1>4, <1>10 DEF P, owed

\* Item by item the books hold what the queue does.
LEMMA ItemsAgree ==
  ASSUME RunInv, ItemInv, NEW key
  PROVE  /\ AbsPaise(ItemNet(GateInput, key)) = QueuedUnder(GateInput, key)
         /\ QueuedUnder(GateInput, key) \in Nat
<1> DEFINE P == DOMAIN posted
           net == [n \in P |-> IF EntityOf(n) = key THEN NetOf(n) ELSE 0]
           owed == [n \in P |-> IF EntityOf(n) = key THEN Owed(n) ELSE 0]
           zero == [n \in P |-> 0]
           x == ItemNet(GateInput, key)
           y == QueuedUnder(GateInput, key)
<1>1. x = SumFunctionOnSet(net, P) /\ y = SumFunctionOnSet(owed, P)
  BY ItemNetIs, QueuedIs
<1>2. \A n \in P : owed[n] \in Nat
  BY QueuedIs
<1>3. IsFiniteSet(P)
  BY PostedFinite
<1>4. y \in Nat
  <2> HIDE DEF P, owed, y
  <2> QED BY <1>1, <1>2, <1>3, SumIsNat
<1>5. \A n \in P :
        /\ posted[n].obs \in DOMAIN obs
        /\ posted[n].key = 0 => NetOf(n) = 0
        /\ posted[n].key # 0 =>
             /\ MayStayOpen(obs[posted[n].obs]) /\ valueOf(posted[n].obs) \in Nat
             /\ NetOf(n) = IF OpensAsDebit(obs[posted[n].obs]) THEN valueOf(posted[n].obs)
                           ELSE -valueOf(posted[n].obs)
  BY PostedItem
<1>6. \A n, k \in P : posted[n].key # 0 /\ posted[k].key # 0 /\ EntityOf(n) = EntityOf(k) =>
        OpensAsDebit(obs[posted[n].obs]) = OpensAsDebit(obs[posted[k].obs])
  BY <1>5 DEF ItemInv, IdentifiersSided, EntityOf
<1>7. CASE \E n \in P : posted[n].key # 0 /\ EntityOf(n) = key /\ ~OpensAsDebit(obs[posted[n].obs])
  <2>1. \A n \in P : posted[n].key # 0 /\ EntityOf(n) = key => ~OpensAsDebit(obs[posted[n].obs])
    BY <1>6, <1>7
  <2>2. \A n \in P : zero[n] \in Int /\ owed[n] \in Int /\ net[n] = zero[n] - owed[n]
    BY <1>5, <2>1 DEF Owed
  <2>3. SumFunctionOnSet(zero, P) = 0
    <3>1. \A n \in P : zero[n] = 0
      OBVIOUS
    <3> HIDE DEF zero, P
    <3> QED BY <1>3, <3>1, SumOfZeros
  <2> HIDE DEF P, net, owed, zero, x, y
  <2>4. SumFunctionOnSet(net, P) = SumFunctionOnSet(zero, P) - SumFunctionOnSet(owed, P)
    BY <1>3, <2>2, SumOfDifferences
  <2>5. x = 0 - y
    BY <1>1, <2>3, <2>4
  <2>6. AbsPaise(x) = y
    BY <1>4, <2>5 DEF AbsPaise
  <2> QED BY <1>4, <2>6 DEF x, y
<1>8. CASE \A n \in P : posted[n].key # 0 /\ EntityOf(n) = key => OpensAsDebit(obs[posted[n].obs])
  <2>1. \A n \in P : owed[n] \in Int /\ net[n] = owed[n]
    BY <1>5, <1>8 DEF Owed
  <2> HIDE DEF P, net, owed, x, y
  <2>2. x = y
    BY <1>1, <1>3, <2>1, SumAgrees
  <2>3. AbsPaise(x) = y
    BY <1>4, <2>2 DEF AbsPaise
  <2> QED BY <1>4, <2>3 DEF x, y
<1> QED BY <1>7, <1>8

\* G3: gross of all items, Suspense is what the queue holds.
LEMMA SuspenseIsQueue == RunInv /\ ItemInv => runG3(GateInput)
<1> SUFFICES ASSUME RunInv, ItemInv PROVE runG3(GateInput)
  OBVIOUS
<1> DEFINE all == GateInput.lines
           queue == GateInput.queue
           entity == [n \in DOMAIN posted |-> EntityOf(n)]
           E == {entity[n] : n \in DOMAIN posted}
           keys == SuspenseKeys(GateInput)
           gross == [key \in keys |-> AbsPaise(ItemNet(GateInput, key))]
           items == [key \in E |-> AbsPaise(ItemNet(GateInput, key))]
           owed == [key \in E |-> QueuedUnder(GateInput, key)]
           same == [key \in keys |-> key]
           D == DOMAIN queue
           value == [n \in D |-> queue[n].value]
           under == [n \in D |-> queue[n].key]
<1>1. /\ SuspenseGross(GateInput) = SumFunctionOnSet(gross, keys)
      /\ Unresolved(GateInput) = SumFunctionOnSet(value, D)
  BY DEF SuspenseGross, Unresolved, Total, SumFunction
<1>2. IsFiniteSet(E)
  <2>1. entity \in Surjection(DOMAIN posted, E)
    BY DEF Surjection
  <2> HIDE DEF E, entity
  <2> QED BY <2>1, PostedFinite, FS_Surjection
<1>3. keys \subseteq E
  <2>1. \A l \in DOMAIN all : l[1] \in DOMAIN posted /\ all[l].key = EntityOf(l[1])
    BY LinesOfRun
  <2>2. keys = {all[l].key : l \in {l \in DOMAIN all : all[l].account = "SUSPENSE"}}
    BY DEF SuspenseKeys, SuspenseLines
  <2> HIDE DEF all, keys
  <2> QED BY <2>1, <2>2
<1>4. \A key \in E : items[key] = owed[key] /\ owed[key] \in Nat
  BY ItemsAgree
<1>5. ASSUME NEW key \in E, key \notin keys PROVE items[key] = 0
  <2> DEFINE S == {l \in SuspenseLines(GateInput) : all[l].key = key}
             w == [l \in S |-> all[l].dr - all[l].cr]
  <2>1. ItemNet(GateInput, key) = SumFunctionOnSet(w, S)
    BY DEF ItemNet, SumFunction
  <2>2. S = {}
    BY <1>5 DEF SuspenseKeys
  <2> HIDE DEF S, w
  <2>3. SumFunctionOnSet(w, S) = 0
    BY <2>2, SumOfNone, Zenon
  <2>4. ItemNet(GateInput, key) = 0
    BY <2>1, <2>3
  <2> QED BY <2>4 DEF AbsPaise
<1>6. SumFunctionOnSet(gross, keys) = SumFunctionOnSet(items, E)
  <2>1. \A key \in keys : same[key] \in E /\ items[same[key]] = gross[key]
    BY <1>3
  <2>2. \A key, other \in keys : same[key] = same[other] => key = other
    OBVIOUS
  <2>3. \A key \in E : items[key] \in Int /\ ((\A other \in keys : same[other] # key) => items[key] = 0)
    <3> SUFFICES ASSUME NEW key \in E
                 PROVE  items[key] \in Int /\ (key \notin keys => items[key] = 0)
      OBVIOUS
    <3> HIDE DEF items, owed, keys, E
    <3>1. items[key] \in Int
      BY <1>4
    <3> QED BY <1>5, <3>1
  <2>4. IsFiniteSet(keys)
    BY <1>2, <1>3, FS_Subset
  <2> HIDE DEF gross, items, keys, E, same
  <2> QED BY <1>2, <2>1, <2>2, <2>3, <2>4, SumElsewhere
<1>7. SumFunctionOnSet(items, E) = SumFunctionOnSet(owed, E)
  <2>1. \A key \in E : owed[key] \in Int /\ items[key] = owed[key]
    BY <1>4
  <2> HIDE DEF items, owed, E
  <2> QED BY <1>2, <2>1, SumAgrees
<1>8. /\ D \subseteq DOMAIN posted
      /\ \A n \in D : under[n] = EntityOf(n) /\ value[n] \in Nat
  <2>1. /\ D = {n \in DOMAIN posted : posted[n].key # 0}
        /\ \A n \in D : queue[n].key = posted[n].key /\ queue[n].value = valueOf(posted[n].obs)
    BY DEF GateInput, Open
  <2>2. \A n \in DOMAIN posted : posted[n].key # 0 => /\ posted[n].key = EntityOf(n)
                                                      /\ valueOf(posted[n].obs) \in Nat
    BY PostedItem
  <2> HIDE DEF queue
  <2> QED BY <2>1, <2>2
<1>9. SumFunctionOnSet(value, D) = SumFunctionOnSet(owed, E)
  <2>1. IsFiniteSet(D)
    BY <1>8, PostedFinite, FS_Subset
  <2>2. \A n \in D : value[n] \in Int /\ under[n] \in E
    <3>1. \A n \in DOMAIN posted : EntityOf(n) \in E
      OBVIOUS
    <3> HIDE DEF value, under, D, E
    <3> QED BY <1>8, <3>1
  <2>3. ASSUME NEW key \in E
        PROVE  owed[key] \in Int /\ SumFunctionOnSet(value, PartOf(D, under, key)) = owed[key]
    <3> DEFINE S == {n \in D : queue[n].key = key}
               u == [n \in S |-> queue[n].value]
    <3>1. owed[key] = SumFunctionOnSet(u, S)
      BY DEF QueuedUnder, SumFunction
    <3>2. PartOf(D, under, key) = S
      BY DEF PartOf
    <3>3. \A n \in S : u[n] \in Int /\ value[n] = u[n]
      <4>1. S \subseteq D /\ \A n \in S : value[n] = u[n]
        OBVIOUS
      <4> HIDE DEF value, u, S, D, under
      <4> QED BY <1>8, <4>1
    <3>4. IsFiniteSet(S)
      BY <2>1, FS_Subset
    <3>5. SumFunctionOnSet(value, S) = SumFunctionOnSet(u, S)
      <4> HIDE DEF value, u, S
      <4> QED BY <3>3, <3>4, SumAgrees
    <3>6. owed[key] \in Int
      <4> HIDE DEF items, owed, E
      <4> QED BY <1>4
    <3> QED BY <3>1, <3>2, <3>5, <3>6
  <2> HIDE DEF value, D, under, owed, E
  <2> QED BY <1>2, <2>1, <2>2, <2>3, SumInParts
<1> QED BY <1>1, <1>6, <1>7, <1>9 DEF runG3

\* G1: every observation ends in the one state its kind allows.
LEMMA AllTerminal == RunInv /\ BookInv /\ ItemInv /\ status = "done" => runG1(GateInput)
<1> SUFFICES ASSUME RunInv, BookInv, ItemInv, status = "done" PROVE runG1(GateInput)
  OBVIOUS
<1> DEFINE kinds == GateInput.kinds
           terminal == GateInput.terminal
           input(o) == <<"input", o>>
           place(n) == <<"posted", n>>
<1>1. DOMAIN kinds = DOMAIN obs /\ \A o \in DOMAIN obs : kinds[o] = Kind(o)
  BY DEF GateInput
<1>2. /\ DOMAIN terminal = ({"input"} \X References) \cup ({"posted"} \X (DOMAIN posted))
      /\ \A e \in DOMAIN terminal :
           terminal[e] = IF e[1] = "input" THEN [obs |-> e[2], state |-> "REFERENCE"]
                         ELSE [obs |-> posted[e[2]].obs, state |-> posted[e[2]].state]
  BY DEF GateInput
<1> HIDE DEF kinds, terminal
<1>3. \A o \in References : /\ input(o) \in DOMAIN terminal
                            /\ terminal[input(o)].obs = o
                            /\ terminal[input(o)].state = "REFERENCE"
  <2> SUFFICES ASSUME NEW o \in References
               PROVE  /\ input(o) \in DOMAIN terminal
                      /\ terminal[input(o)].obs = o
                      /\ terminal[input(o)].state = "REFERENCE"
    OBVIOUS
  <2>1. input(o) \in DOMAIN terminal /\ input(o)[1] = "input" /\ input(o)[2] = o
    BY <1>2
  <2> HIDE DEF input
  <2>2. terminal[input(o)] = [obs |-> o, state |-> "REFERENCE"]
    BY <1>2, <2>1
  <2> QED BY <2>1, <2>2
<1>4. \A n \in DOMAIN posted : /\ place(n) \in DOMAIN terminal
                               /\ terminal[place(n)].obs = posted[n].obs
                               /\ terminal[place(n)].state = posted[n].state
  <2> SUFFICES ASSUME NEW n \in DOMAIN posted
               PROVE  /\ place(n) \in DOMAIN terminal
                      /\ terminal[place(n)].obs = posted[n].obs
                      /\ terminal[place(n)].state = posted[n].state
    OBVIOUS
  <2>1. place(n) \in DOMAIN terminal /\ place(n)[1] # "input" /\ place(n)[2] = n
    BY <1>2
  <2> HIDE DEF place
  <2>2. terminal[place(n)] = [obs |-> posted[n].obs, state |-> posted[n].state]
    BY <1>2, <2>1
  <2> QED BY <2>1, <2>2
<1>5. \A e \in DOMAIN terminal : \/ \E o \in References : e = input(o)
                                 \/ \E n \in DOMAIN posted : e = place(n)
  BY <1>2
<1>6. \A n \in DOMAIN posted : /\ posted[n].obs \in DOMAIN obs
                               /\ Kind(posted[n].obs) \notin ReferenceKinds
                               /\ posted[n].state # "REFERENCE"
  BY DEF RunInv, PostedAreObserved, Settled, ItemInv, PostingsFired, DecisionStates
<1>7. \A o \in DOMAIN obs : o \in References <=> Kind(o) \in ReferenceKinds
  BY DEF References, OfKind, ReferenceKinds
<1>8. \A o \in References : o \in DOMAIN obs
  BY DEF References, OfKind
<1>9. \A n, k \in DOMAIN posted : posted[n].obs = posted[k].obs => n = k
  BY DEF BookInv, PostedOnce
<1>10. \A o \in DOMAIN obs \ References : \E n \in DOMAIN posted : posted[n].obs = o
  BY DEF ItemInv, ClosedOnAll, Settled
<1> HIDE DEF input, place
<1>11. \A e \in DOMAIN terminal : terminal[e].obs \in DOMAIN kinds
  BY <1>1, <1>3, <1>4, <1>5, <1>6, <1>8
<1>12. ASSUME NEW o \in DOMAIN kinds
       PROVE  OneState(GateInput, o) /\ StateFitsKind(GateInput, o)
  <2> DEFINE states == StatesOf(GateInput, o)
  <2>1. states = {e \in DOMAIN terminal : terminal[e].obs = o}
    BY DEF StatesOf, terminal
  <2> HIDE DEF states
  <2>2. \E e : states = {e} /\ ((terminal[e].state = "REFERENCE") <=> (kinds[o] \in ReferenceKinds))
    <3>1. CASE o \in References
      <4>1. states = {input(o)}
        BY <1>3, <1>4, <1>5, <1>6, <1>7, <1>8, <2>1, <3>1
      <4>2. kinds[o] \in ReferenceKinds /\ terminal[input(o)].state = "REFERENCE"
        BY <1>1, <1>3, <1>7, <1>12, <3>1
      <4> QED BY <4>1, <4>2
    <3>2. CASE o \notin References
      <4>1. PICK n \in DOMAIN posted : posted[n].obs = o
        BY <1>1, <1>10, <1>12, <3>2
      <4>2. states = {place(n)}
        BY <1>3, <1>4, <1>5, <1>9, <2>1, <3>2, <4>1
      <4>3. kinds[o] \notin ReferenceKinds /\ terminal[place(n)].state # "REFERENCE"
        BY <1>1, <1>4, <1>6, <1>12, <4>1
      <4> QED BY <4>2, <4>3
    <3> QED BY <3>1, <3>2
  <2>3. PICK e : states = {e} /\ ((terminal[e].state = "REFERENCE") <=> (kinds[o] \in ReferenceKinds))
    BY <2>2
  <2>4. OneState(GateInput, o)
    BY <2>3 DEF OneState, states
  <2>5. StateFitsKind(GateInput, o)
    BY <2>3 DEF StateFitsKind, states, terminal, kinds
  <2> QED BY <2>4, <2>5
<1> QED BY <1>11, <1>12 DEF runG1, kinds, terminal

\* A run that is over passes every gate of its own close.
LEMMA GatesPass ==
  RunInv /\ BookInv /\ ItemInv /\ status = "done" =>
    close = attemptClose(GateInput) /\ FailedGates(GateInput) = {}
<1> SUFFICES ASSUME RunInv, BookInv, ItemInv, status = "done"
             PROVE  close = attemptClose(GateInput) /\ FailedGates(GateInput) = {}
  OBVIOUS
<1>1. /\ runG1(GateInput) /\ TrialBalance(GateInput) /\ runG3(GateInput)
      /\ GateInput.chain /\ runG5(GateInput)
  <2>1. GateInput.chain /\ runG5(GateInput)
    BY DEF GateInput, runG5
  <2> QED BY <2>1, AllTerminal, BooksBalance, SuspenseIsQueue
<1>2. FailedGates(GateInput) = {}
  BY <1>1 DEF FailedGates, Gates, Passes
<1>3. close = attemptClose(GateInput)
  BY DEF ItemInv, ClosedOnAll
<1> QED BY <1>2, <1>3

-----------------------------------------------------------------------------
(* The theorems the items are for                                          *)

\* In every run of every input the reviewer's queue is what the books hold in
\* Suspense, identifier by identifier and not in total only, and no line abstains
\* without an item of its component.
THEOREM OpenItemsQueued == Spec => []OpenIsQueued
<1>1. RunInv /\ ItemInv => BooksMatchQueue
  BY ItemsAgree DEF BooksMatchQueue
<1> QED BY <1>1, RunInvariance, ItemInvariance, AbstentionsHaveItems, PTL DEF OpenIsQueued

\* Every run of every input that ends passes the gates of its own close, or was
\* stopped by the posting table at one of the seams Seam names.
THEOREM RunsEndUnblocked == Spec => []EndsUnblocked
<1>1. RunInv /\ BookInv /\ ItemInv => NeverBlocked
  <2> SUFFICES ASSUME RunInv, BookInv, ItemInv, status = "done"
               PROVE  close.period_status # "BLOCKED"
    BY DEF NeverBlocked
  <2> QED BY GatesPass DEF attemptClose, periodStatusFrom
<1>2. ItemInv => AbortsOnlyOnSeam
  BY DEF ItemInv
<1> QED BY <1>1, <1>2, RunInvariance, BookInvariance, ItemInvariance, PTL DEF EndsUnblocked

-----------------------------------------------------------------------------
(* What S1's anchors are, read the baseline's way                          *)

ObsKept == obs \in Seq(Observations)

LEMMA PlacesAre ==
  ASSUME ObsKept
  PROVE  /\ DOMAIN obs \subseteq Nat \ {0}
         /\ \A i \in DOMAIN obs : obs[i] \in Observations
BY DEF ObsKept

\* A non-empty set of places of a sequence has a last one.
LEMMA LastIsIn ==
  ASSUME NEW N \in Nat, NEW S, S \subseteq 1..N, S # {}
  PROVE  Max(S) \in S /\ \A x \in S : x <= Max(S)
<1> DEFINE T == {N - x : x \in S}
<1>1. T \subseteq Nat /\ T # {}
  <2>1. \A x \in S : x \in Nat /\ N - x \in Nat
    OBVIOUS
  <2> QED BY <2>1
<1> HIDE DEF T
<1>2. Min(T) \in T /\ \A y \in T : Min(T) <= y
  BY <1>1, FirstIsIn
<1>3. PICK x \in S : Min(T) = N - x
  BY <1>2 DEF T
<1>4. \A y \in S : y <= x
  <2> SUFFICES ASSUME NEW y \in S PROVE y <= x
    OBVIOUS
  <2>1. N - y \in T
    BY DEF T
  <2>2. N - x <= N - y
    BY <1>2, <1>3, <2>1
  <2> QED BY <2>2
<1>5. \A y \in S : x >= y
  BY <1>4
<1> QED BY <1>5 DEF Max

\* What shares UTR and amount with a settlement has an earliest one.
LEMMA EarliestIsIn ==
  ASSUME ObsKept, NEW s, CreditsFor(s) # {}
  PROVE  \E b \in CreditsFor(s) : \A c \in CreditsFor(s) \ {b} : Earlier(b, c)
<1> DEFINE D == {obs[b].value_date : b \in CreditsFor(s)}
           S == {b \in CreditsFor(s) : obs[b].value_date = Min(D)}
<1>1. /\ CreditsFor(s) \subseteq DOMAIN obs /\ DOMAIN obs \subseteq Nat
      /\ \A b \in DOMAIN obs : obs[b].value_date \in Nat
  <2>1. \A o \in Observations : o.value_date \in Nat
    BY DEF Observations
  <2> QED BY <2>1, PlacesAre DEF CreditsFor, BankLines, OfKind
<1>2. D \subseteq Nat /\ D # {}
  BY <1>1
<1> HIDE DEF D
<1>3. Min(D) \in D /\ \A d \in D : Min(D) <= d
  BY <1>2, FirstIsIn
<1>4. S \subseteq Nat /\ S # {}
  BY <1>1, <1>3 DEF D
<1> HIDE DEF S
<1>5. Min(S) \in S /\ \A b \in S : Min(S) <= b
  BY <1>4, FirstIsIn
<1> DEFINE b == Min(S)
<1>6. b \in CreditsFor(s) /\ obs[b].value_date = Min(D)
  BY <1>5 DEF S
<1> HIDE DEF b
<1>7. ASSUME NEW c \in CreditsFor(s) \ {b} PROVE Earlier(b, c)
  <2>1. obs[c].value_date \in D
    BY DEF D
  <2>2. Min(D) <= obs[c].value_date /\ Min(D) \in Nat
    BY <1>2, <1>3, <2>1
  <2>3. CASE obs[c].value_date = Min(D)
    <3>1. b <= c /\ b # c /\ b \in Nat /\ c \in Nat
      BY <1>1, <1>4, <1>5, <2>3 DEF S, b
    <3> QED BY <1>6, <2>3, <3>1 DEF Earlier
  <2>4. CASE obs[c].value_date # Min(D)
    <3>1. Min(D) < obs[c].value_date
      BY <1>1, <2>2, <2>4
    <3> QED BY <1>6, <3>1 DEF Earlier
  <2> QED BY <2>3, <2>4
<1> QED BY <1>6, <1>7

\* A settlement's bank line is its earliest credit, and no other settlement's.
LEMMA BankLineIs ==
  ASSUME ObsKept, NEW s, BankLineOf(s) # 0
  PROVE  /\ ~Collides(s) /\ BankLineOf(s) \in CreditsFor(s)
         /\ \A c \in CreditsFor(s) \ {BankLineOf(s)} : Earlier(BankLineOf(s), c)
<1>1. ~Collides(s) /\ CreditsFor(s) # {}
  BY DEF BankLineOf
<1>2. BankLineOf(s) = CHOOSE b \in CreditsFor(s) : \A c \in CreditsFor(s) \ {b} : Earlier(b, c)
  BY <1>1 DEF BankLineOf
<1>3. \E b \in CreditsFor(s) : \A c \in CreditsFor(s) \ {b} : Earlier(b, c)
  BY <1>1, EarliestIsIn
<1> QED BY <1>1, <1>2, <1>3

\* The second join is AN2.
LEMMA MatchIs ==
  ASSUME ObsKept, NEW s \in Settlements
  PROVE  \A b : <<s, b>> \in an2Join <=> b = BankLineOf(s) /\ BankLineOf(s) # 0
<1>1. /\ \A i, j \in DOMAIN obs : keyOf(i) = keyOf(j) <=> SameKey(i, j)
      /\ \A i, j : SameKey(i, j) => SameKey(j, i)
      /\ \A i, j, k : SameKey(i, j) /\ SameKey(j, k) => SameKey(i, k)
      /\ s \in DOMAIN obs /\ Settlements \subseteq DOMAIN obs /\ BankLines \subseteq DOMAIN obs
  BY DEF keyOf, SameKey, Settlements, BankLines, OfKind
<1>2. (\A t \in Settlements : keyOf(t) = keyOf(s) => t = s) <=> ~Collides(s)
  BY <1>1 DEF Collides
<1>3. ASSUME NEW b PROVE b \in CreditsFor(s) <=> b \in BankLines /\ obs[b].utr # 0 /\ keyOf(b) = keyOf(s)
  BY <1>1 DEF CreditsFor
<1>4. ASSUME NEW b \in CreditsFor(s)
      PROVE  (\A c \in BankLines \ {b} : keyOf(c) = keyOf(b) => Earlier(b, c))
               <=> \A c \in CreditsFor(s) \ {b} : Earlier(b, c)
  <2>1. \A c \in BankLines : keyOf(c) = keyOf(b) <=> c \in CreditsFor(s)
    <3>1. keyOf(b) = keyOf(s) /\ obs[b].utr # 0
      BY <1>3
    <3>2. \A c \in BankLines : keyOf(c) = keyOf(b) => obs[c].utr # 0
      BY <3>1 DEF keyOf
    <3> QED BY <1>3, <3>1, <3>2
  <2> QED BY <1>3, <2>1
<1>5. ASSUME NEW b
      PROVE  <<s, b>> \in an2Join <=>
               ~Collides(s) /\ b \in CreditsFor(s) /\ \A c \in CreditsFor(s) \ {b} : Earlier(b, c)
  <2>1. <<s, b>> \in an2Join <=>
          /\ b \in BankLines
          /\ \A t \in Settlements : keyOf(t) = keyOf(s) => t = s
          /\ obs[b].utr # 0 /\ keyOf(b) = keyOf(s)
          /\ \A c \in BankLines \ {b} : keyOf(c) = keyOf(b) => Earlier(b, c)
    BY DEF an2Join, EarliestOfKey
  <2> QED BY <1>2, <1>3, <1>4, <2>1
<1>6. \A b, c \in CreditsFor(s) : Earlier(b, c) /\ Earlier(c, b) => b = c
  <2>1. \A b \in CreditsFor(s) : b \in Nat /\ obs[b].value_date \in Nat
    <3>1. \A o \in Observations : o.value_date \in Nat
      BY DEF Observations
    <3> QED BY <3>1, PlacesAre DEF CreditsFor, BankLines, OfKind
  <2> QED BY <2>1 DEF Earlier
<1>7. BankLineOf(s) = 0 => Collides(s) \/ CreditsFor(s) = {}
  <2>1. SUFFICES ASSUME BankLineOf(s) = 0, ~Collides(s), CreditsFor(s) # {} PROVE FALSE
    OBVIOUS
  <2>2. BankLineOf(s) = CHOOSE b \in CreditsFor(s) : \A c \in CreditsFor(s) \ {b} : Earlier(b, c)
    BY <2>1 DEF BankLineOf
  <2>3. BankLineOf(s) \in CreditsFor(s)
    BY <2>1, <2>2, EarliestIsIn
  <2> QED BY <2>1, <2>3, PlacesAre DEF CreditsFor, BankLines, OfKind
<1> QED BY <1>5, <1>6, <1>7, BankLineIs

\* A settlement and its bank line are one amount, and no two settlements share one.
LEMMA OneSettlementPerLine ==
  ASSUME ObsKept, NEW s \in Settlements, BankLineOf(s) # 0
  PROVE  SumFunction([t \in {t \in Settlements : BankLineOf(t) = BankLineOf(s)} |-> obs[t].amount])
           = obs[BankLineOf(s)].amount
<1> DEFINE b == BankLineOf(s)
           S == {t \in Settlements : BankLineOf(t) = b}
           f == [t \in S |-> obs[t].amount]
<1>1. ~Collides(s) /\ SameKey(s, b)
  BY BankLineIs DEF CreditsFor
<1>2. \A t \in S : SameKey(t, b)
  BY BankLineIs DEF CreditsFor
<1>3. S = {s}
  BY <1>1, <1>2 DEF Collides, SameKey
<1>4. obs[s].amount \in Int /\ obs[s].amount = obs[b].amount
  <2>1. \A o \in Observations : o.amount \in Nat
    BY DEF Observations
  <2>2. obs[s].amount \in Nat
    BY <2>1, PlacesAre DEF Settlements, OfKind
  <2> QED BY <1>1, <2>2 DEF SameKey
<1>5. f[s] = obs[s].amount
  BY <1>3
<1> HIDE DEF S, b
<1>6. SumFunction(f) = SumFunctionOnSet(f, S)
  BY DEF SumFunction
<1> HIDE DEF f
<1>7. SumFunctionOnSet(f, {s}) = f[s]
  BY <1>4, <1>5, SumOfOne
<1>8. SumFunction(f) = obs[b].amount
  BY <1>3, <1>4, <1>5, <1>6, <1>7
<1> QED BY <1>8 DEF f, S, b

LEMMA EvidenceIs ==
  ASSUME ObsKept, NEW s \in Settlements
  PROVE  HasEvidence(s) <=> BankLineOf(s) # 0
BY OneSettlementPerLine DEF HasEvidence

\* The first join is AN1.
LEMMA JoinIs ==
  ASSUME ObsKept, NEW s \in Settlements
  PROVE  an1Join(s) = AnchoredMembers(s)
<1> SUFFICES ASSUME NEW m \in MemberEligible
             PROVE  AnchorOf(m) = s <=>
                      /\ obs[m].settlement = obs[s].entity
                      /\ \A t \in Settlements : obs[t].entity = obs[s].entity => t <= s
  BY DEF an1Join, AnchoredMembers
<1> DEFINE named == {t \in Settlements : obs[t].entity = obs[m].settlement}
<1>1. named \subseteq 1..Len(obs) /\ Len(obs) \in Nat /\ s \in Nat \ {0}
  BY DEF ObsKept, Settlements, OfKind
<1>2. AnchorOf(m) = IF named = {} THEN 0 ELSE Max(named)
  BY DEF AnchorOf
<1>3. s \in named <=> obs[s].entity = obs[m].settlement
  OBVIOUS
<1>4. \A t \in named : obs[t].entity = obs[m].settlement /\ t \in Settlements
  OBVIOUS
<1>5. \A t \in Settlements : obs[t].entity = obs[m].settlement => t \in named
  OBVIOUS
<1> HIDE DEF named
<1>6. named # {} => Max(named) \in named /\ \A t \in named : t <= Max(named)
  BY <1>1, LastIsIn
<1>7. ASSUME AnchorOf(m) = s
      PROVE  /\ obs[m].settlement = obs[s].entity
             /\ \A t \in Settlements : obs[t].entity = obs[s].entity => t <= s
  BY <1>1, <1>2, <1>3, <1>5, <1>6, <1>7
<1>8. ASSUME obs[m].settlement = obs[s].entity,
             \A t \in Settlements : obs[t].entity = obs[s].entity => t <= s
      PROVE  AnchorOf(m) = s
  <2>1. s \in named /\ Max(named) \in named /\ s <= Max(named)
    BY <1>3, <1>6, <1>8
  <2>2. Max(named) <= s /\ Max(named) \in Nat
    <3>1. ASSUME NEW t \in named PROVE t <= s /\ t \in Nat
      <4>1. t \in Settlements /\ obs[t].entity = obs[s].entity
        BY <1>4, <1>8
      <4> QED BY <1>1, <1>8, <4>1
    <3> QED BY <2>1, <3>1
  <2> QED BY <1>1, <1>2, <2>1, <2>2
<1> QED BY <1>7, <1>8

\* What S5 asks of the lines that name a settlement, whatever was posted before.
Sound(s) ==
  LET M == AnchoredMembers(s)
  IN  /\ \A m, n \in M : obs[m].entity = obs[n].entity => m = n
      /\ c5(M) /\ c3Ordering(M) /\ Net(M) = obs[s].amount
      /\ \A m \in M : obs[m].credit <= obs[m].amount /\ obs[m].debit <= obs[m].amount

Ties(s, c) ==
  /\ c.state = "RECONCILED" /\ c.certificate = NoCertificate
  /\ c.members = AnchoredMembers(s) /\ c.amount = obs[s].amount
  /\ c.tied_to \in {0, BankLineOf(s)}

LEMMA TieIsValid ==
  ASSUME ObsKept, NEW s \in Settlements, agent # "A1-NOVALIDATE", NEW c, Ties(s, c)
  PROVE  Valid(c) <=> Sound(s) /\ \A m \in AnchoredMembers(s) : obs[m].entity \notin Allocated
<1>1. I5(c)
  BY OneSettlementPerLine DEF Ties, I5
<1>2. obs[s].amount # NoAmount
  <2>1. \A o \in Observations : o.amount # NoAmount
    BY DEF Observations, NoAmount
  <2> QED BY <2>1, PlacesAre DEF Settlements, OfKind
<1> QED BY <1>1, <1>2 DEF Ties, Valid, Sound, I2, I3, I4, I7, I8

-----------------------------------------------------------------------------
(* What two runs of one input have in common                               *)

AnchoredSettlements == AnchorResolved \cap Settlements

\* No settlement anchored before s took a line of an identifier of its own.
Fresh(p, s) ==
  \A k \in DOMAIN p : p[k].obs \in AnchoredSettlements /\ p[k].obs < s =>
    \A m \in AnchoredMembers(s), l \in p[k].members : obs[m].entity # obs[l].entity

\* A reconciled decision that allocates nothing and whose rules are silent.
QuietlyDone(r) ==
  r.state = "RECONCILED" /\ r.members = {}
    /\ r.lines = LinesOf(<<Silent, Silent, Silent>>, r.obs)

RowsNamed(entity) == {m \in MemberEligible : obs[m].entity = entity}

LastRowReconciled(p, entity) ==
  /\ RowsNamed(entity) # {}
  /\ \E k \in DOMAIN p : p[k].obs = Max(RowsNamed(entity)) /\ p[k].state = "RECONCILED"

\* What is posted of an anchor, a row and a refund, p having been posted before it.
Placed(p, r) ==
  /\ r.obs \in AnchoredSettlements =>
       IF Sound(r.obs) /\ Fresh(p, r.obs)
       THEN /\ r.state = "RECONCILED" /\ r.members = AnchoredMembers(r.obs)
            /\ r.lines = LinesOf(<<Silent, Silent, Silent>>, r.obs)
       ELSE r.state = "EXCEPTION" /\ r.members = {}
  /\ r.obs \in AnchorResolved \cap BankLines => QuietlyDone(r)
  /\ r.obs \in MemberEligible => r.members = {}
  /\ r.obs \in OfKind({"refund"}) /\ LastRowReconciled(p, obs[r.obs].entity) => QuietlyDone(r)

Laid(p) == \A n \in DOMAIN p : Placed(p, p[n])

LEMMA LaidKept == ASSUME obs' = obs PROVE \A p : Laid(p)' = Laid(p)
<1>1. \A s : Sound(s)' = Sound(s)
  BY AnchorsKept, TieOutsKept DEF Sound, c3Ordering
<1>2. AnchoredSettlements' = AnchoredSettlements /\ OfKind({"refund"})' = OfKind({"refund"})
  BY TargetsKept, KindsKept DEF AnchoredSettlements, OfKind
<1>3. \A p, s : Fresh(p, s)' = Fresh(p, s)
  BY <1>2, AnchorsKept DEF Fresh
<1>4. \A e : RowsNamed(e)' = RowsNamed(e)
  BY KindsKept DEF RowsNamed
<1>5. \A p, e : LastRowReconciled(p, e)' = LastRowReconciled(p, e)
  BY <1>4 DEF LastRowReconciled
<1>6. \A r : QuietlyDone(r)' = QuietlyDone(r)
  BY LinesKept DEF QuietlyDone
<1>7. \A p, r : Placed(p, r)' = Placed(p, r)
  BY <1>1, <1>2, <1>3, <1>5, <1>6, KindsKept, TargetsKept, AnchorsKept, LinesKept DEF Placed
<1> QED BY <1>7 DEF Laid

\* q is p and, after it, r.
Extends(p, r, q) ==
  \E N \in Nat : /\ DOMAIN p = 1..N /\ DOMAIN q = 1..(N + 1)
                 /\ \A n \in DOMAIN p : q[n] = p[n]
                 /\ q[N + 1] = r

LEMMA ExtendsIs ==
  ASSUME NEW p, NEW r, NEW q, Extends(p, r, q)
  PROVE  \E last : /\ last \notin DOMAIN p /\ DOMAIN q = DOMAIN p \cup {last}
                   /\ q[last] = r /\ \A n \in DOMAIN p : q[n] = p[n]
                   /\ \A n \in DOMAIN p : n < last
BY DEF Extends

\* The last row of an identifier is one.
LEMMA LastRowIs ==
  ASSUME ObsKept, NEW e, RowsNamed(e) # {}
  PROVE  /\ Max(RowsNamed(e)) \in RowsNamed(e)
         /\ \A m \in RowsNamed(e) : m <= Max(RowsNamed(e))
<1>1. RowsNamed(e) \subseteq 1..Len(obs) /\ Len(obs) \in Nat
  BY DEF ObsKept, RowsNamed, MemberEligible, OfKind
<1> QED BY <1>1, LastIsIn

\* What was laid down stays so, if the anchors come in order and no row after a refund.
LEMMA LaidOneMore ==
  ASSUME ObsKept, NEW p, NEW r, NEW q, Extends(p, r, q), Laid(p), Placed(p, r),
         r.obs \in AnchoredSettlements => \A n \in DOMAIN p : p[n].obs < r.obs,
         r.obs \in MemberEligible => \A n \in DOMAIN p : p[n].obs \notin OfKind({"refund"})
  PROVE  Laid(q)
<1>1. PICK last : /\ last \notin DOMAIN p /\ DOMAIN q = DOMAIN p \cup {last}
                  /\ q[last] = r /\ \A n \in DOMAIN p : q[n] = p[n]
  BY ExtendsIs
<1>2. AnchoredSettlements \subseteq Nat
  BY PlacesAre DEF AnchoredSettlements, Settlements, OfKind
<1>3. ASSUME NEW s \in AnchoredSettlements, s = r.obs \/ \E n \in DOMAIN p : s = p[n].obs
      PROVE  Fresh(q, s) <=> Fresh(p, s)
  <2>1. ~(r.obs \in AnchoredSettlements /\ r.obs < s)
    <3> SUFFICES ASSUME r.obs \in AnchoredSettlements, r.obs < s PROVE FALSE
      OBVIOUS
    <3>1. PICK n \in DOMAIN p : s = p[n].obs
      BY <1>2, <1>3
    <3>2. s < r.obs /\ s \in Nat /\ r.obs \in Nat
      BY <1>2, <3>1
    <3> QED BY <3>2
  <2> QED BY <1>1, <2>1 DEF Fresh
<1>4. ASSUME NEW i \in OfKind({"refund"}), i = r.obs \/ \E n \in DOMAIN p : i = p[n].obs, NEW e
      PROVE  LastRowReconciled(q, e) <=> LastRowReconciled(p, e)
  <2>1. r.obs \notin MemberEligible
    BY <1>4 DEF MemberEligible, OfKind
  <2>2. RowsNamed(e) # {} => Max(RowsNamed(e)) \in MemberEligible
    BY LastRowIs DEF RowsNamed
  <2> QED BY <1>1, <2>1, <2>2 DEF LastRowReconciled
<1>5. ASSUME NEW n \in DOMAIN q PROVE Placed(q, q[n])
  <2> DEFINE d == q[n]
  <2>1. Placed(p, d) /\ (d.obs = r.obs \/ \E k \in DOMAIN p : d.obs = p[k].obs)
    BY <1>1 DEF Laid
  <2> HIDE DEF d
  <2>2. d.obs \in AnchoredSettlements => (Fresh(q, d.obs) <=> Fresh(p, d.obs))
    BY <1>3, <2>1
  <2>3. d.obs \in OfKind({"refund"}) =>
          (LastRowReconciled(q, obs[d.obs].entity) <=> LastRowReconciled(p, obs[d.obs].entity))
    BY <1>4, <2>1
  <2>4. Placed(q, d)
    BY <2>1, <2>2, <2>3 DEF Placed
  <2> QED BY <2>4 DEF d
<1> QED BY <1>5 DEF Laid

Done(p) == {p[n].obs : n \in DOMAIN p}

\* What first names is posted first, then the rows, each in order, then the refunds.
InOrder(first, p) ==
  /\ first \ Done(p) # {} =>
       Done(p) \subseteq first /\ \A i \in Done(p), j \in first \ Done(p) : i < j
  /\ \A i \in Done(p) \cap MemberEligible, j \in MemberEligible \ Done(p) : i < j
  /\ Done(p) \cap OfKind({"refund"}) # {} => MemberEligible \subseteq Done(p)
  /\ \A n, k \in DOMAIN p :
       p[n].obs \in MemberEligible /\ p[k].obs \in MemberEligible /\ n < k => p[n].obs < p[k].obs

LEMMA InOrderKept ==
  ASSUME obs' = obs PROVE \A first, p : InOrder(first, p)' = InOrder(first, p)
<1>1. OfKind({"refund"})' = OfKind({"refund"})
  BY DEF OfKind, Kind
<1>2. \A p : Done(p)' = Done(p)
  BY DEF Done
<1> QED BY <1>1, <1>2, KindsKept DEF InOrder

\* Observation i is the next to be posted.
IsNextOf(first, p, i) ==
  /\ i \in DOMAIN obs \ Done(p)
  /\ i \in first => \A j \in first \ Done(p) : i <= j
  /\ i \notin first => first \subseteq Done(p)
  /\ i \in MemberEligible => \A j \in MemberEligible \ Done(p) : i <= j
  /\ i \in OfKind({"refund"}) => MemberEligible \subseteq Done(p)

LEMMA InOrderOneMore ==
  ASSUME ObsKept, NEW first, first \subseteq DOMAIN obs, NEW p, NEW r, NEW q, Extends(p, r, q),
         Done(p) \subseteq DOMAIN obs, InOrder(first, p), IsNextOf(first, p, r.obs)
  PROVE  InOrder(first, q) /\ Done(q) = Done(p) \cup {r.obs}
<1>1. PICK last : /\ last \notin DOMAIN p /\ DOMAIN q = DOMAIN p \cup {last}
                  /\ q[last] = r /\ \A n \in DOMAIN p : q[n] = p[n]
                  /\ \A n \in DOMAIN p : n < last
  BY ExtendsIs
<1>2. Done(q) = Done(p) \cup {r.obs}
  BY <1>1 DEF Done
<1>3. DOMAIN obs \subseteq Nat /\ MemberEligible \subseteq DOMAIN obs
  BY PlacesAre DEF MemberEligible, OfKind
<1> DEFINE i == r.obs
           D == Done(p)
<1>4. i \in DOMAIN obs /\ i \notin D /\ D \subseteq DOMAIN obs
  BY DEF IsNextOf
<1>5. ASSUME first \ Done(q) # {}
      PROVE  Done(q) \subseteq first /\ \A h \in Done(q), j \in first \ Done(q) : h < j
  <2>1. i \in first
    BY <1>2, <1>5 DEF IsNextOf
  <2>2. D \subseteq first /\ \A h \in D, j \in first \ D : h < j
    BY <1>4, <2>1 DEF InOrder
  <2>3. \A j \in first \ D : i <= j
    BY <2>1 DEF IsNextOf
  <2> HIDE DEF i, D
  <2>4. \A j \in first \ (D \cup {i}) : i < j
    <3> SUFFICES ASSUME NEW j \in first \ (D \cup {i}) PROVE i < j
      OBVIOUS
    <3>1. i <= j /\ i # j /\ i \in Nat /\ j \in Nat
      BY <1>3, <1>4, <2>3
    <3> QED BY <3>1
  <2> QED BY <1>2, <2>1, <2>2, <2>4 DEF i, D
<1>6. ASSUME NEW h \in Done(q) \cap MemberEligible, NEW j \in MemberEligible \ Done(q) PROVE h < j
  <2>1. j \in MemberEligible \ D /\ j # i
    BY <1>2
  <2>2. CASE h \in D
    BY <1>6, <2>1, <2>2 DEF InOrder
  <2>3. CASE h = i
    <3>1. i <= j /\ i \in Nat /\ j \in Nat
      BY <1>3, <1>6, <2>1, <2>3 DEF IsNextOf
    <3> HIDE DEF i
    <3> QED BY <2>1, <2>3, <3>1
  <2> QED BY <1>2, <2>2, <2>3
<1>7. Done(q) \cap OfKind({"refund"}) # {} => MemberEligible \subseteq Done(q)
  BY <1>2 DEF InOrder, IsNextOf
<1>8. ASSUME NEW n \in DOMAIN q, NEW k \in DOMAIN q, q[n].obs \in MemberEligible,
             q[k].obs \in MemberEligible, n < k
      PROVE  q[n].obs < q[k].obs
  <2>0. \A x \in DOMAIN q : x \in Nat
    BY DEF Extends
  <2>1. n \in DOMAIN p
    <3>1. k \in DOMAIN p \/ k = last
      BY <1>1
    <3>2. n # last
      BY <1>1, <1>8, <2>0, <3>1
    <3> QED BY <1>1, <3>2
  <2>2. CASE k \in DOMAIN p
    BY <1>1, <1>8, <2>1, <2>2 DEF InOrder
  <2>3. CASE k = last
    <3>1. q[n].obs \in D /\ q[k].obs = i
      BY <1>1, <2>1, <2>3 DEF Done
    <3>2. i \in MemberEligible \ D
      BY <1>4, <1>8, <3>1
    <3> QED BY <1>8, <3>1, <3>2 DEF InOrder
  <2> QED BY <1>1, <2>2, <2>3
<1> QED BY <1>2, <1>5, <1>6, <1>7, <1>8 DEF InOrder

RefundsApart ==
  \A i, j \in DOMAIN obs :
    Kind(i) = "refund" /\ Kind(j) \in {"settlement", "bank_line"} => obs[i].entity # obs[j].entity

\* The table posts nothing of a reconciled observation that is no row.
LEMMA QuietLines ==
  ASSUME NEW i, Kind(i) \notin {"recon_line", "adjustment"}, NEW c, c.state = "RECONCILED"
  PROVE  Record(i, c).lines = LinesOf(<<Silent, Silent, Silent>>, i)
<1>1. TerminalRule(i, c) = Silent
  BY DEF TerminalRule
<1>2. RulesOf(i, c) = <<Silent, Silent, Silent>>
  BY <1>1 DEF RulesOf
<1> QED BY <1>2, LinesOfRecord

\* A decision to reconcile on nothing but the kind of the observation.
LEMMA PlainReconciled ==
  ASSUME NEW i, Kind(i) \notin {"recon_line", "adjustment"},
         NEW c, c.state = "RECONCILED", c.members = {}, c.amount = NoAmount, c.tied_to = 0,
         c.certificate = NoCertificate
  PROVE  QuietlyDone(Record(i, Accepted(c)))
<1>1. Accepted(c) = c
  BY PlainIsValid DEF Accepted
<1> QED BY <1>1, QuietLines, FieldsOfRecord DEF QuietlyDone

\* The line of the report a refund looks up is the last row of its identifier.
LEMMA LineIsLastRow ==
  ASSUME ObsKept, RefundsApart, NEW i \in OfKind({"refund"}), NEW first, InOrder(first, posted),
         MemberEligible \subseteq Settled, Settled \subseteq DOMAIN obs,
         Len(posted) \in Nat, DOMAIN posted = 1..Len(posted)
  PROVE  LineReconciled(obs[i].entity) <=> LastRowReconciled(posted, obs[i].entity)
<1> DEFINE e == obs[i].entity
           rows == RowsNamed(e)
           lines == {n \in DOMAIN posted :
                       /\ obs[posted[n].obs].entity = e
                       /\ Kind(posted[n].obs) \in
                            {"recon_line", "adjustment", "settlement", "bank_line"}}
<1>1. LineReconciled(e) <=> lines # {} /\ posted[Max(lines)].state = "RECONCILED"
  BY DEF LineReconciled
<1>2. lines = {n \in DOMAIN posted : posted[n].obs \in rows}
  <2>1. ASSUME NEW n \in DOMAIN posted PROVE posted[n].obs \in DOMAIN obs
    BY DEF Settled
  <2>2. i \in DOMAIN obs /\ Kind(i) = "refund"
    BY DEF OfKind
  <2> QED BY <2>1, <2>2 DEF RefundsApart, RowsNamed, MemberEligible, OfKind
<1>3. \A m \in rows : \E n \in lines : posted[n].obs = m
  BY <1>2 DEF RowsNamed, Settled
<1>4. lines \subseteq 1..Len(posted)
  OBVIOUS
<1>5. rows \subseteq MemberEligible /\ rows \subseteq Nat
  BY PlacesAre DEF RowsNamed, MemberEligible, OfKind
<1> HIDE DEF lines, e
<1>6. lines # {} => Max(lines) \in lines /\ \A n \in lines : n <= Max(lines)
  BY <1>4, LastIsIn
<1>7. rows # {} => Max(rows) \in rows /\ \A m \in rows : m <= Max(rows)
  BY LastRowIs
<1> HIDE DEF rows
<1>8. ASSUME lines # {} PROVE posted[Max(lines)].obs = Max(rows) /\ rows # {}
  <2>1. posted[Max(lines)].obs \in rows /\ rows # {}
    BY <1>2, <1>6, <1>8
  <2>2. PICK n \in lines : posted[n].obs = Max(rows)
    BY <1>3, <1>7, <2>1
  <2>3. n <= Max(lines) /\ n \in Nat /\ Max(lines) \in Nat
    <3>1. n <= Max(lines) /\ Max(lines) \in lines
      BY <1>6, <1>8
    <3>2. n \in 1..Len(posted) /\ Max(lines) \in 1..Len(posted)
      BY <1>4, <3>1
    <3> QED BY <3>1, <3>2
  <2>4. CASE n = Max(lines)
    BY <2>1, <2>2, <2>4
  <2>5. CASE n < Max(lines)
    <3>1. n \in DOMAIN posted /\ Max(lines) \in DOMAIN posted
      BY <1>2, <1>6, <1>8
    <3>2. Max(rows) \in MemberEligible /\ posted[Max(lines)].obs \in MemberEligible
      BY <1>5, <1>7, <2>1
    <3>3. posted[n].obs < posted[Max(lines)].obs
      BY <2>2, <2>5, <3>1, <3>2 DEF InOrder
    <3>4. posted[Max(lines)].obs <= Max(rows) /\ posted[Max(lines)].obs \in Nat /\ Max(rows) \in Nat
      BY <1>5, <1>7, <2>1
    <3> QED BY <2>2, <3>3, <3>4
  <2> QED BY <2>1, <2>3, <2>4, <2>5
<1>9. \A n, k \in DOMAIN posted :
        posted[n].obs = posted[k].obs /\ posted[n].obs \in MemberEligible => n = k
  <2> SUFFICES ASSUME NEW n \in DOMAIN posted, NEW k \in DOMAIN posted, n < k,
                      posted[n].obs = posted[k].obs, posted[n].obs \in MemberEligible
               PROVE  FALSE
    OBVIOUS
  <2>1. posted[n].obs < posted[k].obs
    BY DEF InOrder
  <2>2. posted[n].obs \in Nat
    BY PlacesAre DEF MemberEligible, OfKind
  <2> QED BY <2>1, <2>2
<1>10. rows # {} <=> lines # {}
  BY <1>2, <1>3
<1>11. LastRowReconciled(posted, e) <=>
         rows # {} /\ \E k \in DOMAIN posted : posted[k].obs = Max(rows) /\ posted[k].state = "RECONCILED"
  BY DEF LastRowReconciled, rows
<1>12. LineReconciled(e) <=> LastRowReconciled(posted, e)
  <2>1. CASE lines = {}
    BY <1>1, <1>10, <1>11, <2>1
  <2>2. CASE lines # {}
    <3>1. Max(lines) \in DOMAIN posted /\ posted[Max(lines)].obs = Max(rows)
      BY <1>2, <1>6, <1>8, <2>2
    <3>2. Max(rows) \in MemberEligible
      BY <1>5, <1>7, <1>8, <2>2
    <3> QED BY <1>1, <1>8, <1>9, <1>11, <2>2, <3>1, <3>2
  <2> QED BY <2>1, <2>2
<1> QED BY <1>12 DEF e

\* What is allocated is what the settlements anchored before took.
LEMMA AllocatedIsFresh ==
  ASSUME Recorded, RecordedBy, NEW i,
         \A n \in DOMAIN posted : posted[n].members # {} =>
           posted[n].obs \in AnchoredSettlements /\ posted[n].obs < i
  PROVE  (\A m \in AnchoredMembers(i) : obs[m].entity \notin Allocated) <=> Fresh(posted, i)
<1>1. \A l : l \in DOMAIN targetOf <=> \E n \in DOMAIN posted : l \in posted[n].members
  BY DEF Recorded, RecordedBy, DecidedAs
<1> QED BY <1>1 DEF Fresh, Allocated

-----------------------------------------------------------------------------
(* What ASSAY does with the anchors                                        *)

PassInv == RefundsApart /\ InOrder(AnchorResolved, posted) /\ Laid(posted)

LEMMA PassInvKept == PassInv /\ UNCHANGED <<obs, posted>> => PassInv'
<1> SUFFICES ASSUME PassInv, obs' = obs, posted' = posted PROVE PassInv'
  OBVIOUS
<1>1. PICK q : q = posted
  OBVIOUS
<1>2. PICK first : first = AnchorResolved
  OBVIOUS
<1>3. InOrder(first, q)' /\ Laid(q)'
  BY <1>1, <1>2, InOrderKept, LaidKept DEF PassInv
<1>4. first = AnchorResolved' /\ q = posted'
  BY <1>1, <1>2, TargetsKept
<1>5. RefundsApart'
  BY KindsKept DEF PassInv, RefundsApart
<1> QED BY <1>3, <1>4, <1>5 DEF PassInv

\* A decision in its place keeps what was laid down.
LEMMA PlacedKeeps ==
  ASSUME InputKept, PassInv, obs' = obs, Settled \subseteq DOMAIN obs, NEW r, Appends(r),
         IsNextOf(AnchorResolved, posted, r.obs), Placed(posted, r)
  PROVE  PassInv'
<1>1. PICK p : p = posted
  OBVIOUS
<1>2. PICK q : q = posted'
  OBVIOUS
<1>3. PICK first : first = AnchorResolved
  OBVIOUS
<1>4. Extends(p, r, q)
  BY <1>1, <1>2 DEF Appends, Extends
<1>5. /\ ObsKept /\ Done(p) \subseteq DOMAIN obs /\ InOrder(first, p) /\ Laid(p)
      /\ IsNextOf(first, p, r.obs) /\ Placed(p, r)
  BY <1>1, <1>3 DEF InputKept, ObsKept, PassInv, Settled, Done
<1>6. first \subseteq DOMAIN obs
  BY <1>3, KindsOfPasses
<1>7. InOrder(first, q)
  BY <1>4, <1>5, <1>6, InOrderOneMore
<1>8. r.obs \in AnchoredSettlements => \A n \in DOMAIN p : p[n].obs < r.obs
  BY <1>3, <1>5 DEF AnchoredSettlements, InOrder, IsNextOf, Done
<1>9. r.obs \in MemberEligible => \A n \in DOMAIN p : p[n].obs \notin OfKind({"refund"})
  BY <1>5 DEF InOrder, IsNextOf, Done
<1>10. Laid(q)
  BY <1>4, <1>5, <1>8, <1>9, LaidOneMore
<1>11. InOrder(first, q)' /\ Laid(q)'
  BY <1>7, <1>10, InOrderKept, LaidKept
<1>12. first = AnchorResolved'
  BY <1>3, TargetsKept
<1>13. RefundsApart'
  BY KindsKept DEF PassInv, RefundsApart
<1> QED BY <1>2, <1>11, <1>12, <1>13 DEF PassInv

LEMMA PlacedPostKeeps ==
  ASSUME RunInv, PassInv, NEW i, NEW c, NEW certificates, Post(i, c, certificates),
         IsNextOf(AnchorResolved, posted, i), Placed(posted, Record(i, Accepted(c)))
  PROVE  PassInv'
<1>1. CASE posted' = posted
  BY <1>1, PostEffect, PassInvKept
<1>2. CASE Appends(Record(i, Accepted(c)))
  <2> DEFINE r == Record(i, Accepted(c))
  <2>1. r.obs = i
    BY FieldsOfRecord
  <2>2. obs' = obs /\ InputKept /\ Settled \subseteq DOMAIN obs
    BY PostEffect DEF RunInv, PostedAreObserved
  <2> HIDE DEF r
  <2>3. IsNextOf(AnchorResolved, posted, r.obs) /\ Placed(posted, r) /\ Appends(r)
    BY <1>2, <2>1 DEF r
  <2> QED BY <2>2, <2>3, PlacedKeeps
<1> QED BY <1>1, <1>2, PostEffect

\* An anchor is reconciled to the lines that name it exactly if S5 finds them sound and
\* no anchor before took one.
LEMMA AnchorKeepsPasses == RunInv /\ PassInv /\ agent = "ASSAY" /\ PostAnchor => PassInv'
<1> SUFFICES ASSUME RunInv, PassInv, agent = "ASSAY", PostAnchor PROVE PassInv'
  OBVIOUS
<1> DEFINE i == Min(Anchors)
           c == classifyAnchored(i)
           r == Record(i, Accepted(c))
<1>1. i \in Anchors /\ \A j \in Anchors : i <= j
  <2>1. Anchors \subseteq Nat
    BY DEF Anchors, AnchorResolved, Settlements, BankLines, OfKind, RunInv, InputKept
  <2> QED BY <2>1, FirstIsIn DEF PostAnchor
<1>2. Post(i, c, certificateOf)
  BY DEF PostAnchor
<1> HIDE DEF i
<1>3. /\ i \in AnchorResolved /\ i \in DOMAIN obs /\ i \notin Settled
      /\ Kind(i) \in {"settlement", "bank_line"} /\ i \notin MemberEligible
  BY <1>1, KindsOfPasses DEF Anchors
<1>4. IsNextOf(AnchorResolved, posted, i)
  BY <1>1, <1>3 DEF IsNextOf, Anchors, Settled, Done, OfKind
<1>5. r.obs = i /\ r.state = Accepted(c).state /\ r.members = Accepted(c).members
  BY FieldsOfRecord
<1>6. i \notin OfKind({"refund"}) /\ i \notin Settlements \cap BankLines
  BY <1>3 DEF OfKind, Settlements, BankLines
<1>7. CASE i \in Settlements
  <2>1. Ties(i, c)
    <3>1. Kind(i) = "settlement"
      BY <1>7 DEF Settlements, OfKind
    <3>2. /\ c.state = "RECONCILED" /\ c.certificate = NoCertificate
          /\ c.members = AnchoredMembers(i) /\ c.amount = obs[i].amount
          /\ c.tied_to = BankLineOf(i)
      BY <3>1 DEF classifyAnchored, Reconciled, Nothing
    <3> QED BY <3>2 DEF Ties
  <2>2. Valid(c) <=> Sound(i) /\ \A m \in AnchoredMembers(i) : obs[m].entity \notin Allocated
    BY <1>7, <2>1, TieIsValid DEF RunInv, InputKept, ObsKept
  <2>3. ASSUME NEW n \in DOMAIN posted, posted[n].members # {}
        PROVE  posted[n].obs \in AnchoredSettlements /\ posted[n].obs < i
    <3>1. posted[n].obs \in AnchorResolved /\ posted[n].obs < i
      BY <1>1, <1>3 DEF PassInv, InOrder, Done, Anchors, Settled
    <3>2. posted[n].obs \notin BankLines
      BY <2>3, <3>1 DEF PassInv, Laid, Placed, QuietlyDone
    <3> QED BY <3>1, <3>2 DEF AnchoredSettlements, AnchorResolved
  <2>4. Valid(c) <=> Sound(i) /\ Fresh(posted, i)
    BY <2>2, <2>3, AllocatedIsFresh DEF RunInv
  <2>5. CASE Valid(c)
    <3>1. Accepted(c) = c
      BY <2>5 DEF Accepted
    <3>2. Kind(i) \notin {"recon_line", "adjustment"}
      BY <1>3
    <3> HIDE DEF c
    <3>3. r.lines = LinesOf(<<Silent, Silent, Silent>>, i)
      BY <2>1, <3>1, <3>2, QuietLines DEF Ties
    <3>4. r.state = "RECONCILED" /\ r.members = AnchoredMembers(i)
      BY <1>5, <2>1, <3>1 DEF Ties
    <3> HIDE DEF r
    <3>5. Placed(posted, r)
      BY <1>3, <1>5, <1>6, <1>7, <2>4, <2>5, <3>3, <3>4 DEF Placed
    <3> QED BY <1>2, <1>4, <3>5, PlacedPostKeeps DEF r, c
  <2>6. CASE ~Valid(c)
    <3> HIDE DEF c
    <3>1. r.state = "EXCEPTION" /\ r.members = {}
      BY <1>5, <2>6, ExceptionAccepted
    <3> HIDE DEF r
    <3>2. Placed(posted, r)
      BY <1>3, <1>5, <1>6, <1>7, <2>4, <2>6, <3>1 DEF Placed
    <3> QED BY <1>2, <1>4, <3>2, PlacedPostKeeps DEF r, c
  <2> QED BY <2>5, <2>6
<1>8. CASE i \in BankLines
  <2>1. Kind(i) = "bank_line"
    BY <1>8 DEF BankLines, OfKind
  <2>2. /\ c.state = "RECONCILED" /\ c.members = {} /\ c.amount = NoAmount
        /\ c.tied_to = 0 /\ c.certificate = NoCertificate
    BY <2>1 DEF classifyAnchored, Reconciled, Nothing
  <2> HIDE DEF c
  <2>3. QuietlyDone(r)
    BY <2>1, <2>2, PlainReconciled
  <2> HIDE DEF r
  <2>4. Placed(posted, r)
    BY <1>3, <1>5, <1>6, <1>8, <2>3 DEF Placed, AnchoredSettlements
  <2> QED BY <1>2, <1>4, <2>4, PlacedPostKeeps DEF r, c
<1> QED BY <1>3, <1>7, <1>8 DEF AnchorResolved

LEMMA TargetKeepsPasses == RunInv /\ PassInv /\ PostTarget => PassInv'
<1> SUFFICES ASSUME RunInv, PassInv, PostTarget PROVE PassInv'
  OBVIOUS
<1> DEFINE t == Min(Undecided)
           r == Record(t, Accepted(classifyTarget(t)))
<1>1. t \in Undecided
  <2>1. Undecided \subseteq Nat
    BY DEF Undecided, Targets, Settlements, BankLines, OfKind, RunInv, InputKept
  <2> QED BY <2>1, FirstIsIn DEF PostTarget
<1>2. Post(t, classifyTarget(t), Certify(t, classifyTarget(t))) /\ Anchors = {}
  BY DEF PostTarget
<1> HIDE DEF t
<1>3. /\ t \in DOMAIN obs /\ t \notin Settled /\ Kind(t) \in {"settlement", "bank_line"}
      /\ t \notin AnchorResolved /\ t \notin MemberEligible /\ t \notin OfKind({"refund"})
  BY <1>1, KindsOfPasses DEF Undecided, OfKind
<1>4. IsNextOf(AnchorResolved, posted, t)
  BY <1>2, <1>3 DEF IsNextOf, Anchors, Settled, Done
<1>5. r.obs = t
  BY FieldsOfRecord
<1> HIDE DEF r
<1>6. Placed(posted, r)
  BY <1>3, <1>5 DEF Placed, AnchoredSettlements
<1> QED BY <1>2, <1>4, <1>6, PlacedPostKeeps DEF r

LEMMA MemberKeepsPasses == RunInv /\ PassInv /\ PostMember => PassInv'
<1> SUFFICES ASSUME RunInv, PassInv, PostMember PROVE PassInv'
  OBVIOUS
<1> DEFINE m == Min(Members)
           r == Record(m, Accepted(classifyMember(m)))
<1>1. m \in Members /\ \A j \in Members : m <= j
  <2>1. Members \subseteq Nat
    BY DEF Members, MemberEligible, OfKind, RunInv, InputKept
  <2> QED BY <2>1, FirstIsIn DEF PostMember
<1>2. Post(m, classifyMember(m), certificateOf) /\ Anchors = {}
  BY DEF PostMember
<1> HIDE DEF m
<1>3. /\ m \in DOMAIN obs /\ m \notin Settled /\ m \in MemberEligible
      /\ m \notin AnchorResolved /\ m \notin OfKind({"refund"})
  <2>1. m \in MemberEligible /\ m \notin Settled
    BY <1>1 DEF Members
  <2>2. m \in DOMAIN obs /\ Kind(m) \in {"recon_line", "adjustment"}
    BY <2>1, KindsOfPasses
  <2> QED BY <2>1, <2>2, KindsOfPasses DEF OfKind
<1>4. IsNextOf(AnchorResolved, posted, m)
  BY <1>1, <1>2, <1>3 DEF IsNextOf, Anchors, Members, Settled, Done
<1>5. r.obs = m /\ r.members = {}
  BY FieldsOfRecord, LineDecision
<1> HIDE DEF r
<1>6. Placed(posted, r)
  BY <1>3, <1>5 DEF Placed, AnchoredSettlements
<1> QED BY <1>2, <1>4, <1>6, PlacedPostKeeps DEF r

\* What the look-up of a refund's line makes of the refund, in either run.
LEMMA RefundFollows ==
  ASSUME NEW i \in OfKind({"refund"})
  PROVE  LET r == Record(i, Accepted(classifyUnpostable(i)))
         IN  /\ r.obs = i
             /\ LineReconciled(obs[i].entity) => QuietlyDone(r)
             /\ ~LineReconciled(obs[i].entity) => r.state = "EXCEPTION"
<1> DEFINE c == classifyUnpostable(i)
           r == Record(i, Accepted(c))
<1>1. Kind(i) = "refund"
  BY DEF OfKind
<1>2. r.obs = i /\ r.state = Accepted(c).state
  BY FieldsOfRecord
<1>3. ASSUME LineReconciled(obs[i].entity) PROVE QuietlyDone(r)
  <2>1. c = Reconciled(i, {})
    BY <1>1, <1>3 DEF classifyUnpostable
  <2>2. /\ c.state = "RECONCILED" /\ c.members = {} /\ c.amount = NoAmount
        /\ c.tied_to = 0 /\ c.certificate = NoCertificate
    BY <1>1, <2>1 DEF Reconciled, Nothing
  <2> HIDE DEF c
  <2> QED BY <1>1, <2>2, PlainReconciled
<1>4. ASSUME ~LineReconciled(obs[i].entity) PROVE r.state = "EXCEPTION"
  <2>1. \E class : c = exceptionFor(class)
    BY <1>1, <1>4 DEF classifyUnpostable
  <2> HIDE DEF c
  <2> QED BY <1>2, <2>1, ExceptionAccepted
<1> QED BY <1>2, <1>3, <1>4

LEMMA RestKeepsPasses == RunInv /\ PassInv /\ PostRest => PassInv'
<1> SUFFICES ASSUME RunInv, PassInv, PostRest PROVE PassInv'
  OBVIOUS
<1> DEFINE i == Min(Rest)
           r == Record(i, Accepted(classifyUnpostable(i)))
<1>1. i \in Rest
  <2>1. Rest \subseteq Nat
    BY DEF Rest, RunInv, InputKept
  <2> QED BY <2>1, FirstIsIn DEF PostRest
<1>2. Post(i, classifyUnpostable(i), certificateOf) /\ Anchors \cup Members = {}
  BY DEF PostRest
<1> HIDE DEF i
<1>3. /\ i \in DOMAIN obs /\ i \notin Settled
      /\ i \notin AnchorResolved /\ i \notin MemberEligible /\ MemberEligible \subseteq Settled
  BY <1>1, <1>2 DEF Rest, Anchors, Members
<1>4. IsNextOf(AnchorResolved, posted, i)
  BY <1>2, <1>3 DEF IsNextOf, Anchors, Settled, Done
<1>5. r.obs = i
  BY FieldsOfRecord
<1>6. ASSUME i \in OfKind({"refund"}), LastRowReconciled(posted, obs[i].entity)
      PROVE  QuietlyDone(r)
  <2>1. /\ ObsKept /\ RefundsApart /\ Settled \subseteq DOMAIN obs
        /\ Len(posted) \in Nat /\ DOMAIN posted = 1..Len(posted)
    BY DEF RunInv, InputKept, ObsKept, PassInv, PostedAreObserved, PostedIsSeq
  <2>2. PICK first : first = AnchorResolved
    OBVIOUS
  <2>3. InOrder(first, posted)
    BY <2>2 DEF PassInv
  <2>4. LineReconciled(obs[i].entity)
    BY <1>3, <1>6, <2>1, <2>3, LineIsLastRow
  <2> QED BY <1>6, <2>4, RefundFollows
<1> HIDE DEF r
<1>7. Placed(posted, r)
  BY <1>3, <1>5, <1>6 DEF Placed, AnchoredSettlements
<1> QED BY <1>2, <1>4, <1>7, PlacedPostKeeps DEF r

LEMMA NextPassInv == RunInv /\ PassInv /\ agent = "ASSAY" /\ [Next]_vars => PassInv'
<1> SUFFICES ASSUME RunInv, PassInv, agent = "ASSAY", [Next]_vars PROVE PassInv'
  OBVIOUS
<1>1. CASE Solve \/ Close \/ Ended \/ UNCHANGED vars
  BY <1>1, PassInvKept DEF Solve, Close, Ended, vars
<1> QED BY <1>1, AnchorKeepsPasses, TargetKeepsPasses, MemberKeepsPasses, RestKeepsPasses DEF Next

LEMMA InitPassInv == Init => PassInv
<1> SUFFICES ASSUME Init PROVE PassInv
  OBVIOUS
<1>1. DOMAIN posted = {} /\ obs \in Inputs
  BY DEF Init
<1>2. RefundsApart
  BY <1>1, RefundsAssumption DEF RefundsApart, Kind
<1>3. Laid(posted) /\ InOrder(AnchorResolved, posted)
  BY <1>1 DEF Laid, InOrder, Done
<1> QED BY <1>2, <1>3 DEF PassInv

-----------------------------------------------------------------------------
(* What ASSAY has posted when it has closed                                *)

RowRules(m, seen) == <<IngestRule(m), IF seen THEN BankEvidenceRule(m) ELSE Silent, Silent>>

\* A line that a reconciled decision took is reconciled, with its bank leg exactly if
\* the settlement it went to has its credit.
Follows(p, m, s) ==
  \E n \in DOMAIN p : /\ p[n].obs = m /\ p[n].state = "RECONCILED"
                      /\ p[n].lines = LinesOf(RowRules(m, HasEvidence(s)), m)

RowsFollow(p) ==
  \A k \in DOMAIN p : p[k].state = "RECONCILED" =>
    \A m \in p[k].members : Kind(m) = "recon_line" => Follows(p, m, p[k].obs)

PostsAll(p) ==
  /\ DOMAIN obs \ References \subseteq Done(p)
  /\ \A n, k \in DOMAIN p : p[n].obs = p[k].obs => n = k

Rival(p) == Laid(p) /\ RowsFollow(p) /\ PostsAll(p)

LEMMA RivalKept == ASSUME obs' = obs PROVE \A p : Rival(p)' = Rival(p)
<1>1. \A m, seen : RowRules(m, seen)' = RowRules(m, seen)
  BY RulesKept DEF RowRules
<1>2. \A p : RowsFollow(p)' = RowsFollow(p)
  <2>1. \A m, s : LinesOf(RowRules(m, HasEvidence(s)), m)' = LinesOf(RowRules(m, HasEvidence(s)), m)
    BY <1>1, LinesKept, EvidenceKept
  <2>2. \A p, m, s : Follows(p, m, s)' = Follows(p, m, s)
    BY <2>1 DEF Follows
  <2> QED BY <2>2, KindsKept DEF RowsFollow
<1>3. \A p : PostsAll(p)' = PostsAll(p)
  BY KindsKept DEF PostsAll, Done
<1> QED BY <1>2, <1>3, LaidKept DEF Rival

LEMMA ClosedIsRival ==
  ASSUME RunInv, BookInv, ItemInv, PassInv, agent = "ASSAY", status = "done"
  PROVE  Rival(posted)
<1>1. DOMAIN obs \ References \subseteq Settled
  BY DEF ItemInv, ClosedOnAll
<1>2. ASSUME NEW k \in DOMAIN posted, posted[k].state = "RECONCILED",
             NEW m \in posted[k].members, Kind(m) = "recon_line"
      PROVE  Follows(posted, m, posted[k].obs)
  <2>1. /\ m \in MemberEligible /\ m \in DOMAIN obs /\ m \notin References
        /\ m \in DOMAIN targetOf /\ targetOf[m] = posted[k].obs
    BY <1>2 DEF RunInv, Recorded, BookInv, MembersAreRows, RecordNamesTarget, MemberEligible,
                References, OfKind
  <2>2. PICK n \in DOMAIN posted : posted[n].obs = m
    BY <1>1, <2>1 DEF Settled
  <2>3. posted[n].state = "RECONCILED"
    BY <1>2, <2>1, <2>2 DEF RunInv, LinesFollowRecord
  <2>4. PICK rules \in [1..3 -> RuleNames] : Ruled(rules, m) /\ posted[n].lines = LinesOf(rules, m)
    BY <2>1, <2>2 DEF BookInv, LinesAsRuled
  <2>5. rules = RowRules(m, HasEvidence(posted[k].obs))
    <3>1. /\ rules[1] = IngestRule(m) /\ rules[3] = Silent
          /\ rules[2] = IF HasEvidence(posted[k].obs) THEN BankEvidenceRule(m) ELSE Silent
      BY <1>2, <2>1, <2>4 DEF Ruled, CreditSeen
    <3>2. rules = <<rules[1], rules[2], rules[3]>>
      OBVIOUS
    <3> QED BY <3>1, <3>2 DEF RowRules
  <2> QED BY <2>2, <2>3, <2>4, <2>5 DEF Follows
<1>3. RowsFollow(posted)
  BY <1>2 DEF RowsFollow
<1> QED BY <1>1, <1>3 DEF Rival, PostsAll, PassInv, BookInv, PostedOnce, Settled, Done

-----------------------------------------------------------------------------
(* What the baseline posts beside it                                       *)

\* What it puts on record as allocated it reconciled, and to that settlement.
AllocatedBy ==
  \A m \in DOMAIN targetOf :
    \E n \in DOMAIN posted : /\ posted[n].state = "RECONCILED"
                             /\ m \in posted[n].members /\ targetOf[m] = posted[n].obs

\* What it reconciles ASSAY reconciled so, and what ASSAY allocated it did as well.
Floored(p, r) ==
  /\ r.state = "RECONCILED" =>
       \E k \in DOMAIN p : /\ p[k].obs = r.obs /\ p[k].state = "RECONCILED"
                           /\ p[k].members = r.members /\ p[k].lines = r.lines
  /\ r.members # {} => r.state = "RECONCILED" /\ r.obs \in AnchoredSettlements
  /\ r.obs \in AnchoredSettlements /\ r.members = {} =>
       \A k \in DOMAIN p : p[k].obs = r.obs => p[k].members = {}

Joined == Settlements \cup BankLines

FloorInv ==
  /\ ObsKept /\ RefundsApart
  /\ Rival(rival)
  /\ PostedIsSeq /\ Settled \subseteq DOMAIN obs
  /\ InOrder(Joined, posted)
  /\ Recorded /\ AllocatedBy
  /\ \A n \in DOMAIN posted : Floored(rival, posted[n])

LEMMA FlooredKept == ASSUME obs' = obs PROVE \A p, r : Floored(p, r)' = Floored(p, r)
<1>1. AnchoredSettlements' = AnchoredSettlements
  BY KindsKept, TargetsKept DEF AnchoredSettlements
<1> QED BY <1>1 DEF Floored

LEMMA FloorInvKept ==
  FloorInv /\ UNCHANGED <<obs, posted, targetOf, rival>> => FloorInv'
<1> SUFFICES ASSUME FloorInv, UNCHANGED <<obs, posted, targetOf, rival>> PROVE FloorInv'
  OBVIOUS
<1>1. PICK p : p = posted
  OBVIOUS
<1>2. PICK q : q = rival
  OBVIOUS
<1>3. PICK first : first = Joined
  OBVIOUS
<1>4. InOrder(first, p)' /\ Rival(q)' /\ \A n \in DOMAIN p : Floored(q, p[n])'
  BY <1>1, <1>2, <1>3, InOrderKept, RivalKept, FlooredKept DEF FloorInv
<1>5. first = Joined' /\ p = posted' /\ q = rival'
  BY <1>1, <1>2, <1>3, KindsKept DEF Joined
<1>6. RefundsApart' /\ ObsKept'
  BY KindsKept DEF FloorInv, RefundsApart, ObsKept
<1>7. PostedIsSeq' /\ (Settled \subseteq DOMAIN obs)' /\ Recorded' /\ AllocatedBy'
  BY DEF FloorInv, PostedIsSeq, Settled, Recorded, AllocatedBy
<1> QED BY <1>4, <1>5, <1>6, <1>7 DEF FloorInv

\* A decision in its place that ASSAY made as well keeps it so.
LEMMA FlooredKeeps ==
  ASSUME FloorInv, rival' = rival, NEW i, NEW c, NEW certificates, Post(i, c, certificates),
         IsNextOf(Joined, posted, i), Floored(rival, Record(i, Accepted(c)))
  PROVE  FloorInv'
<1> DEFINE r == Record(i, Accepted(c))
<1>1. obs' = obs
  BY PostAppends DEF FloorInv
<1>2. CASE posted' = posted /\ targetOf' = targetOf
  BY <1>1, <1>2, FloorInvKept
<1>3. CASE /\ Appends(r)
           /\ targetOf' = [m \in Accepted(c).members \cup DOMAIN targetOf |->
                              IF m \in Accepted(c).members THEN i ELSE targetOf[m]]
  <2>1. r.obs = i /\ r.members = Accepted(c).members
    BY FieldsOfRecord
  <2> HIDE DEF r
  <2>2. PICK p : p = posted
    OBVIOUS
  <2>3. PICK q : q = posted'
    OBVIOUS
  <2>4. PICK first : first = Joined
    OBVIOUS
  <2>5. PICK v : v = rival
    OBVIOUS
  <2>6. Extends(p, r, q)
    BY <1>3, <2>2, <2>3 DEF Appends, Extends
  <2>7. first \subseteq DOMAIN obs /\ Done(p) \subseteq DOMAIN obs
    BY <2>2, <2>4 DEF FloorInv, Settled, Done, Joined, Settlements, BankLines, OfKind
  <2>8. InOrder(first, p) /\ IsNextOf(first, p, r.obs) /\ ObsKept
    BY <2>1, <2>2, <2>4 DEF FloorInv
  <2>9. InOrder(first, q) /\ Done(q) = Done(p) \cup {i}
    BY <2>1, <2>6, <2>7, <2>8, InOrderOneMore
  <2>10. PICK last : /\ last \notin DOMAIN p /\ DOMAIN q = DOMAIN p \cup {last}
                     /\ q[last] = r /\ \A n \in DOMAIN p : q[n] = p[n]
                     /\ \A n \in DOMAIN p : n < last
    BY <2>6, ExtendsIs
  <2>11. \A n \in DOMAIN q : Floored(v, q[n])
    BY <2>2, <2>5, <2>10 DEF FloorInv, r
  <2>12. InOrder(first, q)' /\ Rival(v)' /\ \A n \in DOMAIN q : Floored(v, q[n])'
    BY <1>1, <2>5, <2>9, <2>11, InOrderKept, RivalKept, FlooredKept DEF FloorInv
  <2>13. first = Joined' /\ v = rival'
    BY <1>1, <2>4, <2>5, KindsKept DEF Joined
  <2>14. RefundsApart' /\ ObsKept'
    BY <1>1, KindsKept DEF FloorInv, RefundsApart, ObsKept
  <2>15. PostedIsSeq' /\ (Settled \subseteq DOMAIN obs)'
    <3>1. i \in DOMAIN obs
      BY DEF IsNextOf
    <3> QED BY <1>1, <1>3, <2>3, <2>7, <2>9, <3>1 DEF Appends, Settled, Done
  <2>16. DOMAIN targetOf' = r.members \cup DOMAIN targetOf
    BY <1>3, <2>1
  <2>17. Recorded'
    BY <2>2, <2>3, <2>10, <2>16 DEF FloorInv, Recorded
  <2>18. AllocatedBy'
    <3> SUFFICES ASSUME NEW m \in DOMAIN targetOf'
                 PROVE  \E n \in DOMAIN q : /\ q[n].state = "RECONCILED"
                                            /\ m \in q[n].members /\ targetOf'[m] = q[n].obs
      BY <2>3 DEF AllocatedBy
    <3>1. CASE m \in r.members
      <4>1. r.state = "RECONCILED"
        BY <3>1 DEF Floored, r
      <4>2. targetOf'[m] = i
        BY <1>3, <2>1, <3>1
      <4> QED BY <2>1, <2>10, <3>1, <4>1, <4>2
    <3>2. CASE m \notin r.members
      <4>1. m \in DOMAIN targetOf /\ targetOf'[m] = targetOf[m]
        BY <1>3, <2>1, <2>16, <3>2
      <4>2. PICK n \in DOMAIN posted : /\ posted[n].state = "RECONCILED"
                                       /\ m \in posted[n].members /\ targetOf[m] = posted[n].obs
        BY <4>1 DEF FloorInv, AllocatedBy
      <4> QED BY <2>2, <2>10, <4>1, <4>2
    <3> QED BY <3>1, <3>2
  <2> QED BY <2>3, <2>12, <2>13, <2>14, <2>15, <2>17, <2>18 DEF FloorInv
<1> QED BY <1>2, <1>3, PostAppends DEF FloorInv

\* The two runs allocated the same before a settlement, so S5 asks the same of it.
LEMMA AllocatedAlike ==
  ASSUME FloorInv, NEW i \in Settlements \ Settled, \A j \in Joined \ Settled : i <= j
  PROVE  (\A m \in AnchoredMembers(i) : obs[m].entity \notin Allocated) <=> Fresh(rival, i)
<1>1. Joined \ Done(posted) # {} /\ i \in Joined \ Done(posted)
  BY DEF Joined, Settled, Done
<1>2. \A n \in DOMAIN posted : posted[n].obs < i
  BY <1>1 DEF FloorInv, InOrder, Done
<1>3. Recorded /\ RecordedBy
  BY DEF FloorInv, AllocatedBy, RecordedBy, DecidedAs
<1>4. \A n \in DOMAIN posted : posted[n].members # {} =>
        posted[n].obs \in AnchoredSettlements /\ posted[n].obs < i
  BY <1>2 DEF FloorInv, Floored
<1>5. (\A m \in AnchoredMembers(i) : obs[m].entity \notin Allocated) <=> Fresh(posted, i)
  BY <1>3, <1>4, AllocatedIsFresh
<1>6. AnchoredSettlements \subseteq Settlements /\ Settlements \subseteq DOMAIN obs
      /\ Settlements \cap References = {} /\ DOMAIN obs \subseteq Nat
  BY PlacesAre DEF FloorInv, AnchoredSettlements, Settlements, References, OfKind
<1>7. ASSUME NEW n \in DOMAIN posted, posted[n].obs \in AnchoredSettlements
      PROVE  \E k \in DOMAIN rival : rival[k].obs = posted[n].obs /\ rival[k].members = posted[n].members
  <2>1. posted[n].obs \in DOMAIN obs \ References
    BY <1>6, <1>7
  <2>2. PICK k \in DOMAIN rival : rival[k].obs = posted[n].obs
    BY <2>1 DEF FloorInv, Rival, PostsAll, Done
  <2>3. CASE posted[n].members = {}
    BY <1>7, <2>2, <2>3 DEF FloorInv, Floored
  <2>4. CASE posted[n].members # {}
    BY <1>7, <2>4 DEF FloorInv, Floored
  <2> QED BY <2>2, <2>3, <2>4
<1>8. ASSUME NEW k \in DOMAIN rival, rival[k].obs \in AnchoredSettlements, rival[k].obs < i
      PROVE  \E n \in DOMAIN posted : posted[n].obs = rival[k].obs /\ rival[k].members = posted[n].members
  <2>1. rival[k].obs \in Settled
    <3>1. rival[k].obs \in Joined /\ rival[k].obs \in Nat /\ i \in Nat
      BY <1>6, <1>8 DEF Joined
    <3> QED BY <1>8, <3>1
  <2>2. PICK n \in DOMAIN posted : posted[n].obs = rival[k].obs
    BY <2>1 DEF Settled
  <2>3. PICK l \in DOMAIN rival : rival[l].obs = posted[n].obs /\ rival[l].members = posted[n].members
    BY <1>7, <1>8, <2>2
  <2>4. l = k
    BY <2>2, <2>3 DEF FloorInv, Rival, PostsAll
  <2> QED BY <2>2, <2>3, <2>4
<1>9. Fresh(posted, i) <=> Fresh(rival, i)
  <2>1. ASSUME Fresh(posted, i) PROVE Fresh(rival, i)
    BY <1>8, <2>1 DEF Fresh
  <2>2. ASSUME Fresh(rival, i) PROVE Fresh(posted, i)
    <3> SUFFICES ASSUME NEW n \in DOMAIN posted, posted[n].obs \in AnchoredSettlements,
                        posted[n].obs < i
                 PROVE  \A m \in AnchoredMembers(i), l \in posted[n].members :
                          obs[m].entity # obs[l].entity
      BY DEF Fresh
    <3>1. PICK k \in DOMAIN rival : rival[k].obs = posted[n].obs /\ rival[k].members = posted[n].members
      BY <1>7
    <3> QED BY <2>2, <3>1 DEF Fresh
  <2> QED BY <2>1, <2>2
<1> QED BY <1>5, <1>9

\* The baseline's settlement is reconciled exactly where ASSAY's anchor was.
LEMMA SettlementFloored ==
  ASSUME FloorInv, agent = "B0-IDONLY",
         NEW i \in Settlements \ Settled, \A j \in Joined \ Settled : i <= j
  PROVE  Floored(rival, Record(i, Accepted(classifySettlement(i))))
<1> DEFINE c == classifySettlement(i)
           r == Record(i, Accepted(c))
<1>1. r.obs = i /\ r.state = Accepted(c).state /\ r.members = Accepted(c).members
  BY FieldsOfRecord
<1>2. an1Join(i) = AnchoredMembers(i)
  BY JoinIs DEF FloorInv
<1>3. /\ i \in DOMAIN obs \ References /\ Kind(i) = "settlement"
      /\ i \in AnchoredSettlements <=>
           AnchoredMembers(i) # {} /\ Net(AnchoredMembers(i)) = obs[i].amount
  BY DEF Settlements, BankLines, References, OfKind, AnchoredSettlements, AnchorResolved
<1>4. CASE AnchoredMembers(i) = {}
  <2>1. c = exceptionFor("E01")
    BY <1>2, <1>4 DEF classifySettlement
  <2> HIDE DEF c
  <2>2. r.state = "EXCEPTION" /\ r.members = {}
    BY <1>1, <2>1, ExceptionAccepted
  <2> HIDE DEF r
  <2>3. Floored(rival, r)
    BY <1>1, <1>3, <1>4, <2>2 DEF Floored
  <2> QED BY <2>3 DEF r, c
<1>5. CASE AnchoredMembers(i) # {}
  <2>1. Ties(i, c)
    <3>1. /\ c.state = "RECONCILED" /\ c.certificate = NoCertificate
          /\ c.members = AnchoredMembers(i) /\ c.amount = obs[i].amount /\ c.tied_to = 0
      BY <1>2, <1>5 DEF classifySettlement, Nothing
    <3> QED BY <3>1 DEF Ties
  <2>2. Valid(c) <=> Sound(i) /\ Fresh(rival, i)
    <3>1. Valid(c) <=> Sound(i) /\ \A m \in AnchoredMembers(i) : obs[m].entity \notin Allocated
      BY <2>1, TieIsValid DEF FloorInv
    <3> QED BY <3>1, AllocatedAlike
  <2> HIDE DEF c
  <2>3. PICK k \in DOMAIN rival : rival[k].obs = i
    BY <1>3 DEF FloorInv, Rival, PostsAll, Done
  <2>4. i \in AnchoredSettlements =>
          IF Valid(c)
          THEN /\ rival[k].state = "RECONCILED" /\ rival[k].members = AnchoredMembers(i)
               /\ rival[k].lines = LinesOf(<<Silent, Silent, Silent>>, i)
          ELSE rival[k].members = {}
    BY <2>2, <2>3 DEF FloorInv, Rival, Laid, Placed
  <2>5. CASE Valid(c)
    <3>1. Accepted(c) = c
      BY <2>5 DEF Accepted
    <3>2. r.state = "RECONCILED" /\ r.members = AnchoredMembers(i)
      BY <1>1, <2>1, <3>1 DEF Ties
    <3>3. r.lines = LinesOf(<<Silent, Silent, Silent>>, i)
      BY <1>3, <2>1, <3>1, QuietLines DEF Ties
    <3>4. i \in AnchoredSettlements
      BY <1>3, <1>5, <2>2, <2>5 DEF Sound
    <3> HIDE DEF r
    <3>5. Floored(rival, r)
      BY <1>1, <1>5, <2>3, <2>4, <2>5, <3>2, <3>3, <3>4 DEF Floored
    <3> QED BY <3>5 DEF r, c
  <2>6. CASE ~Valid(c)
    <3>1. r.state = "EXCEPTION" /\ r.members = {}
      BY <1>1, <2>6, ExceptionAccepted
    <3> HIDE DEF r
    <3>2. \A l \in DOMAIN rival : rival[l].obs = i => l = k
      BY <2>3 DEF FloorInv, Rival, PostsAll
    <3>3. Floored(rival, r)
      BY <1>1, <2>4, <2>6, <3>1, <3>2 DEF Floored
    <3> QED BY <3>3 DEF r, c
  <2> QED BY <2>5, <2>6
<1> QED BY <1>4, <1>5

\* What is reconciled quietly in both runs is reconciled alike.
LEMMA QuietIsFloored ==
  ASSUME NEW r, QuietlyDone(r), r.obs \notin AnchoredSettlements,
         NEW k \in DOMAIN rival, rival[k].obs = r.obs, QuietlyDone(rival[k])
  PROVE  Floored(rival, r)
BY DEF QuietlyDone, Floored

\* A credit that the second join matches is an anchor.
LEMMA BankLineFloored ==
  ASSUME FloorInv, NEW i \in BankLines
  PROVE  Floored(rival, Record(i, Accepted(classifyBankLine(i))))
<1> DEFINE c == classifyBankLine(i)
           r == Record(i, Accepted(c))
<1>1. r.obs = i /\ r.state = Accepted(c).state /\ r.members = Accepted(c).members
  BY FieldsOfRecord
<1>2. Kind(i) = "bank_line" /\ i \in DOMAIN obs \ References /\ i \notin AnchoredSettlements
  BY DEF BankLines, OfKind, References, AnchoredSettlements, Settlements
<1>3. CASE i \in matchedBankLines
  <2>1. i \in AnchorResolved
    <3>1. PICK pair \in an2Join : i = pair[2]
      BY <1>3 DEF matchedBankLines
    <3>2. pair[1] \in Settlements /\ pair = <<pair[1], pair[2]>>
      BY <3>1 DEF an2Join
    <3>3. <<pair[1], i>> \in an2Join
      BY <3>1, <3>2
    <3>4. BankLineOf(pair[1]) = i
      BY <3>2, <3>3, MatchIs DEF FloorInv
    <3> QED BY <3>2, <3>4 DEF AnchorResolved
  <2>2. /\ c.state = "RECONCILED" /\ c.members = {} /\ c.amount = NoAmount
        /\ c.tied_to = 0 /\ c.certificate = NoCertificate
    <3>1. c = [Nothing EXCEPT !.state = "RECONCILED"]
      BY <1>3 DEF classifyBankLine
    <3> QED BY <3>1 DEF Nothing
  <2> HIDE DEF c
  <2>3. QuietlyDone(r)
    BY <1>2, <2>2, PlainReconciled
  <2>4. PICK k \in DOMAIN rival : rival[k].obs = i
    BY <1>2 DEF FloorInv, Rival, PostsAll, Done
  <2>5. QuietlyDone(rival[k])
    BY <2>1, <2>4 DEF FloorInv, Rival, Laid, Placed
  <2> HIDE DEF r
  <2>6. Floored(rival, r)
    BY <1>1, <1>2, <2>3, <2>4, <2>5, QuietIsFloored
  <2> QED BY <2>6 DEF r, c
<1>4. CASE i \notin matchedBankLines
  <2>1. c = exceptionFor("E03")
    BY <1>4 DEF classifyBankLine
  <2> HIDE DEF c
  <2>2. r.state = "EXCEPTION" /\ r.members = {}
    BY <1>1, <2>1, ExceptionAccepted
  <2> HIDE DEF r
  <2>3. Floored(rival, r)
    BY <1>1, <1>2, <2>2 DEF Floored
  <2> QED BY <2>3 DEF r, c
<1> QED BY <1>3, <1>4

LEMMA JoinsKeepFloor == FloorInv /\ B0Target => FloorInv'
<1> SUFFICES ASSUME FloorInv, B0Target PROVE FloorInv'
  OBVIOUS
<1> DEFINE i == Min(ToJoin)
<1>1. agent = "B0-IDONLY" /\ rival' = rival
  BY DEF B0Target, Running
<1>2. i \in Joined \ Settled /\ \A j \in Joined \ Settled : i <= j
  <2>1. ToJoin \subseteq Nat /\ ToJoin = Joined \ Settled
    BY PlacesAre DEF FloorInv, ToJoin, Joined, Settlements, BankLines, OfKind
  <2> QED BY <2>1, FirstIsIn DEF B0Target
<1>3. Post(i, IF i \in Settlements THEN classifySettlement(i) ELSE classifyBankLine(i), certificateOf)
  BY DEF B0Target
<1> HIDE DEF i
<1>4. IsNextOf(Joined, posted, i)
  BY <1>2 DEF IsNextOf, Joined, Settlements, BankLines, MemberEligible, OfKind, Settled, Done
<1>5. CASE i \in Settlements
  <2>1. Floored(rival, Record(i, Accepted(classifySettlement(i))))
    BY <1>1, <1>2, <1>5, SettlementFloored
  <2> QED BY <1>1, <1>3, <1>4, <1>5, <2>1, FlooredKeeps
<1>6. CASE i \notin Settlements
  <2>1. i \in BankLines
    BY <1>2, <1>6 DEF Joined
  <2>2. Floored(rival, Record(i, Accepted(classifyBankLine(i))))
    BY <2>1, BankLineFloored
  <2> QED BY <1>1, <1>3, <1>4, <1>6, <2>2, FlooredKeeps
<1> QED BY <1>5, <1>6

\* A row the baseline allocated ASSAY did as well, and both look for one credit.
LEMMA LineFloored ==
  ASSUME FloorInv, NEW m \in MemberEligible
  PROVE  Floored(rival, Record(m, Accepted(classifyLine(m))))
<1> DEFINE c == classifyLine(m)
           r == Record(m, Accepted(c))
<1>1. r.obs = m /\ r.state = Accepted(c).state /\ r.members = Accepted(c).members
  BY FieldsOfRecord
<1>2. Kind(m) \in {"recon_line", "adjustment"} /\ m \notin AnchoredSettlements
  BY DEF MemberEligible, AnchoredSettlements, Settlements, OfKind
<1>3. ASSUME NEW class, c = exceptionFor(class) PROVE Floored(rival, r)
  <2> HIDE DEF c
  <2>1. r.state = "EXCEPTION" /\ r.members = {}
    BY <1>1, <1>3, ExceptionAccepted
  <2> HIDE DEF r
  <2> QED BY <1>1, <1>2, <2>1 DEF Floored
<1>4. CASE Kind(m) = "recon_line" /\ m \in DOMAIN targetOf
  <2> DEFINE s == targetOf[m]
  <2>1. c = [Nothing EXCEPT !.state = "RECONCILED", !.evidence = evidenceOf(m)]
    BY <1>4 DEF classifyLine
  <2>2. /\ c.state = "RECONCILED" /\ c.members = {} /\ c.amount = NoAmount
        /\ c.tied_to = 0 /\ c.certificate = NoCertificate /\ c.evidence = evidenceOf(m)
    BY <2>1 DEF Nothing
  <2> HIDE DEF c
  <2>3. Accepted(c) = c
    BY <2>2, PlainIsValid DEF Accepted
  <2>4. PICK n \in DOMAIN posted : /\ posted[n].state = "RECONCILED"
                                   /\ m \in posted[n].members /\ s = posted[n].obs
    BY <1>4 DEF FloorInv, AllocatedBy
  <2>5. s \in Settlements
    BY <2>4 DEF FloorInv, Floored, AnchoredSettlements
  <2>6. s # 0
    BY <2>5, PlacesAre DEF FloorInv, Settlements, OfKind
  <2>7. evidenceOf(m) # 0 <=> HasEvidence(s)
    <3>1. (\E pair \in an2Join : pair[1] = s) <=> BankLineOf(s) # 0
      <4>1. \A b : <<s, b>> \in an2Join <=> b = BankLineOf(s) /\ BankLineOf(s) # 0
        BY <2>5, MatchIs DEF FloorInv
      <4>2. \A pair \in an2Join : pair = <<pair[1], pair[2]>>
        BY DEF an2Join
      <4> HIDE DEF s
      <4>3. ASSUME NEW pair \in an2Join, pair[1] = s PROVE BankLineOf(s) # 0
        <5>1. <<s, pair[2]>> \in an2Join
          BY <4>2, <4>3
        <5> QED BY <4>1, <5>1
      <4>4. ASSUME BankLineOf(s) # 0 PROVE \E pair \in an2Join : pair[1] = s
        <5>1. <<s, BankLineOf(s)>> \in an2Join
          BY <4>1, <4>4
        <5>2. <<s, BankLineOf(s)>>[1] = s
          OBVIOUS
        <5> QED BY <5>1, <5>2
      <4> QED BY <4>3, <4>4
    <3>2. HasEvidence(s) <=> BankLineOf(s) # 0
      BY <2>5, EvidenceIs DEF FloorInv
    <3> QED BY <2>6, <3>1, <3>2 DEF evidenceOf
  <2> HIDE DEF s
  <2>8. r.lines = LinesOf(RowRules(m, HasEvidence(s)), m)
    <3>1. TerminalRule(m, c) = Silent
      BY <1>4, <2>2 DEF TerminalRule, SilentKinds
    <3>2. RulesOf(m, c) = RowRules(m, HasEvidence(s))
      BY <1>4, <2>2, <2>7, <3>1 DEF RulesOf, RowRules
    <3> QED BY <2>3, <3>2, LinesOfRecord
  <2>9. PICK k \in DOMAIN rival : /\ rival[k].obs = s /\ rival[k].state = "RECONCILED"
                                  /\ rival[k].members = posted[n].members
    BY <2>4 DEF FloorInv, Floored
  <2>10. Follows(rival, m, s)
    BY <1>4, <2>4, <2>9 DEF FloorInv, Rival, RowsFollow
  <2>11. PICK l \in DOMAIN rival : /\ rival[l].obs = m /\ rival[l].state = "RECONCILED"
                                   /\ rival[l].lines = LinesOf(RowRules(m, HasEvidence(s)), m)
    BY <2>10 DEF Follows
  <2>12. rival[l].members = {}
    BY <2>11 DEF FloorInv, Rival, Laid, Placed
  <2>13. r.members = {} /\ r.state = "RECONCILED"
    BY <1>1, <2>2, <2>3
  <2> HIDE DEF r
  <2>14. Floored(rival, r)
    BY <1>1, <1>2, <2>8, <2>11, <2>12, <2>13 DEF Floored
  <2> QED BY <2>14 DEF r, c
<1>5. CASE Kind(m) = "adjustment" \/ m \notin DOMAIN targetOf
  <2>1. \E class : c = exceptionFor(class)
    BY <1>5 DEF classifyLine
  <2> QED BY <1>3, <2>1
<1> QED BY <1>2, <1>4, <1>5

LEMMA RowsKeepFloor == FloorInv /\ B0Member => FloorInv'
<1> SUFFICES ASSUME FloorInv, B0Member PROVE FloorInv'
  OBVIOUS
<1> DEFINE m == Min(Members)
<1>1. m \in Members /\ \A j \in Members : m <= j
  <2>1. Members \subseteq Nat
    BY PlacesAre DEF FloorInv, Members, MemberEligible, OfKind
  <2> QED BY <2>1, FirstIsIn DEF B0Member
<1>2. /\ Post(m, classifyLine(m), certificateOf) /\ rival' = rival
      /\ Joined \subseteq Settled
  BY DEF B0Member, ToJoin, Joined
<1> HIDE DEF m
<1>3. m \in MemberEligible /\ IsNextOf(Joined, posted, m)
  BY <1>1, <1>2 DEF IsNextOf, Members, Joined, Settlements, BankLines, MemberEligible, OfKind,
                    Settled, Done
<1>4. Floored(rival, Record(m, Accepted(classifyLine(m))))
  BY <1>3, LineFloored
<1> QED BY <1>2, <1>3, <1>4, FlooredKeeps

\* A refund whose line the baseline reconciled finds that line reconciled in ASSAY.
LEMMA RestFloored ==
  ASSUME FloorInv, MemberEligible \subseteq Settled,
         NEW i \in (DOMAIN obs \ References) \ (Joined \cup MemberEligible)
  PROVE  Floored(rival, Record(i, Accepted(classifyUnpostable(i))))
<1> DEFINE r == Record(i, Accepted(classifyUnpostable(i)))
           e == obs[i].entity
<1>1. Kind(i) \in {"ledger_entry", "refund", "dispute"} /\ i \notin AnchoredSettlements
  <2>1. Kind(i) \in ObservationKinds
    BY PlacesAre DEF FloorInv, Observations, Kind
  <2> QED BY <2>1 DEF ObservationKinds, References, Joined, Settlements, BankLines, MemberEligible,
                      OfKind, AnchoredSettlements
<1>2. ASSUME r.obs = i, r.state = "EXCEPTION", r.members = {} PROVE Floored(rival, r)
  <2> HIDE DEF r
  <2> QED BY <1>1, <1>2 DEF Floored
<1>3. ASSUME Kind(i) # "refund" \/ ~LineReconciled(e) PROVE Floored(rival, r)
  <2>1. \E class : classifyUnpostable(i) = exceptionFor(class)
    BY <1>1, <1>3 DEF classifyUnpostable
  <2>2. Accepted(classifyUnpostable(i)).state = "EXCEPTION"
          /\ Accepted(classifyUnpostable(i)).members = {}
    BY <2>1, ExceptionAccepted
  <2>3. r.obs = i /\ r.state = "EXCEPTION" /\ r.members = {}
    BY <2>2, FieldsOfRecord
  <2> QED BY <1>2, <2>3
<1>4. ASSUME Kind(i) = "refund", LineReconciled(e) PROVE Floored(rival, r)
  <2>1. i \in OfKind({"refund"})
    BY <1>4 DEF OfKind
  <2>2. r.obs = i /\ QuietlyDone(r)
    BY <1>4, <2>1, RefundFollows
  <2>3. /\ ObsKept /\ RefundsApart /\ Settled \subseteq DOMAIN obs
        /\ Len(posted) \in Nat /\ DOMAIN posted = 1..Len(posted)
    BY DEF FloorInv, PostedIsSeq
  <2>4. PICK first : first = Joined
    OBVIOUS
  <2>5. InOrder(first, posted)
    BY <2>4 DEF FloorInv
  <2>6. LastRowReconciled(posted, e)
    BY <1>4, <2>1, <2>3, <2>5, LineIsLastRow
  <2>7. LastRowReconciled(rival, e)
    <3>1. PICK n \in DOMAIN posted : posted[n].obs = Max(RowsNamed(e)) /\ posted[n].state = "RECONCILED"
      BY <2>6 DEF LastRowReconciled
    <3>2. PICK k \in DOMAIN rival : rival[k].obs = posted[n].obs /\ rival[k].state = "RECONCILED"
      BY <3>1 DEF FloorInv, Floored
    <3> QED BY <2>6, <3>1, <3>2 DEF LastRowReconciled
  <2>8. PICK k \in DOMAIN rival : rival[k].obs = i
    BY DEF FloorInv, Rival, PostsAll, Done
  <2>9. QuietlyDone(rival[k])
    BY <2>1, <2>7, <2>8 DEF FloorInv, Rival, Laid, Placed
  <2> HIDE DEF r
  <2> QED BY <1>1, <2>2, <2>8, <2>9, QuietIsFloored
<1> QED BY <1>3, <1>4

LEMMA RestKeepsFloor == FloorInv /\ B0Rest => FloorInv'
<1> SUFFICES ASSUME FloorInv, B0Rest PROVE FloorInv'
  OBVIOUS
<1> DEFINE i == Min(Rest)
<1>1. i \in Rest
  <2>1. Rest \subseteq Nat
    BY PlacesAre DEF FloorInv, Rest
  <2> QED BY <2>1, FirstIsIn DEF B0Rest
<1>2. /\ Post(i, classifyUnpostable(i), certificateOf) /\ rival' = rival
      /\ Joined \subseteq Settled /\ MemberEligible \subseteq Settled
  BY DEF B0Rest, ToJoin, Joined, Members
<1> HIDE DEF i
<1>3. i \in (DOMAIN obs \ References) \ (Joined \cup MemberEligible) /\ i \notin Settled
  BY <1>1, <1>2 DEF Rest
<1>4. IsNextOf(Joined, posted, i)
  BY <1>2, <1>3 DEF IsNextOf, Settled, Done
<1>5. Floored(rival, Record(i, Accepted(classifyUnpostable(i))))
  BY <1>2, <1>3, RestFloored
<1> QED BY <1>2, <1>4, <1>5, FlooredKeeps

\* The next agent starts on what ASSAY left.
LEMMA StartHasFloor ==
  RunInv /\ BookInv /\ ItemInv /\ PassInv /\ B0Start => FloorInv'
<1> SUFFICES ASSUME RunInv, BookInv, ItemInv, PassInv, B0Start PROVE FloorInv'
  OBVIOUS
<1>1. /\ obs' = obs /\ rival' = posted /\ posted' = <<>> /\ targetOf' = <<>>
      /\ agent = "ASSAY" /\ status = "done"
  BY DEF B0Start
<1>2. PICK p : p = posted
  OBVIOUS
<1>3. Rival(p)'
  BY <1>1, <1>2, ClosedIsRival, RivalKept
<1>4. Rival(rival)'
  BY <1>1, <1>2, <1>3
<1>5. DOMAIN posted' = {} /\ DOMAIN targetOf' = {}
  BY <1>1
<1>6. PostedIsSeq'
  BY <1>1, <1>5 DEF PostedIsSeq
<1>7. ObsKept' /\ RefundsApart'
  BY <1>1, KindsKept DEF RunInv, InputKept, ObsKept, PassInv, RefundsApart
<1>8. InOrder(Joined, posted)' /\ (Settled \subseteq DOMAIN obs)'
  BY <1>5 DEF InOrder, Done, Settled
<1>9. Recorded' /\ AllocatedBy' /\ (\A n \in DOMAIN posted : Floored(rival, posted[n]))'
  BY <1>5 DEF Recorded, AllocatedBy
<1> QED BY <1>4, <1>6, <1>7, <1>8, <1>9 DEF FloorInv

\* What each agent of a bench keeps.
BenchInv ==
  /\ agent = "B0-IDONLY" => FloorInv
  /\ agent # "B0-IDONLY" => RunInv /\ BookInv /\ ItemInv
  /\ agent = "ASSAY" => PassInv

LEMMA NextBenchInv == BenchInv /\ [BNext]_bvars => BenchInv'
<1> SUFFICES ASSUME BenchInv, [BNext]_bvars PROVE BenchInv'
  OBVIOUS
<1>1. CASE Assay
  <2>1. agent # "B0-IDONLY" /\ [Next]_vars /\ agent' = agent
    BY <1>1 DEF Assay, Next, Solve, PostAnchor, PostTarget, PostMember, PostRest, Close, Post, Abort
  <2>2. RunInv' /\ BookInv' /\ ItemInv'
    BY <2>1, NextRunInv, NextBookInv, NextItemInv DEF BenchInv
  <2>3. agent = "ASSAY" => PassInv'
    BY <2>1, NextPassInv DEF BenchInv
  <2> QED BY <2>1, <2>2, <2>3 DEF BenchInv
<1>2. CASE B0Start
  BY <1>2, StartHasFloor DEF B0Start, BenchInv
<1>3. CASE B0Target \/ B0Member \/ B0Rest
  <2>1. agent = "B0-IDONLY" /\ agent' = agent
    BY <1>3 DEF B0Target, B0Member, B0Rest, Running, Post, Abort
  <2> QED BY <1>3, <2>1, JoinsKeepFloor, RowsKeepFloor, RestKeepsFloor DEF BenchInv
<1>4. CASE B0Close
  BY <1>4, FloorInvKept DEF B0Close, Running, BenchInv
<1>5. CASE BEnded \/ UNCHANGED bvars
  <2>1. UNCHANGED bvars
    BY <1>5 DEF BEnded
  <2>2. [Next]_vars
    BY <2>1 DEF bvars, vars
  <2>3. agent' = agent /\ UNCHANGED <<obs, posted, targetOf, rival>>
    BY <2>1 DEF bvars
  <2> QED BY <2>2, <2>3, NextRunInv, NextBookInv, NextItemInv, NextPassInv, FloorInvKept DEF BenchInv
<1> QED BY <1>1, <1>2, <1>3, <1>4, <1>5 DEF BNext

\* The baseline is a floor: in every bench on every input, what its two joins
\* reconcile ASSAY reconciled to the same members and with the same journal lines,
\* however its own search for the other targets went.
THEOREM FloorIsHeld == BSpec => []FloorHolds
<1>1. BInit => BenchInv
  BY InitRunInv, InitBookInv, InitItemInv, InitPassInv, AgentsAssumption DEF BInit, Init, BenchInv
<1>2. BenchInv => FloorHolds
  BY DEF BenchInv, FloorHolds, FloorInv, Floored, DecidedAs
<1> QED BY <1>1, <1>2, NextBenchInv, PTL DEF BSpec

-----------------------------------------------------------------------------
(* Sums compared, and sums of sums                                         *)

\* What is no more term by term is no more in all.
LEMMA SumIsAtMost ==
  ASSUME NEW D, IsFiniteSet(D), NEW u, NEW v,
         \A x \in D : u[x] \in Int /\ v[x] \in Int /\ u[x] <= v[x]
  PROVE  SumFunctionOnSet(u, D) <= SumFunctionOnSet(v, D)
<1> DEFINE w == [x \in D |-> v[x] - u[x]]
<1>1. \A x \in D : w[x] = v[x] - u[x] /\ w[x] \in Nat
  OBVIOUS
<1> HIDE DEF w
<1>2. SumFunctionOnSet(w, D) = SumFunctionOnSet(v, D) - SumFunctionOnSet(u, D)
  BY <1>1, SumOfDifferences
<1>3. SumFunctionOnSet(w, D) \in Nat
  BY <1>1, SumIsNat
<1>4. SumFunctionOnSet(u, D) \in Int /\ SumFunctionOnSet(v, D) \in Int
  BY SumIsInt
<1> QED BY <1>2, <1>3, <1>4

\* The magnitude of a sum is at most the sum of the magnitudes.
LEMMA SumOfMagnitudes ==
  ASSUME NEW D, IsFiniteSet(D), NEW w, NEW u, \A x \in D : w[x] \in Int /\ u[x] = AbsOf(w[x])
  PROVE  AbsOf(SumFunctionOnSet(w, D)) <= SumFunctionOnSet(u, D)
<1> DEFINE z == [x \in D |-> 0 - w[x]]
           zero == [x \in D |-> 0]
<1>1. \A x \in D : /\ u[x] \in Int /\ z[x] \in Int /\ zero[x] \in Int /\ zero[x] = 0
                   /\ z[x] = zero[x] - w[x] /\ w[x] <= u[x] /\ z[x] <= u[x]
  BY DEF AbsOf
<1> HIDE DEF z, zero
<1>2. SumFunctionOnSet(w, D) <= SumFunctionOnSet(u, D)
  BY <1>1, SumIsAtMost
<1>3. SumFunctionOnSet(z, D) <= SumFunctionOnSet(u, D)
  BY <1>1, SumIsAtMost
<1>4. SumFunctionOnSet(z, D) = SumFunctionOnSet(zero, D) - SumFunctionOnSet(w, D)
  BY <1>1, SumOfDifferences
<1>5. SumFunctionOnSet(zero, D) = 0
  BY <1>1, SumOfZeros
<1>6. SumFunctionOnSet(u, D) \in Int /\ SumFunctionOnSet(w, D) \in Int
  BY <1>1, SumIsInt
<1> QED BY <1>2, <1>3, <1>4, <1>5, <1>6 DEF AbsOf

\* The cells D of a table, one in every row of A and column of B.
Table(D, A, B, row, col) ==
  /\ \A x \in D : row[x] \in A /\ col[x] \in B
  /\ \A a \in A : \A b \in B : \E x \in D : row[x] = a /\ col[x] = b
  /\ \A x, y \in D : row[x] = row[y] /\ col[x] = col[y] => x = y

\* One row of a table sums to its terms.
LEMMA RowSums ==
  ASSUME NEW D, IsFiniteSet(D), NEW A, NEW B, IsFiniteSet(B),
         NEW row, NEW col, Table(D, A, B, row, col), NEW a \in A,
         NEW terms, \A b \in B : terms[b] \in Int,
         NEW t, \A x \in D : row[x] = a => t[x] = terms[col[x]]
  PROVE  SumFunctionOnSet(t, PartOf(D, row, a)) = SumFunctionOnSet(terms, B)
<1> DEFINE S == PartOf(D, row, a)
<1>1. S \subseteq D /\ \A x \in D : x \in S <=> row[x] = a
  BY DEF PartOf
<1> HIDE DEF S
<1>2. \A x \in S : col[x] \in B /\ terms[col[x]] = t[x]
  BY <1>1 DEF Table
<1>3. \A x, y \in S : col[x] = col[y] => x = y
  BY <1>1 DEF Table
<1>4. \A b \in B : \E x \in S : col[x] = b
  BY <1>1 DEF Table
<1>5. \A b \in B : terms[b] \in Int /\ ((\A x \in S : col[x] # b) => terms[b] = 0)
  BY <1>4
<1>6. IsFiniteSet(S)
  BY <1>1, FS_Subset
<1>7. SumFunctionOnSet(t, S) = SumFunctionOnSet(terms, B)
  BY <1>2, <1>3, <1>5, <1>6, SumElsewhere
<1> QED BY <1>7 DEF S

\* A table sums to the sum of its rows, w[a][b] in row a.
LEMMA SumByRow ==
  ASSUME NEW D, IsFiniteSet(D), NEW A, IsFiniteSet(A), NEW B, IsFiniteSet(B),
         NEW row, NEW col, Table(D, A, B, row, col),
         NEW w, \A a \in A : \A b \in B : w[a][b] \in Int,
         NEW t, \A x \in D : t[x] = w[row[x]][col[x]],
         NEW v, \A a \in A : v[a] = SumFunctionOnSet(w[a], B)
  PROVE  SumFunctionOnSet(t, D) = SumFunctionOnSet(v, A)
<1>1. ASSUME NEW a \in A
      PROVE  v[a] \in Int /\ SumFunctionOnSet(t, PartOf(D, row, a)) = v[a]
  <2> DEFINE terms == w[a]
  <2>1. \A b \in B : terms[b] \in Int
    OBVIOUS
  <2>2. \A x \in D : row[x] = a => t[x] = terms[col[x]]
    OBVIOUS
  <2>3. v[a] = SumFunctionOnSet(terms, B)
    OBVIOUS
  <2> HIDE DEF terms
  <2>4. SumFunctionOnSet(t, PartOf(D, row, a)) = SumFunctionOnSet(terms, B)
    BY <2>1, <2>2, RowSums
  <2>5. SumFunctionOnSet(terms, B) \in Int
    BY <2>1, SumIsInt
  <2> QED BY <2>3, <2>4, <2>5
<1>2. \A x \in D : t[x] \in Int /\ row[x] \in A
  BY DEF Table
<1> QED BY <1>1, <1>2, SumInParts

\* A table sums to the same by its rows and by its columns.
LEMMA SumExchanged ==
  ASSUME NEW A, IsFiniteSet(A), NEW B, IsFiniteSet(B),
         NEW w, \A a \in A : \A b \in B : w[a][b] \in Int,
         NEW u, \A a \in A : \A b \in B : u[b][a] = w[a][b],
         NEW v, \A a \in A : v[a] = SumFunctionOnSet(w[a], B),
         NEW r, \A b \in B : r[b] = SumFunctionOnSet(u[b], A)
  PROVE  SumFunctionOnSet(v, A) = SumFunctionOnSet(r, B)
<1> DEFINE D == A \X B
           row == [x \in D |-> x[1]]
           col == [x \in D |-> x[2]]
           t == [x \in D |-> w[x[1]][x[2]]]
<1>1. IsFiniteSet(D)
  BY FS_Product
<1>2. Table(D, A, B, row, col)
  <2>1. \A x \in D : row[x] = x[1] /\ col[x] = x[2] /\ x[1] \in A /\ x[2] \in B
    OBVIOUS
  <2>2. \A a \in A : \A b \in B : \E x \in D : row[x] = a /\ col[x] = b
    <3> SUFFICES ASSUME NEW a \in A, NEW b \in B PROVE \E x \in D : row[x] = a /\ col[x] = b
      OBVIOUS
    <3>1. <<a, b>> \in D
      OBVIOUS
    <3> QED BY <2>1, <3>1
  <2>3. \A x, y \in D : x[1] = y[1] /\ x[2] = y[2] => x = y
    OBVIOUS
  <2> HIDE DEF D, row, col
  <2> QED BY <2>1, <2>2, <2>3 DEF Table
<1>3. Table(D, B, A, col, row)
  <2> HIDE DEF D, row, col
  <2> QED BY <1>2 DEF Table
<1>4. \A x \in D : t[x] = w[row[x]][col[x]]
  OBVIOUS
<1> HIDE DEF D, row, col, t
<1>5. \A x \in D : t[x] = u[col[x]][row[x]]
  BY <1>2, <1>4 DEF Table
<1>6. \A b \in B : \A a \in A : u[b][a] \in Int
  OBVIOUS
<1>7. SumFunctionOnSet(t, D) = SumFunctionOnSet(v, A)
  BY <1>1, <1>2, <1>4, SumByRow
<1>8. SumFunctionOnSet(t, D) = SumFunctionOnSet(r, B)
  BY <1>1, <1>3, <1>5, <1>6, SumByRow
<1> QED BY <1>7, <1>8

-----------------------------------------------------------------------------
(* What is on record of the decisions that post nothing                    *)

\* What is reconciled and is no line of the report posts nothing.
QuietRecord(r) ==
  r.state = "RECONCILED" /\ Kind(r.obs) # "recon_line" =>
    r.lines = LinesOf(<<Silent, Silent, Silent>>, r.obs)

QuietInv == \A n \in DOMAIN posted : QuietRecord(posted[n])

\* The table raises at a reconciled adjustment, and posts nothing of another kind.
LEMMA PostedQuietly ==
  ASSUME NEW i, NEW c, ~Raises(i, c) PROVE QuietRecord(Record(i, c))
<1> SUFFICES ASSUME c.state = "RECONCILED", Kind(i) # "recon_line"
             PROVE  Record(i, c).lines = LinesOf(<<Silent, Silent, Silent>>, i)
  BY FieldsOfRecord DEF QuietRecord
<1>1. Kind(i) # "adjustment"
  <2> SUFFICES ASSUME Kind(i) = "adjustment" PROVE FALSE
    OBVIOUS
  <2>1. TerminalRule(i, c) = Throws
    BY DEF TerminalRule, SilentKinds
  <2>2. RulesOf(i, c)[3] = Throws
    BY <2>1 DEF RulesOf
  <2> QED BY <2>2 DEF Raises, Refused
<1> QED BY <1>1, QuietLines

LEMMA QuietKept ==
  ASSUME obs' = obs, NEW r, QuietRecord(r) PROVE QuietRecord(r)'
BY KindsKept, LinesKept DEF QuietRecord

LEMMA QuietPostKeeps ==
  ASSUME PostedIsSeq, QuietInv, NEW i, NEW c, NEW certificates, Post(i, c, certificates)
  PROVE  QuietInv'
<1>1. obs' = obs
  BY PostAppends
<1>2. CASE posted' = posted
  <2> SUFFICES ASSUME NEW n \in DOMAIN posted PROVE QuietRecord(posted[n])'
    BY <1>2 DEF QuietInv
  <2>1. PICK r : r = posted[n]
    OBVIOUS
  <2>2. QuietRecord(r)
    BY <2>1 DEF QuietInv
  <2>3. QuietRecord(r)'
    BY <1>1, <2>2, QuietKept
  <2>4. (r = posted[n])'
    BY <1>2, <2>1
  <2> QED BY <2>3, <2>4
<1>3. CASE ~Raises(i, Accepted(c)) /\ Appends(Record(i, Accepted(c)))
  <2> DEFINE last == Record(i, Accepted(c))
  <2>1. QuietRecord(last)
    BY <1>3, PostedQuietly
  <2>2. Appends(last)
    BY <1>3
  <2> HIDE DEF last
  <2>3. ASSUME NEW n \in DOMAIN posted' PROVE QuietRecord(posted[n])'
    <3>1. PICK r : r = posted'[n] /\ QuietRecord(r)
      BY <2>1, <2>2 DEF QuietInv, Appends
    <3>2. QuietRecord(r)'
      BY <1>1, <3>1, QuietKept
    <3> QED BY <3>1, <3>2
  <2> QED BY <2>3 DEF QuietInv
<1>4. CASE Raises(i, c) \/ Raises(i, Accepted(c))
  BY <1>2, <1>4 DEF Post, Abort
<1>5. CASE ~(Raises(i, c) \/ Raises(i, Accepted(c)))
  BY <1>2, <1>3, <1>5, PostAppends
<1> QED BY <1>4, <1>5

LEMMA NextQuietInv == RunInv /\ QuietInv /\ [Next]_vars => QuietInv'
<1> SUFFICES ASSUME RunInv, QuietInv, [Next]_vars PROVE QuietInv'
  OBVIOUS
<1>1. PostedIsSeq
  BY DEF RunInv
<1>2. CASE \E i, c, certificates : Post(i, c, certificates)
  BY <1>1, <1>2, QuietPostKeeps
<1>3. CASE UNCHANGED <<obs, posted>>
  <2> SUFFICES ASSUME NEW n \in DOMAIN posted PROVE QuietRecord(posted[n])'
    BY <1>3 DEF QuietInv
  <2>1. PICK r : r = posted[n]
    OBVIOUS
  <2>2. QuietRecord(r)
    BY <2>1 DEF QuietInv
  <2>3. QuietRecord(r)'
    BY <1>3, <2>2, QuietKept
  <2>4. (r = posted[n])'
    BY <1>3, <2>1
  <2> QED BY <2>3, <2>4
<1>4. CASE PostAnchor
  BY <1>2, <1>4 DEF PostAnchor
<1>5. CASE PostTarget
  BY <1>2, <1>5 DEF PostTarget
<1>6. CASE PostMember
  BY <1>2, <1>6 DEF PostMember
<1>7. CASE PostRest
  BY <1>2, <1>7 DEF PostRest
<1>8. CASE Solve \/ Close \/ UNCHANGED vars
  BY <1>3, <1>8 DEF Solve, Close, vars
<1> QED BY <1>4, <1>5, <1>6, <1>7, <1>8 DEF Next, Ended

LEMMA InitQuietInv == Init => QuietInv
BY DEF Init, QuietInv

-----------------------------------------------------------------------------
(* What the map of the outcomes says                                       *)

LEMMA ObservedFinite == RunInv => IsFiniteSet(DOMAIN obs)
<1> SUFFICES ASSUME RunInv PROVE IsFiniteSet(DOMAIN obs)
  OBVIOUS
<1>1. DOMAIN obs = 1..Len(obs) /\ Len(obs) \in Int /\ 1 \in Int
  BY DEF RunInv, InputKept
<1> QED BY <1>1, FS_Interval

\* Nothing is posted twice: the state of an observation is that of its decision, and
\* REFERENCE is said of what has none.
LEMMA StateIs ==
  ASSUME RunInv, BookInv
  PROVE  /\ \A n \in DOMAIN posted : stateByObsId(posted[n].obs) = posted[n].state
         /\ \A i \in DOMAIN obs \ Settled : stateByObsId(i) = "REFERENCE"
<1>1. ASSUME NEW n \in DOMAIN posted PROVE stateByObsId(posted[n].obs) = posted[n].state
  <2> DEFINE records == {k \in DOMAIN posted : posted[k].obs = posted[n].obs}
  <2>1. records = {n}
    BY DEF BookInv, PostedOnce
  <2>2. DOMAIN posted = 1..Len(posted) /\ Len(posted) \in Nat
    BY DEF RunInv, PostedIsSeq
  <2>3. records \subseteq 1..Len(posted) /\ records # {}
    BY <2>1, <2>2
  <2>4. stateByObsId(posted[n].obs) = IF records = {} THEN "REFERENCE" ELSE posted[Max(records)].state
    BY DEF stateByObsId
  <2> HIDE DEF records
  <2>5. Max(records) \in records
    BY <2>2, <2>3, LastIsIn
  <2>6. Max(records) = n
    BY <2>1, <2>5
  <2> QED BY <2>3, <2>4, <2>6
<1>2. ASSUME NEW i \in DOMAIN obs \ Settled PROVE stateByObsId(i) = "REFERENCE"
  <2>1. {k \in DOMAIN posted : posted[k].obs = i} = {}
    BY DEF Settled
  <2> QED BY <2>1 DEF stateByObsId
<1> QED BY <1>1, <1>2

\* An observation is worth no less than nothing.
LEMMA ValuesAre ==
  ASSUME InputKept PROVE \A i \in DOMAIN obs : valueOf(i) \in Nat
<1> SUFFICES ASSUME NEW i \in DOMAIN obs PROVE valueOf(i) \in Nat
  OBVIOUS
<1>1. /\ obs[i].amount \in Nat /\ obs[i].credit \in Nat /\ obs[i].debit \in Nat
      /\ Kind(i) \in ObservationKinds
  BY ObservedIs DEF Observations, Kind
<1> QED BY <1>1 DEF valueOf, AdjustmentM, ObservationKinds

-----------------------------------------------------------------------------
(* What a run that is over says of its lines                               *)

\* A run that S5 validated, read when it is over.
RunRead ==
  /\ RunInv /\ BookInv /\ ItemInv /\ QuietInv
  /\ OfOneRow(obs)
  /\ status = "done" /\ agent # "A1-NOVALIDATE"

ReconciledLines == {n \in DecidedAs("RECONCILED") : Kind(posted[n].obs) = "recon_line"}

\* A row of the report that was allocated.
AllocatedRows == {m \in MemberEligible : obs[m].entity \in coveredEntityIds}

LEMMA LegNetIsInt ==
  ASSUME InputKept, NEW i \in DOMAIN obs, NEW rule \in RuleNames, NEW a
  PROVE  LegNet(Legs(rule, i), a) \in Int
<1>1. CASE a \in DOMAIN Legs(rule, i)
  <2>1. Legs(rule, i)[a].dr \in Int /\ Legs(rule, i)[a].cr \in Int
    BY <1>1, LegsAreOnAccounts
  <2> QED BY <1>1, <2>1 DEF LegNet
<1>2. CASE a \notin DOMAIN Legs(rule, i)
  BY <1>2 DEF LegNet
<1> QED BY <1>1, <1>2

LEMMA PostedLines ==
  ASSUME RunInv, ItemInv, NEW n \in DOMAIN posted
  PROVE  /\ posted[n].obs \in DOMAIN obs
         /\ \A a \in Accounts : NetOn(a, posted[n].lines) \in Int
<1>1. posted[n].obs \in DOMAIN obs /\ InputKept
  BY DEF RunInv, PostedAreObserved, Settled
<1>2. PICK rules \in [1..3 -> RuleNames] : posted[n].lines = LinesOf(rules, posted[n].obs)
  BY DEF ItemInv, PostingsFired, Fired
<1>3. ASSUME NEW a \in Accounts PROVE NetOn(a, posted[n].lines) \in Int
  <2> DEFINE i == posted[n].obs
             net(k) == LegNet(Legs(rules[k], i), a)
  <2>1. DOMAIN rules = 1..3 /\ \A k \in 1..3 : rules[k] \in RuleNames
    BY <1>2
  <2>2. \A k \in 1..3 : net(k) \in Int
    BY <1>1, <2>1, LegNetIsInt
  <2>3. NetOn(a, LinesOf(rules, i)) = net(1) + net(2) + net(3)
    BY <2>1, <2>2, NetOnLines
  <2> HIDE DEF net
  <2> QED BY <1>2, <2>2, <2>3
<1> QED BY <1>1, <1>3

\* What is reconciled and is no line books nothing.
LEMMA QuietNets ==
  ASSUME QuietInv, NEW n \in DecidedAs("RECONCILED"), n \notin ReconciledLines, NEW a \in Accounts
  PROVE  NetOn(a, posted[n].lines) = 0
<1> DEFINE i == posted[n].obs
           rules == <<Silent, Silent, Silent>>
           net(k) == LegNet(Legs(rules[k], i), a)
<1>1. posted[n].lines = LinesOf(rules, i)
  BY DEF QuietInv, QuietRecord, DecidedAs, ReconciledLines
<1>2. DOMAIN rules = 1..3 /\ rules[1] = Silent /\ rules[2] = Silent /\ rules[3] = Silent
  OBVIOUS
<1> HIDE DEF rules
<1>3. net(1) = 0 /\ net(2) = 0 /\ net(3) = 0
  BY <1>2, SilentBooksNothing
<1>4. \A k \in 1..3 : net(k) \in Int
  BY <1>2, SilentBooksNothing
<1>5. NetOn(a, LinesOf(rules, i)) = net(1) + net(2) + net(3)
  BY <1>2, <1>4, NetOnLines
<1> HIDE DEF net
<1> QED BY <1>1, <1>3, <1>5

\* A line is reconciled exactly if some decision allocated it.
LEMMA LinesAllocated ==
  ASSUME RunRead
  PROVE  /\ \A n \in ReconciledLines : \E k \in DecidedAs("RECONCILED") :
              posted[n].obs \in posted[k].members
         /\ \A k \in DOMAIN posted : \A m \in posted[k].members :
              Kind(m) = "recon_line" => \E n \in ReconciledLines : posted[n].obs = m
<1>1. ASSUME NEW n \in ReconciledLines
      PROVE  \E k \in DecidedAs("RECONCILED") : posted[n].obs \in posted[k].members
  <2>1. posted[n].obs \in DOMAIN targetOf
    BY DEF RunRead, RunInv, LinesFollowRecord, ReconciledLines, DecidedAs
  <2> QED BY <2>1 DEF RunRead, RunInv, RecordedBy
<1>2. ASSUME NEW k \in DOMAIN posted, NEW m \in posted[k].members, Kind(m) = "recon_line"
      PROVE  \E n \in ReconciledLines : posted[n].obs = m
  <2>1. m \in DOMAIN targetOf
    BY DEF RunRead, RunInv, Recorded
  <2>2. m \in MemberEligible
    BY DEF RunRead, BookInv, MembersAreRows
  <2>3. PICK n \in DOMAIN posted : posted[n].obs = m
    BY <2>2 DEF RunRead, BookInv, AllPostedWhenDone, Settled
  <2>4. posted[n].state = "RECONCILED"
    BY <1>2, <2>1, <2>3 DEF RunRead, RunInv, LinesFollowRecord
  <2> QED BY <1>2, <2>3, <2>4 DEF ReconciledLines, DecidedAs
<1> QED BY <1>1, <1>2

\* The rows allocated are the members of the decisions.
LEMMA RowsAllocated ==
  ASSUME RunRead
  PROVE  /\ \A k \in DecidedAs("RECONCILED") : \A m \in posted[k].members :
              m \in AllocatedRows /\ <<obs[m].entity, Entity(k)>> \in Allocations
         /\ \A e \in Allocations : \E k \in DecidedAs("RECONCILED") : \E m \in posted[k].members :
              e = <<obs[m].entity, Entity(k)>>
         /\ \A m \in AllocatedRows : \E k \in DecidedAs("RECONCILED") : m \in posted[k].members
         /\ \A n \in ReconciledLines : posted[n].obs \in AllocatedRows
<1>1. \A e : e \in Allocations <=>
        \E k \in DecidedAs("RECONCILED") : \E m \in posted[k].members : e = <<obs[m].entity, Entity(k)>>
  BY DEF Allocations
<1>2. \A k \in DecidedAs("RECONCILED") : posted[k].members \subseteq MemberEligible
  BY DEF RunRead, BookInv, MembersAreRows, DecidedAs
<1>3. ASSUME NEW k \in DecidedAs("RECONCILED"), NEW m \in posted[k].members
      PROVE  m \in AllocatedRows /\ <<obs[m].entity, Entity(k)>> \in Allocations
  <2>1. <<obs[m].entity, Entity(k)>> \in Allocations
    BY <1>1
  <2>2. obs[m].entity \in coveredEntityIds
    BY <2>1 DEF coveredEntityIds
  <2> QED BY <1>2, <2>1, <2>2 DEF AllocatedRows
<1>4. ASSUME NEW m \in AllocatedRows
      PROVE  \E k \in DecidedAs("RECONCILED") : m \in posted[k].members
  <2>1. PICK e \in Allocations : e[1] = obs[m].entity
    BY DEF AllocatedRows, coveredEntityIds
  <2>2. PICK k \in DecidedAs("RECONCILED") : \E l \in posted[k].members : e = <<obs[l].entity, Entity(k)>>
    BY <1>1
  <2> PICK l \in posted[k].members : e = <<obs[l].entity, Entity(k)>>
    BY <2>2
  <2>3. obs[l].entity = obs[m].entity
    BY <2>1, <2>2
  <2>4. l \in MemberEligible /\ m \in MemberEligible
    BY <1>2 DEF AllocatedRows
  <2>5. l = m
    BY <2>3, <2>4 DEF RunRead, OfOneRow, MemberEligible, OfKind, Kind
  <2> QED BY <2>2, <2>5
<1>5. \A n \in ReconciledLines : posted[n].obs \in AllocatedRows
  BY <1>3, LinesAllocated
<1> QED BY <1>1, <1>3, <1>4, <1>5

\* There are so many of each, and no more.
LEMMA AllocatedFinite ==
  ASSUME RunRead
  PROVE  /\ IsFiniteSet(DecidedAs("RECONCILED")) /\ IsFiniteSet(ReconciledLines)
         /\ IsFiniteSet(MemberEligible) /\ IsFiniteSet(AllocatedRows)
         /\ IsFiniteSet(coveredEntityIds)
<1>1. IsFiniteSet(DOMAIN posted) /\ IsFiniteSet(DOMAIN obs)
  BY PostedFinite, ObservedFinite DEF RunRead
<1>2. DecidedAs("RECONCILED") \subseteq DOMAIN posted /\ ReconciledLines \subseteq DOMAIN posted
  BY DEF DecidedAs, ReconciledLines
<1>3. MemberEligible \subseteq DOMAIN obs /\ AllocatedRows \subseteq DOMAIN obs
  BY DEF AllocatedRows, MemberEligible, OfKind
<1>4. IsFiniteSet(AllocatedRows)
  BY <1>1, <1>3, FS_Subset
<1> DEFINE entity == [m \in AllocatedRows |-> obs[m].entity]
<1>5. \A e \in coveredEntityIds : \E m \in AllocatedRows : e = obs[m].entity
  <2> SUFFICES ASSUME NEW x \in Allocations PROVE \E m \in AllocatedRows : x[1] = obs[m].entity
    BY DEF coveredEntityIds
  <2> QED BY RowsAllocated
<1>6. \A m \in AllocatedRows : obs[m].entity \in coveredEntityIds
  BY DEF AllocatedRows
<1>7. entity \in Surjection(AllocatedRows, coveredEntityIds)
  BY <1>5, <1>6 DEF Surjection
<1>8. IsFiniteSet(coveredEntityIds)
  BY <1>4, <1>7, FS_Surjection
<1> QED BY <1>1, <1>2, <1>3, <1>4, <1>8, FS_Subset

\* What the outcomes say is covered is what the lines allocated say.
LEMMA CoverageIsAllocated ==
  ASSUME RunRead
  PROVE  coverage.by_value.numerator = SumFunction([m \in AllocatedLines |-> valueOf(m)])
<1> DEFINE covered == {i \in OfKind({"recon_line"}) : stateByObsId(i) \in {"RECONCILED"}}
<1>1. coverage.by_value.numerator = SumFunction([i \in covered |-> valueOf(i)])
  BY DEF coverage, coverageByValue, sumWhere
<1>2. ASSUME NEW m \in AllocatedLines PROVE m \in covered
  <2>1. PICK k \in DOMAIN posted : m \in posted[k].members /\ Kind(m) = "recon_line"
    BY DEF AllocatedLines, DecidedAs
  <2>2. PICK n \in ReconciledLines : posted[n].obs = m
    BY <2>1, LinesAllocated
  <2>3. stateByObsId(m) = "RECONCILED"
    BY <2>2, StateIs DEF ReconciledLines, DecidedAs, RunRead
  <2>4. m \in DOMAIN obs
    BY <2>2 DEF ReconciledLines, DecidedAs, RunRead, RunInv, PostedAreObserved, Settled
  <2> QED BY <2>1, <2>3, <2>4 DEF OfKind
<1>3. ASSUME NEW m \in covered PROVE m \in AllocatedLines
  <2>1. m \in DOMAIN obs /\ Kind(m) = "recon_line" /\ stateByObsId(m) = "RECONCILED"
    BY DEF OfKind
  <2>2. m \in Settled
    BY <2>1, StateIs DEF RunRead
  <2>3. PICK n \in DOMAIN posted : posted[n].obs = m
    BY <2>2 DEF Settled
  <2>4. n \in ReconciledLines
    BY <2>1, <2>3, StateIs DEF ReconciledLines, DecidedAs, RunRead
  <2> QED BY <2>1, <2>3, <2>4, LinesAllocated DEF AllocatedLines
<1>4. covered = AllocatedLines
  BY <1>2, <1>3
<1> HIDE DEF covered
<1> QED BY <1>1, <1>4

-----------------------------------------------------------------------------
(* What the answer key books                                               *)

\* What the rules the key fires on a row put on an account.
TrueNet(a, m) == SumFunction([rule \in TrueRules(m) |-> LegNet(Legs(rule, m), a)])

LEMMA TrueRulesAre ==
  ASSUME InputKept, NEW m \in MemberEligible
  PROVE  TrueRules(m) \subseteq RuleNames /\ IsFiniteSet(TrueRules(m))
<1>1. Kind(m) = "recon_line" <=> obs[m].type \in {"payment", "refund"}
  BY ObservedIs DEF Observations, OfItsKind, Kind, MemberEligible, OfKind
<1>2. Kind(m) \in {"recon_line", "adjustment"}
  BY DEF MemberEligible, OfKind
<1> DEFINE ingest == IngestRule(m)
           bank == IF Kind(m) = "adjustment" THEN "P8" ELSE BankEvidenceRule(m)
<1>3. Kind(m) = "recon_line" => ingest \in {"P1", "P3"}
  BY <1>1 DEF IngestRule
<1>4. bank \in {"P2", "P4", "P8"}
  BY <1>1, <1>2 DEF BankEvidenceRule
<1>5. /\ TrueRules(m) \subseteq {ingest} \cup {bank}
      /\ \A rule \in TrueRules(m) : rule = bank \/ (rule = ingest /\ Kind(m) = "recon_line")
  BY DEF TrueRules
<1>6. IsFiniteSet({ingest} \cup {bank})
  BY FS_Singleton, FS_Union
<1> HIDE DEF ingest, bank
<1>7. TrueRules(m) \subseteq RuleNames
  BY <1>3, <1>4, <1>5 DEF RuleNames
<1> QED BY <1>5, <1>6, <1>7, FS_Subset

LEMMA TrueNetIsInt ==
  ASSUME InputKept, NEW m \in MemberEligible, NEW a PROVE TrueNet(a, m) \in Int
<1> DEFINE w == [rule \in TrueRules(m) |-> LegNet(Legs(rule, m), a)]
<1>1. m \in DOMAIN obs
  BY DEF MemberEligible, OfKind
<1>2. \A rule \in TrueRules(m) : w[rule] \in Int
  BY <1>1, TrueRulesAre, LegNetIsInt
<1>3. TrueNet(a, m) = SumFunctionOnSet(w, TrueRules(m))
  BY DEF TrueNet, SumFunction
<1> HIDE DEF w
<1> QED BY <1>2, <1>3, TrueRulesAre, SumIsInt

\* What the key books of some identifiers is what it books of their rows.
LEMMA ProjectTruthIs ==
  ASSUME NEW a, NEW S, NEW rows, rows = {m \in MemberEligible : obs[m].entity \in S}
  PROVE  projectTruth(a, S) = SumFunctionOnSet([m \in rows |-> TrueNet(a, m)], rows)
BY DEF projectTruth, TrueNet, SumFunction

-----------------------------------------------------------------------------
(* The harm of a run, identifier by identifier                             *)

\* Terms that are zero may be left out.
LEMMA SumOfSome ==
  ASSUME NEW D, IsFiniteSet(D), NEW Q \in SUBSET D,
         NEW w, \A x \in D : w[x] \in Int /\ (x \notin Q => w[x] = 0)
  PROVE  SumFunctionOnSet(w, Q) = SumFunctionOnSet(w, D)
<1> DEFINE p == [x \in Q |-> x]
<1>1. \A x \in Q : p[x] = x /\ p[x] \in D /\ w[p[x]] = w[x]
  OBVIOUS
<1>2. \A x \in D : (\A y \in Q : p[y] # x) => x \notin Q
  BY <1>1
<1> HIDE DEF p
<1>3. \A x \in D : w[x] \in Int /\ ((\A y \in Q : p[y] # x) => w[x] = 0)
  BY <1>2
<1>4. \A x, y \in Q : p[x] = p[y] => x = y
  BY <1>1
<1>5. IsFiniteSet(Q)
  BY FS_Subset
<1> QED BY <1>1, <1>3, <1>4, <1>5, SumElsewhere

DecidedOf(e) == {n \in DecidedAs("RECONCILED") : Entity(n) = e}

\* What the run books on the reconciled decisions of an identifier.
BookedOf(a, e) == SumFunction([n \in DecidedOf(e) |-> NetOn(a, posted[n].lines)])

LEMMA AgentByEntity ==
  ASSUME RunRead, NEW a \in Accounts
  PROVE  /\ \A e \in coveredEntityIds : BookedOf(a, e) \in Int
         /\ projectAgent(a)
              = SumFunctionOnSet([e \in coveredEntityIds |-> BookedOf(a, e)], coveredEntityIds)
<1> DEFINE D == DecidedAs("RECONCILED")
           Q == {n \in D : Entity(n) \in coveredEntityIds}
           w == [n \in D |-> NetOn(a, posted[n].lines)]
           p == [n \in Q |-> Entity(n)]
           P == coveredEntityIds
           v == [e \in P |-> BookedOf(a, e)]
<1>1. projectAgent(a) = SumFunctionOnSet(w, D)
  BY DEF projectAgent, SumFunction
<1>2. \A n \in D : w[n] \in Int /\ w[n] = NetOn(a, posted[n].lines)
  BY PostedLines DEF RunRead, DecidedAs
<1>3. \A n \in D : n \notin Q => w[n] = 0
  <2> SUFFICES ASSUME NEW n \in D, n \notin Q PROVE NetOn(a, posted[n].lines) = 0
    OBVIOUS
  <2>1. n \notin ReconciledLines
    BY RowsAllocated DEF AllocatedRows, Entity
  <2> QED BY <2>1, QuietNets DEF RunRead
<1>4. IsFiniteSet(D) /\ IsFiniteSet(P) /\ Q \in SUBSET D /\ IsFiniteSet(Q)
  <2>1. Q \in SUBSET D
    OBVIOUS
  <2> HIDE DEF Q
  <2> QED BY <2>1, AllocatedFinite, FS_Subset
<1>5. \A n \in Q : p[n] \in P /\ p[n] = Entity(n)
  OBVIOUS
<1>6. \A e \in P : PartOf(Q, p, e) = DecidedOf(e)
  BY DEF PartOf, DecidedOf
<1> HIDE DEF w, p, Q
<1>7. SumFunctionOnSet(w, Q) = SumFunctionOnSet(w, D)
  BY <1>2, <1>3, <1>4, SumOfSome
<1>8. ASSUME NEW e \in P
      PROVE  BookedOf(a, e) \in Int /\ SumFunctionOnSet(w, PartOf(Q, p, e)) = BookedOf(a, e)
  <2> DEFINE R == DecidedOf(e)
             u == [n \in R |-> NetOn(a, posted[n].lines)]
  <2>1. R \subseteq D /\ IsFiniteSet(R)
    <3>1. R \subseteq D
      BY DEF DecidedOf
    <3> QED BY <1>4, <3>1, FS_Subset
  <2>2. \A n \in R : u[n] \in Int /\ w[n] = u[n]
    BY <1>2, <2>1
  <2>3. BookedOf(a, e) = SumFunctionOnSet(u, R)
    BY DEF BookedOf, SumFunction
  <2> HIDE DEF u, R
  <2>4. SumFunctionOnSet(w, R) = SumFunctionOnSet(u, R)
    BY <2>1, <2>2, SumAgrees
  <2>5. SumFunctionOnSet(u, R) \in Int
    BY <2>1, <2>2, SumIsInt
  <2> QED BY <1>6, <2>3, <2>4, <2>5 DEF R
<1>9. \A e \in P : v[e] \in Int /\ SumFunctionOnSet(w, PartOf(Q, p, e)) = v[e]
  BY <1>8
<1>10. \A n \in Q : w[n] \in Int
  BY <1>2, <1>4
<1> HIDE DEF v, D, P
<1>11. SumFunctionOnSet(w, Q) = SumFunctionOnSet(v, P)
  BY <1>4, <1>5, <1>9, <1>10, SumInParts
<1> QED BY <1>1, <1>7, <1>8, <1>11 DEF v, P

LEMMA TruthByEntity ==
  ASSUME RunRead, NEW a
  PROVE  /\ \A e \in coveredEntityIds : projectTruth(a, {e}) \in Int
         /\ projectTruth(a, coveredEntityIds)
              = SumFunctionOnSet([e \in coveredEntityIds |-> projectTruth(a, {e})], coveredEntityIds)
<1> DEFINE D == AllocatedRows
           w == [m \in D |-> TrueNet(a, m)]
           p == [m \in D |-> obs[m].entity]
           P == coveredEntityIds
           v == [e \in P |-> projectTruth(a, {e})]
<1>1. projectTruth(a, P) = SumFunctionOnSet(w, D)
  BY ProjectTruthIs DEF AllocatedRows
<1>2. \A m \in D : w[m] \in Int /\ w[m] = TrueNet(a, m)
  BY TrueNetIsInt DEF RunRead, RunInv, AllocatedRows
<1>3. IsFiniteSet(D) /\ IsFiniteSet(P)
  BY AllocatedFinite
<1>4. \A m \in D : p[m] \in P /\ p[m] = obs[m].entity
  BY DEF AllocatedRows
<1>5. \A e \in P : PartOf(D, p, e) = {m \in MemberEligible : obs[m].entity \in {e}}
  BY DEF PartOf, AllocatedRows
<1> HIDE DEF w, p
<1>6. ASSUME NEW e \in P
      PROVE  projectTruth(a, {e}) \in Int /\ SumFunctionOnSet(w, PartOf(D, p, e)) = projectTruth(a, {e})
  <2> DEFINE R == PartOf(D, p, e)
             u == [m \in R |-> TrueNet(a, m)]
  <2>1. R \subseteq D /\ IsFiniteSet(R)
    <3>1. R \subseteq D
      BY DEF PartOf
    <3> QED BY <1>3, <3>1, FS_Subset
  <2>2. \A m \in R : u[m] \in Int /\ w[m] = u[m]
    BY <1>2, <2>1
  <2>3. projectTruth(a, {e}) = SumFunctionOnSet(u, R)
    BY <1>5, ProjectTruthIs
  <2> HIDE DEF u, R
  <2>4. SumFunctionOnSet(w, R) = SumFunctionOnSet(u, R)
    BY <2>1, <2>2, SumAgrees
  <2>5. SumFunctionOnSet(u, R) \in Int
    BY <2>1, <2>2, SumIsInt
  <2> QED BY <2>3, <2>4, <2>5 DEF R
<1>7. \A e \in P : v[e] \in Int /\ SumFunctionOnSet(w, PartOf(D, p, e)) = v[e]
  BY <1>6
<1> HIDE DEF v, D, P
<1>8. SumFunctionOnSet(w, D) = SumFunctionOnSet(v, P)
  BY <1>2, <1>3, <1>4, <1>7, SumInParts
<1> QED BY <1>1, <1>6, <1>8 DEF v, P

\* Where the run and the key differ on an identifier, by account.
Differs(a, e) == BookedOf(a, e) - projectTruth(a, {e})

LEMMA CaseHarmIs ==
  ASSUME NEW e \in coveredEntityIds
  PROVE  caseBalanceHarm(e) = SumFunctionOnSet([a \in HarmAccounts |-> AbsOf(Differs(a, e))], HarmAccounts)
BY DEF caseBalanceHarm, Differs, BookedOf, DecidedOf, SumFunction

\* What an account is out by is the sum of what it is out by on each identifier.
LEMMA AccountDiffers ==
  ASSUME RunRead, NEW a \in Accounts
  PROVE  LET differs == [e \in coveredEntityIds |-> Differs(a, e)] IN
         /\ \A e \in coveredEntityIds : differs[e] \in Int
         /\ projectAgent(a) - projectTruth(a, coveredEntityIds) = SumFunctionOnSet(differs, coveredEntityIds)
         /\ AbsOf(SumFunctionOnSet(differs, coveredEntityIds)) \in Int
<1> DEFINE P == coveredEntityIds
           u == [e \in P |-> BookedOf(a, e)]
           v == [e \in P |-> projectTruth(a, {e})]
           w == [e \in P |-> Differs(a, e)]
<1>1. \A e \in P : u[e] \in Int /\ v[e] \in Int /\ w[e] = u[e] - v[e]
  BY AgentByEntity, TruthByEntity DEF Differs
<1>2. projectAgent(a) = SumFunctionOnSet(u, P) /\ projectTruth(a, P) = SumFunctionOnSet(v, P)
  BY AgentByEntity, TruthByEntity
<1>3. IsFiniteSet(P)
  BY AllocatedFinite
<1> HIDE DEF P, u, v, w
<1>4. SumFunctionOnSet(w, P) = SumFunctionOnSet(u, P) - SumFunctionOnSet(v, P)
  BY <1>1, <1>3, SumOfDifferences
<1>5. \A e \in P : w[e] \in Int
  BY <1>1
<1>6. SumFunctionOnSet(w, P) \in Int
  BY <1>3, <1>5, SumIsInt
<1>7. AbsOf(SumFunctionOnSet(w, P)) \in Int
  BY <1>6 DEF AbsOf
<1> QED BY <1>2, <1>4, <1>5, <1>7 DEF P, w

\* What harm there is, is the harm of the identifiers the run allocated.
LEMMA HarmByEntity ==
  ASSUME RunRead
  PROVE  balanceHarm <= SumFunction([entity \in coveredEntityIds |-> caseBalanceHarm(entity)])
<1> DEFINE A == HarmAccounts
           B == coveredEntityIds
           table == [a \in A |-> [e \in B |-> AbsOf(Differs(a, e))]]
           turned == [e \in B |-> [a \in A |-> AbsOf(Differs(a, e))]]
           rows == [a \in A |-> SumFunctionOnSet(table[a], B)]
           harm == [e \in B |-> caseBalanceHarm(e)]
           out == [a \in A |-> AbsOf(projectAgent(a) - projectTruth(a, B))]
<1>1. IsFiniteSet(A) /\ IsFiniteSet(B) /\ A \subseteq Accounts
  <2>1. A \subseteq Accounts
    BY DEF HarmAccounts
  <2> HIDE DEF A
  <2> QED BY <2>1, AccountsFinite, AllocatedFinite, FS_Subset
<1>2. balanceHarm = SumFunctionOnSet(out, A)
  BY DEF balanceHarm, SumFunction
<1>3. SumFunction([entity \in coveredEntityIds |-> caseBalanceHarm(entity)]) = SumFunctionOnSet(harm, B)
  BY DEF SumFunction
<1>4. \A a \in A : \A e \in B : Differs(a, e) \in Int /\ AbsOf(Differs(a, e)) \in Int
  <2> SUFFICES ASSUME NEW a \in A, NEW e \in B
               PROVE  Differs(a, e) \in Int /\ AbsOf(Differs(a, e)) \in Int
    OBVIOUS
  <2>1. Differs(a, e) \in Int
    BY <1>1, AccountDiffers
  <2> HIDE DEF A, B
  <2> QED BY <2>1 DEF AbsOf
<1>5. ASSUME NEW a \in A PROVE out[a] \in Int /\ rows[a] \in Int /\ out[a] <= rows[a]
  <2> DEFINE w == [e \in B |-> Differs(a, e)]
             u == [e \in B |-> AbsOf(Differs(a, e))]
  <2>1. \A e \in B : w[e] \in Int /\ u[e] = AbsOf(w[e]) /\ u[e] \in Int
    BY <1>4
  <2>2. out[a] = AbsOf(SumFunctionOnSet(w, B)) /\ out[a] \in Int
    BY <1>1, AccountDiffers
  <2>3. rows[a] = SumFunctionOnSet(u, B)
    OBVIOUS
  <2> HIDE DEF w, u, B, out, rows
  <2>4. AbsOf(SumFunctionOnSet(w, B)) <= SumFunctionOnSet(u, B)
    BY <1>1, <2>1, SumOfMagnitudes
  <2>5. SumFunctionOnSet(u, B) \in Int
    BY <1>1, <2>1, SumIsInt
  <2> QED BY <2>2, <2>3, <2>4, <2>5
<1>6. \A e \in B : harm[e] = SumFunctionOnSet(turned[e], A)
  BY CaseHarmIs
<1>7. /\ \A a \in A : \A e \in B : table[a][e] \in Int /\ turned[e][a] = table[a][e]
      /\ \A a \in A : rows[a] = SumFunctionOnSet(table[a], B)
  BY <1>4
<1> HIDE DEF A, B, table, turned, rows, harm, out
<1>8. SumFunctionOnSet(out, A) <= SumFunctionOnSet(rows, A)
  BY <1>1, <1>5, SumIsAtMost
<1>9. SumFunctionOnSet(rows, A) = SumFunctionOnSet(harm, B)
  BY <1>1, <1>6, <1>7, SumExchanged
<1> QED BY <1>2, <1>3, <1>8, <1>9

\* The key withholds lines of settlements the input holds.
WithheldOfInput == truth.withheld \subseteq {obs[s].entity : s \in Settlements}

\* An edge the key holds of a row of the report is what the key says of the row.
LEMMA TrueEdge ==
  ASSUME RunRead, WithheldOfInput, NEW m \in MemberEligible, NEW e,
         <<obs[m].entity, e>> \in scoringTruth
  PROVE  truth.line[m] = e
<1>1. m \in DOMAIN obs /\ obs[m].kind \in {"recon_line", "adjustment"}
  BY DEF MemberEligible, OfKind, Kind
<1>2. \A i \in DOMAIN obs : obs[i].entity \in Nat \ {0}
  BY ObservedIs DEF RunRead, RunInv, Observations
<1>3. CASE \E l \in MemberEligible : <<obs[m].entity, e>> = <<obs[l].entity, truth.line[l]>>
  <2>1. PICK l \in MemberEligible : <<obs[m].entity, e>> = <<obs[l].entity, truth.line[l]>>
    BY <1>3
  <2>2. l \in DOMAIN obs /\ obs[l].kind \in {"recon_line", "adjustment"}
    BY DEF MemberEligible, OfKind, Kind
  <2>3. obs[m].entity = obs[l].entity /\ e = truth.line[l]
    BY <2>1
  <2>4. m = l
    BY <1>1, <2>2, <2>3 DEF RunRead, OfOneRow
  <2> QED BY <2>3, <2>4
<1>4. CASE \E id \in truth.withheld : <<obs[m].entity, e>> = <<-id, id>>
  <2>1. PICK id \in truth.withheld : <<obs[m].entity, e>> = <<-id, id>>
    BY <1>4
  <2>2. PICK s \in Settlements : id = obs[s].entity
    BY <2>1 DEF WithheldOfInput
  <2>3. id \in Nat \ {0} /\ obs[m].entity \in Nat /\ obs[m].entity = -id
    BY <1>1, <1>2, <2>1, <2>2 DEF Settlements, OfKind
  <2> QED BY <2>3
<1>5. CASE \E s \in Settlements : <<obs[m].entity, e>> = <<obs[s].entity, obs[BankLineOf(s)].entity>>
  <2>1. PICK s \in Settlements : <<obs[m].entity, e>> = <<obs[s].entity, obs[BankLineOf(s)].entity>>
    BY <1>5
  <2>2. s \in DOMAIN obs /\ obs[s].kind = "settlement" /\ obs[m].entity = obs[s].entity
    BY <2>1 DEF Settlements, OfKind, Kind
  <2>3. m = s
    BY <1>1, <2>2 DEF RunRead, OfOneRow
  <2> QED BY <1>1, <2>2, <2>3
<1> QED BY <1>3, <1>4, <1>5 DEF scoringTruth

\* Where the edge is true and the credit was seen if it came, a line books as the key
\* does.
LEMMA BookedAsTrue ==
  ASSUME RunRead, NEW k \in DecidedAs("RECONCILED"), PostsAsTheKey(k),
         NEW m \in posted[k].members, truth.line[m] = Entity(k),
         NEW n \in DOMAIN posted, posted[n].obs = m, NEW a \in Accounts
  PROVE  NetOn(a, posted[n].lines) = TrueNet(a, m)
<1>1. m \in MemberEligible /\ m \in DOMAIN obs /\ Kind(m) = "recon_line" /\ k \in DOMAIN posted
  BY DEF RunRead, BookInv, MembersAreRows, PostsAsTheKey, MemberEligible, OfKind, DecidedAs
<1>2. m \in DOMAIN targetOf /\ targetOf[m] = posted[k].obs
  BY <1>1 DEF RunRead, RunInv, Recorded, BookInv, RecordNamesTarget
<1>3. CreditSeen(m) <=> truth.line[m] \in truth.carried
  BY <1>2 DEF CreditSeen, PostsAsTheKey
<1>4. PICK rules \in [1..3 -> RuleNames] : Ruled(rules, m) /\ posted[n].lines = LinesOf(rules, m)
  BY <1>1 DEF RunRead, BookInv, LinesAsRuled
<1> DEFINE net(j) == LegNet(Legs(rules[j], m), a)
           w == [rule \in TrueRules(m) |-> LegNet(Legs(rule, m), a)]
<1>5. /\ DOMAIN rules = 1..3 /\ \A j \in 1..3 : rules[j] \in RuleNames
      /\ rules[1] = IngestRule(m) /\ rules[3] = Silent
      /\ rules[2] = IF CreditSeen(m) THEN BankEvidenceRule(m) ELSE Silent
  BY <1>1, <1>2, <1>4 DEF Ruled
<1>6. \A j \in 1..3 : net(j) \in Int
  BY <1>1, <1>5, LegNetIsInt DEF RunRead, RunInv
<1>7. NetOn(a, posted[n].lines) = net(1) + net(2) + net(3)
  BY <1>4, <1>5, <1>6, NetOnLines
<1>8. net(3) = 0
  BY <1>5, SilentBooksNothing
<1>9. TrueNet(a, m) = SumFunctionOnSet(w, TrueRules(m))
  BY DEF TrueNet, SumFunction
<1>10. IsFiniteSet(TrueRules(m)) /\ \A rule \in TrueRules(m) : w[rule] \in Int /\ w[rule] = LegNet(Legs(rule, m), a)
  BY <1>1, TrueRulesAre, LegNetIsInt DEF RunRead, RunInv
<1>11. obs[m].type \in {"payment", "refund"}
  BY <1>1, ObservedIs DEF RunRead, RunInv, Observations, OfItsKind, Kind
<1>12. CASE truth.line[m] \notin truth.carried
  <2> DEFINE r == IngestRule(m)
  <2>1. TrueRules(m) = {r}
    BY <1>1, <1>12 DEF TrueRules
  <2>2. w[r] = net(1) /\ r \in TrueRules(m)
    BY <1>5, <1>10, <2>1
  <2>3. net(2) = 0
    BY <1>3, <1>5, <1>12, SilentBooksNothing
  <2> HIDE DEF w, r, net
  <2>4. SumFunctionOnSet(w, {r}) = w[r]
    BY <1>6, <2>2, SumOfOne
  <2> QED BY <1>6, <1>7, <1>8, <1>9, <2>1, <2>2, <2>3, <2>4
<1>13. CASE truth.line[m] \in truth.carried
  <2> DEFINE r == IngestRule(m)
             b == BankEvidenceRule(m)
  <2>1. TrueRules(m) = {r, b}
    BY <1>1, <1>13 DEF TrueRules
  <2>2. r # b
    BY <1>11 DEF IngestRule, BankEvidenceRule
  <2>3. w[r] = net(1) /\ w[b] = net(2)
    BY <1>3, <1>5, <1>10, <1>13, <2>1
  <2> HIDE DEF w, r, b, net
  <2>4. TrueRules(m) \ {r} = {b} /\ r \in TrueRules(m)
    BY <2>1, <2>2
  <2>5. SumFunctionOnSet(w, TrueRules(m)) = w[r] + SumFunctionOnSet(w, TrueRules(m) \ {r})
    BY <1>10, <2>4, SumTakesAny
  <2>6. SumFunctionOnSet(w, {b}) = w[b]
    BY <1>6, <2>3, SumOfOne
  <2>7. SumFunctionOnSet(w, TrueRules(m)) = w[r] + w[b]
    BY <2>4, <2>5, <2>6
  <2>8. net(1) \in Int /\ net(2) \in Int
    BY <1>6
  <2>9. NetOn(a, posted[n].lines) = net(1) + net(2)
    BY <1>7, <1>8, <2>8
  <2> QED BY <1>9, <2>3, <2>7, <2>9
<1> QED BY <1>12, <1>13

\* Where every edge is true, and every credit that came was seen, no account is out.
LEMMA TrueRunBooksTruth ==
  ASSUME RunRead, WithheldOfInput, Allocations \ scoringTruth = {},
         \A k \in DecidedAs("RECONCILED") : posted[k].members # {} => PostsAsTheKey(k),
         NEW a \in Accounts
  PROVE  projectAgent(a) = projectTruth(a, coveredEntityIds)
<1> DEFINE D == DecidedAs("RECONCILED")
           w == [n \in D |-> NetOn(a, posted[n].lines)]
           u == [m \in AllocatedRows |-> TrueNet(a, m)]
           p == [n \in ReconciledLines |-> posted[n].obs]
<1>1. projectAgent(a) = SumFunctionOnSet(w, D)
  BY DEF projectAgent, SumFunction
<1>2. projectTruth(a, coveredEntityIds) = SumFunctionOnSet(u, AllocatedRows)
  BY ProjectTruthIs DEF AllocatedRows
<1>3. /\ IsFiniteSet(D) /\ IsFiniteSet(ReconciledLines) /\ IsFiniteSet(AllocatedRows)
      /\ ReconciledLines \in SUBSET D
  BY AllocatedFinite DEF ReconciledLines
<1>4. \A n \in D : w[n] \in Int /\ (n \notin ReconciledLines => w[n] = 0)
  BY PostedLines, QuietNets DEF RunRead, DecidedAs
<1>5. ASSUME NEW m \in AllocatedRows
      PROVE  \E n \in ReconciledLines : posted[n].obs = m
  <2>1. PICK k \in D : m \in posted[k].members
    BY RowsAllocated
  <2>2. Kind(m) = "recon_line" /\ k \in DOMAIN posted
    BY <2>1 DEF PostsAsTheKey, DecidedAs
  <2> QED BY <2>1, <2>2, LinesAllocated
<1>6. ASSUME NEW n \in ReconciledLines PROVE p[n] \in AllocatedRows /\ u[p[n]] = w[n]
  <2> DEFINE m == posted[n].obs
  <2>1. m \in AllocatedRows /\ n \in DOMAIN posted /\ n \in D
    BY RowsAllocated DEF ReconciledLines, DecidedAs
  <2>2. PICK k \in D : m \in posted[k].members
    BY <2>1, RowsAllocated
  <2>3. <<obs[m].entity, Entity(k)>> \in Allocations
    BY <2>2, RowsAllocated
  <2>4. <<obs[m].entity, Entity(k)>> \in scoringTruth
    BY <2>3
  <2>5. truth.line[m] = Entity(k)
    BY <2>1, <2>4, TrueEdge DEF AllocatedRows
  <2>6. NetOn(a, posted[n].lines) = TrueNet(a, m)
    BY <2>1, <2>2, <2>5, BookedAsTrue
  <2> QED BY <2>1, <2>6
<1>7. \A n, k \in ReconciledLines : p[n] = p[k] => n = k
  BY DEF RunRead, BookInv, PostedOnce, ReconciledLines, DecidedAs
<1>8. \A m \in AllocatedRows : u[m] \in Int /\ \E n \in ReconciledLines : p[n] = m
  BY <1>5, TrueNetIsInt DEF RunRead, RunInv, AllocatedRows
<1> HIDE DEF D, w, u, p
<1>9. SumFunctionOnSet(w, ReconciledLines) = SumFunctionOnSet(w, D)
  BY <1>3, <1>4, SumOfSome
<1>10. SumFunctionOnSet(w, ReconciledLines) = SumFunctionOnSet(u, AllocatedRows)
  <2>1. \A m \in AllocatedRows : u[m] \in Int /\ ((\A n \in ReconciledLines : p[n] # m) => u[m] = 0)
    BY <1>8
  <2> QED BY <1>3, <1>6, <1>7, <2>1, SumElsewhere
<1> QED BY <1>1, <1>2, <1>9, <1>10

LEMMA TrueRunIsHarmless ==
  ASSUME RunRead, WithheldOfInput, Allocations \ scoringTruth = {},
         \A k \in DecidedAs("RECONCILED") : posted[k].members # {} => PostsAsTheKey(k)
  PROVE  balanceHarm = 0
<1> DEFINE out == [a \in HarmAccounts |-> AbsOf(projectAgent(a) - projectTruth(a, coveredEntityIds))]
<1>1. balanceHarm = SumFunctionOnSet(out, HarmAccounts)
  BY DEF balanceHarm, SumFunction
<1>2. HarmAccounts \subseteq Accounts
  BY DEF HarmAccounts
<1>3. ASSUME NEW a \in HarmAccounts PROVE out[a] = 0
  <2>1. projectAgent(a) = projectTruth(a, coveredEntityIds)
    BY <1>2, TrueRunBooksTruth
  <2>2. IsFiniteSet(coveredEntityIds) /\ \A e \in coveredEntityIds : BookedOf(a, e) \in Int
    BY <1>2, AgentByEntity, AllocatedFinite
  <2>3. projectAgent(a) \in Int
    <3> DEFINE v == [e \in coveredEntityIds |-> BookedOf(a, e)]
    <3>1. projectAgent(a) = SumFunctionOnSet(v, coveredEntityIds)
      BY <1>2, AgentByEntity
    <3>2. \A e \in coveredEntityIds : v[e] \in Int
      BY <2>2
    <3> HIDE DEF v
    <3> QED BY <2>2, <3>1, <3>2, SumIsInt
  <2>4. projectAgent(a) - projectTruth(a, coveredEntityIds) = 0
    BY <2>1, <2>3
  <2> QED BY <2>4 DEF AbsOf
<1>4. IsFiniteSet(HarmAccounts)
  BY <1>2, AccountsFinite, FS_Subset
<1> HIDE DEF out
<1> QED BY <1>1, <1>3, <1>4, SumOfZeros

\* The key that is read is one of the input's.
KeyIsRead == truth # NoTruth => WithheldOfInput

\* The key is read when the run is over, and a score is of a run that is.
ScoredWhenDone ==
  /\ truth # NoTruth => status = "done"
  /\ score # <<>> => truth # NoTruth

\* What is scored is a run of the input that S5 validated or did not, and the key's.
ScoringInv ==
  /\ RunInv /\ BookInv /\ ItemInv /\ QuietInv /\ OfOneRow(obs)
  /\ ScoredWhenDone /\ KeyIsRead /\ MetricsAgree

\* What MetricsAgree compares: the harm of the identifiers allocated one by one, the
\* value of the lines allocated, and whether each allocation posts as the key does.
HarmOfEach   == SumFunction([entity \in coveredEntityIds |-> caseBalanceHarm(entity)])
ValueOfLines == SumFunction([m \in AllocatedLines |-> valueOf(m)])
KeyFollowed  == \A n \in DecidedAs("RECONCILED") : posted[n].members # {} => PostsAsTheKey(n)

\* What the metrics look at is the same as long as the run and the key are.
LEMMA MetricsKept ==
  ASSUME UNCHANGED <<vars, truth>>
  PROVE  HarmOfEach' = HarmOfEach /\ ValueOfLines' = ValueOfLines /\ (KeyFollowed' <=> KeyFollowed)
<1>1. obs' = obs /\ posted' = posted /\ truth' = truth
  BY DEF vars
<1>2. DecidedAs("RECONCILED")' = DecidedAs("RECONCILED") /\ \A n : Entity(n)' = Entity(n)
  BY <1>1 DEF DecidedAs, Entity
<1>3. \A i : Kind(i)' = Kind(i) /\ HasEvidence(i)' = HasEvidence(i)
  BY <1>1, KindsKept, EvidenceKept
<1>4. Allocations' = Allocations
  BY <1>1, <1>2 DEF Allocations
<1>5. coveredEntityIds' = coveredEntityIds
  BY <1>4 DEF coveredEntityIds
<1>6. AllocatedLines' = AllocatedLines
  BY <1>1, <1>2, <1>3 DEF AllocatedLines
<1>7. \A i : valueOf(i)' = valueOf(i)
  BY <1>1, <1>3 DEF valueOf, AdjustmentM
<1>8. \A n : PostsAsTheKey(n)' <=> PostsAsTheKey(n)
  BY <1>1, <1>2, <1>3 DEF PostsAsTheKey
<1>9. \A m : TrueRules(m)' = TrueRules(m)
  BY <1>1, <1>3, RulesKept DEF TrueRules
<1>10. \A rule, m : Legs(rule, m)' = Legs(rule, m)
  BY <1>1 DEF Legs, LegsOfP2, AdjustmentM
<1>11. \A a, m : TrueNet(a, m)' = TrueNet(a, m)
  BY <1>9, <1>10 DEF TrueNet
<1>12. \A a, S : projectTruth(a, S)' = projectTruth(a, S)
  BY <1>1, <1>3, <1>9, <1>10, KindsKept DEF projectTruth
<1>13. ASSUME NEW e PROVE caseBalanceHarm(e)' = caseBalanceHarm(e)
  BY <1>1, <1>2, <1>5, <1>12 DEF caseBalanceHarm
<1>14. HarmOfEach' = HarmOfEach
  BY <1>5, <1>13 DEF HarmOfEach
<1>15. ValueOfLines' = ValueOfLines
  BY <1>6, <1>7 DEF ValueOfLines
<1>16. KeyFollowed' <=> KeyFollowed
  BY <1>1, <1>2, <1>8 DEF KeyFollowed
<1> QED BY <1>14, <1>15, <1>16

LEMMA MetricsHold ==
  ASSUME RunRead, WithheldOfInput
  PROVE  /\ BaseMetrics.match.fp = {} => BaseMetrics.misdirected = 0
         /\ BaseMetrics.match.fp = {} /\ KeyFollowed => BaseMetrics.harm = 0
         /\ BaseMetrics.harm <= HarmOfEach
         /\ BaseMetrics.coverage.by_value.numerator = ValueOfLines
<1>1. /\ BaseMetrics.match.fp = Allocations \ scoringTruth
      /\ BaseMetrics.misdirected = misdirectedValue
      /\ BaseMetrics.harm = balanceHarm
      /\ BaseMetrics.coverage = coverage
  BY DEF BaseMetrics, matchMetrics
<1>2. ASSUME Allocations \ scoringTruth = {} PROVE misdirectedValue = 0
  <2> DEFINE S == {e[1] : e \in Allocations \ scoringTruth}
             w == [entity \in S |-> valueByEntityId(entity)]
  <2>1. misdirectedValue = SumFunctionOnSet(w, S)
    BY DEF misdirectedValue, SumFunction
  <2>2. S = {}
    BY <1>2
  <2> HIDE DEF S, w
  <2> QED BY <2>1, <2>2, SumOfNone
<1> QED BY <1>1, <1>2, TrueRunIsHarmless, HarmByEntity, CoverageIsAllocated
        DEF HarmOfEach, ValueOfLines, KeyFollowed

LEMMA MetricsAgreeIs ==
  MetricsAgree <=>
    (Scored =>
       /\ score.match.fp = {} => score.misdirected = 0
       /\ score.match.fp = {} /\ KeyFollowed => score.harm = 0
       /\ score.harm <= HarmOfEach
       /\ score.coverage.by_value.numerator = ValueOfLines)
BY DEF MetricsAgree, HarmOfEach, ValueOfLines, KeyFollowed

\* The metrics read the books as the key does: in every run of every input that S5
\* validates, true edges whose credits were seen do no harm, all harm is the harm of a
\* line that was allocated, and what is covered is what was allocated, line by line.
THEOREM MetricsStayTrue == ScoringSpec => []MetricsAgree
<1>1. ScoringInit => ScoringInv
  BY InitRunInv, InitBookInv, InitItemInv, InitQuietInv, KeyAssumption
     DEF ScoringInit, ScoringInv, ScoredWhenDone, KeyIsRead, MetricsAgree, Scored, Init
<1>2. ScoringInv /\ [ScoringNext]_scoringVars => ScoringInv'
  <2> SUFFICES ASSUME ScoringInv, [ScoringNext]_scoringVars PROVE ScoringInv'
    OBVIOUS
  <2>1. [Next]_vars
    BY DEF ScoringNext, scoringVars, RunStep, Next, ReadTruth, Score, ScoringEnded
  <2>2. RunInv' /\ BookInv' /\ ItemInv' /\ QuietInv'
    BY <2>1, NextRunInv, NextBookInv, NextItemInv, NextQuietInv DEF ScoringInv
  <2>3. OfOneRow(obs)'
    <3>1. obs' = obs
      <4>1. ASSUME NEW i, NEW c, NEW certificates, Post(i, c, certificates) PROVE obs' = obs
        BY <4>1, PostEffect DEF ScoringInv
      <4> QED BY <2>1, <4>1 DEF Next, Solve, PostAnchor, PostTarget, PostMember, PostRest, Close, Ended, vars
    <3> QED BY <3>1 DEF ScoringInv, OfOneRow
  <2>4. CASE RunStep
    <3>1. truth = NoTruth /\ score = <<>>
      BY <2>4 DEF RunStep, Solve, PostAnchor, PostTarget, PostMember, PostRest, Close,
                  ScoringInv, ScoredWhenDone
    <3> QED BY <2>2, <2>3, <2>4, <3>1
            DEF RunStep, ScoringInv, ScoredWhenDone, KeyIsRead, MetricsAgree, Scored
  <2>5. CASE ReadTruth
    <3>1. score = <<>> /\ score' = <<>> /\ status' = "done"
      BY <2>5 DEF ReadTruth, vars, ScoringInv, ScoredWhenDone
    <3>2. KeyIsRead'
      BY <2>5, KindsKept DEF ReadTruth, vars, KeyIsRead, WithheldOfInput, Truths
    <3> QED BY <2>2, <2>3, <3>1, <3>2 DEF ScoringInv, ScoredWhenDone, MetricsAgree, Scored
  <2>6. CASE Score
    <3>1. status = "done" /\ status' = "done" /\ truth' = truth /\ truth # NoTruth
          /\ score' = BaseMetrics /\ UNCHANGED vars
      BY <2>6 DEF Score, vars, ScoringInv, ScoredWhenDone
    <3>2. KeyIsRead'
      BY <3>1, KindsKept DEF ScoringInv, KeyIsRead, WithheldOfInput, vars
    <3>3. MetricsAgree'
      <4> SUFFICES ASSUME agent # "A1-NOVALIDATE" PROVE MetricsAgree'
        BY <3>1 DEF MetricsAgree, Scored, vars
      <4>1. RunRead /\ WithheldOfInput
        BY <3>1 DEF ScoringInv, RunRead, KeyIsRead
      <4>2. UNCHANGED <<vars, truth>>
        BY <3>1
      <4>3. HarmOfEach' = HarmOfEach /\ ValueOfLines' = ValueOfLines /\ (KeyFollowed' <=> KeyFollowed)
        BY <4>2, MetricsKept
      <4>4. /\ score'.match.fp = {} => score'.misdirected = 0
            /\ score'.match.fp = {} /\ KeyFollowed' => score'.harm = 0
            /\ score'.harm <= HarmOfEach'
            /\ score'.coverage.by_value.numerator = ValueOfLines'
        BY <3>1, <4>1, <4>3, MetricsHold
      <4> QED BY <4>4 DEF MetricsAgree, HarmOfEach, ValueOfLines, KeyFollowed
    <3> QED BY <2>2, <2>3, <3>1, <3>2, <3>3 DEF ScoringInv, ScoredWhenDone
  <2>7. CASE UNCHANGED scoringVars
    <3>1. UNCHANGED <<vars, truth>> /\ score' = score /\ agent' = agent /\ status' = status
      BY <2>7 DEF scoringVars, vars
    <3>2. ScoredWhenDone' /\ KeyIsRead'
      BY <3>1, KindsKept DEF ScoringInv, ScoredWhenDone, KeyIsRead, WithheldOfInput, vars
    <3>3. MetricsAgree'
      <4> SUFFICES ASSUME Scored' PROVE MetricsAgree'
        BY DEF MetricsAgree
      <4>1. HarmOfEach' = HarmOfEach /\ ValueOfLines' = ValueOfLines /\ (KeyFollowed' <=> KeyFollowed)
        BY <3>1, MetricsKept
      <4>2. Scored
        BY <3>1 DEF Scored
      <4>3. /\ score'.match.fp = {} => score'.misdirected = 0
            /\ score'.match.fp = {} /\ KeyFollowed' => score'.harm = 0
            /\ score'.harm <= HarmOfEach'
            /\ score'.coverage.by_value.numerator = ValueOfLines'
        BY <3>1, <4>1, <4>2, MetricsAgreeIs DEF ScoringInv
      <4> QED BY <4>3 DEF MetricsAgree, HarmOfEach, ValueOfLines, KeyFollowed
    <3> QED BY <2>2, <2>3, <3>2, <3>3 DEF ScoringInv
  <2> QED BY <2>4, <2>5, <2>6, <2>7 DEF ScoringNext, ScoringEnded
<1>3. ScoringInv => MetricsAgree
  BY DEF ScoringInv
<1> QED BY <1>1, <1>2, <1>3, PTL DEF ScoringSpec

-----------------------------------------------------------------------------
(* Which decisions have an item                                            *)

\* What is reconciled has none, and a payment's line that is an exception has one.
ItemFits(r) ==
  /\ r.state = "RECONCILED" => r.key = 0
  /\ r.state = "EXCEPTION" /\ Kind(r.obs) = "recon_line" /\ obs[r.obs].type = "payment"
       => r.key # 0

\* No certificate on record is the missing one.
CertificatesIssued == \A k \in DOMAIN certificateOf : certificateOf[k] # NoCertificate

ItemsFit == CertificatesIssued /\ \A n \in DOMAIN posted : ItemFits(posted[n])

\* The table has no row for what is reconciled, and raises at an adjustment.
LEMMA ReconciledHasNoItem ==
  ASSUME NEW i, NEW c, c.state = "RECONCILED", ~Raises(i, c)
  PROVE  SuspenseKeyOf(i, c) = 0
<1>1. TerminalRule(i, c) \in {Silent, Throws}
  BY DEF TerminalRule
<1>2. RulesOf(i, c)[3] = TerminalRule(i, c)
  BY DEF RulesOf
<1>3. TerminalRule(i, c) # Throws
  BY <1>2 DEF Raises, Refused
<1> QED BY <1>1, <1>3 DEF SuspenseKeyOf

\* A payment's line is an exception as E02 only, never as what S5 refused, and E02
\* posts.
LEMMA ExceptedPaymentHasItem ==
  ASSUME CertificatesIssued, NEW m, Kind(m) = "recon_line", obs[m].type = "payment",
         obs[m].entity # 0, Accepted(classifyMember(m)).state = "EXCEPTION"
  PROVE  SuspenseKeyOf(m, Accepted(classifyMember(m))) # 0
<1> DEFINE c == classifyMember(m)
<1>1. m \notin DOMAIN targetOf
  BY LineDecision
<1>2. CertificatesOver(m) = {}
  <2> SUFFICES ASSUME CertificatesOver(m) # {} PROVE FALSE
    OBVIOUS
  <2> DEFINE certificate == CHOOSE certificate \in CertificatesOver(m) : TRUE
  <2>1. c = Abstained("MEMBER", certificate)
    BY <1>1 DEF classifyMember
  <2>2. certificate \in CertificatesOver(m)
    OBVIOUS
  <2> HIDE DEF certificate
  <2>3. certificate # NoCertificate
    BY <2>2 DEF CertificatesOver, CertificatesIssued
  <2>4. Accepted(c).state = "ABSTAINED"
    BY <2>1, <2>3, AbstentionAccepted
  <2> QED BY <2>4
<1>3. c = exceptionFor("E02")
  BY <1>1, <1>2 DEF classifyMember
<1>4. /\ c.state = "EXCEPTION" /\ c.class = "E02" /\ c.members = {} /\ c.amount = NoAmount
      /\ c.tied_to = 0 /\ c.certificate = NoCertificate
  BY <1>3 DEF exceptionFor, Nothing
<1> HIDE DEF c
<1>5. Accepted(c) = c
  BY <1>4, PlainIsValid DEF Accepted
<1>6. TerminalRule(m, c) = ExceptionRule(m, "E02")
  BY <1>4 DEF TerminalRule, SilentKinds
<1>7. ExceptionRule(m, "E02") = "P6"
  BY DEF ExceptionRule, ExceptionRow
<1>8. TerminalRule(m, c) # Silent
  BY <1>6, <1>7 DEF Silent
<1>9. SuspenseKeyOf(m, c) = obs[m].entity
  BY <1>8 DEF SuspenseKeyOf
<1> QED BY <1>5, <1>9 DEF c

LEMMA ItemFitsKept ==
  ASSUME obs' = obs, NEW r, ItemFits(r) PROVE ItemFits(r)'
BY DEF ItemFits, Kind

\* A posting whose decision, if it is of a payment's line and an exception, has an
\* item, and whose certificates are no missing ones.
LEMMA FittingItemKeeps ==
  ASSUME PostedIsSeq, ItemsFit, NEW i, NEW c, NEW certificates, Post(i, c, certificates),
         \A k \in DOMAIN certificates : certificates[k] # NoCertificate,
         Kind(i) = "recon_line" /\ obs[i].type = "payment" /\ Accepted(c).state = "EXCEPTION"
           => SuspenseKeyOf(i, Accepted(c)) # 0
  PROVE  ItemsFit'
<1> DEFINE last == Record(i, Accepted(c))
<1>1. obs' = obs
  BY PostAppends
<1>2. CASE posted' = posted /\ certificateOf' = certificateOf
  <2>1. ASSUME NEW n \in DOMAIN posted PROVE ItemFits(posted[n])'
    <3>1. PICK r : r = posted[n] /\ ItemFits(r)
      BY DEF ItemsFit
    <3>2. ItemFits(r)'
      BY <1>1, <3>1, ItemFitsKept
    <3>3. (r = posted[n])'
      BY <1>2, <3>1
    <3> QED BY <3>2, <3>3
  <2>2. CertificatesIssued'
    BY <1>2 DEF ItemsFit, CertificatesIssued
  <2> QED BY <1>2, <2>1, <2>2 DEF ItemsFit
<1>3. CASE ~Raises(i, Accepted(c)) /\ Appends(last) /\ certificateOf' = certificates
  <2>1. ItemFits(last)
    <3>1. Accepted(c).state = "RECONCILED" => SuspenseKeyOf(i, Accepted(c)) = 0
      BY <1>3, ReconciledHasNoItem
    <3> QED BY <3>1, FieldsOfRecord DEF ItemFits
  <2>2. Appends(last) /\ CertificatesIssued'
    BY <1>3 DEF CertificatesIssued
  <2> HIDE DEF last
  <2>3. ASSUME NEW n \in DOMAIN posted' PROVE ItemFits(posted[n])'
    <3>1. PICK r : r = posted'[n] /\ ItemFits(r)
      BY <2>1, <2>2 DEF ItemsFit, Appends
    <3>2. ItemFits(r)'
      BY <1>1, <3>1, ItemFitsKept
    <3> QED BY <3>1, <3>2
  <2> QED BY <2>2, <2>3 DEF ItemsFit
<1>4. CASE Raises(i, c) \/ Raises(i, Accepted(c))
  BY <1>2, <1>4 DEF Post, Abort
<1>5. CASE ~(Raises(i, c) \/ Raises(i, Accepted(c)))
  <2>1. certificateOf' = certificates /\ posted' # posted
    <3>1. certificateOf' = certificates /\ posted' = Append(posted, last)
      BY <1>5 DEF Post
    <3> HIDE DEF last
    <3>2. posted' # posted
      BY <3>1 DEF PostedIsSeq
    <3> QED BY <3>1, <3>2
  <2> QED BY <1>3, <1>5, <2>1, PostAppends
<1> QED BY <1>4, <1>5

LEMMA NextItemsFit == RunInv /\ ItemsFit /\ [Next]_vars => ItemsFit'
<1> SUFFICES ASSUME RunInv, ItemsFit, [Next]_vars PROVE ItemsFit'
  OBVIOUS
<1>1. PostedIsSeq /\ \A k \in DOMAIN certificateOf : certificateOf[k] # NoCertificate
  BY DEF RunInv, ItemsFit, CertificatesIssued
<1>2. DOMAIN obs \subseteq Nat /\ \A i \in DOMAIN obs : obs[i].entity # 0
  <2>1. \A i \in DOMAIN obs : obs[i].entity \in Nat \ {0}
    BY ObservedIs DEF RunInv, Observations
  <2> QED BY <2>1 DEF RunInv, InputKept
<1>3. CASE PostAnchor
  <2>1. Min(Anchors) \in Anchors
    <3>1. Anchors \subseteq Nat /\ Anchors # {}
      BY <1>2, <1>3, KindsOfPasses DEF PostAnchor, Anchors
    <3> QED BY <3>1, FirstIsIn
  <2>2. PICK i \in Anchors : Post(i, classifyAnchored(i), certificateOf)
    BY <1>3, <2>1 DEF PostAnchor
  <2>3. Kind(i) # "recon_line"
    BY KindsOfPasses DEF Anchors
  <2> QED BY <1>1, <2>2, <2>3, FittingItemKeeps
<1>4. CASE PostTarget
  <2>1. Min(Undecided) \in Undecided
    <3>1. Undecided \subseteq Nat /\ Undecided # {}
      BY <1>2, <1>4, KindsOfPasses DEF PostTarget, Undecided
    <3> QED BY <3>1, FirstIsIn
  <2>2. PICK t \in Undecided : Post(t, classifyTarget(t), Certify(t, classifyTarget(t)))
    BY <1>4, <2>1 DEF PostTarget
  <2>3. Kind(t) # "recon_line"
    BY KindsOfPasses DEF Undecided
  <2> DEFINE certificates == Certify(t, classifyTarget(t))
  <2>4. \A k \in DOMAIN certificates : certificates[k] # NoCertificate
    BY <1>1 DEF Certify
  <2> HIDE DEF certificates
  <2> QED BY <1>1, <2>2, <2>3, <2>4, FittingItemKeeps DEF certificates
<1>5. CASE PostMember
  <2>1. Min(Members) \in Members
    <3>1. Members \subseteq Nat /\ Members # {}
      BY <1>2, <1>5, KindsOfPasses DEF PostMember, Members
    <3> QED BY <3>1, FirstIsIn
  <2>2. PICK m \in Members : Post(m, classifyMember(m), certificateOf)
    BY <1>5, <2>1 DEF PostMember
  <2>3. m \in DOMAIN obs
    BY KindsOfPasses DEF Members
  <2>4. Kind(m) = "recon_line" /\ obs[m].type = "payment"
          /\ Accepted(classifyMember(m)).state = "EXCEPTION"
        => SuspenseKeyOf(m, Accepted(classifyMember(m))) # 0
    BY <1>2, <2>3, ExceptedPaymentHasItem DEF ItemsFit
  <2> QED BY <1>1, <2>2, <2>4, FittingItemKeeps
<1>6. CASE PostRest
  <2>1. Min(Rest) \in Rest
    <3>1. Rest \subseteq Nat /\ Rest # {}
      BY <1>2, <1>6 DEF PostRest, Rest
    <3> QED BY <3>1, FirstIsIn
  <2>2. PICK i \in Rest : Post(i, classifyUnpostable(i), certificateOf)
    BY <1>6, <2>1 DEF PostRest
  <2>3. Members = {}
    BY <1>6 DEF PostRest
  <2>4. Kind(i) # "recon_line"
    BY <2>3, KindsOfPasses DEF Rest, Members
  <2> QED BY <1>1, <2>2, <2>4, FittingItemKeeps
<1>7. CASE Solve \/ Close \/ UNCHANGED vars
  <2>1. UNCHANGED <<obs, posted, certificateOf>>
    BY <1>7 DEF Solve, Close, vars
  <2>2. ASSUME NEW n \in DOMAIN posted PROVE ItemFits(posted[n])'
    <3>1. PICK r : r = posted[n] /\ ItemFits(r)
      BY DEF ItemsFit
    <3>2. ItemFits(r)'
      BY <2>1, <3>1, ItemFitsKept
    <3>3. (r = posted[n])'
      BY <2>1, <3>1
    <3> QED BY <3>2, <3>3
  <2>3. CertificatesIssued'
    BY <2>1 DEF ItemsFit, CertificatesIssued
  <2> QED BY <2>1, <2>2, <2>3 DEF ItemsFit
<1> QED BY <1>3, <1>4, <1>5, <1>6, <1>7 DEF Next, Ended

LEMMA InitItemsFit == Init => ItemsFit
BY DEF Init, ItemsFit, CertificatesIssued

-----------------------------------------------------------------------------
(* What some observations are worth                                        *)

WorthOf(Q) == [i \in DOMAIN obs |-> IF i \in Q THEN valueOf(i) ELSE 0]

Worth(Q) == SumFunctionOnSet(WorthOf(Q), DOMAIN obs)

LEMMA WorthTerms ==
  ASSUME RunInv, NEW Q PROVE \A i \in DOMAIN obs : WorthOf(Q)[i] \in Nat
BY ValuesAre DEF RunInv, WorthOf

\* What is summed over a set of observations.
LEMMA WorthOfSome ==
  ASSUME RunInv, NEW Q \in SUBSET DOMAIN obs
  PROVE  SumFunction([i \in Q |-> valueOf(i)]) = Worth(Q)
<1> DEFINE w == [i \in Q |-> valueOf(i)]
           v == WorthOf(Q)
           p == [i \in Q |-> i]
<1>1. SumFunction(w) = SumFunctionOnSet(w, Q)
  BY DEF SumFunction
<1>2. \A i \in Q : p[i] = i /\ i \in DOMAIN obs /\ v[i] = w[i]
  BY DEF WorthOf
<1>3. \A i \in DOMAIN obs : v[i] \in Int /\ (i \notin Q => v[i] = 0)
  BY WorthTerms DEF WorthOf
<1>4. IsFiniteSet(DOMAIN obs) /\ IsFiniteSet(Q)
  BY ObservedFinite, FS_Subset
<1> HIDE DEF w, v, p
<1>5. \A i \in Q : p[i] \in DOMAIN obs /\ v[p[i]] = w[i]
  BY <1>2
<1>6. \A i, j \in Q : p[i] = p[j] => i = j
  BY <1>2
<1>7. \A i \in DOMAIN obs : v[i] \in Int /\ ((\A j \in Q : p[j] # i) => v[i] = 0)
  BY <1>2, <1>3
<1>8. SumFunctionOnSet(w, Q) = SumFunctionOnSet(v, DOMAIN obs)
  BY <1>4, <1>5, <1>6, <1>7, SumElsewhere
<1> QED BY <1>1, <1>8 DEF w, v, Worth

ObservedBy(N) == {posted[n].obs : n \in N}

\* What is summed over a set of decisions: each is of an observation of its own.
LEMMA WorthOfDecided ==
  ASSUME RunInv, BookInv, NEW N \in SUBSET DOMAIN posted
  PROVE  ValueIn(N) = Worth(ObservedBy(N))
<1> DEFINE Q == ObservedBy(N)
           w == [n \in N |-> valueOf(posted[n].obs)]
           v == WorthOf(Q)
           p == [n \in N |-> posted[n].obs]
<1>1. ValueIn(N) = SumFunctionOnSet(w, N)
  BY DEF ValueIn, SumFunction
<1>2. \A n \in N : p[n] \in DOMAIN obs /\ p[n] \in Q /\ v[p[n]] = w[n]
  BY DEF RunInv, PostedAreObserved, Settled, WorthOf, ObservedBy
<1>3. \A n, k \in N : p[n] = p[k] => n = k
  BY DEF BookInv, PostedOnce
<1>4. \A i \in DOMAIN obs : v[i] \in Int /\ (i \notin Q => v[i] = 0)
  BY WorthTerms DEF WorthOf
<1>5. \A i \in Q : \E n \in N : p[n] = i
  BY DEF ObservedBy
<1>6. IsFiniteSet(DOMAIN obs) /\ IsFiniteSet(N)
  BY ObservedFinite, PostedFinite, FS_Subset
<1> HIDE DEF Q, w, v, p
<1>7. \A i \in DOMAIN obs : v[i] \in Int /\ ((\A n \in N : p[n] # i) => v[i] = 0)
  BY <1>4, <1>5
<1>8. SumFunctionOnSet(w, N) = SumFunctionOnSet(v, DOMAIN obs)
  BY <1>2, <1>3, <1>6, <1>7, SumElsewhere
<1> QED BY <1>1, <1>8 DEF v, Q, Worth

LEMMA WorthIsNat == ASSUME RunInv, NEW Q PROVE Worth(Q) \in Nat
BY WorthTerms, ObservedFinite, SumIsNat DEF Worth

LEMMA WorthGrows ==
  ASSUME RunInv, NEW Q, NEW P, Q \subseteq P PROVE Worth(Q) <= Worth(P)
<1> DEFINE u == WorthOf(Q)
           v == WorthOf(P)
<1>1. \A i \in DOMAIN obs : u[i] \in Nat /\ v[i] \in Nat
  BY WorthTerms
<1>2. \A i \in DOMAIN obs : u[i] <= v[i]
  BY <1>1 DEF WorthOf
<1> HIDE DEF u, v
<1>3. SumFunctionOnSet(u, DOMAIN obs) <= SumFunctionOnSet(v, DOMAIN obs)
  BY <1>1, <1>2, ObservedFinite, SumIsAtMost
<1> QED BY <1>3 DEF u, v, Worth

LEMMA WorthAdds ==
  ASSUME RunInv, NEW Q, NEW P, Q \cap P = {}
  PROVE  Worth(Q \cup P) = Worth(Q) + Worth(P)
<1> DEFINE w == WorthOf(Q)
           u == WorthOf(Q \cup P)
           v == WorthOf(P)
<1>1. \A i \in DOMAIN obs : w[i] \in Nat /\ u[i] \in Nat /\ v[i] \in Nat
  BY WorthTerms
<1>2. \A i \in DOMAIN obs : w[i] = u[i] - v[i]
  BY <1>1 DEF WorthOf
<1> HIDE DEF w, u, v
<1>3. SumFunctionOnSet(w, DOMAIN obs)
        = SumFunctionOnSet(u, DOMAIN obs) - SumFunctionOnSet(v, DOMAIN obs)
  BY <1>1, <1>2, ObservedFinite, SumOfDifferences
<1>4. Worth(Q) = Worth(Q \cup P) - Worth(P)
  BY <1>3 DEF w, u, v, Worth
<1> QED BY <1>4, WorthIsNat

\* References are worth nothing.
LEMMA ReferencesAreFree == ASSUME RunInv, NEW Q \in SUBSET References PROVE Worth(Q) = 0
<1> DEFINE w == WorthOf(Q)
<1>1. \A i \in DOMAIN obs : w[i] = 0
  BY DEF WorthOf, References, OfKind, valueOf
<1> HIDE DEF w
<1> QED BY <1>1, ObservedFinite, SumOfZeros DEF w, Worth

-----------------------------------------------------------------------------
(* Where each paisa of the report is counted                               *)

\* A run that is over, validated by S5 or not.
RunOver == RunInv /\ BookInv /\ ItemInv /\ ItemsFit /\ status = "done"

\* The observations of some kinds decided so.
Decided(state, kinds) == {i \in OfKind(kinds) : stateByObsId(i) = state}

LEMMA SumWhereIs ==
  ASSUME RunInv, NEW states, NEW kinds
  PROVE  sumWhere(states, kinds) = Worth({i \in OfKind(kinds) : stateByObsId(i) \in states})
<1> DEFINE Q == {i \in OfKind(kinds) : stateByObsId(i) \in states}
<1>1. sumWhere(states, kinds) = SumFunction([i \in Q |-> valueOf(i)])
  BY DEF sumWhere
<1>2. Q \in SUBSET DOMAIN obs
  BY DEF OfKind
<1> HIDE DEF Q
<1>3. sumWhere(states, kinds) = Worth(Q)
  BY <1>1, <1>2, WorthOfSome
<1> QED BY <1>3 DEF Q

\* An observation is in the state of its decision, or is a reference and in none.
LEMMA StatesAre ==
  ASSUME RunOver, NEW i \in DOMAIN obs
  PROVE  /\ stateByObsId(i) \in ObservationStates
         /\ i \in Settled =>
              \E n \in DOMAIN posted : /\ posted[n].obs = i /\ posted[n].state = stateByObsId(i)
                                       /\ posted[n].state \in States
         /\ i \notin Settled => i \in References /\ stateByObsId(i) = "REFERENCE"
<1>1. ASSUME i \in Settled
      PROVE  \E n \in DOMAIN posted : /\ posted[n].obs = i /\ posted[n].state = stateByObsId(i)
                                      /\ posted[n].state \in States
  <2>1. PICK n \in DOMAIN posted : posted[n].obs = i
    BY <1>1 DEF Settled
  <2>2. posted[n].state = stateByObsId(i)
    BY <2>1, StateIs DEF RunOver
  <2>3. posted[n].state \in States
    BY DEF RunOver, ItemInv, PostingsFired, DecisionStates, States
  <2> QED BY <2>1, <2>2, <2>3
<1>2. i \notin Settled => i \in References /\ stateByObsId(i) = "REFERENCE"
  BY StateIs DEF RunOver, ItemInv, ClosedOnAll
<1> QED BY <1>1, <1>2 DEF ObservationStates

\* The rows of the report are decided in one of three ways.
LEMMA BatchInThree ==
  ASSUME RunOver
  PROVE  coverageByValue({"recon_line"}).numerator + abstentionRateByValue.numerator
           + ValueIn(ExceptedLines) = GateInput.batch
<1> DEFINE R == OfKind({"recon_line"})
           c == Decided("RECONCILED", {"recon_line"})
           a == Decided("ABSTAINED", {"recon_line"})
           e == Decided("EXCEPTION", {"recon_line"})
<1>1. RunInv /\ BookInv
  BY DEF RunOver
<1>2. /\ coverageByValue({"recon_line"}).numerator = Worth(c)
      /\ abstentionRateByValue.numerator = Worth(a)
  <2>1. /\ coverageByValue({"recon_line"}).numerator = sumWhere({"RECONCILED"}, {"recon_line"})
        /\ abstentionRateByValue.numerator = sumWhere({"ABSTAINED"}, {"recon_line"})
    BY DEF coverageByValue, abstentionRateByValue
  <2>2. /\ c = {i \in R : stateByObsId(i) \in {"RECONCILED"}}
        /\ a = {i \in R : stateByObsId(i) \in {"ABSTAINED"}}
    BY DEF Decided
  <2> HIDE DEF c, a
  <2> QED BY <1>1, <2>1, <2>2, SumWhereIs
<1>3. ObservedBy(ExceptedLines) = e
  <2>1. ASSUME NEW n \in ExceptedLines PROVE posted[n].obs \in e
    <3>1. n \in DOMAIN posted /\ posted[n].state = "EXCEPTION" /\ Kind(posted[n].obs) = "recon_line"
      BY DEF ExceptedLines, OpenExceptions, DecidedAs
    <3>2. posted[n].obs \in DOMAIN obs
      BY <1>1, <3>1 DEF RunInv, PostedAreObserved, Settled
    <3> QED BY <1>1, <3>1, <3>2, StateIs DEF Decided, OfKind
  <2>2. ASSUME NEW i \in e PROVE \E n \in ExceptedLines : posted[n].obs = i
    <3>1. i \in DOMAIN obs /\ Kind(i) = "recon_line" /\ stateByObsId(i) = "EXCEPTION"
      BY DEF Decided, OfKind
    <3>2. i \notin References
      BY <3>1 DEF References, OfKind
    <3>3. PICK n \in DOMAIN posted : posted[n].obs = i /\ posted[n].state = stateByObsId(i)
      BY <3>1, <3>2, StatesAre
    <3> QED BY <3>1, <3>3 DEF ExceptedLines, OpenExceptions, DecidedAs
  <2> QED BY <2>1, <2>2 DEF ObservedBy
<1>4. ValueIn(ExceptedLines) = Worth(e)
  <2>1. ExceptedLines \in SUBSET DOMAIN posted
    BY DEF ExceptedLines, OpenExceptions, DecidedAs
  <2> HIDE DEF e
  <2> QED BY <1>1, <1>3, <2>1, WorthOfDecided
<1>5. GateInput.batch = Worth(R)
  <2>1. R \in SUBSET DOMAIN obs
    BY DEF OfKind
  <2>2. \A i \in R : valueOf(i) = obs[i].amount
    BY DEF valueOf, OfKind
  <2>3. [i \in R |-> obs[i].amount] = [i \in R |-> valueOf(i)]
    BY <2>2
  <2>4. GateInput.batch = SumFunction([i \in R |-> obs[i].amount])
    BY DEF GateInput
  <2> HIDE DEF R
  <2> QED BY <1>1, <2>1, <2>3, <2>4, WorthOfSome
<1>6. R = (c \cup a) \cup e
  <2> SUFFICES ASSUME NEW i \in R
               PROVE  stateByObsId(i) \in {"RECONCILED", "ABSTAINED", "EXCEPTION"}
    BY DEF Decided
  <2>1. i \in DOMAIN obs /\ i \notin References
    BY DEF OfKind, References
  <2> QED BY <2>1, StatesAre DEF States
<1>7. c \cap a = {} /\ (c \cup a) \cap e = {}
  BY DEF Decided
<1> HIDE DEF R, c, a, e
<1>8. Worth(R) = Worth(c \cup a) + Worth(e) /\ Worth(c \cup a) = Worth(c) + Worth(a)
  BY <1>1, <1>6, <1>7, WorthAdds
<1> QED BY <1>2, <1>4, <1>5, <1>8

AllKinds == {Kind(i) : i \in DOMAIN obs}

\* What the coverage of all observations leaves out is what was decided otherwise.
LEMMA LeftOutIsMultiview ==
  ASSUME RunOver
  PROVE  coverageByValue(AllKinds).denominator - coverageByValue(AllKinds).numerator = multiview
<1> DEFINE open == DOMAIN posted \ DecidedAs("RECONCILED")
           c == Decided("RECONCILED", AllKinds)
           o == ObservedBy(open)
           r == DOMAIN obs \ Settled
<1>1. RunInv /\ BookInv
  BY DEF RunOver
<1>2. OfKind(AllKinds) = DOMAIN obs
  BY DEF OfKind, AllKinds
<1>3. coverageByValue(AllKinds).numerator = Worth(c)
  <2>1. coverageByValue(AllKinds).numerator = sumWhere({"RECONCILED"}, AllKinds)
    BY DEF coverageByValue
  <2>2. c = {i \in OfKind(AllKinds) : stateByObsId(i) \in {"RECONCILED"}}
    BY DEF Decided
  <2> HIDE DEF c
  <2> QED BY <1>1, <2>1, <2>2, SumWhereIs
<1>4. coverageByValue(AllKinds).denominator = Worth(DOMAIN obs)
  <2>1. coverageByValue(AllKinds).denominator = sumWhere(ObservationStates, AllKinds)
    BY DEF coverageByValue
  <2>2. DOMAIN obs = {i \in OfKind(AllKinds) : stateByObsId(i) \in ObservationStates}
    BY <1>2, StatesAre
  <2> QED BY <1>1, <2>1, <2>2, SumWhereIs
<1>5. multiview = Worth(o)
  <2>1. multiview = ValueIn(open)
    BY DEF multiview, ValueIn
  <2>2. open \in SUBSET DOMAIN posted
    OBVIOUS
  <2> HIDE DEF open
  <2> QED BY <1>1, <2>1, <2>2, WorthOfDecided
<1>6. Worth(r) = 0
  <2>1. r \in SUBSET References
    BY StatesAre
  <2> HIDE DEF r
  <2> QED BY <1>1, <2>1, ReferencesAreFree
<1>7. ASSUME NEW i \in o PROVE i \in DOMAIN obs /\ i \in Settled /\ stateByObsId(i) # "RECONCILED"
  <2>1. PICK n \in DOMAIN posted : posted[n].obs = i /\ posted[n].state # "RECONCILED"
    BY DEF ObservedBy, DecidedAs
  <2> QED BY <1>1, <2>1, StateIs DEF RunInv, PostedAreObserved, Settled
<1>8. ASSUME NEW i \in DOMAIN obs, i \in Settled, i \notin c PROVE i \in o
  <2>1. PICK n \in DOMAIN posted : posted[n].obs = i /\ posted[n].state = stateByObsId(i)
    BY <1>8, StatesAre
  <2>2. stateByObsId(i) # "RECONCILED"
    BY <1>2, <1>8 DEF Decided
  <2> QED BY <2>1, <2>2 DEF ObservedBy, DecidedAs
<1>9. \A i \in r : stateByObsId(i) = "REFERENCE"
  BY StatesAre
<1>10. \A i \in c : i \in DOMAIN obs /\ stateByObsId(i) = "RECONCILED"
  BY <1>2 DEF Decided
<1>11. DOMAIN obs = (c \cup o) \cup r /\ c \cap o = {} /\ (c \cup o) \cap r = {}
  <2>1. \A i \in r : i \in DOMAIN obs /\ i \notin Settled
    OBVIOUS
  <2>2. \A i \in DOMAIN obs : i \notin Settled => i \in r
    OBVIOUS
  <2> HIDE DEF c, o, r
  <2> QED BY <1>7, <1>8, <1>9, <1>10, <2>1, <2>2
<1> HIDE DEF c, o, r
<1>12. Worth(DOMAIN obs) = Worth(c \cup o) + Worth(r) /\ Worth(c \cup o) = Worth(c) + Worth(o)
  BY <1>1, <1>11, WorthAdds
<1>13. Worth(c) \in Nat /\ Worth(o) \in Nat
  BY <1>1, WorthIsNat
<1> QED BY <1>3, <1>4, <1>5, <1>6, <1>12, <1>13

\* What the close weighs lies between the payments left as exceptions and all that is
\* not reconciled.
LEMMA WeighedIsLeftOut ==
  ASSUME RunOver
  PROVE  ValueIn(ExceptedPayments) <= Unresolved(GateInput) /\ Unresolved(GateInput) <= multiview
<1> DEFINE open == DOMAIN posted \ DecidedAs("RECONCILED")
<1>1. RunInv /\ BookInv
  BY DEF RunOver
<1>2. Unresolved(GateInput) = ValueIn(Open)
  <2> DEFINE queue == GateInput.queue
  <2>1. DOMAIN queue = Open /\ \A n \in Open : queue[n].value = valueOf(posted[n].obs)
    BY DEF GateInput
  <2>2. Unresolved(GateInput) = SumFunction([n \in DOMAIN queue |-> queue[n].value])
    BY DEF Unresolved, Total
  <2> HIDE DEF queue
  <2>3. [n \in DOMAIN queue |-> queue[n].value] = [n \in Open |-> valueOf(posted[n].obs)]
    BY <2>1
  <2> QED BY <2>2, <2>3 DEF ValueIn
<1>3. multiview = ValueIn(open)
  BY DEF multiview, ValueIn
<1>4. ExceptedPayments \subseteq Open /\ Open \subseteq open /\ open \subseteq DOMAIN posted
  BY DEF RunOver, ItemsFit, ItemFits, ExceptedPayments, ExceptedLines, OpenExceptions, DecidedAs, Open
<1> HIDE DEF open
<1>5. /\ ObservedBy(ExceptedPayments) \subseteq ObservedBy(Open)
      /\ ObservedBy(Open) \subseteq ObservedBy(open)
  BY <1>4 DEF ObservedBy
<1>6. /\ ValueIn(ExceptedPayments) = Worth(ObservedBy(ExceptedPayments))
      /\ ValueIn(Open) = Worth(ObservedBy(Open))
      /\ ValueIn(open) = Worth(ObservedBy(open))
  BY <1>1, <1>4, WorthOfDecided
<1> QED BY <1>1, <1>2, <1>3, <1>5, <1>6, WorthGrows

\* What the property looks at is the same as long as the run is.
LEMMA AccountsKept ==
  ASSUME UNCHANGED vars
  PROVE  /\ GateInput' = GateInput /\ multiview' = multiview
         /\ ValueIn(ExceptedLines)' = ValueIn(ExceptedLines)
         /\ ValueIn(ExceptedPayments)' = ValueIn(ExceptedPayments)
         /\ Unresolved(GateInput)' = Unresolved(GateInput)
<1>1. obs' = obs /\ posted' = posted
  BY DEF vars
<1>2. \A i : Kind(i)' = Kind(i)
  BY <1>1, KindsKept
<1>3. \A i : valueOf(i)' = valueOf(i)
  BY <1>1, <1>2 DEF valueOf, AdjustmentM
<1>4. DecidedAs("RECONCILED")' = DecidedAs("RECONCILED") /\ DecidedAs("EXCEPTION")' = DecidedAs("EXCEPTION")
  BY <1>1 DEF DecidedAs
<1>5. multiview' = multiview
  BY <1>1, <1>3, <1>4 DEF multiview
<1>6. ExceptedLines' = ExceptedLines
  BY <1>1, <1>2, <1>4 DEF ExceptedLines, OpenExceptions
<1>7. ExceptedPayments' = ExceptedPayments
  BY <1>1, <1>6 DEF ExceptedPayments
<1>8. ValueIn(ExceptedLines)' = ValueIn(ExceptedLines)
  BY <1>1, <1>3, <1>6 DEF ValueIn
<1>9. ValueIn(ExceptedPayments)' = ValueIn(ExceptedPayments)
  BY <1>1, <1>3, <1>7 DEF ValueIn
<1>10. GateInput' = GateInput
  BY <1>1, GateInputKept
<1>11. Unresolved(GateInput)' = Unresolved(GateInput)
  BY <1>10 DEF Unresolved, Total
<1> QED BY <1>5, <1>8, <1>9, <1>10, <1>11

AccountInv == RunInv /\ BookInv /\ ItemInv /\ ItemsFit /\ ScoredWhenDone /\ BatchIsAccountedFor

\* Every paisa of the report is in one population: in every run of every input, whatever
\* S4 answered and whether S5 validated or not, what the map of the outcomes, the
\* decisions, the rows and the queue each sum to fits together.
THEOREM BatchStaysAccountedFor == ScoringSpec => []BatchIsAccountedFor
<1>1. ScoringInit => AccountInv
  BY InitRunInv, InitBookInv, InitItemInv, InitItemsFit
     DEF ScoringInit, AccountInv, ScoredWhenDone, BatchIsAccountedFor
<1>2. AccountInv /\ [ScoringNext]_scoringVars => AccountInv'
  <2> SUFFICES ASSUME AccountInv, [ScoringNext]_scoringVars PROVE AccountInv'
    OBVIOUS
  <2>1. [Next]_vars
    BY DEF ScoringNext, scoringVars, RunStep, Next, ReadTruth, Score, ScoringEnded
  <2>2. RunInv' /\ BookInv' /\ ItemInv' /\ ItemsFit'
    BY <2>1, NextRunInv, NextBookInv, NextItemInv, NextItemsFit DEF AccountInv
  <2>3. CASE RunStep
    <3>1. truth = NoTruth /\ score = <<>>
      BY <2>3 DEF RunStep, Solve, PostAnchor, PostTarget, PostMember, PostRest, Close,
                  AccountInv, ScoredWhenDone
    <3> QED BY <2>2, <2>3, <3>1 DEF RunStep, AccountInv, ScoredWhenDone, BatchIsAccountedFor
  <2>4. CASE ReadTruth
    <3>1. score = <<>> /\ score' = <<>> /\ status' = "done"
      BY <2>4 DEF ReadTruth, vars, AccountInv, ScoredWhenDone
    <3> QED BY <2>2, <3>1 DEF AccountInv, ScoredWhenDone, BatchIsAccountedFor
  <2>5. CASE Score
    <3>1. /\ status = "done" /\ status' = "done" /\ truth' = truth /\ truth # NoTruth
          /\ score' = BaseMetrics /\ UNCHANGED vars
      BY <2>5 DEF Score, vars, AccountInv, ScoredWhenDone
    <3>2. RunOver
      BY <3>1 DEF AccountInv, RunOver
    <3>3. /\ score'.coverage.by_value = coverageByValue({"recon_line"})
          /\ score'.coverage.all_observations = coverageByValue(AllKinds)
          /\ score'.abstention_rate = abstentionRateByValue
      BY <3>1 DEF BaseMetrics, coverage, AllKinds
    <3>4. BatchIsAccountedFor'
      BY <3>1, <3>2, <3>3, AccountsKept, BatchInThree, LeftOutIsMultiview, WeighedIsLeftOut
         DEF BatchIsAccountedFor
    <3> QED BY <2>2, <3>1, <3>4 DEF AccountInv, ScoredWhenDone
  <2>6. CASE UNCHANGED scoringVars
    <3>1. UNCHANGED vars /\ truth' = truth /\ score' = score /\ status' = status
      BY <2>6 DEF scoringVars, vars
    <3>2. BatchIsAccountedFor'
      BY <3>1, AccountsKept DEF AccountInv, BatchIsAccountedFor
    <3> QED BY <2>2, <3>1, <3>2 DEF AccountInv, ScoredWhenDone
  <2> QED BY <2>3, <2>4, <2>5, <2>6 DEF ScoringNext, ScoringEnded
<1>3. AccountInv => BatchIsAccountedFor
  BY DEF AccountInv
<1> QED BY <1>1, <1>2, <1>3, PTL DEF ScoringSpec
=============================================================================
