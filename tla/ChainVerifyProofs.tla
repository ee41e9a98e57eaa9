------------------------- MODULE ChainVerifyProofs -------------------------
(***************************************************************************)
(* For any payloads, any number of events and any damage: a chain whose    *)
(* genesis_to_root check passes against the published root books what was  *)
(* sealed; and where one record was damaged, the verdict names it alone.   *)
(*                                                                         *)
(* A digest stands for the bodies hashed into it, so the sealed root holds *)
(* the sealed content; what is proved of the records read back is that     *)
(* with every link and digest in place their root holds theirs -- index by *)
(* index, by the least one that would not.  The records may be anything of *)
(* their type: the damage is kept to it, and to this, that a record that   *)
(* can be read has a legible digest.                                       *)
(*                                                                         *)
(* That no other record is named needs the sealed chain's own shape and    *)
(* the running totals: sums of ones but for the one edited debit, counted  *)
(* by a set that would be the smallest to have another sum.                *)
(***************************************************************************)
EXTENDS ChainVerify, TLAPS, FiniteSetTheorems, SequenceTheorems, WellFoundedInduction

\* No damage touches a credit.
Bodies == [seq : Nat, payload : Payloads, dr : Nat, cr : {1}]
Records == [intact : BOOLEAN, legible : BOOLEAN, evt : EvtIds, run : Runs, body : Bodies,
            prev : Seq(Bodies), hash : Seq(Bodies)]

TypeOK ==
  /\ sealed \in Seq(Records)
  /\ records \in Seq(Records)
  /\ damage \in Nat

\* The digest at i holds the content up to i.
Holds(events, i) ==
  Len(events[i].hash) = i /\ \A j \in 1..i : events[i].hash[j] = events[j].body

SealedHolds == \A i \in DOMAIN sealed : Holds(sealed, i)

ReadableIsLegible == \A i \in DOMAIN records : records[i].intact => records[i].legible

\* Before any damage the records are the sealed ones, each readable.
Pristine == damage = 0 => records = sealed

IInv == TypeOK /\ SealedHolds /\ ReadableIsLegible /\ Pristine

-----------------------------------------------------------------------------
(* First, last and the like                                                *)

\* The least of a set of naturals is one of them, and least.
LEMMA FirstIsIn ==
  ASSUME NEW S, S \subseteq Nat, S # {}
  PROVE  \E x \in S : \A y \in S : x <= y
<1> DEFINE before == {p \in Nat \X Nat : p[1] < p[2]}
<1>1. IsWellFoundedOn(before, Nat)
  BY NatLessThanWellFounded DEF OpToRel
<1> HIDE DEF before
<1>2. PICK x \in S : \A y \in S : ~ (<<y, x>> \in before)
  BY <1>1, WFMin, Zenon
<1>3. ASSUME NEW y \in S PROVE x <= y
  <2>1. x \in Nat /\ y \in Nat /\ <<y, x>> \notin before
    BY <1>2
  <2> QED BY <2>1 DEF before
<1> QED BY <1>3

\* The greatest of a bounded set of indices is one of them.
LEMMA MaxIsIn ==
  ASSUME NEW n \in Nat, NEW S, S \subseteq 1..n, S # {}
  PROVE  Max(S) \in S
<1> DEFINE far == {d \in Nat : \E x \in S : d = n - x}
<1>1. far \subseteq Nat /\ far # {}
  <2>1. PICK x \in S : TRUE
    OBVIOUS
  <2>2. n - x \in Nat
    BY <2>1
  <2> QED BY <2>1, <2>2
<1>2. PICK d \in far : \A e \in far : d <= e
  BY <1>1, FirstIsIn
<1>3. PICK x \in S : d = n - x
  OBVIOUS
<1>4. ASSUME NEW y \in S PROVE x >= y
  <2>1. x \in 1..n /\ y \in 1..n
    BY <1>3
  <2>2. n - y \in far
    BY <2>1
  <2>3. d <= n - y
    BY <1>2, <2>2
  <2> QED BY <1>3, <2>1, <2>3
<1> QED BY <1>4 DEF Max

LEMMA MaxOfRange ==
  ASSUME NEW n \in Nat \ {0}
  PROVE  Max(1..n) = n
<1>1. n \in 1..n /\ \A y \in 1..n : n >= y
  OBVIOUS
<1>2. \A x \in 1..n : (\A y \in 1..n : x >= y) => x = n
  OBVIOUS
<1> QED BY <1>1, <1>2 DEF Max

-----------------------------------------------------------------------------
(* The check                                                               *)

\* The link a record must carry is a digest that is stored.
LEMMA ExpectedPrevType ==
  ASSUME records \in Seq(Records), NEW i \in 1..(Len(records) + 1)
  PROVE  ExpectedPrev(i) \in Seq(Bodies)
<1> DEFINE carried == {j \in 1..(i - 1) : records[j].legible}
<1>1. CASE carried = {}
  BY <1>1 DEF ExpectedPrev, Genesis
<1>2. CASE carried # {}
  <2>1. i - 1 \in Nat /\ carried \subseteq 1..(i - 1)
    OBVIOUS
  <2>2. carried \subseteq DOMAIN records
    OBVIOUS
  <2>3. ExpectedPrev(i) = records[Max(carried)].hash
    BY <1>2 DEF ExpectedPrev
  <2> HIDE DEF carried
  <2>4. Max(carried) \in carried
    BY <1>2, <2>1, MaxIsIn
  <2>5. records[Max(carried)] \in Records
    BY <2>2, <2>4
  <2> QED BY <2>3, <2>5 DEF Records
<1> QED BY <1>1, <1>2

\* With every record before i legible, it is the digest of the one before.
LEMMA ExpectedPrevIsLast ==
  ASSUME NEW i \in Nat \ {0}, \A j \in 1..(i - 1) : records[j].legible
  PROVE  ExpectedPrev(i) = IF i = 1 THEN <<>> ELSE records[i - 1].hash
<1>1. {j \in 1..(i - 1) : records[j].legible} = 1..(i - 1)
  OBVIOUS
<1>2. CASE i = 1
  BY <1>1, <1>2 DEF ExpectedPrev, Genesis
<1>3. CASE i # 1
  <2>1. 1..(i - 1) # {} /\ Max(1..(i - 1)) = i - 1
    BY <1>3, MaxOfRange
  <2> QED BY <1>1, <1>3, <2>1 DEF ExpectedPrev
<1> QED BY <1>2, <1>3

\* What a passed genesis_to_root check says of each record and of the root.
LEMMA PassedChecks ==
  ASSUME GenesisToRoot
  PROVE  /\ \A i \in DOMAIN records : /\ records[i].intact
                                      /\ records[i].prev = ExpectedPrev(i)
                                      /\ records[i].hash = Hash(records[i].body, records[i].prev)
         /\ RecomputedRoot = RootOf(sealed)
<1> DEFINE all == Failures(RootOf(sealed))
<1>1. \A f \in all : f.check = "TRIAL_BALANCE"
  BY DEF GenesisToRoot
<1>2. \A i \in DOMAIN records : RecordFailures(i) \subseteq all
  BY DEF Failures
<1>3. ASSUME RecomputedRoot # RootOf(sealed) PROVE FALSE
  <2>1. Failure(0, "ROOT_HASH") \in all
    <3> DEFINE rest == UNION {RecordFailures(i) : i \in DOMAIN records}
    <3>1. all = rest \cup (IF RecomputedRoot # RootOf(sealed)
                           THEN {Failure(0, "ROOT_HASH")} ELSE {})
      BY DEF Failures
    <3> HIDE DEF rest, all
    <3> QED BY <1>3, <3>1
  <2>2. Failure(0, "ROOT_HASH").check = "ROOT_HASH"
    BY DEF Failure
  <2> HIDE DEF all
  <2> QED BY <1>1, <2>1, <2>2
<1> HIDE DEF all
<1>4. ASSUME NEW i \in DOMAIN records PROVE records[i].intact
  <2> SUFFICES ASSUME ~records[i].intact PROVE FALSE
    OBVIOUS
  <2>1. Failure(i, "STRUCTURE") \in RecordFailures(i)
    BY DEF RecordFailures, Readable
  <2>2. Failure(i, "STRUCTURE").check = "STRUCTURE"
    BY DEF Failure
  <2> QED BY <1>1, <1>2, <2>1, <2>2
<1>5. ASSUME NEW i \in DOMAIN records, NEW c \in RecordChecks \ {"TRIAL_BALANCE"}
      PROVE  Passes(i, c)
  <2> SUFFICES ASSUME ~Passes(i, c) PROVE FALSE
    OBVIOUS
  <2>1. Failure(i, c) \in RecordFailures(i)
    BY <1>4 DEF RecordFailures, Readable
  <2>2. Failure(i, c).check = c
    BY DEF Failure
  <2> QED BY <1>1, <1>2, <2>1, <2>2
<1>6. ASSUME NEW i \in DOMAIN records
      PROVE  /\ records[i].prev = ExpectedPrev(i)
             /\ records[i].hash = Hash(records[i].body, records[i].prev)
  <2>1. Passes(i, "PREV_HASH") /\ Passes(i, "EVENT_HASH")
    BY <1>5 DEF RecordChecks
  <2> QED BY <2>1 DEF Passes, DigestHolds
<1> QED BY <1>3, <1>4, <1>6

\* With its link and digest in place a record's digest holds the content up to it,
\* if the one before it does.
LEMMA DigestHoldsContent ==
  ASSUME records \in Seq(Records), ReadableIsLegible, GenesisToRoot
  PROVE  \A i \in DOMAIN records : Holds(records, i)
<1>1. ASSUME NEW i \in DOMAIN records
      PROVE  /\ records[i] \in Records /\ i \in Nat \ {0}
             /\ records[i].hash = Append(records[i].prev, records[i].body)
             /\ records[i].prev = IF i = 1 THEN <<>> ELSE records[i - 1].hash
  <2>1. i \in Nat \ {0} /\ \A j \in 1..(i - 1) : j \in DOMAIN records
    OBVIOUS
  <2>2. \A j \in 1..(i - 1) : records[j].legible
    BY <2>1, PassedChecks DEF ReadableIsLegible
  <2> QED BY <2>1, <2>2, PassedChecks, ExpectedPrevIsLast DEF Hash
<1> DEFINE bad == {i \in DOMAIN records : ~Holds(records, i)}
<1> SUFFICES ASSUME bad # {} PROVE FALSE
  OBVIOUS
<1>2. PICK i \in bad : \A j \in bad : i <= j
  <2>1. bad \subseteq Nat
    OBVIOUS
  <2> HIDE DEF bad
  <2> QED BY <2>1, FirstIsIn
<1>3. i \in DOMAIN records /\ ~Holds(records, i)
  OBVIOUS
<1>4. /\ records[i].prev \in Seq(Bodies) /\ records[i].body \in Bodies
      /\ records[i].hash = Append(records[i].prev, records[i].body)
  BY <1>1, <1>3 DEF Records
<1>5. CASE i = 1
  <2>1. records[i].prev = <<>>
    BY <1>1, <1>3, <1>5
  <2>2. Len(records[i].hash) = 1 /\ records[i].hash[1] = records[i].body
    BY <1>4, <2>1
  <2> QED BY <1>3, <1>5, <2>2 DEF Holds
<1>6. CASE i # 1
  <2>1. i - 1 \in DOMAIN records /\ i - 1 \notin bad
    BY <1>2, <1>3, <1>6
  <2>2. Holds(records, i - 1)
    BY <2>1
  <2>3. records[i].prev = records[i - 1].hash
    BY <1>1, <1>3, <1>6
  <2>4. Len(records[i].prev) = i - 1
        /\ \A j \in 1..(i - 1) : records[i].prev[j] = records[j].body
    BY <2>2, <2>3 DEF Holds
  <2>5. Len(records[i].hash) = i /\ records[i].hash[i] = records[i].body
        /\ \A j \in 1..(i - 1) : records[i].hash[j] = records[i].prev[j]
    BY <1>3, <1>4, <2>4
  <2>6. \A j \in 1..i : j = i \/ j \in 1..(i - 1)
    BY <1>3
  <2> QED BY <1>3, <2>4, <2>5, <2>6 DEF Holds
<1> QED BY <1>5, <1>6

LEMMA PassedIsSealed ==
  ASSUME IInv, GenesisToRoot
  PROVE  /\ Content(records) = Content(sealed)
         /\ \A i \in DOMAIN records : records[i].intact
<1>1. records \in Seq(Records) /\ sealed \in Seq(Records)
  BY DEF IInv, TypeOK
<1>2. \A i \in DOMAIN records : Holds(records, i)
  BY <1>1, DigestHoldsContent DEF IInv
<1>3. \A i \in DOMAIN records : records[i].intact
  BY PassedChecks
<1> DEFINE n == Len(records)
           m == Len(sealed)
<1>4. n \in Nat /\ m \in Nat /\ DOMAIN records = 1..n /\ DOMAIN sealed = 1..m
  BY <1>1
<1>5. RecomputedRoot = IF n = 0 THEN <<>> ELSE records[n].hash
  <2>1. \A j \in 1..n : records[j].legible
    BY <1>3, <1>4 DEF IInv, ReadableIsLegible
  <2>2. n + 1 \in Nat \ {0} /\ (n + 1) - 1 = n
    BY <1>4
  <2>3. ExpectedPrev(n + 1) = IF n + 1 = 1 THEN <<>> ELSE records[(n + 1) - 1].hash
    BY <2>1, <2>2, ExpectedPrevIsLast
  <2> QED BY <1>4, <2>2, <2>3 DEF RecomputedRoot
<1>6. RootOf(sealed) = IF m = 0 THEN <<>> ELSE sealed[m].hash
  BY <1>1 DEF RootOf, Genesis, Last
<1>7. RecomputedRoot = RootOf(sealed)
  BY PassedChecks
<1>8. /\ n # 0 => Len(records[n].hash) = n /\ \A j \in 1..n : records[n].hash[j] = records[j].body
      /\ m # 0 => Len(sealed[m].hash) = m /\ \A j \in 1..m : sealed[m].hash[j] = sealed[j].body
  BY <1>2, <1>4 DEF IInv, SealedHolds, Holds
<1>9. n = m
  <2>1. Len(RecomputedRoot) = n
    <3>1. CASE n = 0
      BY <1>5, <3>1
    <3>2. CASE n # 0
      BY <1>5, <1>8, <3>2
    <3> QED BY <3>1, <3>2
  <2>2. Len(RootOf(sealed)) = m
    <3>1. CASE m = 0
      BY <1>6, <3>1
    <3>2. CASE m # 0
      BY <1>6, <1>8, <3>2
    <3> QED BY <3>1, <3>2
  <2> QED BY <1>7, <2>1, <2>2
<1>10. \A j \in 1..n : records[j].body = sealed[j].body
  BY <1>4, <1>5, <1>6, <1>7, <1>8, <1>9
<1>11. Content(records) = Content(sealed)
  BY <1>4, <1>9, <1>10 DEF Content
<1> QED BY <1>3, <1>11

-----------------------------------------------------------------------------
(* Sums over a finite set                                                  *)

LEMMA SmallestSubset ==
  ASSUME NEW D, IsFiniteSet(D), NEW F, F \subseteq SUBSET D, F # {}
  PROVE  \E T \in F : \A S \in F : S \subseteq T => S = T
<1>1. IsWellFoundedOn(StrictSubsetOrdering(D), SUBSET D)
  BY FS_StrictSubsetOrderingWellFounded, FS_FiniteSubsetsOfFinite
<1>2. PICK T \in F : \A S \in F : ~ (<<S, T>> \in StrictSubsetOrdering(D))
  BY <1>1, WFMin
<1> QED BY <1>2 DEF StrictSubsetOrdering

\* The index a sum takes first out of a set, what it leaves, and the equation that
\* the function behind the sum solves.
First(s) == CHOOSE x \in s : TRUE
Rest(s) == s \ {First(s)}
Adds(w, f, S) == f = [s \in SUBSET S |-> IF s = {} THEN 0 ELSE w[First(s)] + f[Rest(s)]]

LEMMA SumChooses == \A w, S : SumFunctionOnSet(w, S) = (CHOOSE f : Adds(w, f, S))[S]
BY DEF SumFunctionOnSet, FoldFunctionOnSet, MapThenFoldSet, Adds, First, Rest

LEMMA RestIsLess == \A s : s # {} => First(s) \in s /\ Rest(s) \subseteq s /\ Rest(s) # s
BY DEF First, Rest

LEMMA AddsOnce ==
  ASSUME NEW w, NEW S, IsFiniteSet(S), NEW f, NEW g, Adds(w, f, S), Adds(w, g, S)
  PROVE  f = g
<1> DEFINE F == {s \in SUBSET S : f[s] # g[s]}
<1>1. SUFFICES F = {}
  BY DEF Adds
<1>2. SUFFICES ASSUME F # {} PROVE FALSE
  OBVIOUS
<1>3. PICK T \in F : \A s \in F : s \subseteq T => s = T
  <2>1. F \subseteq SUBSET S
    OBVIOUS
  <2> HIDE DEF F
  <2> QED BY <1>2, <2>1, SmallestSubset
<1>4. T # {}
  BY <1>3 DEF Adds
<1>5. Rest(T) \subseteq T /\ Rest(T) # T /\ Rest(T) \in SUBSET S
  BY <1>3, <1>4, RestIsLess
<1>6. f[Rest(T)] = g[Rest(T)]
  BY <1>3, <1>5
<1>7. f[T] = w[First(T)] + f[Rest(T)] /\ g[T] = w[First(T)] + g[Rest(T)]
  BY <1>3, <1>4 DEF Adds
<1> QED BY <1>3, <1>6, <1>7

\* A sum is its first term and the sum over the rest.
Unfolds(w, S) ==
  SumFunctionOnSet(w, S) = IF S = {} THEN 0 ELSE w[First(S)] + SumFunctionOnSet(w, Rest(S))

LEMMA SumUnfolds ==
  ASSUME NEW w, NEW D, IsFiniteSet(D)
  PROVE  Unfolds(w, D)
<1> DEFINE F == {s \in SUBSET D : ~Unfolds(w, s)}
<1>1. SUFFICES ASSUME F # {} PROVE FALSE
  OBVIOUS
<1>2. PICK T \in F : \A s \in F : s \subseteq T => s = T
  <2>1. F \subseteq SUBSET D
    OBVIOUS
  <2> HIDE DEF F
  <2> QED BY <1>1, <2>1, SmallestSubset
<1>3. \A s \in SUBSET T : s # T => Unfolds(w, s)
  BY <1>2
<1> DEFINE sum(s) == SumFunctionOnSet(w, s)
           f == [s \in SUBSET T |-> IF s = {} THEN 0 ELSE w[First(s)] + sum(Rest(s))]
<1>4. \A s \in SUBSET T : s # T => f[s] = sum(s)
  BY <1>3 DEF Unfolds
<1>5. \A s \in SUBSET T : s # {} => Rest(s) \in SUBSET T /\ Rest(s) # T
  BY RestIsLess
<1>6. Adds(w, f, T)
  <2>1. \A s \in SUBSET T : s # {} => sum(Rest(s)) = f[Rest(s)]
    BY <1>4, <1>5
  <2>2. f = [s \in SUBSET T |-> IF s = {} THEN 0 ELSE w[First(s)] + f[Rest(s)]]
    BY <2>1, Zenon
  <2> QED BY <2>2 DEF Adds
<1> HIDE DEF f
<1>7. (CHOOSE h : Adds(w, h, T)) = f
  <2>1. Adds(w, (CHOOSE h : Adds(w, h, T)), T)
    BY <1>6
  <2>2. IsFiniteSet(T)
    BY <1>2, FS_Subset
  <2> QED BY <1>6, <2>1, <2>2, AddsOnce
<1>8. sum(T) = f[T]
  BY <1>7, SumChooses
<1>9. Unfolds(w, T)
  BY <1>8 DEF Unfolds, f
<1> QED BY <1>2, <1>9

\* The sum of ones, but for a number at one index, counts them but for that index.
LEMMA SumOfOnes ==
  ASSUME NEW D, IsFiniteSet(D), NEW w, NEW i, NEW a \in Nat,
         \A x \in D : w[x] = IF x = i THEN a ELSE 1
  PROVE  SumFunctionOnSet(w, D) = IF i \in D THEN Cardinality(D) - 1 + a ELSE Cardinality(D)
<1> DEFINE counts(S) == IF i \in S THEN Cardinality(S) - 1 + a ELSE Cardinality(S)
           F == {S \in SUBSET D : SumFunctionOnSet(w, S) # counts(S)}
<1>1. SUFFICES ASSUME F # {} PROVE FALSE
  OBVIOUS
<1>2. PICK T \in F : \A S \in F : S \subseteq T => S = T
  <2>1. F \subseteq SUBSET D
    OBVIOUS
  <2> HIDE DEF F
  <2> QED BY <1>1, <2>1, SmallestSubset
<1>3. T \in SUBSET D /\ SumFunctionOnSet(w, T) # counts(T) /\ IsFiniteSet(T)
  BY <1>2, FS_Subset
<1>4. Unfolds(w, T)
  BY <1>3, SumUnfolds
<1>5. T # {}
  <2>1. Cardinality({}) = 0
    BY FS_EmptySet
  <2> QED BY <1>3, <1>4, <2>1 DEF Unfolds
<1> DEFINE x == First(T)
           rest == Rest(T)
<1>6. x \in T /\ rest = T \ {x} /\ rest \in SUBSET D /\ rest # T
  BY <1>3, <1>5, RestIsLess DEF Rest
<1>7. SumFunctionOnSet(w, rest) = counts(rest)
  BY <1>2, <1>6
<1>8. SumFunctionOnSet(w, T) = w[x] + counts(rest)
  BY <1>4, <1>5, <1>7 DEF Unfolds
<1>9. Cardinality(rest) = Cardinality(T) - 1 /\ Cardinality(T) \in Nat
  BY <1>3, <1>6, FS_RemoveElement, FS_CardinalityType
<1>10. w[x] = IF x = i THEN a ELSE 1
  BY <1>3, <1>6
<1> HIDE DEF x, rest
<1>11. i \in rest <=> i \in T /\ i # x
  BY <1>6
<1> QED BY <1>3, <1>6, <1>8, <1>9, <1>10, <1>11

-----------------------------------------------------------------------------
(* One fault, told where it is                                             *)

\* The chain as sealed: an intact record each, of one run, under an id of its own.
SealedShape ==
  /\ Len(sealed) <= SafeMax
  /\ \A i \in DOMAIN sealed :
       LET e == sealed[i]
       IN  /\ e.intact /\ e.legible /\ e.run = sealed[1].run
           /\ e.body.seq = i - 1 /\ e.body.dr = 1
           /\ e.prev = IF i = 1 THEN <<>> ELSE sealed[i - 1].hash
           /\ e.hash = Append(e.prev, e.body)
           /\ \A j \in DOMAIN sealed \ {i} : sealed[j].evt # e.evt

FaultInv == IInv /\ SealedShape

\* At most what a record says of itself differs from what was sealed.
InPlace ==
  /\ DOMAIN records = DOMAIN sealed
  /\ \A j \in DOMAIN sealed :
       /\ records[j].legible
       /\ records[j].evt = sealed[j].evt /\ records[j].run = sealed[j].run
       /\ records[j].prev = sealed[j].prev /\ records[j].hash = sealed[j].hash

LEMMA LinksHold ==
  ASSUME FaultInv, InPlace
  PROVE  /\ \A k \in DOMAIN records :
              Passes(k, "RUN_ID") /\ Passes(k, "EVENT_ID_UNIQUE") /\ Passes(k, "PREV_HASH")
         /\ RecomputedRoot = RootOf(sealed)
<1> DEFINE n == Len(sealed)
<1>1. n \in Nat /\ DOMAIN sealed = 1..n /\ DOMAIN records = 1..n /\ Len(records) = n
  BY DEF FaultInv, IInv, TypeOK, InPlace
<1>2. ASSUME NEW k \in 1..(n + 1)
      PROVE  ExpectedPrev(k) = IF k = 1 THEN <<>> ELSE sealed[k - 1].hash
  <2>1. k \in Nat \ {0} /\ \A j \in 1..(k - 1) : j \in 1..n
    BY <1>1
  <2>2. ExpectedPrev(k) = IF k = 1 THEN <<>> ELSE records[k - 1].hash
    BY <1>1, <2>1, ExpectedPrevIsLast DEF InPlace
  <2>3. k # 1 => k - 1 \in 1..n
    BY <1>1
  <2> QED BY <1>1, <2>2, <2>3 DEF InPlace
<1>3. ASSUME NEW k \in DOMAIN records
      PROVE  Passes(k, "RUN_ID") /\ Passes(k, "EVENT_ID_UNIQUE") /\ Passes(k, "PREV_HASH")
  <2> DEFINE earlier == ReadableBefore(k)
  <2>1. k \in 1..n /\ k \in 1..(n + 1) /\ earlier \subseteq 1..n /\ k \notin earlier
    BY <1>1 DEF ReadableBefore
  <2> HIDE DEF earlier
  <2>2. earlier = {} \/ Min(earlier) \in 1..n
    <3>1. SUFFICES ASSUME earlier # {} PROVE Min(earlier) \in earlier
      BY <2>1
    <3>2. earlier \subseteq Nat
      BY <2>1
    <3>3. \E x \in earlier : \A y \in earlier : x <= y
      BY <3>1, <3>2, FirstIsIn
    <3> QED BY <3>3 DEF Min
  <2>3. \A j \in 1..n : records[j].run = sealed[1].run
    BY <1>1 DEF InPlace, FaultInv, SealedShape
  <2>4. Passes(k, "RUN_ID")
    BY <2>1, <2>2, <2>3 DEF Passes, earlier
  <2>5. \A j \in earlier : records[j].evt # records[k].evt
    BY <1>1, <2>1 DEF InPlace, FaultInv, SealedShape
  <2>6. Passes(k, "EVENT_ID_UNIQUE")
    BY <2>5 DEF Passes, earlier
  <2>7. records[k].prev = ExpectedPrev(k)
    <3>1. sealed[k].prev = IF k = 1 THEN <<>> ELSE sealed[k - 1].hash
      BY <1>1, <2>1 DEF FaultInv, SealedShape
    <3>2. records[k].prev = sealed[k].prev
      BY <1>1, <2>1 DEF InPlace
    <3> QED BY <1>2, <2>1, <3>1, <3>2
  <2>8. Passes(k, "PREV_HASH")
    BY <2>7 DEF Passes
  <2> QED BY <2>4, <2>6, <2>8
<1>4. RecomputedRoot = IF n = 0 THEN <<>> ELSE sealed[n].hash
  <2>1. n + 1 \in 1..(n + 1) /\ (n + 1) - 1 = n
    BY <1>1
  <2> QED BY <1>1, <1>2, <2>1 DEF RecomputedRoot
<1>5. RootOf(sealed) = IF n = 0 THEN <<>> ELSE sealed[n].hash
  BY DEF RootOf, Genesis, Last, FaultInv, IInv, TypeOK
<1> QED BY <1>3, <1>4, <1>5

\* Where the body is the sealed one, so are its number and its digest.
LEMMA SameBodyPasses ==
  ASSUME FaultInv, InPlace, NEW k \in DOMAIN records, records[k].body = sealed[k].body
  PROVE  Passes(k, "SEQUENCE") /\ Passes(k, "EVENT_HASH")
<1>1. k \in DOMAIN sealed
  BY DEF InPlace
<1>2. /\ records[k].body.seq = k - 1
      /\ records[k].hash = Append(records[k].prev, records[k].body)
  BY <1>1 DEF InPlace, FaultInv, SealedShape
<1> QED BY <1>2 DEF Passes, DigestHolds, Hash

\* A total is out of balance from a record on whose debit is edited, and no other.
LEMMA OutFromTheEdit ==
  ASSUME FaultInv, InPlace, NEW i \in DOMAIN records,
         \A j \in DOMAIN records \ {i} : records[j].body.dr = 1,
         NEW k \in DOMAIN records, OutOfBalance(k)
  PROVE  i <= k /\ Readable(i) /\ OutOfBalance(i) /\ records[i].body.dr # 1
<1> DEFINE n == Len(sealed)
           a == records[i].body.dr
<1>1. n \in Nat /\ n <= SafeMax /\ SafeMax \in Nat /\ DOMAIN records = 1..n
  BY VerifyAssumption DEF FaultInv, SealedShape, IInv, TypeOK, InPlace
<1>2. \A j \in 1..n : records[j].body \in Bodies
  <2>1. records \in Seq(Records)
    BY DEF FaultInv, IInv, TypeOK
  <2>2. \A j \in 1..n : records[j] \in Records
    BY <1>1, <2>1
  <2> QED BY <2>2 DEF Records
<1>3. a \in Nat /\ \A j \in 1..n : records[j].body.cr = 1
  BY <1>1, <1>2 DEF Bodies
<1> HIDE DEF a
<1>4. ASSUME NEW m \in 1..n
      PROVE  LET S == ReadableBefore(m + 1)
             IN  /\ Cardinality(S) \in 0..m
                 /\ TotalCr(m) = Cardinality(S)
                 /\ TotalDr(m) = IF i \in S THEN Cardinality(S) - 1 + a ELSE Cardinality(S)
  <2> DEFINE S == ReadableBefore(m + 1)
  <2>1. S \subseteq 1..m /\ S \subseteq 1..n
    BY <1>1 DEF ReadableBefore
  <2>2. IsFiniteSet(1..m) /\ Cardinality(1..m) = m
    BY <1>1, FS_Interval
  <2> HIDE DEF S
  <2>3. IsFiniteSet(S) /\ Cardinality(S) \in Nat /\ Cardinality(S) <= m
    BY <2>1, <2>2, FS_Subset, FS_CardinalityType
  <2>4. \A j \in S : Debits[j] = IF j = i THEN a ELSE 1
    BY <1>1, <2>1 DEF Debits, a
  <2>5. \A j \in S : Credits[j] = IF j = i THEN 1 ELSE 1
    BY <1>1, <1>3, <2>1 DEF Credits
  <2>6. SumFunctionOnSet(Debits, S) = IF i \in S THEN Cardinality(S) - 1 + a ELSE Cardinality(S)
    BY <1>3, <2>3, <2>4, SumOfOnes
  <2>7. SumFunctionOnSet(Credits, S) = IF i \in S THEN Cardinality(S) - 1 + 1 ELSE Cardinality(S)
    BY <2>3, <2>5, SumOfOnes
  <2>8. SumFunctionOnSet(Credits, S) = Cardinality(S)
    BY <2>3, <2>7
  <2> QED BY <1>1, <2>3, <2>6, <2>8 DEF TotalDr, TotalCr, S
<1>5. k \in 1..n /\ i \in 1..n
  BY <1>1
<1>6. i \in ReadableBefore(k + 1) /\ a # 1
  <2> DEFINE c == Cardinality(ReadableBefore(k + 1))
  <2>1. c \in 0..k /\ TotalCr(k) = c
        /\ TotalDr(k) = IF i \in ReadableBefore(k + 1) THEN c - 1 + a ELSE c
    BY <1>4, <1>5
  <2> HIDE DEF c
  <2>2. c <= SafeMax /\ c \in Nat
    BY <1>1, <1>5, <2>1
  <2>3. TotalDr(k) > SafeMax \/ TotalCr(k) > SafeMax \/ TotalDr(k) # TotalCr(k)
    BY DEF OutOfBalance
  <2> QED BY <1>1, <1>3, <2>1, <2>2, <2>3
<1>7. i \in 1..k /\ Readable(i)
  BY <1>5, <1>6 DEF ReadableBefore
<1>8. OutOfBalance(i)
  <2> DEFINE c == Cardinality(ReadableBefore(i + 1))
  <2>1. i \in ReadableBefore(i + 1)
    BY <1>5, <1>7 DEF ReadableBefore
  <2>2. c \in 0..i /\ TotalCr(i) = c /\ TotalDr(i) = c - 1 + a
    BY <1>4, <1>5, <2>1
  <2> HIDE DEF c
  <2>3. TotalDr(i) # TotalCr(i)
    BY <1>3, <1>5, <1>6, <2>2
  <2> QED BY <2>3 DEF OutOfBalance
<1> QED BY <1>5, <1>6, <1>7, <1>8 DEF a

\* With one record changed at most, its digest and its link kept, no check of
\* another fails and the root is the sealed one.
LEMMA OthersPass ==
  ASSUME FaultInv, InPlace, NEW i \in DOMAIN records,
         \A j \in DOMAIN records \ {i} : records[j].intact /\ records[j].body = sealed[j].body
  PROVE  /\ \A k \in DOMAIN records \ {i} : RecordFailures(k) = {}
         /\ RecomputedRoot = RootOf(sealed)
         /\ records[i].body = sealed[i].body /\ records[i].intact => RecordFailures(i) = {}
<1>1. DOMAIN records = DOMAIN sealed
  BY DEF InPlace
<1>2. \A j \in DOMAIN records \ {i} : records[j].body.dr = 1
  BY <1>1 DEF FaultInv, SealedShape
<1>3. \A j \in DOMAIN records : j \in Nat
  BY DEF FaultInv, IInv, TypeOK
<1>4. ASSUME NEW k \in DOMAIN records, records[k].intact, records[k].body = sealed[k].body
      PROVE  RecordFailures(k) = {}
  <2>1. Passes(k, "TRIAL_BALANCE")
    <3>1. SUFFICES ASSUME OutOfBalance(k) PROVE \E j \in ReadableBefore(k) : OutOfBalance(j)
      BY DEF Passes
    <3>2. i <= k /\ Readable(i) /\ OutOfBalance(i) /\ records[i].body.dr # 1
      BY <1>2, <3>1, OutFromTheEdit
    <3>3. records[k].body.dr = 1
      BY <1>1, <1>4 DEF FaultInv, SealedShape
    <3>4. i \in ReadableBefore(k)
      <4>1. i \in 1..(k - 1)
        <5>1. i # k
          BY <3>2, <3>3
        <5>2. i \in Nat \ {0} /\ k \in Nat
          BY DEF FaultInv, IInv, TypeOK
        <5> QED BY <3>2, <5>1, <5>2
      <4> QED BY <3>2, <4>1 DEF ReadableBefore
    <3> QED BY <3>2, <3>4
  <2>2. \A c \in RecordChecks : Passes(k, c)
    BY <1>4, <2>1, LinksHold, SameBodyPasses DEF RecordChecks
  <2> QED BY <1>4, <2>2 DEF RecordFailures, Readable
<1>5. RecomputedRoot = RootOf(sealed)
  BY LinksHold
<1> QED BY <1>4, <1>5

\* Then all that is reported is reported of that record.
LEMMA ReportedOfOne ==
  ASSUME FaultInv, InPlace, NEW i \in DOMAIN records,
         \A j \in DOMAIN records \ {i} : records[j].intact /\ records[j].body = sealed[j].body
  PROVE  Failures(RootOf(sealed)) = RecordFailures(i)
<1> DEFINE rest == UNION {RecordFailures(k) : k \in DOMAIN records}
<1>1. rest = RecordFailures(i)
  BY OthersPass
<1>2. RecomputedRoot = RootOf(sealed)
  BY OthersPass
<1>3. Failures(RootOf(sealed)) = rest \cup {}
  BY <1>2 DEF Failures
<1> QED BY <1>1, <1>3

LEMMA SealedVerifiesHolds == FaultInv => SealedVerifies
<1> SUFFICES ASSUME FaultInv, records = sealed PROVE Failures(RootOf(sealed)) = {}
  BY DEF SealedVerifies, Verified
<1>1. InPlace
  BY DEF InPlace, FaultInv, SealedShape
<1>2. CASE DOMAIN records = {}
  <2>1. UNION {RecordFailures(k) : k \in DOMAIN records} = {}
    BY <1>2
  <2>2. RecomputedRoot = RootOf(sealed)
    BY <1>1, LinksHold
  <2> QED BY <2>1, <2>2 DEF Failures
<1>3. ASSUME NEW i \in DOMAIN records PROVE Failures(RootOf(sealed)) = {}
  <2>1. \A j \in DOMAIN records : records[j].intact /\ records[j].body = sealed[j].body
    BY DEF FaultInv, SealedShape
  <2>2. RecordFailures(i) = {}
    BY <1>1, <2>1, OthersPass
  <2> QED BY <1>1, <2>1, <2>2, ReportedOfOne
<1> QED BY <1>2, <1>3

LEMMA CorruptAlone == FaultInv => CorruptRecordReportedAlone
<1> SUFFICES ASSUME FaultInv, NEW i \in DOMAIN sealed,
                    records = [sealed EXCEPT ![i].intact = FALSE]
             PROVE  Failures(RootOf(sealed)) = {Failure(i, "STRUCTURE")}
  BY DEF CorruptRecordReportedAlone
<1> DEFINE broken == [sealed[i] EXCEPT !.intact = FALSE]
<1>1. sealed \in Seq(Records) /\ sealed[i] \in Records
  BY DEF FaultInv, IInv, TypeOK
<1>2. /\ broken.intact = FALSE /\ broken.legible = sealed[i].legible
      /\ broken.evt = sealed[i].evt /\ broken.run = sealed[i].run
      /\ broken.prev = sealed[i].prev /\ broken.hash = sealed[i].hash
  BY <1>1 DEF Records
<1> HIDE DEF broken
<1>3. /\ DOMAIN records = DOMAIN sealed /\ records[i] = broken
      /\ \A j \in DOMAIN sealed \ {i} : records[j] = sealed[j]
  BY <1>1 DEF broken
<1>4. \A j \in DOMAIN sealed : sealed[j].legible /\ sealed[j].intact
  BY DEF FaultInv, SealedShape
<1>5. InPlace
  BY <1>2, <1>3, <1>4 DEF InPlace
<1>6. \A j \in DOMAIN records \ {i} : records[j].intact /\ records[j].body = sealed[j].body
  BY <1>3, <1>4
<1>7. RecordFailures(i) = {Failure(i, "STRUCTURE")}
  BY <1>2, <1>3 DEF RecordFailures, Readable
<1> QED BY <1>3, <1>5, <1>6, <1>7, ReportedOfOne

LEMMA EditAlone == FaultInv => EditReportedWhereMade
<1> SUFFICES ASSUME FaultInv, NEW i \in DOMAIN sealed,
                    Len(records) = Len(sealed),
                    \A j \in DOMAIN sealed \ {i} : records[j] = sealed[j],
                    records[i].intact,
                    records[i].hash = sealed[i].hash, records[i].prev = sealed[i].prev,
                    records[i].evt = sealed[i].evt, records[i].run = sealed[i].run,
                    records[i].body # sealed[i].body
             PROVE  /\ Failure(i, "EVENT_HASH") \in Failures(RootOf(sealed))
                    /\ \A f \in Failures(RootOf(sealed)) : f.index = i
  BY Zenon DEF EditReportedWhereMade
<1>1. DOMAIN records = DOMAIN sealed /\ records \in Seq(Records) /\ sealed \in Seq(Records)
  BY DEF FaultInv, IInv, TypeOK
<1>2. \A j \in DOMAIN sealed : sealed[j].legible /\ sealed[j].intact
  BY DEF FaultInv, SealedShape
<1>3. InPlace
  BY <1>1, <1>2 DEF InPlace, FaultInv, IInv, ReadableIsLegible
<1>4. \A j \in DOMAIN records \ {i} : records[j].intact /\ records[j].body = sealed[j].body
  BY <1>1, <1>2
<1>5. Failures(RootOf(sealed)) = RecordFailures(i)
  BY <1>1, <1>3, <1>4, ReportedOfOne
<1>6. ~Passes(i, "EVENT_HASH")
  <2>1. sealed[i].hash = Append(sealed[i].prev, sealed[i].body)
    BY DEF FaultInv, SealedShape
  <2>2. /\ sealed[i].prev \in Seq(Bodies) /\ sealed[i].body \in Bodies /\ records[i].body \in Bodies
    <3>1. sealed[i] \in Records /\ records[i] \in Records
      BY <1>1
    <3> QED BY <3>1 DEF Records
  <2>3. Append(sealed[i].prev, records[i].body) # Append(sealed[i].prev, sealed[i].body)
    <3>1. \A s \in Seq(Bodies) : \A a, b \in Bodies : Append(s, a) = Append(s, b) => a = b
      BY AppendProperties
    <3> QED BY <2>2, <3>1
  <2> QED BY <2>1, <2>3 DEF Passes, DigestHolds, Hash
<1>7. RecordFailures(i) = {Failure(i, c) : c \in {k \in RecordChecks : ~Passes(i, k)}}
  BY DEF RecordFailures, Readable
<1>8. Failure(i, "EVENT_HASH") \in RecordFailures(i)
  BY <1>6, <1>7 DEF RecordChecks
<1>9. \A f \in RecordFailures(i) : f.index = i
  BY <1>7 DEF Failure
<1> QED BY <1>5, <1>8, <1>9

-----------------------------------------------------------------------------
(* The steps                                                               *)

LEMMA InitIInv == Init => IInv
BY DEF Init, IInv, TypeOK, SealedHolds, ReadableIsLegible, Pristine

LEMMA SealKeeps ==
  ASSUME IInv, NEW p \in Payloads, NEW e \in EvtIds, NEW r \in Runs, Seal(p, e, r)
  PROVE  IInv'
<1> DEFINE body == [seq |-> Len(sealed), payload |-> p, dr |-> 1, cr |-> 1]
           prev == RootOf(sealed)
           event == [intact |-> TRUE, legible |-> TRUE, evt |-> e, run |-> r, body |-> body,
                     prev |-> prev, hash |-> Hash(body, prev)]
           n == Len(sealed)
<1>1. sealed' = Append(sealed, event) /\ records' = sealed' /\ damage' = damage /\ damage = 0
  BY DEF Seal
<1>2. sealed \in Seq(Records) /\ n \in Nat /\ DOMAIN sealed = 1..n
  BY DEF IInv, TypeOK
<1>3. body \in Bodies
  BY <1>2 DEF Bodies
<1>4. /\ prev \in Seq(Bodies) /\ Len(prev) = n
      /\ \A j \in 1..n : prev[j] = sealed[j].body
  <2>1. CASE n = 0
    BY <1>2, <2>1 DEF RootOf, Genesis
  <2>2. CASE n # 0
    <3>1. prev = sealed[n].hash
      BY <1>2, <2>2 DEF RootOf, Last
    <3>2. sealed[n] \in Records /\ Holds(sealed, n)
      BY <1>2, <2>2 DEF IInv, SealedHolds
    <3> QED BY <3>1, <3>2 DEF Holds, Records
  <2> QED BY <2>1, <2>2
<1> HIDE DEF body, prev
<1>5. /\ event \in Records /\ event.intact /\ event.legible /\ event.body = body
      /\ event.hash = Append(prev, body)
  BY <1>3, <1>4 DEF Records, Hash
<1> HIDE DEF event
<1>6. /\ sealed' \in Seq(Records) /\ DOMAIN sealed' = 1..(n + 1)
      /\ sealed'[n + 1] = event
      /\ \A j \in 1..n : sealed'[j] = sealed[j]
  BY <1>1, <1>2, <1>5
<1>7. SealedHolds'
  <2> SUFFICES ASSUME NEW i \in DOMAIN sealed' PROVE Holds(sealed', i)
    BY DEF SealedHolds
  <2>1. CASE i = n + 1
    <3>1. Len(event.hash) = n + 1 /\ event.hash[n + 1] = body
          /\ \A j \in 1..n : event.hash[j] = sealed[j].body
      BY <1>2, <1>3, <1>4, <1>5
    <3>2. \A j \in 1..(n + 1) : j = n + 1 \/ j \in 1..n
      BY <1>2
    <3> QED BY <1>5, <1>6, <2>1, <3>1, <3>2 DEF Holds
  <2>2. CASE i # n + 1
    <3>1. i \in 1..n /\ Holds(sealed, i)
      BY <1>2, <1>6, <2>2 DEF IInv, SealedHolds
    <3>2. sealed'[i] = sealed[i] /\ \A j \in 1..i : sealed'[j] = sealed[j]
      BY <1>2, <1>6, <3>1
    <3> QED BY <3>1, <3>2 DEF Holds
  <2> QED BY <2>1, <2>2
<1>8. ReadableIsLegible'
  <2> SUFFICES ASSUME NEW i \in 1..(n + 1) PROVE records'[i].intact => records'[i].legible
    BY <1>1, <1>6 DEF ReadableIsLegible
  <2>1. CASE i = n + 1
    BY <1>1, <1>5, <1>6, <2>1
  <2>2. CASE i # n + 1
    <3>1. i \in 1..n /\ records = sealed
      BY <1>1, <1>2, <2>2 DEF IInv, Pristine
    <3> QED BY <1>1, <1>2, <1>6, <3>1 DEF IInv, ReadableIsLegible
  <2> QED BY <2>1, <2>2
<1> QED BY <1>1, <1>6, <1>7, <1>8 DEF IInv, TypeOK, Pristine

\* What damage leaves: records of their type, each that can be read legible.
LEMMA DamageKeeps ==
  ASSUME IInv, Damaged, records' \in Seq(Records),
         \A i \in DOMAIN records' : records'[i].intact => records'[i].legible
  PROVE  IInv'
BY DEF IInv, TypeOK, SealedHolds, ReadableIsLegible, Pristine, Damaged, Holds

\* A record changed in its place.
LEMMA ChangeKeeps ==
  ASSUME IInv, Damaged, NEW i \in DOMAIN records, NEW r \in Records,
         r.intact => r.legible, records' = [records EXCEPT ![i] = r]
  PROVE  IInv'
<1>1. records \in Seq(Records)
  BY DEF IInv, TypeOK
<1>2. /\ records' \in Seq(Records) /\ DOMAIN records' = DOMAIN records
      /\ \A j \in DOMAIN records : records'[j] = IF j = i THEN r ELSE records[j]
  BY <1>1
<1> QED BY <1>2, DamageKeeps DEF IInv, ReadableIsLegible

LEMMA RecordStep ==
  ASSUME IInv, NEW i \in DOMAIN records,
         \/ Lose(i) \/ Repeat(i) \/ Swap(i) \/ EditHashed(i) \/ EditUnhashed(i)
         \/ BreakStructure(i) \/ Rehash(i) \/ Relink(i)
  PROVE  IInv'
<1> DEFINE r == records[i]
           n == Len(records)
<1>0. /\ records \in Seq(Records) /\ n \in Nat /\ DOMAIN records = 1..n /\ i \in 1..n
      /\ r \in Records /\ (r.intact => r.legible)
      /\ \A j \in 1..n : records[j] \in Records /\ (records[j].intact => records[j].legible)
  BY DEF IInv, TypeOK, ReadableIsLegible
<1>1. CASE Lose(i)
  <2> DEFINE before == SubSeq(records, 1, i - 1)
             after  == SubSeq(records, i + 1, n)
  <2>1. Damaged /\ records' = before \o after
    BY <1>1 DEF Lose, RemoveAt
  <2>2. /\ before \in Seq(Records) /\ Len(before) = i - 1
        /\ \A j \in 1..(i - 1) : before[j] = records[j]
        /\ after \in Seq(Records) /\ Len(after) = n - i
        /\ \A j \in 1..(n - i) : after[j] = records[i + j]
    BY <1>0
  <2> HIDE DEF before, after
  <2>3. /\ records' \in Seq(Records) /\ DOMAIN records' = 1..(n - 1)
        /\ \A j \in 1..(n - 1) : records'[j] = IF j < i THEN records[j] ELSE records[j + 1]
    <3>1. /\ records' \in Seq(Records) /\ Len(records') = n - 1
          /\ \A j \in 1..(n - 1) : records'[j] = IF j <= i - 1 THEN before[j]
                                                 ELSE after[j - (i - 1)]
      <4>1. /\ records' \in Seq(Records) /\ Len(records') = Len(before) + Len(after)
            /\ \A j \in 1..(Len(before) + Len(after)) :
                 records'[j] = IF j <= Len(before) THEN before[j] ELSE after[j - Len(before)]
        BY <2>1, <2>2, ConcatProperties
      <4>2. Len(before) + Len(after) = n - 1
        BY <1>0, <2>2
      <4> QED BY <2>2, <4>1, <4>2
    <3>2. ASSUME NEW j \in 1..(n - 1)
          PROVE  records'[j] = IF j < i THEN records[j] ELSE records[j + 1]
      <4>1. CASE j < i
        <5>1. j \in 1..(i - 1)
          BY <1>0, <4>1
        <5> QED BY <1>0, <2>2, <3>1, <4>1, <5>1
      <4>2. CASE ~(j < i)
        <5> DEFINE k == j - (i - 1)
        <5>1. k \in 1..(n - i) /\ i + k = j + 1 /\ ~(j <= i - 1)
          BY <1>0, <4>2
        <5>2. records'[j] = after[k]
          BY <3>1, <5>1
        <5> HIDE DEF k
        <5>3. after[k] = records[i + k]
          BY <2>2, <5>1
        <5> QED BY <4>2, <5>1, <5>2, <5>3
      <4> QED BY <4>1, <4>2
    <3> QED BY <1>0, <3>1, <3>2
  <2>4. \A j \in 1..(n - 1) : j \in 1..n /\ j + 1 \in 1..n
    BY <1>0
  <2>5. \A j \in DOMAIN records' : records'[j].intact => records'[j].legible
    BY <1>0, <2>3, <2>4
  <2> QED BY <2>1, <2>3, <2>5, DamageKeeps
<1>2. CASE Repeat(i)
  <2> DEFINE before == SubSeq(records, 1, i - 1)
             after  == SubSeq(records, i, n)
  <2>1. Damaged /\ records' = before \o <<r>> \o after
    BY <1>2 DEF Repeat, InsertAt
  <2>2. /\ before \in Seq(Records) /\ Len(before) = i - 1
        /\ \A j \in 1..(i - 1) : before[j] = records[j]
        /\ after \in Seq(Records) /\ Len(after) = n - i + 1
        /\ \A j \in 1..(n - i + 1) : after[j] = records[i + j - 1]
    BY <1>0
  <2> HIDE DEF before, after
  <2>3. /\ records' \in Seq(Records) /\ DOMAIN records' = 1..(n + 1)
        /\ \A j \in 1..(n + 1) : records'[j] = IF j < i THEN records[j]
                                               ELSE IF j = i THEN r ELSE records[j - 1]
    <3> DEFINE twice == before \o <<r>>
    <3>1. /\ twice \in Seq(Records) /\ Len(twice) = i
          /\ \A j \in 1..i : twice[j] = IF j <= i - 1 THEN before[j] ELSE r
      <4>1. <<r>> \in Seq(Records) /\ Len(<<r>>) = 1 /\ <<r>>[1] = r
        BY <1>0
      <4> QED BY <1>0, <2>2, <4>1, ConcatProperties
    <3> HIDE DEF twice
    <3>2. /\ records' \in Seq(Records) /\ Len(records') = n + 1
          /\ \A j \in 1..(n + 1) : records'[j] = IF j <= i THEN twice[j] ELSE after[j - i]
      <4>1. records' = twice \o after
        BY <2>1 DEF twice
      <4>2. /\ records' \in Seq(Records) /\ Len(records') = Len(twice) + Len(after)
            /\ \A j \in 1..(Len(twice) + Len(after)) :
                 records'[j] = IF j <= Len(twice) THEN twice[j] ELSE after[j - Len(twice)]
        BY <2>2, <3>1, <4>1, ConcatProperties
      <4>3. Len(twice) + Len(after) = n + 1
        BY <1>0, <2>2, <3>1
      <4> QED BY <3>1, <4>2, <4>3
    <3>3. ASSUME NEW j \in 1..(n + 1)
          PROVE  records'[j] = IF j < i THEN records[j] ELSE IF j = i THEN r ELSE records[j - 1]
      <4>1. CASE j <= i
        <5>1. j \in 1..i /\ (j < i => j \in 1..(i - 1))
          BY <1>0, <4>1
        <5> QED BY <1>0, <2>2, <3>1, <3>2, <4>1, <5>1
      <4>2. CASE ~(j <= i)
        <5>1. j - i \in 1..(n - i + 1) /\ i + (j - i) - 1 = j - 1
          BY <1>0, <4>2
        <5> QED BY <1>0, <2>2, <3>2, <4>2, <5>1
      <4> QED BY <4>1, <4>2
    <3> QED BY <1>0, <3>2, <3>3
  <2>4. \A j \in 1..(n + 1) : (j < i => j \in 1..n) /\ (j > i => j - 1 \in 1..n)
    BY <1>0
  <2>5. \A j \in DOMAIN records' : records'[j].intact => records'[j].legible
    <3> SUFFICES ASSUME NEW j \in 1..(n + 1) PROVE records'[j].intact => records'[j].legible
      BY <2>3
    <3>1. CASE j < i
      BY <1>0, <2>3, <2>4, <3>1
    <3>2. CASE j = i
      BY <1>0, <2>3, <3>2
    <3>3. CASE j > i
      BY <1>0, <2>3, <2>4, <3>3
    <3> QED BY <1>0, <3>1, <3>2, <3>3
  <2> QED BY <2>1, <2>3, <2>5, DamageKeeps
<1>3. CASE Swap(i)
  <2>1. /\ Damaged /\ i + 1 \in 1..n
        /\ records' = [records EXCEPT ![i] = records[i + 1], ![i + 1] = records[i]]
    BY <1>0, <1>3 DEF Swap
  <2>2. /\ records' \in Seq(Records) /\ DOMAIN records' = 1..n
        /\ \A j \in 1..n : \E k \in 1..n : records'[j] = records[k]
    BY <1>0, <2>1
  <2>3. \A j \in DOMAIN records' : records'[j].intact => records'[j].legible
    BY <1>0, <2>2
  <2> QED BY <2>1, <2>2, <2>3, DamageKeeps
<1>4. CASE EditHashed(i)
  <2>1. CASE \E p \in Payloads : records' = [records EXCEPT ![i].body.payload = p]
    <3>1. PICK p \in Payloads : records' = [records EXCEPT ![i].body.payload = p]
      BY <2>1
    <3> DEFINE s == [r EXCEPT !.body.payload = p]
    <3>2. records' = [records EXCEPT ![i] = s]
      BY <3>1
    <3>3. s \in Records /\ (s.intact => s.legible)
      BY <1>0 DEF Records, Bodies
    <3> HIDE DEF s
    <3> QED BY <1>4, <3>2, <3>3, ChangeKeeps DEF EditHashed
  <2>2. CASE \E k \in 0..MaxEvents : records' = [records EXCEPT ![i].body.seq = k]
    <3>1. PICK k \in 0..MaxEvents : records' = [records EXCEPT ![i].body.seq = k]
      BY <2>2
    <3> DEFINE s == [r EXCEPT !.body.seq = k]
    <3>2. records' = [records EXCEPT ![i] = s]
      BY <3>1
    <3>3. k \in Nat
      BY VerifyAssumption
    <3>4. [r.body EXCEPT !.seq = k] \in Bodies /\ s = [r EXCEPT !.body = [r.body EXCEPT !.seq = k]]
      BY <1>0, <3>3 DEF Records, Bodies
    <3>5. s \in Records /\ (s.intact => s.legible)
      BY <1>0, <3>4 DEF Records
    <3> HIDE DEF s
    <3> QED BY <1>4, <3>2, <3>5, ChangeKeeps DEF EditHashed
  <2>3. CASE records' = [records EXCEPT ![i].body.dr = 2]
    <3> DEFINE s == [r EXCEPT !.body.dr = 2]
    <3>1. records' = [records EXCEPT ![i] = s]
      BY <2>3
    <3>2. s \in Records /\ (s.intact => s.legible)
      BY <1>0 DEF Records, Bodies
    <3> HIDE DEF s
    <3> QED BY <1>4, <3>1, <3>2, ChangeKeeps DEF EditHashed
  <2> QED BY <1>4, <2>1, <2>2, <2>3 DEF EditHashed
<1>5. CASE EditUnhashed(i)
  <2>1. ASSUME NEW e \in EvtIds, records' = [records EXCEPT ![i].evt = e] PROVE IInv'
    <3> DEFINE s == [r EXCEPT !.evt = e]
    <3>1. records' = [records EXCEPT ![i] = s]
      BY <2>1
    <3>2. s \in Records /\ (s.intact => s.legible)
      BY <1>0 DEF Records
    <3> HIDE DEF s
    <3> QED BY <1>5, <3>1, <3>2, ChangeKeeps DEF EditUnhashed
  <2>2. ASSUME NEW run \in Runs, records' = [records EXCEPT ![i].run = run] PROVE IInv'
    <3> DEFINE s == [r EXCEPT !.run = run]
    <3>1. records' = [records EXCEPT ![i] = s]
      BY <2>2
    <3>2. s \in Records /\ (s.intact => s.legible)
      BY <1>0 DEF Records
    <3> HIDE DEF s
    <3> QED BY <1>5, <3>1, <3>2, ChangeKeeps DEF EditUnhashed
  <2> QED BY <1>5, <2>1, <2>2 DEF EditUnhashed
<1>6. CASE BreakStructure(i)
  <2>1. CASE records' = [records EXCEPT ![i].intact = FALSE]
    <3> DEFINE s == [r EXCEPT !.intact = FALSE]
    <3>1. records' = [records EXCEPT ![i] = s]
      BY <2>1
    <3>2. s \in Records /\ ~s.intact
      BY <1>0 DEF Records
    <3> HIDE DEF s
    <3> QED BY <1>6, <3>1, <3>2, ChangeKeeps DEF BreakStructure
  <2>2. CASE records' = [records EXCEPT ![i].intact = FALSE, ![i].legible = FALSE]
    <3> DEFINE s == [r EXCEPT !.intact = FALSE, !.legible = FALSE]
    <3>1. records' = [records EXCEPT ![i] = s]
      BY <1>0, <2>2
    <3>2. s \in Records /\ ~s.intact
      BY <1>0 DEF Records
    <3> HIDE DEF s
    <3> QED BY <1>6, <3>1, <3>2, ChangeKeeps DEF BreakStructure
  <2> QED BY <1>6, <2>1, <2>2 DEF BreakStructure
<1>7. CASE Rehash(i)
  <2> DEFINE hash == Hash(r.body, r.prev)
             s == [r EXCEPT !.hash = hash]
  <2>1. Damaged /\ records' = [records EXCEPT ![i] = s] /\ r.legible
    BY <1>7 DEF Rehash
  <2>2. hash \in Seq(Bodies)
    BY <1>0 DEF Hash, Records
  <2> HIDE DEF hash
  <2>3. s \in Records /\ s.legible
    BY <1>0, <2>1, <2>2 DEF Records
  <2> HIDE DEF s
  <2> QED BY <2>1, <2>3, ChangeKeeps
<1>8. CASE Relink(i)
  <2> DEFINE prev == ExpectedPrev(i)
             hash == Hash(r.body, prev)
             s == [r EXCEPT !.prev = prev, !.hash = hash]
  <2>1. Damaged /\ r.legible
        /\ records' = [records EXCEPT ![i].prev = prev, ![i].hash = hash]
    BY <1>8 DEF Relink
  <2>2. prev \in Seq(Bodies) /\ hash \in Seq(Bodies)
    <3>1. prev \in Seq(Bodies)
      BY <1>0, ExpectedPrevType
    <3> QED BY <1>0, <3>1 DEF Hash, Records
  <2> HIDE DEF prev, hash
  <2>3. s \in Records /\ s.legible /\ records' = [records EXCEPT ![i] = s]
    BY <1>0, <2>1, <2>2 DEF Records
  <2> HIDE DEF s
  <2> QED BY <2>1, <2>3, ChangeKeeps
<1> QED BY <1>1, <1>2, <1>3, <1>4, <1>5, <1>6, <1>7, <1>8

LEMMA NextIInv == IInv /\ [Next]_vars => IInv'
<1> SUFFICES ASSUME IInv, [Next]_vars PROVE IInv'
  OBVIOUS
<1>1. ASSUME NEW p \in Payloads, NEW e \in EvtIds, NEW r \in Runs, Seal(p, e, r) PROVE IInv'
  BY <1>1, SealKeeps
<1>2. CASE UNCHANGED vars
  BY <1>2 DEF vars, IInv, TypeOK, SealedHolds, ReadableIsLegible, Pristine, Holds
<1> QED BY <1>1, <1>2, RecordStep DEF Next

LEMMA SealShapes ==
  ASSUME FaultInv, NEW p \in Payloads, NEW e \in EvtIds, NEW r \in Runs, Seal(p, e, r)
  PROVE  SealedShape'
<1> DEFINE body == [seq |-> Len(sealed), payload |-> p, dr |-> 1, cr |-> 1]
           prev == RootOf(sealed)
           event == [intact |-> TRUE, legible |-> TRUE, evt |-> e, run |-> r, body |-> body,
                     prev |-> prev, hash |-> Hash(body, prev)]
           n == Len(sealed)
<1>1. /\ sealed' = Append(sealed, event)
      /\ n < SafeMax /\ \A i \in DOMAIN sealed : sealed[i].evt # e /\ sealed[i].run = r
  BY DEF Seal
<1>2. sealed \in Seq(Records) /\ n \in Nat /\ DOMAIN sealed = 1..n /\ SafeMax \in Nat
  BY VerifyAssumption DEF FaultInv, IInv, TypeOK
<1>3. prev = IF n = 0 THEN <<>> ELSE sealed[n].hash
  BY <1>2 DEF RootOf, Genesis, Last
<1>4. /\ event.intact /\ event.legible /\ event.run = r /\ event.evt = e
      /\ event.body.seq = n /\ event.body.dr = 1 /\ event.prev = prev
      /\ event.hash = Append(event.prev, event.body)
  BY DEF Hash
<1> HIDE DEF event, prev, body
<1>5. /\ DOMAIN sealed' = 1..(n + 1) /\ Len(sealed') = n + 1
      /\ sealed'[n + 1] = event /\ \A j \in 1..n : sealed'[j] = sealed[j]
  BY <1>1, <1>2
<1>6. sealed'[1].run = r
  <2>1. CASE n = 0
    BY <1>4, <1>5, <2>1
  <2>2. CASE n # 0
    BY <1>1, <1>2, <1>5, <2>2
  <2> QED BY <2>1, <2>2
<1>7. ASSUME NEW i \in DOMAIN sealed'
      PROVE  LET s == sealed'[i]
             IN  /\ s.intact /\ s.legible /\ s.run = sealed'[1].run
                 /\ s.body.seq = i - 1 /\ s.body.dr = 1
                 /\ s.prev = IF i = 1 THEN <<>> ELSE sealed'[i - 1].hash
                 /\ s.hash = Append(s.prev, s.body)
                 /\ \A j \in DOMAIN sealed' \ {i} : sealed'[j].evt # s.evt
  <2>1. CASE i = n + 1
    <3>1. \A j \in DOMAIN sealed' \ {i} : j \in 1..n
      BY <1>2, <1>5, <2>1
    <3>2. (n + 1) - 1 = n /\ (n + 1 = 1 <=> n = 0) /\ (n # 0 => n \in 1..n)
      BY <1>2
    <3>3. event.prev = IF i = 1 THEN <<>> ELSE sealed'[i - 1].hash
      BY <1>3, <1>4, <1>5, <2>1, <3>2
    <3>4. \A j \in DOMAIN sealed' \ {i} : sealed'[j].evt # event.evt
      BY <1>1, <1>2, <1>4, <1>5, <3>1
    <3>5. event.body.seq = i - 1
      BY <1>4, <2>1, <3>2
    <3> QED BY <1>4, <1>5, <1>6, <2>1, <3>3, <3>4, <3>5
  <2>2. CASE i # n + 1
    <3>1. i \in 1..n /\ (i # 1 => i - 1 \in 1..n)
      BY <1>2, <1>5, <2>2
    <3>2. /\ sealed[i].intact /\ sealed[i].legible
          /\ sealed[i].body.seq = i - 1 /\ sealed[i].body.dr = 1
          /\ sealed[i].prev = IF i = 1 THEN <<>> ELSE sealed[i - 1].hash
          /\ sealed[i].hash = Append(sealed[i].prev, sealed[i].body)
          /\ \A j \in 1..n \ {i} : sealed[j].evt # sealed[i].evt
      BY <1>2, <3>1 DEF FaultInv, SealedShape
    <3>3. sealed[i].run = sealed'[1].run
      BY <1>1, <1>2, <1>6, <3>1
    <3>4. \A j \in DOMAIN sealed' \ {i} : sealed'[j].evt # sealed[i].evt
      <4>1. sealed'[n + 1].evt # sealed[i].evt
        BY <1>1, <1>2, <1>4, <1>5, <3>1
      <4> QED BY <1>2, <1>5, <3>2, <4>1
    <3> QED BY <1>5, <3>1, <3>2, <3>3, <3>4
  <2> QED BY <2>1, <2>2
<1>8. Len(sealed') <= SafeMax
  BY <1>1, <1>2, <1>5
<1> QED BY <1>7, <1>8 DEF SealedShape

LEMMA NextFaultInv == FaultInv /\ [Next]_vars => FaultInv'
<1> SUFFICES ASSUME FaultInv, [Next]_vars PROVE SealedShape'
  BY NextIInv DEF FaultInv
<1>1. ASSUME NEW p \in Payloads, NEW e \in EvtIds, NEW r \in Runs, Seal(p, e, r)
      PROVE  SealedShape'
  BY <1>1, SealShapes
<1>2. CASE sealed' = sealed
  BY <1>2 DEF FaultInv, SealedShape
<1> QED BY <1>1, <1>2 DEF Next, vars, Damaged, Lose, Repeat, Swap, EditHashed, EditUnhashed,
                         BreakStructure, Rehash, Relink

-----------------------------------------------------------------------------
\* A chain whose genesis_to_root check passes against the published root is readable
\* throughout and books the sealed content in the sealed order, whatever was damaged
\* since: verifyChain, behind gate G4 and the route ledger-verify.ts.
THEOREM PassedChainIsSealed == Spec => []VerifiesWhatWasSealed
<1>1. IInv => VerifiesWhatWasSealed
  BY PassedIsSealed DEF VerifiesWhatWasSealed
<1> QED BY <1>1, InitIInv, NextIInv, PTL DEF Spec

\* The verdict names the one record that can no longer be read or says something else
\* than what was sealed, and none when none does: the failures of verifyChain.
THEOREM FaultIsNamed == Spec => []FaultReportedWhereMade
<1>1. Init => FaultInv
  BY InitIInv, VerifyAssumption DEF Init, FaultInv, SealedShape
<1>2. FaultInv => FaultReportedWhereMade
  BY SealedVerifiesHolds, CorruptAlone, EditAlone DEF FaultReportedWhereMade
<1> QED BY <1>1, <1>2, NextFaultInv, PTL DEF Spec
=============================================================================
