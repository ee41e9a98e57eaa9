---------------------------- MODULE IngestProofs ----------------------------
(***************************************************************************)
(* For every amount and every list of weights: the arithmetic under ingest *)
(* is exact.                                                               *)
(***************************************************************************)
EXTENDS MCS0Ingest, TLAPS, WellFoundedInduction, FiniteSetTheorems

-----------------------------------------------------------------------------
(* Sums over a finite set                                                  *)

LEMMA SmallestSubset ==
  ASSUME NEW D, IsFiniteSet(D), NEW F, F \subseteq SUBSET D, F # {}
  PROVE  \E T \in F : \A S \in F : S \subseteq T => S = T
<1>1. IsWellFoundedOn(StrictSubsetOrdering(D), SUBSET D)
  BY FS_StrictSubsetOrderingWellFounded, FS_FiniteSubsetsOfFinite
<1>2. PICK T \in F : \A S \in F : ~ (<<S, T>> \in StrictSubsetOrdering(D))
  BY <1>1, WFMin
<1> QED BY <1>2 DEF StrictSubsetOrdering

\* The index a sum takes first out of a set, what it leaves, and the equation that
\* the function behind the sum solves.
FirstOf(s) == CHOOSE x \in s : TRUE
RestOf(s) == s \ {FirstOf(s)}
Adds(w, f, S) == f = [s \in SUBSET S |-> IF s = {} THEN 0 ELSE w[FirstOf(s)] + f[RestOf(s)]]

LEMMA SumChooses == \A w, S : SumFunctionOnSet(w, S) = (CHOOSE f : Adds(w, f, S))[S]
BY DEF SumFunctionOnSet, FoldFunctionOnSet, MapThenFoldSet, Adds, FirstOf, RestOf

LEMMA RestIsLess == \A s : s # {} => FirstOf(s) \in s /\ RestOf(s) \subseteq s /\ RestOf(s) # s
BY DEF FirstOf, RestOf

LEMMA AddsOnce ==
  ASSUME NEW w, NEW S, IsFiniteSet(S), NEW f, NEW g, Adds(w, f, S), Adds(w, g, S)
  PROVE  f = g
<1> DEFINE F == {s \in SUBSET S : f[s] # g[s]}
<1>1. SUFFICES F = {}
  BY DEF Adds
<1>2. SUFFICES ASSUME F # {} PROVE FALSE
  OBVIOUS
<1>3. PICK T \in F : \A s \in F : s \subseteq T => s = T
  <2>1. F \subseteq SUBSET S
    OBVIOUS
  <2> HIDE DEF F
  <2> QED BY <1>2, <2>1, SmallestSubset
<1>4. T # {}
  BY <1>3 DEF Adds
<1>5. RestOf(T) \subseteq T /\ RestOf(T) # T /\ RestOf(T) \in SUBSET S
  BY <1>3, <1>4, RestIsLess
<1>6. f[RestOf(T)] = g[RestOf(T)]
  BY <1>3, <1>5
<1>7. f[T] = w[FirstOf(T)] + f[RestOf(T)] /\ g[T] = w[FirstOf(T)] + g[RestOf(T)]
  BY <1>3, <1>4 DEF Adds
<1> QED BY <1>3, <1>6, <1>7

\* A sum is its first term and the sum over the rest.
Unfolds(w, S) ==
  SumFunctionOnSet(w, S) = IF S = {} THEN 0 ELSE w[FirstOf(S)] + SumFunctionOnSet(w, RestOf(S))

LEMMA SumUnfolds ==
  ASSUME NEW w, NEW D, IsFiniteSet(D)
  PROVE  Unfolds(w, D)
<1> DEFINE F == {s \in SUBSET D : ~Unfolds(w, s)}
<1>1. SUFFICES ASSUME F # {} PROVE FALSE
  OBVIOUS
<1>2. PICK T \in F : \A s \in F : s \subseteq T => s = T
  <2>1. F \subseteq SUBSET D
    OBVIOUS
  <2> HIDE DEF F
  <2> QED BY <1>1, <2>1, SmallestSubset
<1>3. \A s \in SUBSET T : s # T => Unfolds(w, s)
  BY <1>2
<1> DEFINE sumOf(s) == SumFunctionOnSet(w, s)
           f == [s \in SUBSET T |-> IF s = {} THEN 0 ELSE w[FirstOf(s)] + sumOf(RestOf(s))]
<1>4. \A s \in SUBSET T : s # T => f[s] = sumOf(s)
  BY <1>3 DEF Unfolds
<1>5. \A s \in SUBSET T : s # {} => RestOf(s) \in SUBSET T /\ RestOf(s) # T
  BY RestIsLess
<1>6. Adds(w, f, T)
  <2>1. \A s \in SUBSET T : s # {} => sumOf(RestOf(s)) = f[RestOf(s)]
    BY <1>4, <1>5
  <2>2. f = [s \in SUBSET T |-> IF s = {} THEN 0 ELSE w[FirstOf(s)] + f[RestOf(s)]]
    BY <2>1, Zenon
  <2> QED BY <2>2 DEF Adds
<1> HIDE DEF f
<1>7. (CHOOSE h : Adds(w, h, T)) = f
  <2>1. Adds(w, (CHOOSE h : Adds(w, h, T)), T)
    BY <1>6
  <2>2. IsFiniteSet(T)
    BY <1>2, FS_Subset
  <2> QED BY <1>6, <2>1, <2>2, AddsOnce
<1>8. sumOf(T) = f[T]
  BY <1>7, SumChooses
<1>9. Unfolds(w, T)
  BY <1>8 DEF Unfolds, f
<1> QED BY <1>2, <1>9

LEMMA SumOfNone == \A w : SumFunctionOnSet(w, {}) = 0
<1> TAKE w
<1>1. Unfolds(w, {})
  BY SumUnfolds, FS_EmptySet
<1> QED BY <1>1 DEF Unfolds

LEMMA SumIsInt ==
  ASSUME NEW D, IsFiniteSet(D), NEW w, \A x \in D : w[x] \in Int
  PROVE  SumFunctionOnSet(w, D) \in Int
<1> DEFINE F == {S \in SUBSET D : SumFunctionOnSet(w, S) \notin Int}
<1>1. SUFFICES ASSUME F # {} PROVE FALSE
  OBVIOUS
<1>2. PICK T \in F : \A S \in F : S \subseteq T => S = T
  <2>1. F \subseteq SUBSET D
    OBVIOUS
  <2> HIDE DEF F
  <2> QED BY <1>1, <2>1, SmallestSubset
<1>3. T \in SUBSET D /\ SumFunctionOnSet(w, T) \notin Int /\ IsFiniteSet(T)
  BY <1>2, FS_Subset
<1>4. T # {}
  BY <1>3, SumOfNone
<1>5. FirstOf(T) \in T /\ RestOf(T) \subseteq T /\ RestOf(T) # T
  BY <1>4, RestIsLess
<1>6. SumFunctionOnSet(w, RestOf(T)) \in Int
  BY <1>2, <1>5
<1>7. SumFunctionOnSet(w, T) = w[FirstOf(T)] + SumFunctionOnSet(w, RestOf(T))
  BY <1>3, <1>4, SumUnfolds DEF Unfolds
<1> QED BY <1>3, <1>5, <1>6, <1>7

\* Any term may be taken out first.
LEMMA SumTakesAny ==
  ASSUME NEW D, IsFiniteSet(D), NEW w, \A x \in D : w[x] \in Int
  PROVE  \A x \in D : SumFunctionOnSet(w, D) = w[x] + SumFunctionOnSet(w, D \ {x})
<1> DEFINE sumOf(S) == SumFunctionOnSet(w, S)
           F == {S \in SUBSET D : \E x \in S : sumOf(S) # w[x] + sumOf(S \ {x})}
<1>1. SUFFICES ASSUME F # {} PROVE FALSE
  OBVIOUS
<1>2. PICK T \in F : \A S \in F : S \subseteq T => S = T
  <2>1. F \subseteq SUBSET D
    OBVIOUS
  <2> HIDE DEF F
  <2> QED BY <1>1, <2>1, SmallestSubset
<1>3. PICK x \in T : sumOf(T) # w[x] + sumOf(T \ {x})
  BY <1>2
<1> DEFINE y == FirstOf(T)
<1>4. T \in SUBSET D /\ y \in T /\ IsFiniteSet(T)
  BY <1>2, <1>3, RestIsLess, FS_Subset
<1>5. sumOf(T) = w[y] + sumOf(T \ {y})
  BY <1>3, <1>4, SumUnfolds DEF Unfolds, RestOf
<1> HIDE DEF y
<1>6. x # y
  BY <1>3, <1>5
<1>7. sumOf(T \ {y}) = w[x] + sumOf((T \ {y}) \ {x})
  <2>1. T \ {y} \in SUBSET D /\ T \ {y} \notin F /\ x \in T \ {y}
    BY <1>2, <1>3, <1>4, <1>6
  <2> QED BY <2>1
<1>8. sumOf(T \ {x}) = w[y] + sumOf((T \ {x}) \ {y})
  <2>1. T \ {x} \in SUBSET D /\ T \ {x} \notin F /\ y \in T \ {x}
    BY <1>2, <1>3, <1>4, <1>6
  <2> QED BY <2>1
<1> DEFINE both == sumOf((T \ {y}) \ {x})
<1>9. sumOf((T \ {x}) \ {y}) = both
  <2>1. (T \ {x}) \ {y} = (T \ {y}) \ {x}
    OBVIOUS
  <2> QED BY <2>1
<1>10. w[x] \in Int /\ w[y] \in Int
  BY <1>3, <1>4
<1>11. both \in Int
  <2> DEFINE U == (T \ {y}) \ {x}
  <2>1. U \subseteq D /\ IsFiniteSet(U)
    BY <1>4, FS_Subset
  <2>2. \A z \in U : w[z] \in Int
    BY <2>1
  <2> HIDE DEF U
  <2>3. SumFunctionOnSet(w, U) \in Int
    BY <2>1, <2>2, SumIsInt
  <2> QED BY <2>3 DEF U
<1> HIDE DEF sumOf, both
<1>12. sumOf(T) = w[y] + (w[x] + both) /\ w[x] + sumOf(T \ {x}) = w[x] + (w[y] + both)
  BY <1>5, <1>7, <1>8, <1>9 DEF both
<1> QED BY <1>3, <1>10, <1>11, <1>12

\* A term counts where it is one.
LEMMA SumWithout ==
  ASSUME NEW D, IsFiniteSet(D), NEW w, \A x \in D : w[x] \in Int, NEW x
  PROVE  SumFunctionOnSet(w, D) = (IF x \in D THEN w[x] ELSE 0) + SumFunctionOnSet(w, D \ {x})
<1>1. CASE x \in D
  BY <1>1, SumTakesAny
<1>2. CASE x \notin D
  <2> DEFINE s == SumFunctionOnSet(w, D)
  <2>1. SumFunctionOnSet(w, D \ {x}) = s
    <3>1. D \ {x} = D
      BY <1>2
    <3> QED BY <3>1
  <2>2. s \in Int
    BY SumIsInt
  <2> HIDE DEF s
  <2>3. s = (IF x \in D THEN w[x] ELSE 0) + s
    BY <1>2, <2>2
  <2> QED BY <2>1, <2>3 DEF s
<1> QED BY <1>1, <1>2

\* A sum of multiples is the multiples of the sums.
LEMMA SumIsLinear ==
  ASSUME NEW D, IsFiniteSet(D), NEW w, NEW u, NEW v, NEW a \in Int, NEW b \in Int,
         \A x \in D : u[x] \in Int /\ v[x] \in Int /\ w[x] = a * u[x] + b * v[x]
  PROVE  SumFunctionOnSet(w, D) = a * SumFunctionOnSet(u, D) + b * SumFunctionOnSet(v, D)
<1> DEFINE F == {S \in SUBSET D : SumFunctionOnSet(w, S)
                                    # a * SumFunctionOnSet(u, S) + b * SumFunctionOnSet(v, S)}
<1>1. SUFFICES ASSUME F # {} PROVE FALSE
  OBVIOUS
<1>2. PICK T \in F : \A S \in F : S \subseteq T => S = T
  <2>1. F \subseteq SUBSET D
    OBVIOUS
  <2> HIDE DEF F
  <2> QED BY <1>1, <2>1, SmallestSubset
<1>3. /\ T \in SUBSET D /\ IsFiniteSet(T)
      /\ SumFunctionOnSet(w, T) # a * SumFunctionOnSet(u, T) + b * SumFunctionOnSet(v, T)
  BY <1>2, FS_Subset
<1>4. ASSUME T = {} PROVE FALSE
  <2>1. /\ SumFunctionOnSet(w, T) = 0 /\ SumFunctionOnSet(u, T) = 0
        /\ SumFunctionOnSet(v, T) = 0
    BY <1>4, SumOfNone, Zenon
  <2> QED BY <1>3, <2>1
<1> DEFINE x == FirstOf(T)
           rest == RestOf(T)
<1>5. x \in T /\ rest \subseteq T /\ rest # T /\ IsFiniteSet(rest)
  BY <1>3, <1>4, RestIsLess, FS_Subset
<1> DEFINE W == SumFunctionOnSet(w, rest)
           U == SumFunctionOnSet(u, rest)
           V == SumFunctionOnSet(v, rest)
<1>6. W = a * U + b * V
  BY <1>2, <1>5
<1>7. /\ SumFunctionOnSet(w, T) = w[x] + W
      /\ SumFunctionOnSet(u, T) = u[x] + U
      /\ SumFunctionOnSet(v, T) = v[x] + V
  BY <1>3, <1>4, SumUnfolds DEF Unfolds
<1>8. U \in Int /\ V \in Int
  <2>1. \A d \in rest : u[d] \in Int /\ v[d] \in Int
    BY <1>3, <1>5
  <2> HIDE DEF rest
  <2> QED BY <1>5, <2>1, SumIsInt
<1>9. u[x] \in Int /\ v[x] \in Int /\ w[x] = a * u[x] + b * v[x]
  BY <1>3, <1>5
<1> HIDE DEF x, rest, U, V, W
<1>10. /\ a * (u[x] + U) = a * u[x] + a * U
       /\ b * (v[x] + V) = b * v[x] + b * V
  BY <1>8, <1>9
<1>11. /\ a * u[x] \in Int /\ a * U \in Int /\ b * v[x] \in Int /\ b * V \in Int
  BY <1>8, <1>9
<1>12. w[x] + W = a * (u[x] + U) + b * (v[x] + V)
  BY <1>6, <1>9, <1>10, <1>11
<1> QED BY <1>3, <1>7, <1>12

\* The same, for a combination named as one.
Combines(D, w, a, u, b, v) == \A x \in D : u[x] \in Int /\ v[x] \in Int /\ w[x] = a * u[x] + b * v[x]

LEMMA SumCombines ==
  ASSUME NEW D, IsFiniteSet(D), NEW w, NEW u, NEW v, NEW a \in Int, NEW b \in Int,
         Combines(D, w, a, u, b, v)
  PROVE  SumFunctionOnSet(w, D) = a * SumFunctionOnSet(u, D) + b * SumFunctionOnSet(v, D)
BY SumIsLinear DEF Combines

\* What agrees on a set sums to the same on it.
LEMMA SumAgrees ==
  ASSUME NEW D, IsFiniteSet(D), NEW w, NEW u, \A x \in D : u[x] \in Int /\ w[x] = u[x]
  PROVE  SumFunctionOnSet(w, D) = SumFunctionOnSet(u, D)
<1> DEFINE U == SumFunctionOnSet(u, D)
<1>1. U \in Int
  BY SumIsInt
<1>2. \A x \in D : u[x] \in Int /\ u[x] \in Int /\ w[x] = 1 * u[x] + 0 * u[x]
  OBVIOUS
<1>3. SumFunctionOnSet(w, D) = 1 * U + 0 * U
  BY <1>2, SumIsLinear
<1> HIDE DEF U
<1>4. SumFunctionOnSet(w, D) = U
  BY <1>1, <1>3
<1> QED BY <1>4 DEF U

\* Zeros sum to nothing.
LEMMA SumOfZeros ==
  ASSUME NEW D, IsFiniteSet(D), NEW w, \A x \in D : w[x] = 0
  PROVE  SumFunctionOnSet(w, D) = 0
<1> DEFINE U == SumFunctionOnSet(w, D)
<1>1. U \in Int
  BY SumIsInt
<1>2. \A x \in D : w[x] \in Int /\ w[x] \in Int /\ w[x] = 0 * w[x] + 0 * w[x]
  OBVIOUS
<1>3. U = 0 * U + 0 * U
  BY <1>2, SumIsLinear
<1> HIDE DEF U
<1>4. U = 0
  BY <1>1, <1>3
<1> QED BY <1>4 DEF U

\* A sum grows with its terms.
LEMMA SumGrows ==
  ASSUME NEW D, IsFiniteSet(D), NEW u, NEW v,
         \A x \in D : u[x] \in Int /\ v[x] \in Int /\ u[x] <= v[x]
  PROVE  SumFunctionOnSet(u, D) <= SumFunctionOnSet(v, D)
<1> DEFINE F == {S \in SUBSET D : ~(SumFunctionOnSet(u, S) <= SumFunctionOnSet(v, S))}
<1>1. SUFFICES ASSUME F # {} PROVE FALSE
  OBVIOUS
<1>2. PICK T \in F : \A S \in F : S \subseteq T => S = T
  <2>1. F \subseteq SUBSET D
    OBVIOUS
  <2> HIDE DEF F
  <2> QED BY <1>1, <2>1, SmallestSubset
<1>3. /\ T \in SUBSET D /\ IsFiniteSet(T)
      /\ ~(SumFunctionOnSet(u, T) <= SumFunctionOnSet(v, T))
  BY <1>2, FS_Subset
<1>4. ASSUME T = {} PROVE FALSE
  <2>1. SumFunctionOnSet(u, T) = 0 /\ SumFunctionOnSet(v, T) = 0
    BY <1>4, SumOfNone, Zenon
  <2> QED BY <1>3, <2>1
<1> DEFINE x == FirstOf(T)
           rest == RestOf(T)
<1>5. x \in T /\ rest \subseteq T /\ rest # T /\ IsFiniteSet(rest)
  BY <1>3, <1>4, RestIsLess, FS_Subset
<1>6. SumFunctionOnSet(u, rest) <= SumFunctionOnSet(v, rest)
  BY <1>2, <1>5
<1>7. /\ SumFunctionOnSet(u, T) = u[x] + SumFunctionOnSet(u, rest)
      /\ SumFunctionOnSet(v, T) = v[x] + SumFunctionOnSet(v, rest)
  BY <1>3, <1>4, SumUnfolds DEF Unfolds
<1>8. SumFunctionOnSet(u, rest) \in Int /\ SumFunctionOnSet(v, rest) \in Int
  <2>1. \A d \in rest : u[d] \in Int /\ v[d] \in Int
    BY <1>3, <1>5
  <2> HIDE DEF rest
  <2> QED BY <1>5, <2>1, SumIsInt
<1>9. u[x] \in Int /\ v[x] \in Int /\ u[x] <= v[x]
  BY <1>3, <1>5
<1> HIDE DEF x, rest
<1> QED BY <1>3, <1>6, <1>7, <1>8, <1>9

LEMMA SumIsNat ==
  ASSUME NEW D, IsFiniteSet(D), NEW w, \A x \in D : w[x] \in Nat
  PROVE  SumFunctionOnSet(w, D) \in Nat
<1> DEFINE zero == [x \in D |-> 0]
<1>1. \A x \in D : zero[x] \in Int /\ w[x] \in Int /\ zero[x] <= w[x]
  OBVIOUS
<1>2. \A x \in D : zero[x] = 0
  OBVIOUS
<1> HIDE DEF zero
<1>3. SumFunctionOnSet(zero, D) = 0
  BY <1>2, SumOfZeros
<1>4. SumFunctionOnSet(zero, D) <= SumFunctionOnSet(w, D)
  BY <1>1, SumGrows
<1>5. SumFunctionOnSet(w, D) \in Int
  BY SumIsInt
<1> QED BY <1>3, <1>4, <1>5

\* The ones of a set count its members.
LEMMA SumCounts ==
  ASSUME NEW D, IsFiniteSet(D), NEW P, NEW w, \A x \in D : w[x] = IF x \in P THEN 1 ELSE 0
  PROVE  SumFunctionOnSet(w, D) = Cardinality(D \cap P)
<1> DEFINE F == {S \in SUBSET D : SumFunctionOnSet(w, S) # Cardinality(S \cap P)}
<1>1. SUFFICES ASSUME F # {} PROVE FALSE
  OBVIOUS
<1>2. PICK T \in F : \A S \in F : S \subseteq T => S = T
  <2>1. F \subseteq SUBSET D
    OBVIOUS
  <2> HIDE DEF F
  <2> QED BY <1>1, <2>1, SmallestSubset
<1>3. T \in SUBSET D /\ IsFiniteSet(T) /\ SumFunctionOnSet(w, T) # Cardinality(T \cap P)
  BY <1>2, FS_Subset
<1>4. ASSUME T = {} PROVE FALSE
  <2>1. SumFunctionOnSet(w, T) = 0
    BY <1>4, SumOfNone, Zenon
  <2>2. T \cap P = {} /\ Cardinality({}) = 0
    BY <1>4, FS_EmptySet
  <2> QED BY <1>3, <2>1, <2>2
<1> DEFINE x == FirstOf(T)
           rest == RestOf(T)
<1>5. x \in T /\ rest = T \ {x} /\ rest # T /\ rest \subseteq T /\ IsFiniteSet(rest)
  BY <1>3, <1>4, RestIsLess, FS_Subset DEF RestOf
<1>6. SumFunctionOnSet(w, rest) = Cardinality(rest \cap P)
  BY <1>2, <1>5
<1>7. SumFunctionOnSet(w, T) = w[x] + SumFunctionOnSet(w, rest)
  BY <1>3, <1>4, SumUnfolds DEF Unfolds
<1>8. w[x] = IF x \in P THEN 1 ELSE 0
  BY <1>3, <1>5
<1> HIDE DEF x, rest
<1>9. IsFiniteSet(T \cap P) /\ IsFiniteSet(rest \cap P)
  BY <1>3, <1>5, FS_Subset
<1>10. Cardinality(rest \cap P) \in Nat
  BY <1>9, FS_CardinalityType
<1>11. CASE x \in P
  <2>1. rest \cap P = (T \cap P) \ {x} /\ x \in T \cap P
    BY <1>5, <1>11
  <2>2. Cardinality(rest \cap P) = Cardinality(T \cap P) - 1
    <3> DEFINE here == T \cap P
    <3>1. IsFiniteSet(here) /\ x \in here
      BY <1>9, <2>1
    <3>2. rest \cap P = here \ {x}
      BY <2>1
    <3> HIDE DEF here
    <3>3. Cardinality(here \ {x}) = Cardinality(here) - 1
      BY <3>1, FS_RemoveElement
    <3> QED BY <3>2, <3>3 DEF here
  <2>3. Cardinality(T \cap P) \in Nat
    BY <1>9, FS_CardinalityType
  <2> QED BY <1>3, <1>6, <1>7, <1>8, <1>10, <1>11, <2>2, <2>3
<1>12. CASE x \notin P
  <2>1. Cardinality(rest \cap P) = Cardinality(T \cap P)
    <3>1. rest \cap P = T \cap P
      BY <1>5, <1>12
    <3> QED BY <3>1, Zenon
  <2> QED BY <1>3, <1>6, <1>7, <1>8, <1>10, <1>12, <2>1
<1> QED BY <1>11, <1>12

-----------------------------------------------------------------------------
(* The first of an order                                                   *)

\* R orders D strictly and wholly.
Orders(R, D) ==
  /\ \A i \in D : <<i, i>> \notin R
  /\ \A i, j \in D : i # j => <<i, j>> \in R \/ <<j, i>> \in R
  /\ \A i, j, k \in D : <<i, j>> \in R /\ <<j, k>> \in R => <<i, k>> \in R

Ahead(R, S, i) == {j \in S : <<j, i>> \in R}
FirstOnes(R, S, n) == {i \in S : Cardinality(Ahead(R, S, i)) < n}

LEMMA HasLast ==
  ASSUME NEW D, IsFiniteSet(D), D # {}, NEW R, Orders(R, D)
  PROVE  \E z \in D : \A i \in D \ {z} : <<i, z>> \in R
<1> DEFINE after(i) == {j \in D : <<i, j>> \in R}
           F == {after(i) : i \in D}
<1>1. PICK T \in F : \A S \in F : S \subseteq T => S = T
  <2>1. F \subseteq SUBSET D /\ F # {}
    OBVIOUS
  <2> HIDE DEF F
  <2> QED BY <2>1, SmallestSubset
<1>2. PICK z \in D : T = after(z)
  BY <1>1
<1>3. ASSUME NEW i \in D \ {z}, <<i, z>> \notin R PROVE FALSE
  <2>1. <<z, i>> \in R
    BY <1>3 DEF Orders
  <2>2. after(i) \subseteq after(z) /\ i \in after(z) /\ i \notin after(i)
    BY <2>1 DEF Orders
  <2>3. after(i) \in F
    OBVIOUS
  <2> QED BY <1>1, <1>2, <2>2, <2>3
<1> QED BY <1>3

\* n of a finite set have fewer than n ahead of them.
LEMMA FirstOnesCount ==
  ASSUME NEW D, IsFiniteSet(D), NEW R, Orders(R, D)
  PROVE  \A n \in 0..Cardinality(D) : Cardinality(FirstOnes(R, D, n)) = n
<1> DEFINE Counted(S) == \A n \in 0..Cardinality(S) : Cardinality(FirstOnes(R, S, n)) = n
           F == {S \in SUBSET D : ~Counted(S)}
<1>1. SUFFICES ASSUME F # {} PROVE FALSE
  OBVIOUS
<1>2. PICK T \in F : \A S \in F : S \subseteq T => S = T
  <2>1. F \subseteq SUBSET D
    OBVIOUS
  <2> HIDE DEF F
  <2> QED BY <1>1, <2>1, SmallestSubset
<1>3. PICK n \in 0..Cardinality(T) : Cardinality(FirstOnes(R, T, n)) # n
  BY <1>2
<1>4. T \in SUBSET D /\ IsFiniteSet(T) /\ Orders(R, T)
  BY <1>2, FS_Subset DEF Orders
<1>5. T # {}
  <2>1. ASSUME T = {} PROVE FALSE
    <3>1. Cardinality(T) = 0 /\ FirstOnes(R, T, n) = {}
      BY <2>1, FS_EmptySet DEF FirstOnes
    <3>2. n = 0 /\ Cardinality(FirstOnes(R, T, n)) = 0
      BY <2>1, <3>1, FS_EmptySet
    <3> QED BY <1>3, <3>2
  <2> QED BY <2>1
<1>6. PICK z \in T : \A i \in T \ {z} : <<i, z>> \in R
  BY <1>4, <1>5, HasLast
<1> DEFINE S == T \ {z}
<1>7. S \in SUBSET D /\ IsFiniteSet(S) /\ Counted(S) /\ z \notin S
  <2>1. S \in SUBSET D /\ S # T /\ S \subseteq T /\ z \notin S
    BY <1>4, <1>6
  <2>2. IsFiniteSet(S)
    BY <1>4, <2>1, FS_Subset
  <2>3. S \notin F
    BY <1>2, <2>1
  <2> HIDE DEF Counted
  <2> QED BY <2>1, <2>2, <2>3
<1>8. Cardinality(S) \in Nat /\ Cardinality(T) = Cardinality(S) + 1
  <2>1. Cardinality(S) = Cardinality(T) - 1
    BY <1>4, <1>6, FS_RemoveElement
  <2> QED BY <1>4, <1>7, <2>1, FS_CardinalityType
<1>9. \A i \in S : Ahead(R, T, i) = Ahead(R, S, i)
  BY <1>4, <1>6 DEF Ahead, Orders
<1>10. Ahead(R, T, z) = S
  BY <1>4, <1>6 DEF Ahead, Orders
<1> HIDE DEF S, F
<1>11. CASE n \in 0..Cardinality(S)
  <2>1. ~(Cardinality(S) < n)
    BY <1>8, <1>11
  <2>2. \A i \in T : i = z \/ i \in S
    BY DEF S
  <2>3. S \subseteq T
    BY DEF S
  <2>4. FirstOnes(R, T, n) = FirstOnes(R, S, n)
    BY <1>9, <1>10, <2>1, <2>2, <2>3 DEF FirstOnes
  <2> QED BY <1>3, <1>7, <1>11, <2>4, Zenon
<1>12. CASE n = Cardinality(S) + 1
  <2>1. \A i \in S : Cardinality(Ahead(R, S, i)) < n
    <3> SUFFICES ASSUME NEW i \in S PROVE Cardinality(Ahead(R, S, i)) < n
      OBVIOUS
    <3>1. Ahead(R, S, i) \subseteq S
      BY DEF Ahead
    <3>2. Cardinality(Ahead(R, S, i)) <= Cardinality(S) /\ Cardinality(Ahead(R, S, i)) \in Nat
      BY <1>7, <3>1, FS_Subset, FS_CardinalityType
    <3> QED BY <1>8, <1>12, <3>2
  <2>2. FirstOnes(R, T, n) = T
    <3>1. \A i \in T : Cardinality(Ahead(R, T, i)) < n
      <4> SUFFICES ASSUME NEW i \in T PROVE Cardinality(Ahead(R, T, i)) < n
        OBVIOUS
      <4>1. CASE i = z
        BY <1>8, <1>10, <1>12, <4>1
      <4>2. CASE i # z
        BY <1>9, <2>1, <4>2 DEF S
      <4> QED BY <4>1, <4>2
    <3> QED BY <3>1 DEF FirstOnes
  <2> QED BY <1>3, <1>8, <1>12, <2>2
<1> QED BY <1>3, <1>8, <1>11, <1>12

-----------------------------------------------------------------------------
(* Division and rounding                                                   *)

LEMMA Divides ==
  ASSUME NEW n \in Nat, NEW d \in Nat \ {0}
  PROVE  /\ n \div d \in Nat /\ n % d \in Nat /\ n % d < d
         /\ n = (n \div d) * d + (n % d)
OBVIOUS

\* The repair turns a quotient that is off by one either way into the exact one.
LEMMA RepairIsExact ==
  ASSUME NEW n \in Nat, NEW d \in Nat \ {0}, NEW q \in Quotients(n, d)
  PROVE  Repair(n, d, q) = [q |-> n \div d, r |-> n % d]
<1> DEFINE k == n \div d
           r == n % d
<1>1. k \in Nat /\ r \in Nat /\ r < d /\ n = k * d + r
  BY Divides
<1>2. q \in {k - 1, k, k + 1}
  BY DEF Quotients
<1> HIDE DEF k, r
<1>3. /\ (k - 1) * d = k * d - d /\ (k + 1) * d = k * d + d /\ k * d \in Int
  BY <1>1
<1>4. CASE q = k - 1
  <2>1. n - q * d = r + d
    BY <1>1, <1>3, <1>4
  <2>2. Repair(n, d, q) = [q |-> q + 1, r |-> (r + d) - d]
    BY <1>1, <2>1 DEF Repair
  <2>3. q + 1 = k /\ (r + d) - d = r
    BY <1>1, <1>4
  <2> QED BY <2>2, <2>3 DEF k, r
<1>5. CASE q = k
  <2>1. n - q * d = r
    BY <1>1, <1>3, <1>5
  <2>2. Repair(n, d, q) = [q |-> q, r |-> r]
    BY <1>1, <2>1 DEF Repair
  <2> QED BY <1>5, <2>2 DEF k, r
<1>6. CASE q = k + 1
  <2>1. n - q * d = r - d
    BY <1>1, <1>3, <1>6
  <2>2. Repair(n, d, q) = [q |-> q - 1, r |-> (r - d) + d]
    BY <1>1, <2>1 DEF Repair
  <2>3. q - 1 = k /\ (r - d) + d = r
    BY <1>1, <1>6
  <2> QED BY <2>2, <2>3 DEF k, r
<1> QED BY <1>2, <1>4, <1>5, <1>6

LEMMA FloorDivides ==
  ASSUME NEW n \in Nat, NEW d \in Nat \ {0}
  PROVE  /\ floorDivMod(n, d).q \in Nat /\ floorDivMod(n, d).r \in Nat
         /\ floorDivMod(n, d).r < d
         /\ n = floorDivMod(n, d).q * d + floorDivMod(n, d).r
<1>1. floorDivMod(n, d) = [q |-> n \div d, r |-> n % d]
  BY RepairIsExact DEF floorDivMod, Quotients
<1>2. floorDivMod(n, d).q = n \div d /\ floorDivMod(n, d).r = n % d
  BY <1>1
<1> QED BY <1>2, Divides

LEMMA RoundingIsExact ==
  ASSUME NEW n \in Nat, NEW d \in Nat \ {0}
  PROVE  RoundsExactly(n, d)
<1> SUFFICES ASSUME roundHalfUp(n, d) # Throws
             PROVE  LET v == roundHalfUp(n, d)
                    IN  2 * n < (2 * v + 1) * d /\ (2 * v - 1) * d <= 2 * n
  BY RepairIsExact DEF RoundsExactly
<1> DEFINE f == floorDivMod(n, d)
           q == f.q
           r == f.r
           v == roundHalfUp(n, d)
<1>1. q \in Nat /\ r \in Nat /\ r < d /\ n = q * d + r
  BY FloorDivides
<1>2. v = IF r >= d - r THEN q + 1 ELSE q
  BY DEF roundHalfUp, paise
<1> HIDE DEF q, r, v
<1>3. /\ q * d \in Int
      /\ (2 * q + 1) * d = 2 * (q * d) + d /\ (2 * q - 1) * d = 2 * (q * d) - d
      /\ (2 * (q + 1) + 1) * d = 2 * (q * d) + 3 * d /\ (2 * (q + 1) - 1) * d = 2 * (q * d) + d
  BY <1>1
<1>4. 2 * n = 2 * (q * d) + 2 * r
  BY <1>1, <1>3
<1>5. CASE r >= d - r
  <2>1. v = q + 1 /\ 2 * r >= d
    BY <1>1, <1>2, <1>5
  <2>2. 2 * n < (2 * v + 1) * d /\ (2 * v - 1) * d <= 2 * n
    BY <1>1, <1>3, <1>4, <2>1
  <2> QED BY <2>2 DEF v
<1>6. CASE ~(r >= d - r)
  <2>1. v = q /\ 2 * r < d
    BY <1>1, <1>2, <1>6
  <2>2. 2 * n < (2 * v + 1) * d /\ (2 * v - 1) * d <= 2 * n
    BY <1>1, <1>3, <1>4, <2>1
  <2> QED BY <2>2 DEF v
<1> QED BY <1>5, <1>6

-----------------------------------------------------------------------------
(* Splitting and allocating                                                *)

LEMMA TotalIsSum == \A w : Total(w) = SumFunctionOnSet(w, DOMAIN w)
BY DEF Total, SumFunction, FoldFunction, SumFunctionOnSet

LEMMA MagnitudeIsNat ==
  ASSUME NEW v \in Int
  PROVE  Magnitude(v) \in Nat /\ v = Signed(v, Magnitude(v)) /\ Magnitude(0 - v) = Magnitude(v)
BY DEF Magnitude, Signed

\* Parts of a magnitude, signed as the total is, are parts of the total.
LEMMA SignedPartsAddUp ==
  ASSUME NEW D, IsFiniteSet(D), NEW total \in Int, NEW v, NEW shares,
         \A i \in D : v[i] \in Nat /\ shares[i] = Signed(total, v[i]),
         SumFunctionOnSet(v, D) = Magnitude(total)
  PROVE  SumFunctionOnSet(shares, D) = total
<1> DEFINE V == SumFunctionOnSet(v, D)
           sign == IF total < 0 THEN 0 - 1 ELSE 1
<1>1. sign \in Int
  OBVIOUS
<1>2. \A i \in D : v[i] \in Int /\ v[i] \in Int /\ shares[i] = sign * v[i] + 0 * v[i]
  BY DEF Signed
<1> HIDE DEF sign
<1>3. SumFunctionOnSet(shares, D) = sign * V + 0 * V
  BY <1>1, <1>2, SumIsLinear
<1>4. V = Magnitude(total) /\ V \in Nat
  BY MagnitudeIsNat
<1> HIDE DEF V
<1> QED BY <1>3, <1>4 DEF sign, Magnitude

\* The parts of a split add up and differ by one at most, in order.
LEMMA SplitAddsUp ==
  ASSUME NEW total \in Int, NEW n \in Nat \ {0}, split(total, n) # Throws
  PROVE  /\ Total(split(total, n)) = total
         /\ \A i, j \in DOMAIN split(total, n) :
              i < j => Magnitude(split(total, n)[i]) - Magnitude(split(total, n)[j]) \in {0, 1}
<1> DEFINE m == Magnitude(total)
           f == floorDivMod(m, n)
           q == f.q
           r == f.r
           v == [i \in 1..n |-> IF i <= r THEN q + 1 ELSE q]
           parts == split(total, n)
<1>1. m \in Nat
  BY MagnitudeIsNat
<1> HIDE DEF m
<1>2. q \in Nat /\ r \in Nat /\ r < n /\ m = q * n + r
  BY <1>1, FloorDivides
<1>3. parts = [i \in 1..n |-> Signed(total, v[i])]
  BY DEF split, m
<1> HIDE DEF f, q, r, parts
<1>4. IsFiniteSet(1..n) /\ Cardinality(1..n) = n
  BY FS_Interval
<1>5. SumFunctionOnSet(v, 1..n) = m
  <2> DEFINE D == 1..n
             one == [i \in D |-> 1]
             extra == [i \in D |-> IF i \in 1..r THEN 1 ELSE 0]
  <2>1. \A i \in D : one[i] \in Int /\ extra[i] \in Int /\ v[i] = q * one[i] + 1 * extra[i]
    BY <1>2
  <2>2. \A i \in D : one[i] = IF i \in D THEN 1 ELSE 0
    OBVIOUS
  <2>3. \A i \in D : extra[i] = IF i \in 1..r THEN 1 ELSE 0
    OBVIOUS
  <2>4. D \cap D = D /\ D \cap (1..r) = 1..r
    BY <1>2
  <2>5. Cardinality(1..r) = r
    <3>1. 1 \in Int /\ r \in Int
      BY <1>2
    <3> QED BY <1>2, <3>1, FS_Interval
  <2>6. IsFiniteSet(D) /\ Cardinality(D) = n
    BY <1>4
  <2> HIDE DEF D, one, extra, v
  <2>7. SumFunctionOnSet(one, D) = n
    <3>1. SumFunctionOnSet(one, D) = Cardinality(D \cap D)
      BY <2>2, <2>6, SumCounts
    <3> QED BY <2>4, <2>6, <3>1
  <2>8. SumFunctionOnSet(extra, D) = r
    <3>1. SumFunctionOnSet(extra, D) = Cardinality(D \cap (1..r))
      BY <2>3, <2>6, SumCounts
    <3> QED BY <2>4, <2>5, <3>1
  <2>9. SumFunctionOnSet(v, D) = q * SumFunctionOnSet(one, D) + 1 * SumFunctionOnSet(extra, D)
    <3>1. q \in Int /\ 1 \in Int
      BY <1>2
    <3>2. Combines(D, v, q, one, 1, extra)
      BY <2>1 DEF Combines
    <3> QED BY <2>6, <3>1, <3>2, SumCombines
  <2>10. SumFunctionOnSet(v, D) = q * n + r
    BY <1>2, <2>7, <2>8, <2>9
  <2> QED BY <1>2, <2>10 DEF D
<1>6. \A i \in 1..n : v[i] \in Nat /\ parts[i] = Signed(total, v[i])
  BY <1>2, <1>3
<1>7. DOMAIN parts = 1..n
  BY <1>3
<1> HIDE DEF v
<1>8. SumFunctionOnSet(parts, 1..n) = total
  BY <1>4, <1>5, <1>6, SignedPartsAddUp DEF m
<1>9. Total(parts) = total
  BY <1>7, <1>8, TotalIsSum
<1>10. \A i \in 1..n : Magnitude(parts[i]) = v[i]
  BY <1>6 DEF Magnitude, Signed
<1>11. ASSUME NEW i \in DOMAIN parts, NEW j \in DOMAIN parts, i < j
       PROVE  Magnitude(parts[i]) - Magnitude(parts[j]) \in {0, 1}
  <2>1. i \in 1..n /\ j \in 1..n
    BY <1>7
  <2>2. v[i] - v[j] \in {0, 1}
    BY <1>2, <1>11, <2>1 DEF v
  <2> QED BY <1>10, <2>1, <2>2
<1> QED BY <1>9, <1>11 DEF parts

\* What the entries of an allocation are: each product of the magnitude and a weight,
\* divided by the sum of the weights.
Divided(D, e, w, M, W) ==
  /\ IsFiniteSet(D) /\ D \subseteq Int /\ DOMAIN e = D
  /\ M \in Nat /\ W \in Nat \ {0} /\ SumFunctionOnSet(w, D) = W
  /\ \A i \in D : /\ w[i] \in Nat /\ e[i].q \in Nat /\ e[i].r \in Nat /\ e[i].r < W
                  /\ M * w[i] = W * e[i].q + e[i].r

QuotientsOf(D, e) == [i \in D |-> e[i].q]
RemaindersOf(D, e) == [i \in D |-> e[i].r]
WithRemainder(D, e) == {i \in D : e[i].r > 0}
Leftover(D, e, M) == M - SumFunctionOnSet(QuotientsOf(D, e), D)
Given(e, L, i) == IF Served(e, i, L) THEN e[i].q + 1 ELSE e[i].q

LEMMA ProductSign ==
  ASSUME NEW W \in Nat \ {0}, NEW L \in Int, W * L >= 0
  PROVE  L >= 0
<1>1. ASSUME L <= 0 - 1 PROVE FALSE
  <2>1. PICK k \in Nat : L = 0 - 1 - k
    <3>1. 0 - 1 - L \in Nat /\ L = 0 - 1 - (0 - 1 - L)
      BY <1>1
    <3> QED BY <3>1
  <2>2. W * L = 0 - W - W * k /\ W * k >= 0 /\ W * k \in Int
    BY <2>1
  <2> QED BY <2>2
<1> QED BY <1>1

\* What the quotients leave is the remainders' share of the whole, and there are enough
\* entries with a remainder to take it.
LEMMA LeftoverFits ==
  ASSUME NEW D, NEW e, NEW w, NEW M, NEW W, Divided(D, e, w, M, W)
  PROVE  /\ Leftover(D, e, M) \in Nat
         /\ Leftover(D, e, M) <= Cardinality(WithRemainder(D, e))
<1> DEFINE qs == QuotientsOf(D, e)
           rs == RemaindersOf(D, e)
           P == WithRemainder(D, e)
           mw == [i \in D |-> M * w[i]]
           ones == [i \in D |-> IF i \in P THEN 1 ELSE 0]
           caps == [i \in D |-> (W - 1) * ones[i]]
           Q == SumFunctionOnSet(qs, D)
           R == SumFunctionOnSet(rs, D)
           L == Leftover(D, e, M)
           c == Cardinality(P)
<1>1. /\ IsFiniteSet(D) /\ M \in Nat /\ W \in Nat \ {0} /\ W - 1 \in Nat
      /\ SumFunctionOnSet(w, D) = W
  BY DEF Divided
<1>2. \A i \in D : qs[i] \in Nat /\ rs[i] \in Nat
  BY DEF Divided, QuotientsOf, RemaindersOf
<1>3. Combines(D, mw, M, w, 0, w)
  <2> SUFFICES ASSUME NEW i \in D
               PROVE  w[i] \in Int /\ mw[i] = M * w[i] + 0 * w[i]
    BY DEF Combines
  <2>1. w[i] \in Nat /\ M * w[i] \in Int
    BY <1>1 DEF Divided
  <2> QED BY <2>1
<1>4. Combines(D, mw, W, qs, 1, rs)
  <2> SUFFICES ASSUME NEW i \in D
               PROVE  qs[i] \in Int /\ rs[i] \in Int /\ mw[i] = W * qs[i] + 1 * rs[i]
    BY DEF Combines
  <2>1. mw[i] = W * e[i].q + e[i].r /\ qs[i] = e[i].q /\ rs[i] = e[i].r
    BY DEF Divided, QuotientsOf, RemaindersOf
  <2> QED BY <1>2, <2>1
<1>5. Combines(D, caps, W - 1, ones, 0, ones)
  <2> SUFFICES ASSUME NEW i \in D
               PROVE  ones[i] \in Int /\ caps[i] = (W - 1) * ones[i] + 0 * ones[i]
    BY DEF Combines
  <2>1. ones[i] \in Int /\ caps[i] = (W - 1) * ones[i]
    OBVIOUS
  <2> HIDE DEF ones, caps
  <2>2. (W - 1) * ones[i] \in Int
    BY <1>1, <2>1
  <2> QED BY <2>1, <2>2
<1>6. \A i \in D : rs[i] \in Int /\ caps[i] \in Int /\ rs[i] <= caps[i]
  <2> SUFFICES ASSUME NEW i \in D PROVE rs[i] \in Int /\ caps[i] \in Int /\ rs[i] <= caps[i]
    OBVIOUS
  <2>1. rs[i] \in Nat /\ rs[i] < W /\ (i \notin P => rs[i] = 0)
    <3>1. rs[i] = e[i].r /\ (i \in P <=> e[i].r > 0)
      BY DEF RemaindersOf, WithRemainder
    <3>2. e[i].r \in Nat /\ e[i].r < W
      BY DEF Divided
    <3> HIDE DEF rs, P
    <3> QED BY <3>1, <3>2
  <2>2. caps[i] = (W - 1) * ones[i] /\ ones[i] = IF i \in P THEN 1 ELSE 0
    OBVIOUS
  <2> HIDE DEF rs, caps, ones, P
  <2>3. caps[i] = IF i \in P THEN W - 1 ELSE 0
    BY <1>1, <2>2
  <2> QED BY <1>1, <2>1, <2>3
<1>7. \A i \in D : ones[i] = IF i \in P THEN 1 ELSE 0
  OBVIOUS
<1>8. D \cap P = P /\ IsFiniteSet(P) /\ c \in Nat
  <2>1. P \subseteq D
    BY DEF WithRemainder
  <2> HIDE DEF P
  <2> QED BY <1>1, <2>1, FS_Subset, FS_CardinalityType
<1>9. L = M - Q
  BY DEF Leftover
<1> HIDE DEF qs, rs, P, mw, ones, caps, L
<1>10. SumFunctionOnSet(mw, D) = M * W + 0 * W
  <2>1. M \in Int /\ 0 \in Int
    BY <1>1
  <2>2. SumFunctionOnSet(mw, D) = M * SumFunctionOnSet(w, D) + 0 * SumFunctionOnSet(w, D)
    BY <1>1, <1>3, <2>1, SumCombines
  <2> QED BY <1>1, <2>2
<1>11. SumFunctionOnSet(mw, D) = W * Q + 1 * R
  <2>1. W \in Int /\ 1 \in Int
    BY <1>1
  <2> QED BY <1>1, <1>4, <2>1, SumCombines
<1>12. SumFunctionOnSet(ones, D) = c
  <2>1. SumFunctionOnSet(ones, D) = Cardinality(D \cap P)
    BY <1>1, <1>7, SumCounts
  <2> QED BY <1>8, <2>1
<1>13. SumFunctionOnSet(caps, D) = (W - 1) * c + 0 * c
  <2>1. W - 1 \in Int /\ 0 \in Int
    BY <1>1
  <2>2. SumFunctionOnSet(caps, D)
          = (W - 1) * SumFunctionOnSet(ones, D) + 0 * SumFunctionOnSet(ones, D)
    BY <1>1, <1>5, <2>1, SumCombines
  <2> QED BY <1>12, <2>2
<1>14. R <= (W - 1) * c
  <2>1. R <= SumFunctionOnSet(caps, D)
    BY <1>1, <1>6, SumGrows
  <2>2. (W - 1) * c + 0 * c = (W - 1) * c
    BY <1>1, <1>8
  <2> QED BY <1>13, <2>1, <2>2
<1>15. Q \in Nat /\ R \in Nat
  BY <1>1, <1>2, SumIsNat
<1> HIDE DEF Q, R, c
<1>16. L \in Int /\ W * L = R
  <2>1. M * W + 0 * W = W * Q + 1 * R
    BY <1>10, <1>11
  <2>2. W * (M - Q) = M * W - W * Q /\ M * W \in Int /\ W * Q \in Int
    BY <1>1, <1>15
  <2> QED BY <1>1, <1>9, <1>15, <2>1, <2>2
<1>17. L >= 0
  BY <1>1, <1>15, <1>16, ProductSign
<1>18. L <= c
  <2>1. W * (c - L) = W * c - W * L /\ (W - 1) * c = W * c - c /\ W * c \in Int
    BY <1>1, <1>8, <1>16
  <2>2. W * (c - L) >= c /\ c - L \in Int
    BY <1>8, <1>14, <1>15, <1>16, <2>1
  <2>3. c - L >= 0
    BY <1>1, <1>8, <2>2, ProductSign
  <2> QED BY <1>8, <1>16, <2>3
<1> QED BY <1>16, <1>17, <1>18 DEF L, c, P

\* The order of largest remainders is one.
Precedes(D, e) == {p \in D \X D : Before(e, p[1], p[2])}

LEMMA PrecedesOrders ==
  ASSUME NEW D, NEW e, D \subseteq Int, \A i \in D : e[i].r \in Int
  PROVE  Orders(Precedes(D, e), D)
<1>1. \A i, j \in D : <<i, j>> \in Precedes(D, e) <=> Before(e, i, j)
  BY DEF Precedes
<1>2. \A i \in D : i \in Int /\ e[i].r \in Int
  OBVIOUS
<1>3. \A i, j, k \in D :
        /\ ~Before(e, i, i)
        /\ i # j => Before(e, i, j) \/ Before(e, j, i)
        /\ Before(e, i, j) /\ Before(e, j, k) => Before(e, i, k)
  <2> SUFFICES ASSUME NEW i \in D, NEW j \in D, NEW k \in D
               PROVE  /\ ~Before(e, i, i)
                      /\ i # j => Before(e, i, j) \/ Before(e, j, i)
                      /\ Before(e, i, j) /\ Before(e, j, k) => Before(e, i, k)
    OBVIOUS
  <2>1. /\ i \in Int /\ j \in Int /\ k \in Int
        /\ e[i].r \in Int /\ e[j].r \in Int /\ e[k].r \in Int
    BY <1>2
  <2> QED BY <2>1 DEF Before
<1> QED BY <1>1, <1>3 DEF Orders

LEMMA ServedAreFirst ==
  ASSUME NEW D, NEW e, NEW L, DOMAIN e = D
  PROVE  /\ \A i \in D : /\ {j \in DOMAIN e : Before(e, j, i)} = Ahead(Precedes(D, e), D, i)
                         /\ Served(e, i, L) <=> i \in FirstOnes(Precedes(D, e), D, L)
<1> SUFFICES ASSUME NEW i \in D
             PROVE  /\ {j \in DOMAIN e : Before(e, j, i)} = Ahead(Precedes(D, e), D, i)
                    /\ Served(e, i, L) <=> i \in FirstOnes(Precedes(D, e), D, L)
  OBVIOUS
<1>1. {j \in DOMAIN e : Before(e, j, i)} = Ahead(Precedes(D, e), D, i)
  BY DEF Ahead, Precedes
<1> QED BY <1>1 DEF Served, FirstOnes

\* An entry before one that is served is served.
LEMMA EarlierAreServed ==
  ASSUME NEW D, NEW e, NEW L \in Int, IsFiniteSet(D), DOMAIN e = D, D \subseteq Int,
         \A i \in D : e[i].r \in Int,
         NEW i \in D, NEW j \in D, Before(e, i, j), Served(e, j, L)
  PROVE  Served(e, i, L)
<1> DEFINE front(k) == {h \in DOMAIN e : Before(e, h, k)}
<1>1. front(i) \subseteq front(j)
  <2> SUFFICES ASSUME NEW h \in D, Before(e, h, i) PROVE Before(e, h, j)
    OBVIOUS
  <2>1. /\ h \in Int /\ i \in Int /\ j \in Int
        /\ e[h].r \in Int /\ e[i].r \in Int /\ e[j].r \in Int
    OBVIOUS
  <2> QED BY <2>1 DEF Before
<1>2. IsFiniteSet(front(j))
  BY FS_Subset
<1> HIDE DEF front
<1>3. /\ Cardinality(front(i)) <= Cardinality(front(j))
      /\ Cardinality(front(i)) \in Nat /\ Cardinality(front(j)) \in Nat
  BY <1>1, <1>2, FS_Subset, FS_CardinalityType
<1>4. Cardinality(front(j)) < L
  BY DEF Served, front
<1> QED BY <1>3, <1>4 DEF Served, front

\* Only an entry with a remainder is served, and what is given adds up.
LEMMA LargestRemainders ==
  ASSUME NEW D, NEW e, NEW w, NEW M, NEW W, Divided(D, e, w, M, W), NEW v,
         \A i \in D : v[i] = Given(e, Leftover(D, e, M), i)
  PROVE  /\ \A i \in D : Served(e, i, Leftover(D, e, M)) => e[i].r > 0
         /\ SumFunctionOnSet(v, D) = M
<1> DEFINE L == Leftover(D, e, M)
           P == WithRemainder(D, e)
           R == Precedes(D, e)
           F == FirstOnes(R, D, L)
           qs == QuotientsOf(D, e)
           ones == [i \in D |-> IF i \in F THEN 1 ELSE 0]
           Q == SumFunctionOnSet(qs, D)
<1>1. IsFiniteSet(D) /\ D \subseteq Int /\ DOMAIN e = D /\ M \in Nat
  BY DEF Divided
<1>2. \A i \in D : e[i].q \in Nat /\ e[i].r \in Nat
  BY DEF Divided
<1>3. L \in Nat /\ L <= Cardinality(P)
  BY LeftoverFits
<1>4. P \subseteq D
  BY DEF WithRemainder
<1>5. Orders(R, D)
  BY <1>1, <1>2, PrecedesOrders
<1>6. \A i \in D : /\ {j \in DOMAIN e : Before(e, j, i)} = Ahead(R, D, i)
                   /\ Served(e, i, L) <=> i \in F
  BY <1>1, ServedAreFirst
<1>7. \A i \in D : qs[i] = e[i].q
  BY DEF QuotientsOf
<1>8. M = Q + L
  <2>1. Q \in Nat
    BY <1>1, <1>2, <1>7, SumIsNat
  <2> QED BY <1>1, <2>1 DEF Leftover
<1>9. \A i \in D : ones[i] = IF i \in F THEN 1 ELSE 0
  OBVIOUS
<1> HIDE DEF L, R, F, qs, ones, Q
<1>10. Cardinality(P) <= Cardinality(D) /\ Cardinality(P) \in Nat /\ Cardinality(D) \in Nat
       /\ IsFiniteSet(P)
  BY <1>1, <1>4, FS_Subset, FS_CardinalityType
<1>11. Cardinality(F) = L
  <2>1. L \in 0..Cardinality(D)
    BY <1>3, <1>10
  <2> QED BY <1>1, <1>5, <2>1, FirstOnesCount DEF F
<1>12. ASSUME NEW i \in D, Served(e, i, L), ~(e[i].r > 0) PROVE FALSE
  <2> DEFINE front == {j \in DOMAIN e : Before(e, j, i)}
  <2>1. e[i].r = 0
    BY <1>2, <1>12
  <2>2. P \subseteq front
    BY <1>1, <2>1 DEF WithRemainder, Before
  <2>3. IsFiniteSet(front)
    BY <1>1, FS_Subset
  <2>4. Cardinality(front) < L
    BY <1>12 DEF Served
  <2> HIDE DEF front, P
  <2>5. Cardinality(P) <= Cardinality(front) /\ Cardinality(front) \in Nat
    BY <2>2, <2>3, FS_Subset, FS_CardinalityType
  <2> QED BY <1>3, <1>10, <2>4, <2>5
<1>13. Combines(D, v, 1, qs, 1, ones)
  <2> SUFFICES ASSUME NEW i \in D
               PROVE  qs[i] \in Int /\ ones[i] \in Int /\ v[i] = 1 * qs[i] + 1 * ones[i]
    BY DEF Combines
  <2>1. v[i] = IF i \in F THEN e[i].q + 1 ELSE e[i].q
    BY <1>6 DEF Given, L
  <2> QED BY <1>2, <1>7, <1>9, <2>1
<1>14. SumFunctionOnSet(v, D) = 1 * Q + 1 * SumFunctionOnSet(ones, D)
  BY <1>1, <1>13, SumCombines DEF Q
<1>15. SumFunctionOnSet(ones, D) = L
  <2>1. SumFunctionOnSet(ones, D) = Cardinality(D \cap F)
    BY <1>1, <1>9, SumCounts
  <2>2. D \cap F = F
    BY DEF F, FirstOnes
  <2> QED BY <1>11, <2>1, <2>2
<1>16. Q \in Nat
  <2>1. \A i \in D : qs[i] \in Nat
    BY <1>2, <1>7
  <2> QED BY <1>1, <2>1, SumIsNat DEF Q
<1>17. SumFunctionOnSet(v, D) = M
  BY <1>3, <1>8, <1>14, <1>15, <1>16
<1> QED BY <1>12, <1>17 DEF L

\* What is given is within one of the exact share, nothing for a zero weight, and in
\* the order of the weights and, among equals, of the indices.
LEMMA SharesAreFair ==
  ASSUME NEW D, NEW e, NEW w, NEW M, NEW W, Divided(D, e, w, M, W), NEW v,
         \A i \in D : v[i] = Given(e, Leftover(D, e, M), i)
  PROVE  /\ \A i \in D : v[i] \in Nat
         /\ \A i \in D : w[i] = 0 => v[i] = 0
         /\ \A i \in D : v[i] * W - M * w[i] < W /\ M * w[i] - v[i] * W < W
         /\ \A i, j \in D : w[i] > w[j] \/ (w[i] = w[j] /\ i < j) => v[i] >= v[j]
<1> DEFINE L == Leftover(D, e, M)
<1>1. IsFiniteSet(D) /\ D \subseteq Int /\ DOMAIN e = D /\ M \in Nat /\ W \in Nat \ {0}
  BY DEF Divided
<1>2. \A i \in D : /\ i \in Int /\ w[i] \in Nat /\ e[i].q \in Nat /\ e[i].r \in Nat
                   /\ e[i].r < W /\ M * w[i] = W * e[i].q + e[i].r
  BY <1>1 DEF Divided
<1>3. L \in Int
  BY LeftoverFits
<1>4. \A i \in D : Served(e, i, L) => e[i].r > 0
  BY LargestRemainders
<1>5. \A i \in D : v[i] = IF Served(e, i, L) THEN e[i].q + 1 ELSE e[i].q
  BY DEF Given
<1>6. \A i, j \in D : Before(e, i, j) /\ Served(e, j, L) => Served(e, i, L)
  <2> HIDE DEF L
  <2>1. \A i \in D : e[i].r \in Int
    BY <1>2
  <2> QED BY <1>1, <1>3, <2>1, EarlierAreServed
<1> HIDE DEF L
<1>7. \A i \in D : v[i] \in Nat
  BY <1>2, <1>5
<1>8. ASSUME NEW i \in D
      PROVE  /\ v[i] * W - M * w[i] < W /\ M * w[i] - v[i] * W < W
             /\ w[i] = 0 => v[i] = 0
  <2> DEFINE q == e[i].q
             r == e[i].r
             x == w[i]
  <2>1. x \in Nat /\ q \in Nat /\ r \in Nat /\ r < W /\ M * x = W * q + r
    BY <1>2
  <2>2. \/ v[i] = q
        \/ v[i] = q + 1 /\ r > 0
    BY <1>4, <1>5
  <2> HIDE DEF q, r, x
  <2>3. W * q \in Nat /\ q * W = W * q /\ (q + 1) * W = W * q + W
    BY <1>1, <2>1
  <2>4. v[i] * W - M * x < W /\ M * x - v[i] * W < W
    <3>1. CASE v[i] = q
      BY <1>1, <2>1, <2>3, <3>1
    <3>2. CASE v[i] = q + 1 /\ r > 0
      BY <1>1, <2>1, <2>3, <3>2
    <3> QED BY <2>2, <3>1, <3>2
  <2>5. ASSUME x = 0 PROVE v[i] = 0
    <3>1. M * x = 0
      BY <1>1, <2>5
    <3>2. r = 0 /\ W * q = 0
      BY <2>1, <2>3, <3>1
    <3>3. q = 0
      <4>1. ASSUME q >= 1 PROVE FALSE
        <5>1. PICK k \in Nat : q = k + 1
          <6>1. q - 1 \in Nat /\ q = (q - 1) + 1
            BY <2>1, <4>1
          <6> QED BY <6>1
        <5>2. W * q = W * k + W /\ W * k \in Nat
          BY <1>1, <5>1
        <5> QED BY <1>1, <3>2, <5>2
      <4> QED BY <2>1, <4>1
    <3> QED BY <2>2, <3>2, <3>3
  <2> QED BY <2>4, <2>5 DEF x
<1>9. ASSUME NEW i \in D, NEW j \in D, w[i] > w[j] \/ (w[i] = w[j] /\ i < j)
      PROVE  v[i] >= v[j]
  <2> DEFINE q == e[i].q
             r == e[i].r
             p == e[j].q
             s == e[j].r
  <2>1. /\ q \in Nat /\ r \in Nat /\ r < W /\ p \in Nat /\ s \in Nat /\ s < W
        /\ i \in Int /\ j \in Int /\ w[i] \in Nat /\ w[j] \in Nat
    BY <1>2
  <2>2. M * w[i] = W * q + r /\ M * w[j] = W * p + s
    BY <1>2
  <2>3. /\ v[i] = (IF Served(e, i, L) THEN q + 1 ELSE q)
        /\ v[j] = (IF Served(e, j, L) THEN p + 1 ELSE p)
    BY <1>5
  <2>4. Before(e, i, j) <=> r > s \/ (r = s /\ i < j)
    BY DEF Before
  <2>5. Before(e, i, j) /\ Served(e, j, L) => Served(e, i, L)
    BY <1>6
  <2>6. Served(e, j, L) => s > 0
    BY <1>4
  <2> HIDE DEF q, r, p, s
  <2>7. PICK k \in Nat : w[i] = w[j] + k /\ (k = 0 => i < j)
    <3>1. w[i] - w[j] \in Nat /\ w[i] = w[j] + (w[i] - w[j])
          /\ (w[i] - w[j] = 0 => i < j)
      BY <1>9, <2>1
    <3> QED BY <3>1
  <2>8. M * w[i] = M * w[j] + M * k /\ M * k \in Nat
    BY <1>1, <2>1, <2>7
  <2>9. W * q + r = W * p + s + M * k /\ W * q \in Nat /\ W * p \in Nat
    <3>1. W * q \in Nat /\ W * p \in Nat
      BY <1>1, <2>1
    <3> QED BY <2>1, <2>2, <2>8, <3>1
  <2>10. q >= p
    <3>1. ASSUME p >= q + 1 PROVE FALSE
      <4>1. PICK h \in Nat : p = q + 1 + h
        <5>1. p - q - 1 \in Nat /\ p = q + 1 + (p - q - 1)
          BY <2>1, <3>1
        <5> QED BY <5>1
      <4>2. W * p = W * q + W + W * h /\ W * h \in Nat
        BY <1>1, <2>1, <4>1
      <4> DEFINE a == W * q
                 b == W * p
                 c == W * h
                 d == M * k
      <4>3. /\ a \in Nat /\ c \in Nat /\ d \in Nat
            /\ b = a + W + c /\ a + r = b + s + d
        BY <2>8, <2>9, <4>2
      <4> HIDE DEF a, b, c, d
      <4> QED BY <1>1, <2>1, <4>3
    <3> QED BY <2>1, <3>1
  <2>11. CASE q > p
    BY <2>1, <2>3, <2>11
  <2>12. CASE q = p
    <3>1. r = s + M * k
      BY <2>1, <2>8, <2>9, <2>12
    <3>2. CASE M * k > 0
      BY <2>1, <2>3, <2>4, <2>5, <2>8, <2>12, <3>1, <3>2
    <3>3. CASE M * k = 0
      <4>1. r = s
        BY <2>1, <3>1, <3>3
      <4>2. CASE k = 0
        BY <2>1, <2>3, <2>4, <2>5, <2>7, <2>12, <4>1, <4>2
      <4>3. CASE k > 0
        <5>1. M = 0
          <6>1. ASSUME M >= 1 PROVE FALSE
            <7>1. PICK h \in Nat : M = h + 1
              <8>1. M - 1 \in Nat /\ M = (M - 1) + 1
                BY <1>1, <6>1
              <8> QED BY <8>1
            <7>2. M * k = h * k + k /\ h * k \in Nat
              BY <7>1
            <7> QED BY <3>3, <4>3, <7>2
          <6> QED BY <1>1, <6>1
        <5>2. s = 0
          <6>1. M * w[j] = 0
            BY <2>1, <5>1
          <6> QED BY <2>1, <2>2, <2>9, <6>1
        <5> QED BY <2>1, <2>3, <2>6, <2>12, <5>2
      <4> QED BY <4>2, <4>3
    <3> QED BY <2>8, <3>2, <3>3
  <2> QED BY <2>1, <2>10, <2>11, <2>12
<1> QED BY <1>7, <1>8, <1>9

\* An allocation adds up, gives nothing to a zero weight, is within one of the exact
\* share and follows the order of the weights, whatever the total and the weights.
LEMMA AllocationIsExact ==
  ASSUME NEW total \in Int, NEW weights \in Seq(Int), allocate(total, weights) # Throws
  PROVE  LET shares == allocate(total, weights)
             all == Total(weights)
         IN  /\ Total(shares) = total
             /\ \A i \in DOMAIN weights :
                  /\ weights[i] = 0 => shares[i] = 0
                  /\ Magnitude(shares[i] * all - total * weights[i]) < all
                  /\ \A j \in DOMAIN weights :
                       weights[i] > weights[j] \/ (weights[i] = weights[j] /\ i < j) =>
                         Magnitude(shares[i]) >= Magnitude(shares[j])
<1> DEFINE D == DOMAIN weights
           M == Magnitude(total)
           W == Prefix(weights, Len(weights))
           e == Entries(total, weights)
           L == Leftover(D, e, M)
           v == [i \in D |-> Given(e, L, i)]
           shares == allocate(total, weights)
           all == Total(weights)
<1>1. ~Refused(total, weights)
  BY DEF allocate
<1>2. D = 1..Len(weights) /\ Len(weights) \in Nat /\ \A i \in D : weights[i] \in Int
  OBVIOUS
<1>3. IsFiniteSet(D) /\ D \subseteq Int
  BY <1>2, FS_Interval
<1>4. \A i \in D : weights[i] \in Nat
  <2>1. \A i \in D : ~(weights[i] < 0)
    BY <1>1 DEF Refused
  <2> QED BY <1>2, <2>1
<1>5. W = SumFunctionOnSet(weights, D) /\ all = SumFunctionOnSet(weights, D)
  BY <1>2, TotalIsSum DEF Prefix
<1>6. W \in Nat \ {0}
  <2>1. W \in Nat
    BY <1>3, <1>4, <1>5, SumIsNat
  <2>2. W # 0
    BY <1>1 DEF Refused
  <2> QED BY <2>1, <2>2
<1>7. M \in Nat
  BY MagnitudeIsNat
<1>8. DOMAIN e = D /\ \A i \in D : e[i] = floorDivMod(M * weights[i], W)
  BY DEF Entries
<1>9. shares = [i \in D |-> Signed(total, v[i])]
  <2> DEFINE quotients == [i \in DOMAIN weights |-> e[i].q]
  <2>1. SumFunction(quotients) = SumFunctionOnSet(quotients, D)
    <3>1. Total(quotients) = SumFunctionOnSet(quotients, DOMAIN quotients)
      BY TotalIsSum, Zenon
    <3> QED BY <3>1 DEF Total
  <2>2. M - SumFunction(quotients) = L
    BY <2>1 DEF Leftover, QuotientsOf
  <2> DEFINE left == M - SumFunction(quotients)
  <2>3. shares = [i \in DOMAIN weights |->
                    Signed(total, IF Served(e, i, left) THEN e[i].q + 1 ELSE e[i].q)]
    BY <1>1 DEF allocate
  <2>4. left = L
    BY <2>2
  <2> HIDE DEF left, e, L, shares
  <2>5. shares = [i \in D |-> Signed(total, Given(e, L, i))]
    BY <2>3, <2>4 DEF Given
  <2> QED BY <2>5
<1> HIDE DEF W, e, M, shares, all, D
<1>10. Divided(D, e, weights, M, W)
  <2>1. ASSUME NEW i \in D
        PROVE  /\ e[i].q \in Nat /\ e[i].r \in Nat /\ e[i].r < W
               /\ M * weights[i] = W * e[i].q + e[i].r
    <3> DEFINE n == M * weights[i]
    <3>1. n \in Nat
      BY <1>4, <1>7
    <3>2. e[i] = floorDivMod(n, W)
      BY <1>8
    <3> HIDE DEF n
    <3>3. /\ e[i].q \in Nat /\ e[i].r \in Nat /\ e[i].r < W
          /\ n = e[i].q * W + e[i].r
      BY <1>6, <3>1, <3>2, FloorDivides
    <3>4. e[i].q * W = W * e[i].q
      BY <1>6, <3>3
    <3> QED BY <3>3, <3>4 DEF n
  <2> QED BY <1>3, <1>4, <1>5, <1>6, <1>7, <1>8, <2>1 DEF Divided
<1>11. \A i \in D : v[i] = Given(e, Leftover(D, e, M), i)
  OBVIOUS
<1>12. \A i \in D : shares[i] = Signed(total, v[i])
  BY <1>9
<1>13. DOMAIN shares = D
  BY <1>9
<1> HIDE DEF v, L
<1>14. /\ \A i \in D : v[i] \in Nat
       /\ \A i \in D : weights[i] = 0 => v[i] = 0
       /\ \A i \in D : v[i] * W - M * weights[i] < W /\ M * weights[i] - v[i] * W < W
       /\ \A i, j \in D : weights[i] > weights[j] \/ (weights[i] = weights[j] /\ i < j)
                            => v[i] >= v[j]
  BY <1>10, <1>11, SharesAreFair
<1>15. SumFunctionOnSet(v, D) = M
  BY <1>10, <1>11, LargestRemainders
<1>16. Total(shares) = total
  <2>1. SumFunctionOnSet(shares, D) = total
    <3>1. \A i \in D : v[i] \in Nat /\ shares[i] = Signed(total, v[i])
      BY <1>12, <1>14
    <3>2. SumFunctionOnSet(v, D) = Magnitude(total)
      BY <1>15 DEF M
    <3> QED BY <1>3, <3>1, <3>2, SignedPartsAddUp
  <2> QED BY <1>13, <2>1, TotalIsSum
<1>17. \A i \in D : Magnitude(shares[i]) = v[i]
  BY <1>12, <1>14 DEF Magnitude, Signed
<1>18. ASSUME NEW i \in D
       PROVE  /\ weights[i] = 0 => shares[i] = 0
              /\ Magnitude(shares[i] * all - total * weights[i]) < all
  <2> DEFINE x == weights[i]
             y == v[i]
  <2>1. x \in Nat /\ y \in Nat /\ (x = 0 => y = 0)
        /\ y * W - M * x < W /\ M * x - y * W < W
    BY <1>4, <1>14
  <2>2. shares[i] = (IF total < 0 THEN 0 - y ELSE y) /\ all = W
    BY <1>5, <1>12 DEF Signed
  <2>3. M = IF total < 0 THEN 0 - total ELSE total
    BY DEF M, Magnitude
  <2> HIDE DEF x, y
  <2> DEFINE a == y * W
             b == M * x
  <2>4. a \in Int /\ b \in Int
    BY <1>6, <1>7, <2>1
  <2>5. CASE total < 0
    <3>1. shares[i] = 0 - y /\ total = 0 - M
      BY <1>7, <2>2, <2>3, <2>5
    <3>2. (0 - y) * W = 0 - a /\ (0 - M) * x = 0 - b
      BY <1>6, <1>7, <2>1
    <3>3. shares[i] * all - total * x = (0 - a) - (0 - b)
      BY <2>2, <3>1, <3>2
    <3>4. a - b < W /\ b - a < W
      BY <2>1
    <3> HIDE DEF a, b
    <3>5. Magnitude(shares[i] * all - total * x) < all
      BY <1>6, <2>2, <2>4, <3>3, <3>4 DEF Magnitude
    <3> QED BY <2>1, <3>1, <3>5 DEF x
  <2>6. CASE ~(total < 0)
    <3>1. shares[i] = y /\ total = M
      BY <2>2, <2>3, <2>6
    <3>2. shares[i] * all - total * x = a - b
      BY <2>2, <3>1
    <3>3. a - b < W /\ b - a < W
      BY <2>1
    <3> HIDE DEF a, b
    <3>4. Magnitude(shares[i] * all - total * x) < all
      BY <1>6, <2>2, <2>4, <3>2, <3>3 DEF Magnitude
    <3> QED BY <2>1, <3>1, <3>4 DEF x
  <2> QED BY <2>5, <2>6
<1>19. ASSUME NEW i \in D, NEW j \in D,
              weights[i] > weights[j] \/ (weights[i] = weights[j] /\ i < j)
       PROVE  Magnitude(shares[i]) >= Magnitude(shares[j])
  BY <1>14, <1>17, <1>19
<1> QED BY <1>16, <1>18, <1>19 DEF shares, all, D

-----------------------------------------------------------------------------
(* The arithmetic of ingest                                                *)

LEMMA SharesAddUpAlways ==
  ASSUME NEW total \in Int, NEW weights \in Seq(Int)
  PROVE  SharesAddUp(total, weights)
<1>1. weights # <<>> => Len(weights) \in Nat \ {0}
  OBVIOUS
<1> QED BY <1>1, AllocationIsExact, SplitAddsUp DEF SharesAddUp

\* No paisa is lost or made by a split or an allocation, and no rounding misses the
\* nearest integer, for every total, every list of weights and every divisor
\* (packages/money/src/ops.ts:70-190, round.ts:29-105).
THEOREM ArithmeticIsExact == Spec => []MoneyExact
<1>1. MoneyExact
  <2> SUFFICES ASSUME NEW total \in Totals
               PROVE  /\ \A weights \in Weights : SharesAddUp(total, weights)
                      /\ \A d \in Divisors : RoundsExactly(Magnitude(total), d)
    BY DEF MoneyExact
  <2>1. total \in Int /\ \A weights \in Weights : weights \in Seq(Int)
    BY ArithmeticAssumption
  <2>2. \A d \in Divisors : d \in Nat \ {0}
    BY ArithmeticAssumption
  <2>3. Magnitude(total) \in Nat
    BY <2>1, MagnitudeIsNat
  <2> QED BY <2>1, <2>2, <2>3, SharesAddUpAlways, RoundingIsExact
<1> QED BY <1>1, PTL

-----------------------------------------------------------------------------
(* What ingest keeps                                                       *)

Rules == {"amount_refunded", "captured", "amount", "paid_and_due", "status", "credit",
          "debit", "fee", "one_side", "gst", "created_at", "sum"}

StagedEntries == [obs : Nat, violations : SUBSET Rules]

Readable(b) ==
  /\ Len(b) \in Nat /\ DOMAIN b = 1..Len(b)
  /\ \A o \in DOMAIN b :
       /\ b[o].source \in DOMAIN SingleKind \cup {"pg_recon"}
       /\ WellFormed(b[o]) /\ KindOf(b[o]) \in {"payment", "refund"} => b[o].amount \in Int

\* The staged records are the admitted ones among those read, in their order.
Ordered(b, rd, st, rej) ==
  /\ rd \in 0..Len(b) /\ st \in Seq(StagedEntries)
  /\ \A s \in DOMAIN st : st[s].obs \in 1..rd /\ Admitted(b[st[s].obs])
  /\ \A s, t \in DOMAIN st : s < t => st[s].obs < st[t].obs
  /\ rej \subseteq 1..rd
  /\ \A o \in 1..rd : o \in rej <=> \A s \in DOMAIN st : st[s].obs # o

IsSound(b, st, s, kind) == KindOf(b[st[s].obs]) = kind /\ st[s].violations = {}

\* paymentsById, the payments of an id, and the refunds that stand against one among
\* the first n staged records.
Index(b, st) ==
  {s \in DOMAIN st :
     /\ IsSound(b, st, s, "payment")
     /\ \A t \in 1..(s - 1) : ~(IsSound(b, st, t, "payment")
                                 /\ b[st[t].obs].id = b[st[s].obs].id)}
Payers(b, st, id) == {s \in Index(b, st) : b[st[s].obs].id = id}
Stands(b, st, id, t) == IsSound(b, st, t, "refund") /\ b[st[t].obs].payment_id = id
StandingAt(b, st, id, n) == {t \in DOMAIN st : t <= n /\ Stands(b, st, id, t)}
Standing(b, st, id, n) == {st[t].obs : t \in StandingAt(b, st, id, n)}
AmountIn(b, S) == SumFunctionOnSet([o \in S |-> b[o].amount], S)

Fits(b, st, s, p) ==
  LET row == b[st[s].obs]
      payment == b[st[p].obs]
  IN  /\ row.amount <= payment.amount /\ row.at >= payment.at
      /\ AmountIn(b, Standing(b, st, row.payment_id, s - 1)) + row.amount <= payment.amount

\* A refund that is sound by itself stands unless its payment is known and it does not
\* fit what the refunds before it left.
Judged(b, st, s) ==
  /\ Payers(b, st, b[st[s].obs].payment_id) = {} => st[s].violations = {}
  /\ \A p \in Payers(b, st, b[st[s].obs].payment_id) :
       st[s].violations = {} <=> Fits(b, st, s, p)

SelfSound(b, st, s) == KindOf(b[st[s].obs]) = "refund" /\ Violations(b[st[s].obs]) = {}

Decided(b, st, n) ==
  \A s \in DOMAIN st :
    /\ s <= n /\ SelfSound(b, st, s) => Judged(b, st, s)
    /\ ~(s <= n /\ SelfSound(b, st, s)) => st[s].violations = Violations(b[st[s].obs])

SoFar(f, id) == IF id \in DOMAIN f THEN f[id] ELSE 0

\* What has been counted against a payment is what stands against it, and it fits.
Held(b, st, n, f, p) ==
  LET payment == b[st[p].obs]
      here == Standing(b, st, payment.id, n)
  IN  /\ AmountIn(b, here) = SoFar(f, payment.id)
      /\ AmountIn(b, here) <= payment.amount
      /\ \A r \in here : b[r].at >= payment.at

Counted(b, st, n, f) == \A p \in Index(b, st) : Held(b, st, n, f, p)

\* The last pass tells the sound from the rest.
PassedAt(st, n) == {st[s].obs : s \in {t \in DOMAIN st : t <= n /\ st[t].violations = {}}}
FailedAt(st, n) == {st[s].obs : s \in {t \in DOMAIN st : t <= n /\ st[t].violations # {}}}

Told(st, n, obs, fs) ==
  obs \in Seq(Nat) /\ ToSet(obs) = PassedAt(st, n) /\ {f.obs : f \in fs} = FailedAt(st, n)

\* The passes run one after the other.
Phases ==
  /\ batch \in Batches
  /\ checked \in 0..Len(staged) /\ emitted \in 0..Len(staged)
  /\ checked > 0 => read = Len(batch)
  /\ emitted > 0 => read = Len(batch) /\ checked = Len(staged)
  /\ checked = 0 => refunded = <<>>

IngestInv ==
  /\ Phases
  /\ Ordered(batch, read, staged, rejected)
  /\ Decided(batch, staged, checked)
  /\ Counted(batch, staged, checked, refunded)
  /\ Told(staged, emitted, observations, failures)

LEMMA ViolationsAreRules ==
  ASSUME NEW row, row.source \in DOMAIN SingleKind \cup {"pg_recon"}
  PROVE  Violations(row) \subseteq Rules
<1>1. PaymentRules(row) \subseteq Rules /\ OrderRules(row) \subseteq Rules
  BY DEF PaymentRules, OrderRules, Rules
<1>2. RefundRules(row) \subseteq Rules
  BY DEF RefundRules, Rules
<1>3. ASSUME KindOf(row) \in {"recon_line", "adjustment"} PROVE ReconRules(row) \subseteq Rules
  <2>1. \/ row.type = "payment"
        \/ row.type = "refund"
        \/ row.type = "adjustment"
    <3>1. ASSUME row.source # "pg_recon" PROVE FALSE
      <4>1. row.source \in DOMAIN SingleKind /\ KindOf(row) = SingleKind[row.source]
        BY <3>1 DEF KindOf
      <4> QED BY <1>3, <4>1 DEF SingleKind
    <3> QED BY <1>3, <3>1 DEF KindOf, Unknown
  <2> QED BY <2>1 DEF ReconRules, Rules
<1> QED BY <1>1, <1>2, <1>3 DEF Violations

LEMMA KindsDiffer ==
  ASSUME NEW row
  PROVE  /\ KindOf(row) = "payment" => Violations(row) = PaymentRules(row)
         /\ KindOf(row) = "refund" => Violations(row) = RefundRules(row)
BY DEF Violations

\* What the rules of a payment and of a refund leave: something is paid.
LEMMA SoundIsPositive ==
  ASSUME NEW row, row.amount \in Int, KindOf(row) \in {"payment", "refund"}, Violations(row) = {}
  PROVE  row.amount > 0
<1>1. CASE KindOf(row) = "payment"
  <2>1. PaymentRules(row) = {}
    BY <1>1, KindsDiffer
  <2>2. ASSUME row.amount <= 0 PROVE "amount" \in PaymentRules(row)
    BY <2>2 DEF PaymentRules
  <2> QED BY <2>1, <2>2
<1>2. CASE KindOf(row) = "refund"
  <2>1. RefundRules(row) = {}
    BY <1>2, KindsDiffer
  <2> QED BY <2>1 DEF RefundRules
<1> QED BY <1>1, <1>2

\* A staged payment or refund has an amount and a time.
LEMMA StagedRows ==
  ASSUME NEW b, Readable(b), NEW rd, NEW st, NEW rej, Ordered(b, rd, st, rej), NEW s \in DOMAIN st
  PROVE  /\ st[s].obs \in Nat /\ st[s].obs \in DOMAIN b /\ st[s].violations \in SUBSET Rules
         /\ b[st[s].obs].at \in Int
         /\ KindOf(b[st[s].obs]) \in {"payment", "refund"} => b[st[s].obs].amount \in Int
<1>1. st[s] \in StagedEntries /\ st[s].obs \in 1..rd /\ rd \in 0..Len(b)
  BY DEF Ordered
<1>2. Len(b) \in Nat /\ DOMAIN b = 1..Len(b)
  BY DEF Readable
<1>3. st[s].obs \in Nat /\ st[s].obs \in DOMAIN b /\ st[s].violations \in SUBSET Rules
  BY <1>1, <1>2 DEF StagedEntries
<1>4. Admitted(b[st[s].obs])
  BY DEF Ordered
<1>5. WellFormed(b[st[s].obs]) /\ b[st[s].obs].at \in From..To
  BY <1>4 DEF Admitted, Parses, InWindow
<1>6. b[st[s].obs].at \in Int
  BY <1>5, IngestAssumption
<1> QED BY <1>3, <1>5, <1>6 DEF Readable

\* Positions in the batch tell staged records apart, and keep their order.
LEMMA StagedApart ==
  ASSUME NEW b, NEW rd, NEW st, NEW rej, Ordered(b, rd, st, rej), Readable(b)
  PROVE  /\ \A s, t \in DOMAIN st : st[s].obs = st[t].obs => s = t
         /\ \A s, t \in DOMAIN st : st[s].obs < st[t].obs => s < t
<1> SUFFICES ASSUME NEW s \in DOMAIN st, NEW t \in DOMAIN st
             PROVE  /\ st[s].obs = st[t].obs => s = t
                    /\ st[s].obs < st[t].obs => s < t
  OBVIOUS
<1>1. DOMAIN st = 1..Len(st) /\ Len(st) \in Nat
  BY DEF Ordered
<1>2. s \in Nat /\ t \in Nat
  BY <1>1
<1>3. st[s].obs \in Nat /\ st[t].obs \in Nat
  BY StagedRows
<1>4. /\ s < t => st[s].obs < st[t].obs
      /\ t < s => st[t].obs < st[s].obs
  BY DEF Ordered
<1> QED BY <1>2, <1>3, <1>4

-----------------------------------------------------------------------------
(* The first pass                                                          *)

LEMMA StageOrders ==
  ASSUME NEW b, Readable(b), NEW rd, NEW st, NEW rej, Ordered(b, rd, st, rej), rd < Len(b),
         Admitted(b[rd + 1])
  PROVE  Ordered(b, rd + 1, Append(st, [obs |-> rd + 1, violations |-> Violations(b[rd + 1])]), rej)
<1> DEFINE new == [obs |-> rd + 1, violations |-> Violations(b[rd + 1])]
           st2 == Append(st, new)
<1>1. rd \in Nat /\ rd + 1 \in 0..Len(b) /\ rd + 1 \in DOMAIN b /\ Len(b) \in Nat
  BY DEF Ordered, Readable
<1>2. st \in Seq(StagedEntries) /\ new \in StagedEntries
  <2>1. Violations(b[rd + 1]) \subseteq Rules
    BY <1>1, ViolationsAreRules DEF Readable
  <2> QED BY <1>1, <2>1 DEF Ordered, StagedEntries
<1>3. new.obs = rd + 1
  OBVIOUS
<1> HIDE DEF new
<1>4. /\ st2 \in Seq(StagedEntries) /\ Len(st) \in Nat /\ DOMAIN st = 1..Len(st)
      /\ DOMAIN st2 = 1..(Len(st) + 1)
      /\ st2[Len(st) + 1] = new /\ \A s \in DOMAIN st : st2[s] = st[s]
  BY <1>2
<1> HIDE DEF st2
<1>5. \A s \in DOMAIN st2 : s \in DOMAIN st \/ s = Len(st) + 1
  BY <1>4
<1>6. \A s \in DOMAIN st : st[s].obs \in 1..rd /\ Admitted(b[st[s].obs])
  BY DEF Ordered
<1>7. \A s \in DOMAIN st2 : st2[s].obs \in 1..(rd + 1) /\ Admitted(b[st2[s].obs])
  <2> SUFFICES ASSUME NEW s \in DOMAIN st2
               PROVE  st2[s].obs \in 1..(rd + 1) /\ Admitted(b[st2[s].obs])
    OBVIOUS
  <2>1. CASE s \in DOMAIN st
    <3>1. st2[s] = st[s] /\ st[s].obs \in 1..rd /\ Admitted(b[st[s].obs])
      BY <1>4, <1>6, <2>1
    <3> QED BY <1>1, <3>1
  <2>2. CASE s = Len(st) + 1
    BY <1>1, <1>3, <1>4, <2>2
  <2> QED BY <1>5, <2>1, <2>2
<1>8. \A s, t \in DOMAIN st2 : s < t => st2[s].obs < st2[t].obs
  <2> SUFFICES ASSUME NEW s \in DOMAIN st2, NEW t \in DOMAIN st2, s < t
               PROVE  st2[s].obs < st2[t].obs
    OBVIOUS
  <2>1. s \in DOMAIN st
    BY <1>4
  <2>2. st2[s].obs \in 1..rd
    BY <1>4, <1>6, <2>1
  <2>3. CASE t \in DOMAIN st
    BY <1>4, <2>1, <2>3 DEF Ordered
  <2>4. CASE t = Len(st) + 1
    BY <1>1, <1>3, <1>4, <2>2, <2>4
  <2> QED BY <1>5, <2>3, <2>4
<1>9. rej \subseteq 1..(rd + 1) /\ rd + 1 \notin rej
  BY <1>1 DEF Ordered
<1>10. \A o \in 1..(rd + 1) : o \in rej <=> \A s \in DOMAIN st2 : st2[s].obs # o
  <2> SUFFICES ASSUME NEW o \in 1..(rd + 1)
               PROVE  o \in rej <=> \A s \in DOMAIN st2 : st2[s].obs # o
    OBVIOUS
  <2>1. CASE o \in 1..rd
    <3>1. o \in rej <=> \A s \in DOMAIN st : st[s].obs # o
      BY <2>1 DEF Ordered
    <3>2. o # rd + 1
      BY <1>1, <2>1
    <3>3. \A s \in DOMAIN st : s \in DOMAIN st2
      BY <1>4
    <3>4. (\A s \in DOMAIN st2 : st2[s].obs # o) <=> (\A s \in DOMAIN st : st[s].obs # o)
      BY <1>3, <1>4, <1>5, <3>2, <3>3
    <3> QED BY <3>1, <3>4
  <2>2. CASE o = rd + 1
    <3>1. Len(st) + 1 \in DOMAIN st2 /\ st2[Len(st) + 1].obs = o
      BY <1>3, <1>4, <2>2
    <3> QED BY <1>9, <2>2, <3>1
  <2> QED BY <1>1, <2>1, <2>2
<1>11. Ordered(b, rd + 1, st2, rej)
  BY <1>1, <1>4, <1>7, <1>8, <1>9, <1>10 DEF Ordered
<1> QED BY <1>11 DEF st2, new

LEMMA RejectOrders ==
  ASSUME NEW b, Readable(b), NEW rd, NEW st, NEW rej, Ordered(b, rd, st, rej), rd < Len(b)
  PROVE  Ordered(b, rd + 1, st, rej \cup {rd + 1})
<1>1. rd \in Nat /\ rd + 1 \in 0..Len(b)
  BY DEF Ordered, Readable
<1>2. \A s \in DOMAIN st : st[s].obs \in 1..rd /\ Admitted(b[st[s].obs])
  BY DEF Ordered
<1>3. \A s \in DOMAIN st : st[s].obs \in 1..(rd + 1) /\ st[s].obs # rd + 1
  BY <1>1, <1>2
<1>4. \A o \in 1..rd : o \in rej <=> \A s \in DOMAIN st : st[s].obs # o
  BY DEF Ordered
<1>5. \A o \in 1..(rd + 1) : o \in rej \cup {rd + 1} <=> \A s \in DOMAIN st : st[s].obs # o
  <2> SUFFICES ASSUME NEW o \in 1..(rd + 1)
               PROVE  o \in rej \cup {rd + 1} <=> \A s \in DOMAIN st : st[s].obs # o
    OBVIOUS
  <2>1. CASE o \in 1..rd
    BY <1>1, <1>4, <2>1
  <2>2. CASE o = rd + 1
    BY <1>3, <2>2
  <2> QED BY <1>1, <2>1, <2>2
<1>6. rej \cup {rd + 1} \subseteq 1..(rd + 1)
  BY <1>1 DEF Ordered
<1>7. st \in Seq(StagedEntries) /\ \A s, t \in DOMAIN st : s < t => st[s].obs < st[t].obs
  BY DEF Ordered
<1> QED BY <1>1, <1>2, <1>3, <1>5, <1>6, <1>7 DEF Ordered

\* Before the refund pass every staged record has the violations it has by itself.
LEMMA NothingDecided ==
  ASSUME NEW b, NEW st, st \in Seq(StagedEntries)
  PROVE  Decided(b, st, 0) <=> \A s \in DOMAIN st : st[s].violations = Violations(b[st[s].obs])
<1>1. DOMAIN st = 1..Len(st) /\ Len(st) \in Nat
  OBVIOUS
<1>2. \A s \in DOMAIN st : ~(s <= 0)
  BY <1>1
<1> QED BY <1>2 DEF Decided

LEMMA StageDecides ==
  ASSUME NEW b, NEW st, st \in Seq(StagedEntries), Decided(b, st, 0), NEW o,
         Append(st, [obs |-> o, violations |-> Violations(b[o])]) \in Seq(StagedEntries)
  PROVE  Decided(b, Append(st, [obs |-> o, violations |-> Violations(b[o])]), 0)
<1> DEFINE new == [obs |-> o, violations |-> Violations(b[o])]
           st2 == Append(st, new)
<1>1. new.obs = o /\ new.violations = Violations(b[o])
  OBVIOUS
<1> HIDE DEF new
<1>2. /\ DOMAIN st = 1..Len(st) /\ DOMAIN st2 = 1..(Len(st) + 1) /\ Len(st) \in Nat
      /\ st2[Len(st) + 1] = new /\ \A s \in DOMAIN st : st2[s] = st[s]
  OBVIOUS
<1>3. st2 \in Seq(StagedEntries)
  BY DEF new
<1> HIDE DEF st2
<1>4. \A s \in DOMAIN st : st[s].violations = Violations(b[st[s].obs])
  BY NothingDecided
<1>5. \A s \in DOMAIN st2 : st2[s].violations = Violations(b[st2[s].obs])
  <2> SUFFICES ASSUME NEW s \in DOMAIN st2
               PROVE  st2[s].violations = Violations(b[st2[s].obs])
    OBVIOUS
  <2>1. CASE s \in DOMAIN st
    BY <1>2, <1>4, <2>1
  <2>2. CASE s = Len(st) + 1
    BY <1>1, <1>2, <2>2
  <2> QED BY <1>2, <2>1, <2>2
<1>6. Decided(b, st2, 0)
  BY <1>3, <1>5, NothingDecided
<1> QED BY <1>6 DEF st2, new

\* A payment that is indexed has a positive amount.
LEMMA IndexedRows ==
  ASSUME NEW b, Readable(b), NEW rd, NEW st, NEW rej, Ordered(b, rd, st, rej),
         NEW n, Decided(b, st, n), NEW p \in Index(b, st)
  PROVE  /\ p \in DOMAIN st /\ KindOf(b[st[p].obs]) = "payment" /\ st[p].violations = {}
         /\ b[st[p].obs].amount \in Int /\ b[st[p].obs].amount > 0 /\ b[st[p].obs].at \in Int
<1>1. p \in DOMAIN st /\ KindOf(b[st[p].obs]) = "payment" /\ st[p].violations = {}
  BY DEF Index, IsSound
<1>2. b[st[p].obs].amount \in Int /\ b[st[p].obs].at \in Int
  BY <1>1, StagedRows
<1>3. ~SelfSound(b, st, p)
  BY <1>1 DEF SelfSound
<1>4. Violations(b[st[p].obs]) = {}
  BY <1>1, <1>3 DEF Decided
<1> QED BY <1>1, <1>2, <1>4, SoundIsPositive

LEMMA NothingCounted ==
  ASSUME NEW b, Readable(b), NEW rd, NEW st, NEW rej, Ordered(b, rd, st, rej),
         Decided(b, st, 0)
  PROVE  Counted(b, st, 0, <<>>)
<1> SUFFICES ASSUME NEW p \in Index(b, st) PROVE Held(b, st, 0, <<>>, p)
  BY DEF Counted
<1> DEFINE id == b[st[p].obs].id
           amount == b[st[p].obs].amount
<1>1. amount \in Int /\ amount > 0
  BY IndexedRows
<1>2. Standing(b, st, id, 0) = {}
  <2>1. DOMAIN st = 1..Len(st)
    BY DEF Ordered
  <2> QED BY <2>1 DEF Standing, StandingAt
<1>3. AmountIn(b, Standing(b, st, id, 0)) = 0
  BY <1>2, SumOfNone DEF AmountIn
<1>4. SoFar(<<>>, id) = 0
  BY DEF SoFar
<1> QED BY <1>1, <1>2, <1>3, <1>4 DEF Held

LEMMA NothingTold ==
  ASSUME NEW st, NEW st2, NEW obs, NEW fs, Told(st, 0, obs, fs),
         DOMAIN st \subseteq Nat \ {0}, DOMAIN st2 \subseteq Nat \ {0}
  PROVE  Told(st2, 0, obs, fs)
<1>1. PassedAt(st, 0) = {} /\ FailedAt(st, 0) = {} /\ PassedAt(st2, 0) = {} /\ FailedAt(st2, 0) = {}
  BY DEF PassedAt, FailedAt
<1> QED BY <1>1 DEF Told

-----------------------------------------------------------------------------
(* The refund pass                                                         *)

\* st2 is st with the violations of the refund at s decided.
Redecided(b, st, s, found, st2) ==
  /\ s \in DOMAIN st /\ KindOf(b[st[s].obs]) = "refund" /\ st[s].violations = {}
  /\ found \in SUBSET Rules
  /\ DOMAIN st2 = DOMAIN st /\ st2 \in Seq(StagedEntries)
  /\ \A t \in DOMAIN st : st2[t].obs = st[t].obs
  /\ \A t \in DOMAIN st \ {s} : st2[t].violations = st[t].violations
  /\ st2[s].violations = found

LEMMA ExceptRedecides ==
  ASSUME NEW b, NEW st \in Seq(StagedEntries), NEW s \in DOMAIN st, NEW found \in SUBSET Rules,
         KindOf(b[st[s].obs]) = "refund", st[s].violations = {}
  PROVE  Redecided(b, st, s, found, [st EXCEPT ![s].violations = found])
<1> DEFINE st2 == [st EXCEPT ![s].violations = found]
<1>1. DOMAIN st = 1..Len(st) /\ Len(st) \in Nat /\ \A t \in DOMAIN st : st[t] \in StagedEntries
  OBVIOUS
<1>2. st2 = [t \in DOMAIN st |-> IF t = s THEN [st[t] EXCEPT !.violations = found] ELSE st[t]]
  BY <1>1
<1>3. \A t \in DOMAIN st : [st[t] EXCEPT !.violations = found] \in StagedEntries
  BY <1>1 DEF StagedEntries
<1>4. \A t \in DOMAIN st : [st[t] EXCEPT !.violations = found].obs = st[t].obs
                           /\ [st[t] EXCEPT !.violations = found].violations = found
  BY <1>1 DEF StagedEntries
<1> HIDE DEF st2
<1>5. DOMAIN st2 = DOMAIN st /\ \A t \in DOMAIN st : st2[t] \in StagedEntries
  BY <1>1, <1>2, <1>3
<1>6. st2 \in Seq(StagedEntries)
  <2>1. st2 \in [1..Len(st) -> StagedEntries]
    <3>1. st2 = [t \in 1..Len(st) |-> st2[t]]
      BY <1>1, <1>2
    <3> QED BY <1>1, <1>5, <3>1
  <2> QED BY <1>1, <2>1
<1>7. \A t \in DOMAIN st : st2[t].obs = st[t].obs
  BY <1>2, <1>4
<1>8. (\A t \in DOMAIN st \ {s} : st2[t].violations = st[t].violations) /\ st2[s].violations = found
  BY <1>2, <1>4
<1>9. Redecided(b, st, s, found, st2)
  BY <1>5, <1>6, <1>7, <1>8 DEF Redecided
<1> QED BY <1>9 DEF st2

\* Deciding a refund leaves the payments indexed as they were, and what stands before it.
LEMMA IndexKept ==
  ASSUME NEW b, NEW st \in Seq(StagedEntries), NEW s, NEW found, NEW st2,
         Redecided(b, st, s, found, st2)
  PROVE  Index(b, st2) = Index(b, st)
<1>1. DOMAIN st = 1..Len(st) /\ Len(st) \in Nat
  OBVIOUS
<1>2. \A t \in DOMAIN st : /\ st2[t].obs = st[t].obs
                           /\ IsSound(b, st2, t, "payment") <=> IsSound(b, st, t, "payment")
  <2> SUFFICES ASSUME NEW t \in DOMAIN st
               PROVE  /\ st2[t].obs = st[t].obs
                      /\ IsSound(b, st2, t, "payment") <=> IsSound(b, st, t, "payment")
    OBVIOUS
  <2>1. st2[t].obs = st[t].obs
    BY DEF Redecided
  <2>2. CASE t = s
    <3>1. KindOf(b[st[t].obs]) # "payment"
      BY <2>2 DEF Redecided
    <3> QED BY <2>1, <3>1 DEF IsSound
  <2>3. CASE t # s
    <3>1. st2[t].violations = st[t].violations
      BY <2>3 DEF Redecided
    <3> QED BY <2>1, <3>1 DEF IsSound
  <2> QED BY <2>2, <2>3
<1>3. DOMAIN st2 = DOMAIN st
  BY DEF Redecided
<1>4. \A t \in DOMAIN st : \A u \in 1..(t - 1) : u \in DOMAIN st
  BY <1>1
<1>5. Index(b, st2) = Index(b, st)
  <2>1. \A t \in DOMAIN st : t \in Index(b, st2) <=> t \in Index(b, st)
    <3> SUFFICES ASSUME NEW t \in DOMAIN st PROVE t \in Index(b, st2) <=> t \in Index(b, st)
      OBVIOUS
    <3>1. \A u \in 1..(t - 1) : /\ st2[u].obs = st[u].obs
                                /\ IsSound(b, st2, u, "payment") <=> IsSound(b, st, u, "payment")
      BY <1>2, <1>4
    <3>2. st2[t].obs = st[t].obs /\ (IsSound(b, st2, t, "payment") <=> IsSound(b, st, t, "payment"))
      BY <1>2
    <3> QED BY <1>3, <3>1, <3>2 DEF Index
  <2>2. Index(b, st2) \subseteq DOMAIN st /\ Index(b, st) \subseteq DOMAIN st
    BY <1>3 DEF Index
  <2> QED BY <2>1, <2>2
<1> QED BY <1>5

LEMMA PayersKept ==
  ASSUME NEW b, NEW st \in Seq(StagedEntries), NEW s, NEW found, NEW st2,
         Redecided(b, st, s, found, st2), NEW id
  PROVE  Payers(b, st2, id) = Payers(b, st, id)
<1>1. Index(b, st2) = Index(b, st)
  BY IndexKept
<1>2. \A t \in Index(b, st) : st2[t].obs = st[t].obs
  BY DEF Index, Redecided
<1> QED BY <1>1, <1>2 DEF Payers

LEMMA StandingKept ==
  ASSUME NEW b, NEW st \in Seq(StagedEntries), NEW s, NEW found, NEW st2,
         Redecided(b, st, s, found, st2), NEW m \in Int, m < s
  PROVE  \A id : Standing(b, st2, id, m) = Standing(b, st, id, m)
<1> SUFFICES ASSUME NEW id PROVE Standing(b, st2, id, m) = Standing(b, st, id, m)
  OBVIOUS
<1>1. DOMAIN st = 1..Len(st) /\ Len(st) \in Nat /\ DOMAIN st2 = DOMAIN st /\ s \in DOMAIN st
  BY DEF Redecided
<1>2. \A t \in DOMAIN st : st2[t].obs = st[t].obs
  BY DEF Redecided
<1>3. \A t \in DOMAIN st : t <= m => st2[t].violations = st[t].violations
  BY <1>1 DEF Redecided
<1>4. StandingAt(b, st2, id, m) = StandingAt(b, st, id, m)
  BY <1>1, <1>2, <1>3 DEF StandingAt, Stands, IsSound
<1>5. \A t \in StandingAt(b, st, id, m) : st2[t].obs = st[t].obs
  BY <1>2 DEF StandingAt
<1> QED BY <1>4, <1>5 DEF Standing

\* One more staged record stands, or does not.
LEMMA StandingGrows ==
  ASSUME NEW b, NEW st \in Seq(StagedEntries), NEW n \in Nat, n + 1 \in DOMAIN st, NEW id
  PROVE  Standing(b, st, id, n + 1)
           = Standing(b, st, id, n) \cup (IF Stands(b, st, id, n + 1) THEN {st[n + 1].obs} ELSE {})
<1>1. \A t \in DOMAIN st : t \in Nat /\ (t <= n + 1 <=> t <= n \/ t = n + 1)
  OBVIOUS
<1>2. StandingAt(b, st, id, n + 1)
        = StandingAt(b, st, id, n) \cup (IF Stands(b, st, id, n + 1) THEN {n + 1} ELSE {})
  BY <1>1 DEF StandingAt
<1> QED BY <1>2 DEF Standing

LEMMA StandingIsFinite ==
  ASSUME NEW b, Readable(b), NEW rd, NEW st, NEW rej, Ordered(b, rd, st, rej), NEW id, NEW n \in Nat
  PROVE  /\ IsFiniteSet(Standing(b, st, id, n)) /\ Standing(b, st, id, n) \subseteq DOMAIN b
         /\ \A r \in Standing(b, st, id, n) : b[r].amount \in Int
         /\ n + 1 \in DOMAIN st => st[n + 1].obs \notin Standing(b, st, id, n)
<1>1. DOMAIN st = 1..Len(st) /\ Len(st) \in Nat
  BY DEF Ordered
<1>2. IsFiniteSet(DOMAIN b)
  <2>1. Len(b) \in Int /\ 1 \in Int /\ DOMAIN b = 1..Len(b)
    BY DEF Readable
  <2> QED BY <2>1, FS_Interval
<1>3. \A t \in DOMAIN st : st[t].obs \in DOMAIN b
  BY StagedRows
<1>4. Standing(b, st, id, n) \subseteq DOMAIN b
  BY <1>3 DEF Standing, StandingAt
<1>5. \A r \in Standing(b, st, id, n) : b[r].amount \in Int
  <2> SUFFICES ASSUME NEW t \in StandingAt(b, st, id, n) PROVE b[st[t].obs].amount \in Int
    BY DEF Standing
  <2>1. t \in DOMAIN st /\ KindOf(b[st[t].obs]) = "refund"
    BY DEF StandingAt, Stands, IsSound
  <2> QED BY <2>1, StagedRows
<1>6. ASSUME n + 1 \in DOMAIN st, st[n + 1].obs \in Standing(b, st, id, n) PROVE FALSE
  <2>1. PICK t \in DOMAIN st : t <= n /\ st[t].obs = st[n + 1].obs
    BY <1>6 DEF Standing, StandingAt
  <2>2. t = n + 1
    BY <1>6, <2>1, StagedApart
  <2> QED BY <1>1, <2>1, <2>2
<1> QED BY <1>2, <1>4, <1>5, <1>6, FS_Subset

\* What one more record adds to an amount.
LEMMA AmountAdds ==
  ASSUME NEW b, NEW S, IsFiniteSet(S), NEW o, o \notin S,
         \A r \in S \cup {o} : b[r].amount \in Int
  PROVE  /\ AmountIn(b, S \cup {o}) = AmountIn(b, S) + b[o].amount
         /\ AmountIn(b, S) \in Int
<1> DEFINE T == S \cup {o}
           w == [r \in T |-> b[r].amount]
           u == [r \in S |-> b[r].amount]
<1>1. IsFiniteSet(T) /\ o \in T /\ T \ {o} = S
  BY FS_AddElement
<1>2. (\A r \in T : w[r] \in Int) /\ w[o] = b[o].amount
  OBVIOUS
<1>3. \A r \in S : u[r] \in Int /\ w[r] = u[r]
  OBVIOUS
<1>4. AmountIn(b, T) = SumFunctionOnSet(w, T) /\ AmountIn(b, S) = SumFunctionOnSet(u, S)
  BY DEF AmountIn
<1> HIDE DEF T, w, u
<1>5. SumFunctionOnSet(w, T) = w[o] + SumFunctionOnSet(w, T \ {o})
  BY <1>1, <1>2, SumTakesAny
<1>6. SumFunctionOnSet(w, S) = SumFunctionOnSet(u, S)
  BY <1>3, SumAgrees
<1>7. SumFunctionOnSet(u, S) \in Int
  BY <1>3, SumIsInt
<1>8. b[o].amount \in Int
  OBVIOUS
<1>9. SumFunctionOnSet(w, T) = w[o] + SumFunctionOnSet(w, S)
  BY <1>1, <1>5
<1>10. AmountIn(b, T) = AmountIn(b, S) + b[o].amount /\ AmountIn(b, S) \in Int
  BY <1>2, <1>4, <1>6, <1>7, <1>8, <1>9
<1> QED BY <1>10 DEF T

LEMMA OnePayer ==
  ASSUME NEW b, NEW st \in Seq(StagedEntries), NEW id,
         NEW p \in Payers(b, st, id), NEW q \in Payers(b, st, id)
  PROVE  p = q
<1>1. /\ p \in DOMAIN st /\ IsSound(b, st, p, "payment") /\ b[st[p].obs].id = id
      /\ q \in DOMAIN st /\ IsSound(b, st, q, "payment") /\ b[st[q].obs].id = id
  BY DEF Payers, Index
<1>2. /\ \A t \in 1..(p - 1) : ~(IsSound(b, st, t, "payment") /\ b[st[t].obs].id = id)
      /\ \A t \in 1..(q - 1) : ~(IsSound(b, st, t, "payment") /\ b[st[t].obs].id = id)
  BY <1>1 DEF Payers, Index
<1>3. p \in Nat \ {0} /\ q \in Nat \ {0}
  BY <1>1
<1>4. p \notin 1..(q - 1) /\ q \notin 1..(p - 1)
  BY <1>1, <1>2
<1> QED BY <1>3, <1>4

\* Deciding a later refund changes nothing of what is judged already.
LEMMA FitsKept ==
  ASSUME NEW b, NEW st \in Seq(StagedEntries), NEW s, NEW found, NEW st2,
         Redecided(b, st, s, found, st2), s \in Nat,
         NEW t \in DOMAIN st, t <= s, NEW q \in DOMAIN st
  PROVE  Fits(b, st2, t, q) <=> Fits(b, st, t, q)
<1>1. t - 1 \in Int /\ t - 1 < s
  OBVIOUS
<1>2. Standing(b, st2, b[st[t].obs].payment_id, t - 1)
        = Standing(b, st, b[st[t].obs].payment_id, t - 1)
  BY <1>1, StandingKept
<1>3. st2[t].obs = st[t].obs /\ st2[q].obs = st[q].obs
  BY DEF Redecided
<1> QED BY <1>2, <1>3 DEF Fits

\* A refund decided against its payment stands exactly when it fits.
LEMMA CheckDecides ==
  ASSUME NEW b, NEW st \in Seq(StagedEntries), NEW n \in Nat, n + 1 \in DOMAIN st,
         Decided(b, st, n), NEW found, NEW st2, Redecided(b, st, n + 1, found, st2),
         NEW p \in Payers(b, st, b[st[n + 1].obs].payment_id),
         found = {} <=> Fits(b, st, n + 1, p)
  PROVE  Decided(b, st2, n + 1)
<1> DEFINE s == n + 1
<1>1. DOMAIN st = 1..Len(st) /\ Len(st) \in Nat /\ DOMAIN st2 = DOMAIN st
  BY DEF Redecided
<1>2. \A t \in DOMAIN st : st2[t].obs = st[t].obs
  BY DEF Redecided
<1>3. \A t \in DOMAIN st : t # s => st2[t].violations = st[t].violations
  BY DEF Redecided
<1>4. \A id : Payers(b, st2, id) = Payers(b, st, id) /\ Payers(b, st, id) \subseteq DOMAIN st
  <2>1. ASSUME NEW id PROVE Payers(b, st2, id) = Payers(b, st, id)
    BY PayersKept
  <2>2. \A id : Payers(b, st, id) \subseteq DOMAIN st
    BY DEF Payers, Index
  <2> QED BY <2>1, <2>2
<1>5. SelfSound(b, st, s)
  <2>1. ~(s <= n)
    OBVIOUS
  <2>2. st[s].violations = Violations(b[st[s].obs])
    BY <2>1 DEF Decided
  <2> QED BY <2>2 DEF SelfSound, Redecided
<1>6. ASSUME NEW t \in DOMAIN st, t <= s, SelfSound(b, st, t) PROVE Judged(b, st2, t)
  <2> DEFINE id == b[st[t].obs].payment_id
  <2>1. b[st2[t].obs].payment_id = id
    BY <1>2
  <2>2. \A q \in Payers(b, st, id) : Fits(b, st2, t, q) <=> Fits(b, st, t, q)
    <3> SUFFICES ASSUME NEW q \in Payers(b, st, id)
                 PROVE  Fits(b, st2, t, q) <=> Fits(b, st, t, q)
      OBVIOUS
    <3>1. q \in DOMAIN st /\ s \in Nat
      BY <1>4
    <3> QED BY <1>6, <3>1, FitsKept
  <2> HIDE DEF id
  <2>3. CASE t = s
    <3>1. st2[t].violations = found /\ id = b[st[s].obs].payment_id
      BY <2>3 DEF Redecided, id
    <3>2. \A q \in Payers(b, st, id) : q = p
      BY <3>1, OnePayer
    <3> QED BY <1>4, <2>1, <2>2, <2>3, <3>1, <3>2 DEF Judged
  <2>4. CASE t # s
    <3>1. t <= n
      BY <1>1, <1>6, <2>4
    <3>2. Judged(b, st, t)
      BY <1>6, <3>1 DEF Decided
    <3>3. st2[t].violations = st[t].violations
      BY <1>3, <2>4
    <3>4. /\ Payers(b, st, id) = {} => st[t].violations = {}
          /\ \A q \in Payers(b, st, id) : st[t].violations = {} <=> Fits(b, st, t, q)
      BY <3>2 DEF Judged, id
    <3> QED BY <1>4, <2>1, <2>2, <3>3, <3>4 DEF Judged
  <2> QED BY <2>3, <2>4
<1>7. ASSUME NEW t \in DOMAIN st, ~(t <= s /\ SelfSound(b, st, t))
      PROVE  st2[t].violations = Violations(b[st2[t].obs])
  <2>1. t # s
    BY <1>5, <1>7
  <2>2. ~(t <= n /\ SelfSound(b, st, t))
    BY <1>1, <1>7
  <2>3. st[t].violations = Violations(b[st[t].obs])
    BY <2>2 DEF Decided
  <2> QED BY <1>2, <1>3, <2>1, <2>3
<1>8. \A t \in DOMAIN st : SelfSound(b, st2, t) <=> SelfSound(b, st, t)
  BY <1>2 DEF SelfSound
<1> QED BY <1>1, <1>6, <1>7, <1>8 DEF Decided

\* refundedSoFar with an amount counted into it.
CountsInto(f, id, amount) ==
  [i \in DOMAIN f \cup {id} |-> IF i = id THEN SoFar(f, id) + amount ELSE f[i]]

\* What is counted against the payment is what stands against it.
LEMMA CheckCounts ==
  ASSUME NEW b, Readable(b), NEW rd, NEW st, NEW rej, Ordered(b, rd, st, rej),
         NEW n \in Nat, n + 1 \in DOMAIN st, Decided(b, st, n),
         NEW found, NEW st2, Redecided(b, st, n + 1, found, st2),
         NEW p \in Payers(b, st, b[st[n + 1].obs].payment_id),
         found = {} <=> Fits(b, st, n + 1, p),
         NEW f, Counted(b, st, n, f), NEW f2,
         found # {} => f2 = f,
         found = {} => f2 = CountsInto(f, b[st[p].obs].id, b[st[n + 1].obs].amount)
  PROVE  Counted(b, st2, n + 1, f2)
<1> DEFINE s == n + 1
           row == b[st[s].obs]
<1>1. st \in Seq(StagedEntries) /\ DOMAIN st = 1..Len(st) /\ Len(st) \in Nat /\ DOMAIN st2 = DOMAIN st
  BY DEF Redecided, Ordered
<1>2. \A t \in DOMAIN st : st2[t].obs = st[t].obs
  BY DEF Redecided
<1>3. Index(b, st2) = Index(b, st)
  BY <1>1, IndexKept
<1>4. row.amount \in Int /\ row.at \in Int /\ KindOf(row) = "refund"
  <2>1. KindOf(row) = "refund"
    BY DEF Redecided
  <2> QED BY <2>1, StagedRows
<1>5. st2[s].violations = found /\ st2[s].obs = st[s].obs
  BY DEF Redecided
<1> SUFFICES ASSUME NEW q \in Index(b, st) PROVE Held(b, st2, s, f2, q)
  BY <1>3 DEF Counted
<1> DEFINE payment == b[st[q].obs]
           id == payment.id
           here == Standing(b, st, id, n)
           now == Standing(b, st2, id, s)
<1>6. payment.amount \in Int /\ q \in DOMAIN st
  BY IndexedRows
<1>7. b[st2[q].obs] = payment
  BY <1>2, <1>6
<1>8. /\ AmountIn(b, here) = SoFar(f, id)
      /\ AmountIn(b, here) <= payment.amount
      /\ \A r \in here : b[r].at >= payment.at
  BY DEF Counted, Held
<1>9. Standing(b, st2, id, n) = here
  BY <1>1, StandingKept
<1>10. now = here \cup (IF found = {} /\ row.payment_id = id THEN {st[s].obs} ELSE {})
  <2>1. st2 \in Seq(StagedEntries) /\ s \in DOMAIN st2
    BY <1>1 DEF Redecided
  <2>2. now = here \cup (IF Stands(b, st2, id, s) THEN {st2[s].obs} ELSE {})
    BY <1>9, <2>1, StandingGrows
  <2>3. Stands(b, st2, id, s) <=> found = {} /\ row.payment_id = id
    BY <1>4, <1>5 DEF Stands, IsSound
  <2> QED BY <1>5, <2>2, <2>3
<1>11. /\ IsFiniteSet(here) /\ \A r \in here : b[r].amount \in Int
       /\ st[s].obs \notin here
  BY StandingIsFinite
<1> HIDE DEF here, now
<1>12. CASE found = {} /\ row.payment_id = id
  <2>1. q = p
    <3>1. q \in Payers(b, st, row.payment_id)
      BY <1>12 DEF Payers
    <3> QED BY <1>1, <3>1, OnePayer
  <2>2. Fits(b, st, s, p)
    BY <1>12
  <2>3. row.at >= payment.at /\ AmountIn(b, here) + row.amount <= payment.amount
    <3>1. s - 1 = n
      OBVIOUS
    <3> QED BY <1>12, <2>1, <2>2, <3>1 DEF Fits, here
  <2>4. now = here \cup {st[s].obs}
    BY <1>10, <1>12
  <2>5. \A r \in here \cup {st[s].obs} : b[r].amount \in Int
    BY <1>4, <1>11
  <2>6. AmountIn(b, now) = AmountIn(b, here) + row.amount /\ AmountIn(b, here) \in Int
    BY <1>11, <2>4, <2>5, AmountAdds
  <2>7. SoFar(f2, id) = SoFar(f, id) + row.amount
    <3>1. f2 = [i \in DOMAIN f \cup {id} |-> IF i = id THEN SoFar(f, id) + row.amount ELSE f[i]]
      BY <1>12, <2>1 DEF CountsInto
    <3> HIDE DEF id, row
    <3> QED BY <3>1 DEF SoFar
  <2>8. \A r \in now : b[r].at >= payment.at
    BY <1>8, <2>3, <2>4
  <2> QED BY <1>7, <1>8, <2>3, <2>6, <2>7, <2>8 DEF Held, now
<1>13. CASE ~(found = {} /\ row.payment_id = id)
  <2>1. now = here
    BY <1>10, <1>13
  <2>2. SoFar(f2, id) = SoFar(f, id)
    <3>1. CASE found # {}
      BY <3>1
    <3>2. CASE found = {}
      <4>1. b[st[p].obs].id = row.payment_id
        BY DEF Payers
      <4>2. id # b[st[p].obs].id
        BY <1>13, <3>2, <4>1
      <4> DEFINE paid == b[st[p].obs].id
      <4>3. f2 = [i \in DOMAIN f \cup {paid} |-> IF i = paid THEN SoFar(f, paid) + row.amount ELSE f[i]]
        BY <3>2 DEF CountsInto
      <4>4. id # paid
        BY <4>2
      <4> HIDE DEF paid, id, row
      <4> QED BY <4>3, <4>4 DEF SoFar
    <3> QED BY <3>1, <3>2
  <2> QED BY <1>7, <1>8, <2>1, <2>2 DEF Held, now
<1> QED BY <1>12, <1>13

\* A record the refund pass has no rule for is decided as it is.
LEMMA SkipDecides ==
  ASSUME NEW b, NEW st \in Seq(StagedEntries), NEW n \in Nat, n + 1 \in DOMAIN st,
         Decided(b, st, n),
         ~(IsSound(b, st, n + 1, "refund") /\ Payers(b, st, b[st[n + 1].obs].payment_id) # {})
  PROVE  Decided(b, st, n + 1)
<1>1. \A t \in DOMAIN st : t \in Nat /\ (t <= n + 1 <=> t <= n \/ t = n + 1)
  OBVIOUS
<1>2. st[n + 1].violations = Violations(b[st[n + 1].obs])
  <2>1. ~(n + 1 <= n)
    OBVIOUS
  <2> QED BY <2>1 DEF Decided
<1>3. ASSUME SelfSound(b, st, n + 1) PROVE Judged(b, st, n + 1)
  <2>1. IsSound(b, st, n + 1, "refund")
    BY <1>2, <1>3 DEF SelfSound, IsSound
  <2>2. Payers(b, st, b[st[n + 1].obs].payment_id) = {} /\ st[n + 1].violations = {}
    BY <2>1 DEF IsSound
  <2> QED BY <2>2 DEF Judged
<1> SUFFICES ASSUME NEW t \in DOMAIN st
             PROVE  /\ t <= n + 1 /\ SelfSound(b, st, t) => Judged(b, st, t)
                    /\ ~(t <= n + 1 /\ SelfSound(b, st, t))
                         => st[t].violations = Violations(b[st[t].obs])
  BY DEF Decided
<1>4. /\ t <= n /\ SelfSound(b, st, t) => Judged(b, st, t)
      /\ ~(t <= n /\ SelfSound(b, st, t)) => st[t].violations = Violations(b[st[t].obs])
  BY DEF Decided
<1>5. CASE t = n + 1
  BY <1>2, <1>3, <1>5
<1>6. CASE t # n + 1
  BY <1>1, <1>4, <1>6
<1> QED BY <1>5, <1>6

LEMMA SkipCounts ==
  ASSUME NEW b, NEW st \in Seq(StagedEntries), NEW n \in Nat, n + 1 \in DOMAIN st,
         NEW f, Counted(b, st, n, f),
         ~(IsSound(b, st, n + 1, "refund") /\ Payers(b, st, b[st[n + 1].obs].payment_id) # {})
  PROVE  Counted(b, st, n + 1, f)
<1> SUFFICES ASSUME NEW p \in Index(b, st) PROVE Held(b, st, n + 1, f, p)
  BY DEF Counted
<1> DEFINE id == b[st[p].obs].id
<1>1. ~Stands(b, st, id, n + 1)
  <2>1. ASSUME Stands(b, st, id, n + 1) PROVE FALSE
    <3>1. IsSound(b, st, n + 1, "refund") /\ b[st[n + 1].obs].payment_id = id
      BY <2>1 DEF Stands
    <3>2. p \in Payers(b, st, b[st[n + 1].obs].payment_id)
      BY <3>1 DEF Payers
    <3> QED BY <3>1, <3>2
  <2> QED BY <2>1
<1>2. Standing(b, st, id, n + 1) = Standing(b, st, id, n)
  <2>1. Standing(b, st, id, n + 1)
          = Standing(b, st, id, n) \cup (IF Stands(b, st, id, n + 1) THEN {st[n + 1].obs} ELSE {})
    BY StandingGrows
  <2> QED BY <1>1, <2>1
<1>3. Held(b, st, n, f, p)
  BY DEF Counted
<1> QED BY <1>2, <1>3 DEF Held

-----------------------------------------------------------------------------
(* The last pass                                                           *)

LEMMA ToldGrows ==
  ASSUME NEW st, NEW n \in Nat, DOMAIN st \subseteq Nat, n + 1 \in DOMAIN st
  PROVE  /\ PassedAt(st, n + 1)
              = PassedAt(st, n) \cup (IF st[n + 1].violations = {} THEN {st[n + 1].obs} ELSE {})
         /\ FailedAt(st, n + 1)
              = FailedAt(st, n) \cup (IF st[n + 1].violations # {} THEN {st[n + 1].obs} ELSE {})
<1>1. \A t \in DOMAIN st : t <= n + 1 <=> t <= n \/ t = n + 1
  OBVIOUS
<1>2. {t \in DOMAIN st : t <= n + 1 /\ st[t].violations = {}}
        = {t \in DOMAIN st : t <= n /\ st[t].violations = {}}
            \cup (IF st[n + 1].violations = {} THEN {n + 1} ELSE {})
  BY <1>1
<1>3. {t \in DOMAIN st : t <= n + 1 /\ st[t].violations # {}}
        = {t \in DOMAIN st : t <= n /\ st[t].violations # {}}
            \cup (IF st[n + 1].violations # {} THEN {n + 1} ELSE {})
  BY <1>1
<1>4. PassedAt(st, n + 1)
        = PassedAt(st, n) \cup (IF st[n + 1].violations = {} THEN {st[n + 1].obs} ELSE {})
  BY <1>2 DEF PassedAt
<1>5. FailedAt(st, n + 1)
        = FailedAt(st, n) \cup (IF st[n + 1].violations # {} THEN {st[n + 1].obs} ELSE {})
  BY <1>3 DEF FailedAt
<1> QED BY <1>4, <1>5

LEMMA ToSetAppend ==
  ASSUME NEW q \in Seq(Nat), NEW x \in Nat
  PROVE  ToSet(Append(q, x)) = ToSet(q) \cup {x} /\ Append(q, x) \in Seq(Nat)
<1> DEFINE r == Append(q, x)
<1>1. /\ r \in Seq(Nat) /\ Len(q) \in Nat /\ DOMAIN q = 1..Len(q)
      /\ DOMAIN r = 1..(Len(q) + 1)
      /\ r[Len(q) + 1] = x /\ \A i \in DOMAIN q : r[i] = q[i]
  OBVIOUS
<1> HIDE DEF r
<1>2. \A i \in DOMAIN r : i \in DOMAIN q \/ i = Len(q) + 1
  BY <1>1
<1>3. (\A i \in DOMAIN q : i \in DOMAIN r) /\ Len(q) + 1 \in DOMAIN r
  BY <1>1
<1>4. ToSet(r) \subseteq ToSet(q) \cup {x}
  BY <1>1, <1>2 DEF ToSet
<1>5. ToSet(q) \subseteq ToSet(r) /\ x \in ToSet(r)
  BY <1>1, <1>3 DEF ToSet
<1>6. ToSet(r) = ToSet(q) \cup {x}
  BY <1>4, <1>5
<1> QED BY <1>1, <1>6 DEF r

LEMMA PassTells ==
  ASSUME NEW st, NEW n \in Nat, DOMAIN st \subseteq Nat, n + 1 \in DOMAIN st,
         st[n + 1].obs \in Nat, NEW q, NEW fs, Told(st, n, q, fs),
         st[n + 1].violations = {}
  PROVE  Told(st, n + 1, Append(q, st[n + 1].obs), fs)
<1> DEFINE o == st[n + 1].obs
<1>1. q \in Seq(Nat) /\ ToSet(q) = PassedAt(st, n) /\ {f.obs : f \in fs} = FailedAt(st, n)
  BY DEF Told
<1>2. PassedAt(st, n + 1) = PassedAt(st, n) \cup {o} /\ FailedAt(st, n + 1) = FailedAt(st, n)
  <2>1. /\ PassedAt(st, n + 1)
             = PassedAt(st, n) \cup (IF st[n + 1].violations = {} THEN {o} ELSE {})
        /\ FailedAt(st, n + 1)
             = FailedAt(st, n) \cup (IF st[n + 1].violations # {} THEN {o} ELSE {})
    BY ToldGrows
  <2> QED BY <2>1
<1>3. ToSet(Append(q, o)) = ToSet(q) \cup {o} /\ Append(q, o) \in Seq(Nat)
  BY <1>1, ToSetAppend
<1> QED BY <1>1, <1>2, <1>3 DEF Told

LEMMA FailTells ==
  ASSUME NEW st, NEW n \in Nat, DOMAIN st \subseteq Nat, n + 1 \in DOMAIN st,
         NEW q, NEW fs, Told(st, n, q, fs), st[n + 1].violations # {}, NEW c
  PROVE  Told(st, n + 1, q, fs \cup {[obs |-> st[n + 1].obs, class |-> c]})
<1> DEFINE o == st[n + 1].obs
           new == [obs |-> o, class |-> c]
<1>1. q \in Seq(Nat) /\ ToSet(q) = PassedAt(st, n) /\ {f.obs : f \in fs} = FailedAt(st, n)
  BY DEF Told
<1>2. PassedAt(st, n + 1) = PassedAt(st, n) /\ FailedAt(st, n + 1) = FailedAt(st, n) \cup {o}
  <2>1. /\ PassedAt(st, n + 1)
             = PassedAt(st, n) \cup (IF st[n + 1].violations = {} THEN {o} ELSE {})
        /\ FailedAt(st, n + 1)
             = FailedAt(st, n) \cup (IF st[n + 1].violations # {} THEN {o} ELSE {})
    BY ToldGrows
  <2> QED BY <2>1
<1>3. new.obs = o
  OBVIOUS
<1> HIDE DEF new
<1>4. {f.obs : f \in fs \cup {new}} = {f.obs : f \in fs} \cup {o}
  BY <1>3
<1>5. Told(st, n + 1, q, fs \cup {new})
  BY <1>1, <1>2, <1>4 DEF Told
<1> QED BY <1>5 DEF new

-----------------------------------------------------------------------------
(* The invariant of ingest                                                 *)

LEMMA BatchIsReadable == batch \in Batches => Readable(batch)
BY BatchesAssumption DEF Readable

LEMMA IndexIs ==
  /\ IndexedPayments = Index(batch, staged)
  /\ \A row : PaymentOf(row) = Payers(batch, staged, row.payment_id)
<1>1. IndexedPayments = Index(batch, staged)
  BY DEF IndexedPayments, Index, IsSound, Row
<1> QED BY <1>1 DEF PaymentOf, Payers, Row

LEMMA AmountIsInt ==
  ASSUME NEW b, NEW S, IsFiniteSet(S), \A r \in S : b[r].amount \in Int
  PROVE  AmountIn(b, S) \in Int
<1> DEFINE w == [r \in S |-> b[r].amount]
<1>1. \A r \in S : w[r] \in Int
  OBVIOUS
<1> HIDE DEF w
<1>2. SumFunctionOnSet(w, S) \in Int
  BY <1>1, SumIsInt
<1> QED BY <1>2 DEF AmountIn, w

\* A refund passes the cross-record rules when it fits.
LEMMA CrossRulesEmpty ==
  ASSUME NEW row, NEW payment, row.amount \in Int, payment.amount \in Int,
         row.at \in Int, payment.at \in Int, RefundedSoFar(payment.id) \in Int
  PROVE  /\ CrossRules(row, payment) \in SUBSET Rules
         /\ CrossRules(row, payment) = {}
              <=> /\ row.amount <= payment.amount /\ row.at >= payment.at
                  /\ RefundedSoFar(payment.id) + row.amount <= payment.amount
<1>1. CrossRules(row, payment) \in SUBSET Rules
  BY DEF CrossRules, Rules
<1>2. /\ "amount" \in CrossRules(row, payment) <=> row.amount > payment.amount
      /\ "created_at" \in CrossRules(row, payment) <=> row.at < payment.at
      /\ "sum" \in CrossRules(row, payment)
           <=> RefundedSoFar(payment.id) + row.amount > payment.amount
  BY DEF CrossRules
<1>3. CrossRules(row, payment) \subseteq {"amount", "created_at", "sum"}
  BY DEF CrossRules
<1>4. CrossRules(row, payment) = {}
        <=> /\ "amount" \notin CrossRules(row, payment)
            /\ "created_at" \notin CrossRules(row, payment)
            /\ "sum" \notin CrossRules(row, payment)
  BY <1>3
<1> QED BY <1>1, <1>2, <1>4

LEMMA InitIngest == Init => IngestInv
<1> SUFFICES ASSUME Init PROVE IngestInv
  OBVIOUS
<1> USE DEF Init
<1>1. Readable(batch)
  BY BatchIsReadable
<1>2. staged = <<>> /\ staged \in Seq(StagedEntries) /\ DOMAIN staged = {} /\ Len(staged) = 0
  OBVIOUS
<1>3. Phases
  BY <1>2 DEF Phases
<1>4. Ordered(batch, read, staged, rejected)
  <2>1. read \in 0..Len(batch) /\ 1..read = {}
    BY <1>1 DEF Readable
  <2> QED BY <1>2, <2>1 DEF Ordered
<1>5. Decided(batch, staged, checked)
  BY <1>2 DEF Decided
<1>6. Counted(batch, staged, checked, refunded)
  BY <1>2 DEF Counted, Index
<1>7. Told(staged, emitted, observations, failures)
  <2>1. PassedAt(staged, emitted) = {} /\ FailedAt(staged, emitted) = {}
    BY <1>2 DEF PassedAt, FailedAt
  <2>2. observations \in Seq(Nat) /\ ToSet(observations) = {} /\ {f.obs : f \in failures} = {}
    BY DEF ToSet
  <2> QED BY <2>1, <2>2 DEF Told
<1> QED BY <1>3, <1>4, <1>5, <1>6, <1>7 DEF IngestInv

LEMMA StageIngest == IngestInv /\ Stage => IngestInv'
<1> SUFFICES ASSUME IngestInv, Stage PROVE IngestInv'
  OBVIOUS
<1> DEFINE row == batch[read + 1]
           new == [obs |-> read + 1, violations |-> Violations(row)]
<1>1. Phases /\ Ordered(batch, read, staged, rejected) /\ Readable(batch)
  BY BatchIsReadable DEF IngestInv, Phases
<1>2. read < Len(batch) /\ read \in Nat /\ Len(batch) \in Nat
  BY <1>1 DEF Stage, Ordered, Readable
<1>3. checked = 0 /\ emitted = 0 /\ refunded = <<>>
  <2>1. staged \in Seq(StagedEntries) /\ Len(staged) \in Nat
    BY <1>1 DEF Ordered
  <2>2. checked \in Nat /\ emitted \in Nat
    BY <1>1, <2>1 DEF Phases
  <2> QED BY <1>1, <1>2, <2>2 DEF Phases
<1>4. /\ batch' = batch /\ checked' = 0 /\ emitted' = 0 /\ refunded' = <<>>
      /\ read' = read + 1 /\ observations' = observations /\ failures' = failures
  BY <1>3 DEF Stage
<1>5. Decided(batch, staged, 0) /\ Told(staged, 0, observations, failures)
  BY <1>3 DEF IngestInv
<1>6. /\ Ordered(batch, read + 1, staged', rejected') /\ Decided(batch, staged', 0)
      /\ DOMAIN staged' = 1..Len(staged') /\ Len(staged') \in Nat
  <2>1. CASE Admitted(row) /\ staged' = Append(staged, new) /\ rejected' = rejected
    <3>1. Ordered(batch, read + 1, staged', rejected')
      BY <1>1, <1>2, <2>1, StageOrders
    <3>2. staged' \in Seq(StagedEntries) /\ staged \in Seq(StagedEntries)
      BY <1>1, <3>1 DEF Ordered
    <3>3. Decided(batch, staged', 0)
      BY <1>5, <2>1, <3>2, StageDecides
    <3> QED BY <3>1, <3>2, <3>3
  <2>2. CASE rejected' = rejected \cup {read + 1} /\ staged' = staged
    <3>1. Ordered(batch, read + 1, staged', rejected')
      BY <1>1, <1>2, <2>2, RejectOrders
    <3>2. staged' \in Seq(StagedEntries)
      BY <3>1 DEF Ordered
    <3> QED BY <1>5, <2>2, <3>1, <3>2
  <2> QED BY <2>1, <2>2 DEF Stage
<1>7. Counted(batch, staged', 0, <<>>)
  BY <1>1, <1>6, NothingCounted
<1>8. Told(staged', 0, observations, failures)
  <2>1. DOMAIN staged \subseteq Nat \ {0} /\ DOMAIN staged' \subseteq Nat \ {0}
    BY <1>1, <1>6 DEF Ordered
  <2> QED BY <1>5, <2>1, NothingTold
<1>9. Phases'
  BY <1>1, <1>4, <1>6 DEF Phases
<1> QED BY <1>4, <1>6, <1>7, <1>8, <1>9 DEF IngestInv

LEMMA SameLength ==
  ASSUME NEW S, NEW q \in Seq(S), NEW r \in Seq(S), DOMAIN q = DOMAIN r
  PROVE  Len(q) = Len(r)
<1> DEFINE k == Len(q)
           m == Len(r)
<1>1. k \in Nat /\ m \in Nat /\ 1..k = 1..m
  OBVIOUS
<1> HIDE DEF k, m
<1>2. k = m
  <2>1. (k = 0 \/ k \in 1..m) /\ (m = 0 \/ m \in 1..k)
    BY <1>1
  <2>2. (k = 0 \/ 1 \in 1..m) /\ (m = 0 \/ 1 \in 1..k)
    BY <1>1
  <2> QED BY <1>1, <2>1, <2>2
<1> QED BY <1>2 DEF k, m

LEMMA CheckIngest == IngestInv /\ CheckRefund => IngestInv'
<1> SUFFICES ASSUME IngestInv, CheckRefund PROVE IngestInv'
  OBVIOUS
<1> DEFINE n == checked
           s == n + 1
           row == Row(s)
           applies == KindOf(row) = "refund" /\ staged[s].violations = {} /\ PaymentOf(row) # {}
<1>1. /\ Phases /\ Ordered(batch, read, staged, rejected) /\ Readable(batch)
      /\ Decided(batch, staged, n) /\ Counted(batch, staged, n, refunded)
      /\ Told(staged, emitted, observations, failures)
  BY BatchIsReadable DEF IngestInv, Phases
<1>2. /\ staged \in Seq(StagedEntries) /\ Len(staged) \in Nat /\ DOMAIN staged = 1..Len(staged)
  BY <1>1 DEF Ordered
<1>3. n \in Nat /\ s \in DOMAIN staged /\ read = Len(batch) /\ n < Len(staged)
  BY <1>1, <1>2 DEF CheckRefund, Phases
<1>4. emitted = 0
  <2>1. emitted \in 0..Len(staged) /\ (emitted > 0 => checked = Len(staged))
    BY <1>1 DEF Phases
  <2> DEFINE k == Len(staged)
  <2>2. k \in Nat /\ n < k /\ n \in Nat
    BY <1>2, <1>3
  <2>3. emitted \in 0..k /\ (emitted > 0 => n = k)
    BY <2>1
  <2> HIDE DEF k, n
  <2> QED BY <2>2, <2>3
<1>5. /\ checked' = s /\ batch' = batch /\ read' = read /\ rejected' = rejected
      /\ emitted' = emitted /\ observations' = observations /\ failures' = failures
  BY DEF CheckRefund
<1>6. ASSUME ~applies
      PROVE  /\ Ordered(batch, read, staged', rejected) /\ Decided(batch, staged', s)
             /\ Counted(batch, staged', s, refunded')
  <2>1. staged' = staged /\ refunded' = refunded
    BY <1>6 DEF CheckRefund
  <2>2. ~(IsSound(batch, staged, n + 1, "refund")
            /\ Payers(batch, staged, batch[staged[n + 1].obs].payment_id) # {})
    BY <1>6, IndexIs DEF IsSound, Row
  <2>3. Decided(batch, staged, n + 1)
    BY <1>1, <1>2, <1>3, <2>2, SkipDecides
  <2>4. Counted(batch, staged, n + 1, refunded)
    BY <1>1, <1>2, <1>3, <2>2, SkipCounts
  <2> QED BY <1>1, <2>1, <2>3, <2>4
<1>7. ASSUME applies
      PROVE  /\ Ordered(batch, read, staged', rejected) /\ Decided(batch, staged', s)
             /\ Counted(batch, staged', s, refunded')
  <2> DEFINE p == CHOOSE q \in PaymentOf(row) : TRUE
             payment == Row(p)
             found == CrossRules(row, payment)
             running == RefundedSoFar(payment.id) + row.amount
  <2>1. /\ staged' = [staged EXCEPT ![s].violations = found]
        /\ refunded' = IF found # {} THEN refunded
                       ELSE [id \in DOMAIN refunded \cup {payment.id} |->
                               IF id = payment.id THEN running ELSE refunded[id]]
    BY <1>7 DEF CheckRefund
  <2>2. p \in PaymentOf(row)
    BY <1>7
  <2> HIDE DEF p
  <2>3. p \in Payers(batch, staged, batch[staged[s].obs].payment_id)
    BY <2>2, IndexIs DEF Row
  <2>4. p \in Index(batch, staged) /\ payment.id = row.payment_id
    BY <2>3 DEF Payers, Row
  <2>5. Held(batch, staged, n, refunded, p)
    BY <1>1, <2>4 DEF Counted
  <2>6. payment.amount \in Int /\ payment.at \in Int
    BY <1>1, <2>4, IndexedRows DEF Row
  <2>7. row.amount \in Int /\ row.at \in Int
    BY <1>1, <1>3, <1>7, StagedRows DEF Row
  <2> DEFINE amount == AmountIn(batch, Standing(batch, staged, row.payment_id, n))
  <2>8. amount \in Int
    <3> DEFINE here == Standing(batch, staged, row.payment_id, n)
    <3>1. IsFiniteSet(here) /\ \A r \in here : batch[r].amount \in Int
      BY <1>1, <1>3, StandingIsFinite
    <3> HIDE DEF here
    <3>2. AmountIn(batch, here) \in Int
      BY <3>1, AmountIsInt
    <3> QED BY <3>2 DEF here
  <2>9. RefundedSoFar(payment.id) = amount
    <3>1. AmountIn(batch, Standing(batch, staged, payment.id, n)) = SoFar(refunded, payment.id)
      BY <2>5 DEF Held, Row
    <3>2. RefundedSoFar(payment.id) = SoFar(refunded, payment.id)
      BY DEF RefundedSoFar, SoFar
    <3> QED BY <2>4, <3>1, <3>2
  <2> HIDE DEF amount
  <2>10. /\ found \in SUBSET Rules
         /\ found = {} <=> /\ row.amount <= payment.amount /\ row.at >= payment.at
                           /\ RefundedSoFar(payment.id) + row.amount <= payment.amount
    <3>1. RefundedSoFar(payment.id) \in Int
      BY <2>8, <2>9
    <3> QED BY <2>6, <2>7, <3>1, CrossRulesEmpty
  <2>11. found = {} <=> Fits(batch, staged, n + 1, p)
    <3>1. (n + 1) - 1 = n
      BY <1>3
    <3>2. Fits(batch, staged, n + 1, p)
            <=> /\ row.amount <= payment.amount /\ row.at >= payment.at
                /\ amount + row.amount <= payment.amount
      BY <3>1 DEF Fits, Row, amount
    <3> QED BY <2>9, <2>10, <3>2
  <2> HIDE DEF found
  <2>12. Redecided(batch, staged, n + 1, found, staged')
    <3>1. KindOf(batch[staged[s].obs]) = "refund" /\ staged[s].violations = {}
      BY <1>7 DEF Row
    <3> QED BY <1>2, <1>3, <2>1, <2>10, <3>1, ExceptRedecides
  <2>13. Decided(batch, staged', n + 1)
    BY <1>1, <1>2, <1>3, <2>3, <2>11, <2>12, CheckDecides
  <2>14. Counted(batch, staged', n + 1, refunded')
    <3>1. found # {} => refunded' = refunded
      BY <2>1
    <3>2. running = SoFar(refunded, payment.id) + batch[staged[n + 1].obs].amount
      BY DEF RefundedSoFar, SoFar, Row
    <3>3. found = {} => refunded' = CountsInto(refunded, batch[staged[p].obs].id,
                                               batch[staged[n + 1].obs].amount)
      BY <2>1, <3>2 DEF Row, CountsInto
    <3> QED BY <1>1, <1>3, <2>3, <2>11, <2>12, <3>1, <3>3, CheckCounts
  <2>15. Ordered(batch, read, staged', rejected)
    <3>1. /\ staged' \in Seq(StagedEntries) /\ DOMAIN staged' = DOMAIN staged
          /\ \A t \in DOMAIN staged : staged'[t].obs = staged[t].obs
      BY <2>12 DEF Redecided
    <3> QED BY <1>1, <3>1 DEF Ordered
  <2> QED BY <2>13, <2>14, <2>15
<1>8. /\ Ordered(batch, read, staged', rejected) /\ Decided(batch, staged', s)
      /\ Counted(batch, staged', s, refunded')
  BY <1>6, <1>7
<1>9. /\ staged' \in Seq(StagedEntries) /\ Len(staged') \in Nat /\ DOMAIN staged' = 1..Len(staged')
      /\ Len(staged') = Len(staged)
  <2>1. staged' \in Seq(StagedEntries)
    BY <1>8 DEF Ordered
  <2>2. DOMAIN staged' = DOMAIN staged
    <3>1. staged' = staged \/ \E v : staged' = [staged EXCEPT ![s].violations = v]
      BY DEF CheckRefund
    <3> QED BY <3>1
  <2>3. Len(staged') \in Nat /\ DOMAIN staged' = 1..Len(staged')
    BY <2>1
  <2>4. Len(staged') = Len(staged)
    BY <1>2, <2>1, <2>2, SameLength
  <2> QED BY <2>1, <2>3, <2>4
<1>10. Told(staged', 0, observations, failures)
  <2>1. DOMAIN staged \subseteq Nat \ {0} /\ DOMAIN staged' \subseteq Nat \ {0}
    BY <1>2, <1>9
  <2> QED BY <1>1, <1>4, <2>1, NothingTold
<1>11. Phases'
  BY <1>1, <1>3, <1>4, <1>5, <1>9 DEF Phases
<1> QED BY <1>4, <1>5, <1>8, <1>10, <1>11 DEF IngestInv

LEMMA EmitIngest == IngestInv /\ Emit => IngestInv'
<1> SUFFICES ASSUME IngestInv, Emit PROVE IngestInv'
  OBVIOUS
<1> DEFINE n == emitted
           s == n + 1
<1>1. /\ Phases /\ Ordered(batch, read, staged, rejected) /\ Readable(batch)
      /\ Decided(batch, staged, checked) /\ Counted(batch, staged, checked, refunded)
      /\ Told(staged, n, observations, failures)
  BY BatchIsReadable DEF IngestInv, Phases
<1>2. staged \in Seq(StagedEntries) /\ Len(staged) \in Nat /\ DOMAIN staged = 1..Len(staged)
  BY <1>1 DEF Ordered
<1>3. /\ n \in Nat /\ n + 1 \in DOMAIN staged /\ n < Len(staged)
      /\ read = Len(batch) /\ checked = Len(staged)
  BY <1>1, <1>2 DEF Emit, Phases
<1>4. /\ batch' = batch /\ read' = read /\ staged' = staged /\ rejected' = rejected
      /\ checked' = checked /\ refunded' = refunded /\ emitted' = n + 1
  BY DEF Emit
<1>5. Told(staged, n + 1, observations', failures')
  <2>1. DOMAIN staged \subseteq Nat /\ staged[n + 1].obs \in Nat
    BY <1>1, <1>2, <1>3, StagedRows
  <2>2. CASE staged[n + 1].violations = {}
    <3>1. observations' = Append(observations, staged[n + 1].obs) /\ failures' = failures
      BY <2>2 DEF Emit
    <3>2. Told(staged, n + 1, Append(observations, staged[n + 1].obs), failures)
      BY <1>1, <1>3, <2>1, <2>2, PassTells
    <3> QED BY <3>1, <3>2
  <2>3. CASE staged[n + 1].violations # {}
    <3> DEFINE c == ExceptionClass(Row(n + 1))
    <3>1. /\ observations' = observations
          /\ failures' = failures \cup {[obs |-> staged[n + 1].obs, class |-> c]}
      BY <2>3 DEF Emit
    <3> HIDE DEF c
    <3>2. Told(staged, n + 1, observations,
               failures \cup {[obs |-> staged[n + 1].obs, class |-> c]})
      BY <1>1, <1>3, <2>1, <2>3, FailTells
    <3> QED BY <3>1, <3>2
  <2> QED BY <2>2, <2>3
<1>6. Phases'
  BY <1>1, <1>2, <1>3, <1>4 DEF Phases
<1> QED BY <1>1, <1>4, <1>5, <1>6 DEF IngestInv

THEOREM IngestInvariance == Spec => []IngestInv
<1>1. IngestInv /\ [Next]_vars => IngestInv'
  <2> SUFFICES ASSUME IngestInv, [Next]_vars PROVE IngestInv'
    OBVIOUS
  <2>1. CASE StageThrows
    BY <2>1 DEF StageThrows, IngestInv, Phases
  <2>2. CASE UNCHANGED vars
    BY <2>2 DEF vars, IngestInv, Phases
  <2> QED BY <2>1, <2>2, StageIngest, CheckIngest, EmitIngest DEF Next
<1> QED BY <1>1, InitIngest, PTL DEF Spec

-----------------------------------------------------------------------------
(* What the invariant says when ingest is done                             *)

LEMMA UnionCounts ==
  ASSUME NEW S, IsFiniteSet(S), NEW T, IsFiniteSet(T), S \cap T = {}
  PROVE  Cardinality(S \cup T) = Cardinality(S) + Cardinality(T)
<1>1. Cardinality(S \cup T) = Cardinality(S) + Cardinality(T) - Cardinality(S \cap T)
  BY FS_Union
<1>2. Cardinality(S \cap T) = 0
  BY FS_EmptySet
<1>3. Cardinality(S) \in Nat /\ Cardinality(T) \in Nat
  BY FS_CardinalityType
<1> QED BY <1>1, <1>2, <1>3

LEMMA CountsAreOnce == IngestInv /\ Done =>
  /\ Cardinality(Accepted) + Cardinality(Failed) + Cardinality(rejected) = Len(batch)
  /\ Accepted \cup Failed \cup rejected = DOMAIN batch
<1> SUFFICES ASSUME IngestInv, Done
             PROVE  /\ Cardinality(Accepted) + Cardinality(Failed) + Cardinality(rejected)
                         = Len(batch)
                    /\ Accepted \cup Failed \cup rejected = DOMAIN batch
  OBVIOUS
<1> DEFINE k == Len(staged)
<1>1. /\ Ordered(batch, read, staged, rejected) /\ Readable(batch)
      /\ Told(staged, k, observations, failures) /\ read = Len(batch)
  BY BatchIsReadable DEF IngestInv, Phases, Done
<1>2. Accepted = PassedAt(staged, k) /\ Failed = FailedAt(staged, k)
  BY <1>1 DEF Told, Accepted, Failed
<1>3. DOMAIN staged = 1..k /\ k \in Nat
  BY <1>1 DEF Ordered
<1>4. \A s \in DOMAIN staged : s <= k
  BY <1>3
<1>5. DOMAIN batch = 1..read /\ read \in Nat /\ IsFiniteSet(DOMAIN batch)
      /\ Cardinality(DOMAIN batch) = Len(batch)
  <2>1. Len(batch) \in Nat /\ DOMAIN batch = 1..Len(batch)
    BY <1>1 DEF Readable
  <2>2. 1 \in Int /\ Len(batch) \in Int
    BY <2>1
  <2>3. IsFiniteSet(1..Len(batch))
        /\ Cardinality(1..Len(batch)) = IF 1 > Len(batch) THEN 0 ELSE Len(batch) - 1 + 1
    BY <2>2, FS_Interval
  <2> QED BY <1>1, <2>1, <2>3
<1> DEFINE A == Accepted
           F == Failed
           R == rejected
           D == DOMAIN batch
<1>6. \A o : o \in A <=> \E s \in DOMAIN staged : staged[s].obs = o /\ staged[s].violations = {}
  BY <1>2, <1>4 DEF PassedAt
<1>7. \A o : o \in F <=> \E s \in DOMAIN staged : staged[s].obs = o /\ staged[s].violations # {}
  BY <1>2, <1>4 DEF FailedAt
<1>8. A \cap F = {}
  <2>1. \A s, t \in DOMAIN staged : staged[s].obs = staged[t].obs => s = t
    BY <1>1, StagedApart
  <2> QED BY <1>6, <1>7, <2>1
<1>9. \A s \in DOMAIN staged : staged[s].obs \in 1..read
  BY <1>1 DEF Ordered
<1>10. R \subseteq 1..read /\ \A o \in 1..read : o \in R <=> \A s \in DOMAIN staged : staged[s].obs # o
  BY <1>1 DEF Ordered
<1> HIDE DEF A, F, R, D, k
<1>11. A \cup F \subseteq D /\ (A \cup F) \cap R = {} /\ A \cup F \cup R = D
  <2>1. D = 1..read
    BY <1>5 DEF D
  <2>2. \A o \in A \cup F : o \in D /\ o \notin R
    BY <1>6, <1>7, <1>9, <1>10, <2>1
  <2>3. \A o \in D : o \in R \/ o \in A \cup F
    BY <1>6, <1>7, <1>10, <2>1
  <2> QED BY <1>10, <2>1, <2>2, <2>3
<1>12. IsFiniteSet(A) /\ IsFiniteSet(F) /\ IsFiniteSet(R) /\ IsFiniteSet(A \cup F)
  <2>1. IsFiniteSet(D)
    BY <1>5 DEF D
  <2>2. A \subseteq D /\ F \subseteq D /\ R \subseteq D /\ A \cup F \subseteq D
    BY <1>11
  <2> QED BY <2>1, <2>2, FS_Subset
<1>13. Cardinality(A \cup F) = Cardinality(A) + Cardinality(F)
  BY <1>8, <1>12, UnionCounts
<1>14. Cardinality((A \cup F) \cup R) = Cardinality(A \cup F) + Cardinality(R)
  BY <1>11, <1>12, UnionCounts
<1>15. Cardinality((A \cup F) \cup R) = Len(batch)
  BY <1>5, <1>11 DEF D
<1>16. Cardinality(A) \in Nat /\ Cardinality(F) \in Nat /\ Cardinality(R) \in Nat
  BY <1>12, FS_CardinalityType
<1> QED BY <1>11, <1>13, <1>14, <1>15, <1>16 DEF A, F, R, D

\* The accepted refunds of an indexed payment, and those before a staged record.
LEMMA RefundsAreStanding ==
  ASSUME IngestInv, Done, NEW p \in DOMAIN staged
  PROVE  /\ RefundsOf(staged[p].obs) = Standing(batch, staged, Row(p).id, Len(staged))
         /\ \A s \in DOMAIN staged :
              {r \in RefundsOf(staged[p].obs) : r < staged[s].obs}
                = Standing(batch, staged, Row(p).id, s - 1)
<1> DEFINE k == Len(staged)
           id == Row(p).id
<1>1. /\ Ordered(batch, read, staged, rejected) /\ Readable(batch)
      /\ Told(staged, k, observations, failures)
  BY BatchIsReadable DEF IngestInv, Phases, Done
<1>2. DOMAIN staged = 1..k /\ k \in Nat
  BY <1>1 DEF Ordered
<1>3. Accepted = PassedAt(staged, k)
  BY <1>1 DEF Told, Accepted
<1>4. \A s \in DOMAIN staged : s <= k /\ s \in Nat
  BY <1>2
<1>5. RefundsOf(staged[p].obs)
        = {r \in PassedAt(staged, k) : KindOf(batch[r]) = "refund" /\ batch[r].payment_id = id}
  BY <1>3 DEF RefundsOf, Row
<1> HIDE DEF id, k
<1>6. RefundsOf(staged[p].obs) = Standing(batch, staged, id, k)
  BY <1>4, <1>5 DEF PassedAt, Standing, StandingAt, Stands, IsSound
<1>7. ASSUME NEW s \in DOMAIN staged
      PROVE  {r \in RefundsOf(staged[p].obs) : r < staged[s].obs} = Standing(batch, staged, id, s - 1)
  <2>1. \A t \in DOMAIN staged : staged[t].obs < staged[s].obs <=> t <= s - 1
    <3> SUFFICES ASSUME NEW t \in DOMAIN staged
                 PROVE  staged[t].obs < staged[s].obs <=> t <= s - 1
      OBVIOUS
    <3>1. staged[t].obs < staged[s].obs => t < s
      BY <1>1, StagedApart
    <3>2. t < s => staged[t].obs < staged[s].obs
      BY <1>1 DEF Ordered
    <3>3. t \in Nat /\ s \in Nat
      BY <1>4
    <3> QED BY <3>1, <3>2, <3>3
  <2>2. {r \in RefundsOf(staged[p].obs) : r < staged[s].obs}
          = {staged[t].obs : t \in {u \in StandingAt(batch, staged, id, k) :
                                       staged[u].obs < staged[s].obs}}
    BY <1>6 DEF Standing
  <2>3. {u \in StandingAt(batch, staged, id, k) : staged[u].obs < staged[s].obs}
          = StandingAt(batch, staged, id, s - 1)
    BY <1>4, <2>1 DEF StandingAt
  <2> QED BY <2>2, <2>3 DEF Standing
<1> QED BY <1>6, <1>7 DEF id, k

LEMMA SoundWhenDone == IngestInv => CandidatesAreSound
<1> SUFFICES ASSUME IngestInv, Done PROVE CandidatesAreSound
  BY DEF CandidatesAreSound
<1> DEFINE k == Len(staged)
<1>1. /\ Ordered(batch, read, staged, rejected) /\ Readable(batch)
      /\ Decided(batch, staged, k) /\ Counted(batch, staged, k, refunded)
      /\ Told(staged, k, observations, failures)
  BY BatchIsReadable DEF IngestInv, Phases, Done
<1>2. DOMAIN staged = 1..k /\ k \in Nat
  BY <1>1 DEF Ordered
<1>3. \A S : AmountOf(S) = AmountIn(batch, S)
  BY DEF AmountOf, AmountIn
<1>4. ASSUME NEW s \in IndexedPayments
      PROVE  LET o == staged[s].obs
             IN  /\ AmountOf(RefundsOf(o)) <= batch[o].amount
                 /\ \A r \in RefundsOf(o) : batch[r].at >= batch[o].at
  <2>1. s \in Index(batch, staged) /\ s \in DOMAIN staged
    BY <1>4, IndexIs DEF Index
  <2>2. Held(batch, staged, k, refunded, s)
    BY <1>1, <2>1 DEF Counted
  <2>3. RefundsOf(staged[s].obs) = Standing(batch, staged, Row(s).id, k)
    BY <2>1, RefundsAreStanding
  <2> QED BY <1>3, <2>2, <2>3 DEF Held, Row
<1>5. ASSUME NEW f \in Failed, KindOf(batch[f]) = "refund", Violations(batch[f]) = {}
      PROVE  \E o \in Accepted :
               /\ KindOf(batch[o]) = "payment" /\ batch[o].id = batch[f].payment_id
               /\ \/ batch[f].at < batch[o].at
                  \/ AmountOf({r \in RefundsOf(o) : r < f}) + batch[f].amount > batch[o].amount
  <2>1. PICK s \in DOMAIN staged : staged[s].obs = f /\ staged[s].violations # {}
    <3>1. Failed = FailedAt(staged, k)
      BY <1>1 DEF Told, Failed
    <3> QED BY <3>1 DEF FailedAt
  <2>2. SelfSound(batch, staged, s) /\ s <= k /\ s \in Nat \ {0}
    BY <1>2, <1>5, <2>1 DEF SelfSound
  <2>3. Judged(batch, staged, s)
    BY <1>1, <2>2 DEF Decided
  <2>4. PICK p \in Payers(batch, staged, batch[f].payment_id) : ~Fits(batch, staged, s, p)
    BY <2>1, <2>3 DEF Judged
  <2>5. p \in Index(batch, staged) /\ batch[staged[p].obs].id = batch[f].payment_id
    BY <2>4 DEF Payers
  <2> DEFINE o == staged[p].obs
  <2>6. /\ p \in DOMAIN staged /\ KindOf(batch[o]) = "payment" /\ staged[p].violations = {}
        /\ batch[o].amount \in Int /\ batch[o].at \in Int
    BY <1>1, <2>5, IndexedRows
  <2>7. o \in Accepted
    <3>1. Accepted = PassedAt(staged, k)
      BY <1>1 DEF Told, Accepted
    <3>2. p <= k
      BY <1>2, <2>6
    <3> QED BY <2>6, <3>1, <3>2 DEF PassedAt
  <2>8. batch[f].amount \in Int /\ batch[f].at \in Int
    BY <1>1, <1>5, <2>1, StagedRows
  <2> DEFINE here == Standing(batch, staged, batch[f].payment_id, s - 1)
  <2>9. {r \in RefundsOf(o) : r < f} = here
    BY <2>1, <2>5, <2>6, RefundsAreStanding DEF Row
  <2>10. AmountIn(batch, here) \in Nat
    <3>1. s - 1 \in Nat
      BY <2>2
    <3>2. IsFiniteSet(here) /\ \A r \in here : batch[r].amount \in Int
      BY <1>1, <3>1, StandingIsFinite
    <3>3. \A r \in here : batch[r].amount > 0
      <4> SUFFICES ASSUME NEW t \in StandingAt(batch, staged, batch[f].payment_id, s - 1)
                   PROVE  batch[staged[t].obs].amount > 0
        BY DEF Standing
      <4>1. t \in DOMAIN staged /\ KindOf(batch[staged[t].obs]) = "refund"
            /\ staged[t].violations = {}
        BY DEF StandingAt, Stands, IsSound
      <4>2. Violations(batch[staged[t].obs]) = {}
        <5>1. CASE SelfSound(batch, staged, t)
          BY <5>1 DEF SelfSound
        <5>2. CASE ~SelfSound(batch, staged, t)
          <6>1. staged[t].violations = Violations(batch[staged[t].obs])
            BY <1>1, <4>1, <5>2 DEF Decided
          <6> QED BY <4>1, <6>1
        <5> QED BY <5>1, <5>2
      <4>3. batch[staged[t].obs].amount \in Int
        BY <1>1, <4>1, StagedRows
      <4> QED BY <4>1, <4>2, <4>3, SoundIsPositive
    <3> DEFINE w == [r \in here |-> batch[r].amount]
    <3>4. \A r \in here : w[r] \in Nat
      BY <3>2, <3>3
    <3> HIDE DEF w, here
    <3>5. SumFunctionOnSet(w, here) \in Nat
      BY <3>2, <3>4, SumIsNat
    <3> QED BY <3>5 DEF AmountIn, w
  <2>11. \/ batch[f].amount > batch[o].amount
         \/ batch[f].at < batch[o].at
         \/ AmountIn(batch, here) + batch[f].amount > batch[o].amount
    <3>1. ~(/\ batch[f].amount <= batch[o].amount /\ batch[f].at >= batch[o].at
            /\ AmountIn(batch, here) + batch[f].amount <= batch[o].amount)
      BY <2>1, <2>4 DEF Fits
    <3> HIDE DEF here, o
    <3> QED BY <2>6, <2>8, <2>10, <3>1
  <2> HIDE DEF here, o
  <2>12. \/ batch[f].at < batch[o].at
         \/ AmountOf({r \in RefundsOf(o) : r < f}) + batch[f].amount > batch[o].amount
    <3>1. AmountOf({r \in RefundsOf(o) : r < f}) = AmountIn(batch, here)
      BY <1>3, <2>9
    <3> QED BY <2>6, <2>8, <2>10, <2>11, <3>1
  <2>13. batch[o].id = batch[f].payment_id
    BY <2>5 DEF o
  <2> QED BY <2>6, <2>7, <2>12, <2>13
<1> QED BY <1>4, <1>5, CountsAreOnce DEF CandidatesAreSound

\* What ingest hands on is consistent as a set, for every batch of records: each is
\* accepted, failed or rejected once, the accepted refunds of a payment fit in it and
\* none predates it, and only a refund that does not fit is kept out
\* (packages/domain/src/s0-ingest.ts:635-888).
THEOREM CandidatesStaySound == Spec => []CandidatesAreSound
BY IngestInvariance, SoundWhenDone, PTL
=============================================================================
