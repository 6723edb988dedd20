---------------------------- MODULE BasicLemmas ----------------------------
(***************************************************************************)
(* Facts the proofs about several components share: what leaving a queue   *)
(* does to it (the semaphore of CollectorManager, the lock of Inventory),  *)
(* bounds (the clocks of SeriesExpiry, the rates of RateLimiter), and sums *)
(* over finite sets (the demand of the solver, the clients of the store).  *)
(***************************************************************************)
EXTENDS Integers, Sequences, FiniteSetsExt, SequencesExt, SequenceTheorems,
        FiniteSetTheorems, WellFoundedInduction, TLAPS

(* Removing a position of a sequence keeps the others, in order. *)
LEMMA RemoveAtFacts ==
    ASSUME NEW S, NEW q \in Seq(S), NEW i \in 1..Len(q)
    PROVE  /\ RemoveAt(q, i) \in Seq(S)
           /\ Len(RemoveAt(q, i)) = Len(q) - 1
           /\ \A j \in 1..(Len(q) - 1) :
                 RemoveAt(q, i)[j] = IF j < i THEN q[j] ELSE q[j + 1]
<1> DEFINE a == SubSeq(q, 1, i - 1)
           b == SubSeq(q, i + 1, Len(q))
<1>1. a \in Seq(S) /\ Len(a) = i - 1 /\ \A j \in 1..(i - 1) : a[j] = q[j]
  OBVIOUS
<1>2. b \in Seq(S) /\ Len(b) = Len(q) - i /\ \A j \in 1..(Len(q) - i) : b[j] = q[i + j]
  OBVIOUS
<1> HIDE DEF a, b
<1>3. RemoveAt(q, i) = a \o b
  BY DEF RemoveAt, a, b
<1>4. (a \o b) \in Seq(S) /\ Len(a \o b) = Len(q) - 1
  <2>1. (a \o b) \in Seq(S) /\ Len(a \o b) = Len(a) + Len(b)
    BY <1>1, <1>2, ConcatProperties
  <2>2. (i - 1) + (Len(q) - i) = Len(q) - 1
    BY LenProperties
  <2> QED  BY <1>1, <1>2, <2>1, <2>2
<1>5. ASSUME NEW j \in 1..(Len(q) - 1)
      PROVE  (a \o b)[j] = IF j < i THEN q[j] ELSE q[j + 1]
  <2>1. CASE j < i
    BY <1>1, <1>2, <2>1, ConcatProperties
  <2>2. CASE ~(j < i)
    <3>1. (a \o b)[j] = b[j - (i - 1)]
      BY <1>1, <1>2, <2>2, ConcatProperties
    <3>2. j - (i - 1) \in 1..(Len(q) - i) /\ i + (j - (i - 1)) = j + 1
      BY <2>2
    <3> QED  BY <1>2, <2>2, <3>1, <3>2
  <2> QED  BY <2>1, <2>2
<1> QED  BY <1>3, <1>4, <1>5

(* The smaller and the larger of two numbers. *)
LEMMA MinOfTwo ==
    ASSUME NEW a \in Int, NEW b \in Int
    PROVE  /\ Min({a, b}) \in {a, b}
           /\ Min({a, b}) <= a /\ Min({a, b}) <= b
<1>1. \E x \in {a, b} : \A y \in {a, b} : x <= y
  <2>1. CASE a <= b  BY <2>1
  <2>2. CASE ~(a <= b)  BY <2>2
  <2> QED  BY <2>1, <2>2
<1>2. Min({a, b}) \in {a, b} /\ \A y \in {a, b} : Min({a, b}) <= y
  BY <1>1 DEF Min
<1> QED  BY <1>2

LEMMA MaxOfTwo ==
    ASSUME NEW a \in Int, NEW b \in Int
    PROVE  /\ Max({a, b}) \in {a, b}
           /\ Max({a, b}) >= a /\ Max({a, b}) >= b
<1>1. \E x \in {a, b} : \A y \in {a, b} : x >= y
  <2>1. CASE a >= b  BY <2>1
  <2>2. CASE ~(a >= b)  BY <2>2
  <2> QED  BY <2>1, <2>2
<1>2. Max({a, b}) \in {a, b} /\ \A y \in {a, b} : Max({a, b}) >= y
  BY <1>1 DEF Max
<1> QED  BY <1>2

(* A finite set of numbers has a largest element: no strict subset of its    *)
(* elements above one is smaller than the one above the largest.             *)
LEMMA FiniteMax ==
    ASSUME NEW S \in SUBSET Int, IsFiniteSet(S), S # {}
    PROVE  Max(S) \in S /\ \A y \in S : Max(S) >= y
<1> DEFINE Above(x) == {y \in S : y > x}
           T == {Above(x) : x \in S}
           R == StrictSubsetOrdering(S)
<1>1. IsWellFoundedOn(R, FiniteSubsetsOf(S))
  BY FS_StrictSubsetOrderingWellFounded
<1>2. T \subseteq FiniteSubsetsOf(S) /\ T # {}
  <2>1. ASSUME NEW x \in S
        PROVE  Above(x) \in FiniteSubsetsOf(S)
    <3>1. Above(x) \subseteq S
      OBVIOUS
    <3>2. IsFiniteSet(Above(x))
      BY <3>1, FS_Subset
    <3> QED  BY <3>1, <3>2 DEF FiniteSubsetsOf
  <2> QED  BY <2>1
<1>3. PICK U \in T : \A V \in T : <<V, U>> \notin R
  <2> HIDE DEF T, R
  <2> QED  BY <1>1, <1>2, WFMin
<1>4. PICK x \in S : U = Above(x)
  BY <1>3
<1>5. ASSUME NEW y \in S, ~(x >= y)
      PROVE  FALSE
  <2>1. x \in Int /\ y \in Int
    OBVIOUS
  <2>2. y \in Above(x) /\ y \notin Above(y)
    BY <1>5, <2>1
  <2>3. Above(y) \subseteq Above(x)
    <3>1. \A z \in Int : z > y => z > x
      BY <1>5, <2>1
    <3> QED  BY <3>1
  <2>4. <<Above(y), Above(x)>> \in R
    BY <2>2, <2>3 DEF StrictSubsetOrdering
  <2> QED  BY <1>3, <1>4, <2>4
<1>6. \E z \in S : \A y \in S : z >= y
  BY <1>5
<1> HIDE DEF Above, T, R
<1> QED  BY <1>6 DEF Max

(* The values of a function on a finite set are finitely many. *)
LEMMA ValuesFinite ==
    ASSUME NEW S, IsFiniteSet(S), NEW f
    PROVE  IsFiniteSet({f[x] : x \in S})
<1> DEFINE g == [x \in S |-> f[x]]
           T == {f[x] : x \in S}
<1>1. g \in Surjection(S, T)
  BY DEF Surjection
<1>2. IsFiniteSet(T)
  <2> HIDE DEF g, T
  <2> QED  BY <1>1, FS_Surjection
<1> QED  BY <1>2

LEMMA FiniteMin ==
    ASSUME NEW S \in SUBSET Int, IsFiniteSet(S), S # {}
    PROVE  Min(S) \in S /\ \A y \in S : Min(S) <= y
<1> DEFINE negate == [x \in S |-> -x]
           N == {negate[x] : x \in S}
<1>1. \A x \in S : negate[x] = -x /\ x \in Int
  OBVIOUS
<1>2. IsFiniteSet(N)
  <2> HIDE DEF negate
  <2> QED  BY ValuesFinite
<1>3. N \in SUBSET Int /\ N # {}
  <2>1. \A x \in S : negate[x] \in Int
    BY <1>1
  <2> HIDE DEF negate
  <2> QED  BY <2>1
<1>4. Max(N) \in N /\ \A y \in N : Max(N) >= y
  <2> HIDE DEF N
  <2> QED  BY <1>2, <1>3, FiniteMax
<1>5. PICK x \in S : Max(N) = negate[x]
  BY <1>4
<1>6. \A y \in S : negate[x] >= negate[y]
  BY <1>4, <1>5
<1>7. \A y \in S : x <= y
  BY <1>1, <1>6
<1> HIDE DEF negate, N
<1> QED  BY <1>7 DEF Min

(* A set of naturals has a least element, finite or not. *)
LEMMA NatMin ==
    ASSUME NEW S \in SUBSET Nat, S # {}
    PROVE  Min(S) \in S /\ \A y \in S : Min(S) <= y
<1> DEFINE less == OpToRel(<, Nat)
<1>1. IsWellFoundedOn(less, Nat)
  BY NatLessThanWellFounded
<1>2. PICK x \in S : \A y \in S : ~(<<y, x>> \in less)
  <2> HIDE DEF less
  <2> QED  BY <1>1, WFMin
<1>3. \A y \in S : ~(y < x)
  BY <1>2 DEF OpToRel
<1>4. \A y \in S : x <= y
  BY <1>3
<1> HIDE DEF less
<1> QED  BY <1>4 DEF Min

(* Products of naturals grow with their factors. *)
LEMMA MulMonotone ==
    ASSUME NEW x \in Nat, NEW y \in Nat, NEW k \in Nat, x <= y
    PROVE  x * k <= y * k
  OBVIOUS

-----------------------------------------------------------------------------
(* Of some subsets of a finite set, one has no smaller one by an element.     *)
LEMMA MinimalSet ==
    ASSUME NEW S, IsFiniteSet(S), NEW Bad \in SUBSET (SUBSET S), Bad # {}
    PROVE  \E s \in Bad : \A x \in s : s \ {x} \notin Bad
<1> DEFINE R == StrictSubsetOrdering(S)
<1>1. IsWellFoundedOn(R, FiniteSubsetsOf(S))
  BY FS_StrictSubsetOrderingWellFounded
<1>2. Bad \subseteq FiniteSubsetsOf(S)
  BY FS_FiniteSubsetsOfFinite
<1>3. PICK s \in Bad : \A t \in Bad : <<t, s>> \notin R
  <2> HIDE DEF R
  <2> QED  BY <1>1, <1>2, WFMin
<1>4. ASSUME NEW x \in s, s \ {x} \in Bad
      PROVE  FALSE
  <2>1. s \ {x} \in SUBSET S /\ s \in SUBSET S /\ s \ {x} # s /\ s \ {x} \subseteq s
    OBVIOUS
  <2>2. <<s \ {x}, s>> \in R
    BY <2>1 DEF StrictSubsetOrdering
  <2> HIDE DEF R
  <2> QED  BY <1>3, <1>4, <2>2
<1> QED  BY <1>4

(* A sum of naturals over a finite set, as the size of a set: w[x] pairs for  *)
(* each x.  So what MapThenSumSet folds, one element after the other, does    *)
(* not depend on the order in which it takes them.                            *)
Area(w, s) == {p \in s \X Nat : 1 <= p[2] /\ p[2] <= w[p[1]]}
Sum(w, s) == Cardinality(Area(w, s))

LEMMA AreaFinite ==
    ASSUME NEW S, IsFiniteSet(S), NEW w \in [S -> Nat], NEW s \in SUBSET S
    PROVE  IsFiniteSet(Area(w, s))
<1> DEFINE Column == [x \in S |-> {x} \X (1..w[x])]
<1>1. ASSUME NEW x \in S
      PROVE  IsFiniteSet(Column[x])
  <2>1. w[x] \in Nat /\ IsFiniteSet({x})
    BY FS_Singleton
  <2>2. IsFiniteSet(1..w[x])
    BY <2>1, FS_Interval
  <2>3. IsFiniteSet({x} \X (1..w[x]))
    BY <2>1, <2>2, FS_Product
  <2> QED  BY <2>3
<1>2. IsFiniteSet(s)
  BY FS_Subset
<1>3. IsFiniteSet({Column[x] : x \in s})
  <2> HIDE DEF Column
  <2> QED  BY <1>2, ValuesFinite
<1>4. IsFiniteSet(UNION {Column[x] : x \in s})
  <2>1. \A T \in {Column[x] : x \in s} : IsFiniteSet(T)
    BY <1>1
  <2> HIDE DEF Column
  <2> QED  BY <1>3, <2>1, FS_UNION
<1>5. Area(w, s) = UNION {Column[x] : x \in s}
  <2>1. ASSUME NEW p \in Area(w, s) PROVE p \in UNION {Column[x] : x \in s}
    <3>1. p[1] \in s /\ p \in Column[p[1]]
      BY DEF Area
    <3> QED  BY <3>1
  <2>2. ASSUME NEW x \in s, NEW p \in Column[x] PROVE p \in Area(w, s)
    BY DEF Area
  <2> QED  BY <2>1, <2>2
<1> QED  BY <1>4, <1>5

LEMMA SumFacts ==
    ASSUME NEW S, IsFiniteSet(S), NEW w \in [S -> Nat]
    PROVE  /\ Sum(w, {}) = 0
           /\ \A s \in SUBSET S : Sum(w, s) \in Nat
           /\ \A s \in SUBSET S : \A x \in s : Sum(w, s) = w[x] + Sum(w, s \ {x})
           /\ \A s \in SUBSET S : \A r \in SUBSET s : Sum(w, r) <= Sum(w, s)
<1> DEFINE Column == [x \in S |-> {x} \X (1..w[x])]
<1>1. ASSUME NEW x \in S
      PROVE  IsFiniteSet(Column[x]) /\ Cardinality(Column[x]) = w[x]
  <2>1. w[x] \in Nat
    OBVIOUS
  <2>2. IsFiniteSet({x}) /\ Cardinality({x}) = 1
    BY FS_Singleton
  <2>3. IsFiniteSet(1..w[x]) /\ Cardinality(1..w[x]) = w[x]
    BY <2>1, FS_Interval
  <2>4. IsFiniteSet({x} \X (1..w[x])) /\ Cardinality({x} \X (1..w[x])) = 1 * w[x]
    BY <2>2, <2>3, FS_Product
  <2> QED  BY <2>1, <2>4
<1>2. \A s \in SUBSET S : IsFiniteSet(Area(w, s))
  BY AreaFinite
<1>3. Area(w, {}) = {}
  BY DEF Area
<1>4. ASSUME NEW s \in SUBSET S, NEW x \in s
      PROVE  Sum(w, s) = w[x] + Sum(w, s \ {x})
  <2>1. Area(w, s) = Area(w, s \ {x}) \cup Column[x]
    BY DEF Area
  <2>2. Area(w, s \ {x}) \cap Column[x] = {}
    BY DEF Area
  <2>3. IsFiniteSet(Area(w, s \ {x})) /\ IsFiniteSet(Column[x]) /\ Cardinality(Column[x]) = w[x]
    BY <1>1, <1>2
  <2> HIDE DEF Column
  <2>4. Cardinality(Area(w, s)) = Cardinality(Area(w, s \ {x})) + Cardinality(Column[x]) - 0
    <3>1. Cardinality(Area(w, s \ {x}) \cap Column[x]) = 0
      BY <2>2, FS_EmptySet
    <3>2. Cardinality(Area(w, s \ {x}) \cup Column[x])
          = Cardinality(Area(w, s \ {x})) + Cardinality(Column[x])
            - Cardinality(Area(w, s \ {x}) \cap Column[x])
      BY <2>3, FS_Union
    <3> QED  BY <2>1, <3>1, <3>2
  <2>5. Cardinality(Area(w, s \ {x})) \in Nat /\ w[x] \in Nat
    BY <2>3, FS_CardinalityType
  <2> QED  BY <2>3, <2>4, <2>5 DEF Sum
<1>5. ASSUME NEW s \in SUBSET S, NEW r \in SUBSET s
      PROVE  Sum(w, r) <= Sum(w, s)
  <2>1. Area(w, r) \subseteq Area(w, s)
    BY DEF Area
  <2> QED  BY <1>2, <2>1, FS_Subset DEF Sum
<1> QED  BY <1>2, <1>3, <1>4, <1>5, FS_EmptySet, FS_CardinalityType DEF Sum

(* Larger parts make no smaller sum.                                          *)
LEMMA SumGrows ==
    ASSUME NEW S, IsFiniteSet(S), NEW w \in [S -> Nat], NEW v \in [S -> Nat],
           NEW s \in SUBSET S, \A x \in s : w[x] <= v[x]
    PROVE  Sum(w, s) <= Sum(v, s)
<1>1. Area(w, s) \subseteq Area(v, s)
  <2> SUFFICES ASSUME NEW x \in s, NEW k \in Nat, 1 <= k, k <= w[x]
               PROVE  k <= v[x]
    BY DEF Area
  <2>1. w[x] \in Nat /\ v[x] \in Nat /\ w[x] <= v[x]
    OBVIOUS
  <2> QED  BY <2>1
<1>2. IsFiniteSet(Area(v, s))
  BY AreaFinite
<1> QED  BY <1>1, <1>2, FS_Subset DEF Sum

(* One part changed changes the sum by as much. *)
LEMMA SumChange ==
    ASSUME NEW S, IsFiniteSet(S), NEW w \in [S -> Nat], NEW v \in [S -> Nat], NEW x \in S,
           \A y \in S \ {x} : v[y] = w[y]
    PROVE  Sum(v, S) = Sum(w, S) - w[x] + v[x]
<1> DEFINE rest == S \ {x}
<1>1. Area(v, rest) = Area(w, rest)
  BY DEF Area
<1>2. Sum(v, rest) = Sum(w, rest)
  BY <1>1 DEF Sum
<1>3. Sum(v, S) = v[x] + Sum(v, rest) /\ Sum(w, S) = w[x] + Sum(w, rest)
  BY SumFacts
<1>4. Sum(w, rest) \in Nat /\ w[x] \in Nat /\ v[x] \in Nat
  BY SumFacts
<1> QED  BY <1>2, <1>3, <1>4

(* Any function that takes a set apart element by element, in whatever order, *)
(* computes the sum: there is no smallest set on which it does not.           *)
LEMMA SumByElements ==
    ASSUME NEW S, IsFiniteSet(S), NEW w \in [S -> Nat], NEW f,
           f[{}] = 0,
           \A s \in SUBSET S : s # {} => \E x \in s : f[s] = w[x] + f[s \ {x}]
    PROVE  f[S] = Sum(w, S)
<1> DEFINE Bad == {s \in SUBSET S : f[s] # Sum(w, s)}
<1>1. /\ Sum(w, {}) = 0
      /\ \A s \in SUBSET S : \A x \in s : Sum(w, s) = w[x] + Sum(w, s \ {x})
  BY SumFacts
<1>2. ASSUME Bad # {} PROVE FALSE
  <2>1. PICK s \in Bad : \A x \in s : s \ {x} \notin Bad
    <3>1. Bad \in SUBSET (SUBSET S)
      OBVIOUS
    <3> HIDE DEF Bad
    <3> QED  BY <1>2, <3>1, MinimalSet
  <2>2. s \in SUBSET S /\ f[s] # Sum(w, s)
    OBVIOUS
  <2>3. s # {}
    BY <1>1, <2>2
  <2>4. PICK x \in s : f[s] = w[x] + f[s \ {x}]
    BY <2>2, <2>3
  <2>5. f[s \ {x}] = Sum(w, s \ {x})
    BY <2>1, <2>2
  <2> QED  BY <1>1, <2>2, <2>4, <2>5
<1> QED  BY <1>2
=============================================================================
