---------------------------- MODULE AppraisalProofs ---------------------------
(***************************************************************************)
(* What Pricing computes of any sample, and what Appraisal keeps, for any  *)
(* variants, pages, prices and samples of other sources.                   *)
(***************************************************************************)
EXTENDS Appraisal, FiniteSetTheorems, SequenceTheorems, WellFoundedInduction, TLAPS

-----------------------------------------------------------------------------
(***************************************************************************)
(* Induction over numbers and over finite sets, for sets of them.          *)
(***************************************************************************)
LEMMA LeastOf ==
  ASSUME NEW T \in SUBSET Nat, T # {}
  PROVE  \E m \in T : \A n \in T : m <= n
<1>1. PICK m \in T : \A n \in T : <<n, m>> \notin OpToRel(<, Nat)
  BY NatLessThanWellFounded, WFMin
<1>2. \A n \in T : ~ (n < m)
  BY <1>1 DEF OpToRel
<1>. QED  BY <1>2

LEMMA FiniteInduction ==
  ASSUME NEW S, IsFiniteSet(S), NEW P,
         \A T \in SUBSET S : (\A x \in T : T \ {x} \in P) => T \in P
  PROVE  \A T \in SUBSET S : T \in P
<1>. SUFFICES ASSUME NEW U \in SUBSET S, U \notin P PROVE FALSE
  OBVIOUS
<1>. DEFINE Bad == {T \in SUBSET S : T \notin P}
            Sizes == {Cardinality(T) : T \in Bad}
<1>1. \A T \in SUBSET S : IsFiniteSet(T) /\ Cardinality(T) \in Nat
  BY FS_Subset, FS_CardinalityType
<1>2. Sizes \in SUBSET Nat /\ Sizes # {}
  BY <1>1
<1>. HIDE DEF Sizes
<1>3. PICK c \in Sizes : \A n \in Sizes : c <= n
  BY <1>2, LeastOf
<1>. USE DEF Sizes
<1>4. PICK T \in Bad : c = Cardinality(T)
  BY <1>3
<1>5. ASSUME NEW x \in T
      PROVE  T \ {x} \in P
  <2>1. Cardinality(T \ {x}) = Cardinality(T) - 1
    BY <1>1, FS_RemoveElement
  <2>2. Cardinality(T) \in Nat /\ T \ {x} \in SUBSET S
    BY <1>1
  <2>3. T \ {x} \in Bad => Cardinality(T \ {x}) \in Sizes
    OBVIOUS
  <2>. QED  BY <1>3, <1>4, <2>1, <2>2, <2>3
<1>. QED  BY <1>4, <1>5

-----------------------------------------------------------------------------
(***************************************************************************)
(* Count is a sum: over no price it is zero, and each price adds its       *)
(* comparables, whichever is taken first.                                  *)
(***************************************************************************)
Any(s) == CHOOSE x \in s : TRUE

SumBody(sample, g, s) == IF s = {} THEN 0 ELSE sample[Any(s)] + g[s \ {Any(s)}]

Summed(sample, S) == CHOOSE g : g = [s \in SUBSET S |-> SumBody(sample, g, s)]

LEMMA CountIsSummed ==
  ASSUME NEW sample, NEW S
  PROVE  Count(sample, S) = Summed(sample, S)[S]
BY DEF Count, MapThenSumSet, MapThenFoldSet, Summed, SumBody, Any

\* There is such a function on the subsets of S: those of a smaller set extend to it.
LEMMA SummedExists ==
  ASSUME NEW sample, NEW S, IsFiniteSet(S)
  PROVE  \E g : g = [s \in SUBSET S |-> SumBody(sample, g, s)]
<1>. DEFINE c == Cardinality(S)
            Small(n) == {s \in SUBSET S : Cardinality(s) <= n}
            Partial(n, g) == g = [s \in Small(n) |-> SumBody(sample, g, s)]
            Missing == {n \in Nat : \A g : ~Partial(n, g)}
<1>1. \A T \in SUBSET S : IsFiniteSet(T) /\ Cardinality(T) \in Nat
  BY FS_Subset, FS_CardinalityType
<1>2. 0 \notin Missing
  <2>1. Small(0) = {{}}
    BY <1>1, FS_EmptySet
  <2>2. Partial(0, [s \in {{}} |-> 0])
    BY <2>1 DEF SumBody
  <2>. QED  BY <2>2
<1>3. ASSUME NEW n \in Nat, n \notin Missing
      PROVE  n + 1 \notin Missing
  <2>1. PICK g : Partial(n, g)
    BY <1>3
  <2>. DEFINE h == [s \in Small(n + 1) |-> SumBody(sample, g, s)]
  <2>2. ASSUME NEW s \in Small(n + 1), s # {}
        PROVE  s \ {Any(s)} \in Small(n)
    <3>1. Any(s) \in s
      BY <2>2 DEF Any
    <3>2. Cardinality(s \ {Any(s)}) = Cardinality(s) - 1
      BY <1>1, <3>1, FS_RemoveElement
    <3>. QED  BY <1>1, <3>2
  <2>3. ASSUME NEW s \in Small(n)
        PROVE  h[s] = g[s]
    BY <1>1, <2>1
  <2>4. ASSUME NEW s \in Small(n + 1)
        PROVE  SumBody(sample, g, s) = SumBody(sample, h, s)
    BY <2>2, <2>3 DEF SumBody
  <2>5. Partial(n + 1, h)
    BY <2>4
  <2>. QED  BY <2>5
<1>4. Missing = {}
  <2>. SUFFICES ASSUME Missing # {} PROVE FALSE
    OBVIOUS
  <2>. HIDE DEF Missing
  <2>1. Missing \in SUBSET Nat
    BY DEF Missing
  <2>2. PICK m \in Missing : \A n \in Missing : m <= n
    BY <2>1, LeastOf
  <2>3. m # 0 /\ m - 1 \in Nat
    BY <1>2, <2>1, <2>2
  <2>4. m - 1 \notin Missing
    BY <2>1, <2>2, <2>3
  <2>5. (m - 1) + 1 \notin Missing
    BY <1>3, <2>3, <2>4
  <2>. QED  BY <2>1, <2>2, <2>5
<1>5. PICK g : Partial(c, g)
  <2>1. c \in Nat /\ c \notin Missing
    BY <1>1, <1>4
  <2>. QED  BY <2>1
<1>6. ASSUME NEW s \in SUBSET S PROVE Cardinality(s) <= c
  BY FS_Subset
<1>7. Small(c) = SUBSET S
  BY <1>6
<1>. QED  BY <1>5, <1>7

\* The sum over a set is that over the set without one of its prices, and it.
LEMMA CountEquation ==
  ASSUME NEW sample, NEW S, IsFiniteSet(S)
  PROVE  Count(sample, S) = IF S = {} THEN 0 ELSE sample[Any(S)] + Count(sample, S \ {Any(S)})
<1>. DEFINE W(T) == Summed(sample, T)
            P == {T \in SUBSET S : \A U \in SUBSET S : T \subseteq U => W(U)[T] = W(T)[T]}
<1>1. ASSUME NEW T \in SUBSET S, NEW s \in SUBSET T
      PROVE  W(T)[s] = IF s = {} THEN 0 ELSE sample[Any(s)] + W(T)[s \ {Any(s)}]
  <2>. DEFINE w == W(T)
  <2>1. IsFiniteSet(T)
    BY FS_Subset
  <2>2. w = [r \in SUBSET T |-> SumBody(sample, w, r)]
    BY <2>1, SummedExists DEF Summed
  <2>. HIDE DEF w
  <2>3. w[s] = SumBody(sample, w, s)
    BY <2>2
  <2>. QED  BY <2>3 DEF SumBody, w
<1>. HIDE DEF W
<1>2. ASSUME NEW T \in SUBSET S, \A x \in T : T \ {x} \in P
      PROVE  T \in P
  <2>. SUFFICES ASSUME NEW U \in SUBSET S, T \subseteq U PROVE W(U)[T] = W(T)[T]
    OBVIOUS
  <2>1. CASE T = {}
    BY <1>1, <2>1
  <2>2. CASE T # {}
    <3>. DEFINE a == Any(T)
    <3>1. a \in T
      BY <2>2 DEF Any
    <3>2. W(U)[T \ {a}] = W(T \ {a})[T \ {a}] /\ W(T)[T \ {a}] = W(T \ {a})[T \ {a}]
      BY <1>2, <3>1
    <3>. QED  BY <1>1, <2>2, <3>2
  <2>. QED  BY <2>1, <2>2
<1>. HIDE DEF P
<1>3. \A T \in SUBSET S : T \in P
  BY <1>2, FiniteInduction
<1>4. CASE S = {}
  BY <1>1, <1>4, CountIsSummed DEF W
<1>5. CASE S # {}
  <2>. DEFINE T == S \ {Any(S)}
  <2>1. W(S)[T] = W(T)[T]
    BY <1>3 DEF P
  <2>2. Count(sample, S) = W(S)[S] /\ Count(sample, T) = W(T)[T]
    BY CountIsSummed DEF W
  <2>. QED  BY <1>1, <1>5, <2>1, <2>2
<1>. QED  BY <1>4, <1>5

-----------------------------------------------------------------------------
(***************************************************************************)
(* Counts of a sample.                                                     *)
(***************************************************************************)
Samples == [Prices -> Nat]

LEMMA FinitePrices ==
  ASSUME NEW S \in SUBSET Prices
  PROVE  IsFiniteSet(S)
BY PricingAssumption, FS_Subset DEF PricingAssumption

LEMMA CountType ==
  ASSUME NEW sample \in Samples
  PROVE  /\ Count(sample, {}) = 0
         /\ \A S \in SUBSET Prices : Count(sample, S) \in Nat
<1>. DEFINE P == {S \in SUBSET Prices : Count(sample, S) \in Nat}
<1>1. Count(sample, {}) = 0
  BY CountEquation, FS_EmptySet
<1>2. ASSUME NEW S \in SUBSET Prices, \A x \in S : S \ {x} \in P
      PROVE  S \in P
  <2>1. CASE S = {}
    BY <1>1, <2>1
  <2>2. CASE S # {}
    <3>1. Any(S) \in S
      BY <2>2 DEF Any
    <3>2. Count(sample, S) = sample[Any(S)] + Count(sample, S \ {Any(S)})
      BY <2>2, FinitePrices, CountEquation
    <3>. QED  BY <1>2, <3>1, <3>2 DEF Samples
  <2>. QED  BY <2>1, <2>2
<1>. HIDE DEF P
<1>3. \A S \in SUBSET Prices : S \in P
  BY <1>2, FinitePrices, FiniteInduction
<1>. QED  BY <1>1, <1>3 DEF P

LEMMA CountRemove ==
  ASSUME NEW sample \in Samples, NEW S \in SUBSET Prices, NEW x \in S
  PROVE  Count(sample, S) = sample[x] + Count(sample, S \ {x})
<1>. DEFINE P == {T \in SUBSET Prices : \A y \in T : Count(sample, T) = sample[y] + Count(sample, T \ {y})}
<1>1. ASSUME NEW T \in SUBSET Prices, \A y \in T : T \ {y} \in P
      PROVE  T \in P
  <2>. SUFFICES ASSUME NEW y \in T PROVE Count(sample, T) = sample[y] + Count(sample, T \ {y})
    OBVIOUS
  <2>. DEFINE a == Any(T)
              R == (T \ {a}) \ {y}
  <2>1. a \in T
    BY DEF Any
  <2>2. Count(sample, T) = sample[a] + Count(sample, T \ {a})
    BY FinitePrices, CountEquation
  <2>3. CASE y = a
    BY <2>2, <2>3
  <2>4. CASE y # a
    <3>1. Count(sample, T \ {a}) = sample[y] + Count(sample, R)
      BY <1>1, <2>1, <2>4
    <3>2. (T \ {y}) \ {a} = R
      OBVIOUS
    <3>3. Count(sample, T \ {y}) = sample[a] + Count(sample, R)
      BY <1>1, <2>1, <2>4, <3>2
    <3>4. sample[a] \in Nat /\ sample[y] \in Nat /\ Count(sample, R) \in Nat
      BY <2>1, CountType DEF Samples
    <3>. QED  BY <2>2, <3>1, <3>3, <3>4
  <2>. QED  BY <2>3, <2>4
<1>. HIDE DEF P
<1>2. \A T \in SUBSET Prices : T \in P
  BY <1>1, FinitePrices, FiniteInduction
<1>. QED  BY <1>2 DEF P

\* Sets of prices that have none in common are counted each by itself.
LEMMA CountUnion ==
  ASSUME NEW sample \in Samples, NEW V \in SUBSET Prices, NEW S \in SUBSET Prices, S \cap V = {}
  PROVE  Count(sample, S \cup V) = Count(sample, S) + Count(sample, V)
<1>. DEFINE P == {T \in SUBSET Prices :
                    T \cap V = {} => Count(sample, T \cup V) = Count(sample, T) + Count(sample, V)}
<1>1. ASSUME NEW T \in SUBSET Prices, \A x \in T : T \ {x} \in P
      PROVE  T \in P
  <2>. SUFFICES ASSUME T \cap V = {}
                PROVE  Count(sample, T \cup V) = Count(sample, T) + Count(sample, V)
    OBVIOUS
  <2>0. Count(sample, V) \in Nat
    BY CountType
  <2>1. CASE T = {}
    <3>1. T \cup V = V
      BY <2>1
    <3>2. Count(sample, T \cup V) = Count(sample, V) /\ Count(sample, T) = 0
      BY <2>1, <3>1, CountType, Zenon
    <3>. QED  BY <2>0, <3>2
  <2>2. CASE T # {}
    <3>1. PICK x \in T : TRUE
      BY <2>2
    <3>2. (T \cup V) \ {x} = (T \ {x}) \cup V
      BY <3>1
    <3>3. Count(sample, T \cup V) = sample[x] + Count(sample, (T \ {x}) \cup V)
      BY <3>2, CountRemove
    <3>4. Count(sample, T) = sample[x] + Count(sample, T \ {x})
      BY CountRemove
    <3>5. Count(sample, (T \ {x}) \cup V) = Count(sample, T \ {x}) + Count(sample, V)
      BY <1>1
    <3>6. sample[x] \in Nat /\ Count(sample, T \ {x}) \in Nat
      BY CountType DEF Samples
    <3>. QED  BY <2>0, <3>3, <3>4, <3>5, <3>6
  <2>. QED  BY <2>1, <2>2
<1>. HIDE DEF P
<1>2. \A T \in SUBSET Prices : T \in P
  BY <1>1, FinitePrices, FiniteInduction
<1>. QED  BY <1>2 DEF P

LEMMA CountMonotone ==
  ASSUME NEW sample \in Samples, NEW V \in SUBSET Prices, NEW S \in SUBSET V
  PROVE  Count(sample, S) <= Count(sample, V)
<1>1. S \cup (V \ S) = V /\ S \cap (V \ S) = {}
  OBVIOUS
<1>2. Count(sample, V) = Count(sample, S) + Count(sample, V \ S)
  BY <1>1, CountUnion
<1>. QED  BY <1>2, CountType

LEMMA CountSame ==
  ASSUME NEW sample \in Samples, NEW other \in Samples, NEW S \in SUBSET Prices,
         \A p \in S : sample[p] = other[p]
  PROVE  Count(sample, S) = Count(other, S)
<1>. DEFINE P == {T \in SUBSET Prices : T \subseteq S => Count(sample, T) = Count(other, T)}
<1>1. ASSUME NEW T \in SUBSET Prices, \A x \in T : T \ {x} \in P
      PROVE  T \in P
  <2>1. CASE T = {}
    BY <2>1, CountType
  <2>2. CASE T # {}
    <3>1. PICK x \in T : TRUE
      BY <2>2
    <3>2. /\ Count(sample, T) = sample[x] + Count(sample, T \ {x})
          /\ Count(other, T) = other[x] + Count(other, T \ {x})
      BY CountRemove
    <3>. QED  BY <1>1, <3>2
  <2>. QED  BY <2>1, <2>2
<1>. HIDE DEF P
<1>2. \A T \in SUBSET Prices : T \in P
  BY <1>1, FinitePrices, FiniteInduction
<1>. QED  BY <1>2 DEF P

\* What is counted is there.
LEMMA CountPositive ==
  ASSUME NEW sample \in Samples, NEW S \in SUBSET Prices, \A p \in S : ~(sample[p] > 0)
  PROVE  Count(sample, S) = 0
<1>. DEFINE P == {T \in SUBSET Prices : T \subseteq S => Count(sample, T) = 0}
<1>1. ASSUME NEW T \in SUBSET Prices, \A x \in T : T \ {x} \in P
      PROVE  T \in P
  <2>1. CASE T = {}
    BY <2>1, CountType
  <2>2. CASE T # {}
    <3>1. PICK x \in T : TRUE
      BY <2>2
    <3>2. Count(sample, T) = sample[x] + Count(sample, T \ {x})
      BY CountRemove
    <3>3. T \subseteq S => sample[x] = 0 /\ Count(sample, T \ {x}) = 0
      BY <1>1 DEF Samples
    <3>. QED  BY <3>2, <3>3
  <2>. QED  BY <2>1, <2>2
<1>. HIDE DEF P
<1>2. \A T \in SUBSET Prices : T \in P
  BY <1>1, FinitePrices, FiniteInduction
<1>. QED  BY <1>2 DEF P

-----------------------------------------------------------------------------
(***************************************************************************)
(* The k-th smallest measure, and the quartiles between two of them.       *)
(***************************************************************************)
Measures == [Prices -> Nat]

Under(measure, v) == {p \in Prices : measure[p] < v}
UpTo(measure, v) == {p \in Prices : measure[p] <= v}

LEMMA MeasuresBounded ==
  ASSUME NEW measure \in Measures
  PROVE  \E b \in Nat : UpTo(measure, b) = Prices
<1>. DEFINE P == {T \in SUBSET Prices : \E b \in Nat : \A p \in T : measure[p] <= b}
<1>1. ASSUME NEW T \in SUBSET Prices, \A x \in T : T \ {x} \in P
      PROVE  T \in P
  <2>1. CASE T = {}
    BY <2>1
  <2>2. CASE T # {}
    <3>1. PICK x \in T : TRUE
      BY <2>2
    <3>2. PICK b \in Nat : \A p \in T \ {x} : measure[p] <= b
      BY <1>1
    <3>3. measure[x] \in Nat /\ b + measure[x] \in Nat
      BY DEF Measures
    <3>4. \A p \in T : measure[p] <= b + measure[x]
      BY <3>2, <3>3 DEF Measures
    <3>. QED  BY <3>3, <3>4
  <2>. QED  BY <2>1, <2>2
<1>. HIDE DEF P
<1>2. \A T \in SUBSET Prices : T \in P
  BY <1>1, FinitePrices, FiniteInduction
<1>3. PICK b \in Nat : \A p \in Prices : measure[p] <= b
  BY <1>2 DEF P
<1>. QED  BY <1>3 DEF UpTo

IsKth(sample, measure, k, v) ==
  /\ v \in Nat
  /\ \E p \in Prices : sample[p] > 0 /\ measure[p] = v
  /\ Count(sample, Under(measure, v)) < k
  /\ k <= Count(sample, UpTo(measure, v))

LEMMA KthIs ==
  ASSUME NEW sample \in Samples, NEW measure \in Measures, NEW k \in Nat,
         1 <= k, k <= Size(sample)
  PROVE  IsKth(sample, measure, k, Kth(sample, measure, k))
<1>. DEFINE Enough == {v \in Nat : k <= Count(sample, UpTo(measure, v))}
<1>1. \A v : /\ UpTo(measure, v) \in SUBSET Prices /\ Under(measure, v) \in SUBSET Prices
             /\ Count(sample, UpTo(measure, v)) \in Nat /\ Count(sample, Under(measure, v)) \in Nat
  BY CountType DEF UpTo, Under
<1>2. Enough \in SUBSET Nat /\ Enough # {}
  <2>1. PICK b \in Nat : UpTo(measure, b) = Prices
    BY MeasuresBounded
  <2>2. Count(sample, UpTo(measure, b)) = Size(sample)
    BY <2>1, Zenon DEF Size
  <2>. QED  BY <2>2
<1>. HIDE DEF Enough
<1>3. PICK v \in Enough : \A n \in Enough : v <= n
  BY <1>2, LeastOf
<1>. USE DEF Enough
<1>4. v \in Nat /\ k <= Count(sample, UpTo(measure, v))
  BY <1>3
<1>5. Count(sample, Under(measure, v)) < k
  <2>1. CASE v = 0
    <3>1. Under(measure, v) = {}
      BY <2>1 DEF Under, Measures
    <3>2. Count(sample, Under(measure, v)) = 0
      BY <3>1, CountType, Zenon
    <3>. QED  BY <3>2
  <2>2. CASE v # 0
    <3>1. v - 1 \in Nat /\ v - 1 \notin Enough
      BY <1>3, <1>4, <2>2
    <3>2. Under(measure, v) = UpTo(measure, v - 1)
      BY <1>4, <3>1 DEF Under, UpTo, Measures
    <3>3. Count(sample, Under(measure, v)) = Count(sample, UpTo(measure, v - 1))
      BY <3>2, Zenon
    <3>. QED  BY <1>1, <3>1, <3>3
  <2>. QED  BY <2>1, <2>2
<1>6. \E p \in Prices : sample[p] > 0 /\ measure[p] = v
  <2>. SUFFICES ASSUME \A p \in Prices : measure[p] = v => ~(sample[p] > 0) PROVE FALSE
    OBVIOUS
  <2>. DEFINE At == {p \in Prices : measure[p] = v}
  <2>1. UpTo(measure, v) = Under(measure, v) \cup At /\ Under(measure, v) \cap At = {}
    BY <1>4 DEF UpTo, Under, Measures
  <2>2. Count(sample, Under(measure, v) \cup At) = Count(sample, Under(measure, v)) + Count(sample, At)
    BY <1>1, <2>1, CountUnion
  <2>3. Count(sample, At) = 0
    BY CountPositive
  <2>4. Count(sample, UpTo(measure, v)) = Count(sample, Under(measure, v)) + Count(sample, At)
    BY <2>1, <2>2, Zenon
  <2>. QED  BY <1>1, <1>4, <1>5, <2>3, <2>4
<1>7. \E w \in {measure[p] : p \in {q \in Prices : sample[q] > 0}} :
        /\ Count(sample, {p \in Prices : measure[p] < w}) < k
        /\ k <= Count(sample, {p \in Prices : measure[p] <= w})
  BY <1>4, <1>5, <1>6 DEF Under, UpTo
<1>. DEFINE w == Kth(sample, measure, k)
<1>8. /\ w \in {measure[p] : p \in {q \in Prices : sample[q] > 0}}
      /\ Count(sample, {p \in Prices : measure[p] < w}) < k
      /\ k <= Count(sample, {p \in Prices : measure[p] <= w})
  BY <1>7 DEF Kth
<1>. HIDE DEF w
<1>9. w \in Nat
  BY <1>8 DEF Measures
<1>. QED  BY <1>8, <1>9 DEF IsKth, Under, UpTo, w

LEMMA KthOrdered ==
  ASSUME NEW sample \in Samples, NEW measure \in Measures,
         NEW i \in Nat, NEW k \in Nat, NEW v, NEW w,
         i <= k, IsKth(sample, measure, i, v), IsKth(sample, measure, k, w)
  PROVE  v <= w
<1>. SUFFICES ASSUME w < v PROVE FALSE
  BY DEF IsKth
<1>1. UpTo(measure, w) \in SUBSET Under(measure, v) /\ Under(measure, v) \in SUBSET Prices
  BY DEF IsKth, UpTo, Under, Measures
<1>2. Count(sample, UpTo(measure, w)) <= Count(sample, Under(measure, v))
  BY <1>1, CountMonotone
<1>3. Count(sample, UpTo(measure, w)) \in Nat /\ Count(sample, Under(measure, v)) \in Nat
  BY CountType DEF UpTo, Under
<1>. QED  BY <1>2, <1>3 DEF IsKth

\* The two neighbours of a quartile: the place-th and the next comparable.
Place(sample, q) == ((Size(sample) - 1) * q) \div 4 + 1
Rest(sample, q) == ((Size(sample) - 1) * q) % 4
After(sample, q) == IF Place(sample, q) + 1 <= Size(sample) THEN Place(sample, q) + 1 ELSE Size(sample)

LEMMA Places ==
  ASSUME NEW sample \in Samples, 1 <= Size(sample), NEW q \in {1, 2, 3}
  PROVE  /\ Size(sample) \in Nat
         /\ Place(sample, q) \in Nat /\ After(sample, q) \in Nat /\ Rest(sample, q) \in 0 .. 3
         /\ 1 <= Place(sample, q) /\ Place(sample, q) <= After(sample, q)
         /\ After(sample, q) <= Size(sample)
         /\ (Size(sample) - 1) * q = 4 * (Place(sample, q) - 1) + Rest(sample, q)
<1>. DEFINE n == Size(sample)
<1>1. n \in Nat
  BY CountType DEF Size
<1>. HIDE DEF n
<1>2. CASE q = 1
  BY <1>1, <1>2 DEF Place, After, Rest, n
<1>3. CASE q = 2
  BY <1>1, <1>3 DEF Place, After, Rest, n
<1>4. CASE q = 3
  BY <1>1, <1>4 DEF Place, After, Rest, n
<1>. QED  BY <1>2, <1>3, <1>4

Neighbours(sample, measure, q, b, a) ==
  /\ IsKth(sample, measure, Place(sample, q), b)
  /\ IsKth(sample, measure, After(sample, q), a)
  /\ b <= a
  /\ Quartile(sample, measure, q) = 4 * b + (a - b) * Rest(sample, q)

LEMMA SmallerOf ==
  ASSUME NEW m \in Nat, NEW n \in Nat
  PROVE  Min({m, n}) = IF m <= n THEN m ELSE n
BY DEF Min

LEMMA QuartileBetween ==
  ASSUME NEW sample \in Samples, NEW measure \in Measures, 1 <= Size(sample), NEW q \in {1, 2, 3}
  PROVE  \E b, a \in Nat :
           /\ Neighbours(sample, measure, q, b, a)
           /\ Quartile(sample, measure, q) \in Nat
           /\ 4 * b <= Quartile(sample, measure, q) /\ Quartile(sample, measure, q) <= 4 * a
<1>. DEFINE n == Size(sample)
            i == Place(sample, q)
            r == Rest(sample, q)
            b == Kth(sample, measure, i)
            a == Kth(sample, measure, After(sample, q))
<1>1. /\ n \in Nat /\ i \in Nat /\ After(sample, q) \in Nat /\ r \in 0 .. 3
      /\ 1 <= i /\ i <= After(sample, q) /\ After(sample, q) <= n
  BY Places
<1>2. IsKth(sample, measure, i, b) /\ IsKth(sample, measure, After(sample, q), a)
  BY <1>1, KthIs
<1>3. b <= a /\ b \in Nat /\ a \in Nat
  BY <1>1, <1>2, KthOrdered DEF IsKth
<1>4. Min({((Size(sample) - 1) * q) \div 4 + 2, Size(sample)}) = After(sample, q)
  <2>1. ((Size(sample) - 1) * q) \div 4 + 2 = i + 1
    BY <1>1 DEF Place
  <2>2. Min({i + 1, n}) = After(sample, q)
    BY <1>1, SmallerOf DEF After
  <2>. QED  BY <2>1, <2>2
<1>5. Quartile(sample, measure, q) = 4 * b + (a - b) * r
  BY <1>4 DEF Quartile, Place, Rest
<1>. HIDE DEF a, b, r
<1>6. (a - b) * r \in Nat /\ (a - b) * r <= 4 * (a - b)
  <2>1. r = 0 \/ r = 1 \/ r = 2 \/ r = 3
    BY <1>1
  <2>. QED  BY <1>3, <2>1
<1>7. Neighbours(sample, measure, q, b, a)
  BY <1>2, <1>3, <1>5 DEF Neighbours, r
<1>. QED  BY <1>3, <1>5, <1>6, <1>7

\* Half of the comparables or more are not above their median.
LEMMA MedianHalves ==
  ASSUME NEW sample \in Samples, NEW measure \in Measures, 1 <= Size(sample),
         NEW b \in Nat, NEW a \in Nat, Neighbours(sample, measure, 2, b, a)
  PROVE  Size(sample) <= 2 * Count(sample, UpTo(measure, b))
<1>1. /\ Size(sample) \in Nat /\ Place(sample, 2) \in Nat /\ Rest(sample, 2) \in 0 .. 3
      /\ (Size(sample) - 1) * 2 = 4 * (Place(sample, 2) - 1) + Rest(sample, 2)
  BY Places
<1>2. Count(sample, UpTo(measure, b)) \in Nat
  BY CountType DEF UpTo
<1>3. Place(sample, 2) <= Count(sample, UpTo(measure, b))
  BY DEF Neighbours, IsKth
<1>. QED  BY <1>1, <1>2, <1>3

\* A higher quartile is not lower.
LEMMA QuartilesOrdered ==
  ASSUME NEW sample \in Samples, NEW measure \in Measures, 1 <= Size(sample), NEW q \in {1, 2}
  PROVE  Quartile(sample, measure, q) <= Quartile(sample, measure, q + 1)
<1>. DEFINE s == q + 1
            i == Place(sample, q)
            k == Place(sample, s)
            x == Rest(sample, q)
            y == Rest(sample, s)
<1>1. s \in {1, 2, 3} /\ q \in {1, 2, 3}
  OBVIOUS
<1>2. PICK b, a \in Nat :
        /\ Neighbours(sample, measure, q, b, a)
        /\ Quartile(sample, measure, q) \in Nat
        /\ 4 * b <= Quartile(sample, measure, q) /\ Quartile(sample, measure, q) <= 4 * a
  BY <1>1, QuartileBetween
<1>. HIDE DEF s
<1>3. PICK d, c \in Nat :
        /\ Neighbours(sample, measure, s, d, c)
        /\ Quartile(sample, measure, s) \in Nat
        /\ 4 * d <= Quartile(sample, measure, s) /\ Quartile(sample, measure, s) <= 4 * c
  BY <1>1, QuartileBetween
<1>4. /\ Size(sample) \in Nat /\ i \in Nat /\ After(sample, q) \in Nat /\ x \in 0 .. 3
      /\ (Size(sample) - 1) * q = 4 * (i - 1) + x
  BY <1>1, Places
<1>5. /\ k \in Nat /\ After(sample, s) \in Nat /\ y \in 0 .. 3 /\ k <= Size(sample)
      /\ (Size(sample) - 1) * s = 4 * (k - 1) + y
  BY <1>1, Places
<1>6. (Size(sample) - 1) * q <= (Size(sample) - 1) * s
  BY <1>4 DEF s
<1>7. i < k \/ (i = k /\ x <= y)
  BY <1>4, <1>5, <1>6
<1>8. CASE i < k
  <2>1. After(sample, q) <= k
    BY <1>4, <1>5, <1>8 DEF After
  <2>2. a <= d
    BY <1>2, <1>3, <1>4, <1>5, <2>1, KthOrdered DEF Neighbours
  <2>. QED  BY <1>2, <1>3, <2>2 DEF s
<1>9. CASE i = k /\ x <= y
  <2>1. After(sample, q) = After(sample, s)
    BY <1>9 DEF After
  <2>2. /\ IsKth(sample, measure, After(sample, q), a)
        /\ IsKth(sample, measure, After(sample, q), c)
        /\ IsKth(sample, measure, i, b) /\ IsKth(sample, measure, i, d)
        /\ b <= a
    BY <1>2, <1>3, <1>9, <2>1, Zenon DEF Neighbours
  <2>3. a = c /\ b = d
    <3>1. \A j, v, w \in Nat : IsKth(sample, measure, j, v) /\ IsKth(sample, measure, j, w) => v <= w
      BY KthOrdered
    <3>2. a <= c /\ c <= a
      BY <1>4, <2>2, <3>1
    <3>3. b <= d /\ d <= b
      BY <1>4, <2>2, <3>1
    <3>. QED  BY <3>2, <3>3
  <2>4. (a - b) * x <= (a - b) * y
    <3>1. \A m \in Nat : m * x <= m * y
      BY <1>4, <1>5, <1>9
    <3>2. a - b \in Nat
      BY <2>2
    <3>. QED  BY <3>1, <3>2
  <2>5. (a - b) * x \in Int /\ (a - b) * y \in Int
    BY <1>4, <1>5
  <2>6. /\ Quartile(sample, measure, q) = 4 * b + (a - b) * x
        /\ Quartile(sample, measure, s) = 4 * b + (a - b) * y
    BY <1>2, <1>3, <2>3, Zenon DEF Neighbours
  <2>. QED  BY <2>4, <2>5, <2>6 DEF s
<1>. QED  BY <1>7, <1>8, <1>9

-----------------------------------------------------------------------------
(***************************************************************************)
(* The removal of outliers.                                                *)
(***************************************************************************)
LEMMA PriceMeasures == Price \in Measures /\ \A p \in Prices : Price[p] = p
BY PricingAssumption DEF Price, Measures, PricingAssumption

\* The estimate is in order.
LEMMA EstimateOrdered ==
  ASSUME NEW sample \in Samples, 1 <= Size(sample)
  PROVE  /\ Low(sample) \in Nat /\ Mid(sample) \in Nat /\ High(sample) \in Nat
         /\ Low(sample) <= Mid(sample) /\ Mid(sample) <= High(sample)
<1>1. \A q \in {1, 2, 3} : Quartile(sample, Price, q) \in Nat
  BY PriceMeasures, QuartileBetween
<1>2. Quartile(sample, Price, 1) <= Quartile(sample, Price, 1 + 1)
  BY PriceMeasures, QuartilesOrdered
<1>3. Quartile(sample, Price, 2) <= Quartile(sample, Price, 2 + 1)
  BY PriceMeasures, QuartilesOrdered
<1>. QED  BY <1>1, <1>2, <1>3 DEF Low, Mid, High

LEMMA DeviationMeasures ==
  ASSUME NEW sample \in Samples, 1 <= Size(sample)
  PROVE  Deviation(sample) \in Measures
<1>1. \A p \in Prices : 4 * p \in Nat
  BY PricingAssumption DEF PricingAssumption
<1>2. Mid(sample) \in Nat
  BY EstimateOrdered
<1>3. \A m, n \in Nat : Abs(m, n) \in Nat
  BY DEF Abs
<1>. HIDE DEF Abs
<1>. QED  BY <1>1, <1>2, <1>3 DEF Deviation, Measures

\* Of any sample the half that is next to the median is near by.
LEMMA HalfIsNearBy ==
  ASSUME NEW sample \in Samples, 1 <= Size(sample), NEW deviation \in Measures, NEW mad,
         mad = Quartile(sample, deviation, 2)
  PROVE  Size(sample) <= 2 * Count(sample, NearBy(sample, deviation, mad))
<1>1. PICK b \in Nat, a \in Nat :
        /\ Neighbours(sample, deviation, 2, b, a)
        /\ mad \in Nat /\ 4 * b <= mad
  BY QuartileBetween
<1>2. Size(sample) <= 2 * Count(sample, UpTo(deviation, b))
  BY <1>1, MedianHalves
<1>3. High(sample) \in Nat /\ Low(sample) \in Nat /\ Low(sample) <= High(sample)
  BY EstimateOrdered
<1>4. NearBy(sample, deviation, mad) \in SUBSET Prices
  BY DEF NearBy
<1>5. UpTo(deviation, b) \in SUBSET NearBy(sample, deviation, mad)
  <2>. SUFFICES ASSUME NEW p \in Prices, deviation[p] <= b
                PROVE  p \in NearBy(sample, deviation, mad)
    BY DEF UpTo
  <2>1. deviation[p] \in Nat /\ 4 * deviation[p] <= mad
    BY <1>1 DEF Measures
  <2>2. mad > 0 => 40000 * deviation[p] <= 44478 * mad
    BY <1>1, <2>1
  <2>3. ~(mad > 0) => 1349 * deviation[p] <= 3000 * (High(sample) - Low(sample))
    BY <1>1, <1>3, <2>1
  <2>. QED  BY <2>2, <2>3 DEF NearBy
<1>6. Count(sample, UpTo(deviation, b)) <= Count(sample, NearBy(sample, deviation, mad))
  BY <1>4, <1>5, CountMonotone
<1>7. /\ Count(sample, UpTo(deviation, b)) \in Nat /\ Size(sample) \in Nat
      /\ Count(sample, NearBy(sample, deviation, mad)) \in Nat
  BY <1>4, CountType DEF UpTo, Size
<1>. QED  BY <1>2, <1>6, <1>7

LEMMA WithoutCounts ==
  ASSUME NEW sample \in Samples, NEW K \in SUBSET Prices
  PROVE  /\ Without(sample, Prices \ K) \in Samples
         /\ Size(Without(sample, Prices \ K)) = Count(sample, K)
<1>. DEFINE left == Without(sample, Prices \ K)
<1>1. /\ left \in Samples
      /\ \A p \in K : sample[p] = left[p]
      /\ \A p \in Prices \ K : left[p] = 0
  BY DEF Without, Samples
<1>. HIDE DEF left
<1>2. Count(sample, K) = Count(left, K)
  BY <1>1, CountSame
<1>3. Count(left, Prices \ K) = 0
  BY <1>1, CountPositive
<1>4. Count(left, K \cup (Prices \ K)) = Count(left, K) + Count(left, Prices \ K)
  <2>1. K \cap (Prices \ K) = {} /\ Prices \ K \in SUBSET Prices
    OBVIOUS
  <2>. QED  BY <1>1, <2>1, CountUnion
<1>5. K \cup (Prices \ K) = Prices
  OBVIOUS
<1>6. Size(left) = Count(left, K) + Count(left, Prices \ K)
  BY <1>4, <1>5, Zenon DEF Size
<1>7. Count(left, K) \in Nat
  BY <1>1, CountType
<1>. QED  BY <1>1, <1>2, <1>3, <1>6, <1>7 DEF left

\* A round removes nothing, or half of a sample that is large enough at most.
LEMMA FilteredKeeps ==
  ASSUME NEW sample \in Samples
  PROVE  /\ Filtered(sample) \in Samples
         /\ \A p \in Prices : Filtered(sample)[p] > 0 => sample[p] > 0
         /\ \/ Filtered(sample) = sample
            \/ MinFiltered <= Size(sample) /\ Size(sample) <= 2 * Size(Filtered(sample))
<1>. DEFINE deviation == Deviation(sample)
            mad == Quartile(sample, deviation, 2)
            K == NearBy(sample, deviation, mad)
<1>1. Size(sample) \in Nat /\ MinFiltered \in Nat /\ 1 <= MinFiltered
  BY PricingAssumption, CountType DEF Size, PricingAssumption
<1>2. CASE Size(sample) < MinFiltered
  BY <1>2 DEF Filtered
<1>3. CASE ~(Size(sample) < MinFiltered)
  <2>1. Filtered(sample) = Without(sample, Prices \ K)
    BY <1>3 DEF Filtered
  <2>2. 1 <= Size(sample) /\ MinFiltered <= Size(sample)
    BY <1>1, <1>3
  <2>3. deviation \in Measures
    BY <2>2, DeviationMeasures
  <2>. HIDE DEF deviation
  <2>4. Size(sample) <= 2 * Count(sample, K)
    BY <2>2, <2>3, HalfIsNearBy
  <2>5. K \in SUBSET Prices
    BY DEF NearBy
  <2>. HIDE DEF K
  <2>6. Without(sample, Prices \ K) \in Samples /\ Size(Without(sample, Prices \ K)) = Count(sample, K)
    BY <2>5, WithoutCounts
  <2>7. \A p \in Prices : Without(sample, Prices \ K)[p] > 0 => sample[p] > 0
    BY DEF Without
  <2>. QED  BY <2>1, <2>2, <2>4, <2>6, <2>7
<1>. QED  BY <1>2, <1>3

\* Three rounds leave a sample of MinSample, and half of MinFiltered.
Enough(sample, n) == n = Size(sample) \/ (MinFiltered <= n /\ MinFiltered <= 2 * Size(sample))

LEMMA FilteredEnough ==
  ASSUME NEW sample \in Samples, NEW n \in Nat, Enough(sample, n)
  PROVE  Enough(Filtered(sample), n)
<1>1. Size(sample) \in Nat /\ Size(Filtered(sample)) \in Nat /\ MinFiltered \in Nat
  BY PricingAssumption, FilteredKeeps, CountType DEF Size, PricingAssumption
<1>2. CASE Filtered(sample) = sample
  BY <1>2
<1>3. CASE MinFiltered <= Size(sample) /\ Size(sample) <= 2 * Size(Filtered(sample))
  BY <1>1, <1>3 DEF Enough
<1>. QED  BY <1>2, <1>3, FilteredKeeps

LEMMA KeptKeeps ==
  ASSUME NEW sample \in Samples
  PROVE  /\ Kept(sample) \in Samples
         /\ \A p \in Prices : Kept(sample)[p] > 0 => sample[p] > 0
         /\ Size(sample) >= MinSample => Size(Kept(sample)) >= MinSample
         /\ Size(sample) >= MinFiltered => 2 * Size(Kept(sample)) >= MinFiltered
<1>. DEFINE one == Filtered(sample)
            two == Filtered(one)
            n == Size(sample)
<1>1. one \in Samples /\ two \in Samples /\ Kept(sample) \in Samples
  BY FilteredKeeps DEF Kept
<1>2. n \in Nat /\ Size(Kept(sample)) \in Nat
  BY <1>1, CountType DEF Size
<1>3. Enough(one, n)
  BY <1>2, FilteredEnough DEF Enough
<1>4. Enough(two, n)
  BY <1>1, <1>2, <1>3, FilteredEnough
<1>5. Enough(Kept(sample), n)
  BY <1>1, <1>2, <1>4, FilteredEnough DEF Kept
<1>6. \A p \in Prices : Kept(sample)[p] > 0 => sample[p] > 0
  BY <1>1, FilteredKeeps DEF Kept
<1>7. MinSample \in Nat /\ MinFiltered \in Nat /\ 2 * MinSample <= MinFiltered + 1
  BY PricingAssumption DEF PricingAssumption
<1>. HIDE DEF one, two
<1>. QED  BY <1>1, <1>2, <1>5, <1>6, <1>7 DEF Enough

-----------------------------------------------------------------------------
(***************************************************************************)
(* Estimates and scores.                                                   *)
(***************************************************************************)
LEMMA ValuationIs ==
  ASSUME NEW sample
  PROVE  Valuation(sample) = IF Size(Kept(sample)) < MinSample THEN NoValuation(Kept(sample))
                             ELSE ValuationOf(Kept(sample))
BY DEF Valuation

\* An estimate lies within the prices it is made of.
LEMMA EstimateWithin ==
  ASSUME NEW sample \in Samples, 1 <= Size(sample)
  PROVE  \E p, q \in {x \in Prices : sample[x] > 0} :
           4 * p <= Low(sample) /\ High(sample) <= 4 * q
<1>1. PICK b \in Nat, a \in Nat : Neighbours(sample, Price, 1, b, a) /\ 4 * b <= Low(sample)
  BY PriceMeasures, QuartileBetween DEF Low
<1>2. PICK d \in Nat, c \in Nat : Neighbours(sample, Price, 3, d, c) /\ High(sample) <= 4 * c
  BY PriceMeasures, QuartileBetween DEF High
<1>3. b \in Prices /\ sample[b] > 0
  BY <1>1, PriceMeasures DEF Neighbours, IsKth
<1>4. c \in Prices /\ sample[c] > 0
  BY <1>2, PriceMeasures DEF Neighbours, IsKth
<1>. QED  BY <1>1, <1>2, <1>3, <1>4

LEMMA ThreeAreValued ==
  ASSUME NEW sample \in Samples, Size(sample) >= MinSample
  PROVE  LET v == Valuation(sample)
         IN  /\ v.status = "ok"
             /\ Size(sample) >= MinFiltered => 2 * v.count >= MinFiltered
             /\ \E p, q \in {x \in Prices : sample[x] > 0} :
                  4 * p <= v.low /\ v.low <= v.mid /\ v.mid <= v.high /\ v.high <= 4 * q
<1>. DEFINE kept == Kept(sample)
            v == Valuation(sample)
<1>1. /\ kept \in Samples
      /\ \A p \in Prices : kept[p] > 0 => sample[p] > 0
      /\ Size(kept) >= MinSample
      /\ Size(sample) >= MinFiltered => 2 * Size(kept) >= MinFiltered
  BY KeptKeeps
<1>2. Size(kept) \in Nat /\ MinSample \in Nat /\ 1 <= MinSample
  BY <1>1, PricingAssumption, CountType DEF Size, PricingAssumption
<1>3. v = ValuationOf(kept)
  BY <1>1, <1>2, ValuationIs
<1>. HIDE DEF kept, v
<1>4. v.status = "ok" /\ v.count = Size(kept) /\ v.low = Low(kept) /\ v.mid = Mid(kept) /\ v.high = High(kept)
  BY <1>3 DEF ValuationOf
<1>5. Low(kept) <= Mid(kept) /\ Mid(kept) <= High(kept)
  BY <1>1, <1>2, EstimateOrdered
<1>6. PICK p, q \in {x \in Prices : kept[x] > 0} : 4 * p <= Low(kept) /\ High(kept) <= 4 * q
  BY <1>1, <1>2, EstimateWithin
<1>7. p \in {x \in Prices : sample[x] > 0} /\ q \in {x \in Prices : sample[x] > 0}
  BY <1>1, <1>6
<1>. QED  BY <1>1, <1>4, <1>5, <1>6, <1>7 DEF v

LEMMA Quotients ==
  ASSUME NEW x \in Nat, NEW d \in Nat, d > 0
  PROVE  x \div d \in Nat /\ d * (x \div d) <= x
OBVIOUS

LEMMA Weights ==
  ASSUME NEW m \in Nat, NEW c \in {9, 15, 20}, NEW l \in 0 .. 100
  PROVE  m * 18 * c * l \in Nat /\ m * 18 * c * l <= m * 36000
<1>. DEFINE t == m * 18 * c
<1>1. t \in Nat /\ t <= m * 360
  OBVIOUS
<1>. HIDE DEF t
<1>2. t * l \in Nat /\ t * l <= t * 100
  BY <1>1
<1>. QED  BY <1>1, <1>2 DEF t

LEMMA HighScores ==
  ASSUME NEW sample \in Samples, NEW p \in Prices,
         p \in Opportunities(Valuation(sample)), Priority(Valuation(sample), p) = "high"
  PROVE  LET v == Valuation(sample)
         IN  12 * p <= 2 * v.mid /\ v.low <= 8 * p /\ 400 * p < (100 - Fee) * v.mid
<1>. DEFINE kept == Kept(sample)
            v == Valuation(sample)
            n == Size(kept)
            level == Confidence(n, Low(kept), Mid(kept), High(kept))
<1>1. kept \in Samples
  BY KeptKeeps
<1>2. n \in Nat /\ MinSample \in Nat /\ 1 <= MinSample
  BY <1>1, PricingAssumption, CountType DEF Size, PricingAssumption
<1>3. v.status = "ok"
  BY DEF Opportunities
<1>4. v = ValuationOf(kept) /\ 1 <= n
  BY <1>2, <1>3, ValuationIs DEF NoValuation
<1>. HIDE DEF kept, v
<1>5. v.count = n /\ v.low = Low(kept) /\ v.mid = Mid(kept) /\ v.confidence = level
  BY <1>4 DEF ValuationOf
<1>6. Low(kept) \in Nat /\ Mid(kept) \in Nat
  BY <1>1, <1>4, EstimateOrdered
<1>7. ConfidenceWeight(v.confidence) \in {9, 15, 20}
  BY <1>5 DEF ConfidenceWeight, Confidence
<1>8. LiquidityWeight(v.count) \in 0 .. 100
  BY PricingAssumption DEF LiquidityWeight, PricingAssumption
<1>9. Score(v, p) >= 600
  BY DEF Priority, v
<1>10. p \in Nat /\ Fee \in Nat
  BY PricingAssumption DEF PricingAssumption
<1>11. ~TooCheap(v, p) /\ ~NoProfit(v, p) /\ ~(4 * p >= v.mid)
  BY <1>9 DEF Score
<1>. DEFINE m == v.mid - 4 * p
            x == m * 18 * ConfidenceWeight(v.confidence) * LiquidityWeight(v.count)
            d == 20 * v.mid
<1>12. v.mid \in Nat /\ v.low \in Nat /\ m \in Nat /\ d \in Nat /\ d > 0
  BY <1>5, <1>6, <1>10, <1>11
<1>13. Score(v, p) = Min({1000, x \div d})
  BY <1>11 DEF Score
<1>. HIDE DEF m
<1>14. x \in Nat /\ x <= m * 36000
  BY <1>7, <1>8, <1>12, Weights
<1>. HIDE DEF x, d
<1>15. x \div d \in Nat /\ d * (x \div d) <= x
  BY <1>12, <1>14, Quotients
<1>16. x \div d >= 600
  BY <1>9, <1>13, <1>15, SmallerOf
<1>17. d * 600 <= d * (x \div d)
  BY <1>12, <1>15, <1>16
<1>18. d * 600 <= m * 36000
  BY <1>12, <1>14, <1>15, <1>17
<1>19. 12 * p <= 2 * v.mid
  BY <1>10, <1>12, <1>18 DEF d, m
<1>20. v.low <= 8 * p
  BY <1>10, <1>11, <1>12 DEF TooCheap
<1>21. 400 * p < (100 - Fee) * v.mid
  BY <1>10, <1>11, <1>12 DEF NoProfit
<1>. QED  BY <1>19, <1>20, <1>21 DEF v

-----------------------------------------------------------------------------
(***************************************************************************)
(* The records of a collection.                                            *)
(***************************************************************************)
RecordsBody(g, n) ==
  IF n = 0 THEN {}
  ELSE LET cards == results[n].cards
           used == {k \in DOMAIN cards : /\ Readable(cards[k], Variants[n]) /\ cards[k].used
                                         /\ \A r \in g[n - 1] : r.id # cards[k].id}
       IN  g[n - 1] \cup {cards[k] : k \in {i \in used : Cardinality({m \in used : m <= i}) <= Limit}}

\* The records of the first variants extend to those of one more.
LEMMA RecordsExist ==
  ASSUME NEW l \in Nat
  PROVE  \E g : g = [n \in 0 .. l |-> RecordsBody(g, n)]
<1>. DEFINE Partial(m, g) == g = [n \in 0 .. m |-> RecordsBody(g, n)]
            Missing == {m \in Nat : \A g : ~Partial(m, g)}
<1>1. 0 \notin Missing
  <2>1. Partial(0, [n \in 0 .. 0 |-> {}])
    BY DEF RecordsBody
  <2>. QED  BY <2>1
<1>2. ASSUME NEW m \in Nat, m \notin Missing
      PROVE  m + 1 \notin Missing
  <2>1. PICK g : Partial(m, g)
    BY <1>2
  <2>. DEFINE h == [n \in 0 .. m + 1 |-> RecordsBody(g, n)]
  <2>2. \A n \in 0 .. m : h[n] = g[n]
    BY <2>1
  <2>3. ASSUME NEW n \in 0 .. m + 1
        PROVE  RecordsBody(g, n) = RecordsBody(h, n)
    <3>1. CASE n = 0
      BY <3>1 DEF RecordsBody
    <3>2. CASE n # 0
      <4>1. n - 1 \in 0 .. m
        BY <3>2
      <4>. HIDE DEF h
      <4>2. h[n - 1] = g[n - 1]
        BY <2>2, <4>1
      <4>. QED  BY <4>2, Zenon DEF RecordsBody
    <3>. QED  BY <3>1, <3>2
  <2>4. Partial(m + 1, h)
    BY <2>3
  <2>. QED  BY <2>4
<1>. HIDE DEF Missing
<1>3. Missing = {}
  <2>. SUFFICES ASSUME Missing # {} PROVE FALSE
    OBVIOUS
  <2>1. Missing \in SUBSET Nat
    BY DEF Missing
  <2>2. PICK m \in Missing : \A n \in Missing : m <= n
    BY <2>1, LeastOf
  <2>3. m # 0 /\ m - 1 \in Nat /\ m - 1 \notin Missing
    BY <1>1, <2>1, <2>2
  <2>4. (m - 1) + 1 \notin Missing
    BY <1>2, <2>3
  <2>. QED  BY <2>1, <2>2, <2>4
<1>. QED  BY <1>3 DEF Missing

LEMMA RecordsType ==
  ASSUME results \in Seq(VariantCollection)
  PROVE  \A n \in 0 .. Len(results) : Records[n] \in SUBSET Card
<1>. DEFINE l == Len(results)
            Bad == {n \in 0 .. l : Records[n] \notin SUBSET Card}
<1>1. l \in Nat
  OBVIOUS
<1>2. Records = [n \in 0 .. l |-> RecordsBody(Records, n)]
  <2>1. \E g : g = [n \in 0 .. l |-> RecordsBody(g, n)]
    BY <1>1, RecordsExist
  <2>. QED  BY <2>1 DEF Records, RecordsBody
<1>3. \A n \in 0 .. l : Records[n] = RecordsBody(Records, n)
  BY <1>2
<1>4. ASSUME NEW n \in 0 .. l, n # 0, Records[n - 1] \in SUBSET Card
      PROVE  Records[n] \in SUBSET Card
  <2>1. n \in 1 .. l
    BY <1>4
  <2>2. results[n].cards \in Seq(Card)
    <3>1. results[n] \in VariantCollection
      BY <2>1
    <3>. QED  BY <3>1 DEF VariantCollection
  <2>3. \A k \in DOMAIN results[n].cards : results[n].cards[k] \in Card
    BY <2>2
  <2>4. Records[n] \subseteq Records[n - 1] \cup {results[n].cards[k] : k \in DOMAIN results[n].cards}
    <3>1. Records[n] = RecordsBody(Records, n)
      BY <1>3
    <3>. QED  BY <1>4, <3>1, Zenon DEF RecordsBody
  <2>. QED  BY <1>4, <2>3, <2>4
<1>5. Bad = {}
  <2>. SUFFICES ASSUME Bad # {} PROVE FALSE
    OBVIOUS
  <2>. HIDE DEF Bad
  <2>1. Bad \in SUBSET Nat
    BY <1>1 DEF Bad
  <2>2. PICK m \in Bad : \A n \in Bad : m <= n
    BY <2>1, LeastOf
  <2>3. m \in 0 .. l /\ Records[m] \notin SUBSET Card
    BY DEF Bad
  <2>4. m # 0
    BY <1>1, <1>3, <2>3 DEF RecordsBody
  <2>5. m - 1 \in 0 .. l /\ m - 1 \notin Bad
    BY <1>1, <2>1, <2>2, <2>3, <2>4
  <2>. QED  BY <1>4, <2>3, <2>4, <2>5 DEF Bad
<1>. QED  BY <1>5

-----------------------------------------------------------------------------
(***************************************************************************)
(* Types.  A collector that goes on has at most one failure to count.      *)
(***************************************************************************)
TypedInv ==
  /\ AppraisalTypeOK
  /\ ~terminal => failures <= 1
  /\ results # <<>> => collections < MaxCollections

LEMMA TypedInit == Init => TypedInv
<1>. SUFFICES ASSUME Init PROVE TypedInv
  OBVIOUS
<1>1. Len(Variants) \in Nat /\ MaxCollections \in Nat
  BY AppraisalAssumption DEF AppraisalAssumption
<1>2. results = <<>> /\ results \in Seq(VariantCollection) /\ Len(results) = 0
  BY DEF Init
<1>3. DOMAIN stored = {}
  BY DEF Init
<1>4. failures = 0 /\ terminal = FALSE /\ status = "none" /\ collections = 0
  BY DEF Init
<1>5. 0 <= Len(Variants) /\ 0 \in 0 .. 2 /\ 0 \in 0 .. MaxCollections
  BY <1>1
<1>6. AppraisalTypeOK
  BY <1>2, <1>3, <1>4, <1>5, Zenon DEF AppraisalTypeOK, Statuses
<1>. QED  BY <1>2, <1>4, <1>6 DEF TypedInv

LEMMA AddType ==
  ASSUME TypedInv, Pending, NEW how \in Errors \cup {"answered", "skipped"}, NEW cards \in Seq(Card),
         Add(how, cards)
  PROVE  /\ results' \in Seq(VariantCollection)
         /\ Len(results') = Len(results) + 1 /\ Len(results') <= Len(Variants)
         /\ collections < MaxCollections
<1>1. [how |-> how, cards |-> cards] \in VariantCollection
  BY DEF VariantCollection
<1>2. results \in Seq(VariantCollection)
  BY DEF TypedInv, AppraisalTypeOK
<1>3. Len(Variants) \in Nat
  BY AppraisalAssumption DEF AppraisalAssumption
<1>. QED  BY <1>1, <1>2, <1>3 DEF Add, Pending

LEMMA AskTyped ==
  ASSUME TypedInv, NEW how \in Errors \cup {"answered"}, NEW cards \in Seq(Card), Ask(how, cards)
  PROVE  TypedInv'
<1>1. /\ results' \in Seq(VariantCollection)
      /\ Len(results') <= Len(Variants) /\ collections < MaxCollections
  BY AddType DEF Ask
<1>2. failures \in 0 .. 1
  BY DEF Ask, TypedInv, AppraisalTypeOK
<1>3. failures' \in 0 .. 2 /\ terminal' \in BOOLEAN /\ (~terminal' => failures' <= 1)
  <2>1. CASE how = "answered" \/ how = "unparsed"
    BY <1>2, <2>1 DEF Ask, NextFailures
  <2>2. CASE how \in Refusals
    BY <1>2, <2>2 DEF Ask, NextFailures, Refusals
  <2>3. CASE how \in {"timeout", "timeout_network", "network"}
    <3>1. failures' = failures + 1
      <4>1. how \notin {"answered", "unparsed"} /\ how \notin Refusals
        BY <2>3 DEF Refusals
      <4>. QED  BY <2>3, <4>1, Zenon DEF Ask, NextFailures
    <3>. QED  BY <1>2, <2>3, <3>1 DEF Ask
  <2>. QED  BY <2>1, <2>2, <2>3 DEF Errors
<1>. QED  BY <1>1, <1>3 DEF Ask, TypedInv, AppraisalTypeOK

LEMMA SkipTyped == TypedInv /\ Skip => TypedInv'
<1>. SUFFICES ASSUME TypedInv, Skip PROVE TypedInv'
  OBVIOUS
<1>1. <<>> \in Seq(Card)
  OBVIOUS
<1>2. /\ results' \in Seq(VariantCollection)
      /\ Len(results') <= Len(Variants) /\ collections < MaxCollections
  BY <1>1, AddType DEF Skip
<1>. QED  BY <1>2 DEF Skip, TypedInv, AppraisalTypeOK

RowsWith(records) ==
  [id \in DOMAIN stored \cup {r.id : r \in records} |->
     IF \E r \in records : r.id = id THEN CHOOSE r \in records : r.id = id ELSE stored[id]]

LEMMA StoreTyped == TypedInv /\ Store => TypedInv'
<1>. SUFFICES ASSUME TypedInv, Store PROVE TypedInv'
  OBVIOUS
<1>1. results \in Seq(VariantCollection) /\ Len(results) \in Nat
  BY DEF TypedInv, AppraisalTypeOK
<1>2. Len(Variants) \in Nat /\ Len(Variants) # 0
  BY AppraisalAssumption DEF AppraisalAssumption
<1>3. results # <<>>
  BY <1>2 DEF Store
<1>4. collections \in 0 .. MaxCollections /\ collections < MaxCollections /\ MaxCollections \in Nat
  BY <1>3, AppraisalAssumption DEF TypedInv, AppraisalTypeOK, AppraisalAssumption
<1>. DEFINE records == Records[Len(results)]
            new == RowsWith(records)
<1>5. records \in SUBSET Card
  BY <1>1, RecordsType
<1>6. stored' = new /\ status' = SourceStatus(records)
  <2>1. PICK r \in {Records[Len(results)]} : stored' = RowsWith(r) /\ status' = SourceStatus(r)
    BY Zenon DEF Store, RowsWith
  <2>. QED  BY <2>1
<1>. HIDE DEF records
<1>7. DOMAIN new \subseteq Ids
  <2>1. DOMAIN stored \subseteq Ids
    BY DEF TypedInv, AppraisalTypeOK
  <2>2. \A r \in records : r.id \in Ids
    BY <1>5 DEF Card
  <2>. QED  BY <2>1, <2>2 DEF RowsWith
<1>8. ASSUME NEW id \in DOMAIN new
      PROVE  new[id] \in Card
  <2>1. CASE \E r \in records : r.id = id
    BY <1>5, <2>1 DEF RowsWith
  <2>2. CASE ~\E r \in records : r.id = id
    BY <2>2 DEF TypedInv, AppraisalTypeOK, RowsWith
  <2>. QED  BY <2>1, <2>2
<1>9. status' \in Statuses
  BY <1>6 DEF SourceStatus, Statuses
<1>10. results' = <<>> /\ failures' = 0 /\ terminal' = FALSE /\ collections' = collections + 1
  BY DEF Store
<1>. HIDE DEF new
<1>11. /\ results' \in Seq(VariantCollection) /\ Len(results') = 0 /\ 0 <= Len(Variants)
       /\ failures' \in 0 .. 2 /\ terminal' \in BOOLEAN /\ collections' \in 0 .. MaxCollections
  <2>1. <<>> \in Seq(VariantCollection) /\ Len(<<>>) = 0
    OBVIOUS
  <2>2. results' \in Seq(VariantCollection) /\ Len(results') = 0
    BY <1>10, <2>1, Zenon
  <2>3. 0 <= Len(Variants) /\ collections + 1 \in 0 .. MaxCollections
    BY <1>2, <1>4
  <2>4. 0 \in 0 .. 2
    OBVIOUS
  <2>. QED  BY <1>10, <2>2, <2>3, <2>4, Zenon
<1>12. AppraisalTypeOK'
  BY <1>6, <1>7, <1>8, <1>9, <1>11, Zenon DEF AppraisalTypeOK
<1>. QED  BY <1>10, <1>12 DEF TypedInv

LEMMA PageCards ==
  ASSUME TypedInv, Pending, NEW cards \in Pages[Variant]
  PROVE  cards \in Seq(Card)
<1>1. Variants \in Seq(DOMAIN Pages) /\ \A v \in DOMAIN Pages : \A c \in Pages[v] : c \in Seq(Card)
  BY AppraisalAssumption DEF AppraisalAssumption
<1>2. results \in Seq(VariantCollection)
  BY DEF TypedInv, AppraisalTypeOK
<1>3. Len(results) + 1 \in 1 .. Len(Variants)
  BY <1>1, <1>2 DEF Pending
<1>4. Variant \in DOMAIN Pages
  BY <1>1, <1>3 DEF Variant
<1>. QED  BY <1>1, <1>4

LEMMA TypedStep == TypedInv /\ [Next]_vars => TypedInv'
<1>. SUFFICES ASSUME TypedInv, [Next]_vars PROVE TypedInv'
  OBVIOUS
<1>1. ASSUME Pending, NEW cards \in Pages[Variant], Ask("answered", cards)
      PROVE  TypedInv'
  BY <1>1, PageCards, AskTyped
<1>2. ASSUME NEW how \in Errors, Ask(how, <<>>)
      PROVE  TypedInv'
  <2>1. <<>> \in Seq(Card)
    OBVIOUS
  <2>. QED  BY <1>2, <2>1, AskTyped
<1>3. CASE UNCHANGED vars
  BY <1>3 DEF vars, TypedInv, AppraisalTypeOK
<1>. QED  BY <1>1, <1>2, <1>3, SkipTyped, StoreTyped DEF Next

\* Every variable of Appraisal keeps its type, whatever the pages show.
THEOREM AppraisalTypeCorrect == Spec => []AppraisalTypeOK
<1>1. TypedInv => AppraisalTypeOK
  BY DEF TypedInv
<1>. QED  BY <1>1, TypedInit, TypedStep, PTL DEF Spec

-----------------------------------------------------------------------------
(***************************************************************************)
(* When a site is left alone.  The two variables of the collector say what *)
(* can be read off the results: whether one of them ends the collection,   *)
(* and whether the site was out of reach and has not answered since.       *)
(***************************************************************************)
OutOfReach ==
  \E k \in DOMAIN results : /\ Unreachable(k)
                            /\ \A i \in k + 1 .. Len(results) : results[i].how \notin {"answered", "unparsed"}

GivenUp == \E k \in DOMAIN results : GivesUpAt(k)

PoliteInv ==
  /\ TypedInv
  /\ Polite
  /\ terminal <=> GivenUp
  /\ ~terminal => (failures = 1 <=> OutOfReach)

\* In r the site was out of reach at place k and has not answered until l.
Silence(r, k, l) ==
  /\ r[k].how \in {"timeout", "timeout_network", "network"}
  /\ \A i \in k + 1 .. l : r[i].how \notin {"answered", "unparsed"}

LEMMA SilenceKept ==
  ASSUME NEW r, NEW t, NEW l \in Nat, \A i \in 1 .. l : t[i] = r[i]
  PROVE  /\ \A m \in 0 .. l : \A k \in 1 .. m : Silence(t, k, m) <=> Silence(r, k, m)
         /\ \A k \in 1 .. l : Silence(t, k, l + 1) <=>
              Silence(r, k, l) /\ t[l + 1].how \notin {"answered", "unparsed"}
         /\ Silence(t, l + 1, l + 1) <=> t[l + 1].how \in {"timeout", "timeout_network", "network"}
<1>1. ASSUME NEW m \in 0 .. l, NEW k \in 1 .. m
      PROVE  Silence(t, k, m) <=> Silence(r, k, m)
  <2>1. k \in 1 .. l /\ \A i \in k + 1 .. m : i \in 1 .. l
    OBVIOUS
  <2>2. t[k] = r[k] /\ \A i \in k + 1 .. m : t[i] = r[i]
    BY <2>1
  <2>. QED  BY <2>2, Zenon DEF Silence
<1>2. ASSUME NEW k \in 1 .. l
      PROVE  Silence(t, k, l + 1) <=>
               Silence(r, k, l) /\ t[l + 1].how \notin {"answered", "unparsed"}
  <2>1. \A i : i \in k + 1 .. l + 1 <=> (i \in k + 1 .. l \/ i = l + 1)
    OBVIOUS
  <2>2. Silence(t, k, l + 1) <=> Silence(t, k, l) /\ t[l + 1].how \notin {"answered", "unparsed"}
    BY <2>1, Zenon DEF Silence
  <2>. QED  BY <1>1, <2>2
<1>3. \A i \in (l + 1) + 1 .. l + 1 : FALSE
  OBVIOUS
<1>4. Silence(t, l + 1, l + 1) <=> t[l + 1].how \in {"timeout", "timeout_network", "network"}
  BY <1>3, Zenon DEF Silence
<1>. QED  BY <1>1, <1>2, <1>4

LEMMA ResultAdded ==
  ASSUME TypedInv, NEW how, NEW cards, Add(how, cards)
  PROVE  /\ Len(results) \in Nat /\ Len(results') = Len(results) + 1
         /\ DOMAIN results = 1 .. Len(results) /\ DOMAIN results' = 1 .. Len(results) + 1
         /\ \A i \in 1 .. Len(results) : results'[i] = results[i]
         /\ results'[Len(results) + 1].how = how
<1>1. results \in Seq(VariantCollection)
  BY DEF TypedInv, AppraisalTypeOK
<1>2. results' = Append(results, [how |-> how, cards |-> cards])
  BY DEF Add
<1>. QED  BY <1>1, <1>2

\* What was decided of the earlier variants stays so, and of the new one it
\* depends on whether the site was out of reach.
LEMMA ResultsDecide ==
  ASSUME TypedInv, NEW how, NEW cards, Add(how, cards), NEW l, l = Len(results)
  PROVE  /\ \A n \in 1 .. l : GivesUpAt(n)' <=> GivesUpAt(n)
         /\ GivesUpAt(l + 1)' <=>
              \/ how \in {"blocked", "login_required", "timeout_network"}
              \/ how \in {"timeout", "timeout_network", "network"} /\ OutOfReach
         /\ OutOfReach' <=>
              \/ how \in {"timeout", "timeout_network", "network"}
              \/ OutOfReach /\ how \notin {"answered", "unparsed"}
<1>1. /\ l \in Nat /\ Len(results') = l + 1
      /\ DOMAIN results = 1 .. l /\ DOMAIN results' = 1 .. l + 1
      /\ \A i \in 1 .. l : results'[i] = results[i]
      /\ results'[l + 1].how = how
  BY ResultAdded
<1>2. /\ \A m \in 0 .. l : \A k \in 1 .. m : Silence(results', k, m) <=> Silence(results, k, m)
      /\ \A k \in 1 .. l : Silence(results', k, l + 1) <=>
           Silence(results, k, l) /\ how \notin {"answered", "unparsed"}
      /\ Silence(results', l + 1, l + 1) <=> how \in {"timeout", "timeout_network", "network"}
  BY <1>1, SilenceKept
<1>3. \A n : /\ GivesUpAt(n) <=>
                  \/ results[n].how \in {"blocked", "login_required", "timeout_network"}
                  \/ /\ results[n].how \in {"timeout", "timeout_network", "network"}
                     /\ \E k \in 1 .. n - 1 : Silence(results, k, n - 1)
             /\ GivesUpAt(n)' <=>
                  \/ results'[n].how \in {"blocked", "login_required", "timeout_network"}
                  \/ /\ results'[n].how \in {"timeout", "timeout_network", "network"}
                     /\ \E k \in 1 .. n - 1 : Silence(results', k, n - 1)
  BY Zenon DEF GivesUpAt, Unreachable, Silence
<1>4. OutOfReach <=> \E k \in 1 .. l : Silence(results, k, l)
  BY <1>1, Zenon DEF OutOfReach, Unreachable, Silence
<1>5. OutOfReach' <=> \E k \in 1 .. l + 1 : Silence(results', k, l + 1)
  BY <1>1, Zenon DEF OutOfReach, Unreachable, Silence
<1>6. ASSUME NEW n \in 1 .. l
      PROVE  GivesUpAt(n)' <=> GivesUpAt(n)
  <2>1. n - 1 \in 0 .. l /\ results'[n] = results[n]
    BY <1>1
  <2>2. (\E k \in 1 .. n - 1 : Silence(results', k, n - 1)) <=>
          (\E k \in 1 .. n - 1 : Silence(results, k, n - 1))
    BY <1>2, <2>1
  <2>. QED  BY <1>3, <2>1, <2>2, Zenon
<1>7. GivesUpAt(l + 1)' <=>
        \/ how \in {"blocked", "login_required", "timeout_network"}
        \/ how \in {"timeout", "timeout_network", "network"} /\ OutOfReach
  <2>1. (l + 1) - 1 = l /\ l \in 0 .. l
    BY <1>1
  <2>2. (\E k \in 1 .. l : Silence(results', k, l)) <=> OutOfReach
    BY <1>2, <1>4, <2>1
  <2>3. GivesUpAt(l + 1)' <=>
          \/ results'[l + 1].how \in {"blocked", "login_required", "timeout_network"}
          \/ /\ results'[l + 1].how \in {"timeout", "timeout_network", "network"}
             /\ \E k \in 1 .. l : Silence(results', k, l)
    <3>1. 1 .. (l + 1) - 1 = 1 .. l
      BY <2>1
    <3>. QED  BY <1>3, <2>1, <3>1
  <2>. QED  BY <1>1, <2>2, <2>3
<1>8. OutOfReach' <=>
        \/ how \in {"timeout", "timeout_network", "network"}
        \/ OutOfReach /\ how \notin {"answered", "unparsed"}
  <2>1. \A k : k \in 1 .. l + 1 <=> (k \in 1 .. l \/ k = l + 1)
    BY <1>1
  <2>2. OutOfReach' <=> \/ \E k \in 1 .. l : Silence(results', k, l + 1)
                        \/ Silence(results', l + 1, l + 1)
    BY <1>5, <2>1, Zenon
  <2>. QED  BY <1>2, <1>4, <2>2, Zenon
<1>. QED  BY <1>6, <1>7, <1>8

LEMMA PoliteKept ==
  ASSUME PoliteInv, TypedInv', NEW how, NEW cards, Add(how, cards), how = "skipped" <=> terminal,
         terminal' <=> \/ terminal
                       \/ how \in {"blocked", "login_required", "timeout_network"}
                       \/ how \in {"timeout", "timeout_network", "network"} /\ OutOfReach,
         ~terminal' => (failures' = 1 <=> OutOfReach')
  PROVE  PoliteInv'
<1>0. PICK l : l = Len(results)
  OBVIOUS
<1>1. /\ l \in Nat /\ Len(results') = l + 1
      /\ DOMAIN results = 1 .. l /\ DOMAIN results' = 1 .. l + 1
      /\ \A i \in 1 .. l : results'[i] = results[i]
      /\ results'[l + 1].how = how
  BY <1>0, ResultAdded DEF PoliteInv
<1>2. /\ \A n \in 1 .. l : GivesUpAt(n)' <=> GivesUpAt(n)
      /\ GivesUpAt(l + 1)' <=>
           \/ how \in {"blocked", "login_required", "timeout_network"}
           \/ how \in {"timeout", "timeout_network", "network"} /\ OutOfReach
  BY <1>0, ResultsDecide DEF PoliteInv
<1>3. terminal <=> \E k \in 1 .. l : GivesUpAt(k)
  BY <1>1, Zenon DEF PoliteInv, GivenUp
<1>4. /\ \A k : k \in 1 .. l + 1 <=> (k \in 1 .. l \/ k = l + 1)
      /\ (l + 1) - 1 = l
  BY <1>1
<1>5. GivenUp' <=> terminal'
  <2>1. GivenUp' <=> \E k \in 1 .. l + 1 : GivesUpAt(k)'
    BY <1>1, Zenon DEF GivenUp
  <2>2. GivenUp' <=> (\E k \in 1 .. l : GivesUpAt(k)') \/ GivesUpAt(l + 1)'
    BY <1>4, <2>1, Zenon
  <2>3. GivenUp' <=> terminal \/ GivesUpAt(l + 1)'
    BY <1>2, <1>3, <2>2, Zenon
  <2>. QED  BY <1>2, <2>3
<1>6. ASSUME NEW n \in 1 .. l + 1
      PROVE  results'[n].how = "skipped" <=> \E k \in 1 .. n - 1 : GivesUpAt(k)'
  <2>1. CASE n = l + 1
    BY <1>1, <1>2, <1>3, <1>4, <2>1
  <2>2. CASE n \in 1 .. l
    <3>1. \A k \in 1 .. n - 1 : k \in 1 .. l
      BY <1>1, <2>2
    <3>2. results[n].how = "skipped" <=> \E k \in 1 .. n - 1 : GivesUpAt(k)
      BY <1>1, <2>2 DEF PoliteInv, Polite
    <3>. QED  BY <1>1, <1>2, <2>2, <3>1, <3>2
  <2>. QED  BY <1>4, <2>1, <2>2
<1>7. Polite'
  BY <1>1, <1>6, Zenon DEF Polite
<1>. QED  BY <1>5, <1>7, Zenon DEF PoliteInv

LEMMA AskPolite ==
  ASSUME PoliteInv, TypedInv', NEW how \in Errors \cup {"answered"}, NEW cards, Ask(how, cards)
  PROVE  PoliteInv'
<1>1. Add(how, cards) /\ ~terminal /\ TypedInv
  BY DEF Ask, PoliteInv
<1>2. OutOfReach' <=>
        \/ how \in {"timeout", "timeout_network", "network"}
        \/ OutOfReach /\ how \notin {"answered", "unparsed"}
  BY <1>1, ResultsDecide
<1>3. failures \in {0, 1} /\ (failures = 1 <=> OutOfReach)
  BY <1>1 DEF PoliteInv, TypedInv, AppraisalTypeOK
<1>4. how # "skipped"
  BY DEF Errors, Refusals
<1>5. CASE how \in {"timeout", "timeout_network", "network"}
  <2>1. failures' = failures + 1
    <3>1. how \notin {"answered", "unparsed"} /\ how \notin Refusals
      BY <1>5 DEF Refusals
    <3>. QED  BY <1>5, <3>1, Zenon DEF Ask, NextFailures
  <2>2. failures' >= 2 <=> OutOfReach
    BY <1>3, <2>1
  <2>3. terminal' <=> \/ how = "timeout_network"
                      \/ how \in {"timeout", "network"} /\ OutOfReach
    BY <1>5, <2>2 DEF Ask
  <2>4. ~terminal' => failures' = 1
    BY <1>3, <1>5, <2>1, <2>3
  <2>5. OutOfReach'
    BY <1>2, <1>5
  <2>6. terminal' <=> \/ terminal
                      \/ how \in {"blocked", "login_required", "timeout_network"}
                      \/ how \in {"timeout", "timeout_network", "network"} /\ OutOfReach
    BY <1>1, <1>5, <2>3
  <2>. QED  BY <1>1, <1>4, <2>4, <2>5, <2>6, PoliteKept
<1>6. CASE how \in {"answered", "unparsed"}
  <2>1. failures' = 0
    <3>1. how \notin {"timeout", "timeout_network", "network"} /\ how \notin Refusals
      BY <1>6 DEF Refusals
    <3>. QED  BY <1>6, <3>1, Zenon DEF Ask, NextFailures
  <2>2. ~terminal'
    BY <1>6 DEF Ask
  <2>3. ~OutOfReach'
    BY <1>2, <1>6
  <2>. QED  BY <1>1, <1>4, <1>6, <2>1, <2>2, <2>3, PoliteKept
<1>7. CASE how \in Refusals
  <2>1. failures' = failures
    BY <1>7 DEF Ask, NextFailures, Refusals
  <2>2. terminal' <=> how \in {"blocked", "login_required"}
    BY <1>7 DEF Ask, Refusals
  <2>3. OutOfReach' <=> OutOfReach
    BY <1>2, <1>7 DEF Refusals
  <2>. QED  BY <1>1, <1>3, <1>4, <1>7, <2>1, <2>2, <2>3, PoliteKept DEF Refusals
<1>. QED  BY <1>5, <1>6, <1>7 DEF Errors

LEMMA PoliteStep == PoliteInv /\ [Next]_vars => PoliteInv'
<1>. SUFFICES ASSUME PoliteInv, [Next]_vars PROVE PoliteInv'
  OBVIOUS
<1>1. TypedInv'
  BY TypedStep DEF PoliteInv
<1>2. ASSUME NEW how \in Errors \cup {"answered"}, NEW cards, Ask(how, cards)
      PROVE  PoliteInv'
  BY <1>1, <1>2, AskPolite
<1>3. CASE Skip
  <2>1. Add("skipped", <<>>) /\ terminal /\ terminal'
    BY <1>3 DEF Skip
  <2>. QED  BY <1>1, <2>1, PoliteKept
<1>4. CASE Store
  <2>1. results' = <<>> /\ failures' = 0 /\ ~terminal'
    BY <1>4 DEF Store
  <2>2. DOMAIN results' = {}
    BY <2>1
  <2>. QED  BY <1>1, <2>1, <2>2 DEF PoliteInv, Polite, GivenUp, OutOfReach
<1>5. CASE UNCHANGED vars
  BY <1>1, <1>5 DEF vars, PoliteInv, Polite, GivenUp, OutOfReach, GivesUpAt, Unreachable
<1>6. (\E cards \in Pages[Variant] : Ask("answered", cards)) => PoliteInv'
  BY <1>2
<1>7. (\E how \in Errors : Ask(how, <<>>)) => PoliteInv'
  BY <1>2
<1>. QED  BY <1>3, <1>4, <1>5, <1>6, <1>7 DEF Next

\* A variant is skipped exactly when an earlier outcome of the collection says
\* that the site is to be left alone: no further request once it refused or was
\* out of reach twice in a row, and none withheld before, with any number of
\* variants.
THEOREM SiteLeftAlone == Spec => []Polite
<1>1. Init => PoliteInv
  <2>. SUFFICES ASSUME Init PROVE PoliteInv
    OBVIOUS
  <2>1. TypedInv
    BY TypedInit
  <2>2. DOMAIN results = {} /\ ~terminal /\ failures = 0
    BY DEF Init
  <2>. QED  BY <2>1, <2>2 DEF PoliteInv, Polite, GivenUp, OutOfReach
<1>2. PoliteInv => Polite
  BY DEF PoliteInv
<1>. QED  BY <1>1, <1>2, PoliteStep, PTL DEF Spec

-----------------------------------------------------------------------------
(***************************************************************************)
(* What is appraised: the rows of the source with those of other sources.  *)
(***************************************************************************)
LEMMA AppraisedSamples ==
  ASSUME TypedInv
  PROVE  Appraised \subseteq Samples
<1>1. \A p : LET ids == {id \in DOMAIN stored : Comparable(stored[id]) /\ stored[id].price = p}
             IN  Cardinality(ids) \in Nat
  <2>1. IsFiniteSet(DOMAIN stored)
    BY AppraisalAssumption, FS_Subset DEF AppraisalAssumption, TypedInv, AppraisalTypeOK
  <2>. QED  BY <2>1, FS_Subset, FS_CardinalityType
<1>2. \A others \in OtherSamples : others \in Samples
  BY AppraisalAssumption DEF AppraisalAssumption, Samples
<1>3. \A others \in OtherSamples : Sample(others) \in Samples
  <2>. SUFFICES ASSUME NEW others \in OtherSamples PROVE Sample(others) \in Samples
    OBVIOUS
  <2>. DEFINE more(p) == Cardinality({id \in DOMAIN stored : Comparable(stored[id]) /\ stored[id].price = p})
  <2>1. \A p \in Prices : others[p] \in Nat /\ more(p) \in Nat
    BY <1>1, <1>2 DEF Samples
  <2>2. Sample(others) = [p \in Prices |-> others[p] + more(p)]
    BY DEF Sample
  <2>. HIDE DEF more
  <2>. QED  BY <2>1, <2>2 DEF Samples
<1>. QED  BY <1>3 DEF Appraised

\* Three comparables always make an estimate, from half of the least sample
\* that is searched for outliers at least, and within the prices of the sample:
\* for any sample, any prices and any two thresholds of which the one for the
\* search is about twice the other at least.
THEOREM ThreeMakeAnEstimate == Spec => []ValuedFromThree
<1>1. TypedInv => ValuedFromThree
  <2>. SUFFICES ASSUME TypedInv, NEW sample \in Appraised, Size(sample) >= MinSample
                PROVE  \E v \in {Valuation(sample)} :
                         /\ v.status = "ok"
                         /\ Size(sample) >= MinFiltered => 2 * v.count >= MinFiltered
                         /\ \E p, q \in {x \in Prices : sample[x] > 0} :
                              4 * p <= v.low /\ v.low <= v.mid /\ v.mid <= v.high /\ v.high <= 4 * q
    BY Zenon DEF ValuedFromThree
  <2>1. sample \in Samples
    BY AppraisedSamples
  <2>. QED  BY <2>1, ThreeAreValued
<1>. QED  BY <1>1, TypedInit, TypedStep, PTL DEF Spec

\* What has a high priority is a third cheaper than the fair price, not below
\* half of the low one, and leaves a profit: for any sample, any weights of
\* its size up to 100 hundredths and any fee up to 40 percent.
THEOREM HighPriorityMeansIt == Spec => []HighIsAThirdOff
<1>1. TypedInv => HighIsAThirdOff
  <2>. SUFFICES ASSUME TypedInv, NEW sample \in Appraised,
                       NEW v \in {Valuation(sample)},
                       NEW p \in {x \in Opportunities(v) : sample[x] > 0}, Priority(v, p) = "high"
                PROVE  12 * p <= 2 * v.mid /\ v.low <= 8 * p /\ 400 * p < (100 - Fee) * v.mid
    BY DEF HighIsAThirdOff
  <2>1. sample \in Samples
    BY AppraisedSamples
  <2>2. p \in Opportunities(v) /\ p \in Prices /\ v = Valuation(sample)
    BY DEF Opportunities
  <2>. QED  BY <2>1, <2>2, HighScores
<1>. QED  BY <1>1, TypedInit, TypedStep, PTL DEF Spec
=============================================================================
