-------------------------------- MODULE Sums --------------------------------
(***************************************************************************)
(* Facts about SumFunctionOnSet for every finite set of indices.  The      *)
(* library's induction over finite sets takes an operator, which no prover *)
(* here can instantiate; SetInduction says the same of a set of sets.      *)
(***************************************************************************)
EXTENDS Integers, Functions, FiniteSetTheorems, TLAPS

First(S) == CHOOSE x \in S : TRUE

\* g is the sum of f over every subset of S, as the fold computes it.
Sums(f, g, S) ==
    g = [T \in SUBSET S |->
            IF T = {} THEN 0 ELSE f[First(T)] + g[T \ {First(T)}]]

SumsOn(f, S) == CHOOSE g : Sums(f, g, S)

-----------------------------------------------------------------------------
\* What holds of a set as soon as it holds of its strict subsets holds of every finite
\* set; G is the set of those it holds of.
LEMMA SetInduction ==
    ASSUME NEW S, IsFiniteSet(S), NEW G,
           \A T \in SUBSET S : (\A U \in SUBSET T : U # T => U \in G) => T \in G
    PROVE  S \in G
  <1> DEFINE B == FiniteSubsetsOf(S) \ G
  <1>1. SUBSET S = FiniteSubsetsOf(S)
    BY FS_FiniteSubsetsOfFinite
  <1>2. B \subseteq FiniteSubsetsOf(S) /\ (S \notin G => B # {})
    BY <1>1
  <1>3. CASE B # {}
    <2>1. PICK T \in B : \A U \in B : <<U, T>> \notin StrictSubsetOrdering(S)
      <3> HIDE DEF B
      <3> QED
        BY <1>2, <1>3, FS_StrictSubsetOrderingWellFounded, WFMin
    <2>2. ASSUME NEW U \in SUBSET T, U # T PROVE U \in G
      <3>1. T \in SUBSET S /\ U \in SUBSET S
        BY <1>1
      <3>2. <<U, T>> \in StrictSubsetOrdering(S)
        BY <2>2, <3>1 DEF StrictSubsetOrdering
      <3> QED
        BY <1>1, <2>1, <3>1, <3>2
    <2> QED
      BY <1>1, <2>1, <2>2
  <1> QED
    BY <1>2, <1>3

LEMMA FirstIsIn == ASSUME NEW S, S # {} PROVE First(S) \in S
  BY DEF First

LEMMA SumIsSums ==
    ASSUME NEW f, NEW S PROVE SumFunctionOnSet(f, S) = SumsOn(f, S)[S]
  BY DEF SumFunctionOnSet, FoldFunctionOnSet, MapThenFoldSet, SumsOn, Sums, First

\* The sums over the subsets of a set and of a larger set agree.
LEMMA SumsAgree ==
    ASSUME NEW f, NEW g, NEW h, NEW S, NEW T, IsFiniteSet(S), S \subseteq T,
           Sums(f, g, S), Sums(f, h, T)
    PROVE  g[S] = h[S]
  <1> DEFINE G == {U \in SUBSET S : g[U] = h[U]}
  <1>1. ASSUME NEW U \in SUBSET S, \A V \in SUBSET U : V # U => V \in G
        PROVE  U \in G
    <2>1. CASE U = {}
      BY <2>1 DEF Sums
    <2>2. CASE U # {}
      <3>1. PICK x : x = First(U)
        OBVIOUS
      <3>2. g[U \ {x}] = h[U \ {x}]
        BY <1>1, <2>2, <3>1, FirstIsIn
      <3>3. g[U] = f[x] + g[U \ {x}]
        BY <2>2, <3>1 DEF Sums
      <3>4. h[U] = f[x] + h[U \ {x}]
        BY <2>2, <3>1 DEF Sums
      <3> QED
        BY <3>2, <3>3, <3>4
    <2> QED
      BY <2>1, <2>2
  <1>2. S \in G
    <2> HIDE DEF G
    <2> QED
      BY <1>1, SetInduction
  <1> QED
    BY <1>2

\* The recursion of the fold has a solution.
LEMMA SumsExist ==
    ASSUME NEW f, NEW S, IsFiniteSet(S)
    PROVE  Sums(f, SumsOn(f, S), S)
  <1> DEFINE G == {T \in SUBSET S : \E g : Sums(f, g, T)}
  <1>1. ASSUME NEW T \in SUBSET S, \A U \in SUBSET T : U # T => U \in G
        PROVE  T \in G
    <2>1. ASSUME NEW U \in SUBSET T, U # T
          PROVE  IsFiniteSet(U) /\ Sums(f, SumsOn(f, U), U)
      <3>1. \E g : Sums(f, g, U)
        BY <1>1, <2>1
      <3> QED
        BY <3>1, FS_Subset DEF SumsOn
    <2> DEFINE below == [U \in SUBSET T |-> SumsOn(f, U)[U]]
               g == [U \in SUBSET T |-> IF U # T THEN below[U]
                        ELSE IF U = {} THEN 0 ELSE f[First(U)] + below[U \ {First(U)}]]
    <2>2. ASSUME NEW U \in SUBSET T
          PROVE  g[U] = IF U = {} THEN 0 ELSE f[First(U)] + g[U \ {First(U)}]
      <3>1. CASE U = {}
        <4>1. CASE U = T
          BY <3>1, <4>1
        <4>2. CASE U # T
          BY <2>1, <3>1, <4>2 DEF Sums
        <4> QED
          BY <4>1, <4>2
      <3>2. CASE U # {}
        <4>1. PICK V : V = U \ {First(U)}
          OBVIOUS
        <4>2. /\ V \in SUBSET T /\ V # T /\ V # U /\ V \in SUBSET U
              /\ g[V] = SumsOn(f, V)[V]
          BY <3>2, <4>1, FirstIsIn
        <4>3. CASE U = T
          BY <3>2, <4>1, <4>2, <4>3
        <4>4. CASE U # T
          <5>1. SumsOn(f, U)[U] = f[First(U)] + SumsOn(f, U)[V]
            BY <2>1, <3>2, <4>1, <4>4 DEF Sums
          <5>2. SumsOn(f, U)[V] = SumsOn(f, V)[V]
            BY <2>1, <4>2, <4>4, SumsAgree
          <5> QED
            BY <3>2, <4>1, <4>2, <4>4, <5>1, <5>2
        <4> QED
          BY <4>3, <4>4
      <3> QED
        BY <3>1, <3>2
    <2>3. g = [U \in SUBSET T |-> g[U]]
      OBVIOUS
    <2> HIDE DEF g
    <2>4. Sums(f, g, T)
      BY <2>2, <2>3 DEF Sums
    <2> QED
      BY <2>4
  <1>2. S \in G
    <2> HIDE DEF G
    <2> QED
      BY <1>1, SetInduction
  <1> QED
    BY <1>2 DEF SumsOn

-----------------------------------------------------------------------------
(* The sum, one element at a time.                                          *)

LEMMA SumOfNone == ASSUME NEW f PROVE SumFunctionOnSet(f, {}) = 0
  <1>1. Sums(f, SumsOn(f, {}), {})
    BY SumsExist, FS_EmptySet
  <1>2. {} \in SUBSET {}
    OBVIOUS
  <1>3. SumsOn(f, {})[{}] = 0
    BY <1>1, <1>2 DEF Sums
  <1> QED
    BY <1>3, SumIsSums

LEMMA SumOfMore ==
    ASSUME NEW f, NEW S, IsFiniteSet(S), S # {}
    PROVE  \E x \in S : SumFunctionOnSet(f, S) = f[x] + SumFunctionOnSet(f, S \ {x})
  <1>1. PICK x : x = First(S)
    OBVIOUS
  <1>2. PICK T : T = S \ {x}
    OBVIOUS
  <1>3. x \in S /\ IsFiniteSet(T) /\ T \subseteq S
    BY <1>1, <1>2, FirstIsIn, FS_RemoveElement
  <1>4. Sums(f, SumsOn(f, S), S) /\ Sums(f, SumsOn(f, T), T)
    BY <1>3, SumsExist
  <1>5. SumsOn(f, S)[S] = f[x] + SumsOn(f, S)[T]
    BY <1>1, <1>2, <1>4 DEF Sums
  <1>6. SumsOn(f, S)[T] = SumsOn(f, T)[T]
    BY <1>3, <1>4, SumsAgree
  <1> QED
    BY <1>2, <1>3, <1>5, <1>6, SumIsSums

\* Every set of numbers closed under addition keeps its sums.
LEMMA SumStays ==
    ASSUME NEW f, NEW S, IsFiniteSet(S), NEW N, 0 \in N, \A a, b \in N : a + b \in N,
           \A x \in S : f[x] \in N
    PROVE  SumFunctionOnSet(f, S) \in N
  <1> DEFINE G == {T \in SUBSET S : SumFunctionOnSet(f, T) \in N}
  <1>1. ASSUME NEW T \in SUBSET S, \A U \in SUBSET T : U # T => U \in G
        PROVE  T \in G
    <2>1. CASE T = {}
      BY <2>1, SumOfNone
    <2>2. CASE T # {}
      <3>1. PICK x \in T : SumFunctionOnSet(f, T) = f[x] + SumFunctionOnSet(f, T \ {x})
        BY <2>2, SumOfMore, FS_Subset
      <3>2. SumFunctionOnSet(f, T \ {x}) \in N
        BY <1>1
      <3> QED
        BY <3>1, <3>2
    <2> QED
      BY <2>1, <2>2
  <1>2. S \in G
    <2> HIDE DEF G
    <2> QED
      BY <1>1, SetInduction
  <1> QED
    BY <1>2

LEMMA SumIsInt ==
    ASSUME NEW f, NEW S, IsFiniteSet(S), \A x \in S : f[x] \in Int
    PROVE  SumFunctionOnSet(f, S) \in Int
  <1>1. 0 \in Int /\ \A a, b \in Int : a + b \in Int
    OBVIOUS
  <1> QED
    BY <1>1, SumStays

LEMMA SumIsNat ==
    ASSUME NEW f, NEW S, IsFiniteSet(S), \A x \in S : f[x] \in Nat
    PROVE  SumFunctionOnSet(f, S) \in Nat
  <1>1. 0 \in Nat /\ \A a, b \in Nat : a + b \in Nat
    OBVIOUS
  <1> QED
    BY <1>1, SumStays

\* Any element may be taken out first.
LEMMA SumWithout ==
    ASSUME NEW f, NEW S, IsFiniteSet(S), \A x \in S : f[x] \in Int, NEW x \in S
    PROVE  SumFunctionOnSet(f, S) = f[x] + SumFunctionOnSet(f, S \ {x})
  <1> DEFINE G == {T \in SUBSET S : \A y \in T :
                      SumFunctionOnSet(f, T) = f[y] + SumFunctionOnSet(f, T \ {y})}
  <1>1. ASSUME NEW T \in SUBSET S, \A U \in SUBSET T : U # T => U \in G
        PROVE  T \in G
    <2> SUFFICES ASSUME NEW y \in T
                 PROVE  SumFunctionOnSet(f, T) = f[y] + SumFunctionOnSet(f, T \ {y})
      OBVIOUS
    <2>1. IsFiniteSet(T) /\ T # {}
      BY FS_Subset
    <2>2. PICK z \in T : SumFunctionOnSet(f, T) = f[z] + SumFunctionOnSet(f, T \ {z})
      BY <2>1, SumOfMore
    <2>3. CASE y # z
      <3>1. PICK U : U = T \ {y, z}
        OBVIOUS
      <3>2. IsFiniteSet(U) /\ SumFunctionOnSet(f, U) \in Int
        BY <3>1, FS_Subset, SumIsInt
      <3>3. (T \ {y}) \ {z} = U /\ (T \ {z}) \ {y} = U
        BY <3>1
      <3>4. SumFunctionOnSet(f, T \ {y}) = f[z] + SumFunctionOnSet(f, U)
        BY <1>1, <2>3, <3>3
      <3>5. SumFunctionOnSet(f, T \ {z}) = f[y] + SumFunctionOnSet(f, U)
        BY <1>1, <2>3, <3>3
      <3>6. f[y] \in Int /\ f[z] \in Int
        OBVIOUS
      <3> QED
        BY <2>2, <3>2, <3>4, <3>5, <3>6
    <2> QED
      BY <2>2, <2>3
  <1>2. S \in G
    <2> HIDE DEF G
    <2> QED
      BY <1>1, SetInduction
  <1> QED
    BY <1>2

-----------------------------------------------------------------------------
(* Sums of two functions over one set.                                      *)

\* A set of index sets that has the empty set, and each one that it has without one of
\* its elements, has every finite set.
LEMMA SumInduction ==
    ASSUME NEW S, IsFiniteSet(S), NEW G, {} \in G,
           \A T \in SUBSET S : \A x \in T : IsFiniteSet(T) /\ T \ {x} \in G => T \in G
    PROVE  S \in G
  <1>1. ASSUME NEW T \in SUBSET S, \A U \in SUBSET T : U # T => U \in G
        PROVE  T \in G
    <2>1. IsFiniteSet(T)
      BY FS_Subset
    <2>2. CASE T # {}
      <3>1. PICK x \in T : TRUE
        BY <2>2
      <3>2. T \ {x} \in G
        BY <1>1
      <3> QED
        BY <2>1, <3>2
    <2> QED
      BY <2>2
  <1> QED
    BY <1>1, SetInduction

LEMMA SumSame ==
    ASSUME NEW f, NEW g, NEW S, IsFiniteSet(S), \A x \in S : f[x] \in Int /\ f[x] = g[x]
    PROVE  SumFunctionOnSet(f, S) = SumFunctionOnSet(g, S)
  <1> DEFINE G == {T \in SUBSET S : SumFunctionOnSet(f, T) = SumFunctionOnSet(g, T)}
  <1>1. {} \in G
    BY SumOfNone
  <1>2. ASSUME NEW T \in SUBSET S, NEW x \in T, IsFiniteSet(T), T \ {x} \in G
        PROVE  T \in G
    BY <1>2, SumWithout
  <1>3. S \in G
    <2> HIDE DEF G
    <2> QED
      BY <1>1, <1>2, SumInduction
  <1> QED
    BY <1>3

LEMMA SumBetween ==
    ASSUME NEW f, NEW S, IsFiniteSet(S), NEW low \in Int, NEW high \in Int,
           \A x \in S : f[x] \in Int /\ low <= f[x] /\ f[x] <= high
    PROVE  /\ low * Cardinality(S) <= SumFunctionOnSet(f, S)
           /\ SumFunctionOnSet(f, S) <= high * Cardinality(S)
  <1> DEFINE Fits(T) == /\ low * Cardinality(T) <= SumFunctionOnSet(f, T)
                        /\ SumFunctionOnSet(f, T) <= high * Cardinality(T)
             G == {T \in SUBSET S : Fits(T)}
  <1>1. {} \in G
    BY SumOfNone, FS_EmptySet
  <1>2. ASSUME NEW T \in SUBSET S, NEW x \in T, IsFiniteSet(T), T \ {x} \in G
        PROVE  T \in G
    <2>1. PICK n, sum, y : /\ n = Cardinality(T \ {x}) /\ y = f[x]
                           /\ sum = SumFunctionOnSet(f, T \ {x})
      OBVIOUS
    <2>2. /\ Cardinality(T) \in Nat /\ Cardinality(T) - 1 = n
          /\ n \in Nat /\ sum \in Int /\ y \in Int /\ low <= y /\ y <= high
      BY <1>2, <2>1, FS_RemoveElement, FS_CardinalityType, SumIsInt
    <2>3. SumFunctionOnSet(f, T) = y + sum
      BY <1>2, <2>1, SumWithout
    <2>4. low * n <= sum /\ sum <= high * n
      BY <1>2, <2>1
    <2> HIDE DEF Fits
    <2>5. low * (n + 1) <= y + sum /\ y + sum <= high * (n + 1) /\ Cardinality(T) = n + 1
      <3>1. low * (n + 1) = low * n + low /\ high * (n + 1) = high * n + high
        BY <2>2
      <3>2. low * n \in Int /\ high * n \in Int
        BY <2>2
      <3> QED
        BY <2>2, <2>4, <3>1, <3>2
    <2>6. Fits(T)
      BY <2>3, <2>5 DEF Fits
    <2> QED
      BY <2>6
  <1>3. S \in G
    <2> HIDE DEF G
    <2> QED
      BY <1>1, <1>2, SumInduction
  <1> QED
    BY <1>3

\* h is a * f + b * g on S.
Combination(h, a, f, b, g, S) ==
    \A x \in S : f[x] \in Int /\ g[x] \in Int /\ h[x] = a * f[x] + b * g[x]

LEMMA SumLinear ==
    ASSUME NEW f, NEW g, NEW h, NEW S, IsFiniteSet(S), NEW a \in Int, NEW b \in Int,
           Combination(h, a, f, b, g, S)
    PROVE  SumFunctionOnSet(h, S) =
              a * SumFunctionOnSet(f, S) + b * SumFunctionOnSet(g, S)
  <1> DEFINE G == {T \in SUBSET S : SumFunctionOnSet(h, T) =
                      a * SumFunctionOnSet(f, T) + b * SumFunctionOnSet(g, T)}
  <1>1. {} \in G
    BY SumOfNone
  <1>2. ASSUME NEW T \in SUBSET S, NEW x \in T, IsFiniteSet(T), T \ {x} \in G
        PROVE  T \in G
    <2>1. IsFiniteSet(T \ {x}) /\ \A y \in S : h[y] \in Int
      BY <1>2, FS_RemoveElement DEF Combination
    <2>2. \A y \in S : f[y] \in Int /\ g[y] \in Int
      BY DEF Combination
    <2>3. /\ SumFunctionOnSet(f, T) = f[x] + SumFunctionOnSet(f, T \ {x})
          /\ SumFunctionOnSet(g, T) = g[x] + SumFunctionOnSet(g, T \ {x})
          /\ SumFunctionOnSet(h, T) = h[x] + SumFunctionOnSet(h, T \ {x})
      BY <1>2, <2>1, <2>2, SumWithout
    <2>4. PICK F, H : /\ F = SumFunctionOnSet(f, T \ {x}) /\ F \in Int
                      /\ H = SumFunctionOnSet(g, T \ {x}) /\ H \in Int
      BY <2>1, <2>2, SumIsInt
    <2>5. f[x] \in Int /\ g[x] \in Int /\ h[x] = a * f[x] + b * g[x]
      BY DEF Combination
    <2>6. SumFunctionOnSet(h, T \ {x}) = a * F + b * H
      BY <1>2, <2>4
    <2> HIDE DEF G
    <2>7. /\ SumFunctionOnSet(f, T) = f[x] + F
          /\ SumFunctionOnSet(g, T) = g[x] + H
          /\ SumFunctionOnSet(h, T) = h[x] + (a * F + b * H)
      BY <2>3, <2>4, <2>6
    <2>8. h[x] + (a * F + b * H) = a * (f[x] + F) + b * (g[x] + H)
      BY <2>4, <2>5
    <2> QED
      BY <2>7, <2>8 DEF G
  <1>3. S \in G
    <2> HIDE DEF G
    <2> QED
      BY <1>1, <1>2, SumInduction
  <1> QED
    BY <1>3

\* A sum of ones and zeroes counts the ones.
LEMMA SumCounts ==
    ASSUME NEW f, NEW S, IsFiniteSet(S), NEW A \in SUBSET S,
           \A x \in S : f[x] = IF x \in A THEN 1 ELSE 0
    PROVE  SumFunctionOnSet(f, S) = Cardinality(A)
  <1> DEFINE G == {T \in SUBSET S : SumFunctionOnSet(f, T) = Cardinality(A \cap T)}
  <1>1. {} \in G
    <2>1. A \cap {} = {}
      OBVIOUS
    <2> QED
      BY <2>1, SumOfNone, FS_EmptySet
  <1>2. ASSUME NEW T \in SUBSET S, NEW x \in T, IsFiniteSet(T), T \ {x} \in G
        PROVE  T \in G
    <2>1. SumFunctionOnSet(f, T) = f[x] + SumFunctionOnSet(f, T \ {x})
      BY <1>2, SumWithout
    <2>2. SumFunctionOnSet(f, T \ {x}) = Cardinality(A \cap (T \ {x}))
      BY <1>2
    <2>3. IsFiniteSet(A \cap T)
      BY <1>2, FS_Subset
    <2>4. CASE x \in A
      <3>1. A \cap (T \ {x}) = (A \cap T) \ {x} /\ x \in A \cap T
        BY <2>4
      <3>2. PICK U : U = A \cap T
        OBVIOUS
      <3>3. Cardinality(U \ {x}) = Cardinality(U) - 1 /\ Cardinality(U) \in Nat
        BY <2>3, <3>1, <3>2, FS_RemoveElement, FS_CardinalityType
      <3>4. Cardinality(A \cap (T \ {x})) = Cardinality(U) - 1
        BY <3>1, <3>2, <3>3
      <3>5. SumFunctionOnSet(f, T) = Cardinality(U)
        BY <2>1, <2>2, <2>4, <3>3, <3>4
      <3> QED
        BY <3>2, <3>5
    <2>5. CASE x \notin A
      <3>1. A \cap (T \ {x}) = A \cap T
        BY <2>5
      <3>2. Cardinality(A \cap T) \in Nat
        BY <2>3, FS_CardinalityType
      <3> QED
        BY <2>1, <2>2, <2>5, <3>1, <3>2
    <2> QED
      BY <2>4, <2>5
  <1>3. S \in G
    <2> HIDE DEF G
    <2> QED
      BY <1>1, <1>2, SumInduction
  <1>4. A \cap S = A
    OBVIOUS
  <1> QED
    BY <1>3, <1>4
=============================================================================
