-------------------------- MODULE PayoutPlan_proofs --------------------------
(***************************************************************************)
(* Proofs about payoutPlan for any scores, revenues, costs and number of   *)
(* cases.  With W the sum of the weights, the remainder of every case lies *)
(* between 0 and W, also where the quota came out too low; therefore no    *)
(* more cents are left over than there are cases, and the amount of a case *)
(* is off its quota by its remainder, or by W less its remainder.          *)
(***************************************************************************)
EXTENDS PayoutPlan, Sums, TLAPS

\* Weights of at least one case.
Weights(w) == \E n \in Nat \ {0} : w \in [1 .. n -> Nat \ {0}]

LEMMA Division ==
    ASSUME NEW q \in Int, NEW d \in Int, d > 0,
           NEW k \in Int, k = q \div d, NEW m \in Int, m = q % d
    PROVE  q = k * d + m /\ 0 <= m /\ m < d
  BY SMTT(30)

LEMMA WeightsAddUp ==
    ASSUME NEW w, Weights(w)
    PROVE  /\ IsFiniteSet(DOMAIN w) /\ Len(w) = Cardinality(DOMAIN w) /\ Len(w) \in Nat
           /\ DOMAIN w # {} /\ \A i \in DOMAIN w : w[i] \in Nat \ {0}
           /\ SumFunction(w) \in Nat \ {0}
  <1>1. PICK n \in Nat \ {0} : w \in [1 .. n -> Nat \ {0}]
    BY DEF Weights
  <1>2. /\ DOMAIN w = 1 .. n /\ Len(w) = n /\ 1 \in DOMAIN w
        /\ \A i \in DOMAIN w : w[i] \in Nat \ {0}
    BY <1>1
  <1>3. IsFiniteSet(DOMAIN w) /\ Cardinality(DOMAIN w) = n
    BY <1>2, FS_Interval
  <1>4. PICK S : S = DOMAIN w \ {1}
    OBVIOUS
  <1>5. IsFiniteSet(S) /\ SumFunctionOnSet(w, S) \in Nat
    BY <1>2, <1>3, <1>4, FS_RemoveElement, SumIsNat
  <1>6. SumFunctionOnSet(w, DOMAIN w) = w[1] + SumFunctionOnSet(w, S)
    BY <1>2, <1>3, <1>4, SumWithout
  <1> QED
    BY <1>2, <1>3, <1>5, <1>6 DEF SumFunction

-----------------------------------------------------------------------------
(* Floors and remainders.                                                   *)

\* What the proofs need to know of the floors f of a pool: with the remainder, they
\* make up the quota.
Quotas(pool, w, f) ==
    /\ DOMAIN f = DOMAIN w
    /\ \A i \in DOMAIN w :
          /\ f[i] \in Nat
          /\ Remainder(pool, w, f, i) \in 0 .. SumFunction(w)
          /\ pool * w[i] = f[i] * SumFunction(w) + Remainder(pool, w, f, i)

LEMMA FloorsAreQuotas ==
    ASSUME NEW pool \in Nat, NEW w, Weights(w), NEW low \in SUBSET WholeQuotas(pool, w)
    PROVE  Quotas(pool, w, Floors(pool, w, low))
  <1>1. PICK W : W = SumFunction(w)
    OBVIOUS
  <1>2. W \in Nat \ {0}
    BY <1>1, WeightsAddUp
  <1>3. PICK f : f = Floors(pool, w, low)
    OBVIOUS
  <1>4. ASSUME NEW i \in DOMAIN w
        PROVE  /\ f[i] \in Nat
               /\ Remainder(pool, w, f, i) \in 0 .. W
               /\ pool * w[i] = f[i] * W + Remainder(pool, w, f, i)
    <2>1. PICK q : q = pool * w[i]
      OBVIOUS
    <2>2. q \in Nat
      <3>1. w[i] \in Nat
        BY WeightsAddUp
      <3> QED
        BY <2>1, <3>1
    <2>3. PICK k, m : k = q \div W /\ m = q % W
      OBVIOUS
    <2>4. k \in Int /\ m \in Int
      BY <1>2, <2>2, <2>3
    <2>5. q = k * W + m /\ 0 <= m /\ m < W
      BY <1>2, <2>2, <2>3, <2>4, Division
    <2>6. k \in Nat
      <3>1. CASE k <= -1
        <4>1. k * W <= -W
          BY <1>2, <2>4, <3>1
        <4> QED
          BY <1>2, <2>2, <2>4, <2>5, <4>1
      <3> QED
        BY <2>4, <3>1
    <2>7. i \in low => m = 0 /\ q > 0
      BY <1>1, <2>1, <2>3 DEF WholeQuotas
    <2>8. f[i] = k - (IF i \in low THEN 1 ELSE 0)
      BY <1>1, <1>3, <2>1, <2>3 DEF Floors
    <2>9. Remainder(pool, w, f, i) = q - f[i] * W
      BY <1>1, <2>1 DEF Remainder
    <2>10. CASE i \in low
      <3>1. k # 0
        BY <1>2, <2>5, <2>7, <2>10
      <3>2. f[i] = k - 1 /\ f[i] \in Nat
        BY <2>6, <2>8, <2>10, <3>1
      <3>3. (k - 1) * W = k * W - W
        BY <1>2, <2>4
      <3>4. Remainder(pool, w, f, i) = W
        BY <1>2, <2>2, <2>4, <2>5, <2>7, <2>9, <2>10, <3>2, <3>3
      <3> QED
        BY <1>2, <2>1, <2>2, <2>4, <2>5, <2>7, <2>10, <3>2, <3>3, <3>4
    <2>11. CASE i \notin low
      <3>1. f[i] = k /\ f[i] \in Nat
        BY <2>6, <2>8, <2>11
      <3>2. Remainder(pool, w, f, i) = m
        BY <1>2, <2>2, <2>4, <2>5, <2>9, <3>1
      <3> QED
        BY <1>2, <2>1, <2>4, <2>5, <3>1, <3>2
    <2> QED
      BY <2>10, <2>11
  <1>5. DOMAIN f = DOMAIN w
    BY <1>3 DEF Floors
  <1> QED
    BY <1>1, <1>3, <1>4, <1>5 DEF Quotas

\* No more cents are left over than there are cases, and no fewer than none.
LEMMA LeftoverFits ==
    ASSUME NEW pool \in Nat, NEW w, Weights(w), NEW f, Quotas(pool, w, f)
    PROVE  /\ SumFunction(f) \in Int
           /\ Remaining(pool, f) \in 0 .. Len(w)
  <1>1. PICK W, S, n : W = SumFunction(w) /\ S = DOMAIN w /\ n = Cardinality(S)
    OBVIOUS
  <1>2. /\ W \in Nat \ {0} /\ IsFiniteSet(S) /\ n = Len(w) /\ n \in Nat
        /\ W = SumFunctionOnSet(w, S)
    BY <1>1, WeightsAddUp DEF SumFunction
  <1>3. PICK F : F = SumFunctionOnSet(f, S)
    OBVIOUS
  <1>4. F \in Int /\ F = SumFunction(f)
    BY <1>1, <1>2, <1>3, SumIsInt DEF SumFunction, Quotas
  <1>5. PICK r : r = [i \in S |-> Remainder(pool, w, f, i)]
    OBVIOUS
  <1>6. \A i \in S : r[i] \in Int /\ 0 <= r[i] /\ r[i] <= W
    BY <1>1, <1>2, <1>5 DEF Quotas
  <1>7. 0 * n <= SumFunctionOnSet(r, S) /\ SumFunctionOnSet(r, S) <= W * n
    <2>1. PICK zero \in Int : zero = 0
      OBVIOUS
    <2>2. W \in Int /\ n = Cardinality(S)
      BY <1>1, <1>2
    <2>3. \A i \in S : r[i] \in Int /\ zero <= r[i] /\ r[i] <= W
      BY <1>6, <2>1
    <2>4. zero * n <= SumFunctionOnSet(r, S) /\ SumFunctionOnSet(r, S) <= W * n
      BY <1>2, <2>2, <2>3, SumBetween, Zenon
    <2> QED
      BY <2>1, <2>4
  <1>8. SumFunctionOnSet(r, S) = pool * W + (-W) * F
    <2>1. ASSUME NEW i \in S
          PROVE  w[i] \in Int /\ f[i] \in Int /\ r[i] = pool * w[i] + (-W) * f[i]
      <3>1. w[i] \in Int /\ f[i] \in Int /\ r[i] = pool * w[i] - f[i] * W
        BY <1>1, <1>5, WeightsAddUp DEF Quotas, Remainder
      <3>2. (-W) * f[i] = -(f[i] * W) /\ f[i] * W \in Int /\ pool * w[i] \in Int
        BY <1>2, <3>1
      <3> QED
        BY <3>1, <3>2
    <2>2. PICK k \in Int : k = -W
      BY <1>2
    <2>3. pool \in Int /\ Combination(r, pool, w, k, f, S)
      BY <2>1, <2>2 DEF Combination
    <2>4. SumFunctionOnSet(r, S)
             = pool * SumFunctionOnSet(w, S) + k * SumFunctionOnSet(f, S)
      BY <1>2, <2>2, <2>3, SumLinear
    <2> QED
      BY <1>2, <1>3, <2>2, <2>4
  <1>9. PICK left : left = pool - F /\ left \in Int
    BY <1>4
  <1>10. 0 <= W * left /\ W * left <= W * n
    <2>1. pool * W + (-W) * F = W * left
      BY <1>2, <1>4, <1>9
    <2> QED
      BY <1>2, <1>7, <1>8, <2>1
  <1>11. 0 <= left
    <2>1. left <= -1 => W * left <= -W
      BY <1>2, <1>9
    <2> QED
      BY <1>2, <1>9, <1>10, <2>1
  <1>12. left <= n
    <2>1. left >= n + 1 => W * left >= W * n + W
      <3>1. left >= n + 1 => W * left >= W * (n + 1)
        BY <1>2, <1>9
      <3> QED
        BY <1>2, <3>1
    <2>2. W * left \in Int /\ W * n \in Int
      BY <1>2, <1>9
    <2> QED
      BY <1>2, <1>9, <1>10, <2>1, <2>2
  <1> QED
    BY <1>2, <1>4, <1>9, <1>11, <1>12 DEF Remaining

-----------------------------------------------------------------------------
(* Splits.                                                                  *)

\* What a is made of: the floors f, and one cent for each of the winners S.
Made(pool, w, a, f, S) ==
    /\ Quotas(pool, w, f)
    /\ S \subseteq DOMAIN w /\ Cardinality(S) = pool - SumFunction(f)
    /\ SumFunction(f) \in Int
    /\ \A i \in S, j \in DOMAIN w \ S :
          Remainder(pool, w, f, i) >= Remainder(pool, w, f, j)
    /\ DOMAIN a = DOMAIN w
    /\ \A i \in DOMAIN w : a[i] = f[i] + (IF i \in S THEN 1 ELSE 0)

LEMMA SplitIsMade ==
    ASSUME NEW pool \in Nat, NEW w, Weights(w), NEW a \in Splits(pool, w)
    PROVE  \E f, S : Made(pool, w, a, f, S)
  <1>1. PICK low \in SUBSET WholeQuotas(pool, w) :
           \E S \in Winners(pool, w, Floors(pool, w, low)) :
              a = [i \in DOMAIN w |-> Floors(pool, w, low)[i] + (IF i \in S THEN 1 ELSE 0)]
    BY DEF Splits
  <1>2. PICK f : f = Floors(pool, w, low)
    OBVIOUS
  <1>3. PICK S \in Winners(pool, w, f) :
           a = [i \in DOMAIN w |-> f[i] + (IF i \in S THEN 1 ELSE 0)]
    BY <1>1, <1>2
  <1>4. Quotas(pool, w, f)
    BY <1>2, FloorsAreQuotas
  <1>5. SumFunction(f) \in Int /\ Remaining(pool, f) \in 0 .. Len(w) /\ Len(w) \in Nat
    BY <1>4, LeftoverFits, WeightsAddUp
  <1>6. S \subseteq DOMAIN w /\ Cardinality(S) = Remaining(pool, f)
    BY <1>3, <1>5 DEF Winners
  <1> QED
    BY <1>3, <1>4, <1>5, <1>6 DEF Made, Winners, Remaining

\* The amounts of a split are cents, and make up the pool.
LEMMA SplitAddsUp ==
    ASSUME NEW pool \in Nat, NEW w, Weights(w), NEW a \in Splits(pool, w)
    PROVE  /\ SumFunction(a) = pool
           /\ DOMAIN a = DOMAIN w /\ \A i \in DOMAIN w : a[i] \in Nat
  <1>1. PICK f, S : Made(pool, w, a, f, S)
    BY SplitIsMade
  <1>2. PICK D : D = DOMAIN w
    OBVIOUS
  <1>3. PICK one : one = [i \in D |-> IF i \in S THEN 1 ELSE 0]
    OBVIOUS
  <1>4. IsFiniteSet(D) /\ S \in SUBSET D /\ \A i \in D : one[i] = IF i \in S THEN 1 ELSE 0
    BY <1>1, <1>2, <1>3, WeightsAddUp DEF Made
  <1>5. SumFunctionOnSet(one, D) = Cardinality(S)
    BY <1>4, SumCounts
  <1>6. ASSUME NEW i \in D
        PROVE  /\ f[i] \in Nat /\ one[i] \in Nat /\ a[i] = f[i] + one[i]
    BY <1>1, <1>2, <1>4 DEF Made, Quotas
  <1>7. SumFunctionOnSet(a, D) = SumFunctionOnSet(f, D) + SumFunctionOnSet(one, D)
    <2>1. PICK k \in Int : k = 1
      OBVIOUS
    <2>2. \A i \in D : f[i] \in Int /\ one[i] \in Int /\ a[i] = k * f[i] + k * one[i]
      BY <1>6, <2>1
    <2>3. Combination(a, k, f, k, one, D)
      BY <2>2 DEF Combination
    <2>4. SumFunctionOnSet(a, D)
             = k * SumFunctionOnSet(f, D) + k * SumFunctionOnSet(one, D)
      BY <1>4, <2>1, <2>3, SumLinear
    <2>5. SumFunctionOnSet(f, D) \in Int /\ SumFunctionOnSet(one, D) \in Int
      BY <1>4, <2>2, SumIsInt
    <2> QED
      BY <2>1, <2>4, <2>5
  <1>8. SumFunctionOnSet(f, D) = SumFunction(f) /\ SumFunctionOnSet(a, D) = SumFunction(a)
    BY <1>1, <1>2 DEF Made, Quotas, SumFunction
  <1>9. SumFunction(a) = pool
    BY <1>1, <1>5, <1>7, <1>8 DEF Made
  <1> QED
    BY <1>1, <1>2, <1>6, <1>9 DEF Made

\* How far the amount of a case is above its quota.
LEMMA AboveQuota ==
    ASSUME NEW pool \in Nat, NEW w, Weights(w), NEW a, NEW f, NEW S,
           Made(pool, w, a, f, S), NEW i \in DOMAIN w, NEW W, W = SumFunction(w)
    PROVE  /\ W \in Nat \ {0} /\ a[i] \in Nat /\ pool * w[i] \in Nat
           /\ Remainder(pool, w, f, i) \in 0 .. W
           /\ a[i] * W - pool * w[i]
                 = (IF i \in S THEN W ELSE 0) - Remainder(pool, w, f, i)
  <1>1. PICK r, q : r = Remainder(pool, w, f, i) /\ q = pool * w[i]
    OBVIOUS
  <1>2. W \in Nat \ {0} /\ w[i] \in Nat
    BY WeightsAddUp
  <1>3. f[i] \in Nat /\ r \in 0 .. W /\ q = f[i] * W + r
    BY <1>1 DEF Made, Quotas
  <1>4. q \in Nat
    BY <1>1, <1>2
  <1>5. a[i] = f[i] + (IF i \in S THEN 1 ELSE 0)
    BY DEF Made
  <1>6. (f[i] + 1) * W = f[i] * W + W /\ f[i] * W \in Int
    BY <1>2, <1>3
  <1>7. CASE i \in S
    <2>1. a[i] * W = f[i] * W + W
      BY <1>5, <1>6, <1>7
    <2>2. a[i] * W - q = W - r
      BY <1>2, <1>3, <1>4, <1>6, <2>1
    <2> QED
      BY <1>1, <1>2, <1>3, <1>4, <1>5, <1>7, <2>2
  <1>8. CASE i \notin S
    <2>1. a[i] * W = f[i] * W
      BY <1>3, <1>5, <1>8
    <2>2. a[i] * W - q = 0 - r
      BY <1>2, <1>3, <1>4, <1>6, <2>1
    <2> QED
      BY <1>1, <1>2, <1>3, <1>4, <1>5, <1>8, <2>2
  <1> QED
    BY <1>7, <1>8

LEMMA SplitIsFair ==
    ASSUME NEW pool \in Nat, NEW w, Weights(w), NEW a \in Splits(pool, w),
           NEW i \in DOMAIN w, NEW j \in DOMAIN w, NEW W, W = SumFunction(w)
    PROVE  (a[i] * W - pool * w[i]) - (a[j] * W - pool * w[j]) <= W
  <1>1. PICK f, S : Made(pool, w, a, f, S)
    BY SplitIsMade
  <1>2. PICK r, s : r = Remainder(pool, w, f, i) /\ s = Remainder(pool, w, f, j)
    OBVIOUS
  <1>3. /\ W \in Nat \ {0} /\ r \in 0 .. W /\ s \in 0 .. W
        /\ a[i] * W - pool * w[i] = (IF i \in S THEN W ELSE 0) - r
        /\ a[j] * W - pool * w[j] = (IF j \in S THEN W ELSE 0) - s
    BY <1>1, <1>2, AboveQuota
  <1>4. i \in S /\ j \notin S => r >= s
    BY <1>1, <1>2 DEF Made
  <1> QED
    BY <1>3, <1>4

LEMMA SplitIsMonotonic ==
    ASSUME NEW pool \in Nat \ {0}, NEW w, Weights(w), NEW a \in Splits(pool, w),
           NEW i \in DOMAIN w, NEW j \in DOMAIN w, w[i] > w[j]
    PROVE  a[i] >= a[j]
  <1>1. PICK f, S : Made(pool, w, a, f, S)
    BY SplitIsMade
  <1>2. PICK r, s, W : /\ r = Remainder(pool, w, f, i) /\ s = Remainder(pool, w, f, j)
                       /\ W = SumFunction(w)
    OBVIOUS
  <1>3. PICK q, p : q = pool * w[i] /\ p = pool * w[j]
    OBVIOUS
  <1>4. /\ W \in Nat \ {0} /\ r \in 0 .. W /\ s \in 0 .. W
        /\ a[i] \in Nat /\ a[j] \in Nat /\ q \in Nat /\ p \in Nat
        /\ a[i] * W - q = (IF i \in S THEN W ELSE 0) - r
        /\ a[j] * W - p = (IF j \in S THEN W ELSE 0) - s
    BY <1>1, <1>2, <1>3, AboveQuota
  <1>5. q > p
    <2>1. w[i] \in Nat /\ w[j] \in Nat
      BY WeightsAddUp
    <2> QED
      BY <1>3, <2>1
  <1>6. j \in S /\ i \notin S => s >= r
    BY <1>1, <1>2 DEF Made
  <1>7. ASSUME a[i] + 1 <= a[j] PROVE a[j] * W >= a[i] * W + W
    <2>1. a[j] * W >= (a[i] + 1) * W
      BY <1>4, <1>7
    <2> QED
      BY <1>4, <2>1
  <1>8. a[i] * W \in Nat /\ a[j] * W \in Nat
    BY <1>4
  <1>9. CASE a[i] + 1 <= a[j]
    BY <1>4, <1>5, <1>6, <1>7, <1>8, <1>9
  <1> QED
    BY <1>4, <1>9

-----------------------------------------------------------------------------
(* The plans of exports.                                                    *)

CaseWeights == [i \in DOMAIN scores |-> Weight(scores[i])]

PlanInv ==
    /\ scores \in Seq(Scores)
    /\ plan # None =>
          /\ scores # <<>>
          /\ \E gross \in Revenues, cost \in Costs : plan \in Plans(gross, cost, scores)

LEMMA CasesHaveWeights ==
    ASSUME scores \in Seq(Scores), scores # <<>>
    PROVE  Weights(CaseWeights) /\ DOMAIN CaseWeights = DOMAIN scores
  <1>1. PICK n \in Nat : scores \in [1 .. n -> Scores]
    <2>1. Len(scores) \in Nat /\ scores \in [1 .. Len(scores) -> Scores]
      OBVIOUS
    <2> QED
      BY <2>1
  <1>2. n # 0
    BY <1>1
  <1>3. ASSUME NEW i \in 1 .. n PROVE Weight(scores[i]) \in Nat \ {0}
    <2>1. scores[i] \in Nat
      BY <1>1, PlanAssumption
    <2> QED
      BY <2>1 DEF Weight
  <1> QED
    BY <1>1, <1>2, <1>3 DEF Weights, CaseWeights

\* What is known of a plan: the shares of the net revenue, and a split of the pool.
LEMMA PlanIsSplit ==
    ASSUME PlanInv, plan # None
    PROVE  /\ plan.net \in Nat /\ plan.pool \in Nat
           /\ plan.platform + plan.pool = plan.net /\ 5 * plan.platform <= plan.net
           /\ plan.pool = 0 => plan.amounts = <<>>
           /\ plan.pool > 0 => plan.amounts \in Splits(plan.pool, CaseWeights)
           /\ Weights(CaseWeights) /\ DOMAIN CaseWeights = DOMAIN scores
  <1>1. PICK gross \in Revenues, cost \in Costs : plan \in Plans(gross, cost, scores)
    BY DEF PlanInv
  <1>2. PICK net, platform, pool :
           net = Net(gross, cost) /\ platform = PlatformShare(net) /\ pool = net - platform
    OBVIOUS
  <1>3. net \in Nat
    BY <1>1, <1>2, PlanAssumption DEF Net
  <1>4. platform \in Int /\ platform = net \div 5
    BY <1>2, <1>3 DEF PlatformShare
  <1>5. PICK rest \in Int : rest = net % 5
    BY <1>3
  <1>6. net = platform * 5 + rest /\ 0 <= rest /\ rest < 5
    BY <1>3, <1>4, <1>5, Division
  <1>7. pool \in Nat /\ 5 * platform <= net /\ platform + pool = net
    <2>1. platform * 5 = 5 * platform /\ net = 5 * platform + rest
      BY <1>4, <1>6
    <2>2. 5 * platform <= net /\ platform >= 0
      BY <1>3, <1>4, <1>5, <1>6, <2>1
    <2>3. net >= platform /\ platform + (net - platform) = net
      BY <1>3, <1>4, <2>2
    <2>4. pool = net - platform /\ net \in Int /\ platform \in Int
      BY <1>2, <1>3, <1>4
    <2> QED
      BY <2>2, <2>3, <2>4
  <1>8. plan \in [platform : {platform}, pool : {pool}, net : {net},
                  amounts : IF scores = <<>> \/ pool <= 0 THEN {<<>>}
                            ELSE Splits(pool, CaseWeights)]
    BY <1>1, <1>2 DEF Plans, CaseWeights
  <1>9. /\ plan.platform = platform /\ plan.pool = pool /\ plan.net = net
        /\ plan.amounts \in IF scores = <<>> \/ pool <= 0 THEN {<<>>}
                            ELSE Splits(pool, CaseWeights)
    BY <1>8
  <1> QED
    BY <1>3, <1>7, <1>9, CasesHaveWeights DEF PlanInv

LEMMA PlansAlways == Spec => []PlanInv
  <1>1. Init => PlanInv
    BY DEF Init, PlanInv
  <1>2. ASSUME PlanInv, [Next]_vars PROVE PlanInv'
    <2>1. ASSUME NEW q \in Scores, AddCase(q) PROVE PlanInv'
      BY <1>2, <2>1 DEF AddCase, PlanInv
    <2>2. ASSUME NEW gross \in Revenues, NEW cost \in Costs, Export(gross, cost)
          PROVE  PlanInv'
      BY <1>2, <2>2 DEF Export, PlanInv
    <2>3. CASE UNCHANGED vars
      BY <1>2, <2>3 DEF vars, PlanInv
    <2> QED
      BY <1>2, <2>1, <2>2, <2>3 DEF Next
  <1> QED
    BY <1>1, <1>2, PTL DEF Spec

\* payoutPlan loses and invents no cent, whatever the scores are, however many cases
\* share the pool and wherever the quotas of the floats come out too low.
THEOREM PlansAddUp == Spec => []SplitsThePool
  <1>1. ASSUME PlanInv PROVE SplitsThePool
    <2>1. ASSUME plan # None, plan.pool > 0
          PROVE  /\ SumFunction(plan.amounts) = plan.pool /\ plan.amounts # <<>>
                 /\ \A i \in DOMAIN scores : plan.amounts[i] >= 0
      <3>1. PICK pool, w, a : pool = plan.pool /\ w = CaseWeights /\ a = plan.amounts
        OBVIOUS
      <3>2. /\ pool \in Nat /\ Weights(w) /\ a \in Splits(pool, w)
            /\ DOMAIN w = DOMAIN scores
        BY <1>1, <2>1, <3>1, PlanIsSplit
      <3>3. /\ SumFunction(a) = pool
            /\ DOMAIN a = DOMAIN w /\ \A i \in DOMAIN w : a[i] \in Nat
        BY <3>2, SplitAddsUp
      <3>4. DOMAIN a # {}
        BY <3>2, <3>3, WeightsAddUp
      <3>5. a # <<>>
        BY <3>4
      <3> QED
        BY <3>1, <3>2, <3>3, <3>5
    <2>2. plan # None => /\ plan.pool \in Nat /\ plan.platform + plan.pool = plan.net
                         /\ 5 * plan.platform <= plan.net
                         /\ plan.pool = 0 => plan.amounts = <<>>
      BY <1>1, PlanIsSplit
    <2> QED
      BY <2>1, <2>2 DEF SplitsThePool, Planned
  <1>2. QED
    BY <1>1, PlansAlways, PTL

\* No cent of a plan is better placed with another case: the amounts are as near to the
\* exact quotas as whole cents can be.
THEOREM PlansAreFair == Spec => []NoFairerSplit
  <1>1. ASSUME PlanInv PROVE NoFairerSplit
    <2> SUFFICES ASSUME Planned, NEW i \in DOMAIN scores, NEW j \in DOMAIN scores
                 PROVE  Excess(i) - Excess(j) <= SumFunction(CaseWeights)
      BY DEF NoFairerSplit, CaseWeights
    <2>1. PICK pool, w, a : pool = plan.pool /\ w = CaseWeights /\ a = plan.amounts
      OBVIOUS
    <2>2. /\ pool \in Nat /\ Weights(w) /\ a \in Splits(pool, w)
          /\ DOMAIN w = DOMAIN scores
      BY <1>1, <2>1, PlanIsSplit DEF Planned
    <2>3. /\ Excess(i) = a[i] * SumFunction(w) - pool * w[i]
          /\ Excess(j) = a[j] * SumFunction(w) - pool * w[j]
      BY <2>1 DEF Excess, CaseWeights
    <2> QED
      BY <2>1, <2>2, <2>3, SplitIsFair
  <1>2. QED
    BY <1>1, PlansAlways, PTL

\* A case with a better score never earns less, whichever equal remainders win.
THEOREM PlansAreMonotonic == Spec => []MoreWeightEarnsMore
  <1>1. ASSUME PlanInv PROVE MoreWeightEarnsMore
    <2> SUFFICES ASSUME Planned, NEW i \in DOMAIN scores, NEW j \in DOMAIN scores,
                        Weight(scores[i]) > Weight(scores[j])
                 PROVE  plan.amounts[i] >= plan.amounts[j]
      BY DEF MoreWeightEarnsMore
    <2>1. PICK pool, w, a : pool = plan.pool /\ w = CaseWeights /\ a = plan.amounts
      OBVIOUS
    <2>2. /\ pool \in Nat \ {0} /\ Weights(w) /\ a \in Splits(pool, w)
          /\ DOMAIN w = DOMAIN scores
      BY <1>1, <2>1, PlanIsSplit DEF Planned
    <2>3. w[i] > w[j]
      BY <2>1 DEF CaseWeights
    <2> QED
      BY <2>1, <2>2, <2>3, SplitIsMonotonic
  <1>2. QED
    BY <1>1, PlansAlways, PTL
=============================================================================
