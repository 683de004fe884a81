----------------------------- MODULE PayoutPlan -----------------------------
(***************************************************************************)
(* payoutPlan: how the net revenue of a dataset export is split between    *)
(* the platform and the cases, in whole cents, by largest remainder.       *)
(*                                                                         *)
(* Scores are in hundredths, as they are rounded.  The code computes with  *)
(* floats, so where a quota is a whole number it may come out just below   *)
(* it, and equal remainders may compare either way: Plans is the set of    *)
(* outcomes.  That is all they can do while rounding errors stay below one *)
(* unit of remainder, which revenues near 2^53 cents would exceed.         *)
(***************************************************************************)
EXTENDS Integers, Sequences, FiniteSets, Functions

CONSTANTS
    Scores,   \* quality scores of cases, in hundredths
    Revenues, \* gross_revenue_cents of export requests
    Costs,    \* direct_cost_cents of export requests
    MaxCases, \* config DatasetMaxCases
    None

ASSUME PlanAssumption ==
    /\ Scores \subseteq Nat
    /\ Revenues \subseteq Int /\ Costs \subseteq Int
    /\ MaxCases \in Nat

VARIABLES
    scores, \* the quality scores of the cases of the export
    plan    \* the plan made for them

vars == <<scores, plan>>

-----------------------------------------------------------------------------

Net(gross, cost) == IF gross > cost THEN gross - cost ELSE 0
PlatformShare(net) == net \div 5

\* A case without a score weighs 0.1.
Weight(score) == IF score > 0 THEN score ELSE 10

\* The floor of each quota pool * w[i] / SumFunction(w); one less for the whole
\* quotas in low.
Floors(pool, w, low) ==
    [i \in DOMAIN w |->
        (pool * w[i]) \div SumFunction(w) - (IF i \in low THEN 1 ELSE 0)]

WholeQuotas(pool, w) ==
    {i \in DOMAIN w : pool * w[i] > 0 /\ (pool * w[i]) % SumFunction(w) = 0}

\* Remainders in units of 1 / SumFunction(w) cents.
Remainder(pool, w, floors, i) == pool * w[i] - floors[i] * SumFunction(w)

\* Mutant of Remaining: the cents left over are those of one case at most.
RemainingAtMostOne(pool, floors) == IF pool > SumFunction(floors) THEN 1 ELSE 0

Remaining(pool, floors) == pool - SumFunction(floors)

\* Mutants of Winners: the first cases win, and the smallest remainders win.
WinnersByIndex(pool, w, floors) == {1..Remaining(pool, floors)}
WinnersReversed(pool, w, floors) ==
    {S \in SUBSET DOMAIN w :
        /\ Cardinality(S) = Remaining(pool, floors)
        /\ \A i \in S, j \in DOMAIN w \ S :
               Remainder(pool, w, floors, i) <= Remainder(pool, w, floors, j)}

\* The cases that get one cent more: those with the largest remainders.
Winners(pool, w, floors) ==
    {S \in SUBSET DOMAIN w :
        /\ \/ Cardinality(S) = Remaining(pool, floors)
           \/ Remaining(pool, floors) > Len(w) /\ S = DOMAIN w
        /\ \A i \in S, j \in DOMAIN w \ S :
               Remainder(pool, w, floors, i) >= Remainder(pool, w, floors, j)}

\* The splits of a pool among weights.
Splits(pool, w) ==
    UNION {{[i \in DOMAIN w |-> floors[i] + (IF i \in S THEN 1 ELSE 0)] :
                S \in Winners(pool, w, floors)} :
              floors \in {Floors(pool, w, low) : low \in SUBSET WholeQuotas(pool, w)}}

\* What payoutPlan may answer.
Plans(gross, cost, qs) ==
    LET net == Net(gross, cost)
        platform == PlatformShare(net)
        pool == net - platform
        w == [i \in DOMAIN qs |-> Weight(qs[i])]
    IN  [platform : {platform}, pool : {pool}, net : {net},
         amounts : IF qs = <<>> \/ pool <= 0 THEN {<<>>} ELSE Splits(pool, w)]

-----------------------------------------------------------------------------

Init == scores = <<>> /\ plan = None

\* A case becomes eligible for the export.
AddCase(q) ==
    /\ plan = None
    /\ Len(scores) < MaxCases
    /\ scores' = Append(scores, q)
    /\ UNCHANGED plan

\* createDataset plans the payouts of an export of these cases.
Export(gross, cost) ==
    /\ plan = None
    /\ scores # <<>>
    /\ plan' \in Plans(gross, cost, scores)
    /\ UNCHANGED scores

Next ==
    \/ \E q \in Scores : AddCase(q)
    \/ \E gross \in Revenues, cost \in Costs : Export(gross, cost)

Spec == Init /\ [][Next]_vars

-----------------------------------------------------------------------------
(* Properties of every plan.                                                *)

Planned == plan # None /\ plan.amounts # <<>>

\* No cent is lost or invented: the amounts of the cases make up the pool,
\* pool and platform share the net revenue, and nothing is negative.
SplitsThePool ==
    /\ Planned => /\ SumFunction(plan.amounts) = plan.pool
                  /\ \A i \in DOMAIN scores : plan.amounts[i] >= 0
    /\ plan # None => /\ plan.platform + plan.pool = plan.net
                      /\ 5 * plan.platform <= plan.net
                      /\ plan.pool > 0 <=> plan.amounts # <<>>

\* Reference definition of the split: how far the amount of a case is above
\* its exact quota, in units of 1 / total weight cents.
Excess(i) ==
    LET w == [k \in DOMAIN scores |-> Weight(scores[k])]
    IN  plan.amounts[i] * SumFunction(w) - plan.pool * w[i]

\* No cent is better placed elsewhere: moving one from any case to another
\* does not bring the amounts closer to the quotas (least squares).
NoFairerSplit ==
    Planned => \A i, j \in DOMAIN scores :
        plan.amounts[i] > 0 =>
            Excess(i) - Excess(j) <=
                SumFunction([k \in DOMAIN scores |-> Weight(scores[k])])

\* A case with more weight never earns less than one with less weight.
MoreWeightEarnsMore ==
    Planned => \A i, j \in DOMAIN scores :
        Weight(scores[i]) > Weight(scores[j]) => plan.amounts[i] >= plan.amounts[j]
=============================================================================
