--------------------------- MODULE MCPayoutLedger ---------------------------
(* Small instances of PayoutLedger for TLC.                                 *)
EXTENDS PayoutLedger, TLC
CONSTANTS e1, e2, u1, u2, c1, x1, x2

\* Two usages that pay one contributor.
TwoUsages == e1 :> u1 @@ e2 :> u2
Amounts == e1 :> 2 @@ e2 :> 1
OneContributor == e1 :> c1 @@ e2 :> c1

\* The case of e1, and the contributor.
Scope == x1 :> {e1} @@ x2 :> {e1, e2}

Interchangeable ==
    Permutations(Batches) \cup Permutations(Settlers) \cup Permutations(Transfers)
=============================================================================
