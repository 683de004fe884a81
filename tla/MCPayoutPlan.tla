---------------------------- MODULE MCPayoutPlan ----------------------------
(* Small inputs of payoutPlan for TLC.                                      *)
EXTENDS PayoutPlan

\* Negative, none, around the number of cases, and two larger pools.
SmallRevenues == {-1} \cup 0..9 \cup {23, 100}
=============================================================================
