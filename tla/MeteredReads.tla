---------------------------- MODULE MeteredReads ----------------------------
(***************************************************************************)
(* What a delivery grant promises, without saying how it is checked: a     *)
(* grant is given once, with a number of reads it never gets more of; a    *)
(* body leaves under it only for a read that was taken off, and a read     *)
(* that was taken off for a body that never left is lost, not given back.  *)
(***************************************************************************)
EXTENDS Integers

CONSTANTS Grants, Budgets, None

VARIABLES left,   \* reads each grant has left, None before the grant is given
          owed,   \* reads taken off whose answer is still to come
          sent    \* bodies that left

vars == <<left, owed, sent>>

Init ==
    /\ left = [g \in Grants |-> None]
    /\ owed = [g \in Grants |-> 0]
    /\ sent = [g \in Grants |-> 0]

Give(g) ==
    /\ left[g] = None
    /\ \E n \in Budgets : left' = [left EXCEPT ![g] = n]
    /\ UNCHANGED <<owed, sent>>

Take(g) ==
    /\ left[g] # None
    /\ left[g] > 0
    /\ left' = [left EXCEPT ![g] = @ - 1]
    /\ owed' = [owed EXCEPT ![g] = @ + 1]
    /\ UNCHANGED sent

Send(g) ==
    /\ owed[g] > 0
    /\ owed' = [owed EXCEPT ![g] = @ - 1]
    /\ sent' = [sent EXCEPT ![g] = @ + 1]
    /\ UNCHANGED left

Lose(g) ==
    /\ owed[g] > 0
    /\ owed' = [owed EXCEPT ![g] = @ - 1]
    /\ UNCHANGED <<left, sent>>

Next == \E g \in Grants : Give(g) \/ Take(g) \/ Send(g) \/ Lose(g)

Spec == Init /\ [][Next]_vars
=============================================================================
