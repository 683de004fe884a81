-------------------------- MODULE PayoutLifecycle --------------------------
(***************************************************************************)
(* What the ledger promises to a contributor: a payout event waits, goes   *)
(* into one batch for good, and is settled together with everything that   *)
(* batch was made of.                                                      *)
(***************************************************************************)
CONSTANTS Events, Batches, None

VARIABLES status, batchOf

Init ==
    /\ status = [e \in Events |-> "absent"]
    /\ batchOf = [e \in Events |-> None]

Of(b) == {e \in Events : batchOf[e] = b}

\* The events of one usage are recorded together.
Record(S) ==
    /\ \A e \in S : status[e] = "absent"
    /\ status' = [e \in Events |-> IF e \in S THEN "pending" ELSE status[e]]
    /\ UNCHANGED batchOf

Gather(b, S) ==
    /\ Of(b) = {}
    /\ \A e \in S : status[e] = "pending"
    /\ status' = [e \in Events |-> IF e \in S THEN "batched" ELSE status[e]]
    /\ batchOf' = [e \in Events |-> IF e \in S THEN b ELSE batchOf[e]]

Pay(b) ==
    /\ status' = [e \in Events |-> IF e \in Of(b) THEN "settled" ELSE status[e]]
    /\ UNCHANGED batchOf

Next ==
    \E S \in SUBSET Events :
        Record(S) \/ \E b \in Batches : Gather(b, S) \/ Pay(b)

Spec == Init /\ [][Next]_<<status, batchOf>>
=============================================================================
