---------------------------- MODULE JobLifecycle ----------------------------
(***************************************************************************)
(* What the jobs table promises to an operator who reads it: the life of a *)
(* job, without queue, workers, handlers or processing.  An attempt starts *)
(* only on a waiting job, ends once, and no more than MaxAttempts start;   *)
(* done and failed are final.                                              *)
(***************************************************************************)
EXTENDS Naturals

CONSTANTS Jobs, MaxAttempts

VARIABLES status, tries

Init ==
    /\ status = [j \in Jobs |-> "absent"]
    /\ tries = [j \in Jobs |-> 0]

Move(j, from, to) ==
    /\ status[j] \in from
    /\ status' = [status EXCEPT ![j] = to]

Accept(j) == Move(j, {"absent"}, "queued") /\ UNCHANGED tries

Start(j) ==
    /\ tries[j] < MaxAttempts
    /\ Move(j, {"queued", "retry"}, "running")
    /\ tries' = [tries EXCEPT ![j] = @ + 1]

\* A queued job is finished by the handler that processes it inline.
Finish(j) == Move(j, {"running", "queued"}, "done") /\ UNCHANGED tries

\* The attempt failed, or the id of a queued job could not be pushed.
GiveBack(j) ==
    /\ tries[j] < MaxAttempts
    /\ Move(j, {"running", "queued"}, "retry")
    /\ UNCHANGED tries

GiveUp(j) ==
    /\ tries[j] = MaxAttempts
    /\ Move(j, {"running"}, "failed")
    /\ UNCHANGED tries

Next == \E j \in Jobs : Accept(j) \/ Start(j) \/ Finish(j) \/ GiveBack(j) \/ GiveUp(j)

Spec == Init /\ [][Next]_<<status, tries>>
=============================================================================
