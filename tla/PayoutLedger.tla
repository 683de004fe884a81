---------------------------- MODULE PayoutLedger ----------------------------
(***************************************************************************)
(* The payout side of the ledger: usage brings payout events, requests     *)
(* gather pending events into batches, transfers are submitted and         *)
(* confirmed, and requests settle batches, while disputes that hold        *)
(* payouts are opened and resolved and payout profiles arrive.             *)
(*                                                                         *)
(* The handlers read with one statement after the other and write in one   *)
(* transaction at the end, so an action is one statement or transaction,   *)
(* and handlers interleave.  A batch is named by the request that makes it.*)
(***************************************************************************)
EXTENDS Naturals, FiniteSets, Functions

CONSTANTS
    Events,       \* payout events the usage of datasets may bring
    Usage,        \* the usage event each payout event belongs to
    Amount,       \* amount_cents of each payout event
    Payee,        \* the contributor of each payout event
    Entities,     \* what disputes are about: events, cases, datasets, contributors
    Covers,       \* the payout events that name an entity
    Batches,      \* createPayoutBatch requests and the batches they make
    Settlers,     \* settlePayoutBatch requests
    Transfers,    \* payout transfers
    Disputes,     \* disputes
    Limits,       \* limits a listing of pending events may have
    Minimums,     \* values of min_amount_cents in requests
    None

Usages == {Usage[e] : e \in Events}
Payees == {Payee[e] : e \in Events}
Requests == Batches \cup Settlers

ASSUME LedgerAssumption ==
    /\ IsFiniteSet(Events)
    /\ DOMAIN Usage = Events
    /\ DOMAIN Payee = Events
    /\ Amount \in [Events -> Nat]
    /\ Covers \in [Entities -> SUBSET Events]
    /\ Batches \cap Settlers = {}
    /\ None \notin Batches \cup Entities \cup Settlers
    /\ Limits \subseteq Nat \ {0}
    /\ Minimums \subseteq Nat

VARIABLES
    status,    \* payout_events.status, or absent
    batchOf,   \* payout_events.batch_id
    batch,     \* payout_batches.status, or absent
    total,     \* payout_batches.total_amount_cents
    transfer,  \* payout_transfers: batch_id, status and amount_cents
    dispute,   \* disputes: entity, status and whether payouts are held
    profiles,  \* statuses of the payout_profiles rows of a contributor
    latest,    \* the status of the newest of these rows
    pc,        \* the next statement of each request
    listed,    \* the events a batch request listed
    chosen,    \* the batch a settle request is for
    paid,      \* history: batches whose succeeded transfers once covered them
    since      \* history: holds open without a break since a request began

ledger == <<status, batchOf, batch, total>>
requests == <<pc, listed, chosen>>
vars == <<ledger, transfer, dispute, profiles, latest, requests, paid, since>>

ProfileStatus == {"pending_verification", "active"}

TypeOK ==
    /\ status \in [Events -> {"absent", "pending", "batched", "settled"}]
    /\ batchOf \in [Events -> Batches \cup {None}]
    /\ batch \in [Batches -> {"absent", "ready", "settled"}]
    /\ total \in [Batches -> Nat]
    /\ transfer \in [Transfers -> [batch : Batches \cup {None}, amount : Nat,
                        status : {"absent", "submitted", "succeeded", "failed"}]]
    /\ dispute \in [Disputes -> [entity : Entities \cup {None}, hold : BOOLEAN,
                        status : {"absent", "open", "closed"}]]
    /\ profiles \in [Payees -> SUBSET ProfileStatus]
    /\ latest \in [Payees -> ProfileStatus \cup {None}]
    /\ pc \in [Requests -> {"start", "blockers", "create", "profiles", "disputes",
                            "count", "sum", "settle", "end"}]
    /\ listed \in [Batches -> SUBSET Events]
    /\ chosen \in [Settlers -> Batches \cup {None}]
    /\ paid \subseteq Batches
    /\ since \in [Requests -> SUBSET Disputes]

Init ==
    /\ status = [e \in Events |-> "absent"]
    /\ batchOf = [e \in Events |-> None]
    /\ batch = [b \in Batches |-> "absent"]
    /\ total = [b \in Batches |-> 0]
    /\ transfer = [t \in Transfers |-> [batch |-> None, amount |-> 0, status |-> "absent"]]
    /\ dispute = [d \in Disputes |-> [entity |-> None, hold |-> FALSE, status |-> "absent"]]
    /\ profiles = [c \in Payees |-> {}]
    /\ latest = [c \in Payees |-> None]
    /\ pc = [r \in Requests |-> "start"]
    /\ listed = [b \in Batches |-> {}]
    /\ chosen = [s \in Settlers |-> None]
    /\ paid = {}
    /\ since = [r \in Requests |-> {}]

-----------------------------------------------------------------------------
(* Queries.                                                                 *)

Pending == {e \in Events : status[e] = "pending"}
EventsOf(b) == {e \in Events : batchOf[e] = b}
TotalOf(S) == SumFunctionOnSet(Amount, S)

Succeeded(b) == {t \in Transfers : transfer[t].batch = b /\ transfer[t].status = "succeeded"}
SucceededAmount(b) ==
    SumFunctionOnSet([t \in Transfers |-> transfer[t].amount], Succeeded(b))

OpenHolds == {d \in Disputes : dispute[d].status = "open" /\ dispute[d].hold}

\* Mutant of Blockers: a dispute blocks only if it holds every event.
BlockersOfAll(S) == {d \in OpenHolds : S \subseteq Covers[dispute[d].entity]}

\* Open disputes with a payout hold on one of the events.
Blockers(S) == {d \in OpenHolds : Covers[dispute[d].entity] \cap S # {}}

\* Mutant of Unverified: any profile row will do.
WithoutProfile(b) == {Payee[e] : e \in {f \in EventsOf(b) : profiles[Payee[f]] = {}}}

\* Payees of a batch without a row in status active, however old.
Unverified(b) ==
    {Payee[e] : e \in {f \in EventsOf(b) : "active" \notin profiles[Payee[f]]}}

Goto(r, label) == pc' = [pc EXCEPT ![r] = label]

\* A request begins: it notes the holds that are open.
Begin(r) == since' = [since EXCEPT ![r] = OpenHolds]

\* The batches covered from now on, in the history.
NotePaid == paid' = paid \cup {b \in Batches : batch'[b] # "absent"
                                  /\ SucceededAmount(b)' >= total'[b]}

-----------------------------------------------------------------------------
(* Everything that happens to the ledger besides batches and settlement.    *)

\* CreateUsageEventWithPayouts: all payout events of a usage, or none.
RecordUsage(u) ==
    LET own == {e \in Events : Usage[e] = u}
    IN  /\ \A e \in own : status[e] = "absent"
        /\ status' = [e \in Events |-> IF e \in own THEN "pending" ELSE status[e]]
        /\ UNCHANGED <<batchOf, batch, total, transfer, dispute, profiles, latest,
                       requests, paid, since>>

\* createDispute: about any entity, any number of times.
OpenDispute(d) ==
    /\ dispute[d].status = "absent"
    /\ \E x \in Entities, h \in BOOLEAN :
           dispute' = [dispute EXCEPT ![d] = [entity |-> x, hold |-> h, status |-> "open"]]
    /\ UNCHANGED <<ledger, transfer, profiles, latest, requests, paid, since>>

\* resolveDispute: resolved, rejected or withdrawn; the hold is dropped.
ResolveDispute(d) ==
    /\ dispute[d].status # "absent"
    /\ dispute' = [dispute EXCEPT ![d].status = "closed", ![d].hold = FALSE]
    /\ since' = [r \in Requests |-> since[r] \ {d}]
    /\ UNCHANGED <<ledger, transfer, profiles, latest, requests, paid>>

\* upsertPayoutProfile inserts a row: active from an admin, pending
\* verification from the contributor.
UpsertProfile(c) ==
    \E st \in ProfileStatus :
        /\ profiles' = [profiles EXCEPT ![c] = @ \cup {st}]
        /\ latest' = [latest EXCEPT ![c] = st]
        /\ UNCHANGED <<ledger, transfer, dispute, requests, paid, since>>

\* createPayoutTransfer: the batch total, or 0 when the batch was not read.
CreateTransfer(t) ==
    /\ transfer[t].status = "absent"
    /\ \E b \in {x \in Batches : batch[x] # "absent"} \cup {None} :
       \E amount \in {0} \cup {total[x] : x \in {b} \ {None}} :
           transfer' = [transfer EXCEPT ![t] =
                           [batch |-> b, amount |-> amount, status |-> "submitted"]]
    /\ UNCHANGED <<ledger, dispute, profiles, latest, requests, paid, since>>

\* confirmPayoutTransfer sets any status at any time.
ConfirmTransfer(t) ==
    /\ transfer[t].status # "absent"
    /\ \E st \in {"submitted", "succeeded", "failed"} :
           transfer' = [transfer EXCEPT ![t].status = st]
    /\ UNCHANGED <<ledger, dispute, profiles, latest, requests, since>>
    /\ NotePaid

-----------------------------------------------------------------------------
(* createPayoutBatch.                                                       *)

\* ListPayoutEventsByStatus: the oldest pending events up to the limit.  All
\* events of a usage carry one created_at, so any of them may come first.
ListPending(b) ==
    /\ pc[b] = "start"
    /\ Begin(b)
    /\ \E n \in Limits, S \in SUBSET Pending :
           /\ Cardinality(S) <= n
           /\ S = Pending \/ Cardinality(S) = n
           /\ listed' = [listed EXCEPT ![b] = S]
           /\ Goto(b, IF S = {} THEN "end" ELSE "blockers")
    /\ UNCHANGED <<ledger, transfer, dispute, profiles, latest, chosen, paid>>

\* ActivePayoutDisputeBlockers, then the minimum of the request.
CheckBlockers(b) ==
    /\ pc[b] = "blockers"
    /\ \E min \in Minimums :
           Goto(b, IF Blockers(listed[b]) = {} /\ TotalOf(listed[b]) >= min
                   THEN "create" ELSE "end")
    /\ UNCHANGED <<ledger, transfer, dispute, profiles, latest, listed, chosen, paid, since>>

\* Mutant of Attach: the batch gets the status of its events.
AttachBatched(b, S) ==
    /\ batch' = [batch EXCEPT ![b] = "batched"]
    /\ total' = [total EXCEPT ![b] = TotalOf(listed[b])]
    /\ status' = [e \in Events |-> IF e \in S THEN "batched" ELSE status[e]]
    /\ batchOf' = [e \in Events |-> IF e \in S THEN b ELSE batchOf[e]]

\* Writes of a batch with the events S attached.
Attach(b, S) ==
    /\ batch' = [batch EXCEPT ![b] = "ready"]
    /\ total' = [total EXCEPT ![b] = TotalOf(listed[b])]
    /\ status' = [e \in Events |-> IF e \in S THEN "batched" ELSE status[e]]
    /\ batchOf' = [e \in Events |-> IF e \in S THEN b ELSE batchOf[e]]

\* Mutants of CreateBatch: no look at the number of updated rows, and an
\* UPDATE without the condition on the status.
CreateBatchOfRest(b) ==
    /\ pc[b] = "create"
    /\ Goto(b, "end")
    /\ UNCHANGED <<transfer, dispute, profiles, latest, listed, chosen, since>>
    /\ Attach(b, listed[b] \cap Pending) /\ NotePaid

CreateBatchOfAll(b) ==
    /\ pc[b] = "create"
    /\ Goto(b, "end")
    /\ UNCHANGED <<transfer, dispute, profiles, latest, listed, chosen, since>>
    /\ Attach(b, listed[b]) /\ NotePaid

\* CreatePayoutBatchForEvents: rolled back unless every listed event is
\* still pending (payout_event_unavailable).
CreateBatch(b) ==
    /\ pc[b] = "create"
    /\ Goto(b, "end")
    /\ UNCHANGED <<transfer, dispute, profiles, latest, listed, chosen, since>>
    /\ \/ listed[b] \subseteq Pending /\ Attach(b, listed[b]) /\ NotePaid
       \/ ~(listed[b] \subseteq Pending) /\ UNCHANGED <<ledger, paid>>

-----------------------------------------------------------------------------
(* settlePayoutBatch.                                                       *)

\* A statement of request s that only reads: go on if the check passes.
Read(s, from, passes, to) ==
    /\ pc[s] = from
    /\ Goto(s, IF passes THEN to ELSE "end")
    /\ UNCHANGED <<ledger, transfer, dispute, profiles, latest, listed, chosen, paid, since>>

\* GetPayoutBatch: the batch with its total, which never changes.
GetBatch(s) ==
    /\ pc[s] = "start"
    /\ Begin(s)
    /\ \E b \in Batches :
           /\ batch[b] # "absent"
           /\ chosen' = [chosen EXCEPT ![s] = b]
    /\ Goto(s, "profiles")
    /\ UNCHANGED <<ledger, transfer, dispute, profiles, latest, listed, paid>>

CheckProfiles(s) == Read(s, "profiles", Unverified(chosen[s]) = {}, "disputes")

\* ActivePayoutBatchDisputeBlockers.
CheckDisputes(s) == Read(s, "disputes", Blockers(EventsOf(chosen[s])) = {}, "count")

\* The count and the sum are separate reads; either can end the request.
CountTransfers(s) == Read(s, "count", Succeeded(chosen[s]) # {}, "sum")

\* Mutant of SumTransfers: only the existence of a transfer counts.
SumTransfersAny(s) == Read(s, "sum", Succeeded(chosen[s]) # {}, "settle")

SumTransfers(s) ==
    Read(s, "sum", SucceededAmount(chosen[s]) >= total[chosen[s]], "settle")

\* Mutant of Settle: the UPDATE of the events misses the transaction.
SettleBatchOnly(s) ==
    /\ pc[s] = "settle"
    /\ Goto(s, "end")
    /\ batch' = [batch EXCEPT ![chosen[s]] = "settled"]
    /\ UNCHANGED <<status, batchOf, total, transfer, dispute, profiles, latest, listed,
                   chosen, paid, since>>

\* SettlePayoutBatchAndEvents: the batch and its events, in one transaction
\* that looks at nothing again.
Settle(s) ==
    /\ pc[s] = "settle"
    /\ Goto(s, "end")
    /\ batch' = [batch EXCEPT ![chosen[s]] = "settled"]
    /\ status' = [e \in Events |-> IF batchOf[e] = chosen[s] THEN "settled" ELSE status[e]]
    /\ UNCHANGED <<batchOf, total, transfer, dispute, profiles, latest, listed, chosen,
                   paid, since>>

\* A statement fails, the client goes away or the process dies: the request
\* ends, and an open transaction is rolled back.
Abort(r) ==
    /\ pc[r] \notin {"start", "end"}
    /\ Goto(r, "end")
    /\ UNCHANGED <<ledger, transfer, dispute, profiles, latest, listed, chosen, paid, since>>

-----------------------------------------------------------------------------

MakeBatch(b) == ListPending(b) \/ CheckBlockers(b) \/ CreateBatch(b)

SettleBatch(s) ==
    \/ GetBatch(s) \/ CheckProfiles(s) \/ CheckDisputes(s)
    \/ CountTransfers(s) \/ SumTransfers(s) \/ Settle(s)

Next ==
    \/ \E u \in Usages : RecordUsage(u)
    \/ \E d \in Disputes : OpenDispute(d) \/ ResolveDispute(d)
    \/ \E c \in Payees : UpsertProfile(c)
    \/ \E t \in Transfers : CreateTransfer(t) \/ ConfirmTransfer(t)
    \/ \E b \in Batches : MakeBatch(b)
    \/ \E s \in Settlers : SettleBatch(s)
    \/ \E r \in Requests : Abort(r)

Spec == Init /\ [][Next]_vars

-----------------------------------------------------------------------------
(* Properties.                                                              *)

\* A batch is worth exactly the events attached to it, although two requests
\* may list the same events and only one of them gets each.
BatchAddsUp ==
    \A b \in Batches :
        batch[b] # "absent" => EventsOf(b) # {} /\ total[b] = TotalOf(EventsOf(b))

\* The status of a payout event agrees with the status of its batch.
EventFollowsBatch ==
    \A e \in Events :
        /\ status[e] \in {"absent", "pending"} <=> batchOf[e] = None
        /\ \A b \in Batches :
               batchOf[e] = b => \/ status[e] = "batched" /\ batch[b] = "ready"
                                 \/ status[e] = "settled" /\ batch[b] = "settled"

\* A settled batch had its total confirmed by transfers at some moment,
\* whatever is confirmed, failed or submitted again around the two reads.
SettledWasPaid == \A b \in Batches : batch[b] = "settled" => b \in paid

\* Every payee of a settled batch once had a verified profile.
SettledToVerified ==
    \A e \in Events : status[e] = "settled" => "active" \in profiles[Payee[e]]

\* A request that changes the ledger touches no event under a hold that was
\* open when the request began and has not been resolved since.
HoldStops ==
    [][\A d \in Disputes : dispute[d].entity # None =>
        \A e \in Covers[dispute[d].entity] :
            /\ \A b \in Batches : d \in since[b] => ~(batchOf[e] # b /\ batchOf'[e] = b)
            /\ \A s \in Settlers : d \in since[s] /\ pc[s] = "settle" =>
                   ~(pc'[s] = "end" /\ status[e] = "batched" /\ status'[e] = "settled")]_vars

\* An event is in one batch for good, and a batch is settled as a whole.
Lifecycle == INSTANCE PayoutLifecycle
PayoutsKept == Lifecycle!Spec

\* Settlement reads disputes "in real time": no event is settled while a
\* dispute with a payout hold on it is open.
NoSettlementUnderHold ==
    [][\A e \in Events :
        status[e] # "settled" /\ status'[e] = "settled" => Blockers({e}) = {}]_vars

\* Settlement demands that the payout profiles of a batch are active: the
\* profile check passes only if each payee's current profile is.
ProfileCheckIsCurrent ==
    [][\A s \in Settlers :
        pc[s] = "profiles" /\ pc'[s] = "disputes" =>
            \A e \in EventsOf(chosen[s]) : latest[Payee[e]] = "active"]_vars
=============================================================================
