------------------------------ MODULE Delivery ------------------------------
(***************************************************************************)
(* From the cases table to the buyer: exports, their evaluation, orders,   *)
(* delivery grants and downloads, and what may stop them: withdrawals,     *)
(* data subject requests and disputes.  Every handler is a request that    *)
(* makes its calls one after the other; other requests run between them.   *)
(* A request remembers the withdrawals and the disputes that stood when it *)
(* began: those fields are history, no guard reads them.                   *)
(***************************************************************************)
EXTENDS Integers, FiniteSets, FiniteSetsExt

CONSTANTS Cases, Owners, Owner,          \* cases and who contributed each
          AuthorizationID,               \* authorizationIDForOwner: two owners may share one
          Unsafe,                        \* cases whose redacted text shows a credential mark
          Artifacts,                     \* data, manifest, quality_report, data_contract
          Purposes, MaxDatasets,         \* purposes asked for; bound on datasets
          CaseLimit,                     \* DatasetMaxCases
          OverlapLimit,                  \* LIMIT of DatasetCaseOverlaps (5000)
          Orders, Customers, Grants, Budgets, Disputes, DSRs, Requests, None

Ids == 1 .. MaxDatasets      \* dataset ids, in order of created_at
Authorizations == {AuthorizationID[o] : o \in Owners}
Entities == ({"dataset"} \X Ids) \union ({"case"} \X Cases)
               \union ({"contributor"} \X Owners)

ASSUME BoundsAssumption ==
    /\ MaxDatasets \in Nat /\ CaseLimit \in Nat \ {0} /\ OverlapLimit \in Nat
    /\ Budgets \subseteq Nat \ {0}
ASSUME OwnersAssumption == Owner \in [Cases -> Owners]
ASSUME PurposesAssumption == Purposes \subseteq {"eval", "commercial", "other"}
ASSUME NoneAssumption == None \notin Int \union Orders \union Customers

VARIABLES
    cases,      \* cases: in a status EligibleCases takes, commercially ready, fields filled
    scanned,    \* cases with a content safety scan
    made,       \* number of datasets
    datasets,   \* datasets, dataset_artifacts, usage_events and the latest evaluation
    orders, grants,
    sent,       \* history: artifact bodies written to each grant's buyer
    handed,     \* history: datasets of which datasetArtifact handed out a body
    withdrawn,  \* authorizations with a withdrawal
    disputes, dsrs,
    reqs        \* requests in progress

library == <<cases, scanned>>
exports == <<made, datasets>>
sales == <<orders, grants, sent, handed>>
rights == <<withdrawn, disputes, dsrs>>
tables == <<library, exports, sales, rights>>
vars == <<tables, reqs>>

CaseRow == [listed : BOOLEAN, ready : BOOLEAN, full : BOOLEAN]
Dataset == [cases : SUBSET Cases, purpose : Purposes, artifacts : SUBSET Artifacts,
            billed : BOOLEAN, evaluation : {"none", "completed", "blocked"}]
Order == [dataset : Ids, customer : Customers, recognized : BOOLEAN,
          grant : Grants \union {None}]
Grant == [dataset : Ids, order : Orders \union {None},
          customer : Customers \union {None},
          max : Budgets, reads : Nat, expired : BOOLEAN]
Dispute == [entity : Entities, open : BOOLEAN]
DSR == [owner : Owners, kind : {"delete", "other"}, fulfilled : BOOLEAN]

Idle == [pc |-> "idle"]
Began == [gone : SUBSET Authorizations, open : SUBSET Disputes]
DeliveryPcs == {"evaluation", "authorizations", "disputes", "ordering", "granting",
                "fetching", "counting", "sending", "reporting"}
Request ==
    {Idle}
    \union [pc : {"authorizing"}, chosen : SUBSET Cases, purpose : Purposes,
            todo : SUBSET Owners, began : Began]
    \union [pc : {"writing"}, dataset : Ids, began : Began]
    \union [pc : {"comparing"}, dataset : Ids, critical : BOOLEAN]
    \union [pc : {"inspecting"}, dataset : Ids, critical : BOOLEAN, todo : SUBSET Cases]
    \union [pc : DeliveryPcs, kind : {"grant", "download", "report"}, dataset : Ids,
            grant : Grants \union {None}, order : Orders \union {None},
            customer : Customers \union {None}, max : Budgets,
            todo : SUBSET Owners, began : Began]
    \union [pc : {"linking"}, order : Orders, grant : Grants]
    \union [pc : {"withdrawing", "fulfilling"}, dsr : DSRs]

TypeOK ==
    /\ cases \in [Cases -> CaseRow]
    /\ scanned \subseteq Cases
    /\ made \in 0 .. MaxDatasets
    /\ datasets \in [Ids -> Dataset \union {None}]
    /\ \A d \in Ids : datasets[d] # None <=> d <= made
    /\ orders \in [Orders -> Order \union {None}]
    /\ grants \in [Grants -> Grant \union {None}]
    /\ \A g \in Grants : grants[g] # None => grants[g].reads <= grants[g].max
    /\ sent \in [Grants -> Nat]
    /\ handed \subseteq Ids
    /\ withdrawn \subseteq Authorizations
    /\ disputes \in [Disputes -> Dispute \union {None}]
    /\ dsrs \in [DSRs -> DSR \union {None}]
    /\ reqs \in [Requests -> Request]

Init ==
    /\ cases \in [Cases -> CaseRow]
    /\ scanned \in SUBSET Cases
    /\ made = 0
    /\ datasets = [d \in Ids |-> None]
    /\ orders = [o \in Orders |-> None]
    /\ grants = [g \in Grants |-> None]
    /\ sent = [g \in Grants |-> 0]
    /\ handed = {}
    /\ withdrawn = {}
    /\ disputes = [x \in Disputes |-> None]
    /\ dsrs = [r \in DSRs |-> None]
    /\ reqs = [q \in Requests |-> Idle]

Gone(o) == AuthorizationID[o] \in withdrawn
OpenDisputes == {x \in Disputes : disputes[x] # None /\ disputes[x].open}
Now == [gone |-> withdrawn, open |-> OpenDisputes]

\* The part of a handler that changes only the request itself.
Goto(q, state) == reqs' = [reqs EXCEPT ![q] = state] /\ UNCHANGED tables

-----------------------------------------------------------------------------
(* Cases and their scans.                                                   *)

\* Whatever the actions of Review do to the three columns; stale refinements may
\* take the mark away again.
ReviewCase(c) ==
    /\ \E row \in CaseRow : cases' = [cases EXCEPT ![c] = row]
    /\ UNCHANGED <<scanned, exports, sales, rights, reqs>>

\* The redacted text never changes, so neither does the result of a scan.
RunContentSafety(c) ==
    /\ scanned' = scanned \union {c}
    /\ UNCHANGED <<cases, exports, sales, rights, reqs>>

ScanAllows(c) == c \in scanned /\ c \notin Unsafe

-----------------------------------------------------------------------------
(* createDataset.                                                           *)

Eligible == {c \in Cases : cases[c].listed /\ cases[c].ready}
OwnersOf(S) == {Owner[c] : c \in S}

\* The LIMIT takes the cases updated last: any ones, here.
ReadEligible(q, purpose) ==
    /\ reqs[q] = Idle
    /\ made < MaxDatasets
    /\ \E S \in SUBSET Eligible :
          /\ S # {}
          /\ \/ S = Eligible /\ Cardinality(S) <= CaseLimit
             \/ Cardinality(S) = CaseLimit
          /\ Goto(q, [pc |-> "authorizing", chosen |-> S, purpose |-> purpose,
                      todo |-> OwnersOf(S), began |-> Now])

\* Mutant of AuthorizeOwner: the answer for the first owner is taken for all.
AuthorizeFirstOwner(q, o) ==
    /\ reqs[q].pc = "authorizing"
    /\ o \in reqs[q].todo
    /\ Goto(q, [reqs[q] EXCEPT !.chosen = IF Gone(o) THEN {} ELSE @, !.todo = {}])

AuthorizeOwner(q, o) ==
    /\ reqs[q].pc = "authorizing"
    /\ o \in reqs[q].todo
    /\ LET kept == IF Gone(o) THEN {c \in reqs[q].chosen : Owner[c] # o}
                   ELSE reqs[q].chosen
       IN  Goto(q, [reqs[q] EXCEPT !.chosen = kept, !.todo = @ \ {o}])

CreateDataset(q) ==
    /\ reqs[q].pc = "authorizing" /\ reqs[q].todo = {} /\ reqs[q].chosen # {}
    /\ made < MaxDatasets
    /\ made' = made + 1
    /\ datasets' = [datasets EXCEPT ![made + 1] =
                      [cases |-> reqs[q].chosen, purpose |-> reqs[q].purpose,
                       artifacts |-> {}, billed |-> FALSE, evaluation |-> "none"]]
    /\ reqs' = [reqs EXCEPT ![q] = [pc |-> "writing", dataset |-> made + 1,
                                    began |-> reqs[q].began]]
    /\ UNCHANGED <<library, sales, rights>>

\* The artifacts are kept in a map: their order is any.
CreateDatasetArtifact(q, t) ==
    /\ reqs[q].pc = "writing"
    /\ t \notin datasets[reqs[q].dataset].artifacts
    /\ datasets' = [datasets EXCEPT ![reqs[q].dataset].artifacts = @ \union {t}]
    /\ UNCHANGED <<library, made, sales, rights, reqs>>

\* Mutant of CreateUsageEvent: the event is written as soon as the dataset is.
CreateUsageEventFirst(q) ==
    /\ reqs[q].pc = "writing"
    /\ datasets' = [datasets EXCEPT ![reqs[q].dataset].billed = TRUE]
    /\ reqs' = [reqs EXCEPT ![q] = Idle]
    /\ UNCHANGED <<library, made, sales, rights>>

\* The usage event and the payouts of every case, in one transaction.
CreateUsageEvent(q) ==
    /\ reqs[q].pc = "writing"
    /\ datasets[reqs[q].dataset].artifacts = Artifacts
    /\ datasets' = [datasets EXCEPT ![reqs[q].dataset].billed = TRUE]
    /\ reqs' = [reqs EXCEPT ![q] = Idle]
    /\ UNCHANGED <<library, made, sales, rights>>

-----------------------------------------------------------------------------
(* evaluateDataset.                                                         *)

StartEvaluation(q, d) ==
    /\ reqs[q] = Idle
    /\ d <= made
    /\ Goto(q, [pc |-> "comparing", dataset |-> d,
                critical |-> datasets[d].artifacts # Artifacts])

\* Mutant of HoldoutIsolationRequired: only training data is kept off a holdout.
TrainingAvoidsHoldout(target, other) == target = "commercial" /\ other = "eval"

HoldoutIsolationRequired(target, other) ==
    target = "eval" \/ (target = "commercial" /\ other = "eval")

Overlaps(d) ==
    {r \in (1 .. made) \X Cases :
        r[1] # d /\ r[2] \in datasets[d].cases \intersect datasets[r[1]].cases}

\* The rows the query returns: at most OverlapLimit, those of later datasets first.
OverlapsRead(d) ==
    {S \in SUBSET Overlaps(d) :
        /\ Cardinality(S) <= OverlapLimit
        /\ S = Overlaps(d) \/ Cardinality(S) = OverlapLimit
        /\ \A r \in S, s \in Overlaps(d) \ S : r[1] >= s[1]}

DatasetCaseOverlaps(q) ==
    /\ reqs[q].pc = "comparing"
    /\ LET d == reqs[q].dataset
       IN  \E rows \in OverlapsRead(d) :
              LET overlap == \E r \in rows :
                     HoldoutIsolationRequired(datasets[d].purpose, datasets[r[1]].purpose)
              IN  Goto(q, [pc |-> "inspecting", dataset |-> d,
                           critical |-> reqs[q].critical \/ overlap,
                           todo |-> datasets[d].cases])

\* Mutant of Sound: the scan has to be there, whatever it says.
SoundIfScanned(c) == cases[c].ready /\ cases[c].full /\ c \in scanned

Sound(c) == cases[c].ready /\ cases[c].full /\ ScanAllows(c)

InspectCase(q, c) ==
    /\ reqs[q].pc = "inspecting"
    /\ c \in reqs[q].todo
    /\ Goto(q, [reqs[q] EXCEPT !.critical = @ \/ ~Sound(c), !.todo = @ \ {c}])

CreateDatasetEvaluation(q) ==
    /\ reqs[q].pc = "inspecting" /\ reqs[q].todo = {}
    /\ datasets' = [datasets EXCEPT ![reqs[q].dataset].evaluation =
                      IF reqs[q].critical THEN "blocked" ELSE "completed"]
    /\ reqs' = [reqs EXCEPT ![q] = Idle]
    /\ UNCHANGED <<library, made, sales, rights>>

-----------------------------------------------------------------------------
(* Orders.                                                                  *)

\* The dataset of an order is whatever the request names, made or not.
CreateEnterpriseOrder(o, d, b) ==
    /\ orders[o] = None
    /\ orders' = [orders EXCEPT ![o] = [dataset |-> d, customer |-> b,
                                        recognized |-> FALSE, grant |-> None]]
    /\ UNCHANGED <<library, exports, grants, sent, handed, rights, reqs>>

RecognizeEnterpriseOrder(o) ==
    /\ orders[o] # None
    /\ orders' = [orders EXCEPT ![o].recognized = TRUE]
    /\ UNCHANGED <<library, exports, grants, sent, handed, rights, reqs>>

-----------------------------------------------------------------------------
(* Grants and the buyer's portal.                                           *)

\* None stands for an order or a customer the request leaves out.
StartGrant(q, d, o, b, n) ==
    /\ reqs[q] = Idle
    /\ d <= made
    /\ Goto(q, [pc |-> "evaluation", kind |-> "grant", dataset |-> d, grant |-> None,
                order |-> o, customer |-> b, max |-> n, todo |-> {}, began |-> Now])

\* validDeliveryGrant before its blockers; a wrong token starts nothing.
StartPortal(q, g, kind) ==
    /\ reqs[q] = Idle
    /\ grants[g] # None /\ ~grants[g].expired
    /\ grants[g].reads < grants[g].max
    /\ Goto(q, [pc |-> "evaluation", kind |-> kind, dataset |-> grants[g].dataset,
                grant |-> g, order |-> None, customer |-> None,
                max |-> grants[g].max, todo |-> {}, began |-> Now])

\* datasetDeliveryBlockers: the first blocker found settles the answer.
CheckEvaluation(q) ==
    /\ reqs[q].pc = "evaluation"
    /\ LET d == datasets[reqs[q].dataset]
       IN  IF d.evaluation = "completed"
           THEN Goto(q, [reqs[q] EXCEPT !.pc = "authorizations", !.todo = OwnersOf(d.cases)])
           ELSE Goto(q, Idle)

\* Mutant of CheckAuthorization: the loop ends with its first owner.
CheckSomeAuthorization(q, o) ==
    /\ reqs[q].pc = "authorizations"
    /\ o \in reqs[q].todo
    /\ IF Gone(o) THEN Goto(q, Idle) ELSE Goto(q, [reqs[q] EXCEPT !.todo = {}])

CheckAuthorization(q, o) ==
    /\ reqs[q].pc = "authorizations"
    /\ o \in reqs[q].todo
    /\ IF Gone(o) THEN Goto(q, Idle) ELSE Goto(q, [reqs[q] EXCEPT !.todo = @ \ {o}])

\* The entities whose disputes concern a dataset.
Concerns(d) ==
    {<<"dataset", d>>} \union ({"case"} \X datasets[d].cases)
       \union ({"contributor"} \X OwnersOf(datasets[d].cases))

OpenDispute(d) == \E x \in OpenDisputes : disputes[x].entity \in Concerns(d)

\* An open dispute stops deliveries whether it holds payouts or not.
ActiveDisputeBlockers(q) ==
    /\ reqs[q].pc = "authorizations" /\ reqs[q].todo = {}
    /\ LET next == CASE reqs[q].kind = "grant"    -> "ordering"
                     [] reqs[q].kind = "download" -> "fetching"
                     [] reqs[q].kind = "report"   -> "counting"
       IN  IF OpenDispute(reqs[q].dataset)
           THEN Goto(q, Idle) ELSE Goto(q, [reqs[q] EXCEPT !.pc = next])

OrderMatches(q) ==
    LET r == reqs[q] IN
    /\ orders[r.order] # None
    /\ orders[r.order].dataset = r.dataset
    /\ r.customer # None => orders[r.order].customer = r.customer

\* Mutant of CheckOrder: the status of the order is not looked at.
CheckOrderMatches(q) ==
    /\ reqs[q].pc = "ordering"
    /\ IF reqs[q].order = None \/ OrderMatches(q)
       THEN Goto(q, [reqs[q] EXCEPT !.pc = "granting"]) ELSE Goto(q, Idle)

\* A request that names no order needs none.
CheckOrder(q) ==
    /\ reqs[q].pc = "ordering"
    /\ IF reqs[q].order = None \/ (OrderMatches(q) /\ orders[reqs[q].order].recognized)
       THEN Goto(q, [reqs[q] EXCEPT !.pc = "granting"]) ELSE Goto(q, Idle)

CreateDeliveryGrant(q, g) ==
    /\ reqs[q].pc = "granting"
    /\ grants[g] = None
    /\ grants' = [grants EXCEPT ![g] =
                    [dataset |-> reqs[q].dataset, order |-> reqs[q].order,
                     customer |-> reqs[q].customer, max |-> reqs[q].max,
                     reads |-> 0, expired |-> FALSE]]
    /\ reqs' = [reqs EXCEPT ![q] =
                  IF reqs[q].order = None THEN Idle
                  ELSE [pc |-> "linking", order |-> reqs[q].order, grant |-> g]]
    /\ UNCHANGED <<library, exports, orders, sent, handed, rights>>

\* The error of this call is dropped, and a second grant of one order replaces the
\* first in its row.
LinkEnterpriseOrderGrant(q) ==
    /\ reqs[q].pc = "linking"
    /\ orders' = [orders EXCEPT ![reqs[q].order].grant = reqs[q].grant]
    /\ reqs' = [reqs EXCEPT ![q] = Idle]
    /\ UNCHANGED <<library, exports, grants, sent, handed, rights>>

\* Expiry, one month after the grant.
Expire(g) ==
    /\ grants[g] # None /\ ~grants[g].expired
    /\ grants' = [grants EXCEPT ![g].expired = TRUE]
    /\ UNCHANGED <<library, exports, orders, sent, handed, rights, reqs>>

FetchArtifact(q, t) ==
    /\ reqs[q].pc = "fetching"
    /\ IF t \in datasets[reqs[q].dataset].artifacts
       THEN Goto(q, [reqs[q] EXCEPT !.pc = "counting"]) ELSE Goto(q, Idle)

\* Mutant of IncrementDeliveryGrantRead: the UPDATE trusts the check made before it.
IncrementUnguarded(q) ==
    /\ reqs[q].pc = "counting"
    /\ LET g == reqs[q].grant IN
       /\ grants' = [grants EXCEPT ![g].reads = @ + 1]
       /\ reqs' = [reqs EXCEPT ![q].pc =
                     IF reqs[q].kind = "download" THEN "sending" ELSE "reporting"]
    /\ UNCHANGED <<library, exports, orders, sent, handed, rights>>

IncrementDeliveryGrantRead(q) ==
    /\ reqs[q].pc = "counting"
    /\ LET g == reqs[q].grant IN
       IF grants[g].reads < grants[g].max
       THEN /\ grants' = [grants EXCEPT ![g].reads = @ + 1]
            /\ reqs' = [reqs EXCEPT ![q].pc =
                          IF reqs[q].kind = "download" THEN "sending" ELSE "reporting"]
       ELSE /\ reqs' = [reqs EXCEPT ![q] = Idle]
            /\ UNCHANGED grants
    /\ UNCHANGED <<library, exports, orders, sent, handed, rights>>

SendBody(q) ==
    /\ reqs[q].pc = "sending"
    /\ sent' = [sent EXCEPT ![reqs[q].grant] = @ + 1]
    /\ reqs' = [reqs EXCEPT ![q] = Idle]
    /\ UNCHANGED <<library, exports, orders, grants, handed, rights>>

\* datasetArtifact, the console's route: whoever names a dataset and an artifact gets
\* the body, without a grant, an evaluation or a look at withdrawals and disputes.
DatasetArtifact(d, t) ==
    /\ d <= made
    /\ t \in datasets[d].artifacts
    /\ handed' = handed \union {d}
    /\ UNCHANGED <<library, exports, orders, grants, sent, rights, reqs>>

\* The report goes into a table that only the portal's own page lists.
CreateBuyerUsageReport(q) ==
    /\ reqs[q].pc = "reporting"
    /\ Goto(q, Idle)

-----------------------------------------------------------------------------
(* Withdrawals, data subject requests and disputes.                         *)

WithdrawAuthorization(a) ==
    /\ withdrawn' = withdrawn \union {a}
    /\ UNCHANGED <<library, exports, sales, disputes, dsrs, reqs>>

CreateDSRRequest(r, o, kind) ==
    /\ dsrs[r] = None
    /\ dsrs' = [dsrs EXCEPT ![r] = [owner |-> o, kind |-> kind, fulfilled |-> FALSE]]
    /\ UNCHANGED <<library, exports, sales, withdrawn, disputes, reqs>>

\* Mutant of StartFulfilment: the kind of the request is not looked at.
StartFulfilmentOfAny(q, r) ==
    /\ reqs[q] = Idle
    /\ dsrs[r] # None
    /\ Goto(q, [pc |-> "fulfilling", dsr |-> r])

\* A fulfilled request may be fulfilled again.
StartFulfilment(q, r) ==
    /\ reqs[q] = Idle
    /\ dsrs[r] # None
    /\ Goto(q, [pc |-> IF dsrs[r].kind = "delete" THEN "withdrawing" ELSE "fulfilling",
                dsr |-> r])

RecordWithdrawal(q) ==
    /\ reqs[q].pc = "withdrawing"
    /\ withdrawn' = withdrawn \union {AuthorizationID[dsrs[reqs[q].dsr].owner]}
    /\ reqs' = [reqs EXCEPT ![q].pc = "fulfilling"]
    /\ UNCHANGED <<library, exports, sales, disputes, dsrs>>

FulfillDSRRequest(q) ==
    /\ reqs[q].pc = "fulfilling"
    /\ dsrs' = [dsrs EXCEPT ![reqs[q].dsr].fulfilled = TRUE]
    /\ reqs' = [reqs EXCEPT ![q] = Idle]
    /\ UNCHANGED <<library, exports, sales, withdrawn, disputes>>

CreateDispute(x, e) ==
    /\ disputes[x] = None
    /\ disputes' = [disputes EXCEPT ![x] = [entity |-> e, open |-> TRUE]]
    /\ UNCHANGED <<library, exports, sales, withdrawn, dsrs, reqs>>

ResolveDispute(x) ==
    /\ disputes[x] # None
    /\ disputes' = [disputes EXCEPT ![x].open = FALSE]
    /\ UNCHANGED <<library, exports, sales, withdrawn, dsrs, reqs>>

-----------------------------------------------------------------------------
\* A failing call, a lost connection or a crash ends a request where it is.
Abandon(q) ==
    /\ reqs[q] # Idle
    /\ Goto(q, Idle)

Export(q) ==
    \/ \E p \in Purposes : ReadEligible(q, p)
    \/ \E o \in Owners : AuthorizeOwner(q, o)
    \/ CreateDataset(q)
    \/ \E t \in Artifacts : CreateDatasetArtifact(q, t)
    \/ CreateUsageEvent(q)

Evaluate(q) ==
    \/ \E d \in Ids : StartEvaluation(q, d)
    \/ DatasetCaseOverlaps(q)
    \/ \E c \in Cases : InspectCase(q, c)
    \/ CreateDatasetEvaluation(q)

Deliver(q) ==
    \/ \E d \in Ids, o \in Orders \union {None}, b \in Customers \union {None},
          n \in Budgets : StartGrant(q, d, o, b, n)
    \/ \E g \in Grants, kind \in {"download", "report"} : StartPortal(q, g, kind)
    \/ CheckEvaluation(q)
    \/ \E o \in Owners : CheckAuthorization(q, o)
    \/ ActiveDisputeBlockers(q)
    \/ CheckOrder(q)
    \/ \E g \in Grants : CreateDeliveryGrant(q, g)
    \/ LinkEnterpriseOrderGrant(q)
    \/ \E t \in Artifacts : FetchArtifact(q, t)
    \/ IncrementDeliveryGrantRead(q)
    \/ SendBody(q)
    \/ CreateBuyerUsageReport(q)

Fulfil(q) ==
    \/ \E r \in DSRs : StartFulfilment(q, r)
    \/ RecordWithdrawal(q)
    \/ FulfillDSRRequest(q)

Admin ==
    \/ \E c \in Cases : ReviewCase(c) \/ RunContentSafety(c)
    \/ \E o \in Orders : \/ \E d \in Ids, b \in Customers : CreateEnterpriseOrder(o, d, b)
                         \/ RecognizeEnterpriseOrder(o)
    \/ \E g \in Grants : Expire(g)
    \/ \E a \in Authorizations : WithdrawAuthorization(a)
    \/ \E r \in DSRs, o \in Owners, kind \in {"delete", "other"} :
          CreateDSRRequest(r, o, kind)
    \/ \E x \in Disputes : \/ \E e \in Entities : CreateDispute(x, e)
                           \/ ResolveDispute(x)

Next ==
    \/ Admin
    \/ \E d \in Ids, t \in Artifacts : DatasetArtifact(d, t)
    \/ \E q \in Requests : Export(q) \/ Evaluate(q) \/ Deliver(q) \/ Fulfil(q) \/ Abandon(q)

Spec == Init /\ [][Next]_vars

-----------------------------------------------------------------------------
(* Properties                                                               *)

\* A dataset that is billed can be delivered: whatever fails on the way, no usage
\* event with its payouts is written for an export with an artifact missing
\* (createDataset writes the artifacts first and stops at the first error).
BilledIsComplete ==
    \A d \in 1 .. made : datasets[d].billed => datasets[d].artifacts = Artifacts

\* Two datasets that share a case, one of them an evaluation set and the other one
\* another evaluation set or one for training, never both pass their evaluation,
\* whichever was made first and however their evaluations overlap
\* (buildDatasetEvaluation, as long as LIMIT 5000 cuts no row off).
HoldoutIsolation ==
    \A d, e \in 1 .. made :
       /\ d # e
       /\ datasets[d].cases \intersect datasets[e].cases # {}
       /\ datasets[d].purpose = "eval" /\ datasets[e].purpose # "other"
       => ~(datasets[d].evaluation = "completed" /\ datasets[e].evaluation = "completed")

\* Under a grant, no buyer gets a body of a dataset with a credential in one of its
\* cases or with an artifact missing: the evaluation that let the grant through is
\* much older than the download, and neither looks at the scans again
\* (enterprisePortalArtifact).  Nothing of the kind holds of `handed`.
GrantSendsOnlySafe ==
    \A g \in Grants :
       sent[g] > 0 =>
          LET d == datasets[grants[g].dataset]
          IN  d.artifacts = Artifacts /\ \A c \in d.cases : ScanAllows(c)

\* A grant that names an order was given when the order's revenue was recognised,
\* for the order's own dataset and customer (createDeliveryGrant).
GrantIsOrdered ==
    \A g \in Grants :
       grants[g] # None /\ grants[g].order # None =>
          LET o == orders[grants[g].order]
          IN  /\ o # None /\ o.recognized
              /\ o.dataset = grants[g].dataset
              /\ grants[g].customer \in {None, o.customer}

\* A delete request that is fulfilled has its withdrawal, also when fulfilments fail
\* half-way and are repeated (fulfillDSR).
FulfilledIsWithdrawn ==
    \A r \in DSRs :
       dsrs[r] # None /\ dsrs[r].kind = "delete" /\ dsrs[r].fulfilled
          => Gone(dsrs[r].owner)

\* A new export has no case of an owner who withdrew before it was asked for
\* (authorizedCommercialCases).
ExportIsAuthorized ==
    [][\A q \in Requests :
          reqs[q].pc = "authorizing" /\ made' > made /\ reqs'[q].pc = "writing" =>
             \A c \in datasets'[made'].cases :
                AuthorizationID[Owner[c]] \notin reqs[q].began.gone]_vars

\* A body downloaded under a grant was asked for after no withdrawal of any of its
\* owners, and no dispute that was open then and concerns it is open still; what is
\* recorded while the download runs may come too late (enterprisePortalArtifact,
\* validDeliveryGrant).
DownloadIsClear ==
    [][\A q \in Requests :
          reqs[q].pc = "sending" /\ sent' # sent /\ reqs'[q] = Idle =>
             LET d == reqs[q].dataset
             IN  /\ \A c \in datasets[d].cases :
                       AuthorizationID[Owner[c]] \notin reqs[q].began.gone
                 /\ \A x \in reqs[q].began.open \intersect OpenDisputes :
                       disputes[x].entity \notin Concerns(d)]_vars

\* Downloads and reports of one grant keep to its reads however they overlap
\* (validDeliveryGrant, IncrementDeliveryGrantRead).
Contract == INSTANCE MeteredReads WITH
    left <- [g \in Grants |-> IF grants[g] = None THEN None
                              ELSE grants[g].max - grants[g].reads],
    owed <- [g \in Grants |->
               Cardinality({q \in Requests : /\ reqs[q].pc \in {"sending", "reporting"}
                                             /\ reqs[q].grant = g})]

ReadsMetered == Contract!Spec
=============================================================================
