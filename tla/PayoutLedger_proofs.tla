------------------------ MODULE PayoutLedger_proofs ------------------------
(***************************************************************************)
(* Theorems about PayoutLedger, for any number of events, usages, payees,  *)
(* requests, transfers and disputes.  A batch adds up because its total is *)
(* taken of the very set that the transaction attaches; that it was paid   *)
(* when it is settled needs module Sums: its transfers never add up to     *)
(* less than they did.                                                     *)
(***************************************************************************)
EXTENDS PayoutLedger, Sums, TLAPS

Checks == {"profiles", "disputes", "count", "sum", "settle"}

LedgerTyped ==
    /\ status \in [Events -> {"absent", "pending", "batched", "settled"}]
    /\ batchOf \in [Events -> Batches \cup {None}]
    /\ batch \in [Batches -> {"absent", "ready", "settled"}]
    /\ DOMAIN total = Batches

DisputesTyped ==
    /\ dispute \in [Disputes -> [entity : Entities \cup {None}, hold : BOOLEAN,
                        status : {"absent", "open", "closed"}]]
    /\ \A d \in Disputes : dispute[d].status # "absent" => dispute[d].entity \in Entities

RequestsTyped ==
    /\ pc \in [Requests -> Checks \cup {"start", "blockers", "create", "end"}]
    /\ listed \in [Batches -> SUBSET Events]
    /\ chosen \in [Settlers -> Batches \cup {None}]
    /\ since \in [Requests -> SUBSET Disputes]

Typed ==
    /\ LedgerTyped
    /\ DisputesTyped
    /\ RequestsTyped
    /\ profiles \in [Payees -> SUBSET ProfileStatus]

\* A request makes its batch once and settles a batch that exists.
RequestsKnown ==
    /\ \A b \in Batches :
           /\ pc[b] \notin Checks
           /\ pc[b] # "end" => batch[b] = "absent"
           /\ pc[b] \in {"blockers", "create"} => listed[b] # {}
    /\ \A s \in Settlers :
           /\ pc[s] \notin {"blockers", "create"}
           /\ pc[s] \in Checks => chosen[s] \in Batches /\ batch[chosen[s]] # "absent"

\* What a request knows of the holds that have been open since it began.
HoldsKnown ==
    /\ \A r \in Requests : since[r] \subseteq OpenHolds
    /\ \A b \in Batches : pc[b] = "create" =>
           \A d \in since[b] : Covers[dispute[d].entity] \cap listed[b] = {}
    /\ \A s \in Settlers : pc[s] \in {"count", "sum", "settle"} =>
           \A d \in since[s] : Covers[dispute[d].entity] \cap EventsOf(chosen[s]) = {}

\* What a settle request knows of the payees after the profile check.
VerifiedKnown ==
    \A s \in Settlers : pc[s] \in {"disputes", "count", "sum", "settle"} =>
        \A e \in EventsOf(chosen[s]) : "active" \in profiles[Payee[e]]

LedgerInv ==
    /\ Typed
    /\ RequestsKnown
    /\ HoldsKnown
    /\ VerifiedKnown
    /\ EventFollowsBatch
    /\ BatchAddsUp
    /\ SettledToVerified

-----------------------------------------------------------------------------
(* Frames: what the parts of the invariant depend on.                       *)

LEMMA RequestsFrame ==
    ASSUME RequestsKnown, UNCHANGED <<requests, batch>>
    PROVE  RequestsKnown'
  BY DEF RequestsKnown, requests

LEMMA VerifiedFrame ==
    ASSUME VerifiedKnown, SettledToVerified, UNCHANGED <<status, batchOf, requests, profiles>>
    PROVE  VerifiedKnown' /\ SettledToVerified'
  BY DEF VerifiedKnown, SettledToVerified, EventsOf, requests

LEMMA BatchesFrame ==
    ASSUME EventFollowsBatch, BatchAddsUp, UNCHANGED ledger
    PROVE  EventFollowsBatch' /\ BatchAddsUp'
  <1>1. EventFollowsBatch'
    BY DEF EventFollowsBatch, ledger
  <1>2. BatchAddsUp'
    BY DEF BatchAddsUp, EventsOf, ledger
  <1>3. QED
    BY <1>1, <1>2

LEMMA HoldsFrame ==
    ASSUME HoldsKnown, UNCHANGED <<batchOf, dispute, requests, since>>
    PROVE  HoldsKnown'
  BY DEF HoldsKnown, OpenHolds, EventsOf, requests

LEMMA TypesFrame ==
    ASSUME Typed
    PROVE  /\ UNCHANGED ledger => LedgerTyped'
           /\ UNCHANGED dispute => DisputesTyped'
           /\ UNCHANGED <<requests, since>> => RequestsTyped'
  <1>1. UNCHANGED ledger => LedgerTyped'
    BY DEF Typed, LedgerTyped, ledger
  <1>2. UNCHANGED dispute => DisputesTyped'
    BY DEF Typed, DisputesTyped
  <1>3. UNCHANGED <<requests, since>> => RequestsTyped'
    BY DEF Typed, RequestsTyped, requests
  <1>4. QED
    BY <1>1, <1>2, <1>3

-----------------------------------------------------------------------------
(* Steps outside the requests.                                              *)

LEMMA RecordUsageKeeps ==
    ASSUME LedgerInv, NEW u \in Usages, RecordUsage(u)
    PROVE  LedgerInv'
  <1>1. /\ UNCHANGED <<batchOf, batch, total>>
        /\ UNCHANGED dispute
        /\ UNCHANGED <<requests, since>>
        /\ UNCHANGED profiles
    BY DEF RecordUsage
  <1>2. /\ DOMAIN status' = Events
        /\ \A e \in Events : \/ status'[e] = status[e]
                             \/ status[e] = "absent" /\ status'[e] = "pending"
    BY DEF LedgerInv, Typed, LedgerTyped, RecordUsage
  <1>3. LedgerTyped'
    <2>1. status' \in [Events -> {"absent", "pending", "batched", "settled"}]
      BY DEF LedgerInv, Typed, LedgerTyped, RecordUsage
    <2>2. QED
      BY <2>1, <1>1 DEF LedgerInv, Typed, LedgerTyped
  <1>4. Typed'
    BY <1>1, <1>3, TypesFrame DEF LedgerInv, Typed
  <1>5. RequestsKnown' /\ HoldsKnown'
    BY <1>1, RequestsFrame, HoldsFrame DEF LedgerInv
  <1>6. VerifiedKnown'
    BY <1>1 DEF LedgerInv, VerifiedKnown, EventsOf, requests
  <1>7. SettledToVerified'
    BY <1>1, <1>2 DEF LedgerInv, SettledToVerified
  <1>8. EventFollowsBatch'
    BY <1>1, <1>2 DEF LedgerInv, EventFollowsBatch
  <1>9. BatchAddsUp'
    BY <1>1 DEF LedgerInv, BatchAddsUp, EventsOf
  <1>10. QED
    BY <1>4, <1>5, <1>6, <1>7, <1>8, <1>9 DEF LedgerInv

LEMMA OpenDisputeKeeps ==
    ASSUME LedgerInv, NEW d \in Disputes, OpenDispute(d)
    PROVE  LedgerInv'
  <1>1. PICK x \in Entities, h \in BOOLEAN :
            dispute' = [dispute EXCEPT ![d] = [entity |-> x, hold |-> h, status |-> "open"]]
    BY DEF OpenDispute
  <1>2. Typed'
    <2>1. DisputesTyped'
      BY <1>1 DEF LedgerInv, Typed, DisputesTyped
    <2>2. QED
      BY <2>1, TypesFrame DEF LedgerInv, Typed, OpenDispute
  <1>3. ASSUME NEW r \in Requests, NEW k \in since[r]
        PROVE  dispute'[k] = dispute[k]
    BY <1>1, <1>3 DEF LedgerInv, Typed, DisputesTyped, HoldsKnown, OpenHolds, OpenDispute
  <1>4. HoldsKnown'
    <2>1. \A r \in Requests : since'[r] \subseteq OpenHolds'
      BY <1>3 DEF LedgerInv, HoldsKnown, OpenHolds, OpenDispute
    <2>2. QED
      BY <2>1, <1>3 DEF LedgerInv, HoldsKnown, OpenDispute, ledger, requests, EventsOf, Requests
  <1>5. RequestsKnown' /\ VerifiedKnown' /\ SettledToVerified'
    BY RequestsFrame, VerifiedFrame DEF LedgerInv, OpenDispute, ledger
  <1>6. EventFollowsBatch' /\ BatchAddsUp'
    BY BatchesFrame DEF LedgerInv, OpenDispute
  <1>7. QED
    BY <1>2, <1>4, <1>5, <1>6 DEF LedgerInv

LEMMA ResolveDisputeKeeps ==
    ASSUME LedgerInv, NEW d \in Disputes, ResolveDispute(d)
    PROVE  LedgerInv'
  <1>1. /\ UNCHANGED ledger
        /\ UNCHANGED requests
        /\ UNCHANGED profiles
    BY DEF ResolveDispute
  <1>2. /\ since' \in [Requests -> SUBSET Disputes]
        /\ \A r \in Requests : since'[r] = since[r] \ {d}
    BY DEF LedgerInv, Typed, RequestsTyped, ResolveDispute
  <1>3. /\ DisputesTyped'
        /\ \A k \in Disputes \ {d} : dispute'[k] = dispute[k]
    <2>1. dispute' = [dispute EXCEPT ![d] = [@ EXCEPT !.status = "closed", !.hold = FALSE]]
      BY DEF LedgerInv, Typed, DisputesTyped, ResolveDispute
    <2>2. QED
      BY <2>1 DEF LedgerInv, Typed, DisputesTyped, ResolveDispute
  <1>4. Typed'
    <2>1. RequestsTyped'
      BY <1>1, <1>2 DEF LedgerInv, Typed, RequestsTyped, requests
    <2>2. QED
      BY <1>1, <1>3, <2>1, TypesFrame DEF LedgerInv, Typed
  <1>5. HoldsKnown'
    <2>1. ASSUME NEW r \in Requests, NEW k \in since'[r]
          PROVE  k \in since[r] /\ k \in OpenHolds /\ dispute'[k] = dispute[k]
      BY <1>2, <1>3, <2>1 DEF LedgerInv, Typed, RequestsTyped, HoldsKnown
    <2>2. \A r \in Requests : since'[r] \subseteq OpenHolds'
      BY <2>1 DEF OpenHolds
    <2>3. ASSUME NEW b \in Batches, pc[b] = "create", NEW k \in since'[b]
          PROVE  Covers[dispute'[k].entity] \cap listed[b] = {}
      BY <2>1, <2>3 DEF LedgerInv, HoldsKnown, Requests
    <2>4. ASSUME NEW s \in Settlers, pc[s] \in {"count", "sum", "settle"}, NEW k \in since'[s]
          PROVE  Covers[dispute'[k].entity] \cap EventsOf(chosen[s]) = {}
      BY <2>1, <2>4 DEF LedgerInv, HoldsKnown, Requests
    <2>5. QED
      BY <1>1, <2>2, <2>3, <2>4 DEF HoldsKnown, EventsOf, requests, ledger
  <1>6. RequestsKnown' /\ VerifiedKnown' /\ SettledToVerified'
    BY <1>1, RequestsFrame, VerifiedFrame DEF LedgerInv, ledger
  <1>7. EventFollowsBatch' /\ BatchAddsUp'
    BY <1>1, BatchesFrame DEF LedgerInv
  <1>8. QED
    BY <1>4, <1>5, <1>6, <1>7 DEF LedgerInv

LEMMA UpsertProfileKeeps ==
    ASSUME LedgerInv, NEW c \in Payees, UpsertProfile(c)
    PROVE  LedgerInv'
  <1>1. PICK st \in ProfileStatus : profiles' = [profiles EXCEPT ![c] = @ \cup {st}]
    BY DEF UpsertProfile
  <1>2. /\ UNCHANGED ledger
        /\ UNCHANGED dispute
        /\ UNCHANGED <<requests, since>>
    BY DEF UpsertProfile
  <1>3. Typed'
    BY <1>1, <1>2, TypesFrame DEF LedgerInv, Typed
  <1>4. \A e \in Events : profiles[Payee[e]] \subseteq profiles'[Payee[e]]
    BY <1>1 DEF LedgerInv, Typed, Payees
  <1>5. VerifiedKnown' /\ SettledToVerified'
    BY <1>2, <1>4 DEF LedgerInv, ledger, requests, VerifiedKnown, SettledToVerified, EventsOf
  <1>6. RequestsKnown' /\ HoldsKnown'
    BY <1>2, RequestsFrame, HoldsFrame DEF LedgerInv, ledger
  <1>7. EventFollowsBatch' /\ BatchAddsUp'
    BY <1>2, BatchesFrame DEF LedgerInv
  <1>8. QED
    BY <1>3, <1>5, <1>6, <1>7 DEF LedgerInv

LEMMA TransfersKeep ==
    ASSUME LedgerInv, UNCHANGED <<ledger, dispute, profiles, requests, since>>
    PROVE  LedgerInv'
  <1>1. Typed'
    BY TypesFrame DEF LedgerInv, Typed
  <1>2. RequestsKnown' /\ HoldsKnown' /\ VerifiedKnown' /\ SettledToVerified'
    BY RequestsFrame, HoldsFrame, VerifiedFrame DEF LedgerInv, ledger
  <1>3. EventFollowsBatch' /\ BatchAddsUp'
    BY BatchesFrame DEF LedgerInv
  <1>4. QED
    BY <1>1, <1>2, <1>3 DEF LedgerInv

-----------------------------------------------------------------------------
(* Steps of createPayoutBatch.                                              *)

LEMMA ListPendingKeeps ==
    ASSUME LedgerInv, NEW b \in Batches, ListPending(b)
    PROVE  LedgerInv'
  <1>1. PICK S \in SUBSET Events :
            /\ listed' = [listed EXCEPT ![b] = S]
            /\ pc' = [pc EXCEPT ![b] = IF S = {} THEN "end" ELSE "blockers"]
    BY DEF ListPending, Goto, Pending
  <1>2. /\ pc[b] = "start"
        /\ since' = [since EXCEPT ![b] = OpenHolds]
        /\ UNCHANGED ledger
        /\ UNCHANGED <<dispute, profiles, chosen>>
    BY DEF ListPending, Begin
  <1>3. Typed'
    <2>1. RequestsTyped'
      BY <1>1, <1>2 DEF LedgerInv, Typed, RequestsTyped, Requests, OpenHolds
    <2>2. QED
      BY <1>2, <2>1, TypesFrame DEF LedgerInv, Typed
  <1>4. /\ b \notin Settlers
        /\ b \in Requests
        /\ pc'[b] \in {"end", "blockers"}
        /\ \A r \in Requests \ {b} : pc'[r] = pc[r] /\ since'[r] = since[r]
    BY <1>1, <1>2, LedgerAssumption DEF LedgerInv, Typed, RequestsTyped, Requests
  <1>5. RequestsKnown'
    BY <1>1, <1>2, <1>4 DEF LedgerInv, Typed, RequestsTyped, RequestsKnown, Requests,
                            Checks, ledger
  <1>6. HoldsKnown'
    <2>1. since'[b] = OpenHolds
      BY <1>2, <1>4 DEF LedgerInv, Typed, RequestsTyped
    <2>2. \A r \in Requests : since'[r] \subseteq OpenHolds'
      BY <1>2, <1>4, <2>1 DEF LedgerInv, HoldsKnown, OpenHolds
    <2>3. \A x \in Batches : pc'[x] = "create" =>
              x # b /\ pc[x] = "create" /\ listed'[x] = listed[x] /\ since'[x] = since[x]
      BY <1>1, <1>4 DEF LedgerInv, Typed, RequestsTyped, Requests
    <2>4. \A s \in Settlers : pc'[s] = pc[s] /\ since'[s] = since[s]
      BY <1>4 DEF Requests
    <2>5. QED
      BY <1>2, <2>2, <2>3, <2>4 DEF LedgerInv, HoldsKnown, EventsOf, ledger
  <1>7. VerifiedKnown' /\ SettledToVerified'
    <2>1. \A s \in Settlers : pc'[s] = pc[s]
      BY <1>4 DEF Requests
    <2>2. QED
      BY <1>2, <2>1 DEF LedgerInv, VerifiedKnown, SettledToVerified, EventsOf, ledger
  <1>8. EventFollowsBatch' /\ BatchAddsUp'
    BY <1>2, BatchesFrame DEF LedgerInv
  <1>9. QED
    BY <1>3, <1>5, <1>6, <1>7, <1>8 DEF LedgerInv

\* A step that only moves one request, to a place it may know what it must.
LEMMA MoveKeeps ==
    ASSUME LedgerInv, NEW r \in Requests, NEW label,
           pc' = [pc EXCEPT ![r] = label],
           UNCHANGED <<ledger, dispute, profiles, listed, chosen, since>>,
           \/ label = "end"
           \/ /\ r \in Batches /\ pc[r] = "blockers" /\ label = "create"
              /\ Blockers(listed[r]) = {}
           \/ /\ r \in Settlers /\ pc[r] = "profiles" /\ label = "disputes"
              /\ Unverified(chosen[r]) = {}
           \/ /\ r \in Settlers /\ pc[r] = "disputes" /\ label = "count"
              /\ Blockers(EventsOf(chosen[r])) = {}
           \/ r \in Settlers /\ pc[r] = "count" /\ label = "sum"
           \/ r \in Settlers /\ pc[r] = "sum" /\ label = "settle"
    PROVE  LedgerInv'
  <1>1. /\ label \in Checks \cup {"start", "blockers", "create", "end"}
        /\ pc'[r] = label
        /\ \A x \in Requests \ {r} : pc'[x] = pc[x]
    BY DEF LedgerInv, Typed, RequestsTyped, Checks
  <1>2. Typed'
    <2>1. RequestsTyped'
      BY <1>1 DEF LedgerInv, Typed, RequestsTyped
    <2>2. QED
      BY <2>1, TypesFrame DEF LedgerInv, Typed
  <1>3. RequestsKnown'
    <2>1. ASSUME NEW b \in Batches
          PROVE  /\ pc'[b] \notin Checks
                 /\ pc'[b] # "end" => batch[b] = "absent"
                 /\ pc'[b] \in {"blockers", "create"} => listed[b] # {}
      <3>1. b \in Requests /\ b \notin Settlers
        BY LedgerAssumption DEF Requests
      <3>2. CASE b = r
        BY <1>1, <3>1, <3>2 DEF LedgerInv, RequestsKnown, Checks
      <3>3. CASE b # r
        BY <1>1, <3>1, <3>3 DEF LedgerInv, RequestsKnown
      <3>4. QED
        BY <3>2, <3>3
    <2>2. ASSUME NEW s \in Settlers
          PROVE  /\ pc'[s] \notin {"blockers", "create"}
                 /\ pc'[s] \in Checks => chosen[s] \in Batches /\ batch[chosen[s]] # "absent"
      <3>1. s \in Requests /\ s \notin Batches
        BY LedgerAssumption DEF Requests
      <3>2. CASE s = r
        BY <1>1, <3>1, <3>2 DEF LedgerInv, RequestsKnown, Checks
      <3>3. CASE s # r
        BY <1>1, <3>1, <3>3 DEF LedgerInv, RequestsKnown
      <3>4. QED
        BY <3>2, <3>3
    <2>3. QED
      BY <2>1, <2>2 DEF RequestsKnown, ledger
  <1>4. HoldsKnown'
    <2>1. \A x \in Requests : since[x] \subseteq OpenHolds
      BY DEF LedgerInv, HoldsKnown
    <2>2. ASSUME NEW b \in Batches, pc'[b] = "create", NEW d \in since[b]
          PROVE  Covers[dispute[d].entity] \cap listed[b] = {}
      <3>1. b \in Requests /\ b \notin Settlers
        BY LedgerAssumption DEF Requests
      <3>2. CASE b = r
        BY <1>1, <2>1, <2>2, <3>1, <3>2 DEF Blockers
      <3>3. CASE b # r
        BY <1>1, <2>2, <3>1, <3>3 DEF LedgerInv, HoldsKnown
      <3>4. QED
        BY <3>2, <3>3
    <2>3. ASSUME NEW s \in Settlers, pc'[s] \in {"count", "sum", "settle"}, NEW d \in since[s]
          PROVE  Covers[dispute[d].entity] \cap EventsOf(chosen[s]) = {}
      <3>1. s \in Requests /\ s \notin Batches
        BY LedgerAssumption DEF Requests
      <3>2. CASE s = r /\ label = "count"
        BY <1>1, <2>1, <2>3, <3>1, <3>2 DEF Blockers
      <3>3. CASE s = r /\ label # "count"
        BY <1>1, <2>3, <3>1, <3>3 DEF LedgerInv, HoldsKnown
      <3>4. CASE s # r
        BY <1>1, <2>3, <3>1, <3>4 DEF LedgerInv, HoldsKnown
      <3>5. QED
        BY <3>2, <3>3, <3>4
    <2>4. QED
      BY <2>1, <2>2, <2>3 DEF HoldsKnown, OpenHolds, EventsOf, ledger
  <1>5. VerifiedKnown'
    <2>1. ASSUME NEW s \in Settlers, pc'[s] \in {"disputes", "count", "sum", "settle"},
                 NEW e \in EventsOf(chosen[s])
          PROVE  "active" \in profiles[Payee[e]]
      <3>1. s \in Requests /\ s \notin Batches /\ e \in Events
        BY LedgerAssumption DEF Requests, EventsOf
      <3>2. CASE s = r /\ label = "disputes"
        BY <2>1, <3>1, <3>2 DEF Unverified
      <3>3. CASE s = r /\ label # "disputes"
        BY <1>1, <2>1, <3>1, <3>3 DEF LedgerInv, VerifiedKnown
      <3>4. CASE s # r
        BY <1>1, <2>1, <3>1, <3>4 DEF LedgerInv, VerifiedKnown
      <3>5. QED
        BY <3>2, <3>3, <3>4
    <2>2. QED
      BY <2>1 DEF VerifiedKnown, EventsOf, ledger
  <1>6. EventFollowsBatch' /\ BatchAddsUp' /\ SettledToVerified'
    <2>1. SettledToVerified'
      BY DEF LedgerInv, SettledToVerified, ledger
    <2>2. QED
      BY <2>1, BatchesFrame DEF LedgerInv
  <1>7. QED
    BY <1>2, <1>3, <1>4, <1>5, <1>6 DEF LedgerInv

\* A batch that does not exist has no events.
LEMMA AbsentIsEmpty ==
    ASSUME EventFollowsBatch, NEW b \in Batches, batch[b] = "absent"
    PROVE  EventsOf(b) = {}
  BY DEF EventFollowsBatch, EventsOf

\* The transaction gives the new batch the listed events and no other event.
LEMMA AttachGathers ==
    ASSUME LedgerInv, NEW b \in Batches, pc[b] = "create",
           listed[b] \subseteq Pending, Attach(b, listed[b])
    PROVE  /\ EventsOf(b) = {}
           /\ EventsOf(b)' = listed[b]
           /\ \A x \in Batches \ {b} : EventsOf(x)' = EventsOf(x)
  <1>1. EventsOf(b) = {}
    BY AbsentIsEmpty DEF LedgerInv, RequestsKnown
  <1>2. \A e \in listed[b] : e \in Events /\ batchOf[e] = None /\ batchOf'[e] = b
    BY DEF LedgerInv, EventFollowsBatch, Pending, Attach
  <1>3. \A e \in Events \ listed[b] : batchOf'[e] = batchOf[e]
    BY DEF Attach
  <1>4. listed[b] \subseteq Events
    BY DEF Pending
  <1>5. None \notin Batches
    BY LedgerAssumption
  <1>6. EventsOf(b)' = listed[b]
    BY <1>1, <1>2, <1>3, <1>4 DEF EventsOf
  <1>7. ASSUME NEW x \in Batches \ {b}
        PROVE  EventsOf(x)' = EventsOf(x)
    BY <1>2, <1>3, <1>5, <1>7 DEF EventsOf
  <1>8. QED
    BY <1>1, <1>6, <1>7

LEMMA CreateBatchKeeps ==
    ASSUME LedgerInv, NEW b \in Batches, CreateBatch(b)
    PROVE  LedgerInv'
  <1>1. /\ pc[b] = "create"
        /\ pc' = [pc EXCEPT ![b] = "end"]
        /\ UNCHANGED <<dispute, profiles, listed, chosen, since>>
    BY DEF CreateBatch, Goto
  <1>2. /\ b \in Requests /\ b \notin Settlers
        /\ pc' \in [Requests -> Checks \cup {"start", "blockers", "create", "end"}]
        /\ pc'[b] = "end"
        /\ \A r \in Requests \ {b} : pc'[r] = pc[r]
    BY <1>1, LedgerAssumption DEF LedgerInv, Typed, RequestsTyped, Requests
  <1>3. CASE UNCHANGED ledger
    BY <1>1, <1>2, <1>3, MoveKeeps
  <1>4. CASE listed[b] \subseteq Pending /\ Attach(b, listed[b])
    <2>1. /\ EventsOf(b)' = listed[b]
          /\ \A x \in Batches \ {b} : EventsOf(x)' = EventsOf(x)
      BY <1>1, <1>4, AttachGathers
    <2>2. /\ batch[b] = "absent" /\ listed[b] # {}
          /\ listed[b] \subseteq Events
          /\ \A e \in listed[b] : status[e] = "pending"
      BY <1>1, <1>4 DEF LedgerInv, RequestsKnown, Pending
    <2>3. /\ batch'[b] = "ready"
          /\ total'[b] = TotalOf(listed[b])
          /\ \A x \in Batches \ {b} : batch'[x] = batch[x] /\ total'[x] = total[x]
      BY <1>4 DEF Attach, LedgerInv, Typed, LedgerTyped
    <2>4. /\ \A e \in listed[b] : status'[e] = "batched" /\ batchOf'[e] = b
          /\ \A e \in Events \ listed[b] : status'[e] = status[e] /\ batchOf'[e] = batchOf[e]
      BY <1>4, <2>2 DEF Attach
    <2>5. Typed'
      <3>1. LedgerTyped'
        <4>1. status' \in [Events -> {"absent", "pending", "batched", "settled"}]
          BY <1>4 DEF Attach, LedgerInv, Typed, LedgerTyped
        <4>2. batchOf' \in [Events -> Batches \cup {None}]
          BY <1>4 DEF Attach, LedgerInv, Typed, LedgerTyped
        <4>3. batch' \in [Batches -> {"absent", "ready", "settled"}] /\ DOMAIN total' = Batches
          BY <1>4 DEF Attach, LedgerInv, Typed, LedgerTyped
        <4>4. QED
          BY <4>1, <4>2, <4>3 DEF LedgerTyped
      <3>2. RequestsTyped'
        BY <1>1, <1>2 DEF LedgerInv, Typed, RequestsTyped
      <3>3. QED
        BY <1>1, <3>1, <3>2, TypesFrame DEF LedgerInv, Typed
    <2>6. RequestsKnown'
      <3>1. ASSUME NEW x \in Batches
            PROVE  /\ pc'[x] \notin Checks
                   /\ pc'[x] # "end" => batch'[x] = "absent"
                   /\ pc'[x] \in {"blockers", "create"} => listed[x] # {}
        BY <1>2, <2>3 DEF LedgerInv, RequestsKnown, Requests, Checks
      <3>2. ASSUME NEW s \in Settlers
            PROVE  /\ pc'[s] \notin {"blockers", "create"}
                   /\ pc'[s] \in Checks =>
                          chosen[s] \in Batches /\ batch'[chosen[s]] # "absent"
        <4>1. pc'[s] = pc[s]
          BY <1>2 DEF Requests
        <4>2. QED
          BY <2>3, <4>1 DEF LedgerInv, RequestsKnown
      <3>3. QED
        BY <1>1, <3>1, <3>2 DEF RequestsKnown
    <2>7. ASSUME NEW s \in Settlers, pc'[s] \in Checks
          PROVE  pc'[s] = pc[s] /\ chosen[s] \in Batches /\ EventsOf(chosen[s])' = EventsOf(chosen[s])
      <3>1. pc'[s] = pc[s]
        BY <1>2 DEF Requests
      <3>2. chosen[s] \in Batches \ {b}
        BY <2>2, <2>7, <3>1 DEF LedgerInv, RequestsKnown
      <3>3. PICK x \in Batches \ {b} : x = chosen[s]
        BY <3>2
      <3>4. EventsOf(x)' = EventsOf(x)
        BY <2>1
      <3>5. chosen'[s] = x
        BY <1>1, <3>3
      <3>6. QED
        BY <1>1, <3>1, <3>2, <3>3, <3>4, <3>5 DEF EventsOf
    <2>8. HoldsKnown'
      <3>1. \A r \in Requests : since'[r] \subseteq OpenHolds'
        BY <1>1 DEF LedgerInv, HoldsKnown, OpenHolds
      <3>2. \A x \in Batches : pc'[x] = "create" => pc[x] = "create"
        BY <1>2 DEF Requests
      <3>3. QED
        BY <1>1, <2>7, <3>1, <3>2 DEF LedgerInv, HoldsKnown, Checks
    <2>9. VerifiedKnown'
      BY <1>1, <2>7 DEF LedgerInv, VerifiedKnown, Checks
    <2>10. SettledToVerified'
      BY <1>1, <2>4 DEF LedgerInv, SettledToVerified
    <2>11. EventFollowsBatch'
      <3>1. ASSUME NEW e \in Events
            PROVE  /\ status'[e] \in {"absent", "pending"} <=> batchOf'[e] = None
                   /\ \A x \in Batches : batchOf'[e] = x =>
                          \/ status'[e] = "batched" /\ batch'[x] = "ready"
                          \/ status'[e] = "settled" /\ batch'[x] = "settled"
        <4>1. CASE e \in listed[b]
          BY <2>3, <2>4, <4>1, LedgerAssumption
        <4>2. CASE e \notin listed[b]
          <5>1. batchOf[e] # b
            BY <2>2 DEF LedgerInv, EventFollowsBatch
          <5>2. QED
            BY <2>3, <2>4, <4>2, <5>1 DEF LedgerInv, EventFollowsBatch
        <4>3. QED
          BY <4>1, <4>2
      <3>2. QED
        BY <3>1 DEF EventFollowsBatch
    <2>12. BatchAddsUp'
      <3>1. ASSUME NEW x \in Batches, batch'[x] # "absent"
            PROVE  EventsOf(x)' # {} /\ total'[x] = TotalOf(EventsOf(x)')
        <4>1. CASE x = b
          BY <2>1, <2>2, <2>3, <4>1
        <4>2. CASE x # b
          BY <2>1, <2>3, <3>1, <4>2 DEF LedgerInv, BatchAddsUp
        <4>3. QED
          BY <4>1, <4>2
      <3>2. QED
        BY <3>1 DEF BatchAddsUp
    <2>13. QED
      BY <2>5, <2>6, <2>8, <2>9, <2>10, <2>11, <2>12 DEF LedgerInv
  <1>5. QED
    BY <1>3, <1>4 DEF CreateBatch

-----------------------------------------------------------------------------
(* Steps of settlePayoutBatch.                                              *)

LEMMA GetBatchKeeps ==
    ASSUME LedgerInv, NEW s \in Settlers, GetBatch(s)
    PROVE  LedgerInv'
  <1>1. PICK b \in Batches : batch[b] # "absent" /\ chosen' = [chosen EXCEPT ![s] = b]
    BY DEF GetBatch
  <1>2. /\ pc' = [pc EXCEPT ![s] = "profiles"]
        /\ since' = [since EXCEPT ![s] = OpenHolds]
        /\ UNCHANGED ledger
        /\ UNCHANGED <<dispute, profiles, listed>>
    BY DEF GetBatch, Goto, Begin
  <1>3. /\ s \in Requests /\ s \notin Batches
        /\ pc'[s] = "profiles" /\ since'[s] = OpenHolds /\ chosen'[s] = b
        /\ \A r \in Requests \ {s} : pc'[r] = pc[r] /\ since'[r] = since[r]
        /\ \A r \in Settlers \ {s} : chosen'[r] = chosen[r]
    BY <1>1, <1>2, LedgerAssumption DEF LedgerInv, Typed, RequestsTyped, Requests
  <1>4. Typed'
    <2>1. RequestsTyped'
      BY <1>1, <1>2 DEF LedgerInv, Typed, RequestsTyped, Requests, OpenHolds, Checks
    <2>2. QED
      BY <1>2, <2>1, TypesFrame DEF LedgerInv, Typed
  <1>5. /\ \A x \in Batches : pc'[x] = pc[x] /\ since'[x] = since[x]
        /\ \A r \in Settlers \ {s} : pc'[r] = pc[r] /\ since'[r] = since[r]
    BY <1>3 DEF Requests
  <1>6. RequestsKnown'
    BY <1>1, <1>2, <1>3, <1>5 DEF LedgerInv, RequestsKnown, Checks, ledger
  <1>7. HoldsKnown'
    <2>1. \A r \in Requests : since'[r] \subseteq OpenHolds'
      BY <1>2, <1>3 DEF LedgerInv, HoldsKnown, OpenHolds
    <2>2. \A r \in Settlers : pc'[r] \in {"count", "sum", "settle"} =>
              r # s /\ pc'[r] = pc[r] /\ since'[r] = since[r] /\ chosen'[r] = chosen[r]
      BY <1>3, <1>5
    <2>3. QED
      BY <1>2, <1>5, <2>1, <2>2 DEF LedgerInv, HoldsKnown, EventsOf, ledger
  <1>8. VerifiedKnown'
    <2>1. \A r \in Settlers : pc'[r] \in {"disputes", "count", "sum", "settle"} =>
              r # s /\ pc'[r] = pc[r] /\ chosen'[r] = chosen[r]
      BY <1>3, <1>5
    <2>2. QED
      BY <1>2, <2>1 DEF LedgerInv, VerifiedKnown, EventsOf, ledger
  <1>9. SettledToVerified'
    BY <1>2 DEF LedgerInv, SettledToVerified, ledger
  <1>10. EventFollowsBatch' /\ BatchAddsUp'
    BY <1>2, BatchesFrame DEF LedgerInv
  <1>11. QED
    BY <1>4, <1>6, <1>7, <1>8, <1>9, <1>10 DEF LedgerInv

LEMMA SettleKeeps ==
    ASSUME LedgerInv, NEW s \in Settlers, Settle(s)
    PROVE  LedgerInv'
  <1> DEFINE c == chosen[s]
  <1>1. /\ pc[s] = "settle"
        /\ pc' = [pc EXCEPT ![s] = "end"]
        /\ UNCHANGED <<batchOf, total>>
        /\ UNCHANGED <<dispute, profiles, listed, chosen, since>>
    BY DEF Settle, Goto
  <1>2. c \in Batches /\ batch[c] # "absent"
    BY <1>1 DEF LedgerInv, RequestsKnown, Checks
  <1>3. /\ batch' \in [Batches -> {"absent", "ready", "settled"}]
        /\ batch'[c] = "settled"
        /\ \A b \in Batches \ {c} : batch'[b] = batch[b]
    BY <1>2 DEF Settle, LedgerInv, Typed, LedgerTyped
  <1>4. /\ status' \in [Events -> {"absent", "pending", "batched", "settled"}]
        /\ \A e \in Events : batchOf[e] = c => status'[e] = "settled"
        /\ \A e \in Events : batchOf[e] # c => status'[e] = status[e]
    BY DEF Settle, LedgerInv, Typed, LedgerTyped
  <1>5. /\ s \in Requests /\ s \notin Batches
        /\ pc' \in [Requests -> Checks \cup {"start", "blockers", "create", "end"}]
        /\ pc'[s] = "end"
        /\ \A r \in Requests \ {s} : pc'[r] = pc[r]
    BY <1>1, LedgerAssumption DEF LedgerInv, Typed, RequestsTyped, Requests
  <1>6. /\ \A b \in Batches : pc'[b] = pc[b]
        /\ \A r \in Settlers : pc'[r] # "end" => pc'[r] = pc[r]
    BY <1>5 DEF Requests
  <1>7. Typed'
    <2>1. LedgerTyped'
      BY <1>1, <1>3, <1>4 DEF LedgerInv, Typed, LedgerTyped
    <2>2. RequestsTyped'
      BY <1>1, <1>5 DEF LedgerInv, Typed, RequestsTyped
    <2>3. QED
      BY <1>1, <2>1, <2>2, TypesFrame DEF LedgerInv, Typed
  <1>8. RequestsKnown'
    <2>1. \A b \in Batches : batch'[b] = "absent" <=> batch[b] = "absent"
      BY <1>2, <1>3
    <2>2. \A r \in Settlers : pc'[r] \in Checks => pc'[r] = pc[r]
      BY <1>6 DEF Checks
    <2>3. \A r \in Settlers : pc'[r] \notin {"blockers", "create"}
      BY <1>6 DEF LedgerInv, RequestsKnown
    <2>4. QED
      BY <1>1, <1>6, <2>1, <2>2, <2>3 DEF LedgerInv, RequestsKnown
  <1>9. HoldsKnown'
    BY <1>1, <1>6 DEF LedgerInv, HoldsKnown, OpenHolds, EventsOf
  <1>10. VerifiedKnown'
    BY <1>1, <1>6 DEF LedgerInv, VerifiedKnown, EventsOf
  <1>11. SettledToVerified'
    BY <1>1, <1>4 DEF LedgerInv, SettledToVerified, VerifiedKnown, EventsOf
  <1>12. EventFollowsBatch'
    <2>1. ASSUME NEW e \in Events
          PROVE  /\ status'[e] \in {"absent", "pending"} <=> batchOf'[e] = None
                 /\ \A x \in Batches : batchOf'[e] = x =>
                        \/ status'[e] = "batched" /\ batch'[x] = "ready"
                        \/ status'[e] = "settled" /\ batch'[x] = "settled"
      <3>1. CASE batchOf[e] = c
        BY <1>1, <1>2, <1>3, <1>4, <3>1, LedgerAssumption
      <3>2. CASE batchOf[e] # c
        BY <1>1, <1>3, <1>4, <3>2 DEF LedgerInv, EventFollowsBatch
      <3>3. QED
        BY <3>1, <3>2
    <2>2. QED
      BY <2>1 DEF EventFollowsBatch
  <1>13. BatchAddsUp'
    BY <1>1, <1>2, <1>3 DEF LedgerInv, BatchAddsUp, EventsOf
  <1>14. QED
    BY <1>7, <1>8, <1>9, <1>10, <1>11, <1>12, <1>13 DEF LedgerInv

-----------------------------------------------------------------------------
(* The invariant.                                                           *)

LEMMA LedgerStart == Init => LedgerInv
  <1> SUFFICES ASSUME Init
               PROVE  LedgerInv
    OBVIOUS
  <1>1. Typed
    BY DEF Init, Typed, LedgerTyped, DisputesTyped, RequestsTyped
  <1>2. RequestsKnown /\ HoldsKnown /\ VerifiedKnown
    BY DEF Init, RequestsKnown, HoldsKnown, VerifiedKnown, Checks, Requests
  <1>3. EventFollowsBatch /\ BatchAddsUp /\ SettledToVerified
    BY LedgerAssumption DEF Init, EventFollowsBatch, BatchAddsUp, SettledToVerified
  <1>4. QED
    BY <1>1, <1>2, <1>3 DEF LedgerInv

LEMMA LedgerStep == LedgerInv /\ [Next]_vars => LedgerInv'
  <1> SUFFICES ASSUME LedgerInv, [Next]_vars
               PROVE  LedgerInv'
    OBVIOUS
  <1>1. CASE UNCHANGED vars
    BY <1>1, TransfersKeep DEF vars
  <1>2. ASSUME NEW u \in Usages, RecordUsage(u)
        PROVE  LedgerInv'
    BY <1>2, RecordUsageKeeps
  <1>3. ASSUME NEW d \in Disputes, OpenDispute(d) \/ ResolveDispute(d)
        PROVE  LedgerInv'
    BY <1>3, OpenDisputeKeeps, ResolveDisputeKeeps
  <1>4. ASSUME NEW c \in Payees, UpsertProfile(c)
        PROVE  LedgerInv'
    BY <1>4, UpsertProfileKeeps
  <1>5. ASSUME NEW t \in Transfers, CreateTransfer(t) \/ ConfirmTransfer(t)
        PROVE  LedgerInv'
    BY <1>5, TransfersKeep DEF CreateTransfer, ConfirmTransfer
  <1>6. ASSUME NEW b \in Batches, MakeBatch(b)
        PROVE  LedgerInv'
    <2>1. CASE ListPending(b)
      BY <2>1, ListPendingKeeps
    <2>2. CASE CheckBlockers(b)
      <3>1. PICK min \in Minimums :
                pc' = [pc EXCEPT ![b] = IF Blockers(listed[b]) = {} /\ TotalOf(listed[b]) >= min
                                        THEN "create" ELSE "end"]
        BY <2>2 DEF CheckBlockers, Goto
      <3>2. b \in Requests
        BY DEF Requests
      <3>3. CASE Blockers(listed[b]) = {} /\ TotalOf(listed[b]) >= min
        BY <2>2, <3>1, <3>2, <3>3, MoveKeeps DEF CheckBlockers
      <3>4. CASE ~(Blockers(listed[b]) = {} /\ TotalOf(listed[b]) >= min)
        BY <2>2, <3>1, <3>2, <3>4, MoveKeeps DEF CheckBlockers
      <3>5. QED
        BY <3>3, <3>4
    <2>3. CASE CreateBatch(b)
      BY <2>3, CreateBatchKeeps
    <2>4. QED
      BY <1>6, <2>1, <2>2, <2>3 DEF MakeBatch
  <1>7. ASSUME NEW s \in Settlers, SettleBatch(s)
        PROVE  LedgerInv'
    <2>1. s \in Requests
      BY DEF Requests
    <2>2. CASE CheckProfiles(s)
      BY <2>1, <2>2, MoveKeeps DEF CheckProfiles, Read, Goto
    <2>3. CASE CheckDisputes(s)
      BY <2>1, <2>3, MoveKeeps DEF CheckDisputes, Read, Goto
    <2>4. CASE CountTransfers(s)
      BY <2>1, <2>4, MoveKeeps DEF CountTransfers, Read, Goto
    <2>5. CASE SumTransfers(s)
      BY <2>1, <2>5, MoveKeeps DEF SumTransfers, Read, Goto
    <2>6. CASE GetBatch(s) \/ Settle(s)
      BY <2>6, GetBatchKeeps, SettleKeeps
    <2>7. QED
      BY <1>7, <2>2, <2>3, <2>4, <2>5, <2>6 DEF SettleBatch
  <1>8. ASSUME NEW r \in Requests, Abort(r)
        PROVE  LedgerInv'
    BY <1>8, MoveKeeps DEF Abort, Goto
  <1>9. QED
    BY <1>1, <1>2, <1>3, <1>4, <1>5, <1>6, <1>7, <1>8 DEF Next

LEMMA LedgerAlways == Spec => []LedgerInv
  BY LedgerStart, LedgerStep, PTL DEF Spec

-----------------------------------------------------------------------------
(* The theorems.                                                            *)

\* CreatePayoutBatchForEvents and SettlePayoutBatchAndEvents keep every event
\* in step with its batch, for any number of requests in any order.
THEOREM EventsFollowBatches == Spec => []EventFollowsBatch
  <1>1. LedgerInv => EventFollowsBatch
    BY DEF LedgerInv
  <1>2. QED
    BY <1>1, LedgerAlways, PTL

\* Racing createPayoutBatch requests never leave a batch whose total is not
\* the sum of the events attached to it, nor a batch without events.
THEOREM BatchesAddUp == Spec => []BatchAddsUp
  <1>1. LedgerInv => BatchAddsUp
    BY DEF LedgerInv
  <1>2. QED
    BY <1>1, LedgerAlways, PTL

\* settlePayoutBatch settles no event of a contributor that never had a
\* verified payout profile.
THEOREM OnlyVerifiedSettled == Spec => []SettledToVerified
  <1>1. LedgerInv => SettledToVerified
    BY DEF LedgerInv
  <1>2. QED
    BY <1>1, LedgerAlways, PTL

\* Which steps attach an event to a batch, and which settle one.
LEMMA WhoAttaches ==
    ASSUME LedgerInv, [Next]_vars, NEW e \in Events, NEW b \in Batches,
           batchOf[e] # b, batchOf'[e] = b
    PROVE  pc[b] = "create" /\ e \in listed[b]
  <1>1. PICK x \in Batches : CreateBatch(x) /\ batchOf' # batchOf
    BY DEF Next, vars, ledger, RecordUsage, OpenDispute, ResolveDispute, UpsertProfile,
           CreateTransfer, ConfirmTransfer, MakeBatch, ListPending, CheckBlockers,
           SettleBatch, GetBatch, CheckProfiles, CheckDisputes, CountTransfers,
           SumTransfers, Read, Settle, Abort
  <1>2. pc[x] = "create" /\ Attach(x, listed[x])
    BY <1>1 DEF CreateBatch, ledger
  <1>3. batchOf'[e] = IF e \in listed[x] THEN x ELSE batchOf[e]
    BY <1>2 DEF Attach
  <1>4. QED
    BY <1>2, <1>3

LEMMA WhoSettles ==
    ASSUME LedgerInv, [Next]_vars, NEW e \in Events, NEW s \in Settlers,
           pc[s] = "settle", pc'[s] = "end", status[e] = "batched", status'[e] = "settled"
    PROVE  e \in EventsOf(chosen[s])
  <1>1. PICK r \in Settlers : Settle(r)
    <2>1. \A u \in Usages : ~RecordUsage(u)
      BY DEF RecordUsage
    <2>2. \A b \in Batches : ~CreateBatch(b)
      BY DEF CreateBatch, Attach, ledger
    <2>3. QED
      BY <2>1, <2>2 DEF Next, vars, ledger, OpenDispute, ResolveDispute, UpsertProfile,
             CreateTransfer, ConfirmTransfer, MakeBatch, ListPending, CheckBlockers,
             SettleBatch, GetBatch, CheckProfiles, CheckDisputes, CountTransfers,
             SumTransfers, Read, Abort
  <1>2. r = s
    BY <1>1 DEF Settle, Goto, LedgerInv, Typed, RequestsTyped, Requests
  <1>3. batchOf[e] = chosen[s]
    BY <1>1, <1>2 DEF Settle
  <1>4. QED
    BY <1>3 DEF EventsOf

\* A dispute with a payout hold stops every createPayoutBatch and every
\* settlePayoutBatch that begins while it is open, whatever happens between
\* the check of the disputes and the transaction at the end.
THEOREM HoldsStop == Spec => HoldStops
  <1> DEFINE Stopped == \A d \in Disputes : dispute[d].entity # None =>
        \A e \in Covers[dispute[d].entity] :
            /\ \A b \in Batches : d \in since[b] => ~(batchOf[e] # b /\ batchOf'[e] = b)
            /\ \A s \in Settlers : d \in since[s] /\ pc[s] = "settle" =>
                   ~(pc'[s] = "end" /\ status[e] = "batched" /\ status'[e] = "settled")
  <1>1. LedgerInv /\ [Next]_vars => Stopped
    <2> SUFFICES ASSUME LedgerInv, [Next]_vars,
                        NEW d \in Disputes, dispute[d].entity # None,
                        NEW e \in Covers[dispute[d].entity]
                 PROVE  /\ \A b \in Batches :
                               d \in since[b] => ~(batchOf[e] # b /\ batchOf'[e] = b)
                        /\ \A s \in Settlers : d \in since[s] /\ pc[s] = "settle" =>
                               ~(/\ pc'[s] = "end"
                                 /\ status[e] = "batched" /\ status'[e] = "settled")
      OBVIOUS
    <2>1. e \in Events
      <3>1. dispute[d].entity \in Entities
        BY DEF LedgerInv, Typed, DisputesTyped
      <3>2. QED
        BY <3>1, LedgerAssumption
    <2>2. ASSUME NEW b \in Batches, d \in since[b], batchOf[e] # b, batchOf'[e] = b
          PROVE  FALSE
      <3>1. pc[b] = "create" /\ e \in listed[b]
        BY <2>1, <2>2, WhoAttaches
      <3>2. QED
        BY <2>2, <3>1 DEF LedgerInv, HoldsKnown
    <2>3. ASSUME NEW s \in Settlers, d \in since[s], pc[s] = "settle", pc'[s] = "end",
                 status[e] = "batched", status'[e] = "settled"
          PROVE  FALSE
      <3>1. e \in EventsOf(chosen[s])
        BY <2>1, <2>3, WhoSettles
      <3>2. QED
        BY <2>3, <3>1 DEF LedgerInv, HoldsKnown
    <2>4. QED
      BY <2>2, <2>3
  <1>2. LedgerInv /\ [Next]_vars => [Stopped]_vars
    BY <1>1
  <1>3. QED
    BY <1>2, LedgerAlways, PTL DEF Spec, HoldStops

\* The ledger implements the life cycle of a payout event: it waits, is
\* gathered into one batch for good and is settled with all of that batch.
THEOREM PayoutsImplement == Spec => PayoutsKept
  <1>1. Init => Lifecycle!Init
    BY DEF Init, Lifecycle!Init
  <1>2. LedgerInv /\ [Next]_vars => [Lifecycle!Next]_<<status, batchOf>>
    <2> SUFFICES ASSUME LedgerInv, [Next]_vars, ~UNCHANGED <<status, batchOf>>
                 PROVE  Lifecycle!Next
      OBVIOUS
    <2>1. \/ \E u \in Usages : RecordUsage(u)
          \/ \E b \in Batches : CreateBatch(b) /\ ~UNCHANGED ledger
          \/ \E s \in Settlers : Settle(s)
      BY DEF Next, vars, ledger, OpenDispute, ResolveDispute, UpsertProfile,
             CreateTransfer, ConfirmTransfer, MakeBatch, ListPending, CheckBlockers,
             SettleBatch, GetBatch, CheckProfiles, CheckDisputes, CountTransfers,
             SumTransfers, Read, Abort
    <2>2. ASSUME NEW u \in Usages, RecordUsage(u)
          PROVE  Lifecycle!Next
      <3>1. Lifecycle!Record({e \in Events : Usage[e] = u})
        BY <2>2 DEF RecordUsage, Lifecycle!Record
      <3>2. QED
        BY <3>1 DEF Lifecycle!Next
    <2>3. ASSUME NEW b \in Batches, CreateBatch(b), ~UNCHANGED ledger
          PROVE  Lifecycle!Next
      <3>1. pc[b] = "create" /\ listed[b] \subseteq Pending /\ Attach(b, listed[b])
        BY <2>3 DEF CreateBatch
      <3>2. EventsOf(b) = {} /\ listed[b] \in SUBSET Events
        BY <3>1, AttachGathers DEF Pending
      <3>3. Lifecycle!Gather(b, listed[b])
        BY <3>1, <3>2 DEF Attach, Pending, EventsOf, Lifecycle!Gather, Lifecycle!Of
      <3>4. QED
        BY <3>2, <3>3 DEF Lifecycle!Next
    <2>4. ASSUME NEW s \in Settlers, Settle(s)
          PROVE  Lifecycle!Next
      <3>1. chosen[s] \in Batches
        BY <2>4 DEF Settle, LedgerInv, RequestsKnown, Checks
      <3>2. Lifecycle!Pay(chosen[s])
        <4>1. status' = [e \in Events |-> IF e \in Lifecycle!Of(chosen[s])
                                          THEN "settled" ELSE status[e]]
          BY <2>4 DEF Settle, Lifecycle!Of
        <4>2. QED
          BY <2>4, <4>1 DEF Settle, Lifecycle!Pay
      <3>3. QED
        BY <3>1, <3>2 DEF Lifecycle!Next
    <2>5. QED
      BY <2>1, <2>2, <2>3, <2>4
  <1>3. QED
    BY <1>1, <1>2, LedgerAlways, PTL DEF Spec, PayoutsKept, Lifecycle!Spec

-----------------------------------------------------------------------------
(* Money: totals and transfers.                                             *)

Transferred == [batch : Batches \cup {None}, amount : Nat,
                status : {"absent", "submitted", "succeeded", "failed"}]
Made == {t \in Transfers : transfer[t].status # "absent"}

MoneyTyped ==
    /\ total \in [Batches -> Nat]
    /\ transfer \in [Transfers -> Transferred]
    /\ latest \in [Payees -> ProfileStatus \cup {None}]
    /\ paid \subseteq Batches

\* Whatever covers its total now did so at some moment, and a request that settles has
\* seen its batch covered.  Only transfers that were made count, and they are finitely
\* many, however many may be made.
PaidKnown ==
    /\ IsFiniteSet(Made)
    /\ \A b \in Batches : batch[b] # "absent" /\ SucceededAmount(b) >= total[b] => b \in paid
    /\ \A s \in Settlers : pc[s] = "settle" => chosen[s] \in paid
    /\ SettledWasPaid

MoneyInv ==
    /\ LedgerInv
    /\ MoneyTyped
    /\ PaidKnown

LEMMA TotalIsNat == ASSUME NEW S \in SUBSET Events PROVE TotalOf(S) \in Nat
  <1>1. IsFiniteSet(S) /\ \A e \in S : Amount[e] \in Nat
    BY LedgerAssumption, FS_Subset
  <1> QED
    BY <1>1, SumIsNat DEF TotalOf

\* A step that leaves batches and transfers alone, and lets nobody settle who could not.
LEMMA MoneyFrame ==
    ASSUME MoneyTyped, PaidKnown, UNCHANGED <<batch, total, transfer, latest, paid>>,
           \A s \in Settlers : pc'[s] = "settle" => chosen'[s] \in paid
    PROVE  MoneyTyped' /\ PaidKnown'
  <1>1. MoneyTyped'
    BY DEF MoneyTyped
  <1>2. Made' = Made /\ \A b \in Batches : SucceededAmount(b)' = SucceededAmount(b)
    BY DEF Made, SucceededAmount, Succeeded
  <1> QED
    BY <1>1, <1>2 DEF PaidKnown, SettledWasPaid

\* A request that only reads or ends, unless it has just added up the transfers.
LEMMA MovesKeepMoney ==
    ASSUME MoneyInv, NEW r \in Requests, NEW label,
           pc' = [pc EXCEPT ![r] = label], label = "settle" => chosen'[r] \in paid,
           \A s \in Settlers : s # r => chosen'[s] = chosen[s],
           UNCHANGED <<batch, total, transfer, latest, paid>>
    PROVE  MoneyTyped' /\ PaidKnown'
  <1>1. ASSUME NEW s \in Settlers, pc'[s] = "settle" PROVE chosen'[s] \in paid
    <2>1. pc'[s] = IF s = r THEN label ELSE pc[s]
      BY DEF MoneyInv, LedgerInv, Typed, RequestsTyped, Requests
    <2> QED
      BY <1>1, <2>1 DEF MoneyInv, PaidKnown
  <1> QED
    BY <1>1, MoneyFrame DEF MoneyInv

\* The new transfer has not succeeded, so that every sum stays what it was.
LEMMA CreateTransferKeepsMoney ==
    ASSUME MoneyInv, NEW t \in Transfers, CreateTransfer(t)
    PROVE  MoneyTyped' /\ PaidKnown'
  <1>1. PICK row : /\ row \in Transferred /\ row.status = "submitted"
                   /\ transfer' = [transfer EXCEPT ![t] = row]
    <2>1. PICK b \in {x \in Batches : batch[x] # "absent"} \cup {None} :
             \E amount \in {0} \cup {total[x] : x \in {b} \ {None}} :
                transfer' = [transfer EXCEPT ![t] =
                                [batch |-> b, amount |-> amount, status |-> "submitted"]]
      BY DEF CreateTransfer
    <2>2. PICK amount \in {0} \cup {total[x] : x \in {b} \ {None}} :
             transfer' = [transfer EXCEPT ![t] =
                             [batch |-> b, amount |-> amount, status |-> "submitted"]]
      BY <2>1
    <2>3. b \in Batches \cup {None} /\ amount \in Nat
      BY <2>1, <2>2 DEF MoneyInv, MoneyTyped
    <2> QED
      BY <2>2, <2>3 DEF Transferred
  <1>2. /\ UNCHANGED <<batch, total, latest, paid, pc, chosen>>
        /\ transfer[t].status = "absent"
        /\ transfer \in [Transfers -> Transferred]
    BY DEF CreateTransfer, ledger, requests, MoneyInv, MoneyTyped
  <1>3. MoneyTyped'
    BY <1>1, <1>2 DEF MoneyInv, MoneyTyped
  <1>4. IsFiniteSet(Made')
    <2>1. Made' = Made \cup {t}
      BY <1>1, <1>2 DEF Made
    <2> QED
      BY <2>1, FS_AddElement DEF MoneyInv, PaidKnown
  <1>5. ASSUME NEW b \in Batches PROVE SucceededAmount(b)' = SucceededAmount(b)
    <2>1. Succeeded(b)' = Succeeded(b) /\ t \notin Succeeded(b)
      BY <1>1, <1>2 DEF Succeeded
    <2>2. PICK S : S = Succeeded(b)
      OBVIOUS
    <2>3. PICK f, g : /\ f = [x \in Transfers |-> transfer[x].amount]
                      /\ g = [x \in Transfers |-> transfer'[x].amount]
      OBVIOUS
    <2>4. IsFiniteSet(S)
      <3>1. S \subseteq Made
        BY <2>2 DEF Succeeded, Made
      <3> QED
        BY <3>1, FS_Subset DEF MoneyInv, PaidKnown
    <2>5. \A x \in S : f[x] \in Int /\ f[x] = g[x]
      <3>1. \A x \in S : x \in Transfers /\ x # t
        BY <2>1, <2>2 DEF Succeeded
      <3> QED
        BY <1>1, <1>2, <2>3, <3>1 DEF Transferred
    <2>6. SumFunctionOnSet(f, S) = SumFunctionOnSet(g, S)
      BY <2>4, <2>5, SumSame
    <2>7. SucceededAmount(b) = SumFunctionOnSet(f, S)
      BY <2>2, <2>3 DEF SucceededAmount
    <2>8. SucceededAmount(b)' = SumFunctionOnSet(g, S)
      BY <2>1, <2>2, <2>3 DEF SucceededAmount
    <2> QED
      BY <2>6, <2>7, <2>8
  <1> QED
    BY <1>2, <1>3, <1>4, <1>5 DEF MoneyInv, PaidKnown, SettledWasPaid

LEMMA ConfirmTransferKeepsMoney ==
    ASSUME MoneyInv, NEW t \in Transfers, ConfirmTransfer(t)
    PROVE  MoneyTyped' /\ PaidKnown'
  <1>1. PICK st \in {"submitted", "succeeded", "failed"} :
           transfer' = [transfer EXCEPT ![t].status = st]
    BY DEF ConfirmTransfer
  <1>2. /\ UNCHANGED <<batch, total, latest, pc, chosen>> /\ NotePaid
        /\ transfer[t].status # "absent"
        /\ transfer \in [Transfers -> Transferred]
    BY DEF ConfirmTransfer, ledger, requests, MoneyInv, MoneyTyped
  <1>3. transfer' \in [Transfers -> Transferred] /\ Made' = Made
    BY <1>1, <1>2 DEF Transferred, Made
  <1>4. paid \subseteq paid' /\ paid' \subseteq Batches
    BY <1>2 DEF NotePaid, MoneyInv, MoneyTyped
  <1>5. \A b \in Batches : batch'[b] # "absent" /\ SucceededAmount(b)' >= total'[b] => b \in paid'
    BY <1>2 DEF NotePaid
  <1> QED
    BY <1>2, <1>3, <1>4, <1>5 DEF MoneyInv, MoneyTyped, PaidKnown, SettledWasPaid

\* A batch that exists but is not settled: its total is that of what was listed.
LEMMA CreateBatchKeepsMoney ==
    ASSUME MoneyInv, NEW b \in Batches, CreateBatch(b)
    PROVE  MoneyTyped' /\ PaidKnown'
  <1>1. b \in Requests /\ pc' = [pc EXCEPT ![b] = "end"] /\ UNCHANGED <<transfer, latest, chosen>>
    BY DEF CreateBatch, Goto, Requests
  <1>2. CASE UNCHANGED <<ledger, paid>>
    BY <1>1, <1>2, MovesKeepMoney DEF ledger
  <1>3. CASE Attach(b, listed[b]) /\ NotePaid
    <2>1. TotalOf(listed[b]) \in Nat
      BY TotalIsNat DEF MoneyInv, LedgerInv, Typed, RequestsTyped
    <2>2. /\ batch' = [batch EXCEPT ![b] = "ready"]
          /\ total' = [total EXCEPT ![b] = TotalOf(listed[b])]
      BY <1>3 DEF Attach
    <2>3. paid \subseteq paid' /\ paid' \subseteq Batches
      BY <1>3 DEF NotePaid, MoneyInv, MoneyTyped
    <2>4. MoneyTyped'
      BY <1>1, <2>1, <2>2, <2>3 DEF MoneyInv, MoneyTyped
    <2>5. \A c \in Batches :
             batch'[c] # "absent" /\ SucceededAmount(c)' >= total'[c] => c \in paid'
      BY <1>3 DEF NotePaid
    <2>6. \A s \in Settlers : pc'[s] = "settle" => chosen'[s] \in paid'
      BY <1>1, <2>3 DEF MoneyInv, PaidKnown, LedgerInv, Typed, RequestsTyped, Requests
    <2>7. SettledWasPaid'
      BY <2>2, <2>3 DEF MoneyInv, PaidKnown, SettledWasPaid, LedgerInv, Typed, LedgerTyped
    <2>8. Made' = Made
      BY <1>1 DEF Made
    <2> QED
      BY <2>4, <2>5, <2>6, <2>7, <2>8 DEF MoneyInv, PaidKnown
  <1> QED
    BY <1>2, <1>3 DEF CreateBatch

LEMMA SettleKeepsMoney ==
    ASSUME MoneyInv, NEW s \in Settlers, Settle(s)
    PROVE  MoneyTyped' /\ PaidKnown'
  <1>1. /\ s \in Requests /\ pc' = [pc EXCEPT ![s] = "end"]
        /\ pc[s] = "settle" /\ batch' = [batch EXCEPT ![chosen[s]] = "settled"]
        /\ UNCHANGED <<total, transfer, latest, chosen, paid>>
    BY DEF Settle, Goto, Requests
  <1>2. chosen[s] \in paid /\ chosen[s] \in Batches /\ batch[chosen[s]] # "absent"
    BY <1>1 DEF MoneyInv, PaidKnown, LedgerInv, RequestsKnown, Checks
  <1>3. \A b \in Batches : batch'[b] = IF b = chosen[s] THEN "settled" ELSE batch[b]
    BY <1>1 DEF MoneyInv, LedgerInv, Typed, LedgerTyped
  <1>4. Made' = Made /\ \A b \in Batches : SucceededAmount(b)' = SucceededAmount(b)
    BY <1>1 DEF Made, SucceededAmount, Succeeded
  <1>5. \A q \in Settlers : pc'[q] = "settle" => pc[q] = "settle"
    BY <1>1 DEF MoneyInv, LedgerInv, Typed, RequestsTyped, Requests
  <1>6. MoneyTyped'
    BY <1>1 DEF MoneyInv, MoneyTyped
  <1> QED
    BY <1>1, <1>2, <1>3, <1>4, <1>5, <1>6 DEF MoneyInv, PaidKnown, SettledWasPaid

LEMMA MoneyStep == ASSUME MoneyInv, [Next]_vars PROVE MoneyInv'
  <1>1. LedgerInv'
    BY LedgerStep DEF MoneyInv
  <1>2. ASSUME UNCHANGED <<batch, total, transfer, latest, paid, pc, chosen>>
        PROVE  MoneyTyped' /\ PaidKnown'
    <2>1. \A s \in Settlers : pc'[s] = "settle" => chosen'[s] \in paid
      BY <1>2 DEF MoneyInv, PaidKnown
    <2> QED
      BY <1>2, <2>1, MoneyFrame DEF MoneyInv
  <1>3. ASSUME NEW c \in Payees, UpsertProfile(c) PROVE MoneyTyped' /\ PaidKnown'
    <2>1. /\ UNCHANGED <<batch, total, transfer, paid, pc, chosen>>
          /\ latest' \in [Payees -> ProfileStatus \cup {None}]
      BY <1>3 DEF UpsertProfile, ledger, requests, MoneyInv, MoneyTyped
    <2>2. Made' = Made /\ \A b \in Batches : SucceededAmount(b)' = SucceededAmount(b)
      BY <2>1 DEF Made, SucceededAmount, Succeeded
    <2> QED
      BY <2>1, <2>2 DEF MoneyInv, MoneyTyped, PaidKnown, SettledWasPaid
  <1>4. ASSUME NEW b \in Batches, MakeBatch(b) PROVE MoneyTyped' /\ PaidKnown'
    <2>1. CASE ListPending(b) \/ CheckBlockers(b)
      <3>1. /\ \E label : label # "settle" /\ pc' = [pc EXCEPT ![b] = label]
            /\ UNCHANGED <<batch, total, transfer, latest, chosen, paid>>
        BY <2>1 DEF ListPending, CheckBlockers, Goto, ledger
      <3> QED
        BY <3>1, MovesKeepMoney DEF Requests
    <2> QED
      BY <1>4, <2>1, CreateBatchKeepsMoney DEF MakeBatch
  <1>5. ASSUME NEW s \in Settlers, SettleBatch(s) PROVE MoneyTyped' /\ PaidKnown'
    <2>1. CASE GetBatch(s)
      <3>1. /\ pc' = [pc EXCEPT ![s] = "profiles"]
            /\ \A q \in Settlers : q # s => chosen'[q] = chosen[q]
            /\ UNCHANGED <<batch, total, transfer, latest, paid>>
        BY <2>1 DEF GetBatch, Goto, ledger
      <3> QED
        BY <3>1, MovesKeepMoney DEF Requests
    <2>2. CASE CheckProfiles(s) \/ CheckDisputes(s) \/ CountTransfers(s)
      <3>1. /\ \E label : label # "settle" /\ pc' = [pc EXCEPT ![s] = label]
            /\ UNCHANGED <<batch, total, transfer, latest, chosen, paid>>
        BY <2>2 DEF CheckProfiles, CheckDisputes, CountTransfers, Read, Goto, ledger
      <3> QED
        BY <3>1, MovesKeepMoney DEF Requests
    <2>3. CASE SumTransfers(s)
      <3> DEFINE covered == SucceededAmount(chosen[s]) >= total[chosen[s]]
      <3>1. /\ pc' = [pc EXCEPT ![s] = IF covered THEN "settle" ELSE "end"]
            /\ pc[s] = "sum" /\ s \in Requests
            /\ UNCHANGED <<batch, total, transfer, latest, chosen, paid>>
        BY <2>3 DEF SumTransfers, Read, Goto, ledger, Requests
      <3>2. chosen[s] \in Batches /\ batch[chosen[s]] # "absent"
        BY <3>1 DEF MoneyInv, LedgerInv, RequestsKnown, Checks
      <3>3. covered => chosen'[s] \in paid
        BY <3>1, <3>2 DEF MoneyInv, PaidKnown
      <3> HIDE DEF covered
      <3>4. CASE covered
        BY <3>1, <3>3, <3>4, MovesKeepMoney
      <3>5. CASE ~covered
        BY <3>1, <3>5, MovesKeepMoney
      <3> QED
        BY <3>4, <3>5
    <2> QED
      BY <1>5, <2>1, <2>2, <2>3, SettleKeepsMoney DEF SettleBatch
  <1>6. ASSUME NEW r \in Requests, Abort(r) PROVE MoneyTyped' /\ PaidKnown'
    <2>1. /\ pc' = [pc EXCEPT ![r] = "end"]
          /\ UNCHANGED <<batch, total, transfer, latest, chosen, paid>>
      BY <1>6 DEF Abort, Goto, ledger
    <2> QED
      BY <2>1, MovesKeepMoney
  <1>7. ASSUME \/ UNCHANGED vars
               \/ \E u \in Usages : RecordUsage(u)
               \/ \E d \in Disputes : OpenDispute(d) \/ ResolveDispute(d)
        PROVE  MoneyTyped' /\ PaidKnown'
    BY <1>2, <1>7 DEF vars, ledger, requests, RecordUsage, OpenDispute, ResolveDispute
  <1>8. ASSUME NEW t \in Transfers, CreateTransfer(t) \/ ConfirmTransfer(t)
        PROVE  MoneyTyped' /\ PaidKnown'
    BY <1>8, CreateTransferKeepsMoney, ConfirmTransferKeepsMoney
  <1>9. MoneyTyped' /\ PaidKnown'
    BY <1>3, <1>4, <1>5, <1>6, <1>7, <1>8 DEF Next
  <1> QED
    BY <1>1, <1>9 DEF MoneyInv

LEMMA MoneyAlways == Spec => []MoneyInv
  <1>1. ASSUME Init PROVE MoneyInv
    <2>1. MoneyTyped
      BY <1>1 DEF Init, MoneyTyped, Transferred
    <2>2. Made = {}
      BY <1>1 DEF Init, Made
    <2>3. PaidKnown
      BY <1>1, <2>2, FS_EmptySet DEF Init, PaidKnown, SettledWasPaid, Requests
    <2> QED
      BY <1>1, <2>1, <2>3, LedgerStart DEF MoneyInv
  <1> QED
    BY <1>1, MoneyStep, PTL DEF Spec

\* settlePayoutBatch settles no batch that its succeeded transfers did not cover at some
\* moment, whatever is confirmed, failed or submitted again around its two reads.
THEOREM SettledWerePaid == Spec => []SettledWasPaid
  <1>1. MoneyInv => SettledWasPaid
    BY DEF MoneyInv, PaidKnown
  <1>2. QED
    BY <1>1, MoneyAlways, PTL

\* Rows and requests keep their types, and totals and amounts are never negative.
THEOREM TypeCorrect == Spec => []TypeOK
  <1>1. MoneyInv => TypeOK
    BY DEF MoneyInv, MoneyTyped, Transferred, LedgerInv, Typed, LedgerTyped, DisputesTyped,
           RequestsTyped, Checks, TypeOK
  <1>2. QED
    BY <1>1, MoneyAlways, PTL
=============================================================================
