--------------------------- MODULE Delivery_proofs ---------------------------
(***************************************************************************)
(* Proofs about exports, evaluations, grants and downloads, for any number *)
(* of cases, datasets, orders, grants, disputes and requests.              *)
(***************************************************************************)
EXTENDS Delivery, FiniteSetTheorems, TLAPS

\* No row of a table is taken for a missing one.
NoneIsNothing ==
    None \notin Dataset \union Order \union Grant \union Dispute \union DSR \union Grants

\* LIMIT of DatasetCaseOverlaps cuts nothing off.
OverlapsFit == IsFiniteSet(Ids \X Cases) /\ Cardinality(Ids \X Cases) <= OverlapLimit

-----------------------------------------------------------------------------
(* The inductive invariant.                                                 *)

\* What a completed evaluation has seen, and what stays true of a dataset.
Complete(d) == datasets[d].artifacts = Artifacts
Deliverable(d) ==
    /\ d \in 1 .. made
    /\ Complete(d)
    /\ \A c \in datasets[d].cases : ScanAllows(c)

\* A dataset shares no case with an earlier one it has to be kept apart from.
Clash(d, e) ==
    /\ datasets[d].cases \intersect datasets[e].cases # {}
    /\ HoldoutIsolationRequired(datasets[d].purpose, datasets[e].purpose)
Isolated(d) == OverlapsFit => \A e \in 1 .. made : e < d => ~Clash(d, e)

DatasetOK(d) ==
    /\ datasets[d].billed => Complete(d)
    /\ datasets[d].evaluation = "completed" => Deliverable(d) /\ Isolated(d)

\* Order o was recognised, and is for dataset d and customer b.
Ordered(o, d, b) ==
    /\ orders[o] # None
    /\ orders[o].recognized
    /\ orders[o].dataset = d
    /\ b \in {None, orders[o].customer}

GrantOK(g) ==
    grants[g] # None =>
       /\ grants[g].dataset \in 1 .. made
       /\ grants[g].order # None =>
             Ordered(grants[g].order, grants[g].dataset, grants[g].customer)

SentOK(g) == sent[g] > 0 => grants[g] # None /\ Deliverable(grants[g].dataset)

DsrOK(r) ==
    dsrs[r] # None /\ dsrs[r].kind = "delete" /\ dsrs[r].fulfilled => Gone(dsrs[r].owner)

\* What a request has found out, and what it still has to look at.
BeganOK(began) == began.gone \subseteq withdrawn /\ \A x \in began.open : disputes[x] # None

Exporting(r) ==
    /\ r.pc = "authorizing" =>
          /\ BeganOK(r.began)
          /\ \A c \in r.chosen :
                Owner[c] \in r.todo \/ AuthorizationID[Owner[c]] \notin r.began.gone
    /\ r.pc = "writing" => r.dataset \in 1 .. made

Evaluating(r) ==
    /\ r.pc \in {"comparing", "inspecting"} =>
          r.dataset \in 1 .. made /\ (~r.critical => Complete(r.dataset))
    /\ r.pc = "inspecting" /\ ~r.critical =>
          /\ \A c \in datasets[r.dataset].cases : c \in r.todo \/ ScanAllows(c)
          /\ Isolated(r.dataset)

Checked == {"ordering", "granting", "fetching", "counting", "sending", "reporting"}
Portal == {"fetching", "counting", "sending", "reporting"}

ForGrant(g, d) == g \in Grants /\ grants[g] # None /\ grants[g].dataset = d
Unwithdrawn(d, todo, gone) ==
    \A c \in datasets[d].cases : Owner[c] \in todo \/ AuthorizationID[Owner[c]] \notin gone
Undisputed(d, open) ==
    \A x \in open \intersect OpenDisputes : disputes[x].entity \notin Concerns(d)

Delivering(r) ==
    r.pc \in DeliveryPcs =>
       /\ BeganOK(r.began)
       /\ r.dataset \in 1 .. made
       /\ r.kind # "grant" => ForGrant(r.grant, r.dataset)
       /\ r.pc # "evaluation" =>
             Deliverable(r.dataset) /\ Unwithdrawn(r.dataset, r.todo, r.began.gone)
       /\ r.pc \in Checked => r.todo = {} /\ Undisputed(r.dataset, r.began.open)
       /\ r.pc \in Portal => r.kind # "grant"
       /\ r.pc = "granting" /\ r.order # None => Ordered(r.order, r.dataset, r.customer)

Closing(r) ==
    /\ r.pc = "linking" => orders[r.order] # None
    /\ r.pc \in {"withdrawing", "fulfilling"} => dsrs[r.dsr] # None
    /\ r.pc = "fulfilling" /\ dsrs[r.dsr].kind = "delete" => Gone(dsrs[r.dsr].owner)

RequestOK(r) == Exporting(r) /\ Evaluating(r) /\ Delivering(r) /\ Closing(r)

IInv ==
    /\ TypeOK
    /\ \A d \in 1 .. made : DatasetOK(d)
    /\ \A g \in Grants : GrantOK(g) /\ SentOK(g)
    /\ \A r \in DSRs : DsrOK(r)
    /\ \A q \in Requests : RequestOK(reqs[q])

-----------------------------------------------------------------------------
(* What no step takes back.                                                 *)

Grows ==
    /\ made <= made'
    /\ \A d \in 1 .. made : /\ datasets'[d].cases = datasets[d].cases
                            /\ datasets'[d].purpose = datasets[d].purpose
                            /\ Complete(d) => Complete(d)'
    /\ scanned \subseteq scanned'
    /\ withdrawn \subseteq withdrawn'
    /\ \A g \in Grants : grants[g] # None =>
          /\ grants'[g] # None
          /\ grants'[g].dataset = grants[g].dataset
          /\ grants'[g].order = grants[g].order
          /\ grants'[g].customer = grants[g].customer
    /\ \A o \in Orders : orders[o] # None =>
          /\ orders'[o] # None
          /\ orders'[o].dataset = orders[o].dataset
          /\ orders'[o].customer = orders[o].customer
          /\ orders[o].recognized => orders'[o].recognized
    /\ \A r \in DSRs : dsrs[r] # None =>
          dsrs'[r] # None /\ dsrs'[r].owner = dsrs[r].owner /\ dsrs'[r].kind = dsrs[r].kind
    /\ \A x \in Disputes : disputes[x] # None =>
          /\ disputes'[x] # None
          /\ disputes'[x].entity = disputes[x].entity
          /\ disputes'[x].open => disputes[x].open

LEMMA DeliverableLasts ==
    ASSUME TypeOK, made' \in Nat, Grows, NEW d, Deliverable(d)
    PROVE  Deliverable(d)'
  <1>1. made \in Nat /\ d \in 1 .. made /\ d \in 1 .. made'
    BY DEF TypeOK, Deliverable, Grows
  <1>2. Complete(d)'
    BY <1>1 DEF Deliverable, Grows
  <1>3. \A c \in datasets'[d].cases : ScanAllows(c)'
    BY <1>1 DEF Deliverable, Grows, ScanAllows
  <1> QED
    BY <1>1, <1>2, <1>3 DEF Deliverable

LEMMA IsolatedLasts ==
    ASSUME TypeOK, made' \in Nat, Grows, NEW d \in 1 .. made, Isolated(d)
    PROVE  Isolated(d)'
  <1>1. SUFFICES ASSUME OverlapsFit, NEW e \in 1 .. made', e < d
                 PROVE  ~Clash(d, e)'
    BY DEF Isolated, OverlapsFit
  <1>2. made \in Nat /\ e \in 1 .. made
    BY <1>1 DEF TypeOK
  <1>3. ~Clash(d, e)
    BY <1>1, <1>2 DEF Isolated
  <1> QED
    BY <1>2, <1>3 DEF Clash, Grows

LEMMA OrderedLasts ==
    ASSUME Grows, NEW o \in Orders, NEW d, NEW b, Ordered(o, d, b)
    PROVE  Ordered(o, d, b)'
  BY DEF Grows, Ordered

LEMMA DatasetLasts ==
    ASSUME TypeOK, made' \in Nat, Grows, NEW d \in 1 .. made, DatasetOK(d),
           datasets'[d].billed = datasets[d].billed,
           datasets'[d].evaluation = datasets[d].evaluation
    PROVE  DatasetOK(d)'
  <1>1. Complete(d) => Complete(d)'
    BY DEF Grows
  <1>2. datasets[d].evaluation = "completed" => Deliverable(d)' /\ Isolated(d)'
    BY DeliverableLasts, IsolatedLasts DEF DatasetOK
  <1> QED
    BY <1>1, <1>2 DEF DatasetOK

LEMMA GrantLasts ==
    ASSUME TypeOK, made' \in Nat, Grows, NEW g \in Grants, grants[g] # None, GrantOK(g)
    PROVE  GrantOK(g)'
  <1>1. made \in Nat /\ made <= made'
    BY DEF TypeOK, Grows
  <1>2. grants[g].order \in Orders \union {None}
    BY DEF TypeOK, Grant
  <1>3. /\ grants'[g].dataset = grants[g].dataset
        /\ grants'[g].order = grants[g].order
        /\ grants'[g].customer = grants[g].customer
    BY DEF Grows
  <1>4. grants[g].dataset \in 1 .. made'
    BY <1>1 DEF GrantOK
  <1>5. PICK o, d, b : o = grants[g].order /\ d = grants[g].dataset /\ b = grants[g].customer
    OBVIOUS
  <1>6. o # None => Ordered(o, d, b)'
    BY <1>2, <1>5, OrderedLasts DEF GrantOK
  <1> QED
    BY <1>3, <1>4, <1>5, <1>6 DEF GrantOK, Ordered

LEMMA SentLasts ==
    ASSUME TypeOK, made' \in Nat, Grows, NEW g \in Grants, SentOK(g), sent'[g] = sent[g]
    PROVE  SentOK(g)'
  <1> SUFFICES ASSUME sent[g] > 0
               PROVE  grants'[g] # None /\ Deliverable(grants[g].dataset)'
    BY DEF SentOK
  <1>1. PICK d : d = grants[g].dataset
    OBVIOUS
  <1>2. grants[g] # None /\ Deliverable(d)
    BY <1>1 DEF SentOK
  <1>3. Deliverable(d)'
    BY <1>2, DeliverableLasts
  <1>4. grants'[g] # None /\ grants'[g].dataset = d
    BY <1>1, <1>2 DEF Grows
  <1> QED
    BY <1>3, <1>4 DEF Deliverable, Complete

LEMMA RequestLasts ==
    ASSUME TypeOK, made' \in Nat, Grows, NEW r \in Request, RequestOK(r)
    PROVE  RequestOK(r)'
  <1>1. made \in Nat /\ made <= made'
    BY DEF TypeOK, Grows
  <1>2. ASSUME NEW began \in Began, BeganOK(began) PROVE BeganOK(began)'
    BY <1>2 DEF BeganOK, Began, Grows
  <1>3. r.pc \in {"authorizing"} \union DeliveryPcs => r.began \in Began
    BY DEF Request, Idle, DeliveryPcs
  <1>4. Exporting(r)'
    BY <1>1, <1>2, <1>3 DEF RequestOK, Exporting
  <1>5. Evaluating(r)'
    <2>1. r.pc \in {"comparing", "inspecting"} =>
             r.dataset \in 1 .. made' /\ (~r.critical => Complete(r.dataset)')
      BY <1>1 DEF RequestOK, Evaluating, Grows
    <2>2. ASSUME r.pc = "inspecting", ~r.critical
          PROVE  /\ \A c \in datasets'[r.dataset].cases : c \in r.todo \/ ScanAllows(c)'
                 /\ Isolated(r.dataset)'
      <3>1. /\ r.dataset \in 1 .. made /\ Isolated(r.dataset)
            /\ \A c \in datasets[r.dataset].cases : c \in r.todo \/ ScanAllows(c)
        BY <2>2 DEF RequestOK, Evaluating
      <3>2. Isolated(r.dataset)'
        BY <3>1, IsolatedLasts
      <3> QED
        BY <3>1, <3>2 DEF Grows, ScanAllows
    <2> QED
      BY <2>1, <2>2 DEF Evaluating
  <1>6. Delivering(r)'
    <2> SUFFICES ASSUME r.pc \in DeliveryPcs
                 PROVE  Delivering(r)'
      BY DEF Delivering
    <2>1. Delivering(r) /\ r.dataset \in 1 .. made /\ r.dataset \in 1 .. made'
      BY <1>1 DEF RequestOK, Delivering
    <2>2. r.order \in Orders \union {None}
      BY DEF Request, Idle, DeliveryPcs
    <2>3. r.kind # "grant" => ForGrant(r.grant, r.dataset)'
      BY <2>1 DEF Delivering, ForGrant, Grows
    <2>4. r.pc # "evaluation" =>
             Deliverable(r.dataset)' /\ Unwithdrawn(r.dataset, r.todo, r.began.gone)'
      <3>1. r.pc # "evaluation" => Deliverable(r.dataset)'
        BY <2>1, DeliverableLasts DEF Delivering
      <3> QED
        BY <2>1, <3>1 DEF Delivering, Unwithdrawn, Grows
    <2>5. r.pc \in Checked => r.todo = {} /\ Undisputed(r.dataset, r.began.open)'
      <3>1. Concerns(r.dataset)' = Concerns(r.dataset)
        BY <2>1 DEF Concerns, OwnersOf, Grows
      <3>2. \A x \in r.began.open : x \in OpenDisputes' =>
               x \in OpenDisputes /\ disputes'[x].entity = disputes[x].entity
        BY <2>1 DEF Delivering, BeganOK, OpenDisputes, Grows
      <3> QED
        BY <2>1, <3>1, <3>2 DEF Delivering, Undisputed
    <2>6. r.pc = "granting" /\ r.order # None => Ordered(r.order, r.dataset, r.customer)'
      BY <2>1, <2>2, OrderedLasts DEF Delivering
    <2>7. BeganOK(r.began)' /\ (r.pc \in Portal => r.kind # "grant")
      BY <1>2, <1>3, <2>1 DEF Delivering
    <2> QED
      BY <2>1, <2>3, <2>4, <2>5, <2>6, <2>7 DEF Delivering
  <1>7. Closing(r)'
    <2>1. /\ r.pc = "linking" => r.order \in Orders
          /\ r.pc \in {"withdrawing", "fulfilling"} => r.dsr \in DSRs
      BY DEF Request, Idle, DeliveryPcs
    <2> QED
      BY <2>1 DEF RequestOK, Closing, Grows, Gone
  <1> QED
    BY <1>4, <1>5, <1>6, <1>7 DEF RequestOK

\* A step keeps the invariant if it takes nothing back and what it changes is in order.
LEMMA StepInOrder ==
    ASSUME IInv, Grows, TypeOK',
           \A d \in 1 .. made' :
              \/ /\ d \in 1 .. made
                 /\ datasets'[d].billed = datasets[d].billed
                 /\ datasets'[d].evaluation = datasets[d].evaluation
              \/ DatasetOK(d)',
           \A g \in Grants : grants[g] # None \/ GrantOK(g)',
           \A g \in Grants : sent'[g] = sent[g] \/ SentOK(g)',
           \A r \in DSRs : dsrs'[r] = dsrs[r] \/ DsrOK(r)',
           \A q \in Requests : reqs'[q] = reqs[q] \/ RequestOK(reqs[q])'
    PROVE  IInv'
  <1>1. made' \in Nat /\ TypeOK
    BY BoundsAssumption DEF TypeOK, IInv
  <1>2. \A d \in 1 .. made' : DatasetOK(d)'
    BY <1>1, DatasetLasts DEF IInv
  <1>3. \A g \in Grants : GrantOK(g)' /\ SentOK(g)'
    BY <1>1, GrantLasts, SentLasts DEF IInv
  <1>4. \A r \in DSRs : DsrOK(r)'
    BY DEF IInv, DsrOK, Gone, Grows
  <1>5. \A q \in Requests : RequestOK(reqs[q])'
    <2> SUFFICES ASSUME NEW q \in Requests, reqs'[q] = reqs[q]
                 PROVE  RequestOK(reqs[q])'
      OBVIOUS
    <2>1. PICK r \in Request : r = reqs[q]
      BY <1>1 DEF TypeOK
    <2>2. RequestOK(r)'
      BY <1>1, <2>1, RequestLasts DEF IInv
    <2> QED
      BY <2>1, <2>2
  <1> QED
    BY <1>2, <1>3, <1>4, <1>5 DEF IInv

-----------------------------------------------------------------------------
(* Requests.                                                                *)

LEMMA IdleIsOK ==
    /\ Idle \in Request /\ Idle.pc = "idle"
    /\ RequestOK(Idle)
    /\ RequestOK(Idle)'
  <1>1. Idle \in Request /\ Idle.pc = "idle"
    BY DEF Request, Idle
  <1> QED
    BY <1>1 DEF RequestOK, Exporting, Evaluating, Delivering, Closing, DeliveryPcs

LEMMA RequestKinds ==
    ASSUME NEW r \in Request
    PROVE  /\ r.pc = "authorizing" =>
                 r \in [pc : {"authorizing"}, chosen : SUBSET Cases, purpose : Purposes,
                        todo : SUBSET Owners, began : Began]
           /\ r.pc = "writing" => r \in [pc : {"writing"}, dataset : Ids, began : Began]
           /\ r.pc = "comparing" =>
                 r \in [pc : {"comparing"}, dataset : Ids, critical : BOOLEAN]
           /\ r.pc = "inspecting" =>
                 r \in [pc : {"inspecting"}, dataset : Ids, critical : BOOLEAN,
                        todo : SUBSET Cases]
           /\ r.pc \in DeliveryPcs =>
                 r \in [pc : DeliveryPcs, kind : {"grant", "download", "report"},
                        dataset : Ids, grant : Grants \union {None},
                        order : Orders \union {None}, customer : Customers \union {None},
                        max : Budgets, todo : SUBSET Owners, began : Began]
           /\ r.pc = "linking" => r \in [pc : {"linking"}, order : Orders, grant : Grants]
           /\ r.pc \in {"withdrawing", "fulfilling"} =>
                 r \in [pc : {"withdrawing", "fulfilling"}, dsr : DSRs]
  BY DEF Request, Idle, DeliveryPcs

\* Tables that do not change take nothing back.
LEMMA StandStill ==
    ASSUME TypeOK, UNCHANGED tables
    PROVE  /\ Grows
           /\ UNCHANGED <<cases, scanned, made, datasets, orders, grants, sent, handed, withdrawn,
                          disputes, dsrs>>
  <1>1. UNCHANGED <<cases, scanned, made, datasets, orders, grants, sent, handed, withdrawn,
                    disputes, dsrs>>
    BY DEF tables, library, exports, sales, rights
  <1>2. made <= made'
    BY <1>1, BoundsAssumption DEF TypeOK
  <1>3. \A d \in 1 .. made : Complete(d) => Complete(d)'
    BY <1>1 DEF Complete
  <1> QED
    BY <1>1, <1>2, <1>3 DEF Grows

\* A step that only moves a request.
LEMMA GotoKeeps ==
    ASSUME IInv, NEW q \in Requests, NEW new \in Request, RequestOK(new), Goto(q, new)
    PROVE  IInv'
  <1>1. /\ reqs' = [reqs EXCEPT ![q] = new] /\ Grows
        /\ UNCHANGED <<cases, scanned, made, datasets, orders, grants, sent, handed, withdrawn,
                       disputes, dsrs>>
    BY StandStill DEF Goto, IInv
  <1>2. TypeOK'
    BY <1>1 DEF IInv, TypeOK
  <1>3. made' \in Nat
    BY <1>2, BoundsAssumption DEF TypeOK
  <1>4. RequestOK(new)'
    BY <1>1, <1>3, RequestLasts DEF IInv
  <1>5. \A s \in Requests : reqs'[s] = reqs[s] \/ RequestOK(reqs[s])'
    <2> SUFFICES ASSUME NEW s \in Requests, s = q
                 PROVE  RequestOK(reqs[s])'
      BY <1>1 DEF IInv, TypeOK
    <2>1. reqs'[q] = new
      BY <1>1 DEF IInv, TypeOK
    <2> QED
      BY <1>4, <2>1
  <1>6. \A g \in Grants : grants[g] # None \/ GrantOK(g)'
    BY <1>1 DEF GrantOK
  <1> QED
    BY <1>1, <1>2, <1>5, <1>6, StepInOrder

\* A step that edits one dataset and ends requests at most.
LEMMA DatasetKeeps ==
    ASSUME NoneIsNothing, IInv, NEW d \in 1 .. made, NEW new \in Dataset,
           datasets' = [datasets EXCEPT ![d] = new],
           new.cases = datasets[d].cases, new.purpose = datasets[d].purpose,
           datasets[d].artifacts \subseteq new.artifacts,
           new.billed => new.artifacts = Artifacts,
           new.evaluation = "completed" => Deliverable(d) /\ Isolated(d),
           UNCHANGED <<library, made, sales, rights>>,
           reqs' \in [Requests -> Request],
           \A q \in Requests : reqs'[q] = reqs[q] \/ reqs'[q] = Idle
    PROVE  IInv'
  <1>1. /\ d \in Ids /\ made \in Nat /\ new # None
        /\ UNCHANGED <<cases, scanned, made, orders, grants, sent, handed, withdrawn, disputes, dsrs>>
    BY BoundsAssumption
       DEF IInv, TypeOK, Ids, NoneIsNothing, library, sales, rights
  <1>2. datasets'[d] = new /\ \A e \in Ids \ {d} : datasets'[e] = datasets[e]
    BY <1>1 DEF IInv, TypeOK
  <1>3. datasets[d].artifacts = Artifacts => new.artifacts = Artifacts
    <2>1. new.artifacts \subseteq Artifacts
      BY DEF Dataset
    <2> QED
      BY <2>1
  <1>4. \A e \in 1 .. made : e \in Ids
    BY <1>1, BoundsAssumption DEF IInv, TypeOK, Ids
  <1>5. Grows
    <2>1. \A e \in 1 .. made : /\ datasets'[e].cases = datasets[e].cases
                               /\ datasets'[e].purpose = datasets[e].purpose
                               /\ Complete(e) => Complete(e)'
      <3> SUFFICES ASSUME NEW e \in 1 .. made
                   PROVE  /\ datasets'[e].cases = datasets[e].cases
                          /\ datasets'[e].purpose = datasets[e].purpose
                          /\ Complete(e) => Complete(e)'
        OBVIOUS
      <3>1. CASE e = d
        <4>1. datasets'[e] = new /\ datasets[e] = datasets[d]
          BY <1>2, <3>1
        <4> QED
          BY <1>3, <4>1 DEF Complete
      <3>2. CASE e # d
        BY <1>2, <1>4, <3>2 DEF Complete
      <3> QED
        BY <3>1, <3>2
    <2> QED
      BY <1>1, <2>1 DEF Grows
  <1>6. TypeOK'
    <2>1. datasets' \in [Ids -> Dataset \union {None}]
      BY <1>1 DEF IInv, TypeOK
    <2>2. \A e \in Ids : datasets'[e] # None <=> e <= made
      BY <1>1, <1>2 DEF IInv, TypeOK
    <2> QED
      BY <1>1, <2>1, <2>2 DEF IInv, TypeOK
  <1>7. DatasetOK(d)'
    <2>1. new.evaluation = "completed" => Deliverable(d)' /\ Isolated(d)'
      BY <1>1, <1>5, DeliverableLasts, IsolatedLasts DEF IInv
    <2> QED
      BY <1>2, <2>1 DEF DatasetOK, Complete
  <1>8. \A e \in 1 .. made' :
              \/ /\ e \in 1 .. made
                 /\ datasets'[e].billed = datasets[e].billed
                 /\ datasets'[e].evaluation = datasets[e].evaluation
              \/ DatasetOK(e)'
    BY <1>1, <1>2, <1>4, <1>7
  <1>9. \A q \in Requests : reqs'[q] = reqs[q] \/ RequestOK(reqs[q])'
    <2> SUFFICES ASSUME NEW q \in Requests, reqs'[q] = Idle
                 PROVE  RequestOK(reqs[q])'
      OBVIOUS
    <2> QED
      BY IdleIsOK DEF RequestOK, Exporting, Evaluating, Delivering, Closing, DeliveryPcs
  <1>10. \A g \in Grants : grants[g] # None \/ GrantOK(g)'
    BY <1>1 DEF GrantOK
  <1> QED
    BY <1>1, <1>5, <1>6, <1>8, <1>9, <1>10, StepInOrder

LEMMA EndsOneRequest ==
    ASSUME TypeOK, NEW q \in Requests, reqs' = [reqs EXCEPT ![q] = Idle]
    PROVE  /\ reqs' \in [Requests -> Request]
           /\ \A s \in Requests : reqs'[s] = reqs[s] \/ reqs'[s] = Idle
  BY IdleIsOK DEF TypeOK

LEMMA NowIsOK == ASSUME TypeOK PROVE Now \in Began /\ BeganOK(Now)
  <1>1. withdrawn \in SUBSET Authorizations /\ OpenDisputes \in SUBSET Disputes
    BY DEF TypeOK, OpenDisputes
  <1>2. Now \in Began /\ Now.gone = withdrawn /\ Now.open = OpenDisputes
    BY <1>1 DEF Now, Began
  <1> QED
    BY <1>2 DEF BeganOK, OpenDisputes

LEMMA DatasetFields ==
    ASSUME TypeOK, NEW d \in 1 .. made
    PROVE  d \in Ids /\ datasets[d] \in Dataset
  BY BoundsAssumption DEF TypeOK, Ids

-----------------------------------------------------------------------------
(* Exports.                                                                 *)

LEMMA ReadEligibleKeeps ==
    ASSUME IInv, NEW q \in Requests, NEW purpose \in Purposes, ReadEligible(q, purpose)
    PROVE  IInv'
  <1>1. PICK S \in SUBSET Eligible :
           Goto(q, [pc |-> "authorizing", chosen |-> S, purpose |-> purpose,
                    todo |-> OwnersOf(S), began |-> Now])
    BY DEF ReadEligible
  <1> DEFINE todo == OwnersOf(S)
             began == Now
             new == [pc |-> "authorizing", chosen |-> S, purpose |-> purpose,
                     todo |-> todo, began |-> began]
  <1>2. S \in SUBSET Cases /\ todo \in SUBSET Owners /\ \A c \in S : Owner[c] \in todo
    BY OwnersAssumption DEF Eligible, OwnersOf
  <1>3. began \in Began /\ BeganOK(began)
    BY NowIsOK DEF IInv
  <1>4. Goto(q, new)
    BY <1>1
  <1> HIDE DEF todo, began
  <1>5. new \in Request
    BY <1>2, <1>3 DEF Request
  <1>6. new.pc = "authorizing" /\ new.chosen = S /\ new.todo = todo /\ new.began = began
    OBVIOUS
  <1> HIDE DEF new
  <1>7. RequestOK(new)
    BY <1>2, <1>3, <1>6
       DEF RequestOK, Exporting, Evaluating, Delivering, Closing, DeliveryPcs
  <1> QED
    BY <1>4, <1>5, <1>7, GotoKeeps

LEMMA AuthorizeOwnerKeeps ==
    ASSUME IInv, NEW q \in Requests, NEW o \in Owners, AuthorizeOwner(q, o)
    PROVE  IInv'
  <1> DEFINE r == reqs[q]
             kept == IF Gone(o) THEN {c \in r.chosen : Owner[c] # o} ELSE r.chosen
             rest == r.todo \ {o}
             new == [r EXCEPT !.chosen = kept, !.todo = rest]
  <1>1. r.pc = "authorizing" /\ Goto(q, new)
    BY DEF AuthorizeOwner
  <1>2. /\ r \in [pc : {"authorizing"}, chosen : SUBSET Cases, purpose : Purposes,
                   todo : SUBSET Owners, began : Began]
        /\ Exporting(r)
    BY <1>1, RequestKinds DEF IInv, TypeOK, RequestOK
  <1>3. /\ BeganOK(r.began)
        /\ \A c \in r.chosen :
              Owner[c] \in r.todo \/ AuthorizationID[Owner[c]] \notin r.began.gone
    BY <1>1, <1>2 DEF Exporting
  <1>4. /\ kept \in SUBSET Cases /\ rest \in SUBSET Owners
        /\ \A c \in kept :
              Owner[c] \in rest \/ AuthorizationID[Owner[c]] \notin r.began.gone
    BY <1>2, <1>3 DEF Gone, BeganOK
  <1> HIDE DEF kept, rest, r
  <1>5. /\ new \in Request
        /\ new.pc = "authorizing" /\ new.chosen = kept /\ new.todo = rest
        /\ new.began = r.began
    BY <1>2, <1>4 DEF Request
  <1> HIDE DEF new
  <1>6. RequestOK(new)
    BY <1>3, <1>4, <1>5
       DEF RequestOK, Exporting, Evaluating, Delivering, Closing, DeliveryPcs
  <1> QED
    BY <1>1, <1>5, <1>6, GotoKeeps

LEMMA CreateDatasetKeeps ==
    ASSUME NoneIsNothing, IInv, NEW q \in Requests, CreateDataset(q)
    PROVE  IInv'
  <1> DEFINE r == reqs[q]
             chosen == r.chosen
             purpose == r.purpose
             row == [cases |-> chosen, purpose |-> purpose, artifacts |-> {},
                     billed |-> FALSE, evaluation |-> "none"]
  <1>0. PICK n : n = made + 1
    OBVIOUS
  <1> DEFINE state == [pc |-> "writing", dataset |-> n, began |-> r.began]
  <1>1. /\ r.pc = "authorizing" /\ made < MaxDatasets /\ made' = n
        /\ datasets' = [datasets EXCEPT ![n] = row]
        /\ reqs' = [reqs EXCEPT ![q] = state]
        /\ UNCHANGED <<cases, scanned, orders, grants, sent, handed, withdrawn, disputes, dsrs>>
    BY <1>0 DEF CreateDataset, library, sales, rights
  <1>2. /\ r \in [pc : {"authorizing"}, chosen : SUBSET Cases, purpose : Purposes,
                   todo : SUBSET Owners, began : Began]
        /\ made \in Nat /\ n \in Ids /\ n \in Nat /\ made < n
    BY <1>0, <1>1, RequestKinds, BoundsAssumption DEF IInv, TypeOK, Ids
  <1>3. row \in Dataset /\ row # None
    <2>1. chosen \in SUBSET Cases /\ purpose \in Purposes
      BY <1>2
    <2> HIDE DEF chosen, purpose
    <2>2. row \in Dataset
      BY <2>1 DEF Dataset
    <2> QED
      BY <2>2 DEF NoneIsNothing
  <1>4. state \in Request
    BY <1>2 DEF Request
  <1>5. row.billed = FALSE /\ row.evaluation = "none"
    OBVIOUS
  <1>6. state.pc = "writing" /\ state.dataset = n
    OBVIOUS
  <1> HIDE DEF row, state
  <1>7. datasets'[n] = row /\ \A d \in Ids \ {n} : datasets'[d] = datasets[d]
    BY <1>1, <1>2 DEF IInv, TypeOK
  <1>8. \A d \in 1 .. made : d \in Ids \ {n}
    BY <1>2, BoundsAssumption DEF Ids
  <1>9. Grows
    <2>1. made <= made'
      BY <1>1, <1>2
    <2>2. \A d \in 1 .. made : /\ datasets'[d].cases = datasets[d].cases
                               /\ datasets'[d].purpose = datasets[d].purpose
                               /\ Complete(d) => Complete(d)'
      BY <1>7, <1>8 DEF Complete
    <2> QED
      BY <1>1, <2>1, <2>2 DEF Grows
  <1>10. TypeOK'
    <2>1. datasets' \in [Ids -> Dataset \union {None}]
      BY <1>1, <1>3 DEF IInv, TypeOK
    <2>2. \A d \in Ids : datasets'[d] # None <=> d <= made'
      <3> SUFFICES ASSUME NEW d \in Ids PROVE datasets'[d] # None <=> d <= n
        BY <1>1
      <3>1. CASE d = n
        BY <1>2, <1>3, <1>7, <3>1
      <3>2. CASE d # n
        <4>1. d \in Nat /\ (datasets[d] # None <=> d <= made)
          BY DEF IInv, TypeOK, Ids
        <4> QED
          BY <1>0, <1>2, <1>7, <3>2, <4>1
      <3> QED
        BY <3>1, <3>2
    <2>3. made' \in 0 .. MaxDatasets
      BY <1>0, <1>1, <1>2, BoundsAssumption
    <2> QED
      BY <1>1, <1>4, <2>1, <2>2, <2>3 DEF IInv, TypeOK
  <1>11. \A d \in 1 .. made' :
              \/ /\ d \in 1 .. made
                 /\ datasets'[d].billed = datasets[d].billed
                 /\ datasets'[d].evaluation = datasets[d].evaluation
              \/ DatasetOK(d)'
    <2>1. DatasetOK(n)'
      BY <1>5, <1>7 DEF DatasetOK
    <2>2. \A d \in 1 .. n : d \in 1 .. made \/ d = n
      BY <1>0, <1>2
    <2>3. \A d \in 1 .. n : d = n => DatasetOK(d)'
      BY <2>1
    <2> QED
      BY <1>1, <1>7, <1>8, <2>2, <2>3
  <1>12. \A s \in Requests : reqs'[s] = reqs[s] \/ RequestOK(reqs[s])'
    <2> SUFFICES ASSUME NEW s \in Requests, reqs'[s] = state
                 PROVE  RequestOK(reqs[s])'
      BY <1>1 DEF IInv, TypeOK
    <2>1. n \in 1 .. made'
      BY <1>1, <1>2
    <2> QED
      BY <1>6, <2>1 DEF RequestOK, Exporting, Evaluating, Delivering, Closing, DeliveryPcs
  <1>13. \A g \in Grants : grants[g] # None \/ GrantOK(g)'
    BY <1>1 DEF GrantOK
  <1> QED
    BY <1>1, <1>9, <1>10, <1>11, <1>12, <1>13, StepInOrder

LEMMA CreateArtifactKeeps ==
    ASSUME NoneIsNothing, IInv, NEW q \in Requests, NEW t \in Artifacts,
           CreateDatasetArtifact(q, t)
    PROVE  IInv'
  <1> DEFINE d == reqs[q].dataset
             arts == datasets[d].artifacts \union {t}
             new == [datasets[d] EXCEPT !.artifacts = arts]
  <1>1. /\ reqs[q].pc = "writing" /\ t \notin datasets[d].artifacts
        /\ datasets' = [datasets EXCEPT ![d].artifacts = @ \union {t}]
        /\ UNCHANGED <<library, made, sales, rights, reqs>>
    BY DEF CreateDatasetArtifact
  <1>2. d \in 1 .. made
    BY <1>1 DEF IInv, RequestOK, Exporting
  <1>3. datasets[d] \in Dataset /\ DatasetOK(d)
    BY <1>2, DatasetFields DEF IInv
  <1>4. datasets' = [datasets EXCEPT ![d] = new]
    BY <1>1
  <1>5. arts \in SUBSET Artifacts /\ datasets[d].artifacts \subseteq arts
    BY <1>3 DEF Dataset
  <1>6. arts # datasets[d].artifacts /\ ~Complete(d)
    BY <1>1 DEF Complete
  <1> HIDE DEF arts, d
  <1>7. /\ new \in Dataset /\ new.cases = datasets[d].cases
        /\ new.purpose = datasets[d].purpose /\ new.artifacts = arts
        /\ new.evaluation = datasets[d].evaluation
    BY <1>3, <1>5 DEF Dataset
  <1>8. ~new.billed
    BY <1>3, <1>5, <1>6 DEF Dataset, DatasetOK
  <1> HIDE DEF new
  <1>9. new.evaluation = "completed" => Deliverable(d) /\ Isolated(d)
    BY <1>3, <1>7 DEF DatasetOK
  <1>10. reqs' \in [Requests -> Request] /\ \A s \in Requests : reqs'[s] = reqs[s]
    BY <1>1 DEF IInv, TypeOK
  <1> QED
    BY <1>1, <1>2, <1>4, <1>5, <1>7, <1>8, <1>9, <1>10, DatasetKeeps

LEMMA CreateUsageEventKeeps ==
    ASSUME NoneIsNothing, IInv, NEW q \in Requests, CreateUsageEvent(q)
    PROVE  IInv'
  <1> DEFINE d == reqs[q].dataset
             new == [datasets[d] EXCEPT !.billed = TRUE]
  <1>1. /\ reqs[q].pc = "writing" /\ datasets[d].artifacts = Artifacts
        /\ datasets' = [datasets EXCEPT ![d].billed = TRUE]
        /\ reqs' = [reqs EXCEPT ![q] = Idle]
        /\ UNCHANGED <<library, made, sales, rights>>
    BY DEF CreateUsageEvent
  <1>2. d \in 1 .. made
    BY <1>1 DEF IInv, RequestOK, Exporting
  <1>3. datasets[d] \in Dataset /\ DatasetOK(d)
    BY <1>2, DatasetFields DEF IInv
  <1>4. datasets' = [datasets EXCEPT ![d] = new]
    BY <1>1
  <1> HIDE DEF d
  <1>5. /\ new \in Dataset /\ new.cases = datasets[d].cases
        /\ new.purpose = datasets[d].purpose /\ new.artifacts = datasets[d].artifacts
        /\ new.evaluation = datasets[d].evaluation
    BY <1>3 DEF Dataset
  <1> HIDE DEF new
  <1>6. new.evaluation = "completed" => Deliverable(d) /\ Isolated(d)
    BY <1>3, <1>5 DEF DatasetOK
  <1>7. /\ reqs' \in [Requests -> Request]
        /\ \A s \in Requests : reqs'[s] = reqs[s] \/ reqs'[s] = Idle
    BY <1>1, EndsOneRequest DEF IInv
  <1>8. new.artifacts = Artifacts /\ datasets[d].artifacts \subseteq new.artifacts
    BY <1>1, <1>5 DEF d
  <1> QED
    BY <1>1, <1>2, <1>4, <1>5, <1>6, <1>7, <1>8, DatasetKeeps

-----------------------------------------------------------------------------
(* Evaluations.                                                             *)

LEMMA StartEvaluationKeeps ==
    ASSUME IInv, NEW q \in Requests, NEW d \in Ids, StartEvaluation(q, d)
    PROVE  IInv'
  <1> DEFINE critical == datasets[d].artifacts # Artifacts
             new == [pc |-> "comparing", dataset |-> d, critical |-> critical]
  <1>1. d <= made /\ Goto(q, new)
    BY DEF StartEvaluation
  <1>2. d \in 1 .. made /\ critical \in BOOLEAN /\ (~critical => Complete(d))
    BY <1>1, BoundsAssumption DEF IInv, TypeOK, Ids, Complete
  <1> HIDE DEF critical
  <1>3. new \in Request
    BY <1>2 DEF Request
  <1>4. new.pc = "comparing" /\ new.dataset = d
    OBVIOUS
  <1>5. ~new.critical => ~critical
    OBVIOUS
  <1> HIDE DEF new
  <1>6. RequestOK(new)
    BY <1>2, <1>4, <1>5
       DEF RequestOK, Exporting, Evaluating, Delivering, Closing, DeliveryPcs
  <1> QED
    BY <1>1, <1>3, <1>6, GotoKeeps

\* An overlap query that is not cut off returns every overlap.
LEMMA OverlapsAreRead ==
    ASSUME TypeOK, OverlapsFit, NEW d \in 1 .. made, NEW S \in OverlapsRead(d)
    PROVE  S = Overlaps(d)
  <1>1. Overlaps(d) \subseteq Ids \X Cases
    BY BoundsAssumption DEF Overlaps, TypeOK, Ids
  <1>2. /\ IsFiniteSet(Overlaps(d))
        /\ Cardinality(Overlaps(d)) <= Cardinality(Ids \X Cases)
    BY <1>1, FS_Subset DEF OverlapsFit
  <1>3. /\ S \subseteq Overlaps(d)
        /\ S = Overlaps(d) \/ Cardinality(S) = OverlapLimit
    BY DEF OverlapsRead
  <1>4. /\ Cardinality(S) <= Cardinality(Overlaps(d))
        /\ Cardinality(S) = Cardinality(Overlaps(d)) => S = Overlaps(d)
    BY <1>2, <1>3, FS_Subset
  <1>5. /\ Cardinality(Overlaps(d)) \in Nat /\ Cardinality(Ids \X Cases) \in Nat
        /\ OverlapLimit \in Nat
    BY <1>2, FS_CardinalityType, BoundsAssumption DEF OverlapsFit
  <1> QED
    BY <1>2, <1>3, <1>4, <1>5 DEF OverlapsFit

LEMMA OverlapsKeep ==
    ASSUME IInv, NEW q \in Requests, DatasetCaseOverlaps(q)
    PROVE  IInv'
  <1> DEFINE r == reqs[q]
             d == r.dataset
             overlap(S) == \E e \in S :
                HoldoutIsolationRequired(datasets[d].purpose, datasets[e[1]].purpose)
  <1>1. r.pc = "comparing"
    BY DEF DatasetCaseOverlaps
  <1>2. PICK S \in OverlapsRead(d) :
           Goto(q, [pc |-> "inspecting", dataset |-> d,
                    critical |-> r.critical \/ overlap(S), todo |-> datasets[d].cases])
    BY DEF DatasetCaseOverlaps
  <1> DEFINE critical == r.critical \/ overlap(S)
             todo == datasets[d].cases
             new == [pc |-> "inspecting", dataset |-> d, critical |-> critical,
                     todo |-> todo]
  <1>3. /\ r \in [pc : {"comparing"}, dataset : Ids, critical : BOOLEAN]
        /\ d \in 1 .. made /\ (~r.critical => Complete(d))
    BY <1>1, RequestKinds DEF IInv, TypeOK, RequestOK, Evaluating
  <1>4. critical \in BOOLEAN /\ todo \in SUBSET Cases
    BY <1>3, DatasetFields DEF IInv, Dataset
  <1>5. ~critical => Isolated(d)
    <2> SUFFICES ASSUME ~overlap(S), OverlapsFit, NEW e \in 1 .. made, e < d
                 PROVE  ~Clash(d, e)
      BY DEF Isolated
    <2>1. S = Overlaps(d)
      BY <1>3, OverlapsAreRead DEF IInv
    <2>2. ASSUME NEW c \in Cases, c \in datasets[d].cases \intersect datasets[e].cases
          PROVE  ~HoldoutIsolationRequired(datasets[d].purpose, datasets[e].purpose)
      <3>1. <<e, c>> \in S
        BY <1>3, <2>1, <2>2 DEF Overlaps
      <3> QED
        BY <3>1
    <2>3. datasets[d].cases \subseteq Cases
      BY <1>4
    <2> QED
      BY <2>2, <2>3 DEF Clash
  <1>6. Goto(q, new)
    BY <1>2
  <1>7. ~critical => Complete(d)
    BY <1>3
  <1>8. \A c \in datasets[d].cases : c \in todo
    OBVIOUS
  <1> HIDE DEF critical, todo, d
  <1>9. new \in Request
    BY <1>3, <1>4 DEF Request, d
  <1>10. new.pc = "inspecting" /\ new.dataset = d /\ new.todo = todo
    OBVIOUS
  <1>11. ~new.critical => ~critical
    OBVIOUS
  <1> HIDE DEF new
  <1>12. RequestOK(new)
    BY <1>3, <1>5, <1>7, <1>8, <1>10, <1>11
       DEF RequestOK, Exporting, Evaluating, Delivering, Closing, DeliveryPcs
  <1> QED
    BY <1>6, <1>9, <1>12, GotoKeeps

LEMMA InspectCaseKeeps ==
    ASSUME IInv, NEW q \in Requests, NEW c \in Cases, InspectCase(q, c)
    PROVE  IInv'
  <1> DEFINE r == reqs[q]
             critical == r.critical \/ ~Sound(c)
             todo == r.todo \ {c}
             new == [r EXCEPT !.critical = critical, !.todo = todo]
  <1>1. r.pc = "inspecting" /\ Goto(q, new)
    BY DEF InspectCase
  <1>2. /\ r \in [pc : {"inspecting"}, dataset : Ids, critical : BOOLEAN,
                   todo : SUBSET Cases]
        /\ r.dataset \in 1 .. made
        /\ ~r.critical => /\ Complete(r.dataset) /\ Isolated(r.dataset)
                          /\ \A b \in datasets[r.dataset].cases :
                                b \in r.todo \/ ScanAllows(b)
    BY <1>1, RequestKinds DEF IInv, TypeOK, RequestOK, Evaluating
  <1>3. /\ critical \in BOOLEAN /\ todo \in SUBSET Cases
        /\ ~critical => ~r.critical /\ \A b \in datasets[r.dataset].cases :
                                         b \in todo \/ ScanAllows(b)
    BY <1>2 DEF Sound
  <1> HIDE DEF critical, todo, r
  <1>4. /\ new \in Request
        /\ new.pc = "inspecting" /\ new.dataset = r.dataset /\ new.todo = todo
    BY <1>2, <1>3 DEF Request
  <1>5. ~new.critical => ~critical
    BY <1>2, <1>3
  <1> HIDE DEF new
  <1>6. RequestOK(new)
    BY <1>2, <1>3, <1>4, <1>5
       DEF RequestOK, Exporting, Evaluating, Delivering, Closing, DeliveryPcs
  <1> QED
    BY <1>1, <1>4, <1>6, GotoKeeps

LEMMA CreateEvaluationKeeps ==
    ASSUME NoneIsNothing, IInv, NEW q \in Requests, CreateDatasetEvaluation(q)
    PROVE  IInv'
  <1> DEFINE r == reqs[q]
             d == r.dataset
             result == IF r.critical THEN "blocked" ELSE "completed"
             new == [datasets[d] EXCEPT !.evaluation = result]
  <1>1. /\ r.pc = "inspecting" /\ r.todo = {}
        /\ datasets' = [datasets EXCEPT ![d].evaluation = result]
        /\ reqs' = [reqs EXCEPT ![q] = Idle]
        /\ UNCHANGED <<library, made, sales, rights>>
    BY DEF CreateDatasetEvaluation
  <1>2. /\ d \in 1 .. made
        /\ ~r.critical => /\ Complete(d) /\ Isolated(d)
                          /\ \A c \in datasets[d].cases : ScanAllows(c)
    BY <1>1 DEF IInv, RequestOK, Evaluating
  <1>3. datasets[d] \in Dataset /\ DatasetOK(d)
    BY <1>2, DatasetFields DEF IInv
  <1>4. datasets' = [datasets EXCEPT ![d] = new]
    BY <1>1
  <1>5. /\ result \in {"none", "completed", "blocked"}
        /\ result = "completed" => ~r.critical
    OBVIOUS
  <1>6. result = "completed" => Deliverable(d) /\ Isolated(d)
    BY <1>2, <1>5 DEF Deliverable
  <1> HIDE DEF d, result
  <1>7. /\ new \in Dataset /\ new.cases = datasets[d].cases
        /\ new.purpose = datasets[d].purpose /\ new.artifacts = datasets[d].artifacts
        /\ new.evaluation = result
    BY <1>3, <1>5 DEF Dataset
  <1>8. new.billed => new.artifacts = Artifacts
    BY <1>3, <1>5, <1>7 DEF Dataset, DatasetOK, Complete
  <1> HIDE DEF new
  <1>9. /\ reqs' \in [Requests -> Request]
        /\ \A s \in Requests : reqs'[s] = reqs[s] \/ reqs'[s] = Idle
    BY <1>1, EndsOneRequest DEF IInv
  <1> QED
    BY <1>1, <1>2, <1>4, <1>6, <1>7, <1>8, <1>9, DatasetKeeps

-----------------------------------------------------------------------------
(* Moves of a grant, a download or a report.                                *)

DeliveryRecord ==
    [pc : DeliveryPcs, kind : {"grant", "download", "report"}, dataset : Ids,
     grant : Grants \union {None}, order : Orders \union {None},
     customer : Customers \union {None}, max : Budgets, todo : SUBSET Owners,
     began : Began]

LEMMA DeliveryFields ==
    ASSUME IInv, NEW q \in Requests, reqs[q].pc \in DeliveryPcs
    PROVE  reqs[q] \in DeliveryRecord /\ Delivering(reqs[q])
  BY RequestKinds DEF IInv, TypeOK, RequestOK, DeliveryRecord

LEMMA MoveIsOK ==
    ASSUME NEW new \in DeliveryRecord,
           BeganOK(new.began), new.dataset \in 1 .. made,
           new.kind # "grant" => ForGrant(new.grant, new.dataset),
           new.pc # "evaluation" =>
              Deliverable(new.dataset) /\ Unwithdrawn(new.dataset, new.todo, new.began.gone),
           new.pc \in Checked => new.todo = {} /\ Undisputed(new.dataset, new.began.open),
           new.pc \in Portal => new.kind # "grant",
           new.pc = "granting" /\ new.order # None =>
              Ordered(new.order, new.dataset, new.customer)
    PROVE  new \in Request /\ RequestOK(new)
  <1>1. new.pc \in DeliveryPcs
    BY DEF DeliveryRecord
  <1>2. Delivering(new)
    BY DEF Delivering
  <1>3. new \in Request
    BY DEF Request, DeliveryRecord
  <1> QED
    BY <1>1, <1>2, <1>3 DEF RequestOK, Exporting, Evaluating, Closing, DeliveryPcs

\* A request that goes on, with a new pc and todo.
LEMMA GoesOn ==
    ASSUME IInv, NEW q \in Requests, reqs[q].pc \in DeliveryPcs,
           NEW new \in DeliveryRecord, Goto(q, new),
           new.kind = reqs[q].kind, new.dataset = reqs[q].dataset,
           new.grant = reqs[q].grant, new.order = reqs[q].order,
           new.customer = reqs[q].customer, new.began = reqs[q].began,
           new.pc # "evaluation",
           Deliverable(new.dataset), Unwithdrawn(new.dataset, new.todo, new.began.gone),
           new.pc \in Checked => new.todo = {} /\ Undisputed(new.dataset, new.began.open),
           new.pc \in Portal => new.kind # "grant",
           new.pc = "granting" /\ new.order # None =>
              Ordered(new.order, new.dataset, new.customer)
    PROVE  IInv'
  <1>1. Delivering(reqs[q])
    BY DeliveryFields
  <1>2. new \in Request /\ RequestOK(new)
    BY <1>1, MoveIsOK DEF Delivering
  <1> QED
    BY <1>2, GotoKeeps

LEMMA StopKeeps == ASSUME IInv, NEW q \in Requests, Goto(q, Idle) PROVE IInv'
  BY IdleIsOK, GotoKeeps

LEMMA StartsKeep ==
    ASSUME IInv, NEW q \in Requests,
           \/ \E d \in Ids, o \in Orders \union {None}, b \in Customers \union {None},
                 n \in Budgets : StartGrant(q, d, o, b, n)
           \/ \E g \in Grants, kind \in {"download", "report"} : StartPortal(q, g, kind)
    PROVE  IInv'
  <1>1. Now \in Began /\ BeganOK(Now)
    BY NowIsOK DEF IInv
  <1>2. ASSUME NEW d \in Ids, NEW o \in Orders \union {None},
               NEW b \in Customers \union {None}, NEW n \in Budgets,
               StartGrant(q, d, o, b, n)
        PROVE  IInv'
    <2> DEFINE began == Now
               new == [pc |-> "evaluation", kind |-> "grant", dataset |-> d,
                       grant |-> None, order |-> o, customer |-> b, max |-> n,
                       todo |-> {}, began |-> began]
    <2>1. d \in 1 .. made /\ Goto(q, new)
      BY <1>2, BoundsAssumption DEF StartGrant, Ids, IInv, TypeOK
    <2>2. began \in Began /\ BeganOK(began)
      BY <1>1
    <2> HIDE DEF began
    <2>3. new \in DeliveryRecord
      BY <2>2 DEF DeliveryRecord, DeliveryPcs
    <2>4. /\ new.pc = "evaluation" /\ new.kind = "grant" /\ new.dataset = d
          /\ new.began = began
      OBVIOUS
    <2> HIDE DEF new
    <2>5. new \in Request /\ RequestOK(new)
      BY <2>1, <2>2, <2>3, <2>4, MoveIsOK DEF Checked, Portal
    <2> QED
      BY <2>1, <2>5, GotoKeeps
  <1>3. ASSUME NEW g \in Grants, NEW kind \in {"download", "report"},
               StartPortal(q, g, kind)
        PROVE  IInv'
    <2> DEFINE began == Now
               d == grants[g].dataset
               n == grants[g].max
               new == [pc |-> "evaluation", kind |-> kind, dataset |-> d, grant |-> g,
                       order |-> None, customer |-> None, max |-> n,
                       todo |-> {}, began |-> began]
    <2>1. grants[g] # None /\ Goto(q, new)
      BY <1>3 DEF StartPortal
    <2>2. began \in Began /\ BeganOK(began)
      BY <1>1
    <2>3. d \in Ids /\ n \in Budgets /\ d \in 1 .. made /\ ForGrant(g, d)
      BY <2>1 DEF IInv, TypeOK, Grant, GrantOK, ForGrant
    <2> HIDE DEF began, d, n
    <2>4. new \in DeliveryRecord
      BY <2>2, <2>3 DEF DeliveryRecord, DeliveryPcs
    <2>5. /\ new.pc = "evaluation" /\ new.dataset = d /\ new.began = began
          /\ new.grant = g
      OBVIOUS
    <2> HIDE DEF new
    <2>6. new \in Request /\ RequestOK(new)
      BY <2>2, <2>3, <2>4, <2>5, MoveIsOK DEF Checked, Portal
    <2> QED
      BY <2>1, <2>6, GotoKeeps
  <1> QED
    BY <1>2, <1>3

LEMMA CheckEvaluationKeeps ==
    ASSUME IInv, NEW q \in Requests, CheckEvaluation(q)
    PROVE  IInv'
  <1> DEFINE r == reqs[q]
             d == r.dataset
             todo == OwnersOf(datasets[d].cases)
             new == [r EXCEPT !.pc = "authorizations", !.todo = todo]
  <1>1. /\ r.pc = "evaluation"
        /\ \/ Goto(q, Idle)
           \/ datasets[d].evaluation = "completed" /\ Goto(q, new)
    BY DEF CheckEvaluation
  <1>2. CASE Goto(q, Idle)
    BY <1>2, StopKeeps
  <1>3. CASE datasets[d].evaluation = "completed" /\ Goto(q, new)
    <2>1. r \in DeliveryRecord /\ Delivering(r) /\ r.pc \in DeliveryPcs
      BY <1>1, DeliveryFields DEF DeliveryPcs
    <2>2. d \in 1 .. made
      BY <2>1 DEF Delivering
    <2>3. Deliverable(d)
      BY <1>3, <2>2 DEF IInv, DatasetOK
    <2>4. todo \in SUBSET Owners /\ \A c \in datasets[d].cases : Owner[c] \in todo
      BY <2>2, DatasetFields, OwnersAssumption DEF IInv, Dataset, OwnersOf
    <2> HIDE DEF todo
    <2>5. /\ new \in DeliveryRecord /\ new.pc = "authorizations" /\ new.todo = todo
          /\ new.kind = r.kind /\ new.dataset = d /\ new.grant = r.grant
          /\ new.order = r.order /\ new.customer = r.customer /\ new.began = r.began
      BY <2>1, <2>4 DEF DeliveryRecord, DeliveryPcs
    <2>6. Goto(q, new)
      BY <1>3
    <2> HIDE DEF new
    <2>7. Unwithdrawn(new.dataset, new.todo, new.began.gone)
      BY <2>4, <2>5 DEF Unwithdrawn
    <2> QED
      BY <2>1, <2>3, <2>5, <2>6, <2>7, GoesOn DEF Checked, Portal
  <1> QED
    BY <1>1, <1>2, <1>3

LEMMA CheckAuthorizationKeeps ==
    ASSUME IInv, NEW q \in Requests, NEW o \in Owners, CheckAuthorization(q, o)
    PROVE  IInv'
  <1> DEFINE r == reqs[q]
             d == r.dataset
             todo == r.todo \ {o}
             new == [r EXCEPT !.todo = todo]
  <1>1. /\ r.pc = "authorizations"
        /\ Goto(q, Idle) \/ (~Gone(o) /\ Goto(q, new))
    BY DEF CheckAuthorization
  <1>2. CASE Goto(q, Idle)
    BY <1>2, StopKeeps
  <1>3. CASE ~Gone(o) /\ Goto(q, new)
    <2>1. r \in DeliveryRecord /\ Delivering(r) /\ r.pc \in DeliveryPcs
      BY <1>1, DeliveryFields DEF DeliveryPcs
    <2>2. /\ Deliverable(d) /\ Unwithdrawn(d, r.todo, r.began.gone)
          /\ r.began.gone \subseteq withdrawn
      BY <1>1, <2>1 DEF Delivering, BeganOK
    <2>3. Unwithdrawn(d, todo, r.began.gone)
      BY <1>3, <2>2 DEF Unwithdrawn, Gone
    <2>4. todo \in SUBSET Owners
      BY <2>1 DEF DeliveryRecord
    <2> HIDE DEF todo
    <2>5. /\ new \in DeliveryRecord /\ new.pc = "authorizations" /\ new.todo = todo
          /\ new.kind = r.kind /\ new.dataset = d /\ new.grant = r.grant
          /\ new.order = r.order /\ new.customer = r.customer /\ new.began = r.began
      BY <1>1, <2>1, <2>4 DEF DeliveryRecord
    <2>6. Goto(q, new)
      BY <1>3
    <2> HIDE DEF new
    <2> QED
      BY <2>1, <2>2, <2>3, <2>5, <2>6, GoesOn DEF Checked, Portal
  <1> QED
    BY <1>1, <1>2, <1>3

LEMMA DisputeBlockersKeep ==
    ASSUME IInv, NEW q \in Requests, ActiveDisputeBlockers(q)
    PROVE  IInv'
  <1> DEFINE r == reqs[q]
             d == r.dataset
             next == CASE r.kind = "grant"    -> "ordering"
                       [] r.kind = "download" -> "fetching"
                       [] r.kind = "report"   -> "counting"
             new == [r EXCEPT !.pc = next]
  <1>1. /\ r.pc = "authorizations" /\ r.todo = {}
        /\ Goto(q, Idle) \/ (~OpenDispute(d) /\ Goto(q, new))
    BY DEF ActiveDisputeBlockers
  <1>2. CASE Goto(q, Idle)
    BY <1>2, StopKeeps
  <1>3. CASE ~OpenDispute(d) /\ Goto(q, new)
    <2>1. r \in DeliveryRecord /\ Delivering(r) /\ r.pc \in DeliveryPcs
      BY <1>1, DeliveryFields DEF DeliveryPcs
    <2>2. Deliverable(d) /\ Unwithdrawn(d, r.todo, r.began.gone)
      BY <1>1, <2>1 DEF Delivering
    <2>3. Undisputed(d, r.began.open)
      BY <1>3 DEF OpenDispute, Undisputed
    <2>4. /\ next \in {"ordering", "fetching", "counting"}
          /\ next # "ordering" => r.kind # "grant"
      BY <2>1 DEF DeliveryRecord
    <2> HIDE DEF next
    <2>5. next \in DeliveryPcs
      BY <2>4 DEF DeliveryPcs
    <2>6. /\ new \in DeliveryRecord /\ new.pc = next /\ new.todo = r.todo
          /\ new.kind = r.kind /\ new.dataset = d /\ new.grant = r.grant
          /\ new.order = r.order /\ new.customer = r.customer /\ new.began = r.began
      BY <2>1, <2>5 DEF DeliveryRecord
    <2>7. Goto(q, new)
      BY <1>3
    <2> HIDE DEF new
    <2> QED
      BY <1>1, <2>1, <2>2, <2>3, <2>4, <2>6, <2>7, GoesOn DEF Portal
  <1> QED
    BY <1>1, <1>2, <1>3

LEMMA CheckOrderKeeps ==
    ASSUME IInv, NEW q \in Requests, CheckOrder(q)
    PROVE  IInv'
  <1> DEFINE r == reqs[q]
             d == r.dataset
             new == [r EXCEPT !.pc = "granting"]
  <1>1. /\ r.pc = "ordering"
        /\ \/ Goto(q, Idle)
           \/ /\ r.order = None \/ (OrderMatches(q) /\ orders[r.order].recognized)
              /\ Goto(q, new)
    BY DEF CheckOrder
  <1>2. CASE Goto(q, Idle)
    BY <1>2, StopKeeps
  <1>3. CASE /\ r.order = None \/ (OrderMatches(q) /\ orders[r.order].recognized)
             /\ Goto(q, new)
    <2>1. r \in DeliveryRecord /\ Delivering(r) /\ r.pc \in DeliveryPcs
      BY <1>1, DeliveryFields DEF DeliveryPcs
    <2>2. /\ Deliverable(d) /\ Unwithdrawn(d, r.todo, r.began.gone)
          /\ r.todo = {} /\ Undisputed(d, r.began.open)
      BY <1>1, <2>1 DEF Delivering, Checked
    <2>3. r.order # None => Ordered(r.order, d, r.customer)
      BY <1>3 DEF OrderMatches, Ordered
    <2>4. /\ new \in DeliveryRecord /\ new.pc = "granting" /\ new.todo = r.todo
          /\ new.kind = r.kind /\ new.dataset = d /\ new.grant = r.grant
          /\ new.order = r.order /\ new.customer = r.customer /\ new.began = r.began
      BY <2>1 DEF DeliveryRecord, DeliveryPcs
    <2>5. Goto(q, new)
      BY <1>3
    <2> HIDE DEF new
    <2> QED
      BY <2>1, <2>2, <2>3, <2>4, <2>5, GoesOn DEF Portal
  <1> QED
    BY <1>1, <1>2, <1>3

LEMMA FetchKeeps ==
    ASSUME IInv, NEW q \in Requests, NEW t \in Artifacts, FetchArtifact(q, t)
    PROVE  IInv'
  <1> DEFINE r == reqs[q]
             d == r.dataset
             new == [r EXCEPT !.pc = "counting"]
  <1>1. r.pc = "fetching" /\ (Goto(q, Idle) \/ Goto(q, new))
    BY DEF FetchArtifact
  <1>2. CASE Goto(q, Idle)
    BY <1>2, StopKeeps
  <1>3. CASE Goto(q, new)
    <2>1. r \in DeliveryRecord /\ Delivering(r) /\ r.pc \in DeliveryPcs
      BY <1>1, DeliveryFields DEF DeliveryPcs
    <2>2. /\ Deliverable(d) /\ Unwithdrawn(d, r.todo, r.began.gone)
          /\ r.todo = {} /\ Undisputed(d, r.began.open) /\ r.kind # "grant"
      BY <1>1, <2>1 DEF Delivering, Checked, Portal
    <2>3. /\ new \in DeliveryRecord /\ new.pc = "counting" /\ new.todo = r.todo
          /\ new.kind = r.kind /\ new.dataset = d /\ new.grant = r.grant
          /\ new.order = r.order /\ new.customer = r.customer /\ new.began = r.began
      BY <2>1 DEF DeliveryRecord, DeliveryPcs
    <2> HIDE DEF new
    <2> QED
      BY <1>3, <2>1, <2>2, <2>3, GoesOn
  <1> QED
    BY <1>1, <1>2, <1>3

-----------------------------------------------------------------------------
(* Steps that write the other tables.                                       *)

LEMMA SameExports ==
    ASSUME TypeOK, UNCHANGED <<made, datasets>>
    PROVE  /\ made \in Nat /\ made <= made'
           /\ \A d \in 1 .. made : /\ datasets'[d].cases = datasets[d].cases
                                   /\ datasets'[d].purpose = datasets[d].purpose
                                   /\ Complete(d) => Complete(d)'
  BY BoundsAssumption DEF TypeOK, Complete

\* A step outside exports and evaluations.
LEMMA OtherStep ==
    ASSUME IInv, Grows, TypeOK', UNCHANGED <<made, datasets>>,
           \A g \in Grants : grants[g] # None \/ GrantOK(g)',
           \A g \in Grants : sent'[g] = sent[g] \/ SentOK(g)',
           \A r \in DSRs : dsrs'[r] = dsrs[r] \/ DsrOK(r)',
           \A q \in Requests : reqs'[q] = reqs[q] \/ RequestOK(reqs[q])'
    PROVE  IInv'
  BY StepInOrder

LEMMA LibraryKeeps ==
    ASSUME IInv, NEW c \in Cases, ReviewCase(c) \/ RunContentSafety(c)
    PROVE  IInv'
  <1>1. /\ UNCHANGED <<made, datasets, orders, grants, sent, handed, withdrawn, disputes, dsrs, reqs>>
        /\ scanned \subseteq scanned' /\ scanned' \subseteq Cases
        /\ cases' \in [Cases -> CaseRow]
    BY DEF ReviewCase, RunContentSafety, exports, sales, rights, IInv, TypeOK
  <1>2. TypeOK'
    BY <1>1 DEF IInv, TypeOK
  <1>3. Grows
    BY <1>1, SameExports DEF IInv, Grows
  <1>4. \A g \in Grants : grants[g] # None \/ GrantOK(g)'
    BY <1>1 DEF GrantOK
  <1> QED
    BY <1>1, <1>2, <1>3, <1>4, OtherStep

LEMMA HandingKeeps ==
    ASSUME IInv, NEW d \in Ids, NEW t \in Artifacts, DatasetArtifact(d, t)
    PROVE  IInv'
  <1>1. /\ UNCHANGED <<cases, scanned, made, datasets, orders, grants, sent, withdrawn,
                       disputes, dsrs, reqs>>
        /\ handed' \subseteq Ids
    BY DEF DatasetArtifact, library, exports, rights, IInv, TypeOK
  <1>2. TypeOK'
    BY <1>1 DEF IInv, TypeOK
  <1>3. Grows
    BY <1>1, SameExports DEF IInv, Grows
  <1>4. \A g \in Grants : grants[g] # None \/ GrantOK(g)'
    BY <1>1 DEF GrantOK
  <1> QED
    BY <1>1, <1>2, <1>3, <1>4, OtherStep

LEMMA OrdersKeep ==
    ASSUME NoneIsNothing, IInv, NEW o \in Orders,
           \/ \E d \in Ids, b \in Customers : CreateEnterpriseOrder(o, d, b)
           \/ RecognizeEnterpriseOrder(o)
    PROVE  IInv'
  <1>1. UNCHANGED <<cases, scanned, made, datasets, grants, sent, handed, withdrawn, disputes, dsrs,
                    reqs>>
    BY DEF CreateEnterpriseOrder, RecognizeEnterpriseOrder, library, exports, rights
  <1>2. PICK new \in Order :
           /\ orders' = [orders EXCEPT ![o] = new]
           /\ orders[o] # None =>
                 /\ new.dataset = orders[o].dataset /\ new.customer = orders[o].customer
                 /\ new.recognized
    <2>1. ASSUME NEW d \in Ids, NEW b \in Customers, CreateEnterpriseOrder(o, d, b)
          PROVE  \E new \in Order : orders' = [orders EXCEPT ![o] = new] /\ orders[o] = None
      <3> DEFINE new == [dataset |-> d, customer |-> b, recognized |-> FALSE, grant |-> None]
      <3>1. new \in Order
        BY DEF Order
      <3> QED
        BY <2>1, <3>1 DEF CreateEnterpriseOrder
    <2>2. CASE RecognizeEnterpriseOrder(o)
      <3> DEFINE new == [orders[o] EXCEPT !.recognized = TRUE]
      <3>1. orders[o] \in Order /\ orders' = [orders EXCEPT ![o] = new]
        BY <2>2 DEF RecognizeEnterpriseOrder, IInv, TypeOK
      <3>2. /\ new \in Order /\ new.dataset = orders[o].dataset
            /\ new.customer = orders[o].customer
        BY <3>1 DEF Order
      <3>3. new.recognized
        BY <3>1 DEF Order
      <3> QED
        BY <3>1, <3>2, <3>3
    <2> QED
      BY <2>1, <2>2
  <1>3. new # None
    BY DEF NoneIsNothing
  <1>4. orders'[o] = new /\ \A p \in Orders \ {o} : orders'[p] = orders[p]
    BY <1>2 DEF IInv, TypeOK
  <1>5. TypeOK'
    <2>1. orders' \in [Orders -> Order \union {None}]
      BY <1>2 DEF IInv, TypeOK
    <2> QED
      BY <1>1, <2>1 DEF IInv, TypeOK
  <1>6. Grows
    <2>1. \A p \in Orders : orders[p] # None =>
             /\ orders'[p] # None
             /\ orders'[p].dataset = orders[p].dataset
             /\ orders'[p].customer = orders[p].customer
             /\ orders[p].recognized => orders'[p].recognized
      BY <1>2, <1>3, <1>4
    <2> QED
      BY <1>1, <2>1, SameExports DEF IInv, Grows
  <1>7. \A g \in Grants : grants[g] # None \/ GrantOK(g)'
    BY <1>1 DEF GrantOK
  <1> QED
    BY <1>1, <1>5, <1>6, <1>7, OtherStep

LEMMA LinkKeeps ==
    ASSUME NoneIsNothing, IInv, NEW q \in Requests, LinkEnterpriseOrderGrant(q)
    PROVE  IInv'
  <1> DEFINE o == reqs[q].order
             g == reqs[q].grant
             new == [orders[o] EXCEPT !.grant = g]
  <1>1. /\ reqs[q].pc = "linking"
        /\ orders' = [orders EXCEPT ![o].grant = g] /\ reqs' = [reqs EXCEPT ![q] = Idle]
        /\ UNCHANGED <<cases, scanned, made, datasets, grants, sent, handed, withdrawn, disputes,
                       dsrs>>
    BY DEF LinkEnterpriseOrderGrant, library, exports, rights
  <1>2. o \in Orders /\ g \in Grants /\ orders[o] # None
    BY <1>1, RequestKinds DEF IInv, TypeOK, RequestOK, Closing
  <1>3. orders[o] \in Order
    BY <1>2 DEF IInv, TypeOK
  <1>4. orders' = [orders EXCEPT ![o] = new]
    BY <1>1
  <1> HIDE DEF o, g
  <1>5. /\ new \in Order /\ new.dataset = orders[o].dataset
        /\ new.customer = orders[o].customer
    BY <1>2, <1>3 DEF Order
  <1>6. orders[o].recognized => new.recognized
    BY <1>2, <1>3 DEF Order
  <1> HIDE DEF new
  <1>7. new # None
    BY <1>5 DEF NoneIsNothing
  <1>8. orders'[o] = new /\ \A p \in Orders \ {o} : orders'[p] = orders[p]
    BY <1>2, <1>4 DEF IInv, TypeOK
  <1>9. reqs' \in [Requests -> Request]
        /\ \A s \in Requests : reqs'[s] = reqs[s] \/ reqs'[s] = Idle
    BY <1>1, EndsOneRequest DEF IInv
  <1>10. TypeOK'
    <2>1. orders' \in [Orders -> Order \union {None}]
      BY <1>4, <1>5 DEF IInv, TypeOK
    <2> QED
      BY <1>1, <1>9, <2>1 DEF IInv, TypeOK
  <1>11. Grows
    <2>1. \A p \in Orders : orders[p] # None =>
             /\ orders'[p] # None
             /\ orders'[p].dataset = orders[p].dataset
             /\ orders'[p].customer = orders[p].customer
             /\ orders[p].recognized => orders'[p].recognized
      BY <1>5, <1>6, <1>7, <1>8
    <2> QED
      BY <1>1, <2>1, SameExports DEF IInv, Grows
  <1>12. \A h \in Grants : grants[h] # None \/ GrantOK(h)'
    BY <1>1 DEF GrantOK
  <1>13. \A s \in Requests : reqs'[s] = reqs[s] \/ RequestOK(reqs[s])'
    <2> SUFFICES ASSUME NEW s \in Requests, reqs'[s] = Idle
                 PROVE  RequestOK(reqs[s])'
      BY <1>9
    <2> QED
      BY IdleIsOK DEF RequestOK, Exporting, Evaluating, Delivering, Closing, DeliveryPcs
  <1> QED
    BY <1>1, <1>10, <1>11, <1>12, <1>13, OtherStep

\* A step that writes one grant and moves one request.
LEMMA GrantKeeps ==
    ASSUME NoneIsNothing, IInv, NEW q \in Requests, NEW g \in Grants, NEW new \in Grant,
           NEW state \in Request,
           grants' = [grants EXCEPT ![g] = new], new.reads <= new.max,
           grants[g] # None =>
              /\ new.dataset = grants[g].dataset /\ new.order = grants[g].order
              /\ new.customer = grants[g].customer,
           grants[g] = None =>
              /\ new.dataset \in 1 .. made
              /\ new.order # None => Ordered(new.order, new.dataset, new.customer),
           state = reqs[q] \/ RequestOK(state),
           reqs' = [reqs EXCEPT ![q] = state],
           UNCHANGED <<library, exports, orders, sent, handed, rights>>
    PROVE  IInv'
  <1>1. /\ new # None
        /\ UNCHANGED <<cases, scanned, made, datasets, orders, sent, handed, withdrawn, disputes,
                       dsrs>>
    BY DEF NoneIsNothing, library, exports, rights
  <1>2. grants'[g] = new /\ \A h \in Grants \ {g} : grants'[h] = grants[h]
    BY DEF IInv, TypeOK
  <1>3. reqs'[q] = state /\ \A s \in Requests \ {q} : reqs'[s] = reqs[s]
    BY DEF IInv, TypeOK
  <1>4. TypeOK'
    <2>1. grants' \in [Grants -> Grant \union {None}]
      BY DEF IInv, TypeOK
    <2>2. \A h \in Grants : grants'[h] # None => grants'[h].reads <= grants'[h].max
      BY <1>2 DEF IInv, TypeOK
    <2>3. reqs' \in [Requests -> Request]
      BY DEF IInv, TypeOK
    <2> QED
      BY <1>1, <2>1, <2>2, <2>3 DEF IInv, TypeOK
  <1>5. Grows
    <2>1. \A h \in Grants : grants[h] # None =>
             /\ grants'[h] # None
             /\ grants'[h].dataset = grants[h].dataset
             /\ grants'[h].order = grants[h].order
             /\ grants'[h].customer = grants[h].customer
      BY <1>1, <1>2
    <2> QED
      BY <1>1, <2>1, SameExports DEF IInv, Grows
  <1>6. made' \in Nat
    BY <1>4, BoundsAssumption DEF TypeOK
  <1>7. \A h \in Grants : grants[h] # None \/ GrantOK(h)'
    <2> SUFFICES ASSUME NEW h \in Grants, grants[h] = None, grants'[h] # None
                 PROVE  GrantOK(h)'
      BY DEF GrantOK
    <2>1. h = g /\ grants'[h] = new
      BY <1>2
    <2>2. /\ new.dataset \in 1 .. made'
          /\ new.order # None => Ordered(new.order, new.dataset, new.customer)'
      BY <1>1, <2>1 DEF Ordered
    <2> QED
      BY <2>1, <2>2 DEF GrantOK, Ordered
  <1>8. \A s \in Requests : reqs'[s] = reqs[s] \/ RequestOK(reqs[s])'
    <2>1. RequestOK(state)'
      BY <1>5, <1>6, RequestLasts DEF IInv
    <2> SUFFICES ASSUME NEW s \in Requests, s = q
                 PROVE  RequestOK(reqs[s])'
      BY <1>3
    <2> QED
      BY <1>3, <2>1
  <1> QED
    BY <1>1, <1>4, <1>5, <1>7, <1>8, OtherStep

LEMMA CreateGrantKeeps ==
    ASSUME NoneIsNothing, IInv, NEW q \in Requests, NEW g \in Grants,
           CreateDeliveryGrant(q, g)
    PROVE  IInv'
  <1> DEFINE r == reqs[q]
             d == r.dataset
             o == r.order
             b == r.customer
             n == r.max
             new == [dataset |-> d, order |-> o, customer |-> b, max |-> n, reads |-> 0,
                     expired |-> FALSE]
             state == IF o = None THEN Idle
                      ELSE [pc |-> "linking", order |-> o, grant |-> g]
  <1>1. /\ r.pc = "granting" /\ grants[g] = None
        /\ grants' = [grants EXCEPT ![g] = new] /\ reqs' = [reqs EXCEPT ![q] = state]
        /\ UNCHANGED <<library, exports, orders, sent, handed, rights>>
    BY DEF CreateDeliveryGrant
  <1>2. r \in DeliveryRecord /\ Delivering(r) /\ r.pc \in DeliveryPcs
    BY <1>1, DeliveryFields DEF DeliveryPcs
  <1>3. /\ d \in Ids /\ d \in 1 .. made /\ o \in Orders \union {None}
        /\ b \in Customers \union {None} /\ n \in Nat /\ 0 <= n /\ n \in Budgets
        /\ o # None => Ordered(o, d, b)
    <2>1. /\ d \in Ids /\ o \in Orders \union {None} /\ b \in Customers \union {None}
          /\ n \in Budgets
      BY <1>2 DEF DeliveryRecord
    <2>2. d \in 1 .. made /\ (o # None => Ordered(o, d, b))
      BY <1>1, <1>2 DEF Delivering
    <2>3. \A m \in Budgets : m \in Nat /\ 0 <= m
      BY BoundsAssumption
    <2> HIDE DEF d, o, b, n
    <2> QED
      BY <2>1, <2>2, <2>3
  <1> HIDE DEF d, o, b, n
  <1>4. new \in Grant
    BY <1>3 DEF Grant
  <1>5. /\ new.dataset = d /\ new.order = o /\ new.customer = b /\ new.max = n
        /\ new.reads = 0
    OBVIOUS
  <1> HIDE DEF new
  <1>6. state \in Request /\ RequestOK(state)
    <2>1. CASE o = None
      BY <2>1, IdleIsOK
    <2>2. CASE o # None
      <3> DEFINE link == [pc |-> "linking", order |-> o, grant |-> g]
      <3>1. link \in Request /\ link.pc = "linking" /\ link.order = o
        BY <1>3, <2>2 DEF Request
      <3>2. state = link /\ orders[o] # None
        BY <1>3, <2>2 DEF Ordered
      <3> HIDE DEF link
      <3>3. RequestOK(link)
        BY <3>1, <3>2
           DEF RequestOK, Exporting, Evaluating, Delivering, Closing, DeliveryPcs
      <3> QED
        BY <3>1, <3>2, <3>3
    <2> QED
      BY <2>1, <2>2
  <1> HIDE DEF state
  <1> QED
    BY <1>1, <1>3, <1>4, <1>5, <1>6, GrantKeeps

LEMMA ExpireKeeps ==
    ASSUME NoneIsNothing, IInv, NEW g \in Grants, Expire(g)
    PROVE  IInv'
  <1> DEFINE new == [grants[g] EXCEPT !.expired = TRUE]
  <1>1. /\ grants[g] # None /\ grants' = [grants EXCEPT ![g] = new]
        /\ UNCHANGED <<cases, scanned, made, datasets, orders, sent, handed, withdrawn, disputes,
                       dsrs, reqs>>
    BY DEF Expire, library, exports, rights
  <1>2. grants[g] \in Grant /\ grants[g].reads <= grants[g].max
    BY <1>1 DEF IInv, TypeOK
  <1>3. /\ new \in Grant /\ new.dataset = grants[g].dataset
        /\ new.order = grants[g].order /\ new.customer = grants[g].customer
        /\ new.max = grants[g].max /\ new.reads = grants[g].reads
    BY <1>2 DEF Grant
  <1> HIDE DEF new
  <1>4. new # None
    BY <1>3 DEF NoneIsNothing
  <1>5. grants'[g] = new /\ \A h \in Grants \ {g} : grants'[h] = grants[h]
    BY <1>1 DEF IInv, TypeOK
  <1>6. TypeOK'
    <2>1. grants' \in [Grants -> Grant \union {None}]
      BY <1>1, <1>3 DEF IInv, TypeOK
    <2>2. \A h \in Grants : grants'[h] # None => grants'[h].reads <= grants'[h].max
      BY <1>2, <1>3, <1>5 DEF IInv, TypeOK
    <2> QED
      BY <1>1, <2>1, <2>2 DEF IInv, TypeOK
  <1>7. Grows
    <2>1. \A h \in Grants : grants[h] # None =>
             /\ grants'[h] # None
             /\ grants'[h].dataset = grants[h].dataset
             /\ grants'[h].order = grants[h].order
             /\ grants'[h].customer = grants[h].customer
      BY <1>3, <1>4, <1>5
    <2> QED
      BY <1>1, <2>1, SameExports DEF IInv, Grows
  <1>8. \A h \in Grants : grants[h] # None \/ GrantOK(h)'
    BY <1>1, <1>5 DEF GrantOK
  <1> QED
    BY <1>1, <1>6, <1>7, <1>8, OtherStep

LEMMA IncrementKeeps ==
    ASSUME NoneIsNothing, IInv, NEW q \in Requests, IncrementDeliveryGrantRead(q)
    PROVE  IInv'
  <1> DEFINE r == reqs[q]
             g == r.grant
             n == grants[g].reads + 1
             new == [grants[g] EXCEPT !.reads = n]
             next == IF r.kind = "download" THEN "sending" ELSE "reporting"
             state == [r EXCEPT !.pc = next]
  <1>1. /\ r.pc = "counting"
        /\ UNCHANGED <<library, exports, orders, sent, handed, rights>>
        /\ \/ grants' = grants /\ reqs' = [reqs EXCEPT ![q] = Idle]
           \/ /\ grants[g].reads < grants[g].max
              /\ grants' = [grants EXCEPT ![g].reads = @ + 1]
              /\ reqs' = [reqs EXCEPT ![q].pc = next]
    BY DEF IncrementDeliveryGrantRead
  <1>2. CASE grants' = grants /\ reqs' = [reqs EXCEPT ![q] = Idle]
    BY <1>1, <1>2, StopKeeps DEF Goto, tables, sales
  <1>3. CASE /\ grants[g].reads < grants[g].max
             /\ grants' = [grants EXCEPT ![g].reads = @ + 1]
             /\ reqs' = [reqs EXCEPT ![q].pc = next]
    <2>1. r \in DeliveryRecord /\ Delivering(r) /\ r.pc \in DeliveryPcs
      BY <1>1, DeliveryFields DEF DeliveryPcs
    <2>2. ForGrant(g, r.dataset) /\ r.kind # "grant"
      BY <1>1, <2>1 DEF Delivering, Portal
    <2>3. g \in Grants /\ grants[g] # None /\ grants[g] \in Grant
      BY <2>2 DEF ForGrant, IInv, TypeOK
    <2>4. n \in Nat /\ n <= grants[g].max
      BY <1>3, <2>3, BoundsAssumption DEF Grant
    <2>5. grants' = [grants EXCEPT ![g] = new] /\ reqs' = [reqs EXCEPT ![q] = state]
      BY <1>3
    <2>6. next \in DeliveryPcs /\ next \in {"sending", "reporting"}
      BY DEF DeliveryPcs
    <2> HIDE DEF n, next, g
    <2>7. /\ new \in Grant /\ new.dataset = grants[g].dataset
          /\ new.order = grants[g].order /\ new.customer = grants[g].customer
          /\ new.reads = n /\ new.max = grants[g].max
      BY <2>3, <2>4 DEF Grant
    <2>8. /\ state \in DeliveryRecord /\ state.pc = next /\ state.todo = r.todo
          /\ state.kind = r.kind /\ state.dataset = r.dataset /\ state.grant = r.grant
          /\ state.order = r.order /\ state.customer = r.customer /\ state.began = r.began
      BY <2>1, <2>6 DEF DeliveryRecord
    <2> HIDE DEF new, state
    <2>9. /\ Deliverable(r.dataset) /\ Unwithdrawn(r.dataset, r.todo, r.began.gone)
          /\ r.todo = {} /\ Undisputed(r.dataset, r.began.open)
      BY <1>1, <2>1 DEF Delivering, Checked
    <2>10. BeganOK(r.began) /\ r.dataset \in 1 .. made /\ ForGrant(r.grant, r.dataset)
      BY <2>1, <2>2 DEF Delivering, g
    <2>11. state \in Request /\ RequestOK(state)
      BY <2>2, <2>6, <2>8, <2>9, <2>10, MoveIsOK
    <2> QED
      BY <1>1, <2>3, <2>4, <2>5, <2>7, <2>11, GrantKeeps
  <1> QED
    BY <1>1, <1>2, <1>3

LEMMA SendKeeps ==
    ASSUME IInv, NEW q \in Requests, SendBody(q)
    PROVE  IInv'
  <1> DEFINE r == reqs[q]
  <1>0. PICK g : g = r.grant
    OBVIOUS
  <1>1. /\ r.pc = "sending"
        /\ sent' = [sent EXCEPT ![g] = @ + 1] /\ reqs' = [reqs EXCEPT ![q] = Idle]
        /\ UNCHANGED <<cases, scanned, made, datasets, orders, grants, handed, withdrawn,
                       disputes, dsrs>>
    BY <1>0 DEF SendBody, library, exports, rights
  <1>2. r \in DeliveryRecord /\ Delivering(r) /\ r.pc \in DeliveryPcs
    BY <1>1, DeliveryFields DEF DeliveryPcs
  <1>3. Deliverable(r.dataset) /\ ForGrant(g, r.dataset)
    BY <1>0, <1>1, <1>2 DEF Delivering, Portal
  <1>4. g \in Grants /\ grants[g] # None /\ Deliverable(grants[g].dataset)
    BY <1>3 DEF ForGrant
  <1>5. reqs' \in [Requests -> Request]
        /\ \A s \in Requests : reqs'[s] = reqs[s] \/ reqs'[s] = Idle
    BY <1>1, EndsOneRequest DEF IInv
  <1>6. TypeOK'
    <2>1. sent' \in [Grants -> Nat]
      BY <1>1, <1>4 DEF IInv, TypeOK
    <2> QED
      BY <1>1, <1>5, <2>1 DEF IInv, TypeOK
  <1>7. Grows
    BY <1>1, SameExports DEF IInv, Grows
  <1>8. \A h \in Grants : grants[h] # None \/ GrantOK(h)'
    BY <1>1 DEF GrantOK
  <1>9. \A h \in Grants : sent'[h] = sent[h] \/ SentOK(h)'
    <2>1. \A h \in Grants \ {g} : sent'[h] = sent[h]
      BY <1>1 DEF IInv, TypeOK
    <2>2. PICK d : d = grants[g].dataset
      OBVIOUS
    <2>3. made' \in Nat /\ Deliverable(d)'
      BY <1>4, <1>6, <1>7, <2>2, DeliverableLasts, BoundsAssumption DEF IInv, TypeOK
    <2>4. grants'[g] # None /\ grants'[g].dataset = d
      BY <1>1, <1>4, <2>2
    <2>5. SentOK(g)'
      BY <2>3, <2>4 DEF SentOK, Deliverable, Complete
    <2> QED
      BY <2>1, <2>5 DEF SentOK
  <1>10. \A s \in Requests : reqs'[s] = reqs[s] \/ RequestOK(reqs[s])'
    <2> SUFFICES ASSUME NEW s \in Requests, reqs'[s] = Idle
                 PROVE  RequestOK(reqs[s])'
      BY <1>5
    <2> QED
      BY IdleIsOK DEF RequestOK, Exporting, Evaluating, Delivering, Closing, DeliveryPcs
  <1> QED
    BY <1>1, <1>6, <1>7, <1>8, <1>9, <1>10, OtherStep

-----------------------------------------------------------------------------
(* Withdrawals, data subject requests and disputes.                         *)

LEMMA DisputesKeep ==
    ASSUME NoneIsNothing, IInv, NEW x \in Disputes,
           (\E e \in Entities : CreateDispute(x, e)) \/ ResolveDispute(x)
    PROVE  IInv'
  <1>1. UNCHANGED <<cases, scanned, made, datasets, orders, grants, sent, handed, withdrawn, dsrs,
                    reqs>>
    BY DEF CreateDispute, ResolveDispute, library, exports, sales
  <1>2. PICK new \in Dispute :
           /\ disputes' = [disputes EXCEPT ![x] = new]
           /\ disputes[x] # None => new.entity = disputes[x].entity /\ ~new.open
    <2>1. ASSUME NEW e \in Entities, CreateDispute(x, e)
          PROVE  \E new \in Dispute :
                    disputes' = [disputes EXCEPT ![x] = new] /\ disputes[x] = None
      <3> DEFINE new == [entity |-> e, open |-> TRUE]
      <3>1. new \in Dispute
        BY DEF Dispute
      <3> QED
        BY <2>1, <3>1 DEF CreateDispute
    <2>2. CASE ResolveDispute(x)
      <3> DEFINE new == [disputes[x] EXCEPT !.open = FALSE]
      <3>1. disputes[x] \in Dispute /\ disputes' = [disputes EXCEPT ![x] = new]
        BY <2>2 DEF ResolveDispute, IInv, TypeOK
      <3>2. new \in Dispute /\ new.entity = disputes[x].entity
        BY <3>1 DEF Dispute
      <3>3. ~new.open
        BY <3>1 DEF Dispute
      <3> QED
        BY <3>1, <3>2, <3>3
    <2> QED
      BY <2>1, <2>2
  <1>3. new # None
    BY DEF NoneIsNothing
  <1>4. disputes'[x] = new /\ \A y \in Disputes \ {x} : disputes'[y] = disputes[y]
    BY <1>2 DEF IInv, TypeOK
  <1>5. TypeOK'
    <2>1. disputes' \in [Disputes -> Dispute \union {None}]
      BY <1>2 DEF IInv, TypeOK
    <2> QED
      BY <1>1, <2>1 DEF IInv, TypeOK
  <1>6. Grows
    <2>1. \A y \in Disputes : disputes[y] # None =>
             /\ disputes'[y] # None
             /\ disputes'[y].entity = disputes[y].entity
             /\ disputes'[y].open => disputes[y].open
      BY <1>2, <1>3, <1>4
    <2> QED
      BY <1>1, <2>1, SameExports DEF IInv, Grows
  <1>7. \A g \in Grants : grants[g] # None \/ GrantOK(g)'
    BY <1>1 DEF GrantOK
  <1> QED
    BY <1>1, <1>5, <1>6, <1>7, OtherStep

\* A step that records a withdrawal or writes one request of a data subject.
LEMMA RightsKeep ==
    ASSUME IInv, withdrawn \subseteq withdrawn', withdrawn' \subseteq Authorizations,
           dsrs' \in [DSRs -> DSR \union {None}],
           \A r \in DSRs : dsrs[r] # None =>
              dsrs'[r] # None /\ dsrs'[r].owner = dsrs[r].owner /\ dsrs'[r].kind = dsrs[r].kind,
           \A r \in DSRs : dsrs'[r] = dsrs[r] \/ DsrOK(r)',
           UNCHANGED <<library, exports, sales, disputes>>,
           reqs' \in [Requests -> Request],
           \A q \in Requests : reqs'[q] = reqs[q] \/ RequestOK(reqs[q])'
    PROVE  IInv'
  <1>1. UNCHANGED <<cases, scanned, made, datasets, orders, grants, sent, handed, disputes>>
    BY DEF library, exports, sales
  <1>2. TypeOK'
    BY <1>1 DEF IInv, TypeOK
  <1>3. Grows
    BY <1>1, SameExports DEF IInv, Grows
  <1>4. \A g \in Grants : grants[g] # None \/ GrantOK(g)'
    BY <1>1 DEF GrantOK
  <1> QED
    BY <1>1, <1>2, <1>3, <1>4, OtherStep

LEMMA WithdrawKeeps ==
    ASSUME IInv, NEW a \in Authorizations, WithdrawAuthorization(a)
    PROVE  IInv'
  <1>1. /\ withdrawn \subseteq withdrawn' /\ withdrawn' \subseteq Authorizations
        /\ dsrs' \in [DSRs -> DSR \union {None}] /\ reqs' \in [Requests -> Request]
        /\ UNCHANGED <<library, exports, sales, disputes, dsrs, reqs>>
    BY DEF WithdrawAuthorization, IInv, TypeOK
  <1> QED
    BY <1>1, RightsKeep

LEMMA CreateDsrKeeps ==
    ASSUME IInv, NEW r \in DSRs, NEW o \in Owners, NEW kind \in {"delete", "other"},
           CreateDSRRequest(r, o, kind)
    PROVE  IInv'
  <1> DEFINE new == [owner |-> o, kind |-> kind, fulfilled |-> FALSE]
  <1>1. /\ dsrs[r] = None /\ dsrs' = [dsrs EXCEPT ![r] = new]
        /\ UNCHANGED <<library, exports, sales, withdrawn, disputes, reqs>>
        /\ dsrs \in [DSRs -> DSR \union {None}] /\ reqs \in [Requests -> Request]
        /\ withdrawn \subseteq Authorizations
    BY DEF CreateDSRRequest, IInv, TypeOK
  <1>2. new \in DSR /\ ~new.fulfilled
    BY DEF DSR
  <1> HIDE DEF new
  <1>3. /\ dsrs' \in [DSRs -> DSR \union {None}]
        /\ dsrs'[r] = new /\ \A s \in DSRs \ {r} : dsrs'[s] = dsrs[s]
    BY <1>1, <1>2
  <1>4. DsrOK(r)'
    BY <1>2, <1>3 DEF DsrOK
  <1>5. \A s \in DSRs : dsrs'[s] = dsrs[s] \/ DsrOK(s)'
    BY <1>3, <1>4
  <1>6. \A s \in DSRs : dsrs[s] # None =>
           dsrs'[s] # None /\ dsrs'[s].owner = dsrs[s].owner /\ dsrs'[s].kind = dsrs[s].kind
    BY <1>1, <1>3
  <1> QED
    BY <1>1, <1>3, <1>5, <1>6, RightsKeep

LEMMA FulfilmentKeeps ==
    ASSUME NoneIsNothing, IInv, NEW q \in Requests,
           \/ \E r \in DSRs : StartFulfilment(q, r)
           \/ RecordWithdrawal(q)
           \/ FulfillDSRRequest(q)
    PROVE  IInv'
  <1>1. ASSUME NEW r \in DSRs, StartFulfilment(q, r) PROVE IInv'
    <2> DEFINE pc == IF dsrs[r].kind = "delete" THEN "withdrawing" ELSE "fulfilling"
               new == [pc |-> pc, dsr |-> r]
    <2>1. dsrs[r] # None /\ Goto(q, new)
      BY <1>1 DEF StartFulfilment
    <2>2. /\ pc \in {"withdrawing", "fulfilling"}
          /\ pc = "fulfilling" => dsrs[r].kind # "delete"
      OBVIOUS
    <2> HIDE DEF pc
    <2>3. new \in Request
      BY <2>2 DEF Request
    <2>4. new.pc = pc /\ new.dsr = r
      OBVIOUS
    <2> HIDE DEF new
    <2>5. RequestOK(new)
      BY <2>1, <2>2, <2>4
         DEF RequestOK, Exporting, Evaluating, Delivering, Closing, DeliveryPcs
    <2> QED
      BY <2>1, <2>3, <2>5, GotoKeeps
  <1>2. CASE RecordWithdrawal(q)
    <2> DEFINE r == reqs[q].dsr
               a == AuthorizationID[dsrs[r].owner]
               row == [reqs[q] EXCEPT !.pc = "fulfilling"]
    <2>0. PICK new : new = row
      OBVIOUS
    <2>1. /\ reqs[q].pc = "withdrawing" /\ withdrawn' = withdrawn \union {a}
          /\ reqs' = [reqs EXCEPT ![q] = new]
          /\ UNCHANGED <<library, exports, sales, disputes, dsrs>>
      BY <1>2, <2>0 DEF RecordWithdrawal
    <2>2. /\ reqs[q] \in [pc : {"withdrawing", "fulfilling"}, dsr : DSRs]
          /\ dsrs[r] # None
      BY <2>1, RequestKinds DEF IInv, TypeOK, RequestOK, Closing
    <2>3. r \in DSRs /\ dsrs[r] \in DSR
      BY <2>2 DEF IInv, TypeOK
    <2>4. a \in Authorizations
      BY <2>3 DEF DSR, Authorizations
    <2> HIDE DEF r
    <2>5. new \in Request /\ new.pc = "fulfilling" /\ new.dsr = r
      BY <2>0, <2>2 DEF Request, r
    <2> HIDE DEF row
    <2>6. /\ withdrawn \subseteq withdrawn' /\ withdrawn' \subseteq Authorizations
          /\ dsrs' \in [DSRs -> DSR \union {None}] /\ reqs' \in [Requests -> Request]
          /\ reqs'[q] = new /\ \A s \in Requests \ {q} : reqs'[s] = reqs[s]
      BY <2>1, <2>4, <2>5 DEF IInv, TypeOK
    <2>7. \A s \in Requests : reqs'[s] = reqs[s] \/ RequestOK(reqs[s])'
      <3> SUFFICES ASSUME NEW s \in Requests, reqs'[s] = new
                   PROVE  RequestOK(reqs[s])'
        BY <2>6
      <3>1. dsrs'[new.dsr] # None /\ Gone(dsrs[new.dsr].owner)'
        BY <2>1, <2>2, <2>5 DEF Gone
      <3> QED
        BY <2>5, <3>1
           DEF RequestOK, Exporting, Evaluating, Delivering, Closing, DeliveryPcs
    <2> QED
      BY <2>1, <2>6, <2>7, RightsKeep
  <1>3. CASE FulfillDSRRequest(q)
    <2> DEFINE r == reqs[q].dsr
               new == [dsrs[r] EXCEPT !.fulfilled = TRUE]
    <2>1. /\ reqs[q].pc = "fulfilling" /\ dsrs' = [dsrs EXCEPT ![r] = new]
          /\ reqs' = [reqs EXCEPT ![q] = Idle]
          /\ UNCHANGED <<library, exports, sales, withdrawn, disputes>>
      BY <1>3 DEF FulfillDSRRequest
    <2>2. /\ reqs[q] \in [pc : {"withdrawing", "fulfilling"}, dsr : DSRs]
          /\ dsrs[r] # None /\ (dsrs[r].kind = "delete" => Gone(dsrs[r].owner))
      BY <2>1, RequestKinds DEF IInv, TypeOK, RequestOK, Closing
    <2>3. r \in DSRs /\ dsrs[r] \in DSR
      BY <2>2 DEF IInv, TypeOK
    <2> HIDE DEF r
    <2>4. new \in DSR /\ new.owner = dsrs[r].owner /\ new.kind = dsrs[r].kind
      BY <2>3 DEF DSR
    <2> HIDE DEF new
    <2>5. new # None
      BY <2>4 DEF NoneIsNothing
    <2>6. /\ dsrs' \in [DSRs -> DSR \union {None}] /\ withdrawn' \subseteq Authorizations
          /\ dsrs'[r] = new /\ \A s \in DSRs \ {r} : dsrs'[s] = dsrs[s]
      BY <2>1, <2>3, <2>4 DEF IInv, TypeOK
    <2>7. /\ reqs' \in [Requests -> Request]
          /\ \A s \in Requests : reqs'[s] = reqs[s] \/ reqs'[s] = Idle
      BY <2>1, EndsOneRequest DEF IInv
    <2>8. \A s \in DSRs : dsrs[s] # None =>
             dsrs'[s] # None /\ dsrs'[s].owner = dsrs[s].owner /\ dsrs'[s].kind = dsrs[s].kind
      BY <2>4, <2>5, <2>6
    <2>9. \A s \in DSRs : dsrs'[s] = dsrs[s] \/ DsrOK(s)'
      <3> SUFFICES ASSUME NEW s \in DSRs, dsrs'[s] = new, s = r
                   PROVE  DsrOK(s)'
        BY <2>6
      <3> QED
        BY <2>1, <2>2, <2>4 DEF DsrOK, Gone
    <2>10. \A s \in Requests : reqs'[s] = reqs[s] \/ RequestOK(reqs[s])'
      <3> SUFFICES ASSUME NEW s \in Requests, reqs'[s] = Idle
                   PROVE  RequestOK(reqs[s])'
        BY <2>7
      <3> QED
        BY IdleIsOK DEF RequestOK, Exporting, Evaluating, Delivering, Closing, DeliveryPcs
    <2> QED
      BY <2>1, <2>6, <2>7, <2>8, <2>9, <2>10, RightsKeep
  <1> QED
    BY <1>1, <1>2, <1>3

-----------------------------------------------------------------------------
(* The theorems.                                                            *)

LEMMA InitHolds == ASSUME Init PROVE IInv
  <1>1. TypeOK
    <2>1. made \in 0 .. MaxDatasets /\ \A d \in Ids : datasets[d] # None <=> d <= made
      BY BoundsAssumption DEF Init, Ids
    <2>2. /\ cases \in [Cases -> CaseRow] /\ scanned \subseteq Cases
          /\ datasets \in [Ids -> Dataset \union {None}]
          /\ orders \in [Orders -> Order \union {None}]
          /\ grants \in [Grants -> Grant \union {None}]
          /\ \A g \in Grants : grants[g] # None => grants[g].reads <= grants[g].max
      BY DEF Init
    <2>3. /\ sent \in [Grants -> Nat] /\ handed \subseteq Ids
          /\ withdrawn \subseteq Authorizations
          /\ disputes \in [Disputes -> Dispute \union {None}]
          /\ dsrs \in [DSRs -> DSR \union {None}]
      BY DEF Init
    <2>4. reqs \in [Requests -> Request]
      BY IdleIsOK DEF Init
    <2> QED
      BY <2>1, <2>2, <2>3, <2>4 DEF TypeOK
  <1>2. \A d \in 1 .. made : DatasetOK(d)
    BY DEF Init
  <1>3. \A g \in Grants : GrantOK(g) /\ SentOK(g)
    BY DEF Init, GrantOK, SentOK
  <1>4. \A r \in DSRs : DsrOK(r)
    BY DEF Init, DsrOK
  <1>5. \A q \in Requests : RequestOK(reqs[q])
    BY IdleIsOK DEF Init
  <1> QED
    BY <1>1, <1>2, <1>3, <1>4, <1>5 DEF IInv

LEMMA StepKeeps == ASSUME NoneIsNothing, IInv, [Next]_vars PROVE IInv'
  <1>1. CASE Admin
    BY <1>1, LibraryKeeps, OrdersKeep, ExpireKeeps, WithdrawKeeps, CreateDsrKeeps, DisputesKeep
       DEF Admin
  <1>2. ASSUME NEW q \in Requests, Export(q) PROVE IInv'
    BY <1>2, ReadEligibleKeeps, AuthorizeOwnerKeeps, CreateDatasetKeeps, CreateArtifactKeeps,
       CreateUsageEventKeeps DEF Export
  <1>3. ASSUME NEW q \in Requests, Evaluate(q) PROVE IInv'
    BY <1>3, StartEvaluationKeeps, OverlapsKeep, InspectCaseKeeps, CreateEvaluationKeeps
       DEF Evaluate
  <1>4. ASSUME NEW q \in Requests, Deliver(q) PROVE IInv'
    <2>1. CASE CreateBuyerUsageReport(q)
      BY <2>1, StopKeeps DEF CreateBuyerUsageReport
    <2> QED
      BY <1>4, <2>1, StartsKeep, CheckEvaluationKeeps, CheckAuthorizationKeeps,
         DisputeBlockersKeep, CheckOrderKeeps, CreateGrantKeeps, LinkKeeps, FetchKeeps,
         IncrementKeeps, SendKeeps DEF Deliver
  <1>5. ASSUME NEW q \in Requests, Fulfil(q) \/ Abandon(q) PROVE IInv'
    BY <1>5, FulfilmentKeeps, StopKeeps DEF Fulfil, Abandon
  <1>6. ASSUME NEW d \in Ids, NEW t \in Artifacts, DatasetArtifact(d, t) PROVE IInv'
    BY <1>6, HandingKeeps
  <1>7. CASE UNCHANGED vars
    <2>1. UNCHANGED tables /\ reqs' = reqs
      BY <1>7 DEF vars
    <2>2. /\ Grows
          /\ UNCHANGED <<cases, scanned, made, datasets, orders, grants, sent, handed, withdrawn,
                         disputes, dsrs>>
      BY <2>1, StandStill DEF IInv
    <2>3. TypeOK'
      BY <2>1, <2>2 DEF IInv, TypeOK
    <2>4. \A g \in Grants : grants[g] # None \/ GrantOK(g)'
      BY <2>2 DEF GrantOK
    <2> QED
      BY <2>1, <2>2, <2>3, <2>4, OtherStep
  <1> QED
    BY <1>1, <1>2, <1>3, <1>4, <1>5, <1>6, <1>7 DEF Next

\* What is billed can be delivered, however exports are cut off half-way (createDataset).
THEOREM BillsAreComplete == ASSUME NoneIsNothing PROVE Spec => []BilledIsComplete
  <1>1. Init => IInv
    BY InitHolds
  <1>2. IInv /\ [Next]_vars => IInv'
    BY StepKeeps
  <1>3. IInv => BilledIsComplete
    BY DEF IInv, DatasetOK, Complete, BilledIsComplete
  <1> QED
    BY <1>1, <1>2, <1>3, PTL DEF Spec

\* While the overlap query is not cut off, evaluation sets stay apart from each other and
\* from training data, in whatever order datasets are made and evaluated
\* (buildDatasetEvaluation, DatasetCaseOverlaps).
THEOREM HoldoutsAreIsolated ==
    ASSUME NoneIsNothing, OverlapsFit PROVE Spec => []HoldoutIsolation
  <1>1. Init => IInv
    BY InitHolds
  <1>2. IInv /\ [Next]_vars => IInv'
    BY StepKeeps
  <1>3. IInv => HoldoutIsolation
    <2> SUFFICES ASSUME IInv, NEW d \in 1 .. made, NEW e \in 1 .. made, d # e,
                        datasets[d].cases \intersect datasets[e].cases # {},
                        datasets[d].purpose = "eval", datasets[e].purpose # "other",
                        datasets[d].evaluation = "completed",
                        datasets[e].evaluation = "completed"
                 PROVE  FALSE
      BY DEF HoldoutIsolation
    <2>1. datasets[e].purpose \in {"eval", "commercial"}
      BY DatasetFields, PurposesAssumption DEF IInv, Dataset
    <2>2. Clash(d, e) /\ Clash(e, d)
      BY <2>1 DEF Clash, HoldoutIsolationRequired
    <2>3. Isolated(d) /\ Isolated(e)
      BY DEF IInv, DatasetOK
    <2>4. d < e \/ e < d
      BY BoundsAssumption DEF IInv, TypeOK
    <2> QED
      BY <2>2, <2>3, <2>4 DEF Isolated
  <1> QED
    BY <1>1, <1>2, <1>3, PTL DEF Spec

\* No body with a credential mark or of an incomplete export is ever sent under a grant,
\* although the evaluation is older than the download (validDeliveryGrant,
\* enterprisePortalArtifact); of datasetArtifact nothing is claimed.
THEOREM GrantsSendOnlySafe == ASSUME NoneIsNothing PROVE Spec => []GrantSendsOnlySafe
  <1>1. Init => IInv
    BY InitHolds
  <1>2. IInv /\ [Next]_vars => IInv'
    BY StepKeeps
  <1>3. IInv => GrantSendsOnlySafe
    BY DEF IInv, SentOK, Deliverable, Complete, GrantSendsOnlySafe
  <1> QED
    BY <1>1, <1>2, <1>3, PTL DEF Spec

\* Grants for an order come after its revenue was recognised (createDeliveryGrant).
THEOREM GrantsAreOrdered == ASSUME NoneIsNothing PROVE Spec => []GrantIsOrdered
  <1>1. Init => IInv
    BY InitHolds
  <1>2. IInv /\ [Next]_vars => IInv'
    BY StepKeeps
  <1>3. IInv => GrantIsOrdered
    BY DEF IInv, GrantOK, Ordered, GrantIsOrdered
  <1> QED
    BY <1>1, <1>2, <1>3, PTL DEF Spec

\* A fulfilled deletion has its withdrawal, however fulfilments fail and are repeated
\* (fulfillDSR).
THEOREM DeletionsAreWithdrawn == ASSUME NoneIsNothing PROVE Spec => []FulfilledIsWithdrawn
  <1>1. Init => IInv
    BY InitHolds
  <1>2. IInv /\ [Next]_vars => IInv'
    BY StepKeeps
  <1>3. IInv => FulfilledIsWithdrawn
    BY DEF IInv, DsrOK, FulfilledIsWithdrawn
  <1> QED
    BY <1>1, <1>2, <1>3, PTL DEF Spec

\* No other step makes a dataset.
LEMMA OnlyCreateMakes ==
    ASSUME Next, made' # made
    PROVE  \E p \in Requests : CreateDataset(p)
  <1>1. ~Admin
    BY DEF Admin, ReviewCase, RunContentSafety, CreateEnterpriseOrder,
           RecognizeEnterpriseOrder, Expire, WithdrawAuthorization, CreateDSRRequest,
           CreateDispute, ResolveDispute, exports
  <1>2. ASSUME NEW d \in Ids, NEW t \in Artifacts PROVE ~DatasetArtifact(d, t)
    BY DEF DatasetArtifact, exports
  <1>3. ASSUME NEW q \in Requests, Export(q) PROVE CreateDataset(q)
    BY <1>3 DEF Export, ReadEligible, AuthorizeOwner, CreateDatasetArtifact,
                CreateUsageEvent, Goto, tables, exports
  <1>4. ASSUME NEW q \in Requests PROVE ~Evaluate(q)
    BY DEF Evaluate, StartEvaluation, DatasetCaseOverlaps, InspectCase,
           CreateDatasetEvaluation, Goto, tables, exports
  <1>5. ASSUME NEW q \in Requests PROVE ~Deliver(q)
    <2>1. /\ \A d \in Ids, o \in Orders \union {None}, b \in Customers \union {None},
                n \in Budgets : ~StartGrant(q, d, o, b, n)
          /\ \A g \in Grants, kind \in {"download", "report"} : ~StartPortal(q, g, kind)
          /\ ~CheckEvaluation(q) /\ \A o \in Owners : ~CheckAuthorization(q, o)
      BY DEF StartGrant, StartPortal, CheckEvaluation, CheckAuthorization, Goto, tables,
             exports
    <2>2. /\ ~ActiveDisputeBlockers(q) /\ ~CheckOrder(q)
          /\ \A g \in Grants : ~CreateDeliveryGrant(q, g)
          /\ ~LinkEnterpriseOrderGrant(q)
      BY DEF ActiveDisputeBlockers, CheckOrder, CreateDeliveryGrant,
             LinkEnterpriseOrderGrant, Goto, tables, exports
    <2>3. /\ \A t \in Artifacts : ~FetchArtifact(q, t)
          /\ ~IncrementDeliveryGrantRead(q) /\ ~SendBody(q) /\ ~CreateBuyerUsageReport(q)
      BY DEF FetchArtifact, IncrementDeliveryGrantRead, SendBody, CreateBuyerUsageReport,
             Goto, tables, exports
    <2> QED
      BY <2>1, <2>2, <2>3 DEF Deliver
  <1>6. ASSUME NEW q \in Requests PROVE ~Fulfil(q) /\ ~Abandon(q)
    BY DEF Fulfil, Abandon, StartFulfilment, RecordWithdrawal, FulfillDSRRequest, Goto,
           tables, exports
  <1> QED
    BY <1>1, <1>2, <1>3, <1>4, <1>5, <1>6 DEF Next

\* No export takes a case of an owner whose withdrawal was there before it was asked for
\* (authorizedCommercialCases).
THEOREM ExportsAreAuthorized == ASSUME NoneIsNothing PROVE Spec => ExportIsAuthorized
  <1> DEFINE A == \A q \in Requests :
                reqs[q].pc = "authorizing" /\ made' > made /\ reqs'[q].pc = "writing" =>
                   \A c \in datasets'[made'].cases :
                      AuthorizationID[Owner[c]] \notin reqs[q].began.gone
  <1>1. Init => IInv
    BY InitHolds
  <1>2. IInv /\ [Next]_vars => IInv'
    BY StepKeeps
  <1>3. IInv /\ [Next]_vars => [A]_vars
    <2> SUFFICES ASSUME IInv, Next, NEW q \in Requests, reqs[q].pc = "authorizing",
                        made' > made, reqs'[q].pc = "writing"
                 PROVE  \A c \in datasets'[made'].cases :
                           AuthorizationID[Owner[c]] \notin reqs[q].began.gone
      OBVIOUS
    <2>1. PICK p \in Requests : CreateDataset(p)
      <3>1. made \in Nat /\ made' # made
        BY BoundsAssumption DEF IInv, TypeOK
      <3> QED
        BY <3>1, OnlyCreateMakes
    <2>2. p = q
      <3>1. p # q => reqs'[q] = reqs[q]
        BY <2>1 DEF CreateDataset, IInv, TypeOK
      <3> QED
        BY <3>1
    <2>3. /\ reqs[q].todo = {} /\ made' = made + 1 /\ made < MaxDatasets
          /\ datasets'[made'].cases = reqs[q].chosen
      <3>1. made + 1 \in Ids /\ reqs[q].todo = {} /\ made' = made + 1 /\ made < MaxDatasets
        BY <2>1, <2>2, BoundsAssumption DEF CreateDataset, IInv, TypeOK, Ids
      <3>2. datasets'[made + 1] = [cases |-> reqs[q].chosen, purpose |-> reqs[q].purpose,
                                   artifacts |-> {}, billed |-> FALSE, evaluation |-> "none"]
        BY <2>1, <2>2, <3>1 DEF CreateDataset, IInv, TypeOK
      <3> QED
        BY <3>1, <3>2
    <2> QED
      BY <2>3 DEF IInv, RequestOK, Exporting
  <1> QED
    BY <1>1, <1>2, <1>3, PTL DEF Spec, ExportIsAuthorized

\* No download under a grant goes through against a withdrawal or an open dispute that was
\* there before it was asked for (datasetDeliveryBlockers, validDeliveryGrant).
THEOREM DownloadsAreClear == ASSUME NoneIsNothing PROVE Spec => DownloadIsClear
  <1> DEFINE A == \A q \in Requests :
                reqs[q].pc = "sending" /\ sent' # sent /\ reqs'[q] = Idle =>
                   LET d == reqs[q].dataset
                   IN  /\ \A c \in datasets[d].cases :
                             AuthorizationID[Owner[c]] \notin reqs[q].began.gone
                       /\ \A x \in reqs[q].began.open \intersect OpenDisputes :
                             disputes[x].entity \notin Concerns(d)
  <1>1. Init => IInv
    BY InitHolds
  <1>2. IInv /\ [Next]_vars => IInv'
    BY StepKeeps
  <1>3. IInv => \A q \in Requests : reqs[q].pc = "sending" =>
                   /\ \A c \in datasets[reqs[q].dataset].cases :
                         AuthorizationID[Owner[c]] \notin reqs[q].began.gone
                   /\ \A x \in reqs[q].began.open \intersect OpenDisputes :
                         disputes[x].entity \notin Concerns(reqs[q].dataset)
    BY DEF IInv, RequestOK, Delivering, DeliveryPcs, Checked, Unwithdrawn, Undisputed
  <1>4. IInv /\ [Next]_vars => [A]_vars
    BY <1>3
  <1> QED
    BY <1>1, <1>2, <1>4, PTL DEF Spec, DownloadIsClear

-----------------------------------------------------------------------------
(* Metered reads: what each step does to the reads a grant has left, to the *)
(* requests whose read was taken off, and to the bodies sent.               *)

Due == {"sending", "reporting"}
Pend(g) == {q \in Requests : reqs[q].pc \in Due /\ reqs[q].grant = g}
Left(g) == IF grants[g] = None THEN None ELSE grants[g].max - grants[g].reads

MeterInv == IInv /\ \A g \in Grants : IsFiniteSet(Pend(g))

Unmetered == \A g \in Grants : Left(g)' = Left(g) /\ Pend(g)' = Pend(g) /\ sent'[g] = sent[g]
OthersUnmetered(g) ==
    \A h \in Grants \ {g} : Left(h)' = Left(h) /\ Pend(h)' = Pend(h) /\ sent'[h] = sent[h]

Given(g) ==
    /\ Left(g) = None /\ Left(g)' \in Budgets
    /\ Pend(g)' = Pend(g) /\ sent'[g] = sent[g]
Taken(g) ==
    /\ Left(g) # None /\ Left(g) > 0 /\ Left(g)' = Left(g) - 1
    /\ \E q \in Requests \ Pend(g) : Pend(g)' = Pend(g) \union {q}
    /\ sent'[g] = sent[g]
Closed(g, bodies) ==
    /\ Left(g)' = Left(g)
    /\ \E q \in Pend(g) : Pend(g)' = Pend(g) \ {q}
    /\ sent'[g] = sent[g] + bodies

Metered ==
    \/ Unmetered
    \/ \E g \in Grants : OthersUnmetered(g) /\ (Given(g) \/ Taken(g) \/ Closed(g, 0) \/ Closed(g, 1))

LEMMA PendMoves ==
    ASSUME TypeOK, NEW q \in Requests, NEW new, reqs' = [reqs EXCEPT ![q] = new], NEW g
    PROVE  Pend(g)' = IF new.pc \in Due /\ new.grant = g THEN Pend(g) \union {q} ELSE Pend(g) \ {q}
  BY DEF Pend, TypeOK

\* A request that neither waits for its answer nor begins to.
LEMMA AsideIsUnmetered ==
    ASSUME TypeOK, NEW q \in Requests, NEW new, reqs' = [reqs EXCEPT ![q] = new],
           reqs[q].pc \notin Due, new.pc \notin Due, UNCHANGED <<grants, sent>>
    PROVE  Metered
  <1>1. \A g : q \notin Pend(g)
    BY DEF Pend
  <1>2. ASSUME NEW g PROVE Pend(g)' = Pend(g)
    <2>1. Pend(g)' = Pend(g) \ {q}
      BY PendMoves
    <2> QED
      BY <1>1, <2>1
  <1> QED
    BY <1>2 DEF Metered, Unmetered, Left

LEMMA AdminIsUnmetered ==
    ASSUME NoneIsNothing, TypeOK, Admin
    PROVE  Metered
  <1>1. reqs' = reqs /\ sent' = sent
    BY DEF Admin, ReviewCase, RunContentSafety, CreateEnterpriseOrder, RecognizeEnterpriseOrder,
       Expire, WithdrawAuthorization, CreateDSRRequest, CreateDispute, ResolveDispute, sales
  <1>2. \A g \in Grants : Left(g)' = Left(g)
    <2>1. CASE UNCHANGED grants
      BY <2>1 DEF Left
    <2>2. ASSUME NEW g \in Grants, Expire(g) PROVE \A h \in Grants : Left(h)' = Left(h)
      <3>1. grants[g] # None /\ grants[g] \in Grant
        BY <2>2 DEF Expire, TypeOK
      <3>2. PICK new : new = [grants[g] EXCEPT !.expired = TRUE]
        OBVIOUS
      <3>3. new \in Grant /\ new.max = grants[g].max /\ new.reads = grants[g].reads
        BY <3>1, <3>2 DEF Grant
      <3>4. \A h \in Grants : grants'[h] = IF h = g THEN new ELSE grants[h]
        BY <2>2, <3>2 DEF Expire, TypeOK
      <3>5. new # None
        BY <3>3 DEF NoneIsNothing
      <3> QED
        BY <3>1, <3>3, <3>4, <3>5 DEF Left
    <2> QED
      BY <2>1, <2>2 DEF Admin, ReviewCase, RunContentSafety, CreateEnterpriseOrder,
         RecognizeEnterpriseOrder, WithdrawAuthorization, CreateDSRRequest, CreateDispute,
         ResolveDispute, sales
  <1> QED
    BY <1>1, <1>2 DEF Metered, Unmetered, Pend

LEMMA ExportIsUnmetered ==
    ASSUME TypeOK, NEW q \in Requests, Export(q) \/ Evaluate(q) \/ Fulfil(q)
    PROVE  Metered
  <1> DEFINE r == reqs[q]
  <1>1. r \in Request /\ Idle.pc \notin Due
    BY IdleIsOK DEF TypeOK, Due
  <1>2. UNCHANGED <<grants, sent>>
    BY DEF Export, ReadEligible, AuthorizeOwner, CreateDataset, CreateDatasetArtifact,
       CreateUsageEvent, Evaluate, StartEvaluation, DatasetCaseOverlaps, InspectCase,
       CreateDatasetEvaluation, Fulfil, StartFulfilment, RecordWithdrawal, FulfillDSRRequest,
       Goto, tables, sales
  <1>3. CASE reqs' = reqs
    BY <1>2, <1>3 DEF Metered, Unmetered, Left, Pend
  <1>4. CASE \E o \in Owners : AuthorizeOwner(q, o)
    <2>1. r \in [pc : {"authorizing"}, chosen : SUBSET Cases, purpose : Purposes,
                 todo : SUBSET Owners, began : Began]
      BY <1>1, <1>4, RequestKinds DEF AuthorizeOwner
    <2>2. PICK S, T : reqs' = [reqs EXCEPT ![q] = [r EXCEPT !.chosen = S, !.todo = T]]
      BY <1>4 DEF AuthorizeOwner, Goto
    <2>3. [r EXCEPT !.chosen = S, !.todo = T].pc = "authorizing"
      BY <2>1
    <2> QED
      BY <1>2, <2>1, <2>2, <2>3, AsideIsUnmetered DEF Due
  <1>5. CASE \E c \in Cases : InspectCase(q, c)
    <2>1. r \in [pc : {"inspecting"}, dataset : Ids, critical : BOOLEAN, todo : SUBSET Cases]
      BY <1>1, <1>5, RequestKinds DEF InspectCase
    <2>2. PICK b, T : reqs' = [reqs EXCEPT ![q] = [r EXCEPT !.critical = b, !.todo = T]]
      BY <1>5 DEF InspectCase, Goto
    <2>3. [r EXCEPT !.critical = b, !.todo = T].pc = "inspecting"
      BY <2>1
    <2> QED
      BY <1>2, <2>1, <2>2, <2>3, AsideIsUnmetered DEF Due
  <1>6. CASE RecordWithdrawal(q)
    <2>1. r \in [pc : {"withdrawing", "fulfilling"}, dsr : DSRs]
      BY <1>1, <1>6, RequestKinds DEF RecordWithdrawal
    <2>2. reqs' = [reqs EXCEPT ![q] = [r EXCEPT !.pc = "fulfilling"]]
      BY <1>6 DEF RecordWithdrawal
    <2>3. [r EXCEPT !.pc = "fulfilling"].pc = "fulfilling"
      BY <2>1
    <2> QED
      BY <1>2, <2>1, <2>2, <2>3, AsideIsUnmetered DEF Due
  <1>7. \/ \E p \in Purposes : ReadEligible(q, p)
        \/ \E d \in Ids : StartEvaluation(q, d)
        \/ \E s \in DSRs : StartFulfilment(q, s)
        => Metered
    <2> SUFFICES ASSUME \/ \E p \in Purposes : ReadEligible(q, p)
                        \/ \E d \in Ids : StartEvaluation(q, d)
                        \/ \E s \in DSRs : StartFulfilment(q, s)
                 PROVE  Metered
      OBVIOUS
    <2>1. r = Idle
      BY DEF ReadEligible, StartEvaluation, StartFulfilment
    <2>2. ASSUME NEW p \in Purposes, ReadEligible(q, p) PROVE Metered
      <3>1. PICK S : Goto(q, [pc |-> "authorizing", chosen |-> S, purpose |-> p,
                              todo |-> OwnersOf(S), began |-> Now])
        BY <2>2 DEF ReadEligible
      <3> QED
        BY <1>1, <1>2, <2>1, <3>1, AsideIsUnmetered DEF Due, Goto
    <2>3. ASSUME NEW d \in Ids, StartEvaluation(q, d) PROVE Metered
      BY <1>1, <1>2, <2>1, <2>3, AsideIsUnmetered DEF Due, StartEvaluation, Goto
    <2>4. ASSUME NEW s \in DSRs, StartFulfilment(q, s) PROVE Metered
      BY <1>1, <1>2, <2>1, <2>4, AsideIsUnmetered DEF Due, StartFulfilment, Goto
    <2> QED
      BY <2>2, <2>3, <2>4
  <1>8. CASE CreateDataset(q) \/ DatasetCaseOverlaps(q)
    <2>1. CASE CreateDataset(q)
      BY <1>2, <2>1, AsideIsUnmetered DEF CreateDataset, Due
    <2>2. CASE DatasetCaseOverlaps(q)
      <3>1. PICK b : Goto(q, [pc |-> "inspecting", dataset |-> r.dataset, critical |-> b,
                              todo |-> datasets[r.dataset].cases])
        BY <2>2 DEF DatasetCaseOverlaps
      <3> QED
        BY <1>2, <2>2, <3>1, AsideIsUnmetered DEF DatasetCaseOverlaps, Goto, Due
    <2> QED
      BY <1>8, <2>1, <2>2
  <1>9. CASE CreateUsageEvent(q) \/ CreateDatasetEvaluation(q) \/ FulfillDSRRequest(q)
    <2>1. r.pc \notin Due /\ reqs' = [reqs EXCEPT ![q] = Idle]
      BY <1>9 DEF CreateUsageEvent, CreateDatasetEvaluation, FulfillDSRRequest, Due
    <2> QED
      BY <1>1, <1>2, <2>1, AsideIsUnmetered
  <1> QED
    BY <1>3, <1>4, <1>5, <1>6, <1>7, <1>8, <1>9 DEF Export, Evaluate, Fulfil, CreateDatasetArtifact

\* The checks of a delivery, up to the count.
LEMMA CheckIsUnmetered ==
    ASSUME IInv, NEW q \in Requests,
           \/ CheckEvaluation(q) \/ \E o \in Owners : CheckAuthorization(q, o)
           \/ ActiveDisputeBlockers(q) \/ CheckOrder(q)
           \/ \E t \in Artifacts : FetchArtifact(q, t)
    PROVE  Metered
  <1> DEFINE r == reqs[q]
             Aside == {"authorizations", "ordering", "granting", "fetching", "counting"}
  <1>1. TypeOK /\ Idle.pc \notin Due /\ r.pc \in DeliveryPcs /\ r.pc \notin Due
    BY IdleIsOK DEF IInv, CheckEvaluation, CheckAuthorization, ActiveDisputeBlockers, CheckOrder,
       FetchArtifact, DeliveryPcs, Due
  <1>2. r \in DeliveryRecord
    BY <1>1, DeliveryFields
  <1>3. UNCHANGED <<grants, sent>>
    BY DEF CheckEvaluation, CheckAuthorization, ActiveDisputeBlockers, CheckOrder, FetchArtifact,
       Goto, tables, sales
  <1>4. CASE reqs' = [reqs EXCEPT ![q] = Idle]
    BY <1>1, <1>3, <1>4, AsideIsUnmetered
  <1>5. ASSUME NEW pc \in Aside, NEW todo, reqs' = [reqs EXCEPT ![q] = [r EXCEPT !.pc = pc, !.todo = todo]]
        PROVE  Metered
    <2>1. [r EXCEPT !.pc = pc, !.todo = todo].pc \notin Due
      BY <1>2, <1>5 DEF DeliveryRecord, Due
    <2> QED
      BY <1>1, <1>3, <1>5, <2>1, AsideIsUnmetered
  <1>6. ASSUME NEW pc \in Aside, reqs' = [reqs EXCEPT ![q] = [r EXCEPT !.pc = pc]]
        PROVE  Metered
    <2>1. [r EXCEPT !.pc = pc].pc \notin Due
      BY <1>2, <1>6 DEF DeliveryRecord, Due
    <2> QED
      BY <1>1, <1>3, <1>6, <2>1, AsideIsUnmetered
  <1>7. CASE CheckEvaluation(q)
    BY <1>4, <1>5, <1>7 DEF CheckEvaluation, Goto
  <1>8. ASSUME NEW o \in Owners, CheckAuthorization(q, o) PROVE Metered
    <2>1. r.pc = "authorizations"
      BY <1>8 DEF CheckAuthorization
    <2>2. \A todo : [r EXCEPT !.todo = todo].pc = r.pc
      BY <1>2 DEF DeliveryRecord
    <2>3. PICK todo : reqs' = [reqs EXCEPT ![q] = Idle]
                      \/ reqs' = [reqs EXCEPT ![q] = [r EXCEPT !.todo = todo]]
      BY <1>8 DEF CheckAuthorization, Goto
    <2> QED
      BY <1>1, <1>3, <1>4, <2>1, <2>2, <2>3, AsideIsUnmetered DEF Due
  <1>9. CASE ActiveDisputeBlockers(q)
    <2>1. r.kind \in {"grant", "download", "report"}
      BY <1>2 DEF DeliveryRecord
    <2>2. \/ reqs' = [reqs EXCEPT ![q] = Idle]
          \/ \E pc \in Aside : reqs' = [reqs EXCEPT ![q] = [r EXCEPT !.pc = pc]]
      BY <1>9, <2>1 DEF ActiveDisputeBlockers, Goto
    <2> QED
      BY <1>4, <1>6, <2>2
  <1>10. CASE CheckOrder(q)
    BY <1>4, <1>6, <1>10 DEF CheckOrder, Goto
  <1>11. ASSUME NEW t \in Artifacts, FetchArtifact(q, t) PROVE Metered
    BY <1>4, <1>6, <1>11 DEF FetchArtifact, Goto
  <1> QED
    BY <1>7, <1>8, <1>9, <1>10, <1>11

LEMMA StartIsUnmetered ==
    ASSUME TypeOK, NEW q \in Requests,
           \/ \E d \in Ids, o \in Orders \union {None}, b \in Customers \union {None},
                 n \in Budgets : StartGrant(q, d, o, b, n)
           \/ \E g \in Grants, kind \in {"download", "report"} : StartPortal(q, g, kind)
           \/ LinkEnterpriseOrderGrant(q)
    PROVE  Metered
  <1>1. Idle.pc \notin Due
    BY IdleIsOK DEF Due
  <1>2. UNCHANGED <<grants, sent>> /\ (reqs[q] = Idle \/ reqs[q].pc = "linking")
    BY DEF StartGrant, StartPortal, LinkEnterpriseOrderGrant, Goto, tables, sales
  <1>3. reqs[q].pc \notin Due
    BY <1>1, <1>2 DEF Due
  <1>4. ASSUME NEW d, NEW o, NEW b, NEW n, StartGrant(q, d, o, b, n) PROVE Metered
    BY <1>2, <1>3, <1>4, AsideIsUnmetered DEF StartGrant, Goto, Due
  <1>5. ASSUME NEW g, NEW kind, StartPortal(q, g, kind) PROVE Metered
    BY <1>2, <1>3, <1>5, AsideIsUnmetered DEF StartPortal, Goto, Due
  <1>6. CASE LinkEnterpriseOrderGrant(q)
    BY <1>1, <1>2, <1>3, <1>6, AsideIsUnmetered DEF LinkEnterpriseOrderGrant
  <1> QED
    BY <1>4, <1>5, <1>6

LEMMA GrantIsGiven ==
    ASSUME NoneIsNothing, IInv, NEW q \in Requests, NEW g \in Grants, CreateDeliveryGrant(q, g)
    PROVE  Metered
  <1> DEFINE r == reqs[q]
             new == [dataset |-> r.dataset, order |-> r.order, customer |-> r.customer,
                     max |-> r.max, reads |-> 0, expired |-> FALSE]
  <1>1. /\ TypeOK /\ r.pc = "granting" /\ r \in DeliveryRecord /\ grants[g] = None
        /\ grants' = [grants EXCEPT ![g] = new] /\ sent' = sent
    BY DeliveryFields DEF CreateDeliveryGrant, IInv, DeliveryPcs
  <1>2. r.max \in Budgets /\ r.max \in Nat
    BY <1>1, BoundsAssumption DEF DeliveryRecord
  <1>3. PICK state : /\ reqs' = [reqs EXCEPT ![q] = state]
                     /\ \/ state = Idle
                        \/ state = [pc |-> "linking", order |-> r.order, grant |-> g]
    BY DEF CreateDeliveryGrant
  <1>4. state.pc \notin Due /\ r.pc \notin Due
    BY <1>1, <1>3, IdleIsOK DEF Due
  <1>5. \A h \in Grants : Pend(h)' = Pend(h)
    <2> SUFFICES ASSUME NEW h \in Grants PROVE Pend(h)' = Pend(h)
      OBVIOUS
    <2>1. Pend(h)' = Pend(h) \ {q} /\ q \notin Pend(h)
      BY <1>1, <1>3, <1>4, PendMoves DEF Pend
    <2> QED
      BY <2>1
  <1>6. new \in Grant /\ new.max = r.max /\ new.reads = 0
    <2>1. r.dataset \in Ids /\ r.order \in Orders \union {None} /\ r.customer \in Customers \union {None}
      BY <1>1 DEF DeliveryRecord
    <2> QED
      BY <1>2, <2>1 DEF Grant
  <1> HIDE DEF new
  <1>7. \A h \in Grants : grants'[h] = IF h = g THEN new ELSE grants[h]
    BY <1>1 DEF TypeOK
  <1>8. Left(g) = None /\ Left(g)' = r.max
    BY <1>1, <1>2, <1>6, <1>7 DEF Left, NoneIsNothing
  <1>9. OthersUnmetered(g)
    BY <1>1, <1>5, <1>7 DEF OthersUnmetered, Left
  <1> QED
    BY <1>1, <1>2, <1>5, <1>8, <1>9 DEF Metered, Given

LEMMA ReadIsTaken ==
    ASSUME NoneIsNothing, IInv, NEW q \in Requests, IncrementDeliveryGrantRead(q)
    PROVE  Metered
  <1> DEFINE r == reqs[q]
             next == IF r.kind = "download" THEN "sending" ELSE "reporting"
             state == [r EXCEPT !.pc = next]
  <1>0. PICK g : g = r.grant
    OBVIOUS
  <1>1. /\ TypeOK /\ r.pc = "counting" /\ r \in DeliveryRecord /\ Delivering(r)
        /\ sent' = sent /\ r.pc \notin Due /\ Idle.pc \notin Due
    BY DeliveryFields, IdleIsOK DEF IncrementDeliveryGrantRead, IInv, DeliveryPcs, Due
  <1>2. CASE grants' = grants /\ reqs' = [reqs EXCEPT ![q] = Idle]
    BY <1>1, <1>2, AsideIsUnmetered
  <1>3. CASE /\ grants[g].reads < grants[g].max
             /\ grants' = [grants EXCEPT ![g].reads = @ + 1]
             /\ reqs' = [reqs EXCEPT ![q].pc = next]
    <2>1. g \in Grants /\ grants[g] # None /\ grants[g] \in Grant
      BY <1>0, <1>1 DEF Delivering, Portal, DeliveryPcs, ForGrant, TypeOK
    <2>2. /\ grants[g].reads \in Nat /\ grants[g].max \in Nat
      BY <2>1, BoundsAssumption DEF Grant
    <2>3. PICK new : new = [grants[g] EXCEPT !.reads = @ + 1]
      OBVIOUS
    <2>4. /\ new \in Grant /\ new.max = grants[g].max /\ new.reads = grants[g].reads + 1
      BY <2>1, <2>2, <2>3 DEF Grant
    <2>5. \A h \in Grants : grants'[h] = IF h = g THEN new ELSE grants[h]
      BY <1>1, <1>3, <2>1, <2>3 DEF TypeOK
    <2>6. new # None
      BY <2>4 DEF NoneIsNothing
    <2>7. Left(g) = grants[g].max - grants[g].reads /\ Left(g)' = grants[g].max - (grants[g].reads + 1)
      BY <2>1, <2>4, <2>5, <2>6 DEF Left
    <2>8. Left(g) \in Int /\ Left(g) > 0 /\ Left(g)' = Left(g) - 1 /\ Left(g) # None
      BY <1>3, <2>2, <2>7, NoneAssumption
    <2>9. reqs' = [reqs EXCEPT ![q] = state] /\ state.pc \in Due /\ state.grant = g
      <3>1. state.pc = next /\ state.grant = g
        BY <1>0, <1>1 DEF DeliveryRecord
      <3> QED
        BY <1>3, <3>1 DEF Due
    <2> HIDE DEF state
    <2>10. \A h \in Grants : q \notin Pend(h)
      BY <1>1 DEF Pend
    <2>11. Pend(g)' = Pend(g) \union {q}
      BY <1>1, <2>9, PendMoves
    <2>12. ASSUME NEW h \in Grants \ {g} PROVE Pend(h)' = Pend(h)
      <3>1. Pend(h)' = Pend(h) \ {q}
        BY <1>1, <2>9, PendMoves
      <3> QED
        BY <2>10, <3>1
    <2>13. OthersUnmetered(g)
      BY <1>1, <2>5, <2>12 DEF OthersUnmetered, Left
    <2>14. Taken(g)
      BY <1>1, <2>1, <2>8, <2>10, <2>11 DEF Taken
    <2> QED
      BY <2>1, <2>13, <2>14 DEF Metered
  <1> QED
    BY <1>0, <1>2, <1>3 DEF IncrementDeliveryGrantRead

\* A request that ends while its read is taken off, with or without its body.
LEMMA ReadIsClosed ==
    ASSUME IInv, NEW q \in Requests, reqs[q].pc \in Due, NEW g, g = reqs[q].grant,
           reqs' = [reqs EXCEPT ![q] = Idle], grants' = grants,
           NEW n \in {0, 1},
           IF n = 0 THEN sent' = sent ELSE sent' = [sent EXCEPT ![g] = @ + 1]
    PROVE  Metered
  <1>1. TypeOK /\ g \in Grants /\ Idle.pc \notin Due
    BY DeliveryFields, IdleIsOK
       DEF IInv, Due, DeliveryPcs, Delivering, Portal, ForGrant
  <1>2. \A h \in Grants : h # g => q \notin Pend(h)
    BY DEF Pend
  <1>3. ASSUME NEW h \in Grants PROVE Pend(h)' = Pend(h) \ {q}
    BY <1>1, PendMoves
  <1>4. q \in Pend(g)
    BY DEF Pend
  <1>5. \A h \in Grants : Left(h)' = Left(h)
    BY DEF Left
  <1>6. sent'[g] = sent[g] + n /\ \A h \in Grants \ {g} : sent'[h] = sent[h]
    BY <1>1 DEF TypeOK
  <1>7. OthersUnmetered(g)
    BY <1>2, <1>3, <1>5, <1>6 DEF OthersUnmetered
  <1>8. Closed(g, n)
    BY <1>1, <1>3, <1>4, <1>5, <1>6 DEF Closed
  <1> QED
    BY <1>1, <1>7, <1>8 DEF Metered

LEMMA StepIsMetered ==
    ASSUME NoneIsNothing, IInv, [Next]_vars
    PROVE  Metered
  <1>1. TypeOK /\ Idle.pc \notin Due
    BY IdleIsOK DEF IInv, Due
  <1>2. CASE UNCHANGED vars
    BY <1>2 DEF vars, tables, sales, Metered, Unmetered, Left, Pend
  <1>3. ASSUME NEW q \in Requests, SendBody(q) PROVE Metered
    <2>1. PICK g, n : g = reqs[q].grant /\ n \in {0, 1} /\ n = 1
      OBVIOUS
    <2>2. /\ reqs[q].pc \in Due /\ reqs' = [reqs EXCEPT ![q] = Idle] /\ grants' = grants
          /\ sent' = [sent EXCEPT ![g] = @ + 1]
      BY <1>3, <2>1 DEF SendBody, Due
    <2>3. IF n = 0 THEN sent' = sent ELSE sent' = [sent EXCEPT ![g] = @ + 1]
      BY <2>1, <2>2
    <2> QED
      BY <2>1, <2>2, <2>3, ReadIsClosed
  <1>4. ASSUME NEW q \in Requests, CreateBuyerUsageReport(q) PROVE Metered
    BY <1>4, ReadIsClosed DEF CreateBuyerUsageReport, Goto, tables, sales, Due
  <1>5. ASSUME NEW q \in Requests, Abandon(q) PROVE Metered
    <2>1. /\ reqs' = [reqs EXCEPT ![q] = Idle] /\ UNCHANGED <<grants, sent>>
      BY <1>5 DEF Abandon, Goto, tables, sales
    <2> QED
      BY <1>1, <2>1, ReadIsClosed, AsideIsUnmetered
  <1>6. ASSUME NEW q \in Requests, Deliver(q) PROVE Metered
    BY <1>1, <1>3, <1>4, <1>6, CheckIsUnmetered, StartIsUnmetered, GrantIsGiven, ReadIsTaken
       DEF Deliver
  <1>7. ASSUME NEW d \in Ids, NEW t \in Artifacts, DatasetArtifact(d, t) PROVE Metered
    BY <1>7 DEF DatasetArtifact, Metered, Unmetered, Left, Pend
  <1> QED
    BY <1>1, <1>2, <1>5, <1>6, <1>7, AdminIsUnmetered, ExportIsUnmetered DEF Next

LEMMA MeterKept == ASSUME NoneIsNothing, MeterInv, [Next]_vars PROVE MeterInv'
  <1>1. IInv' /\ Metered
    BY StepKeeps, StepIsMetered DEF MeterInv
  <1>2. ASSUME NEW g \in Grants PROVE IsFiniteSet(Pend(g)')
    <2>1. IsFiniteSet(Pend(g))
      BY DEF MeterInv
    <2>2. ASSUME NEW q PROVE IsFiniteSet(Pend(g) \union {q}) /\ IsFiniteSet(Pend(g) \ {q})
      BY <2>1, FS_AddElement, FS_RemoveElement
    <2>3. \/ Pend(g)' = Pend(g)
          \/ \E q : Pend(g)' = Pend(g) \union {q} \/ Pend(g)' = Pend(g) \ {q}
      BY <1>1 DEF Metered, Unmetered, OthersUnmetered, Given, Taken, Closed
    <2> QED
      BY <2>1, <2>2, <2>3
  <1> QED
    BY <1>1, <1>2 DEF MeterInv

\* The three functions that the contract is stated about.
LeftOf == [g \in Grants |-> Left(g)]
OwedOf == [g \in Grants |-> Cardinality(Pend(g))]

LEMMA MeteredIsContract ==
    ASSUME NoneIsNothing, MeterInv, Metered, sent' \in [Grants -> Nat]
    PROVE  \/ UNCHANGED <<LeftOf, OwedOf, sent>>
           \/ \E g \in Grants :
                 \/ /\ LeftOf[g] = None
                    /\ \E n \in Budgets : LeftOf' = [LeftOf EXCEPT ![g] = n]
                    /\ UNCHANGED <<OwedOf, sent>>
                 \/ /\ LeftOf[g] # None /\ LeftOf[g] > 0
                    /\ LeftOf' = [LeftOf EXCEPT ![g] = @ - 1]
                    /\ OwedOf' = [OwedOf EXCEPT ![g] = @ + 1]
                    /\ UNCHANGED sent
                 \/ /\ OwedOf[g] > 0
                    /\ OwedOf' = [OwedOf EXCEPT ![g] = @ - 1]
                    /\ sent' = [sent EXCEPT ![g] = @ + 1]
                    /\ UNCHANGED LeftOf
                 \/ /\ OwedOf[g] > 0
                    /\ OwedOf' = [OwedOf EXCEPT ![g] = @ - 1]
                    /\ UNCHANGED <<LeftOf, sent>>
  <1>1. sent \in [Grants -> Nat]
    BY DEF MeterInv, IInv, TypeOK
  <1>2. \A g \in Grants : /\ LeftOf[g] = Left(g) /\ LeftOf'[g] = Left(g)'
                          /\ OwedOf[g] = Cardinality(Pend(g))
                          /\ OwedOf'[g] = Cardinality(Pend(g)')
    BY DEF LeftOf, OwedOf
  <1>3. /\ DOMAIN LeftOf = Grants /\ LeftOf = [g \in Grants |-> LeftOf[g]]
        /\ DOMAIN LeftOf' = Grants /\ LeftOf' = [g \in Grants |-> LeftOf'[g]]
        /\ DOMAIN OwedOf = Grants /\ OwedOf = [g \in Grants |-> OwedOf[g]]
        /\ DOMAIN OwedOf' = Grants /\ OwedOf' = [g \in Grants |-> OwedOf'[g]]
    BY DEF LeftOf, OwedOf
  <1> HIDE DEF LeftOf, OwedOf
  <1>4. CASE Unmetered
    BY <1>1, <1>2, <1>3, <1>4 DEF Unmetered
  <1>5. ASSUME NEW g \in Grants, OthersUnmetered(g),
               Given(g) \/ Taken(g) \/ Closed(g, 0) \/ Closed(g, 1)
        PROVE  \/ /\ LeftOf[g] = None
                  /\ \E n \in Budgets : LeftOf' = [LeftOf EXCEPT ![g] = n]
                  /\ UNCHANGED <<OwedOf, sent>>
               \/ /\ LeftOf[g] # None /\ LeftOf[g] > 0
                  /\ LeftOf' = [LeftOf EXCEPT ![g] = @ - 1]
                  /\ OwedOf' = [OwedOf EXCEPT ![g] = @ + 1]
                  /\ UNCHANGED sent
               \/ /\ OwedOf[g] > 0
                  /\ OwedOf' = [OwedOf EXCEPT ![g] = @ - 1]
                  /\ sent' = [sent EXCEPT ![g] = @ + 1]
                  /\ UNCHANGED LeftOf
               \/ /\ OwedOf[g] > 0
                  /\ OwedOf' = [OwedOf EXCEPT ![g] = @ - 1]
                  /\ UNCHANGED <<LeftOf, sent>>
    <2>1. /\ LeftOf' = [LeftOf EXCEPT ![g] = LeftOf'[g]]
          /\ OwedOf' = [OwedOf EXCEPT ![g] = OwedOf'[g]]
          /\ sent' = [sent EXCEPT ![g] = sent'[g]]
      BY <1>1, <1>2, <1>3, <1>5 DEF OthersUnmetered
    <2>2. /\ LeftOf'[g] = LeftOf[g] => UNCHANGED LeftOf
          /\ OwedOf'[g] = OwedOf[g] => UNCHANGED OwedOf
          /\ sent'[g] = sent[g] => UNCHANGED sent
      BY <1>1, <1>3, <2>1
    <2>3. IsFiniteSet(Pend(g))
      BY DEF MeterInv
    <2>4. CASE Given(g)
      BY <1>2, <2>1, <2>2, <2>4 DEF Given
    <2>5. CASE Taken(g)
      <3>1. PICK q \in Requests \ Pend(g) : Pend(g)' = Pend(g) \union {q}
        BY <2>5 DEF Taken
      <3>2. Cardinality(Pend(g)') = Cardinality(Pend(g)) + 1
        BY <2>3, <3>1, FS_AddElement
      <3> QED
        BY <1>2, <2>1, <2>2, <2>5, <3>2 DEF Taken
    <2>6. ASSUME NEW n \in {0, 1}, Closed(g, n)
          PROVE  /\ OwedOf[g] > 0 /\ OwedOf' = [OwedOf EXCEPT ![g] = @ - 1]
                 /\ UNCHANGED LeftOf /\ sent'[g] = sent[g] + n
      <3>1. PICK q \in Pend(g) : Pend(g)' = Pend(g) \ {q}
        BY <2>6 DEF Closed
      <3>2. /\ Cardinality(Pend(g)') = Cardinality(Pend(g)) - 1
            /\ Cardinality(Pend(g)') \in Nat /\ Cardinality(Pend(g)) \in Nat
        BY <2>3, <3>1, FS_RemoveElement, FS_CardinalityType
      <3>3. Cardinality(Pend(g)) > 0
        BY <3>2
      <3> QED
        BY <1>2, <2>1, <2>2, <2>6, <3>2, <3>3 DEF Closed
    <2>7. CASE Closed(g, 0)
      <3>1. sent'[g] = sent[g] + 0
        BY <2>6, <2>7
      <3> QED
        BY <1>1, <2>2, <2>6, <2>7, <3>1
    <2>8. CASE Closed(g, 1)
      <3>1. sent'[g] = sent[g] + 1
        BY <2>6, <2>8
      <3> QED
        BY <2>1, <2>6, <2>8, <3>1
    <2> QED
      BY <1>5, <2>4, <2>5, <2>7, <2>8
  <1> QED
    BY <1>4, <1>5 DEF Metered

\* However downloads and reports of one grant overlap, fail or are given up, the grant
\* never gives more reads than it was given, and a body leaves under it only for a read
\* that was taken off (validDeliveryGrant, IncrementDeliveryGrantRead).
THEOREM ReadsAreMetered == ASSUME NoneIsNothing PROVE Spec => ReadsMetered
  <1>1. Init => MeterInv
    <2> SUFFICES ASSUME Init PROVE MeterInv
      OBVIOUS
    <2>1. \A g \in Grants : Pend(g) = {}
      BY IdleIsOK DEF Init, Pend, Due
    <2> QED
      BY <2>1, InitHolds, FS_EmptySet DEF MeterInv
  <1>2. MeterInv /\ [Next]_vars => MeterInv'
    BY MeterKept
  <1>3. Init => Contract!Init
    <2> SUFFICES ASSUME Init PROVE Contract!Init
      OBVIOUS
    <2>1. \A g \in Grants : {q \in Requests : reqs[q].pc \in {"sending", "reporting"}
                                              /\ reqs[q].grant = g} = {}
      BY IdleIsOK DEF Init
    <2> QED
      BY <2>1, FS_EmptySet DEF Init, Contract!Init
  <1>4. MeterInv /\ [Next]_vars => [Contract!Next]_(Contract!vars)
    <2> SUFFICES ASSUME MeterInv, [Next]_vars PROVE [Contract!Next]_(Contract!vars)
      OBVIOUS
    <2>1. Metered /\ sent' \in [Grants -> Nat]
      BY StepIsMetered, MeterKept DEF MeterInv, IInv, TypeOK
    <2> QED
      BY <2>1, MeteredIsContract
         DEF Contract!Next, Contract!Give, Contract!Take, Contract!Send, Contract!Lose,
             Contract!vars, LeftOf, OwedOf, Left, Pend, Due
  <1> QED
    BY <1>1, <1>2, <1>3, <1>4, PTL DEF Spec, ReadsMetered, Contract!Spec

\* The rows keep their types, no dataset has a gap before it, and no grant counts more
\* reads than it allows.
THEOREM TypeCorrect == ASSUME NoneIsNothing PROVE Spec => []TypeOK
  <1>1. Init => IInv
    BY InitHolds
  <1>2. IInv /\ [Next]_vars => IInv'
    BY StepKeeps
  <1>3. IInv => TypeOK
    BY DEF IInv
  <1> QED
    BY <1>1, <1>2, <1>3, PTL DEF Spec
=============================================================================
