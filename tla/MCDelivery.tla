----------------------------- MODULE MCDelivery -----------------------------
(***************************************************************************)
(* A small instance of Delivery for TLC.  All the handlers together are    *)
(* too many, so that every behaviour keeps to one scene: exports that race *)
(* with reviewers and withdrawals; evaluations of two datasets; deliveries *)
(* of one dataset; its orders; data subject requests beside an export.     *)
(* Within a scene two requests and the admins interleave freely.           *)
(***************************************************************************)
EXTENDS Delivery, TLC
CONSTANTS c1, c2, c3, o1, o2, x1, b1, g1, p1, r1, q1, q2

SomeOwner == c1 :> o1 @@ c2 :> o2 @@ c3 :> o1
SomeAuthorizations == o1 :> "a1" @@ o2 :> "a2"

VARIABLE scene

Good == [listed |-> TRUE, ready |-> TRUE, full |-> TRUE]
Bad == [listed |-> FALSE, ready |-> FALSE, full |-> TRUE]
Busy(pcs) == {q \in Requests : reqs[q].pc \in pcs}
Exporting == {"authorizing", "writing"}
Evaluating == {"comparing", "inspecting"}

NoSales == /\ \A o \in Orders : orders[o] = None
           /\ \A g \in Grants : grants[g] = None
           /\ Busy(DeliveryPcs) = {}
NoRights == /\ withdrawn = {}
            /\ \A x \in Disputes : disputes[x] = None
            /\ \A r \in DSRs : dsrs[r] = None
AllTraining == /\ \A d \in 1 .. made : datasets[d].purpose = "commercial"
               /\ \A q \in Busy({"authorizing"}) : reqs[q].purpose = "commercial"
Alone(pcs) == Busy(pcs) # {} => Cardinality({q \in Requests : reqs[q] # Idle}) = 1
\* One dataset, ready to be sold or not, with nothing else going on until it is.
Prepared == /\ made <= 1 /\ AllTraining
            /\ Alone(Exporting \union Evaluating)
            /\ cases[c1] = Good /\ cases[c2] = Good

\* Nothing reads `handed`, so that one scene has the route that adds to it.
HandedInOneScene == handed # {} => scene = "rights"

Allowed == HandedInOneScene /\
    CASE scene = "exports" ->
           /\ NoSales /\ Busy(Evaluating) = {}
           /\ \A x \in Disputes : disputes[x] = None
           /\ \A r \in DSRs : dsrs[r] = None
           /\ AllTraining /\ scanned = {}
           /\ cases[c1] \in {Good, Bad} /\ cases[c2] = Good /\ cases[c3] = Bad
      [] scene = "evaluations" ->
           /\ NoSales /\ NoRights /\ Alone(Exporting)
           /\ cases[c1].listed /\ cases[c1].ready /\ cases[c2] = Good /\ cases[c3] = Bad
           /\ c1 \in scanned /\ c3 \notin scanned
      [] scene = "deliveries" ->
           /\ Prepared /\ cases[c3] = Good /\ scanned = Cases
           /\ \A o \in Orders : orders[o] = None
           /\ \A r \in DSRs : dsrs[r] = None
           /\ \A x \in Disputes : disputes[x] # None =>
                 disputes[x].entity \in {<<"case", c1>>, <<"contributor", o2>>}
           /\ withdrawn \subseteq {"a2"}
           /\ \A q \in Busy(DeliveryPcs) : reqs[q].order = None /\ reqs[q].customer = None
      [] scene = "orders" ->
           /\ Prepared /\ NoRights /\ cases[c3] = Bad /\ scanned = Cases
           /\ \A q \in Busy(DeliveryPcs) : reqs[q].kind = "grant"
      [] scene = "rights" ->
           /\ NoSales /\ made <= 1 /\ AllTraining /\ Busy(Evaluating) = {}
           /\ \A x \in Disputes : disputes[x] = None
           /\ scanned = {} /\ cases[c1] = Good /\ cases[c2] = Good /\ cases[c3] = Bad

\* The requests are interchangeable, and all properties are safety properties.
Interchangeable == Permutations(Requests)

MCInit ==
    Init /\ scene \in {"exports", "evaluations", "deliveries", "orders", "rights"} /\ Allowed
MCSpec == MCInit /\ [][Next /\ UNCHANGED scene /\ Allowed']_<<vars, scene>>
=============================================================================
