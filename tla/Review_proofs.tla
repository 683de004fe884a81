---------------------------- MODULE Review_proofs ----------------------------
(***************************************************************************)
(* Proofs about the cases table for any number of cases, reviewers and     *)
(* requests, any texts and edits, and any length of a lease.               *)
(***************************************************************************)
EXTENDS Review, TLAPS

UsesOfTexts == {"private_library", "commercial_dataset", "training"}
Retries == {"model_gateway_retry", "model_gateway_audit_retry"}

\* No row of the table is taken for a missing one.
NoneIsNoRow == None \notin Row

\* What holds of a gate that was computed for a text, however often it was refined
\* since and however old it is: p is the set of cases with a passing refinement.
Fits(c, text, gate, p) ==
    /\ ~RedactionPassed(text.findings) => gate.drl = 0
    /\ gate.drl = 0 => ~gate.ready /\ gate.field = "none"
    /\ Commercial(gate.uses) => Commercial(text.uses)
    /\ gate.ready =>
          /\ gate.drl = 3
          /\ Commercial(text.uses)
          /\ \/ c \in p
             \/ /\ Score(Extract(text), text.chars) >= 78
                /\ Retries \intersect gate.actions = {}

Sound(c, row, p) ==
    /\ Fits(c, row.text, row.gate, p)
    /\ row.drl = row.gate.drl
    /\ row.ready = row.gate.ready
    /\ row.status = "in_review" => row.holder # None
    /\ row.gate.field # "none" =>
          (row.gate.field = "passed" <=> FieldsPass(row.fields, row.text.chars))

RowsAreSound == \A c \in Cases : Exists(c) => Sound(c, rows[c], proven)

\* What a request is about to write was computed from a gate of the same text.
RequestsAreSound ==
    \A q \in Requests :
       /\ reqs[q].pc = "deciding" =>
             /\ reqs[q].case \in Cases /\ Exists(reqs[q].case)
             /\ reqs[q].status \in {"approved", "rejected", "review_ready"}
       /\ reqs[q].pc = "refining" =>
             /\ reqs[q].case \in Cases /\ Exists(reqs[q].case)
             /\ reqs[q].seen \in Gates /\ reqs[q].fields \subseteq FieldNames
             /\ Fits(reqs[q].case, rows[reqs[q].case].text, reqs[q].seen, proven)

IInv ==
    /\ TypeOK
    /\ RowsAreSound
    /\ RequestsAreSound

-----------------------------------------------------------------------------
(* The gate.                                                                *)

\* The gate of a text: its type, and what a mark says.
LEMMA GateIsSound ==
    ASSUME NEW passed \in BOOLEAN, NEW score, NEW uses \in SUBSET UsesOfTexts
    PROVE  /\ Gate(passed, score, uses) \in Gates
           /\ ~passed => Gate(passed, score, uses).drl = 0
           /\ Gate(passed, score, uses).drl = 0 => ~Gate(passed, score, uses).ready
           /\ Gate(passed, score, uses).field = "none"
           /\ Commercial(Gate(passed, score, uses).uses) => Commercial(uses)
           /\ Gate(passed, score, uses).ready =>
                 /\ Gate(passed, score, uses).drl = 3
                 /\ Commercial(uses)
                 /\ score >= 78
           /\ Retries \intersect Gate(passed, score, uses).actions = {}
  <1> DEFINE base == [drl |-> 2, ready |-> FALSE, blocked |-> FALSE, actions |-> {},
                      uses |-> IF uses = {} THEN {"private_library"} ELSE uses,
                      field |-> "none"]
             g == Gate(passed, score, uses)
             Goal == /\ g \in Gates
                     /\ ~passed => g.drl = 0
                     /\ g.drl = 0 => ~g.ready
                     /\ g.field = "none"
                     /\ Commercial(g.uses) => Commercial(uses)
                     /\ g.ready => g.drl = 3 /\ Commercial(uses) /\ score >= 78
                     /\ Retries \intersect g.actions = {}
  <1>1. /\ base.uses \subseteq UsesOfTexts
        /\ Commercial(base.uses) => Commercial(uses)
    BY DEF UsesOfTexts, Commercial
  <1>2. /\ base \in Gates /\ base.drl = 2 /\ base.ready = FALSE
        /\ base.actions = {} /\ base.field = "none"
    BY <1>1 DEF Gates, UsesOfTexts
  <1> HIDE DEF base
  <1>3. CASE ~passed
    <2> DEFINE d == 0
               r == [base EXCEPT !.drl = d, !.blocked = TRUE, !.actions = {"privacy_manual_review"}]
    <2>1. g = r /\ d \in 0 .. 3
      BY <1>3 DEF Gate, base
    <2> HIDE DEF d
    <2>2. /\ r \in Gates /\ r.drl = d /\ ~r.ready /\ r.field = "none"
          /\ r.uses = base.uses /\ r.actions = {"privacy_manual_review"}
      BY <1>2, <2>1 DEF Gates, Actions
    <2> HIDE DEF r, g
    <2>3. Retries \intersect g.actions = {}
      BY <2>1, <2>2 DEF Retries
    <2>4. Goal
      BY <1>1, <1>3, <2>1, <2>2, <2>3 DEF d
    <2> QED
      BY <2>4 DEF g
  <1>4. CASE passed /\ score < 50
    <2> DEFINE d == 1
               r == [base EXCEPT !.drl = d, !.blocked = TRUE, !.actions = {"long_horizon_evidence_enrichment"}]
    <2>1. g = r /\ d \in 0 .. 3
      BY <1>4 DEF Gate, base
    <2> HIDE DEF d
    <2>2. /\ r \in Gates /\ r.drl = d /\ ~r.ready /\ r.field = "none"
          /\ r.uses = base.uses /\ r.actions = {"long_horizon_evidence_enrichment"}
      BY <1>2, <2>1 DEF Gates, Actions
    <2> HIDE DEF r, g
    <2>3. Retries \intersect g.actions = {}
      BY <2>1, <2>2 DEF Retries
    <2>4. Goal
      BY <1>1, <1>4, <2>1, <2>2, <2>3 DEF d
    <2> QED
      BY <2>4 DEF g
  <1>5. CASE passed /\ ~(score < 50) /\ score >= 78
    <2> DEFINE ready == Commercial(uses)
               d == 3
               r == [base EXCEPT !.drl = d, !.ready = ready]
    <2>1. g = r /\ d \in 0 .. 3
      BY <1>5 DEF Gate, base
    <2>2. ready \in BOOLEAN /\ (ready => Commercial(uses))
      BY DEF Commercial
    <2> HIDE DEF ready, d
    <2>3. /\ r \in Gates /\ r.drl = d /\ r.field = "none"
          /\ r.uses = base.uses /\ r.actions = {}
      BY <1>2, <2>1, <2>2 DEF Gates
    <2>4. r.ready => ready
      BY <1>2, <2>1, <2>2 DEF Gates
    <2> HIDE DEF r, g
    <2>5. Goal
      BY <1>1, <1>5, <2>1, <2>2, <2>3, <2>4 DEF d
    <2> QED
      BY <2>5 DEF g
  <1>6. CASE passed /\ ~(score < 50) /\ ~(score >= 78)
    <2> DEFINE r == [base EXCEPT !.actions = {"human_review"}]
    <2>1. g = r
      BY <1>6 DEF Gate, base
    <2>2. /\ r \in Gates /\ r.drl = 2 /\ ~r.ready /\ r.field = "none"
          /\ r.uses = base.uses /\ r.actions = {"human_review"}
      BY <1>2 DEF Gates, Actions
    <2> HIDE DEF r, g
    <2>3. Retries \intersect g.actions = {}
      BY <2>1, <2>2 DEF Retries
    <2>4. Goal
      BY <1>1, <1>6, <2>1, <2>2, <2>3
    <2> QED
      BY <2>4 DEF g
  <1> QED
    BY <1>3, <1>4, <1>5, <1>6

\* The gateway takes the mark away and never gives it.
LEMMA GatewayIsSound ==
    ASSUME NEW gate \in Gates, NEW status, NEW recorded \in BOOLEAN
    PROVE  /\ ApplyModelGateway(gate, status, recorded) \in Gates
           /\ ApplyModelGateway(gate, status, recorded).drl = gate.drl
           /\ ApplyModelGateway(gate, status, recorded).field = gate.field
           /\ ApplyModelGateway(gate, status, recorded).uses = gate.uses
           /\ ApplyModelGateway(gate, status, recorded).ready =>
                 /\ gate.ready
                 /\ ApplyModelGateway(gate, status, recorded).actions = gate.actions
  <1> DEFINE ready == gate.ready /\ status # "failed" /\ recorded
             more == (IF status = "failed" THEN {"model_gateway_retry"} ELSE {})
                     \union (IF recorded THEN {} ELSE {"model_gateway_audit_retry"})
  <1>1. ApplyModelGateway(gate, status, recorded)
           = [gate EXCEPT !.ready = ready, !.actions = gate.actions \union more]
    BY DEF ApplyModelGateway
  <1>2. ready \in BOOLEAN /\ more \subseteq Actions
    BY DEF Actions
  <1>3. ready => more = {} /\ gate.ready
    OBVIOUS
  <1> HIDE DEF ready, more
  <1> QED
    BY <1>1, <1>2, <1>3 DEF Gates

\* A refinement fits the text its gate fits, if the case counts as proven when it passes.
LEMMA RefinementFits ==
    ASSUME NEW c, NEW text, NEW gate \in Gates, NEW p, NEW passes \in BOOLEAN, NEW after,
           Fits(c, text, gate, p), p \subseteq after, passes => c \in after
    PROVE  /\ WithLongHorizonRefinement(gate, passes) \in Gates
           /\ Fits(c, text, WithLongHorizonRefinement(gate, passes), after)
           /\ WithLongHorizonRefinement(gate, passes).field # "none" =>
                 (WithLongHorizonRefinement(gate, passes).field = "passed" <=> passes)
  <1> DEFINE g == WithLongHorizonRefinement(gate, passes)
  <1>1. CASE gate.drl = 0
    <2>1. g = gate
      BY <1>1 DEF WithLongHorizonRefinement
    <2> QED
      BY <1>1, <2>1 DEF Fits
  <1>2. CASE gate.drl # 0 /\ passes
    <2> DEFINE d == 3
               f == "passed"
               ready == Commercial(gate.uses)
               acts == gate.actions \ {"long_horizon_evidence_enrichment", "human_review"}
    <2>1. /\ g = [gate EXCEPT !.drl = d, !.ready = ready, !.field = f, !.actions = acts]
          /\ d \in 0 .. 3 /\ f \in {"none", "passed", "needs_work"}
      BY <1>2 DEF WithLongHorizonRefinement
    <2>2. ready \in BOOLEAN /\ acts \subseteq gate.actions
      BY DEF Commercial
    <2>3. ready => Commercial(text.uses)
      BY DEF Fits
    <2> HIDE DEF ready, acts, d, f
    <2>5. /\ g \in Gates /\ g.drl = d /\ g.field = f /\ g.uses = gate.uses
      BY <2>1, <2>2 DEF Gates
    <2>6. g.ready => ready
      BY <2>1, <2>2 DEF Gates
    <2>7. RedactionPassed(text.findings)
      BY <1>2 DEF Fits
    <2>8. Commercial(g.uses) => Commercial(text.uses)
      BY <2>5 DEF Fits
    <2>9. Fits(c, text, g, after)
      <3> HIDE DEF g
      <3> QED
        BY <1>2, <2>3, <2>5, <2>6, <2>7, <2>8 DEF Fits, d
    <2> QED
      BY <1>2, <2>5, <2>9 DEF f
  <1>3. CASE gate.drl # 0 /\ ~passes
    <2>1. g = [gate EXCEPT !.field = "needs_work",
                           !.actions = gate.actions
                                         \union {"long_horizon_field_completion"}]
      BY <1>3 DEF WithLongHorizonRefinement
    <2>2. /\ g \in Gates /\ g.drl = gate.drl /\ g.ready = gate.ready
          /\ g.field = "needs_work" /\ g.uses = gate.uses
          /\ g.actions = gate.actions \union {"long_horizon_field_completion"}
      BY <2>1 DEF Gates, Actions
    <2>3. Retries \intersect g.actions = Retries \intersect gate.actions
      BY <2>2 DEF Retries
    <2> QED
      BY <1>3, <2>2, <2>3 DEF Fits
  <1> QED
    BY <1>1, <1>2, <1>3

\* The row the worker inserts.
LEMMA ProcessedIsSound ==
    ASSUME NEW c \in Cases, NEW text \in Texts[c], NEW p
    PROVE  Processed(text) \in Row /\ Sound(c, Processed(text), p)
  <1> DEFINE passed == RedactionPassed(text.findings)
             fields == Extract(text)
             score == Score(fields, text.chars)
             first == Gate(passed, score, text.uses)
             status == GatewayStatus(GatewayMode, Endpoint, passed, text.reply)
             gate == ApplyModelGateway(first, status, text.recorded)
             row == Processed(text)
  <1>1. /\ text \in AllTexts /\ text.uses \in SUBSET UsesOfTexts
        /\ text.recorded \in BOOLEAN /\ text.signals \subseteq FieldNames
    BY TextsAssumption DEF AllTexts, UsesOfTexts
  <1>2. passed \in BOOLEAN /\ fields \subseteq FieldNames
    BY <1>1 DEF RedactionPassed, Extract, FieldNames
  <1>3. CaseStatus(gate) \in {"needs_review", "review_ready"}
    BY DEF CaseStatus
  <1>4. row = [text |-> text, status |-> CaseStatus(gate), holder |-> None, age |-> 0,
               fields |-> fields, drl |-> gate.drl, ready |-> gate.ready, gate |-> gate]
    BY DEF Processed
  <1>5. /\ first \in Gates /\ first.field = "none"
        /\ ~passed => first.drl = 0
        /\ first.drl = 0 => ~first.ready
        /\ Commercial(first.uses) => Commercial(text.uses)
        /\ first.ready => first.drl = 3 /\ Commercial(text.uses) /\ score >= 78
        /\ Retries \intersect first.actions = {}
    <2> HIDE DEF passed, score
    <2> QED
      BY <1>1, <1>2, GateIsSound
  <1>6. /\ gate \in Gates /\ gate.drl = first.drl /\ gate.field = first.field
        /\ gate.uses = first.uses
        /\ gate.ready => first.ready /\ gate.actions = first.actions
    <2> HIDE DEF first, status
    <2> QED
      BY <1>1, <1>5, GatewayIsSound
  <1>7. Fits(c, text, gate, p)
    <2> HIDE DEF first, gate
    <2> QED
      BY <1>5, <1>6 DEF Fits
  <1> HIDE DEF first, gate, fields
  <1>8. gate.drl \in 0 .. 3 /\ gate.ready \in BOOLEAN /\ 0 \in 0 .. Lease + 1
    BY <1>6, LeaseAssumption DEF Gates
  <1>9. row \in Row
    BY <1>1, <1>2, <1>3, <1>4, <1>6, <1>8 DEF Row, Statuses, QueueStatuses
  <1>10. /\ row.text = text /\ row.gate = gate /\ row.drl = gate.drl
         /\ row.ready = gate.ready /\ row.status # "in_review"
    BY <1>3, <1>4
  <1>11. gate.field = "none"
    BY <1>5, <1>6
  <1> HIDE DEF row
  <1>12. Sound(c, row, p)
    BY <1>7, <1>10, <1>11 DEF Sound
  <1> QED
    BY <1>9, <1>12 DEF row

\* The row a refinement writes over whatever is there.
LEMMA RefinedIsSound ==
    ASSUME NEW c, NEW current \in Row, NEW seen \in Gates, NEW fields \in SUBSET FieldNames,
           NEW p, NEW after, Fits(c, current.text, seen, p), p \subseteq after,
           FieldsPass(fields, current.text.chars) => c \in after
    PROVE  /\ Refined(current, seen, fields) \in Row
           /\ Sound(c, Refined(current, seen, fields), after)
           /\ Refined(current, seen, fields).text = current.text
           /\ Refined(current, seen, fields).holder = current.holder
           /\ Refined(current, seen, fields).age = current.age
  <1> DEFINE passes == FieldsPass(fields, current.text.chars)
             gate == WithLongHorizonRefinement(seen, passes)
             drl == gate.drl
             ready == gate.ready
             status == IF passes THEN "review_ready" ELSE "needs_review"
             row == [current EXCEPT !.fields = fields, !.gate = gate, !.drl = drl,
                                    !.ready = ready, !.status = status]
  <1>1. Refined(current, seen, fields) = row
    BY DEF Refined
  <1>2. passes \in BOOLEAN
    BY DEF FieldsPass
  <1>3. /\ gate \in Gates
        /\ Fits(c, current.text, gate, after)
        /\ gate.field # "none" => (gate.field = "passed" <=> passes)
    <2> HIDE DEF passes
    <2> QED
      BY <1>2, RefinementFits DEF passes
  <1>4. status \in Statuses /\ status # "in_review"
    BY DEF Statuses, QueueStatuses
  <1> HIDE DEF gate, status
  <1>5. drl \in 0 .. 3 /\ ready \in BOOLEAN
    BY <1>3 DEF Gates
  <1> HIDE DEF drl, ready
  <1>6. /\ row \in Row /\ row.text = current.text /\ row.fields = fields
        /\ row.gate = gate /\ row.status = status
        /\ row.holder = current.holder /\ row.age = current.age
    BY <1>3, <1>4, <1>5 DEF Row
  <1>7. row.drl = drl
    BY <1>3, <1>4, <1>5 DEF Row
  <1>8. row.ready = ready
    BY <1>3, <1>4, <1>5 DEF Row
  <1> HIDE DEF row
  <1>9. row.drl = row.gate.drl /\ row.ready = row.gate.ready
    BY <1>6, <1>7, <1>8 DEF drl, ready
  <1>10. Sound(c, row, after)
    BY <1>3, <1>4, <1>6, <1>9 DEF Sound
  <1> QED
    BY <1>1, <1>6, <1>10

-----------------------------------------------------------------------------
(* Steps.                                                                   *)

LEMMA SoundLasts ==
    ASSUME NEW c, NEW text, NEW gate, NEW p, NEW after, p \subseteq after,
           Fits(c, text, gate, p)
    PROVE  Fits(c, text, gate, after)
  BY DEF Fits

\* A step that writes one row, keeps its text and ends requests at most.
LEMMA RowKeeps ==
    ASSUME NoneIsNoRow, IInv, NEW c \in Cases, NEW new \in Row,
           rows' = [rows EXCEPT ![c] = new], Sound(c, new, proven'),
           Exists(c) => new.text = rows[c].text,
           order' \in Seq(Cases), proven \subseteq proven', proven' \subseteq Cases,
           reqs' \in [Requests -> Request],
           \A q \in Requests : reqs'[q] = reqs[q] \/ reqs'[q] = Idle
    PROVE  IInv'
  <1>1. /\ rows'[c] = new /\ new # None
        /\ \A d \in Cases \ {c} : rows'[d] = rows[d]
    BY DEF IInv, TypeOK, NoneIsNoRow
  <1>2. TypeOK'
    BY DEF IInv, TypeOK
  <1>3. RowsAreSound'
    <2>1. ASSUME NEW d \in Cases \ {c}, rows[d] # None
          PROVE  Sound(d, rows[d], proven')
      BY <2>1, SoundLasts DEF IInv, RowsAreSound, Exists, Sound
    <2> QED
      BY <1>1, <2>1 DEF RowsAreSound, Exists
  <1>4. \A d \in Cases : Exists(d) => Exists(d)' /\ rows'[d].text = rows[d].text
    BY <1>1 DEF Exists
  <1>5. Idle.pc = "idle"
    BY DEF Idle
  <1>6. RequestsAreSound'
    <2> SUFFICES ASSUME NEW q \in Requests, reqs'[q] = reqs[q]
                 PROVE  RequestsAreSound!(q)'
      BY <1>5 DEF RequestsAreSound
    <2> QED
      BY <1>4, SoundLasts DEF IInv, RequestsAreSound
  <1> QED
    BY <1>2, <1>3, <1>6 DEF IInv

\* A step of one request that writes nothing.
LEMMA RequestKeeps ==
    ASSUME IInv, NEW q \in Requests, NEW new \in Request,
           reqs' = [reqs EXCEPT ![q] = new], UNCHANGED <<rows, order, proven>>,
           new.pc = "deciding" =>
              /\ new.case \in Cases /\ Exists(new.case)
              /\ new.status \in {"approved", "rejected", "review_ready"},
           new.pc = "refining" =>
              /\ new.case \in Cases /\ Exists(new.case)
              /\ new.seen \in Gates /\ new.fields \subseteq FieldNames
              /\ Fits(new.case, rows[new.case].text, new.seen, proven)
    PROVE  IInv'
  <1>1. reqs'[q] = new /\ \A s \in Requests \ {q} : reqs'[s] = reqs[s]
    BY DEF IInv, TypeOK
  <1>2. TypeOK'
    BY DEF IInv, TypeOK
  <1>3. RowsAreSound'
    BY DEF IInv, RowsAreSound, Exists
  <1>4. RequestsAreSound'
    BY <1>1 DEF IInv, RequestsAreSound, Exists
  <1> QED
    BY <1>2, <1>3, <1>4 DEF IInv

LEMMA InitHolds == ASSUME Init PROVE IInv
  <1>1. Idle \in Request /\ Idle.pc = "idle" /\ <<>> \in Seq(Cases)
    BY DEF Request, Idle
  <1>2. TypeOK
    BY <1>1 DEF Init, TypeOK
  <1>3. RowsAreSound
    BY DEF Init, RowsAreSound, Exists
  <1>4. RequestsAreSound
    BY <1>1 DEF Init, RequestsAreSound
  <1> QED
    BY <1>2, <1>3, <1>4 DEF IInv

LEMMA ProcessKeeps ==
    ASSUME NoneIsNoRow, IInv, NEW c \in Cases, Process(c)
    PROVE  IInv'
  <1>1. PICK text \in Texts[c] : rows' = [rows EXCEPT ![c] = Processed(text)]
    BY DEF Process
  <1>2. Processed(text) \in Row /\ Sound(c, Processed(text), proven')
    BY ProcessedIsSound
  <1>3. /\ ~Exists(c) /\ order' = Append(order, c)
        /\ reqs' = reqs /\ proven' = proven
    BY DEF Process
  <1>4. /\ order' \in Seq(Cases) /\ reqs' \in [Requests -> Request]
        /\ proven' \subseteq Cases
    BY <1>3 DEF IInv, TypeOK
  <1> QED
    BY <1>1, <1>2, <1>3, <1>4, RowKeeps

\* What claims and releases write.
Held(row, status, holder, age) ==
    [row EXCEPT !.status = status, !.holder = holder, !.age = age]

LEMMA HeldIsSound ==
    ASSUME NEW c, NEW row \in Row, NEW p, Sound(c, row, p), NEW status \in Statuses,
           NEW holder \in Reviewers \union {None}, NEW age \in 0 .. Lease + 1,
           status = "in_review" => holder # None
    PROVE  /\ Held(row, status, holder, age) \in Row
           /\ Sound(c, Held(row, status, holder, age), p)
           /\ Held(row, status, holder, age).text = row.text
           /\ Held(row, status, holder, age).status = status
           /\ Held(row, status, holder, age).holder = holder
           /\ Held(row, status, holder, age).age = age
  <1> DEFINE new == Held(row, status, holder, age)
  <1>1. /\ new \in Row /\ new.text = row.text /\ new.gate = row.gate
        /\ new.status = status /\ new.holder = holder /\ new.age = age
        /\ new.fields = row.fields /\ new.drl = row.drl
    BY DEF Row, Held
  <1>2. new.ready = row.ready
    BY DEF Row, Held
  <1> HIDE DEF new
  <1>3. Sound(c, new, p)
    BY <1>1, <1>2 DEF Sound
  <1> QED
    BY <1>1, <1>3 DEF new

\* The claim, as a step on one row.
LEMMA ClaimIsOfOne ==
    ASSUME IInv, NEW r \in Reviewers, ClaimNextCase(r)
    PROVE  \E c \in Cases :
              /\ Claimable(c)
              /\ rows' = [rows EXCEPT ![c] = Held(rows[c], "in_review", r, 0)]
  <1>1. PICK i \in DOMAIN order :
           /\ IsNext(i)
           /\ rows' = [rows EXCEPT ![order[i]] =
                         [@ EXCEPT !.status = "in_review", !.holder = r, !.age = 0]]
    BY DEF ClaimNextCase
  <1>2. order[i] \in Cases /\ Claimable(order[i])
    BY <1>1 DEF IInv, TypeOK, IsNext
  <1> QED
    BY <1>1, <1>2 DEF Held

LEMMA ClaimKeeps ==
    ASSUME NoneIsNoRow, IInv, NEW r \in Reviewers, ClaimNextCase(r)
    PROVE  IInv'
  <1>1. PICK c \in Cases :
           /\ Claimable(c)
           /\ rows' = [rows EXCEPT ![c] = Held(rows[c], "in_review", r, 0)]
    BY ClaimIsOfOne
  <1>2. /\ Exists(c) /\ rows[c] \in Row /\ Sound(c, rows[c], proven)
        /\ "in_review" \in Statuses /\ r # None /\ 0 \in 0 .. Lease + 1
    BY <1>1, LeaseAssumption, NoneAssumption
       DEF Claimable, InQueue, Exists, IInv, TypeOK, RowsAreSound, Statuses, QueueStatuses
  <1>3. UNCHANGED <<order, reqs, proven>>
    BY DEF ClaimNextCase
  <1>4. PICK new : new = Held(rows[c], "in_review", r, 0)
    OBVIOUS
  <1>5. new \in Row /\ Sound(c, new, proven) /\ new.text = rows[c].text
    BY <1>2, <1>4, HeldIsSound
  <1> QED
    BY <1>1, <1>3, <1>4, <1>5, RowKeeps DEF IInv, TypeOK

LEMMA ReleaseKeeps ==
    ASSUME NoneIsNoRow, IInv, NEW c \in Cases, ReleaseCase(c)
    PROVE  IInv'
  <1>1. Exists(c) /\ rows' = [rows EXCEPT ![c] = Held(rows[c], "review_ready", None, 0)]
    BY DEF ReleaseCase, Held
  <1>2. /\ rows[c] \in Row /\ Sound(c, rows[c], proven)
        /\ "review_ready" \in Statuses /\ 0 \in 0 .. Lease + 1
    BY <1>1, LeaseAssumption
       DEF Exists, IInv, TypeOK, RowsAreSound, Statuses, QueueStatuses
  <1>3. UNCHANGED <<order, reqs, proven>>
    BY DEF ReleaseCase
  <1>4. PICK new : new = Held(rows[c], "review_ready", None, 0)
    OBVIOUS
  <1>5. new \in Row /\ Sound(c, new, proven) /\ new.text = rows[c].text
    BY <1>2, <1>4, HeldIsSound
  <1> QED
    BY <1>1, <1>3, <1>4, <1>5, RowKeeps DEF IInv, TypeOK

LEMMA DecisionKeeps ==
    ASSUME NoneIsNoRow, IInv, NEW q \in Requests, SetCaseStatus(q)
    PROVE  IInv'
  <1> DEFINE c == reqs[q].case
             status == reqs[q].status
             row == [rows[c] EXCEPT !.status = status]
  <1>1. /\ reqs[q].pc = "deciding"
        /\ rows' = [rows EXCEPT ![c] = row] /\ reqs' = [reqs EXCEPT ![q] = Idle]
        /\ UNCHANGED <<order, proven>>
    BY DEF SetCaseStatus
  <1>2. /\ c \in Cases /\ Exists(c)
        /\ status \in Statuses /\ status # "in_review"
    BY <1>1 DEF IInv, RequestsAreSound, Statuses, QueueStatuses
  <1>3. rows[c] \in Row /\ Sound(c, rows[c], proven)
    BY <1>2 DEF Exists, IInv, TypeOK, RowsAreSound
  <1> HIDE DEF status, c
  <1>4. PICK new : new = row
    OBVIOUS
  <1>5. /\ new \in Row /\ new.text = rows[c].text /\ new.gate = rows[c].gate
        /\ new.status = status /\ new.holder = rows[c].holder
        /\ new.fields = rows[c].fields /\ new.drl = rows[c].drl
    BY <1>2, <1>3, <1>4 DEF Row
  <1>6. new.ready = rows[c].ready
    BY <1>2, <1>3, <1>4 DEF Row
  <1>7. Sound(c, new, proven)
    BY <1>2, <1>3, <1>5, <1>6 DEF Sound
  <1>8. /\ reqs' \in [Requests -> Request]
        /\ \A s \in Requests : reqs'[s] = reqs[s] \/ reqs'[s] = Idle
    BY <1>1 DEF IInv, TypeOK, Request
  <1>9. rows' = [rows EXCEPT ![c] = new]
    BY <1>1, <1>4 DEF c
  <1> QED
    BY <1>1, <1>2, <1>5, <1>7, <1>8, <1>9, RowKeeps DEF IInv, TypeOK

LEMMA RefinementKeeps ==
    ASSUME NoneIsNoRow, IInv, NEW q \in Requests, UpdateLongHorizon(q)
    PROVE  IInv'
  <1> DEFINE c == reqs[q].case
             seen == reqs[q].seen
             fields == reqs[q].fields
  <1>1. /\ reqs[q].pc = "refining"
        /\ rows' = [rows EXCEPT ![c] = Refined(rows[c], seen, fields)]
        /\ proven' = IF FieldsPass(fields, rows[c].text.chars)
                     THEN proven \union {c} ELSE proven
        /\ reqs' = [reqs EXCEPT ![q] = Idle] /\ order' = order
    BY DEF UpdateLongHorizon
  <1>2. /\ c \in Cases /\ Exists(c) /\ seen \in Gates
        /\ fields \in SUBSET FieldNames /\ Fits(c, rows[c].text, seen, proven)
    BY <1>1 DEF IInv, RequestsAreSound
  <1>3. rows[c] \in Row
    BY <1>2 DEF Exists, IInv, TypeOK
  <1>4. /\ proven \subseteq proven' /\ proven' \subseteq Cases
        /\ FieldsPass(fields, rows[c].text.chars) => c \in proven'
    BY <1>1, <1>2 DEF IInv, TypeOK
  <1> HIDE DEF c, seen, fields
  <1>5. PICK new : new = Refined(rows[c], seen, fields)
    OBVIOUS
  <1>6. new \in Row /\ Sound(c, new, proven') /\ new.text = rows[c].text
    <2> DEFINE after == proven'
    <2>1. proven \subseteq after /\ (FieldsPass(fields, rows[c].text.chars) => c \in after)
      BY <1>4
    <2> HIDE DEF after
    <2>2. new \in Row /\ Sound(c, new, after) /\ new.text = rows[c].text
      BY <1>2, <1>3, <1>5, <2>1, RefinedIsSound
    <2> QED
      BY <2>2 DEF after
  <1>7. /\ reqs' \in [Requests -> Request]
        /\ \A s \in Requests : reqs'[s] = reqs[s] \/ reqs'[s] = Idle
    BY <1>1 DEF IInv, TypeOK, Request
  <1>8. rows' = [rows EXCEPT ![c] = new]
    BY <1>1, <1>5 DEF c, seen, fields
  <1> QED
    BY <1>1, <1>2, <1>4, <1>6, <1>7, <1>8, RowKeeps DEF IInv, TypeOK

LEMMA RequestsKeep ==
    ASSUME IInv, NEW q \in Requests, NEW c \in Cases,
           \/ \E kind \in {"approve", "reject", "expert_verify", "gold_review"} :
                 RecordDecision(q, c, kind)
           \/ \E fields \in Edits[c] : ReadForRefinement(q, c, fields)
    PROVE  IInv'
  <1>1. ASSUME NEW kind \in {"approve", "reject", "expert_verify", "gold_review"},
               RecordDecision(q, c, kind)
        PROVE  IInv'
    <2> DEFINE status == Outcome(kind)
               new == [pc |-> "deciding", case |-> c, status |-> status]
    <2>1. status \in {"approved", "rejected", "review_ready"} /\ status \in Statuses
      BY DEF Outcome, Statuses, QueueStatuses
    <2>2. new \in Request
      BY <2>1 DEF Request
    <2>3. reqs' = [reqs EXCEPT ![q] = new] /\ UNCHANGED <<rows, order, proven>> /\ Exists(c)
      BY <1>1 DEF RecordDecision
    <2> HIDE DEF status
    <2>4. new.pc = "deciding" /\ new.case = c /\ new.status = status
      OBVIOUS
    <2> HIDE DEF new
    <2> QED
      BY <2>1, <2>2, <2>3, <2>4, RequestKeeps
  <1>2. ASSUME NEW fields \in Edits[c], ReadForRefinement(q, c, fields) PROVE IInv'
    <2> DEFINE seen == rows[c].gate
               new == [pc |-> "refining", case |-> c, seen |-> seen, fields |-> fields]
    <2>1. fields \subseteq FieldNames
      BY EditsAssumption
    <2>2. Exists(c) /\ rows[c] \in Row /\ Sound(c, rows[c], proven)
      BY <1>2 DEF ReadForRefinement, Exists, IInv, TypeOK, RowsAreSound
    <2>3. seen \in Gates /\ Fits(c, rows[c].text, seen, proven)
      BY <2>2 DEF Row, Sound
    <2>4. reqs' = [reqs EXCEPT ![q] = new] /\ UNCHANGED <<rows, order, proven>>
      BY <1>2 DEF ReadForRefinement
    <2> HIDE DEF seen
    <2>5. new \in Request
      BY <2>1, <2>3 DEF Request
    <2>6. /\ new.pc = "refining" /\ new.case = c /\ new.seen = seen
          /\ new.fields = fields
      OBVIOUS
    <2> HIDE DEF new
    <2> QED
      BY <2>1, <2>2, <2>3, <2>4, <2>5, <2>6, RequestKeeps
  <1> QED
    BY <1>1, <1>2

LEMMA TickKeeps == ASSUME NoneIsNoRow, IInv, Tick PROVE IInv'
  <1> DEFINE Ages(c) == Exists(c) /\ rows[c].holder # None /\ ~Expired(c)
             older(c) == [rows[c] EXCEPT !.age = rows[c].age + 1]
  <1>1. /\ rows' = [c \in Cases |-> IF Ages(c) THEN older(c) ELSE rows[c]]
        /\ UNCHANGED <<order, reqs, proven>>
    BY DEF Tick
  <1>2. ASSUME NEW c \in Cases, Ages(c)
        PROVE  /\ older(c) \in Row /\ older(c).text = rows[c].text
               /\ Sound(c, older(c), proven)
    <2>1. rows[c] \in Row /\ Sound(c, rows[c], proven)
      BY <1>2 DEF Exists, IInv, TypeOK, RowsAreSound
    <2>2. rows[c].age + 1 \in 0 .. Lease + 1
      BY <1>2, <2>1, LeaseAssumption DEF Row, Expired
    <2>3. /\ older(c) \in Row /\ older(c).text = rows[c].text
          /\ older(c).gate = rows[c].gate /\ older(c).status = rows[c].status
          /\ older(c).holder = rows[c].holder /\ older(c).fields = rows[c].fields
          /\ older(c).drl = rows[c].drl
      BY <2>1, <2>2 DEF Row
    <2>4. older(c).ready = rows[c].ready
      BY <2>1, <2>2 DEF Row
    <2> HIDE DEF older
    <2> QED
      BY <2>1, <2>3, <2>4 DEF Sound
  <1> HIDE DEF older, Ages
  <1>3. \A c \in Cases :
           /\ rows[c] # None =>
                 /\ rows'[c] \in Row /\ rows'[c].text = rows[c].text
                 /\ Sound(c, rows'[c], proven)
           /\ rows[c] = None => rows'[c] = None
    BY <1>1, <1>2 DEF Ages, Exists, IInv, TypeOK, RowsAreSound
  <1>4. TypeOK'
    <2>1. rows' \in [Cases -> Row \union {None}]
      BY <1>1, <1>3
    <2> QED
      BY <1>1, <2>1 DEF IInv, TypeOK
  <1>5. RowsAreSound'
    BY <1>1, <1>3 DEF RowsAreSound, Exists
  <1>6. RequestsAreSound'
    BY <1>1, <1>3 DEF IInv, RequestsAreSound, Exists, NoneIsNoRow
  <1> QED
    BY <1>4, <1>5, <1>6 DEF IInv

LEMMA StepKeeps == ASSUME NoneIsNoRow, IInv, [Next]_vars PROVE IInv'
  <1>1. ASSUME NEW c \in Cases, Process(c) \/ ReleaseCase(c) PROVE IInv'
    BY <1>1, ProcessKeeps, ReleaseKeeps
  <1>2. CASE Claim
    BY <1>2, ClaimKeeps DEF Claim
  <1>3. ASSUME NEW q \in Requests, Step(q) PROVE IInv'
    <2>1. CASE \E c \in Cases, kind \in {"approve", "reject", "expert_verify", "gold_review"} :
                  RecordDecision(q, c, kind)
      BY <2>1, RequestsKeep
    <2>2. CASE \E c \in Cases : \E fields \in Edits[c] : ReadForRefinement(q, c, fields)
      BY <2>2, RequestsKeep
    <2>3. CASE Abandon(q)
      <3>1. Idle \in Request /\ Idle.pc = "idle"
        BY DEF Request, Idle
      <3> QED
        BY <2>3, <3>1, RequestKeeps DEF Abandon
    <2> QED
      BY <1>3, <2>1, <2>2, <2>3, DecisionKeeps, RefinementKeeps DEF Step
  <1>4. CASE Tick
    BY <1>4, TickKeeps
  <1>5. CASE UNCHANGED vars
    BY <1>5 DEF vars, IInv, TypeOK, RowsAreSound, RequestsAreSound, Exists
  <1> QED
    BY <1>1, <1>2, <1>3, <1>4, <1>5 DEF Next

\* Quarantine, earned marks, truthful labels and held reviews, for any number of cases,
\* requests and reviewers: whichever reads and writes of refinements and decisions
\* interleave with claims and releases (saveLongHorizon, createReview, ClaimNextCase).
THEOREM QuarantineHolds == ASSUME NoneIsNoRow PROVE Spec => []Quarantined
  <1>1. Init => IInv
    BY InitHolds
  <1>2. IInv /\ [Next]_vars => IInv'
    BY StepKeeps
  <1>3. IInv => Quarantined
    <2> SUFFICES ASSUME IInv, NEW c \in Cases, Exists(c),
                        ~RedactionPassed(rows[c].text.findings)
                 PROVE  rows[c].drl = 0 /\ ~rows[c].ready
      BY DEF Quarantined
    <2>1. Sound(c, rows[c], proven)
      BY DEF IInv, RowsAreSound
    <2> QED
      BY <2>1 DEF Sound, Fits
  <1> QED
    BY <1>1, <1>2, <1>3, PTL DEF Spec

\* No case is ever marked commercially ready that did not earn it.
THEOREM MarksAreEarned == ASSUME NoneIsNoRow PROVE Spec => []ReadyIsEarned
  <1>1. Init => IInv
    BY InitHolds
  <1>2. IInv /\ [Next]_vars => IInv'
    BY StepKeeps
  <1>3. IInv => ReadyIsEarned
    BY DEF IInv, RowsAreSound, Sound, Fits, ReadyIsEarned, Retries
  <1> QED
    BY <1>1, <1>2, <1>3, PTL DEF Spec

\* The gate's label and the stored fields stay together, whichever refinement wins.
THEOREM LabelsAreTrue == ASSUME NoneIsNoRow PROVE Spec => []LabelTellsFields
  <1>1. Init => IInv
    BY InitHolds
  <1>2. IInv /\ [Next]_vars => IInv'
    BY StepKeeps
  <1>3. IInv => LabelTellsFields
    BY DEF IInv, RowsAreSound, Sound, LabelTellsFields
  <1> QED
    BY <1>1, <1>2, <1>3, PTL DEF Spec

\* No case is shown as taken that nobody holds.
THEOREM ReviewsAreHeld == ASSUME NoneIsNoRow PROVE Spec => []InReviewIsHeld
  <1>1. Init => IInv
    BY InitHolds
  <1>2. IInv /\ [Next]_vars => IInv'
    BY StepKeeps
  <1>3. IInv => InReviewIsHeld
    BY DEF IInv, RowsAreSound, Sound, InReviewIsHeld
  <1> QED
    BY <1>1, <1>2, <1>3, PTL DEF Spec

\* Only a release ends a claim that has not run out (ClaimNextCase, ReleaseCase).
THEOREM LiveClaimsAreKept == ASSUME NoneIsNoRow PROVE Spec => LiveClaimKept
  <1> DEFINE Kept(c) ==
                \/ rows'[c].holder = rows[c].holder /\ rows'[c].age >= rows[c].age
                \/ rows'[c].holder = None /\ rows'[c].status = "review_ready"
             A == \A c \in Cases :
                     Exists(c) /\ rows[c].holder # None /\ ~Expired(c) => Kept(c)
  <1>1. Init => IInv
    BY InitHolds
  <1>2. IInv /\ [Next]_vars => IInv'
    BY StepKeeps
  <1>3. IInv /\ [Next]_vars => [A]_vars
    <2> SUFFICES ASSUME IInv, Next, NEW c \in Cases, Exists(c), rows[c].holder # None,
                        ~Expired(c)
                 PROVE  Kept(c)
      OBVIOUS
    <2>1. rows[c] \in Row /\ rows[c].age \in Nat
      BY LeaseAssumption DEF IInv, TypeOK, Exists, Row
    <2>2. rows'[c] = rows[c] => Kept(c)
      BY <2>1
    <2>3. ASSUME NEW d \in Cases, Process(d) PROVE Kept(c)
      <3>1. d # c /\ rows'[c] = rows[c]
        BY <2>3 DEF Process, IInv, TypeOK
      <3> QED
        BY <2>2, <3>1
    <2>4. ASSUME NEW d \in Cases, ReleaseCase(d) PROVE Kept(c)
      <3>1. rows' = [rows EXCEPT ![d] = Held(rows[d], "review_ready", None, 0)]
        BY <2>4 DEF ReleaseCase, Held
      <3>2. CASE d = c
        <4>1. rows'[c] = Held(rows[c], "review_ready", None, 0)
          BY <3>1, <3>2 DEF IInv, TypeOK
        <4> QED
          BY <2>1, <4>1 DEF Held, Row
      <3>3. CASE d # c
        BY <2>2, <3>1, <3>3 DEF IInv, TypeOK
      <3> QED
        BY <3>2, <3>3
    <2>5. ASSUME NEW r \in Reviewers, ClaimNextCase(r) PROVE Kept(c)
      <3>1. PICK d \in Cases :
               /\ Claimable(d)
               /\ rows' = [rows EXCEPT ![d] = Held(rows[d], "in_review", r, 0)]
        BY <2>5, ClaimIsOfOne
      <3>2. d # c
        BY <3>1 DEF Claimable
      <3> QED
        BY <2>2, <3>1, <3>2 DEF IInv, TypeOK
    <2>6. ASSUME NEW q \in Requests, SetCaseStatus(q) PROVE Kept(c)
      <3> DEFINE d == reqs[q].case
      <3>1. rows' = [rows EXCEPT ![d] = [rows[d] EXCEPT !.status = reqs[q].status]]
        BY <2>6 DEF SetCaseStatus
      <3>2. CASE d = c
        <4>1. rows'[c] = [rows[c] EXCEPT !.status = reqs[q].status]
          BY <3>1, <3>2 DEF IInv, TypeOK
        <4>2. rows'[c].holder = rows[c].holder /\ rows'[c].age = rows[c].age
          BY <2>1, <4>1 DEF Row
        <4> QED
          BY <2>1, <4>2
      <3>3. CASE d # c
        BY <2>2, <3>1, <3>3 DEF IInv, TypeOK
      <3> QED
        BY <3>2, <3>3
    <2>7. ASSUME NEW q \in Requests, UpdateLongHorizon(q) PROVE Kept(c)
      <3> DEFINE d == reqs[q].case
                 new == Refined(rows[d], reqs[q].seen, reqs[q].fields)
      <3>1. rows' = [rows EXCEPT ![d] = new]
        BY <2>7 DEF UpdateLongHorizon
      <3>2. CASE d = c
        <4>1. rows'[c] = Refined(rows[c], reqs[q].seen, reqs[q].fields)
          BY <3>1, <3>2 DEF IInv, TypeOK
        <4>2. rows'[c].holder = rows[c].holder /\ rows'[c].age = rows[c].age
          BY <2>1, <4>1 DEF Row, Refined
        <4> QED
          BY <2>1, <4>2
      <3>3. CASE d # c
        BY <2>2, <3>1, <3>3 DEF IInv, TypeOK
      <3> QED
        BY <3>2, <3>3
    <2>8. CASE Tick
      <3>1. rows'[c] = [rows[c] EXCEPT !.age = rows[c].age + 1]
        BY <2>8 DEF Tick
      <3>2. rows'[c].holder = rows[c].holder /\ rows'[c].age = rows[c].age + 1
        BY <2>1, <3>1 DEF Row
      <3> QED
        BY <2>1, <3>2
    <2>9. CASE UNCHANGED rows
      BY <2>2, <2>9
    <2> QED
      BY <2>3, <2>4, <2>5, <2>6, <2>7, <2>8, <2>9
         DEF Next, Step, Claim, RecordDecision, ReadForRefinement, Abandon
  <1>4. [][A]_vars <=> LiveClaimKept
    BY DEF LiveClaimKept
  <1> QED
    BY <1>1, <1>2, <1>3, PTL DEF Spec, LiveClaimKept

\* Rows, claims and requests keep their types, and no claim grows older than its bound.
THEOREM TypeCorrect == ASSUME NoneIsNoRow PROVE Spec => []TypeOK
  <1>1. Init => IInv
    BY InitHolds
  <1>2. IInv /\ [Next]_vars => IInv'
    BY StepKeeps
  <1>3. IInv => TypeOK
    BY DEF IInv
  <1> QED
    BY <1>1, <1>2, <1>3, PTL DEF Spec
=============================================================================
