------------------------------- MODULE Review -------------------------------
(***************************************************************************)
(* The cases table from the worker's insert to the reviewers' decisions.   *)
(* A handler is a request that makes its database calls one after the      *)
(* other, so that other requests run between them: a refinement reads the  *)
(* row, computes, and writes the row back; a decision records a review and *)
(* then sets the status.  Claims are leases: ages of claims stand for the  *)
(* clock, and stop counting once a claim has expired.                      *)
(***************************************************************************)
EXTENDS QualityGate, Sequences

CONSTANTS Cases, Reviewers, Requests, None,
          Texts,        \* for each case the texts it may come from: findings, signals,
                        \* chars and uses, with the reply the model gateway gets for it
                        \* and whether the call is recorded
          Edits,        \* for each case the sets of fields a refinement may fill
          GatewayMode,  \* LODIA_MODEL_GATEWAY_MODE
          Endpoint,     \* whether LODIA_MODEL_GATEWAY_ENDPOINT is set
          Lease         \* age up to which a claim keeps others away (30 minutes)

AllTexts == UNION {Texts[c] : c \in Cases}

ASSUME LeaseAssumption == Lease \in Nat
ASSUME NoneAssumption == None \notin Cases \union Reviewers
ASSUME TextsAssumption ==
    \A t \in AllTexts : /\ t.uses \subseteq {"private_library", "commercial_dataset", "training"}
                        /\ t.recorded \in BOOLEAN
                        /\ t.signals \subseteq FieldNames
ASSUME EditsAssumption == \A c \in Cases : Edits[c] \subseteq SUBSET FieldNames

VARIABLES
    rows,      \* the cases table
    order,     \* cases by created_at
    reqs,      \* the requests in progress
    proven     \* history: cases for which some refinement passed

vars == <<rows, order, reqs, proven>>

QueueStatuses == {"review_ready", "needs_review", "in_review"}
Statuses == QueueStatuses \union {"approved", "rejected"}
Idle == [pc |-> "idle"]

Actions == {"privacy_manual_review", "long_horizon_evidence_enrichment", "human_review",
            "model_gateway_retry", "model_gateway_audit_retry",
            "long_horizon_field_completion"}

Gates == [drl : 0 .. 3, ready : BOOLEAN, blocked : BOOLEAN, actions : SUBSET Actions,
          uses : SUBSET {"private_library", "commercial_dataset", "training"},
          field : {"none", "passed", "needs_work"}]

Row == [text : AllTexts, status : Statuses, holder : Reviewers \union {None},
        age : 0 .. Lease + 1, fields : SUBSET FieldNames,
        drl : 0 .. 3, ready : BOOLEAN, gate : Gates]

Request ==
    {Idle}
    \union [pc : {"deciding"}, case : Cases, status : Statuses]
    \union [pc : {"refining"}, case : Cases, seen : Gates, fields : SUBSET FieldNames]

TypeOK ==
    /\ rows \in [Cases -> Row \union {None}]
    /\ order \in Seq(Cases)
    /\ reqs \in [Requests -> Request]
    /\ proven \subseteq Cases

Init ==
    /\ rows = [c \in Cases |-> None]
    /\ order = <<>>
    /\ reqs = [q \in Requests |-> Idle]
    /\ proven = {}

Exists(c) == rows[c] # None
InQueue(c) == Exists(c) /\ rows[c].status \in QueueStatuses

-----------------------------------------------------------------------------
(* The worker's insert.                                                     *)

Processed(text) ==
    LET passed == RedactionPassed(text.findings)
        fields == Extract(text)
        status == GatewayStatus(GatewayMode, Endpoint, passed, text.reply)
        gate   == ApplyModelGateway(Gate(passed, Score(fields, text.chars), text.uses),
                                    status, text.recorded)
    IN  [text |-> text, status |-> CaseStatus(gate), holder |-> None, age |-> 0,
         fields |-> fields, drl |-> gate.drl, ready |-> gate.ready, gate |-> gate]

Process(c) ==
    /\ ~Exists(c)
    /\ \E text \in Texts[c] : rows' = [rows EXCEPT ![c] = Processed(text)]
    /\ order' = Append(order, c)
    /\ UNCHANGED <<reqs, proven>>

-----------------------------------------------------------------------------
(* Claims.                                                                  *)

Expired(c) == rows[c].age > Lease

\* Mutants of Claimable: claims are not looked at, and claims never expire.
ClaimableByAnyone(c) == InQueue(c)
ClaimableOnce(c) == InQueue(c) /\ rows[c].holder = None

Claimable(c) == InQueue(c) /\ (rows[c].holder = None \/ Expired(c))

\* The first case of the queue a claim may take.
IsNext(i) == Claimable(order[i]) /\ \A j \in 1 .. i - 1 : ~Claimable(order[j])

ClaimNextCase(r) ==
    /\ \E i \in DOMAIN order :
          /\ IsNext(i)
          /\ rows' = [rows EXCEPT ![order[i]] =
                        [@ EXCEPT !.status = "in_review", !.holder = r, !.age = 0]]
    /\ UNCHANGED <<order, reqs, proven>>

\* Mutant of ReleaseCase: the claim goes and the status stays.
ReleaseClaimOnly(c) ==
    /\ Exists(c)
    /\ rows' = [rows EXCEPT ![c] = [@ EXCEPT !.holder = None, !.age = 0]]
    /\ UNCHANGED <<order, reqs, proven>>

\* Whoever asks, and whatever the status.
ReleaseCase(c) ==
    /\ Exists(c)
    /\ rows' = [rows EXCEPT ![c] =
                  [@ EXCEPT !.status = "review_ready", !.holder = None, !.age = 0]]
    /\ UNCHANGED <<order, reqs, proven>>

-----------------------------------------------------------------------------
(* Decisions and refinements.                                               *)

\* Mutant of Outcome: the review type is taken for a status.
OutcomeIsType(kind) ==
    CASE kind = "approve" -> "approved"
      [] kind = "reject"  -> "rejected"
      [] OTHER            -> kind

Outcome(kind) ==
    CASE kind = "approve" -> "approved"
      [] kind = "reject"  -> "rejected"
      [] OTHER            -> "review_ready"

\* CreateReview inserts into a table nothing here reads, and its error is dropped;
\* what matters is that the status is set by a later call.
RecordDecision(q, c, kind) ==
    /\ reqs[q] = Idle
    /\ Exists(c)
    /\ reqs' = [reqs EXCEPT ![q] =
                  [pc |-> "deciding", case |-> c, status |-> Outcome(kind)]]
    /\ UNCHANGED <<rows, order, proven>>

SetCaseStatus(q) ==
    /\ reqs[q].pc = "deciding"
    /\ rows' = [rows EXCEPT ![reqs[q].case] = [@ EXCEPT !.status = reqs[q].status]]
    /\ reqs' = [reqs EXCEPT ![q] = Idle]
    /\ UNCHANGED <<order, proven>>

ReadForRefinement(q, c, fields) ==
    /\ reqs[q] = Idle
    /\ Exists(c)
    /\ reqs' = [reqs EXCEPT ![q] =
                  [pc |-> "refining", case |-> c, seen |-> rows[c].gate,
                   fields |-> fields]]
    /\ UNCHANGED <<rows, order, proven>>

\* Mutant of Refined: the UPDATE misses long_horizon_json.
RefinedGateOnly(current, seen, fields) ==
    LET passes == FieldsPass(fields, current.text.chars)
        gate   == WithLongHorizonRefinement(seen, passes)
    IN  [current EXCEPT !.gate = gate, !.drl = gate.drl, !.ready = gate.ready,
                        !.status = IF passes THEN "review_ready" ELSE "needs_review"]

\* The columns UpdateLongHorizon writes; all the others keep their value.
Refined(current, seen, fields) ==
    LET passes == FieldsPass(fields, current.text.chars)
        gate   == WithLongHorizonRefinement(seen, passes)
    IN  [current EXCEPT !.fields = fields, !.gate = gate,
                        !.drl = gate.drl, !.ready = gate.ready,
                        !.status = IF passes THEN "review_ready" ELSE "needs_review"]

UpdateLongHorizon(q) ==
    /\ reqs[q].pc = "refining"
    /\ LET c == reqs[q].case
       IN  /\ rows' = [rows EXCEPT ![c] = Refined(@, reqs[q].seen, reqs[q].fields)]
           /\ proven' = IF FieldsPass(reqs[q].fields, rows[c].text.chars)
                        THEN proven \union {c} ELSE proven
           /\ reqs' = [reqs EXCEPT ![q] = Idle]
    /\ UNCHANGED order

\* A failing call or a lost connection ends the request where it is.
Abandon(q) ==
    /\ reqs[q] # Idle
    /\ reqs' = [reqs EXCEPT ![q] = Idle]
    /\ UNCHANGED <<rows, order, proven>>

Tick ==
    /\ \E c \in Cases : Exists(c) /\ rows[c].holder # None /\ ~Expired(c)
    /\ rows' = [c \in Cases |->
                  IF Exists(c) /\ rows[c].holder # None /\ ~Expired(c)
                  THEN [rows[c] EXCEPT !.age = @ + 1] ELSE rows[c]]
    /\ UNCHANGED <<order, reqs, proven>>

-----------------------------------------------------------------------------
Step(q) ==
    \/ \E c \in Cases, kind \in {"approve", "reject", "expert_verify", "gold_review"} :
          RecordDecision(q, c, kind)
    \/ SetCaseStatus(q)
    \/ \E c \in Cases : \E fields \in Edits[c] : ReadForRefinement(q, c, fields)
    \/ UpdateLongHorizon(q)
    \/ Abandon(q)

Claim == \E r \in Reviewers : ClaimNextCase(r)

Next ==
    \/ \E c \in Cases : Process(c) \/ ReleaseCase(c)
    \/ Claim
    \/ \E q \in Requests : Step(q)
    \/ Tick

\* Time passes, and somebody keeps asking for work; nobody has to finish it.
Spec == Init /\ [][Next]_vars /\ WF_vars(Tick) /\ WF_vars(Claim)

-----------------------------------------------------------------------------
(* Properties                                                               *)

\* A text that did not pass redaction is never sold: whatever the reviewers
\* write, and however old the row they write from, its case keeps DRL0 and is
\* not commercially ready (Gate and WithLongHorizonRefinement).
Quarantined ==
    \A c \in Cases :
       Exists(c) /\ ~RedactionPassed(rows[c].text.findings)
          => rows[c].drl = 0 /\ ~rows[c].ready

\* A commercially ready case is at DRL3, its owner allowed a commercial use, and
\* it earned the mark: the extracted fields scored 0.78 and the model gateway
\* answered and was recorded, or a refinement passed.  A write from a stale row
\* (saveLongHorizon) must not give the mark to a case that never earned it.
ReadyIsEarned ==
    \A c \in Cases :
       Exists(c) /\ rows[c].ready =>
          /\ rows[c].drl = 3
          /\ Commercial(rows[c].text.uses)
          /\ \/ c \in proven
             \/ /\ Score(Extract(rows[c].text), rows[c].text.chars) >= 78
                /\ {"model_gateway_retry", "model_gateway_audit_retry"}
                      \intersect rows[c].gate.actions = {}

\* The label of the gate says what the stored fields are, also when two
\* refinements of one case overlap (UpdateLongHorizon writes both at once).
LabelTellsFields ==
    \A c \in Cases :
       Exists(c) /\ rows[c].gate.field # "none" =>
          (rows[c].gate.field = "passed"
             <=> FieldsPass(rows[c].fields, rows[c].text.chars))

\* A case in review has a reviewer, through releases, decisions and refinements
\* that interleave with claims; otherwise the queue would show it as taken and
\* nobody would be working on it.
InReviewIsHeld ==
    \A c \in Cases :
       Exists(c) /\ rows[c].status = "in_review" => rows[c].holder # None

\* Only a release ends a claim before its lease is over: no claim of another
\* reviewer and no decision or refinement takes a case away (ClaimNextCase).
LiveClaimKept ==
    [][\A c \in Cases :
          Exists(c) /\ rows[c].holder # None /\ ~Expired(c) =>
             \/ rows'[c].holder = rows[c].holder /\ rows'[c].age >= rows[c].age
             \/ rows'[c].holder = None /\ rows'[c].status = "review_ready"]_vars

\* The oldest case of the queue is not lost with a reviewer who vanishes: it
\* leaves the queue or is claimed afresh, again and again.
OldestIsServed ==
    \A c \in Cases :
       (InQueue(c) /\ order[1] = c)
          ~> (~InQueue(c) \/ (rows[c].holder # None /\ rows[c].age = 0))

\* A refinement is written over the gate it was computed from.
NoOverwrite ==
    [][\A q \in Requests :
          reqs[q].pc = "refining" /\ rows' # rows /\ reqs'[q] = Idle
             => rows[reqs[q].case].gate = reqs[q].seen]_vars
=============================================================================
