---------------------------- MODULE QualityGate ----------------------------
(***************************************************************************)
(* What the processor computes for a text and a reviewer recomputes for a  *)
(* refinement: the risk left by redaction, the score of the long horizon   *)
(* fields, the answer of the model gateway, and the quality gate that      *)
(* decides the DRL and whether a case may be sold.  Pure operators: the    *)
(* regular expressions, the JSON and the hashes are abstracted to what     *)
(* they find.  Fractions are kept as whole numbers, named at each score.   *)
(***************************************************************************)
EXTENDS Integers, FiniteSets, FiniteSetsExt

FieldNames == {"objective", "context", "constraints", "steps", "tool_results",
               "failures", "corrections", "acceptance", "reusable_rules"}

RequiredFields == {"objective", "steps", "acceptance", "reusable_rules"}

-----------------------------------------------------------------------------
(* Redaction. A text's findings are a function from the kinds that match to *)
(* the number of matches.                                                   *)

\* Risk of one match, in ten thousandths: severity contribution * confidence.
Contribution(kind) ==
    CASE kind = "jwt"               -> 5390
      [] kind = "access_key"        -> 5280
      [] kind = "secret_assignment" -> 5060
      [] kind = "email"             -> 3325
      [] kind = "cn_phone"          -> 3325
      [] kind = "cn_id_card"        -> 3010
      [] kind = "bank_card"         -> 2730
      [] kind = "private_ipv4"      -> 1476
      [] kind = "internal_url"      -> 1440

\* Capped at 1, like the score.
RiskScore(findings) ==
    LET sum == FoldSet(LAMBDA kind, acc : acc + findings[kind] * Contribution(kind),
                       0, DOMAIN findings)
    IN  IF sum > 10000 THEN 10000 ELSE sum

\* The replacement of a secret assignment, key=[REDACTED_SECRET], is itself a
\* secret assignment: it is the one kind that is found again, once.
Residual(findings) ==
    [kind \in DOMAIN findings \cap {"secret_assignment"} |-> 1]

RedactionPassed(findings) ==
    /\ RiskScore(findings) < 8500
    /\ RiskScore(Residual(findings)) < 8500

-----------------------------------------------------------------------------
(* Long horizon evaluation of the fields that are filled and the length of  *)
(* the source.                                                              *)

\* A text without an objective is its own objective.
Extract(text) ==
    IF text.chars > 0 THEN text.signals \union {"objective"} ELSE text.signals

RequiredMissing(fields) == RequiredFields \ fields

\* The score in nine hundredths: a field is 100, a bonus or malus 72.
RawScore(fields, chars) ==
    LET bonus == (IF chars >= 120 THEN 72 ELSE 0) + (IF chars >= 600 THEN 72 ELSE 0)
        score == 100 * Cardinality(fields) + bonus
                     - 72 * Cardinality(RequiredMissing(fields))
    IN  IF score < 0 THEN 0 ELSE IF score > 900 THEN 900 ELSE score

\* Rounded to hundredths.
Score(fields, chars) == (2 * RawScore(fields, chars) + 9) \div 18

FieldsPass(fields, chars) ==
    /\ RequiredMissing(fields) = {}
    /\ Cardinality(fields) >= 5
    /\ chars >= 120

-----------------------------------------------------------------------------
(* Model gateway. mode is the configured mode, endpoint whether one is      *)
(* configured, reply the outcome of the HTTP call if one is made.           *)

GatewayStatus(mode, endpoint, passed, reply) ==
    IF mode \in {"disabled", "off"} \/ ~passed THEN "skipped"
    ELSE IF mode = "http" /\ ~(endpoint /\ reply = "ok") THEN "failed"
    ELSE "completed"

\* Health: the reasons for which production may not start with this gateway.
GatewayHealthy(mode, endpoint, production, region, named) ==
    /\ mode \notin {"disabled", "off"}
    /\ mode = "http" => endpoint
    /\ production => mode = "http" /\ region = "CN" /\ named

-----------------------------------------------------------------------------
(* Quality gate.                                                            *)

\* containsAny(uses, "commercial_dataset", "training")
Commercial(uses) == uses \intersect {"commercial_dataset", "training"} # {}

\* The gate of a processed text. drl is the number of the DRL; blocked says that
\* commercial_dataset and training are in BlockedUses.
Gate(passed, score, uses) ==
    LET base == [drl |-> 2, ready |-> FALSE, blocked |-> FALSE, actions |-> {},
                 uses |-> IF uses = {} THEN {"private_library"} ELSE uses,
                 field |-> "none"]
    IN  IF ~passed
        THEN [base EXCEPT !.drl = 0, !.blocked = TRUE,
                          !.actions = {"privacy_manual_review"}]
        ELSE IF score < 50
        THEN [base EXCEPT !.drl = 1, !.blocked = TRUE,
                          !.actions = {"long_horizon_evidence_enrichment"}]
        ELSE IF score >= 78
        THEN [base EXCEPT !.drl = 3, !.ready = Commercial(uses)]
        ELSE [base EXCEPT !.actions = {"human_review"}]

\* Mutant of ApplyModelGateway: a failed call is noted and the mark stays.
ApplyModelGatewayLeniently(gate, status, recorded) ==
    [gate EXCEPT
       !.actions = @ \union (IF status = "failed" THEN {"model_gateway_retry"} ELSE {})
                     \union (IF recorded THEN {} ELSE {"model_gateway_audit_retry"})]

\* What the gateway's answer and the record of the call leave of the gate.
ApplyModelGateway(gate, status, recorded) ==
    [gate EXCEPT
       !.ready = @ /\ status # "failed" /\ recorded,
       !.actions = @ \union (IF status = "failed" THEN {"model_gateway_retry"} ELSE {})
                     \union (IF recorded THEN {} ELSE {"model_gateway_audit_retry"})]

CaseStatus(gate) == IF gate.drl \in {0, 1} THEN "needs_review" ELSE "review_ready"

\* Mutant of WithLongHorizonRefinement: a passing refinement lifts any DRL.
RefinementLiftsAny(gate, passes) ==
    IF passes
    THEN [gate EXCEPT !.drl = 3, !.ready = Commercial(gate.uses), !.field = "passed"]
    ELSE [gate EXCEPT !.field = "needs_work"]

\* The gate after a reviewer's refinement of the fields.
WithLongHorizonRefinement(gate, passes) ==
    IF gate.drl = 0 THEN gate
    ELSE IF passes
    THEN [gate EXCEPT
            !.drl = 3, !.ready = Commercial(gate.uses), !.field = "passed",
            !.actions = @ \ {"long_horizon_evidence_enrichment", "human_review"}]
    ELSE [gate EXCEPT
            !.field = "needs_work",
            !.actions = @ \union {"long_horizon_field_completion"}]
=============================================================================
