--------------------------- MODULE WriteControls ---------------------------
(***************************************************************************)
(* The decisions of the controlled WRITE path as operators: the strict      *)
(* CHECK rule and the validation summary, the pre-WRITE evaluator, the      *)
(* WriteGuard in front of it, and the approval evidence validator.  Each    *)
(* is the chain of early returns of one method, in the order of the code.   *)
(***************************************************************************)
EXTENDS Naturals, FiniteSets

ApprovalStatuses == {"NOT_REQUESTED", "PENDING", "APPROVED", "REJECTED", "EXPIRED"}

ValidationStatuses ==
  {"NO_CHECK", "ALL_PASS", "HAS_FAIL", "HAS_UNKNOWN", "HAS_FAIL_AND_UNKNOWN"}

Eligibilities == {"ALLOWED", "REQUIRES_APPROVAL", "BLOCKED"}

Decision(eligibility, reason) == [eligibility |-> eligibility, reason |-> reason]

Blocked(reason) == Decision("BLOCKED", reason)

----------------------------------------------------------------------------
(* CHECK evaluation *)

(* Mutant: partial data are good enough for a verdict. *)
CheckStatusLenient(truth, completeness) ==
  IF completeness # "UNKNOWN" THEN (IF truth THEN "PASS" ELSE "FAIL")
                              ELSE "UNKNOWN"

(* StrictRuleEvaluator: a verdict needs complete data; partial and unknown  *)
(* data give UNKNOWN whatever the truth value.                              *)
CheckStatus(truth, completeness) ==
  IF completeness = "COMPLETE" THEN (IF truth THEN "PASS" ELSE "FAIL")
                               ELSE "UNKNOWN"

(* ValidationSummary.from_checks of a function from check ids to statuses.  *)
SummaryStatus(checks) ==
  LET failed  == \E c \in DOMAIN checks : checks[c] = "FAIL"
      unknown == \E c \in DOMAIN checks : checks[c] = "UNKNOWN"
  IN  IF DOMAIN checks = {}   THEN "NO_CHECK"
      ELSE IF failed /\ unknown THEN "HAS_FAIL_AND_UNKNOWN"
      ELSE IF failed            THEN "HAS_FAIL"
      ELSE IF unknown           THEN "HAS_UNKNOWN"
      ELSE "ALL_PASS"

----------------------------------------------------------------------------
(* PreWriteEvaluator.  Evidence is a record with the validation status, the *)
(* approval status, approval_evidence_valid and the nine other controls as  *)
(* a function from the reason code that a failing control reports.          *)

BlockingReasons ==
  << "RUNTIME_PREFLIGHT_FAILED", "PACKAGE_TRUST_INVALID", "POLICY_DENIED",
     "TOOL_PRECONDITION_FAILED", "BUSINESS_PRECONDITION_FAILED",
     "WRITE_BINDING_INVALID", "IDEMPOTENCY_NOT_READY",
     "DURABILITY_NOT_READY", "REPLAY_LIVE_WRITE_FORBIDDEN" >>

ControlNames == {BlockingReasons[k] : k \in 1..9}

FailingControls(controls) == {k \in 1..9 : ~controls[BlockingReasons[k]]}

FirstFailing(controls) ==
  CHOOSE k \in FailingControls(controls) :
    \A j \in FailingControls(controls) : k <= j

(* Mutant: the approval is looked at before the other controls. *)
PreWriteEvaluateApprovalFirst(ev) ==
  IF ev.validation \in {"HAS_FAIL_AND_UNKNOWN", "HAS_FAIL", "HAS_UNKNOWN"}
    THEN Blocked("REQUIRED_CHECK_FAILED")
  ELSE IF ev.approval \in {"NOT_REQUESTED", "PENDING", "EXPIRED"}
    THEN Decision("REQUIRES_APPROVAL", "APPROVAL_REQUIRED")
  ELSE IF ev.approval = "REJECTED" \/ ~ev.evidenceValid
    THEN Blocked("APPROVAL_REJECTED")
  ELSE IF FailingControls(ev.controls) # {}
    THEN Blocked(BlockingReasons[FirstFailing(ev.controls)])
  ELSE Decision("ALLOWED", "NONE")

PreWriteEvaluate(ev) ==
  IF ev.validation = "HAS_FAIL_AND_UNKNOWN"
    THEN Blocked("REQUIRED_CHECK_FAILED_AND_UNKNOWN")
  ELSE IF ev.validation = "HAS_FAIL"    THEN Blocked("REQUIRED_CHECK_FAILED")
  ELSE IF ev.validation = "HAS_UNKNOWN" THEN Blocked("REQUIRED_CHECK_UNKNOWN")
  ELSE IF ev.approval = "REJECTED"      THEN Blocked("APPROVAL_REJECTED")
  ELSE IF ev.approval = "APPROVED" /\ ~ev.evidenceValid
    THEN Blocked("APPROVAL_EVIDENCE_INVALID")
  ELSE IF FailingControls(ev.controls) # {}
    THEN Blocked(BlockingReasons[FirstFailing(ev.controls)])
  ELSE IF ev.approval \in {"NOT_REQUESTED", "PENDING", "EXPIRED"}
    THEN Decision("REQUIRES_APPROVAL", "APPROVAL_REQUIRED")
  ELSE Decision("ALLOWED", "NONE")

----------------------------------------------------------------------------
(* WriteGuard.  The request holds the context and the intent (tenant,       *)
(* operation, and the node, tool and hashes as one value "hash"), the       *)
(* contract, and the two dated pieces of evidence, each possibly missing    *)
(* (a set of at most one record) and each bound to some intent.             *)

(* Mutant: the expiry itself still counts. *)
CurrentThroughExpiry(from, until, t) == from <= t /\ t <= until

(* PolicyDecision, BusinessPreconditionEvidence: not before the instant of  *)
(* the observation, and strictly before the expiry.                         *)
Current(from, until, t) == from <= t /\ t < until

GuardEvaluate(rq, t) ==
  IF rq.context.tenant # rq.intent.tenant
    THEN Blocked("WRITE_TENANT_BINDING_MISMATCH")
  ELSE IF rq.context.op # rq.intent.op
    THEN Blocked("WRITE_BUSINESS_OPERATION_MISMATCH")
  ELSE IF ~rq.contract.writeTool \/ ~rq.contract.preconditionsSupported
    THEN Blocked("WRITE_CONTRACT_INVALID")
  ELSE IF rq.contract.risk # "R3"             THEN Blocked("RISK_NOT_ACCEPTED")
  ELSE IF rq.policy = {}                      THEN Blocked("POLICY_EVIDENCE_MISSING")
  ELSE IF \E p \in rq.policy : p.binding # rq.intent
    THEN Blocked("POLICY_BINDING_MISMATCH")
  ELSE IF \E p \in rq.policy : ~Current(p.from, p.until, t)
    THEN Blocked("POLICY_NOT_CURRENT")
  ELSE IF \E p \in rq.policy : p.effect # "ALLOW" THEN Blocked("POLICY_DENIED")
  ELSE IF rq.precondition = {}        THEN Blocked("BUSINESS_PRECONDITION_MISSING")
  ELSE IF \E q \in rq.precondition : q.binding # rq.intent
    THEN Blocked("BUSINESS_PRECONDITION_BINDING_MISMATCH")
  ELSE IF \E q \in rq.precondition : ~Current(q.from, q.until, t)
    THEN Blocked("BUSINESS_PRECONDITION_NOT_CURRENT")
  ELSE IF \E q \in rq.precondition : ~q.atomic
    THEN Blocked("PROVIDER_PRECONDITION_UNAVAILABLE")
  ELSE PreWriteEvaluate([rq.evidence EXCEPT
         !.controls["POLICY_DENIED"] = TRUE,
         !.controls["TOOL_PRECONDITION_FAILED"] = TRUE,
         !.controls["BUSINESS_PRECONDITION_FAILED"] = TRUE])

----------------------------------------------------------------------------
(* ApprovalEvidenceValidator.  Evidence and bindings agree or differ in the *)
(* business operation, the request id, the intent hash, the payload hash    *)
(* and the rest (tenant, execution, approval id, Skill hash: "exec").       *)

Verdict(validation, status) == [validation |-> validation, status |-> status]

Decisions == {"APPROVED", "REJECTED"}

ValidateEvidence(ev, b, expired) ==
  IF ~ev.genuine               THEN Verdict("INVALID", "PENDING")
  ELSE IF ev.op # b.op         THEN Verdict("BUSINESS_OPERATION_MISMATCH", "PENDING")
  ELSE IF ev.request # b.request THEN Verdict("APPROVAL_REQUEST_MISMATCH", "PENDING")
  ELSE IF ev.intent # b.intent THEN Verdict("INTENT_MISMATCH", "PENDING")
  ELSE IF ev.payload # b.payload THEN Verdict("PAYLOAD_MISMATCH", "PENDING")
  ELSE IF ev.exec # b.exec     THEN Verdict("INVALID", "PENDING")
  ELSE IF expired              THEN Verdict("EXPIRED", "EXPIRED")
  ELSE IF ev.decision = "REJECTED" THEN Verdict("VALID", "REJECTED")
  ELSE Verdict("VALID", "APPROVED")

(* ApprovalValidationResult.approval_gate_passed *)
GatePassed(v) == v.validation = "VALID" /\ v.status = "APPROVED"

(* Mutant: what would be written now is not compared. *)
ValidateCurrentIdentityNever(b, currentIntent, currentPayload) == Verdict("VALID", "APPROVED")

(* _validate_current_identity: what was approved is still what the restored *)
(* execution would write now.                                               *)
ValidateCurrentIdentity(b, currentIntent, currentPayload) ==
  IF currentIntent # b.intent        THEN Verdict("INTENT_MISMATCH", "PENDING")
  ELSE IF currentPayload # b.payload THEN Verdict("PAYLOAD_MISMATCH", "PENDING")
  ELSE Verdict("VALID", "APPROVED")

(* The verdicts after which the claim is given back and the approval stays  *)
(* pending.                                                                 *)
ReleasingValidations ==
  {"INVALID", "INTENT_MISMATCH", "PAYLOAD_MISMATCH",
   "BUSINESS_OPERATION_MISMATCH", "APPROVAL_REQUEST_MISMATCH"}

----------------------------------------------------------------------------
(* IdempotencyRetentionValidator: the provider's duplicate guarantee is     *)
(* durable, verified in the past, not over, and covers the required         *)
(* horizon, which lies in the future.                                       *)
RetentionValid(g, t, required) ==
  /\ t < required
  /\ g.durable
  /\ g.verified <= t
  /\ t < g.until
  /\ required <= g.until

(* WriteCommitDecision: the execution status that a commit state gives. *)
CommitStates == {"COMMITTED", "NOT_COMMITTED", "UNKNOWN_COMMIT_STATE"}

StatusOf(commit) ==
  CASE commit = "COMMITTED"            -> "COMPLETED"
    [] commit = "NOT_COMMITTED"        -> "FAILED"
    [] commit = "UNKNOWN_COMMIT_STATE" -> "RECONCILIATION_REQUIRED"
=============================================================================
