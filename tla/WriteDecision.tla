--------------------------- MODULE WriteDecision ---------------------------
(***************************************************************************)
(* The decision on one WRITE, from the CHECK statements of the Skill to the *)
(* WriteGuard.  A host assembles the request: it starts with everything in  *)
(* order but the approval, and every action makes one piece of it differ.   *)
(* The decision is a function of the state, and the properties compare the  *)
(* chains of early returns with what they are meant to compute.             *)
(***************************************************************************)
EXTENDS WriteControls

CONSTANTS Checks,      \* the check ids of the Skill
          Tenants, Tenant, Ops, Op, Hashes, Hash,  \* and the ones of this WRITE
          Horizon,     \* the bound of the clock, for model checking
          MaxChanges   \* the bound of the host's changes, for model checking

ASSUME DecisionAssumption ==
  /\ Tenant \in Tenants /\ Op \in Ops /\ Hash \in Hashes
  /\ Horizon \in Nat /\ MaxChanges \in Nat

VARIABLES checks,      \* the results of the CHECK statements run so far
          data,        \* data_completeness of the context
          rq,          \* the WriteGuardRequest
          t,           \* the instant of the evaluation
          changes      \* how many changes the host has made

decisionVars == <<checks, data, rq, t, changes>>

Completenesses == {"COMPLETE", "PARTIAL", "UNKNOWN"}

IntentIds == [tenant : Tenants, op : Ops, hash : Hashes]
Intent == [tenant |-> Tenant, op |-> Op, hash |-> Hash]
Contracts == [writeTool : BOOLEAN, preconditionsSupported : BOOLEAN,
              risk : {"R0", "R1", "R2", "R3", "R4", "R5"}]

(* PolicyDecision and BusinessPreconditionEvidence refuse an expiry that is *)
(* not after the evaluation.                                                *)
Dated(S) == {p \in S : p.from < p.until}
PolicyDecisions == Dated([binding : IntentIds, from : 0 .. Horizon, until : 0 .. Horizon,
                          effect : {"ALLOW", "DENY"}])
Preconditions == Dated([binding : IntentIds, from : 0 .. Horizon, until : 0 .. Horizon,
                        atomic : BOOLEAN])

----------------------------------------------------------------------------

DecisionInit ==
  /\ checks = << >>
  /\ data = "COMPLETE"
  /\ rq = [context |-> [tenant |-> Tenant, op |-> Op], intent |-> Intent,
           contract |-> [writeTool |-> TRUE, preconditionsSupported |-> TRUE, risk |-> "R3"],
           policy |-> {[binding |-> Intent, from |-> 0, until |-> Horizon, effect |-> "ALLOW"]},
           precondition |-> {[binding |-> Intent, from |-> 0, until |-> Horizon,
                              atomic |-> TRUE]},
           evidence |-> [validation |-> "NO_CHECK", approval |-> "NOT_REQUESTED",
                         evidenceValid |-> FALSE,
                         controls |-> [c \in ControlNames |-> TRUE]]]
  /\ t = 0
  /\ changes = 0

Change == changes < MaxChanges /\ changes' = changes + 1

(* A CHECK statement runs: StrictRuleEvaluator gives the result, and the    *)
(* evidence carries the summary of all results.                             *)
RunCheck(c, truth, completeness) ==
  /\ Change
  /\ c \notin DOMAIN checks
  /\ checks' = [d \in DOMAIN checks \cup {c} |->
                  IF d = c THEN [status |-> CheckStatus(truth, completeness),
                                 completeness |-> completeness]
                           ELSE checks[d]]
  /\ rq' = [rq EXCEPT !.evidence.validation =
              SummaryStatus([d \in DOMAIN checks' |-> checks'[d].status])]
  /\ UNCHANGED <<data, t>>

(* A READ returns data that are not complete. *)
ReadIncomplete(m) ==
  Change /\ data' = (IF data = "UNKNOWN" THEN data ELSE m) /\ UNCHANGED <<checks, rq, t>>

(* The host presents other evidence for one part of the request. *)
PresentApproval(status, valid) ==
  Change /\ rq' = [rq EXCEPT !.evidence.approval = status, !.evidence.evidenceValid = valid]
         /\ UNCHANGED <<checks, data, t>>

FailControl(c) ==
  Change /\ rq' = [rq EXCEPT !.evidence.controls[c] = FALSE] /\ UNCHANGED <<checks, data, t>>

PresentContext(tenant, op) ==
  Change /\ rq' = [rq EXCEPT !.context = [tenant |-> tenant, op |-> op]]
         /\ UNCHANGED <<checks, data, t>>

PresentContract(contract) ==
  Change /\ rq' = [rq EXCEPT !.contract = contract] /\ UNCHANGED <<checks, data, t>>

PresentPolicy(P) ==
  Change /\ rq' = [rq EXCEPT !.policy = P] /\ UNCHANGED <<checks, data, t>>

PresentPrecondition(P) ==
  Change /\ rq' = [rq EXCEPT !.precondition = P] /\ UNCHANGED <<checks, data, t>>

EvaluateLater ==
  Change /\ t < Horizon /\ t' = t + 1 /\ UNCHANGED <<checks, data, rq>>

DecisionNext ==
  \/ \E c \in Checks, truth \in BOOLEAN, m \in Completenesses : RunCheck(c, truth, m)
  \/ \E m \in Completenesses \ {"COMPLETE"} : ReadIncomplete(m)
  \/ \E s \in ApprovalStatuses, v \in BOOLEAN : PresentApproval(s, v)
  \/ \E c \in ControlNames : FailControl(c)
  \/ \E n \in Tenants, o \in Ops : PresentContext(n, o)
  \/ \E c \in Contracts : PresentContract(c)
  \/ PresentPolicy({}) \/ \E p \in PolicyDecisions : PresentPolicy({p})
  \/ PresentPrecondition({}) \/ \E p \in Preconditions : PresentPrecondition({p})
  \/ EvaluateLater

DecisionSpec == DecisionInit /\ [][DecisionNext]_decisionVars

GuardDecision == GuardEvaluate(rq, t)

(* ApprovalSuspensionCoordinator._validated_pre_write: what may be sent to  *)
(* an approver at all.                                                      *)
Suspendable ==
  /\ rq.evidence.validation = "ALL_PASS"
  /\ data = "COMPLETE"
  /\ PreWriteEvaluate(rq.evidence).eligibility = "REQUIRES_APPROVAL"

----------------------------------------------------------------------------
(* Properties *)

(* What WriteGuard.evaluate is meant to allow: every binding is to the      *)
(* intent itself, the dated evidence is there and current, the contract is  *)
(* acceptable, no CHECK failed or is unknown, the approval is valid and     *)
(* every other control of PreWriteEvidence passed.  The three controls that *)
(* the guard computes itself do not count.                                  *)
Allowable(r, at) ==
  /\ r.context = [tenant |-> r.intent.tenant, op |-> r.intent.op]
  /\ r.contract = [writeTool |-> TRUE, preconditionsSupported |-> TRUE, risk |-> "R3"]
  /\ r.policy # {} /\ \A p \in r.policy :
       p.binding = r.intent /\ p.from <= at /\ at < p.until /\ p.effect = "ALLOW"
  /\ r.precondition # {} /\ \A p \in r.precondition :
       p.binding = r.intent /\ p.from <= at /\ at < p.until /\ p.atomic
  /\ r.evidence.validation \in {"NO_CHECK", "ALL_PASS"}
  /\ r.evidence.approval = "APPROVED" /\ r.evidence.evidenceValid
  /\ \A c \in ControlNames \ {"POLICY_DENIED", "TOOL_PRECONDITION_FAILED",
                              "BUSINESS_PRECONDITION_FAILED"} : r.evidence.controls[c]

(* The fifteen early returns of the guard and the evaluator allow exactly   *)
(* the requests above: no order of the tests lets one of them be skipped.   *)
AllowedExactly == GuardDecision.eligibility = "ALLOWED" <=> Allowable(rq, t)

(* REQUIRES_APPROVAL is never said when something else is wrong: a valid    *)
(* approval of the same request would allow it at once.  And what is sent   *)
(* to an approver has no CHECK whose outcome is negative or unknown:        *)
(* incomplete data never count as a pass.                                   *)
OnlyApprovalMissing ==
  /\ GuardDecision.eligibility = "REQUIRES_APPROVAL" =>
       Allowable([rq EXCEPT !.evidence.approval = "APPROVED",
                            !.evidence.evidenceValid = TRUE], t)
  /\ Suspendable \/ GuardDecision.eligibility # "BLOCKED" =>
       \A c \in DOMAIN checks :
         checks[c].status = "PASS" /\ checks[c].completeness = "COMPLETE"
=============================================================================
