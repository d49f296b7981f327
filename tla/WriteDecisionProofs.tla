------------------------ MODULE WriteDecisionProofs ------------------------
(***************************************************************************)
(* Proofs about WriteDecision: the chains of early returns of WriteGuard    *)
(* and PreWriteEvaluator compute what they are meant to, for every request, *)
(* every set of CHECK statements and any number of changes.                 *)
(***************************************************************************)
EXTENDS WriteDecision, TLAPS

(* What a host can assemble.  The dated evidence is a set, of which the     *)
(* host presents at most one element; the theorems do not need that.        *)
Evidences == [validation : ValidationStatuses, approval : ApprovalStatuses,
              evidenceValid : BOOLEAN, controls : [ControlNames -> BOOLEAN]]
DatedPolicies == [binding : IntentIds, from : Nat, until : Nat, effect : {"ALLOW", "DENY"}]
DatedPreconditions == [binding : IntentIds, from : Nat, until : Nat, atomic : BOOLEAN]
Requests == [context : [tenant : Tenants, op : Ops], intent : IntentIds,
             contract : Contracts, policy : SUBSET DatedPolicies,
             precondition : SUBSET DatedPreconditions, evidence : Evidences]

GuardControls == {"POLICY_DENIED", "TOOL_PRECONDITION_FAILED", "BUSINESS_PRECONDITION_FAILED"}

----------------------------------------------------------------------------
(* PreWriteEvaluator *)

ControlsPass(controls) == \A c \in ControlNames : controls[c]

LEMMA FailingMeaning ==
  ASSUME NEW controls
  PROVE  FailingControls(controls) = {} <=> ControlsPass(controls)
<1> HIDE DEF BlockingReasons
<1> QED BY DEF FailingControls, ControlsPass, ControlNames

LEMMA PreWriteMeaning ==
  ASSUME NEW ev, ev.validation \in ValidationStatuses, ev.approval \in ApprovalStatuses
  PROVE  /\ PreWriteEvaluate(ev).eligibility = "ALLOWED" <=>
              /\ ev.validation \in {"NO_CHECK", "ALL_PASS"}
              /\ ev.approval = "APPROVED" /\ ev.evidenceValid
              /\ ControlsPass(ev.controls)
         /\ PreWriteEvaluate(ev).eligibility = "REQUIRES_APPROVAL" <=>
              /\ ev.validation \in {"NO_CHECK", "ALL_PASS"}
              /\ ev.approval \in {"NOT_REQUESTED", "PENDING", "EXPIRED"}
              /\ ControlsPass(ev.controls)
         /\ PreWriteEvaluate(ev).eligibility \in Eligibilities
<1>1. FailingControls(ev.controls) = {} <=> ControlsPass(ev.controls)
  BY FailingMeaning
<1> QED BY <1>1 DEF PreWriteEvaluate, Decision, Blocked, ValidationStatuses, ApprovalStatuses,
                    Eligibilities

----------------------------------------------------------------------------
(* WriteGuard *)

(* The evidence with the three controls that the guard has computed itself. *)
GuardEvidence(r) ==
  [r.evidence EXCEPT !.controls["POLICY_DENIED"] = TRUE,
                     !.controls["TOOL_PRECONDITION_FAILED"] = TRUE,
                     !.controls["BUSINESS_PRECONDITION_FAILED"] = TRUE]

(* The part of Allowable that the guard tests itself. *)
Bound(r, at) ==
  /\ r.context = [tenant |-> r.intent.tenant, op |-> r.intent.op]
  /\ r.contract = [writeTool |-> TRUE, preconditionsSupported |-> TRUE, risk |-> "R3"]
  /\ r.policy # {} /\ \A p \in r.policy :
       p.binding = r.intent /\ p.from <= at /\ at < p.until /\ p.effect = "ALLOW"
  /\ r.precondition # {} /\ \A p \in r.precondition :
       p.binding = r.intent /\ p.from <= at /\ at < p.until /\ p.atomic

LEMMA GuardEvidenceType ==
  ASSUME NEW r \in Requests
  PROVE  /\ GuardEvidence(r).validation = r.evidence.validation
         /\ GuardEvidence(r).approval = r.evidence.approval
         /\ GuardEvidence(r).evidenceValid = r.evidence.evidenceValid
         /\ ControlsPass(GuardEvidence(r).controls) <=>
              \A c \in ControlNames \ GuardControls : r.evidence.controls[c]
<1>1. r.evidence \in Evidences
  BY DEF Requests
<1>2. /\ GuardEvidence(r).validation = r.evidence.validation
      /\ GuardEvidence(r).approval = r.evidence.approval
      /\ GuardEvidence(r).evidenceValid = r.evidence.evidenceValid
  BY <1>1 DEF GuardEvidence, Evidences
<1>3. \A c \in ControlNames : GuardEvidence(r).controls[c] =
        IF c \in GuardControls THEN TRUE ELSE r.evidence.controls[c]
  BY <1>1 DEF GuardEvidence, Evidences, GuardControls
<1> QED BY <1>2, <1>3 DEF ControlsPass

LEMMA GuardMeaning ==
  ASSUME NEW r \in Requests, NEW at \in Nat
  PROVE  /\ Bound(r, at) => GuardEvaluate(r, at) = PreWriteEvaluate(GuardEvidence(r))
         /\ ~Bound(r, at) => GuardEvaluate(r, at).eligibility = "BLOCKED"
<1>1. /\ r.context \in [tenant : Tenants, op : Ops]
      /\ r.contract \in Contracts
      /\ r.policy \subseteq DatedPolicies
      /\ r.precondition \subseteq DatedPreconditions
  BY DEF Requests
<1>2. r.context = [tenant |-> r.intent.tenant, op |-> r.intent.op] <=>
        r.context.tenant = r.intent.tenant /\ r.context.op = r.intent.op
  <2>1. r.context = [tenant |-> r.context.tenant, op |-> r.context.op]
    BY <1>1
  <2>2. ASSUME r.context.tenant = r.intent.tenant, r.context.op = r.intent.op
        PROVE  r.context = [tenant |-> r.intent.tenant, op |-> r.intent.op]
    BY <2>1, <2>2
  <2>3. ASSUME r.context = [tenant |-> r.intent.tenant, op |-> r.intent.op]
        PROVE  r.context.tenant = r.intent.tenant /\ r.context.op = r.intent.op
    BY <2>3
  <2> QED BY <2>2, <2>3
<1>3. r.contract = [writeTool |-> TRUE, preconditionsSupported |-> TRUE, risk |-> "R3"] <=>
        r.contract.writeTool /\ r.contract.preconditionsSupported /\ r.contract.risk = "R3"
  <2> DEFINE k == r.contract
  <2>1. /\ k = [writeTool |-> k.writeTool,
               preconditionsSupported |-> k.preconditionsSupported, risk |-> k.risk]
        /\ k.writeTool \in BOOLEAN /\ k.preconditionsSupported \in BOOLEAN
    BY <1>1 DEF Contracts
  <2> HIDE DEF k
  <2>2. ASSUME k.writeTool, k.preconditionsSupported, k.risk = "R3"
        PROVE  k = [writeTool |-> TRUE, preconditionsSupported |-> TRUE, risk |-> "R3"]
    <3>1. k.writeTool = TRUE /\ k.preconditionsSupported = TRUE
      BY <2>1, <2>2
    <3> QED BY <2>1, <2>2, <3>1
  <2>3. ASSUME k = [writeTool |-> TRUE, preconditionsSupported |-> TRUE, risk |-> "R3"]
        PROVE  k.writeTool /\ k.preconditionsSupported /\ k.risk = "R3"
    BY <2>3
  <2> QED BY <2>2, <2>3 DEF k
<1> DEFINE PolicyFine == /\ r.policy # {}
                         /\ ~\E p \in r.policy : p.binding # r.intent
                         /\ ~\E p \in r.policy : ~Current(p.from, p.until, at)
                         /\ ~\E p \in r.policy : p.effect # "ALLOW"
           PreconditionFine == /\ r.precondition # {}
                               /\ ~\E p \in r.precondition : p.binding # r.intent
                               /\ ~\E p \in r.precondition : ~Current(p.from, p.until, at)
                               /\ ~\E p \in r.precondition : ~p.atomic
<1>4. Bound(r, at) <=>
        /\ r.context.tenant = r.intent.tenant /\ r.context.op = r.intent.op
        /\ r.contract.writeTool /\ r.contract.preconditionsSupported /\ r.contract.risk = "R3"
        /\ PolicyFine /\ PreconditionFine
  BY <1>1, <1>2, <1>3 DEF Bound, Current, DatedPolicies, DatedPreconditions
<1>5. GuardEvaluate(r, at) = PreWriteEvaluate(GuardEvidence(r)) \/ ~Bound(r, at)
  <2> HIDE DEF PreWriteEvaluate, GuardEvidence
  <2> QED BY <1>4 DEF GuardEvaluate, GuardEvidence
<1>6. Bound(r, at) \/ GuardEvaluate(r, at).eligibility = "BLOCKED"
  BY <1>4 DEF GuardEvaluate, Blocked, Decision
<1> QED BY <1>5, <1>6

(* Hence what the guard allows is exactly what Allowable says, and what it  *)
(* holds back for approval would be allowed with one.                       *)
LEMMA GuardExact ==
  ASSUME NEW r \in Requests, NEW at \in Nat
  PROVE  GuardEvaluate(r, at).eligibility = "ALLOWED" <=> Allowable(r, at)
<1>1. r.evidence \in Evidences
  BY DEF Requests
<1>2. PreWriteEvaluate(GuardEvidence(r)).eligibility = "ALLOWED" <=>
        /\ r.evidence.validation \in {"NO_CHECK", "ALL_PASS"}
        /\ r.evidence.approval = "APPROVED" /\ r.evidence.evidenceValid
        /\ \A c \in ControlNames \ GuardControls : r.evidence.controls[c]
  BY <1>1, GuardEvidenceType, PreWriteMeaning DEF Evidences
<1>3. Allowable(r, at) <=>
        /\ Bound(r, at)
        /\ r.evidence.validation \in {"NO_CHECK", "ALL_PASS"}
        /\ r.evidence.approval = "APPROVED" /\ r.evidence.evidenceValid
        /\ \A c \in ControlNames \ GuardControls : r.evidence.controls[c]
  BY DEF Allowable, Bound, GuardControls
<1> QED BY <1>2, <1>3, GuardMeaning

LEMMA GuardAwaitsApproval ==
  ASSUME NEW r \in Requests, NEW at \in Nat,
         GuardEvaluate(r, at).eligibility = "REQUIRES_APPROVAL"
  PROVE  Allowable([r EXCEPT !.evidence.approval = "APPROVED",
                             !.evidence.evidenceValid = TRUE], at)
<1> DEFINE s == [r EXCEPT !.evidence.approval = "APPROVED", !.evidence.evidenceValid = TRUE]
<1>1. r.evidence \in Evidences
  BY DEF Requests
<1>2. Bound(r, at) /\ PreWriteEvaluate(GuardEvidence(r)).eligibility = "REQUIRES_APPROVAL"
  BY GuardMeaning
<1>3. /\ r.evidence.validation \in {"NO_CHECK", "ALL_PASS"}
      /\ \A c \in ControlNames \ GuardControls : r.evidence.controls[c]
  BY <1>1, <1>2, GuardEvidenceType, PreWriteMeaning DEF Evidences
<1>4. /\ s.context = r.context /\ s.intent = r.intent /\ s.contract = r.contract
      /\ s.policy = r.policy /\ s.precondition = r.precondition
      /\ s.evidence.validation = r.evidence.validation
      /\ s.evidence.controls = r.evidence.controls
      /\ s.evidence.approval = "APPROVED" /\ s.evidence.evidenceValid
  BY <1>1 DEF Requests, Evidences
<1> HIDE DEF s
<1>5. Allowable(s, at)
  BY <1>2, <1>3, <1>4 DEF Allowable, Bound, GuardControls
<1> QED BY <1>5 DEF s

----------------------------------------------------------------------------
(* The invariant of the request *)

CheckResults == [status : {"PASS", "FAIL", "UNKNOWN"}, completeness : Completenesses]

StatusesOf(C) == [d \in DOMAIN C |-> C[d].status]

(* The evidence always carries the summary of the results so far, and a     *)
(* result is a pass only for complete data.                                 *)
DecisionInv ==
  /\ rq \in Requests
  /\ t \in Nat
  /\ \A c \in DOMAIN checks :
       /\ checks[c] \in CheckResults
       /\ checks[c].status = "PASS" => checks[c].completeness = "COMPLETE"
  /\ rq.evidence.validation = SummaryStatus(StatusesOf(checks))

LEMMA SummaryType ==
  ASSUME NEW S PROVE SummaryStatus(S) \in ValidationStatuses
BY DEF SummaryStatus, ValidationStatuses

(* A summary that does not block has only passes under it. *)
LEMMA SummaryMeaning ==
  ASSUME NEW C, \A c \in DOMAIN C : C[c] \in CheckResults,
         SummaryStatus(StatusesOf(C)) \in {"NO_CHECK", "ALL_PASS"}
  PROVE  \A c \in DOMAIN C : C[c].status = "PASS"
<1>1. DOMAIN StatusesOf(C) = DOMAIN C /\ \A c \in DOMAIN C : StatusesOf(C)[c] = C[c].status
  BY DEF StatusesOf
<1>2. \A c \in DOMAIN StatusesOf(C) :
        StatusesOf(C)[c] # "FAIL" /\ StatusesOf(C)[c] # "UNKNOWN"
  BY DEF SummaryStatus
<1> QED BY <1>1, <1>2 DEF CheckResults

LEMMA DecisionInvInit == DecisionInit => DecisionInv
<1> SUFFICES ASSUME DecisionInit PROVE DecisionInv
  OBVIOUS
<1>1. DOMAIN checks = {}
  BY DEF DecisionInit
<1>2. rq \in Requests /\ t \in Nat
  BY DecisionAssumption DEF DecisionInit, Requests, Evidences, Contracts, IntentIds, Intent,
     DatedPolicies, DatedPreconditions, ValidationStatuses, ApprovalStatuses
<1>3. SummaryStatus(StatusesOf(checks)) = "NO_CHECK"
  BY <1>1 DEF SummaryStatus, StatusesOf
<1>4. rq.evidence.validation = "NO_CHECK"
  BY DEF DecisionInit
<1> QED BY <1>1, <1>2, <1>3, <1>4 DEF DecisionInv

LEMMA DecisionStep == DecisionInv /\ [DecisionNext]_decisionVars => DecisionInv'
<1> SUFFICES ASSUME DecisionInv, [DecisionNext]_decisionVars PROVE DecisionInv'
  OBVIOUS
<1>t. rq \in Requests /\ rq.evidence \in Evidences /\ t \in Nat
  BY DEF DecisionInv, Requests
(* A part of the request other than the summary is replaced. *)
<1>q. ASSUME rq' \in Requests, rq'.evidence.validation = rq.evidence.validation,
             checks' = checks, t' = t
      PROVE  DecisionInv'
  BY <1>q DEF DecisionInv
<1>1. ASSUME NEW c \in Checks, NEW truth \in BOOLEAN, NEW m \in Completenesses,
             RunCheck(c, truth, m)
      PROVE  DecisionInv'
  <2> DEFINE new == [status |-> CheckStatus(truth, m), completeness |-> m]
  <2>1. new \in CheckResults /\ (new.status = "PASS" => new.completeness = "COMPLETE")
    BY DEF CheckStatus, CheckResults, Completenesses
  <2>2. /\ DOMAIN checks' = DOMAIN checks \cup {c}
        /\ \A d \in DOMAIN checks' : checks'[d] = IF d = c THEN new ELSE checks[d]
        /\ t' = t
    BY <1>1 DEF RunCheck
  <2> HIDE DEF new
  <2>3. \A d \in DOMAIN checks' :
          /\ checks'[d] \in CheckResults
          /\ checks'[d].status = "PASS" => checks'[d].completeness = "COMPLETE"
    BY <2>1, <2>2 DEF DecisionInv
  <2>4. rq' = [rq EXCEPT !.evidence.validation = SummaryStatus(StatusesOf(checks'))]
    BY <1>1 DEF RunCheck, StatusesOf
  <2>5. SummaryStatus(StatusesOf(checks')) \in ValidationStatuses
    BY SummaryType
  <2>6. rq' \in Requests /\ rq'.evidence.validation = SummaryStatus(StatusesOf(checks'))
    BY <1>t, <2>4, <2>5 DEF Requests, Evidences
  <2> QED BY <1>t, <2>2, <2>3, <2>6 DEF DecisionInv, StatusesOf
<1>2. ASSUME NEW m \in Completenesses \ {"COMPLETE"}, ReadIncomplete(m) PROVE DecisionInv'
  BY <1>2 DEF ReadIncomplete, DecisionInv
<1>3. ASSUME NEW s \in ApprovalStatuses, NEW v \in BOOLEAN, PresentApproval(s, v)
      PROVE  DecisionInv'
  BY <1>3, <1>t, <1>q DEF PresentApproval, Requests, Evidences
<1>4. ASSUME NEW c \in ControlNames, FailControl(c) PROVE DecisionInv'
  BY <1>4, <1>t, <1>q DEF FailControl, Requests, Evidences
<1>5. ASSUME NEW n \in Tenants, NEW o \in Ops, PresentContext(n, o) PROVE DecisionInv'
  BY <1>5, <1>t, <1>q DEF PresentContext, Requests
<1>6. ASSUME NEW c \in Contracts, PresentContract(c) PROVE DecisionInv'
  BY <1>6, <1>t, <1>q DEF PresentContract, Requests
<1>7. ASSUME NEW P, P = {} \/ \E p \in PolicyDecisions : P = {p}, PresentPolicy(P)
      PROVE  DecisionInv'
  <2>1. P \in SUBSET DatedPolicies
    BY <1>7, DecisionAssumption DEF PolicyDecisions, Dated, DatedPolicies
  <2> QED BY <1>7, <2>1, <1>t, <1>q DEF PresentPolicy, Requests
<1>8. ASSUME NEW P, P = {} \/ \E p \in Preconditions : P = {p}, PresentPrecondition(P)
      PROVE  DecisionInv'
  <2>1. P \in SUBSET DatedPreconditions
    BY <1>8, DecisionAssumption DEF Preconditions, Dated, DatedPreconditions
  <2> QED BY <1>8, <2>1, <1>t, <1>q DEF PresentPrecondition, Requests
<1>9. ASSUME EvaluateLater PROVE DecisionInv'
  BY <1>9 DEF EvaluateLater, DecisionInv
<1>10. CASE UNCHANGED decisionVars
  BY <1>10 DEF decisionVars, DecisionInv
<1> QED
  BY <1>1, <1>2, <1>3, <1>4, <1>5, <1>6, <1>7, <1>8, <1>9, <1>10 DEF DecisionNext

LEMMA DecisionInvariant == DecisionSpec => []DecisionInv
BY DecisionInvInit, DecisionStep, PTL DEF DecisionSpec

----------------------------------------------------------------------------
(* The theorems *)

(* The fifteen early returns of WriteGuard.evaluate and of                  *)
(* PreWriteEvaluator.evaluate allow exactly the requests whose bindings,    *)
(* dated evidence, contract, CHECK summary, approval and controls are all   *)
(* in order, whatever the host presents and in whatever order it changes.   *)
THEOREM GuardAllowsExactly == DecisionSpec => []AllowedExactly
<1>1. DecisionInv => AllowedExactly
  BY GuardExact DEF DecisionInv, AllowedExactly, GuardDecision
<1> QED BY <1>1, DecisionInvariant, PTL

(* REQUIRES_APPROVAL means that a valid approval is all that is missing,    *)
(* and neither the guard nor ApprovalSuspensionCoordinator lets a request   *)
(* through on a CHECK that failed, is unknown, or was evaluated on          *)
(* incomplete data (StrictRuleEvaluator, ValidationSummary.from_checks).    *)
THEOREM ApprovalIsAllThatIsMissing == DecisionSpec => []OnlyApprovalMissing
<1>1. DecisionInv => OnlyApprovalMissing
  <2> SUFFICES ASSUME DecisionInv PROVE OnlyApprovalMissing
    OBVIOUS
  <2>t. rq \in Requests /\ rq.evidence \in Evidences /\ t \in Nat
    BY DEF DecisionInv, Requests
  <2>1. GuardDecision.eligibility = "REQUIRES_APPROVAL" =>
          Allowable([rq EXCEPT !.evidence.approval = "APPROVED",
                               !.evidence.evidenceValid = TRUE], t)
    BY <2>t, GuardAwaitsApproval DEF GuardDecision
  <2>2. ASSUME Suspendable \/ GuardDecision.eligibility # "BLOCKED"
        PROVE  rq.evidence.validation \in {"NO_CHECK", "ALL_PASS"}
    <3>1. CASE Suspendable
      BY <3>1 DEF Suspendable
    <3>2. CASE GuardDecision.eligibility # "BLOCKED"
      <4>1. PreWriteEvaluate(GuardEvidence(rq)).eligibility # "BLOCKED"
        BY <3>2, <2>t, GuardMeaning DEF GuardDecision
      <4> QED BY <4>1, <2>t, GuardEvidenceType, PreWriteMeaning DEF Evidences, Eligibilities
    <3> QED BY <2>2, <3>1, <3>2
  <2>3. ASSUME Suspendable \/ GuardDecision.eligibility # "BLOCKED", NEW c \in DOMAIN checks
        PROVE  checks[c].status = "PASS" /\ checks[c].completeness = "COMPLETE"
    <3>1. SummaryStatus(StatusesOf(checks)) \in {"NO_CHECK", "ALL_PASS"}
      BY <2>2, <2>3 DEF DecisionInv
    <3>2. checks[c].status = "PASS"
      BY <3>1, SummaryMeaning DEF DecisionInv
    <3> QED BY <3>2 DEF DecisionInv
  <2> QED BY <2>1, <2>3 DEF OnlyApprovalMissing
<1> QED BY <1>1, DecisionInvariant, PTL
=============================================================================
