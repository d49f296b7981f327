------------------------ MODULE ControlledWriteProofs ------------------------
(***************************************************************************)
(* Proofs about ControlledWrite: what the two components guarantee alone    *)
(* they guarantee together, and what only the composition can say.  The     *)
(* composed specification implements each component, so the theorems of     *)
(* ApprovalResumeProofs and WriteExecutionProofs are facts about it.        *)
(***************************************************************************)
EXTENDS ControlledWrite, ApprovalResumeProofs, WriteExecutionProofs

----------------------------------------------------------------------------
(* Who changes what *)

(* A step of the WRITE takes no time, changes no context, and begins with a *)
(* context that was handed over.                                            *)
LEMMA WriteStepFrame ==
  ASSUME WriteTypeOK, WriteStep
  PROVE  /\ now' = now /\ context' = context
         /\ \A e \in Executions : stage[e] = "none" => stage'[e] = "none"
<1> USE DEF WriteTypeOK, Advance, Raise, writeMemory, evidenceStores, provider
<1> DEFINE Frame == /\ now' = now /\ context' = context
                    /\ \A e \in Executions : stage[e] = "none" => stage'[e] = "none"
<1>1. ASSUME NEW e \in Executions, NEW g \in Guarantees, Reserve(e, g) \/ ReserveFails(e, g)
      PROVE  Frame
  BY <1>1 DEF Reserve, ReserveFails
<1>2. ASSUME NEW e \in Executions, NEW q \in GuardInputs, Guard(e, q) PROVE Frame
  BY <1>2 DEF Guard
<1>3. ASSUME NEW e \in Executions,
             TrustFails(e) \/ RecordRequested(e) \/ RecordRequestedFails(e) \/ Invoke(e)
      PROVE  Frame
  BY <1>3 DEF TrustFails, RecordRequested, RecordRequestedFails, Invoke
<1>4. ASSUME NEW e \in Executions, Receive(e) \/ Uncertain(e) \/ ForeignOutcome(e) PROVE Frame
  BY <1>4 DEF Receive, Uncertain, ForeignOutcome
<1>5. ASSUME NEW e \in Executions, RecordOutcome(e) \/ RecordOutcomeFails(e) PROVE Frame
  BY <1>5 DEF RecordOutcome, RecordOutcomeFails
<1>6. ASSUME NEW e \in Executions, NEW v \in VerificationStatuses, Verify(e, v) PROVE Frame
  BY <1>6 DEF Verify
<1>7. ASSUME NEW e \in Executions, Complete(e) \/ SuffixFails(e) \/ WriteCrash(e) PROVE Frame
  BY <1>7 DEF Complete, SuffixFails, WriteCrash
<1>8. ASSUME NEW e \in Executions, ProviderStep(e) PROVE Frame
  BY <1>8 DEF ProviderStep, ProviderApply, ProviderRefuse, ProviderRepeat
<1>9. ASSUME NEW k \in Keys, ProviderForget(k) PROVE Frame
  BY <1>9 DEF ProviderForget
<1> HIDE DEF Frame
<1>10. Frame
  BY <1>1, <1>2, <1>3, <1>4, <1>5, <1>6, <1>7, <1>8, <1>9 DEF WriteStep, HostStep
<1> QED BY <1>10 DEF Frame

(* A step of the approval side takes no time, serves no call and removes no *)
(* marker.                                                                  *)
LEMMA ApprovalSideFrame ==
  ASSUME ApprovalTypeOK, NEW w \in Workers, ApprovalSideStep(w)
  PROVE  /\ now' = now /\ granted' = granted /\ evidence' = evidence
         /\ \A e \in Executions : consumed[e] # None => consumed'[e] # None
<1> DEFINE Frame == /\ now' = now /\ granted' = granted /\ evidence' = evidence
                    /\ \A e \in Executions : consumed[e] # None => consumed'[e] # None
<1>1. ASSUME Save(w) \/ SaveReplace(w) \/ Publish(w) \/ PublishReplace(w) \/ WriteOnceFails(w)
      PROVE  Frame
  BY <1>1 DEF Save, SaveReplace, Publish, PublishReplace, WriteOnceFails, files
<1>2. ASSUME CreateClaim(w) \/ RestoreFails(w) \/ Validate(w) \/ Release(w) \/ Crash(w)
      PROVE  Frame
  BY <1>2 DEF CreateClaim, RestoreFails, Validate, Release, Crash, files
<1>3. ASSUME Consume(w) PROVE Frame
  BY <1>3, ResumeAssumption DEF Consume, ApprovalTypeOK
<1>4. ASSUME WorkerCall(w) PROVE Frame
  BY <1>4 DEF WorkerCall, StartRun, BeginResume, files
<1> HIDE DEF Frame
<1>5. Frame
  BY <1>1, <1>2, <1>3, <1>4 DEF ApprovalSideStep
<1> QED BY <1>5 DEF Frame

----------------------------------------------------------------------------
(* The composition implements both components *)

LEMMA ApprovalSimulation ==
  ASSUME WriteTypeOK, [ControlledNext]_controlledVars
  PROVE  [ApprovalNext]_apprVars
<1>1. CASE Tick /\ UNCHANGED <<approvalVars, writeVars>>
  BY <1>1 DEF ApprovalNext
<1>2. ASSUME NEW w \in Workers, HandOver(w) PROVE ApprovalNext
  BY <1>2 DEF HandOver, ApprovalNext, WorkerStep
<1>3. ASSUME NEW w \in Workers, ApprovalSideStep(w) PROVE ApprovalNext
  BY <1>3 DEF ApprovalSideStep, ApprovalNext, WorkerStep
<1>4. ASSUME NEW e \in Executions, NEW d \in Decisions, Decide(e, d) PROVE ApprovalNext
  BY <1>4 DEF ApprovalNext
<1>5. CASE WriteStep /\ UNCHANGED approvalVars
  BY <1>5, WriteStepFrame DEF apprVars
<1>6. CASE UNCHANGED controlledVars
  BY <1>6 DEF controlledVars, apprVars
<1> QED BY <1>1, <1>2, <1>3, <1>4, <1>5, <1>6 DEF ControlledNext

(* What resume hands over is an execution with a settled approval status.   *)
LEMMA WriteSimulation ==
  ASSUME ApprovalTypeOK, DecidedInv, [ControlledNext]_controlledVars
  PROVE  [WriteNext]_wrVars
<1>1. CASE Tick /\ UNCHANGED <<approvalVars, writeVars>>
  BY <1>1 DEF WriteNext
<1>2. ASSUME NEW w \in Workers, HandOver(w) PROVE WriteNext
  <2>1. pc[w] = "unclaim" /\ BeginWrite(job[w].exec, job[w].approval, job[w].intent)
    BY <1>2 DEF HandOver, Unclaim
  <2>2. job[w].exec \in Executions /\ job[w].intent \in Intents
    BY <2>1 DEF ApprovalTypeOK, HoldingPcs, ResumeJobs
  <2>3. job[w].approval \in ResumedStatuses
    BY <2>1 DEF DecidedInv, DecidedPcs, SettledStatuses, ResumedStatuses
  <2> QED BY <2>1, <2>2, <2>3 DEF WriteNext
<1>3. ASSUME NEW w \in Workers, ApprovalSideStep(w) /\ UNCHANGED writeVars
      PROVE  UNCHANGED wrVars
  BY <1>3, ApprovalSideFrame DEF wrVars
<1>4. ASSUME NEW e \in Executions, NEW d \in Decisions, Decide(e, d) /\ UNCHANGED writeVars
      PROVE  UNCHANGED wrVars
  BY <1>4 DEF Decide, wrVars
<1>5. CASE WriteStep /\ UNCHANGED approvalVars
  BY <1>5 DEF WriteNext
<1>6. CASE UNCHANGED controlledVars
  BY <1>6 DEF controlledVars, wrVars
<1> QED BY <1>1, <1>2, <1>3, <1>4, <1>5, <1>6 DEF ControlledNext

(* Each simulation needs the other component's invariant, so the two are    *)
(* established together.                                                    *)
ComponentInv == ApprovalTypeOK /\ LeaseInv /\ DecidedInv /\ WriteTypeOK /\ WriteInv

LEMMA ComponentInvariant == ControlledSpec => []ComponentInv
<1>1. ControlledInit => ComponentInv
  <2> SUFFICES ASSUME ApprovalInit, WriteInit PROVE ComponentInv
    BY DEF ControlledInit
  <2>1. LeaseInv
    BY DEF ApprovalInit, LeaseInv, ExclusiveClaim, SpentOnce, AtMostOneResume, Holds, HoldingPcs
  <2>2. DecidedInv
    BY DEF ApprovalInit, DecidedInv, ApprovedAsDecided, ResumePcs, DecidedPcs, HoldingPcs
  <2> QED BY <2>1, <2>2, TypeInit, WriteTypeInit, WriteInvInit DEF ComponentInv
<1>2. ComponentInv /\ [ControlledNext]_controlledVars => ComponentInv'
  <2> SUFFICES ASSUME ComponentInv, [ControlledNext]_controlledVars PROVE ComponentInv'
    OBVIOUS
  <2>1. [ApprovalNext]_apprVars
    BY ApprovalSimulation DEF ComponentInv
  <2>2. [WriteNext]_wrVars
    BY WriteSimulation DEF ComponentInv
  <2>3. ApprovalTypeOK' /\ LeaseInv' /\ DecidedInv'
    BY <2>1, TypeStep, LeaseStep, DecidedStep DEF ComponentInv
  <2>4. WriteTypeOK' /\ WriteInv'
    BY <2>2, WriteTypeStep, ControlStep, OutcomeStep, ProviderInvStep DEF ComponentInv, WriteInv
  <2> QED BY <2>3, <2>4 DEF ComponentInv
<1> QED BY <1>1, <1>2, PTL DEF ControlledSpec

(* Composed with the WRITE, the resume path is still the one of             *)
(* ApprovalResume: the WRITE touches none of its files, so every theorem of *)
(* ApprovalSpec holds of the whole.                                         *)
THEOREM ControlledImplementsApproval == ControlledSpec => ApprovalSpec
<1>1. ControlledInit => ApprovalInit
  BY DEF ControlledInit
<1>2. ComponentInv /\ [ControlledNext]_controlledVars => [ApprovalNext]_apprVars
  BY ApprovalSimulation DEF ComponentInv
<1> QED BY <1>1, <1>2, ComponentInvariant, PTL DEF ControlledSpec, ApprovalSpec, apprVars

(* The resume path is an environment that WriteExecution allows:            *)
(* ApprovalResumeCoordinator.resume hands an execution over once, and with  *)
(* an approval that is decided or expired, so every theorem of WriteSpec    *)
(* holds of the whole.                                                      *)
THEOREM ControlledImplementsWrite == ControlledSpec => ImplementsWrite
<1>1. ControlledInit => WriteInit
  BY DEF ControlledInit
<1>2. ComponentInv /\ [ControlledNext]_controlledVars => [WriteNext]_wrVars
  BY WriteSimulation DEF ComponentInv
<1> QED
  BY <1>1, <1>2, ComponentInvariant, PTL DEF ControlledSpec, ImplementsWrite, WriteSpec, wrVars

----------------------------------------------------------------------------
(* No WRITE without a decision                                              *)
(*                                                                          *)
(* The link between the components: a WRITE that has begun works with the   *)
(* status and the intent of a resume call that was served.                  *)

ServedFor(e) ==
  \E k \in DOMAIN granted[e] : granted[e][k].approval = context[e].approval
                               /\ granted[e][k].intent = context[e].intent

LinkInv ==
  /\ \A v \in evidence : v.genuine
  /\ \A e \in Executions : stage[e] # "none" => consumed[e] # None /\ ServedFor(e)

LEMMA LinkStep ==
  ComponentInv /\ LinkInv /\ [ControlledNext]_controlledVars => LinkInv'
<1> SUFFICES ASSUME ComponentInv, LinkInv, [ControlledNext]_controlledVars PROVE LinkInv'
  OBVIOUS
<1> USE DEF ComponentInv
<1>q. ASSUME evidence' = evidence, granted' = granted, context' = context,
             \A e \in Executions : consumed[e] # None => consumed'[e] # None,
             \A e \in Executions : stage[e] = "none" => stage'[e] = "none"
      PROVE  LinkInv'
  BY <1>q DEF LinkInv, ServedFor
<1>1. CASE Tick /\ UNCHANGED <<approvalVars, writeVars>>
  BY <1>1, <1>q DEF approvalVars, writeVars, writeMemory
<1>2. ASSUME NEW w \in Workers, HandOver(w) PROVE LinkInv'
  <2>0. PICK x \in Executions : x = job[w].exec
    BY <1>2 DEF HandOver, Unclaim, ApprovalTypeOK, HoldingPcs, ResumeJobs
  <2>1. /\ pc[w] = "unclaim" /\ evidence' = evidence /\ consumed' = consumed
        /\ granted' = [granted EXCEPT ![x] = Append(@, job[w])]
        /\ stage' = [stage EXCEPT ![x] = "reserve"]
        /\ context' = [context EXCEPT ![x] =
                        [approval |-> job[w].approval, intent |-> job[w].intent]]
    BY <1>2, <2>0 DEF HandOver, Unclaim, BeginWrite, Advance
  <2>2. job[w] \in ResumeJobs
    BY <2>1 DEF ApprovalTypeOK, HoldingPcs
  <2>3. consumed[x] # None /\ granted[x] = << >>
    BY <2>0, <2>1 DEF LeaseInv, SpentOnce
  <2>4. granted'[x] = <<job[w]>> /\ \A e \in Executions \ {x} : granted'[e] = granted[e]
    BY <2>1, <2>2, <2>3 DEF ApprovalTypeOK
  <2>5. context'[x].approval = job[w].approval /\ context'[x].intent = job[w].intent
    BY <2>1 DEF WriteTypeOK
  <2>6. ServedFor(x)'
    BY <2>4, <2>5 DEF ServedFor
  <2>7. \A e \in Executions \ {x} : stage'[e] = stage[e] /\ (ServedFor(e) => ServedFor(e)')
    BY <2>1, <2>4 DEF ServedFor, WriteTypeOK
  <2> QED BY <2>1, <2>3, <2>6, <2>7 DEF LinkInv
<1>3. ASSUME NEW w \in Workers, ApprovalSideStep(w) /\ UNCHANGED writeVars PROVE LinkInv'
  BY <1>3, <1>q, ApprovalSideFrame DEF writeVars, writeMemory
<1>4. ASSUME NEW e \in Executions, NEW d \in Decisions, Decide(e, d) /\ UNCHANGED writeVars
      PROVE  LinkInv'
  <2>1. \A v \in evidence' : v.genuine
    BY <1>4 DEF Decide, EvidenceFor, LinkInv
  <2>2. UNCHANGED <<consumed, granted, stage, context>>
    BY <1>4 DEF Decide, files, writeVars, writeMemory
  <2> QED BY <2>1, <2>2 DEF LinkInv, ServedFor
<1>5. CASE WriteStep /\ UNCHANGED approvalVars
  BY <1>5, <1>q, WriteStepFrame DEF approvalVars
<1>6. CASE UNCHANGED controlledVars
  BY <1>6, <1>q DEF controlledVars, approvalVars, writeVars, writeMemory
<1> QED BY <1>1, <1>2, <1>3, <1>4, <1>5, <1>6 DEF ControlledNext

(* Whatever reaches the provider was approved by a person, in verified      *)
(* evidence for this execution and this payload, and its checkpoint is      *)
(* spent; and no resume call ever meets an execution whose WRITE has begun  *)
(* (ApprovalResumeCoordinator.resume, WriteGuard.evaluate,                  *)
(* WriteExecutionCoordinator.execute), for any number of processes, of      *)
(* executions per operation, and of crashes.                                *)
THEOREM WriteRestsOnDecision == ControlledSpec => []WriteImpliesDecision
<1>1. ControlledInit => LinkInv
  BY DEF ControlledInit, ApprovalInit, WriteInit, LinkInv
<1>2. ComponentInv /\ LinkInv /\ [ControlledNext]_controlledVars => LinkInv'
  BY LinkStep
<1>3. ComponentInv /\ LinkInv => WriteImpliesDecision
  <2> SUFFICES ASSUME ComponentInv, LinkInv PROVE WriteImpliesDecision
    OBVIOUS
  <2>1. ASSUME NEW e \in Executions, call[e] # "none"
        PROVE  /\ consumed[e] # None
               /\ \E v \in evidence : v.genuine /\ v.decision = "APPROVED" /\ v.exec = e
                                      /\ v.intent = context[e].intent
    <3>1. stage[e] # "none" /\ context[e].approval = "APPROVED"
      BY <2>1 DEF ComponentInv, WriteInv, ControlInv, ControlsHeld, EarlyStages
    <3>2. consumed[e] # None
      BY <3>1 DEF LinkInv
    <3>3. PICK k \in DOMAIN granted[e] : granted[e][k].approval = "APPROVED"
                                         /\ granted[e][k].intent = context[e].intent
      BY <3>1 DEF LinkInv, ServedFor
    <3>4. PICK v \in evidence : v.decision = "APPROVED" /\ v.exec = e
                                /\ v.intent = granted[e][k].intent
      BY <3>3 DEF ComponentInv, DecidedInv, ApprovedAsDecided
    <3> QED BY <3>2, <3>3, <3>4 DEF LinkInv
  <2>2. ASSUME NEW w \in Workers, pc[w] = "unclaim" PROVE stage[job[w].exec] = "none"
    <3>1. job[w].exec \in Executions /\ granted[job[w].exec] = << >>
      BY <2>2 DEF ComponentInv, ApprovalTypeOK, HoldingPcs, ResumeJobs, LeaseInv, SpentOnce
    <3> QED BY <3>1 DEF LinkInv, ServedFor
  <2> QED BY <2>1, <2>2 DEF WriteImpliesDecision
<1> QED BY <1>1, <1>2, <1>3, ComponentInvariant, PTL DEF ControlledSpec
=============================================================================
