------------------------ MODULE ApprovalResumeProofs ------------------------
(***************************************************************************)
(* Proofs about ApprovalResume, for every set of workers, executions and    *)
(* intents, every choice of claim ids, and any number of crashes.           *)
(***************************************************************************)
EXTENDS ApprovalResume, TLAPS

apprVars == <<now, approvalVars>>

----------------------------------------------------------------------------
(* Lemmas about the operators *)

(* What a caller can present is evidence; if it verifies, it was issued. *)
LEMMA PresentableIssued ==
  ASSUME evidence \subseteq EvidenceRecords, NEW v \in Presentable
  PROVE  v \in EvidenceRecords /\ (v.genuine => v \in evidence)
BY DEF Presentable, EvidenceRecords

(* The status that the two validators leave in a resumed context. *)
LEMMA VerdictStatus ==
  ASSUME NEW j \in ResumeJobs
  PROVE  ResumeVerdict(j).status \in ApprovalStatuses
BY DEF ResumeVerdict, ValidateEvidence, GatePassed, ValidateCurrentIdentity, Verdict,
       ApprovalStatuses

(* A verdict that is not given back is a decision or its expiry. *)
LEMMA SettledVerdict ==
  ASSUME NEW j, ResumeVerdict(j).validation \notin ReleasingValidations
  PROVE  ResumeVerdict(j).status \in {"APPROVED", "REJECTED", "EXPIRED"}
BY DEF ResumeVerdict, ValidateEvidence, GatePassed, ValidateCurrentIdentity, Verdict,
       ReleasingValidations

(* A verdict that is APPROVED and is not given back rests on verified,      *)
(* unexpired evidence of an approval with the bindings of the checkpoint.   *)
LEMMA ApprovedVerdict ==
  ASSUME NEW j \in ResumeJobs,
         ResumeVerdict(j).validation \notin ReleasingValidations,
         ResumeVerdict(j).status = "APPROVED"
  PROVE  /\ j.evidence.genuine
         /\ j.evidence.decision = "APPROVED"
         /\ j.evidence.exec = j.exec
         /\ j.evidence.intent = j.bound
         /\ j.intent = j.bound
         /\ ~Expired(j.evidence.expires, j.at)
BY DEF ResumeVerdict, ValidateEvidence, GatePassed, ValidateCurrentIdentity, Verdict,
       ReleasingValidations, Bindings, ResumeJobs, EvidenceRecords, Decisions

----------------------------------------------------------------------------
(* Type correctness *)

LEMMA TypeInit == ApprovalInit => ApprovalTypeOK
BY BaseAssumption, ResumeAssumption
   DEF ApprovalInit, ApprovalTypeOK, Pcs, StartPcs, HoldingPcs

LEMMA TypeStep == ApprovalTypeOK /\ [ApprovalNext]_apprVars => ApprovalTypeOK'
<1> SUFFICES ASSUME ApprovalTypeOK, [ApprovalNext]_apprVars PROVE ApprovalTypeOK'
  OBVIOUS
<1> USE DEF ApprovalTypeOK, Pcs, StartPcs, HoldingPcs
<1>1. ASSUME NEW w \in Workers, NEW e \in Executions, NEW i \in Intents, StartRun(w, e, i)
      PROVE  ApprovalTypeOK'
  BY <1>1, ResumeAssumption DEF StartRun, files, StartJobs, Deadlines
<1>2. ASSUME NEW w \in Workers, Save(w) PROVE ApprovalTypeOK'
  BY <1>2 DEF Save, GoTo, Return, files
<1>3. ASSUME NEW w \in Workers, SaveReplace(w) PROVE ApprovalTypeOK'
  BY <1>3 DEF SaveReplace, GoTo, StartJobs
<1>4. ASSUME NEW w \in Workers, Publish(w) PROVE ApprovalTypeOK'
  BY <1>4 DEF Publish, GoTo, Return, files
<1>5. ASSUME NEW w \in Workers, PublishReplace(w) PROVE ApprovalTypeOK'
  BY <1>5 DEF PublishReplace, Return, RequestOf, StartJobs
<1>6. ASSUME NEW w \in Workers, WriteOnceFails(w) PROVE ApprovalTypeOK'
  BY <1>6 DEF WriteOnceFails, Return, files
<1>7. ASSUME NEW e \in Executions, NEW d \in Decisions, Decide(e, d) PROVE ApprovalTypeOK'
  <2>1. EvidenceFor(e, d, TRUE) \in EvidenceRecords
    BY <1>7, BaseAssumption DEF Decide, EvidenceFor, EvidenceRecords, ApprovalRequestId
  <2> QED BY <1>7, <2>1 DEF Decide, files
<1>8. ASSUME NEW w \in Workers, NEW e \in Executions, NEW v \in Presentable, NEW i \in Intents,
             BeginResume(w, e, v, i)
      PROVE  ApprovalTypeOK'
  <2>1. v \in EvidenceRecords
    BY PresentableIssued
  <2>2. CASE consumed[e] # None
    BY <1>8, <2>2 DEF BeginResume, Return, files
  <2>3. CASE consumed[e] = None
    <3> DEFINE j == [exec |-> e, intent |-> i, bound |-> checkpoint[e],
                     evidence |-> v, at |-> now, approval |-> "PENDING"]
    <3>1. j \in ResumeJobs
      BY <1>8, <2>1 DEF BeginResume, ResumeJobs, ApprovalStatuses
    <3>2. pc' = [pc EXCEPT ![w] = "claim"] /\ job' = [job EXCEPT ![w] = j]
      BY <1>8, <2>3 DEF BeginResume
    <3> QED BY <1>8, <3>1, <3>2 DEF BeginResume, files
  <2> QED BY <2>2, <2>3
<1>9. ASSUME NEW w \in Workers, CreateClaim(w) PROVE ApprovalTypeOK'
  <2>1. job[w].exec \in Executions
    BY <1>9 DEF CreateClaim, ResumeJobs
  <2>2. CASE claim[job[w].exec] # None
    BY <1>9, <2>2 DEF CreateClaim, Return
  <2>3. CASE claim[job[w].exec] = None
    <3> DEFINE Claims == {ClaimIdOf[u] : u \in Workers} \cup {None}
    <3>a. claim' = [claim EXCEPT ![job[w].exec] = ClaimIdOf[w]]
      BY <1>9, <2>3 DEF CreateClaim
    <3>b. ClaimIdOf[w] \in Claims
      OBVIOUS
    <3>c. claim \in [Executions -> Claims]
      OBVIOUS
    <3>1. claim' \in [Executions -> Claims]
      <4> HIDE DEF Claims
      <4> QED BY ONLY <3>a, <3>b, <3>c, <2>1
    <3>2. pc' = [pc EXCEPT ![w] = "validate"] /\ job' = job /\ pc[w] = "claim"
      BY <1>9, <2>3 DEF CreateClaim, GoTo
    <3> QED BY <1>9, <3>1, <3>2 DEF CreateClaim
  <2> QED BY <2>2, <2>3
<1>10. ASSUME NEW w \in Workers, RestoreFails(w) PROVE ApprovalTypeOK'
  BY <1>10 DEF RestoreFails, GoTo, files
<1>11. ASSUME NEW w \in Workers, Validate(w) PROVE ApprovalTypeOK'
  <2>1. job[w] \in ResumeJobs
    BY <1>11 DEF Validate
  <2>2. ResumeVerdict(job[w]).status \in ApprovalStatuses
    BY <2>1, VerdictStatus
  <2>3. [job[w] EXCEPT !.approval = ResumeVerdict(job[w]).status] \in ResumeJobs
    BY <2>1, <2>2 DEF ResumeJobs
  <2> QED BY <1>11, <2>3 DEF Validate, GoTo, files
<1>12. ASSUME NEW w \in Workers, Release(w) PROVE ApprovalTypeOK'
  BY <1>12 DEF Release, Return
<1>13. ASSUME NEW w \in Workers, Consume(w) PROVE ApprovalTypeOK'
  BY <1>13 DEF Consume, Return, GoTo
<1>14. ASSUME NEW w \in Workers, Unclaim(w) PROVE ApprovalTypeOK'
  <2>1. job[w] \in ResumeJobs /\ job[w].exec \in Executions
    BY <1>14 DEF Unclaim, ResumeJobs
  <2>2. granted' \in [Executions -> Seq(ResumeJobs)]
    BY <1>14, <2>1 DEF Unclaim
  <2> QED BY <1>14, <2>2 DEF Unclaim, Return
<1>15. ASSUME NEW w \in Workers, Crash(w) PROVE ApprovalTypeOK'
  BY <1>15 DEF Crash, Return, files
<1>16. CASE Tick /\ UNCHANGED approvalVars
  BY <1>16 DEF Tick, approvalVars
<1>17. CASE UNCHANGED apprVars
  BY <1>17 DEF apprVars, approvalVars
<1> QED
  BY <1>1, <1>2, <1>3, <1>4, <1>5, <1>6, <1>7, <1>8, <1>9, <1>10, <1>11, <1>12, <1>13,
     <1>14, <1>15, <1>16, <1>17 DEF ApprovalNext, WorkerStep, WorkerCall

(* Every variable keeps its type, and a worker inside a call holds the      *)
(* record of that call: start_controlled_run or resume_controlled_run.      *)
THEOREM ApprovalTypeCorrect == ApprovalSpec => []ApprovalTypeOK
<1>1. ApprovalInit => ApprovalTypeOK
  BY TypeInit
<1>2. ApprovalTypeOK /\ [ApprovalNext]_apprVars => ApprovalTypeOK'
  BY TypeStep
<1> QED BY <1>1, <1>2, PTL DEF ApprovalSpec, apprVars

----------------------------------------------------------------------------
(* The claim and the consumed marker                                        *)
(*                                                                          *)
(* ExclusiveClaim is inductive.  AtMostOneResume is not: it needs that      *)
(* nobody was served before the marker was created, and that the call that  *)
(* created the marker is not yet served while it still holds the claim.     *)

SpentOnce ==
  /\ \A e \in Executions : consumed[e] = None => granted[e] = << >>
  /\ \A w \in Workers : pc[w] = "unclaim" =>
       consumed[job[w].exec] # None /\ granted[job[w].exec] = << >>

LeaseInv == ExclusiveClaim /\ SpentOnce /\ AtMostOneResume

(* A step that leaves the claims, the markers and the served calls alone,   *)
(* and lets nobody get hold of a claim or move on to removing it, keeps the *)
(* invariant.                                                               *)
LEMMA QuietStep ==
  ASSUME LeaseInv, UNCHANGED <<claim, consumed, granted>>,
         \A u \in Workers : pc'[u] \in HoldingPcs =>
           Holds(u) /\ job'[u].exec = job[u].exec /\ (pc'[u] = "unclaim" => pc[u] = "unclaim")
  PROVE  LeaseInv'
BY DEF LeaseInv, ExclusiveClaim, SpentOnce, AtMostOneResume, Holds, HoldingPcs

LEMMA LeaseStep ==
  ApprovalTypeOK /\ LeaseInv /\ [ApprovalNext]_apprVars => LeaseInv'
<1> SUFFICES ASSUME ApprovalTypeOK, LeaseInv, [ApprovalNext]_apprVars PROVE LeaseInv'
  OBVIOUS
<1> DEFINE Quiet ==
      /\ UNCHANGED <<claim, consumed, granted>>
      /\ \A u \in Workers : pc'[u] \in HoldingPcs =>
           Holds(u) /\ job'[u].exec = job[u].exec /\ (pc'[u] = "unclaim" => pc[u] = "unclaim")
<1>q. ASSUME Quiet PROVE LeaseInv'
  BY <1>q, QuietStep
<1> HIDE DEF Quiet
<1>1. ASSUME NEW w \in Workers, NEW e \in Executions, NEW i \in Intents, StartRun(w, e, i)
      PROVE  Quiet
  BY <1>1 DEF StartRun, Quiet, files, Holds, HoldingPcs, ApprovalTypeOK
<1>2. ASSUME NEW w \in Workers, Save(w) PROVE Quiet
  BY <1>2 DEF Save, Quiet, GoTo, Return, files, Holds, HoldingPcs, ApprovalTypeOK
<1>3. ASSUME NEW w \in Workers, SaveReplace(w) PROVE Quiet
  BY <1>3 DEF SaveReplace, Quiet, GoTo, Holds, HoldingPcs, ApprovalTypeOK
<1>4. ASSUME NEW w \in Workers, Publish(w) PROVE Quiet
  BY <1>4 DEF Publish, Quiet, GoTo, Return, files, Holds, HoldingPcs, ApprovalTypeOK
<1>5. ASSUME NEW w \in Workers, PublishReplace(w) PROVE Quiet
  BY <1>5 DEF PublishReplace, Quiet, Return, Holds, HoldingPcs, ApprovalTypeOK
<1>6. ASSUME NEW w \in Workers, WriteOnceFails(w) PROVE Quiet
  BY <1>6 DEF WriteOnceFails, Quiet, Return, files, Holds, HoldingPcs, ApprovalTypeOK
<1>7. ASSUME NEW e \in Executions, NEW d \in Decisions, Decide(e, d) PROVE Quiet
  BY <1>7 DEF Decide, Quiet, files, Holds
<1>8. ASSUME NEW w \in Workers, NEW e \in Executions, NEW v \in Presentable, NEW i \in Intents,
             BeginResume(w, e, v, i)
      PROVE  Quiet
  <2>1. UNCHANGED <<claim, consumed, granted>> /\ pc'[w] \notin HoldingPcs
    BY <1>8 DEF BeginResume, Return, files, HoldingPcs, ApprovalTypeOK
  <2>2. \A u \in Workers \ {w} : pc'[u] = pc[u] /\ job'[u] = job[u]
    BY <1>8 DEF BeginResume, Return, ApprovalTypeOK
  <2> QED BY <2>1, <2>2 DEF Quiet, Holds
<1>9. ASSUME NEW w \in Workers, CreateClaim(w) PROVE LeaseInv'
  <2>1. CASE claim[job[w].exec] # None
    <3>1. Quiet
      BY <1>9, <2>1 DEF CreateClaim, Quiet, Return, Holds, HoldingPcs, ApprovalTypeOK
    <3> QED BY <3>1, <1>q
  <2>2. CASE claim[job[w].exec] = None
    <3>1. /\ pc[w] = "claim" /\ pc' = [pc EXCEPT ![w] = "validate"] /\ job' = job
          /\ claim' = [claim EXCEPT ![job[w].exec] = ClaimIdOf[w]]
          /\ UNCHANGED <<consumed, granted>>
          /\ job[w].exec \in Executions
      BY <1>9, <2>2 DEF CreateClaim, GoTo, ApprovalTypeOK, ResumeJobs
    <3>2. \A u \in Workers : Holds(u) => job[u].exec # job[w].exec
      BY <2>2, ResumeAssumption DEF LeaseInv, ExclusiveClaim
    <3>3. \A u \in Workers : Holds(u)' => u = w \/ Holds(u)
      BY <3>1 DEF Holds, HoldingPcs, ApprovalTypeOK
    <3>4. ExclusiveClaim'
      BY <3>1, <3>2, <3>3 DEF LeaseInv, ExclusiveClaim, ApprovalTypeOK
    <3>5. SpentOnce' /\ AtMostOneResume'
      BY <3>1 DEF LeaseInv, SpentOnce, AtMostOneResume, ApprovalTypeOK
    <3> QED BY <3>4, <3>5 DEF LeaseInv
  <2> QED BY <2>1, <2>2
<1>10. ASSUME NEW w \in Workers, RestoreFails(w) PROVE Quiet
  BY <1>10 DEF RestoreFails, Quiet, GoTo, files, Holds, HoldingPcs, ApprovalTypeOK
<1>11. ASSUME NEW w \in Workers, Validate(w) PROVE Quiet
  <2>1. /\ UNCHANGED <<claim, consumed, granted>>
        /\ pc[w] = "validate" /\ pc'[w] # "unclaim" /\ job'[w].exec = job[w].exec
    BY <1>11 DEF Validate, GoTo, files, ApprovalTypeOK, HoldingPcs, ResumeJobs
  <2>2. \A u \in Workers \ {w} : pc'[u] = pc[u] /\ job'[u] = job[u]
    BY <1>11 DEF Validate, GoTo, ApprovalTypeOK
  <2> QED BY <2>1, <2>2 DEF Quiet, Holds, HoldingPcs
<1>12. ASSUME NEW w \in Workers, Release(w) PROVE LeaseInv'
  <2>1. /\ pc[w] = "release" /\ pc' = [pc EXCEPT ![w] = "idle"]
        /\ job' = [job EXCEPT ![w] = None]
        /\ claim' = [claim EXCEPT ![job[w].exec] = None]
        /\ UNCHANGED <<consumed, granted>>
    BY <1>12 DEF Release, Return
  <2>2. \A u \in Workers : Holds(u)' =>
          u # w /\ Holds(u) /\ job'[u] = job[u] /\ job[u].exec # job[w].exec
    BY <2>1 DEF Holds, HoldingPcs, LeaseInv, ExclusiveClaim, ApprovalTypeOK
  <2>3. ExclusiveClaim'
    BY <2>1, <2>2 DEF LeaseInv, ExclusiveClaim, ApprovalTypeOK
  <2>4. SpentOnce' /\ AtMostOneResume'
    BY <2>1 DEF LeaseInv, SpentOnce, AtMostOneResume, ApprovalTypeOK
  <2> QED BY <2>3, <2>4 DEF LeaseInv
<1>13. ASSUME NEW w \in Workers, Consume(w) PROVE LeaseInv'
  <2>1. CASE consumed[job[w].exec] # None
    <3>1. Quiet
      BY <1>13, <2>1 DEF Consume, Quiet, Return, Holds, HoldingPcs, ApprovalTypeOK
    <3> QED BY <3>1, <1>q
  <2>2. CASE consumed[job[w].exec] = None
    <3>1. /\ pc[w] = "consume" /\ pc' = [pc EXCEPT ![w] = "unclaim"] /\ job' = job
          /\ consumed' = [consumed EXCEPT ![job[w].exec] = w]
          /\ UNCHANGED <<claim, granted>>
          /\ job[w].exec \in Executions
      BY <1>13, <2>2 DEF Consume, GoTo, ApprovalTypeOK, HoldingPcs, ResumeJobs
    <3>2. ExclusiveClaim'
      BY <3>1 DEF LeaseInv, ExclusiveClaim, Holds, HoldingPcs, ApprovalTypeOK
    <3>3. SpentOnce'
      BY <3>1, <2>2, ResumeAssumption DEF LeaseInv, SpentOnce, ApprovalTypeOK
    <3>4. AtMostOneResume'
      BY <3>1 DEF LeaseInv, AtMostOneResume
    <3> QED BY <3>2, <3>3, <3>4 DEF LeaseInv
  <2> QED BY <2>1, <2>2
<1>14. ASSUME NEW w \in Workers, Unclaim(w) PROVE LeaseInv'
  <2>1. /\ pc[w] = "unclaim" /\ pc' = [pc EXCEPT ![w] = "idle"]
        /\ job' = [job EXCEPT ![w] = None]
        /\ claim' = [claim EXCEPT ![job[w].exec] = None]
        /\ granted' = [granted EXCEPT ![job[w].exec] = Append(@, job[w])]
        /\ UNCHANGED consumed
    BY <1>14 DEF Unclaim, Return
  <2>2. \A u \in Workers : Holds(u)' =>
          u # w /\ Holds(u) /\ job'[u] = job[u] /\ job[u].exec # job[w].exec
    BY <2>1 DEF Holds, HoldingPcs, LeaseInv, ExclusiveClaim, ApprovalTypeOK
  <2>3. ExclusiveClaim'
    BY <2>1, <2>2 DEF LeaseInv, ExclusiveClaim, ApprovalTypeOK
  <2>4. granted[job[w].exec] = << >> /\ consumed[job[w].exec] # None
    BY <2>1 DEF LeaseInv, SpentOnce
  <2>5. SpentOnce'
    <3>1. \A e \in Executions : consumed'[e] = None => granted'[e] = << >>
      BY <2>1, <2>4 DEF LeaseInv, SpentOnce, ApprovalTypeOK
    <3>2. ASSUME NEW u \in Workers, pc'[u] = "unclaim"
          PROVE  consumed'[job'[u].exec] # None /\ granted'[job'[u].exec] = << >>
      <4>1. u # w /\ pc[u] = "unclaim" /\ job'[u] = job[u] /\ job[u].exec # job[w].exec
        BY <3>2, <2>1, <2>2 DEF Holds, HoldingPcs, ApprovalTypeOK
      <4>2. job[u].exec \in Executions
        BY <4>1 DEF ApprovalTypeOK, HoldingPcs, ResumeJobs
      <4> QED BY <2>1, <4>1, <4>2 DEF LeaseInv, SpentOnce, ApprovalTypeOK
    <3> QED BY <3>1, <3>2 DEF SpentOnce
  <2>6. AtMostOneResume'
    <3>1. \A e \in Executions : granted'[e] = granted[e] \/ Len(granted'[e]) = 1
      BY <2>1, <2>4 DEF ApprovalTypeOK
    <3>2. \A e \in Executions : Len(granted[e]) <= 1
      BY DEF LeaseInv, AtMostOneResume
    <3>3. ASSUME NEW e \in Executions PROVE Len(granted'[e]) <= 1
      <4>1. CASE granted'[e] = granted[e]
        BY <3>2, <4>1
      <4>2. CASE Len(granted'[e]) = 1
        BY <4>2
      <4> QED BY <3>1, <4>1, <4>2
    <3> QED BY <3>3 DEF AtMostOneResume
  <2> QED BY <2>3, <2>5, <2>6 DEF LeaseInv
<1>15. ASSUME NEW w \in Workers, Crash(w) PROVE Quiet
  BY <1>15 DEF Crash, Quiet, Return, files, Holds, HoldingPcs, ApprovalTypeOK
<1>16. CASE Tick /\ UNCHANGED approvalVars
  BY <1>16, <1>q DEF Quiet, approvalVars, Holds
<1>17. CASE UNCHANGED apprVars
  BY <1>17, <1>q DEF Quiet, apprVars, approvalVars, Holds
<1> QED
  BY <1>q, <1>1, <1>2, <1>3, <1>4, <1>5, <1>6, <1>7, <1>8, <1>9, <1>10, <1>11, <1>12, <1>13,
     <1>14, <1>15, <1>16, <1>17 DEF ApprovalNext, WorkerStep, WorkerCall

LEMMA LeaseInvariant == ApprovalSpec => []LeaseInv
<1>1. ApprovalInit => LeaseInv
  BY DEF ApprovalInit, LeaseInv, ExclusiveClaim, SpentOnce, AtMostOneResume, Holds, HoldingPcs
<1>2. ApprovalTypeOK /\ LeaseInv /\ [ApprovalNext]_apprVars => LeaseInv'
  BY LeaseStep
<1> QED BY <1>1, <1>2, ApprovalTypeCorrect, PTL DEF ApprovalSpec, apprVars

(* Two resume calls never hold the claim of one execution, nobody else's    *)
(* claim is removed, and at most one call per checkpoint returns with the   *)
(* claim consumed, for any number of processes and crashes                  *)
(* (FileControlledStatePort.claim, release, consume).                       *)
THEOREM ClaimIsExclusive == ApprovalSpec => []ExclusiveClaim
BY LeaseInvariant, PTL DEF LeaseInv

(* The approval of a checkpoint is used at most once, whatever the          *)
(* interleaving of the file system calls of claim and consume.              *)
THEOREM ResumedAtMostOnce == ApprovalSpec => []AtMostOneResume
BY LeaseInvariant, PTL DEF LeaseInv

----------------------------------------------------------------------------
(* Approved as decided                                                      *)
(*                                                                          *)
(* Between reading the evidence and returning the outcome lie the claim,    *)
(* the validation and the consumption, with steps of other processes in     *)
(* between: the invariant follows the evidence through the call.            *)

SoundApproval(j, e) ==
  \E v \in evidence :
    /\ v = j.evidence
    /\ v.decision = "APPROVED"
    /\ v.exec = e
    /\ v.intent = j.bound
    /\ j.intent = j.bound
    /\ ~Expired(v.expires, j.at)

ResumePcs == {"claim"} \cup HoldingPcs
DecidedPcs == {"consume", "unclaim"}

(* The statuses with which a call goes on to consume its claim. *)
SettledStatuses == {"APPROVED", "REJECTED", "EXPIRED"}

DecidedInv ==
  /\ ApprovedAsDecided
  /\ \A w \in Workers : pc[w] \in ResumePcs =>
       (job[w].evidence.genuine => job[w].evidence \in evidence)
  /\ \A w \in Workers : pc[w] \in DecidedPcs =>
       /\ job[w].approval \in SettledStatuses
       /\ job[w].approval = "APPROVED" => SoundApproval(job[w], job[w].exec)

(* Decisions are never withdrawn, so whatever rests on one keeps resting    *)
(* on it while the calls under way stay as they are.                        *)
LEMMA DecisionsStay ==
  ASSUME DecidedInv, evidence \subseteq evidence', granted' = granted,
         \A u \in Workers : pc'[u] \in ResumePcs =>
           /\ pc[u] \in ResumePcs
           /\ job'[u] = job[u]
           /\ pc'[u] \in DecidedPcs => pc[u] \in DecidedPcs
  PROVE  DecidedInv'
<1>1. ApprovedAsDecided'
  BY DEF DecidedInv, ApprovedAsDecided
<1>2. \A w \in Workers : pc'[w] \in ResumePcs =>
        (job'[w].evidence.genuine => job'[w].evidence \in evidence')
  BY DEF DecidedInv
<1>3. \A w \in Workers : pc'[w] \in DecidedPcs => pc'[w] \in ResumePcs
  BY DEF DecidedPcs, ResumePcs, HoldingPcs
<1>4. \A j, e : SoundApproval(j, e) => SoundApproval(j, e)'
  BY DEF SoundApproval
<1>5. ASSUME NEW w \in Workers, pc'[w] \in DecidedPcs, job'[w].approval = "APPROVED"
      PROVE  SoundApproval(job[w], job[w].exec)' /\ job'[w] = job[w]
  BY <1>3, <1>4, <1>5 DEF DecidedInv
<1>6. \A w \in Workers : pc'[w] \in DecidedPcs => job'[w].approval \in SettledStatuses
  BY <1>3 DEF DecidedInv
<1> QED BY <1>1, <1>2, <1>5, <1>6 DEF DecidedInv

LEMMA DecidedStep ==
  ApprovalTypeOK /\ DecidedInv /\ [ApprovalNext]_apprVars => DecidedInv'
<1> SUFFICES ASSUME ApprovalTypeOK, DecidedInv, [ApprovalNext]_apprVars PROVE DecidedInv'
  OBVIOUS
<1> DEFINE Stays ==
      /\ evidence \subseteq evidence' /\ granted' = granted
      /\ \A u \in Workers : pc'[u] \in ResumePcs =>
           /\ pc[u] \in ResumePcs
           /\ job'[u] = job[u]
           /\ pc'[u] \in DecidedPcs => pc[u] \in DecidedPcs
<1>q. ASSUME Stays PROVE DecidedInv'
  BY <1>q, DecisionsStay
<1> HIDE DEF Stays
<1> USE DEF ResumePcs, DecidedPcs, HoldingPcs, ApprovalTypeOK
<1>1. ASSUME NEW w \in Workers, NEW e \in Executions, NEW i \in Intents, StartRun(w, e, i)
      PROVE  Stays
  BY <1>1 DEF StartRun, Stays
<1>2. ASSUME NEW w \in Workers, Save(w) PROVE Stays
  BY <1>2 DEF Save, Stays, GoTo, Return
<1>3. ASSUME NEW w \in Workers, SaveReplace(w) PROVE Stays
  BY <1>3 DEF SaveReplace, Stays, GoTo
<1>4. ASSUME NEW w \in Workers, Publish(w) PROVE Stays
  BY <1>4 DEF Publish, Stays, GoTo, Return
<1>5. ASSUME NEW w \in Workers, PublishReplace(w) PROVE Stays
  BY <1>5 DEF PublishReplace, Stays, Return
<1>6. ASSUME NEW w \in Workers, WriteOnceFails(w) PROVE Stays
  BY <1>6 DEF WriteOnceFails, Stays, Return
<1>7. ASSUME NEW e \in Executions, NEW d \in Decisions, Decide(e, d) PROVE Stays
  BY <1>7 DEF Decide, Stays
<1>8. ASSUME NEW w \in Workers, NEW e \in Executions, NEW v \in Presentable, NEW i \in Intents,
             BeginResume(w, e, v, i)
      PROVE  DecidedInv'
  <2>1. v.genuine => v \in evidence
    BY PresentableIssued
  <2>2. /\ evidence' = evidence /\ granted' = granted /\ pc'[w] \in {"idle", "claim"}
        /\ pc'[w] = "claim" => job'[w].evidence = v
        /\ \A u \in Workers \ {w} : pc'[u] = pc[u] /\ job'[u] = job[u]
    BY <1>8 DEF BeginResume, Return
  <2>3. ApprovedAsDecided'
    BY <2>2 DEF DecidedInv, ApprovedAsDecided
  <2>4. \A u \in Workers : pc'[u] \in ResumePcs =>
          (job'[u].evidence.genuine => job'[u].evidence \in evidence')
    BY <2>1, <2>2 DEF DecidedInv
  <2>5. \A u \in Workers : pc'[u] \in DecidedPcs =>
          /\ job'[u].approval \in SettledStatuses /\ u # w
          /\ job'[u].approval = "APPROVED" => SoundApproval(job[u], job[u].exec)'
    BY <2>2 DEF DecidedInv, SoundApproval
  <2> QED BY <2>2, <2>3, <2>4, <2>5 DEF DecidedInv
<1>9. ASSUME NEW w \in Workers, CreateClaim(w) PROVE Stays
  BY <1>9 DEF CreateClaim, Stays, GoTo, Return
<1>10. ASSUME NEW w \in Workers, RestoreFails(w) PROVE Stays
  BY <1>10 DEF RestoreFails, Stays, GoTo
<1>11. ASSUME NEW w \in Workers, Validate(w) PROVE DecidedInv'
  <2>1. CASE ResumeVerdict(job[w]).validation \in ReleasingValidations
    <3>1. Stays
      BY <1>11, <2>1 DEF Validate, Stays, GoTo
    <3> QED BY <3>1, <1>q
  <2>2. CASE ResumeVerdict(job[w]).validation \notin ReleasingValidations
    <3> DEFINE j == job[w]
               k == [j EXCEPT !.approval = ResumeVerdict(j).status]
    <3>1. j \in ResumeJobs /\ (j.evidence.genuine => j.evidence \in evidence)
      BY <1>11 DEF Validate, DecidedInv
    <3>2. /\ pc' = [pc EXCEPT ![w] = "consume"] /\ job' = [job EXCEPT ![w] = k]
          /\ UNCHANGED <<evidence, granted>>
      BY <1>11, <2>2 DEF Validate
    <3>3. /\ k.evidence = j.evidence /\ k.exec = j.exec /\ k.bound = j.bound
          /\ k.intent = j.intent /\ k.at = j.at /\ k.approval = ResumeVerdict(j).status
      BY <3>1 DEF ResumeJobs
    <3>4. ASSUME k.approval = "APPROVED" PROVE SoundApproval(k, k.exec)
      BY <2>2, <3>1, <3>3, <3>4, ApprovedVerdict DEF SoundApproval
    <3> HIDE DEF j, k
    <3>5. job'[w] = k /\ \A u \in Workers \ {w} : pc'[u] = pc[u] /\ job'[u] = job[u]
      BY <3>2
    <3>6. ApprovedAsDecided'
      BY <3>2 DEF DecidedInv, ApprovedAsDecided
    <3>7. \A u \in Workers : pc'[u] \in ResumePcs =>
            (job'[u].evidence.genuine => job'[u].evidence \in evidence')
      BY <3>1, <3>2, <3>3, <3>5 DEF DecidedInv
    <3>8. \A u \in Workers : pc'[u] \in DecidedPcs =>
            (job'[u].approval = "APPROVED" => SoundApproval(job[u], job[u].exec)')
      BY <3>2, <3>4, <3>5 DEF DecidedInv, SoundApproval
    <3>9. k.approval \in SettledStatuses
      BY <2>2, <3>3, SettledVerdict DEF j, SettledStatuses
    <3>10. \A u \in Workers : pc'[u] \in DecidedPcs => job'[u].approval \in SettledStatuses
      BY <3>2, <3>5, <3>9 DEF DecidedInv
    <3> QED BY <3>6, <3>7, <3>8, <3>10 DEF DecidedInv
  <2> QED BY <2>1, <2>2
<1>12. ASSUME NEW w \in Workers, Release(w) PROVE Stays
  BY <1>12 DEF Release, Stays, Return
<1>13. ASSUME NEW w \in Workers, Consume(w) PROVE Stays
  BY <1>13 DEF Consume, Stays, Return, GoTo
<1>14. ASSUME NEW w \in Workers, Unclaim(w) PROVE DecidedInv'
  <2>1. /\ evidence' = evidence /\ pc'[w] = "idle" /\ pc[w] = "unclaim"
        /\ granted' = [granted EXCEPT ![job[w].exec] = Append(@, job[w])]
        /\ \A u \in Workers \ {w} : pc'[u] = pc[u] /\ job'[u] = job[u]
    BY <1>14 DEF Unclaim, Return
  <2>2. job[w].approval = "APPROVED" => SoundApproval(job[w], job[w].exec)
    BY <2>1 DEF DecidedInv
  <2>3. ASSUME NEW e \in Executions, NEW k \in DOMAIN granted'[e],
               granted'[e][k].approval = "APPROVED"
        PROVE  SoundApproval(granted'[e][k], e)
    <3>1. granted[e] \in Seq(ResumeJobs) /\ job[w] \in ResumeJobs
      BY <2>1
    <3>2. CASE k \in DOMAIN granted[e] /\ granted'[e][k] = granted[e][k]
      BY <2>3, <3>2 DEF DecidedInv, ApprovedAsDecided, SoundApproval
    <3>3. CASE e = job[w].exec /\ granted'[e][k] = job[w]
      BY <2>2, <2>3, <3>3
    <3> QED BY <2>1, <3>1, <3>2, <3>3
  <2>4. ApprovedAsDecided'
    BY <2>1, <2>3 DEF ApprovedAsDecided, SoundApproval
  <2>5. \A u \in Workers : pc'[u] \in ResumePcs =>
          (job'[u].evidence.genuine => job'[u].evidence \in evidence')
    BY <2>1 DEF DecidedInv
  <2>6. \A u \in Workers : pc'[u] \in DecidedPcs =>
          /\ job'[u].approval \in SettledStatuses
          /\ job'[u].approval = "APPROVED" => SoundApproval(job[u], job[u].exec)'
    BY <2>1 DEF DecidedInv, SoundApproval
  <2> QED BY <2>4, <2>5, <2>6 DEF DecidedInv
<1>15. ASSUME NEW w \in Workers, Crash(w) PROVE Stays
  BY <1>15 DEF Crash, Stays, Return
<1>16. CASE Tick /\ UNCHANGED approvalVars
  BY <1>16, <1>q DEF Stays, approvalVars
<1>17. CASE UNCHANGED apprVars
  BY <1>17, <1>q DEF Stays, apprVars, approvalVars
<1> QED
  BY <1>q, <1>1, <1>2, <1>3, <1>4, <1>5, <1>6, <1>7, <1>8, <1>9, <1>10, <1>11, <1>12, <1>13,
     <1>14, <1>15, <1>16, <1>17 DEF ApprovalNext, WorkerStep, WorkerCall

LEMMA DecidedInvariant == ApprovalSpec => []DecidedInv
<1>1. ApprovalInit => DecidedInv
  BY DEF ApprovalInit, DecidedInv, ApprovedAsDecided, ResumePcs, DecidedPcs, HoldingPcs
<1>2. ApprovalTypeOK /\ DecidedInv /\ [ApprovalNext]_apprVars => DecidedInv'
  BY DecidedStep
<1> QED BY <1>1, <1>2, ApprovalTypeCorrect, PTL DEF ApprovalSpec, apprVars

(* A resume that comes back APPROVED rests on a verified, unexpired         *)
(* approval of this very execution for the intent that it would write       *)
(* (ApprovalEvidenceValidator, _validate_current_identity), whatever other  *)
(* processes did between the steps of the call.                             *)
THEOREM ApprovedOnlyAsDecided == ApprovalSpec => []ApprovedAsDecided
BY DecidedInvariant, PTL DEF DecidedInv

----------------------------------------------------------------------------
(* The checkpoint is durable before the request is visible                  *)

SavedInv ==
  /\ SavedBeforePublished
  /\ \A w \in Workers : pc[w] \in {"publish", "publishReplace"} =>
       checkpoint[job[w].exec] # None

(* A checkpoint file is replaced but never removed, so a step that lets     *)
(* nobody begin to publish and publishes nothing keeps the invariant.       *)
LEMMA SavedStays ==
  ASSUME SavedInv, request' = request,
         \A e \in Executions : checkpoint[e] # None => checkpoint'[e] # None,
         \A u \in Workers : pc'[u] \in {"publish", "publishReplace"} =>
           /\ pc[u] \in {"publish", "publishReplace"}
           /\ job'[u] = job[u] /\ job[u].exec \in Executions
  PROVE  SavedInv'
BY DEF SavedInv, SavedBeforePublished

LEMMA SavedStep ==
  ApprovalTypeOK /\ SavedInv /\ [ApprovalNext]_apprVars => SavedInv'
<1> SUFFICES ASSUME ApprovalTypeOK, SavedInv, [ApprovalNext]_apprVars PROVE SavedInv'
  OBVIOUS
<1> DEFINE Stays ==
      /\ request' = request
      /\ \A e \in Executions : checkpoint[e] # None => checkpoint'[e] # None
      /\ \A u \in Workers : pc'[u] \in {"publish", "publishReplace"} =>
           /\ pc[u] \in {"publish", "publishReplace"}
           /\ job'[u] = job[u] /\ job[u].exec \in Executions
<1>q. ASSUME Stays PROVE SavedInv'
  BY <1>q, SavedStays
<1> HIDE DEF Stays
<1>t. \A u \in Workers : pc[u] \in StartPcs =>
        job[u].exec \in Executions /\ job[u].intent \in Intents /\ job[u].intent # None
  BY BaseAssumption DEF ApprovalTypeOK, StartJobs
<1> USE <1>t DEF ApprovalTypeOK, StartPcs
<1>1. ASSUME NEW w \in Workers, NEW e \in Executions, NEW i \in Intents, StartRun(w, e, i)
      PROVE  Stays
  BY <1>1 DEF StartRun, Stays, files
<1>2. ASSUME NEW w \in Workers, Save(w) PROVE SavedInv'
  BY <1>2 DEF Save, SavedInv, SavedBeforePublished, GoTo, Return, files
<1>3. ASSUME NEW w \in Workers, SaveReplace(w) PROVE SavedInv'
  BY <1>3 DEF SaveReplace, SavedInv, SavedBeforePublished, GoTo
<1>4. ASSUME NEW w \in Workers, Publish(w) PROVE Stays
  BY <1>4 DEF Publish, Stays, GoTo, Return, files
<1>5. ASSUME NEW w \in Workers, PublishReplace(w) PROVE SavedInv'
  BY <1>5 DEF PublishReplace, SavedInv, SavedBeforePublished, Return
<1>6. ASSUME NEW w \in Workers, WriteOnceFails(w) PROVE Stays
  BY <1>6 DEF WriteOnceFails, Stays, Return, files
<1>7. ASSUME NEW e \in Executions, NEW d \in Decisions, Decide(e, d) PROVE Stays
  BY <1>7 DEF Decide, Stays, files
<1>8. ASSUME NEW w \in Workers, NEW e \in Executions, NEW v \in Presentable, NEW i \in Intents,
             BeginResume(w, e, v, i)
      PROVE  Stays
  <2>1. /\ UNCHANGED files /\ pc'[w] \in {"idle", "claim"}
        /\ \A u \in Workers \ {w} : pc'[u] = pc[u] /\ job'[u] = job[u]
    BY <1>8 DEF BeginResume, Return
  <2> QED BY <2>1 DEF Stays, files
<1>9. ASSUME NEW w \in Workers, CreateClaim(w) PROVE Stays
  BY <1>9 DEF CreateClaim, Stays, GoTo, Return
<1>10. ASSUME NEW w \in Workers, RestoreFails(w) PROVE Stays
  BY <1>10 DEF RestoreFails, Stays, GoTo, files
<1>11. ASSUME NEW w \in Workers, Validate(w) PROVE Stays
  <2>1. /\ UNCHANGED files /\ pc'[w] \in {"release", "consume"}
        /\ \A u \in Workers \ {w} : pc'[u] = pc[u] /\ job'[u] = job[u]
    BY <1>11 DEF Validate, GoTo
  <2> QED BY <2>1 DEF Stays, files
<1>12. ASSUME NEW w \in Workers, Release(w) PROVE Stays
  BY <1>12 DEF Release, Stays, Return
<1>13. ASSUME NEW w \in Workers, Consume(w) PROVE Stays
  BY <1>13 DEF Consume, Stays, Return, GoTo
<1>14. ASSUME NEW w \in Workers, Unclaim(w) PROVE Stays
  BY <1>14 DEF Unclaim, Stays, Return
<1>15. ASSUME NEW w \in Workers, Crash(w) PROVE Stays
  BY <1>15 DEF Crash, Stays, Return, files
<1>16. CASE Tick /\ UNCHANGED approvalVars
  BY <1>16, <1>q DEF Stays, approvalVars
<1>17. CASE UNCHANGED apprVars
  BY <1>17, <1>q DEF Stays, apprVars, approvalVars
<1> QED
  BY <1>q, <1>1, <1>2, <1>3, <1>4, <1>5, <1>6, <1>7, <1>8, <1>9, <1>10, <1>11, <1>12, <1>13,
     <1>14, <1>15, <1>16, <1>17 DEF ApprovalNext, WorkerStep, WorkerCall

(* An approver never sees a request whose checkpoint is not durable, even   *)
(* when the run dies between the two files or another run overwrites them   *)
(* (ApprovalSuspensionCoordinator.suspend, _write_once).                    *)
THEOREM SavedFirst == ApprovalSpec => []SavedBeforePublished
<1>1. ApprovalInit => SavedInv
  BY DEF ApprovalInit, SavedInv, SavedBeforePublished
<1>2. ApprovalTypeOK /\ SavedInv /\ [ApprovalNext]_apprVars => SavedInv'
  BY SavedStep
<1>3. SavedInv => SavedBeforePublished
  BY DEF SavedInv
<1> QED BY <1>1, <1>2, <1>3, ApprovalTypeCorrect, PTL DEF ApprovalSpec, apprVars

----------------------------------------------------------------------------
(* No claim is left behind                                                  *)

LEMMA NoLeakStep ==
  ApprovalTypeOK /\ NoLeakedClaim /\ [ApprovalNext]_apprVars => NoLeakedClaim'
<1> SUFFICES ASSUME ApprovalTypeOK, NoLeakedClaim, [ApprovalNext]_apprVars,
                    crashes' = 0, NEW x \in Executions, claim'[x] # None, consumed'[x] = None
             PROVE  \E u \in Workers : Holds(u)' /\ job'[u].exec = x
  BY DEF NoLeakedClaim
<1> DEFINE Covered == \E u \in Workers : Holds(u)' /\ job'[u].exec = x
           Kept == /\ crashes = 0 /\ claim[x] # None /\ consumed[x] = None
                   /\ \A u \in Workers : Holds(u) /\ job[u].exec = x =>
                        pc'[u] \in HoldingPcs /\ job'[u].exec = x
<1>q. ASSUME Kept PROVE Covered
  BY <1>q DEF NoLeakedClaim, Holds
<1> HIDE DEF Kept, Covered
<1> USE DEF ApprovalTypeOK, Holds, HoldingPcs
<1>1. ASSUME NEW w \in Workers, NEW e \in Executions, NEW i \in Intents, StartRun(w, e, i)
      PROVE  Kept
  BY <1>1 DEF StartRun, Kept, files
<1>2. ASSUME NEW w \in Workers, Save(w) PROVE Kept
  BY <1>2 DEF Save, Kept, GoTo, Return, files
<1>3. ASSUME NEW w \in Workers, SaveReplace(w) PROVE Kept
  BY <1>3 DEF SaveReplace, Kept, GoTo
<1>4. ASSUME NEW w \in Workers, Publish(w) PROVE Kept
  BY <1>4 DEF Publish, Kept, GoTo, Return, files
<1>5. ASSUME NEW w \in Workers, PublishReplace(w) PROVE Kept
  BY <1>5 DEF PublishReplace, Kept, Return
<1>6. ASSUME NEW w \in Workers, WriteOnceFails(w) PROVE Kept
  BY <1>6 DEF WriteOnceFails, Kept, Return, files
<1>7. ASSUME NEW e \in Executions, NEW d \in Decisions, Decide(e, d) PROVE Kept
  BY <1>7 DEF Decide, Kept, files
<1>8. ASSUME NEW w \in Workers, NEW e \in Executions, NEW v \in Presentable, NEW i \in Intents,
             BeginResume(w, e, v, i)
      PROVE  Kept
  <2>1. /\ UNCHANGED <<files, crashes>> /\ pc[w] = "idle"
        /\ \A u \in Workers \ {w} : pc'[u] = pc[u] /\ job'[u] = job[u]
    BY <1>8 DEF BeginResume, Return
  <2> QED BY <2>1 DEF Kept, files
<1>9. ASSUME NEW w \in Workers, CreateClaim(w) PROVE Covered
  <2>1. CASE claim[job[w].exec] # None
    <3>1. Kept
      BY <1>9, <2>1 DEF CreateClaim, Kept, Return
    <3> QED BY <3>1, <1>q
  <2>2. CASE claim[job[w].exec] = None
    <3>1. /\ pc[w] = "claim" /\ pc' = [pc EXCEPT ![w] = "validate"] /\ job' = job
          /\ claim' = [claim EXCEPT ![job[w].exec] = ClaimIdOf[w]]
          /\ UNCHANGED <<consumed, crashes>>
      BY <1>9, <2>2 DEF CreateClaim, GoTo
    <3>2. CASE x = job[w].exec
      BY <3>1, <3>2 DEF Covered
    <3>3. CASE x # job[w].exec
      <4>1. Kept
        BY <3>1, <3>3 DEF Kept
      <4> QED BY <4>1, <1>q
    <3> QED BY <3>2, <3>3
  <2> QED BY <2>1, <2>2
<1>10. ASSUME NEW w \in Workers, RestoreFails(w) PROVE Kept
  BY <1>10 DEF RestoreFails, Kept, GoTo, files
<1>11. ASSUME NEW w \in Workers, Validate(w) PROVE Kept
  <2>1. /\ UNCHANGED <<files, crashes>> /\ pc'[w] \in {"release", "consume"}
        /\ job'[w].exec = job[w].exec
        /\ \A u \in Workers \ {w} : pc'[u] = pc[u] /\ job'[u] = job[u]
    BY <1>11 DEF Validate, GoTo, ResumeJobs
  <2> QED BY <2>1 DEF Kept, files
<1>12. ASSUME NEW w \in Workers, Release(w) PROVE Kept
  BY <1>12 DEF Release, Kept, Return
<1>13. ASSUME NEW w \in Workers, Consume(w) PROVE Kept
  BY <1>13, ResumeAssumption DEF Consume, Kept, Return, GoTo
<1>14. ASSUME NEW w \in Workers, Unclaim(w) PROVE Kept
  BY <1>14 DEF Unclaim, Kept, Return
<1>15. ASSUME NEW w \in Workers, Crash(w) PROVE FALSE
  BY <1>15 DEF Crash
<1>16. ASSUME Tick /\ UNCHANGED approvalVars PROVE Kept
  BY <1>16 DEF Kept, approvalVars
<1>17. ASSUME UNCHANGED apprVars PROVE Kept
  BY <1>17 DEF Kept, apprVars, approvalVars
<1>18. Covered
  BY <1>q, <1>1, <1>2, <1>3, <1>4, <1>5, <1>6, <1>7, <1>8, <1>9, <1>10, <1>11, <1>12, <1>13,
     <1>14, <1>15, <1>16, <1>17 DEF ApprovalNext, WorkerStep, WorkerCall
<1> QED BY <1>18 DEF Covered

(* As long as no process dies, a claim file on a checkpoint that can still  *)
(* be resumed belongs to a call under way: every path of                    *)
(* ApprovalResumeCoordinator.resume releases or consumes what it claimed.   *)
THEOREM NoClaimLeaks == ApprovalSpec => []NoLeakedClaim
<1>1. ApprovalInit => NoLeakedClaim
  BY DEF ApprovalInit, NoLeakedClaim
<1>2. ApprovalTypeOK /\ NoLeakedClaim /\ [ApprovalNext]_apprVars => NoLeakedClaim'
  BY NoLeakStep
<1> QED BY <1>1, <1>2, ApprovalTypeCorrect, PTL DEF ApprovalSpec, apprVars

----------------------------------------------------------------------------
(* The files implement the abstract lease                                   *)
(*                                                                          *)
(* The holder of a lease is the call that holds the claim file, which is    *)
(* unique by ExclusiveClaim.  A call gives back only a checkpoint that it   *)
(* has not spent itself, and is served only for one that it has: the marker *)
(* names the call that created it.                                          *)

OwnMarker ==
  \A w \in Workers :
    /\ pc[w] \in {"claim", "validate", "release", "consume"} => consumed[job[w].exec] # w
    /\ pc[w] = "unclaim" => consumed[job[w].exec] = w

LEMMA MarkerStep ==
  ApprovalTypeOK /\ OwnMarker /\ [ApprovalNext]_apprVars => OwnMarker'
<1> SUFFICES ASSUME ApprovalTypeOK, OwnMarker, [ApprovalNext]_apprVars PROVE OwnMarker'
  OBVIOUS
<1> USE DEF OwnMarker, ApprovalTypeOK, HoldingPcs, StartPcs
<1>1. ASSUME NEW w \in Workers, NEW e \in Executions, NEW i \in Intents, StartRun(w, e, i)
      PROVE  OwnMarker'
  BY <1>1 DEF StartRun, files
<1>2. ASSUME NEW w \in Workers, Save(w) PROVE OwnMarker'
  BY <1>2 DEF Save, GoTo, Return, files
<1>3. ASSUME NEW w \in Workers, SaveReplace(w) PROVE OwnMarker'
  BY <1>3 DEF SaveReplace, GoTo
<1>4. ASSUME NEW w \in Workers, Publish(w) PROVE OwnMarker'
  BY <1>4 DEF Publish, GoTo, Return, files
<1>5. ASSUME NEW w \in Workers, PublishReplace(w) PROVE OwnMarker'
  BY <1>5 DEF PublishReplace, Return
<1>6. ASSUME NEW w \in Workers, WriteOnceFails(w) PROVE OwnMarker'
  BY <1>6 DEF WriteOnceFails, Return, files
<1>7. ASSUME NEW e \in Executions, NEW d \in Decisions, Decide(e, d) PROVE OwnMarker'
  BY <1>7 DEF Decide, files
<1>8. ASSUME NEW w \in Workers, NEW e \in Executions, NEW v \in Presentable, NEW i \in Intents,
             BeginResume(w, e, v, i)
      PROVE  OwnMarker'
  <2>1. /\ consumed' = consumed
        /\ \/ pc'[w] = "idle"
           \/ pc'[w] = "claim" /\ job'[w].exec = e /\ consumed[e] = None
        /\ \A u \in Workers \ {w} : pc'[u] = pc[u] /\ job'[u] = job[u]
    BY <1>8 DEF BeginResume, Return, files
  <2> QED BY <2>1, ResumeAssumption
<1>9. ASSUME NEW w \in Workers, CreateClaim(w) PROVE OwnMarker'
  BY <1>9 DEF CreateClaim, GoTo, Return
<1>10. ASSUME NEW w \in Workers, RestoreFails(w) PROVE OwnMarker'
  BY <1>10 DEF RestoreFails, GoTo, files
<1>11. ASSUME NEW w \in Workers, Validate(w) PROVE OwnMarker'
  <2>1. /\ consumed' = consumed /\ pc[w] = "validate"
        /\ pc'[w] \in {"release", "consume"} /\ job'[w].exec = job[w].exec
        /\ \A u \in Workers \ {w} : pc'[u] = pc[u] /\ job'[u] = job[u]
    BY <1>11 DEF Validate, GoTo, files, ResumeJobs
  <2> QED BY <2>1
<1>12. ASSUME NEW w \in Workers, Release(w) PROVE OwnMarker'
  BY <1>12 DEF Release, Return
<1>13. ASSUME NEW w \in Workers, Consume(w) PROVE OwnMarker'
  <2>1. CASE consumed[job[w].exec] # None
    BY <1>13, <2>1 DEF Consume, Return
  <2>2. CASE consumed[job[w].exec] = None
    <3>1. /\ pc[w] = "consume" /\ pc' = [pc EXCEPT ![w] = "unclaim"] /\ job' = job
          /\ consumed' = [consumed EXCEPT ![job[w].exec] = w]
          /\ job[w].exec \in Executions
      BY <1>13, <2>2 DEF Consume, GoTo, ResumeJobs
    <3> QED BY <2>2, <3>1, ResumeAssumption
  <2> QED BY <2>1, <2>2
<1>14. ASSUME NEW w \in Workers, Unclaim(w) PROVE OwnMarker'
  BY <1>14 DEF Unclaim, Return
<1>15. ASSUME NEW w \in Workers, Crash(w) PROVE OwnMarker'
  BY <1>15 DEF Crash, Return, files
<1>16. CASE Tick /\ UNCHANGED approvalVars
  BY <1>16 DEF approvalVars
<1>17. CASE UNCHANGED apprVars
  BY <1>17 DEF apprVars, approvalVars
<1> QED
  BY <1>1, <1>2, <1>3, <1>4, <1>5, <1>6, <1>7, <1>8, <1>9, <1>10, <1>11, <1>12, <1>13,
     <1>14, <1>15, <1>16, <1>17 DEF ApprovalNext, WorkerStep, WorkerCall

(* HolderOf, given that the claim is exclusive. *)
LEMMA HolderIs ==
  ASSUME ExclusiveClaim, NEW w \in Workers, Holds(w)
  PROVE  HolderOf(job[w].exec) = w
<1>1. \A u \in Workers : Holds(u) /\ job[u].exec = job[w].exec <=> u = w
  BY DEF ExclusiveClaim
<1> QED BY <1>1 DEF HolderOf

LEMMA NoHolder ==
  ASSUME NEW e, \A w \in Workers : ~(Holds(w) /\ job[w].exec = e)
  PROVE  HolderOf(e) = IF claim[e] = None THEN None ELSE Orphan
BY DEF HolderOf

(* A call that neither begins nor ceases to hold a claim changes no holder. *)
LEMMA SameHolder ==
  ASSUME ExclusiveClaim, ExclusiveClaim', NEW e \in Executions, claim'[e] = claim[e],
         \A u \in Workers : Holds(u)' /\ job'[u].exec = e <=> Holds(u) /\ job[u].exec = e
  PROVE  HolderOf(e)' = HolderOf(e)
<1>1. CASE \E u \in Workers : Holds(u) /\ job[u].exec = e
  <2>1. PICK u \in Workers : Holds(u) /\ job[u].exec = e
    BY <1>1
  <2>2. HolderOf(e) = u
    BY <2>1, HolderIs
  <2>3. \A v \in Workers : Holds(v)' /\ job'[v].exec = e <=> v = u
    BY <2>1 DEF ExclusiveClaim
  <2>4. HolderOf(e)' = u
    BY <2>3 DEF HolderOf
  <2> QED BY <2>2, <2>4
<1>2. CASE ~\E u \in Workers : Holds(u) /\ job[u].exec = e
  <2>1. HolderOf(e) = IF claim[e] = None THEN None ELSE Orphan
    BY <1>2, NoHolder
  <2>2. HolderOf(e)' = IF claim[e] = None THEN None ELSE Orphan
    BY <1>2 DEF HolderOf, Orphan
  <2> QED BY <2>1, <2>2
<1> QED BY <1>1, <1>2

(* A step that changes no claim, no marker and no holder is a stutter. *)
LEMMA LeaseStutter ==
  ASSUME ExclusiveClaim, ExclusiveClaim', UNCHANGED <<claim, consumed, granted>>,
         \A u \in Workers : Holds(u)' <=> Holds(u),
         \A u \in Workers : Holds(u) => job'[u].exec = job[u].exec
  PROVE  UNCHANGED Lease!leaseVars
<1>1. \A e \in Executions : HolderOf(e)' = HolderOf(e)
  BY SameHolder
<1> QED BY <1>1 DEF Lease!leaseVars

(* The holder of e changes and no other: how a step of w at its own         *)
(* execution looks to the lease.                                            *)
LEMMA LeaseMove ==
  ASSUME ApprovalTypeOK, ExclusiveClaim, ExclusiveClaim', NEW w \in Workers, NEW e \in Executions,
         Holds(w) \/ Holds(w)' ,
         Holds(w) => job[w].exec = e, Holds(w)' => job'[w].exec = e,
         \A x \in Executions \ {e} : claim'[x] = claim[x],
         \A u \in Workers \ {w} : pc'[u] = pc[u] /\ job'[u] = job[u]
  PROVE  /\ \A x \in Executions \ {e} : HolderOf(x)' = HolderOf(x)
         /\ \A u \in Workers \ {w} :
              ~(Holds(u) /\ job[u].exec = e) /\ ~(Holds(u)' /\ job'[u].exec = e)
<1>1. ASSUME NEW u \in Workers \ {w}
      PROVE  ~(Holds(u) /\ job[u].exec = e) /\ ~(Holds(u)' /\ job'[u].exec = e)
  BY DEF ExclusiveClaim, Holds
<1>2. ASSUME NEW x \in Executions \ {e} PROVE HolderOf(x)' = HolderOf(x)
  <2>1. \A u \in Workers : Holds(u)' /\ job'[u].exec = x <=> Holds(u) /\ job[u].exec = x
    BY DEF Holds
  <2> QED BY <2>1, SameHolder
<1> QED BY <1>1, <1>2

LEMMA LeaseSimulation ==
  ASSUME ApprovalTypeOK, LeaseInv, LeaseInv', OwnMarker, [ApprovalNext]_apprVars
  PROVE  [Lease!LeaseNext]_(Lease!leaseVars)
<1> DEFINE Goal == [Lease!LeaseNext]_(Lease!leaseVars)
           Quiet == /\ UNCHANGED <<claim, consumed, granted>>
                    /\ \A u \in Workers : Holds(u)' <=> Holds(u)
                    /\ \A u \in Workers : Holds(u) => job'[u].exec = job[u].exec
           AllHold == [e \in Executions |-> HolderOf(e)]
           Served == [e \in Executions |-> Len(granted[e])]
<1>x. ExclusiveClaim /\ ExclusiveClaim'
  BY DEF LeaseInv
<1>q. ASSUME Quiet PROVE Goal
  BY <1>q, <1>x, LeaseStutter
<1> HIDE DEF Goal, Quiet
<1> USE DEF ApprovalTypeOK, StartPcs, HoldingPcs, Holds
<1>1. ASSUME NEW w \in Workers, NEW e \in Executions, NEW i \in Intents, StartRun(w, e, i)
      PROVE  Quiet
  BY <1>1 DEF StartRun, Quiet, files
<1>2. ASSUME NEW w \in Workers, Save(w) PROVE Quiet
  BY <1>2 DEF Save, Quiet, GoTo, Return, files
<1>3. ASSUME NEW w \in Workers, SaveReplace(w) PROVE Quiet
  BY <1>3 DEF SaveReplace, Quiet, GoTo
<1>4. ASSUME NEW w \in Workers, Publish(w) PROVE Quiet
  BY <1>4 DEF Publish, Quiet, GoTo, Return, files
<1>5. ASSUME NEW w \in Workers, PublishReplace(w) PROVE Quiet
  BY <1>5 DEF PublishReplace, Quiet, Return
<1>6. ASSUME NEW w \in Workers, WriteOnceFails(w) PROVE Quiet
  BY <1>6 DEF WriteOnceFails, Quiet, Return, files
<1>7. ASSUME NEW e \in Executions, NEW d \in Decisions, Decide(e, d) PROVE Quiet
  BY <1>7 DEF Decide, Quiet, files
<1>8. ASSUME NEW w \in Workers, NEW e \in Executions, NEW v \in Presentable, NEW i \in Intents,
             BeginResume(w, e, v, i)
      PROVE  Quiet
  <2>1. UNCHANGED <<claim, consumed, granted>> /\ pc[w] = "idle" /\ pc'[w] \in {"idle", "claim"}
    BY <1>8 DEF BeginResume, Return, files
  <2>2. \A u \in Workers \ {w} : pc'[u] = pc[u] /\ job'[u] = job[u]
    BY <1>8 DEF BeginResume, Return
  <2> QED BY <2>1, <2>2 DEF Quiet
<1>9. ASSUME NEW w \in Workers, CreateClaim(w) PROVE Goal
  <2>1. CASE claim[job[w].exec] # None
    <3>1. Quiet
      BY <1>9, <2>1 DEF CreateClaim, Quiet, Return
    <3> QED BY <3>1, <1>q
  <2>2. CASE claim[job[w].exec] = None
    <3>0. PICK e \in Executions : e = job[w].exec
      BY <1>9 DEF CreateClaim, ResumeJobs
    <3>1. /\ pc[w] = "claim" /\ pc' = [pc EXCEPT ![w] = "validate"] /\ job' = job
          /\ claim' = [claim EXCEPT ![e] = ClaimIdOf[w]]
          /\ UNCHANGED <<consumed, granted>>
      BY <1>9, <2>2, <3>0 DEF CreateClaim, GoTo
    <3>2. Holds(w)' /\ job'[w].exec = e /\ ~Holds(w)
      BY <3>0, <3>1
    <3>3. /\ \A x \in Executions \ {e} : HolderOf(x)' = HolderOf(x)
          /\ \A u \in Workers \ {w} :
               ~(Holds(u) /\ job[u].exec = e) /\ ~(Holds(u)' /\ job'[u].exec = e)
      BY <3>1, <3>2, <1>x, LeaseMove
    <3>4. HolderOf(e)' = w
      <4>1. \A u \in Workers : Holds(u)' /\ job'[u].exec = e <=> u = w
        BY <3>2, <3>3
      <4> QED BY <4>1 DEF HolderOf
    <3>5. HolderOf(e) = None
      BY <3>0, <3>2, <3>3, <2>2, NoHolder
    <3>6. AllHold' = [AllHold EXCEPT ![e] = w]
      BY <3>1, <3>3, <3>4
    <3>7. Lease!Acquire(w, e)
      BY <3>1, <3>5, <3>6 DEF Lease!Acquire
    <3> QED BY <3>7 DEF Goal, Lease!LeaseNext
  <2> QED BY <2>1, <2>2
<1>10. ASSUME NEW w \in Workers, RestoreFails(w) PROVE Quiet
  BY <1>10 DEF RestoreFails, Quiet, GoTo, files
<1>11. ASSUME NEW w \in Workers, Validate(w) PROVE Quiet
  <2>1. /\ UNCHANGED <<claim, consumed, granted>>
        /\ pc[w] = "validate" /\ pc'[w] \in {"release", "consume"}
        /\ job'[w].exec = job[w].exec
    BY <1>11 DEF Validate, GoTo, files, ResumeJobs
  <2>2. \A u \in Workers \ {w} : pc'[u] = pc[u] /\ job'[u] = job[u]
    BY <1>11 DEF Validate, GoTo
  <2> QED BY <2>1, <2>2 DEF Quiet
<1>l. ASSUME NEW w \in Workers, NEW e \in Executions, Holds(w), job[w].exec = e,
             pc' = [pc EXCEPT ![w] = "idle"], job' = [job EXCEPT ![w] = None],
             \A x \in Executions \ {e} : claim'[x] = claim[x],
             claim'[e] \in {None, claim[e]}
      PROVE  /\ AllHold[e] = w
             /\ AllHold' = [AllHold EXCEPT ![e] = IF claim'[e] = None THEN None ELSE Orphan]
  <2>1. /\ \A x \in Executions \ {e} : HolderOf(x)' = HolderOf(x)
        /\ \A u \in Workers \ {w} : ~(Holds(u)' /\ job'[u].exec = e)
    BY <1>l, <1>x, LeaseMove
  <2>2. HolderOf(e) = w
    BY <1>l, <1>x, HolderIs
  <2>3. \A u \in Workers : ~(Holds(u)' /\ job'[u].exec = e)
    BY <1>l, <2>1
  <2>4. HolderOf(e)' = IF claim'[e] = None THEN None ELSE Orphan
    BY <2>3 DEF HolderOf, Orphan
  <2> QED BY <2>1, <2>2, <2>4
<1>12. ASSUME NEW w \in Workers, Release(w) PROVE Goal
  <2> DEFINE e == job[w].exec
  <2>1. /\ pc[w] = "release" /\ pc' = [pc EXCEPT ![w] = "idle"]
        /\ job' = [job EXCEPT ![w] = None]
        /\ claim' = [claim EXCEPT ![e] = None]
        /\ UNCHANGED <<consumed, granted>>
        /\ e \in Executions
    BY <1>12 DEF Release, Return, ResumeJobs
  <2>2. consumed[e] # w
    BY <2>1 DEF OwnMarker
  <2> HIDE DEF e
  <2>3. AllHold[e] = w /\ AllHold' = [AllHold EXCEPT ![e] = None]
    BY <2>1, <1>l DEF e
  <2>4. Lease!GiveBack(w, e)
    BY <2>1, <2>2, <2>3 DEF Lease!GiveBack
  <2> QED BY <2>1, <2>4 DEF Goal, Lease!LeaseNext
<1>13. ASSUME NEW w \in Workers, Consume(w) PROVE Goal
  <2> DEFINE e == job[w].exec
  <2>1. pc[w] = "consume" /\ UNCHANGED <<claim, granted>> /\ e \in Executions
    BY <1>13 DEF Consume, ResumeJobs
  <2>2. claim[e] # None
    BY <2>1, <1>x, ResumeAssumption DEF ExclusiveClaim
  <2>3. CASE consumed[e] # None
    <3>1. /\ pc' = [pc EXCEPT ![w] = "idle"] /\ job' = [job EXCEPT ![w] = None]
          /\ UNCHANGED consumed
      BY <1>13, <2>3 DEF Consume, Return
    <3> HIDE DEF e
    <3>2. AllHold[e] = w /\ AllHold' = [AllHold EXCEPT ![e] = Orphan]
      BY <2>1, <2>2, <3>1, <1>l DEF e
    <3>3. Lease!Abandon(w, e)
      BY <2>1, <3>1, <3>2 DEF Lease!Abandon
    <3> QED BY <2>1, <3>3 DEF Goal, Lease!LeaseNext
  <2>4. CASE consumed[e] = None
    <3>1. /\ pc' = [pc EXCEPT ![w] = "unclaim"] /\ job' = job
          /\ consumed' = [consumed EXCEPT ![e] = w]
      BY <1>13, <2>4 DEF Consume, GoTo
    <3>2. \A x \in Executions : HolderOf(x)' = HolderOf(x)
      BY <2>1, <3>1, <1>x, SameHolder
    <3> HIDE DEF e
    <3>3. HolderOf(e) = w
      BY <2>1, <1>x, HolderIs DEF e
    <3>4. Lease!Spend(w, e)
      BY <2>1, <2>4, <3>1, <3>2, <3>3 DEF Lease!Spend
    <3> QED BY <2>1, <3>4 DEF Goal, Lease!LeaseNext
  <2> QED BY <2>3, <2>4
<1>14. ASSUME NEW w \in Workers, Unclaim(w) PROVE Goal
  <2>0. PICK e \in Executions : e = job[w].exec
    BY <1>14 DEF Unclaim, ResumeJobs
  <2>1. /\ pc[w] = "unclaim" /\ pc' = [pc EXCEPT ![w] = "idle"]
        /\ job' = [job EXCEPT ![w] = None] /\ job[w] \in ResumeJobs
        /\ claim' = [claim EXCEPT ![e] = None]
        /\ granted' = [granted EXCEPT ![e] = Append(@, job[w])]
        /\ UNCHANGED consumed
    BY <1>14, <2>0 DEF Unclaim, Return
  <2>2. consumed[e] = w /\ granted[e] = << >>
    BY <2>0, <2>1 DEF OwnMarker, LeaseInv, SpentOnce
  <2>3. AllHold[e] = w /\ AllHold' = [AllHold EXCEPT ![e] = None]
    BY <2>0, <2>1, <1>l
  <2>4. Len(granted[e]) = 0 /\ Len(granted'[e]) = 1
    BY <2>1, <2>2
  <2>5. \A x \in Executions \ {e} : granted'[x] = granted[x]
    BY <2>1
  <2>6. Served[e] = 0 /\ Served' = [Served EXCEPT ![e] = 1]
    BY <2>4, <2>5
  <2>7. Lease!Serve(w, e)
    BY <2>1, <2>2, <2>3, <2>6 DEF Lease!Serve
  <2> QED BY <2>7 DEF Goal, Lease!LeaseNext
<1>15. ASSUME NEW w \in Workers, Crash(w) PROVE Goal
  <2>1. /\ pc' = [pc EXCEPT ![w] = "idle"] /\ job' = [job EXCEPT ![w] = None]
        /\ UNCHANGED <<claim, consumed, granted>>
    BY <1>15 DEF Crash, Return, files
  <2>2. CASE ~Holds(w)
    <3>1. Quiet
      BY <2>1, <2>2 DEF Quiet
    <3> QED BY <3>1, <1>q
  <2>3. CASE Holds(w)
    <3> DEFINE e == job[w].exec
    <3>1. e \in Executions /\ claim[e] # None
      BY <2>3, <1>x, ResumeAssumption DEF ExclusiveClaim, ResumeJobs
    <3> HIDE DEF e
    <3>2. AllHold[e] = w /\ AllHold' = [AllHold EXCEPT ![e] = Orphan]
      BY <2>1, <2>3, <3>1, <1>l DEF e
    <3>3. Lease!Abandon(w, e)
      BY <2>1, <3>1, <3>2 DEF Lease!Abandon
    <3> QED BY <3>1, <3>3 DEF Goal, Lease!LeaseNext
  <2> QED BY <2>2, <2>3
<1>16. ASSUME Tick /\ UNCHANGED approvalVars PROVE Quiet
  BY <1>16 DEF Quiet, approvalVars
<1>17. ASSUME UNCHANGED apprVars PROVE Quiet
  BY <1>17 DEF Quiet, apprVars, approvalVars
<1>18. Goal
  BY <1>q, <1>1, <1>2, <1>3, <1>4, <1>5, <1>6, <1>7, <1>8, <1>9, <1>10, <1>11, <1>12, <1>13,
     <1>14, <1>15, <1>16, <1>17 DEF ApprovalNext, WorkerStep, WorkerCall
<1> QED BY <1>18 DEF Goal

(* The exclusive creation and removal of claim and marker files implements  *)
(* the lease of SingleConsumer, step by step: a checkpoint is leased to one *)
(* caller at a time, spent once, and only the call that spent it is served  *)
(* (FileControlledStatePort, ApprovalResumeCoordinator.resume).             *)
THEOREM FilesImplementLease == ApprovalSpec => ImplementsLease
<1>1. ApprovalInit => Lease!LeaseInit
  BY DEF ApprovalInit, Lease!LeaseInit, HolderOf, Holds, HoldingPcs
<1>2. ApprovalInit => OwnMarker
  BY DEF ApprovalInit, OwnMarker
<1>3. ApprovalTypeOK /\ OwnMarker /\ [ApprovalNext]_apprVars => OwnMarker'
  BY MarkerStep
<1>4. ApprovalTypeOK /\ LeaseInv /\ LeaseInv' /\ OwnMarker /\ [ApprovalNext]_apprVars
        => [Lease!LeaseNext]_(Lease!leaseVars)
  BY LeaseSimulation
<1> QED
  BY <1>1, <1>2, <1>3, <1>4, ApprovalTypeCorrect, LeaseInvariant, PTL
     DEF ApprovalSpec, apprVars, ImplementsLease, Lease!LeaseSpec
=============================================================================
