--------------------------- MODULE ControlledWrite ---------------------------
(***************************************************************************)
(* A controlled WRITE from end to end: the resume of ApprovalResume hands   *)
(* the restored context over to the WRITE of WriteExecution.  The files and *)
(* workers of the one and the evidence stores and the provider of the other *)
(* share only the clock and this handover.                                  *)
(***************************************************************************)
EXTENDS ApprovalResume, WriteExecution

controlledVars == <<now, approvalVars, writeVars>>

ControlledInit == ApprovalInit /\ WriteInit

(* resume returns an outcome whose claim is consumed, and the host goes on  *)
(* with its context and with the intent that it froze before the call.      *)
HandOver(w) ==
  /\ Unclaim(w)
  /\ BeginWrite(job[w].exec, job[w].approval, job[w].intent)

(* Every other step belongs to one of the two components. *)
ApprovalSideStep(w) ==
  \/ Save(w) \/ SaveReplace(w) \/ Publish(w) \/ PublishReplace(w) \/ WriteOnceFails(w)
  \/ CreateClaim(w) \/ RestoreFails(w) \/ Validate(w) \/ Release(w) \/ Consume(w)
  \/ WorkerCall(w) \/ Crash(w)

ControlledNext ==
  \/ Tick /\ UNCHANGED <<approvalVars, writeVars>>
  \/ \E w \in Workers : HandOver(w)
  \/ \E w \in Workers : ApprovalSideStep(w) /\ UNCHANGED writeVars
  \/ \E e \in Executions, d \in Decisions : Decide(e, d) /\ UNCHANGED writeVars
  \/ WriteStep /\ UNCHANGED approvalVars

ControlledSpec == ControlledInit /\ [][ControlledNext]_controlledVars

----------------------------------------------------------------------------
(* Properties *)

(* No provider call without a person's decision: whatever reaches the       *)
(* provider for an execution was approved, in verified evidence, for that   *)
(* execution and for the payload that is sent, and the checkpoint it was    *)
(* resumed from is consumed.  And a resume that has consumed its checkpoint *)
(* finds an execution whose WRITE has not begun: the handover never starts  *)
(* a second one.                                                            *)
WriteImpliesDecision ==
  /\ \A e \in Executions : call[e] # "none" =>
       /\ consumed[e] # None
       /\ \E v \in evidence :
            v.genuine /\ v.decision = "APPROVED" /\ v.exec = e /\ v.intent = context[e].intent
  /\ \A w \in Workers : pc[w] = "unclaim" => stage[job[w].exec] = "none"

(* The resume path is an environment that WriteExecution allows: contexts   *)
(* arrive once per execution and with a decided approval status.            *)
ImplementsWrite == WriteSpec
=============================================================================
