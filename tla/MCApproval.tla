----------------------------- MODULE MCApproval -----------------------------
(* Small instances of ApprovalResume.  All executions belong to one         *)
(* business operation, so they share the idempotency key and, for one       *)
(* intent, the ApprovalRequestId; all workers use the default claim id.     *)
EXTENDS ApprovalResume, TLC

CONSTANTS Op

MCOperations == {Op}
MCOperationOf == [e \in Executions |-> Op]
MCClaimIdOf == [w \in Workers |-> "nsl-cli-resume-claim"]

Symmetry == Permutations(Workers)
=============================================================================
