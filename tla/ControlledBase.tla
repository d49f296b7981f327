--------------------------- MODULE ControlledBase ---------------------------
(***************************************************************************)
(* The identities and the clock that the components of a controlled WRITE   *)
(* share.                                                                   *)
(*                                                                          *)
(* An execution is one run of a Skill (execution_id).  It works for one     *)
(* business operation: OperationOf[e] stands for the triple                 *)
(* (tenant_id, business_operation_id, write_node_id) from which the         *)
(* idempotency key is hashed, so two executions of one operation share a    *)
(* key.  An intent stands for the frozen WRITE payload: for a fixed Skill   *)
(* write_intent_hash is a hash of payload_hash, so one value stands for     *)
(* both, and evidence that carries the two hashes carries two values.       *)
(***************************************************************************)
EXTENDS Naturals

CONSTANTS Executions, Operations, OperationOf, Intents,
          MaxTime,      \* the bound of the clock, for model checking
          None          \* absent: no file, no record, no expiry

ASSUME BaseAssumption ==
  /\ OperationOf \in [Executions -> Operations]
  /\ MaxTime \in Nat
  /\ None \notin Intents
  /\ None \notin Nat

VARIABLE now            \* the UTC instant an injected clock returns

Instants == 0 .. MaxTime

(* Time passes independently of every process. *)
Tick == now < MaxTime /\ now' = now + 1

(* IdempotencyKeyFactory.create: the key depends on the operation only,     *)
(* never on the execution, the payload or the attempt.                      *)
Key(e) == OperationOf[e]
Keys == Operations

(* The ApprovalRequestId of the command line: a hash of the operation and   *)
(* the write intent, without the execution id and without the expiry.       *)
ApprovalRequestId(e, i) == <<OperationOf[e], i>>

(* RD-005: evidence is expired from the instant of its expiry on; an absent *)
(* expiry never expires.                                                    *)
Expired(expires, t) == expires # None /\ t >= expires
=============================================================================
