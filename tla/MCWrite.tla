------------------------------ MODULE MCWrite ------------------------------
(* Small instances of WriteExecution: the executions belong to one business *)
(* operation and so share one idempotency key.                              *)
EXTENDS WriteExecution

CONSTANTS Op

MCOperations == {Op}
MCOperationOf == [e \in Executions |-> Op]

(* Two guarantees, of which the shorter one covers the horizon only at      *)
(* instant 0, and one that the provider does not give durably.              *)
MCGuarantees == { [durable |-> TRUE,  verified |-> 0, until |-> 1],
                  [durable |-> TRUE,  verified |-> 0, until |-> 2],
                  [durable |-> FALSE, verified |-> 0, until |-> 2] }

MCContract == [writeTool |-> TRUE, preconditionsSupported |-> TRUE, risk |-> "R3"]
MCControls == [c \in ControlNames |->
                 c \notin {"POLICY_DENIED", "TOOL_PRECONDITION_FAILED",
                           "BUSINESS_PRECONDITION_FAILED"}]

Bound(i) == [tenant |-> "t", op |-> Op, hash |-> i]

(* The evidence of a careful host for intent i, current until 2. *)
Good(i) ==
  [tenant |-> "t", contract |-> MCContract, controls |-> MCControls,
   policy |-> {[binding |-> Bound(i), from |-> 0, until |-> 2, effect |-> "ALLOW"]},
   precondition |-> {[binding |-> Bound(i), from |-> 0, until |-> 2, atomic |-> TRUE]}]

(* That evidence for every intent (so also for the wrong one), and with one *)
(* control failing.                                                         *)
MCGuardInputs ==
  {Good(i) : i \in Intents} \cup
  {[Good(i) EXCEPT !.controls["DURABILITY_NOT_READY"] = FALSE] : i \in Intents}
=============================================================================
