---------------------------- MODULE MCControlled ----------------------------
(* A small instance of ControlledWrite: two executions of one business      *)
(* operation, the default claim id, and a host with current evidence.       *)
EXTENDS ControlledWrite, TLC

CONSTANTS Op,
          MaxDecisions  \* bound for model checking: decisions of approvers

MCOperations == {Op}
MCOperationOf == [e \in Executions |-> Op]
MCClaimIdOf == [w \in Workers |-> "nsl-cli-resume-claim"]

MCGuarantees == {[durable |-> TRUE, verified |-> 0, until |-> 1]}

Bound(i) == [tenant |-> "t", op |-> Op, hash |-> i]

MCGuardInputs ==
  {[tenant |-> "t",
    contract |-> [writeTool |-> TRUE, preconditionsSupported |-> TRUE, risk |-> "R3"],
    controls |-> [c \in ControlNames |-> TRUE],
    policy |-> {[binding |-> Bound(i), from |-> 0, until |-> 1, effect |-> "ALLOW"]},
    precondition |-> {[binding |-> Bound(i), from |-> 0, until |-> 1, atomic |-> TRUE]}]
     : i \in Intents}

(* One decision for each execution, or two for one of them. *)
FewDecisions == Cardinality(evidence) <= MaxDecisions

Symmetry == Permutations(Executions) \cup Permutations(Intents)
=============================================================================
