------------------------------ MODULE MCReplay ------------------------------
(***************************************************************************)
(* The commands and libraries around recorded executions, one in each       *)
(* behaviour: replay of a READ execution, replay of a controlled WRITE from *)
(* sealed evidence, the mock executor for WRITEs, and an execution in a     *)
(* process of its own.                                                      *)
(***************************************************************************)
EXTENDS Replay, WriteReplay, ProcessIsolation

VARIABLE mode

allVars == <<mode, storeVars, readVars, writeVars, isolationVars>>

(* Protected data is kept in the protected store, other data in memory. *)
Init ==
  /\ mode \in {"read", "write", "mock", "isolated"}
  /\ StoreInit /\ ReadInit /\ WriteInit /\ IsolationInit
  /\ protected <=> class \in PROTECTED_CLASSIFICATIONS
  /\ mode = "write" => protected
  /\ mode \in {"mock", "isolated"} => ~protected

Next ==
  \/ mode = "read" /\ ReadNext /\ UNCHANGED <<mode, writeVars, isolationVars>>
  \/ mode = "write" /\ SealedNext /\ UNCHANGED <<mode, readVars, isolationVars>>
  \/ mode = "mock" /\ MockNext /\ UNCHANGED <<mode, readVars, isolationVars>>
  \/ mode = "isolated" /\ IsolationNext /\ UNCHANGED <<mode, storeVars, readVars, writeVars>>

MCSpec == Init /\ [][Next]_allVars

(* Fairness of the parent and of a child on its way out, as in              *)
(* ProcessIsolation; nothing has to happen in the other modes.              *)
Isolated(A) == mode = "isolated" /\ A /\ UNCHANGED <<mode, storeVars, readVars, writeVars>>
FairMCSpec == MCSpec /\ WF_allVars(Isolated(Parent)) /\ WF_allVars(Isolated(Leaves))

(* IsolationAnswers, of an isolated execution. *)
IsolationEnds == mode = "isolated" => IsolationAnswers

----------------------------------------------------------------------------

Call(tool, args) == [tool |-> tool, args |-> args]

(* A later runtime asks with other arguments, or does without a call. *)
MCPlans == << <<Call("budget", "a"), Call("actual", "a")>>,
              <<Call("budget", "a"), Call("actual", "b")>>,
              <<Call("budget", "a")>> >>

MCAnswers == {[value |-> "low", completeness |-> "COMPLETE", valid |-> TRUE],
              [value |-> "high", completeness |-> "PARTIAL", valid |-> TRUE],
              [value |-> "high", completeness |-> "COMPLETE", valid |-> FALSE]}

MCPrincipals == {[tenant |-> "t", verified |-> TRUE,
                  scopes |-> {"nsl:replay:read", "nsl:snapshot:delete"}],
                 [tenant |-> "u", verified |-> TRUE, scopes |-> {"nsl:replay:read"}]}

(* Operation 1 is carried out by two executions, with one key and an        *)
(* invocation each; operation 2 by one; operation 3 was rejected.           *)
Request(execution, op, invocation) ==
  [tenant |-> "t", execution |-> execution, op |-> op, invocation |-> invocation, key |-> op]
MCRequests == {Request(1, 1, 1), Request(2, 1, 2), Request(1, 2, 1)}
MCApprovals ==
  {[kind |-> "APPROVAL", tenant |-> "t", execution |-> e, op |-> op, decision |-> d] :
     <<e, op, d>> \in {<<1, 1, "APPROVED">>, <<2, 1, "APPROVED">>, <<1, 2, "APPROVED">>,
                       <<1, 3, "REJECTED">>}}
Attempt(r) == [kind |-> "WRITE_REQUEST", request |-> r, at |-> 0]
MCAttempts == {Attempt(r) : r \in MCRequests}
(* The last outcome names another invocation than its attempt. *)
MCOutcomes ==
  {[kind |-> "COMMIT_OUTCOME", identity |-> OutcomeIdentity(r), attempt |-> Attempt(a), state |-> s] :
     <<r, a, s>> \in {<<Request(1, 1, 1), Request(1, 1, 1), "COMMITTED">>,
                      <<Request(2, 1, 2), Request(2, 1, 2), "COMMITTED">>,
                      <<Request(1, 2, 1), Request(1, 2, 1), "UNKNOWN">>,
                      <<Request(2, 1, 2), Request(1, 1, 1), "UNKNOWN">>}}
MCVerifications ==
  {[kind |-> "VERIFICATION_OUTCOME", identity |-> OutcomeIdentity(r)] :
     r \in {Request(1, 1, 1), Request(2, 1, 2)}}
MCIdentities ==
  {[tenant |-> "t", execution |-> x[1], op |-> x[2], key |-> x[3]] :
     x \in {<<1, 1, 1>>, <<1, 2, 2>>, <<1, 3, None>>}}

MCResponses == {[valid |-> TRUE, size |-> 1], [valid |-> FALSE, size |-> 1],
                [valid |-> TRUE, size |-> 2]}
=============================================================================
