--------------------------- MODULE WriteExecution ---------------------------
(***************************************************************************)
(* The WRITE itself, from a resumed context to the ExecutionResult:         *)
(* IdempotencyCoordinator, WriteGuard, (Trusted)WriteExecutionCoordinator,  *)
(* (Trusted)CommitAwareWriteExecutor with WriteOutcomeCoordinator,          *)
(* PostWriteVerifier and complete_controlled_execution, called in this      *)
(* order by the host.                                                       *)
(*                                                                          *)
(* stage, context, outcome and the rest of the first group are the memory   *)
(* of the process that runs execution e.  The second group is durable: the  *)
(* idempotency, request and outcome evidence behind the injected ports, and *)
(* the provider with the calls on their way to it.                          *)
(***************************************************************************)
EXTENDS ControlledBase, WriteControls

CONSTANTS
  Guarantees,     \* the provider guarantees a host can present
  GuardInputs,    \* the evidence a host can present to the WriteGuard
  Recovery,       \* the recovery horizon the host asks the guarantee to cover
  MaxWriteFaults  \* the bound of crashes and raising ports, for model checking

VerificationStatuses == {"NOT_REQUESTED", "VERIFIED", "FAILED", "UNKNOWN"}
FinalStatuses == {"COMPLETED", "FAILED", "RECONCILIATION_REQUIRED"}

ASSUME WriteAssumption ==
  /\ Guarantees \subseteq [durable : BOOLEAN, verified : Nat, until : Nat]
  /\ \A q \in GuardInputs : \A p \in q.policy \cup q.precondition : p.until \in Nat
  /\ Recovery \in Nat
  /\ MaxWriteFaults \in Nat
  /\ None \notin CommitStates \cup VerificationStatuses \cup FinalStatuses
  /\ None \notin [intent : Intents, until : Nat]

VARIABLES
  stage,        \* stage[e]: the call the host makes next for e
  context,      \* context[e]: approval status and intent of the restored context
  current,      \* current[e]: until when the evidence presented for e is current
  outcome,      \* outcome[e]: the normalised provider outcome
  verification, \* verification[e]: the status of the post-WRITE verification
  emitted,      \* the executions whose suffix has run
  status,       \* status[e]: the status of the ExecutionResult returned, or None
  reservation,  \* reservation[k]: the payload reserved for key k, or None
  requested,    \* the executions with durable WRITE_REQUESTED evidence
  journal,      \* journal[e]: the durable outcome record, or None
  call,         \* call[e]: "none", "inflight" or "done"
  answer,       \* answer[e]: what the provider answered, or None
  memory,       \* memory[k]: the payload the provider remembers for key k
  effects,      \* the executions whose call made the provider change its data
  lapsed,       \* the keys the provider has forgotten after the guarantee
  faults        \* how many crashes and port failures have happened

writeMemory == <<stage, context, current, outcome, verification, emitted, status>>
evidenceStores == <<reservation, requested, journal>>
provider == <<call, answer, memory, effects, lapsed>>
writeVars == <<writeMemory, evidenceStores, provider, faults>>

----------------------------------------------------------------------------
(* Types *)

Stages == {"none", "reserve", "guard", "request", "invoke", "waiting",
           "record", "verify", "complete", "done", "raised"}

Contexts == [approval : ApprovalStatuses, intent : Intents]

WriteTypeOK ==
  /\ now \in Nat
  /\ stage \in [Executions -> Stages]
  /\ context \in [Executions -> Contexts \cup {None}]
  /\ \A e \in Executions : stage[e] # "none" => context[e] \in Contexts
  /\ current \in [Executions -> Nat]
  /\ outcome \in [Executions -> CommitStates \cup {None}]
  /\ verification \in [Executions -> VerificationStatuses \cup {None}]
  /\ emitted \subseteq Executions
  /\ status \in [Executions -> FinalStatuses \cup {None}]
  /\ reservation \in [Keys -> Intents \cup {None}]
  /\ requested \subseteq Executions
  /\ journal \in [Executions -> CommitStates \cup {None}]
  /\ call \in [Executions -> {"none", "inflight", "done"}]
  /\ answer \in [Executions -> CommitStates \cup {None}]
  /\ memory \in [Keys -> [intent : Intents, until : Nat] \cup {None}]
  /\ effects \subseteq Executions
  /\ lapsed \subseteq Keys
  /\ faults \in Nat

WriteInit ==
  /\ now = 0
  /\ stage = [e \in Executions |-> "none"]
  /\ context = [e \in Executions |-> None]
  /\ current = [e \in Executions |-> 0]
  /\ outcome = [e \in Executions |-> None]
  /\ verification = [e \in Executions |-> None]
  /\ emitted = {}
  /\ status = [e \in Executions |-> None]
  /\ reservation = [k \in Keys |-> None]
  /\ requested = {}
  /\ journal = [e \in Executions |-> None]
  /\ call = [e \in Executions |-> "none"]
  /\ answer = [e \in Executions |-> None]
  /\ memory = [k \in Keys |-> None]
  /\ effects = {}
  /\ lapsed = {}
  /\ faults = 0

Advance(e, s) == stage' = [stage EXCEPT ![e] = s]

Raise(e) == Advance(e, "raised")

----------------------------------------------------------------------------
(* The host receives the context that resume returned. *)
BeginWrite(e, approval, i) ==
  /\ stage[e] = "none"
  /\ Advance(e, "reserve")
  /\ context' = [context EXCEPT ![e] = [approval |-> approval, intent |-> i]]
  /\ UNCHANGED <<now, current, outcome, verification, emitted, status,
                 evidenceStores, provider, faults>>

(* Mutant: a key in use for another payload is taken over. *)
ReserveOverwriting(e, g) ==
  /\ stage[e] = "reserve"
  /\ RetentionValid(g, now, now + Recovery)
  /\ reservation' = [reservation EXCEPT ![Key(e)] = context[e].intent]
  /\ current' = [current EXCEPT ![e] = g.until]
  /\ Advance(e, "guard")
  /\ UNCHANGED <<now, context, outcome, verification, emitted, status,
                 requested, journal, provider, faults>>

(* IdempotencyCoordinator.reserve: the retention of the provider, then the  *)
(* atomic port: a key is created, reused for the same payload, or in        *)
(* conflict with another payload.                                           *)
Reserve(e, g) ==
  /\ stage[e] = "reserve"
  /\ \/ /\ RetentionValid(g, now, now + Recovery)
        /\ reservation[Key(e)] \in {None, context[e].intent}
        /\ reservation' = [reservation EXCEPT ![Key(e)] = context[e].intent]
        /\ current' = [current EXCEPT ![e] = g.until]
        /\ Advance(e, "guard")
     \/ /\ \/ ~RetentionValid(g, now, now + Recovery)
           \/ reservation[Key(e)] \notin {None, context[e].intent}
        /\ Raise(e)
        /\ UNCHANGED <<reservation, current>>
  /\ UNCHANGED <<now, context, outcome, verification, emitted, status,
                 requested, journal, provider, faults>>

(* The port raises, or returns evidence other than this record: the key may *)
(* or may not be reserved by now, and the WRITE ends here.                  *)
ReserveFails(e, g) ==
  /\ stage[e] = "reserve"
  /\ faults < MaxWriteFaults
  /\ RetentionValid(g, now, now + Recovery)
  /\ faults' = faults + 1
  /\ \/ UNCHANGED reservation
     \/ /\ reservation[Key(e)] = None
        /\ reservation' = [reservation EXCEPT ![Key(e)] = context[e].intent]
  /\ Raise(e)
  /\ UNCHANGED <<now, context, current, outcome, verification, emitted, status,
                 requested, journal, provider>>

(* WriteGuardRequest for e with the evidence q of the host: the approval    *)
(* status is the one of the restored context.                               *)
GuardRequest(e, q) ==
  [context |-> [tenant |-> q.tenant, op |-> OperationOf[e]],
   intent |-> [tenant |-> q.tenant, op |-> OperationOf[e], hash |-> context[e].intent],
   contract |-> q.contract, policy |-> q.policy, precondition |-> q.precondition,
   evidence |-> [validation |-> "ALL_PASS", approval |-> context[e].approval,
                 evidenceValid |-> context[e].approval = "APPROVED",
                 controls |-> q.controls]]

Earliest(S) == CHOOSE t \in S : \A u \in S : t <= u

(* WriteGuard.evaluate, WriteCallRequestBuilder.build and, at the head of   *)
(* WriteExecutionCoordinator.execute, require_allowed.                      *)
Guard(e, q) ==
  /\ stage[e] = "guard"
  /\ \/ /\ GuardEvaluate(GuardRequest(e, q), now).eligibility = "ALLOWED"
        /\ current' = [current EXCEPT ![e] =
             Earliest({@} \cup {p.until : p \in q.policy \cup q.precondition})]
        /\ Advance(e, "request")
     \/ /\ GuardEvaluate(GuardRequest(e, q), now).eligibility # "ALLOWED"
        /\ Raise(e)
        /\ UNCHANGED current
  /\ UNCHANGED <<now, context, outcome, verification, emitted, status,
                 evidenceStores, provider, faults>>

(* The trust preflight of TrustedWriteExecutionCoordinator fails. *)
TrustFails(e) ==
  /\ stage[e] = "request"
  /\ Raise(e)
  /\ UNCHANGED <<now, context, current, outcome, verification, emitted, status,
                 evidenceStores, provider, faults>>

(* record_requested returns a durable receipt for this very record. *)
RecordRequested(e) ==
  /\ stage[e] = "request"
  /\ requested' = requested \cup {e}
  /\ Advance(e, "invoke")
  /\ UNCHANGED <<now, context, current, outcome, verification, emitted, status,
                 reservation, journal, provider, faults>>

(* Mutant: the provider is called although there is no receipt. *)
RecordRequestedIgnored(e) ==
  /\ stage[e] = "request"
  /\ faults < MaxWriteFaults
  /\ faults' = faults + 1
  /\ requested' \in {requested, requested \cup {e}}
  /\ Advance(e, "invoke")
  /\ UNCHANGED <<now, context, current, outcome, verification, emitted, status,
                 reservation, journal, provider>>

(* The receipt is missing, foreign, not durable or too old: the record may  *)
(* or may not have reached the store, and the provider is not called.       *)
RecordRequestedFails(e) ==
  /\ stage[e] = "request"
  /\ faults < MaxWriteFaults
  /\ faults' = faults + 1
  /\ requested' \in {requested, requested \cup {e}}
  /\ Raise(e)
  /\ UNCHANGED <<now, context, current, outcome, verification, emitted, status,
                 reservation, journal, provider>>

(* The provider call leaves the process. *)
Invoke(e) ==
  /\ stage[e] = "invoke"
  /\ Advance(e, "waiting")
  /\ call' = [call EXCEPT ![e] = "inflight"]
  /\ UNCHANGED <<now, context, current, outcome, verification, emitted, status,
                 evidenceStores, answer, memory, effects, lapsed, faults>>

----------------------------------------------------------------------------
(* The provider (external), with the duplicate semantics that the Tool      *)
(* Contract requires: a key it remembers gives the recorded result for the  *)
(* same payload and is refused for another one.                             *)

Answers(e, a) ==
  /\ call' = [call EXCEPT ![e] = "done"]
  /\ answer' = [answer EXCEPT ![e] = a]

ProviderApply(e) ==
  /\ call[e] = "inflight"
  /\ memory[Key(e)] = None
  /\ Answers(e, "COMMITTED")
  /\ effects' = effects \cup {e}
  /\ memory' = [memory EXCEPT ![Key(e)] =
       [intent |-> context[e].intent, until |-> current[e]]]
  /\ UNCHANGED <<now, writeMemory, evidenceStores, lapsed, faults>>

ProviderRefuse(e) ==
  /\ call[e] = "inflight"
  /\ ~(memory[Key(e)] # None /\ memory[Key(e)].intent = context[e].intent)
  /\ Answers(e, "NOT_COMMITTED")
  /\ UNCHANGED <<now, writeMemory, evidenceStores, memory, effects, lapsed, faults>>

ProviderRepeat(e) ==
  /\ call[e] = "inflight"
  /\ memory[Key(e)] # None
  /\ memory[Key(e)].intent = context[e].intent
  /\ Answers(e, "COMMITTED")
  /\ UNCHANGED <<now, writeMemory, evidenceStores, memory, effects, lapsed, faults>>

(* Past the end of the guarantee the provider may forget a key. *)
ProviderForget(k) ==
  /\ memory[k] # None
  /\ now >= memory[k].until
  /\ memory' = [memory EXCEPT ![k] = None]
  /\ lapsed' = lapsed \cup {k}
  /\ UNCHANGED <<now, writeMemory, evidenceStores, call, answer, effects, faults>>

----------------------------------------------------------------------------
(* CommitAwareWriteExecutor and WriteOutcomeCoordinator *)

(* Mutant: any answer of the provider is taken for a commit. *)
ReceiveOptimistic(e) ==
  /\ stage[e] = "waiting"
  /\ answer[e] # None
  /\ outcome' = [outcome EXCEPT ![e] = "COMMITTED"]
  /\ Advance(e, "record")
  /\ UNCHANGED <<now, context, current, verification, emitted, status,
                 evidenceStores, provider, faults>>

(* The provider's outcome arrives with the identity of the request. *)
Receive(e) ==
  /\ stage[e] = "waiting"
  /\ answer[e] # None
  /\ outcome' = [outcome EXCEPT ![e] = answer[e]]
  /\ Advance(e, "record")
  /\ UNCHANGED <<now, context, current, verification, emitted, status,
                 evidenceStores, provider, faults>>

(* Mutant: a timeout means that nothing was written. *)
UncertainAsFailure(e) ==
  /\ stage[e] = "waiting"
  /\ outcome' = [outcome EXCEPT ![e] = "NOT_COMMITTED"]
  /\ Advance(e, "record")
  /\ UNCHANGED <<now, context, current, verification, emitted, status,
                 evidenceStores, provider, faults>>

(* Timeout, cancellation, lost connection, an exception, a malformed        *)
(* acknowledgement, or the provider's own "unknown": the outcome is unknown *)
(* wherever the call is by now.                                             *)
Uncertain(e) ==
  /\ stage[e] = "waiting"
  /\ outcome' = [outcome EXCEPT ![e] = "UNKNOWN_COMMIT_STATE"]
  /\ Advance(e, "record")
  /\ UNCHANGED <<now, context, current, verification, emitted, status,
                 evidenceStores, provider, faults>>

(* finalize meets an outcome with the identity of another request: it       *)
(* raises before anything is recorded.                                      *)
ForeignOutcome(e) ==
  /\ stage[e] = "waiting"
  /\ call[e] = "done"
  /\ faults < MaxWriteFaults
  /\ faults' = faults + 1
  /\ Raise(e)
  /\ UNCHANGED <<now, context, current, outcome, verification, emitted, status,
                 evidenceStores, provider>>

(* record_outcome returns its receipt; a committed outcome is verified. *)
RecordOutcome(e) ==
  /\ stage[e] = "record"
  /\ journal' = [journal EXCEPT ![e] = outcome[e]]
  /\ Advance(e, IF outcome[e] = "COMMITTED" THEN "verify" ELSE "complete")
  /\ UNCHANGED <<now, context, current, outcome, verification, emitted, status,
                 reservation, requested, provider, faults>>

(* Mutant: the execution goes on without the receipt of its outcome. *)
RecordOutcomeIgnored(e) ==
  /\ stage[e] = "record"
  /\ faults < MaxWriteFaults
  /\ faults' = faults + 1
  /\ journal' \in {journal, [journal EXCEPT ![e] = outcome[e]]}
  /\ Advance(e, IF outcome[e] = "COMMITTED" THEN "verify" ELSE "complete")
  /\ UNCHANGED <<now, context, current, outcome, verification, emitted, status,
                 reservation, requested, provider>>

(* The receipt is missing or foreign, or the port raises: the record may or *)
(* may not be there, and the execution ends without a result.               *)
RecordOutcomeFails(e) ==
  /\ stage[e] = "record"
  /\ faults < MaxWriteFaults
  /\ faults' = faults + 1
  /\ journal' \in {journal, [journal EXCEPT ![e] = outcome[e]]}
  /\ Raise(e)
  /\ UNCHANGED <<now, context, current, outcome, verification, emitted, status,
                 reservation, requested, provider>>

----------------------------------------------------------------------------
(* PostWriteVerifier.verify and complete_controlled_execution *)

(* The business effect of the operation of e, as a read of the provider's   *)
(* data finds it.                                                           *)
EffectOf(e) ==
  \E f \in effects : Key(f) = Key(e) /\ context[f].intent = context[e].intent

(* The read matches only what is there; it may fail to match (a stale       *)
(* replica), time out, or not be configured at all.                         *)
Verify(e, v) ==
  /\ stage[e] = "verify"
  /\ v = "VERIFIED" => EffectOf(e)
  /\ verification' = [verification EXCEPT ![e] = v]
  /\ Advance(e, "complete")
  /\ UNCHANGED <<now, context, current, outcome, emitted, status,
                 evidenceStores, provider, faults>>

(* Mutant: the suffix runs after every commit. *)
RunsSuffixUnverified(e) == outcome[e] = "COMMITTED"

RunsSuffix(e) ==
  outcome[e] = "COMMITTED" /\ verification[e] \in {"NOT_REQUESTED", "VERIFIED"}

Complete(e) ==
  /\ stage[e] = "complete"
  /\ context[e].approval = "APPROVED"
  /\ emitted' = IF RunsSuffix(e) THEN emitted \cup {e} ELSE emitted
  /\ status' = [status EXCEPT ![e] = StatusOf(outcome[e])]
  /\ Advance(e, "done")
  /\ UNCHANGED <<now, context, current, outcome, verification,
                 evidenceStores, provider, faults>>

(* The suffix raises (a limit, a failing READ): there is no ExecutionResult *)
(* although the WRITE is committed.                                         *)
SuffixFails(e) ==
  /\ stage[e] = "complete"
  /\ RunsSuffix(e)
  /\ faults < MaxWriteFaults
  /\ faults' = faults + 1
  /\ Raise(e)
  /\ UNCHANGED <<now, context, current, outcome, verification, emitted, status,
                 evidenceStores, provider>>

(* The process dies between two calls. *)
WriteCrash(e) ==
  /\ stage[e] \notin {"none", "done", "raised"}
  /\ faults < MaxWriteFaults
  /\ faults' = faults + 1
  /\ Raise(e)
  /\ UNCHANGED <<now, context, current, outcome, verification, emitted, status,
                 evidenceStores, provider>>

----------------------------------------------------------------------------

HostStep(e) ==
  \/ \E g \in Guarantees : Reserve(e, g) \/ ReserveFails(e, g)
  \/ \E q \in GuardInputs : Guard(e, q)
  \/ TrustFails(e) \/ RecordRequested(e) \/ RecordRequestedFails(e) \/ Invoke(e)
  \/ Receive(e) \/ Uncertain(e) \/ ForeignOutcome(e)
  \/ RecordOutcome(e) \/ RecordOutcomeFails(e)
  \/ \E v \in VerificationStatuses : Verify(e, v)
  \/ Complete(e) \/ SuffixFails(e)

ProviderStep(e) == ProviderApply(e) \/ ProviderRefuse(e) \/ ProviderRepeat(e)

WriteStep ==
  \/ \E e \in Executions : HostStep(e) \/ ProviderStep(e) \/ WriteCrash(e)
  \/ \E k \in Keys : ProviderForget(k)

(* What resume can hand over: a consumed claim with one of three statuses. *)
ResumedStatuses == {"APPROVED", "REJECTED", "EXPIRED"}

WriteNext ==
  \/ Tick /\ UNCHANGED writeVars
  \/ \E e \in Executions, a \in ResumedStatuses, i \in Intents : BeginWrite(e, a, i)
  \/ WriteStep

WriteSpec == WriteInit /\ [][WriteNext]_<<now, writeVars>>

----------------------------------------------------------------------------
(* Properties *)

(* No call reaches the provider unless its WRITE_REQUESTED evidence is      *)
(* durable, the context carries an approval, and the key of the operation   *)
(* is reserved for exactly the payload of the call - and this stays true    *)
(* whatever other executions of the operation do later.                     *)
InvokedUnderControls ==
  \A e \in Executions : call[e] # "none" =>
    /\ e \in requested
    /\ context[e].approval = "APPROVED"
    /\ reservation[Key(e)] = context[e].intent

(* One business operation changes the provider's data once, for any number  *)
(* of executions, crashes and late calls, as long as the provider keeps its *)
(* guarantee; and never with two payloads, not even after that.             *)
OneEffectPerOperation ==
  \A e, f \in effects : Key(e) = Key(f) =>
    /\ context[e].intent = context[f].intent
    /\ e = f \/ Key(e) \in lapsed

(* An effect that happened, or that a call under way can still cause, is    *)
(* never denied: neither the durable outcome nor the result says that the   *)
(* WRITE failed, whenever the answer, a timeout or a crash came.            *)
NeverDenied ==
  \A e \in Executions : e \in effects \/ call[e] = "inflight" =>
    journal[e] # "NOT_COMMITTED" /\ status[e] # "FAILED"

(* What is reported as committed - in the outcome evidence, in the result,  *)
(* or by running the suffix of the Skill - is in the provider's data.       *)
ReportedCommitIsReal ==
  \A e \in Executions :
    journal[e] = "COMMITTED" \/ status[e] = "COMPLETED" \/ e \in emitted => EffectOf(e)

(* A verification that fails or times out withholds the suffix but never    *)
(* turns the durable commit into another result (RD-008).                   *)
VerificationKeepsCommit ==
  \A e \in Executions : verification[e] \in {"FAILED", "UNKNOWN"} =>
    journal[e] = "COMMITTED" /\ status[e] \in {None, "COMPLETED"} /\ e \notin emitted

(* However an execution ends - with a result, by a suffix or a port that    *)
(* raises, by a crash - its durable evidence tells how far it came: there   *)
(* is a result only for the outcome on record, and once the host has asked  *)
(* for a verification or run the suffix, the commit is on record, so that a *)
(* suffix that raises takes the result away and never the commit            *)
(* (WriteOutcomeCoordinator.finalize, complete_controlled_execution).       *)
OutcomeOnRecord ==
  \A e \in Executions :
    /\ status[e] # None => journal[e] # None /\ status[e] = StatusOf(journal[e])
    /\ verification[e] # None \/ e \in emitted => journal[e] = "COMMITTED"
=============================================================================
