----------------------------- MODULE JobWorker -----------------------------
(***************************************************************************)
(* SkillExecutionWorker.execute over the audit file: jobs are submitted,    *)
(* delivered (a queue may deliver one again, or to two workers at a time),  *)
(* decoded, resolved and run; progress is published on the way, and every   *)
(* step of the run is on the audit trail before the next one.  Beside the   *)
(* workers, the host of a controlled WRITE records its evidence in the same *)
(* file through a WriteAuditRecorder.                                       *)
(*                                                                          *)
(* A run is reduced to its waits and its audit events: authorization,       *)
(* start, one tool call, end (SkillRuntime has the rest).                   *)
(***************************************************************************)
EXTENDS AuditStore

CONSTANTS
  Configs,      \* the ways in which the worker is put together
  Workers,      \* calls of SkillExecutionWorker.execute in one process
  HostExec,     \* the execution whose WRITE evidence the host records
  Payloads,     \* what a queue can deliver: decoded Job documents
  Catalogue,    \* the resolver: semantic hash of each selector it knows
  Answers,      \* what the tool can answer
  None,
  Verifications,\* the statuses of the verifications that it records
  WriteEvents,  \* the WRITE event types that the host records
  Identities,   \* the WriteAuditIdentity values it records them with
  MaxDepth, MaxNodes, \* MAX_INTEGRATION_VALUE_DEPTH and _NODES
  MaxWrites,    \* the bound of the host's records
  MaxSubmits,   \* the bound of submissions to one process
  MaxFaults     \* the bound of failing ports, cancellations and crashes

(* SkillExecutionWorker.__init__: the evidence policy may require snapshots. *)
WorkerConfigs ==
  {c \in [sink : {"memory", "null"}, snapshots : BOOLEAN, required : BOOLEAN] :
     c.required => c.snapshots}

(* WriteAuditIdentity: the references that it can carry. *)
IdentityReferences == {"payload", "intent", "approval", "key"}

ASSUME WorkAssumption ==
  /\ Configs \subseteq WorkerConfigs
  /\ HostExec \in Execs
  /\ \A p \in Payloads : "exec" \in DOMAIN p /\ p.exec \in Execs
  /\ None \notin {"VERIFIED", "FAILED"}
  /\ Identities \subseteq SUBSET IdentityReferences
  /\ {MaxWrites, MaxSubmits, MaxFaults} \subseteq Nat

VARIABLES
  conf,         \* the progress sink and the snapshot store of the worker
  up,           \* the process runs and has opened the store
  pending,      \* InMemoryJobDispatcher._pending
  submits,
  pc,           \* per worker: what it does next
  job,          \* per worker: the Job it executes, or None
  rec,          \* per worker: the trail of its AuditRecorder
  status,       \* per worker: the status of the ExecutionResult, or None
  answer,       \* per worker: "none", "envelope" or "error"
  progress,     \* InMemoryProgressSink: the states published, per execution
  snaps,        \* snapshot ids that the SnapshotStore has given out
  hostRec,      \* the trail of the host's AuditRecorder
  summary,      \* the last VerificationSummary status that it was given
  faults,
  runs          \* history: how often the body of the execution was begun

workVars == <<conf, up, pending, submits, pc, job, rec, status, answer, progress,
              snaps, hostRec, summary, faults, runs>>
vars == <<storeVars, workVars>>

Event(type, value) == [type |-> type, value |-> value]
LastType(t) == IF t = << >> THEN None ELSE t[Len(t)].type

WorkInit ==
  /\ StoreInit
  /\ conf \in Configs
  /\ up = TRUE
  /\ pending = {}
  /\ submits = 0
  /\ pc = [w \in Workers |-> "idle"]
  /\ job = [w \in Workers |-> None]
  /\ rec = [w \in Workers |-> << >>]
  /\ status = [w \in Workers |-> None]
  /\ answer = [w \in Workers |-> "none"]
  /\ progress = [e \in Execs |-> << >>]
  /\ snaps = 0
  /\ hostRec = << >>
  /\ summary = None
  /\ faults = 0
  /\ runs = [e \in Execs |-> 0]

Fault == faults < MaxFaults /\ faults' = faults + 1

Goto(w, l) == pc' = [pc EXCEPT ![w] = l]

(* The call of execute ends with an exception. *)
Raise(w) == Goto(w, "done") /\ answer' = [answer EXCEPT ![w] = "error"]

----------------------------------------------------------------------------
(* Jobs *)

(* InputProvenance.validate_inputs: exactly the inputs have a source. *)
ProvenanceCovers(p) == p.inputs = p.sources

(* VerifiedPrincipalContext: only a verified principal makes a Job. *)
PrincipalVerified(p) == p.verification = "VERIFIED"

(* _normalize_mapping, _normalize_value: depth and size of the inputs and   *)
(* of the context are within the limits, and none is credential material.   *)
Normalizes(v) == v.depth <= MaxDepth /\ v.nodes <= MaxNodes /\ ~v.credential

(* StructuredInputs, StructuredRuntimeContext *)
ValuesPortable(p) == Normalizes(p.values) /\ Normalizes(p.context)

(* ExplicitDataHandlingPolicy, DataHandlingPolicy *)
PolicyExplicit(p) == p.retention > 0

(* The selector of the Skill and the execution id: not empty, of safe       *)
(* characters, and no credential.                                           *)
Identified(p) == p.skill # None

(* SkillExecutionJob.__post_init__ *)
ValidJob(p) ==
  /\ Identified(p)
  /\ ProvenanceCovers(p)
  /\ PrincipalVerified(p)
  /\ ValuesPortable(p)
  /\ PolicyExplicit(p)

(* _validate_typed_wire: every tagged value is of a known type. *)
WireTyped(p) == p.tags \subseteq {"Money", "Decimal", "Date", "DateTime"}

(* SkillExecutionJob.from_data and from_json: exactly the fields of this    *)
(* version, in the canonical bytes.                                         *)
Decodes(p) == p.schema = "1.0" /\ WireTyped(p) /\ ValidJob(p) /\ p.canonical

(* InMemoryJobDispatcher.submit *)
Submit(p) ==
  /\ up
  /\ submits < MaxSubmits
  /\ p.schema = "1.0" /\ ValidJob(p)
  /\ \A q \in pending : q.exec # p.exec
  /\ pending' = pending \cup {[p EXCEPT !.tags = {}, !.canonical = TRUE]}
  /\ submits' = submits + 1
  /\ UNCHANGED <<storeVars, conf, up, pc, job, rec, status, answer, progress, snaps,
                 hostRec, summary, faults, runs>>

(* The queue hands a payload to a free worker: a submitted one, now or      *)
(* again, or one that was changed on the way.                               *)
Deliver(w, p) ==
  /\ up
  /\ pc[w] = "idle"
  /\ p \in pending \/ ~Decodes(p)
  /\ IF Decodes(p)
     THEN Goto(w, "started") /\ job' = [job EXCEPT ![w] = p] /\ UNCHANGED answer
     ELSE Raise(w) /\ UNCHANGED job
  /\ UNCHANGED <<storeVars, conf, up, pending, submits, rec, status, progress, snaps,
                 hostRec, summary, faults, runs>>

----------------------------------------------------------------------------
(* Progress *)

TerminalStates == {"COMPLETED", "FAILED"}

(* InMemoryProgressSink.publish: gapless, and nothing after the end;        *)
(* NullProgressSink takes everything.                                       *)
Publishable(e, n, state) ==
  conf.sink = "null" \/
    /\ n = Len(progress[e]) + 1
    /\ n > 1 => progress[e][n - 1] \notin TerminalStates

(* SkillExecutionWorker._publish with what follows it; a sink that refuses  *)
(* or fails ends the call with PROGRESS_DELIVERY_FAILED.                    *)
Publish(w, n, state, next, result) ==
  LET e == job[w].exec IN
  \/ /\ Publishable(e, n, state)
     /\ progress' = IF conf.sink = "null" THEN progress
                    ELSE [progress EXCEPT ![e] = Append(@, state)]
     /\ Goto(w, next)
     /\ answer' = [answer EXCEPT ![w] = result]
     /\ UNCHANGED faults
  \/ ~Publishable(e, n, state) /\ Raise(w) /\ UNCHANGED <<progress, faults>>
  \/ Fault /\ Raise(w) /\ UNCHANGED progress

publishFrame == <<storeVars, conf, up, pending, submits, job, rec, status, snaps,
                  hostRec, summary, runs>>

PublishStarted(w) ==
  pc[w] = "started" /\ Publish(w, 1, "STARTED", "resolve", "none") /\ UNCHANGED publishFrame

(* VerifiedPackageSkillResolver.resolve and the semantic hash test *)
Resolves(j) == j.skill \in DOMAIN Catalogue /\ Catalogue[j.skill] = j.hash

(* The Skill is unknown or another one: terminal progress, and the error. *)
ResolveFails(w) ==
  /\ pc[w] = "resolve" /\ ~Resolves(job[w])
  /\ Publish(w, 2, "FAILED", "done", "error")
  /\ UNCHANGED publishFrame

PublishResolved(w) ==
  /\ pc[w] = "resolve" /\ Resolves(job[w])
  /\ Publish(w, 2, "SKILL_RESOLVED", "running", "none")
  /\ UNCHANGED publishFrame

PublishRunning(w) ==
  pc[w] = "running" /\ Publish(w, 3, "RUNNING", "run", "none") /\ UNCHANGED publishFrame

(* Mutant: the run has come back, so it has completed. *)
TerminalStateReturned(w) == "COMPLETED"

(* Anything but COMPLETED is published as FAILED. *)
TerminalState(w) == IF status[w] = "COMPLETED" THEN "COMPLETED" ELSE "FAILED"

PublishTerminal(w) ==
  /\ pc[w] = "terminal"
  /\ Publish(w, 4, TerminalState(w), "done", "envelope")
  /\ UNCHANGED publishFrame

----------------------------------------------------------------------------
(* RuntimeEngine.execute *)

runFrame == <<conf, up, pending, submits, job, progress, hostRec, summary>>

Snapshots(n) == IF conf.snapshots THEN snaps + n ELSE snaps

(* AuditRecorder.emit: the recorder moves when append has returned.  A      *)
(* failing append makes the engine end the run (onError).                   *)
Emits(w, event, next, onError) ==
  LET e == job[w].exec
      t == Append(rec[w], event)
  IN \/ AppendEvent(e, t) /\ rec' = [rec EXCEPT ![w] = t] /\ next
     \/ (AppendFails(e, t) \/ AppendRefused(e, t)) /\ UNCHANGED rec /\ onError

Failing(w) == Goto(w, "failing") /\ UNCHANGED <<status, answer, runs>>

Next0(w, l) == Goto(w, l) /\ UNCHANGED <<status, answer, runs>>

(* The audit trail cannot take the end of the run: the exception leaves     *)
(* runtime.execute and the worker, and nothing terminal is published.       *)
Escapes(w) == Raise(w) /\ UNCHANGED <<status, runs>>

Ends(w, s) == Goto(w, "terminal") /\ status' = [status EXCEPT ![w] = s]
              /\ UNCHANGED <<answer, runs>>

(* The principal may not run the Skill: _reject_execution. *)
Reject(w) ==
  /\ pc[w] = "run" /\ ~job[w].scoped
  /\ Emits(w, Event("EXECUTION_REJECTED", None), Ends(w, "REJECTED"), Escapes(w))
  /\ UNCHANGED <<runFrame, snaps, faults>>

(* Input and context snapshots, EXECUTION_STARTED; then the body runs. *)
Start(w) ==
  /\ pc[w] = "run" /\ job[w].scoped
  /\ snaps' = Snapshots(2)
  /\ Emits(w, Event("EXECUTION_STARTED", snaps'),
           /\ Goto(w, "call")
           /\ runs' = [runs EXCEPT ![job[w].exec] = @ + 1]
           /\ UNCHANGED <<status, answer>>,
           Failing(w))
  /\ UNCHANGED <<runFrame, faults>>

(* The snapshot store raises (a protector that cannot seal), or preflight,  *)
(* binding or evaluation fails.                                             *)
RunFails(w) ==
  /\ pc[w] = "call" \/ (pc[w] = "run" /\ job[w].scoped)
  /\ Fault /\ Failing(w)
  /\ UNCHANGED <<storeVars, runFrame, rec, snaps>>

(* _execute_read up to the call: argument snapshot, TOOL_STARTED. *)
CallTool(w) ==
  /\ pc[w] = "call"
  /\ snaps' = Snapshots(1)
  /\ Emits(w, Event("TOOL_STARTED", snaps'), Next0(w, "wait"), Failing(w))
  /\ UNCHANGED <<runFrame, faults>>

(* The tool answers: result snapshot, TOOL_COMPLETED. *)
ToolReturns(w, v) ==
  /\ pc[w] = "wait"
  /\ snaps' = Snapshots(1)
  /\ Emits(w, Event("TOOL_COMPLETED", v), Next0(w, "finish"), Failing(w))
  /\ UNCHANGED <<runFrame, faults>>

(* The tool fails or times out: TOOL_FAILED, and the run fails. *)
ToolFails(w) ==
  /\ pc[w] = "wait"
  /\ Fault
  /\ Emits(w, Event("TOOL_FAILED", None), Failing(w), Failing(w))
  /\ UNCHANGED <<runFrame, snaps>>

(* The task is cancelled while it waits: no event, no progress. *)
Cancel(w) ==
  /\ pc[w] = "wait"
  /\ Fault /\ Escapes(w)
  /\ UNCHANGED <<storeVars, runFrame, rec, snaps>>

Finish(w) ==
  /\ pc[w] = "finish"
  /\ Emits(w, Event("EXECUTION_COMPLETED", None), Ends(w, "COMPLETED"), Failing(w))
  /\ UNCHANGED <<runFrame, snaps, faults>>

(* RuntimeEngine._failed *)
Fail(w) ==
  /\ pc[w] = "failing"
  /\ Emits(w, Event("EXECUTION_FAILED", None), Ends(w, "FAILED"), Escapes(w))
  /\ UNCHANGED <<runFrame, snaps, faults>>

----------------------------------------------------------------------------
(* WriteAuditRecorder *)

ApprovalBound == {"APPROVAL_REQUESTED", "EXECUTION_SUSPENDED", "APPROVAL_APPROVED",
                  "APPROVAL_REJECTED", "EXECUTION_RESUMED"}
IdempotencyBound == {"WRITE_REQUESTED", "WRITE_COMMIT_CONFIRMED", "WRITE_COMMIT_UNKNOWN",
                     "WRITE_VERIFIED", "WRITE_VERIFICATION_FAILED"}

(* WriteAuditRecorder._validate_event_bindings; an identity is the set of   *)
(* the references that it carries.                                          *)
Bound(type, identity) ==
  /\ {"payload", "intent"} \subseteq identity
  /\ type \in ApprovalBound \cup IdempotencyBound => "approval" \in identity
  /\ type \in IdempotencyBound => "key" \in identity

(* WriteAuditRecorder.record: the event is taken, or it raises. *)
Recorded(type, identity) ==
  LET t == Append(hostRec, Event(type, identity))
  IN /\ Bound(type, identity)
     /\ \/ AppendEvent(HostExec, t) /\ hostRec' = t
        \/ AppendFails(HostExec, t) /\ UNCHANGED hostRec

hostFrame == <<conf, up, pending, submits, pc, job, rec, status, answer, progress, snaps,
               faults, runs>>

HostMayRecord == up /\ Len(hostRec) < MaxWrites

RecordWrite(type, identity) ==
  /\ HostMayRecord
  /\ type \in WriteEvents
  /\ Recorded(type, identity)
  /\ UNCHANGED <<hostFrame, summary>>

VerificationEvent(s) ==
  IF s = "VERIFIED" THEN "WRITE_VERIFIED" ELSE "WRITE_VERIFICATION_FAILED"

(* Mutant: the summary is handed out although the event was not stored. *)
RecordVerificationAnyway(s, identity) ==
  /\ HostMayRecord
  /\ Recorded(VerificationEvent(s), identity)
  /\ summary' = s
  /\ UNCHANGED hostFrame

(* record_verification: the summary is returned after the event is stored.  *)
(* (One that was not requested is returned at once and leaves no event.)    *)
RecordVerification(s, identity) ==
  /\ HostMayRecord
  /\ s # "NOT_REQUESTED"
  /\ Recorded(VerificationEvent(s), identity)
  /\ summary' = IF hostRec' = hostRec THEN summary ELSE s
  /\ UNCHANGED hostFrame

----------------------------------------------------------------------------
(* Operations on the file, and the process *)

(* delete_execution, purge_expired; the workers and the host go on. *)
Remove ==
  /\ up
  /\ (\E e \in Execs : DeleteExecution(e)) \/ PurgeExpired
  /\ UNCHANGED workVars

RemoveFails == up /\ RemovalFails /\ UNCHANGED workVars

(* The process dies and everything but the file is gone.  To die in a write *)
(* is to die right after that write has failed.                             *)
Crash ==
  /\ up
  /\ Fault
  /\ up' = FALSE
  /\ pc' = [w \in Workers |-> "idle"]
  /\ job' = [w \in Workers |-> None]
  /\ rec' = [w \in Workers |-> << >>]
  /\ status' = [w \in Workers |-> None]
  /\ answer' = [w \in Workers |-> "none"]
  /\ pending' = {}
  /\ progress' = [e \in Execs |-> << >>]
  /\ snaps' = 0
  /\ hostRec' = << >>
  /\ summary' = None
  /\ submits' = 0
  /\ UNCHANGED <<storeVars, conf, runs>>

Restart ==
  /\ ~up
  /\ Open
  /\ up' = TRUE
  /\ UNCHANGED <<conf, pending, submits, pc, job, rec, status, answer, progress, snaps,
                 hostRec, summary, faults, runs>>

Tick == StoreTick /\ UNCHANGED workVars

----------------------------------------------------------------------------

WorkerStep(w) ==
  \/ PublishStarted(w) \/ ResolveFails(w) \/ PublishResolved(w) \/ PublishRunning(w)
  \/ Reject(w) \/ Start(w) \/ RunFails(w) \/ CallTool(w)
  \/ (\E v \in Answers : ToolReturns(w, v)) \/ ToolFails(w) \/ Cancel(w)
  \/ Finish(w) \/ Fail(w) \/ PublishTerminal(w)

WorkNext ==
  \/ \E p \in Payloads : Submit(p)
  \/ \E w \in Workers : WorkerStep(w) \/ \E p \in Payloads \cup pending : Deliver(w, p)
  \/ \E i \in Identities : \/ \E type \in WriteEvents : RecordWrite(type, i)
                           \/ \E s \in Verifications :
                                RecordVerification(s, i)
  \/ Remove \/ RemoveFails \/ Crash \/ Restart \/ Tick

WorkSpec == WorkInit /\ [][WorkNext]_vars

----------------------------------------------------------------------------
(* Properties *)

(* However often a job is delivered, to however many workers, before and    *)
(* after crashes, its body is begun once: the first event of a second run   *)
(* does not continue the chain of the store.  Only the removal of records   *)
(* takes this away: of those of the execution itself, or one that fails.    *)
RunsOnce == \A e \in Execs : Owed(e) => runs[e] <= 1

(* What the progress sink has been told of an execution is gapless, ends at *)
(* a terminal state, and says COMPLETED only if the stored trail does: no   *)
(* second delivery and no failing port turns a failed run into a completed  *)
(* one.                                                                     *)
ProgressTellsTruth ==
  \A e \in Execs :
    /\ \A k \in DOMAIN progress[e] :
         progress[e][k] \in TerminalStates => k = Len(progress[e]) /\ k \in {2, 4}
    /\ Len(progress[e]) = 4 /\ Owed(e) =>
         (progress[e][4] = "COMPLETED") = (LastType(accepted[e]) = "EXECUTION_COMPLETED")

EndEvent(s) == CASE s = "COMPLETED" -> "EXECUTION_COMPLETED"
                 [] s = "REJECTED" -> "EXECUTION_REJECTED"
                 [] OTHER -> "EXECUTION_FAILED"

(* An envelope and a verification summary are handed out only when the      *)
(* store has confirmed the events they rest on, and these are the last of   *)
(* their execution, whatever other recorders have tried to add, as long as  *)
(* the store answers for the records.                                       *)
AnswersAreOnRecord ==
  /\ \A w \in Workers : answer[w] = "envelope" =>
       LET e == job[w].exec IN
       /\ LastType(rec[w]) = EndEvent(status[w])
       /\ Owed(e) => accepted[e] = rec[w]
  /\ summary \in {"VERIFIED", "FAILED"} =>
       \E k \in DOMAIN hostRec :
         /\ hostRec[k].type = VerificationEvent(summary)
         /\ {"approval", "key"} \subseteq hostRec[k].value
         /\ Owed(HostExec) => Prefix(SubSeq(hostRec, 1, k), accepted[HostExec])
=============================================================================
