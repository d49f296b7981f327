# NeX Skill Language: a TLA+ verification project

NeX Skill Language (NSL) runs *Skills*: small programs that read business data through
tools, check it, and, since v0.2, may perform **one controlled WRITE**. A WRITE is
allowed only after every check passed, a person approved exactly this payload, a policy
and a business precondition are current, an idempotency key is reserved and the request
is on durable record; afterwards the program has to say truthfully whether the write
happened. That path crosses process boundaries (a run stops at the approval and another
process resumes it), depends on files, clocks and an external provider, and is the part
of the system where a wrong interleaving costs most. It is what this project models
first. Around it are modelled the engine that runs the statements of a Skill, the worker
that takes jobs from a queue and the audit file that everything is recorded in, the
replay of recorded executions, the execution in a process of its own, and the supply of
Skills: composition from included sources, packages, signatures and trust. Section 1 is
the inventory, section 6 says what is left out.

All paths are relative to the repository root (`src/` here).

## 1. Inventory

| Component | State | Operations | Hard behaviour | What makes it correct |
|---|---|---|---|---|
| Approval suspension and resume (`nsl/approval.py`, `nsl/cli_controlled.py`) | checkpoint, request, claim and consumed files of an execution; approval evidence | start (save, publish), resume (claim, validate, release or consume) | several processes on the same files, crashes between file operations, evidence of other executions, expiring approvals | one resume per checkpoint, only on a decision for this execution and payload, no claim left behind |
| Write guard and pre-write decision (`nsl/validation.py`) | none (pure), over check results and evidence | evaluate | long chains of early returns, expiry boundaries, incomplete data | allows exactly the requests that satisfy every condition; asks for approval only when nothing else is missing |
| Idempotency (`nsl/idempotency.py`) | reservations by key, behind a port | reserve | two executions of one business operation, retention that ends | one key, one payload |
| Write execution (`nsl/write_execution.py`) | request and outcome evidence, execution context | build, execute, finalize | provider that answers late, wrongly or never; ports that raise; crash between two calls | no call without controls; an effect is never denied and never invented |
| Verification and completion (`nsl/verification.py`, `nsl/runtime.py` complete_controlled_execution) | result of the execution | verify, complete | verification that fails after the commit, suffix that raises | a commit stays a commit, unverified data are not emitted |
| Checkpoint codec (`nsl/checkpoints.py`) | none | save, restore | deadline after a restore, schema drift | restore gives back what was bound |
| Runtime engine (`nsl/runtime.py`, `nsl/runtime_models.py`) | bindings, counters, completeness, summary | statements, reads, limits | a limit or the deadline hit in the middle of a read, a sink that raises, a tool that never answers | result and audit trail agree; a PASS rests on complete data; limits hold; every run ends |
| Audit trail (`nsl/audit.py`, `nsl/audit_persistence.py`, `nsl/write_audit.py`) | hash chains of all executions in one JSONL file, their tails in memory | append, open, purge, delete | a write that fails or is cut short, a rewrite that dies, a restart with a tail from the file | what was confirmed is kept; a broken chain does not open |
| Worker, jobs and progress (`nsl/worker.py`, `nsl/integration.py`, `nsl/dispatch.py`) | pending jobs, progress per execution, the trail of each recorder | submit, deliver, execute, publish | a job delivered again or to two workers, a sink that fails, a cancelled or dying worker | a job runs once; progress, envelope and audit tell the same story |
| Snapshots (`nsl/replay.py`, `nsl/protected_snapshots.py`) | values by id, in memory, sealed where classified | put, get, delete, purge | ids that a restarted store gives out again, expiry | a reference never leads to another value |
| Replay (`nsl/replay.py`, `nsl/cli_replay.py`, `nsl/write_replay*.py`) | recorded calls, bundles, packages, sealed WRITE evidence | record, bundle, export, import, replay, compare | divergence from the recording, evidence of several operations put together | a match means the same calls, a replay is told what was recorded |
| Process isolation (`nsl/process_isolation.py`, `nsl/cli_isolation.py`) | one child process and a pipe | execute | timeout against a late frame, a child that dies in the middle of one | a result is reported only if the child produced it; the parent always answers |
| Packages and trust (`nsl/nsp*.py`, `nsl/trust.py`, `nsl/preflight.py`) | packages, trust store, trust evidence, resolver | build, verify, issue, revoke, preflight | trust that changes between check and use, packages put together from parts | nothing writes that was not built, signed and trusted |
| Includes (`nsl/includes.py`) | visited and active sources, edges, merged declarations | build, compose | cycles, diamonds, escapes, files edited while they are read | the Skill is the closure of its root; refused only for cause |
| Compiler front end (`nsl/syntax.py`, `nsl/compiler.py`, `nsl/ir*.py`, ...) | none | parse, resolve, lower | scoping | rejects what the runtime must not see |

How they interact: the runtime engine runs a Skill up to its WRITE;
`ApprovalSuspensionCoordinator.suspend` saves the checkpoint and publishes the request
through ports, which for the command line are files (`FileControlledStatePort`). Some
other process calls `resume_controlled_run` with evidence; the coordinator claims the
checkpoint, restores and validates, and consumes or releases the claim. The host takes
the returned context, reserves the idempotency key, evaluates the guard, builds the
request and calls the executor; the executor records the request, calls the provider,
normalises and records the outcome; the verifier reads back; the runtime completes.
Every arrow is an `await` on an injected port, so anything may happen between two steps.
Every step of a run and of a WRITE is an event in the audit file before the next one; the
worker puts the engine behind a queue and publishes progress beside it. A recorded run
leaves its tool results in a snapshot store, from which a replay answers the same calls.
What runs at all comes from a source bundle or from a verified package.

## 2. Modules

| Module | Models | State and actions |
|---|---|---|
| `ControlledBase` | identities and the clock shared by all | `now`, `Tick`; `Key`, `ApprovalRequestId`, `Expired` |
| `WriteControls` | the pure decisions: `PreWriteEvaluator`, `WriteGuard`, `ApprovalEvidenceValidator`, `IdempotencyRetentionValidator`, the check summary | operators only |
| `ApprovalResume` | start and resume over the files | `checkpoint`, `request`, `claim`, `consumed` (the files), `evidence`, `granted` (a history), and per process `pc` and `job`; one action per file operation |
| `SingleConsumer` | what `ResumeCheckpointPort` promises: a lease that is spent once | `holder`, `spentBy`, `served` |
| `WriteExecution` | from the resumed context to the result | memory of the host (`stage`, `context`, `outcome`, ...), durable evidence (`reservation`, `requested`, `journal`), the provider (`call`, `answer`, `memory`, `effects`) |
| `ControlledWrite` | composition: the resume that consumed a checkpoint hands its context to the WRITE | the union; `HandOver` is the one joint step |
| `WriteDecision` | a host that assembles a `WriteGuardRequest` with deviations | `checks`, `data`, `rq`, `t` |
| `SkillRuntime` | one call of `RuntimeEngine.execute` | `stack` of frames with their bindings, `meter`, `data` (completeness), `checks`, `outputs`, `trace` (the audit events), `phase` and `cause` (the exception on its way up); one action per statement kind and per way a READ can end |
| `AuditStore` | `JsonlAuditStore` | `file` (lines, some torn), `ended` (it ends with a newline), `tails`, histories of what was confirmed and removed and of rewrites that went wrong (`cut`, `misread`); append that succeeds, fails or is refused, delete, purge, a rewrite that is cut, open |
| `JobWorker` | `SkillExecutionWorker.execute`, the dispatcher, the progress sinks, the recorders of runs and of `WriteAuditRecorder`; extends `AuditStore` | per worker `pc`, `job`, `rec` (the trail of its recorder), `status`, `answer`; `progress`, `snaps`, the host's `hostRec` and `summary`; one action per step of `execute`, `Cancel`, `Crash`, `Restart` |
| `Snapshots` | `InMemorySnapshotStore`, `ProtectedSnapshotStore` | `items`, `counter`, `now`; put, get, delete, purge, restart |
| `Replay` | recording, `create_replay_bundle`, the replay package, `replay_and_compare` | `run`, `recorded`, `bundle`, `package`, `rep`, `report` |
| `WriteReplay` | composer, loader and session of WRITE evidence, `MockWriteExecutor` | `bundles`, `session`, `asked`, `decided` |
| `ProcessIsolation` | `ProcessIsolatedRuntime.execute`, `_isolated_entry`, `run_isolated_cli` | `parent`, `child`, `pipe`, `open`, `exitcode`, `result`, `answer`; one action per call that can block or be seen from the other side |
| `PackageTrust` | `NspBuilder`, `NspVerifier`, trust evidence, `VerifiedPackageSkillResolver`, the trust preflight | `built`, `store`, `installed` (a history of the stores in use), `clock`, `verified`, `held`, `resolver`, `write` |
| `Includes` | `SourceBundleBuilder`, `SourceComposer` | `stack` of visits, `visited`, `active`, `fragments`, `edges`, `disk`, `merged`, `refusal`; one action per way a declaration can end |
| `ApprovalResumeProofs`, `WriteExecutionProofs`, `ControlledWriteProofs`, `WriteDecisionProofs`, `SkillRuntimeProofs` | theorems about the module of that name | |
| `JobWorkerProofs` | theorems about `AuditStore` and `JobWorker` | |
| `SupplyProofs` | theorems about `PackageTrust` and `Includes` | |
| `ReplayProofs` | theorems about `Replay`, `WriteReplay` and `ProcessIsolation` | |
| `MCApproval`, `MCWrite`, `MCControlled`, `MCRuntime`, `MCWork` | small instances | |
| `MCReplay`, `MCSupply` | small instances of components that share no state: `mode` chooses the one a behaviour is about | |

Correspondence and abstraction, where a reader may wonder:

- **File operations are the atomic steps.** `_write_once` is an existence test, the
  exclusive creation of a temporary file and a rename; `claim` is a test for the consumed
  file and an exclusive create. A process may stop between any two. The temporary file is
  no state of its own: a process that is between the two halves (`saveReplace`,
  `publishReplace`) has its content in its `job`, and that a temporary file of another
  process is in the way, or was removed by it, is a failure that `WriteOnceFails` may
  choose at any time.
- `BeginResume` merges loading the documents with the consumed test of `claim`. The
  consumed file never disappears, and the intent the caller would write now is arbitrary,
  so every later reading is also covered.
- The ownership test inside `release` and `consume` raises in a state that
  `ExclusiveClaim` (proved) says is never reached; the model therefore has no such step.
- All processes use the default claim id of the command line (`nsl-cli-resume-claim`).
- An intent stands for the payload and its hashes; hashing is taken to be injective.
  Two runs with the same intent can still write different checkpoint bytes.
- `Reserve`, `Guard`, the executor and the verifier are called in this order by the
  *host*; the repository shows the order in its tests and scenarios, not in one function.
- A port that raises, returns a foreign or non-durable receipt, and a process that dies
  are actions of their own, bounded by `MaxWriteFaults` and `MaxCrashes`. What a failing
  port did before it raised is a choice: the record may or may not be there.
- The provider is external. Its duplicate semantics (recorded result for the same
  payload, refusal for another, until the retention guarantee ends) is what the tool
  contract demands; afterwards it may forget a key.
- `NO_CHECK` is not blocked by `PreWriteEvaluator`; asking an approver
  (`_validated_pre_write`) needs `ALL_PASS` and complete data. Both are modelled as
  they are.

- In `SkillRuntime` a Skill is data: blocks of statements with the symbols they use. A
  value is its completeness, its number of elements and the calls it comes from; an
  expression is the combination of the values it uses, or a step that fails
  (`EvaluationFails`, the only way on for a symbol that is not bound: `Evaluable`). A
  builtin takes exactly one argument and keeps its
  completeness.
- `Emits` is `AuditRecorder.emit` together with the snapshot stored for the event: either
  both are done or the run fails there. A sink that writes and then raises belongs to the
  audit store. Frames are popped by `finally` on the way up; the model pops them in
  `Conclude`, before anything can look at them.
- Time passes between any two steps. In `ToolReturns` it may also pass while the event is
  recorded, because `_evaluate` looks at the deadline once more after `_execute_read`.
- The prefix of a controlled Skill runs through the same engine; its suffix is the one
  step of `WriteExecution`.
- Hashes are identified with what they cover, everywhere. An audit event covers its
  predecessor, so it *is* its trail: sequence number and previous hash follow. The hash
  of a package is its manifest, a snapshot's hash its value. A signature says which hash
  it is over, under which key id, and which private key made it, so that a signature by
  another key of the same id exists and has to be noticed.
- A run inside `JobWorker` is its waits and its audit events (authorization, start, one
  tool call, end); `SkillRuntime` has the rest. A failing write leaves nothing, part of a
  line, or the whole line without its confirmation, and an unfinished line is glued to
  the next one. A line that is no record is `Torn`. A rewrite keeps lines by their
  numbers (`Keep`); what it does to `tails` when the chain verification behind it raises is
  in `Rewrite`.
- `Owed(e)` says for how long the store answers for the records of an execution: they were
  not removed, no rewrite was cut short, and a rewrite whose verification raised has left a
  file that verifies again. The invariants of `JobWorker` that compare with `accepted` hold
  as long as that is so; see *Known deviations* for what happens otherwise.
- `Replay` sees the engine as a function from the calls and their answers to a result;
  what a CHECK tells apart of a value is its completeness and one of two values. A later
  runtime may ask with other arguments or leave out a call.
- In `WriteReplay` an operation stands for what all pieces of evidence name: business
  operation, approval request and intent (whose hash covers Skill, node, tool and payload).
  The execution, the invocation and the idempotency key are fields of their own, because
  not every piece names them: an approval names no invocation, an outcome and a
  verification no execution, and two executions of one operation have the same key. A host
  may assemble a bundle from the records of several composed ones.
- In `ProcessIsolation` the frame becomes visible in two steps, and the child may die
  between them.
- In `Includes` a source id is path and content, as in the code. The resolver reads the
  file at every declaration; what a file holds is chosen at the first read and may be
  edited later (`MaxEdits`). Bytes that are not UTF-8 make `build` raise rather than
  refuse. A resolver may also stray and give back a path of its own. The properties count
  bytes and limits blocks as sizes of sets of pairs (source, number), so that a source
  counts once however often it is included.
- In `PackageTrust` the trust store can be replaced at any time, evidence is checked at a
  time and under a profile that the caller chooses, and packages are received in any
  combination of the parts of packages that were built, each member from any of them. All
  four limits of `NspVerificationLimits` are there: bytes of the archive, number of members,
  bytes of a member, bytes in total. manifest.json and signature.json count towards each of
  them. Their sizes, and what the ZIP format adds, are computed from the number of entries
  and members (`Bytes`); that they also vary with the lengths of the names in them is left
  out.

The operators named as mutants (`...Shared`, `...Optimistic`, `...Lenient`, ...) stand
before the definition they vary. They are not part of any specification: each is a
plausible slip in that piece of code, kept to show that the property notices it.

## 3. Runs

| Run | Instance | What it shows |
|---|---|---|
| `approval_race` | 2 processes, 1 execution, 2 intents, TTL 1, clock 0..1, 1 crash; processes are symmetric | `ExclusiveClaim`, `AtMostOneResume`, `ApprovedAsDecided`, `SavedBeforePublished`, `NoLeakedClaim` |
| `approval_lease` | 3 processes, 1 crash, fair | the files refine `SingleConsumer` (`ImplementsLease`); a claim is resolved unless a process dies (`ClaimResolved`) |
| `write_path` | 2 executions of one operation, 2 payloads, clock 0..2, 2 faults | `InvokedUnderControls`, `OneEffectPerOperation`, `NeverDenied`, `ReportedCommitIsReal`, `VerificationKeepsCommit`, `OutcomeOnRecord` |
| `controlled_write` | both paths, 2 executions, 2 payloads, 1 process that may crash once and return, 1 crash or failing port of a WRITE, 2 decisions of approvers, clock 0..1 | `WriteImpliesDecision` (a provider call goes back to an approval of that execution and payload, through a fresh hand-over), and refinement of `WriteSpec` (`ImplementsWrite`) |
| `write_decision` | 2 checks, 2 tenants, operations and payloads, up to 3 deviations from a good request | `AllowedExactly`, `OnlyApprovalMissing` (which includes that the checks decide before an approver is asked) |
| `skill_run` | 11 Skills (a loop with READ, CHECK and EMIT under each limit in turn, v0.1 and v0.2, a nested loop, rebindings), 4 answers, duration 2, 2 failing ports, fair | `ResultMatchesTrace`, `EvidenceOnTrail`, `CompletenessIsHonest`, `WithinLimits`, `LateRunStartsNothing`, `RunEnds` |
| `worker` | 1 job (of 3) or a document that is none (7), delivered any number of times to 2 symmetric workers, submitted again after a crash, with and without progress and snapshots; a host that records WRITE evidence of another execution in the same file, beside at most one of the workers; clock 0..1, retention 1 and 2, 1 damaged write, 1 failing port, cancellation or crash | `ConfirmedIsKept`, `RunsOnce`, `ProgressTellsTruth`, `AnswersAreOnRecord` |
| `recorded_runs` | 2 calls, 3 answers, 3 runtime versions, 5 snapshots, 2 principals, retention 1, clock 0..1; 3 operations (one carried out by two executions, one rejected), an outcome that names another invocation than its request, 2 bundles; 3 responses of a child; fair | `ReplayUsesRecorded`, `MatchMeansSameCalls`, `ReplayReproduces`; `EvidenceIsOneOperation`, `CompleteReplayIsRecorded`; `IsolatedAnswerIsTrue`, `IsolationEnds` |
| `skill_supply` | a root and 3 files in 2 directories, 25 roots with up to 2 includes, depth 2, 3 files, 4 bytes, 1 edit; 3 artifacts, 2 keys of one id, 2 packages, 3 policies, 4 limits, 4 profiles, clock 0..1 | `BundleIsClosure`, `RefusedForCause`; `BuiltVerifies`, `VerifiedIsBuilt`, `TrustedWriteIsSigned` |

Why the bounds are enough to be interesting. Two processes meet every pair of file
operations in either order; a third lets a call that tested early come back after two
others have finished, which the lease run needs. Two executions of one operation are
what it takes to share an `ApprovalRequestId` and an idempotency key; two payloads are
what it takes to mix them up. The clock needs one instant before and one at an expiry,
and a third for a guarantee that ends after the call. One crash is enough to orphan a
claim; two faults allow a port failure in each execution or a crash after one. In
`controlled_write` the one process can die between `consume` and the WRITE, come back and
try both executions again; two decisions (`FewDecisions`) are one for each execution, or an
approval and a rejection of one. Two processes at once are more states than TLC gets through
in minutes, and are covered by the proofs of section 5. Three
deviations reach every pair of conditions of the guard plus a change of time. In
`skill_run` two iterations are what it takes for one iteration's completeness, counters
and bindings to meet the next one's; a duration of two ticks with a contract timeout of
one gives calls that are limited by either; the answers cover a complete, a partial, an
unknown and empty, and a too large collection; the second failing port is the one that
fails while the first failure is being recorded. `NestingMax` is 2 instead of 16 so that
a small Skill reaches it.

In `worker` two workers with one job meet in every step of `execute`, and the second
execution is what a purge must leave alone, at every place in the file. One fault is a
crash, a cancellation or a failing port; the damaged write comes on top, so that a crash
can follow it. The constraint `Focus` leaves out what comes after a rewrite that was cut
short, which is the subject of the run `audit_loss`, and the host beside two workers at
work or beside the worker without progress: the host and the workers share nothing but
the file, and two workers, and the host with a worker, are covered. In `recorded_runs` five snapshots
are the answers of the two calls and the three values of a bundle, and a restarted store
gives the same ids out again; two bundles are what it takes to mix them. Approval, request,
outcome and verification of the second execution are offered for the first one's bundle. In
`skill_supply` the names make two directories reach different files by the same name, the
same file by different names, and one leave the include root; three files and four bytes
are less than the graph with its edited versions can use. Each of the four limits of the
verifier is one less than the largest package needs in one of the instances, and at what it
needs in the others. Both runs choose by `mode`
which of their components a behaviour is about: these share no state, so nothing is lost.

Fairness. `FairApprovalSpec` assumes of each process that it continues a call it is in:
nothing in these calls blocks, they only touch files. No fairness is assumed of approvers,
of the clock or of the WRITE path: the code awaits its ports without a timeout
(`write_execution.py:463`, `:478`, `:879`, `verification.py:237`), so that a WRITE ends is
nothing it guarantees, and no such property is stated. `FairRuntimeSpec`
assumes that the event loop continues a run that has something to do and that the timer
of `asyncio.wait_for` fires; it assumes nothing of the tools, which may never answer. (A
tool that blocks the event loop or swallows its cancellation is outside of this.)
`FairMCSpec` of `MCReplay` assumes of an isolated execution that the parent continues
(its poll has a timeout, `terminate` and `join` follow) and that a child that has left
its target, because it returned, raised or was told to exit, goes on to its end; the
target itself may hang for ever. Deadlock is not checked: a run that has ended, a
replay that was reported, or an approval nobody gives, is a legal end.

## 4. Where the code and its documentation disagree

Each of these is a run in which TLC finds the documented statement violated.

- `check_in_loop` — a CHECK inside a FOREACH appends one result per iteration, all with
  one check id. The v0.2 summary (`ValidationSummary.from_checks`) refuses duplicate ids
  by raising; the failure handler records EXECUTION_FAILED and builds the summary again,
  so `execute` raises `ValueError` and there is no structured result. A v0.2 form of
  `examples/project_budget_check.ns` with two parents does this; in v0.1 it completes.
- `audit_loss` — `purge_expired` and `delete_execution` rewrite the audit file in place. A
  process that dies between two lines leaves a file in which every chain is intact up to
  its end, and the next process opens it, although confirmed events of an execution that
  nobody deleted are gone. The documentation says that damage is refused on reopening.
- `portable_replay` — the package of `nsl run --replay-out` keeps the value of a recorded
  tool result and not its completeness; `nsl replay` reads every result as COMPLETE. A
  CHECK that was UNKNOWN because its data were partial has another status in the replay.

### Known deviations

Behaviours of the models that a reader of the code may not expect. They follow from the
code as it is; no property of a passing run is violated by them.

Controlled WRITE:

- The consumed test of `claim` and the creation of the claim file are two steps
  (`cli_controlled.py:95`), so an already consumed checkpoint can be claimed again and its
  approval status set. The second `consume` raises, and `AtMostOneResume` (proved) holds.
- A process that dies after `claim` leaves a file that nothing removes
  (`cli_controlled.py:106`): no operation of the port recovers a claim. `ClaimResolved`
  therefore excludes crashes.
- The request carries an expiry computed at each start, so publishing the same
  `ApprovalRequestId` again collides instead of being idempotent (`cli_controlled.py:550`).
- Two starts of one execution can pass the existence test of `_write_once` together
  (`cli_controlled.py:625`); the checkpoint that survives may not be the one the published
  request is for. An approval still releases only the intent it was given for.
- The guard reads the clock before the request evidence is persisted; nothing compares it
  again before the provider is called (`write_execution.py:462`).
- The evidence ports, the provider and the verification port are awaited without a timeout
  (`write_execution.py:463`, `:478`, `:879`, `verification.py:237`). A port that never
  answers keeps the execution open, with its checkpoint consumed and its key reserved;
  timeouts are the host's.

Audit file and worker:

- An append that fails in the middle leaves part of a line without a newline; the next
  append of the same process continues that line, and the file does not open any more.
- `_load_and_verify` clears the tails before it reads (`audit_persistence.py:139`). When a
  removal rewrites a file in which a failing write has broken the chain of one execution,
  it raises there, and the store goes on with the tails of the lines before. An execution
  whose records come later in the file then has no tail: its chain can be begun a second
  time in the same process, although nothing of it was removed, and the file does not open
  any more. It takes three executions (one broken, one removed, one that suffers), which the
  run `worker` does not have; it came up when `RunsOnce` was to be proved, and TLC confirms
  it on an instance with three. `RunsOnce` and its companions therefore speak of executions
  that are `Owed`.
- A progress sink that fails in the middle of a run leaves a job that cannot publish
  again: the next delivery starts with sequence 1 and is refused before it runs.

Replay and isolation:

- The recorder stores the snapshot of a call after the provider has answered; a call that
  fails unexpectedly is not recorded, and the replay of such an execution can match
  although it has one call less. `MatchMeansSameCalls` is about completed executions.
- When sealing fails after some pieces of evidence are stored, these stay in the store
  until they expire.
- A verification is bound to the operation and its idempotency key, not to the execution or
  the invocation (`write_replay.py:589`): evidence of one execution is accepted with the
  verification of another execution of the same operation. An outcome is accepted by the
  composer in the same way, but the session refuses it unless it is that of the request
  (`write_replay_execution.py:66`).
- A frame that arrives between the end of the poll and the test whether the child is
  alive is dropped; the result is TIMED_OUT, or PROTOCOL_ERROR if the child has gone,
  although there was one. After a
  frame the parent joins the child without a limit, and a child that then exits with
  another code than 0 makes the result CRASHED.

Includes:

- The depth limit is tested only on the path by which a source is visited first
  (`includes.py:277`), so the order of the declarations decides whether a graph with a
  diamond is accepted.
- In the root source, of two declarations of one context or one required tool the last
  silently wins when an include is present (`includes.py:330`); without an include the same
  source is rejected.
- A file that is edited between two reads of a diamond is in the bundle in both versions.

## 5. Proofs

Eight modules hold theorems checked by TLAPS. They hold for every value of the constants
that satisfies the named assumptions: any number of processes, executions, payloads,
keys, artifacts, Skills, sources and answers, and any bound on clocks, crashes, faults and
edits. Every invariant, every refinement and every action property of the passing runs is
among them; only the liveness properties are left to TLC.

| Theorem | States |
|---|---|
| **`ApprovalResumeProofs`** | |
| `ApprovalTypeCorrect` | `ApprovalSpec => []ApprovalTypeOK` |
| `ClaimIsExclusive` | `ApprovalSpec => []ExclusiveClaim` |
| `ResumedAtMostOnce` | `ApprovalSpec => []AtMostOneResume` |
| `ApprovedOnlyAsDecided` | `ApprovalSpec => []ApprovedAsDecided` |
| `SavedFirst` | `ApprovalSpec => []SavedBeforePublished` |
| `NoClaimLeaks` | `ApprovalSpec => []NoLeakedClaim` |
| `FilesImplementLease` | `ApprovalSpec => ImplementsLease`: the files refine `SingleConsumer` |
| **`WriteExecutionProofs`** | |
| `WriteTypeCorrect` | `WriteSpec => []WriteTypeOK` |
| `CallsAreControlled` | `WriteSpec => []InvokedUnderControls` |
| `EffectsAreSingle` | `WriteSpec => []OneEffectPerOperation` |
| `EffectsAreNeverDenied` | `WriteSpec => []NeverDenied` |
| `CommitsAreReal` | `WriteSpec => []ReportedCommitIsReal` |
| `CommitsSurviveVerification` | `WriteSpec => []VerificationKeepsCommit` |
| `OutcomesAreOnRecord` | `WriteSpec => []OutcomeOnRecord` |
| **`ControlledWriteProofs`** | |
| `ControlledImplementsApproval` | `ControlledSpec => ApprovalSpec` |
| `ControlledImplementsWrite` | `ControlledSpec => ImplementsWrite`, that is `WriteSpec` |
| `WriteRestsOnDecision` | `ControlledSpec => []WriteImpliesDecision` |
| **`WriteDecisionProofs`** | |
| `GuardAllowsExactly` | `DecisionSpec => []AllowedExactly` |
| `ApprovalIsAllThatIsMissing` | `DecisionSpec => []OnlyApprovalMissing` |
| **`JobWorkerProofs`** | |
| `StoreKeepsConfirmed` | `StoreSpec => []ConfirmedIsKept`: under any client of the store |
| `WorkImplementsStore` | `WorkSpec => StoreSpec` |
| `WorkKeepsConfirmed` | `WorkSpec => []ConfirmedIsKept` |
| `WorkRunsOnce` | `WorkSpec => []RunsOnce` |
| `WorkProgressTellsTruth` | `WorkSpec => []ProgressTellsTruth` |
| `WorkAnswersAreOnRecord` | `WorkSpec => []AnswersAreOnRecord` |
| **`SupplyProofs`** | |
| `BuiltPackagesVerify` | `TrustSpec => []BuiltVerifies`: for any limits |
| `VerifiedPackagesAreBuilt` | `TrustSpec => []VerifiedIsBuilt` |
| `TrustedWritesAreSigned` | `TrustSpec => []TrustedWriteIsSigned`: signed with the key that a trust store had under the id |
| `ComposedBundleIsClosure` | `IncludeSpec => []BundleIsClosure` |
| `RefusalsHaveCause` | `IncludeSpec => []RefusedForCause` |
| **`ReplayProofs`** | |
| `IsolatedAnswersAreTrue` | `IsolationSpec => []IsolatedAnswerIsTrue` |
| `CompleteReplaysAreRecorded` | `WriteReplaySpec => []CompleteReplayIsRecorded` |
| `EvidenceOfOneOperation` | `WriteReplaySpec => []EvidenceIsOneOperation` |
| `ReplaysUseRecorded` | `ReadSpec => []ReplayUsesRecorded` |
| `MatchesMeanSameCalls` | `ReadSpec => []MatchMeansSameCalls` |
| `ReplaysReproduce` | `ReadSpec => []ReplayReproduces` |
| **`SkillRuntimeProofs`** | |
| `RunsStayWithinLimits` | `RuntimeSpec => []WithinLimits` |
| `ResultsMatchTrace` | `RuntimeSpec => []ResultMatchesTrace` |
| `LateRunsStartNothing` | `RuntimeSpec => LateRunStartsNothing` (an action property) |
| `EvidenceIsOnTrail` | `RuntimeSpec => []EvidenceOnTrail` |
| `CompletenessIsReported` | `RuntimeSpec => []CompletenessIsHonest`, if `ChecksStandAlone` |

`ControlledImplementsApproval` and `ControlledImplementsWrite` carry every theorem of the
first two modules over to the composed system. `WorkImplementsStore` does the same for the
store: `StoreSpec` (in `JobWorkerProofs`) lets any client append any trail, remove any set
of executions and reopen at any time.

### Assumptions

The only ones are the named assumptions of the modules, which TLC evaluates on the
instances of the runs. Mostly they give constants their types and say that the model
value for "nothing" is none of the values. Those with content:

- `WriteAssumption`: evidence is current until an instant, and a retention guarantee ends
  at one;
- `TrustAssumption`: the artifacts are finitely many and typed, and the semantic hash of a
  Skill determines whether it contains a WRITE (hashing is injective);
- `WorkAssumption`: every document that a queue delivers names an execution, and the host's
  one exists; `StoreAssumption`: every execution is kept for some time;
- `IncludeAssumption`: paths are sequences of names, what a source declares are finite
  sequences, its size and its number of limits blocks are natural numbers, and the root has
  at most one limits block (the parser gives a Skill an optional one, a fragment a list);
- `ReplayAssumption`: the recorded plan exists, and plans are finite sequences of calls;
- `RuntimeAssumption`: every Skill has a main block, its blocks are sequences, the body of
  a FOREACH is one of its blocks and the collection it runs over is among the symbols it
  uses, and its limits are natural numbers. The compiler's lowering and the IR loader
  guarantee this of every Skill that reaches the engine.

`CompletenessIsReported` has one hypothesis more, `ChecksStandAlone`: no statement uses
the status of a CHECK. `_execute_check` binds that status as a complete value whatever
its data were, so a CHECK that compares the statuses of two others can PASS on partial
data; with such a Skill the first part of `CompletenessIsHonest` does not hold, and is not
meant to. All Skills of the run `skill_run` satisfy the hypothesis.

### The inductive invariants

Each was checked by TLC on the instance of its run before it was proved.

*Approval.* Exclusion and single use are not inductive by themselves: that nobody has
been served twice rests on the consumed file of a served execution existing, and on the
call that is about to leave being the one that wrote it. `LeaseInv` therefore joins
`ExclusiveClaim` with `SpentOnce` (what `granted` and a call in `unclaim` say about
`consumed`) and `AtMostOneResume`. `DecidedInv` carries the decision from the validation
through the `consume` step to the outcome: the evidence set only grows and a call's
record is private to its process, so what `Validate` established still holds when the
outcome is returned. `SavedInv` adds to `SavedBeforePublished` that a process that is
about to publish has a saved checkpoint. `FilesImplementLease` maps the live call
that holds the claim (or an orphan, when only the claim file is left) to the holder of the
lease, the consumed file to who spent it and the length of `granted` to what was served;
each file operation is one step of the lease or none.

*WRITE.* `ControlInv` says what the host has secured when it is in a stage: from
`request` on the approval, from the reservation on that the key is reserved for its
payload, from `invoke` on the durable request. `ProviderInv` ties the provider's answer
and memory to its effects: an answer of COMMITTED is an effect, a key that is remembered
has one with that payload, and an effect whose key is forgotten is one whose guarantee has
lapsed; that is why a second effect needs a lapsed key. `OutcomeInv` follows the outcome
from the normalisation to the journal, the verification and the result, which is what
`NeverDenied`, `VerificationKeepsCommit` and `OutcomeOnRecord` look at.

*Composition.* Each simulation needs the other component's invariant (a hand-over is a
`BeginWrite` only because the resume that consumed the checkpoint is the first one), so
`ComponentInv` establishes both together, and the two refinements follow. `LinkInv` says
that an execution that has begun was served with its approval and intent;
`WriteImpliesDecision` follows with `ApprovedOnlyAsDecided`.

*Decision.* `DecisionInv` types the request and says that its evidence carries the
summary of the checks run so far. The theorem then is that the chain of early returns,
as a function of the request, allows exactly the conjunction of all conditions.

*Packages.* `BuiltInv` says what a package of the builder looks like (sorted members with
distinct ids, hash over the members, signature over the hash), `VerifiedInv` and
`ResolverInv` that what was accepted is such a package, signed with the key that one of the
trust stores in use until then (`installed`) had under its id, `HeldInv` that trust evidence
goes back to such a package (`SignedOrigin`). The step that matters is that the hashes of
parts taken from different packages agree only if the parts are those of one. That the
store is part of it is needed because it may be replaced between the verification and the
WRITE.

*Audit store.* `ConfirmedIsKept` speaks of a file that opens, but a removal can turn a file
that does not into one that does. `KeptInv` therefore speaks of each execution by itself:
as long as its own lines are a chain (`Chain`), what was confirmed of it is a prefix of
the trail of its last line, whatever has become of the others. `TailsInv` says that no tail
in memory is behind what was confirmed, so that a line which continues its tail continues
the confirmed trail; `CleanInv` that without a failing write file, tails and confirmed
events agree. The rewrite is the step with content: the lines that `Keep` keeps are in
their order, so the last line of an execution that stays is still its last, and a chain
that was whole or broken stays so.

*Workers.* `TrailInv` says of every execution whose records are intact (`OneRecorder`):
among all the recorders that are at it, of workers and of the host, only one has a trail
that is not empty, and that one is exactly what the store has confirmed; and the body was
begun at most once, and only if something is confirmed. It is why a second delivery cannot
start: the first event of a fresh recorder continues the empty trail, and the tail is not
empty any more. It needs the invariant of the store, since after a crash the recorder is
gone and the tail comes from the file. `PhaseInv` ties where a worker is to what its
recorder holds, `ProgressInv` the published states to the confirmed trail, `SummaryInv` the
host's summary to an event of its recorder.

*Includes.* `BuildInv` has one part per thing the builder keeps. `StackInv`: the active
sources are those on the stack, each once. `FragmentsInv`: the visited ones are the root
and the fragments, each once, and every fragment lies in the include root (`CanonicalWithin`
on `Walk`). `EdgesInv`: every visited source is reached from the root; the stack is a path;
an edge to an active source is a step of that path, so a source whose visit is over includes
only such sources; and there is no cycle. The last two need each other: an edge to a
source that was visited before closes no cycle because from there no edge leads back to
an active one. `FollowedInv`: the declarations of a source that were passed were followed.
`SumsInv` and `DiskInv`: the byte count is that of the visited sources, and without an edit
each of them is what the disk holds. `MergeInv` then follows the composer through the
fragments: what is merged so far, and that its limits blocks are counted once.

*Replay.* `IsolationInv` relates where the parent is to what can be in the pipe. For WRITE
evidence `SessionInv` keeps the calls that were asked in step with the recorded exchanges,
and `EvidenceInv` says that what the loader and the session have checked of the evidence
(`LifecycleOK`, and that the outcome names the request's invocation) stays so: a reference
names the digest of its value, so an id that was given out again does not open. `ReadInv` has one part per stage of recording, bundling,
exporting and replaying.

*Runtime.* Five layers, each using those before it. `CoreInv`: the meter is ahead of the
trail by at most one event and only in a failing run, the terminal event comes with the
result, statements opened and closed differ by the depth of the stack. `CallInv`:
invocations are numbered in order and only the last can be open. `FramesInv`: each frame is
in a block of the Skill, and every frame below the top runs a FOREACH whose collection is
still bound. `EvidenceInv`: whatever is bound comes from calls that are on the trail as
completed. `HonestInv`: a value that is complete and not the status of a CHECK comes from
complete answers, and as long as `data_completeness` is COMPLETE all answers were. The
step that makes the last two inductive is that the call which returns has a number that no
older value refers to (`CompletedBefore`).

### Only model-checked

- liveness: `ClaimResolved`, `RunEnds`, `IsolationEnds`. Fairness and `ENABLED`
  are out of the prover's reach;
- the three documented statements of section 4, which the code violates.

Two inductions over data could be avoided. What `Keep` keeps of a file is stated by the
places of the lines it keeps, and sums over sources by the size of a set, for which the
library has facts. The walk of a path (`Walk`) is a recursive function: that it exists and
that it stays below its floor is shown by least counterexample (`LeastNumber`: every
nonempty set of natural numbers has a least element), which needs no induction theorem with
an operator as its parameter.

The replay, isolation and package theorems are about the components' own specifications;
the runs `recorded_runs` and `skill_supply` check the same components, chosen by `mode`.

## 6. Not modelled, and the plan

Not modelled, because there is no state and no order of steps in it:

- the compiler front end (`syntax.py`, `compiler.py`, `ir.py`, `ir_schema.py`, the
  formatter and the artifact codec): functions from text to a tree and from a tree to
  bytes; their recursion is over syntax trees;
- static bounds and builtins: a recursion over the tree and arithmetic; the limits that a
  run meets are in `SkillRuntime`;
- the tool registry and the adapters: tables that are filled before a run; a lookup that
  fails and a tool that answers, fails or hangs are in `SkillRuntime`;
- screening for credentials and redaction: regular expressions over strings. That a job
  whose context holds a credential is refused is in `JobWorker`;
- canonical JSON, SHA-256, the codecs of results, checkpoints and outcomes, the
  encryption of protected snapshots: taken as injective, and as given;
- argument handling and output of the command line, the performance harness, the vertical
  slice and the quality scripts.

Modelled in part: the field by field comparison of `PostWriteVerifier` is one Boolean;
the suffix of a controlled Skill is one step that may raise; a checkpoint is what it
binds.

Every invariant, action property and refinement that a passing run checks is now also
proved (section 5); what stays with TLC is the liveness. What is left is to model more,
in this order:

1. the suffix of a controlled Skill statement by statement, instead of one step that may
   raise;
2. the field by field comparison of `PostWriteVerifier`, with the fields it may not read;
3. the retry of a start after a crash between save and publish, whose expiry is computed
   again, and the guard's clock that is read before the durable evidence is awaited: the
   two hazards of `PROJECT.json` that no property covers;
4. the codec of checkpoints, as what a decoder accepts and refuses.
