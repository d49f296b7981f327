---------------------------- MODULE SkillRuntime ----------------------------
(***************************************************************************)
(* RuntimeEngine.execute: one run of a Skill (or of the prefix of a         *)
(* controlled one), from the authorization to the ExecutionResult, with the *)
(* audit trail it leaves, its resource limits, and the ways the tools, the  *)
(* clock, the audit sink and the snapshot store can fail it.                *)
(*                                                                          *)
(* A Skill is a set of blocks of statements; the body of a FOREACH is a     *)
(* block of its own, run in a frame of its own.  A value is abstracted to   *)
(* what a ValueEnvelope says of it: how complete it is, how many elements   *)
(* it has (0 for a scalar), and the tool calls it comes from.               *)
(***************************************************************************)
EXTENDS Integers, Sequences, FiniteSets, WriteControls

CONSTANTS
  Skills,       \* the Skills that can be run
  Inputs,       \* the input and context symbols that every Skill declares
  NestingMax,   \* MAX_FOREACH_NESTING_DEPTH
  Timeout,      \* timeout_ms of the Tool Contracts, in ticks
  Results,      \* what a tool can return: completeness and size
  NoResult,     \* the call has not returned
  MaxClock,     \* the bound of the clock, for model checking
  MaxFaults     \* the bound of failing ports and cancellations

Completenesses == {"COMPLETE", "PARTIAL", "UNKNOWN"}
Statuses == {"COMPLETED", "FAILED", "TOOL_ERROR", "LIMIT_EXCEEDED"}

(* ExecutionResult; a run that raises to the host has the status RAISED. *)
ExecutionResults == [status : Statuses \cup {"RAISED"}, completeness : Completenesses]

ASSUME RuntimeAssumption ==
  /\ \A s \in Skills :
       /\ "main" \in DOMAIN s.blocks
       /\ \A b \in DOMAIN s.blocks :
            /\ s.blocks[b] \in Seq({s.blocks[b][k] : k \in DOMAIN s.blocks[b]})
            /\ \A k \in DOMAIN s.blocks[b] : s.blocks[b][k].kind = "FOREACH" =>
                 s.blocks[b][k].block \in DOMAIN s.blocks /\ s.blocks[b][k].over \in s.blocks[b][k].uses
       /\ s.limits \in [tools : Nat, loops : Nat, rows : Nat, collection : Nat, duration : Nat]
  /\ Results \subseteq [completeness : Completenesses, size : Nat]
  /\ NoResult \notin ExecutionResults
  /\ {NestingMax, Timeout, MaxClock, MaxFaults} \subseteq Nat

VARIABLES
  skill,        \* the Skill that is run
  phase,        \* what the engine does next
  stack,        \* the frames: block, next statement, items left, bindings
  clock,        \* monotonic time since the context was created
  meter,        \* _ResourceMeter: tool calls, loop iterations, emitted rows
  data,         \* data_completeness of the context
  checks,       \* the CheckResults, in order
  outputs,      \* the EmitRecords, in order
  limited,      \* the timeout of the call under way is the deadline
  trace,        \* the audit events that the sink has taken
  cause,        \* the status of the exception on its way up
  result,       \* the ExecutionResult, or NoResult
  faults        \* how many ports have failed

engineVars == <<phase, stack, meter, data, checks, outputs, limited, trace,
                cause, result, faults>>
runtimeVars == <<skill, clock, engineVars>>

----------------------------------------------------------------------------
(* Types *)

Phases == {"idle", "preflight", "bind", "block", "stmt", "loop", "call", "waiting",
           "after", "failing", "done"}
Terminal == {"EXECUTION_COMPLETED", "EXECUTION_FAILED", "EXECUTION_REJECTED"}
EventTypes == Terminal \cup
  {"EXECUTION_STARTED", "STATEMENT_STARTED", "STATEMENT_COMPLETED", "TOOL_STARTED",
   "TOOL_COMPLETED", "TOOL_FAILED", "CHECK_COMPLETED", "EMIT_COMPLETED"}

Values == [completeness : Completenesses, size : Nat, refs : SUBSET Nat]
Events == [type : EventTypes, call : Nat, completeness : Completenesses]

(* An event keeps what the properties tell apart: its kind, the invocation  *)
(* it belongs to (0 for none), and the completeness of a tool's result.     *)
Event(type) == [type |-> type, call |-> 0, completeness |-> "COMPLETE"]
CallEvent(type, n) == [Event(type) EXCEPT !.call = n]

RuntimeTypeOK ==
  /\ skill \in Skills
  /\ phase \in Phases
  /\ stack # << >>
  /\ \A k \in DOMAIN stack :
       /\ stack[k].block \in DOMAIN skill.blocks
       /\ stack[k].at \in 1 .. Len(skill.blocks[stack[k].block]) + 1
       /\ stack[k].left \in Nat
       /\ \A s \in DOMAIN stack[k].env : stack[k].env[s] \in Values
  /\ clock \in Nat
  /\ meter \in [tools : Nat, loops : Nat, rows : Nat]
  /\ data \in Completenesses
  /\ \A k \in DOMAIN checks :
       checks[k].status \in {"PASS", "FAIL", "UNKNOWN"} /\ checks[k].refs \subseteq Nat
  /\ \A k \in DOMAIN outputs : outputs[k] \subseteq Nat
  /\ limited \in BOOLEAN
  /\ trace \in Seq(Events)
  /\ cause \in Statuses
  /\ result \in ExecutionResults \cup {NoResult}
  /\ faults \in Nat

Complete0 == [completeness |-> "COMPLETE", size |-> 0, refs |-> {}]

Frame(block, env) == [block |-> block, at |-> 1, left |-> 0, env |-> env]

RuntimeInit ==
  /\ skill \in Skills
  /\ phase = "idle"
  /\ stack = <<Frame("main", [s \in {} |-> Complete0])>>
  /\ clock = 0
  /\ meter = [tools |-> 0, loops |-> 0, rows |-> 0]
  /\ data = "COMPLETE"
  /\ checks = << >> /\ outputs = << >> /\ trace = << >>
  /\ limited = FALSE
  /\ cause = "FAILED"
  /\ result = NoResult
  /\ faults = 0

----------------------------------------------------------------------------
(* Helpers *)

Top == stack[Len(stack)]
Block == skill.blocks[Top.block]
Statement == Block[Top.at]

(* ResourceGuard.check_deadline *)
Late == clock >= skill.limits.duration

(* ExecutionContext._is_bound, resolve *)
IsBound(s) == \E k \in DOMAIN stack : s \in DOMAIN stack[k].env
Resolve(s) == stack[CHOOSE k \in DOMAIN stack : s \in DOMAIN stack[k].env].env[s]

(* RuntimeEngine._combine_completeness *)
Combined(C) == IF "UNKNOWN" \in C THEN "UNKNOWN"
               ELSE IF "PARTIAL" \in C THEN "PARTIAL" ELSE "COMPLETE"

(* ExecutionContext.observe_completeness *)
Observed(c) == Combined({data, c})

(* A scalar computed from other symbols: _evaluate_ir. *)
Computed(uses) ==
  [completeness |-> Combined({Resolve(s).completeness : s \in uses}),
   size |-> 0,
   refs |-> UNION {Resolve(s).refs : s \in uses}]

(* Every symbol resolves: for another one resolve raises (EvaluationFails). *)
Evaluable(uses) == \A s \in uses : IsBound(s)

WithTop(f) == [stack EXCEPT ![Len(stack)] = f]

(* ExecutionContext.bind: into the innermost frame. *)
Bind(s, v) ==
  WithTop([Top EXCEPT !.env = [x \in DOMAIN Top.env \cup {s} |->
                                 IF x = s THEN v ELSE Top.env[x]]])

(* An exception that ends the run with status c is on its way up. *)
Raises(c) == phase' = "failing" /\ cause' = c

(* Mutant: the audit trail is best effort. *)
EmitsBestEffort(event, next) ==
  /\ phase' = next
  /\ UNCHANGED cause
  /\ \/ trace' = Append(trace, event) /\ UNCHANGED faults
     \/ faults < MaxFaults /\ faults' = faults + 1 /\ UNCHANGED trace

(* AuditRecorder.emit, with the snapshot that some events store first: the  *)
(* event is on the trail and the engine goes on, or the port raises and the *)
(* run fails.                                                               *)
Emits(event, next) ==
  \/ /\ trace' = Append(trace, event)
     /\ phase' = next
     /\ UNCHANGED <<cause, faults>>
  \/ /\ faults < MaxFaults
     /\ faults' = faults + 1
     /\ Raises("FAILED")
     /\ UNCHANGED trace

(* The event is recorded and the exception goes on, or recording it raises  *)
(* another one.                                                             *)
EmitsThenRaises(event, c) ==
  \/ /\ trace' = Append(trace, event)
     /\ Raises(c)
     /\ UNCHANGED faults
  \/ /\ faults < MaxFaults
     /\ faults' = faults + 1
     /\ Raises("FAILED")
     /\ UNCHANGED trace

Ends(status, completeness) ==
  /\ phase' = "done"
  /\ result' = [status |-> status, completeness |-> completeness]

----------------------------------------------------------------------------
(* Before the body *)

(* The principal is not verified or lacks nsl:skill:execute: the rejection  *)
(* is recorded outside every handler, so a failing sink raises to the host. *)
Reject ==
  /\ phase = "idle"
  /\ \/ /\ trace' = Append(trace, Event("EXECUTION_REJECTED"))
        /\ Ends("FAILED", "UNKNOWN")
        /\ UNCHANGED faults
     \/ /\ faults < MaxFaults
        /\ faults' = faults + 1
        /\ Ends("RAISED", "UNKNOWN")
        /\ UNCHANGED trace
  /\ UNCHANGED <<skill, clock, stack, meter, data, checks, outputs, limited, cause>>

Authorize ==
  /\ phase = "idle"
  /\ phase' = "preflight"
  /\ UNCHANGED <<skill, clock, stack, meter, data, checks, outputs, limited, trace,
                 cause, result, faults>>

(* _preflight refuses the Skill (version, hash, bounds, a controlled        *)
(* operation) or one of its Tool Contracts.                                 *)
PreflightFails ==
  /\ phase = "preflight"
  /\ ~Late
  /\ Raises("FAILED")
  /\ UNCHANGED <<skill, clock, stack, meter, data, checks, outputs, limited, trace,
                 result, faults>>

(* The start of the run is recorded, with the snapshots of its inputs and   *)
(* its context.                                                             *)
Preflight ==
  /\ phase = "preflight"
  /\ \/ Late /\ Raises("LIMIT_EXCEEDED") /\ UNCHANGED <<trace, faults>>
     \/ ~Late /\ Emits(Event("EXECUTION_STARTED"), "bind")
  /\ UNCHANGED <<skill, clock, stack, meter, data, checks, outputs, limited, result>>

(* _bind_inputs_and_contexts: a missing or ill-typed input fails the run,   *)
(* an input list that is too long exceeds a limit.                          *)
BindInputs ==
  /\ phase = "bind"
  /\ \/ /\ stack' = WithTop([Top EXCEPT !.env = [s \in Inputs |-> Complete0]])
        /\ phase' = "block"
        /\ UNCHANGED cause
     \/ \E c \in {"FAILED", "LIMIT_EXCEEDED"} : Raises(c) /\ UNCHANGED stack
  /\ UNCHANGED <<skill, clock, meter, data, checks, outputs, limited, trace, result, faults>>

----------------------------------------------------------------------------
(* Statements *)

BeginStatement ==
  /\ phase = "block"
  /\ Top.at <= Len(Block)
  /\ \/ Late /\ Raises("LIMIT_EXCEEDED") /\ UNCHANGED <<trace, faults>>
     \/ ~Late /\ Emits(Event("STATEMENT_STARTED"), "stmt")
  /\ UNCHANGED <<skill, clock, stack, meter, data, checks, outputs, limited, result>>

EndStatement ==
  /\ phase = "after"
  /\ Emits(Event("STATEMENT_COMPLETED"), "block")
  /\ stack' = WithTop([Top EXCEPT !.at = @ + 1])
  /\ UNCHANGED <<skill, clock, meter, data, checks, outputs, limited, result>>

AtStatement(kind) == phase = "stmt" /\ Statement.kind = kind

(* An expression that cannot be evaluated, a deadline that has passed. *)
EvaluationFails ==
  /\ phase = "stmt"
  /\ \/ Late /\ Raises("LIMIT_EXCEEDED")
     \/ ~Late /\ Raises("FAILED")
  /\ UNCHANGED <<skill, clock, stack, meter, data, checks, outputs, limited, trace,
                 result, faults>>

(* _execute_let *)
ExecuteLet ==
  /\ AtStatement("LET")
  /\ ~Late /\ Evaluable(Statement.uses)
  /\ data' = Observed(Computed(Statement.uses).completeness)
  /\ \/ /\ ~IsBound(Statement.target)
        /\ stack' = Bind(Statement.target, Computed(Statement.uses))
        /\ phase' = "after"
        /\ UNCHANGED cause
     \/ IsBound(Statement.target) /\ Raises("FAILED") /\ UNCHANGED stack
  /\ UNCHANGED <<skill, clock, meter, checks, outputs, limited, trace, result, faults>>

(* _execute_check: the result is in the list before its symbol is bound and *)
(* before it is recorded.  The symbol's value is complete by itself.        *)
ExecuteCheck(truth) ==
  /\ AtStatement("CHECK")
  /\ ~Late /\ Evaluable(Statement.uses)
  /\ LET v == Computed(Statement.uses)
     IN  /\ data' = Observed(v.completeness)
         /\ checks' = Append(checks, [id |-> Statement.target,
                                      status |-> CheckStatus(truth, v.completeness),
                                      refs |-> v.refs])
         /\ \/ /\ ~IsBound(Statement.target)
               /\ stack' = Bind(Statement.target, [Complete0 EXCEPT !.refs = v.refs])
               /\ Emits(Event("CHECK_COMPLETED"), "after")
            \/ /\ IsBound(Statement.target)
               /\ Raises("FAILED")
               /\ UNCHANGED <<stack, trace, faults>>
  /\ UNCHANGED <<skill, clock, meter, outputs, limited, result>>

(* Mutant: the row that reaches the limit is still emitted. *)
ExecuteEmitOneMore ==
  /\ AtStatement("EMIT")
  /\ ~Late /\ Evaluable(Statement.uses)
  /\ meter.rows <= skill.limits.rows
  /\ data' = Observed(Computed(Statement.uses).completeness)
  /\ outputs' = Append(outputs, Computed(Statement.uses).refs)
  /\ meter' = [meter EXCEPT !.rows = @ + 1]
  /\ Emits(Event("EMIT_COMPLETED"), "after")
  /\ UNCHANGED <<skill, clock, stack, checks, limited, result>>

(* _execute_emit: the row counts, and stays in the result, even when its    *)
(* snapshot or its event fails.                                             *)
ExecuteEmit ==
  /\ AtStatement("EMIT")
  /\ ~Late
  /\ \/ /\ meter.rows < skill.limits.rows /\ Evaluable(Statement.uses)
        /\ data' = Observed(Computed(Statement.uses).completeness)
        /\ outputs' = Append(outputs, Computed(Statement.uses).refs)
        /\ meter' = [meter EXCEPT !.rows = @ + 1]
        /\ Emits(Event("EMIT_COMPLETED"), "after")
     \/ /\ meter.rows >= skill.limits.rows
        /\ Raises("LIMIT_EXCEEDED")
        /\ UNCHANGED <<data, outputs, meter, trace, faults>>
  /\ UNCHANGED <<skill, clock, stack, checks, limited, result>>

----------------------------------------------------------------------------
(* FOREACH *)

(* _execute_foreach: the nesting depth, then the size of the collection. *)
BeginForeach ==
  /\ AtStatement("FOREACH")
  /\ LET v == Computed(Statement.uses)
         size == Resolve(Statement.over).size
         refused == Len(stack) > NestingMax \/ Late
     IN  \/ refused /\ Raises("LIMIT_EXCEEDED") /\ UNCHANGED <<data, stack>>
         \/ /\ ~refused /\ Evaluable(Statement.uses)
            /\ data' = Observed(v.completeness)
            /\ \/ size > Statement.max /\ Raises("LIMIT_EXCEEDED") /\ UNCHANGED stack
               \/ /\ size <= Statement.max
                  /\ stack' = WithTop([Top EXCEPT !.left = size])
                  /\ phase' = "loop"
                  /\ UNCHANGED cause
  /\ UNCHANGED <<skill, clock, meter, checks, outputs, limited, trace, result, faults>>

(* The next element: before_loop_iteration, a fresh frame, the iterator     *)
(* with the completeness of the whole collection.                           *)
BeginIteration ==
  /\ phase = "loop"
  /\ Top.left > 0
  /\ LET refused == Late \/ meter.loops >= skill.limits.loops
         item == [Computed(Statement.uses) EXCEPT !.size = 0]
     IN  \/ /\ ~refused
            /\ meter' = [meter EXCEPT !.loops = @ + 1]
            /\ \/ /\ ~IsBound(Statement.target)
                  /\ stack' = Append(WithTop([Top EXCEPT !.left = @ - 1]),
                                     Frame(Statement.block, [s \in {Statement.target} |-> item]))
                  /\ phase' = "block"
                  /\ UNCHANGED cause
               \/ IsBound(Statement.target) /\ Raises("FAILED") /\ UNCHANGED stack
         \/ refused /\ Raises("LIMIT_EXCEEDED") /\ UNCHANGED <<meter, stack>>
  /\ UNCHANGED <<skill, clock, data, checks, outputs, limited, trace, result, faults>>

(* The body is done: pop_frame. *)
EndIteration ==
  /\ phase = "block"
  /\ Len(stack) > 1
  /\ Top.at > Len(Block)
  /\ stack' = SubSeq(stack, 1, Len(stack) - 1)
  /\ phase' = "loop"
  /\ UNCHANGED <<skill, clock, meter, data, checks, outputs, limited, trace, cause,
                 result, faults>>

EndForeach ==
  /\ phase = "loop"
  /\ Top.left = 0
  /\ phase' = "after"
  /\ UNCHANGED <<skill, clock, stack, meter, data, checks, outputs, limited, trace,
                 cause, result, faults>>

----------------------------------------------------------------------------
(* READ *)

Invocation == meter.tools

(* _execute_read up to TOOL_STARTED: the contract, the authorization for    *)
(* the tool, the arguments, the limit, the invocation id and the event.     *)
StartRead ==
  /\ AtStatement("READ")
  /\ ~Late
  /\ \/ /\ \E c \in {"FAILED", "TOOL_ERROR"} : Raises(c)
        /\ UNCHANGED <<data, meter, trace, faults>>
     \/ /\ Evaluable(Statement.uses)
        /\ data' = Observed(Computed(Statement.uses).completeness)
        /\ \/ /\ meter.tools >= skill.limits.tools
              /\ Raises("LIMIT_EXCEEDED")
              /\ UNCHANGED <<meter, trace, faults>>
           \/ /\ meter.tools < skill.limits.tools
              /\ meter' = [meter EXCEPT !.tools = @ + 1]
              /\ Emits(CallEvent("TOOL_STARTED", meter.tools + 1), "call")
  /\ UNCHANGED <<skill, clock, stack, checks, outputs, limited, result>>

(* Mutant: the remaining time is not looked at before the call. *)
CallToolUnchecked ==
  /\ phase = "call"
  /\ limited' = (skill.limits.duration - clock <= Timeout)
  /\ phase' = "waiting"
  /\ UNCHANGED <<skill, clock, stack, meter, data, checks, outputs, trace, cause,
                 result, faults>>

(* The request goes to the tool with the shorter of its own timeout and the *)
(* time that is left; with no time left the run fails without TOOL_FAILED.  *)
CallTool ==
  /\ phase = "call"
  /\ \/ /\ ~Late
        /\ limited' = (skill.limits.duration - clock <= Timeout)
        /\ phase' = "waiting"
        /\ UNCHANGED cause
     \/ Late /\ Raises("LIMIT_EXCEEDED") /\ UNCHANGED limited
  /\ UNCHANGED <<skill, clock, stack, meter, data, checks, outputs, trace, result, faults>>

(* A valid result: recorded first, then measured, then bound.  The deadline *)
(* is looked at before the event and once more after it.                    *)
ToolReturns(r) ==
  /\ phase = "waiting"
  /\ LET v == [completeness |-> r.completeness, size |-> r.size, refs |-> {Invocation}]
         completed == [CallEvent("TOOL_COMPLETED", Invocation)
                         EXCEPT !.completeness = r.completeness]
     IN  \/ /\ Late
            /\ EmitsThenRaises(CallEvent("TOOL_FAILED", Invocation), "LIMIT_EXCEEDED")
            /\ UNCHANGED <<clock, stack, data>>
         \/ /\ ~Late
            /\ EmitsThenRaises(completed, "LIMIT_EXCEEDED")
            /\ \/ r.size > skill.limits.collection /\ UNCHANGED clock
               \/ clock' = skill.limits.duration
            /\ UNCHANGED <<stack, data>>
         \/ /\ ~Late
            /\ r.size <= skill.limits.collection
            /\ data' = Observed(r.completeness)
            /\ \/ /\ ~IsBound(Statement.target)
                  /\ stack' = Bind(Statement.target, v)
                  /\ Emits(completed, "after")
               \/ /\ IsBound(Statement.target)
                  /\ EmitsThenRaises(completed, "FAILED")
                  /\ UNCHANGED stack
            /\ UNCHANGED clock
  /\ UNCHANGED <<skill, meter, checks, outputs, limited, result>>

(* Mutant: the timer is not set when the deadline is nearer than the        *)
(* timeout of the contract.                                                 *)
ToolTimesOutUnlimited ==
  /\ phase = "waiting"
  /\ ~limited
  /\ EmitsThenRaises(CallEvent("TOOL_FAILED", Invocation), "TOOL_ERROR")
  /\ UNCHANGED <<skill, clock, stack, meter, data, checks, outputs, limited, result>>

(* TimeoutError, from the timer or from the tool itself: a timeout that was *)
(* set by the deadline counts as the limit, any other as a tool error.      *)
ToolTimesOut ==
  /\ phase = "waiting"
  /\ EmitsThenRaises(CallEvent("TOOL_FAILED", Invocation),
                     IF limited THEN "LIMIT_EXCEEDED" ELSE "TOOL_ERROR")
  /\ UNCHANGED <<skill, clock, stack, meter, data, checks, outputs, limited, result>>

(* The request or the answer breaks the Tool Contract, or the answer is     *)
(* empty where a result is required: whatever the time is.                  *)
ContractBroken ==
  /\ phase = "waiting"
  /\ EmitsThenRaises(CallEvent("TOOL_FAILED", Invocation), "TOOL_ERROR")
  /\ UNCHANGED <<skill, clock, stack, meter, data, checks, outputs, limited, result>>

(* The tool raises ToolExecutionError or any other exception. *)
ToolFails ==
  /\ phase = "waiting"
  /\ \E c \in {"TOOL_ERROR", "FAILED"} :
       EmitsThenRaises(CallEvent("TOOL_FAILED", Invocation), c)
  /\ UNCHANGED <<skill, clock, stack, meter, data, checks, outputs, limited, result>>

(* The host cancels the task while it waits: no handler catches it. *)
Cancel ==
  /\ phase = "waiting"
  /\ faults < MaxFaults
  /\ faults' = faults + 1
  /\ Ends("RAISED", "UNKNOWN")
  /\ stack' = <<stack[1]>>
  /\ UNCHANGED <<skill, clock, meter, data, checks, outputs, limited, trace, cause>>

----------------------------------------------------------------------------
(* The end of a run *)

(* ValidationSummary.from_checks refuses two results of one CHECK. *)
Summarizable ==
  skill.version = "0.2" =>
    \A j, k \in DOMAIN checks : checks[j].id = checks[k].id => j = k

AtEnd == phase = "block" /\ Len(stack) = 1 /\ Top.at > Len(Block)

(* Mutant: the end is recorded before the result has been built. *)
FinishRecordsFirst ==
  /\ AtEnd
  /\ trace' = Append(trace, Event("EXECUTION_COMPLETED"))
  /\ \/ /\ ~Late /\ Summarizable
        /\ Ends("COMPLETED", data)
        /\ UNCHANGED cause
     \/ /\ Late \/ ~Summarizable
        /\ Raises(IF Late THEN "LIMIT_EXCEEDED" ELSE "FAILED")
        /\ UNCHANGED result
  /\ UNCHANGED <<skill, clock, stack, meter, data, checks, outputs, limited, faults>>

(* The last check of the deadline, the result with its validation summary,  *)
(* then EXECUTION_COMPLETED.                                                *)
Finish ==
  /\ AtEnd
  /\ \/ Late /\ Raises("LIMIT_EXCEEDED") /\ UNCHANGED <<trace, result, faults>>
     \/ /\ ~Late /\ ~Summarizable
        /\ Raises("FAILED")
        /\ UNCHANGED <<trace, result, faults>>
     \/ /\ ~Late /\ Summarizable
        /\ Emits(Event("EXECUTION_COMPLETED"), "done")
        /\ result' = IF phase' = "done"
                     THEN [status |-> "COMPLETED", completeness |-> data] ELSE result
  /\ UNCHANGED <<skill, clock, stack, meter, data, checks, outputs, limited>>

(* _failed, once the frames are popped: EXECUTION_FAILED, then the result   *)
(* with the same summary.  What raises here reaches the caller.             *)
Conclude ==
  /\ phase = "failing"
  /\ stack' = <<stack[1]>>
  /\ \/ /\ trace' = Append(trace, Event("EXECUTION_FAILED"))
        /\ IF Summarizable
           THEN Ends(cause, IF checks # << >> \/ outputs # << >> THEN "PARTIAL" ELSE "UNKNOWN")
           ELSE Ends("RAISED", "UNKNOWN")
        /\ UNCHANGED faults
     \/ /\ faults < MaxFaults
        /\ faults' = faults + 1
        /\ Ends("RAISED", "UNKNOWN")
        /\ UNCHANGED trace
  /\ UNCHANGED <<skill, clock, meter, data, checks, outputs, limited, cause>>

----------------------------------------------------------------------------
(* Specification *)

RuntimeTick ==
  /\ phase \notin {"idle", "done"}
  /\ clock < MaxClock
  /\ clock' = clock + 1
  /\ UNCHANGED <<skill, phase, stack, meter, data, checks, outputs, limited, trace,
                 cause, result, faults>>

(* The steps that the engine takes by itself once a run is accepted. *)
EngineStep ==
  \/ PreflightFails \/ Preflight \/ BindInputs
  \/ BeginStatement \/ EndStatement \/ EvaluationFails
  \/ ExecuteLet \/ (\E truth \in BOOLEAN : ExecuteCheck(truth)) \/ ExecuteEmit
  \/ BeginForeach \/ BeginIteration \/ EndIteration \/ EndForeach
  \/ StartRead \/ CallTool
  \/ Finish \/ Conclude

RuntimeNext ==
  \/ Reject \/ Authorize
  \/ EngineStep
  \/ (\E r \in Results : ToolReturns(r)) \/ ToolTimesOut \/ ContractBroken \/ ToolFails
  \/ Cancel
  \/ RuntimeTick

RuntimeSpec == RuntimeInit /\ [][RuntimeNext]_runtimeVars

(* The event loop goes on with a run that has something to do, and the      *)
(* timer of asyncio.wait_for ends every call that the tool does not end.    *)
FairRuntimeSpec ==
  /\ RuntimeSpec
  /\ WF_runtimeVars(EngineStep)
  /\ WF_runtimeVars(ToolTimesOut)

----------------------------------------------------------------------------
(* Properties *)

EventsAt(types) == {k \in DOMAIN trace : trace[k].type \in types}
Completed == {trace[k].call : k \in EventsAt({"TOOL_COMPLETED"})}
Ended(status) == result # NoResult /\ result.status = status

(* The audit trail and the ExecutionResult tell one story: at most one      *)
(* terminal event, only as the last event, of the kind of the result; and   *)
(* a completed run has closed every statement and every call it opened.     *)
(* About the order of _result, emit and _failed in _execute_with_context.   *)
ResultMatchesTrace ==
  /\ EventsAt(Terminal) \subseteq {Len(trace)}
  /\ Ended("COMPLETED") => trace[Len(trace)].type = "EXECUTION_COMPLETED"
  /\ \A status \in Statuses \ {"COMPLETED"} :
       Ended(status) => trace[Len(trace)].type \in {"EXECUTION_FAILED", "EXECUTION_REJECTED"}
  /\ EventsAt({"EXECUTION_COMPLETED"}) # {} =>
       /\ Ended("COMPLETED")
       /\ Cardinality(EventsAt({"STATEMENT_STARTED"}))
            = Cardinality(EventsAt({"STATEMENT_COMPLETED"}))
       /\ Cardinality(EventsAt({"CHECK_COMPLETED"})) = Len(checks)
       /\ Cardinality(EventsAt({"EMIT_COMPLETED"})) = Len(outputs)

(* The audit trail is the evidence of the result: every call that a check   *)
(* or an output refers to is on it as a completed call, so an exception of  *)
(* the sink or of the snapshot store never lets a value in whose origin is  *)
(* not recorded; and a call that was started and neither completed nor      *)
(* failed is the last thing the run did with a tool, in a run that is not   *)
(* reported as completed (the deadline, a failing sink or a cancellation    *)
(* after TOOL_STARTED in _execute_read).                                    *)
EvidenceOnTrail ==
  /\ \A k \in DOMAIN checks : checks[k].refs \subseteq Completed
  /\ \A k \in DOMAIN outputs : outputs[k] \subseteq Completed
  /\ \A k \in EventsAt({"TOOL_STARTED"}) :
       (\A j \in EventsAt({"TOOL_COMPLETED", "TOOL_FAILED"}) : trace[j].call # trace[k].call)
         => /\ \A j \in EventsAt({"TOOL_STARTED"}) : j <= k
            /\ ~Ended("COMPLETED")

(* A PASS rests on complete data only: every call its condition depends on, *)
(* through LETs and the iterators of FOREACHs too, returned a complete      *)
(* result (ValueEnvelope completeness, StrictRuleEvaluator; the status of   *)
(* another CHECK is complete by itself).  And a run that reports COMPLETED  *)
(* and COMPLETE has read complete data in all its calls and leaves no check *)
(* unknown (observe_completeness).                                          *)
CompletenessIsHonest ==
  /\ \A k \in DOMAIN checks : checks[k].status = "PASS" =>
       \A e \in EventsAt({"TOOL_COMPLETED"}) :
         trace[e].call \in checks[k].refs => trace[e].completeness = "COMPLETE"
  /\ Ended("COMPLETED") /\ result.completeness = "COMPLETE" =>
       /\ \A e \in EventsAt({"TOOL_COMPLETED"}) : trace[e].completeness = "COMPLETE"
       /\ \A k \in DOMAIN checks : checks[k].status # "UNKNOWN"

(* What the audit trail shows and what the result holds stay within the     *)
(* limits of the Skill, and the meter that guards them loses count of       *)
(* nothing, also when a sink or a store fails between the two               *)
(* (ResourceGuard against _execute_read and _execute_emit).                 *)
WithinLimits ==
  LET started == Cardinality(EventsAt({"TOOL_STARTED"}))
      emitted == Cardinality(EventsAt({"EMIT_COMPLETED"}))
  IN  /\ started <= meter.tools /\ meter.tools <= started + 1
      /\ meter.tools <= skill.limits.tools
      /\ meter.loops <= skill.limits.loops
      /\ emitted <= meter.rows /\ meter.rows <= emitted + 1
      /\ meter.rows = Len(outputs) /\ Len(outputs) <= skill.limits.rows

(* Once the duration is used up no step calls a tool, starts an iteration,  *)
(* or adds a check or a row (every check_deadline of the engine together).  *)
LateRunStartsNothing ==
  [][Late => /\ UNCHANGED <<meter, checks, outputs>>
             /\ phase' = "waiting" => phase = "waiting"]_runtimeVars

(* Every accepted run ends, whatever the tools do: they may never answer.   *)
RunEnds == phase = "preflight" ~> phase = "done"

(* NSL-REL-003: an error of the runtime comes back as a structured result.  *)
(* With no failing port and no cancellation, execute never raises.          *)
ErrorsAreResults == faults = 0 => ~Ended("RAISED")

=============================================================================
