------------------------------- MODULE Replay -------------------------------
(***************************************************************************)
(* Replay of a READ execution: RecordingToolExecutor around the provider,   *)
(* create_replay_bundle, ReplayToolExecutor under replay_and_compare, with  *)
(* the runtime of that time or a later one, and the portable package that   *)
(* `nsl run --replay-out` writes and `nsl replay` reads in another process. *)
(*                                                                          *)
(* The Skill makes its tool calls in an order that the runtime version      *)
(* determines; the engine, modelled in SkillRuntime, is here what the       *)
(* replay sees of it: it turns every failure of a call into a result, and a *)
(* result is a function of the calls and of their answers.                  *)
(***************************************************************************)
EXTENDS Snapshots

CONSTANTS
  Plans,        \* runtime version to the tool calls [tool, args]; 1 has recorded
  Answers,      \* [value, completeness, valid]: what a provider can answer
  Classes,      \* the classifications of the Skill's data
  Tenant        \* the tenant of the recorded execution

Errors == {"TOOL", "UNEXPECTED", "LIMIT"}

(* Semantic views of results: see View. *)
Views == [status : {"COMPLETED", "FAILED", "LIMIT_EXCEEDED"},
          checks : Seq({a.value : a \in Answers} \cup {"UNKNOWN"}),
          tools : Nat, error : Errors \cup {None}]

ASSUME ReplayAssumption ==
  /\ 1 \in DOMAIN Plans
  /\ \A v \in DOMAIN Plans : Plans[v] \in Seq({Plans[v][k] : k \in DOMAIN Plans[v]})
  /\ Answers \subseteq [value : {a.value : a \in Answers},
                       completeness : {"COMPLETE", "PARTIAL", "UNKNOWN"}, valid : BOOLEAN]
  /\ None \notin Views \cup Errors

VARIABLES
  class,        \* the classification
  run,          \* the recorded execution: made, answers, result
  recorded,     \* RecordingToolExecutor.calls; None when the recorder is gone
  bundle,       \* the ReplayBundle
  package,      \* the .nsr file
  rep,          \* the replay in progress
  report        \* what the last replay returned

readVars == <<class, run, recorded, bundle, package, rep, report>>

ReadInit ==
  /\ class \in Classes
  /\ run = [made |-> 0, answers |-> << >>, result |-> None]
  /\ recorded = << >>
  /\ bundle = None /\ package = None /\ rep = None /\ report = None

(* ExecutionResult.semantic_view: the CHECKs over what is complete, the     *)
(* resources used, and the error.                                           *)
View(made, answers, error) ==
  [status |-> IF error = None THEN "COMPLETED"
              ELSE IF error = "LIMIT" THEN "LIMIT_EXCEEDED" ELSE "FAILED",
   checks |-> [k \in DOMAIN answers |->
                 IF answers[k].completeness = "COMPLETE" THEN answers[k].value ELSE "UNKNOWN"],
   tools |-> made, error |-> error]

(* The engine after a call: it goes on, or ends with an error. *)
Answered(e, a) == [e EXCEPT !.made = @ + 1, !.answers = Append(@, a)]
Failed(e, error) ==
  [e EXCEPT !.made = @ + 1, !.result = View(e.made + 1, e.answers, error)]

(* The engine validates an answer that the executor has returned. *)
Received(e, a) == IF a.valid THEN Answered(e, a) ELSE Failed(e, "TOOL")

----------------------------------------------------------------------------
(* The recorded execution *)

Calling == recorded # None /\ run.result = None /\ run.made < Len(Plans[1])

(* RecordingToolExecutor.execute: the answer is stored, the call recorded. *)
RecordCall(a) ==
  /\ Calling
  /\ PutAll(Tenant, <<a>>, class)
  /\ recorded' = Append(recorded, [call |-> Plans[1][run.made + 1],
                                   ref |-> NewRef(1, Tenant, a, class)])
  /\ run' = Received(run, a)
  /\ UNCHANGED <<class, bundle, package, rep, report>>

(* The provider fails, or its answer cannot be sealed: the call leaves no   *)
(* record.                                                                  *)
CallFails(error) ==
  /\ Calling
  /\ run' = Failed(run, error)
  /\ UNCHANGED <<storeVars, class, recorded, bundle, package, rep, report>>

Complete ==
  /\ recorded # None /\ run.result = None /\ run.made = Len(Plans[1])
  /\ run' = [run EXCEPT !.result = View(run.made, run.answers, None)]
  /\ UNCHANGED <<storeVars, class, recorded, bundle, package, rep, report>>

(* What create_replay_bundle stores: inputs, context, original result. *)
Evidence == <<[input |-> "i"], [context |-> "c"], run.result>>

Bundle(calls, refs, portable) ==
  [tenant |-> Tenant, calls |-> calls, inputs |-> refs[1], context |-> refs[2],
   original |-> refs[3], portable |-> portable]

CreateBundle ==
  /\ recorded # None /\ run.result # None /\ bundle = None /\ package = None
  /\ PutAll(Tenant, Evidence, class)
  /\ bundle' = Bundle(recorded, NewRefs(Tenant, Evidence, class), FALSE)
  /\ UNCHANGED <<class, run, recorded, package, rep, report>>

(* The sealing of one of the three values fails. *)
CreateBundleFails ==
  /\ recorded # None /\ run.result # None /\ bundle = None /\ package = None
  /\ Seals(class)
  /\ \E k \in 0 .. 2 : PutAll(Tenant, SubSeq(Evidence, 1, k), class)
  /\ UNCHANGED readVars

----------------------------------------------------------------------------
(* The portable package *)

(* _require_portable_classification, before the run and before the export *)
Portable == ~protected /\ class \notin PROTECTED_CLASSIFICATIONS

(* encode_replay_package: of an answer, the value alone is written. *)
Export(p) ==
  /\ Portable
  /\ recorded # None /\ run.result # None /\ run.result.status = "COMPLETED"
  /\ bundle = None /\ package = None
  /\ p.tenant = Tenant /\ p.verified /\ "nsl:replay:read" \in p.scopes
  /\ \A k \in DOMAIN recorded : Resolves(recorded[k].ref, p)
  /\ PutAll(Tenant, Evidence, class)
  /\ package' = [calls |-> [k \in DOMAIN recorded |->
                              [call |-> recorded[k].call, value |-> Value(recorded[k].ref).value]],
                 original |-> run.result]
  /\ recorded' = None
  /\ UNCHANGED <<class, run, bundle, rep, report>>

(* _decode_tool_calls: the envelope that is made of a recorded value. *)
Decoded(v) == [value |-> v, completeness |-> "COMPLETE", valid |-> TRUE]

(* decode_replay_package, in a process of its own. *)
Import(p) ==
  /\ package # None /\ bundle = None
  /\ p.tenant = Tenant /\ "nsl:replay:read" \in p.scopes
  /\ LET n == Len(package.calls)
         values == SubSeq(Evidence, 1, 2) \o [k \in 1 .. n |-> Decoded(package.calls[k].value)]
                     \o <<package.original>>
         Ref(k) == [id |-> k, tenant |-> Tenant, class |-> class, hash |-> values[k],
                    expires |-> now + Retention]
     IN /\ items' = [k \in DOMAIN values |-> Stored(Tenant, values[k], class)]
        /\ counter' = Len(values)
        /\ bundle' = Bundle([k \in 1 .. n |-> [call |-> package.calls[k].call, ref |-> Ref(k + 2)]],
                            <<Ref(1), Ref(2), Ref(n + 3)>>, TRUE)
  /\ UNCHANGED <<protected, now, class, run, recorded, package, rep, report>>

----------------------------------------------------------------------------
(* replay_and_compare *)

Refused == [compared |-> FALSE]

(* The original result, the identity of the Skill, inputs and context.  A   *)
(* sealed value may fail to unseal.                                         *)
StartReplay(p, v, sameSkill) ==
  /\ bundle # None /\ rep = None
  /\ GetAll({bundle.original}, p)
  /\ LET readable == \A ref \in {bundle.original, bundle.inputs, bundle.context} : Resolves(ref, p)
     IN \/ /\ readable /\ sameSkill /\ bundle.tenant = p.tenant
           /\ rep' = [principal |-> p, version |-> v, original |-> Value(bundle.original),
                      index |-> 0, lost |-> FALSE, made |-> 0, answers |-> << >>,
                      result |-> None]
           /\ report' = None
        \/ /\ ~readable \/ ~sameSkill \/ bundle.tenant # p.tenant \/ Seals(class)
           /\ rep' = None /\ report' = Refused
  /\ UNCHANGED <<class, run, recorded, bundle, package>>

(* Mutant: a call of the same tool is the recorded one. *)
SameTool(expected, call) == expected.call.tool = call.tool

(* The comparison of ReplayToolExecutor.execute *)
SameCall(expected, call) == expected.call = call

(* Mutant: a replayed answer is always a complete one. *)
ReplayedComplete(ref) == [Value(ref) EXCEPT !.completeness = "COMPLETE"]

(* The recorded envelope, under the new invocation id. *)
Replayed(ref) == Value(ref)

NextCall == Plans[rep.version][rep.made + 1]

(* ReplayToolExecutor.execute, whose exceptions the engine turns into an    *)
(* unexpected failure of the execution.                                     *)
ReplayCall ==
  /\ rep # None /\ rep.result = None /\ rep.made < Len(Plans[rep.version])
  /\ IF rep.index >= Len(bundle.calls)
     THEN rep' = Failed(rep, "UNEXPECTED") /\ UNCHANGED storeVars
     ELSE LET expected == bundle.calls[rep.index + 1]
              next == [rep EXCEPT !.index = @ + 1]
          IN IF ~SameCall(expected, NextCall)
             THEN rep' = Failed(next, "UNEXPECTED") /\ UNCHANGED storeVars
             ELSE /\ GetAll({expected.ref}, rep.principal)
                  /\ \/ /\ Resolves(expected.ref, rep.principal)
                        /\ rep' = Received(next, Replayed(expected.ref))
                     \/ /\ ~Resolves(expected.ref, rep.principal) \/ Seals(class)
                        /\ rep' = [Failed(next, "UNEXPECTED") EXCEPT !.lost = TRUE]
  /\ UNCHANGED <<class, run, recorded, bundle, package, report>>

ReplayComplete ==
  /\ rep # None /\ rep.result = None /\ rep.made = Len(Plans[rep.version])
  /\ rep' = [rep EXCEPT !.result = View(rep.made, rep.answers, None)]
  /\ UNCHANGED <<storeVars, class, run, recorded, bundle, package, report>>

(* assert_consumed, and compare_replay_values of the two views *)
Compare ==
  /\ rep # None /\ rep.result # None
  /\ report' = IF rep.index # Len(bundle.calls) THEN Refused
               ELSE [compared |-> TRUE, version |-> rep.version, made |-> rep.made,
                     lost |-> rep.lost, matches |-> rep.original = rep.result]
  /\ rep' = None
  /\ UNCHANGED <<storeVars, class, run, recorded, bundle, package>>

----------------------------------------------------------------------------

(* Another execution records into the fresh store of its process.  The      *)
(* snapshots that the engine takes of arguments and outputs, for the audit, *)
(* take ids in the same way; no bundle refers to them.                      *)
OtherExecution(a, b) ==
  /\ counter = 0
  /\ PutAll(Tenant, <<a, b, [input |-> "j"], [context |-> "d"], View(2, <<a, b>>, None)>>, class)

(* What happens to the store around it. *)
StoreSteps ==
  \/ /\ \/ \E a, b \in Answers : OtherExecution(a, b)
        \/ PurgeSnapshots
        \/ TickStore
        \/ \E p \in Principals : bundle # None /\ \E ref \in
             {bundle.original} \cup {bundle.calls[k].ref : k \in DOMAIN bundle.calls} :
               DeleteSnapshot(ref, p)
     /\ UNCHANGED readVars
  \/ /\ RestartStore
     /\ recorded' = None /\ rep' = None
     /\ UNCHANGED <<class, run, bundle, package, report>>

ReadNext ==
  \/ \E a \in Answers : RecordCall(a)
  \/ \E error \in Errors : CallFails(error)
  \/ Complete \/ CreateBundle \/ CreateBundleFails
  \/ \E p \in Principals : Export(p) \/ Import(p)
  \/ \E p \in Principals, v \in DOMAIN Plans, same \in BOOLEAN : StartReplay(p, v, same)
  \/ ReplayCall \/ ReplayComplete \/ Compare
  \/ StoreSteps

ReadSpec == StoreInit /\ ReadInit /\ [][ReadNext]_<<storeVars, readVars>>

----------------------------------------------------------------------------
(* Properties *)

(* What a replay is told is what the provider has told the recorded         *)
(* execution at that place - after expiry, deletion, and a restart whose    *)
(* new snapshots have taken the ids of the old ones.  From a package it is  *)
(* the same value.                                                          *)
ReplayUsesRecorded ==
  rep # None => \A k \in DOMAIN rep.answers :
    /\ k \in DOMAIN run.answers
    /\ rep.answers[k].value = run.answers[k].value
    /\ bundle.portable \/ rep.answers[k] = run.answers[k]

(* If the recorded execution has completed, a report of a match means that  *)
(* the replay has made the same tool calls with the same arguments.         *)
MatchMeansSameCalls ==
  report # None /\ report.compared /\ run.result.status = "COMPLETED" =>
    (report.matches => SubSeq(Plans[report.version], 1, report.made) = Plans[1])

(* Replaying with the same runtime from the store, nothing lost, every call *)
(* on record, gives the original result again.                              *)
ReplayReproduces ==
  report # None /\ report.compared =>
    ( report.version = 1 /\ ~report.lost /\ ~bundle.portable
        /\ Len(bundle.calls) = run.made => report.matches )

(* "A replay that uses captured tool results must produce the same result   *)
(* as the original" (AC-N10), for the package that `nsl run` writes.        *)
PortableReplayIsEqual ==
  report # None /\ report.compared =>
    (report.version = 1 /\ ~report.lost /\ bundle.portable => report.matches)
=============================================================================
