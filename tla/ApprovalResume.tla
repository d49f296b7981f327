--------------------------- MODULE ApprovalResume ---------------------------
(***************************************************************************)
(* Suspending an execution for approval and resuming it from its durable    *)
(* checkpoint: ApprovalSuspensionCoordinator, ApprovalResumeCoordinator and *)
(* the file adapter FileControlledStatePort, as the command line runs them. *)
(*                                                                          *)
(* A worker is an operating system process.  What it keeps in memory        *)
(* (pc, job) is lost in a crash; the files (checkpoint, request, claim,     *)
(* consumed) and the approver's decisions survive.  Every file system call  *)
(* that another process can observe is a step of its own.                   *)
(***************************************************************************)
EXTENDS ControlledBase, WriteControls, Sequences

CONSTANTS Workers,
          ClaimIdOf,    \* the --claim-id of a worker; the default is shared
          TTL,          \* the approval policy's ttl_seconds, or None
          MaxCrashes    \* the bound of process crashes, for model checking

ASSUME ResumeAssumption ==
  /\ None \notin {ClaimIdOf[w] : w \in Workers}
  /\ None \notin Workers
  /\ TTL \in Nat \cup {None}
  /\ MaxCrashes \in Nat

VARIABLES
  pc,          \* pc[w]: the next step of worker w, "idle" between calls
  job,         \* job[w]: what the call of worker w holds in memory
  checkpoint,  \* checkpoint[e]: the intent bound in the checkpoint file, or None
  request,     \* request[e]: the published approval request file, or None
  evidence,    \* the approval decisions issued so far
  claim,       \* claim[e]: the claim id in the .claim file, or None
  consumed,    \* consumed[e]: the worker that created the .consumed file, or None
  granted,     \* granted[e]: the resume calls that returned with the claim consumed
  crashes      \* how many crashes have happened

files == <<checkpoint, request, claim, consumed>>
approvalVars ==
  <<pc, job, checkpoint, request, evidence, claim, consumed, granted, crashes>>

----------------------------------------------------------------------------
(* Types *)

Deadlines == Nat \cup {None}

EvidenceRecords ==
  [exec : Executions, op : Operations, request : Operations \X Intents,
   intent : Intents, payload : Intents, decision : Decisions,
   expires : Deadlines, genuine : BOOLEAN]

StartPcs == {"save", "saveReplace", "publish", "publishReplace"}
HoldingPcs == {"validate", "release", "consume", "unclaim"}
Pcs == {"idle", "claim"} \cup StartPcs \cup HoldingPcs

StartJobs == [exec : Executions, intent : Intents, expires : Deadlines]
ResumeJobs == [exec : Executions, intent : Intents, bound : Intents,
               evidence : EvidenceRecords, at : Nat, approval : ApprovalStatuses]

ApprovalTypeOK ==
  /\ now \in Nat
  /\ pc \in [Workers -> Pcs]
  /\ job \in [Workers -> StartJobs \cup ResumeJobs \cup {None}]
  /\ \A w \in Workers :
       /\ pc[w] \in StartPcs => job[w] \in StartJobs
       /\ pc[w] \in {"claim"} \cup HoldingPcs => job[w] \in ResumeJobs
  /\ checkpoint \in [Executions -> Intents \cup {None}]
  /\ request \in [Executions -> [intent : Intents, expires : Deadlines] \cup {None}]
  /\ evidence \subseteq EvidenceRecords
  /\ claim \in [Executions -> {ClaimIdOf[w] : w \in Workers} \cup {None}]
  /\ consumed \in [Executions -> Workers \cup {None}]
  /\ granted \in [Executions -> Seq(ResumeJobs)]
  /\ crashes \in Nat

ApprovalInit ==
  /\ now = 0
  /\ pc = [w \in Workers |-> "idle"]
  /\ job = [w \in Workers |-> None]
  /\ checkpoint = [e \in Executions |-> None]
  /\ request = [e \in Executions |-> None]
  /\ evidence = {}
  /\ claim = [e \in Executions |-> None]
  /\ consumed = [e \in Executions |-> None]
  /\ granted = [e \in Executions |-> << >>]
  /\ crashes = 0

----------------------------------------------------------------------------
(* How a call of worker w goes on or ends. *)

GoTo(w, label) ==
  /\ pc' = [pc EXCEPT ![w] = label]
  /\ UNCHANGED job

Return(w) ==
  /\ pc' = [pc EXCEPT ![w] = "idle"]
  /\ job' = [job EXCEPT ![w] = None]

Holds(w) == pc[w] \in HoldingPcs

----------------------------------------------------------------------------
(* start_controlled_run and ApprovalSuspensionCoordinator.suspend *)

(* Mutant: the request is published before the checkpoint is saved. *)
StartRunPublishFirst(w, e, i) ==
  /\ pc[w] = "idle"
  /\ pc' = [pc EXCEPT ![w] = "publish"]
  /\ job' = [job EXCEPT ![w] =
       [exec |-> e, intent |-> i,
        expires |-> IF TTL = None THEN None ELSE now + TTL]]
  /\ UNCHANGED <<now, files, evidence, granted, crashes>>

(* The prefix completes with ALL_PASS and the data it read give intent i:   *)
(* the request is built, with an expiry from the wall clock, and            *)
(* _stage_suspend binds it to the context that capture serialises.  With    *)
(* any other outcome of the prefix the run ends before it writes anything.  *)
StartRun(w, e, i) ==
  /\ pc[w] = "idle"
  /\ pc' = [pc EXCEPT ![w] = "save"]
  /\ job' = [job EXCEPT ![w] =
       [exec |-> e, intent |-> i,
        expires |-> IF TTL = None THEN None ELSE now + TTL]]
  /\ UNCHANGED <<now, files, evidence, granted, crashes>>

(* _write_once of the checkpoint, first half: the file does not exist, or   *)
(* it exists with these bytes, or with others.  The bytes hold the intent   *)
(* and all other data that the prefix read, so they may differ under the    *)
(* same intent.                                                             *)
Save(w) ==
  /\ pc[w] = "save"
  /\ LET e == job[w].exec
     IN  \/ /\ checkpoint[e] = None
            /\ GoTo(w, "saveReplace")
         \/ /\ checkpoint[e] = job[w].intent
            /\ GoTo(w, "publish")
         \/ /\ checkpoint[e] # None
            /\ Return(w)
  /\ UNCHANGED <<now, files, evidence, granted, crashes>>

(* Second half: the temporary file replaces whatever is there by now. *)
SaveReplace(w) ==
  /\ pc[w] = "saveReplace"
  /\ checkpoint' = [checkpoint EXCEPT ![job[w].exec] = job[w].intent]
  /\ GoTo(w, "publish")
  /\ UNCHANGED <<now, request, claim, consumed, evidence, granted, crashes>>

RequestOf(w) == [intent |-> job[w].intent, expires |-> job[w].expires]

(* _write_once of the approval request, in the same two halves. *)
Publish(w) ==
  /\ pc[w] = "publish"
  /\ LET e == job[w].exec
     IN  \/ /\ request[e] = None
            /\ GoTo(w, "publishReplace")
         \/ /\ request[e] = RequestOf(w)
            /\ Return(w)
         \/ /\ request[e] \notin {None, RequestOf(w)}
            /\ Return(w)
  /\ UNCHANGED <<now, files, evidence, granted, crashes>>

PublishReplace(w) ==
  /\ pc[w] = "publishReplace"
  /\ request' = [request EXCEPT ![job[w].exec] = RequestOf(w)]
  /\ Return(w)
  /\ UNCHANGED <<now, checkpoint, claim, consumed, evidence, granted, crashes>>

(* The temporary file cannot be created, written or renamed: an I/O error,  *)
(* or another process that is inside _write_once of the same path (each     *)
(* removes the temporary file that the other one needs).  Nothing is saved. *)
WriteOnceFails(w) ==
  /\ pc[w] \in {"saveReplace", "publishReplace"}
  /\ Return(w)
  /\ UNCHANGED <<now, files, evidence, granted, crashes>>

----------------------------------------------------------------------------
(* The approver (external): a decision carries the bindings and the expiry  *)
(* of the published request, and is never dated after that expiry.          *)

EvidenceFor(e, decision, genuine) ==
  [exec |-> e, op |-> OperationOf[e],
   request |-> ApprovalRequestId(e, request[e].intent),
   intent |-> request[e].intent, payload |-> request[e].intent,
   decision |-> decision, expires |-> request[e].expires, genuine |-> genuine]

Decide(e, decision) ==
  /\ request[e] # None
  /\ ~(request[e].expires # None /\ now > request[e].expires)
  /\ evidence' = evidence \cup {EvidenceFor(e, decision, TRUE)}
  /\ UNCHANGED <<now, pc, job, files, granted, crashes>>

(* The decisions a caller can present: an issued one, of this or of another *)
(* execution, or one whose integrity value does not verify.                 *)
Presentable == evidence \cup {[v EXCEPT !.genuine = FALSE] : v \in evidence}

----------------------------------------------------------------------------
(* resume_controlled_run, ApprovalResumeCoordinator.resume and the port     *)

(* The caller restores the checkpoint, evaluates the current intent i from  *)
(* it and reads the clock; claim() reads the checkpoint and looks for the   *)
(* consumed marker.                                                         *)
BeginResume(w, e, v, i) ==
  /\ pc[w] = "idle"
  /\ checkpoint[e] # None
  /\ \/ /\ consumed[e] # None
        /\ Return(w)
     \/ /\ consumed[e] = None
        /\ pc' = [pc EXCEPT ![w] = "claim"]
        /\ job' = [job EXCEPT ![w] =
             [exec |-> e, intent |-> i, bound |-> checkpoint[e],
              evidence |-> v, at |-> now, approval |-> "PENDING"]]
  /\ UNCHANGED <<now, files, evidence, granted, crashes>>

(* Mutant: the claim file is written without O_EXCL. *)
CreateClaimShared(w) ==
  /\ pc[w] = "claim"
  /\ claim' = [claim EXCEPT ![job[w].exec] = ClaimIdOf[w]]
  /\ GoTo(w, "validate")
  /\ UNCHANGED <<now, checkpoint, request, consumed, evidence, granted, crashes>>

(* claim(): the exclusive creation of the claim file. *)
CreateClaim(w) ==
  /\ pc[w] = "claim"
  /\ LET e == job[w].exec
     IN  \/ /\ claim[e] # None
            /\ Return(w)
            /\ UNCHANGED claim
         \/ /\ claim[e] = None
            /\ claim' = [claim EXCEPT ![e] = ClaimIdOf[w]]
            /\ GoTo(w, "validate")
  /\ UNCHANGED <<now, checkpoint, request, consumed, evidence, granted, crashes>>

(* ApprovalResumeBindings of the restored context. *)
Bindings(j) ==
  [exec |-> j.exec, op |-> OperationOf[j.exec],
   request |-> ApprovalRequestId(j.exec, j.bound),
   intent |-> j.bound, payload |-> j.bound]

(* Mutant: the intent of the restored execution is not evaluated again. *)
ResumeVerdictOnEvidence(j) ==
  ValidateEvidence(j.evidence, Bindings(j), Expired(j.evidence.expires, j.at))

(* The verdict on a resume call: the evidence against the checkpoint, then, *)
(* for an approval, the current intent against the checkpoint.              *)
ResumeVerdict(j) ==
  LET v == ValidateEvidence(j.evidence, Bindings(j), Expired(j.evidence.expires, j.at))
  IN  IF GatePassed(v) THEN ValidateCurrentIdentity(Bindings(j), j.intent, j.intent)
                       ELSE v

(* Mutant: the failing call returns without giving the claim back. *)
RestoreFailsHolding(w) ==
  /\ pc[w] = "validate"
  /\ Return(w)
  /\ UNCHANGED <<now, files, evidence, granted, crashes>>

(* Restoring or checking the bindings raises: the claim is given back. *)
RestoreFails(w) ==
  /\ pc[w] = "validate"
  /\ GoTo(w, "release")
  /\ UNCHANGED <<now, files, evidence, granted, crashes>>

(* Mutants: the validation status is stored as the approval status; the     *)
(* approval status of the restored context is not updated.                  *)
ValidateConfused(w) ==
  /\ pc[w] = "validate"
  /\ pc' = [pc EXCEPT ![w] = "consume"]
  /\ job' = [job EXCEPT ![w].approval = ResumeVerdict(job[w]).validation]
  /\ UNCHANGED <<now, files, evidence, granted, crashes>>

ValidateForgetful(w) ==
  /\ pc[w] = "validate"
  /\ GoTo(w, IF ResumeVerdict(job[w]).validation \in ReleasingValidations
             THEN "release" ELSE "consume")
  /\ UNCHANGED <<now, files, evidence, granted, crashes>>

Validate(w) ==
  /\ pc[w] = "validate"
  /\ LET v == ResumeVerdict(job[w])
     IN  \/ /\ v.validation \in ReleasingValidations
            /\ GoTo(w, "release")
         \/ /\ v.validation \notin ReleasingValidations
            /\ pc' = [pc EXCEPT ![w] = "consume"]
            /\ job' = [job EXCEPT ![w].approval = v.status]
  /\ UNCHANGED <<now, files, evidence, granted, crashes>>

(* release(): the claim file is this worker's, and is removed.  The         *)
(* ownership test of release and consume cannot fail (ExclusiveClaim), so   *)
(* its error path is not an alternative of its own.                         *)
Release(w) ==
  /\ pc[w] = "release"
  /\ claim[job[w].exec] = ClaimIdOf[w]
  /\ claim' = [claim EXCEPT ![job[w].exec] = None]
  /\ Return(w)
  /\ UNCHANGED <<now, checkpoint, request, consumed, evidence, granted, crashes>>

(* Mutant: the consumed marker is written without O_EXCL. *)
ConsumeShared(w) ==
  /\ pc[w] = "consume"
  /\ consumed' = [consumed EXCEPT ![job[w].exec] = w]
  /\ GoTo(w, "unclaim")
  /\ UNCHANGED <<now, checkpoint, request, claim, evidence, granted, crashes>>

(* consume(), first half: the exclusive creation of the consumed marker. If *)
(* it exists the call raises and the claim file stays.                      *)
Consume(w) ==
  /\ pc[w] = "consume"
  /\ claim[job[w].exec] = ClaimIdOf[w]
  /\ LET e == job[w].exec
     IN  \/ /\ consumed[e] # None
            /\ Return(w)
            /\ UNCHANGED consumed
         \/ /\ consumed[e] = None
            /\ consumed' = [consumed EXCEPT ![e] = w]
            /\ GoTo(w, "unclaim")
  /\ UNCHANGED <<now, checkpoint, request, claim, evidence, granted, crashes>>

(* Second half: the claim file is removed and resume returns its outcome. *)
Unclaim(w) ==
  /\ pc[w] = "unclaim"
  /\ claim' = [claim EXCEPT ![job[w].exec] = None]
  /\ granted' = [granted EXCEPT ![job[w].exec] = Append(@, job[w])]
  /\ Return(w)
  /\ UNCHANGED <<now, checkpoint, request, consumed, evidence, crashes>>

(* A process dies between two steps, or a port call raises an I/O error:    *)
(* what it held in memory is gone and the files stay as they are.           *)
Crash(w) ==
  /\ crashes < MaxCrashes
  /\ pc[w] # "idle"
  /\ crashes' = crashes + 1
  /\ Return(w)
  /\ UNCHANGED <<now, files, evidence, granted>>

----------------------------------------------------------------------------

WorkerStep(w) ==
  \/ Save(w) \/ SaveReplace(w) \/ Publish(w) \/ PublishReplace(w) \/ WriteOnceFails(w)
  \/ CreateClaim(w) \/ RestoreFails(w) \/ Validate(w)
  \/ Release(w) \/ Consume(w) \/ Unclaim(w)

WorkerCall(w) ==
  \/ \E e \in Executions, i \in Intents : StartRun(w, e, i)
  \/ \E e \in Executions, v \in Presentable, i \in Intents : BeginResume(w, e, v, i)

ApprovalNext ==
  \/ Tick /\ UNCHANGED approvalVars
  \/ \E w \in Workers : WorkerStep(w) \/ WorkerCall(w) \/ Crash(w)
  \/ \E e \in Executions, d \in Decisions : Decide(e, d)

ApprovalSpec == ApprovalInit /\ [][ApprovalNext]_<<now, approvalVars>>

(* A process that is inside a call goes on: nothing in the calls blocks.    *)
ApprovalFairness == \A w \in Workers : WF_<<now, approvalVars>>(WorkerStep(w))

FairApprovalSpec == ApprovalSpec /\ ApprovalFairness
----------------------------------------------------------------------------
(* Properties *)

(* Two resume calls never both come back with the claim of one checkpoint   *)
(* consumed, whatever the interleaving of their file system calls and       *)
(* whichever of them dies: the approval is used at most once               *)
(* (FileControlledStatePort.claim, consume).                                *)
AtMostOneResume == \A e \in Executions : Len(granted[e]) <= 1

(* Nobody takes a claim away from the call that created it, even when all   *)
(* callers use the default claim id, and two calls never hold the claim of  *)
(* one execution: the ownership test of release and consume cannot fail.    *)
ExclusiveClaim ==
  \A w \in Workers : Holds(w) =>
    /\ claim[job[w].exec] = ClaimIdOf[w]
    /\ \A u \in Workers : Holds(u) /\ job[u].exec = job[w].exec => u = w

(* A resume that comes back APPROVED rests on a verified approval of this   *)
(* very execution, for the intent in its checkpoint, which is also the      *)
(* intent it would write now, and not expired when the call read the clock. *)
ApprovedAsDecided ==
  \A e \in Executions : \A k \in DOMAIN granted[e] :
    LET j == granted[e][k]
    IN  j.approval = "APPROVED" =>
          \E v \in evidence :
            /\ v = j.evidence
            /\ v.decision = "APPROVED"
            /\ v.exec = e
            /\ v.intent = j.bound
            /\ j.intent = j.bound
            /\ ~Expired(v.expires, j.at)

(* An approver never sees a request whose checkpoint is not durable         *)
(* (suspend: save, then publish).                                           *)
SavedBeforePublished ==
  \A e \in Executions : request[e] # None => checkpoint[e] # None

(* Without a crash no claim is left behind on a checkpoint that can still   *)
(* be resumed: every path of resume that took the claim releases or         *)
(* consumes it, the failing ones included.                                  *)
NoLeakedClaim ==
  crashes = 0 =>
    \A e \in Executions :
      claim[e] # None /\ consumed[e] = None =>
        \E w \in Workers : Holds(w) /\ job[w].exec = e

(* Unless a process dies, a claimed checkpoint becomes free again or is     *)
(* consumed for good: no caller waits for ever behind a live claim.         *)
ClaimResolved ==
  \A e \in Executions :
    claim[e] # None ~> claim[e] = None \/ consumed[e] # None \/ crashes > 0

----------------------------------------------------------------------------
(* The abstract lease that the files implement.  The holder of a checkpoint *)
(* is the call that is between creating and removing the claim file; a      *)
(* claim file without such a call is an orphan.                             *)

Orphan == [orphan |-> TRUE]

HolderOf(e) ==
  IF \E w \in Workers : Holds(w) /\ job[w].exec = e
  THEN CHOOSE w \in Workers : Holds(w) /\ job[w].exec = e
  ELSE IF claim[e] = None THEN None ELSE Orphan

Lease == INSTANCE SingleConsumer WITH
  Free <- None,
  holder <- [e \in Executions |-> HolderOf(e)],
  spentBy <- consumed,
  served <- [e \in Executions |-> Len(granted[e])]

(* The file protocol of claim, release and consume implements the lease: a  *)
(* checkpoint is leased to one caller at a time, spent once, and the caller *)
(* that spent it is the only one served.                                    *)
ImplementsLease == Lease!LeaseSpec
=============================================================================
