------------------------ MODULE WriteExecutionProofs ------------------------
(***************************************************************************)
(* Proofs about WriteExecution, for every set of executions, operations and *)
(* intents, every evidence a host presents, and any number of crashes.      *)
(***************************************************************************)
EXTENDS WriteExecution, TLAPS, NaturalsInduction, WellFoundedInduction

wrVars == <<now, writeVars>>

----------------------------------------------------------------------------
(* The inductive invariant.  Each part is about one piece of the path; none *)
(* of the checked invariants but OneEffectPerOperation is inductive alone.  *)

EarlyStages == {"none", "reserve", "guard", "request", "invoke"}

(* How far the controls of e have come.  A call keeps them when the process *)
(* that made it is gone.                                                    *)
ControlsHeld(e) ==
  /\ stage[e] \in EarlyStages => call[e] = "none"
  /\ stage[e] = "waiting" => call[e] # "none"
  /\ stage[e] \in {"guard", "request", "invoke"} \/ call[e] # "none" =>
       reservation[Key(e)] = context[e].intent
  /\ stage[e] \in {"request", "invoke"} \/ call[e] # "none" =>
       context[e].approval = "APPROVED"
  /\ stage[e] = "invoke" \/ call[e] # "none" => e \in requested

ControlInv == \A e \in Executions : ControlsHeld(e)

(* The provider answers a call once; a commit it reports is an effect, and  *)
(* what it remembers is one too.                                            *)
AnswerSound(e) ==
  /\ answer[e] \in {None, "COMMITTED", "NOT_COMMITTED"}
  /\ answer[e] # None <=> call[e] = "done"
  /\ e \in effects => answer[e] = "COMMITTED"
  /\ answer[e] = "COMMITTED" => EffectOf(e)

Remembered(k, i) == \E f \in effects : Key(f) = k /\ context[f].intent = i

ProviderInv ==
  /\ \A e \in Executions : AnswerSound(e)
  /\ \A k \in Keys : memory[k] # None => Remembered(k, memory[k].intent)
  /\ \A e \in effects : memory[Key(e)] # None \/ Key(e) \in lapsed
  /\ OneEffectPerOperation

(* What the host knows, has recorded and has reported agrees with the       *)
(* answer of the provider.                                                  *)
OutcomeSound(e) ==
  /\ stage[e] \in EarlyStages \cup {"waiting"} => outcome[e] = None /\ journal[e] = None
  /\ stage[e] \in {"record", "verify", "complete", "done"} => outcome[e] # None
  /\ stage[e] \in {"verify", "complete", "done"} => journal[e] = outcome[e]
  /\ stage[e] = "verify" => outcome[e] = "COMMITTED"
  /\ outcome[e] \in {"COMMITTED", "NOT_COMMITTED"} => answer[e] = outcome[e]
  /\ journal[e] \in {None, outcome[e]}
  /\ verification[e] # None => outcome[e] = "COMMITTED" /\ journal[e] = "COMMITTED"
  /\ status[e] # None \/ e \in emitted => stage[e] = "done"
  /\ status[e] # None => status[e] = StatusOf(outcome[e])
  /\ e \in emitted => RunsSuffix(e)

OutcomeInv == \A e \in Executions : OutcomeSound(e)

WriteInv == ControlInv /\ ProviderInv /\ OutcomeInv

----------------------------------------------------------------------------
(* Lemmas about the operators *)

(* The validity that a guard decision leaves is one of the presented ones.  *)
LEMMA EarliestIsOne ==
  ASSUME NEW S \in SUBSET Nat, S # {}
  PROVE  Earliest(S) \in S
<1> DEFINE Less == {ss \in Nat \X Nat : ss[1] < ss[2]}
<1>0. IsWellFoundedOn(Less, Nat)
  BY NatLessThanWellFounded DEF OpToRel
<1> HIDE DEF Less
<1>1. PICK m \in S : \A n \in S : ~(<<n, m>> \in Less)
  BY <1>0, WFMin
<1>2. ASSUME NEW n \in S PROVE m <= n
  <2>1. m \in Nat /\ n \in Nat
    OBVIOUS
  <2>2. n < m => <<n, m>> \in Less
    BY <2>1 DEF Less
  <2> QED BY <1>1, <2>1, <2>2
<1> QED BY <1>2 DEF Earliest

(* An allowing guard decision has seen an approval. *)
LEMMA GuardNeedsApproval ==
  ASSUME NEW e \in Executions, NEW q, NEW t,
         context[e].approval \in ApprovalStatuses,
         GuardEvaluate(GuardRequest(e, q), t).eligibility = "ALLOWED"
  PROVE  context[e].approval = "APPROVED"
<1> DEFINE ev == GuardRequest(e, q).evidence
           gv == [ev EXCEPT !.controls["POLICY_DENIED"] = TRUE,
                            !.controls["TOOL_PRECONDITION_FAILED"] = TRUE,
                            !.controls["BUSINESS_PRECONDITION_FAILED"] = TRUE]
<1>1. gv.approval = context[e].approval
  BY DEF GuardRequest
<1>2. PreWriteEvaluate(gv).eligibility = "ALLOWED"
  <2> HIDE DEF gv
  <2>1. gv = [GuardRequest(e, q).evidence EXCEPT
                !.controls["POLICY_DENIED"] = TRUE,
                !.controls["TOOL_PRECONDITION_FAILED"] = TRUE,
                !.controls["BUSINESS_PRECONDITION_FAILED"] = TRUE]
    BY DEF gv
  <2> QED BY <2>1 DEF GuardEvaluate, Blocked, Decision
<1> HIDE DEF gv, ev
<1>3. gv.approval \in ApprovalStatuses /\ gv.approval \notin {"REJECTED", "NOT_REQUESTED", "PENDING", "EXPIRED"}
  BY <1>1, <1>2 DEF PreWriteEvaluate, Blocked, Decision
<1> QED BY <1>1, <1>3 DEF ApprovalStatuses

(* Every commit state has a status of its own. *)
LEMMA StatusType ==
  ASSUME NEW c \in CommitStates
  PROVE  /\ StatusOf(c) \in FinalStatuses
         /\ StatusOf(c) = "COMPLETED" <=> c = "COMMITTED"
         /\ StatusOf(c) = "FAILED" <=> c = "NOT_COMMITTED"
BY DEF CommitStates, StatusOf, FinalStatuses

----------------------------------------------------------------------------
(* Type correctness *)

LEMMA WriteTypeInit == WriteInit => WriteTypeOK
BY DEF WriteInit, WriteTypeOK, Stages

(* WriteTypeOK is not inductive alone: complete_controlled_execution takes   *)
(* the status from an outcome, and the provider the intent from a context.  *)
LEMMA WriteTypeStep == WriteTypeOK /\ WriteInv /\ [WriteNext]_wrVars => WriteTypeOK'
<1> SUFFICES ASSUME WriteTypeOK, WriteInv, [WriteNext]_wrVars PROVE WriteTypeOK'
  OBVIOUS
<1> USE BaseAssumption, WriteAssumption
    DEF WriteTypeOK, Stages, Contexts, Advance, Raise, Key, Keys,
        writeMemory, evidenceStores, provider
<1>1. ASSUME NEW e \in Executions, NEW a \in ResumedStatuses, NEW i \in Intents,
             BeginWrite(e, a, i)
      PROVE  WriteTypeOK'
  <2>1. [approval |-> a, intent |-> i] \in Contexts
    BY DEF ResumedStatuses, ApprovalStatuses
  <2> QED BY <1>1, <2>1 DEF BeginWrite
<1>2. ASSUME NEW e \in Executions, NEW g \in Guarantees, Reserve(e, g) PROVE WriteTypeOK'
  BY <1>2 DEF Reserve
<1>3. ASSUME NEW e \in Executions, NEW g \in Guarantees, ReserveFails(e, g) PROVE WriteTypeOK'
  BY <1>3 DEF ReserveFails
<1>4. ASSUME NEW e \in Executions, NEW q \in GuardInputs, Guard(e, q) PROVE WriteTypeOK'
  <2> DEFINE S == {current[e]} \cup {p.until : p \in q.policy \cup q.precondition}
  <2>1. S \subseteq Nat /\ S # {}
    OBVIOUS
  <2>2. Earliest(S) \in Nat
    BY <2>1, EarliestIsOne
  <2>3. current' \in [Executions -> Nat]
    BY <1>4, <2>2 DEF Guard
  <2> QED BY <1>4, <2>3 DEF Guard
<1>5. ASSUME NEW e \in Executions, TrustFails(e) PROVE WriteTypeOK'
  BY <1>5 DEF TrustFails
<1>6. ASSUME NEW e \in Executions, RecordRequested(e) PROVE WriteTypeOK'
  BY <1>6 DEF RecordRequested
<1>7. ASSUME NEW e \in Executions, RecordRequestedFails(e) PROVE WriteTypeOK'
  BY <1>7 DEF RecordRequestedFails
<1>8. ASSUME NEW e \in Executions, Invoke(e) PROVE WriteTypeOK'
  BY <1>8 DEF Invoke
<1>9. ASSUME NEW e \in Executions, Receive(e) PROVE WriteTypeOK'
  BY <1>9 DEF Receive
<1>10. ASSUME NEW e \in Executions, Uncertain(e) PROVE WriteTypeOK'
  BY <1>10 DEF Uncertain, CommitStates
<1>11. ASSUME NEW e \in Executions, ForeignOutcome(e) PROVE WriteTypeOK'
  BY <1>11 DEF ForeignOutcome
<1>12. ASSUME NEW e \in Executions, RecordOutcome(e) PROVE WriteTypeOK'
  BY <1>12 DEF RecordOutcome
<1>13. ASSUME NEW e \in Executions, RecordOutcomeFails(e) PROVE WriteTypeOK'
  BY <1>13 DEF RecordOutcomeFails
<1>14. ASSUME NEW e \in Executions, NEW v \in VerificationStatuses, Verify(e, v) PROVE WriteTypeOK'
  BY <1>14 DEF Verify
<1>15. ASSUME NEW e \in Executions, Complete(e) PROVE WriteTypeOK'
  <2>0. outcome[e] \in CommitStates
    BY <1>15 DEF Complete, WriteInv, OutcomeInv, OutcomeSound
  <2>1. StatusOf(outcome[e]) \in FinalStatuses
    BY <2>0, StatusType
  <2> QED BY <1>15, <2>1 DEF Complete
<1>16. ASSUME NEW e \in Executions, SuffixFails(e) PROVE WriteTypeOK'
  BY <1>16 DEF SuffixFails
<1>17. ASSUME NEW e \in Executions, WriteCrash(e) PROVE WriteTypeOK'
  BY <1>17 DEF WriteCrash
<1>18. ASSUME NEW e \in Executions, ProviderApply(e) PROVE WriteTypeOK'
  <2>1. context[e] \in Contexts
    BY <1>18 DEF ProviderApply, WriteInv, ControlInv, ControlsHeld, EarlyStages
  <2>2. [intent |-> context[e].intent, until |-> current[e]] \in [intent : Intents, until : Nat]
    BY <2>1
  <2> QED BY <1>18, <2>2 DEF ProviderApply, Answers, CommitStates
<1>19. ASSUME NEW e \in Executions, ProviderRefuse(e) PROVE WriteTypeOK'
  BY <1>19 DEF ProviderRefuse, Answers, CommitStates
<1>20. ASSUME NEW e \in Executions, ProviderRepeat(e) PROVE WriteTypeOK'
  BY <1>20 DEF ProviderRepeat, Answers, CommitStates
<1>21. ASSUME NEW k \in Keys, ProviderForget(k) PROVE WriteTypeOK'
  BY <1>21 DEF ProviderForget
<1>22. CASE Tick /\ UNCHANGED writeVars
  BY <1>22 DEF Tick, writeVars
<1>23. CASE UNCHANGED wrVars
  BY <1>23 DEF wrVars, writeVars
<1> QED
  BY <1>1, <1>2, <1>3, <1>4, <1>5, <1>6, <1>7, <1>8, <1>9, <1>10, <1>11, <1>12, <1>13, <1>14,
     <1>15, <1>16, <1>17, <1>18, <1>19, <1>20, <1>21, <1>22, <1>23
     DEF WriteNext, WriteStep, HostStep, ProviderStep

----------------------------------------------------------------------------
(* The controls *)

LEMMA ControlStep == WriteTypeOK /\ WriteInv /\ [WriteNext]_wrVars => ControlInv'
<1> SUFFICES ASSUME WriteTypeOK, ControlInv, [WriteNext]_wrVars PROVE ControlInv'
  BY DEF WriteInv
<1> USE BaseAssumption
    DEF ControlInv, ControlsHeld, EarlyStages, WriteTypeOK, Advance, Raise, Key, Keys,
        writeMemory, evidenceStores, provider
<1>t. \A x \in Executions : stage[x] # "none" =>
        context[x].intent \in Intents /\ context[x].intent # None
          /\ context[x].approval \in ApprovalStatuses
  BY DEF Contexts
<1>1. ASSUME NEW e \in Executions, NEW a \in ResumedStatuses, NEW i \in Intents,
             BeginWrite(e, a, i)
      PROVE  ControlInv'
  BY <1>1 DEF BeginWrite
<1>2. ASSUME NEW e \in Executions, NEW g \in Guarantees, Reserve(e, g) PROVE ControlInv'
  <2>1. /\ stage[e] = "reserve" /\ Key(e) \in Keys /\ stage'[e] \in {"guard", "raised"}
        /\ \A x \in Executions \ {e} : stage'[x] = stage[x]
        /\ UNCHANGED <<context, call, requested>>
    BY <1>2 DEF Reserve
  <2>2. \/ reservation' = reservation /\ stage'[e] = "raised"
        \/ /\ reservation[Key(e)] \in {None, context[e].intent}
           /\ reservation' = [reservation EXCEPT ![Key(e)] = context[e].intent]
    BY <1>2 DEF Reserve
  <2>3. ASSUME NEW x \in Executions, reservation[Key(x)] = context[x].intent, stage[x] # "none"
        PROVE  reservation'[Key(x)] = context[x].intent
    BY <1>t, <2>2, <2>3
  <2>4. stage'[e] = "guard" => reservation'[Key(e)] = context[e].intent
    BY <2>1, <2>2
  <2> QED BY <2>1, <2>3, <2>4
<1>3. ASSUME NEW e \in Executions, NEW g \in Guarantees, ReserveFails(e, g) PROVE ControlInv'
  <2>1. /\ stage[e] = "reserve" /\ stage' = [stage EXCEPT ![e] = "raised"]
        /\ UNCHANGED <<context, call, requested>>
        /\ \/ reservation' = reservation
           \/ /\ reservation[Key(e)] = None
              /\ reservation' = [reservation EXCEPT ![Key(e)] = context[e].intent]
    BY <1>3 DEF ReserveFails
  <2>2. ASSUME NEW x \in Executions, reservation[Key(x)] = context[x].intent, stage[x] # "none"
        PROVE  reservation'[Key(x)] = context[x].intent
    BY <1>t, <2>1, <2>2
  <2> QED BY <2>1, <2>2
<1>4. ASSUME NEW e \in Executions, NEW q \in GuardInputs, Guard(e, q) PROVE ControlInv'
  <2>1. /\ stage[e] = "guard" /\ stage'[e] \in {"request", "raised"}
        /\ \A x \in Executions \ {e} : stage'[x] = stage[x]
        /\ UNCHANGED <<context, call, reservation, requested>>
    BY <1>4 DEF Guard
  <2>2. stage'[e] = "request" => GuardEvaluate(GuardRequest(e, q), now).eligibility = "ALLOWED"
    BY <1>4 DEF Guard
  <2>3. stage'[e] = "request" => context[e].approval = "APPROVED"
    BY <1>t, <2>1, <2>2, GuardNeedsApproval
  <2> QED BY <2>1, <2>3
<1>5. ASSUME NEW e \in Executions, TrustFails(e) PROVE ControlInv'
  BY <1>5 DEF TrustFails
<1>6. ASSUME NEW e \in Executions, RecordRequested(e) PROVE ControlInv'
  BY <1>6 DEF RecordRequested
<1>7. ASSUME NEW e \in Executions, RecordRequestedFails(e) PROVE ControlInv'
  BY <1>7 DEF RecordRequestedFails
<1>8. ASSUME NEW e \in Executions, Invoke(e) PROVE ControlInv'
  BY <1>8 DEF Invoke
<1>9. ASSUME NEW e \in Executions, Receive(e) PROVE ControlInv'
  BY <1>9 DEF Receive
<1>10. ASSUME NEW e \in Executions, Uncertain(e) PROVE ControlInv'
  BY <1>10 DEF Uncertain
<1>11. ASSUME NEW e \in Executions, ForeignOutcome(e) PROVE ControlInv'
  BY <1>11 DEF ForeignOutcome
<1>12. ASSUME NEW e \in Executions, RecordOutcome(e) PROVE ControlInv'
  BY <1>12 DEF RecordOutcome
<1>13. ASSUME NEW e \in Executions, RecordOutcomeFails(e) PROVE ControlInv'
  BY <1>13 DEF RecordOutcomeFails
<1>14. ASSUME NEW e \in Executions, NEW v \in VerificationStatuses, Verify(e, v) PROVE ControlInv'
  BY <1>14 DEF Verify
<1>15. ASSUME NEW e \in Executions, Complete(e) PROVE ControlInv'
  BY <1>15 DEF Complete
<1>16. ASSUME NEW e \in Executions, SuffixFails(e) PROVE ControlInv'
  BY <1>16 DEF SuffixFails
<1>17. ASSUME NEW e \in Executions, WriteCrash(e) PROVE ControlInv'
  BY <1>17 DEF WriteCrash
<1>18. ASSUME NEW e \in Executions, ProviderApply(e) PROVE ControlInv'
  BY <1>18 DEF ProviderApply, Answers
<1>19. ASSUME NEW e \in Executions, ProviderRefuse(e) PROVE ControlInv'
  BY <1>19 DEF ProviderRefuse, Answers
<1>20. ASSUME NEW e \in Executions, ProviderRepeat(e) PROVE ControlInv'
  BY <1>20 DEF ProviderRepeat, Answers
<1>21. ASSUME NEW k \in Keys, ProviderForget(k) PROVE ControlInv'
  BY <1>21 DEF ProviderForget
<1>22. CASE Tick /\ UNCHANGED writeVars
  BY <1>22 DEF Tick, writeVars
<1>23. CASE UNCHANGED wrVars
  BY <1>23 DEF wrVars, writeVars
<1> QED
  BY <1>1, <1>2, <1>3, <1>4, <1>5, <1>6, <1>7, <1>8, <1>9, <1>10, <1>11, <1>12, <1>13, <1>14,
     <1>15, <1>16, <1>17, <1>18, <1>19, <1>20, <1>21, <1>22, <1>23
     DEF WriteNext, WriteStep, HostStep, ProviderStep

----------------------------------------------------------------------------
(* The outcome *)

LEMMA OutcomeStep == WriteTypeOK /\ WriteInv /\ [WriteNext]_wrVars => OutcomeInv'
<1> SUFFICES ASSUME WriteTypeOK, OutcomeInv, [WriteNext]_wrVars,
                    \A e \in Executions : ControlsHeld(e) /\ AnswerSound(e)
             PROVE  OutcomeInv'
  BY DEF WriteInv, ControlInv, ProviderInv
<1>c. \A e \in Executions :
        /\ stage[e] \in EarlyStages => answer[e] = None
        /\ call[e] = "inflight" => answer[e] = None
        /\ answer[e] \in {None, "COMMITTED", "NOT_COMMITTED"}
  BY DEF ControlsHeld, AnswerSound
<1> USE <1>c, WriteAssumption
    DEF OutcomeInv, OutcomeSound, EarlyStages, RunsSuffix, WriteTypeOK, Advance, Raise,
        CommitStates, writeMemory, evidenceStores, provider
<1>1. ASSUME NEW e \in Executions, NEW a \in ResumedStatuses, NEW i \in Intents,
             BeginWrite(e, a, i)
      PROVE  OutcomeInv'
  BY <1>1 DEF BeginWrite
<1>2. ASSUME NEW e \in Executions, NEW g \in Guarantees, Reserve(e, g) PROVE OutcomeInv'
  BY <1>2 DEF Reserve
<1>3. ASSUME NEW e \in Executions, NEW g \in Guarantees, ReserveFails(e, g) PROVE OutcomeInv'
  BY <1>3 DEF ReserveFails
<1>4. ASSUME NEW e \in Executions, NEW q \in GuardInputs, Guard(e, q) PROVE OutcomeInv'
  BY <1>4 DEF Guard
<1>5. ASSUME NEW e \in Executions, TrustFails(e) PROVE OutcomeInv'
  BY <1>5 DEF TrustFails
<1>6. ASSUME NEW e \in Executions, RecordRequested(e) PROVE OutcomeInv'
  BY <1>6 DEF RecordRequested
<1>7. ASSUME NEW e \in Executions, RecordRequestedFails(e) PROVE OutcomeInv'
  BY <1>7 DEF RecordRequestedFails
<1>8. ASSUME NEW e \in Executions, Invoke(e) PROVE OutcomeInv'
  BY <1>8 DEF Invoke
<1>9. ASSUME NEW e \in Executions, Receive(e) PROVE OutcomeInv'
  BY <1>9 DEF Receive
<1>10. ASSUME NEW e \in Executions, Uncertain(e) PROVE OutcomeInv'
  BY <1>10 DEF Uncertain
<1>11. ASSUME NEW e \in Executions, ForeignOutcome(e) PROVE OutcomeInv'
  BY <1>11 DEF ForeignOutcome
<1>12. ASSUME NEW e \in Executions, RecordOutcome(e) PROVE OutcomeInv'
  BY <1>12 DEF RecordOutcome
<1>13. ASSUME NEW e \in Executions, RecordOutcomeFails(e) PROVE OutcomeInv'
  BY <1>13 DEF RecordOutcomeFails
<1>14. ASSUME NEW e \in Executions, NEW v \in VerificationStatuses, Verify(e, v) PROVE OutcomeInv'
  BY <1>14 DEF Verify
<1>15. ASSUME NEW e \in Executions, Complete(e) PROVE OutcomeInv'
  BY <1>15 DEF Complete
<1>16. ASSUME NEW e \in Executions, SuffixFails(e) PROVE OutcomeInv'
  BY <1>16 DEF SuffixFails
<1>17. ASSUME NEW e \in Executions, WriteCrash(e) PROVE OutcomeInv'
  BY <1>17 DEF WriteCrash
<1>18. ASSUME NEW e \in Executions, ProviderApply(e) PROVE OutcomeInv'
  BY <1>18 DEF ProviderApply, Answers
<1>19. ASSUME NEW e \in Executions, ProviderRefuse(e) PROVE OutcomeInv'
  BY <1>19 DEF ProviderRefuse, Answers
<1>20. ASSUME NEW e \in Executions, ProviderRepeat(e) PROVE OutcomeInv'
  BY <1>20 DEF ProviderRepeat, Answers
<1>21. ASSUME NEW k \in Keys, ProviderForget(k) PROVE OutcomeInv'
  BY <1>21 DEF ProviderForget
<1>22. CASE Tick /\ UNCHANGED writeVars
  BY <1>22 DEF Tick, writeVars
<1>23. CASE UNCHANGED wrVars
  BY <1>23 DEF wrVars, writeVars
<1> QED
  BY <1>1, <1>2, <1>3, <1>4, <1>5, <1>6, <1>7, <1>8, <1>9, <1>10, <1>11, <1>12, <1>13, <1>14,
     <1>15, <1>16, <1>17, <1>18, <1>19, <1>20, <1>21, <1>22, <1>23
     DEF WriteNext, WriteStep, HostStep, ProviderStep

----------------------------------------------------------------------------
(* The provider *)

(* A step that leaves what the provider knows alone, and the context of     *)
(* every execution whose commit it has reported, keeps the invariant.       *)
LEMMA ProviderQuiet ==
  ASSUME ProviderInv, UNCHANGED <<answer, memory, effects, lapsed>>,
         effects \subseteq Executions,
         \A x \in Executions : call'[x] = "done" <=> call[x] = "done",
         \A x \in Executions : answer[x] = "COMMITTED" => context'[x] = context[x]
  PROVE  ProviderInv'
<1>1. \A f \in effects : f \in Executions /\ context'[f] = context[f]
  BY DEF ProviderInv, AnswerSound
<1>2. \A x \in Executions : answer[x] = "COMMITTED" /\ EffectOf(x) => EffectOf(x)'
  BY <1>1 DEF EffectOf, Key
<1>3. \A x \in Executions : AnswerSound(x)'
  BY <1>2 DEF ProviderInv, AnswerSound
<1>4. \A k \in Keys : \A i : Remembered(k, i) => Remembered(k, i)'
  BY <1>1 DEF Remembered, Key
<1>5. \A k \in Keys : memory'[k] # None => Remembered(k, memory[k].intent)'
  BY <1>4 DEF ProviderInv, Remembered
<1>6. OneEffectPerOperation'
  BY <1>1 DEF ProviderInv, OneEffectPerOperation, Key
<1> QED BY <1>3, <1>5, <1>6 DEF ProviderInv, Key

LEMMA ProviderInvStep == WriteTypeOK /\ WriteInv /\ [WriteNext]_wrVars => ProviderInv'
<1> SUFFICES ASSUME WriteTypeOK, ControlInv, ProviderInv, [WriteNext]_wrVars PROVE ProviderInv'
  BY DEF WriteInv
<1> DEFINE Quiet ==
      /\ UNCHANGED <<answer, memory, effects, lapsed>>
      /\ \A x \in Executions : call'[x] = "done" <=> call[x] = "done"
      /\ \A x \in Executions : answer[x] = "COMMITTED" => context'[x] = context[x]
<1>q. ASSUME Quiet PROVE ProviderInv'
  BY <1>q, ProviderQuiet DEF WriteTypeOK
<1>c. \A x \in Executions : stage[x] \in EarlyStages => call[x] = "none" /\ answer[x] # "COMMITTED"
  BY WriteAssumption DEF ControlInv, ControlsHeld, ProviderInv, AnswerSound, CommitStates
<1>d. \A f \in effects : f \in Executions /\ answer[f] = "COMMITTED" /\ call[f] = "done"
  BY WriteAssumption DEF ProviderInv, AnswerSound, CommitStates, WriteTypeOK
<1> HIDE DEF Quiet
<1> USE <1>c
    DEF Quiet, EarlyStages, WriteTypeOK, Advance, Raise, writeMemory, evidenceStores, provider
<1>1. ASSUME NEW e \in Executions, NEW a \in ResumedStatuses, NEW i \in Intents,
             BeginWrite(e, a, i)
      PROVE  Quiet
  BY <1>1 DEF BeginWrite
<1>2. ASSUME NEW e \in Executions, NEW g \in Guarantees, Reserve(e, g) PROVE Quiet
  BY <1>2 DEF Reserve
<1>3. ASSUME NEW e \in Executions, NEW g \in Guarantees, ReserveFails(e, g) PROVE Quiet
  BY <1>3 DEF ReserveFails
<1>4. ASSUME NEW e \in Executions, NEW q \in GuardInputs, Guard(e, q) PROVE Quiet
  BY <1>4 DEF Guard
<1>5. ASSUME NEW e \in Executions, TrustFails(e) PROVE Quiet
  BY <1>5 DEF TrustFails
<1>6. ASSUME NEW e \in Executions, RecordRequested(e) PROVE Quiet
  BY <1>6 DEF RecordRequested
<1>7. ASSUME NEW e \in Executions, RecordRequestedFails(e) PROVE Quiet
  BY <1>7 DEF RecordRequestedFails
<1>8. ASSUME NEW e \in Executions, Invoke(e) PROVE Quiet
  BY <1>8 DEF Invoke
<1>9. ASSUME NEW e \in Executions, Receive(e) PROVE Quiet
  BY <1>9 DEF Receive
<1>10. ASSUME NEW e \in Executions, Uncertain(e) PROVE Quiet
  BY <1>10 DEF Uncertain
<1>11. ASSUME NEW e \in Executions, ForeignOutcome(e) PROVE Quiet
  BY <1>11 DEF ForeignOutcome
<1>12. ASSUME NEW e \in Executions, RecordOutcome(e) PROVE Quiet
  BY <1>12 DEF RecordOutcome
<1>13. ASSUME NEW e \in Executions, RecordOutcomeFails(e) PROVE Quiet
  BY <1>13 DEF RecordOutcomeFails
<1>14. ASSUME NEW e \in Executions, NEW v \in VerificationStatuses, Verify(e, v) PROVE Quiet
  BY <1>14 DEF Verify
<1>15. ASSUME NEW e \in Executions, Complete(e) PROVE Quiet
  BY <1>15 DEF Complete
<1>16. ASSUME NEW e \in Executions, SuffixFails(e) PROVE Quiet
  BY <1>16 DEF SuffixFails
<1>17. ASSUME NEW e \in Executions, WriteCrash(e) PROVE Quiet
  BY <1>17 DEF WriteCrash
<1>18. ASSUME NEW e \in Executions, ProviderApply(e) PROVE ProviderInv'
  <2>1. /\ call[e] = "inflight" /\ memory[Key(e)] = None
        /\ call' = [call EXCEPT ![e] = "done"]
        /\ answer' = [answer EXCEPT ![e] = "COMMITTED"]
        /\ effects' = effects \cup {e}
        /\ memory' = [memory EXCEPT ![Key(e)] =
                       [intent |-> context[e].intent, until |-> current[e]]]
        /\ UNCHANGED <<context, lapsed>> /\ Key(e) \in Keys
    BY <1>18, BaseAssumption DEF ProviderApply, Answers, Key, Keys
  <2>2. EffectOf(e)' /\ \A x \in Executions : EffectOf(x) => EffectOf(x)'
    BY <2>1 DEF EffectOf, Key
  <2>3. \A x \in Executions : AnswerSound(x)'
    BY <2>1, <2>2, WriteAssumption DEF ProviderInv, AnswerSound, CommitStates
  <2>4. \A k \in Keys : \A i : Remembered(k, i) => Remembered(k, i)'
    BY <2>1 DEF Remembered, Key
  <2>5. Remembered(Key(e), context[e].intent)'
    BY <2>1 DEF Remembered, Key
  <2>6. \A k \in Keys : memory'[k] # None => Remembered(k, memory[k].intent)'
    BY <2>1, <2>4, <2>5 DEF ProviderInv, Remembered
  <2>7. \A f \in effects : Key(f) = Key(e) =>
          Key(f) \in lapsed /\ context[f].intent = context[e].intent
    BY <1>d, <2>1 DEF ProviderInv, ControlInv, ControlsHeld
  <2>8. OneEffectPerOperation'
    BY <2>1, <2>7 DEF ProviderInv, OneEffectPerOperation, Key
  <2>9. \A f \in effects' : memory'[Key(f)] # None \/ Key(f) \in lapsed'
    <3>1. [intent |-> context[e].intent, until |-> current[e]] # None
      <4>1. context[e] \in Contexts
        BY <2>1 DEF ControlInv, ControlsHeld
      <4> QED BY <4>1, WriteAssumption DEF Contexts
    <3> QED BY <2>1, <2>7, <3>1, BaseAssumption DEF ProviderInv, Key, Keys
  <2> QED BY <2>3, <2>6, <2>8, <2>9 DEF ProviderInv, Key
<1>19. ASSUME NEW e \in Executions, ProviderRefuse(e) PROVE ProviderInv'
  <2>1. /\ call[e] = "inflight" /\ Key(e) \in Keys
        /\ call' = [call EXCEPT ![e] = "done"]
        /\ answer' = [answer EXCEPT ![e] = "NOT_COMMITTED"]
        /\ UNCHANGED <<context, memory, effects, lapsed>>
    BY <1>19, BaseAssumption DEF ProviderRefuse, Answers, Key, Keys
  <2>3. \A x \in Executions : EffectOf(x)' <=> EffectOf(x)
    BY <2>1 DEF EffectOf, Key
  <2>4. \A x \in Executions : AnswerSound(x)'
    BY <2>1, <2>3, BaseAssumption, WriteAssumption DEF ProviderInv, AnswerSound, CommitStates
  <2> QED BY <2>1, <2>4 DEF ProviderInv, Remembered, OneEffectPerOperation, Key
<1>20. ASSUME NEW e \in Executions, ProviderRepeat(e) PROVE ProviderInv'
  <2>1. /\ call[e] = "inflight" /\ Key(e) \in Keys
        /\ memory[Key(e)] # None /\ memory[Key(e)].intent = context[e].intent
        /\ call' = [call EXCEPT ![e] = "done"]
        /\ answer' = [answer EXCEPT ![e] = "COMMITTED"]
        /\ UNCHANGED <<context, memory, effects, lapsed>>
    BY <1>20, BaseAssumption DEF ProviderRepeat, Answers, Key, Keys
  <2>2. EffectOf(e)
    BY <2>1 DEF ProviderInv, Remembered, EffectOf
  <2>3. \A x \in Executions : EffectOf(x)' <=> EffectOf(x)
    BY <2>1 DEF EffectOf, Key
  <2>4. \A x \in Executions : AnswerSound(x)'
    BY <2>1, <2>2, <2>3, BaseAssumption, WriteAssumption DEF ProviderInv, AnswerSound, CommitStates
  <2> QED BY <2>1, <2>4 DEF ProviderInv, Remembered, OneEffectPerOperation, Key
<1>21. ASSUME NEW k \in Keys, ProviderForget(k) PROVE ProviderInv'
  <2>1. /\ memory' = [memory EXCEPT ![k] = None] /\ lapsed' = lapsed \cup {k}
        /\ UNCHANGED <<call, answer, context, effects>>
    BY <1>21 DEF ProviderForget
  <2>2. \A x \in Executions : AnswerSound(x)'
    BY <2>1 DEF ProviderInv, AnswerSound, EffectOf, Key
  <2>3. \A j \in Keys : memory'[j] # None => Remembered(j, memory[j].intent)'
    BY <2>1 DEF ProviderInv, Remembered, Key
  <2>4. OneEffectPerOperation'
    BY <2>1 DEF ProviderInv, OneEffectPerOperation, Key
  <2>5. \A f \in effects' : memory'[Key(f)] # None \/ Key(f) \in lapsed'
    BY <2>1, BaseAssumption DEF ProviderInv, Key, Keys
  <2> QED BY <2>2, <2>3, <2>4, <2>5 DEF ProviderInv, Key
<1>22. ASSUME Tick /\ UNCHANGED writeVars PROVE Quiet
  BY <1>22 DEF Tick, writeVars
<1>23. ASSUME UNCHANGED wrVars PROVE Quiet
  BY <1>23 DEF wrVars, writeVars
<1> QED
  BY <1>q, <1>1, <1>2, <1>3, <1>4, <1>5, <1>6, <1>7, <1>8, <1>9, <1>10, <1>11, <1>12, <1>13, <1>14,
     <1>15, <1>16, <1>17, <1>18, <1>19, <1>20, <1>21, <1>22, <1>23
     DEF WriteNext, WriteStep, HostStep, ProviderStep

----------------------------------------------------------------------------
(* The theorems *)

LEMMA WriteInvInit == WriteInit => WriteInv
BY WriteAssumption
   DEF WriteInit, WriteInv, ControlInv, ControlsHeld, ProviderInv, AnswerSound,
       OneEffectPerOperation, OutcomeInv, OutcomeSound, EarlyStages, CommitStates, Keys

LEMMA WriteInvariant == WriteSpec => [](WriteTypeOK /\ WriteInv)
<1>1. WriteInit => WriteTypeOK /\ WriteInv
  BY WriteTypeInit, WriteInvInit
<1>2. WriteTypeOK /\ WriteInv /\ [WriteNext]_wrVars => (WriteTypeOK /\ WriteInv)'
  BY WriteTypeStep, ControlStep, OutcomeStep, ProviderInvStep DEF WriteInv
<1> QED BY <1>1, <1>2, PTL DEF WriteSpec, wrVars

(* Every variable keeps its type; in particular complete_controlled_execution *)
(* never takes a status from an outcome that is missing, and no provider      *)
(* call is made without a restored context.                                   *)
THEOREM WriteTypeCorrect == WriteSpec => []WriteTypeOK
BY WriteInvariant, PTL

(* A provider call is made, and stays, under durable WRITE_REQUESTED        *)
(* evidence, an approved context and a reservation of the key for this very *)
(* payload (IdempotencyCoordinator.reserve, WriteGuard.evaluate,            *)
(* WriteExecutionCoordinator.execute), whatever other executions of the     *)
(* operation do and wherever a process dies.                                *)
THEOREM CallsAreControlled == WriteSpec => []InvokedUnderControls
<1>1. WriteTypeOK /\ WriteInv => InvokedUnderControls
  BY DEF WriteInv, ControlInv, ControlsHeld, InvokedUnderControls
<1> QED BY <1>1, WriteInvariant, PTL

(* A business operation changes the provider's data once while the provider *)
(* keeps its guarantee, and never with two payloads: the reservation of the *)
(* key outlives every execution that made it.                               *)
THEOREM EffectsAreSingle == WriteSpec => []OneEffectPerOperation
<1>1. WriteTypeOK /\ WriteInv => OneEffectPerOperation
  BY DEF WriteInv, ProviderInv
<1> QED BY <1>1, WriteInvariant, PTL

(* No durable outcome and no result denies an effect that is there or that  *)
(* a call under way can still cause: CommitAwareWriteExecutor says          *)
(* NOT_COMMITTED only when the provider has said so.                        *)
THEOREM EffectsAreNeverDenied == WriteSpec => []NeverDenied
<1>1. WriteTypeOK /\ WriteInv => NeverDenied
  <2> SUFFICES ASSUME WriteTypeOK, WriteInv, NEW e \in Executions,
                      e \in effects \/ call[e] = "inflight"
               PROVE  journal[e] # "NOT_COMMITTED" /\ status[e] # "FAILED"
    BY DEF NeverDenied
  <2>1. answer[e] # "NOT_COMMITTED"
    BY WriteAssumption DEF WriteInv, ProviderInv, AnswerSound, CommitStates
  <2>2. outcome[e] # "NOT_COMMITTED"
    BY <2>1 DEF WriteInv, OutcomeInv, OutcomeSound
  <2>3. journal[e] # "NOT_COMMITTED"
    BY <2>2, WriteAssumption DEF WriteInv, OutcomeInv, OutcomeSound, CommitStates
  <2>4. status[e] # "FAILED"
    <3>1. status[e] # None => outcome[e] \in CommitStates /\ status[e] = StatusOf(outcome[e])
      BY DEF WriteInv, OutcomeInv, OutcomeSound, WriteTypeOK
    <3> QED BY <2>2, <3>1, StatusType, WriteAssumption DEF FinalStatuses
  <2> QED BY <2>3, <2>4
<1> QED BY <1>1, WriteInvariant, PTL

(* A commit in the outcome evidence, a COMPLETED result and a suffix that   *)
(* has run are backed by the provider's data, also when the answer was a    *)
(* repetition of what another execution had caused.                         *)
THEOREM CommitsAreReal == WriteSpec => []ReportedCommitIsReal
<1>1. WriteTypeOK /\ WriteInv => ReportedCommitIsReal
  <2> SUFFICES ASSUME WriteTypeOK, WriteInv, NEW e \in Executions,
                      journal[e] = "COMMITTED" \/ status[e] = "COMPLETED" \/ e \in emitted
               PROVE  EffectOf(e)
    BY DEF ReportedCommitIsReal
  <2>1. journal[e] = "COMMITTED" => outcome[e] = "COMMITTED"
    BY WriteAssumption DEF WriteInv, OutcomeInv, OutcomeSound, CommitStates
  <2>2. status[e] = "COMPLETED" => outcome[e] = "COMMITTED"
    <3>1. status[e] # None => outcome[e] \in CommitStates /\ status[e] = StatusOf(outcome[e])
      BY DEF WriteInv, OutcomeInv, OutcomeSound, WriteTypeOK
    <3> QED BY <3>1, StatusType, WriteAssumption DEF FinalStatuses
  <2>3. e \in emitted => outcome[e] = "COMMITTED"
    BY DEF WriteInv, OutcomeInv, OutcomeSound, RunsSuffix
  <2>4. answer[e] = "COMMITTED"
    BY <2>1, <2>2, <2>3 DEF WriteInv, OutcomeInv, OutcomeSound
  <2> QED BY <2>4 DEF WriteInv, ProviderInv, AnswerSound
<1> QED BY <1>1, WriteInvariant, PTL

(* A verification that fails or is unknown leaves the commit as it was      *)
(* recorded and only withholds the suffix (PostWriteVerifier.verify,        *)
(* complete_controlled_execution).                                          *)
THEOREM CommitsSurviveVerification == WriteSpec => []VerificationKeepsCommit
<1>1. WriteTypeOK /\ WriteInv => VerificationKeepsCommit
  <2> SUFFICES ASSUME WriteTypeOK, WriteInv, NEW e \in Executions,
                      verification[e] \in {"FAILED", "UNKNOWN"}
               PROVE  /\ journal[e] = "COMMITTED" /\ status[e] \in {None, "COMPLETED"}
                      /\ e \notin emitted
    BY DEF VerificationKeepsCommit
  <2>1. verification[e] # None
    BY WriteAssumption DEF VerificationStatuses
  <2>2. outcome[e] = "COMMITTED" /\ journal[e] = "COMMITTED"
    BY <2>1 DEF WriteInv, OutcomeInv, OutcomeSound
  <2>3. status[e] \in {None, "COMPLETED"}
    BY <2>2, StatusType DEF WriteInv, OutcomeInv, OutcomeSound, CommitStates
  <2>4. e \notin emitted
    BY DEF WriteInv, OutcomeInv, OutcomeSound, RunsSuffix
  <2> QED BY <2>2, <2>3, <2>4
<1> QED BY <1>1, WriteInvariant, PTL

(* A result, a verification and a suffix rest on the durable record of the  *)
(* outcome, whatever raises afterwards (WriteOutcomeCoordinator.finalize,   *)
(* complete_controlled_execution).                                          *)
THEOREM OutcomesAreOnRecord == WriteSpec => []OutcomeOnRecord
<1>1. WriteTypeOK /\ WriteInv => OutcomeOnRecord
  <2> SUFFICES ASSUME WriteTypeOK, WriteInv, NEW e \in Executions
               PROVE  /\ status[e] # None => journal[e] # None /\ status[e] = StatusOf(journal[e])
                      /\ verification[e] # None \/ e \in emitted => journal[e] = "COMMITTED"
    BY DEF OutcomeOnRecord
  <2>1. OutcomeSound(e)
    BY DEF WriteInv, OutcomeInv
  <2>2. status[e] # None => journal[e] # None /\ status[e] = StatusOf(journal[e])
    BY <2>1 DEF OutcomeSound
  <2>3. verification[e] # None => journal[e] = "COMMITTED"
    BY <2>1 DEF OutcomeSound
  <2>4. e \in emitted => journal[e] = "COMMITTED"
    BY <2>1 DEF OutcomeSound, RunsSuffix
  <2> QED BY <2>2, <2>3, <2>4
<1> QED BY <1>1, WriteInvariant, PTL
=============================================================================
