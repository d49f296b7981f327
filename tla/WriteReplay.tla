----------------------------- MODULE WriteReplay -----------------------------
(***************************************************************************)
(* Replay of a controlled WRITE: WriteReplayEvidenceComposer puts the       *)
(* approval, the recorded request, the commit outcome and the verification  *)
(* of an operation under seal, WriteReplayEvidenceLoader reads them back,   *)
(* and ReplayWriteSession answers the WRITE calls of the replay from them,  *)
(* or MockWriteExecutor from given exchanges.                               *)
(*                                                                          *)
(* The operation stands for the business operation, the approval request    *)
(* and the intent that the pieces of evidence name; the intent's hash is    *)
(* over the Skill, node, tool and payload.  The execution and the           *)
(* invocation are apart: several executions may carry out one operation,    *)
(* with one idempotency key, and an outcome or a verification names its     *)
(* invocation but no execution.  A bundle is its records in order: the      *)
(* sequence numbers and the hashes over them follow from that, whoever has  *)
(* put it together.                                                         *)
(***************************************************************************)
EXTENDS Snapshots, FiniteSets

CONSTANTS
  Approvals,      \* ApprovalEvidence: [kind, tenant, execution, op, decision]
  Attempts,       \* WriteAttemptRecord: [kind, request, at]
  Outcomes,       \* WriteOutcomeRecord: [kind, identity, attempt, state]
  Verifications,  \* VerificationResult: [kind, identity]
  Requests,       \* WriteCallRequest: [tenant, execution, op, invocation, key]
  Identities,     \* WriteReplayIdentity: [tenant, execution, op, key]
  Protection,     \* the classification of the composer
  MaxBundles      \* bound for model checking

ASSUME WriteReplayAssumption ==
  Protection \in PROTECTED_CLASSIFICATIONS /\ MaxBundles \in Nat

VARIABLES
  bundles,      \* the ProtectedWriteReplayBundles that were composed
  session,      \* the ReplayWriteSession or MockWriteExecutor in use
  asked,        \* the calls the session got
  decided       \* the outcomes it returned

writeVars == <<bundles, session, asked, decided>>

WriteInit ==
  /\ bundles = {}
  /\ session = None
  /\ asked = << >> /\ decided = << >>

----------------------------------------------------------------------------
(* Composition *)

KINDS == <<"APPROVAL", "WRITE_REQUEST", "COMMIT_OUTCOME", "VERIFICATION_OUTCOME">>

(* _ALLOWED_KIND_SEQUENCES: the approval alone, all but the verification,   *)
(* or everything.                                                           *)
KindSequences == {SubSeq(KINDS, 1, 1), SubSeq(KINDS, 1, 3), KINDS}

(* WriteOutcomeIdentity.from_request: what an outcome or a verification     *)
(* names of the WRITE.                                                      *)
OutcomeIdentity(r) ==
  [tenant |-> r.tenant, op |-> r.op, invocation |-> r.invocation, key |-> r.key]

(* The fields of a piece of evidence that are compared with the identity.   *)
Named(v) ==
  CASE v.kind = "APPROVAL" -> v
    [] v.kind = "WRITE_REQUEST" -> v.request
    [] OTHER -> v.identity

(* Mutant: a piece of evidence only has to be of the right kind. *)
DomainValueOfKind(kind, v, i) == v.kind = kind

(* _validate_domain_value, _outcome_bindings: the execution is compared for *)
(* the approval and the request, the invocation never.                      *)
DomainValueOK(kind, v, i) ==
  /\ v.kind = kind
  /\ Named(v).tenant = i.tenant /\ Named(v).op = i.op
  /\ kind \in {"APPROVAL", "WRITE_REQUEST"} => Named(v).execution = i.execution
  /\ kind # "APPROVAL" => Named(v).key = i.key

(* _validate_lifecycle: vs is the evidence in the order of its kinds. *)
LifecycleOK(i, vs) ==
  /\ \A k \in DOMAIN vs : DomainValueOK(KINDS[k], vs[k], i)
  /\ IF vs[1].decision = "REJECTED" THEN Len(vs) = 1
     ELSE /\ Len(vs) >= 3
          /\ i.key # None
          /\ vs[3].attempt = vs[2]
          /\ vs[3].state = "COMMITTED" <=> Len(vs) = 4

Pieces(n) ==
  {<<a>> : a \in {x \in Approvals : n = 1}}
    \cup {<<a, r, o>> : a \in Approvals, r \in Attempts, o \in {x \in Outcomes : n = 3}}
    \cup {<<a, r, o, v>> : a \in Approvals, r \in Attempts, o \in Outcomes,
                           v \in {x \in Verifications : n = 4}}

Record(kind, i, ref) == [kind |-> kind, identity |-> i, ref |-> ref]

(* WriteReplayEvidenceComposer.compose *)
Compose(i, vs) ==
  /\ LifecycleOK(i, vs)
  /\ PutAll(i.tenant, vs, Protection)
  /\ LET refs == NewRefs(i.tenant, vs, Protection)
         new == [identity |-> i, records |-> [k \in DOMAIN vs |-> Record(KINDS[k], i, refs[k])]]
     IN bundles' = bundles \cup {new}
  /\ UNCHANGED <<session, asked, decided>>

(* A value cannot be sealed: the ones before it stay in the store. *)
ComposeFails(i, vs) ==
  /\ LifecycleOK(i, vs)
  /\ \E k \in 1 .. Len(vs) - 1 : PutAll(i.tenant, SubSeq(vs, 1, k), Protection)
  /\ UNCHANGED writeVars

----------------------------------------------------------------------------
(* Loading *)

Records == UNION {{b.records[k] : k \in DOMAIN b.records} : b \in bundles}

(* ProtectedWriteReplayBundle.__post_init__, WriteReplaySnapshotRecord      *)
BundleOK(b) ==
  /\ [k \in DOMAIN b.records |-> b.records[k].kind] \in KindSequences
  /\ \A k \in DOMAIN b.records :
       /\ b.records[k].identity = b.identity
       /\ b.records[k].ref.tenant = b.identity.tenant
       /\ b.records[k].ref.class \in PROTECTED_CLASSIFICATIONS

(* Every bundle that can be put together from the records there are. *)
Assembled ==
  LET Of(k) == {r \in Records : r.kind = KINDS[k]}
      sequences == {<<a>> : a \in Of(1)}
                     \cup {<<a, r, o>> : a \in Of(1), r \in Of(2), o \in Of(3)}
                     \cup {<<a, r, o, v>> : a \in Of(1), r \in Of(2), o \in Of(3), v \in Of(4)}
  IN {b \in {[identity |-> s[1].identity, records |-> s] : s \in sequences} : BundleOK(b)}

RefsOf(b) == {b.records[k].ref : k \in DOMAIN b.records}

(* WriteReplayEvidenceLoader.load returns the evidence. *)
Loads(b, p) ==
  /\ p.tenant = b.identity.tenant
  /\ \A ref \in RefsOf(b) : Resolves(ref, p)
  /\ LifecycleOK(b.identity, [k \in DOMAIN b.records |-> Value(b.records[k].ref)])

(* RecordedWriteExchange.__post_init__, _outcome_matches_request *)
ExchangeOK(x) ==
  x.outcome.attempt = x.attempt /\ x.outcome.identity = OutcomeIdentity(x.attempt.request)

Session(exchanges, evidence, i) ==
  [exchanges |-> exchanges, evidence |-> evidence, identity |-> i, index |-> 0, failed |-> FALSE]

(* ReplayWriteSession.open; RecordedWriteReplayExecutor.__init__ *)
OpenSession(b, p) ==
  /\ session = None
  /\ Loads(b, p)
  /\ LET vs == [k \in DOMAIN b.records |-> Value(b.records[k].ref)]
         exchanges == IF Len(vs) = 1 THEN << >>
                      ELSE <<[attempt |-> vs[2], outcome |-> vs[3]]>>
     IN /\ \A k \in DOMAIN exchanges : ExchangeOK(exchanges[k])
        /\ session' = Session(exchanges, vs, b.identity)
  /\ asked' = << >> /\ decided' = << >>
  /\ GetAll(RefsOf(b), p)
  /\ UNCHANGED bundles

(* The loader raises at the k-th record: its snapshot is gone or expired,   *)
(* its value cannot be unsealed, or is not what the bundle says.            *)
OpenRefused(b, p) ==
  /\ session = None
  /\ p.tenant = b.identity.tenant
  /\ \E k \in DOMAIN b.records :
       /\ \A j \in 1 .. k - 1 : Resolves(b.records[j].ref, p)
                                 /\ DomainValueOK(KINDS[j], Value(b.records[j].ref), b.identity)
       /\ GetAll({b.records[k].ref}, p)
  /\ UNCHANGED writeVars

(* What must be unique; operations differ in business operation or node.    *)
Invocation(x) ==
  <<x.attempt.request.execution, x.attempt.request.op, x.attempt.request.invocation>>

(* MockWriteExecutor.__init__: exchanges of distinct invocations. *)
OpenMock(exchanges) ==
  /\ session = None
  /\ \A j, k \in DOMAIN exchanges :
       /\ ExchangeOK(exchanges[k])
       /\ j # k => Invocation(exchanges[j]) # Invocation(exchanges[k])
  /\ session' = Session(exchanges, << >>, None)
  /\ asked' = << >> /\ decided' = << >>
  /\ UNCHANGED <<storeVars, bundles>>

----------------------------------------------------------------------------
(* The calls *)

Expects(s, r) == s.index < Len(s.exchanges) /\ s.exchanges[s.index + 1].attempt.request = r

(* Mutant: a call that does not match is refused, and the next one served.  *)
RefusedOnce(s) == s

(* _failed: the executor refuses this call and every later one. *)
FailedClosed(s) == [s EXCEPT !.failed = TRUE]

(* _StrictRecordedWriteExecutor.execute *)
ExecuteWrite(r) ==
  /\ session # None
  /\ Len(asked) <= Len(session.exchanges)
  /\ asked' = Append(asked, r)
  /\ IF ~session.failed /\ Expects(session, r)
     THEN /\ decided' = Append(decided, session.exchanges[session.index + 1].outcome)
          /\ session' = [session EXCEPT !.index = @ + 1]
     ELSE session' = FailedClosed(session) /\ UNCHANGED decided
  /\ UNCHANGED <<storeVars, bundles>>

(* assert_complete, assert_consumed: no call was refused, none is left. *)
AssertComplete(s) == ~s.failed /\ s.index = Len(s.exchanges)

EndSession ==
  /\ session # None
  /\ session' = None /\ asked' = << >> /\ decided' = << >>
  /\ UNCHANGED <<storeVars, bundles>>

WriteStoreSteps ==
  \/ /\ TickStore \/ PurgeSnapshots
     /\ UNCHANGED writeVars
  \/ /\ RestartStore
     /\ session' = None /\ asked' = << >> /\ decided' = << >>
     /\ UNCHANGED bundles

Exchanges == {[attempt |-> o.attempt, outcome |-> o] : o \in Outcomes}

SessionSteps == (\E r \in Requests : ExecuteWrite(r)) \/ EndSession

SealedNext ==
  \/ \E i \in Identities, n \in {1, 3, 4} : \E vs \in Pieces(n) :
       Cardinality(bundles) < MaxBundles /\ (Compose(i, vs) \/ ComposeFails(i, vs))
  \/ \E b \in Assembled, p \in Principals : OpenSession(b, p) \/ OpenRefused(b, p)
  \/ SessionSteps
  \/ WriteStoreSteps

(* A MockWriteExecutor uses no store. *)
MockNext ==
  \/ \E n \in 0 .. 2 : \E xs \in [1 .. n -> Exchanges] : OpenMock(xs)
  \/ SessionSteps

(* A process that replays from sealed evidence, from given exchanges, or    *)
(* now one and now the other.                                               *)
WriteReplaySpec ==
  StoreInit /\ WriteInit /\ [][SealedNext \/ MockNext]_<<storeVars, writeVars>>

----------------------------------------------------------------------------
(* Properties *)

(* However the records of composed bundles are put together, and after      *)
(* whatever restarts of the store, the evidence of a session is of one      *)
(* operation of one tenant; the approval and the request are of the         *)
(* execution of the bundle, and the outcome is that of the request; a       *)
(* rejected operation has no WRITE, and exactly a committed one has a       *)
(* verification.  (That one is of the operation and its idempotency key:    *)
(* which execution and invocation was verified is not compared.)            *)
EvidenceIsOneOperation ==
  session # None /\ session.identity # None =>
    LET vs == session.evidence
        i == session.identity
    IN /\ \A k \in DOMAIN vs : Named(vs[k]).tenant = i.tenant /\ Named(vs[k]).op = i.op
       /\ vs[1].execution = i.execution
       /\ Len(vs) > 1 => /\ vs[2].request.execution = i.execution
                         /\ vs[3].attempt = vs[2]
                         /\ vs[3].identity = OutcomeIdentity(vs[2].request)
       /\ (vs[1].decision = "REJECTED") <=> (Len(vs) = 1)
       /\ (Len(vs) = 4) <=> (\E k \in DOMAIN vs : k = 3 /\ vs[k].state = "COMMITTED")
       /\ Len(vs) = 4 => vs[4].identity.key = vs[2].request.key

(* A replay that is said to be complete has asked for exactly the recorded  *)
(* WRITEs in the recorded order, and was told their recorded outcomes; no   *)
(* call that was not recorded has gone unnoticed.                           *)
CompleteReplayIsRecorded ==
  session # None /\ AssertComplete(session) =>
    /\ asked = [k \in DOMAIN session.exchanges |-> session.exchanges[k].attempt.request]
    /\ decided = [k \in DOMAIN session.exchanges |-> session.exchanges[k].outcome]
=============================================================================
