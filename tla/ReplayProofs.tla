---------------------------- MODULE ReplayProofs ----------------------------
(***************************************************************************)
(* Proofs about the executions beside the live one: the execution in a      *)
(* process of its own, and the replay of a controlled WRITE.                *)
(***************************************************************************)
EXTENDS Replay, WriteReplay, ProcessIsolation, SequenceTheorems, TLAPS

(* Execution in a child process *)

(* The pipe holds nothing, the first part of a frame, or what the target    *)
(* has returned; a parent that joins after a frame has seen the whole one;  *)
(* a COMPLETED result is the returned frame of a child that ended with 0.   *)
ChildInv ==
  /\ returned \in Frames \cup {Nothing}
  /\ child = "target" => returned = Nothing /\ pipe = Nothing
  /\ child = "sending" => returned # Nothing /\ returned.tag # "PART"
  /\ pipe \in {Nothing, Frame("PART", Nothing), returned}

ParentInv ==
  /\ parent = "joining frame" => HasFrame
  /\ parent = "done" =>
       /\ child = "gone"
       /\ result.status = "COMPLETED" => exitcode = 0 /\ returned = Frame("COMPLETED", result.payload)
  /\ answer # Nothing => parent = "done"
  /\ answer # Nothing /\ answer.ok => result.status = "COMPLETED" /\ result.payload.valid

IsolationInv == ChildInv /\ ParentInv

LEMMA IsolationInvInit == IsolationInit => IsolationInv
BY DEF IsolationInit, IsolationInv, ChildInv, ParentInv

LEMMA FrameTypes ==
  /\ \A r \in Responses : Frame("COMPLETED", r) \in Frames
  /\ Frame("PROTOCOL_ERROR", Nothing) \in Frames
  /\ Frame("TARGET_ERROR", Nothing) \in Frames
  /\ Frame("PART", Nothing) \in Frames
  /\ Nothing \notin Frames
BY IsolationAssumption DEF Frame, Frames

LEMMA ChildStep == IsolationInv /\ [IsolationNext]_isolationVars => ChildInv'
<1> SUFFICES ASSUME IsolationInv, [IsolationNext]_isolationVars PROVE ChildInv'
  OBVIOUS
<1> USE DEF IsolationInv, ChildInv
<1>1. ASSUME NEW r \in Responses, TargetReturns(r) PROVE ChildInv'
  BY <1>1, FrameTypes DEF TargetReturns, Frame
<1>2. CASE TargetRaises
  BY <1>2, FrameTypes DEF TargetRaises, Frame
<1>3. CASE TargetExits
  BY <1>3 DEF TargetExits
<1>4. CASE SendPart
  BY <1>4 DEF SendPart
<1>5. CASE Leaves
  BY <1>5 DEF Leaves, Send, CloseSender, Exit
<1>6. CASE Die
  BY <1>6 DEF Die
<1>7. CASE Parent
  BY <1>7 DEF Parent, PollReady, PollTimesOut, ReceiveFrame, ReceiveNothing, FindGone, Terminate,
              Join, Report, Go
<1>8. CASE UNCHANGED isolationVars
  BY <1>8 DEF isolationVars
<1> QED BY <1>1, <1>2, <1>3, <1>4, <1>5, <1>6, <1>7, <1>8 DEF IsolationNext

LEMMA ParentStep == IsolationInv /\ [IsolationNext]_isolationVars => ParentInv'
<1> SUFFICES ASSUME IsolationInv, [IsolationNext]_isolationVars PROVE ParentInv'
  OBVIOUS
<1> USE DEF IsolationInv, ParentInv, HasFrame
<1>1. ASSUME NEW r \in Responses, TargetReturns(r) PROVE ParentInv'
  BY <1>1 DEF TargetReturns
<1>2. CASE TargetRaises
  BY <1>2 DEF TargetRaises
<1>3. CASE TargetExits
  BY <1>3 DEF TargetExits
<1>4. CASE SendPart
  BY <1>4 DEF SendPart
<1>5. CASE Leaves
  BY <1>5 DEF Leaves, Send, CloseSender, Exit, ChildInv
<1>6. CASE Die
  BY <1>6 DEF Die
<1>7. CASE Terminate
  BY <1>7 DEF Terminate, Result
<1>8. CASE Join
  <2>1. CASE parent = "joining frame" /\ exitcode = 0
    <3>1. pipe = returned /\ returned \in Frames
      <4>1. pipe # Frame("PART", Nothing)
        <5>1. pipe.tag # "PART"
          BY <2>1
        <5>2. Frame("PART", Nothing).tag = "PART"
          BY DEF Frame
        <5> QED BY <5>1, <5>2
      <4> QED BY <2>1, <4>1 DEF ChildInv
    <3>2. result' = Result(pipe.tag, pipe.payload)
      BY <1>8, <2>1 DEF Join, FromFrame
    <3>3. returned = Frame(returned.tag, returned.payload)
      BY <3>1 DEF Frames, Frame
    <3>4. result'.status = pipe.tag /\ result'.payload = pipe.payload
      BY <3>2 DEF Result
    <3>5. result'.status = "COMPLETED" =>
            exitcode' = 0 /\ returned' = Frame("COMPLETED", result'.payload)
      BY <1>8, <2>1, <3>1, <3>3, <3>4 DEF Join
    <3>6. parent' = "done" /\ child' = "gone" /\ answer' = Nothing
      BY <1>8, <2>1 DEF Join
    <3> QED BY <3>5, <3>6
  <2>2. CASE parent = "joining" \/ exitcode # 0
    <3>1. result'.status # "COMPLETED"
      BY <1>8, <2>2 DEF Join, FromFrame, WithoutFrame, Result
    <3>2. parent' = "done" /\ child' = "gone" /\ answer' = Nothing
      BY <1>8, <2>2 DEF Join
    <3> QED BY <3>1, <3>2
  <2> QED BY <1>8, <2>1, <2>2 DEF Join
<1>9. CASE Report
  BY <1>9 DEF Report
<1>10. CASE PollReady \/ PollTimesOut \/ ReceiveFrame \/ ReceiveNothing \/ FindGone
  BY <1>10 DEF PollReady, PollTimesOut, ReceiveFrame, ReceiveNothing, FindGone, Go
<1>11. CASE UNCHANGED isolationVars
  BY <1>11 DEF isolationVars
<1> QED BY <1>1, <1>2, <1>3, <1>4, <1>5, <1>6, <1>7, <1>8, <1>9, <1>10, <1>11
        DEF IsolationNext, Parent

(* An answer of an isolated execution is what its child has returned before *)
(* it ended with code 0, and the child is gone: the frame of _isolated_entry*)
(* against poll, recv_bytes, terminate and join of execute, for every set   *)
(* of responses and every size limit.                                       *)
THEOREM IsolatedAnswersAreTrue == IsolationSpec => []IsolatedAnswerIsTrue
<1>1. IsolationInit => IsolationInv
  BY IsolationInvInit
<1>2. IsolationInv /\ [IsolationNext]_isolationVars => IsolationInv'
  BY ChildStep, ParentStep DEF IsolationInv
<1>3. IsolationInv => IsolatedAnswerIsTrue
  <2>1. ASSUME NEW p PROVE Frame("COMPLETED", p).tag = "COMPLETED" /\ Frame("COMPLETED", p).payload = p
    BY DEF Frame
  <2> QED BY <2>1, Zenon DEF IsolationInv, ParentInv, IsolatedAnswerIsTrue
<1> QED BY <1>1, <1>2, <1>3, PTL DEF IsolationSpec

----------------------------------------------------------------------------
(* Replay of a controlled WRITE *)

replayVars == <<storeVars, writeVars>>

AskedIn(xs, n) == [k \in 1 .. n |-> xs[k].attempt.request]
DecidedIn(xs, n) == [k \in 1 .. n |-> xs[k].outcome]

(* Until a call is refused, the calls and their outcomes are the exchanges  *)
(* up to the index.                                                         *)
SessionInv ==
  session # None =>
    /\ session = [exchanges |-> session.exchanges, evidence |-> session.evidence,
                  identity |-> session.identity, index |-> session.index,
                  failed |-> session.failed]
    /\ session.exchanges \in Seq({session.exchanges[k] : k \in DOMAIN session.exchanges})
    /\ session.index \in 0 .. Len(session.exchanges)
    /\ session.failed \in BOOLEAN
    /\ ~session.failed =>
         /\ asked = AskedIn(session.exchanges, session.index)
         /\ decided = DecidedIn(session.exchanges, session.index)

(* What the loader has checked stays so: a session never changes evidence.  *)
EvidenceInv ==
  session # None /\ session.identity # None =>
    /\ LifecycleOK(session.identity, session.evidence)
    /\ Len(session.evidence) \in {1, 3, 4}
    /\ DOMAIN session.evidence = 1 .. Len(session.evidence)
    /\ Len(session.evidence) > 1 =>
         session.evidence[3].identity = OutcomeIdentity(session.evidence[2].request)

LEMMA AppendLast ==
  ASSUME NEW S, NEW n \in Nat, NEW g \in [1 .. n + 1 -> S]
  PROVE  Append([k \in 1 .. n |-> g[k]], g[n + 1]) = g
<1> DEFINE f == [k \in 1 .. n |-> g[k]]
<1>1. f \in Seq(S) /\ Len(f) = n /\ g[n + 1] \in S
  OBVIOUS
<1>2. /\ Append(f, g[n + 1]) \in Seq(S)
      /\ Len(Append(f, g[n + 1])) = n + 1
      /\ \A k \in 1 .. n : Append(f, g[n + 1])[k] = f[k]
      /\ Append(f, g[n + 1])[n + 1] = g[n + 1]
  BY <1>1
<1>3. g \in Seq(S) /\ Len(g) = n + 1
  OBVIOUS
<1>4. \A k \in 1 .. n + 1 : Append(f, g[n + 1])[k] = g[k]
  BY <1>2
<1> QED BY <1>2, <1>3, <1>4

LEMMA ExecuteStep ==
  ASSUME SessionInv, NEW r \in Requests, ExecuteWrite(r)
  PROVE  SessionInv'
<1> DEFINE s == session
           xs == session.exchanges
           n == session.index
           X == {xs[k] : k \in DOMAIN xs}
<1>0. session # None
  BY DEF ExecuteWrite
<1>1. /\ s = [exchanges |-> xs, evidence |-> s.evidence, identity |-> s.identity,
              index |-> n, failed |-> s.failed]
      /\ xs \in Seq(X) /\ n \in 0 .. Len(xs) /\ s.failed \in BOOLEAN
      /\ ~s.failed => asked = AskedIn(xs, n) /\ decided = DecidedIn(xs, n)
  BY <1>0 DEF SessionInv
<1>2. CASE ~s.failed /\ Expects(s, r)
  <2>1. /\ s' = [s EXCEPT !.index = n + 1]
        /\ asked' = Append(asked, r)
        /\ decided' = Append(decided, xs[n + 1].outcome)
    BY <1>2 DEF ExecuteWrite
  <2>2. n + 1 \in 1 .. Len(xs) /\ n \in Nat /\ xs[n + 1].attempt.request = r
    BY <1>1, <1>2 DEF Expects
  <2>3. s' = [exchanges |-> xs, evidence |-> s.evidence, identity |-> s.identity,
              index |-> n + 1, failed |-> s.failed]
    BY <1>1, <2>1
  <2>4. asked' = AskedIn(xs, n + 1)
    <3> DEFINE g == AskedIn(xs, n + 1)
               S == {xs[k].attempt.request : k \in 1 .. n + 1}
    <3>1. g \in [1 .. n + 1 -> S]
      BY DEF AskedIn
    <3>2. Append([k \in 1 .. n |-> g[k]], g[n + 1]) = g
      <4> HIDE DEF n, g, S
      <4> QED BY <2>2, <3>1, AppendLast
    <3>3. [k \in 1 .. n |-> g[k]] = AskedIn(xs, n) /\ g[n + 1] = r
      BY <2>2 DEF AskedIn
    <3> QED BY <1>1, <1>2, <2>1, <3>2, <3>3
  <2>5. decided' = DecidedIn(xs, n + 1)
    <3> DEFINE g == DecidedIn(xs, n + 1)
               S == {xs[k].outcome : k \in 1 .. n + 1}
    <3>1. g \in [1 .. n + 1 -> S]
      BY DEF DecidedIn
    <3>2. Append([k \in 1 .. n |-> g[k]], g[n + 1]) = g
      <4> HIDE DEF n, g, S
      <4> QED BY <2>2, <3>1, AppendLast
    <3>3. [k \in 1 .. n |-> g[k]] = DecidedIn(xs, n) /\ g[n + 1] = xs[n + 1].outcome
      BY <2>2 DEF DecidedIn
    <3> QED BY <1>1, <1>2, <2>1, <3>2, <3>3
  <2>6. /\ s'.exchanges = xs /\ s'.index = n + 1 /\ s'.failed = s.failed
        /\ s'.evidence = s.evidence /\ s'.identity = s.identity
    BY <2>3
  <2> QED BY <1>1, <2>2, <2>3, <2>4, <2>5, <2>6 DEF SessionInv
<1>3. CASE ~(~s.failed /\ Expects(s, r))
  <2>1. s' = [s EXCEPT !.failed = TRUE]
    BY <1>3 DEF ExecuteWrite, FailedClosed
  <2>2. s' = [exchanges |-> xs, evidence |-> s.evidence, identity |-> s.identity,
              index |-> n, failed |-> TRUE]
    BY <1>1, <2>1
  <2>3. /\ s'.exchanges = xs /\ s'.index = n /\ s'.failed = TRUE
        /\ s'.evidence = s.evidence /\ s'.identity = s.identity
    BY <2>2
  <2> QED BY <1>1, <2>2, <2>3 DEF SessionInv
<1> QED BY <1>2, <1>3

LEMMA FreshSession ==
  ASSUME NEW S, NEW xs \in Seq(S), NEW ev, NEW i,
         session' = Session(xs, ev, i), asked' = << >>, decided' = << >>
  PROVE  SessionInv'
<1>1. session' = [exchanges |-> xs, evidence |-> ev, identity |-> i, index |-> 0, failed |-> FALSE]
  BY DEF Session
<1>2. /\ session'.exchanges = xs /\ session'.evidence = ev /\ session'.identity = i
      /\ session'.index = 0 /\ session'.failed = FALSE
  BY <1>1
<1>3. xs \in Seq({xs[k] : k \in DOMAIN xs}) /\ 0 \in 0 .. Len(xs)
  OBVIOUS
<1>4. << >> = AskedIn(xs, 0) /\ << >> = DecidedIn(xs, 0)
  BY DEF AskedIn, DecidedIn
<1> QED BY <1>1, <1>2, <1>3, <1>4 DEF SessionInv

(* The values behind the records of a bundle, and the exchanges they give.  *)
ValuesOf(b) == [k \in DOMAIN b.records |-> Value(b.records[k].ref)]
ExchangesOf(vs) == IF Len(vs) = 1 THEN << >> ELSE <<[attempt |-> vs[2], outcome |-> vs[3]]>>

LEMMA AssembledShape ==
  ASSUME NEW b \in Assembled
  PROVE  /\ DOMAIN ValuesOf(b) = 1 .. Len(ValuesOf(b))
         /\ Len(ValuesOf(b)) \in {1, 3, 4}
<1>1. \/ \E a \in Records : b.records = <<a>>
      \/ \E a, r, o \in Records : b.records = <<a, r, o>>
      \/ \E a, r, o, v \in Records : b.records = <<a, r, o, v>>
  BY DEF Assembled
<1>2. \E n \in {1, 3, 4} : DOMAIN b.records = 1 .. n
  BY <1>1
<1>3. PICK n \in {1, 3, 4} : DOMAIN b.records = 1 .. n
  BY <1>2
<1>4. ValuesOf(b) \in Seq({Value(b.records[k].ref) : k \in 1 .. n}) /\ Len(ValuesOf(b)) = n
  BY <1>3 DEF ValuesOf
<1> QED BY <1>3, <1>4

LEMMA OpenStep ==
  ASSUME NEW b \in Assembled, NEW p \in Principals, OpenSession(b, p)
  PROVE  SessionInv' /\ EvidenceInv'
<1> DEFINE vs == ValuesOf(b)
           xs == ExchangesOf(vs)
<1>1. /\ LifecycleOK(b.identity, vs)
      /\ \A k \in DOMAIN xs : ExchangeOK(xs[k])
      /\ session' = Session(xs, vs, b.identity)
      /\ asked' = << >> /\ decided' = << >>
  BY DEF OpenSession, Loads, ValuesOf, ExchangesOf
<1>2. DOMAIN vs = 1 .. Len(vs) /\ Len(vs) \in {1, 3, 4}
  BY AssembledShape
<1>3. xs \in Seq({[attempt |-> vs[2], outcome |-> vs[3]]})
  <2>1. \A x : << >> \in Seq({x}) /\ <<x>> \in Seq({x})
    OBVIOUS
  <2> HIDE DEF vs
  <2> QED BY <2>1 DEF ExchangesOf
<1>4. Len(vs) > 1 => vs[3].identity = OutcomeIdentity(vs[2].request)
  <2> SUFFICES ASSUME Len(vs) > 1 PROVE vs[3].identity = OutcomeIdentity(vs[2].request)
    OBVIOUS
  <2>1. xs = <<[attempt |-> vs[2], outcome |-> vs[3]]>>
    BY <1>2 DEF ExchangesOf
  <2>2. ExchangeOK([attempt |-> vs[2], outcome |-> vs[3]])
    BY <1>1, <2>1
  <2> QED BY <2>2 DEF ExchangeOK
<1>5. session'.evidence = vs /\ session'.identity = b.identity
  BY <1>1 DEF Session
<1>6. SessionInv'
  <2> HIDE DEF vs, xs
  <2> QED BY <1>1, <1>3, FreshSession
<1>7. EvidenceInv'
  <2> HIDE DEF vs
  <2> QED BY <1>1, <1>2, <1>4, <1>5 DEF EvidenceInv
<1> QED BY <1>6, <1>7

LEMMA EvidenceKept ==
  ASSUME SessionInv, EvidenceInv, NEW r \in Requests, ExecuteWrite(r)
  PROVE  EvidenceInv'
<1>1. session # None
  BY DEF ExecuteWrite
<1>2. session' \in {[session EXCEPT !.index = @ + 1], [session EXCEPT !.failed = TRUE]}
  BY DEF ExecuteWrite, FailedClosed
<1>3. session'.evidence = session.evidence /\ session'.identity = session.identity
  BY <1>1, <1>2 DEF SessionInv
<1> QED BY <1>1, <1>3 DEF EvidenceInv

LEMMA ReplayStep ==
  SessionInv /\ EvidenceInv /\ [SealedNext \/ MockNext]_replayVars => SessionInv' /\ EvidenceInv'
<1> SUFFICES ASSUME SessionInv, EvidenceInv, [SealedNext \/ MockNext]_replayVars
             PROVE  SessionInv' /\ EvidenceInv'
  OBVIOUS
<1>1. CASE UNCHANGED <<session, asked, decided>>
  BY <1>1 DEF SessionInv, EvidenceInv
<1>2. CASE session' = None
  BY <1>2 DEF SessionInv, EvidenceInv
<1>3. ASSUME NEW i \in Identities, NEW vs, Compose(i, vs) \/ ComposeFails(i, vs)
      PROVE  SessionInv' /\ EvidenceInv'
  BY <1>1, <1>3 DEF Compose, ComposeFails, writeVars
<1>4. ASSUME NEW b \in Assembled, NEW p \in Principals, OpenSession(b, p) \/ OpenRefused(b, p)
      PROVE  SessionInv' /\ EvidenceInv'
  BY <1>1, <1>4, OpenStep DEF OpenRefused, writeVars
<1>5. ASSUME NEW n \in 0 .. 2, NEW xs \in [1 .. n -> Exchanges], OpenMock(xs)
      PROVE  SessionInv' /\ EvidenceInv'
  <2>1. /\ session' = Session(xs, << >>, None)
        /\ asked' = << >> /\ decided' = << >>
    BY <1>5 DEF OpenMock
  <2>2. xs \in Seq(Exchanges)
    OBVIOUS
  <2>3. session'.identity = None
    BY <2>1 DEF Session
  <2> QED BY <2>1, <2>2, <2>3, FreshSession DEF EvidenceInv
<1>6. CASE SessionSteps
  BY <1>2, <1>6, ExecuteStep, EvidenceKept DEF SessionSteps, EndSession
<1>7. CASE WriteStoreSteps
  BY <1>1, <1>2, <1>7 DEF WriteStoreSteps, writeVars
<1>8. CASE UNCHANGED replayVars
  BY <1>1, <1>8 DEF replayVars, writeVars
<1>9. CASE SealedNext
  BY <1>3, <1>4, <1>6, <1>7, <1>9 DEF SealedNext
<1>10. CASE MockNext
  BY <1>5, <1>6, <1>10 DEF MockNext
<1> QED BY <1>8, <1>9, <1>10

LEMMA ReplayInvariant == WriteReplaySpec => [](SessionInv /\ EvidenceInv)
<1>1. WriteInit => SessionInv /\ EvidenceInv
  BY DEF WriteInit, SessionInv, EvidenceInv
<1> QED BY <1>1, ReplayStep, PTL DEF WriteReplaySpec, replayVars

(* A replay of a WRITE that is said to be complete has asked for the        *)
(* recorded WRITEs in their order and was told their recorded outcomes,     *)
(* however many exchanges there are: the index and the fail-closed flag of  *)
(* _StrictRecordedWriteExecutor.                                            *)
THEOREM CompleteReplaysAreRecorded == WriteReplaySpec => []CompleteReplayIsRecorded
<1>1. SessionInv => CompleteReplayIsRecorded
  <2> SUFFICES ASSUME SessionInv, session # None, AssertComplete(session)
               PROVE  /\ asked = [k \in DOMAIN session.exchanges |->
                                    session.exchanges[k].attempt.request]
                      /\ decided = [k \in DOMAIN session.exchanges |->
                                      session.exchanges[k].outcome]
    BY DEF CompleteReplayIsRecorded
  <2>1. /\ session.exchanges \in Seq({session.exchanges[k] : k \in DOMAIN session.exchanges})
        /\ asked = AskedIn(session.exchanges, Len(session.exchanges))
        /\ decided = DecidedIn(session.exchanges, Len(session.exchanges))
    BY DEF SessionInv, AssertComplete
  <2>2. DOMAIN session.exchanges = 1 .. Len(session.exchanges)
    BY <2>1
  <2> QED BY <2>1, <2>2 DEF AskedIn, DecidedIn
<1> QED BY <1>1, ReplayInvariant, PTL

(* The evidence that a session rests on is of one operation of one tenant,  *)
(* complete for its decision; its approval and request are of the bundle's  *)
(* execution, and its outcome is that of its request: what the loader has   *)
(* checked of a bundle that a host has put together holds through calls,    *)
(* restarts and purges.                                                     *)
THEOREM EvidenceOfOneOperation == WriteReplaySpec => []EvidenceIsOneOperation
<1>1. EvidenceInv => EvidenceIsOneOperation
  <2> SUFFICES ASSUME EvidenceInv, session # None, session.identity # None
               PROVE  EvidenceIsOneOperation
    BY DEF EvidenceIsOneOperation
  <2> DEFINE vs == session.evidence
             i == session.identity
  <2>1. LifecycleOK(i, vs) /\ Len(vs) \in {1, 3, 4} /\ DOMAIN vs = 1 .. Len(vs)
    BY DEF EvidenceInv
  <2>2. \A k \in DOMAIN vs : Named(vs[k]).tenant = i.tenant /\ Named(vs[k]).op = i.op
    BY <2>1 DEF LifecycleOK, DomainValueOK
  <2>3. (vs[1].decision = "REJECTED") <=> (Len(vs) = 1)
    BY <2>1 DEF LifecycleOK
  <2>4. Len(vs) > 1 => vs[3].attempt = vs[2] /\ vs[3].identity = OutcomeIdentity(vs[2].request)
    BY <2>1, <2>3 DEF LifecycleOK, EvidenceInv
  <2>5. (Len(vs) = 4) <=> (\E k \in DOMAIN vs : k = 3 /\ vs[k].state = "COMMITTED")
    BY <2>1, <2>3 DEF LifecycleOK
  <2>6. vs[1].execution = i.execution
    <3>1. DomainValueOK("APPROVAL", vs[1], i)
      BY <2>1 DEF LifecycleOK, KINDS
    <3> QED BY <3>1 DEF DomainValueOK, Named
  <2>7. Len(vs) > 1 => vs[2].request.execution = i.execution /\ vs[2].request.key = i.key
    <3>1. Len(vs) > 1 => DomainValueOK("WRITE_REQUEST", vs[2], i)
      BY <2>1 DEF LifecycleOK, KINDS
    <3> QED BY <3>1 DEF DomainValueOK, Named
  <2>8. Len(vs) = 4 => vs[4].identity.key = i.key
    <3>1. Len(vs) = 4 => DomainValueOK("VERIFICATION_OUTCOME", vs[4], i)
      BY <2>1 DEF LifecycleOK, KINDS
    <3> QED BY <3>1 DEF DomainValueOK, Named
  <2> QED BY <2>1, <2>2, <2>3, <2>4, <2>5, <2>6, <2>7, <2>8 DEF EvidenceIsOneOperation
<1> QED BY <1>1, ReplayInvariant, PTL

----------------------------------------------------------------------------
(* Replay of a READ execution: the operators *)

AnswerRecords == [value : {a.value : a \in Answers},
                  completeness : {"COMPLETE", "PARTIAL", "UNKNOWN"}, valid : BOOLEAN]

IsSeq(s) == s \in Seq({s[k] : k \in DOMAIN s})

LEMMA SeqFacts ==
  ASSUME NEW s, IsSeq(s)
  PROVE  DOMAIN s = 1 .. Len(s) /\ Len(s) \in Nat
BY DEF IsSeq

LEMMA AppendFacts ==
  ASSUME NEW s, IsSeq(s), NEW x
  PROVE  /\ IsSeq(Append(s, x)) /\ Len(Append(s, x)) = Len(s) + 1
         /\ \A k \in 1 .. Len(s) : Append(s, x)[k] = s[k]
         /\ Append(s, x)[Len(s) + 1] = x
<1> DEFINE S == {s[k] : k \in DOMAIN s} \cup {x}
           t == Append(s, x)
<1>1. s \in Seq(S) /\ x \in S
  BY DEF IsSeq
<1>2. t \in Seq(S) /\ Len(t) = Len(s) + 1
  <2> HIDE DEF S
  <2> QED BY <1>1
<1>3. /\ \A k \in 1 .. Len(s) : t[k] = s[k]
      /\ t[Len(s) + 1] = x
  <2> HIDE DEF S
  <2> QED BY <1>1
<1>4. t \in Seq({t[k] : k \in DOMAIN t})
  <2> HIDE DEF S, t
  <2> QED BY <1>2
<1> QED BY <1>2, <1>3, <1>4 DEF IsSeq

LEMMA FunctionIsSeq ==
  ASSUME NEW n \in Nat, NEW s, s = [k \in 1 .. n |-> s[k]]
  PROVE  IsSeq(s) /\ Len(s) = n
<1> DEFINE S == {s[k] : k \in 1 .. n}
<1>1. s \in [1 .. n -> S]
  OBVIOUS
<1>2. s \in Seq(S) /\ Len(s) = n /\ DOMAIN s = 1 .. n
  BY <1>1
<1> QED BY <1>2 DEF IsSeq

LEMMA SameSeq ==
  ASSUME NEW s, NEW t, IsSeq(s), IsSeq(t), Len(s) = Len(t), \A k \in 1 .. Len(s) : s[k] = t[k]
  PROVE  s = t
<1>1. DOMAIN s = DOMAIN t /\ DOMAIN s = 1 .. Len(s)
  BY SeqFacts
<1>2. s = [k \in DOMAIN s |-> s[k]] /\ t = [k \in DOMAIN t |-> t[k]]
  BY DEF IsSeq
<1> QED BY <1>1, <1>2

LEMMA AnswerSeq ==
  ASSUME NEW s \in Seq(AnswerRecords)
  PROVE  IsSeq(s)
BY DEF IsSeq

LEMMA ViewFacts ==
  ASSUME NEW made \in Nat, NEW answers \in Seq(AnswerRecords), NEW error \in Errors \cup {None}
  PROVE  /\ View(made, answers, error) \in Views
         /\ View(made, answers, error) # None
         /\ View(made, answers, error).status = "COMPLETED" <=> error = None
         /\ View(made, answers, error).tools = made
         /\ View(made, answers, error).error = error
<1> DEFINE v == View(made, answers, error)
           c == [k \in DOMAIN answers |->
                   IF answers[k].completeness = "COMPLETE" THEN answers[k].value ELSE "UNKNOWN"]
           V == {a.value : a \in Answers} \cup {"UNKNOWN"}
<1>1. c \in Seq(V)
  <2>1. \A k \in 1 .. Len(answers) : answers[k].value \in V
    <3>1. \A a \in AnswerRecords : a.value \in V
      BY DEF AnswerRecords
    <3> QED BY <3>1
  <2>2. c \in [1 .. Len(answers) -> V]
    BY <2>1
  <2> QED BY <2>2
<1>2. v \in Views
  <2> HIDE DEF c
  <2> QED BY <1>1 DEF View, Views, c
<1>3. v # None
  BY <1>2, ReplayAssumption
<1> QED BY <1>2, <1>3 DEF View

(* A snapshot that a reference resolves to is what the reference was given  *)
(* out for, whichever process and store that was.                           *)
StoreInv == \A k \in DOMAIN items : items[k].hash = items[k].value

LEMMA ResolvedValue ==
  ASSUME StoreInv, NEW ref, NEW p, Resolves(ref, p)
  PROVE  Value(ref) = ref.hash
BY DEF StoreInv, Resolves, Admits, ValidReference, Value

LEMMA PutKeeps ==
  ASSUME StoreInv, NEW t, NEW vs, NEW c, PutAll(t, vs, c)
  PROVE  StoreInv'
BY DEF StoreInv, PutAll, Stored

LEMMA DropKeeps ==
  ASSUME StoreInv, NEW ids, Drop(ids)
  PROVE  StoreInv'
BY DEF StoreInv, Drop

----------------------------------------------------------------------------
(* Replay of a READ execution: the invariant *)

RunRecords == [made : Nat, answers : Seq(AnswerRecords), result : Views \cup {None}]

(* The recorded execution: valid answers so far, and how it has ended. *)
RunInv ==
  /\ run \in RunRecords
  /\ \A k \in 1 .. Len(run.answers) : run.answers[k].valid = TRUE
  /\ run.made <= Len(Plans[1])
  /\ run.result = None => run.made = Len(run.answers)
  /\ run.result # None => \E error \in Errors \cup {None} :
       /\ run.result = View(run.made, run.answers, error)
       /\ error = None => run.made = Len(run.answers) /\ run.made = Len(Plans[1])
       /\ error # None => run.made = Len(run.answers) + 1

(* The recorded calls: those that were answered, and at most one more, the  *)
(* answer to which was not valid.                                           *)
RecordedCalls(calls) ==
  /\ IsSeq(calls)
  /\ Len(calls) \in {Len(run.answers), Len(run.answers) + 1}
  /\ Len(calls) <= Len(Plans[1])
  /\ \A k \in 1 .. Len(calls) : calls[k].call = Plans[1][k] /\ calls[k].ref.hash \in AnswerRecords
  /\ \A k \in 1 .. Len(run.answers) : calls[k].ref.hash = run.answers[k]
  /\ Len(calls) = Len(run.answers) + 1 =>
       /\ calls[Len(calls)].ref.hash.valid = FALSE
       /\ run.result = View(run.made, run.answers, "TOOL")

RecorderInv == recorded # None => RecordedCalls(recorded)

PackageInv ==
  package # None =>
    /\ run.result # None /\ run.result.status = "COMPLETED" /\ package.original = run.result
    /\ IsSeq(package.calls) /\ Len(package.calls) = Len(run.answers)
    /\ \A k \in 1 .. Len(run.answers) :
         package.calls[k].call = Plans[1][k] /\ package.calls[k].value = run.answers[k].value

BundleInv ==
  bundle # None =>
    /\ run.result # None /\ bundle.original.hash = run.result
    /\ bundle.portable \in BOOLEAN
    /\ bundle.portable = FALSE => RecordedCalls(bundle.calls)
    /\ bundle.portable = TRUE =>
         /\ IsSeq(bundle.calls) /\ Len(bundle.calls) = Len(run.answers)
         /\ \A k \in 1 .. Len(run.answers) :
              /\ bundle.calls[k].call = Plans[1][k]
              /\ bundle.calls[k].ref.hash = Decoded(run.answers[k].value)

ReplayRecords ==
  [principal : Principals, version : DOMAIN Plans, original : Views, index : Nat,
   lost : BOOLEAN, made : Nat, answers : Seq(AnswerRecords), result : Views \cup {None}]

(* How a replay ends: all calls made, an answer that was not valid, or a    *)
(* divergence - no call left on record, another call, a snapshot lost.      *)
ReplayCompleted ==
  /\ rep.result = View(rep.made, rep.answers, None)
  /\ rep.made = Len(rep.answers) /\ rep.index = rep.made /\ rep.made = Len(Plans[rep.version])

ReplayToolFailed ==
  /\ rep.result = View(rep.made, rep.answers, "TOOL")
  /\ rep.made = Len(rep.answers) + 1 /\ rep.index = rep.made
  /\ rep.index <= Len(bundle.calls)
  /\ bundle.calls[rep.index].ref.hash.valid = FALSE

ReplayDiverged ==
  /\ rep.result = View(rep.made, rep.answers, "UNEXPECTED")
  /\ \/ rep.lost = TRUE
     \/ Len(rep.answers) = Len(bundle.calls) /\ Len(rep.answers) < Len(Plans[rep.version])
     \/ /\ rep.index \in 1 .. Len(bundle.calls) /\ rep.index <= Len(Plans[rep.version])
        /\ bundle.calls[rep.index].call # Plans[rep.version][rep.index]

ReplayInv ==
  rep # None =>
    /\ bundle # None
    /\ rep \in ReplayRecords
    /\ rep.original = run.result
    /\ Len(rep.answers) <= Len(bundle.calls)
    /\ \A k \in 1 .. Len(rep.answers) :
         /\ rep.answers[k] = bundle.calls[k].ref.hash /\ rep.answers[k].valid = TRUE
         /\ bundle.calls[k].call = Plans[rep.version][k]
    /\ rep.result = None => rep.made = Len(rep.answers) /\ rep.index = rep.made
    /\ rep.result # None => ReplayCompleted \/ ReplayToolFailed \/ ReplayDiverged

ReportInv ==
  report # None => bundle # None /\ MatchMeansSameCalls /\ ReplayReproduces

ReadInv ==
  /\ StoreInv /\ RunInv /\ RecorderInv /\ PackageInv /\ BundleInv /\ ReplayInv /\ ReportInv

LEMMA ReadInvInit == StoreInit /\ ReadInit => ReadInv
<1> SUFFICES ASSUME StoreInit, ReadInit PROVE ReadInv
  OBVIOUS
<1>1. StoreInv
  BY DEF StoreInit, StoreInv
<1>2. /\ run.made = 0 /\ run.answers = << >> /\ run.result = None
      /\ run \in RunRecords /\ Len(run.answers) = 0
  BY DEF ReadInit, RunRecords
<1>3. Plans[1] \in Seq({Plans[1][k] : k \in DOMAIN Plans[1]})
  BY ReplayAssumption
<1>4. RunInv
  BY <1>2, <1>3 DEF RunInv
<1>5. RecordedCalls(recorded)
  <2>1. recorded = << >> /\ Len(recorded) = 0 /\ IsSeq(recorded)
    BY DEF ReadInit, IsSeq
  <2> QED BY <1>2, <1>3, <2>1 DEF RecordedCalls
<1> QED BY <1>1, <1>4, <1>5
        DEF ReadInit, ReadInv, RecorderInv, PackageInv, BundleInv, ReplayInv, ReportInv

----------------------------------------------------------------------------
(* Replay of a READ execution: the recorded run *)

LEMMA PlanSeq ==
  ASSUME NEW v \in DOMAIN Plans
  PROVE  IsSeq(Plans[v]) /\ Len(Plans[v]) \in Nat
BY ReplayAssumption DEF IsSeq

LEMMA AnswerType ==
  ASSUME NEW a \in Answers
  PROVE  a \in AnswerRecords
BY ReplayAssumption DEF AnswerRecords

LEMMA AnsweredRun ==
  ASSUME NEW e \in RunRecords, NEW a \in AnswerRecords
  PROVE  /\ Answered(e, a) \in RunRecords
         /\ Answered(e, a).made = e.made + 1
         /\ Answered(e, a).answers = Append(e.answers, a)
         /\ Answered(e, a).result = e.result
<1>1. /\ e.made + 1 \in Nat /\ e.answers \in Seq(AnswerRecords)
      /\ Append(e.answers, a) \in Seq(AnswerRecords)
  BY DEF RunRecords
<1> QED BY <1>1 DEF Answered, RunRecords

LEMMA FailedRun ==
  ASSUME NEW e \in RunRecords, NEW error \in Errors
  PROVE  /\ Failed(e, error) \in RunRecords
         /\ Failed(e, error).made = e.made + 1
         /\ Failed(e, error).answers = e.answers
         /\ Failed(e, error).result = View(e.made + 1, e.answers, error)
<1>1. e.made + 1 \in Nat /\ e.answers \in Seq(AnswerRecords)
  BY DEF RunRecords
<1>2. View(e.made + 1, e.answers, error) \in Views
  BY <1>1, ViewFacts
<1> QED BY <1>1, <1>2 DEF Failed, RunRecords

(* While the execution is running there is no bundle yet, nor a package. *)
LEMMA Running ==
  ASSUME ReadInv, run.result = None, recorded # None
  PROVE  /\ bundle = None /\ package = None /\ rep = None /\ report = None
         /\ run \in RunRecords /\ run.made = Len(run.answers) /\ run.made \in Nat
         /\ IsSeq(run.answers) /\ run.answers \in Seq(AnswerRecords)
         /\ IsSeq(recorded) /\ Len(recorded) = Len(run.answers)
<1>1. bundle = None /\ package = None /\ rep = None /\ report = None
  BY DEF ReadInv, BundleInv, PackageInv, ReplayInv, ReportInv
<1>2. run \in RunRecords /\ run.made = Len(run.answers)
  BY DEF ReadInv, RunInv
<1>3. run.answers \in Seq(AnswerRecords) /\ run.made \in Nat
  BY <1>2 DEF RunRecords
<1>4. IsSeq(run.answers)
  BY <1>3, AnswerSeq
<1>5. View(run.made, run.answers, "TOOL") # None
  BY <1>3, ViewFacts DEF Errors
<1>6. IsSeq(recorded) /\ Len(recorded) = Len(run.answers)
  BY <1>5 DEF ReadInv, RecorderInv, RecordedCalls
<1> QED BY <1>1, <1>2, <1>3, <1>4, <1>6

(* The invariant of an execution without bundle, package and replay. *)
LEMMA RunningInv ==
  ASSUME ReadInv, run.result = None, recorded # None, StoreInv', RunInv', RecorderInv',
         UNCHANGED <<bundle, package, rep, report>>
  PROVE  ReadInv'
BY Running DEF ReadInv, BundleInv, PackageInv, ReplayInv, ReportInv

LEMMA RecordStep ==
  ASSUME ReadInv, NEW a \in Answers, RecordCall(a)
  PROVE  ReadInv'
<1>1. /\ recorded # None /\ run.result = None /\ run.made < Len(Plans[1])
      /\ PutAll(Tenant, <<a>>, class)
      /\ recorded' = Append(recorded, [call |-> Plans[1][run.made + 1],
                                       ref |-> NewRef(1, Tenant, a, class)])
      /\ run' = Received(run, a)
      /\ UNCHANGED <<bundle, package, rep, report>>
  BY DEF RecordCall, Calling
<1>2. StoreInv'
  BY <1>1, PutKeeps DEF ReadInv
<1> DEFINE n == Len(run.answers)
           x == [call |-> Plans[1][run.made + 1], ref |-> NewRef(1, Tenant, a, class)]
<1>3. /\ run \in RunRecords /\ run.made = n /\ n \in Nat
      /\ IsSeq(run.answers) /\ run.answers \in Seq(AnswerRecords)
      /\ IsSeq(recorded) /\ Len(recorded) = n
  BY <1>1, Running
<1>4. /\ \A k \in 1 .. n : run.answers[k].valid = TRUE
      /\ \A k \in 1 .. n : recorded[k].call = Plans[1][k] /\ recorded[k].ref.hash \in AnswerRecords
      /\ \A k \in 1 .. n : recorded[k].ref.hash = run.answers[k]
  BY <1>1, <1>3 DEF ReadInv, RunInv, RecorderInv, RecordedCalls
<1>5. x.call = Plans[1][n + 1] /\ x.ref.hash = a
  BY <1>3 DEF NewRef
<1>6. a \in AnswerRecords /\ a.valid \in BOOLEAN /\ Len(Plans[1]) \in Nat
  BY AnswerType, PlanSeq, ReplayAssumption DEF AnswerRecords
<1>7. /\ IsSeq(recorded') /\ Len(recorded') = n + 1
      /\ \A k \in 1 .. n : recorded'[k] = recorded[k]
      /\ recorded'[n + 1] = x
  <2> HIDE DEF x
  <2>1. recorded' = Append(recorded, x)
    BY <1>1 DEF x
  <2> QED BY <1>3, <2>1, AppendFacts
<1>8. \A k \in 1 .. n + 1 :
        recorded'[k].call = Plans[1][k] /\ recorded'[k].ref.hash \in AnswerRecords
  <2> HIDE DEF x
  <2> SUFFICES ASSUME NEW k \in 1 .. n + 1
               PROVE  recorded'[k].call = Plans[1][k] /\ recorded'[k].ref.hash \in AnswerRecords
    OBVIOUS
  <2>1. CASE k = n + 1
    BY <1>5, <1>6, <1>7, <2>1
  <2>2. CASE k \in 1 .. n
    BY <1>4, <1>7, <2>2
  <2> QED BY <1>3, <2>1, <2>2
<1>9. CASE a.valid = TRUE
  <2>1. run' = Answered(run, a)
    BY <1>1, <1>9 DEF Received
  <2>2. /\ run' \in RunRecords /\ run'.made = n + 1
        /\ run'.answers = Append(run.answers, a) /\ run'.result = None
    BY <1>1, <1>3, <1>6, <2>1, AnsweredRun
  <2>3. /\ Len(run'.answers) = n + 1
        /\ \A k \in 1 .. n : run'.answers[k] = run.answers[k]
        /\ run'.answers[n + 1] = a
    BY <1>3, <2>2, AppendFacts
  <2>4. RunInv'
    <3>1. \A k \in 1 .. n + 1 : run'.answers[k].valid = TRUE
      BY <1>3, <1>4, <1>9, <2>3
    <3>2. n + 1 <= Len(Plans[1])
      BY <1>1, <1>3, <1>6
    <3> QED BY <2>2, <2>3, <3>1, <3>2 DEF RunInv
  <2>5. RecorderInv'
    <3>1. \A k \in 1 .. n + 1 : recorded'[k].ref.hash = run'.answers[k]
      <4> HIDE DEF x
      <4> QED BY <1>3, <1>4, <1>5, <1>7, <2>3
    <3>2. n + 1 <= Len(Plans[1])
      BY <1>1, <1>3, <1>6
    <3> QED BY <1>3, <1>7, <1>8, <2>3, <3>1, <3>2 DEF RecorderInv, RecordedCalls
  <2> QED BY <1>1, <1>2, <2>4, <2>5, RunningInv
<1>10. CASE a.valid = FALSE
  <2>1. run' = Failed(run, "TOOL")
    BY <1>1, <1>10 DEF Received
  <2>2. /\ run' \in RunRecords /\ run'.made = n + 1
        /\ run'.answers = run.answers /\ run'.result = View(n + 1, run.answers, "TOOL")
    BY <1>3, <2>1, FailedRun DEF Errors
  <2>3. n + 1 <= Len(Plans[1])
    BY <1>1, <1>3, <1>6
  <2>4. RunInv'
    <3>1. "TOOL" \in Errors \cup {None} /\ "TOOL" # None
      BY ReplayAssumption DEF Errors
    <3>2. run'.result # None
      <4>1. n + 1 \in Nat
        BY <1>3
      <4> QED BY <1>3, <2>2, <3>1, <4>1, ViewFacts
    <3> QED BY <1>4, <2>2, <2>3, <3>1, <3>2 DEF RunInv
  <2>5. RecorderInv'
    <3>1. \A k \in 1 .. n : recorded'[k].ref.hash = run'.answers[k]
      BY <1>4, <1>7, <2>2
    <3>2. recorded'[n + 1].ref.hash.valid = FALSE
      <4> HIDE DEF x
      <4> QED BY <1>5, <1>7, <1>10
    <3> QED BY <1>3, <1>7, <1>8, <2>2, <2>3, <3>1, <3>2 DEF RecorderInv, RecordedCalls
  <2> QED BY <1>1, <1>2, <2>4, <2>5, RunningInv
<1> QED BY <1>6, <1>9, <1>10

LEMMA CallFailsStep ==
  ASSUME ReadInv, NEW error \in Errors, CallFails(error)
  PROVE  ReadInv'
<1> DEFINE n == Len(run.answers)
<1>1. /\ recorded # None /\ run.result = None /\ run.made < Len(Plans[1])
      /\ run' = Failed(run, error) /\ items' = items /\ recorded' = recorded
      /\ UNCHANGED <<bundle, package, rep, report>>
  BY DEF CallFails, Calling, storeVars
<1>2. /\ run \in RunRecords /\ run.made = n /\ n \in Nat
      /\ run.answers \in Seq(AnswerRecords) /\ Len(recorded) = n
  BY <1>1, Running
<1>3. /\ run' \in RunRecords /\ run'.made = n + 1
      /\ run'.answers = run.answers /\ run'.result = View(n + 1, run.answers, error)
  BY <1>1, <1>2, FailedRun
<1>4. n + 1 <= Len(Plans[1])
  BY <1>1, <1>2, PlanSeq, ReplayAssumption
<1>5. RunInv'
  <2>1. error # None /\ run'.result # None
    <3>1. n + 1 \in Nat
      BY <1>2
    <3> QED BY <1>2, <1>3, <3>1, ViewFacts, ReplayAssumption
  <2> QED BY <1>3, <1>4, <2>1 DEF ReadInv, RunInv
<1>6. RecorderInv'
  BY <1>1, <1>2, <1>3 DEF ReadInv, RecorderInv, RecordedCalls
<1> QED BY <1>1, <1>5, <1>6, RunningInv DEF ReadInv, StoreInv

LEMMA CompleteStep ==
  ASSUME ReadInv, Complete
  PROVE  ReadInv'
<1> DEFINE n == Len(run.answers)
<1>1. /\ recorded # None /\ run.result = None /\ run.made = Len(Plans[1])
      /\ run' = [run EXCEPT !.result = View(run.made, run.answers, None)]
      /\ items' = items /\ recorded' = recorded
      /\ UNCHANGED <<bundle, package, rep, report>>
  BY DEF Complete, storeVars
<1>2. /\ run \in RunRecords /\ run.made = n /\ n \in Nat
      /\ run.answers \in Seq(AnswerRecords) /\ Len(recorded) = n
  BY <1>1, Running
<1>3. View(n, run.answers, None) \in Views /\ View(n, run.answers, None) # None
  BY <1>2, ViewFacts
<1>4. /\ run' \in RunRecords /\ run'.made = n
      /\ run'.answers = run.answers /\ run'.result = View(n, run.answers, None)
  BY <1>1, <1>2, <1>3 DEF RunRecords
<1>5. RunInv'
  BY <1>1, <1>2, <1>3, <1>4 DEF ReadInv, RunInv
<1>6. RecorderInv'
  BY <1>1, <1>2, <1>4 DEF ReadInv, RecorderInv, RecordedCalls
<1> QED BY <1>1, <1>5, <1>6, RunningInv DEF ReadInv, StoreInv

----------------------------------------------------------------------------
(* Replay of a READ execution: bundle and package *)

LEMMA RunFacts ==
  ASSUME RunInv
  PROVE  /\ run.made \in Nat /\ run.answers \in Seq(AnswerRecords) /\ IsSeq(run.answers)
         /\ Len(run.answers) \in Nat
         /\ \A k \in 1 .. Len(run.answers) :
              run.answers[k] \in AnswerRecords /\ run.answers[k].valid = TRUE
BY AnswerSeq DEF RunInv, RunRecords

(* An execution that has completed has no call beside the answered ones. *)
LEMMA CompletedRun ==
  ASSUME RunInv, run.result # None, run.result.status = "COMPLETED"
  PROVE  /\ run.result = View(run.made, run.answers, None)
         /\ run.made = Len(run.answers) /\ run.made = Len(Plans[1])
         /\ \A calls : RecordedCalls(calls) => Len(calls) = Len(run.answers)
<1>1. run.made \in Nat /\ run.answers \in Seq(AnswerRecords)
  BY RunFacts
<1>2. PICK error \in Errors \cup {None} :
        /\ run.result = View(run.made, run.answers, error)
        /\ error = None => run.made = Len(run.answers) /\ run.made = Len(Plans[1])
  BY DEF RunInv
<1>3. error = None
  BY <1>1, <1>2, ViewFacts
<1>4. run.result # View(run.made, run.answers, "TOOL")
  <2>1. "TOOL" \in Errors \cup {None} /\ "TOOL" # None
    BY ReplayAssumption DEF Errors
  <2> QED BY <1>1, <2>1, ViewFacts
<1> QED BY <1>2, <1>3, <1>4 DEF RecordedCalls

LEMMA CreateBundleStep ==
  ASSUME ReadInv, CreateBundle
  PROVE  ReadInv'
<1>1. /\ recorded # None /\ run.result # None /\ bundle = None /\ package = None
      /\ PutAll(Tenant, Evidence, class)
      /\ bundle' = Bundle(recorded, NewRefs(Tenant, Evidence, class), FALSE)
      /\ UNCHANGED <<class, run, recorded, package, rep, report>>
  BY DEF CreateBundle
<1>2. rep = None /\ report = None
  BY <1>1 DEF ReadInv, ReplayInv, ReportInv
<1>3. NewRefs(Tenant, Evidence, class)[3].hash = run.result
  BY DEF NewRefs, NewRef, Evidence
<1>4. /\ bundle'.calls = recorded /\ bundle'.portable = FALSE
      /\ bundle'.original.hash = run.result
  <2>1. bundle'.original = NewRefs(Tenant, Evidence, class)[3]
    BY <1>1 DEF Bundle
  <2> QED BY <1>1, <1>3, <2>1 DEF Bundle
<1>5. BundleInv'
  BY <1>1, <1>4 DEF ReadInv, RecorderInv, BundleInv, RecordedCalls
<1>6. StoreInv'
  BY <1>1, PutKeeps DEF ReadInv
<1> QED BY <1>1, <1>2, <1>5, <1>6
        DEF ReadInv, RunInv, RecorderInv, RecordedCalls, PackageInv, ReplayInv, ReportInv

LEMMA ExportStep ==
  ASSUME ReadInv, NEW p \in Principals, Export(p)
  PROVE  ReadInv'
<1>1. /\ recorded # None /\ run.result # None /\ run.result.status = "COMPLETED"
      /\ bundle = None
      /\ \A k \in DOMAIN recorded : Resolves(recorded[k].ref, p)
      /\ PutAll(Tenant, Evidence, class)
      /\ package' = [calls |-> [k \in DOMAIN recorded |->
                                  [call |-> recorded[k].call, value |-> Value(recorded[k].ref).value]],
                     original |-> run.result]
      /\ recorded' = None
      /\ UNCHANGED <<class, run, bundle, rep, report>>
  BY DEF Export
<1>2. rep = None /\ report = None
  BY <1>1 DEF ReadInv, ReplayInv, ReportInv
<1> DEFINE n == Len(run.answers)
           cs == [k \in DOMAIN recorded |->
                    [call |-> recorded[k].call, value |-> Value(recorded[k].ref).value]]
<1>3. package'.calls = cs /\ package'.original = run.result
  BY <1>1
<1>4. RecordedCalls(recorded) /\ n \in Nat /\ Len(recorded) = n
  BY <1>1, RunFacts, CompletedRun DEF ReadInv, RecorderInv
<1>5. DOMAIN recorded = 1 .. n
  BY <1>4, SeqFacts DEF RecordedCalls
<1>6. ASSUME NEW k \in 1 .. n
      PROVE  cs[k].call = Plans[1][k] /\ cs[k].value = run.answers[k].value
  <2>1. recorded[k].call = Plans[1][k] /\ recorded[k].ref.hash = run.answers[k]
    BY <1>4 DEF RecordedCalls
  <2>2. Value(recorded[k].ref) = run.answers[k]
    BY <1>1, <1>5, <2>1, ResolvedValue DEF ReadInv
  <2> QED BY <1>5, <2>1, <2>2
<1>7. IsSeq(cs) /\ Len(cs) = n
  <2>1. cs = [k \in 1 .. n |-> cs[k]]
    BY <1>5
  <2> HIDE DEF cs
  <2> QED BY <1>4, <2>1, FunctionIsSeq
<1>8. PackageInv'
  <2> HIDE DEF cs
  <2> QED BY <1>1, <1>3, <1>6, <1>7 DEF PackageInv
<1>9. StoreInv'
  BY <1>1, PutKeeps DEF ReadInv
<1> QED BY <1>1, <1>2, <1>8, <1>9
        DEF ReadInv, RunInv, RecorderInv, BundleInv, ReplayInv, ReportInv

LEMMA FirstTwo ==
  ASSUME NEW a, NEW b, NEW c
  PROVE  SubSeq(<<a, b, c>>, 1, 2) = <<a, b>>
<1> DEFINE s == <<a, b, c>>
           t == SubSeq(s, 1, 2)
<1>1. s \in Seq({a, b, c}) /\ Len(s) = 3
  OBVIOUS
<1>2. t \in Seq({a, b, c}) /\ Len(t) = 2 /\ \A k \in 1 .. 2 : t[k] = s[k]
  <2>1. 1 \in 1 .. Len(s) + 1 /\ 2 \in 0 .. Len(s)
    BY <1>1
  <2> HIDE DEF s
  <2>2. /\ SubSeq(s, 1, 2) \in Seq({a, b, c})
        /\ Len(SubSeq(s, 1, 2)) = IF 1 <= 2 THEN 2 - 1 + 1 ELSE 0
        /\ \A k \in 1 .. 2 - 1 + 1 : SubSeq(s, 1, 2)[k] = s[1 + k - 1]
    BY <1>1, <2>1, SubSeqProperties
  <2> QED BY <2>2
<1>3. t[1] = a /\ t[2] = b
  BY <1>2
<1> DEFINE u == <<a, b>>
<1>4. u \in Seq({a, b, c}) /\ Len(u) = 2 /\ \A k \in 1 .. 2 : u[k] = t[k]
  BY <1>3
<1> HIDE DEF t, u
<1>5. t = u
  BY <1>2, <1>4, SeqEqual
<1> QED BY <1>5 DEF t, u

(* The values that decode_replay_package stores, in their order. *)
LEMMA ImportedValues ==
  ASSUME NEW i, NEW c, NEW o, NEW n \in Nat, NEW f, f = [k \in 1 .. n |-> f[k]]
  PROVE  LET values == <<i, c>> \o f \o <<o>>
         IN  /\ \A k \in 1 .. n : values[k + 2] = f[k]
             /\ values[n + 3] = o
<1> DEFINE S == {f[k] : k \in 1 .. n} \cup {i, c, o}
<1>1. <<i, c>> \in Seq(S) /\ <<o>> \in Seq(S) /\ f \in Seq(S) /\ Len(f) = n
  <2>1. f \in [1 .. n -> S]
    OBVIOUS
  <2>2. i \in S /\ c \in S /\ o \in S
    OBVIOUS
  <2> HIDE DEF S
  <2> QED BY <2>1, <2>2
<1> HIDE DEF S
<1> DEFINE g == <<i, c>> \o f
<1>2. g \in Seq(S) /\ Len(g) = n + 2 /\ \A k \in 1 .. n : g[k + 2] = f[k]
  BY <1>1
<1> HIDE DEF g
<1>3. /\ \A k \in 1 .. n : (g \o <<o>>)[k + 2] = f[k]
      /\ (g \o <<o>>)[n + 3] = o
  BY <1>1, <1>2
<1> QED BY <1>3 DEF g

LEMMA ImportStep ==
  ASSUME ReadInv, NEW p \in Principals, Import(p)
  PROVE  ReadInv'
<1> DEFINE n == Len(package.calls)
           f == [k \in 1 .. n |-> Decoded(package.calls[k].value)]
           values == SubSeq(Evidence, 1, 2) \o f \o <<package.original>>
           Ref(k) == [id |-> k, tenant |-> Tenant, class |-> class, hash |-> values[k],
                      expires |-> now + Retention]
           cs == [k \in 1 .. n |-> [call |-> package.calls[k].call, ref |-> Ref(k + 2)]]
<1>1. /\ package # None /\ bundle = None
      /\ items' = [k \in DOMAIN values |-> Stored(Tenant, values[k], class)]
      /\ bundle' = Bundle(cs, <<Ref(1), Ref(2), Ref(n + 3)>>, TRUE)
      /\ UNCHANGED <<class, run, recorded, package, rep, report>>
  BY DEF Import
<1>2. rep = None /\ report = None
  BY <1>1 DEF ReadInv, ReplayInv, ReportInv
<1>3. /\ run.result # None /\ package.original = run.result
      /\ IsSeq(package.calls) /\ n = Len(run.answers) /\ n \in Nat
      /\ \A k \in 1 .. n :
           package.calls[k].call = Plans[1][k] /\ package.calls[k].value = run.answers[k].value
  BY <1>1, RunFacts DEF ReadInv, PackageInv
<1>4. /\ \A k \in 1 .. n : values[k + 2] = Decoded(run.answers[k].value)
      /\ values[n + 3] = run.result
  <2>1. SubSeq(Evidence, 1, 2) = <<[input |-> "i"], [context |-> "c"]>>
    BY FirstTwo DEF Evidence
  <2>2. f = [k \in 1 .. n |-> f[k]] /\ \A k \in 1 .. n : f[k] = Decoded(run.answers[k].value)
    BY <1>3
  <2> HIDE DEF f, n
  <2>3. /\ \A k \in 1 .. n : values[k + 2] = f[k]
        /\ values[n + 3] = package.original
    BY <1>3, <2>1, <2>2, ImportedValues
  <2> HIDE DEF values
  <2> QED BY <1>3, <2>2, <2>3
<1> HIDE DEF values
<1>5. /\ bundle'.calls = cs /\ bundle'.portable = TRUE
      /\ bundle'.original = Ref(n + 3)
  BY <1>1 DEF Bundle
<1>6. bundle'.original.hash = run.result
  BY <1>4, <1>5
<1>7. ASSUME NEW k \in 1 .. n
      PROVE  cs[k].call = Plans[1][k] /\ cs[k].ref.hash = Decoded(run.answers[k].value)
  <2>1. cs[k].call = package.calls[k].call /\ cs[k].ref.hash = values[k + 2]
    OBVIOUS
  <2> HIDE DEF n, cs
  <2> QED BY <1>3, <1>4, <2>1
<1>8. IsSeq(cs) /\ Len(cs) = n
  <2>1. cs = [k \in 1 .. n |-> cs[k]]
    OBVIOUS
  <2> HIDE DEF n, cs
  <2> QED BY <1>3, <2>1, FunctionIsSeq
<1>9. BundleInv'
  <2> HIDE DEF n, cs
  <2> QED BY <1>1, <1>3, <1>5, <1>6, <1>7, <1>8 DEF BundleInv
<1>10. StoreInv'
  <2> HIDE DEF n, cs
  <2> QED BY <1>1 DEF StoreInv, Stored
<1> QED BY <1>1, <1>2, <1>9, <1>10
        DEF ReadInv, RunInv, RecorderInv, RecordedCalls, PackageInv, ReplayInv, ReportInv

----------------------------------------------------------------------------
(* Replay of a READ execution: the replay *)

LEMMA BundleFacts ==
  ASSUME RunInv, BundleInv, bundle # None
  PROVE  /\ IsSeq(bundle.calls) /\ Len(bundle.calls) \in Nat
         /\ Len(run.answers) <= Len(bundle.calls)
         /\ \A k \in 1 .. Len(bundle.calls) :
              /\ bundle.calls[k].call = Plans[1][k]
              /\ bundle.calls[k].ref.hash \in AnswerRecords
              /\ bundle.calls[k].ref.hash.valid = TRUE =>
                   /\ k \in 1 .. Len(run.answers)
                   /\ bundle.calls[k].ref.hash.value = run.answers[k].value
                   /\ bundle.portable = TRUE \/ bundle.calls[k].ref.hash = run.answers[k]
<1> DEFINE n == Len(run.answers)
<1>1. /\ n \in Nat
      /\ \A k \in 1 .. n : run.answers[k] \in AnswerRecords
  BY RunFacts
<1>2. CASE bundle.portable = FALSE
  <2>1. RecordedCalls(bundle.calls)
    BY <1>2 DEF BundleInv
  <2>2. /\ IsSeq(bundle.calls) /\ Len(bundle.calls) \in {n, n + 1} /\ Len(bundle.calls) \in Nat
        /\ \A k \in 1 .. Len(bundle.calls) :
             bundle.calls[k].call = Plans[1][k] /\ bundle.calls[k].ref.hash \in AnswerRecords
        /\ \A k \in 1 .. n : bundle.calls[k].ref.hash = run.answers[k]
        /\ Len(bundle.calls) = n + 1 => bundle.calls[n + 1].ref.hash.valid = FALSE
    BY <2>1, SeqFacts DEF RecordedCalls
  <2>3. ASSUME NEW k \in 1 .. Len(bundle.calls), bundle.calls[k].ref.hash.valid = TRUE
        PROVE  k \in 1 .. n
    <3>1. CASE k = n + 1
      BY <1>1, <2>2, <2>3, <3>1
    <3> QED BY <1>1, <2>2, <3>1
  <2> HIDE DEF n
  <2>4. n <= Len(bundle.calls)
    BY <1>1, <2>2
  <2> QED BY <2>2, <2>3, <2>4 DEF n
<1>3. CASE bundle.portable = TRUE
  <2>1. /\ IsSeq(bundle.calls) /\ Len(bundle.calls) = n
        /\ \A k \in 1 .. n :
             /\ bundle.calls[k].call = Plans[1][k]
             /\ bundle.calls[k].ref.hash = Decoded(run.answers[k].value)
    BY <1>3 DEF BundleInv
  <2>2. \A a \in AnswerRecords : Decoded(a.value) \in AnswerRecords /\ Decoded(a.value).value = a.value
    BY DEF AnswerRecords, Decoded
  <2> QED BY <1>1, <1>3, <2>1, <2>2
<1> QED BY <1>2, <1>3 DEF BundleInv

LEMMA AdvancedReplay ==
  ASSUME NEW e \in ReplayRecords
  PROVE  LET next == [e EXCEPT !.index = @ + 1]
         IN  /\ next \in ReplayRecords /\ next.index = e.index + 1
             /\ next.version = e.version /\ next.original = e.original
             /\ next.lost = e.lost /\ next.made = e.made /\ next.answers = e.answers
             /\ next.result = e.result
BY DEF ReplayRecords

LEMMA AnsweredReplay ==
  ASSUME NEW e \in ReplayRecords, NEW a \in AnswerRecords
  PROVE  /\ Answered(e, a) \in ReplayRecords
         /\ Answered(e, a).index = e.index /\ Answered(e, a).version = e.version
         /\ Answered(e, a).original = e.original /\ Answered(e, a).lost = e.lost
         /\ Answered(e, a).made = e.made + 1
         /\ Answered(e, a).answers = Append(e.answers, a)
         /\ Answered(e, a).result = e.result
<1>1. /\ e.made + 1 \in Nat /\ e.answers \in Seq(AnswerRecords)
      /\ Append(e.answers, a) \in Seq(AnswerRecords)
  BY DEF ReplayRecords
<1> QED BY <1>1 DEF Answered, ReplayRecords

LEMMA FailedReplay ==
  ASSUME NEW e \in ReplayRecords, NEW error \in Errors
  PROVE  /\ Failed(e, error) \in ReplayRecords
         /\ Failed(e, error).index = e.index /\ Failed(e, error).version = e.version
         /\ Failed(e, error).original = e.original /\ Failed(e, error).lost = e.lost
         /\ Failed(e, error).made = e.made + 1
         /\ Failed(e, error).answers = e.answers
         /\ Failed(e, error).result = View(e.made + 1, e.answers, error)
         /\ Failed(e, error).result # None
<1>1. e.made + 1 \in Nat /\ e.answers \in Seq(AnswerRecords)
  BY DEF ReplayRecords
<1>2. View(e.made + 1, e.answers, error) \in Views /\ View(e.made + 1, e.answers, error) # None
  BY <1>1, ViewFacts
<1> QED BY <1>1, <1>2 DEF Failed, ReplayRecords

LEMMA LostReplay ==
  ASSUME NEW e \in ReplayRecords
  PROVE  LET lost == [e EXCEPT !.lost = TRUE]
         IN  /\ lost \in ReplayRecords /\ lost.lost = TRUE
             /\ lost.version = e.version /\ lost.original = e.original
             /\ lost.index = e.index /\ lost.made = e.made /\ lost.answers = e.answers
             /\ lost.result = e.result
BY DEF ReplayRecords

(* What the replay leaves alone. *)
LEMMA ReplayFrame ==
  ASSUME ReadInv, UNCHANGED <<run, recorded, bundle, package>>, StoreInv', ReplayInv', ReportInv'
  PROVE  ReadInv'
BY DEF ReadInv, RunInv, RecorderInv, RecordedCalls, PackageInv, BundleInv

LEMMA StartReplayStep ==
  ASSUME ReadInv, NEW p \in Principals, NEW v \in DOMAIN Plans, NEW same \in BOOLEAN,
         StartReplay(p, v, same)
  PROVE  ReadInv'
<1>1. /\ bundle # None /\ rep = None
      /\ UNCHANGED <<class, run, recorded, bundle, package>>
      /\ GetAll({bundle.original}, p)
  BY DEF StartReplay
<1>2. StoreInv'
  BY <1>1, DropKeeps DEF ReadInv, GetAll
<1>3. CASE rep' = None
  <2>1. report' = Refused \/ report' = None
    BY <1>3 DEF StartReplay
  <2>2. ReportInv'
    BY <1>1, <2>1 DEF Refused, ReportInv, MatchMeansSameCalls, ReplayReproduces
  <2> QED BY <1>1, <1>2, <1>3, <2>2, ReplayFrame DEF ReplayInv
<1>4. CASE rep' # None
  <2>1. /\ Resolves(bundle.original, p)
        /\ rep' = [principal |-> p, version |-> v, original |-> Value(bundle.original),
                   index |-> 0, lost |-> FALSE, made |-> 0, answers |-> << >>, result |-> None]
        /\ report' = None
    BY <1>4 DEF StartReplay
  <2>2. Value(bundle.original) = run.result /\ run.result # None /\ run.result \in Views
    BY <1>1, <2>1, ResolvedValue DEF ReadInv, BundleInv, RunInv, RunRecords
  <2>3. << >> \in Seq(AnswerRecords) /\ Len(<< >>) = 0
    OBVIOUS
  <2>4. /\ rep' \in ReplayRecords /\ rep'.original = run.result
        /\ rep'.index = 0 /\ rep'.made = 0 /\ rep'.answers = << >> /\ rep'.result = None
    BY <2>1, <2>2, <2>3 DEF ReplayRecords
  <2>5. Len(bundle.calls) \in Nat
    BY <1>1, BundleFacts DEF ReadInv
  <2>6. ReplayInv'
    BY <1>1, <2>3, <2>4, <2>5 DEF ReplayInv
  <2>7. ReportInv'
    BY <2>1 DEF ReportInv
  <2> QED BY <1>1, <1>2, <2>6, <2>7, ReplayFrame
<1> QED BY <1>3, <1>4

LEMMA ReplayCompleteStep ==
  ASSUME ReadInv, ReplayComplete
  PROVE  ReadInv'
<1>1. /\ rep # None /\ rep.result = None /\ rep.made = Len(Plans[rep.version])
      /\ rep' = [rep EXCEPT !.result = View(rep.made, rep.answers, None)]
      /\ items' = items
      /\ UNCHANGED <<run, recorded, bundle, package, report>>
  BY DEF ReplayComplete, storeVars
<1>2. /\ rep \in ReplayRecords /\ rep.made \in Nat /\ rep.answers \in Seq(AnswerRecords)
      /\ rep.made = Len(rep.answers) /\ rep.index = rep.made
  BY <1>1 DEF ReadInv, ReplayInv, ReplayRecords
<1>3. View(rep.made, rep.answers, None) \in Views /\ View(rep.made, rep.answers, None) # None
  BY <1>2, ViewFacts
<1>4. /\ rep' \in ReplayRecords /\ rep'.original = rep.original /\ rep'.version = rep.version
      /\ rep'.index = rep.index /\ rep'.made = rep.made /\ rep'.answers = rep.answers
      /\ rep'.result = View(rep.made, rep.answers, None)
  BY <1>1, <1>2, <1>3 DEF ReplayRecords
<1>5. ReplayCompleted'
  BY <1>1, <1>2, <1>4 DEF ReplayCompleted
<1>6. ReplayInv'
  BY <1>1, <1>3, <1>4, <1>5 DEF ReadInv, ReplayInv
<1>7. StoreInv' /\ ReportInv'
  BY <1>1 DEF ReadInv, StoreInv, ReportInv, MatchMeansSameCalls, ReplayReproduces
<1> QED BY <1>1, <1>6, <1>7, ReplayFrame

LEMMA ReplayCallStep ==
  ASSUME ReadInv, ReplayCall
  PROVE  ReadInv'
<1> DEFINE n == Len(rep.answers)
           c == bundle.calls
           plan == Plans[rep.version]
           next == [rep EXCEPT !.index = @ + 1]
<1>1. /\ rep # None /\ rep.result = None /\ rep.made < Len(plan)
      /\ UNCHANGED <<run, recorded, bundle, package, report>>
  BY DEF ReplayCall
<1>2. /\ bundle # None /\ rep \in ReplayRecords /\ rep.original = run.result
      /\ n <= Len(c) /\ rep.made = n /\ rep.index = n
      /\ \A k \in 1 .. n :
           rep.answers[k] = c[k].ref.hash /\ rep.answers[k].valid = TRUE /\ c[k].call = plan[k]
  BY <1>1 DEF ReadInv, ReplayInv
<1>3. /\ rep.version \in DOMAIN Plans /\ rep.answers \in Seq(AnswerRecords) /\ n \in Nat
      /\ Len(c) \in Nat /\ Len(plan) \in Nat
  BY <1>2, BundleFacts, PlanSeq DEF ReadInv, ReplayRecords
<1>4. /\ next \in ReplayRecords /\ next.index = n + 1
      /\ next.version = rep.version /\ next.original = rep.original
      /\ next.lost = rep.lost /\ next.made = n /\ next.answers = rep.answers
      /\ next.result = None
  BY <1>1, <1>2, AdvancedReplay
<1> HIDE DEF next
<1>5. ReportInv'
  BY <1>1 DEF ReadInv, ReportInv, MatchMeansSameCalls, ReplayReproduces
<1>6. ASSUME rep' \in ReplayRecords, rep'.original = rep.original, rep'.version = rep.version,
             rep'.answers = rep.answers, rep'.result # None, ReplayToolFailed' \/ ReplayDiverged'
      PROVE  ReplayInv'
  BY <1>1, <1>2, <1>6 DEF ReplayInv
<1>7. CASE rep.index >= Len(c)
  <2>1. rep' = Failed(rep, "UNEXPECTED") /\ items' = items
    BY <1>7 DEF ReplayCall, storeVars
  <2>2. /\ rep' \in ReplayRecords /\ rep'.original = rep.original /\ rep'.version = rep.version
        /\ rep'.made = n + 1 /\ rep'.answers = rep.answers
        /\ rep'.result = View(n + 1, rep.answers, "UNEXPECTED") /\ rep'.result # None
    BY <1>2, <2>1, FailedReplay DEF Errors
  <2>3. ReplayDiverged'
    BY <1>1, <1>2, <1>3, <1>7, <2>2 DEF ReplayDiverged
  <2>4. StoreInv'
    BY <2>1 DEF ReadInv, StoreInv
  <2> QED BY <1>1, <1>5, <1>6, <2>2, <2>3, <2>4, ReplayFrame
<1>8. CASE rep.index < Len(c) /\ ~SameCall(c[rep.index + 1], NextCall)
  <2>1. rep' = Failed(next, "UNEXPECTED") /\ items' = items
    BY <1>2, <1>3, <1>8 DEF ReplayCall, storeVars, next
  <2>2. /\ rep' \in ReplayRecords /\ rep'.original = rep.original /\ rep'.version = rep.version
        /\ rep'.made = n + 1 /\ rep'.answers = rep.answers /\ rep'.index = n + 1
        /\ rep'.result = View(n + 1, rep.answers, "UNEXPECTED") /\ rep'.result # None
    BY <1>4, <2>1, FailedReplay DEF Errors
  <2>3. n + 1 \in 1 .. Len(c) /\ n + 1 <= Len(plan) /\ c[n + 1].call # plan[n + 1]
    BY <1>1, <1>2, <1>3, <1>8 DEF SameCall, NextCall
  <2>4. ReplayDiverged'
    BY <1>1, <2>2, <2>3 DEF ReplayDiverged
  <2>5. StoreInv'
    BY <2>1 DEF ReadInv, StoreInv
  <2> QED BY <1>1, <1>5, <1>6, <2>2, <2>4, <2>5, ReplayFrame
<1>9. CASE rep.index < Len(c) /\ SameCall(c[rep.index + 1], NextCall)
  <2> DEFINE ref == c[n + 1].ref
  <2>1. /\ GetAll({ref}, rep.principal)
        /\ \/ Resolves(ref, rep.principal) /\ rep' = Received(next, Replayed(ref))
           \/ rep' = [Failed(next, "UNEXPECTED") EXCEPT !.lost = TRUE]
    BY <1>2, <1>3, <1>9 DEF ReplayCall, next
  <2>2. StoreInv'
    BY <2>1, DropKeeps DEF ReadInv, GetAll
  <2>3. n + 1 \in 1 .. Len(c) /\ n + 1 <= Len(plan) /\ c[n + 1].call = plan[n + 1]
    BY <1>1, <1>2, <1>3, <1>9 DEF SameCall, NextCall
  <2>4. ref.hash \in AnswerRecords /\ ref.hash.valid \in BOOLEAN
    BY <1>2, <2>3, BundleFacts DEF ReadInv, AnswerRecords
  <2>5. CASE rep' = [Failed(next, "UNEXPECTED") EXCEPT !.lost = TRUE]
    <3> DEFINE e == Failed(next, "UNEXPECTED")
    <3>1. /\ e \in ReplayRecords /\ e.original = rep.original /\ e.version = rep.version
          /\ e.made = n + 1 /\ e.answers = rep.answers
          /\ e.result = View(n + 1, rep.answers, "UNEXPECTED") /\ e.result # None
      BY <1>4, FailedReplay DEF Errors
    <3> HIDE DEF e
    <3>2. /\ rep' \in ReplayRecords /\ rep'.original = e.original /\ rep'.version = e.version
          /\ rep'.made = e.made /\ rep'.answers = e.answers /\ rep'.result = e.result
          /\ rep'.lost = TRUE
      <4>1. rep' = [e EXCEPT !.lost = TRUE]
        BY <2>5 DEF e
      <4> QED BY <3>1, <4>1, LostReplay
    <3>3. ReplayDiverged'
      BY <3>1, <3>2 DEF ReplayDiverged
    <3> QED BY <1>1, <1>5, <1>6, <2>2, <3>1, <3>2, <3>3, ReplayFrame
  <2>6. CASE Resolves(ref, rep.principal) /\ rep' = Received(next, Replayed(ref))
    <3>1. Replayed(ref) = ref.hash
      BY <2>6, ResolvedValue DEF ReadInv, Replayed
    <3>2. CASE ref.hash.valid = TRUE
      <4>1. rep' = Answered(next, ref.hash)
        BY <2>6, <3>1, <3>2 DEF Received
      <4>2. /\ rep' \in ReplayRecords /\ rep'.original = rep.original /\ rep'.version = rep.version
            /\ rep'.made = n + 1 /\ rep'.index = n + 1 /\ rep'.result = None
            /\ rep'.answers = Append(rep.answers, ref.hash)
        <5> DEFINE a == ref.hash
        <5>1. a \in AnswerRecords /\ rep' = Answered(next, a)
          BY <2>4, <4>1
        <5> HIDE DEF a, ref
        <5>2. /\ rep' \in ReplayRecords
              /\ rep'.index = next.index /\ rep'.version = next.version
              /\ rep'.original = next.original /\ rep'.made = next.made + 1
              /\ rep'.answers = Append(next.answers, a) /\ rep'.result = next.result
          BY <1>4, <5>1, AnsweredReplay
        <5> QED BY <1>4, <5>2 DEF a
      <4>3. /\ Len(rep'.answers) = n + 1
            /\ \A k \in 1 .. n : rep'.answers[k] = rep.answers[k]
            /\ rep'.answers[n + 1] = ref.hash
        <5>1. IsSeq(rep.answers)
          BY <1>3, AnswerSeq
        <5> HIDE DEF ref
        <5> QED BY <4>2, <5>1, AppendFacts
      <4>4. ASSUME NEW k \in 1 .. n + 1
            PROVE  /\ rep'.answers[k] = c[k].ref.hash /\ rep'.answers[k].valid = TRUE
                   /\ c[k].call = plan[k]
        <5>1. CASE k = n + 1
          BY <2>3, <3>2, <4>3, <5>1
        <5>2. CASE k \in 1 .. n
          BY <1>2, <4>3, <5>2
        <5>3. k = n + 1 \/ k \in 1 .. n
          <6> HIDE DEF n
          <6> QED BY <1>3
        <5> QED BY <5>1, <5>2, <5>3
      <4>5. n + 1 <= Len(c)
        BY <2>3
      <4>6. ReplayInv'
        BY <1>1, <1>2, <4>2, <4>3, <4>4, <4>5 DEF ReplayInv
      <4> QED BY <1>1, <1>5, <2>2, <4>6, ReplayFrame
    <3>3. CASE ref.hash.valid = FALSE
      <4>1. rep' = Failed(next, "TOOL")
        BY <2>6, <3>1, <3>3 DEF Received
      <4>2. /\ rep' \in ReplayRecords /\ rep'.original = rep.original /\ rep'.version = rep.version
            /\ rep'.made = n + 1 /\ rep'.index = n + 1 /\ rep'.answers = rep.answers
            /\ rep'.result = View(n + 1, rep.answers, "TOOL") /\ rep'.result # None
        BY <1>4, <4>1, FailedReplay DEF Errors
      <4>3. ReplayToolFailed'
        BY <1>1, <2>3, <3>3, <4>2 DEF ReplayToolFailed
      <4> QED BY <1>1, <1>5, <1>6, <2>2, <4>2, <4>3, ReplayFrame
    <3> QED BY <2>4, <3>2, <3>3
  <2> QED BY <2>1, <2>5, <2>6
<1> QED BY <1>2, <1>3, <1>7, <1>8, <1>9

(* A replay that has made all its calls has made those of the recording. *)
LEMMA MatchStep ==
  ASSUME ReadInv, rep # None, rep.result # None, rep.result = run.result,
         run.result.status = "COMPLETED"
  PROVE  SubSeq(Plans[rep.version], 1, rep.made) = Plans[1]
<1>1. /\ RunInv /\ BundleInv /\ bundle # None /\ rep \in ReplayRecords
      /\ ReplayCompleted \/ ReplayToolFailed \/ ReplayDiverged
  BY DEF ReadInv, ReplayInv
<1>2. /\ run.result = View(run.made, run.answers, None)
      /\ run.made = Len(run.answers) /\ run.made = Len(Plans[1])
  BY <1>1, CompletedRun
<1>3. /\ rep.made \in Nat /\ rep.answers \in Seq(AnswerRecords) /\ rep.version \in DOMAIN Plans
      /\ run.made \in Nat /\ run.answers \in Seq(AnswerRecords)
  BY <1>1, RunFacts DEF ReplayRecords
<1>4. ReplayCompleted
  <2>1. "TOOL" \in Errors /\ "UNEXPECTED" \in Errors
        /\ "TOOL" # None /\ "UNEXPECTED" # None
    BY ReplayAssumption DEF Errors
  <2>2. View(rep.made, rep.answers, "TOOL").status # "COMPLETED"
    BY <1>3, <2>1, ViewFacts
  <2>3. View(rep.made, rep.answers, "UNEXPECTED").status # "COMPLETED"
    BY <1>3, <2>1, ViewFacts
  <2> QED BY <1>1, <2>2, <2>3 DEF ReplayToolFailed, ReplayDiverged
<1>5. rep.made = run.made
  BY <1>2, <1>3, <1>4, ViewFacts DEF ReplayCompleted
<1> DEFINE plan == Plans[rep.version]
           n == Len(plan)
<1>6. /\ IsSeq(plan) /\ IsSeq(Plans[1]) /\ rep.made = n /\ n \in Nat
      /\ Len(Plans[1]) = n /\ Len(rep.answers) = n
  BY <1>2, <1>3, <1>4, <1>5, PlanSeq, ReplayAssumption DEF ReplayCompleted
<1>7. \A k \in 1 .. n : plan[k] = Plans[1][k]
  <2>1. /\ \A k \in 1 .. n : bundle.calls[k].call = plan[k]
        /\ n <= Len(bundle.calls)
    BY <1>6 DEF ReadInv, ReplayInv
  <2>2. /\ Len(bundle.calls) \in Nat
        /\ \A k \in 1 .. Len(bundle.calls) : bundle.calls[k].call = Plans[1][k]
    BY <1>1, BundleFacts
  <2> HIDE DEF n, plan
  <2>3. \A k \in 1 .. n : k \in 1 .. Len(bundle.calls)
    BY <1>6, <2>1, <2>2
  <2> QED BY <2>1, <2>2, <2>3
<1>8. plan = Plans[1]
  BY <1>6, <1>7, SameSeq
<1>9. SubSeq(plan, 1, n) = plan
  <2> DEFINE S == {plan[k] : k \in DOMAIN plan}
             t == SubSeq(plan, 1, n)
  <2>1. plan \in Seq(S)
    BY <1>6 DEF IsSeq
  <2>2. \A k \in 1 .. n : plan[k] \in S
    BY <1>6, SeqFacts
  <2> HIDE DEF S, plan, n
  <2>3. /\ t \in Seq(S) /\ Len(t) = IF 1 <= n THEN n - 1 + 1 ELSE 0
        /\ \A k \in 1 .. n - 1 + 1 : t[k] = plan[1 + k - 1]
    BY <1>6, <2>2, SubSeqProperties
  <2>4. Len(t) = n /\ \A k \in 1 .. n : t[k] = plan[k]
    BY <1>6, <2>3
  <2>5. Len(plan) = n
    BY DEF n
  <2> HIDE DEF t
  <2>6. t = plan
    BY <2>1, <2>3, <2>4, <2>5, SeqEqual
  <2> QED BY <2>6 DEF t
<1> QED BY <1>6, <1>8, <1>9

(* A replay by the same runtime that has lost nothing ends as the recorded  *)
(* execution did.                                                           *)
LEMMA ReproduceStep ==
  ASSUME ReadInv, rep # None, rep.result # None, rep.index = Len(bundle.calls),
         rep.version = 1, rep.lost # TRUE, bundle.portable # TRUE, Len(bundle.calls) = run.made
  PROVE  rep.result = run.result
<1> DEFINE c == bundle.calls
           n == Len(run.answers)
           m == Len(rep.answers)
<1>1. /\ RunInv /\ BundleInv /\ bundle # None /\ rep \in ReplayRecords
      /\ m <= Len(c)
      /\ \A k \in 1 .. m : rep.answers[k] = c[k].ref.hash /\ rep.answers[k].valid = TRUE
      /\ ReplayCompleted \/ ReplayToolFailed \/ ReplayDiverged
  BY DEF ReadInv, ReplayInv
<1>2. bundle.portable = FALSE /\ RecordedCalls(c) /\ run.result # None
  BY <1>1 DEF BundleInv
<1>3. /\ rep.answers \in Seq(AnswerRecords) /\ IsSeq(rep.answers) /\ m \in Nat
      /\ run.answers \in Seq(AnswerRecords) /\ IsSeq(run.answers) /\ n \in Nat
      /\ Len(c) \in Nat /\ Len(Plans[1]) \in Nat
  BY <1>1, RunFacts, BundleFacts, AnswerSeq, PlanSeq, ReplayAssumption DEF ReplayRecords
<1>4. /\ Len(c) \in {n, n + 1}
      /\ \A k \in 1 .. Len(c) : c[k].call = Plans[1][k]
      /\ \A k \in 1 .. n : c[k].ref.hash = run.answers[k] /\ c[k].ref.hash.valid = TRUE
      /\ Len(c) = n + 1 => c[n + 1].ref.hash.valid = FALSE
                           /\ run.result = View(run.made, run.answers, "TOOL")
  BY <1>1, <1>2 DEF RecordedCalls, RunInv
<1>5. Len(c) = n => run.result = View(run.made, run.answers, None) /\ n = Len(Plans[1])
  BY <1>1, <1>2, <1>3 DEF RunInv
<1>6. ASSUME m = n PROVE rep.answers = run.answers
  BY <1>1, <1>3, <1>4, <1>6, SameSeq
<1>7. CASE m = Len(c)
  <2>1. Len(c) = n
    BY <1>1, <1>3, <1>4, <1>7
  <2>2. rep.answers = run.answers
    BY <1>6, <1>7, <2>1
  <2>3. ReplayCompleted
    <3>1. ~ReplayToolFailed
      BY <1>3, <1>7 DEF ReplayToolFailed
    <3>2. ~ReplayDiverged
      <4>1. ~(m < Len(Plans[1]))
        BY <1>3, <1>5, <1>7, <2>1
      <4>2. \A k \in 1 .. Len(c) : c[k].call = Plans[1][k]
        BY <1>4
      <4> QED BY <4>1, <4>2 DEF ReplayDiverged
    <3> QED BY <1>1, <3>1, <3>2
  <2> QED BY <1>5, <1>7, <2>1, <2>2, <2>3 DEF ReplayCompleted
<1>8. CASE m # Len(c)
  <2>1. ReplayToolFailed
    BY <1>1, <1>3, <1>4, <1>8 DEF ReplayCompleted, ReplayDiverged
  <2>2. Len(c) = n + 1 /\ m = n
    BY <1>3, <1>4, <2>1 DEF ReplayToolFailed
  <2>3. rep.made = run.made
    BY <2>1 DEF ReplayToolFailed
  <2> QED BY <1>4, <1>6, <2>1, <2>2, <2>3 DEF ReplayToolFailed
<1> QED BY <1>7, <1>8

LEMMA CompareStep ==
  ASSUME ReadInv, Compare
  PROVE  ReadInv'
<1>1. /\ rep # None /\ rep.result # None /\ rep' = None /\ items' = items
      /\ UNCHANGED <<run, recorded, bundle, package>>
      /\ report' = IF rep.index # Len(bundle.calls) THEN Refused
                   ELSE [compared |-> TRUE, version |-> rep.version, made |-> rep.made,
                         lost |-> rep.lost, matches |-> rep.original = rep.result]
  BY DEF Compare, storeVars
<1>2. /\ bundle # None /\ rep.original = run.result /\ rep.lost \in BOOLEAN
      /\ bundle.portable \in BOOLEAN
  BY <1>1 DEF ReadInv, ReplayInv, ReplayRecords, BundleInv
<1>3. CASE rep.index # Len(bundle.calls)
  BY <1>1, <1>2, <1>3, ReplayFrame
     DEF ReadInv, StoreInv, ReplayInv, ReportInv, Refused, MatchMeansSameCalls, ReplayReproduces
<1>4. CASE rep.index = Len(bundle.calls)
  <2>1. /\ report'.version = rep.version /\ report'.made = rep.made /\ report'.lost = rep.lost
        /\ report'.matches = (run.result = rep.result)
    BY <1>1, <1>2, <1>4
  <2>2. MatchMeansSameCalls'
    BY <1>1, <2>1, MatchStep DEF MatchMeansSameCalls
  <2>3. ReplayReproduces'
    BY <1>1, <1>2, <1>4, <2>1, ReproduceStep DEF ReplayReproduces
  <2> QED BY <1>1, <1>2, <2>2, <2>3, ReplayFrame DEF ReadInv, StoreInv, ReplayInv, ReportInv
<1> QED BY <1>3, <1>4

----------------------------------------------------------------------------
(* Replay of a READ execution: the store around it *)

LEMMA StoreFrame ==
  ASSUME ReadInv, StoreInv', UNCHANGED readVars
  PROVE  ReadInv'
BY DEF readVars, ReadInv, RunInv, RecorderInv, RecordedCalls, PackageInv, BundleInv, ReplayInv,
       ReplayCompleted, ReplayToolFailed, ReplayDiverged, ReportInv, MatchMeansSameCalls,
       ReplayReproduces

LEMMA StoreStepsKeep ==
  ASSUME ReadInv, StoreSteps
  PROVE  ReadInv'
<1>1. CASE UNCHANGED readVars /\ \E a, b \in Answers : OtherExecution(a, b)
  BY <1>1, PutKeeps, StoreFrame DEF OtherExecution, ReadInv
<1>2. CASE UNCHANGED readVars /\ PurgeSnapshots
  BY <1>2, DropKeeps, StoreFrame DEF PurgeSnapshots, ReadInv
<1>3. CASE UNCHANGED readVars /\ TickStore
  BY <1>3, StoreFrame DEF TickStore, ReadInv, StoreInv
<1>4. CASE UNCHANGED readVars /\ \E p \in Principals : \E ref : DeleteSnapshot(ref, p)
  BY <1>4, DropKeeps, StoreFrame DEF DeleteSnapshot, ReadInv
<1>5. CASE /\ RestartStore /\ recorded' = None /\ rep' = None
           /\ UNCHANGED <<class, run, bundle, package, report>>
  <2>1. StoreInv'
    BY <1>5 DEF RestartStore, StoreInv
  <2> QED BY <1>5, <2>1 DEF ReadInv, RunInv, RecorderInv, PackageInv, BundleInv, RecordedCalls,
                 ReplayInv, ReportInv, MatchMeansSameCalls, ReplayReproduces
<1> QED BY <1>1, <1>2, <1>3, <1>4, <1>5 DEF StoreSteps

LEMMA CreateBundleFailsStep ==
  ASSUME ReadInv, CreateBundleFails
  PROVE  ReadInv'
BY PutKeeps, StoreFrame DEF CreateBundleFails, ReadInv

LEMMA ReadStep ==
  ASSUME ReadInv, [ReadNext]_<<storeVars, readVars>>
  PROVE  ReadInv'
<1>1. CASE UNCHANGED <<storeVars, readVars>>
  BY <1>1, StoreFrame DEF storeVars, ReadInv, StoreInv
<1>2. CASE ReadNext
  BY <1>2, RecordStep, CallFailsStep, CompleteStep, CreateBundleStep, CreateBundleFailsStep,
     ExportStep, ImportStep, StartReplayStep, ReplayCallStep, ReplayCompleteStep, CompareStep,
     StoreStepsKeep DEF ReadNext
<1> QED BY <1>1, <1>2

LEMMA ReadInvariant == ReadSpec => []ReadInv
<1>1. ReadInv /\ [ReadNext]_<<storeVars, readVars>> => ReadInv'
  BY ReadStep
<1> QED BY <1>1, ReadInvInit, PTL DEF ReadSpec

(* ReplayToolExecutor serves every call of a replay with what the provider  *)
(* has told RecordingToolExecutor at that place, whatever has happened to   *)
(* the snapshots meanwhile; after encode_replay_package, with its value.    *)
THEOREM ReplaysUseRecorded == ReadSpec => []ReplayUsesRecorded
<1>1. ReadInv => ReplayUsesRecorded
  <2> SUFFICES ASSUME ReadInv, rep # None, NEW k \in DOMAIN rep.answers
               PROVE  /\ k \in DOMAIN run.answers
                      /\ rep.answers[k].value = run.answers[k].value
                      /\ bundle.portable \/ rep.answers[k] = run.answers[k]
    BY DEF ReplayUsesRecorded
  <2>1. /\ RunInv /\ BundleInv /\ bundle # None
        /\ rep.answers \in Seq(AnswerRecords) /\ Len(rep.answers) <= Len(bundle.calls)
    BY DEF ReadInv, ReplayInv, ReplayRecords
  <2>2. k \in 1 .. Len(rep.answers) /\ k \in 1 .. Len(bundle.calls)
    BY <2>1, BundleFacts
  <2>3. rep.answers[k] = bundle.calls[k].ref.hash /\ rep.answers[k].valid = TRUE
    BY <2>2 DEF ReadInv, ReplayInv
  <2>4. /\ k \in 1 .. Len(run.answers)
        /\ rep.answers[k].value = run.answers[k].value
        /\ bundle.portable = TRUE \/ rep.answers[k] = run.answers[k]
    BY <2>1, <2>2, <2>3, BundleFacts
  <2>5. DOMAIN run.answers = 1 .. Len(run.answers)
    BY <2>1, RunFacts, SeqFacts
  <2> QED BY <2>4, <2>5
<1> QED BY <1>1, ReadInvariant, PTL

(* When replay_and_compare reports a match with an execution that has       *)
(* completed, the replay has made its tool calls, in their order and with   *)
(* their arguments, whichever runtime version has made them.                *)
THEOREM MatchesMeanSameCalls == ReadSpec => []MatchMeansSameCalls
<1>1. ReadInv => MatchMeansSameCalls
  BY DEF ReadInv, ReportInv, MatchMeansSameCalls
<1> QED BY <1>1, ReadInvariant, PTL

(* replay_and_compare by the recorded runtime, from the store, with nothing *)
(* lost and every call on record, reports a match.                          *)
THEOREM ReplaysReproduce == ReadSpec => []ReplayReproduces
<1>1. ReadInv => ReplayReproduces
  BY DEF ReadInv, ReportInv, ReplayReproduces
<1> QED BY <1>1, ReadInvariant, PTL
=============================================================================
