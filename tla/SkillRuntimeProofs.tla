------------------------ MODULE SkillRuntimeProofs ------------------------
(***************************************************************************)
(* Proofs about RuntimeEngine.execute.  The invariant comes in layers, each *)
(* proved with the ones before it: the meter and the story that the trail   *)
(* tells; the tool calls of the trail; the frames; what the bound values    *)
(* come from; and what their completeness says.                             *)
(***************************************************************************)
EXTENDS SkillRuntime, FiniteSetTheorems, TLAPS

(* Sequences, whatever their elements are. *)
IsSeq(s) == s \in Seq({s[k] : k \in DOMAIN s})

Active == phase \notin {"failing", "done"}

(* What a run can fail with. *)
Failures == Statuses \ {"COMPLETED"}

(* How many events of a type the trail has. *)
Count(type) == Cardinality(EventsAt({type}))

nStarted == Count("TOOL_STARTED")
nEmitted == Count("EMIT_COMPLETED")
nChecked == Count("CHECK_COMPLETED")
nOpened == Count("STATEMENT_STARTED")
nClosed == Count("STATEMENT_COMPLETED")

----------------------------------------------------------------------------
(* The meter and the story of the trail *)

TypesInv ==
  /\ skill \in Skills /\ phase \in Phases /\ cause \in Failures
  /\ trace \in Seq(Events) /\ IsSeq(checks) /\ IsSeq(outputs)
  /\ meter \in [tools : Nat, loops : Nat, rows : Nat]
  /\ data \in Completenesses
  /\ Active => IsSeq(stack) /\ Len(stack) >= 1
  /\ phase \in {"idle", "preflight", "bind"} => Len(stack) = 1

(* The meter is ahead of the trail by one event only in a run that failed   *)
(* between the two.                                                         *)
MeterInv ==
  /\ nStarted <= meter.tools /\ meter.tools <= nStarted + 1
  /\ nEmitted <= meter.rows /\ meter.rows <= nEmitted + 1
  /\ Active => nStarted = meter.tools /\ nEmitted = meter.rows
  /\ meter.tools <= skill.limits.tools
  /\ meter.loops <= skill.limits.loops
  /\ meter.rows = Len(outputs) /\ meter.rows <= skill.limits.rows

(* How many statements are under way. *)
Depth == IF phase \in {"idle", "preflight", "bind"} THEN 0
         ELSE IF phase = "block" THEN Len(stack) - 1 ELSE Len(stack)

StoryInv ==
  /\ phase # "done" => result = NoResult /\ EventsAt(Terminal) = {}
  /\ phase = "done" => result \in ExecutionResults /\ ResultMatchesTrace
  /\ Active => nChecked = Len(checks) /\ nOpened = nClosed + Depth

CoreInv == TypesInv /\ MeterInv /\ StoryInv

----------------------------------------------------------------------------
(* The tool calls of the trail *)

Starts == EventsAt({"TOOL_STARTED"})
Answered == EventsAt({"TOOL_COMPLETED", "TOOL_FAILED"})

(* No call is under way, and none was left open. *)
Settled == \/ Active /\ phase \notin {"call", "waiting"}
           \/ Ended("COMPLETED")

(* The invocations are numbered in the order of their starts, and only the  *)
(* last one may be without an end.                                          *)
CallInv ==
  /\ phase \in {"call", "waiting"} => meter.tools >= 1
  /\ \A k \in Starts : trace[k].call \in 1 .. meter.tools
  /\ \A j, k \in Starts : j < k => trace[j].call < trace[k].call
  /\ \A k \in Answered :
       /\ trace[k].call \in 1 .. meter.tools
       /\ phase \in {"call", "waiting"} => trace[k].call < meter.tools
  /\ \A k \in Starts : trace[k].call < meter.tools \/ Settled =>
       \E j \in Answered : trace[j].call = trace[k].call

----------------------------------------------------------------------------
(* The frames *)

StatementOf(sk, f) == sk.blocks[f.block][f.at]

(* A frame that is in the middle of a statement. *)
Within(sk, f) == f.at <= Len(sk.blocks[f.block])

FrameOK(sk, f) ==
  /\ DOMAIN f = {"block", "at", "left", "env"}
  /\ f.block \in DOMAIN sk.blocks
  /\ f.at \in 1 .. Len(sk.blocks[f.block]) + 1
  /\ f.left \in Nat
  /\ \A s \in DOMAIN f.env : f.env[s] \in Values

(* A frame that runs a FOREACH, the collection of which is bound in it or   *)
(* below it.                                                                *)
Looping(sk, st, k) ==
  /\ Within(sk, st[k]) /\ StatementOf(sk, st[k]).kind = "FOREACH"
  /\ \A s \in StatementOf(sk, st[k]).uses : \E j \in 1 .. k : s \in DOMAIN st[j].env

FramesInv ==
  Active =>
    /\ \A k \in 1 .. Len(stack) : FrameOK(skill, stack[k])
    /\ \A k \in 1 .. Len(stack) : k < Len(stack) \/ phase = "loop" => Looping(skill, stack, k)
    /\ phase \in {"stmt", "call", "waiting", "after"} => Within(skill, stack[Len(stack)])

----------------------------------------------------------------------------
(* What the values come from, and what their completeness says *)

EvidenceInv ==
  /\ \A k \in DOMAIN checks : checks[k].refs \subseteq Completed
  /\ \A k \in DOMAIN outputs : outputs[k] \subseteq Completed
  /\ Active => \A k \in 1 .. Len(stack) : \A s \in DOMAIN stack[k].env :
                 stack[k].env[s].refs \subseteq Completed

(* All calls of refs have returned complete results. *)
Reliable(refs) ==
  \A e \in EventsAt({"TOOL_COMPLETED"}) :
    trace[e].call \in refs => trace[e].completeness = "COMPLETE"

(* A CHECK binds s. *)
IsCheck(s) ==
  \E b \in DOMAIN skill.blocks : \E k \in DOMAIN skill.blocks[b] :
    skill.blocks[b][k].kind = "CHECK" /\ skill.blocks[b][k].target = s

(* No statement of a Skill uses the status of a CHECK. *)
ChecksStandAlone ==
  \A s \in Skills : \A b, c \in DOMAIN s.blocks :
    \A j \in DOMAIN s.blocks[b], k \in DOMAIN s.blocks[c] :
      s.blocks[b][j].kind = "CHECK" => s.blocks[b][j].target \notin s.blocks[c][k].uses

DataComplete ==
  /\ \A e \in EventsAt({"TOOL_COMPLETED"}) : trace[e].completeness = "COMPLETE"
  /\ \A k \in DOMAIN checks : checks[k].status # "UNKNOWN"

HonestInv ==
  /\ \A k \in DOMAIN checks : checks[k].status = "PASS" => Reliable(checks[k].refs)
  /\ Active => \A k \in 1 .. Len(stack) : \A s \in DOMAIN stack[k].env :
       stack[k].env[s].completeness = "COMPLETE" /\ ~IsCheck(s) => Reliable(stack[k].env[s].refs)
  /\ Active /\ data = "COMPLETE" => DataComplete
  /\ Ended("COMPLETED") /\ result.completeness = "COMPLETE" => DataComplete

----------------------------------------------------------------------------
(* Sequences and events *)

LEMMA SeqFacts ==
  ASSUME NEW s, IsSeq(s)
  PROVE  DOMAIN s = 1 .. Len(s) /\ Len(s) \in Nat
BY DEF IsSeq

LEMMA AppendFacts ==
  ASSUME NEW s, IsSeq(s), NEW x
  PROVE  /\ IsSeq(Append(s, x)) /\ Len(Append(s, x)) = Len(s) + 1
         /\ \A k \in 1 .. Len(s) : Append(s, x)[k] = s[k]
         /\ Append(s, x)[Len(s) + 1] = x
<1> DEFINE S == {s[k] : k \in DOMAIN s} \cup {x}
           t == Append(s, x)
<1>1. s \in Seq(S) /\ x \in S
  BY DEF IsSeq
<1>2. t \in Seq(S) /\ Len(t) = Len(s) + 1
  <2> HIDE DEF S
  <2> QED BY <1>1
<1>3. /\ \A k \in 1 .. Len(s) : t[k] = s[k]
      /\ t[Len(s) + 1] = x
  <2> HIDE DEF S
  <2> QED BY <1>1
<1>4. t \in Seq({t[k] : k \in DOMAIN t})
  <2> HIDE DEF S, t
  <2> QED BY <1>2
<1> QED BY <1>2, <1>3, <1>4 DEF IsSeq

LEMMA EventTypes0 ==
  /\ \A type \in EventTypes : Event(type) \in Events /\ Event(type).type = type
  /\ \A type \in EventTypes, n \in Nat :
       /\ CallEvent(type, n) \in Events /\ CallEvent(type, n).type = type
       /\ CallEvent(type, n).call = n
BY DEF Event, CallEvent, Events, Completenesses

LEMMA EventAdded ==
  ASSUME trace \in Seq(Events), NEW e \in Events, trace' = Append(trace, e)
  PROVE  /\ trace' \in Seq(Events) /\ Len(trace') = Len(trace) + 1 /\ Len(trace) \in Nat
         /\ DOMAIN trace = 1 .. Len(trace) /\ DOMAIN trace' = 1 .. Len(trace) + 1
         /\ \A k \in 1 .. Len(trace) : trace'[k] = trace[k]
         /\ trace'[Len(trace) + 1] = e
         /\ \A T : EventsAt(T)' = IF e.type \in T THEN EventsAt(T) \cup {Len(trace) + 1}
                                  ELSE EventsAt(T)
<1>1. /\ trace' \in Seq(Events) /\ Len(trace') = Len(trace) + 1 /\ Len(trace) \in Nat
      /\ DOMAIN trace = 1 .. Len(trace) /\ DOMAIN trace' = 1 .. Len(trace) + 1
  OBVIOUS
<1>2. /\ \A k \in 1 .. Len(trace) : trace'[k] = trace[k]
      /\ trace'[Len(trace) + 1] = e
  OBVIOUS
<1>3. ASSUME NEW T
      PROVE  EventsAt(T)' = IF e.type \in T THEN EventsAt(T) \cup {Len(trace) + 1}
                            ELSE EventsAt(T)
  <2> DEFINE n == Len(trace)
  <2>1. EventsAt(T)' = {k \in 1 .. n + 1 : trace'[k].type \in T}
    BY <1>1 DEF EventsAt
  <2>2. EventsAt(T) = {k \in 1 .. n : trace[k].type \in T}
    BY <1>1 DEF EventsAt
  <2> HIDE DEF n
  <2>3. \A k : k \in 1 .. n + 1 <=> k \in 1 .. n \/ k = n + 1
    BY <1>1 DEF n
  <2>4. \A k \in 1 .. n : trace'[k] = trace[k]
    BY <1>2 DEF n
  <2>5. trace'[n + 1] = e
    BY <1>2 DEF n
  <2>6. \A k : k \in EventsAt(T)' <=> k \in EventsAt(T) \/ (k = n + 1 /\ e.type \in T)
    BY <2>1, <2>2, <2>3, <2>4, <2>5
  <2> QED BY <2>6 DEF n
<1> QED BY <1>1, <1>2, <1>3

LEMMA CountIsNat ==
  ASSUME trace \in Seq(Events), NEW T
  PROVE  /\ IsFiniteSet(EventsAt(T)) /\ Cardinality(EventsAt(T)) \in Nat
         /\ EventsAt(T) \subseteq 1 .. Len(trace)
<1>1. EventsAt(T) \subseteq 1 .. Len(trace)
  BY DEF EventsAt
<1>2. IsFiniteSet(1 .. Len(trace))
  BY FS_Interval
<1>3. IsFiniteSet(EventsAt(T))
  BY <1>1, <1>2, FS_Subset
<1> QED BY <1>1, <1>3, FS_CardinalityType

Is(e, type) == IF e.type = type THEN 1 ELSE 0

LEMMA CountAdded ==
  ASSUME trace \in Seq(Events), NEW e \in Events, trace' = Append(trace, e), NEW type
  PROVE  Count(type)' = Count(type) + Is(e, type)
<1> DEFINE S == EventsAt({type})
           n == Len(trace)
<1>1. IsFiniteSet(S) /\ Cardinality(S) \in Nat /\ S \subseteq 1 .. n /\ n \in Nat
  BY CountIsNat
<1>2. S' = IF e.type \in {type} THEN S \cup {n + 1} ELSE S
  BY EventAdded
<1>3. Count(type) = Cardinality(S) /\ Count(type)' = Cardinality(S')
  BY DEF Count
<1> HIDE DEF S, n
<1>4. n + 1 \notin S
  BY <1>1
<1>5. Cardinality(S \cup {n + 1}) = Cardinality(S) + 1
  BY <1>1, <1>4, FS_AddElement
<1> QED BY <1>1, <1>2, <1>3, <1>5 DEF Is

(* The counters that the invariant names. *)
LEMMA CountsAdded ==
  ASSUME trace \in Seq(Events), NEW e \in Events, trace' = Append(trace, e)
  PROVE  /\ nStarted' = nStarted + Is(e, "TOOL_STARTED")
         /\ nEmitted' = nEmitted + Is(e, "EMIT_COMPLETED")
         /\ nChecked' = nChecked + Is(e, "CHECK_COMPLETED")
         /\ nOpened' = nOpened + Is(e, "STATEMENT_STARTED")
         /\ nClosed' = nClosed + Is(e, "STATEMENT_COMPLETED")
BY CountAdded DEF nStarted, nEmitted, nChecked, nOpened, nClosed

LEMMA CountsSame ==
  ASSUME trace' = trace
  PROVE  /\ nStarted' = nStarted /\ nEmitted' = nEmitted /\ nChecked' = nChecked
         /\ nOpened' = nOpened /\ nClosed' = nClosed
         /\ \A T : EventsAt(T)' = EventsAt(T)
BY DEF nStarted, nEmitted, nChecked, nOpened, nClosed, Count, EventsAt

LEMMA CountTypes ==
  ASSUME trace \in Seq(Events)
  PROVE  {nStarted, nEmitted, nChecked, nOpened, nClosed} \subseteq Nat
BY CountIsNat DEF nStarted, nEmitted, nChecked, nOpened, nClosed, Count

----------------------------------------------------------------------------
(* The meter and the story: kinds of steps *)

LEMMA LimitTypes ==
  ASSUME skill \in Skills
  PROVE  {skill.limits.tools, skill.limits.loops, skill.limits.rows,
          skill.limits.collection, skill.limits.duration} \subseteq Nat
BY RuntimeAssumption

LEMMA CoreTypes ==
  ASSUME CoreInv
  PROVE  /\ {nStarted, nEmitted, nChecked, nOpened, nClosed} \subseteq Nat
         /\ {meter.tools, meter.loops, meter.rows} \subseteq Nat
         /\ {skill.limits.tools, skill.limits.loops, skill.limits.rows} \subseteq Nat
         /\ Len(checks) \in Nat /\ Len(outputs) \in Nat
         /\ Active => Len(stack) \in Nat
<1>1. /\ trace \in Seq(Events) /\ skill \in Skills /\ IsSeq(checks) /\ IsSeq(outputs)
      /\ meter \in [tools : Nat, loops : Nat, rows : Nat]
      /\ Active => IsSeq(stack)
  BY DEF CoreInv, TypesInv
<1> QED BY <1>1, CountTypes, LimitTypes, SeqFacts

(* An exception and nothing else. *)
LEMMA Fails ==
  ASSUME CoreInv, Active, phase' = "failing", cause' \in Failures, data' \in Completenesses,
         UNCHANGED <<skill, meter, checks, outputs, trace, result>>
  PROVE  CoreInv'
<1>1. TypesInv'
  BY DEF CoreInv, TypesInv, Active, Phases
<1>2. MeterInv'
  BY CountsSame DEF CoreInv, MeterInv, Active
<1>3. StoryInv'
  BY CountsSame DEF CoreInv, StoryInv, Active
<1> QED BY <1>1, <1>2, <1>3 DEF CoreInv

(* The engine goes on without an event. *)
LEMMA Goes ==
  ASSUME CoreInv, Active, phase' \in Phases, Active', cause' \in Failures,
         data' \in Completenesses,
         UNCHANGED <<skill, checks, outputs, trace, result>>,
         meter' \in [tools : Nat, loops : Nat, rows : Nat],
         meter'.tools = meter.tools, meter'.rows = meter.rows,
         meter'.loops <= skill.limits.loops,
         IsSeq(stack'), Len(stack') >= 1, Depth' = Depth,
         phase' \in {"idle", "preflight", "bind"} => Len(stack') = 1
  PROVE  CoreInv'
<1>1. TypesInv'
  BY DEF CoreInv, TypesInv
<1>2. MeterInv'
  BY CountsSame DEF CoreInv, MeterInv
<1>3. StoryInv'
  BY CountsSame DEF CoreInv, StoryInv, Active
<1> QED BY <1>1, <1>2, <1>3 DEF CoreInv

(* An event on the way, with what it counts for. *)
LEMMA Records ==
  ASSUME CoreInv, Active, NEW e \in Events, e.type \notin Terminal,
         trace' = Append(trace, e), phase' \in Phases, phase' # "done", cause' \in Failures,
         data' \in Completenesses, UNCHANGED <<skill, result>>,
         meter' \in [tools : Nat, loops : Nat, rows : Nat],
         meter'.loops = meter.loops,
         meter'.tools = meter.tools + Is(e, "TOOL_STARTED"),
         meter'.rows = meter.rows + Is(e, "EMIT_COMPLETED"),
         meter'.tools <= skill.limits.tools, meter'.rows <= skill.limits.rows,
         IsSeq(outputs'), Len(outputs') = meter'.rows,
         IsSeq(checks'), Len(checks') = Len(checks) + Is(e, "CHECK_COMPLETED"),
         Active' => /\ IsSeq(stack') /\ Len(stack') >= 1
                    /\ phase' \in {"idle", "preflight", "bind"} => Len(stack') = 1
                    /\ Depth' = Depth + Is(e, "STATEMENT_STARTED") - Is(e, "STATEMENT_COMPLETED")
  PROVE  CoreInv'
<1>1. trace \in Seq(Events)
  BY DEF CoreInv, TypesInv
<1>2. trace' \in Seq(Events) /\ EventsAt(Terminal)' = EventsAt(Terminal)
  BY <1>1, EventAdded
<1>3. TypesInv'
  BY <1>2 DEF CoreInv, TypesInv, Active
<1>4. /\ nStarted' = nStarted + Is(e, "TOOL_STARTED")
      /\ nEmitted' = nEmitted + Is(e, "EMIT_COMPLETED")
      /\ nChecked' = nChecked + Is(e, "CHECK_COMPLETED")
      /\ nOpened' = nOpened + Is(e, "STATEMENT_STARTED")
      /\ nClosed' = nClosed + Is(e, "STATEMENT_COMPLETED")
  BY <1>1, CountsAdded
<1>5. MeterInv'
  <2>1. nStarted = meter.tools /\ nEmitted = meter.rows /\ meter.loops <= skill.limits.loops
    BY DEF CoreInv, MeterInv
  <2>2. nStarted' = meter'.tools /\ nEmitted' = meter'.rows
    BY <1>4, <2>1
  <2>3. meter'.tools \in Nat /\ meter'.rows \in Nat
    OBVIOUS
  <2> QED BY <2>1, <2>2, <2>3 DEF MeterInv
<1>6. StoryInv'
  <2>1. /\ result = NoResult /\ EventsAt(Terminal) = {}
        /\ nChecked = Len(checks) /\ nOpened = nClosed + Depth
    BY DEF CoreInv, StoryInv, Active
  <2>2. {nOpened, nClosed} \subseteq Nat /\ Depth \in Int
    <3>1. Len(stack) \in Nat
      BY CoreTypes
    <3> QED BY <3>1, CoreTypes DEF Depth
  <2>3. nChecked' = Len(checks')
    BY <1>4, <2>1
  <2>4. Active' => nOpened' = nClosed' + Depth'
    <3> DEFINE o == Is(e, "STATEMENT_STARTED")
               c == Is(e, "STATEMENT_COMPLETED")
    <3>1. o \in Int /\ c \in Int
      BY DEF Is
    <3>2. ASSUME Active' PROVE nOpened' = nOpened + o /\ nClosed' = nClosed + c /\ Depth' = Depth + o - c
      BY <1>4, <3>2
    <3> HIDE DEF o, c
    <3> QED BY <2>1, <2>2, <3>1, <3>2
  <2> QED BY <1>2, <2>1, <2>3, <2>4 DEF StoryInv
<1> QED BY <1>3, <1>5, <1>6 DEF CoreInv

(* The event could not be recorded: what it counts for is in the meter and  *)
(* in the result of a run that fails.                                       *)
LEMMA RecordFails ==
  ASSUME CoreInv, Active, NEW e, trace' = trace, phase' = "failing", cause' \in Failures,
         data' \in Completenesses, UNCHANGED <<skill, result>>,
         meter' \in [tools : Nat, loops : Nat, rows : Nat],
         meter'.loops = meter.loops,
         meter'.tools = meter.tools + Is(e, "TOOL_STARTED"),
         meter'.rows = meter.rows + Is(e, "EMIT_COMPLETED"),
         meter'.tools <= skill.limits.tools, meter'.rows <= skill.limits.rows,
         IsSeq(outputs'), Len(outputs') = meter'.rows, IsSeq(checks')
  PROVE  CoreInv'
<1>1. TypesInv'
  BY DEF CoreInv, TypesInv, Active, Phases
<1>2. /\ {meter.tools, meter.rows} \subseteq Nat
      /\ nStarted = meter.tools /\ nEmitted = meter.rows /\ meter.loops <= skill.limits.loops
  BY CoreTypes DEF CoreInv, MeterInv
<1>3. MeterInv'
  BY <1>2, CountsSame DEF MeterInv, Is, Active
<1>4. StoryInv'
  BY CountsSame DEF CoreInv, StoryInv, Active
<1> QED BY <1>1, <1>3, <1>4 DEF CoreInv

LEMMA CombinedType ==
  /\ \A C : Combined(C) \in Completenesses
  /\ \A c : Observed(c) \in Completenesses
BY DEF Combined, Observed, Completenesses

LEMMA WithTopFacts ==
  ASSUME IsSeq(stack), Len(stack) >= 1, NEW f
  PROVE  /\ IsSeq(WithTop(f)) /\ Len(WithTop(f)) = Len(stack)
         /\ \A k \in 1 .. Len(stack) : WithTop(f)[k] = IF k = Len(stack) THEN f ELSE stack[k]
<1> DEFINE n == Len(stack)
           S == {stack[k] : k \in DOMAIN stack} \cup {f}
           t == [stack EXCEPT ![n] = f]
<1>1. n \in Nat /\ DOMAIN stack = 1 .. n
  BY SeqFacts
<1>2. stack \in [1 .. n -> S]
  BY <1>1 DEF IsSeq
<1>3. /\ t \in [1 .. n -> S]
      /\ \A k \in 1 .. n : t[k] = IF k = n THEN f ELSE stack[k]
  <2>1. f \in S
    OBVIOUS
  <2> HIDE DEF S, n
  <2> QED BY <1>2, <2>1
<1>4. t \in Seq(S) /\ Len(t) = n /\ DOMAIN t = 1 .. n
  <2> HIDE DEF S, n, t
  <2> QED BY <1>1, <1>3
<1>5. IsSeq(t)
  <2> HIDE DEF S, n, t
  <2> QED BY <1>4 DEF IsSeq
<1> HIDE DEF n
<1> QED BY <1>3, <1>4, <1>5 DEF WithTop, n

LEMMA CoreInit == RuntimeInit => CoreInv
<1> SUFFICES ASSUME RuntimeInit PROVE CoreInv
  OBVIOUS
<1> USE DEF RuntimeInit
<1>1. TypesInv
  <2>1. IsSeq(checks) /\ IsSeq(outputs) /\ trace \in Seq(Events)
    BY DEF IsSeq
  <2>2. IsSeq(stack) /\ Len(stack) = 1
    BY DEF IsSeq
  <2> QED BY <2>1, <2>2 DEF TypesInv, Phases, Failures, Statuses, Completenesses
<1>2. \A T : EventsAt(T) = {}
  BY DEF EventsAt
<1>3. nStarted = 0 /\ nEmitted = 0 /\ nChecked = 0 /\ nOpened = 0 /\ nClosed = 0
  BY <1>2, FS_EmptySet DEF nStarted, nEmitted, nChecked, nOpened, nClosed, Count
<1>4. MeterInv
  <2>1. {skill.limits.tools, skill.limits.loops, skill.limits.rows} \subseteq Nat
    BY LimitTypes
  <2> QED BY <1>3, <2>1 DEF MeterInv
<1>5. StoryInv
  BY <1>2, <1>3 DEF StoryInv, Depth
<1> QED BY <1>1, <1>4, <1>5 DEF CoreInv

(* What the steps of the engine start from. *)
LEMMA ActiveFacts ==
  ASSUME CoreInv, Active
  PROVE  /\ IsSeq(stack) /\ Len(stack) >= 1 /\ Len(stack) \in Nat
         /\ skill \in Skills /\ cause \in Failures /\ data \in Completenesses
         /\ trace \in Seq(Events) /\ IsSeq(checks) /\ IsSeq(outputs)
         /\ meter \in [tools : Nat, loops : Nat, rows : Nat]
         /\ meter.loops <= skill.limits.loops /\ meter.tools <= skill.limits.tools
         /\ meter.rows = Len(outputs) /\ meter.rows <= skill.limits.rows
         /\ phase \in {"idle", "preflight", "bind"} => Len(stack) = 1
         /\ result = NoResult
BY SeqFacts DEF CoreInv, TypesInv, MeterInv, StoryInv, Active

(* An event that only the trail counts. *)
LEMMA Marks ==
  ASSUME CoreInv, Active, NEW e \in Events,
         e.type \notin Terminal \cup {"TOOL_STARTED", "EMIT_COMPLETED", "CHECK_COMPLETED"},
         trace' = Append(trace, e), phase' \in Phases, phase' # "done", cause' \in Failures,
         data' \in Completenesses, UNCHANGED <<skill, result, meter, outputs, checks>>,
         Active' => /\ IsSeq(stack') /\ Len(stack') >= 1
                    /\ phase' \in {"idle", "preflight", "bind"} => Len(stack') = 1
                    /\ Depth' = Depth + Is(e, "STATEMENT_STARTED") - Is(e, "STATEMENT_COMPLETED")
  PROVE  CoreInv'
<1>1. /\ Is(e, "TOOL_STARTED") = 0 /\ Is(e, "EMIT_COMPLETED") = 0
      /\ Is(e, "CHECK_COMPLETED") = 0
  BY DEF Is
<1>2. {meter.tools, meter.loops, meter.rows, Len(checks)} \subseteq Nat
  BY CoreTypes
<1>3. /\ meter.tools = meter.tools + 0 /\ meter.rows = meter.rows + 0
      /\ Len(checks) = Len(checks) + 0
  BY <1>2
<1> QED BY <1>1, <1>3, ActiveFacts, Records

----------------------------------------------------------------------------
(* The meter and the story: the steps *)

LEMMA CoreStart ==
  ASSUME CoreInv, Authorize \/ PreflightFails \/ Preflight \/ BindInputs
  PROVE  CoreInv'
<1>1. CASE Authorize
  <2>1. Active /\ Active' /\ Depth' = Depth /\ phase' \in Phases
    BY <1>1 DEF Authorize, Active, Depth, Phases
  <2> QED BY <1>1, <2>1, ActiveFacts, Goes DEF Authorize
<1>2. CASE PreflightFails
  BY <1>2, ActiveFacts, Fails DEF PreflightFails, Raises, Active, Failures, Statuses
<1>3. CASE Preflight /\ phase' = "failing" /\ trace' = trace
  BY <1>3, ActiveFacts, Fails DEF Preflight, Emits, Raises, Active, Failures, Statuses
<1>4. CASE Preflight /\ phase' = "bind" /\ trace' = Append(trace, Event("EXECUTION_STARTED"))
  <2> DEFINE e == Event("EXECUTION_STARTED")
  <2>1. e \in Events /\ e.type = "EXECUTION_STARTED"
    BY EventTypes0 DEF EventTypes
  <2> HIDE DEF e
  <2>2. /\ Active /\ phase' \in Phases /\ cause' = cause
        /\ UNCHANGED <<skill, stack, meter, data, checks, outputs, result>>
        /\ trace' = Append(trace, e)
    BY <1>4 DEF Preflight, Active, Emits, Raises, Phases, e
  <2>3. Depth' = 0 /\ Depth = 0
    BY <1>4 DEF Depth, Preflight
  <2>4. Depth' = Depth + Is(e, "STATEMENT_STARTED") - Is(e, "STATEMENT_COMPLETED")
    BY <2>1, <2>3 DEF Is
  <2>5. Len(stack) = 1
    BY <1>4, <2>2, ActiveFacts DEF Preflight
  <2> QED BY <1>4, <2>1, <2>2, <2>4, <2>5, ActiveFacts, Marks DEF Terminal
<1>5. CASE BindInputs /\ phase' = "failing"
  BY <1>5, ActiveFacts, Fails DEF BindInputs, Raises, Active, Failures, Statuses
<1>6. CASE BindInputs /\ phase' = "block"
  <2>1. Active /\ Active' /\ phase' \in Phases /\ UNCHANGED <<skill, meter, data, checks, outputs, trace, cause, result>>
    BY <1>6 DEF BindInputs, Active, Phases, Raises
  <2>2. Len(stack) = 1
    BY <1>6, <2>1, ActiveFacts DEF BindInputs
  <2>3. IsSeq(stack') /\ Len(stack') = Len(stack)
    BY <1>6, <2>1, ActiveFacts, WithTopFacts DEF BindInputs, Raises
  <2>4. Depth' = Depth
    BY <1>6, <2>2, <2>3 DEF Depth, BindInputs
  <2> QED BY <1>6, <2>1, <2>2, <2>3, <2>4, ActiveFacts, Goes
<1>7. Preflight => \/ phase' = "failing" /\ trace' = trace
                   \/ phase' = "bind" /\ trace' = Append(trace, Event("EXECUTION_STARTED"))
  BY DEF Preflight, Emits, Raises
<1>8. BindInputs => phase' \in {"failing", "block"}
  BY DEF BindInputs, Raises
<1> QED BY <1>1, <1>2, <1>3, <1>4, <1>5, <1>6, <1>7, <1>8

LEMMA CoreStatement ==
  ASSUME CoreInv, BeginStatement \/ EndStatement \/ EvaluationFails \/ ExecuteLet
  PROVE  CoreInv'
<1>1. CASE BeginStatement /\ phase' = "failing" /\ trace' = trace
  BY <1>1, ActiveFacts, Fails DEF BeginStatement, Emits, Raises, Active, Failures, Statuses
<1>2. CASE BeginStatement /\ phase' = "stmt" /\ trace' = Append(trace, Event("STATEMENT_STARTED"))
  <2> DEFINE e == Event("STATEMENT_STARTED")
  <2>1. e \in Events /\ e.type = "STATEMENT_STARTED"
    BY EventTypes0 DEF EventTypes
  <2> HIDE DEF e
  <2>2. /\ Active /\ phase' \in Phases /\ cause' = cause
        /\ UNCHANGED <<skill, stack, meter, data, checks, outputs, result>>
        /\ trace' = Append(trace, e)
    BY <1>2 DEF BeginStatement, Active, Emits, Raises, Phases, e
  <2>3. Depth' = Len(stack) /\ Depth = Len(stack) - 1
    BY <1>2, <2>2 DEF Depth, BeginStatement
  <2>4. Depth' = Depth + Is(e, "STATEMENT_STARTED") - Is(e, "STATEMENT_COMPLETED")
    BY <2>1, <2>2, <2>3, ActiveFacts DEF Is
  <2> QED BY <1>2, <2>1, <2>2, <2>4, ActiveFacts, Marks DEF Terminal
<1>3. CASE EndStatement /\ phase' = "failing" /\ trace' = trace
  BY <1>3, ActiveFacts, Fails DEF EndStatement, Emits, Raises, Active, Failures, Statuses
<1>4. CASE EndStatement /\ phase' = "block" /\ trace' = Append(trace, Event("STATEMENT_COMPLETED"))
  <2> DEFINE e == Event("STATEMENT_COMPLETED")
  <2>1. e \in Events /\ e.type = "STATEMENT_COMPLETED"
    BY EventTypes0 DEF EventTypes
  <2> HIDE DEF e
  <2>2. /\ Active /\ phase' \in Phases /\ cause' = cause
        /\ UNCHANGED <<skill, meter, data, checks, outputs, result>>
        /\ trace' = Append(trace, e)
    BY <1>4 DEF EndStatement, Active, Emits, Raises, Phases, e
  <2>3. IsSeq(stack') /\ Len(stack') = Len(stack)
    BY <1>4, <2>2, ActiveFacts, WithTopFacts DEF EndStatement
  <2>4. Depth' = Len(stack) - 1 /\ Depth = Len(stack)
    BY <1>4, <2>3 DEF Depth, EndStatement
  <2>5. Depth' = Depth + Is(e, "STATEMENT_STARTED") - Is(e, "STATEMENT_COMPLETED")
    BY <2>1, <2>2, <2>4, ActiveFacts DEF Is
  <2> QED BY <1>4, <2>1, <2>2, <2>3, <2>5, ActiveFacts, Marks DEF Terminal
<1>5. CASE EvaluationFails
  BY <1>5, ActiveFacts, Fails DEF EvaluationFails, Raises, Active, Failures, Statuses
<1>6. CASE ExecuteLet /\ phase' = "failing"
  <2>1. data' \in Completenesses
    BY <1>6, CombinedType DEF ExecuteLet
  <2> QED BY <1>6, <2>1, ActiveFacts, Fails DEF ExecuteLet, AtStatement, Raises, Active, Failures, Statuses
<1>7. CASE ExecuteLet /\ phase' = "after"
  <2>1. /\ Active /\ Active' /\ phase' \in Phases
        /\ UNCHANGED <<skill, meter, checks, outputs, trace, cause, result>>
        /\ stack' = Bind(Statement.target, Computed(Statement.uses))
    BY <1>7 DEF ExecuteLet, AtStatement, Active, Phases, Raises
  <2>2. data' \in Completenesses
    BY <1>7, CombinedType DEF ExecuteLet
  <2>3. IsSeq(stack') /\ Len(stack') = Len(stack)
    BY <2>1, ActiveFacts, WithTopFacts DEF Bind
  <2>4. Depth' = Depth
    BY <1>7, <2>3 DEF Depth, ExecuteLet, AtStatement
  <2> QED BY <1>7, <2>1, <2>2, <2>3, <2>4, ActiveFacts, Goes
<1>8. BeginStatement => \/ phase' = "failing" /\ trace' = trace
                        \/ phase' = "stmt" /\ trace' = Append(trace, Event("STATEMENT_STARTED"))
  BY DEF BeginStatement, Emits, Raises
<1>9. EndStatement => \/ phase' = "failing" /\ trace' = trace
                      \/ phase' = "block" /\ trace' = Append(trace, Event("STATEMENT_COMPLETED"))
  BY DEF EndStatement, Emits, Raises
<1>10. ExecuteLet => phase' \in {"failing", "after"}
  BY DEF ExecuteLet, Raises
<1> QED BY <1>1, <1>2, <1>3, <1>4, <1>5, <1>6, <1>7, <1>8, <1>9, <1>10

LEMMA CoreCheck ==
  ASSUME CoreInv, NEW truth \in BOOLEAN, ExecuteCheck(truth)
  PROVE  CoreInv'
<1> DEFINE v == Computed(Statement.uses)
           c == [id |-> Statement.target, status |-> CheckStatus(truth, v.completeness),
                 refs |-> v.refs]
           e == Event("CHECK_COMPLETED")
<1>1. e \in Events /\ e.type = "CHECK_COMPLETED"
  BY EventTypes0 DEF EventTypes
<1>2. /\ Active /\ phase = "stmt" /\ checks' = Append(checks, c) /\ data' = Observed(v.completeness)
      /\ UNCHANGED <<skill, meter, outputs, result>>
      /\ \/ stack' = Bind(Statement.target, [Complete0 EXCEPT !.refs = v.refs]) /\ Emits(e, "after")
         \/ Raises("FAILED") /\ UNCHANGED <<stack, trace, faults>>
  BY DEF ExecuteCheck, AtStatement, Active
<1> HIDE DEF v, c, e
<1>3. IsSeq(checks') /\ Len(checks') = Len(checks) + 1 /\ data' \in Completenesses
  BY <1>2, ActiveFacts, AppendFacts, CombinedType
<1>4. /\ Is(e, "TOOL_STARTED") = 0 /\ Is(e, "EMIT_COMPLETED") = 0 /\ Is(e, "CHECK_COMPLETED") = 1
      /\ Is(e, "STATEMENT_STARTED") = 0 /\ Is(e, "STATEMENT_COMPLETED") = 0
  BY <1>1 DEF Is
<1>5. /\ {meter.tools, meter.rows} \subseteq Nat
      /\ meter.tools = meter.tools + 0 /\ meter.rows = meter.rows + 0
  BY <1>2, CoreTypes
<1>6. CASE phase' = "failing" /\ trace' = trace
  <2>1. cause' \in Failures
    BY <1>2, <1>6, ActiveFacts DEF Emits, Raises, Failures, Statuses
  <2> QED BY <1>2, <1>3, <1>4, <1>5, <1>6, <2>1, ActiveFacts, RecordFails
<1>7. CASE /\ stack' = Bind(Statement.target, [Complete0 EXCEPT !.refs = v.refs])
           /\ phase' = "after" /\ trace' = Append(trace, e) /\ cause' = cause
  <2>1. IsSeq(stack') /\ Len(stack') = Len(stack) /\ Len(stack) \in Nat
    BY <1>2, <1>7, ActiveFacts, WithTopFacts DEF Bind
  <2>2. Depth' = Depth + 0 - 0
    BY <1>2, <1>7, <2>1 DEF Depth
  <2>3. phase' \in Phases /\ phase' # "done" /\ e.type \notin Terminal
    BY <1>1, <1>7 DEF Phases, Terminal
  <2> QED BY <1>1, <1>2, <1>3, <1>4, <1>5, <1>7, <2>1, <2>2, <2>3, ActiveFacts, Records
<1>8. \/ phase' = "failing" /\ trace' = trace
      \/ /\ stack' = Bind(Statement.target, [Complete0 EXCEPT !.refs = v.refs])
         /\ phase' = "after" /\ trace' = Append(trace, e) /\ cause' = cause
  BY <1>2 DEF Emits, Raises
<1> QED BY <1>6, <1>7, <1>8

LEMMA CoreEmit ==
  ASSUME CoreInv, ExecuteEmit
  PROVE  CoreInv'
<1> DEFINE e == Event("EMIT_COMPLETED")
           refs == Computed(Statement.uses).refs
<1>1. e \in Events /\ e.type = "EMIT_COMPLETED"
  BY EventTypes0 DEF EventTypes
<1>2. /\ Active /\ phase = "stmt"
      /\ UNCHANGED <<skill, stack, checks, result>>
  BY DEF ExecuteEmit, AtStatement, Active
<1>3. CASE Raises("LIMIT_EXCEEDED") /\ UNCHANGED <<data, outputs, meter, trace, faults>>
  BY <1>2, <1>3, ActiveFacts, Fails DEF Raises, Failures, Statuses
<1>4. CASE /\ meter.rows < skill.limits.rows
           /\ data' = Observed(Computed(Statement.uses).completeness)
           /\ outputs' = Append(outputs, refs)
           /\ meter' = [meter EXCEPT !.rows = @ + 1]
           /\ Emits(e, "after")
  <2> HIDE DEF refs, e
  <2>1. IsSeq(outputs') /\ Len(outputs') = Len(outputs) + 1 /\ data' \in Completenesses
    BY <1>2, <1>4, ActiveFacts, AppendFacts, CombinedType
  <2>2. /\ Is(e, "TOOL_STARTED") = 0 /\ Is(e, "EMIT_COMPLETED") = 1 /\ Is(e, "CHECK_COMPLETED") = 0
        /\ Is(e, "STATEMENT_STARTED") = 0 /\ Is(e, "STATEMENT_COMPLETED") = 0
    BY <1>1 DEF Is
  <2>3. /\ {meter.tools, meter.rows, skill.limits.rows, Len(checks), Len(stack)} \subseteq Nat
        /\ meter.tools = meter.tools + 0 /\ Len(checks) = Len(checks) + 0
    BY <1>2, CoreTypes
  <2>4. /\ meter' \in [tools : Nat, loops : Nat, rows : Nat]
        /\ meter'.tools = meter.tools /\ meter'.loops = meter.loops
        /\ meter'.rows = meter.rows + 1 /\ meter'.rows <= skill.limits.rows
    BY <1>2, <1>4, <2>3, ActiveFacts
  <2>5. CASE phase' = "failing" /\ trace' = trace /\ cause' = "FAILED"
    BY <1>2, <2>1, <2>2, <2>3, <2>4, <2>5, ActiveFacts, RecordFails DEF Failures, Statuses
  <2>6. CASE phase' = "after" /\ trace' = Append(trace, e) /\ cause' = cause
    <3>1. Depth' = Depth + 0 - 0
      BY <1>2, <2>3, <2>6 DEF Depth
    <3>2. phase' \in Phases /\ phase' # "done" /\ e.type \notin Terminal
      BY <1>1, <2>6 DEF Phases, Terminal
    <3> QED BY <1>1, <1>2, <2>1, <2>2, <2>3, <2>4, <2>6, <3>1, <3>2, ActiveFacts, Records
  <2> QED BY <1>4, <2>5, <2>6 DEF Emits, Raises
<1> QED BY <1>3, <1>4 DEF ExecuteEmit

LEMMA CoreForeach ==
  ASSUME CoreInv, BeginForeach \/ EndForeach
  PROVE  CoreInv'
<1>1. CASE BeginForeach
  <2>1. /\ Active /\ phase = "stmt"
        /\ UNCHANGED <<skill, meter, checks, outputs, trace, result>>
        /\ data' = data \/ data' = Observed(Computed(Statement.uses).completeness)
        /\ \/ Raises("LIMIT_EXCEEDED") /\ UNCHANGED stack
           \/ /\ stack' = WithTop([Top EXCEPT !.left = Resolve(Statement.over).size])
              /\ phase' = "loop" /\ UNCHANGED cause
    BY <1>1 DEF BeginForeach, AtStatement, Active
  <2>2. data' \in Completenesses
    BY <2>1, ActiveFacts, CombinedType
  <2>3. CASE Raises("LIMIT_EXCEEDED")
    BY <2>1, <2>2, <2>3, ActiveFacts, Fails DEF Raises, Failures, Statuses
  <2>4. CASE /\ stack' = WithTop([Top EXCEPT !.left = Resolve(Statement.over).size])
             /\ phase' = "loop" /\ UNCHANGED cause
    <3>1. IsSeq(stack') /\ Len(stack') = Len(stack)
      BY <2>1, <2>4, ActiveFacts, WithTopFacts
    <3>2. Depth' = Depth /\ Active' /\ phase' \in Phases
      BY <2>1, <2>4, <3>1 DEF Depth, Active, Phases
    <3> QED BY <2>1, <2>2, <2>4, <3>1, <3>2, ActiveFacts, Goes
  <2> QED BY <2>1, <2>3, <2>4
<1>2. CASE EndForeach
  <2>1. Active /\ Active' /\ Depth' = Depth /\ phase' \in Phases /\ phase' = "after"
    BY <1>2 DEF EndForeach, Active, Depth, Phases
  <2> QED BY <1>2, <2>1, ActiveFacts, Goes DEF EndForeach
<1> QED BY <1>1, <1>2

(* A pushed frame and a popped one. *)
LEMMA PopFacts ==
  ASSUME NEW s, IsSeq(s), Len(s) > 1
  PROVE  LET t == SubSeq(s, 1, Len(s) - 1)
         IN  /\ IsSeq(t) /\ Len(t) = Len(s) - 1
             /\ \A k \in 1 .. Len(s) - 1 : t[k] = s[k]
<1> DEFINE S == {s[k] : k \in DOMAIN s}
           n == Len(s)
           t == SubSeq(s, 1, n - 1)
<1>1. s \in Seq(S) /\ n \in Nat
  BY DEF IsSeq
<1>2. t \in Seq(S) /\ Len(t) = n - 1 /\ \A k \in 1 .. n - 1 : t[k] = s[k]
  <2> HIDE DEF S
  <2> QED BY <1>1
<1>3. IsSeq(t)
  <2> HIDE DEF S, t
  <2> QED BY <1>2 DEF IsSeq
<1> QED BY <1>2, <1>3

LEMMA CoreIteration ==
  ASSUME CoreInv, BeginIteration \/ EndIteration
  PROVE  CoreInv'
<1>1. CASE BeginIteration
  <2> DEFINE f == Frame(Statement.block,
                        [s \in {Statement.target} |-> [Computed(Statement.uses) EXCEPT !.size = 0]])
             g == [Top EXCEPT !.left = @ - 1]
  <2>1. /\ Active /\ phase = "loop"
        /\ UNCHANGED <<skill, data, checks, outputs, trace, result>>
    BY <1>1 DEF BeginIteration, Active
  <2>2. CASE Raises("LIMIT_EXCEEDED") /\ UNCHANGED <<meter, stack>>
    BY <2>1, <2>2, ActiveFacts, Fails DEF Raises, Failures, Statuses
  <2>3. CASE /\ meter.loops < skill.limits.loops
             /\ meter' = [meter EXCEPT !.loops = @ + 1]
             /\ \/ stack' = Append(WithTop(g), f) /\ phase' = "block" /\ UNCHANGED cause
                \/ Raises("FAILED") /\ UNCHANGED stack
    <3> HIDE DEF f, g
    <3>1. /\ {meter.loops, skill.limits.loops, Len(stack), meter.tools, meter.rows} \subseteq Nat
      BY <2>1, CoreTypes
    <3>2. /\ meter' \in [tools : Nat, loops : Nat, rows : Nat]
          /\ meter'.tools = meter.tools /\ meter'.rows = meter.rows
          /\ meter'.loops <= skill.limits.loops
      BY <2>1, <2>3, <3>1, ActiveFacts
    <3>3. CASE stack' = Append(WithTop(g), f) /\ phase' = "block" /\ UNCHANGED cause
      <4>1. IsSeq(WithTop(g)) /\ Len(WithTop(g)) = Len(stack)
        BY <2>1, ActiveFacts, WithTopFacts
      <4>2. IsSeq(stack') /\ Len(stack') = Len(stack) + 1
        BY <3>3, <4>1, AppendFacts
      <4>3. Depth' = Depth /\ Active' /\ phase' \in Phases /\ Len(stack') >= 1
        BY <2>1, <3>1, <3>3, <4>2 DEF Depth, Active, Phases
      <4> QED BY <2>1, <3>2, <3>3, <4>2, <4>3, ActiveFacts, Goes
    <3>4. CASE Raises("FAILED") /\ UNCHANGED stack
      <4>1. TypesInv'
        BY <2>1, <3>2, <3>4 DEF CoreInv, TypesInv, Raises, Active, Phases, Failures, Statuses
      <4>2. MeterInv'
        BY <2>1, <3>2, <3>4, CountsSame DEF CoreInv, MeterInv, Active, Raises
      <4>3. StoryInv'
        BY <2>1, <3>4, CountsSame DEF CoreInv, StoryInv, Active, Raises
      <4> QED BY <4>1, <4>2, <4>3 DEF CoreInv
    <3> QED BY <2>3, <3>3, <3>4
  <2>4. meter.loops < skill.limits.loops <=> ~(meter.loops >= skill.limits.loops)
    BY <2>1, CoreTypes
  <2> QED BY <1>1, <2>2, <2>3, <2>4 DEF BeginIteration
<1>2. CASE EndIteration
  <2>1. /\ Active /\ Active' /\ phase = "block" /\ phase' = "loop" /\ phase' \in Phases
        /\ UNCHANGED <<skill, meter, data, checks, outputs, trace, cause, result>>
        /\ Len(stack) > 1 /\ stack' = SubSeq(stack, 1, Len(stack) - 1)
    BY <1>2 DEF EndIteration, Active, Phases
  <2>2. IsSeq(stack') /\ Len(stack') = Len(stack) - 1 /\ Len(stack) \in Nat
    BY <2>1, ActiveFacts, PopFacts
  <2>3. Depth' = Depth /\ Len(stack') >= 1
    BY <2>1, <2>2 DEF Depth
  <2> QED BY <2>1, <2>2, <2>3, ActiveFacts, Goes
<1> QED BY <1>1, <1>2

(* An event of the call that fails the run, recorded or not. *)
LEMMA CallRaises ==
  ASSUME CoreInv, Active, NEW e \in Events, e.type \in {"TOOL_COMPLETED", "TOOL_FAILED"},
         NEW c \in Failures, EmitsThenRaises(e, c), data' \in Completenesses,
         UNCHANGED <<skill, meter, checks, outputs, result>>
  PROVE  CoreInv'
<1>1. phase' = "failing" /\ cause' \in Failures /\ ~Active' /\ phase' \in Phases
  BY DEF EmitsThenRaises, Raises, Failures, Statuses, Active, Phases
<1>2. CASE trace' = trace
  BY <1>1, <1>2, Fails
<1>3. CASE trace' = Append(trace, e)
  <2>1. e.type \notin Terminal \cup {"TOOL_STARTED", "EMIT_COMPLETED", "CHECK_COMPLETED"}
    BY DEF Terminal
  <2> QED BY <1>1, <1>3, <2>1, Marks
<1> QED BY <1>2, <1>3 DEF EmitsThenRaises

LEMMA CoreStartRead ==
  ASSUME CoreInv, StartRead
  PROVE  CoreInv'
<1> DEFINE e == CallEvent("TOOL_STARTED", meter.tools + 1)
<1>1. /\ Active /\ phase = "stmt" /\ UNCHANGED <<skill, stack, checks, outputs, result>>
      /\ data' = data \/ data' = Observed(Computed(Statement.uses).completeness)
  BY DEF StartRead, AtStatement, Active
<1>2. data' \in Completenesses
  BY <1>1, ActiveFacts, CombinedType
<1>3. CASE (\E c \in Failures : Raises(c)) /\ UNCHANGED <<meter, trace>>
  BY <1>1, <1>2, <1>3, Fails DEF Raises
<1>4. CASE /\ meter.tools < skill.limits.tools
           /\ meter' = [meter EXCEPT !.tools = @ + 1]
           /\ Emits(e, "call")
  <2>1. /\ {meter.tools, meter.rows, skill.limits.tools, Len(checks), Len(stack)} \subseteq Nat
        /\ meter.rows = meter.rows + 0 /\ Len(checks) = Len(checks) + 0
    BY <1>1, CoreTypes
  <2>2. e \in Events /\ e.type = "TOOL_STARTED"
    <3>1. meter.tools + 1 \in Nat
      BY <2>1
    <3> QED BY <3>1, EventTypes0 DEF EventTypes
  <2> HIDE DEF e
  <2>3. /\ Is(e, "TOOL_STARTED") = 1 /\ Is(e, "EMIT_COMPLETED") = 0 /\ Is(e, "CHECK_COMPLETED") = 0
        /\ Is(e, "STATEMENT_STARTED") = 0 /\ Is(e, "STATEMENT_COMPLETED") = 0
    BY <2>2 DEF Is
  <2>4. /\ meter' \in [tools : Nat, loops : Nat, rows : Nat]
        /\ meter'.rows = meter.rows /\ meter'.loops = meter.loops
        /\ meter'.tools = meter.tools + 1 /\ meter'.tools <= skill.limits.tools
    BY <1>1, <1>4, <2>1, ActiveFacts
  <2>5. CASE phase' = "failing" /\ trace' = trace /\ cause' = "FAILED"
    BY <1>1, <1>2, <2>1, <2>3, <2>4, <2>5, ActiveFacts, RecordFails DEF Failures, Statuses
  <2>6. CASE phase' = "call" /\ trace' = Append(trace, e) /\ cause' = cause
    <3>1. Depth' = Depth + 0 - 0
      BY <1>1, <2>1, <2>6 DEF Depth
    <3>2. phase' \in Phases /\ phase' # "done" /\ e.type \notin Terminal
      BY <2>2, <2>6 DEF Phases, Terminal
    <3> QED BY <1>1, <1>2, <2>1, <2>2, <2>3, <2>4, <2>6, <3>1, <3>2, ActiveFacts, Records
  <2> QED BY <1>4, <2>5, <2>6 DEF Emits, Raises
<1> QED BY <1>3, <1>4 DEF StartRead, Failures, Statuses

LEMMA CoreCallTool ==
  ASSUME CoreInv, CallTool
  PROVE  CoreInv'
<1>1. /\ Active /\ phase = "call"
      /\ UNCHANGED <<skill, stack, meter, data, checks, outputs, trace, result>>
      /\ \/ phase' = "waiting" /\ UNCHANGED cause
         \/ Raises("LIMIT_EXCEEDED")
  BY DEF CallTool, Active
<1>2. CASE Raises("LIMIT_EXCEEDED")
  BY <1>1, <1>2, ActiveFacts, Fails DEF Raises, Failures, Statuses
<1>3. CASE phase' = "waiting" /\ UNCHANGED cause
  <2>1. Depth' = Depth /\ Active' /\ phase' \in Phases
    BY <1>1, <1>3 DEF Depth, Active, Phases
  <2> QED BY <1>1, <1>3, <2>1, ActiveFacts, Goes
<1> QED BY <1>1, <1>2, <1>3

(* The event of a call that returns. *)
ReturnEvent(r) == [CallEvent("TOOL_COMPLETED", Invocation) EXCEPT !.completeness = r.completeness]

LEMMA ReturnEvents ==
  ASSUME CoreInv
  PROVE  /\ \A r \in Results :
              /\ ReturnEvent(r) \in Events /\ ReturnEvent(r).type = "TOOL_COMPLETED"
              /\ ReturnEvent(r).call = meter.tools
              /\ ReturnEvent(r).completeness = r.completeness
         /\ CallEvent("TOOL_FAILED", Invocation) \in Events
         /\ CallEvent("TOOL_FAILED", Invocation).type = "TOOL_FAILED"
         /\ CallEvent("TOOL_FAILED", Invocation).call = meter.tools
<1>1. meter.tools \in Nat
  BY CoreTypes
<1>2. ASSUME NEW r \in Results
      PROVE  /\ ReturnEvent(r) \in Events /\ ReturnEvent(r).type = "TOOL_COMPLETED"
             /\ ReturnEvent(r).call = meter.tools
             /\ ReturnEvent(r).completeness = r.completeness
  <2> DEFINE e == CallEvent("TOOL_COMPLETED", meter.tools)
  <2>1. e \in Events /\ e.type = "TOOL_COMPLETED" /\ e.call = meter.tools
    BY <1>1, EventTypes0 DEF EventTypes
  <2>2. r.completeness \in Completenesses
    BY RuntimeAssumption
  <2> HIDE DEF e
  <2>3. ReturnEvent(r) = [e EXCEPT !.completeness = r.completeness]
    BY DEF ReturnEvent, Invocation, e
  <2> QED BY <2>1, <2>2, <2>3 DEF Events
<1>3. /\ CallEvent("TOOL_FAILED", Invocation) \in Events
      /\ CallEvent("TOOL_FAILED", Invocation).type = "TOOL_FAILED"
      /\ CallEvent("TOOL_FAILED", Invocation).call = meter.tools
  BY <1>1, EventTypes0 DEF EventTypes, Invocation
<1> QED BY <1>2, <1>3

LEMMA CoreReturns ==
  ASSUME CoreInv, NEW r \in Results, ToolReturns(r)
  PROVE  CoreInv'
<1> DEFINE v == [completeness |-> r.completeness, size |-> r.size, refs |-> {Invocation}]
           f == CallEvent("TOOL_FAILED", Invocation)
           e == ReturnEvent(r)
<1>1. /\ f \in Events /\ f.type = "TOOL_FAILED"
      /\ e \in Events /\ e.type = "TOOL_COMPLETED"
  BY ReturnEvents
<1>2. /\ Active /\ phase = "waiting" /\ UNCHANGED <<skill, meter, checks, outputs, result>>
      /\ data' = data \/ data' = Observed(r.completeness)
      /\ \/ EmitsThenRaises(f, "LIMIT_EXCEEDED")
         \/ EmitsThenRaises(e, "LIMIT_EXCEEDED")
         \/ EmitsThenRaises(e, "FAILED")
         \/ stack' = Bind(Statement.target, v) /\ Emits(e, "after")
  BY DEF ToolReturns, Active, ReturnEvent
<1> HIDE DEF v, f, e
<1>3. data' \in Completenesses
  BY <1>2, ActiveFacts, CombinedType
<1>4. CASE EmitsThenRaises(f, "LIMIT_EXCEEDED")
  BY <1>1, <1>2, <1>3, <1>4, CallRaises DEF Failures, Statuses
<1>5. CASE EmitsThenRaises(e, "LIMIT_EXCEEDED")
  BY <1>1, <1>2, <1>3, <1>5, CallRaises DEF Failures, Statuses
<1>6. CASE EmitsThenRaises(e, "FAILED")
  BY <1>1, <1>2, <1>3, <1>6, CallRaises DEF Failures, Statuses
<1>7. CASE stack' = Bind(Statement.target, v) /\ Emits(e, "after")
  <2>1. CASE phase' = "failing" /\ trace' = trace /\ cause' = "FAILED"
    BY <1>2, <1>3, <2>1, Fails DEF Failures, Statuses
  <2>2. CASE phase' = "after" /\ trace' = Append(trace, e) /\ cause' = cause
    <3>1. IsSeq(stack') /\ Len(stack') = Len(stack) /\ Len(stack) \in Nat
      BY <1>2, <1>7, ActiveFacts, WithTopFacts DEF Bind
    <3>2. Depth' = Depth + Is(e, "STATEMENT_STARTED") - Is(e, "STATEMENT_COMPLETED")
      BY <1>1, <1>2, <2>2, <3>1 DEF Depth, Is
    <3>3. /\ phase' \in Phases /\ phase' # "done"
          /\ e.type \notin Terminal \cup {"TOOL_STARTED", "EMIT_COMPLETED", "CHECK_COMPLETED"}
      BY <1>1, <2>2 DEF Phases, Terminal
    <3> QED BY <1>1, <1>2, <1>3, <2>2, <3>1, <3>2, <3>3, ActiveFacts, Marks
  <2> QED BY <1>7, <2>1, <2>2 DEF Emits, Raises
<1> QED BY <1>2, <1>4, <1>5, <1>6, <1>7

LEMMA CoreCallEnds ==
  ASSUME CoreInv, ToolTimesOut \/ ContractBroken \/ ToolFails
  PROVE  CoreInv'
<1> DEFINE f == CallEvent("TOOL_FAILED", Invocation)
<1>1. f \in Events /\ f.type = "TOOL_FAILED"
  BY ReturnEvents
<1>2. /\ Active /\ UNCHANGED <<skill, meter, data, checks, outputs, result>>
      /\ \E c \in Failures : EmitsThenRaises(f, c)
  BY DEF ToolTimesOut, ContractBroken, ToolFails, Active, Failures, Statuses
<1> HIDE DEF f
<1> QED BY <1>1, <1>2, ActiveFacts, CallRaises

(* The end of a run: the last event and the result agree. *)
LEMMA Concludes ==
  ASSUME CoreInv, phase # "done", phase' = "done", result' \in ExecutionResults,
         UNCHANGED <<skill, meter, checks, outputs, data>>, cause' \in Failures,
         \/ trace' = trace /\ result'.status = "RAISED"
         \/ /\ \E e \in Events : /\ e.type \in {"EXECUTION_FAILED", "EXECUTION_REJECTED"}
                                 /\ trace' = Append(trace, e)
            /\ result'.status # "COMPLETED"
         \/ /\ \E e \in Events : e.type = "EXECUTION_COMPLETED" /\ trace' = Append(trace, e)
            /\ result'.status = "COMPLETED"
            /\ Active /\ nOpened = nClosed
  PROVE  CoreInv'
<1>1. /\ trace \in Seq(Events) /\ EventsAt(Terminal) = {} /\ Len(trace) \in Nat
      /\ \A type \in Terminal : EventsAt({type}) = {}
  <2>1. trace \in Seq(Events) /\ EventsAt(Terminal) = {}
    BY DEF CoreInv, TypesInv, StoryInv
  <2> QED BY <2>1 DEF EventsAt
<1>2. result' # NoResult
  BY RuntimeAssumption
<1>3. CASE trace' = trace /\ result'.status = "RAISED"
  <2>1. ResultMatchesTrace'
    <3>1. EventsAt(Terminal)' = {} /\ EventsAt({"EXECUTION_COMPLETED"})' = {}
      BY <1>1, <1>3, CountsSame DEF Terminal
    <3>2. \A status \in Statuses : ~Ended(status)'
      BY <1>3 DEF Ended, Statuses
    <3> QED BY <3>1, <3>2 DEF ResultMatchesTrace, Statuses
  <2>2. TypesInv'
    BY <1>3 DEF CoreInv, TypesInv, Phases, Active
  <2>3. MeterInv'
    BY <1>3, CountsSame DEF CoreInv, MeterInv, Active
  <2> QED BY <2>1, <2>2, <2>3 DEF CoreInv, StoryInv, Active
<1>4. ASSUME NEW e \in Events, e.type \in Terminal, trace' = Append(trace, e)
      PROVE  /\ TypesInv' /\ MeterInv'
             /\ EventsAt(Terminal)' = {Len(trace')} /\ trace'[Len(trace')] = e
             /\ e.type # "EXECUTION_COMPLETED" => EventsAt({"EXECUTION_COMPLETED"})' = {}
             /\ nOpened' = nOpened /\ nClosed' = nClosed
             /\ nChecked' = nChecked /\ nEmitted' = nEmitted
  <2>1. /\ trace' \in Seq(Events) /\ Len(trace') = Len(trace) + 1 /\ trace'[Len(trace) + 1] = e
        /\ EventsAt(Terminal)' = EventsAt(Terminal) \cup {Len(trace) + 1}
        /\ e.type # "EXECUTION_COMPLETED" =>
             EventsAt({"EXECUTION_COMPLETED"})' = EventsAt({"EXECUTION_COMPLETED"})
    BY <1>1, <1>4, EventAdded
  <2>2. /\ Is(e, "TOOL_STARTED") = 0 /\ Is(e, "EMIT_COMPLETED") = 0 /\ Is(e, "CHECK_COMPLETED") = 0
        /\ Is(e, "STATEMENT_STARTED") = 0 /\ Is(e, "STATEMENT_COMPLETED") = 0
    BY <1>4 DEF Is, Terminal
  <2>3. /\ nStarted' = nStarted /\ nEmitted' = nEmitted /\ nChecked' = nChecked
        /\ nOpened' = nOpened /\ nClosed' = nClosed
    BY <1>1, <1>4, <2>2, CountsAdded, CoreTypes
  <2>4. TypesInv'
    BY <2>1 DEF CoreInv, TypesInv, Phases, Active
  <2>5. MeterInv'
    BY <2>3 DEF CoreInv, MeterInv, Active
  <2> QED BY <1>1, <2>1, <2>3, <2>4, <2>5 DEF Terminal
<1>5. CASE /\ \E e \in Events : /\ e.type \in {"EXECUTION_FAILED", "EXECUTION_REJECTED"}
                                /\ trace' = Append(trace, e)
           /\ result'.status # "COMPLETED"
  <2>1. PICK e \in Events : /\ e.type \in {"EXECUTION_FAILED", "EXECUTION_REJECTED"}
                            /\ trace' = Append(trace, e)
    BY <1>5
  <2>2. e.type \in Terminal /\ e.type # "EXECUTION_COMPLETED"
    BY <2>1 DEF Terminal
  <2>3. /\ TypesInv' /\ MeterInv' /\ EventsAt({"EXECUTION_COMPLETED"})' = {}
        /\ EventsAt(Terminal)' = {Len(trace')} /\ trace'[Len(trace')] = e
    BY <1>4, <2>1, <2>2
  <2>4. ResultMatchesTrace'
    BY <1>5, <2>1, <2>3 DEF ResultMatchesTrace, Ended
  <2> QED BY <2>3, <2>4 DEF CoreInv, StoryInv, Active
<1>6. CASE /\ \E e \in Events : e.type = "EXECUTION_COMPLETED" /\ trace' = Append(trace, e)
           /\ result'.status = "COMPLETED"
           /\ Active /\ nOpened = nClosed
  <2>1. PICK e \in Events : e.type = "EXECUTION_COMPLETED" /\ trace' = Append(trace, e)
    BY <1>6
  <2>2. /\ TypesInv' /\ MeterInv' /\ EventsAt(Terminal)' = {Len(trace')}
        /\ trace'[Len(trace')] = e /\ nOpened' = nOpened /\ nClosed' = nClosed
        /\ nChecked' = nChecked /\ nEmitted' = nEmitted
    BY <1>4, <2>1 DEF Terminal
  <2>3. nOpened' = nClosed' /\ nChecked' = Len(checks') /\ nEmitted' = Len(outputs')
    BY <1>6, <2>2 DEF CoreInv, StoryInv, MeterInv
  <2>4. ResultMatchesTrace'
    <3>1. /\ Cardinality(EventsAt({"STATEMENT_STARTED"}))' = Cardinality(EventsAt({"STATEMENT_COMPLETED"}))'
          /\ Cardinality(EventsAt({"CHECK_COMPLETED"}))' = Len(checks')
          /\ Cardinality(EventsAt({"EMIT_COMPLETED"}))' = Len(outputs')
      BY <2>3 DEF nOpened, nClosed, nChecked, nEmitted, Count
    <3>2. Ended("COMPLETED")' /\ \A status \in Statuses \ {"COMPLETED"} : ~Ended(status)'
      BY <1>2, <1>6 DEF Ended
    <3> QED BY <2>1, <2>2, <3>1, <3>2 DEF ResultMatchesTrace
  <2> QED BY <2>2, <2>4 DEF CoreInv, StoryInv, Active
<1> QED BY <1>3, <1>5, <1>6

LEMMA CoreEnds ==
  ASSUME CoreInv, Reject \/ Cancel \/ Finish \/ Conclude
  PROVE  CoreInv'
<1>1. /\ Event("EXECUTION_REJECTED") \in Events /\ Event("EXECUTION_FAILED") \in Events
      /\ Event("EXECUTION_COMPLETED") \in Events
      /\ Event("EXECUTION_REJECTED").type = "EXECUTION_REJECTED"
      /\ Event("EXECUTION_FAILED").type = "EXECUTION_FAILED"
      /\ Event("EXECUTION_COMPLETED").type = "EXECUTION_COMPLETED"
  BY EventTypes0 DEF EventTypes, Terminal
<1>2. \A s \in Statuses \cup {"RAISED"}, c \in Completenesses : Ends(s, c) =>
        phase' = "done" /\ result' \in ExecutionResults /\ result'.status = s
  BY DEF Ends, ExecutionResults
<1>3. cause \in Failures /\ data \in Completenesses
  BY DEF CoreInv, TypesInv
<1>4. CASE Reject
  <2>1. /\ phase # "done" /\ UNCHANGED <<skill, meter, checks, outputs, data, cause>>
        /\ \/ trace' = Append(trace, Event("EXECUTION_REJECTED")) /\ Ends("FAILED", "UNKNOWN")
           \/ trace' = trace /\ Ends("RAISED", "UNKNOWN")
    BY <1>4 DEF Reject
  <2>2. "FAILED" \in Statuses \cup {"RAISED"} /\ "UNKNOWN" \in Completenesses
    BY DEF Statuses, Completenesses
  <2> QED BY <1>1, <1>2, <1>3, <2>1, <2>2, Concludes
<1>5. CASE Cancel
  <2>1. /\ phase # "done" /\ UNCHANGED <<skill, meter, checks, outputs, data, cause, trace>>
        /\ Ends("RAISED", "UNKNOWN")
    BY <1>5 DEF Cancel
  <2>2. "UNKNOWN" \in Completenesses
    BY DEF Completenesses
  <2> QED BY <1>2, <1>3, <2>1, <2>2, Concludes
<1>6. CASE Conclude
  <2> DEFINE c == IF checks # << >> \/ outputs # << >> THEN "PARTIAL" ELSE "UNKNOWN"
  <2>1. /\ phase # "done" /\ UNCHANGED <<skill, meter, checks, outputs, data, cause>>
        /\ \/ /\ trace' = Append(trace, Event("EXECUTION_FAILED"))
              /\ Ends(cause, c) \/ Ends("RAISED", "UNKNOWN")
           \/ trace' = trace /\ Ends("RAISED", "UNKNOWN")
    BY <1>6 DEF Conclude
  <2>2. /\ cause \in Statuses \cup {"RAISED"} /\ cause # "COMPLETED"
        /\ c \in Completenesses /\ "UNKNOWN" \in Completenesses
    BY <1>3 DEF Statuses, Failures, Completenesses
  <2> HIDE DEF c
  <2>3. CASE trace' = trace /\ Ends("RAISED", "UNKNOWN")
    BY <1>2, <1>3, <2>1, <2>2, <2>3, Concludes
  <2>4. CASE /\ trace' = Append(trace, Event("EXECUTION_FAILED"))
             /\ Ends(cause, c) \/ Ends("RAISED", "UNKNOWN")
    <3>1. phase' = "done" /\ result' \in ExecutionResults /\ result'.status # "COMPLETED"
      BY <1>2, <2>2, <2>4
    <3> QED BY <1>1, <1>3, <2>1, <2>4, <3>1, Concludes
  <2> QED BY <2>1, <2>3, <2>4
<1>7. CASE Finish
  <2>1. /\ phase = "block" /\ Len(stack) = 1 /\ Active /\ phase # "done"
        /\ UNCHANGED <<skill, stack, meter, checks, outputs, data>>
    BY <1>7 DEF Finish, AtEnd, Active
  <2>2. CASE /\ phase' = "failing" /\ cause' \in Failures /\ UNCHANGED <<trace, result>>
    BY <1>3, <2>1, <2>2, Fails
  <2>3. CASE /\ phase' = "done" /\ trace' = Append(trace, Event("EXECUTION_COMPLETED"))
             /\ result' = [status |-> "COMPLETED", completeness |-> data] /\ cause' = cause
    <3>1. nOpened = nClosed
      <4>1. Depth = 0
        BY <2>1 DEF Depth
      <4> QED BY <2>1, <4>1, CoreTypes DEF CoreInv, StoryInv
    <3>2. result' \in ExecutionResults /\ result'.status = "COMPLETED"
      BY <1>3, <2>3 DEF ExecutionResults, Statuses
    <3> QED BY <1>1, <1>3, <2>1, <2>3, <3>1, <3>2, Concludes
  <2> QED BY <1>7, <2>2, <2>3 DEF Finish, Emits, Raises, Failures, Statuses
<1> QED BY <1>4, <1>5, <1>6, <1>7

LEMMA CoreSame ==
  ASSUME CoreInv, UNCHANGED engineVars, UNCHANGED skill
  PROVE  CoreInv'
<1>1. UNCHANGED <<phase, stack, meter, data, checks, outputs, trace, cause, result>>
  BY DEF engineVars
<1> QED BY <1>1, CountsSame DEF CoreInv, TypesInv, MeterInv, StoryInv, Active, Depth,
          ResultMatchesTrace, Ended

LEMMA CoreStep ==
  ASSUME CoreInv, [RuntimeNext]_runtimeVars
  PROVE  CoreInv'
<1>1. CASE UNCHANGED runtimeVars
  BY <1>1, CoreSame DEF runtimeVars
<1>2. CASE RuntimeTick
  BY <1>2, CoreSame DEF RuntimeTick, engineVars
<1>3. CASE EngineStep
  BY <1>3, CoreStart, CoreStatement, CoreCheck, CoreEmit, CoreForeach, CoreIteration,
     CoreStartRead, CoreCallTool, CoreEnds DEF EngineStep
<1>4. CASE RuntimeNext /\ ~EngineStep /\ ~RuntimeTick
  BY <1>4, CoreStart, CoreEnds, CoreReturns, CoreCallEnds DEF RuntimeNext
<1> QED BY <1>1, <1>2, <1>3, <1>4

LEMMA CoreInvariant == RuntimeSpec => []CoreInv
<1>1. CoreInv /\ [RuntimeNext]_runtimeVars => CoreInv'
  BY CoreStep
<1> QED BY <1>1, CoreInit, PTL DEF RuntimeSpec

(* _ResourceMeter counts every tool call and every row before it is on the  *)
(* trail or in the result, so that neither ever exceeds the limits of the   *)
(* Skill, whichever port fails in between.                                  *)
THEOREM RunsStayWithinLimits == RuntimeSpec => []WithinLimits
<1>1. CoreInv => WithinLimits
  BY DEF CoreInv, MeterInv, WithinLimits, nStarted, nEmitted, Count
<1> QED BY <1>1, CoreInvariant, PTL

(* The audit trail of _execute_with_context and its ExecutionResult tell    *)
(* one story: the terminal event is the last one and fits the status, and   *)
(* a completed run has closed all it opened.                                *)
THEOREM ResultsMatchTrace == RuntimeSpec => []ResultMatchesTrace
<1>1. CoreInv => ResultMatchesTrace
  <2> SUFFICES ASSUME CoreInv PROVE ResultMatchesTrace
    OBVIOUS
  <2>1. CASE phase = "done"
    BY <2>1 DEF CoreInv, StoryInv
  <2>2. CASE phase # "done"
    <3>1. result = NoResult /\ EventsAt(Terminal) = {}
      BY <2>2 DEF CoreInv, StoryInv
    <3>2. EventsAt({"EXECUTION_COMPLETED"}) = {}
      BY <3>1 DEF EventsAt, Terminal
    <3> QED BY <3>1, <3>2 DEF ResultMatchesTrace, Ended
  <2> QED BY <2>1, <2>2
<1> QED BY <1>1, CoreInvariant, PTL

(* Once check_deadline would raise, no step of the engine calls a tool,     *)
(* begins an iteration, or adds a check or a row.                           *)
THEOREM LateRunsStartNothing == RuntimeSpec => LateRunStartsNothing
<1> DEFINE Starts0 == /\ UNCHANGED <<meter, checks, outputs>>
                      /\ phase' = "waiting" => phase = "waiting"
<1>1. ASSUME RuntimeNext, Late PROVE Starts0
  <2>1. CASE EngineStep
    <3>1. CASE PreflightFails \/ Preflight \/ BindInputs \/ BeginStatement \/ EndStatement
      BY <1>1, <3>1 DEF PreflightFails, Preflight, BindInputs, BeginStatement, EndStatement,
         Emits, Raises
    <3>2. CASE \/ EvaluationFails \/ ExecuteLet \/ ExecuteEmit
               \/ \E truth \in BOOLEAN : ExecuteCheck(truth)
      BY <1>1, <3>2 DEF EvaluationFails, ExecuteLet, ExecuteCheck, ExecuteEmit, Raises
    <3>3. CASE BeginForeach \/ BeginIteration \/ EndIteration \/ EndForeach
      BY <1>1, <3>3 DEF BeginForeach, BeginIteration, EndIteration, EndForeach, Raises
    <3>4. CASE StartRead \/ CallTool \/ Finish \/ Conclude
      BY <1>1, <3>4 DEF StartRead, CallTool, Finish, Conclude, Ends, Emits, Raises
    <3> QED BY <2>1, <3>1, <3>2, <3>3, <3>4 DEF EngineStep
  <2>2. CASE Reject \/ Authorize \/ Cancel \/ RuntimeTick
    BY <2>2 DEF Reject, Authorize, Cancel, RuntimeTick, Ends
  <2>3. CASE \/ \E r \in Results : ToolReturns(r)
             \/ ToolTimesOut \/ ContractBroken \/ ToolFails
    BY <2>3 DEF ToolReturns, ToolTimesOut, ContractBroken, ToolFails
  <2> QED BY <1>1, <2>1, <2>2, <2>3 DEF RuntimeNext
<1>2. [RuntimeNext]_runtimeVars => [Late => Starts0]_runtimeVars
  BY <1>1
<1>3. RuntimeSpec => [][Late => Starts0]_runtimeVars
  BY <1>2, PTL DEF RuntimeSpec
<1> QED BY <1>3 DEF LateRunStartsNothing

----------------------------------------------------------------------------
(* The tool calls of the trail: kinds of steps *)

ToolEvents == {"TOOL_STARTED", "TOOL_COMPLETED", "TOOL_FAILED"}

(* No call begins or ends. *)
CallsRest ==
  /\ meter'.tools = meter.tools
  /\ trace' = trace \/ \E e \in Events : e.type \notin ToolEvents /\ trace' = Append(trace, e)
  /\ Settled' => Settled
  /\ phase' \in {"call", "waiting"} => phase \in {"call", "waiting"}

(* A call begins, on the trail or only in the meter. *)
CallBegins ==
  /\ phase = "stmt" /\ meter'.tools = meter.tools + 1 /\ result' = result
  /\ \/ trace' = trace /\ phase' = "failing"
     \/ trace' = Append(trace, CallEvent("TOOL_STARTED", meter.tools + 1)) /\ phase' = "call"

(* The call under way ends, on the trail. *)
CallEnds ==
  /\ phase = "waiting" /\ phase' \in {"after", "failing"} /\ meter'.tools = meter.tools
  /\ \E e \in Events : /\ e.type \in {"TOOL_COMPLETED", "TOOL_FAILED"} /\ e.call = meter.tools
                       /\ trace' = Append(trace, e)

LEMMA FailingIsUnsettled ==
  ASSUME CoreInv, phase # "done", result' = result, phase' \notin {"done"}
  PROVE  Settled' <=> phase' \notin {"failing", "done", "call", "waiting"}
BY DEF CoreInv, StoryInv, Settled, Ended, Active

(* The engine between two calls. *)
LEMMA RestingStep ==
  ASSUME CoreInv, phase \notin {"done", "call", "waiting", "failing"},
         phase' \notin {"call", "waiting"}, meter'.tools = meter.tools,
         trace' = trace \/ \E e \in Events : e.type \notin ToolEvents /\ trace' = Append(trace, e)
  PROVE  CallsRest
BY DEF CallsRest, Settled, Active

LEMMA EventKinds ==
  \A type \in EventTypes \ ToolEvents : Event(type) \in Events /\ Event(type).type \notin ToolEvents
BY EventTypes0

LEMMA StepKinds ==
  ASSUME CoreInv, [RuntimeNext]_runtimeVars
  PROVE  CallsRest \/ CallBegins \/ CallEnds
<1> USE DEF Active
<1>1. {"EXECUTION_STARTED", "STATEMENT_STARTED", "STATEMENT_COMPLETED", "CHECK_COMPLETED",
       "EMIT_COMPLETED", "EXECUTION_COMPLETED", "EXECUTION_FAILED", "EXECUTION_REJECTED"}
        \subseteq EventTypes \ ToolEvents
  BY DEF EventTypes, ToolEvents, Terminal
<1>2. CASE UNCHANGED runtimeVars \/ RuntimeTick
  BY <1>2 DEF runtimeVars, engineVars, RuntimeTick, CallsRest, Settled, Ended
<1>3. CASE Authorize \/ PreflightFails \/ Preflight \/ BindInputs \/ BeginStatement \/ EndStatement
  BY <1>1, <1>3, EventKinds, RestingStep
     DEF Authorize, PreflightFails, Preflight, BindInputs, BeginStatement, EndStatement, Emits, Raises
<1>4. CASE EvaluationFails \/ ExecuteLet \/ \E truth \in BOOLEAN : ExecuteCheck(truth)
  BY <1>1, <1>4, EventKinds, RestingStep
     DEF EvaluationFails, ExecuteLet, ExecuteCheck, AtStatement, Emits, Raises
<1>5. CASE ExecuteEmit
  <2>1. meter'.tools = meter.tools
    BY <1>5 DEF ExecuteEmit, CoreInv, TypesInv
  <2> QED BY <1>1, <1>5, <2>1, EventKinds, RestingStep DEF ExecuteEmit, AtStatement, Emits, Raises
<1>6. CASE BeginForeach \/ EndIteration \/ EndForeach
  BY <1>6, RestingStep DEF BeginForeach, EndIteration, EndForeach, AtStatement, Raises
<1>7. CASE BeginIteration
  <2>1. meter'.tools = meter.tools
    BY <1>7 DEF BeginIteration, CoreInv, TypesInv
  <2> QED BY <1>7, <2>1, RestingStep DEF BeginIteration, Raises
<1>8. CASE StartRead
  <2>1. CASE UNCHANGED <<meter, trace>> /\ phase' = "failing"
    BY <1>8, <2>1, RestingStep DEF StartRead, AtStatement
  <2>2. CASE /\ meter' = [meter EXCEPT !.tools = @ + 1]
             /\ Emits(CallEvent("TOOL_STARTED", meter.tools + 1), "call")
    <3>1. meter'.tools = meter.tools + 1
      BY <2>2 DEF CoreInv, TypesInv
    <3> QED BY <1>8, <2>2, <3>1 DEF StartRead, AtStatement, Emits, Raises, CallBegins
  <2> QED BY <1>8, <2>1, <2>2 DEF StartRead, Raises
<1>9. CASE CallTool
  BY <1>9, FailingIsUnsettled DEF CallTool, Raises, CallsRest
<1>10. CASE \E r \in Results : ToolReturns(r)
  <2>1. PICK r \in Results : ToolReturns(r)
    BY <1>10
  <2> DEFINE f == CallEvent("TOOL_FAILED", Invocation)
             e == ReturnEvent(r)
  <2>2. /\ phase = "waiting" /\ UNCHANGED <<meter, result>>
        /\ trace' = trace \/ trace' = Append(trace, e) \/ trace' = Append(trace, f)
        /\ \/ phase' = "failing"
           \/ phase' = "after" /\ trace' = Append(trace, e)
    BY <2>1 DEF ToolReturns, ReturnEvent, Emits, EmitsThenRaises, Raises
  <2>3. /\ f \in Events /\ f.type = "TOOL_FAILED" /\ f.call = meter.tools
        /\ e \in Events /\ e.type = "TOOL_COMPLETED" /\ e.call = meter.tools
    BY ReturnEvents
  <2> HIDE DEF e, f
  <2>4. CASE trace' = trace /\ phase' = "failing"
    BY <2>2, <2>4, FailingIsUnsettled DEF CallsRest
  <2> QED BY <2>2, <2>3, <2>4 DEF CallEnds
<1>11. CASE ToolTimesOut \/ ContractBroken \/ ToolFails
  <2> DEFINE f == CallEvent("TOOL_FAILED", Invocation)
  <2>1. /\ phase = "waiting" /\ UNCHANGED <<meter, result>> /\ phase' = "failing"
        /\ trace' = trace \/ trace' = Append(trace, f)
    BY <1>11 DEF ToolTimesOut, ContractBroken, ToolFails, EmitsThenRaises, Raises
  <2>2. f \in Events /\ f.type = "TOOL_FAILED" /\ f.call = meter.tools
    BY ReturnEvents
  <2> HIDE DEF f
  <2>3. CASE trace' = trace
    BY <2>1, <2>3, FailingIsUnsettled DEF CallsRest
  <2> QED BY <2>1, <2>2, <2>3 DEF CallEnds
<1>12. CASE Finish
  BY <1>1, <1>12, EventKinds, RestingStep DEF Finish, AtEnd, Emits, Raises
<1>13. CASE Reject
  BY <1>1, <1>13, EventKinds, RestingStep DEF Reject, Ends
<1>14. CASE Cancel
  BY <1>14 DEF Cancel, Ends, CallsRest, Settled, Ended
<1>15. CASE Conclude
  <2>1. /\ phase = "failing" /\ phase' = "done" /\ meter' = meter
        /\ trace' = trace \/ trace' = Append(trace, Event("EXECUTION_FAILED"))
        /\ result'.status \in {cause, "RAISED"}
    BY <1>15 DEF Conclude, Ends
  <2>2. ~Settled'
    BY <2>1 DEF Settled, Ended, CoreInv, TypesInv, Failures
  <2> QED BY <1>1, <2>1, <2>2, EventKinds DEF CallsRest
<1> QED BY <1>2, <1>3, <1>4, <1>5, <1>6, <1>7, <1>8, <1>9, <1>10, <1>11, <1>12, <1>13, <1>14, <1>15
        DEF RuntimeNext, EngineStep

LEMMA CallInit == RuntimeInit => CallInv
BY DEF RuntimeInit, CallInv, Starts, Answered, EventsAt

LEMMA CallStep ==
  ASSUME CoreInv, CallInv, CallsRest \/ CallBegins \/ CallEnds
  PROVE  CallInv'
<1> DEFINE n == Len(trace)
           t == meter.tools
<1>1. trace \in Seq(Events) /\ t \in Nat /\ n \in Nat
  BY CoreTypes DEF CoreInv, TypesInv
<1>2. Starts \subseteq 1 .. n /\ Answered \subseteq 1 .. n
  BY <1>1, CountIsNat DEF Starts, Answered
<1>3. CASE trace' = trace
  <2>1. Starts' = Starts /\ Answered' = Answered
    BY <1>3, CountsSame DEF Starts, Answered
  <2>2. CASE CallsRest
    BY <1>3, <2>1, <2>2 DEF CallInv, CallsRest
  <2>3. CASE CallBegins
    <3>1. meter'.tools = t + 1 /\ Settled /\ phase' \notin {"call", "waiting"}
      BY <1>1, <1>3, <2>3 DEF CallBegins, Settled, Active
    <3> QED BY <1>1, <1>3, <2>1, <3>1 DEF CallInv
  <2>4. CASE CallEnds
    <3>1. PICK e \in Events : trace' = Append(trace, e)
      BY <2>4 DEF CallEnds
    <3>2. Len(trace') = n + 1
      BY <1>1, <3>1, EventAdded
    <3> QED BY <1>1, <1>3, <3>2
  <2> QED BY <2>2, <2>3, <2>4
<1>4. ASSUME NEW e \in Events, trace' = Append(trace, e)
      PROVE  /\ \A k \in 1 .. n : trace'[k] = trace[k]
             /\ trace'[n + 1] = e
             /\ Starts' = IF e.type = "TOOL_STARTED" THEN Starts \cup {n + 1} ELSE Starts
             /\ Answered' = IF e.type \in {"TOOL_COMPLETED", "TOOL_FAILED"}
                            THEN Answered \cup {n + 1} ELSE Answered
  BY <1>1, <1>4, EventAdded DEF Starts, Answered
<1>5. ASSUME CallsRest, NEW e \in Events, e.type \notin ToolEvents, trace' = Append(trace, e)
      PROVE  CallInv'
  <2>1. Starts' = Starts /\ Answered' = Answered /\ \A k \in 1 .. n : trace'[k] = trace[k]
    BY <1>4, <1>5 DEF ToolEvents
  <2> HIDE DEF n
  <2>2. /\ \A k \in Starts : trace'[k] = trace[k]
        /\ \A k \in Answered : trace'[k] = trace[k]
    BY <1>2, <2>1
  <2>3. /\ meter'.tools = t /\ (Settled' => Settled)
        /\ phase' \in {"call", "waiting"} => phase \in {"call", "waiting"}
    BY <1>5 DEF CallsRest
  <2>4. ASSUME NEW k \in Starts', trace'[k].call < meter'.tools \/ Settled'
        PROVE  \E j \in Answered' : trace'[j].call = trace'[k].call
    <3>1. PICK j \in Answered : trace[j].call = trace[k].call
      BY <2>1, <2>2, <2>3, <2>4 DEF CallInv
    <3> QED BY <2>1, <2>2, <3>1
  <2>5. /\ \A k \in Starts' : trace'[k].call \in 1 .. meter'.tools
        /\ \A j, k \in Starts' : j < k => trace'[j].call < trace'[k].call
    BY <2>1, <2>2, <2>3 DEF CallInv
  <2>6. \A k \in Answered' :
          /\ trace'[k].call \in 1 .. meter'.tools
          /\ phase' \in {"call", "waiting"} => trace'[k].call < meter'.tools
    BY <2>1, <2>2, <2>3 DEF CallInv
  <2>7. phase' \in {"call", "waiting"} => meter'.tools >= 1
    BY <2>3 DEF CallInv
  <2> QED BY <2>4, <2>5, <2>6, <2>7 DEF CallInv
<1>6. ASSUME CallBegins, trace' = Append(trace, CallEvent("TOOL_STARTED", t + 1)), phase' = "call"
      PROVE  CallInv'
  <2> DEFINE e == CallEvent("TOOL_STARTED", t + 1)
  <2>1. e \in Events /\ e.type = "TOOL_STARTED" /\ e.call = t + 1
    <3>1. t + 1 \in Nat
      BY <1>1
    <3> QED BY <3>1, EventTypes0 DEF EventTypes
  <2> HIDE DEF e
  <2>2. /\ \A k \in 1 .. n : trace'[k] = trace[k]
        /\ trace'[n + 1] = e /\ Starts' = Starts \cup {n + 1} /\ Answered' = Answered
    <3>1. trace' = Append(trace, e)
      BY <1>6 DEF e
    <3> QED BY <1>4, <2>1, <3>1
  <2>3. meter'.tools = t + 1 /\ Settled /\ phase' = "call" /\ ~Settled'
    <3>1. result' = result /\ phase = "stmt"
      BY <1>1, <1>6 DEF CallBegins, CallsRest
    <3>2. ~Settled'
      BY <1>6, <3>1, FailingIsUnsettled
    <3> QED BY <1>6, <3>1, <3>2 DEF CallBegins, Settled, Active
  <2> HIDE DEF n
  <2>4. /\ \A k \in Starts : k \in 1 .. n /\ trace'[k] = trace[k] /\ trace[k].call \in 1 .. t
        /\ \A k \in Answered : trace'[k] = trace[k] /\ trace[k].call \in 1 .. t
    BY <1>2, <2>2 DEF CallInv
  <2>5. \A k \in Starts' : trace'[k].call \in 1 .. t + 1
    BY <1>1, <2>1, <2>2, <2>4
  <2>6. ASSUME NEW j \in Starts', NEW k \in Starts', j < k
        PROVE  trace'[j].call < trace'[k].call
    <3>1. CASE j \in Starts /\ k \in Starts
      BY <2>4, <2>6, <3>1 DEF CallInv
    <3>2. CASE j \in Starts /\ k = n + 1
      BY <1>1, <2>1, <2>2, <2>4, <3>2
    <3>3. CASE j = n + 1
      BY <1>1, <2>2, <2>4, <2>6, <3>3
    <3> QED BY <2>2, <3>1, <3>2, <3>3
  <2>7. \A k \in Answered' : trace'[k].call \in 1 .. t + 1 /\ trace'[k].call < t + 1
    BY <1>1, <2>2, <2>4
  <2>8. ASSUME NEW k \in Starts', trace'[k].call < t + 1
        PROVE  \E j \in Answered' : trace'[j].call = trace'[k].call
    <3>1. k \in Starts
      BY <1>1, <2>1, <2>2, <2>8
    <3>2. PICK j \in Answered : trace[j].call = trace[k].call
      BY <2>3, <3>1 DEF CallInv
    <3> QED BY <2>2, <2>4, <3>1, <3>2
  <2>9. t + 1 >= 1
    BY <1>1
  <2> QED BY <2>3, <2>5, <2>6, <2>7, <2>8, <2>9 DEF CallInv
<1>7. ASSUME CallEnds, NEW e \in Events, e.type \in {"TOOL_COMPLETED", "TOOL_FAILED"},
             e.call = t, trace' = Append(trace, e)
      PROVE  CallInv'
  <2>1. /\ \A k \in 1 .. n : trace'[k] = trace[k]
        /\ trace'[n + 1] = e /\ Starts' = Starts /\ Answered' = Answered \cup {n + 1}
    BY <1>4, <1>7
  <2> HIDE DEF n
  <2>2. /\ \A k \in Starts : trace'[k] = trace[k] /\ trace[k].call \in 1 .. t
        /\ \A k \in Answered : trace'[k] = trace[k] /\ trace[k].call \in 1 .. t
        /\ meter'.tools = t /\ phase' \notin {"call", "waiting"}
    BY <1>2, <1>7, <2>1 DEF CallInv, CallEnds
  <2>3. t \in 1 .. t
    BY <1>1, <1>7 DEF CallInv, CallEnds
  <2>4. ASSUME NEW k \in Starts' PROVE \E j \in Answered' : trace'[j].call = trace'[k].call
    <3>1. CASE trace[k].call = t
      BY <1>7, <2>1, <2>2, <3>1
    <3>2. CASE trace[k].call < t
      BY <2>1, <2>2, <3>2 DEF CallInv
    <3> QED BY <1>1, <2>1, <2>2, <3>1, <3>2
  <2>5. /\ \A k \in Starts' : trace'[k].call \in 1 .. meter'.tools
        /\ \A j, k \in Starts' : j < k => trace'[j].call < trace'[k].call
    BY <2>1, <2>2 DEF CallInv
  <2>6. \A k \in Answered' : trace'[k].call \in 1 .. meter'.tools
    BY <1>7, <2>1, <2>2, <2>3
  <2> QED BY <2>2, <2>4, <2>5, <2>6 DEF CallInv
<1> QED BY <1>3, <1>5, <1>6, <1>7 DEF CallsRest, CallBegins, CallEnds

LEMMA CallInvariant == RuntimeSpec => []CallInv
<1>1. CoreInv /\ CallInv /\ [RuntimeNext]_runtimeVars => CallInv'
  BY StepKinds, CallStep
<1> QED BY <1>1, CoreInvariant, CallInit, PTL DEF RuntimeSpec

----------------------------------------------------------------------------
(* The frames *)

(* What a step can bind to a symbol: an input; a value computed from what   *)
(* is bound, the iterator of a FOREACH too; the status of a CHECK; the      *)
(* result of the call that returns.                                         *)
Bindable(s, v) ==
  \/ v = Complete0
  \/ /\ phase \in {"stmt", "loop"} /\ Evaluable(Statement.uses)
     /\ v.refs = Computed(Statement.uses).refs
     /\ \/ v.completeness = Computed(Statement.uses).completeness
        \/ phase = "stmt" /\ Statement.kind = "CHECK" /\ s = Statement.target
  \/ /\ phase = "waiting" /\ v.refs = {meter.tools}
     /\ \E r \in Results : v.completeness = r.completeness /\ trace' = Append(trace, ReturnEvent(r))

(* The bindings after a step are old ones or such ones. *)
EnvStep ==
  Active' =>
    /\ Active
    /\ \A k \in 1 .. Len(stack') : \A s \in DOMAIN stack'[k].env :
         \/ /\ k \in 1 .. Len(stack) /\ s \in DOMAIN stack[k].env
            /\ stack'[k].env[s] = stack[k].env[s]
         \/ Bindable(s, stack'[k].env[s])

LEMMA LoopingSame ==
  ASSUME NEW sk, NEW st, NEW tt, NEW k \in Nat \ {0}, \A j \in 1 .. k : tt[j] = st[j],
         Looping(sk, st, k)
  PROVE  Looping(sk, tt, k)
<1>1. k \in 1 .. k
  OBVIOUS
<1>2. tt[k] = st[k]
  BY <1>1
<1> QED BY <1>2 DEF Looping

LEMMA SameStack ==
  ASSUME CoreInv, FramesInv, Active, UNCHANGED <<skill, stack>>,
         phase' = "loop" => phase = "loop",
         phase' \in {"stmt", "call", "waiting", "after"} => Within(skill, Top)
  PROVE  FramesInv' /\ EnvStep
<1>1. FramesInv'
  BY DEF FramesInv, Top
<1>2. EnvStep
  BY DEF EnvStep
<1> QED BY <1>1, <1>2

LEMMA FailingFrames ==
  ASSUME ~Active'
  PROVE  FramesInv' /\ EnvStep
BY DEF FramesInv, EnvStep

LEMMA TopStep ==
  ASSUME CoreInv, FramesInv, Active, UNCHANGED skill, NEW f, stack' = WithTop(f),
         FrameOK(skill, f),
         \A s \in DOMAIN f.env : (s \in DOMAIN Top.env /\ f.env[s] = Top.env[s]) \/ Bindable(s, f.env[s]),
         phase' = "loop" => Looping(skill, stack', Len(stack)),
         phase' \in {"stmt", "call", "waiting", "after"} => Within(skill, f)
  PROVE  FramesInv' /\ EnvStep
<1> DEFINE n == Len(stack)
<1>1. n \in Nat /\ n >= 1 /\ IsSeq(stack)
  BY ActiveFacts
<1>2. /\ Len(stack') = n /\ stack'[n] = f
      /\ \A k \in 1 .. n : k # n => stack'[k] = stack[k]
  BY <1>1, WithTopFacts
<1> HIDE DEF n
<1>3. \A k \in 1 .. n : FrameOK(skill, stack'[k])
  BY <1>2 DEF FramesInv, n
<1>4. ASSUME NEW k \in 1 .. n, k < n
      PROVE  Looping(skill, stack', k)
  <2>1. Looping(skill, stack, k)
    BY <1>4 DEF FramesInv, n
  <2>2. \A j \in 1 .. k : stack'[j] = stack[j]
    BY <1>1, <1>2, <1>4
  <2> QED BY <2>1, <2>2, LoopingSame
<1>5. FramesInv'
  <2>1. \A k \in 1 .. n : k < n \/ phase' = "loop" => Looping(skill, stack', k)
    BY <1>1, <1>4 DEF n
  <2> QED BY <1>2, <1>3, <2>1 DEF FramesInv, n
<1>6. EnvStep
  <2>1. ASSUME NEW k \in 1 .. n, NEW s \in DOMAIN stack'[k].env
        PROVE  \/ s \in DOMAIN stack[k].env /\ stack'[k].env[s] = stack[k].env[s]
               \/ Bindable(s, stack'[k].env[s])
    <3>1. CASE k = n
      BY <1>2, <2>1, <3>1 DEF Top, n
    <3>2. CASE k # n
      BY <1>2, <2>1, <3>2
    <3> QED BY <3>1, <3>2
  <2> QED BY <1>2, <2>1 DEF EnvStep, n
<1> QED BY <1>5, <1>6

LEMMA TopOK ==
  ASSUME CoreInv, FramesInv, Active
  PROVE  /\ FrameOK(skill, Top) /\ Top.at \in Nat /\ Top.left \in Nat
         /\ Len(stack) \in Nat /\ Len(stack) >= 1 /\ Len(stack) \in 1 .. Len(stack)
         /\ Len(Block) \in Nat /\ DOMAIN Block = 1 .. Len(Block)
         /\ Statement = StatementOf(skill, Top)
         /\ Within(skill, Top) <=> Top.at <= Len(Block)
         /\ Within(skill, Top) => Top.at \in DOMAIN Block
         /\ phase \in {"stmt", "call", "waiting", "after", "loop"} => Within(skill, Top)
<1>1. Len(stack) \in Nat /\ Len(stack) >= 1 /\ Len(stack) \in 1 .. Len(stack)
  BY ActiveFacts
<1>2. FrameOK(skill, Top)
  BY <1>1 DEF FramesInv, Top
<1>3. Top.block \in DOMAIN skill.blocks /\ Top.left \in Nat
  BY <1>2 DEF FrameOK
<1>4. IsSeq(Block)
  BY <1>3, ActiveFacts, RuntimeAssumption DEF Block, IsSeq
<1>5. Len(Block) \in Nat /\ DOMAIN Block = 1 .. Len(Block)
  BY <1>4, SeqFacts
<1>6. Top.at \in 1 .. Len(Block) + 1
  BY <1>2 DEF FrameOK, Block
<1>7. Top.at \in Nat
  BY <1>5, <1>6
<1>8. /\ Statement = StatementOf(skill, Top)
      /\ Within(skill, Top) <=> Top.at <= Len(Block)
  BY DEF Statement, StatementOf, Block, Within
<1>9. Within(skill, Top) => Top.at \in DOMAIN Block
  BY <1>5, <1>6, <1>7, <1>8
<1>10. phase \in {"stmt", "call", "waiting", "after", "loop"} => Within(skill, Top)
  BY <1>1 DEF FramesInv, Top, Looping
<1> QED BY <1>1, <1>2, <1>3, <1>5, <1>7, <1>8, <1>9, <1>10

(* What is bound resolves to a value of a frame. *)
LEMMA Resolved ==
  ASSUME CoreInv, Active, NEW s, IsBound(s)
  PROVE  \E k \in 1 .. Len(stack) : s \in DOMAIN stack[k].env /\ Resolve(s) = stack[k].env[s]
<1>1. DOMAIN stack = 1 .. Len(stack)
  BY ActiveFacts, SeqFacts
<1> DEFINE k == CHOOSE j \in DOMAIN stack : s \in DOMAIN stack[j].env
<1>2. k \in DOMAIN stack /\ s \in DOMAIN stack[k].env
  BY DEF IsBound
<1>3. Resolve(s) = stack[k].env[s]
  BY DEF Resolve
<1> HIDE DEF k
<1> QED BY <1>1, <1>2, <1>3

LEMMA ComputedFacts ==
  ASSUME CoreInv, FramesInv, Active, NEW uses, Evaluable(uses)
  PROVE  /\ Computed(uses) \in Values
         /\ \A s \in uses : Resolve(s) \in Values
<1>1. \A s \in uses : Resolve(s) \in Values
  <2> TAKE s \in uses
  <2>1. PICK k \in 1 .. Len(stack) : s \in DOMAIN stack[k].env /\ Resolve(s) = stack[k].env[s]
    BY Resolved DEF Evaluable
  <2>2. FrameOK(skill, stack[k])
    BY DEF FramesInv
  <2> QED BY <2>1, <2>2 DEF FrameOK
<1>2. UNION {Resolve(s).refs : s \in uses} \in SUBSET Nat
  BY <1>1 DEF Values
<1>3. Combined({Resolve(s).completeness : s \in uses}) \in Completenesses
  BY CombinedType
<1> QED BY <1>1, <1>2, <1>3 DEF Computed, Values

LEMMA EnvFrame ==
  ASSUME FrameOK(skill, Top), NEW env, \A s \in DOMAIN env : env[s] \in Values
  PROVE  LET f == [Top EXCEPT !.env = env]
         IN  FrameOK(skill, f) /\ f.env = env /\ f.at = Top.at /\ f.block = Top.block
BY DEF FrameOK

LEMMA BindStep ==
  ASSUME CoreInv, FramesInv, Active, UNCHANGED skill, NEW s, NEW v \in Values,
         stack' = Bind(s, v), Bindable(s, v), phase' = "after", Within(skill, Top)
  PROVE  FramesInv' /\ EnvStep
<1> DEFINE env == [x \in DOMAIN Top.env \cup {s} |-> IF x = s THEN v ELSE Top.env[x]]
           f == [Top EXCEPT !.env = env]
<1>1. FrameOK(skill, Top)
  BY TopOK
<1>2. \A x \in DOMAIN env : env[x] \in Values
  BY <1>1 DEF FrameOK
<1>3. \A x \in DOMAIN env : (x \in DOMAIN Top.env /\ env[x] = Top.env[x]) \/ Bindable(x, env[x])
  <2> TAKE x \in DOMAIN env
  <2>1. CASE x = s
    BY <2>1
  <2>2. CASE x # s
    BY <2>2
  <2> QED BY <2>1, <2>2
<1>4. stack' = WithTop(f)
  BY DEF Bind
<1> HIDE DEF env
<1>5. FrameOK(skill, f) /\ f.env = env /\ f.at = Top.at /\ f.block = Top.block
  BY <1>1, <1>2, EnvFrame
<1> HIDE DEF f
<1>6. Within(skill, f)
  BY <1>5 DEF Within
<1> QED BY <1>3, <1>4, <1>5, <1>6, TopStep

(* The steps that leave the frames alone, or fail. *)
LEMMA FramesQuiet ==
  ASSUME CoreInv, FramesInv,
         \/ Reject \/ Authorize \/ PreflightFails \/ Preflight \/ BeginStatement
         \/ EvaluationFails \/ ExecuteEmit \/ EndForeach \/ StartRead \/ CallTool
         \/ ToolTimesOut \/ ContractBroken \/ ToolFails \/ Cancel \/ Finish \/ Conclude
         \/ RuntimeTick \/ UNCHANGED runtimeVars
  PROVE  FramesInv' /\ EnvStep
<1>1. CASE ~Active'
  BY <1>1, FailingFrames
<1>2. CASE Active' /\ (Authorize \/ Preflight)
  <2>1. Active /\ UNCHANGED <<skill, stack>> /\ phase' \in {"preflight", "bind"}
    BY <1>2 DEF Authorize, Preflight, Emits, Raises, Active
  <2> QED BY <2>1, SameStack
<1>3. CASE Active' /\ BeginStatement
  <2>1. Active /\ UNCHANGED <<skill, stack>> /\ phase' = "stmt" /\ Top.at <= Len(Block)
    BY <1>3 DEF BeginStatement, Emits, Raises, Active
  <2> QED BY <2>1, TopOK, SameStack
<1>4. CASE Active' /\ (ExecuteEmit \/ EndForeach \/ StartRead \/ CallTool)
  <2>1. /\ Active /\ UNCHANGED <<skill, stack>> /\ phase' # "loop"
        /\ phase \in {"stmt", "call", "loop"}
    BY <1>4 DEF ExecuteEmit, EndForeach, StartRead, CallTool, AtStatement, Emits, Raises, Active
  <2> QED BY <2>1, TopOK, SameStack
<1>5. CASE Active' /\ (RuntimeTick \/ UNCHANGED runtimeVars)
  <2>1. Active /\ UNCHANGED <<skill, stack, phase>>
    BY <1>5 DEF RuntimeTick, runtimeVars, engineVars, Active
  <2> QED BY <2>1, TopOK, SameStack
<1>6. ASSUME Reject \/ PreflightFails \/ EvaluationFails \/ ToolTimesOut \/ ContractBroken
             \/ ToolFails \/ Cancel \/ Finish \/ Conclude
      PROVE  ~Active'
  BY <1>6 DEF Reject, PreflightFails, EvaluationFails, ToolTimesOut, ContractBroken, ToolFails,
              Cancel, Finish, Conclude, Ends, Emits, EmitsThenRaises, Raises, Active
<1> QED BY <1>1, <1>2, <1>3, <1>4, <1>5, <1>6

LEMMA FramesBind ==
  ASSUME CoreInv, FramesInv, BindInputs
  PROVE  FramesInv' /\ EnvStep
<1>1. CASE phase' = "failing"
  BY <1>1, FailingFrames DEF Active
<1>2. CASE phase' # "failing"
  <2> DEFINE env == [s \in Inputs |-> Complete0]
             f == [Top EXCEPT !.env = env]
  <2>1. /\ Active /\ UNCHANGED skill /\ phase' = "block" /\ stack' = WithTop(f)
    BY <1>2 DEF BindInputs, Raises, Active
  <2>2. \A s \in DOMAIN env : env[s] = Complete0
    OBVIOUS
  <2>3. Complete0 \in Values
    BY DEF Complete0, Values, Completenesses
  <2> HIDE DEF env
  <2>4. FrameOK(skill, f) /\ f.env = env
    BY <2>1, <2>2, <2>3, TopOK, EnvFrame
  <2> HIDE DEF f
  <2> QED BY <2>1, <2>2, <2>4, TopStep DEF Bindable
<1> QED BY <1>1, <1>2

LEMMA FramesEndStatement ==
  ASSUME CoreInv, FramesInv, EndStatement
  PROVE  FramesInv' /\ EnvStep
<1>1. CASE phase' = "failing"
  BY <1>1, FailingFrames DEF Active
<1>2. CASE phase' # "failing"
  <2> DEFINE f == [Top EXCEPT !.at = @ + 1]
  <2>1. /\ Active /\ UNCHANGED skill /\ phase' = "block" /\ stack' = WithTop(f) /\ phase = "after"
    BY <1>2 DEF EndStatement, Emits, Raises, Active
  <2>2. FrameOK(skill, Top) /\ Top.at \in DOMAIN Block /\ Len(Block) \in Nat /\ DOMAIN Block = 1 .. Len(Block)
    BY <2>1, TopOK
  <2>3. f.env = Top.env /\ f.at = Top.at + 1 /\ f.block = Top.block /\ f.left = Top.left
        /\ DOMAIN f = {"block", "at", "left", "env"}
    BY <2>2 DEF FrameOK
  <2>4. Top.at + 1 \in 1 .. Len(Block) + 1
    BY <2>2
  <2> HIDE DEF f
  <2>5. FrameOK(skill, f)
    BY <2>2, <2>3, <2>4 DEF FrameOK, Block
  <2> QED BY <2>1, <2>3, <2>5, TopStep
<1> QED BY <1>1, <1>2

LEMMA FramesLet ==
  ASSUME CoreInv, FramesInv, ExecuteLet
  PROVE  FramesInv' /\ EnvStep
<1>1. CASE phase' = "failing"
  BY <1>1, FailingFrames DEF Active
<1>2. CASE phase' # "failing"
  <2> DEFINE v == Computed(Statement.uses)
  <2>1. /\ Active /\ UNCHANGED skill /\ phase' = "after" /\ phase = "stmt"
        /\ stack' = Bind(Statement.target, v) /\ Evaluable(Statement.uses)
    BY <1>2 DEF ExecuteLet, AtStatement, Raises, Active
  <2>2. v \in Values /\ Within(skill, Top)
    BY <2>1, ComputedFacts, TopOK
  <2>3. Bindable(Statement.target, v)
    BY <2>1 DEF Bindable
  <2> HIDE DEF v
  <2> QED BY <2>1, <2>2, <2>3, BindStep
<1> QED BY <1>1, <1>2

LEMMA FramesCheck ==
  ASSUME CoreInv, FramesInv, NEW truth \in BOOLEAN, ExecuteCheck(truth)
  PROVE  FramesInv' /\ EnvStep
<1>1. CASE phase' = "failing"
  BY <1>1, FailingFrames DEF Active
<1>2. CASE phase' # "failing"
  <2> DEFINE v == [Complete0 EXCEPT !.refs = Computed(Statement.uses).refs]
  <2>1. /\ Active /\ UNCHANGED skill /\ phase' = "after" /\ phase = "stmt"
        /\ stack' = Bind(Statement.target, v) /\ Evaluable(Statement.uses)
        /\ Statement.kind = "CHECK"
    BY <1>2 DEF ExecuteCheck, AtStatement, Emits, Raises, Active
  <2>2. Computed(Statement.uses) \in Values /\ Within(skill, Top)
    BY <2>1, ComputedFacts, TopOK
  <2>3. v \in Values /\ v.refs = Computed(Statement.uses).refs
    BY <2>2 DEF Values, Complete0, Completenesses
  <2>4. Bindable(Statement.target, v)
    BY <2>1, <2>3 DEF Bindable
  <2> HIDE DEF v
  <2> QED BY <2>1, <2>2, <2>3, <2>4, BindStep
<1> QED BY <1>1, <1>2

LEMMA FramesReturn ==
  ASSUME CoreInv, FramesInv, NEW r \in Results, ToolReturns(r)
  PROVE  FramesInv' /\ EnvStep
<1>1. CASE phase' = "failing"
  BY <1>1, FailingFrames DEF Active
<1>2. CASE phase' # "failing"
  <2> DEFINE v == [completeness |-> r.completeness, size |-> r.size, refs |-> {Invocation}]
  <2>1. /\ Active /\ UNCHANGED skill /\ phase' = "after" /\ phase = "waiting"
        /\ stack' = Bind(Statement.target, v) /\ trace' = Append(trace, ReturnEvent(r))
    BY <1>2 DEF ToolReturns, ReturnEvent, Emits, EmitsThenRaises, Raises, Active
  <2>2. Invocation \in Nat /\ Within(skill, Top)
    BY <2>1, ActiveFacts, TopOK DEF Invocation
  <2>3. v \in Values
    BY <2>2, RuntimeAssumption DEF Values
  <2>4. Bindable(Statement.target, v)
    BY <2>1 DEF Bindable, Invocation
  <2> HIDE DEF v
  <2> QED BY <2>1, <2>2, <2>3, <2>4, BindStep
<1> QED BY <1>1, <1>2

LEMMA FramesForeach ==
  ASSUME CoreInv, FramesInv, BeginForeach
  PROVE  FramesInv' /\ EnvStep
<1>1. CASE phase' = "failing"
  BY <1>1, FailingFrames DEF Active
<1>2. CASE phase' # "failing"
  <2> DEFINE size == Resolve(Statement.over).size
             f == [Top EXCEPT !.left = size]
             n == Len(stack)
  <2>1. /\ Active /\ UNCHANGED skill /\ phase' = "loop" /\ phase = "stmt"
        /\ Statement.kind = "FOREACH" /\ Evaluable(Statement.uses) /\ stack' = WithTop(f)
    BY <1>2 DEF BeginForeach, AtStatement, Raises, Active
  <2>2. /\ FrameOK(skill, Top) /\ Within(skill, Top) /\ Top.at \in DOMAIN Block
        /\ Statement = StatementOf(skill, Top) /\ n \in Nat /\ n >= 1 /\ n \in 1 .. n
        /\ skill \in Skills /\ IsSeq(stack)
    BY <2>1, TopOK, ActiveFacts
  <2>3. Statement.over \in Statement.uses
    <3>1. Top.block \in DOMAIN skill.blocks
      BY <2>2 DEF FrameOK
    <3> QED BY <2>1, <2>2, <3>1, RuntimeAssumption DEF Statement, Block
  <2>4. size \in Nat
    BY <2>1, <2>3, ComputedFacts DEF Values
  <2>5. f.env = Top.env /\ f.at = Top.at /\ f.block = Top.block /\ f.left = size
        /\ DOMAIN f = {"block", "at", "left", "env"}
    BY <2>2 DEF FrameOK
  <2> HIDE DEF f, size
  <2>6. FrameOK(skill, f) /\ StatementOf(skill, f) = Statement /\ Within(skill, f)
    BY <2>2, <2>4, <2>5 DEF FrameOK, StatementOf, Within
  <2>7. /\ stack'[n] = f
        /\ \A k \in 1 .. n : k # n => stack'[k] = stack[k]
    BY <2>1, <2>2, WithTopFacts
  <2>8. \A k \in 1 .. n : stack'[k].env = stack[k].env
    BY <2>5, <2>7 DEF Top
  <2>9. \A s \in Statement.uses : \E j \in 1 .. n : s \in DOMAIN stack'[j].env
    BY <2>1, <2>2, <2>8, SeqFacts DEF Evaluable, IsBound
  <2>10. Looping(skill, stack', n)
    BY <2>1, <2>6, <2>7, <2>9 DEF Looping
  <2> QED BY <2>1, <2>5, <2>6, <2>10, TopStep
<1> QED BY <1>1, <1>2

(* In a loop the collection of the FOREACH still resolves. *)
LEMMA LoopEvaluable ==
  ASSUME CoreInv, FramesInv, phase = "loop"
  PROVE  Evaluable(Statement.uses) /\ Statement.kind = "FOREACH" /\ Looping(skill, stack, Len(stack))
<1>1. Active
  BY DEF Active
<1>2. /\ Len(stack) \in 1 .. Len(stack) /\ Statement = StatementOf(skill, Top)
      /\ DOMAIN stack = 1 .. Len(stack)
  BY <1>1, TopOK, ActiveFacts, SeqFacts
<1>3. Looping(skill, stack, Len(stack))
  BY <1>1, <1>2 DEF FramesInv
<1> QED BY <1>2, <1>3 DEF Looping, Evaluable, IsBound, Top

LEMMA FramesPush ==
  ASSUME CoreInv, FramesInv, BeginIteration
  PROVE  FramesInv' /\ EnvStep
<1>1. CASE phase' = "failing"
  BY <1>1, FailingFrames DEF Active
<1>2. CASE phase' # "failing"
  <2> DEFINE item == [Computed(Statement.uses) EXCEPT !.size = 0]
             env == [s \in {Statement.target} |-> item]
             f == Frame(Statement.block, env)
             g == [Top EXCEPT !.left = @ - 1]
             t == WithTop(g)
             n == Len(stack)
  <2>1. /\ Active /\ UNCHANGED skill /\ phase' = "block" /\ phase = "loop" /\ Top.left > 0
        /\ stack' = Append(t, f)
    BY <1>2 DEF BeginIteration, Raises, Active
  <2>2. /\ FrameOK(skill, Top) /\ Within(skill, Top) /\ Top.at \in DOMAIN Block
        /\ Statement = StatementOf(skill, Top) /\ n \in Nat /\ n >= 1 /\ n \in 1 .. n
        /\ skill \in Skills /\ IsSeq(stack) /\ Top.left \in Nat
    BY <2>1, TopOK, ActiveFacts
  <2>3. Evaluable(Statement.uses) /\ Statement.kind = "FOREACH" /\ Looping(skill, stack, n)
    BY <2>1, LoopEvaluable
  <2>4. /\ item \in Values /\ item.refs = Computed(Statement.uses).refs
        /\ item.completeness = Computed(Statement.uses).completeness
    <3>1. Computed(Statement.uses) \in Values
      BY <2>1, <2>3, ComputedFacts
    <3> QED BY <3>1 DEF Values
  <2>5. Statement.block \in DOMAIN skill.blocks /\ IsSeq(skill.blocks[Statement.block])
    <3>1. Top.block \in DOMAIN skill.blocks
      BY <2>2 DEF FrameOK
    <3>2. Statement.block \in DOMAIN skill.blocks
      BY <2>2, <2>3, <3>1, RuntimeAssumption DEF Statement, Block
    <3> QED BY <2>2, <3>2, RuntimeAssumption DEF IsSeq
  <2> HIDE DEF item
  <2>6. FrameOK(skill, f) /\ f.env = env
    <3>1. Len(skill.blocks[Statement.block]) \in Nat
      BY <2>5, SeqFacts
    <3>2. 1 \in 1 .. Len(skill.blocks[Statement.block]) + 1
      BY <3>1
    <3> QED BY <2>4, <2>5, <3>2 DEF FrameOK, Frame
  <2>7. \A s \in DOMAIN env : Bindable(s, env[s])
    BY <2>1, <2>3, <2>4 DEF Bindable
  <2>8. g.env = Top.env /\ g.at = Top.at /\ g.block = Top.block /\ g.left \in Nat
        /\ DOMAIN g = {"block", "at", "left", "env"}
    BY <2>1, <2>2 DEF FrameOK
  <2> HIDE DEF env, f, g
  <2>9. FrameOK(skill, g) /\ StatementOf(skill, g) = Statement /\ Within(skill, g)
    BY <2>2, <2>8 DEF FrameOK, StatementOf, Within
  <2>10. /\ IsSeq(t) /\ Len(t) = n /\ t[n] = g
         /\ \A k \in 1 .. n : k # n => t[k] = stack[k]
    BY <2>2, WithTopFacts
  <2> HIDE DEF t
  <2>11. /\ Len(stack') = n + 1 /\ stack'[n + 1] = f
         /\ \A k \in 1 .. n : stack'[k] = t[k]
    BY <2>1, <2>10, AppendFacts
  <2>12. \A k \in 1 .. n : stack'[k].env = stack[k].env
    BY <2>8, <2>10, <2>11 DEF Top
  <2>13. \A k \in 1 .. n : FrameOK(skill, stack'[k])
    BY <2>1, <2>9, <2>10, <2>11 DEF FramesInv
  <2>14. ASSUME NEW k \in 1 .. n PROVE Looping(skill, stack', k)
    <3>1. CASE k = n
      <4>1. stack'[n] = g
        BY <2>2, <2>10, <2>11
      <4>2. \A s \in Statement.uses : \E j \in 1 .. n : s \in DOMAIN stack'[j].env
        BY <2>2, <2>3, <2>12 DEF Looping, Top
      <4> QED BY <2>3, <2>9, <3>1, <4>1, <4>2 DEF Looping
    <3>2. CASE k # n
      <4>1. Looping(skill, stack, k)
        BY <2>1, <2>2, <3>2 DEF FramesInv
      <4>2. \A j \in 1 .. k : stack'[j] = stack[j]
        BY <2>2, <2>10, <2>11, <3>2
      <4> QED BY <4>1, <4>2, LoopingSame
    <3> QED BY <3>1, <3>2
  <2> HIDE DEF n
  <2>15. \A k : k \in 1 .. n + 1 <=> k \in 1 .. n \/ k = n + 1
    BY <2>2
  <2>16. FramesInv'
    <3>1. \A k \in 1 .. n + 1 : FrameOK(skill, stack'[k])
      BY <2>6, <2>11, <2>13, <2>15
    <3>2. \A k \in 1 .. n + 1 : k < n + 1 => Looping(skill, stack', k)
      BY <2>2, <2>14, <2>15
    <3> QED BY <2>1, <2>11, <3>1, <3>2 DEF FramesInv
  <2>17. EnvStep
    <3>1. ASSUME NEW k \in 1 .. n + 1, NEW s \in DOMAIN stack'[k].env
          PROVE  \/ /\ k \in 1 .. n /\ s \in DOMAIN stack[k].env
                    /\ stack'[k].env[s] = stack[k].env[s]
                 \/ Bindable(s, stack'[k].env[s])
      <4>1. CASE k \in 1 .. n
        BY <2>12, <3>1, <4>1
      <4>2. CASE k = n + 1
        BY <2>6, <2>7, <2>11, <3>1, <4>2
      <4> QED BY <2>15, <4>1, <4>2
    <3> QED BY <2>1, <2>11, <3>1 DEF EnvStep, n
  <2> QED BY <2>16, <2>17
<1> QED BY <1>1, <1>2

LEMMA FramesPop ==
  ASSUME CoreInv, FramesInv, EndIteration
  PROVE  FramesInv' /\ EnvStep
<1> DEFINE n == Len(stack)
<1>1. /\ Active /\ Len(stack) > 1 /\ stack' = SubSeq(stack, 1, Len(stack) - 1)
      /\ phase' = "loop" /\ UNCHANGED skill
  BY DEF EndIteration, Active
<1>2. n \in Nat /\ IsSeq(stack)
  BY <1>1, ActiveFacts
<1>3. /\ Len(stack') = n - 1
      /\ \A k \in 1 .. n - 1 : stack'[k] = stack[k]
  BY <1>1, <1>2, PopFacts
<1>4. \A k \in 1 .. n - 1 : k \in 1 .. n /\ k < n
  BY <1>2
<1>5. \A k \in 1 .. n - 1 : FrameOK(skill, stack'[k])
  BY <1>1, <1>3, <1>4 DEF FramesInv
<1>6. ASSUME NEW k \in 1 .. n - 1 PROVE Looping(skill, stack', k)
  <2>1. Looping(skill, stack, k)
    BY <1>1, <1>4 DEF FramesInv
  <2>2. \A j \in 1 .. k : stack'[j] = stack[j]
    BY <1>2, <1>3
  <2> QED BY <1>2, <2>1, <2>2, LoopingSame
<1>7. FramesInv'
  BY <1>1, <1>3, <1>5, <1>6 DEF FramesInv
<1>8. EnvStep
  BY <1>1, <1>3, <1>4 DEF EnvStep
<1> QED BY <1>7, <1>8

LEMMA FramesStep ==
  ASSUME CoreInv, FramesInv, [RuntimeNext]_runtimeVars
  PROVE  FramesInv' /\ EnvStep
BY FramesQuiet, FramesBind, FramesEndStatement, FramesLet, FramesCheck, FramesReturn,
   FramesForeach, FramesPush, FramesPop DEF RuntimeNext, EngineStep

LEMMA FramesInit == RuntimeInit => FramesInv
<1> SUFFICES ASSUME RuntimeInit PROVE FramesInv
  OBVIOUS
<1> DEFINE f == Frame("main", [s \in {} |-> Complete0])
<1>1. skill \in Skills /\ "main" \in DOMAIN skill.blocks /\ IsSeq(skill.blocks["main"])
  BY RuntimeAssumption DEF RuntimeInit, IsSeq
<1>2. 1 \in 1 .. Len(skill.blocks["main"]) + 1
  BY <1>1, SeqFacts
<1>3. FrameOK(skill, f)
  BY <1>1, <1>2 DEF FrameOK, Frame
<1>4. stack = <<f>> /\ phase = "idle"
  BY DEF RuntimeInit
<1> HIDE DEF f
<1>5. Len(stack) = 1 /\ stack[1] = f
  BY <1>4
<1> QED BY <1>3, <1>4, <1>5 DEF FramesInv

LEMMA FramesInvariant == RuntimeSpec => []FramesInv
<1>1. CoreInv /\ FramesInv /\ [RuntimeNext]_runtimeVars => FramesInv'
  BY FramesStep
<1> QED BY <1>1, CoreInvariant, FramesInit, PTL DEF RuntimeSpec

----------------------------------------------------------------------------
(* Where checks, rows and bindings come from *)

(* What _execute_check appends. *)
NewCheck(c) ==
  /\ phase = "stmt" /\ Evaluable(Statement.uses)
  /\ c.refs = Computed(Statement.uses).refs
  /\ \E truth \in BOOLEAN : c.status = CheckStatus(truth, Computed(Statement.uses).completeness)
  /\ data' = Observed(Computed(Statement.uses).completeness)

(* What _execute_emit appends. *)
NewRow(refs) ==
  phase = "stmt" /\ Evaluable(Statement.uses) /\ refs = Computed(Statement.uses).refs

LEMMA ResultSteps ==
  ASSUME CoreInv, [RuntimeNext]_runtimeVars
  PROVE  /\ checks' = checks \/ \E c : NewCheck(c) /\ checks' = Append(checks, c)
         /\ outputs' = outputs \/ \E refs : NewRow(refs) /\ outputs' = Append(outputs, refs)
<1>1. ASSUME NEW truth \in BOOLEAN, ExecuteCheck(truth)
      PROVE  outputs' = outputs /\ \E c : NewCheck(c) /\ checks' = Append(checks, c)
  <2> DEFINE v == Computed(Statement.uses)
             c == [id |-> Statement.target, status |-> CheckStatus(truth, v.completeness),
                   refs |-> v.refs]
  <2>1. /\ phase = "stmt" /\ Evaluable(Statement.uses) /\ data' = Observed(v.completeness)
        /\ checks' = Append(checks, c) /\ outputs' = outputs
    BY <1>1 DEF ExecuteCheck, AtStatement
  <2>2. NewCheck(c)
    BY <2>1 DEF NewCheck
  <2> QED BY <2>1, <2>2
<1>2. CASE ExecuteEmit
  <2>1. checks' = checks
    BY <1>2 DEF ExecuteEmit
  <2>2. \/ outputs' = outputs
        \/ /\ phase = "stmt" /\ Evaluable(Statement.uses)
           /\ outputs' = Append(outputs, Computed(Statement.uses).refs)
    BY <1>2 DEF ExecuteEmit, AtStatement
  <2> QED BY <2>1, <2>2 DEF NewRow
<1>3. CASE Reject \/ Authorize \/ PreflightFails \/ Preflight \/ BindInputs \/ BeginStatement
           \/ EndStatement \/ EvaluationFails \/ ExecuteLet \/ RuntimeTick
           \/ UNCHANGED runtimeVars
  BY <1>3 DEF Reject, Authorize, PreflightFails, Preflight, BindInputs, BeginStatement,
              EndStatement, EvaluationFails, ExecuteLet, RuntimeTick, runtimeVars, engineVars
<1>4. CASE BeginForeach \/ BeginIteration \/ EndIteration \/ EndForeach \/ StartRead
           \/ CallTool \/ Finish \/ Conclude \/ (\E r \in Results : ToolReturns(r))
           \/ ToolTimesOut \/ ContractBroken \/ ToolFails \/ Cancel
  BY <1>4 DEF BeginForeach, BeginIteration, EndIteration, EndForeach, StartRead, CallTool,
              Finish, Conclude, ToolReturns, ToolTimesOut, ContractBroken, ToolFails, Cancel
<1> QED BY <1>1, <1>2, <1>3, <1>4 DEF RuntimeNext, EngineStep

LEMMA TrailGrows ==
  ASSUME CoreInv, [RuntimeNext]_runtimeVars
  PROVE  trace' = trace \/ \E e \in Events : trace' = Append(trace, e)
<1>1. CallsRest \/ CallBegins \/ CallEnds
  BY StepKinds
<1>2. meter.tools + 1 \in Nat
  <2>1. meter.tools \in Nat
    BY CoreTypes
  <2> QED BY <2>1
<1>3. CallEvent("TOOL_STARTED", meter.tools + 1) \in Events
  BY <1>2, EventTypes0 DEF EventTypes
<1> QED BY <1>1, <1>3 DEF CallsRest, CallBegins, CallEnds

LEMMA CompletedGrows ==
  ASSUME CoreInv, trace' = trace \/ \E e \in Events : trace' = Append(trace, e)
  PROVE  Completed \subseteq Completed'
<1> DEFINE T == {"TOOL_COMPLETED"}
           n == Len(trace)
<1>0. trace \in Seq(Events)
  BY DEF CoreInv, TypesInv
<1>1. CASE trace' = trace
  BY <1>1 DEF Completed, EventsAt
<1>2. ASSUME NEW e \in Events, trace' = Append(trace, e)
      PROVE  Completed \subseteq Completed'
  <2>1. /\ EventsAt(T) \subseteq EventsAt(T)'
        /\ \A k \in 1 .. n : trace'[k] = trace[k]
    BY <1>0, <1>2, EventAdded
  <2>2. EventsAt(T) \subseteq 1 .. n
    BY <1>0, CountIsNat
  <2> QED BY <2>1, <2>2 DEF Completed
<1> QED BY <1>1, <1>2

----------------------------------------------------------------------------
(* The evidence *)

LEMMA ComputedRefs ==
  ASSUME CoreInv, EvidenceInv, Active, NEW uses, Evaluable(uses)
  PROVE  /\ Computed(uses).refs \subseteq Completed
         /\ \A s \in uses : Resolve(s).refs \subseteq Completed
<1>1. ASSUME NEW s \in uses PROVE Resolve(s).refs \subseteq Completed
  <2>1. PICK k \in 1 .. Len(stack) : s \in DOMAIN stack[k].env /\ Resolve(s) = stack[k].env[s]
    BY Resolved DEF Evaluable
  <2> QED BY <2>1 DEF EvidenceInv
<1>2. Computed(uses).refs = UNION {Resolve(s).refs : s \in uses}
  BY DEF Computed
<1> QED BY <1>1, <1>2

LEMMA EvidenceInit == RuntimeInit => EvidenceInv
<1> SUFFICES ASSUME RuntimeInit PROVE EvidenceInv
  OBVIOUS
<1>1. /\ checks = << >> /\ outputs = << >>
      /\ stack = <<Frame("main", [s \in {} |-> Complete0])>>
  BY DEF RuntimeInit
<1>2. \A k \in 1 .. Len(stack) : DOMAIN stack[k].env = {}
  BY <1>1 DEF Frame
<1> QED BY <1>1, <1>2 DEF EvidenceInv

LEMMA EvidenceStep ==
  ASSUME CoreInv, FramesInv, EvidenceInv, [RuntimeNext]_runtimeVars
  PROVE  EvidenceInv'
<1>1. Completed \subseteq Completed'
  BY TrailGrows, CompletedGrows
<1>2. IsSeq(checks) /\ IsSeq(outputs)
  BY DEF CoreInv, TypesInv
<1>3. ASSUME phase = "stmt", Evaluable(Statement.uses)
      PROVE  Computed(Statement.uses).refs \subseteq Completed
  BY <1>3, ComputedRefs DEF Active
<1>4. \A k \in DOMAIN checks' : checks'[k].refs \subseteq Completed'
  <2>1. CASE checks' = checks
    BY <1>1, <2>1 DEF EvidenceInv
  <2>2. ASSUME NEW c, NewCheck(c), checks' = Append(checks, c)
        PROVE  \A k \in DOMAIN checks' : checks'[k].refs \subseteq Completed'
    <3> DEFINE n == Len(checks)
    <3>1. /\ DOMAIN checks' = 1 .. n + 1 /\ checks'[n + 1] = c /\ n \in Nat
          /\ DOMAIN checks = 1 .. n /\ \A k \in 1 .. n : checks'[k] = checks[k]
      BY <1>2, <2>2, AppendFacts, SeqFacts
    <3>2. c.refs \subseteq Completed
      BY <1>3, <2>2 DEF NewCheck
    <3> HIDE DEF n
    <3>3. \A k \in 1 .. n + 1 : k \in 1 .. n \/ k = n + 1
      BY <3>1
    <3> QED BY <1>1, <3>1, <3>2, <3>3 DEF EvidenceInv
  <2> QED BY <2>1, <2>2, ResultSteps
<1>5. \A k \in DOMAIN outputs' : outputs'[k] \subseteq Completed'
  <2>1. CASE outputs' = outputs
    BY <1>1, <2>1 DEF EvidenceInv
  <2>2. ASSUME NEW refs, NewRow(refs), outputs' = Append(outputs, refs)
        PROVE  \A k \in DOMAIN outputs' : outputs'[k] \subseteq Completed'
    <3> DEFINE n == Len(outputs)
    <3>1. /\ DOMAIN outputs' = 1 .. n + 1 /\ outputs'[n + 1] = refs /\ n \in Nat
          /\ DOMAIN outputs = 1 .. n /\ \A k \in 1 .. n : outputs'[k] = outputs[k]
      BY <1>2, <2>2, AppendFacts, SeqFacts
    <3>2. refs \subseteq Completed
      BY <1>3, <2>2 DEF NewRow
    <3> HIDE DEF n
    <3>3. \A k \in 1 .. n + 1 : k \in 1 .. n \/ k = n + 1
      BY <3>1
    <3> QED BY <1>1, <3>1, <3>2, <3>3 DEF EvidenceInv
  <2> QED BY <2>1, <2>2, ResultSteps
<1>6. ASSUME Active', NEW k \in 1 .. Len(stack'), NEW s \in DOMAIN stack'[k].env
      PROVE  stack'[k].env[s].refs \subseteq Completed'
  <2> DEFINE v == stack'[k].env[s]
  <2> SUFFICES v.refs \subseteq Completed'
    OBVIOUS
  <2>1. Active /\ \/ k \in 1 .. Len(stack) /\ s \in DOMAIN stack[k].env /\ v = stack[k].env[s]
                  \/ Bindable(s, v)
    BY <1>6, FramesStep DEF EnvStep
  <2> HIDE DEF v
  <2>2. CASE k \in 1 .. Len(stack) /\ s \in DOMAIN stack[k].env /\ v = stack[k].env[s]
    BY <1>1, <2>1, <2>2 DEF EvidenceInv
  <2>3. CASE v = Complete0
    BY <2>3 DEF Complete0
  <2>4. CASE Evaluable(Statement.uses) /\ v.refs = Computed(Statement.uses).refs
    BY <1>1, <2>1, <2>4, ComputedRefs
  <2>5. ASSUME NEW r \in Results, v.refs = {meter.tools}, trace' = Append(trace, ReturnEvent(r))
        PROVE  v.refs \subseteq Completed'
    <3> DEFINE e == ReturnEvent(r)
    <3>1. e \in Events /\ e.type = "TOOL_COMPLETED" /\ e.call = meter.tools
      BY ReturnEvents
    <3> HIDE DEF e
    <3>2. trace \in Seq(Events) /\ trace' = Append(trace, e)
      BY <2>5 DEF CoreInv, TypesInv, e
    <3>3. Len(trace) + 1 \in EventsAt({"TOOL_COMPLETED"})' /\ trace'[Len(trace) + 1] = e
      BY <3>1, <3>2, EventAdded
    <3> QED BY <2>5, <3>1, <3>3 DEF Completed
  <2> QED BY <2>1, <2>2, <2>3, <2>4, <2>5 DEF Bindable
<1> QED BY <1>4, <1>5, <1>6 DEF EvidenceInv

LEMMA EvidenceInvariant == RuntimeSpec => []EvidenceInv
<1>1. CoreInv /\ FramesInv /\ EvidenceInv /\ [RuntimeNext]_runtimeVars => EvidenceInv'
  BY EvidenceStep
<1> QED BY <1>1, CoreInvariant, FramesInvariant, EvidenceInit, PTL DEF RuntimeSpec

(* Every call that a CheckResult or an EmitRecord refers to is on the trail *)
(* as a completed one, whatever port failed meanwhile; and only the last    *)
(* call of a run, one that is not reported as completed, can be without an  *)
(* end on the trail (_execute_read, _execute_check, _execute_emit).         *)
THEOREM EvidenceIsOnTrail == RuntimeSpec => []EvidenceOnTrail
<1>1. CoreInv /\ CallInv /\ EvidenceInv => EvidenceOnTrail
  <2> SUFFICES ASSUME CoreInv, CallInv, EvidenceInv PROVE EvidenceOnTrail
    OBVIOUS
  <2>1. ASSUME NEW k \in Starts, \A j \in Answered : trace[j].call # trace[k].call
        PROVE  /\ \A j \in Starts : j <= k
               /\ ~Ended("COMPLETED")
    <3>1. ~(trace[k].call < meter.tools) /\ ~Settled
      BY <2>1 DEF CallInv
    <3>2. ~Ended("COMPLETED")
      BY <3>1 DEF Settled
    <3>3. ASSUME NEW j \in Starts PROVE j <= k
      <4>1. trace[j].call \in 1 .. meter.tools /\ trace[k].call \in 1 .. meter.tools
        BY DEF CallInv
      <4>2. meter.tools \in Nat /\ Starts \subseteq 1 .. Len(trace) /\ Len(trace) \in Nat
        BY CoreTypes, CountIsNat DEF CoreInv, TypesInv, Starts
      <4>3. ~(k < j)
        <5>1. k < j => trace[k].call < trace[j].call
          BY DEF CallInv
        <5> QED BY <3>1, <4>1, <4>2, <5>1
      <4> QED BY <4>2, <4>3
    <3> QED BY <3>2, <3>3
  <2> QED BY <2>1 DEF EvidenceOnTrail, EvidenceInv, Starts, Answered
<1> QED BY <1>1, CoreInvariant, CallInvariant, EvidenceInvariant, PTL

----------------------------------------------------------------------------
(* Completeness *)

(* Reliable(refs), of the trail after the step. *)
ReliableAfter(refs) ==
  \A e \in EventsAt({"TOOL_COMPLETED"})' :
    trace'[e].call \in refs => trace'[e].completeness = "COMPLETE"

(* An event that adds no result of a tool. *)
NoReturn == \/ trace' = trace
            \/ \E e \in Events : e.type # "TOOL_COMPLETED" /\ trace' = Append(trace, e)

LEMMA NoReturnFacts ==
  ASSUME CoreInv, NoReturn
  PROVE  /\ EventsAt({"TOOL_COMPLETED"})' = EventsAt({"TOOL_COMPLETED"})
         /\ \A k \in EventsAt({"TOOL_COMPLETED"}) : trace'[k] = trace[k]
<1> DEFINE T == {"TOOL_COMPLETED"}
<1>1. trace \in Seq(Events)
  BY DEF CoreInv, TypesInv
<1>2. EventsAt(T) \subseteq 1 .. Len(trace)
  BY <1>1, CountIsNat
<1>3. CASE trace' = trace
  BY <1>3, CountsSame
<1>4. ASSUME NEW e \in Events, e.type # "TOOL_COMPLETED", trace' = Append(trace, e)
      PROVE  /\ EventsAt(T)' = EventsAt(T)
             /\ \A k \in EventsAt(T) : trace'[k] = trace[k]
  BY <1>1, <1>2, <1>4, EventAdded
<1> QED BY <1>3, <1>4 DEF NoReturn

LEMMA NewReturn ==
  ASSUME CoreInv, NEW e \in Events, e.type = "TOOL_COMPLETED", trace' = Append(trace, e)
  PROVE  /\ EventsAt({"TOOL_COMPLETED"})' = EventsAt({"TOOL_COMPLETED"}) \cup {Len(trace) + 1}
         /\ trace'[Len(trace) + 1] = e
         /\ \A k \in EventsAt({"TOOL_COMPLETED"}) : trace'[k] = trace[k]
<1>1. trace \in Seq(Events)
  BY DEF CoreInv, TypesInv
<1> QED BY <1>1, EventAdded, CountIsNat

LEMMA ReturnKinds ==
  ASSUME CoreInv, [RuntimeNext]_runtimeVars
  PROVE  \/ NoReturn
         \/ /\ phase = "waiting"
            /\ \E e \in Events : /\ e.type = "TOOL_COMPLETED" /\ e.call = meter.tools
                                 /\ trace' = Append(trace, e)
<1>1. CallsRest \/ CallBegins \/ CallEnds
  BY StepKinds
<1>2. meter.tools + 1 \in Nat
  <2>1. meter.tools \in Nat
    BY CoreTypes
  <2> QED BY <2>1
<1>3. /\ CallEvent("TOOL_STARTED", meter.tools + 1) \in Events
      /\ CallEvent("TOOL_STARTED", meter.tools + 1).type # "TOOL_COMPLETED"
  <2> DEFINE n == meter.tools + 1
  <2>1. n \in Nat /\ "TOOL_STARTED" \in EventTypes
    BY <1>2 DEF EventTypes
  <2> HIDE DEF n
  <2>2. CallEvent("TOOL_STARTED", n) \in Events /\ CallEvent("TOOL_STARTED", n).type = "TOOL_STARTED"
    BY <2>1, EventTypes0
  <2> QED BY <2>2 DEF n
<1> QED BY <1>1, <1>3 DEF CallsRest, CallBegins, CallEnds, NoReturn, ToolEvents

(* The call that returns is one that no older value comes from. *)
LEMMA CompletedBefore ==
  ASSUME CoreInv, CallInv, phase = "waiting"
  PROVE  meter.tools \notin Completed
<1>1. \A k \in Answered : trace[k].call \in 1 .. meter.tools /\ trace[k].call < meter.tools
  BY DEF CallInv
<1>2. EventsAt({"TOOL_COMPLETED"}) \subseteq Answered
  BY DEF Answered, EventsAt
<1>3. meter.tools \in Nat
  BY CoreTypes
<1> QED BY <1>1, <1>2, <1>3 DEF Completed

LEMMA ReliableKept ==
  ASSUME CoreInv, CallInv, [RuntimeNext]_runtimeVars
  PROVE  \A refs : refs \subseteq Completed /\ Reliable(refs) => ReliableAfter(refs)
<1>1. CASE NoReturn
  BY <1>1, NoReturnFacts DEF Reliable, ReliableAfter
<1>2. ASSUME phase = "waiting", NEW e \in Events, e.type = "TOOL_COMPLETED",
             e.call = meter.tools, trace' = Append(trace, e),
             NEW refs, refs \subseteq Completed, Reliable(refs)
      PROVE  ReliableAfter(refs)
  <2>1. e.call \notin refs
    BY <1>2, CompletedBefore
  <2> QED BY <1>2, <2>1, NewReturn DEF Reliable, ReliableAfter
<1> QED BY <1>1, <1>2, ReturnKinds

LEMMA CombinedComplete ==
  /\ \A C \in SUBSET Completenesses : Combined(C) = "COMPLETE" => C \subseteq {"COMPLETE"}
  /\ data \in Completenesses => \A c \in Completenesses :
       Observed(c) = "COMPLETE" => data = "COMPLETE" /\ c = "COMPLETE"
BY DEF Combined, Observed, Completenesses

LEMMA ComputedReliable ==
  ASSUME CoreInv, FramesInv, HonestInv, ChecksStandAlone, phase \in {"stmt", "loop"},
         Evaluable(Statement.uses), Computed(Statement.uses).completeness = "COMPLETE"
  PROVE  Reliable(Computed(Statement.uses).refs)
<1> DEFINE uses == Statement.uses
           C == {Resolve(s).completeness : s \in uses}
<1>1. Active
  BY DEF Active
<1>2. \A s \in uses : Resolve(s) \in Values
  BY <1>1, ComputedFacts
<1>3. C \in SUBSET Completenesses
  BY <1>2 DEF Values
<1>4. Combined(C) = "COMPLETE"
  BY DEF Computed
<1>5. \A s \in uses : Resolve(s).completeness = "COMPLETE"
  <2>1. C \subseteq {"COMPLETE"}
    <3> HIDE DEF C
    <3> QED BY <1>3, <1>4, CombinedComplete
  <2> QED BY <2>1
<1>6. ASSUME NEW s \in uses PROVE ~IsCheck(s)
  <2>1. skill \in Skills /\ Top.block \in DOMAIN skill.blocks /\ Top.at \in DOMAIN Block
    BY <1>1, ActiveFacts, TopOK DEF FrameOK
  <2> QED BY <1>6, <2>1 DEF IsCheck, ChecksStandAlone, Statement, Block
<1>7. ASSUME NEW s \in uses PROVE Reliable(Resolve(s).refs)
  <2>1. PICK k \in 1 .. Len(stack) : s \in DOMAIN stack[k].env /\ Resolve(s) = stack[k].env[s]
    BY <1>1, Resolved DEF Evaluable
  <2> QED BY <1>1, <1>5, <1>6, <2>1 DEF HonestInv
<1>8. Computed(uses).refs = UNION {Resolve(s).refs : s \in uses}
  BY DEF Computed
<1> QED BY <1>7, <1>8 DEF Reliable

----------------------------------------------------------------------------
(* What the run has seen *)

(* An answer comes from a tool, and its completeness is observed. *)
LEMMA ReturnStep ==
  ASSUME CoreInv, [RuntimeNext]_runtimeVars, phase = "waiting", Active', phase' # "waiting"
  PROVE  \E r \in Results : trace' = Append(trace, ReturnEvent(r)) /\ data' = Observed(r.completeness)
<1>1. ASSUME NEW r \in Results, ToolReturns(r)
      PROVE  trace' = Append(trace, ReturnEvent(r)) /\ data' = Observed(r.completeness)
  BY <1>1 DEF ToolReturns, ReturnEvent, Emits, EmitsThenRaises, Raises, Active
<1>2. ~(ToolTimesOut \/ ContractBroken \/ ToolFails \/ Cancel \/ Conclude)
  BY DEF ToolTimesOut, ContractBroken, ToolFails, Cancel, Conclude, Ends, EmitsThenRaises,
         Raises, Active
<1>3. ~(RuntimeTick \/ UNCHANGED runtimeVars)
  BY DEF RuntimeTick, runtimeVars, engineVars
<1>4. ~(Reject \/ Authorize \/ PreflightFails \/ Preflight \/ BindInputs \/ BeginStatement
        \/ EndStatement \/ EvaluationFails \/ ExecuteLet \/ (\E truth \in BOOLEAN : ExecuteCheck(truth)))
  BY DEF Reject, Authorize, PreflightFails, Preflight, BindInputs, BeginStatement,
         EndStatement, EvaluationFails, ExecuteLet, ExecuteCheck, AtStatement
<1>5. ~(ExecuteEmit \/ BeginForeach \/ BeginIteration \/ EndIteration \/ EndForeach
        \/ StartRead \/ CallTool \/ Finish)
  BY DEF ExecuteEmit, BeginForeach, BeginIteration, EndIteration, EndForeach, StartRead,
         CallTool, Finish, AtEnd, AtStatement
<1> QED BY <1>1, <1>2, <1>3, <1>4, <1>5 DEF RuntimeNext, EngineStep

LEMMA DataStep ==
  ASSUME CoreInv, [RuntimeNext]_runtimeVars
  PROVE  data' = data \/ \E c \in Completenesses : data' = Observed(c)
<1>1. Computed(Statement.uses).completeness \in Completenesses
  BY CombinedType DEF Computed
<1>2. \A r \in Results : r.completeness \in Completenesses
  BY RuntimeAssumption
<1>3. CASE Reject \/ Authorize \/ PreflightFails \/ Preflight \/ BindInputs \/ BeginStatement
           \/ EndStatement \/ EvaluationFails \/ RuntimeTick \/ UNCHANGED runtimeVars
  BY <1>3 DEF Reject, Authorize, PreflightFails, Preflight, BindInputs, BeginStatement,
              EndStatement, EvaluationFails, RuntimeTick, runtimeVars, engineVars
<1>4. CASE ExecuteLet \/ (\E truth \in BOOLEAN : ExecuteCheck(truth)) \/ ExecuteEmit
           \/ BeginForeach \/ StartRead
  BY <1>1, <1>4 DEF ExecuteLet, ExecuteCheck, ExecuteEmit, BeginForeach, StartRead
<1>5. CASE BeginIteration \/ EndIteration \/ EndForeach \/ CallTool \/ Finish \/ Conclude
           \/ ToolTimesOut \/ ContractBroken \/ ToolFails \/ Cancel
  BY <1>5 DEF BeginIteration, EndIteration, EndForeach, CallTool, Finish, Conclude,
              ToolTimesOut, ContractBroken, ToolFails, Cancel
<1>6. ASSUME NEW r \in Results, ToolReturns(r)
      PROVE  data' = data \/ data' = Observed(r.completeness)
  BY <1>6 DEF ToolReturns
<1> QED BY <1>2, <1>3, <1>4, <1>5, <1>6 DEF RuntimeNext, EngineStep

LEMMA EndStep ==
  ASSUME CoreInv, [RuntimeNext]_runtimeVars, Ended("COMPLETED")'
  PROVE  \/ UNCHANGED <<trace, checks, result>>
         \/ /\ Active /\ result'.completeness = data /\ checks' = checks
            /\ trace' = Append(trace, Event("EXECUTION_COMPLETED"))
<1>1. result' # NoResult /\ result'.status = "COMPLETED"
  BY DEF Ended
<1>2. phase # "done" => result = NoResult
  BY DEF CoreInv, StoryInv
<1>3. CASE Finish
  BY <1>1, <1>2, <1>3 DEF Finish, AtEnd, Emits, Raises, Active
<1>4. CASE UNCHANGED runtimeVars
  BY <1>4 DEF runtimeVars, engineVars
<1>5. CASE Reject \/ Cancel
  BY <1>1, <1>5 DEF Reject, Cancel, Ends
<1>6. CASE Conclude
  <2>1. cause # "COMPLETED"
    BY DEF CoreInv, TypesInv, Failures
  <2> QED BY <1>1, <1>6, <2>1 DEF Conclude, Ends
<1>7. CASE Authorize \/ PreflightFails \/ Preflight \/ BindInputs \/ BeginStatement
           \/ EndStatement \/ EvaluationFails \/ RuntimeTick
  BY <1>1, <1>2, <1>7 DEF Authorize, PreflightFails, Preflight, BindInputs, BeginStatement,
              EndStatement, EvaluationFails, RuntimeTick
<1>8. CASE ExecuteLet \/ (\E truth \in BOOLEAN : ExecuteCheck(truth)) \/ ExecuteEmit
           \/ BeginForeach \/ StartRead
  BY <1>1, <1>2, <1>8 DEF ExecuteLet, ExecuteCheck, ExecuteEmit, BeginForeach, StartRead, AtStatement
<1>9. CASE BeginIteration \/ EndIteration \/ EndForeach \/ CallTool
           \/ ToolTimesOut \/ ContractBroken \/ ToolFails \/ (\E r \in Results : ToolReturns(r))
  BY <1>1, <1>2, <1>9 DEF BeginIteration, EndIteration, EndForeach, CallTool,
              ToolTimesOut, ContractBroken, ToolFails, ToolReturns
<1> QED BY <1>3, <1>4, <1>5, <1>6, <1>7, <1>8, <1>9 DEF RuntimeNext, EngineStep

(* As long as data_completeness is COMPLETE all answers were. *)
LEMMA DataCompleteStep ==
  ASSUME CoreInv, FramesInv, HonestInv, [RuntimeNext]_runtimeVars, Active', data' = "COMPLETE"
  PROVE  DataComplete'
<1>1. Active
  BY FramesStep DEF EnvStep
<1>2. data \in Completenesses /\ IsSeq(checks)
  BY <1>1, ActiveFacts
<1>3. data = "COMPLETE"
  BY <1>2, DataStep, CombinedComplete
<1>4. DataComplete
  BY <1>1, <1>3 DEF HonestInv
<1>5. \A e \in EventsAt({"TOOL_COMPLETED"})' : trace'[e].completeness = "COMPLETE"
  <2>1. CASE NoReturn
    BY <1>4, <2>1, NoReturnFacts DEF DataComplete
  <2>2. CASE ~NoReturn
    <3>1. phase = "waiting"
      BY <2>2, ReturnKinds
    <3>2. phase' # "waiting"
      <4>1. CallEnds
        <5>1. CallsRest => NoReturn
          BY DEF CallsRest, NoReturn, ToolEvents
        <5> QED BY <2>2, <3>1, <5>1, StepKinds DEF CallBegins
      <4> QED BY <4>1 DEF CallEnds
    <3>3. PICK r \in Results : trace' = Append(trace, ReturnEvent(r)) /\ data' = Observed(r.completeness)
      BY <3>1, <3>2, ReturnStep
    <3>4. r.completeness = "COMPLETE"
      BY <1>2, <3>3, CombinedComplete, RuntimeAssumption
    <3>5. /\ ReturnEvent(r) \in Events /\ ReturnEvent(r).type = "TOOL_COMPLETED"
          /\ ReturnEvent(r).completeness = r.completeness
      BY ReturnEvents
    <3>6. /\ EventsAt({"TOOL_COMPLETED"})' = EventsAt({"TOOL_COMPLETED"}) \cup {Len(trace) + 1}
          /\ trace'[Len(trace) + 1] = ReturnEvent(r)
          /\ \A k \in EventsAt({"TOOL_COMPLETED"}) : trace'[k] = trace[k]
      BY <3>3, <3>5, NewReturn
    <3> QED BY <1>4, <3>4, <3>5, <3>6 DEF DataComplete
  <2> QED BY <2>1, <2>2
<1>6. \A k \in DOMAIN checks' : checks'[k].status # "UNKNOWN"
  <2>1. CASE checks' = checks
    BY <1>4, <2>1 DEF DataComplete
  <2>2. ASSUME NEW c, NewCheck(c), checks' = Append(checks, c)
        PROVE  \A k \in DOMAIN checks' : checks'[k].status # "UNKNOWN"
    <3> DEFINE n == Len(checks)
    <3>1. /\ DOMAIN checks' = 1 .. n + 1 /\ checks'[n + 1] = c /\ n \in Nat
          /\ DOMAIN checks = 1 .. n /\ \A k \in 1 .. n : checks'[k] = checks[k]
      BY <1>2, <2>2, AppendFacts, SeqFacts
    <3>2. Computed(Statement.uses).completeness \in Completenesses
      BY CombinedType DEF Computed
    <3>3. Computed(Statement.uses).completeness = "COMPLETE"
      BY <1>2, <2>2, <3>2, CombinedComplete DEF NewCheck
    <3>4. c.status # "UNKNOWN"
      BY <2>2, <3>3 DEF NewCheck, CheckStatus
    <3> HIDE DEF n
    <3>5. \A k \in 1 .. n + 1 : k \in 1 .. n \/ k = n + 1
      BY <3>1
    <3> QED BY <1>4, <3>1, <3>4, <3>5 DEF DataComplete
  <2> QED BY <2>1, <2>2, ResultSteps
<1> QED BY <1>5, <1>6 DEF DataComplete

LEMMA HonestInit == RuntimeInit => HonestInv
<1> SUFFICES ASSUME RuntimeInit PROVE HonestInv
  OBVIOUS
<1>1. /\ checks = << >> /\ trace = << >> /\ result = NoResult
      /\ stack = <<Frame("main", [s \in {} |-> Complete0])>>
  BY DEF RuntimeInit
<1>2. \A k \in 1 .. Len(stack) : DOMAIN stack[k].env = {}
  BY <1>1 DEF Frame
<1>3. DataComplete /\ ~Ended("COMPLETED")
  BY <1>1 DEF DataComplete, EventsAt, Ended
<1> QED BY <1>1, <1>2, <1>3 DEF HonestInv

LEMMA HonestStep ==
  ASSUME ChecksStandAlone, CoreInv, CallInv, FramesInv, EvidenceInv, HonestInv,
         [RuntimeNext]_runtimeVars
  PROVE  HonestInv'
<1>1. skill' = skill /\ IsSeq(checks)
  <2>1. IsSeq(checks)
    BY DEF CoreInv, TypesInv
  <2>2. skill' = skill
    BY DEF RuntimeNext, EngineStep, Reject, Authorize, PreflightFails, Preflight, BindInputs,
           BeginStatement, EndStatement, EvaluationFails, ExecuteLet, ExecuteCheck, ExecuteEmit,
           BeginForeach, BeginIteration, EndIteration, EndForeach, StartRead, CallTool, Finish,
           Conclude, ToolReturns, ToolTimesOut, ContractBroken, ToolFails, Cancel, RuntimeTick,
           runtimeVars
  <2> QED BY <2>1, <2>2
<1>2. ASSUME phase \in {"stmt", "loop"}, Evaluable(Statement.uses),
             Computed(Statement.uses).completeness = "COMPLETE"
      PROVE  ReliableAfter(Computed(Statement.uses).refs)
  <2>1. Computed(Statement.uses).refs \subseteq Completed
    BY <1>2, ComputedRefs DEF Active
  <2> QED BY <1>2, <2>1, ComputedReliable, ReliableKept
<1>3. \A k \in DOMAIN checks' : checks'[k].status = "PASS" => ReliableAfter(checks'[k].refs)
  <2>1. \A k \in DOMAIN checks : checks[k].status = "PASS" => ReliableAfter(checks[k].refs)
    BY ReliableKept DEF HonestInv, EvidenceInv
  <2>2. ASSUME NEW c, NewCheck(c), checks' = Append(checks, c)
        PROVE  \A k \in DOMAIN checks' : checks'[k].status = "PASS" => ReliableAfter(checks'[k].refs)
    <3> DEFINE n == Len(checks)
    <3>1. /\ DOMAIN checks' = 1 .. n + 1 /\ checks'[n + 1] = c /\ n \in Nat
          /\ DOMAIN checks = 1 .. n /\ \A k \in 1 .. n : checks'[k] = checks[k]
      BY <1>1, <2>2, AppendFacts, SeqFacts
    <3>2. c.status = "PASS" => ReliableAfter(c.refs)
      <4>1. c.status = "PASS" => Computed(Statement.uses).completeness = "COMPLETE"
        BY <2>2 DEF NewCheck, CheckStatus
      <4> QED BY <1>2, <2>2, <4>1 DEF NewCheck
    <3> HIDE DEF n
    <3>3. \A k \in 1 .. n + 1 : k \in 1 .. n \/ k = n + 1
      BY <3>1
    <3> QED BY <2>1, <3>1, <3>2, <3>3
  <2> QED BY <2>1, <2>2, ResultSteps
<1>4. ASSUME Active', NEW k \in 1 .. Len(stack'), NEW s \in DOMAIN stack'[k].env,
             stack'[k].env[s].completeness = "COMPLETE", ~IsCheck(s)
      PROVE  ReliableAfter(stack'[k].env[s].refs)
  <2> DEFINE v == stack'[k].env[s]
  <2> SUFFICES ReliableAfter(v.refs)
    OBVIOUS
  <2>1. v.completeness = "COMPLETE"
    BY <1>4
  <2>2. Active /\ \/ k \in 1 .. Len(stack) /\ s \in DOMAIN stack[k].env /\ v = stack[k].env[s]
                  \/ Bindable(s, v)
    BY <1>4, FramesStep DEF EnvStep
  <2> HIDE DEF v
  <2>3. CASE k \in 1 .. Len(stack) /\ s \in DOMAIN stack[k].env /\ v = stack[k].env[s]
    BY <1>4, <2>1, <2>2, <2>3, ReliableKept DEF HonestInv, EvidenceInv
  <2>4. CASE v = Complete0
    BY <2>4 DEF Complete0, ReliableAfter
  <2>5. ~(phase = "stmt" /\ Statement.kind = "CHECK" /\ s = Statement.target)
    <3>1. SUFFICES ASSUME phase = "stmt", Statement.kind = "CHECK", s = Statement.target
                   PROVE  IsCheck(s)
      BY <1>4
    <3>2. Top.block \in DOMAIN skill.blocks /\ Top.at \in DOMAIN Block
      BY <2>2, <3>1, TopOK DEF FrameOK
    <3> QED BY <3>1, <3>2 DEF IsCheck, Statement, Block
  <2>6. CASE /\ phase \in {"stmt", "loop"} /\ Evaluable(Statement.uses)
             /\ v.refs = Computed(Statement.uses).refs
             /\ v.completeness = Computed(Statement.uses).completeness
    BY <1>2, <2>1, <2>6
  <2>7. ASSUME phase = "waiting", NEW r \in Results, v.refs = {meter.tools},
               v.completeness = r.completeness, trace' = Append(trace, ReturnEvent(r))
        PROVE  ReliableAfter(v.refs)
    <3>1. meter.tools \notin Completed
      BY <2>7, CompletedBefore
    <3>2. /\ ReturnEvent(r) \in Events /\ ReturnEvent(r).type = "TOOL_COMPLETED"
          /\ ReturnEvent(r).completeness = r.completeness
      BY ReturnEvents
    <3>3. /\ EventsAt({"TOOL_COMPLETED"})' = EventsAt({"TOOL_COMPLETED"}) \cup {Len(trace) + 1}
          /\ trace'[Len(trace) + 1] = ReturnEvent(r)
          /\ \A e \in EventsAt({"TOOL_COMPLETED"}) : trace'[e] = trace[e]
      BY <2>7, <3>2, NewReturn
    <3>4. \A e \in EventsAt({"TOOL_COMPLETED"}) : trace[e].call # meter.tools
      BY <3>1 DEF Completed
    <3> QED BY <2>1, <2>7, <3>2, <3>3, <3>4 DEF ReliableAfter
  <2> QED BY <2>2, <2>3, <2>4, <2>5, <2>6, <2>7 DEF Bindable
<1>5. Active' /\ data' = "COMPLETE" => DataComplete'
  BY DataCompleteStep
<1>6. Ended("COMPLETED")' /\ result'.completeness = "COMPLETE" => DataComplete'
  <2> SUFFICES ASSUME Ended("COMPLETED")', result'.completeness = "COMPLETE" PROVE DataComplete'
    OBVIOUS
  <2>1. CASE UNCHANGED <<trace, checks, result>>
    BY <2>1 DEF HonestInv, Ended, DataComplete, EventsAt
  <2>2. CASE /\ Active /\ result'.completeness = data /\ checks' = checks
             /\ trace' = Append(trace, Event("EXECUTION_COMPLETED"))
    <3>1. DataComplete
      BY <2>2 DEF HonestInv
    <3>2. NoReturn
      BY <2>2, EventTypes0 DEF NoReturn, EventTypes, Terminal
    <3> QED BY <2>2, <3>1, <3>2, NoReturnFacts DEF DataComplete
  <2> QED BY <2>1, <2>2, EndStep
<1> QED BY <1>1, <1>3, <1>4, <1>5, <1>6 DEF HonestInv, Reliable, ReliableAfter, IsCheck

(* A PASS rests on complete answers only, through every LET and iterator,   *)
(* and a run that reports COMPLETED and COMPLETE has seen nothing else: in  *)
(* Skills none of whose statements uses the status of another CHECK, which  *)
(* is complete by itself (StrictRuleEvaluator, observe_completeness).       *)
THEOREM CompletenessIsReported ==
  ASSUME ChecksStandAlone
  PROVE  RuntimeSpec => []CompletenessIsHonest
<1>1. CoreInv /\ CallInv /\ FramesInv /\ EvidenceInv /\ HonestInv /\ [RuntimeNext]_runtimeVars
        => HonestInv'
  BY HonestStep
<1>2. HonestInv => CompletenessIsHonest
  BY DEF HonestInv, CompletenessIsHonest, Reliable, DataComplete
<1> QED BY <1>1, <1>2, CoreInvariant, CallInvariant, FramesInvariant, EvidenceInvariant,
        HonestInit, PTL DEF RuntimeSpec
=============================================================================
