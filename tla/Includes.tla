------------------------------ MODULE Includes ------------------------------
(***************************************************************************)
(* The include graph of a Skill: SourceBundleBuilder reads the root source  *)
(* and, depth first, every fragment it includes; SourceComposer merges the  *)
(* declarations of the bundle into one Skill.                               *)
(*                                                                          *)
(* A path is the sequence of its parts, an absolute path begins with "/".   *)
(* A content is a record of what the builder and the composer look at: the  *)
(* include paths, the required tools (tool and version), the context fields *)
(* (name and type), the number of limits blocks, the size, and whether the  *)
(* bytes are UTF-8 and the text parses.  A source id is the hash of path    *)
(* and text, so a source stands for its own id.  A resolver reads the file  *)
(* at every declaration, and the file may have been edited since the last   *)
(* one; what a file holds is chosen when it is read first.                  *)
(***************************************************************************)
EXTENDS Integers, Sequences, FiniteSets

CONSTANTS
  RootPath,        \* logical path of the root source
  RootContents,    \* what the root source can hold
  ContentsAt,      \* paths of the files there can be, to what they can hold
  IncludeRoot,     \* IncludeOptions.include_root
  MaxDepth,        \* IncludeOptions.max_include_depth
  MaxFiles,        \* IncludeOptions.max_include_files
  MaxBytes,        \* IncludeOptions.max_total_source_bytes
  MaxEdits,        \* bound for model checking: edits while a bundle is built
  Absent

Elements(s) == {s[k] : k \in DOMAIN s}

Paths == Seq(STRING)
Contents == RootContents \cup UNION Elements(ContentsAt)

(* DiagnosticCode: the include diagnostics *)
IncludeCodes ==
  {"INC_CYCLE", "INC_RESOLUTION_FAILED", "INC_PATH_OUTSIDE_ROOT", "INC_DEPTH_LIMIT",
   "INC_FILE_LIMIT", "INC_BUNDLE_SIZE_LIMIT", "INC_DUPLICATE_CONTEXT", "INC_DUPLICATE_LIMIT",
   "INC_TOOL_VERSION_CONFLICT", "INC_REQUIRED_LIMITS_MISSING"}

(* IncludeOptions.__post_init__; what the parser makes of a source: the     *)
(* root has at most one limits block, a fragment may have several.          *)
ASSUME IncludeAssumption ==
  /\ {MaxDepth, MaxFiles, MaxBytes, MaxEdits} \subseteq Nat
  /\ {RootPath, IncludeRoot} \subseteq Paths
  /\ Absent \notin Paths \cup IncludeCodes
  /\ \A c \in Contents :
       /\ c.includes \in Seq(Paths)
       /\ c.requires \in Seq(Elements(c.requires)) /\ c.contexts \in Seq(Elements(c.contexts))
       /\ {c.size, c.limits} \subseteq Nat
  /\ \A c \in RootContents : c.limits <= 1

VARIABLES
  stage,      \* "root", "visit", "compose", "composed" or "refused"
  stack,      \* the calls of visit: source and next declaration
  visited, active,
  fragments,  \* in the order of the visit
  edges,      \* IncludeEdges
  bytes,      \* total_source_bytes
  disk,       \* what the files held when they were read last
  edits,
  merged,     \* the composer's requires, contexts and limits
  refusal     \* the diagnostic code, or Absent

includeVars == <<stage, stack, visited, active, fragments, edges, bytes, disk, edits, merged, refusal>>

Source(p, c) == [path |-> p, content |-> c]

IncludeInit ==
  /\ stage = "root" /\ refusal = Absent /\ merged = Absent
  /\ stack = << >> /\ fragments = << >> /\ edges = {}
  /\ visited = {} /\ active = {}
  /\ bytes = 0 /\ edits = 0
  /\ disk = [p \in {} |-> Absent]

----------------------------------------------------------------------------
(* canonical_include_path; Absent stands for ValueError *)

Parent(p) == SubSeq(p, 1, Len(p) - 1)

(* The parts of d, walked from base; never above its first floor parts. *)
Walk(base, floor, d) ==
  LET to[n \in 0 .. Len(d)] ==
        IF n = 0 THEN base
        ELSE LET t == to[n - 1] IN
          IF t = Absent \/ d[n] = "." THEN t
          ELSE IF d[n] # ".." THEN Append(t, d[n])
          ELSE IF Len(t) <= floor THEN Absent ELSE Parent(t)
  IN to[Len(d)]

NormalizedParts(d) == Walk(<< >>, 0, d)

Within(dir, root) ==
  dir # Absent /\ root # Absent /\ Len(root) <= Len(dir) /\ SubSeq(dir, 1, Len(root)) = root

CanonicalIncludePath(including, d) ==
  LET root == NormalizedParts(IncludeRoot)
      base == NormalizedParts(Parent(including))
  IN IF d = << >> \/ d[1] = "/" \/ ~Within(base, root) THEN Absent
     ELSE Walk(base, Len(root), d)

----------------------------------------------------------------------------
(* SourceBundleBuilder.build *)

Refuse(code) ==
  /\ stage' = "refused" /\ refusal' = code
  /\ UNCHANGED <<stack, visited, active, fragments, edges, bytes, merged>>

(* compile calls build for a root with includes. *)
ReadRoot(c) ==
  /\ stage = "root"
  /\ c.includes # << >>
  /\ disk' = [p \in {RootPath} |-> c]
  /\ UNCHANGED edits
  /\ IF c.size > MaxBytes THEN Refuse("INC_BUNDLE_SIZE_LIMIT")
     ELSE IF ~c.parses THEN Refuse("PARSE")
     ELSE /\ stage' = "visit"
          /\ stack' = <<[source |-> Source(RootPath, c), next |-> 1]>>
          /\ visited' = {Source(RootPath, c)} /\ active' = {Source(RootPath, c)}
          /\ bytes' = c.size
          /\ UNCHANGED <<fragments, edges, merged, refusal>>

Top == stack[Len(stack)]
Root == stack[1].source
Declared == stage = "visit" /\ Top.next <= Len(Top.source.content.includes)
Declaration == Top.source.content.includes[Top.next]
Target == CanonicalIncludePath(Top.source.path, Declaration)

(* The two tests before the resolver is asked. *)
RefusePath ==
  /\ Declared
  /\ Len(stack) > MaxDepth \/ Target = Absent
  /\ Refuse(IF Len(stack) > MaxDepth THEN "INC_DEPTH_LIMIT" ELSE "INC_PATH_OUTSIDE_ROOT")
  /\ UNCHANGED <<disk, edits>>

(* IncludeResolver.resolve: FileSystemIncludeResolver and                   *)
(* MemoryIncludeResolver.  c is what the file at the target path holds now, *)
(* Absent if there is no such file; another resolver may stray from the path. *)
Resolves(c) ==
  /\ Declared
  /\ Len(stack) <= MaxDepth /\ Target # Absent
  /\ c \in {Absent} \cup (IF Target \in DOMAIN ContentsAt THEN ContentsAt[Target] ELSE {})
                  \cup (IF Target \in DOMAIN disk THEN {disk[Target]} ELSE {})
  /\ edits' = IF Target \in DOMAIN disk /\ disk[Target] # c THEN edits + 1 ELSE edits
  /\ edits' <= MaxEdits
  /\ disk' = [p \in DOMAIN disk \cup {Target} |-> IF p = Target THEN c ELSE disk[p]]

ResolveFails ==
  /\ Resolves(Absent)
  /\ Refuse("INC_RESOLUTION_FAILED")

(* from_bytes raises ValueError, which build does not turn into a diagnostic. *)
DecodeFails(c) ==
  /\ Resolves(c) /\ c # Absent /\ ~c.utf8
  /\ Refuse("ValueError")

ResolverStrays(c) ==
  /\ Resolves(c) /\ c # Absent /\ c.utf8
  /\ Refuse("INC_PATH_OUTSIDE_ROOT")

(* Mutant: a source that was visited is visited again. *)
VerdictRevisiting(s) ==
  IF s \in active THEN "INC_CYCLE"
  ELSE IF Len(fragments) >= MaxFiles THEN "INC_FILE_LIMIT"
  ELSE IF bytes + s.content.size > MaxBytes THEN "INC_BUNDLE_SIZE_LIMIT"
  ELSE IF ~s.content.parses THEN "PARSE"
  ELSE "VISIT"

(* What visit does with a resolved source, in the order of its tests. *)
Verdict(s) ==
  IF s \in active THEN "INC_CYCLE"
  ELSE IF s \in visited THEN "CONTINUE"
  ELSE IF Len(fragments) >= MaxFiles THEN "INC_FILE_LIMIT"
  ELSE IF bytes + s.content.size > MaxBytes THEN "INC_BUNDLE_SIZE_LIMIT"
  ELSE IF ~s.content.parses THEN "PARSE"
  ELSE "VISIT"

Include(c) ==
  /\ Resolves(c) /\ c # Absent /\ c.utf8
  /\ LET s == Source(Target, c)
         advanced == [stack EXCEPT ![Len(stack)].next = @ + 1]
         v == Verdict(s)
     IN /\ edges' = edges \cup {<<Top.source, s>>}
        /\ IF v = "VISIT"
           THEN /\ visited' = visited \cup {s} /\ active' = active \cup {s}
                /\ fragments' = Append(fragments, s)
                /\ bytes' = bytes + c.size
                /\ stack' = Append(advanced, [source |-> s, next |-> 1])
                /\ UNCHANGED <<stage, refusal>>
           ELSE /\ stack' = IF v = "CONTINUE" THEN advanced ELSE stack
                /\ stage' = IF v = "CONTINUE" THEN stage ELSE "refused"
                /\ refusal' = IF v = "CONTINUE" THEN Absent ELSE v
                /\ UNCHANGED <<visited, active, fragments, bytes>>
  /\ UNCHANGED merged

(* compose starts from the root: of two declarations of one tool or context *)
(* the last one is kept.  The field by which they are told apart is key.    *)
LastOf(s, key) ==
  {s[k] : k \in {k \in DOMAIN s : \A j \in DOMAIN s : j > k => s[j][key] # s[k][key]}}

(* visit returns, and left is active then; from the root the bundle goes to *)
(* SourceComposer.compose.                                                  *)
Return(left) ==
  /\ stage = "visit" /\ ~Declared
  /\ IF Len(stack) > 1
     THEN /\ stack' = SubSeq(stack, 1, Len(stack) - 1)
          /\ active' = left
          /\ UNCHANGED <<stage, merged>>
     ELSE /\ stage' = "compose"
          /\ merged' = [next |-> 1, limits |-> Root.content.limits,
                        requires |-> LastOf(Root.content.requires, "tool"),
                        contexts |-> LastOf(Root.content.contexts, "name")]
          /\ UNCHANGED <<stack, active>>
  /\ UNCHANGED <<visited, fragments, edges, bytes, disk, edits, refusal>>

(* Mutant: a source stays active when its visit is over. *)
LeaveActive == Return(active)

Leave == Return(active \ {Top.source})

----------------------------------------------------------------------------
(* SourceComposer.compose *)

Functional(R, key) == \A r, q \in R : r[key] = q[key] => r = q

(* One turn of the loop over the fragments. *)
ComposeFragment ==
  /\ stage = "compose" /\ merged.next <= Len(fragments)
  /\ UNCHANGED <<disk, edits>>
  /\ LET c == fragments[merged.next].content
         requires == merged.requires \cup Elements(c.requires)
         names == {f.name : f \in merged.contexts}
     IN IF ~Functional(requires, "tool") THEN Refuse("INC_TOOL_VERSION_CONFLICT")
        ELSE IF \E k \in DOMAIN c.contexts :
                  c.contexts[k].name \in names \cup {c.contexts[j].name : j \in 1 .. k - 1}
        THEN Refuse("INC_DUPLICATE_CONTEXT")
        ELSE IF c.limits > 0 /\ (merged.limits > 0 \/ c.limits > 1)
        THEN Refuse("INC_DUPLICATE_LIMIT")
        ELSE /\ merged' = [next |-> merged.next + 1, limits |-> merged.limits + c.limits,
                           requires |-> requires,
                           contexts |-> merged.contexts \cup Elements(c.contexts)]
             /\ UNCHANGED <<stage, stack, visited, active, fragments, edges, bytes, refusal>>

FinishCompose ==
  /\ stage = "compose" /\ merged.next > Len(fragments)
  /\ UNCHANGED <<disk, edits>>
  /\ IF merged.limits = 0 THEN Refuse("INC_REQUIRED_LIMITS_MISSING")
     ELSE /\ stage' = "composed"
          /\ UNCHANGED <<stack, visited, active, fragments, edges, bytes, merged, refusal>>

IncludeNext ==
  \/ \E c \in RootContents : ReadRoot(c)
  \/ RefusePath
  \/ ResolveFails
  \/ \E c \in Contents :
       DecodeFails(c) \/ ResolverStrays(c) \/ Include(c)
  \/ Leave
  \/ ComposeFragment
  \/ FinishCompose

IncludeSpec == IncludeInit /\ [][IncludeNext]_includeVars

----------------------------------------------------------------------------
(* Properties *)

Sources == {Root} \cup {e[2] : e \in edges}

(* A nonempty set of sources each of which includes one of them. *)
Cyclic == \E S \in (SUBSET Sources) \ {{}} : \A u \in S : \E v \in S : <<u, v>> \in edges

(* The bytes and the limits blocks of all sources in S, each source and     *)
(* number once.                                                             *)
SourceBytes(S) == Cardinality(UNION {{s} \X (1 .. s.content.size) : s \in S})
LimitsBlocks(S) == Cardinality(UNION {{s} \X (1 .. s.content.limits) : s \in S})

(* What the composed Skill is made of: exactly the root and what it         *)
(* includes, directly or not, each source once; every include declaration   *)
(* is followed, to the file its path leads to inside the include root;      *)
(* nothing includes itself, the limits hold, and unless a file was edited   *)
(* meanwhile no two sources are versions of one file.  Every declaration of *)
(* a fragment is in the Skill as it was written, no name has two meanings   *)
(* and there is one limits block.  (Of several declarations of one name in  *)
(* the root itself the last one is kept.)                                   *)
BundleIsClosure ==
  stage = "composed" =>
    /\ Cardinality(Elements(fragments)) = Len(fragments)
    /\ Root \notin Elements(fragments)
    /\ Sources = {Root} \cup Elements(fragments)
    /\ \A S \in SUBSET Sources :
         Root \in S /\ (\A e \in edges : e[1] \in S => e[2] \in S) => S = Sources
    /\ \A u \in Sources : \A d \in Elements(u.content.includes) :
         \E v \in Sources : <<u, v>> \in edges /\ v.path = CanonicalIncludePath(u.path, d)
    /\ \A v \in Elements(fragments) : Within(v.path, NormalizedParts(IncludeRoot))
    /\ ~Cyclic
    /\ Len(fragments) <= MaxFiles /\ SourceBytes(Sources) <= MaxBytes
    /\ edits = 0 => \A u, v \in Sources : u.path = v.path => u = v
    /\ \A v \in Elements(fragments) :
         /\ Elements(v.content.requires) \subseteq merged.requires
         /\ Elements(v.content.contexts) \subseteq merged.contexts
    /\ Functional(merged.requires, "tool") /\ Functional(merged.contexts, "name")
    /\ LimitsBlocks(Sources) = 1

(* A Skill is refused only for what its sources really contain: a cycle, a  *)
(* chain of different sources longer than the limit, more files or bytes    *)
(* than allowed, counting a source once however often it is included, two   *)
(* versions of a tool, a context that two sources or one fragment declare   *)
(* twice, none or several limits blocks.                                    *)
RefusedForCause ==
  /\ refusal = "INC_CYCLE" => Cyclic
  /\ refusal = "INC_DEPTH_LIMIT" =>
       Cardinality({stack[k].source : k \in DOMAIN stack}) = MaxDepth + 1
  /\ refusal = "INC_FILE_LIMIT" => Cardinality(Sources \ {Root}) > MaxFiles
  /\ refusal = "INC_BUNDLE_SIZE_LIMIT" /\ stack # << >> => SourceBytes(Sources) > MaxBytes
  /\ refusal = "INC_TOOL_VERSION_CONFLICT" =>
       ~Functional(UNION {Elements(s.content.requires) : s \in Sources}, "tool")
  /\ refusal = "INC_DUPLICATE_CONTEXT" =>
       \E s, t \in Sources : \E j \in DOMAIN s.content.contexts, k \in DOMAIN t.content.contexts :
         <<s, j>> # <<t, k>> /\ s.content.contexts[j].name = t.content.contexts[k].name
  /\ refusal = "INC_DUPLICATE_LIMIT" => LimitsBlocks(Sources) > 1
  /\ refusal = "INC_REQUIRED_LIMITS_MISSING" => LimitsBlocks(Sources) = 0
=============================================================================
