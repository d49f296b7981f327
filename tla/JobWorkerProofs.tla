--------------------------- MODULE JobWorkerProofs ---------------------------
(***************************************************************************)
(* Proofs about AuditStore and JobWorker, for every set of executions and   *)
(* workers, any number of failing writes, crashes and removals, and files   *)
(* of any length.                                                           *)
(***************************************************************************)
EXTENDS JobWorker, FiniteSetTheorems, SequenceTheorems, WellFoundedInduction,
        TLAPS

----------------------------------------------------------------------------
(* Numbers and sequences *)

(* A nonempty set of natural numbers has a least element. *)
LEMMA LeastNumber ==
  ASSUME NEW S, S \subseteq Nat, S # {}
  PROVE  \E m \in S : \A k \in S : m <= k
<1> DEFINE Less == {ss \in Nat \X Nat : ss[1] < ss[2]}
<1>1. IsWellFoundedOn(Less, Nat)
  BY NatLessThanWellFounded DEF OpToRel
<1>2. PICK m \in S : \A k \in S : <<k, m>> \notin Less
  BY <1>1, WFMin
<1>3. ASSUME NEW k \in S
      PROVE  m <= k
  <2>1. k \in Nat /\ m \in Nat
    OBVIOUS
  <2>2. k < m => <<k, m>> \in Less
    BY <2>1
  <2> QED BY <1>2, <2>1, <2>2
<1> QED BY <1>3

(* A nonempty set of line numbers has a greatest element. *)
LEMMA GreatestNumber ==
  ASSUME NEW n \in Nat, NEW S, S \subseteq 1 .. n, S # {}
  PROVE  \E m \in S : \A k \in S : k <= m
<1> DEFINE Rest == {n - k : k \in S}
<1>1. Rest \subseteq Nat /\ Rest # {}
  <2>1. PICK k \in S : TRUE
    OBVIOUS
  <2>2. n - k \in Rest
    BY <2>1
  <2>3. \A j \in S : n - j \in Nat
    OBVIOUS
  <2> QED BY <2>2, <2>3
<1>2. PICK r \in Rest : \A k \in Rest : r <= k
  BY <1>1, LeastNumber
<1>3. PICK m \in S : r = n - m
  OBVIOUS
<1>4. ASSUME NEW k \in S
      PROVE  k <= m
  <2>1. r <= n - k
    BY <1>2
  <2> QED BY <1>3, <2>1
<1> QED BY <1>4

(* The last event goes on top of the recorder's trail. *)
LEMMA FrontOfAppend ==
  ASSUME NEW S, NEW r \in Seq(S), NEW x \in S
  PROVE  /\ Append(r, x) \in Seq(S)
         /\ Append(r, x) # << >>
         /\ FrontOf(Append(r, x)) = r
         /\ Append(r, x)[Len(Append(r, x))] = x
BY DEF FrontOf

LEMMA FrontType ==
  ASSUME NEW S, NEW t \in Seq(S), t # << >>
  PROVE  /\ FrontOf(t) \in Seq(S)
         /\ Len(FrontOf(t)) = Len(t) - 1
         /\ \A i \in 1 .. Len(t) - 1 : FrontOf(t)[i] = t[i]
<1>1. Len(t) \in Nat /\ Len(t) # 0
  OBVIOUS
<1>2. SubSeq(t, 1, Len(t) - 1) \in Seq(S)
  BY <1>1
<1>3. Len(SubSeq(t, 1, Len(t) - 1)) = Len(t) - 1
  BY <1>1, SubSeqProperties
<1>4. \A i \in 1 .. Len(t) - 1 : SubSeq(t, 1, Len(t) - 1)[i] = t[i]
  BY <1>1
<1> QED BY <1>2, <1>3, <1>4 DEF FrontOf

(* Prefixes, by their elements. *)
LEMMA PrefixByElements ==
  ASSUME NEW S, NEW s \in Seq(S), NEW t \in Seq(S)
  PROVE  Prefix(s, t) <=> Len(s) <= Len(t) /\ \A i \in 1 .. Len(s) : s[i] = t[i]
<1>1. ASSUME Len(s) <= Len(t)
      PROVE  s = SubSeq(t, 1, Len(s)) <=> \A i \in 1 .. Len(s) : s[i] = t[i]
  <2>1. SubSeq(t, 1, Len(s)) \in Seq(S) /\ Len(SubSeq(t, 1, Len(s))) = Len(s)
    BY <1>1
  <2>2. \A i \in 1 .. Len(s) : SubSeq(t, 1, Len(s))[i] = t[i]
    BY <1>1
  <2> QED BY <2>1, <2>2
<1> QED BY <1>1 DEF Prefix

LEMMA PrefixOfItself ==
  ASSUME NEW S, NEW s \in Seq(S)
  PROVE  Prefix(s, s)
BY PrefixByElements

LEMMA EmptyIsPrefix ==
  ASSUME NEW S, NEW s \in Seq(S)
  PROVE  Prefix(<< >>, s)
<1>1. SubSeq(s, 1, 0) = << >> /\ Len(<< >>) = 0 /\ 0 <= Len(s)
  OBVIOUS
<1> QED BY <1>1 DEF Prefix

LEMMA PrefixOfEmpty ==
  ASSUME NEW S, NEW s \in Seq(S), Prefix(s, << >>)
  PROVE  s = << >>
BY DEF Prefix

LEMMA PrefixOfFront ==
  ASSUME NEW S, NEW s \in Seq(S), NEW t \in Seq(S), t # << >>, Prefix(s, FrontOf(t))
  PROVE  Prefix(s, t)
<1>1. /\ FrontOf(t) \in Seq(S)
      /\ Len(FrontOf(t)) = Len(t) - 1
      /\ \A i \in 1 .. Len(t) - 1 : FrontOf(t)[i] = t[i]
  BY FrontType
<1>2. Len(s) <= Len(FrontOf(t)) /\ \A i \in 1 .. Len(s) : s[i] = FrontOf(t)[i]
  BY <1>1, PrefixByElements
<1>3. Len(s) <= Len(t) /\ \A i \in 1 .. Len(s) : s[i] = t[i]
  BY <1>1, <1>2
<1> QED BY <1>3, PrefixByElements

----------------------------------------------------------------------------
(* The file *)

RunEvents ==
  {"EXECUTION_REJECTED", "EXECUTION_STARTED", "TOOL_STARTED", "TOOL_COMPLETED", "TOOL_FAILED",
   "EXECUTION_COMPLETED", "EXECUTION_FAILED"}

Events ==
  [type : RunEvents \cup WriteEvents \cup {"WRITE_VERIFIED", "WRITE_VERIFICATION_FAILED"},
   value : Answers \cup Identities \cup Nat \cup {None}]

Trails == Seq(Events) \ {<< >>}

StoredRecords == [exec : Execs, trail : Trails, expires : Int]

Files == Seq(StoredRecords \cup {Torn})

(* The records of e in the first n lines. *)
Mine(f, e, n) == {k \in 1 .. n : f[k] # Torn /\ f[k].exec = e}

(* The lines of e form a chain. *)
Chain(f, e) == \A k \in DOMAIN f : f[k] # Torn /\ f[k].exec = e => Continues(f, k)

LEMMA RecordNotTorn ==
  /\ Torn \notin StoredRecords
  /\ \A r \in StoredRecords : r # Torn /\ r.exec \in Execs /\ r.trail \in Trails
BY DEF StoredRecords, Torn

LEMMA LineOf ==
  ASSUME NEW f \in Files, NEW k \in DOMAIN f, f[k] # Torn
  PROVE  f[k] \in StoredRecords /\ f[k].exec \in Execs /\ f[k].trail \in Trails
BY RecordNotTorn DEF Files

(* LastOf is the greatest of the lines of e. *)
LEMMA LastOfIs ==
  ASSUME NEW f \in Files, NEW e, NEW n \in 0 .. Len(f)
  PROVE  /\ Mine(f, e, n) = {} => LastOf(f, e, n) = 0
         /\ \A k \in Mine(f, e, n) : (\A j \in Mine(f, e, n) : j <= k) => LastOf(f, e, n) = k
         /\ Mine(f, e, n) # {} => /\ LastOf(f, e, n) \in Mine(f, e, n)
                                  /\ \A j \in Mine(f, e, n) : j <= LastOf(f, e, n)
<1> DEFINE mine == {k \in 1 .. n : k \in Records(f) /\ f[k].exec = e}
           last == CHOOSE k \in mine : \A j \in mine : j <= k
<1>1. mine = Mine(f, e, n)
  BY DEF Mine, Records, Files
<1>2. LastOf(f, e, n) = IF mine = {} THEN 0 ELSE last
  BY DEF LastOf
<1>3. ASSUME mine # {}
      PROVE  last \in mine /\ \A j \in mine : j <= last
  <2>1. n \in Nat /\ mine \subseteq 1 .. n
    BY DEF Files
  <2>2. \E k \in mine : \A j \in mine : j <= k
    BY <1>3, <2>1, GreatestNumber
  <2> HIDE DEF mine
  <2> QED BY <2>2
<1>4. ASSUME NEW k \in mine, \A j \in mine : j <= k
      PROVE  last = k
  <2>1. last \in mine /\ k <= last /\ last <= k
    BY <1>3, <1>4
  <2>2. mine \subseteq Nat
    BY DEF Files
  <2> HIDE DEF mine, last
  <2> QED BY <2>1, <2>2
<1> HIDE DEF mine, last
<1>5. Mine(f, e, n) = {} => LastOf(f, e, n) = 0
  BY <1>1, <1>2
<1>6. Mine(f, e, n) # {} => /\ LastOf(f, e, n) \in Mine(f, e, n)
                            /\ \A j \in Mine(f, e, n) : j <= LastOf(f, e, n)
  BY <1>1, <1>2, <1>3
<1>7. \A k \in Mine(f, e, n) : (\A j \in Mine(f, e, n) : j <= k) => LastOf(f, e, n) = k
  BY <1>1, <1>2, <1>4
<1> QED BY <1>5, <1>6, <1>7

(* The trail of e is the one of its last line, or empty. *)
LEMMA TrailAtIs ==
  ASSUME NEW f \in Files, NEW e, NEW n \in 0 .. Len(f)
  PROVE  /\ Mine(f, e, n) = {} => TrailAt(f, e, n) = << >>
         /\ \A k \in Mine(f, e, n) :
              (\A j \in Mine(f, e, n) : j <= k) => TrailAt(f, e, n) = f[k].trail
         /\ Mine(f, e, n) # {} =>
              \E k \in Mine(f, e, n) : /\ \A j \in Mine(f, e, n) : j <= k
                                       /\ TrailAt(f, e, n) = f[k].trail
         /\ TrailAt(f, e, n) \in Seq(Events)
<1>1. \A k \in Mine(f, e, n) : k # 0 /\ k \in DOMAIN f /\ f[k] # Torn
  BY DEF Mine, Files
<1>2. TrailAt(f, e, n) = IF LastOf(f, e, n) = 0 THEN << >> ELSE f[LastOf(f, e, n)].trail
  BY DEF TrailAt
<1>3. Mine(f, e, n) = {} => TrailAt(f, e, n) = << >>
  BY <1>2, LastOfIs
<1>4. ASSUME NEW k \in Mine(f, e, n), \A j \in Mine(f, e, n) : j <= k
      PROVE  TrailAt(f, e, n) = f[k].trail
  <2>1. LastOf(f, e, n) = k
    BY <1>4, LastOfIs
  <2> QED BY <1>1, <1>2, <2>1
<1>5. ASSUME Mine(f, e, n) # {}
      PROVE  \E k \in Mine(f, e, n) : /\ \A j \in Mine(f, e, n) : j <= k
                                      /\ TrailAt(f, e, n) = f[k].trail
  <2>1. /\ LastOf(f, e, n) \in Mine(f, e, n)
        /\ \A j \in Mine(f, e, n) : j <= LastOf(f, e, n)
    BY <1>5, LastOfIs
  <2> QED BY <1>4, <2>1
<1>6. TrailAt(f, e, n) \in Seq(Events)
  <2>1. CASE Mine(f, e, n) = {}
    BY <1>3, <2>1
  <2>2. CASE Mine(f, e, n) # {}
    <3>1. PICK k \in Mine(f, e, n) : TrailAt(f, e, n) = f[k].trail
      BY <1>5, <2>2
    <3> QED BY <1>1, <3>1, LineOf DEF Trails
  <2> QED BY <2>1, <2>2
<1> QED BY <1>3, <1>4, <1>5, <1>6

(* Only the lines up to n matter. *)
LEMMA TrailAtLocal ==
  ASSUME NEW f \in Files, NEW g \in Files, NEW e, NEW n \in 0 .. Len(f), n <= Len(g),
         Mine(f, e, n) = Mine(g, e, n), \A k \in Mine(f, e, n) : f[k] = g[k]
  PROVE  TrailAt(f, e, n) = TrailAt(g, e, n)
<1>1. n \in 0 .. Len(g)
  BY DEF Files
<1>2. CASE Mine(f, e, n) = {}
  <2>1. TrailAt(f, e, n) = << >>
    BY <1>2, TrailAtIs
  <2>2. TrailAt(g, e, n) = << >>
    BY <1>1, <1>2, TrailAtIs
  <2> QED BY <2>1, <2>2
<1>3. CASE Mine(f, e, n) # {}
  <2>1. PICK k \in Mine(f, e, n) : /\ \A j \in Mine(f, e, n) : j <= k
                                   /\ TrailAt(f, e, n) = f[k].trail
    BY <1>3, TrailAtIs
  <2>2. TrailAt(g, e, n) = g[k].trail
    BY <1>1, <2>1, TrailAtIs
  <2> QED BY <2>1, <2>2
<1> QED BY <1>2, <1>3

(* A line is added: the trails before it stay, its own execution gets a new *)
(* last one, and the chains of the others are as they were.                 *)
LEMMA AppendedLine ==
  ASSUME NEW f \in Files, NEW line \in StoredRecords \cup {Torn}
  PROVE  LET g == Append(f, line) IN
         /\ g \in Files
         /\ \A e : \A n \in 0 .. Len(f) : TrailAt(g, e, n) = TrailAt(f, e, n)
         /\ \A e : line = Torn \/ line.exec # e => TrailAt(g, e, Len(g)) = TrailAt(f, e, Len(f))
         /\ line # Torn => TrailAt(g, line.exec, Len(g)) = line.trail
<1> DEFINE g == Append(f, line)
<1>1. /\ g \in Files /\ Len(f) \in Nat /\ Len(g) = Len(f) + 1
      /\ \A k \in 1 .. Len(f) : g[k] = f[k]
      /\ g[Len(f) + 1] = line
  BY DEF Files
<1> HIDE DEF g
<1>2. ASSUME NEW e, NEW n \in 0 .. Len(f)
      PROVE  TrailAt(g, e, n) = TrailAt(f, e, n)
  <2>1. Mine(f, e, n) = Mine(g, e, n) /\ \A k \in Mine(f, e, n) : f[k] = g[k]
    BY <1>1 DEF Mine
  <2> QED BY <1>1, <2>1, TrailAtLocal
<1>3. ASSUME NEW e, line = Torn \/ line.exec # e
      PROVE  TrailAt(g, e, Len(g)) = TrailAt(f, e, Len(f))
  <2>1. Mine(g, e, Len(g)) = Mine(f, e, Len(f))
    BY <1>1, <1>3 DEF Mine
  <2>2. \A k \in Mine(f, e, Len(f)) : k \in 1 .. Len(f) /\ f[k] = g[k]
    BY <1>1 DEF Mine
  <2>3. Len(f) \in 0 .. Len(f) /\ Len(g) \in 0 .. Len(g)
    BY <1>1
  <2>4. CASE Mine(f, e, Len(f)) = {}
    <3>1. TrailAt(f, e, Len(f)) = << >>
      BY <2>3, <2>4, TrailAtIs
    <3>2. TrailAt(g, e, Len(g)) = << >>
      BY <1>1, <2>1, <2>3, <2>4, TrailAtIs
    <3> QED BY <3>1, <3>2
  <2>5. CASE Mine(f, e, Len(f)) # {}
    <3>1. PICK k \in Mine(f, e, Len(f)) : /\ \A j \in Mine(f, e, Len(f)) : j <= k
                                          /\ TrailAt(f, e, Len(f)) = f[k].trail
      BY <2>3, <2>5, TrailAtIs
    <3>2. TrailAt(g, e, Len(g)) = g[k].trail
      BY <1>1, <2>1, <2>3, <3>1, TrailAtIs
    <3> QED BY <2>2, <3>1, <3>2
  <2> QED BY <2>4, <2>5
<1>4. ASSUME line # Torn
      PROVE  TrailAt(g, line.exec, Len(g)) = line.trail
  <2>1. Len(g) \in Mine(g, line.exec, Len(g)) /\ \A j \in Mine(g, line.exec, Len(g)) : j <= Len(g)
    BY <1>1, <1>4 DEF Mine
  <2>2. Len(g) \in 0 .. Len(g)
    BY <1>1
  <2>3. TrailAt(g, line.exec, Len(g)) = g[Len(g)].trail
    BY <1>1, <2>1, <2>2, TrailAtIs
  <2> QED BY <1>1, <2>3
<1> QED BY <1>1, <1>2, <1>3, <1>4 DEF g

(* A chain in the longer file is one in the shorter, and the added line     *)
(* continues it.                                                            *)
LEMMA AppendedChain ==
  ASSUME NEW f \in Files, NEW line \in StoredRecords, NEW e
  PROVE  Chain(Append(f, line), e) <=>
           /\ Chain(f, e)
           /\ line.exec = e => FrontOf(line.trail) = TrailAt(f, e, Len(f))
<1> DEFINE g == Append(f, line)
<1>1. /\ g \in Files /\ Len(f) \in Nat /\ Len(g) = Len(f) + 1
      /\ DOMAIN f = 1 .. Len(f) /\ DOMAIN g = 1 .. Len(f) + 1
      /\ \A k \in 1 .. Len(f) : g[k] = f[k]
      /\ g[Len(f) + 1] = line
  BY DEF Files
<1>2. \A n \in 0 .. Len(f) : \A x : TrailAt(g, x, n) = TrailAt(f, x, n)
  BY AppendedLine
<1> HIDE DEF g
<1>3. \A k \in 1 .. Len(f) : Continues(g, k) <=> Continues(f, k)
  <2>1. \A k \in 1 .. Len(f) : k - 1 \in 0 .. Len(f)
    BY <1>1
  <2> QED BY <1>1, <1>2, <2>1 DEF Continues
<1>4. Continues(g, Len(f) + 1) <=> FrontOf(line.trail) = TrailAt(f, line.exec, Len(f))
  <2>1. (Len(f) + 1) - 1 = Len(f) /\ Len(f) \in 0 .. Len(f)
    BY <1>1
  <2> QED BY <1>1, <1>2, <2>1 DEF Continues
<1>5. Chain(g, e) <=> /\ \A k \in 1 .. Len(f) : f[k] # Torn /\ f[k].exec = e => Continues(f, k)
                      /\ line # Torn /\ line.exec = e => Continues(g, Len(f) + 1)
  <2>1. 1 .. Len(f) + 1 = (1 .. Len(f)) \cup {Len(f) + 1}
    BY <1>1
  <2> QED BY <1>1, <1>3, <2>1 DEF Chain
<1> QED BY <1>1, <1>4, <1>5, RecordNotTorn DEF Chain, g

----------------------------------------------------------------------------
(* The filter of a rewrite *)

(* The places of the lines that are kept number them in their order. *)
LEMMA PlacesNumber ==
  ASSUME NEW n \in Nat, NEW kept, kept \subseteq 1 .. n
  PROVE  LET place(k) == Cardinality({j \in kept : j <= k}) IN
         /\ Cardinality(kept) \in Nat
         /\ \A k \in kept : place(k) \in 1 .. Cardinality(kept)
         /\ \A k, l \in kept : k < l => place(k) < place(l)
         /\ \A i \in 1 .. Cardinality(kept) : \E k \in kept : place(k) = i
<1> DEFINE upTo(k) == {j \in kept : j <= k}
           place(k) == Cardinality(upTo(k))
           size == Cardinality(kept)
<1>1. IsFiniteSet(kept)
  <2>1. IsFiniteSet(1 .. n)
    BY FS_Interval
  <2> QED BY <2>1, FS_Subset
<1>2. size \in Nat
  BY <1>1, FS_CardinalityType
<1>3. ASSUME NEW k \in kept
      PROVE  IsFiniteSet(upTo(k)) /\ place(k) \in 1 .. size
  <2>1. upTo(k) \in SUBSET kept /\ k \in upTo(k)
    OBVIOUS
  <2>2. IsFiniteSet(upTo(k)) /\ place(k) <= size
    BY <1>1, <2>1, FS_Subset
  <2>3. place(k) \in Nat /\ place(k) # 0
    BY <2>1, <2>2, FS_CardinalityType, FS_EmptySet
  <2> HIDE DEF place, upTo, size
  <2> QED BY <1>2, <2>2, <2>3
<1>4. ASSUME NEW k \in kept, NEW l \in kept, k < l
      PROVE  place(k) < place(l)
  <2>0. \A j \in kept : j \in Int
    OBVIOUS
  <2>1. l \notin upTo(k) /\ upTo(k) \cup {l} \in SUBSET upTo(l)
    <3>1. ~(l <= k) /\ l <= l
      BY <1>4, <2>0
    <3>2. \A j \in kept : j <= k => j <= l
      BY <1>4, <2>0
    <3> QED BY <3>1, <3>2
  <2>2. IsFiniteSet(upTo(k)) /\ IsFiniteSet(upTo(l)) /\ place(k) \in Nat /\ place(l) \in Nat
    BY <1>3, <1>2, FS_CardinalityType
  <2>3. Cardinality(upTo(k) \cup {l}) = place(k) + 1
    BY <2>1, <2>2, FS_AddElement
  <2>4. Cardinality(upTo(k) \cup {l}) <= place(l)
    BY <2>1, <2>2, FS_Subset
  <2> HIDE DEF place, upTo
  <2> QED BY <2>2, <2>3, <2>4
<1> HIDE DEF place, upTo
<1> DEFINE p == [k \in kept |-> place(k)]
<1>5. p \in Injection(kept, 1 .. size)
  <2>1. p \in [kept -> 1 .. size]
    BY <1>3
  <2>2. \A k, l \in kept : p[k] = p[l] => k = l
    <3> SUFFICES ASSUME NEW k \in kept, NEW l \in kept, place(k) = place(l), k # l
                 PROVE  FALSE
      OBVIOUS
    <3>1. k < l \/ l < k
      OBVIOUS
    <3>2. place(k) \in Nat /\ place(l) \in Nat
      BY <1>2, <1>3
    <3> QED BY <1>4, <3>1, <3>2
  <2> HIDE DEF p, size
  <2> QED BY <2>1, <2>2 DEF Injection, IsInjective
<1>6. IsFiniteSet(1 .. size) /\ Cardinality(1 .. size) = size
  BY <1>2, FS_Interval
<1>7. p \in Surjection(kept, 1 .. size)
  BY <1>5, <1>6, FS_Injection
<1>8. \A i \in 1 .. size : \E k \in kept : place(k) = i
  BY <1>7 DEF Surjection
<1> QED BY <1>2, <1>3, <1>4, <1>8 DEF place, upTo

(* h numbers the elements of kept from 1 to n, in their order. *)
Enumerates(h, n, kept) ==
  /\ h \in [1 .. n -> kept]
  /\ \A i, j \in 1 .. n : i < j <=> h[i] < h[j]
  /\ \A k \in kept : \E i \in 1 .. n : h[i] = k

(* g consists of the lines of f that h picks. *)
Picks(g, f, h, n) == g = [i \in 1 .. n |-> f[h[i]]]

(* The lines of g up to m are picked from the lines of f up to l. *)
Corresponds(h, n, m, l) == \A i \in 1 .. n : i <= m <=> h[i] <= l

(* What Keep keeps: exactly those lines, in the same order. *)
LEMMA KeepsLines ==
  ASSUME NEW f \in Files, NEW kept, kept \subseteq DOMAIN f
  PROVE  \E n \in Nat : \E h : Enumerates(h, n, kept) /\ Picks(Keep(f, kept), f, h, n)
<1> DEFINE place(k) == Cardinality({j \in kept : j <= k})
           n == Cardinality(kept)
           h == [i \in 1 .. n |-> CHOOSE k \in kept : place(k) = i]
<1>0. Len(f) \in Nat /\ kept \subseteq 1 .. Len(f)
  BY DEF Files
<1>1. /\ n \in Nat
      /\ \A k \in kept : place(k) \in 1 .. n
      /\ \A k, l \in kept : k < l => place(k) < place(l)
      /\ \A i \in 1 .. n : \E k \in kept : place(k) = i
  BY <1>0, PlacesNumber
<1>2. Keep(f, kept) = [i \in 1 .. n |-> f[h[i]]]
  BY DEF Keep
<1> HIDE DEF place, n
<1>3. \A i \in 1 .. n : h[i] \in kept /\ place(h[i]) = i
  BY <1>1
<1>4. h \in [1 .. n -> kept]
  BY <1>3
<1> HIDE DEF h
<1>5. ASSUME NEW i \in 1 .. n, NEW j \in 1 .. n
      PROVE  i < j <=> h[i] < h[j]
  <2>1. h[i] \in kept /\ h[j] \in kept /\ place(h[i]) = i /\ place(h[j]) = j
    BY <1>3
  <2>2. h[i] \in Int /\ h[j] \in Int /\ i \in Int /\ j \in Int
    BY <1>0, <2>1
  <2>3. h[i] < h[j] => i < j
    BY <1>1, <2>1
  <2>4. h[j] < h[i] => j < i
    BY <1>1, <2>1
  <2>5. h[i] = h[j] => i = j
    BY <2>1
  <2> QED BY <2>2, <2>3, <2>4, <2>5
<1>6. ASSUME NEW k \in kept
      PROVE  \E i \in 1 .. n : h[i] = k
  <2>1. place(k) \in 1 .. n
    BY <1>1
  <2>2. h[place(k)] \in kept /\ place(h[place(k)]) = place(k)
    BY <1>3, <2>1
  <2>3. k \in Int /\ h[place(k)] \in Int
    BY <1>0, <2>2
  <2>4. ~(k < h[place(k)]) /\ ~(h[place(k)] < k)
    BY <1>1, <2>1, <2>2
  <2> QED BY <2>1, <2>3, <2>4
<1>7. Enumerates(h, n, kept) /\ Picks(Keep(f, kept), f, h, n)
  BY <1>2, <1>4, <1>5, <1>6 DEF Enumerates, Picks
<1> QED BY <1>1, <1>7

(* The trail of e in the kept lines up to m is the one in all lines up to l, *)
(* if these are the same lines of e.                                         *)
LEMMA KeptTrail ==
  ASSUME NEW f \in Files, NEW g \in Files, NEW n \in Nat, NEW h, NEW kept,
         kept \subseteq DOMAIN f, Enumerates(h, n, kept), Picks(g, f, h, n),
         NEW e, Mine(f, e, Len(f)) \subseteq kept,
         NEW m \in 0 .. n, NEW l \in 0 .. Len(f), Corresponds(h, n, m, l)
  PROVE  TrailAt(g, e, m) = TrailAt(f, e, l)
<1>p. g = [i \in 1 .. n |-> f[h[i]]]
  BY DEF Picks
<1>g. Len(g) = n
  BY <1>p, LenProperties DEF Files
<1>0. Len(f) \in Nat /\ DOMAIN f = 1 .. Len(f) /\ m \in 0 .. Len(g)
  BY <1>g DEF Files
<1>h. /\ h \in [1 .. n -> DOMAIN f] /\ \A i \in 1 .. n : g[i] = f[h[i]]
      /\ \A i, j \in 1 .. n : i < j <=> h[i] < h[j]
      /\ \A k \in Mine(f, e, Len(f)) : \E i \in 1 .. n : h[i] = k
      /\ \A i \in 1 .. n : i <= m <=> h[i] <= l
  BY <1>p DEF Enumerates, Corresponds
<1>1. ASSUME NEW i \in Mine(g, e, m)
      PROVE  h[i] \in Mine(f, e, l)
  <2>1. i \in 1 .. n /\ i <= m /\ g[i] # Torn /\ g[i].exec = e
    BY DEF Mine
  <2>2. h[i] \in 1 .. Len(f) /\ h[i] <= l /\ g[i] = f[h[i]]
    BY <1>0, <1>h, <2>1
  <2>3. h[i] \in 1 .. l
    BY <1>0, <2>2
  <2> QED BY <2>1, <2>2, <2>3 DEF Mine
<1>2. ASSUME NEW k \in Mine(f, e, l)
      PROVE  \E i \in Mine(g, e, m) : h[i] = k
  <2>1. k \in 1 .. Len(f) /\ k <= l /\ f[k] # Torn /\ f[k].exec = e
    BY <1>0 DEF Mine
  <2>2. k \in Mine(f, e, Len(f))
    BY <2>1 DEF Mine
  <2>3. PICK i \in 1 .. n : h[i] = k
    BY <1>h, <2>2
  <2>4. i <= m /\ g[i] = f[k]
    BY <1>h, <2>1, <2>3
  <2>5. i \in 1 .. m
    BY <2>3, <2>4
  <2>6. i \in Mine(g, e, m)
    BY <2>1, <2>4, <2>5 DEF Mine
  <2> QED BY <2>3, <2>6
<1>3. CASE Mine(f, e, l) = {}
  <2>1. Mine(g, e, m) = {}
    BY <1>1, <1>3
  <2>2. TrailAt(g, e, m) = << >>
    BY <1>0, <2>1, TrailAtIs
  <2>3. TrailAt(f, e, l) = << >>
    BY <1>3, TrailAtIs
  <2> QED BY <2>2, <2>3
<1>4. CASE Mine(f, e, l) # {}
  <2>1. Mine(g, e, m) # {}
    BY <1>2, <1>4
  <2>2. PICK i \in Mine(g, e, m) : /\ \A j \in Mine(g, e, m) : j <= i
                                   /\ TrailAt(g, e, m) = g[i].trail
    BY <1>0, <2>1, TrailAtIs
  <2>3. i \in 1 .. n /\ h[i] \in Mine(f, e, l) /\ g[i] = f[h[i]]
    BY <1>1, <1>h DEF Mine
  <2>4. ASSUME NEW k \in Mine(f, e, l)
        PROVE  k <= h[i]
    <3>1. PICK j \in Mine(g, e, m) : h[j] = k
      BY <1>2
    <3>2. j \in 1 .. n /\ j <= i
      BY <2>2 DEF Mine
    <3>3. ~(i < j)
      BY <2>3, <3>2
    <3>4. ~(h[i] < h[j]) /\ h[i] \in Int /\ h[j] \in Int
      BY <1>0, <1>h, <2>3, <3>2, <3>3
    <3> QED BY <3>1, <3>4
  <2>5. TrailAt(f, e, l) = f[h[i]].trail
    BY <2>3, <2>4, TrailAtIs
  <2> QED BY <2>2, <2>3, <2>5
<1> QED BY <1>3, <1>4

(* A rewrite keeps the chain and the last trail of every execution that it  *)
(* does not remove, and nothing of the others.                              *)
LEMMA WithoutKeeps ==
  ASSUME NEW f \in Files, Readable(f), NEW gone
  PROVE  LET g == Without(f, gone) IN
         /\ g \in Files /\ Readable(g)
         /\ \A e : e \in gone => Chain(g, e) /\ TrailAt(g, e, Len(g)) = << >>
         /\ \A e : e \notin gone => /\ Chain(g, e) <=> Chain(f, e)
                                    /\ TrailAt(g, e, Len(g)) = TrailAt(f, e, Len(f))
<1> DEFINE kept == {k \in DOMAIN f : f[k].exec \notin gone}
           g == Without(f, gone)
<1>0. Len(f) \in Nat /\ DOMAIN f = 1 .. Len(f)
  BY DEF Files
<1>1. \A k \in DOMAIN f : f[k] # Torn /\ f[k] \in StoredRecords
  BY LineOf DEF Readable, Records
<1>k. kept \subseteq DOMAIN f /\ g = Keep(f, kept) /\ \A k \in kept : f[k].exec \notin gone
  BY DEF Without
<1>i. \A k \in DOMAIN f : f[k].exec \notin gone => k \in kept
  OBVIOUS
<1> HIDE DEF kept, g
<1>2. PICK n \in Nat : \E h : Enumerates(h, n, kept) /\ Picks(Keep(f, kept), f, h, n)
  BY <1>k, KeepsLines
<1>3. PICK h : Enumerates(h, n, kept) /\ Picks(g, f, h, n)
  BY <1>2, <1>k
<1>4. /\ g = [i \in 1 .. n |-> f[h[i]]]
      /\ h \in [1 .. n -> kept]
      /\ \A i, j \in 1 .. n : i < j <=> h[i] < h[j]
      /\ \A k \in kept : \E i \in 1 .. n : h[i] = k
  BY <1>3 DEF Enumerates, Picks
<1>5. \A i \in 1 .. n : h[i] \in DOMAIN f /\ f[h[i]].exec \notin gone
  BY <1>4, <1>k
<1>6. /\ g \in Seq(StoredRecords) /\ Len(g) = n /\ DOMAIN g = 1 .. n
      /\ \A i \in 1 .. n : g[i] = f[h[i]] /\ g[i] \in StoredRecords
  <2>1. g \in [1 .. n -> StoredRecords]
    BY <1>1, <1>4, <1>5
  <2>2. g \in Seq(StoredRecords) /\ Len(g) = n
    BY <2>1, IsASeq, LenProperties
  <2> QED BY <1>4, <2>1, <2>2
<1>7. g \in Files
  BY <1>6, SeqMonotonic DEF Files
<1>8. Readable(g)
  BY <1>6, RecordNotTorn DEF Readable, Records
<1>9. n \in 0 .. Len(g)
  BY <1>6
<1>10. ASSUME NEW e, e \in gone
       PROVE  Chain(g, e) /\ TrailAt(g, e, Len(g)) = << >>
  <2>1. \A i \in 1 .. n : g[i].exec # e
    BY <1>5, <1>6, <1>10
  <2>2. Mine(g, e, n) = {}
    BY <2>1 DEF Mine
  <2>3. TrailAt(g, e, n) = << >>
    BY <1>7, <1>9, <2>2, TrailAtIs
  <2> QED BY <1>6, <2>1, <2>3 DEF Chain
<1>11. ASSUME NEW e, e \notin gone
       PROVE  /\ Chain(g, e) <=> Chain(f, e)
              /\ TrailAt(g, e, Len(g)) = TrailAt(f, e, Len(f))
  <2>1. Mine(f, e, Len(f)) \subseteq kept
    BY <1>0, <1>11, <1>i DEF Mine
  <2>2. TrailAt(g, e, n) = TrailAt(f, e, Len(f))
    <3>1. Corresponds(h, n, n, Len(f))
      BY <1>0, <1>5 DEF Corresponds
    <3>2. n \in 0 .. n /\ Len(f) \in 0 .. Len(f)
      BY <1>0
    <3> QED BY <1>k, <1>3, <1>7, <2>1, <3>1, <3>2, KeptTrail
  <2>3. ASSUME NEW i \in 1 .. n, g[i].exec = e
        PROVE  Continues(g, i) <=> Continues(f, h[i])
    <3>1. i - 1 \in 0 .. n /\ h[i] \in 1 .. Len(f) /\ h[i] - 1 \in 0 .. Len(f)
      BY <1>0, <1>5
    <3>2. ASSUME NEW j \in 1 .. n
          PROVE  j <= i - 1 <=> h[j] <= h[i] - 1
      <4>1. j < i <=> h[j] < h[i]
        BY <1>4
      <4>2. h[j] \in Int /\ h[i] \in Int
        BY <1>0, <1>5
      <4> QED BY <4>1, <4>2
    <3>c. Corresponds(h, n, i - 1, h[i] - 1)
      BY <3>2 DEF Corresponds
    <3>3. TrailAt(g, e, i - 1) = TrailAt(f, e, h[i] - 1)
      BY <1>k, <1>3, <1>7, <2>1, <3>1, <3>c, KeptTrail
    <3> QED BY <1>6, <2>3, <3>3 DEF Continues
  <2>4. Chain(g, e) => Chain(f, e)
    <3> SUFFICES ASSUME Chain(g, e), NEW k \in DOMAIN f, f[k] # Torn, f[k].exec = e
                 PROVE  Continues(f, k)
      BY DEF Chain
    <3>1. k \in kept
      BY <1>11, <1>i
    <3>2. PICK i \in 1 .. n : h[i] = k
      BY <1>4, <3>1
    <3>3. g[i] = f[k] /\ i \in DOMAIN g
      BY <1>6, <3>2
    <3>4. Continues(g, i)
      BY <3>3 DEF Chain
    <3> QED BY <2>3, <3>2, <3>3, <3>4
  <2>5. Chain(f, e) => Chain(g, e)
    <3> SUFFICES ASSUME Chain(f, e), NEW i \in DOMAIN g, g[i] # Torn, g[i].exec = e
                 PROVE  Continues(g, i)
      BY DEF Chain
    <3>1. i \in 1 .. n /\ g[i] = f[h[i]] /\ h[i] \in DOMAIN f
      BY <1>5, <1>6
    <3>2. Continues(f, h[i])
      BY <3>1 DEF Chain
    <3> QED BY <2>3, <3>1, <3>2
  <2> QED BY <1>6, <2>2, <2>4, <2>5
<1> QED BY <1>7, <1>8, <1>10, <1>11 DEF g

----------------------------------------------------------------------------
(* The store: its operations, and its inductive invariant *)

(* What a client can make of the store.  One that appends gives a trail, an *)
(* operation that removes gives a set of executions.                        *)
StoreStep ==
  \/ \E e \in Execs, t \in Trails : AppendEvent(e, t) \/ AppendFails(e, t) \/ AppendRefused(e, t)
  \/ \E gone \in SUBSET Execs : Rewrite(gone) \/ RewriteCut(gone)
  \/ Open
  \/ StoreTick

StoreSpec == StoreInit /\ [][StoreStep]_storeVars

StoreTypeOK ==
  /\ file \in Files
  /\ ended \in BOOLEAN
  /\ ended \/ file # << >>
  /\ tails \in [Execs -> Seq(Events)]
  /\ now \in Nat
  /\ damage \in Nat
  /\ accepted \in [Execs -> Seq(Events)]
  /\ removed \subseteq Execs
  /\ cut \in BOOLEAN
  /\ misread \in BOOLEAN

(* As long as its lines are a chain, an execution has in the file what was  *)
(* confirmed, whatever has become of the others.                            *)
KeptInv ==
  ~cut /\ Readable(file) =>
    \A e \in Execs : Chain(file, e) => Prefix(accepted[e], TrailAt(file, e, Len(file)))

(* No tail in memory is behind what was confirmed. *)
TailsInv == ~cut /\ ~misread => \A e \in Execs : Prefix(accepted[e], tails[e])

(* Without a failing write, file, memory and confirmed events agree. *)
CleanInv ==
  damage = 0 => /\ ended /\ ~cut /\ ~misread
                /\ Loads(file) /\ TailsOf(file) = accepted /\ tails = accepted

StoreInv == StoreTypeOK /\ KeptInv /\ TailsInv /\ CleanInv

LEMMA LoadsByChains ==
  ASSUME NEW f \in Files
  PROVE  Loads(f) <=> Readable(f) /\ \A e \in Execs : Chain(f, e)
<1>1. \A k \in DOMAIN f : f[k] # Torn => f[k].exec \in Execs
  BY LineOf
<1>2. Readable(f) => \A k \in DOMAIN f : f[k] # Torn
  BY DEF Readable, Records
<1> QED BY <1>1, <1>2 DEF Loads, Chain

LEMMA TailsOfType ==
  ASSUME NEW f \in Files
  PROVE  TailsOf(f) \in [Execs -> Seq(Events)]
<1>1. Len(f) \in 0 .. Len(f)
  BY DEF Files
<1>2. \A e \in Execs : TrailAt(f, e, Len(f)) \in Seq(Events)
  BY <1>1, TrailAtIs
<1> QED BY <1>2 DEF TailsOf

(* What _load_and_verify has read is a file, and all of one that verifies. *)
LEMMA VerifiedType ==
  ASSUME NEW f \in Files
  PROVE  Verified(f) \in Files /\ (Loads(f) => Verified(f) = f)
<1> DEFINE broken == {k \in DOMAIN f : ~Continues(f, k)}
           first == CHOOSE k \in broken : \A j \in broken : k <= j
<1>1. Len(f) \in Nat /\ DOMAIN f = 1 .. Len(f)
  BY DEF Files
<1>2. Verified(f) = IF broken = {} THEN f ELSE SubSeq(f, 1, first - 1)
  BY DEF Verified
<1>3. Loads(f) => broken = {}
  BY DEF Loads
<1>4. ASSUME broken # {}
      PROVE  SubSeq(f, 1, first - 1) \in Files
  <2>1. broken \subseteq Nat
    BY <1>1
  <2>2. \E k \in broken : \A j \in broken : k <= j
    BY <1>4, <2>1, LeastNumber
  <2>3. first \in broken
    BY <2>2
  <2>4. first \in 1 .. Len(f)
    BY <1>1, <2>3
  <2> HIDE DEF first, broken
  <2>5. first - 1 \in Int /\ \A i \in 1 .. first - 1 : f[i] \in StoredRecords \cup {Torn}
    BY <1>1, <2>4 DEF Files
  <2> QED BY <2>5, SubSeqProperties DEF Files
<1> HIDE DEF first, broken
<1> QED BY <1>2, <1>3, <1>4

LEMMA ReadableAppend ==
  ASSUME NEW f \in Files, NEW line \in StoredRecords \cup {Torn}
  PROVE  Readable(Append(f, line)) <=> Readable(f) /\ line # Torn
<1> DEFINE g == Append(f, line)
<1>1. /\ Len(f) \in Nat /\ DOMAIN f = 1 .. Len(f) /\ DOMAIN g = 1 .. Len(f) + 1
      /\ \A k \in 1 .. Len(f) : g[k] = f[k]
      /\ g[Len(f) + 1] = line
  BY DEF Files
<1> HIDE DEF g
<1>2. Readable(g) <=> \A k \in 1 .. Len(f) + 1 : g[k] # Torn
  BY <1>1 DEF Readable, Records
<1>3. Readable(f) <=> \A k \in 1 .. Len(f) : f[k] # Torn
  BY <1>1 DEF Readable, Records
<1>4. 1 .. Len(f) + 1 = (1 .. Len(f)) \cup {Len(f) + 1}
  BY <1>1
<1> QED BY <1>1, <1>2, <1>3, <1>4 DEF g

(* A line is added to a file that ends with a newline, or a line is torn. *)
LEMMA ExtendedFile ==
  ASSUME StoreTypeOK, NEW line \in StoredRecords \cup {Torn}
  PROVE  /\ Extended(line) \in Files
         /\ Extended(line) # << >>
         /\ ended => Extended(line) = Append(file, line)
         /\ Readable(Extended(line)) => ended /\ Readable(file) /\ line # Torn
<1>1. CASE ended
  <2>1. Extended(line) = Append(file, line)
    BY <1>1 DEF Extended
  <2>2. Append(file, line) \in Files /\ Append(file, line) # << >>
    <3>1. file \in Seq(StoredRecords \cup {Torn})
      BY DEF StoreTypeOK, Files
    <3> QED BY <3>1, AppendProperties DEF Files
  <2> QED BY <1>1, <2>1, <2>2, ReadableAppend DEF StoreTypeOK
<1>2. CASE ~ended
  <2>1. Extended(line) = [file EXCEPT ![Len(file)] = Torn]
    BY <1>2 DEF Extended
  <2>2. file \in Seq(StoredRecords \cup {Torn}) /\ Len(file) \in 1 .. Len(file)
    BY <1>2 DEF StoreTypeOK, Files
  <2>3. Extended(line) \in Files /\ Len(Extended(line)) = Len(file)
    BY <2>1, <2>2, ExceptSeq DEF Files
  <2>4. Len(file) \in DOMAIN Extended(line) /\ Extended(line)[Len(file)] = Torn
    BY <2>1, <2>2
  <2>5. ~Readable(Extended(line))
    BY <2>4 DEF Readable, Records
  <2>6. Extended(line) # << >>
    BY <2>4
  <2> QED BY <1>2, <2>3, <2>5, <2>6
<1> QED BY <1>1, <1>2 DEF StoreTypeOK

LEMMA RecordType ==
  ASSUME StoreTypeOK, NEW e \in Execs, NEW t \in Trails
  PROVE  /\ Record(e, t) \in StoredRecords
         /\ Record(e, t).exec = e /\ Record(e, t).trail = t
         /\ t \in Seq(Events) /\ t # << >>
BY StoreAssumption DEF StoreTypeOK, Record, StoredRecords, Trails

LEMMA StoreTypeInit == StoreInit => StoreTypeOK
<1>1. << >> \in Files /\ << >> \in Seq(Events)
  BY DEF Files
<1>2. [e \in Execs |-> << >>] \in [Execs -> Seq(Events)]
  BY <1>1
<1>3. ASSUME StoreInit
      PROVE  /\ tails \in [Execs -> Seq(Events)] /\ accepted \in [Execs -> Seq(Events)]
             /\ file \in Files /\ ended \in BOOLEAN /\ (ended \/ file # << >>)
  BY <1>1, <1>2, <1>3 DEF StoreInit
<1>4. ASSUME StoreInit
      PROVE  /\ now \in Nat /\ damage \in Nat /\ removed \subseteq Execs
             /\ cut \in BOOLEAN /\ misread \in BOOLEAN
  BY <1>4 DEF StoreInit
<1> QED BY <1>3, <1>4 DEF StoreTypeOK

LEMMA StoreTypeStep == StoreTypeOK /\ StoreStep => StoreTypeOK'
<1> SUFFICES ASSUME StoreTypeOK, StoreStep
             PROVE  StoreTypeOK'
  OBVIOUS
<1>t. Torn \in StoredRecords \cup {Torn}
  OBVIOUS
<1>1. ASSUME NEW e \in Execs, NEW t \in Trails, AppendEvent(e, t)
      PROVE  StoreTypeOK'
  <2>1. Record(e, t) \in StoredRecords /\ t \in Seq(Events)
    BY RecordType
  <2>2. file' \in Files
    BY <1>1, <2>1, ExtendedFile DEF AppendEvent
  <2> QED BY <1>1, <2>1, <2>2 DEF AppendEvent, StoreTypeOK
<1>2. ASSUME NEW e \in Execs, NEW t \in Trails, AppendFails(e, t)
      PROVE  StoreTypeOK'
  <2>1. Record(e, t) \in StoredRecords
    BY RecordType
  <2>2. /\ file' \in Files /\ ended' \in BOOLEAN /\ (ended' \/ file' # << >>)
    <3>1. CASE file' = Extended(Torn) /\ ended' = FALSE
      BY <1>t, <3>1, ExtendedFile
    <3>2. CASE file' = Extended(Record(e, t)) /\ ended' \in BOOLEAN
      BY <2>1, <3>2, ExtendedFile
    <3>3. CASE UNCHANGED <<file, ended>>
      BY <3>3 DEF StoreTypeOK
    <3> QED BY <1>2, <3>1, <3>2, <3>3 DEF AppendFails, FailedWrite
  <2> QED BY <1>2, <2>2 DEF AppendFails, FailedWrite, StoreTypeOK
<1>3. ASSUME NEW e \in Execs, NEW t \in Trails, AppendRefused(e, t)
      PROVE  StoreTypeOK'
  BY <1>3 DEF AppendRefused, storeVars, StoreTypeOK
<1>f. ASSUME NEW gone \in SUBSET Execs, Forget(gone)
      PROVE  accepted' \in [Execs -> Seq(Events)] /\ removed' \subseteq Execs
  <2>1. << >> \in Seq(Events)
    OBVIOUS
  <2> QED BY <1>f, <2>1 DEF Forget, StoreTypeOK
<1>4. ASSUME NEW gone \in SUBSET Execs, Rewrite(gone)
      PROVE  StoreTypeOK'
  <2>1. file' \in Files
    BY <1>4, WithoutKeeps DEF Rewrite, Retained, StoreTypeOK
  <2>2. tails' \in [Execs -> Seq(Events)]
    BY <1>4, <2>1, VerifiedType, TailsOfType DEF Rewrite
  <2>3. misread' \in BOOLEAN
    BY <1>4 DEF Rewrite
  <2> QED BY <1>4, <1>f, <2>1, <2>2, <2>3 DEF Rewrite, StoreTypeOK
<1>5. ASSUME NEW gone \in SUBSET Execs, RewriteCut(gone)
      PROVE  StoreTypeOK'
  <2> DEFINE r == Retained(file, gone)
  <2>1. r \in Seq(StoredRecords \cup {Torn})
    BY <1>5, WithoutKeeps DEF RewriteCut, Retained, StoreTypeOK, Files
  <2>2. PICK n \in 0 .. Len(r) :
          \/ file' = SubSeq(r, 1, n) /\ ended' = TRUE
          \/ n < Len(r) /\ file' = Append(SubSeq(r, 1, n), Torn) /\ ended' = FALSE
    BY <1>5 DEF RewriteCut
  <2> HIDE DEF r
  <2>3. SubSeq(r, 1, n) \in Seq(StoredRecords \cup {Torn})
    BY <2>1, <2>2
  <2>4. /\ Append(SubSeq(r, 1, n), Torn) \in Seq(StoredRecords \cup {Torn})
        /\ Append(SubSeq(r, 1, n), Torn) # << >>
    BY <1>t, <2>3, AppendProperties
  <2>5. file' \in Files /\ ended' \in BOOLEAN /\ (ended' \/ file' # << >>)
    BY <2>2, <2>3, <2>4 DEF Files
  <2> QED BY <1>5, <1>f, <2>5 DEF RewriteCut, StoreTypeOK
<1>6. CASE Open
  BY <1>6, TailsOfType DEF Open, StoreTypeOK
<1>7. CASE StoreTick
  BY <1>7 DEF StoreTick, StoreTypeOK
<1> QED BY <1>1, <1>2, <1>3, <1>4, <1>5, <1>6, <1>7 DEF StoreStep

(* A confirmed event: what was confirmed before is under it. *)
LEMMA ConfirmedGrows ==
  ASSUME StoreInv, NEW e \in Execs, NEW t \in Trails, AppendEvent(e, t),
         ~cut, ~misread \/ (Readable(file') /\ Chain(file', e))
  PROVE  Prefix(accepted[e], FrontOf(t))
<1>1. CASE ~misread
  BY <1>1 DEF StoreInv, TailsInv, AppendEvent, Chained
<1>2. CASE Readable(file') /\ Chain(file', e)
  <2>1. /\ Record(e, t) \in StoredRecords /\ Record(e, t).exec = e /\ Record(e, t).trail = t
        /\ file \in Files
    BY RecordType DEF StoreInv, StoreTypeOK
  <2>2. file' = Append(file, Record(e, t)) /\ Readable(file)
    BY <1>2, <2>1, ExtendedFile DEF StoreInv, AppendEvent
  <2>3. Chain(file, e) /\ FrontOf(t) = TrailAt(file, e, Len(file))
    BY <1>2, <2>1, <2>2, AppendedChain
  <2> QED BY <2>2, <2>3 DEF StoreInv, KeptInv
<1> QED BY <1>1, <1>2

LEMMA StoreInvInit == StoreInit => StoreInv
<1> SUFFICES ASSUME StoreInit
             PROVE  StoreInv
  OBVIOUS
<1>1. StoreTypeOK
  BY StoreTypeInit
<1>2. file = << >> /\ file \in Files /\ DOMAIN file = {} /\ Len(file) = 0
  BY <1>1 DEF StoreInit, StoreTypeOK
<1>3. Loads(file)
  BY <1>2 DEF Loads, Readable, Records
<1>4. ASSUME NEW e \in Execs
      PROVE  TrailAt(file, e, Len(file)) = << >>
  <2>1. Mine(file, e, 0) = {}
    BY DEF Mine
  <2>2. 0 \in 0 .. Len(file)
    BY <1>2
  <2> QED BY <1>2, <2>1, <2>2, TrailAtIs
<1>5. TailsOf(file) = accepted /\ tails = accepted
  BY <1>4 DEF TailsOf, StoreInit
<1>6. \A e \in Execs : accepted[e] = << >> /\ tails[e] = << >>
  BY DEF StoreInit
<1>7. Prefix(<< >>, << >>)
  <2>1. << >> \in Seq(Events)
    OBVIOUS
  <2> QED BY <2>1, PrefixOfItself
<1>8. KeptInv /\ TailsInv
  BY <1>4, <1>6, <1>7 DEF KeptInv, TailsInv
<1>9. CleanInv
  BY <1>3, <1>5 DEF CleanInv, StoreInit
<1> QED BY <1>1, <1>8, <1>9 DEF StoreInv

LEMMA KeptStep == StoreInv /\ StoreStep => KeptInv'
<1> SUFFICES ASSUME StoreInv, StoreStep, ~cut', Readable(file'), NEW x \in Execs,
                    Chain(file', x)
             PROVE  Prefix(accepted'[x], TrailAt(file', x, Len(file')))
  BY DEF KeptInv
<1>0. /\ StoreTypeOK /\ file \in Files /\ accepted[x] \in Seq(Events)
      /\ TrailAt(file, x, Len(file)) \in Seq(Events)
  <2>1. StoreTypeOK /\ file \in Files /\ accepted[x] \in Seq(Events)
    BY DEF StoreInv, StoreTypeOK
  <2>2. Len(file) \in 0 .. Len(file)
    BY <2>1 DEF Files
  <2> QED BY <2>1, <2>2, TrailAtIs
<1>a. ASSUME NEW e \in Execs, NEW t \in Trails, file' = Extended(Record(e, t)),
             accepted' = accepted \/ accepted' = [accepted EXCEPT ![e] = t], ~cut
      PROVE  Prefix(accepted'[x], TrailAt(file', x, Len(file')))
  <2>1. /\ Record(e, t) \in StoredRecords /\ Record(e, t).exec = e /\ Record(e, t).trail = t
        /\ t \in Seq(Events) /\ t # << >> /\ Record(e, t) # Torn
    BY <1>0, RecordType, RecordNotTorn
  <2>2. file' = Append(file, Record(e, t)) /\ Readable(file)
    BY <1>0, <1>a, <2>1, ExtendedFile
  <2>3. Chain(file, x) /\ (x = e => FrontOf(t) = TrailAt(file, x, Len(file)))
    BY <1>0, <2>1, <2>2, AppendedChain
  <2>4. Prefix(accepted[x], TrailAt(file, x, Len(file)))
    BY <1>a, <2>2, <2>3 DEF StoreInv, KeptInv
  <2>5. CASE x # e
    <3>1. TrailAt(file', x, Len(file')) = TrailAt(file, x, Len(file))
      BY <1>0, <2>1, <2>2, <2>5, AppendedLine
    <3>2. accepted'[x] = accepted[x]
      BY <1>0, <1>a, <2>5 DEF StoreTypeOK
    <3> QED BY <2>4, <3>1, <3>2
  <2>6. CASE x = e
    <3>1. TrailAt(file', x, Len(file')) = t
      BY <1>0, <2>1, <2>2, <2>6, AppendedLine
    <3>2. Prefix(accepted[x], t)
      BY <1>0, <2>1, <2>3, <2>4, <2>6, PrefixOfFront
    <3>3. Prefix(t, t)
      BY <2>1, PrefixOfItself
    <3>4. accepted'[x] = accepted[x] \/ accepted'[x] = t
      BY <1>0, <1>a, <2>6 DEF StoreTypeOK
    <3> QED BY <3>1, <3>2, <3>3, <3>4
  <2> QED BY <2>5, <2>6
<1>b. ASSUME UNCHANGED <<file, accepted, cut>>
      PROVE  Prefix(accepted'[x], TrailAt(file', x, Len(file')))
  BY <1>b DEF StoreInv, KeptInv
<1>1. ASSUME NEW e \in Execs, NEW t \in Trails, AppendEvent(e, t)
      PROVE  Prefix(accepted'[x], TrailAt(file', x, Len(file')))
  BY <1>1, <1>a DEF AppendEvent
<1>2. ASSUME NEW e \in Execs, NEW t \in Trails, AppendFails(e, t)
      PROVE  Prefix(accepted'[x], TrailAt(file', x, Len(file')))
  <2>1. CASE file' = Extended(Torn)
    BY <1>0, <2>1, ExtendedFile
  <2>2. CASE file' = Extended(Record(e, t))
    BY <1>2, <1>a, <2>2 DEF AppendFails, FailedWrite
  <2>3. CASE UNCHANGED file
    BY <1>2, <1>b, <2>3 DEF AppendFails, FailedWrite
  <2> QED BY <1>2, <2>1, <2>2, <2>3 DEF AppendFails, FailedWrite
<1>3. ASSUME NEW e \in Execs, NEW t \in Trails, AppendRefused(e, t)
      PROVE  Prefix(accepted'[x], TrailAt(file', x, Len(file')))
  BY <1>3, <1>b DEF AppendRefused, storeVars
<1>4. ASSUME NEW gone \in SUBSET Execs, Rewrite(gone)
      PROVE  Prefix(accepted'[x], TrailAt(file', x, Len(file')))
  <2>1. /\ Readable(file) /\ file' = Without(file, gone) /\ ~cut
        /\ accepted'[x] = IF x \in gone THEN << >> ELSE accepted[x]
    BY <1>4 DEF Rewrite, Retained, Forget
  <2>2. CASE x \in gone
    <3>1. accepted'[x] = << >> /\ TrailAt(file', x, Len(file')) = << >>
      BY <1>0, <2>1, <2>2, WithoutKeeps
    <3>2. << >> \in Seq(Events)
      OBVIOUS
    <3> QED BY <3>1, <3>2, PrefixOfItself
  <2>3. CASE x \notin gone
    <3>1. Chain(file, x) /\ TrailAt(file', x, Len(file')) = TrailAt(file, x, Len(file))
      BY <1>0, <2>1, <2>3, WithoutKeeps
    <3> QED BY <2>1, <2>3, <3>1 DEF StoreInv, KeptInv
  <2> QED BY <2>2, <2>3
<1>5. ASSUME NEW gone \in SUBSET Execs, RewriteCut(gone)
      PROVE  FALSE
  BY <1>5 DEF RewriteCut
<1>6. CASE Open
  BY <1>6, <1>b DEF Open
<1>7. CASE StoreTick
  BY <1>7, <1>b DEF StoreTick
<1> QED BY <1>1, <1>2, <1>3, <1>4, <1>5, <1>6, <1>7 DEF StoreStep

(* The tails that a load leaves in memory are those of the file. *)
LEMMA LoadedTails ==
  ASSUME StoreTypeOK, KeptInv, ~cut, Loads(file)
  PROVE  \A e \in Execs : Prefix(accepted[e], TailsOf(file)[e])
<1>1. Readable(file) /\ \A e \in Execs : Chain(file, e)
  BY LoadsByChains DEF StoreTypeOK
<1> QED BY <1>1 DEF KeptInv, TailsOf

LEMMA TailsStep == StoreInv /\ StoreStep => TailsInv'
<1> SUFFICES ASSUME StoreInv, StoreStep, ~cut', ~misread'
             PROVE  \A x \in Execs : Prefix(accepted'[x], tails'[x])
  BY DEF TailsInv
<1>0. StoreTypeOK' /\ KeptInv'
  BY StoreTypeStep, KeptStep DEF StoreInv
<1>a. ASSUME UNCHANGED <<tails, accepted, cut, misread>>
      PROVE  \A x \in Execs : Prefix(accepted'[x], tails'[x])
  BY <1>a DEF StoreInv, TailsInv
<1>1. ASSUME NEW e \in Execs, NEW t \in Trails, AppendEvent(e, t)
      PROVE  \A x \in Execs : Prefix(accepted'[x], tails'[x])
  <2>1. Prefix(t, t)
    BY PrefixOfItself DEF Trails
  <2>2. ~cut /\ ~misread /\ tails' = [tails EXCEPT ![e] = t] /\ accepted' = [accepted EXCEPT ![e] = t]
    BY <1>1 DEF AppendEvent
  <2>3. \A x \in Execs : Prefix(accepted[x], tails[x])
    BY <2>2 DEF StoreInv, TailsInv
  <2> QED BY <2>1, <2>2, <2>3 DEF StoreInv, StoreTypeOK
<1>2. ASSUME NEW e \in Execs, NEW t \in Trails, AppendFails(e, t)
      PROVE  \A x \in Execs : Prefix(accepted'[x], tails'[x])
  BY <1>2, <1>a DEF AppendFails, FailedWrite
<1>3. ASSUME NEW e \in Execs, NEW t \in Trails, AppendRefused(e, t)
      PROVE  \A x \in Execs : Prefix(accepted'[x], tails'[x])
  BY <1>3, <1>a DEF AppendRefused, storeVars
<1>4. ASSUME NEW gone \in SUBSET Execs, Rewrite(gone)
      PROVE  \A x \in Execs : Prefix(accepted'[x], tails'[x])
  <2>1. Loads(file') /\ tails' = TailsOf(Verified(file'))
    BY <1>4 DEF Rewrite
  <2>2. file' \in Files
    BY <1>0 DEF StoreTypeOK
  <2>3. tails' = TailsOf(file')
    BY <2>1, <2>2, VerifiedType
  <2>4. \A e \in Execs : Chain(file', e)
    BY <2>1, <2>2, LoadsByChains
  <2>5. Readable(file')
    BY <2>1 DEF Loads
  <2> QED BY <1>0, <2>3, <2>4, <2>5 DEF KeptInv, TailsOf
<1>5. ASSUME NEW gone \in SUBSET Execs, RewriteCut(gone)
      PROVE  FALSE
  BY <1>5 DEF RewriteCut
<1>6. CASE Open
  <2>1. ~cut /\ Loads(file) /\ tails' = TailsOf(file) /\ accepted' = accepted
    BY <1>6 DEF Open
  <2> QED BY <2>1, LoadedTails DEF StoreInv
<1>7. CASE StoreTick
  BY <1>7, <1>a DEF StoreTick
<1> QED BY <1>1, <1>2, <1>3, <1>4, <1>5, <1>6, <1>7 DEF StoreStep

LEMMA CleanStep == StoreInv /\ StoreStep => CleanInv'
<1> SUFFICES ASSUME StoreInv, StoreStep, damage' = 0
             PROVE  /\ ended' /\ ~cut' /\ ~misread'
                    /\ Loads(file') /\ TailsOf(file') = accepted' /\ tails' = accepted'
  BY DEF CleanInv
<1>0. StoreTypeOK /\ StoreTypeOK' /\ file \in Files /\ file' \in Files
  BY StoreTypeStep DEF StoreInv, StoreTypeOK
<1>d. ASSUME damage = 0
      PROVE  /\ ended /\ ~cut /\ ~misread /\ Loads(file) /\ tails = accepted
             /\ TailsOf(file) = accepted /\ Readable(file) /\ \A x \in Execs : Chain(file, x)
  BY <1>0, <1>d, LoadsByChains DEF StoreInv, CleanInv
<1>a. ASSUME UNCHANGED <<file, ended, tails, damage, accepted, cut, misread>>
      PROVE  /\ ended' /\ ~cut' /\ ~misread'
             /\ Loads(file') /\ TailsOf(file') = accepted' /\ tails' = accepted'
  BY <1>a, <1>d
<1>n. ASSUME FALSE
      PROVE  /\ ended' /\ ~cut' /\ ~misread'
             /\ Loads(file') /\ TailsOf(file') = accepted' /\ tails' = accepted'
  BY <1>n
<1>1. ASSUME NEW e \in Execs, NEW t \in Trails, AppendEvent(e, t)
      PROVE  /\ ended' /\ ~cut' /\ ~misread'
             /\ Loads(file') /\ TailsOf(file') = accepted' /\ tails' = accepted'
  <2>1. /\ Record(e, t) \in StoredRecords /\ Record(e, t).exec = e /\ Record(e, t).trail = t
        /\ Record(e, t) # Torn
    BY <1>0, RecordType, RecordNotTorn
  <2>2. /\ damage = 0 /\ ended' /\ FrontOf(t) = tails[e]
        /\ UNCHANGED <<cut, misread>>
        /\ tails' = [tails EXCEPT ![e] = t] /\ accepted' = [accepted EXCEPT ![e] = t]
    BY <1>1 DEF AppendEvent, Chained
  <2>3. file' = Append(file, Record(e, t))
    BY <1>0, <1>1, <1>d, <2>1, <2>2, ExtendedFile DEF AppendEvent
  <2>4. FrontOf(t) = TrailAt(file, e, Len(file))
    BY <1>d, <2>2 DEF TailsOf
  <2>5. Readable(file')
    BY <1>0, <1>d, <2>1, <2>2, <2>3, ReadableAppend
  <2>6. \A x \in Execs : Chain(file', x)
    BY <1>0, <1>d, <2>1, <2>2, <2>3, <2>4, AppendedChain
  <2>7. Loads(file')
    BY <1>0, <2>5, <2>6, LoadsByChains
  <2>8. ASSUME NEW x \in Execs
        PROVE  TrailAt(file', x, Len(file')) = accepted'[x]
    <3>1. accepted[x] = TrailAt(file, x, Len(file))
      BY <1>d, <2>2 DEF TailsOf
    <3>2. CASE x = e
      BY <1>0, <2>1, <2>2, <2>3, <3>2, AppendedLine DEF StoreTypeOK
    <3>3. CASE x # e
      <4>1. TrailAt(file', x, Len(file')) = TrailAt(file, x, Len(file))
        BY <1>0, <2>1, <2>3, <3>3, AppendedLine
      <4> QED BY <1>0, <2>2, <3>1, <3>3, <4>1 DEF StoreTypeOK
    <3> QED BY <3>2, <3>3
  <2>9. TailsOf(file') = accepted'
    <3>1. accepted' = [x \in Execs |-> accepted'[x]]
      BY <1>0 DEF StoreTypeOK
    <3> QED BY <2>8, <3>1 DEF TailsOf
  <2> QED BY <1>d, <2>2, <2>7, <2>9
<1>2. ASSUME NEW e \in Execs, NEW t \in Trails, AppendFails(e, t)
      PROVE  FALSE
  BY <1>0, <1>2 DEF AppendFails, FailedWrite, StoreTypeOK
<1>3. ASSUME NEW e \in Execs, NEW t \in Trails, AppendRefused(e, t)
      PROVE  /\ ended' /\ ~cut' /\ ~misread'
             /\ Loads(file') /\ TailsOf(file') = accepted' /\ tails' = accepted'
  BY <1>3, <1>a DEF AppendRefused, storeVars
<1>4. ASSUME NEW gone \in SUBSET Execs, Rewrite(gone)
      PROVE  /\ ended' /\ ~cut' /\ ~misread'
             /\ Loads(file') /\ TailsOf(file') = accepted' /\ tails' = accepted'
  <2>1. /\ damage = 0 /\ ended' /\ UNCHANGED cut /\ file' = Without(file, gone)
        /\ misread' = ~Loads(file') /\ tails' = TailsOf(Verified(file'))
        /\ \A x \in Execs : accepted'[x] = IF x \in gone THEN << >> ELSE accepted[x]
    BY <1>4 DEF Rewrite, Retained, Forget
  <2>2. Readable(file') /\ \A x \in Execs : Chain(file', x)
    BY <1>0, <1>d, <2>1, WithoutKeeps
  <2>3. Loads(file')
    BY <1>0, <2>2, LoadsByChains
  <2>4. tails' = TailsOf(file')
    BY <1>0, <2>1, <2>3, VerifiedType
  <2>5. ASSUME NEW x \in Execs
        PROVE  TrailAt(file', x, Len(file')) = accepted'[x]
    <3>1. accepted[x] = TrailAt(file, x, Len(file))
      BY <1>d, <2>1 DEF TailsOf
    <3>2. CASE x \in gone
      BY <1>0, <1>d, <2>1, <3>2, WithoutKeeps
    <3>3. CASE x \notin gone
      <4>1. TrailAt(file', x, Len(file')) = TrailAt(file, x, Len(file))
        BY <1>0, <1>d, <2>1, <3>3, WithoutKeeps
      <4> QED BY <2>1, <3>1, <3>3, <4>1
    <3> QED BY <3>2, <3>3
  <2>6. TailsOf(file') = accepted'
    <3>1. accepted' = [x \in Execs |-> accepted'[x]]
      BY <1>0 DEF StoreTypeOK
    <3> QED BY <2>5, <3>1 DEF TailsOf
  <2> QED BY <1>d, <2>1, <2>3, <2>4, <2>6
<1>5. ASSUME NEW gone \in SUBSET Execs, RewriteCut(gone)
      PROVE  FALSE
  BY <1>0, <1>5 DEF RewriteCut, StoreTypeOK
<1>6. CASE Open
  <2>1. /\ damage = 0 /\ tails' = TailsOf(file) /\ misread' = FALSE
        /\ UNCHANGED <<file, ended, accepted, cut>>
    BY <1>6 DEF Open
  <2> QED BY <1>d, <2>1
<1>7. CASE StoreTick
  BY <1>7, <1>a DEF StoreTick
<1> QED BY <1>n, <1>1, <1>2, <1>3, <1>4, <1>5, <1>6, <1>7 DEF StoreStep

LEMMA StoreInvStep == StoreInv /\ [StoreStep]_storeVars => StoreInv'
<1>1. StoreInv /\ StoreStep => StoreInv'
  BY StoreTypeStep, KeptStep, TailsStep, CleanStep DEF StoreInv
<1>2. StoreInv /\ UNCHANGED storeVars => StoreInv'
  BY DEF storeVars, StoreInv, StoreTypeOK, KeptInv, TailsInv, CleanInv
<1> QED BY <1>1, <1>2

(* A file that opens holds what append has confirmed. *)
LEMMA StoreInvConfirmed == StoreInv => ConfirmedIsKept
<1> SUFFICES ASSUME StoreInv
             PROVE  ConfirmedIsKept
  OBVIOUS
<1>1. StoreTypeOK /\ KeptInv /\ CleanInv /\ damage \in Nat
  BY DEF StoreInv, StoreTypeOK
<1>2. ASSUME Loads(file), ~cut
      PROVE  \A e \in Execs : Prefix(accepted[e], TrailAt(file, e, Len(file)))
  BY <1>1, <1>2, LoadedTails DEF TailsOf
<1>3. damage = 0 => Loads(file) /\ TailsOf(file) = accepted
  BY <1>1 DEF CleanInv
<1>4. ~Loads(file) => damage > 0
  BY <1>1, <1>3
<1> QED BY <1>2, <1>3, <1>4 DEF ConfirmedIsKept

(* The store keeps what it has confirmed, whatever its clients do: any file  *)
(* that JsonlAuditStore opens holds all the events that append has returned  *)
(* for, in their order.                                                      *)
THEOREM StoreKeepsConfirmed == StoreSpec => []ConfirmedIsKept
<1>1. StoreSpec => []StoreInv
  BY StoreInvInit, StoreInvStep, PTL DEF StoreSpec
<1> QED BY <1>1, StoreInvConfirmed, PTL

----------------------------------------------------------------------------
(* The workers and the host: types and what a call has done so far *)

(* A payload as InMemoryJobDispatcher.submit encodes it. *)
Encoded(p) == [p EXCEPT !.tags = {}, !.canonical = TRUE]

(* The documents there can be on the queue. *)
Documents == Payloads \cup {Encoded(p) : p \in Payloads}

Labels == {"idle", "started", "resolve", "running", "run", "call", "wait", "finish", "failing",
           "terminal", "done"}

Statuses == {"COMPLETED", "REJECTED", "FAILED"}

ProgressStates == {"STARTED", "SKILL_RESOLVED", "RUNNING", "COMPLETED", "FAILED"}

WorkTypeOK ==
  /\ pending \subseteq Documents
  /\ pc \in [Workers -> Labels]
  /\ job \in [Workers -> Documents \cup {None}]
  /\ rec \in [Workers -> Seq(Events)]
  /\ status \in [Workers -> Statuses \cup {None}]
  /\ answer \in [Workers -> {"none", "envelope", "error"}]
  /\ progress \in [Execs -> Seq(ProgressStates)]
  /\ snaps \in Nat
  /\ hostRec \in Seq(Events)
  /\ runs \in [Execs -> Nat]

(* A call at p with job j has the trail r, the status s and the answer a. *)
PhaseOK(p, j, r, s, a) ==
  /\ p \in {"idle", "started", "resolve", "running", "run"} => r = << >>
  /\ p \notin {"idle", "done"} \/ r # << >> \/ a = "envelope" => j \in Documents
  /\ p = "terminal" \/ a = "envelope" =>
       s \in Statuses /\ r # << >> /\ LastType(r) = EndEvent(s)
  /\ a = "envelope" => p = "done"

PhaseInv == \A w \in Workers : PhaseOK(pc[w], job[w], rec[w], status[w], answer[w])

LEMMA DocumentExec == \A p \in Documents : p.exec \in Execs
<1>1. \A p \in Payloads : p.exec \in Execs /\ Encoded(p).exec = p.exec
  BY WorkAssumption DEF Encoded
<1> QED BY <1>1 DEF Documents

LEMMA DocumentOf ==
  ASSUME NEW p \in Payloads
  PROVE  p \in Documents /\ Encoded(p) \in Documents
BY DEF Documents

LEMMA WorkTypeInit == WorkInit => WorkTypeOK /\ PhaseInv
<1> SUFFICES ASSUME WorkInit
             PROVE  WorkTypeOK /\ PhaseInv
  OBVIOUS
<1>1. << >> \in Seq(Events) /\ << >> \in Seq(ProgressStates)
  OBVIOUS
<1>2. /\ rec \in [Workers -> Seq(Events)] /\ progress \in [Execs -> Seq(ProgressStates)]
      /\ hostRec \in Seq(Events)
  BY <1>1 DEF WorkInit
<1>3. /\ pc \in [Workers -> Labels] /\ job \in [Workers -> Documents \cup {None}]
      /\ status \in [Workers -> Statuses \cup {None}]
      /\ answer \in [Workers -> {"none", "envelope", "error"}]
      /\ pending \subseteq Documents
  BY DEF WorkInit, Labels
<1>4. snaps \in Nat /\ runs \in [Execs -> Nat]
  BY DEF WorkInit
<1>5. PhaseInv
  BY DEF WorkInit, PhaseInv, PhaseOK
<1> QED BY <1>2, <1>3, <1>4, <1>5 DEF WorkTypeOK

(* A call of the worker goes on to l with the trail t, status s, answer a. *)
Moves(w, l, t, s, a) ==
  /\ pc' = [pc EXCEPT ![w] = l]
  /\ rec' = [rec EXCEPT ![w] = t]
  /\ status' = [status EXCEPT ![w] = s]
  /\ answer' = [answer EXCEPT ![w] = a]
  /\ UNCHANGED <<pending, job, hostRec>>

LEMMA MovesKeep ==
  ASSUME WorkTypeOK, PhaseInv, NEW w \in Workers, NEW l \in Labels, NEW t \in Seq(Events),
         NEW s \in Statuses \cup {None}, NEW a \in {"none", "envelope", "error"},
         Moves(w, l, t, s, a), PhaseOK(l, job[w], t, s, a),
         progress' \in [Execs -> Seq(ProgressStates)], snaps' \in Nat, runs' \in [Execs -> Nat]
  PROVE  WorkTypeOK' /\ PhaseInv'
<1>1. WorkTypeOK'
  BY DEF WorkTypeOK, Moves
<1>2. ASSUME NEW v \in Workers
      PROVE  PhaseOK(pc'[v], job'[v], rec'[v], status'[v], answer'[v])
  <2>1. CASE v = w
    BY <2>1 DEF WorkTypeOK, Moves
  <2>2. CASE v # w
    <3>1. /\ pc'[v] = pc[v] /\ job'[v] = job[v] /\ rec'[v] = rec[v] /\ status'[v] = status[v]
          /\ answer'[v] = answer[v]
      BY <2>2 DEF WorkTypeOK, Moves
    <3> QED BY <3>1 DEF PhaseInv
  <2> QED BY <2>1, <2>2
<1> QED BY <1>1, <1>2 DEF PhaseInv

(* An event is on record when append has returned; the body of a run is     *)
(* begun with the first event of its recorder.                              *)
EmitShape(w, t) ==
  LET e == job[w].exec IN
  /\ \E ev \in Events : t = Append(rec[w], ev)
  /\ AppendEvent(e, t)
  /\ UNCHANGED progress
  /\ runs' = runs \/ (rec[w] = << >> /\ runs' = [runs EXCEPT ![e] = @ + 1])

(* An event that is refused or lost, or a step without one. *)
QuietShape(w, t, a) ==
  /\ t = rec[w] /\ a # "envelope"
  /\ UNCHANGED storeVars \/ \E u \in Trails : AppendFails(job[w].exec, u)
  /\ UNCHANGED <<progress, runs>>

(* Progress is published, or cannot be. *)
PublishShape(w, t, s, a) ==
  LET e == job[w].exec IN
  /\ t = rec[w] /\ s = status[w]
  /\ UNCHANGED <<storeVars, runs>>
  /\ \/ UNCHANGED progress /\ a = "error"
     \/ \E n \in 1 .. 4, state \in ProgressStates :
          /\ Publishable(e, n, state)
          /\ state \in TerminalStates => n \in {2, 4}
          /\ n = 4 => a = "envelope" /\ state = TerminalState(w)
          /\ progress' = IF conf.sink = "null" THEN progress
                         ELSE [progress EXCEPT ![e] = Append(@, state)]

WorkerShape(w) ==
  /\ pc[w] \notin {"idle", "done"}
  /\ snaps' \in Nat
  /\ UNCHANGED summary
  /\ \E l \in Labels, t \in Seq(Events), s \in Statuses \cup {None},
        a \in {"none", "envelope", "error"} :
       /\ Moves(w, l, t, s, a)
       /\ PhaseOK(l, job[w], t, s, a)
       /\ EmitShape(w, t) \/ QuietShape(w, t, a) \/ PublishShape(w, t, s, a)

(* A state component that stays, in the form of one that is set. *)
LEMMA SameAt ==
  ASSUME WorkTypeOK, NEW w \in Workers
  PROVE  /\ rec = [rec EXCEPT ![w] = rec[w]]
         /\ status = [status EXCEPT ![w] = status[w]]
         /\ answer = [answer EXCEPT ![w] = answer[w]]
         /\ rec[w] \in Seq(Events) /\ status[w] \in Statuses \cup {None}
         /\ answer[w] \in {"none", "envelope", "error"} /\ pc[w] \in Labels
BY DEF WorkTypeOK

(* Emits: on to l with status s when the event is stored, else to m with    *)
(* answer a.                                                                *)
EmitsTo(w, ev, l, s, m, a, r) ==
  LET e == job[w].exec
      t == Append(rec[w], ev)
  IN \/ /\ AppendEvent(e, t) /\ rec' = [rec EXCEPT ![w] = t]
        /\ pc' = [pc EXCEPT ![w] = l] /\ status' = [status EXCEPT ![w] = s]
        /\ UNCHANGED answer /\ runs' = r
     \/ /\ AppendFails(e, t) \/ AppendRefused(e, t)
        /\ UNCHANGED rec
        /\ pc' = [pc EXCEPT ![w] = m] /\ answer' = [answer EXCEPT ![w] = a]
        /\ UNCHANGED <<status, runs>>

LEMMA EmitsToShape ==
  ASSUME WorkTypeOK, PhaseInv, NEW w \in Workers, pc[w] \notin {"idle", "done"},
         NEW ev \in Events, NEW l \in Labels, NEW s \in Statuses \cup {None},
         NEW m \in Labels, NEW a \in {"none", "error"}, NEW r,
         EmitsTo(w, ev, l, s, m, a, r),
         r = runs \/ (rec[w] = << >> /\ r = [runs EXCEPT ![job[w].exec] = @ + 1]),
         PhaseOK(l, job[w], Append(rec[w], ev), s, answer[w]),
         PhaseOK(m, job[w], rec[w], status[w], a),
         UNCHANGED <<pending, job, hostRec, progress, summary>>, snaps' \in Nat
  PROVE  WorkerShape(w)
<1> DEFINE t == Append(rec[w], ev)
<1>1. t \in Seq(Events) /\ t \in Trails
  BY SameAt, FrontOfAppend DEF Trails
<1>2. CASE AppendEvent(job[w].exec, t) /\ rec' = [rec EXCEPT ![w] = t]
           /\ pc' = [pc EXCEPT ![w] = l] /\ status' = [status EXCEPT ![w] = s]
           /\ UNCHANGED answer /\ runs' = r
  <2> HIDE DEF t
  <2>1. Moves(w, l, t, s, answer[w])
    BY <1>2, SameAt DEF Moves
  <2>2. EmitShape(w, t)
    BY <1>2 DEF EmitShape, t
  <2>3. PhaseOK(l, job[w], t, s, answer[w])
    BY DEF t
  <2> QED BY <1>1, <2>1, <2>2, <2>3, SameAt DEF WorkerShape
<1>3. CASE /\ AppendFails(job[w].exec, t) \/ AppendRefused(job[w].exec, t)
           /\ UNCHANGED rec
           /\ pc' = [pc EXCEPT ![w] = m] /\ answer' = [answer EXCEPT ![w] = a]
           /\ UNCHANGED <<status, runs>>
  <2>1. Moves(w, m, rec[w], status[w], a)
    BY <1>3, SameAt DEF Moves
  <2>2. QuietShape(w, rec[w], a)
    BY <1>1, <1>3 DEF QuietShape, AppendRefused
  <2> QED BY <2>1, <2>2, SameAt DEF WorkerShape
<1> QED BY <1>2, <1>3 DEF EmitsTo

LEMMA PublishToShape ==
  ASSUME WorkTypeOK, PhaseInv, NEW w \in Workers, pc[w] \notin {"idle", "done"},
         NEW n \in 1 .. 4, NEW state \in ProgressStates, NEW l \in Labels,
         NEW a \in {"none", "envelope", "error"},
         Publish(w, n, state, l, a), UNCHANGED publishFrame,
         state \in TerminalStates => n \in {2, 4},
         n = 4 => a = "envelope" /\ state = TerminalState(w),
         PhaseOK(l, job[w], rec[w], status[w], a)
  PROVE  WorkerShape(w)
<1>0. /\ UNCHANGED <<storeVars, pending, job, rec, status, snaps, hostRec, summary, runs>>
      /\ snaps' \in Nat
  BY DEF publishFrame, WorkTypeOK
<1>1. CASE Publishable(job[w].exec, n, state)
           /\ progress' = (IF conf.sink = "null" THEN progress
                           ELSE [progress EXCEPT ![job[w].exec] = Append(@, state)])
           /\ pc' = [pc EXCEPT ![w] = l] /\ answer' = [answer EXCEPT ![w] = a]
  <2>1. Moves(w, l, rec[w], status[w], a)
    BY <1>0, <1>1, SameAt DEF Moves
  <2>2. PublishShape(w, rec[w], status[w], a)
    BY <1>0, <1>1 DEF PublishShape
  <2> QED BY <1>0, <2>1, <2>2, SameAt DEF WorkerShape
<1>2. CASE Raise(w) /\ UNCHANGED progress
  <2>1. Moves(w, "done", rec[w], status[w], "error")
    BY <1>0, <1>2, SameAt DEF Moves, Raise, Goto
  <2>2. PublishShape(w, rec[w], status[w], "error")
    BY <1>0, <1>2 DEF PublishShape
  <2>3. PhaseOK("done", job[w], rec[w], status[w], "error")
    BY DEF PhaseInv, PhaseOK
  <2>4. "done" \in Labels
    BY DEF Labels
  <2> QED BY <1>0, <2>1, <2>2, <2>3, <2>4, SameAt DEF WorkerShape
<1> QED BY <1>1, <1>2 DEF Publish, Goto, Raise

(* The events of a run, and what a recorder ends with after one. *)
LEMMA RunEvent ==
  ASSUME NEW type \in RunEvents, NEW v \in Answers \cup Nat \cup {None}, NEW r \in Seq(Events)
  PROVE  /\ Event(type, v) \in Events
         /\ Append(r, Event(type, v)) # << >>
         /\ LastType(Append(r, Event(type, v))) = type
<1>1. Event(type, v) \in Events /\ Event(type, v).type = type
  BY DEF Event, Events
<1>2. /\ Append(r, Event(type, v)) # << >>
      /\ Append(r, Event(type, v))[Len(Append(r, Event(type, v)))] = Event(type, v)
  BY <1>1, FrontOfAppend
<1> QED BY <1>1, <1>2 DEF LastType

LEMMA PhasesHold ==
  ASSUME NEW j, NEW t, NEW s, NEW a, a # "envelope", j \in Documents
  PROVE  /\ \A l \in {"call", "wait", "finish", "failing", "done"} : PhaseOK(l, j, t, s, a)
         /\ t = << >> => \A l \in {"resolve", "running", "run"} : PhaseOK(l, j, t, s, a)
         /\ s \in Statuses /\ t # << >> /\ LastType(t) = EndEvent(s) =>
              PhaseOK("terminal", j, t, s, a) /\ PhaseOK("done", j, t, s, "envelope")
BY DEF PhaseOK

(* Every step of a call has one of these shapes. *)
LEMMA WorkerStepShape ==
  ASSUME WorkTypeOK, PhaseInv, NEW w \in Workers, WorkerStep(w)
  PROVE  WorkerShape(w)
<1>0. /\ rec[w] \in Seq(Events) /\ status[w] \in Statuses \cup {None}
      /\ PhaseOK(pc[w], job[w], rec[w], status[w], answer[w])
      /\ answer[w] \in {"none", "envelope", "error"}
  BY SameAt DEF PhaseInv
<1>l. {"resolve", "running", "run", "call", "wait", "finish", "failing", "terminal", "done"}
        \subseteq Labels
  BY DEF Labels
<1>a. ASSUME pc[w] \notin {"idle", "done"}
      PROVE  job[w] \in Documents /\ answer[w] \in {"none", "error"}
  BY <1>a, <1>0 DEF PhaseOK
<1>s. \A n \in Nat : Snapshots(n) \in Nat
  BY DEF Snapshots, WorkTypeOK
<1>e. /\ EndEvent("REJECTED") = "EXECUTION_REJECTED"
      /\ EndEvent("COMPLETED") = "EXECUTION_COMPLETED"
      /\ EndEvent("FAILED") = "EXECUTION_FAILED"
  BY DEF EndEvent
<1>1. CASE PublishStarted(w)
  <2>1. /\ pc[w] = "started" /\ Publish(w, 1, "STARTED", "resolve", "none")
        /\ UNCHANGED publishFrame
    BY <1>1 DEF PublishStarted
  <2>2. rec[w] = << >>
    BY <1>0, <2>1 DEF PhaseOK
  <2>3. PhaseOK("resolve", job[w], rec[w], status[w], "none")
    BY <1>a, <2>1, <2>2, PhasesHold
  <2> QED BY <1>l, <2>1, <2>3, PublishToShape DEF ProgressStates, TerminalStates
<1>2. CASE ResolveFails(w)
  <2>1. pc[w] = "resolve" /\ Publish(w, 2, "FAILED", "done", "error") /\ UNCHANGED publishFrame
    BY <1>2 DEF ResolveFails
  <2>3. PhaseOK("done", job[w], rec[w], status[w], "error")
    BY <1>a, <2>1, PhasesHold
  <2> QED BY <1>l, <2>1, <2>3, PublishToShape DEF ProgressStates, TerminalStates
<1>3. CASE PublishResolved(w)
  <2>1. /\ pc[w] = "resolve" /\ Publish(w, 2, "SKILL_RESOLVED", "running", "none")
        /\ UNCHANGED publishFrame
    BY <1>3 DEF PublishResolved
  <2>2. rec[w] = << >>
    BY <1>0, <2>1 DEF PhaseOK
  <2>3. PhaseOK("running", job[w], rec[w], status[w], "none")
    BY <1>a, <2>1, <2>2, PhasesHold
  <2> QED BY <1>l, <2>1, <2>3, PublishToShape DEF ProgressStates, TerminalStates
<1>4. CASE PublishRunning(w)
  <2>1. /\ pc[w] = "running" /\ Publish(w, 3, "RUNNING", "run", "none")
        /\ UNCHANGED publishFrame
    BY <1>4 DEF PublishRunning
  <2>2. rec[w] = << >>
    BY <1>0, <2>1 DEF PhaseOK
  <2>3. PhaseOK("run", job[w], rec[w], status[w], "none")
    BY <1>a, <2>1, <2>2, PhasesHold
  <2> QED BY <1>l, <2>1, <2>3, PublishToShape DEF ProgressStates, TerminalStates
<1>5. CASE Reject(w)
  <2> DEFINE ev == Event("EXECUTION_REJECTED", None)
  <2>1. /\ pc[w] = "run" /\ UNCHANGED <<pending, job, hostRec, progress, summary, snaps>>
        /\ EmitsTo(w, ev, "terminal", "REJECTED", "done", "error", runs)
    BY <1>5 DEF Reject, runFrame, Emits, EmitsTo, Ends, Escapes, Raise, Goto
  <2>2. /\ ev \in Events /\ Append(rec[w], ev) # << >>
        /\ LastType(Append(rec[w], ev)) = "EXECUTION_REJECTED"
    BY <1>0, RunEvent DEF RunEvents
  <2>3. /\ PhaseOK("terminal", job[w], Append(rec[w], ev), "REJECTED", answer[w])
        /\ PhaseOK("done", job[w], rec[w], status[w], "error")
    BY <1>a, <1>e, <2>1, <2>2, PhasesHold DEF Statuses
  <2>4. snaps' \in Nat
    BY <2>1 DEF WorkTypeOK
  <2> HIDE DEF ev
  <2> QED BY <1>l, <2>1, <2>2, <2>3, <2>4, EmitsToShape DEF Statuses
<1>6. CASE Start(w)
  <2> DEFINE ev == Event("EXECUTION_STARTED", snaps')
             r == [runs EXCEPT ![job[w].exec] = @ + 1]
  <2>1. /\ pc[w] = "run" /\ UNCHANGED <<pending, job, hostRec, progress, summary>>
        /\ snaps' \in Nat
    BY <1>6, <1>s DEF Start, runFrame
  <2>m. EmitsTo(w, ev, "call", status[w], "failing", answer[w], r)
    BY <1>6, SameAt DEF Start, Emits, EmitsTo, Failing, Goto
  <2>2. ev \in Events
    BY <1>0, <2>1, RunEvent DEF RunEvents
  <2>3. /\ PhaseOK("call", job[w], Append(rec[w], ev), status[w], answer[w])
        /\ PhaseOK("failing", job[w], rec[w], status[w], answer[w])
    BY <1>a, <2>1, PhasesHold
  <2>4. rec[w] = << >>
    BY <1>0, <2>1 DEF PhaseOK
  <2>5. answer[w] \in {"none", "error"}
    BY <1>a, <2>1
  <2> HIDE DEF ev
  <2> QED BY <1>0, <1>l, <2>1, <2>m, <2>2, <2>3, <2>4, <2>5, EmitsToShape
<1>7. CASE RunFails(w)
  <2>1. /\ pc[w] \in {"call", "run"} /\ pc' = [pc EXCEPT ![w] = "failing"]
        /\ UNCHANGED <<storeVars, pending, job, rec, status, answer, hostRec, progress, summary,
                       snaps, runs>>
    BY <1>7 DEF RunFails, Failing, Goto, runFrame
  <2>2. PhaseOK("failing", job[w], rec[w], status[w], answer[w])
    BY <1>a, <2>1, PhasesHold
  <2>3. Moves(w, "failing", rec[w], status[w], answer[w])
    BY <2>1, SameAt DEF Moves
  <2>4. QuietShape(w, rec[w], answer[w])
    BY <1>a, <2>1 DEF QuietShape
  <2>5. snaps' \in Nat
    BY <2>1 DEF WorkTypeOK
  <2> QED BY <1>0, <1>l, <2>1, <2>2, <2>3, <2>4, <2>5 DEF WorkerShape
<1>8. CASE CallTool(w)
  <2> DEFINE ev == Event("TOOL_STARTED", snaps')
  <2>1. /\ pc[w] = "call" /\ UNCHANGED <<pending, job, hostRec, progress, summary>>
        /\ snaps' \in Nat
    BY <1>8, <1>s DEF CallTool, runFrame
  <2>m. EmitsTo(w, ev, "wait", status[w], "failing", answer[w], runs)
    BY <1>8, SameAt DEF CallTool, Emits, EmitsTo, Failing, Next0, Goto
  <2>2. ev \in Events
    BY <1>0, <2>1, RunEvent DEF RunEvents
  <2>3. /\ PhaseOK("wait", job[w], Append(rec[w], ev), status[w], answer[w])
        /\ PhaseOK("failing", job[w], rec[w], status[w], answer[w])
    BY <1>a, <2>1, PhasesHold
  <2>5. answer[w] \in {"none", "error"}
    BY <1>a, <2>1
  <2> HIDE DEF ev
  <2> QED BY <1>0, <1>l, <2>1, <2>m, <2>2, <2>3, <2>5, EmitsToShape
<1>9. ASSUME NEW v \in Answers, ToolReturns(w, v)
      PROVE  WorkerShape(w)
  <2> DEFINE ev == Event("TOOL_COMPLETED", v)
  <2>1. /\ pc[w] = "wait" /\ UNCHANGED <<pending, job, hostRec, progress, summary>>
        /\ snaps' \in Nat
    BY <1>9, <1>s DEF ToolReturns, runFrame
  <2>m. EmitsTo(w, ev, "finish", status[w], "failing", answer[w], runs)
    BY <1>9, SameAt DEF ToolReturns, Emits, EmitsTo, Failing, Next0, Goto
  <2>2. ev \in Events
    BY <1>0, RunEvent DEF RunEvents
  <2>3. /\ PhaseOK("finish", job[w], Append(rec[w], ev), status[w], answer[w])
        /\ PhaseOK("failing", job[w], rec[w], status[w], answer[w])
    BY <1>a, <2>1, PhasesHold
  <2>5. answer[w] \in {"none", "error"}
    BY <1>a, <2>1
  <2> HIDE DEF ev
  <2> QED BY <1>0, <1>l, <2>1, <2>m, <2>2, <2>3, <2>5, EmitsToShape
<1>10. CASE ToolFails(w)
  <2> DEFINE ev == Event("TOOL_FAILED", None)
  <2>1. /\ pc[w] = "wait" /\ UNCHANGED <<pending, job, hostRec, progress, summary, snaps>>
    BY <1>10 DEF ToolFails, runFrame
  <2>m. EmitsTo(w, ev, "failing", status[w], "failing", answer[w], runs)
    BY <1>10, SameAt DEF ToolFails, Emits, EmitsTo, Failing, Goto
  <2>2. ev \in Events
    BY <1>0, RunEvent DEF RunEvents
  <2>3. /\ PhaseOK("failing", job[w], Append(rec[w], ev), status[w], answer[w])
        /\ PhaseOK("failing", job[w], rec[w], status[w], answer[w])
    BY <1>a, <2>1, PhasesHold
  <2>4. snaps' \in Nat
    BY <2>1 DEF WorkTypeOK
  <2>5. answer[w] \in {"none", "error"}
    BY <1>a, <2>1
  <2> HIDE DEF ev
  <2> QED BY <1>0, <1>l, <2>1, <2>m, <2>2, <2>3, <2>4, <2>5, EmitsToShape
<1>11. CASE Cancel(w)
  <2>1. /\ pc[w] = "wait" /\ pc' = [pc EXCEPT ![w] = "done"]
        /\ answer' = [answer EXCEPT ![w] = "error"]
        /\ UNCHANGED <<storeVars, pending, job, rec, status, hostRec, progress, summary,
                       snaps, runs>>
    BY <1>11 DEF Cancel, Escapes, Raise, Goto, runFrame
  <2>2. PhaseOK("done", job[w], rec[w], status[w], "error")
    BY <1>a, <2>1, PhasesHold
  <2>3. Moves(w, "done", rec[w], status[w], "error")
    BY <2>1, SameAt DEF Moves
  <2>4. QuietShape(w, rec[w], "error")
    BY <2>1 DEF QuietShape
  <2>5. snaps' \in Nat
    BY <2>1 DEF WorkTypeOK
  <2> QED BY <1>0, <1>l, <2>1, <2>2, <2>3, <2>4, <2>5 DEF WorkerShape
<1>12. CASE Finish(w)
  <2> DEFINE ev == Event("EXECUTION_COMPLETED", None)
  <2>1. /\ pc[w] = "finish" /\ UNCHANGED <<pending, job, hostRec, progress, summary, snaps>>
    BY <1>12 DEF Finish, runFrame
  <2>m. EmitsTo(w, ev, "terminal", "COMPLETED", "failing", answer[w], runs)
    BY <1>12, SameAt DEF Finish, Emits, EmitsTo, Ends, Failing, Goto
  <2>2. /\ ev \in Events /\ Append(rec[w], ev) # << >>
        /\ LastType(Append(rec[w], ev)) = "EXECUTION_COMPLETED"
    BY <1>0, RunEvent DEF RunEvents
  <2>3. /\ PhaseOK("terminal", job[w], Append(rec[w], ev), "COMPLETED", answer[w])
        /\ PhaseOK("failing", job[w], rec[w], status[w], answer[w])
    BY <1>a, <1>e, <2>1, <2>2, PhasesHold DEF Statuses
  <2>4. snaps' \in Nat
    BY <2>1 DEF WorkTypeOK
  <2>5. answer[w] \in {"none", "error"}
    BY <1>a, <2>1
  <2> HIDE DEF ev
  <2> QED BY <1>l, <2>1, <2>m, <2>2, <2>3, <2>4, <2>5, EmitsToShape DEF Statuses
<1>13. CASE Fail(w)
  <2> DEFINE ev == Event("EXECUTION_FAILED", None)
  <2>1. /\ pc[w] = "failing" /\ UNCHANGED <<pending, job, hostRec, progress, summary, snaps>>
        /\ EmitsTo(w, ev, "terminal", "FAILED", "done", "error", runs)
    BY <1>13 DEF Fail, runFrame, Emits, EmitsTo, Ends, Escapes, Raise, Goto
  <2>2. /\ ev \in Events /\ Append(rec[w], ev) # << >>
        /\ LastType(Append(rec[w], ev)) = "EXECUTION_FAILED"
    BY <1>0, RunEvent DEF RunEvents
  <2>3. /\ PhaseOK("terminal", job[w], Append(rec[w], ev), "FAILED", answer[w])
        /\ PhaseOK("done", job[w], rec[w], status[w], "error")
    BY <1>a, <1>e, <2>1, <2>2, PhasesHold DEF Statuses
  <2>4. snaps' \in Nat
    BY <2>1 DEF WorkTypeOK
  <2> HIDE DEF ev
  <2> QED BY <1>l, <2>1, <2>2, <2>3, <2>4, EmitsToShape DEF Statuses
<1>14. CASE PublishTerminal(w)
  <2>1. /\ pc[w] = "terminal" /\ Publish(w, 4, TerminalState(w), "done", "envelope")
        /\ UNCHANGED publishFrame
    BY <1>14 DEF PublishTerminal
  <2>2. /\ status[w] \in Statuses /\ rec[w] # << >> /\ LastType(rec[w]) = EndEvent(status[w])
    BY <1>0, <2>1 DEF PhaseOK
  <2>3. PhaseOK("done", job[w], rec[w], status[w], "envelope")
    BY <1>a, <2>1, <2>2 DEF PhaseOK
  <2>4. TerminalState(w) \in ProgressStates
    BY DEF TerminalState, ProgressStates
  <2> QED BY <1>l, <2>1, <2>3, <2>4, PublishToShape
<1> QED BY <1>1, <1>2, <1>3, <1>4, <1>5, <1>6, <1>7, <1>8, <1>9, <1>10, <1>11, <1>12, <1>13,
           <1>14 DEF WorkerStep

LEMMA WorkerShapeTypes ==
  ASSUME WorkTypeOK, PhaseInv, NEW w \in Workers, WorkerShape(w)
  PROVE  WorkTypeOK' /\ PhaseInv'
<1>1. PICK l \in Labels, t \in Seq(Events), s \in Statuses \cup {None},
           a \in {"none", "envelope", "error"} :
        /\ Moves(w, l, t, s, a)
        /\ PhaseOK(l, job[w], t, s, a)
        /\ EmitShape(w, t) \/ QuietShape(w, t, a) \/ PublishShape(w, t, s, a)
  BY DEF WorkerShape
<1>2. job[w] \in Documents /\ job[w].exec \in Execs
  BY DocumentExec DEF WorkerShape, PhaseInv, PhaseOK
<1>3. runs' \in [Execs -> Nat]
  <2>1. CASE UNCHANGED runs
    BY <2>1 DEF WorkTypeOK
  <2>2. CASE runs' = [runs EXCEPT ![job[w].exec] = @ + 1]
    BY <1>2, <2>2 DEF WorkTypeOK
  <2> QED BY <1>1, <2>1, <2>2 DEF EmitShape, QuietShape, PublishShape
<1>4. progress' \in [Execs -> Seq(ProgressStates)]
  <2>1. CASE UNCHANGED progress
    BY <2>1 DEF WorkTypeOK
  <2>2. ASSUME NEW state \in ProgressStates,
               progress' = [progress EXCEPT ![job[w].exec] = Append(@, state)]
        PROVE  progress' \in [Execs -> Seq(ProgressStates)]
    <3>1. Append(progress[job[w].exec], state) \in Seq(ProgressStates)
      BY <1>2, AppendProperties DEF WorkTypeOK
    <3> QED BY <2>2, <3>1 DEF WorkTypeOK
  <2> QED BY <1>1, <2>1, <2>2 DEF EmitShape, QuietShape, PublishShape
<1>5. snaps' \in Nat
  BY DEF WorkerShape
<1> QED BY <1>1, <1>3, <1>4, <1>5, MovesKeep

(* What the store does beside the events it takes. *)
StoreQuiet ==
  \/ UNCHANGED storeVars
  \/ \E e \in Execs, u \in Trails : AppendFails(e, u)
  \/ \E gone \in SUBSET Execs : Rewrite(gone) \/ RewriteCut(gone)
  \/ Open
  \/ StoreTick

(* WriteAuditRecorder.record has stored an event. *)
HostShape ==
  /\ \E ev \in Events :
       /\ AppendEvent(HostExec, Append(hostRec, ev))
       /\ hostRec' = Append(hostRec, ev)
       /\ summary' = summary \/ ( /\ ev.type = VerificationEvent(summary')
                                  /\ {"approval", "key"} \subseteq ev.value )
  /\ UNCHANGED <<pending, pc, job, rec, status, answer, progress, snaps, runs>>

(* No recorder moves and no call ends with an envelope. *)
RestShape ==
  /\ StoreQuiet
  /\ pending' \subseteq Documents
  /\ UNCHANGED <<rec, status, progress, snaps, hostRec, summary, runs>>
  /\ \/ UNCHANGED <<pc, job, answer>>
     \/ \E w \in Workers :
          /\ pc[w] = "idle"
          /\ \/ /\ pc' = [pc EXCEPT ![w] = "started"]
                /\ \E p \in Documents : job' = [job EXCEPT ![w] = p]
                /\ UNCHANGED answer
             \/ /\ pc' = [pc EXCEPT ![w] = "done"]
                /\ UNCHANGED job
                /\ answer' = [answer EXCEPT ![w] = "error"]

LEMMA HostShapes ==
  ASSUME WorkTypeOK, NEW i \in Identities,
         \/ \E type \in WriteEvents : RecordWrite(type, i)
         \/ \E s \in Verifications : RecordVerification(s, i)
  PROVE  HostShape \/ RestShape
<1>0. HostExec \in Execs /\ hostRec \in Seq(Events)
  BY WorkAssumption DEF WorkTypeOK
<1>1. ASSUME NEW type \in WriteEvents \cup {"WRITE_VERIFIED", "WRITE_VERIFICATION_FAILED"},
             AppendFails(HostExec, Append(hostRec, Event(type, i))), UNCHANGED hostRec,
             UNCHANGED hostFrame, UNCHANGED summary
      PROVE  RestShape
  <2>1. Event(type, i) \in Events
    BY DEF Event, Events
  <2>2. Append(hostRec, Event(type, i)) \in Trails
    BY <1>0, <2>1, FrontOfAppend DEF Trails
  <2>3. StoreQuiet
    BY <1>0, <1>1, <2>2 DEF StoreQuiet
  <2> QED BY <1>1, <2>3 DEF RestShape, hostFrame, WorkTypeOK
<1>2. ASSUME NEW type \in WriteEvents \cup {"WRITE_VERIFIED", "WRITE_VERIFICATION_FAILED"},
             AppendEvent(HostExec, Append(hostRec, Event(type, i))),
             hostRec' = Append(hostRec, Event(type, i)), UNCHANGED hostFrame,
             summary' = summary \/ (type = VerificationEvent(summary')
                                    /\ {"approval", "key"} \subseteq i)
      PROVE  HostShape
  <2>1. Event(type, i) \in Events /\ Event(type, i).type = type /\ Event(type, i).value = i
    BY DEF Event, Events
  <2> QED BY <1>2, <2>1 DEF HostShape, hostFrame
<1>3. ASSUME NEW type \in WriteEvents, RecordWrite(type, i)
      PROVE  HostShape \/ RestShape
  BY <1>1, <1>2, <1>3 DEF RecordWrite, Recorded
<1>4. ASSUME NEW s \in Verifications, RecordVerification(s, i)
      PROVE  HostShape \/ RestShape
  <2> DEFINE type == VerificationEvent(s)
  <2>1. type \in {"WRITE_VERIFIED", "WRITE_VERIFICATION_FAILED"}
    BY DEF VerificationEvent
  <2>2. {"approval", "key"} \subseteq i
    BY <1>4, <2>1 DEF RecordVerification, Recorded, Bound, IdempotencyBound
  <2>3. UNCHANGED hostFrame /\ summary' = (IF hostRec' = hostRec THEN summary ELSE s)
    BY <1>4 DEF RecordVerification
  <2>4. CASE /\ AppendEvent(HostExec, Append(hostRec, Event(type, i)))
             /\ hostRec' = Append(hostRec, Event(type, i))
    <3>1. summary' = summary \/ (type = VerificationEvent(summary')
                                 /\ {"approval", "key"} \subseteq i)
      BY <2>2, <2>3
    <3> HIDE DEF type
    <3> QED BY <1>2, <2>1, <2>3, <2>4, <3>1
  <2>5. CASE AppendFails(HostExec, Append(hostRec, Event(type, i))) /\ UNCHANGED hostRec
    <3> HIDE DEF type
    <3> QED BY <1>1, <2>1, <2>3, <2>5
  <2> QED BY <1>4, <2>4, <2>5 DEF RecordVerification, Recorded
<1> QED BY <1>3, <1>4

(* A payload that decodes is one of the documents. *)
LEMMA Delivered ==
  ASSUME WorkTypeOK, NEW w \in Workers, NEW p \in Payloads \cup pending, Deliver(w, p)
  PROVE  RestShape
<1>1. p \in Documents
  <2>1. pending \subseteq Documents /\ Payloads \subseteq Documents
    BY DocumentOf DEF WorkTypeOK
  <2> QED BY <2>1
<1>2. StoreQuiet
  BY DEF Deliver, StoreQuiet
<1>3. /\ pc[w] = "idle" /\ pending' \subseteq Documents
      /\ UNCHANGED <<rec, status, progress, snaps, hostRec, summary, runs>>
  BY DEF Deliver, WorkTypeOK
<1>4. \/ /\ pc' = [pc EXCEPT ![w] = "started"] /\ job' = [job EXCEPT ![w] = p]
         /\ UNCHANGED answer
      \/ /\ pc' = [pc EXCEPT ![w] = "done"] /\ UNCHANGED job
         /\ answer' = [answer EXCEPT ![w] = "error"]
  BY DEF Deliver, Goto, Raise
<1> QED BY <1>1, <1>2, <1>3, <1>4 DEF RestShape

LEMMA WorkShapes ==
  ASSUME WorkTypeOK, PhaseInv, WorkNext
  PROVE  (\E w \in Workers : WorkerShape(w)) \/ HostShape \/ RestShape \/ Crash
<1>1. ASSUME NEW p \in Payloads, Submit(p)
      PROVE  RestShape
  <2>1. pending' \subseteq Documents
    <3>1. pending \subseteq Documents
      BY DEF WorkTypeOK
    <3>2. pending' = pending \cup {Encoded(p)}
      BY <1>1 DEF Submit, Encoded
    <3> QED BY <3>1, <3>2, DocumentOf
  <2>2. StoreQuiet
    BY <1>1 DEF Submit, StoreQuiet
  <2> QED BY <1>1, <2>1, <2>2 DEF Submit, RestShape
<1>2. ASSUME StoreQuiet, UNCHANGED workVars
      PROVE  RestShape
  BY <1>2 DEF RestShape, workVars, WorkTypeOK
<1>3. CASE Remove
  <2>1. StoreQuiet
    <3>1. \A e \in Execs : {e} \in SUBSET Execs
      OBVIOUS
    <3>2. ExpiredExecs \in SUBSET Execs
      BY DEF ExpiredExecs
    <3> QED BY <1>3, <3>1, <3>2 DEF Remove, DeleteExecution, PurgeExpired, StoreQuiet
  <2> QED BY <1>2, <1>3, <2>1 DEF Remove
<1>4. CASE RemoveFails
  <2>1. StoreQuiet
    <3>1. \A e \in Execs : {e} \in SUBSET Execs
      OBVIOUS
    <3>2. ExpiredExecs \in SUBSET Execs
      BY DEF ExpiredExecs
    <3> QED BY <1>4, <3>1, <3>2 DEF RemoveFails, RemovalFails, StoreQuiet
  <2> QED BY <1>2, <1>4, <2>1 DEF RemoveFails
<1>5. CASE Restart
  <2>1. StoreQuiet
    BY <1>5 DEF Restart, StoreQuiet
  <2> QED BY <1>5, <2>1 DEF Restart, RestShape, WorkTypeOK
<1>6. CASE Tick
  <2>1. StoreQuiet
    BY <1>6 DEF Tick, StoreQuiet
  <2> QED BY <1>2, <1>6, <2>1 DEF Tick
<1> QED BY <1>1, <1>3, <1>4, <1>5, <1>6, WorkerStepShape, HostShapes, Delivered DEF WorkNext

LEMMA WorkTypeStep == WorkTypeOK /\ PhaseInv /\ [WorkNext]_vars => WorkTypeOK' /\ PhaseInv'
<1> SUFFICES ASSUME WorkTypeOK, PhaseInv, [WorkNext]_vars
             PROVE  WorkTypeOK' /\ PhaseInv'
  OBVIOUS
<1>1. CASE UNCHANGED vars
  BY <1>1 DEF vars, workVars, WorkTypeOK, PhaseInv
<1>2. CASE HostShape
  <2>1. PICK ev \in Events : hostRec' = Append(hostRec, ev)
    BY <1>2 DEF HostShape
  <2>2. hostRec' \in Seq(Events)
    BY <2>1 DEF WorkTypeOK
  <2> QED BY <1>2, <2>2 DEF HostShape, WorkTypeOK, PhaseInv
<1>3. CASE RestShape
  <2>1. CASE UNCHANGED <<pc, job, answer>>
    BY <1>3, <2>1 DEF RestShape, WorkTypeOK, PhaseInv
  <2>2. ASSUME NEW w \in Workers, pc[w] = "idle", pc' = [pc EXCEPT ![w] = "started"],
               NEW p \in Documents, job' = [job EXCEPT ![w] = p], UNCHANGED answer
        PROVE  WorkTypeOK' /\ PhaseInv'
    <3>1. WorkTypeOK'
      BY <1>3, <2>2 DEF RestShape, WorkTypeOK, Labels
    <3>2. ASSUME NEW v \in Workers
          PROVE  PhaseOK(pc'[v], job'[v], rec'[v], status'[v], answer'[v])
      <4>1. PhaseOK(pc[v], job[v], rec[v], status[v], answer[v])
        BY DEF PhaseInv
      <4>2. CASE v = w
        <5>1. rec[v] = << >> /\ answer[v] # "envelope"
          BY <2>2, <4>1, <4>2 DEF PhaseOK
        <5> QED BY <1>3, <2>2, <4>2, <5>1 DEF RestShape, PhaseOK, WorkTypeOK
      <4>3. CASE v # w
        BY <1>3, <2>2, <4>1, <4>3 DEF RestShape, WorkTypeOK
      <4> QED BY <4>2, <4>3
    <3> QED BY <3>1, <3>2 DEF PhaseInv
  <2>3. ASSUME NEW w \in Workers, pc[w] = "idle", pc' = [pc EXCEPT ![w] = "done"],
               UNCHANGED job, answer' = [answer EXCEPT ![w] = "error"]
        PROVE  WorkTypeOK' /\ PhaseInv'
    <3>1. WorkTypeOK'
      BY <1>3, <2>3 DEF RestShape, WorkTypeOK, Labels
    <3>2. ASSUME NEW v \in Workers
          PROVE  PhaseOK(pc'[v], job'[v], rec'[v], status'[v], answer'[v])
      <4>1. PhaseOK(pc[v], job[v], rec[v], status[v], answer[v])
        BY DEF PhaseInv
      <4>2. CASE v = w
        <5>1. rec[v] = << >>
          BY <2>3, <4>1, <4>2 DEF PhaseOK
        <5> QED BY <1>3, <2>3, <4>2, <5>1 DEF RestShape, PhaseOK, WorkTypeOK
      <4>3. CASE v # w
        BY <1>3, <2>3, <4>1, <4>3 DEF RestShape, WorkTypeOK
      <4> QED BY <4>2, <4>3
    <3> QED BY <3>1, <3>2 DEF PhaseInv
  <2> QED BY <1>3, <2>1, <2>2, <2>3 DEF RestShape
<1>4. CASE Crash
  <2>1. << >> \in Seq(Events) /\ << >> \in Seq(ProgressStates)
    OBVIOUS
  <2>2. /\ rec' \in [Workers -> Seq(Events)] /\ progress' \in [Execs -> Seq(ProgressStates)]
        /\ hostRec' \in Seq(Events)
    BY <1>4, <2>1 DEF Crash
  <2>3. /\ pc' \in [Workers -> Labels] /\ job' \in [Workers -> Documents \cup {None}]
        /\ status' \in [Workers -> Statuses \cup {None}]
        /\ answer' \in [Workers -> {"none", "envelope", "error"}]
        /\ pending' \subseteq Documents /\ snaps' \in Nat
    BY <1>4 DEF Crash, Labels
  <2>4. PhaseInv'
    BY <1>4 DEF Crash, PhaseInv, PhaseOK
  <2>5. runs' \in [Execs -> Nat]
    BY <1>4 DEF Crash, WorkTypeOK
  <2> QED BY <2>2, <2>3, <2>4, <2>5 DEF WorkTypeOK
<1> QED BY <1>1, <1>2, <1>3, <1>4, WorkShapes, WorkerShapeTypes

----------------------------------------------------------------------------
(* The workers and the host use the store by its protocol *)

LEMMA WorkStoreStep ==
  WorkTypeOK /\ PhaseInv /\ [WorkNext]_vars => [StoreStep]_storeVars
<1> SUFFICES ASSUME WorkTypeOK, PhaseInv, [WorkNext]_vars
             PROVE  [StoreStep]_storeVars
  OBVIOUS
<1>1. CASE UNCHANGED vars
  BY <1>1 DEF vars
<1>2. ASSUME StoreQuiet
      PROVE  [StoreStep]_storeVars
  BY <1>2 DEF StoreQuiet, StoreStep
<1>3. ASSUME NEW e \in Execs, NEW r \in Seq(Events), NEW ev \in Events,
             AppendEvent(e, Append(r, ev))
      PROVE  [StoreStep]_storeVars
  <2>1. Append(r, ev) \in Trails
    BY FrontOfAppend DEF Trails
  <2> QED BY <1>3, <2>1 DEF StoreStep
<1>4. ASSUME NEW w \in Workers, WorkerShape(w)
      PROVE  [StoreStep]_storeVars
  <2>1. PICK l \in Labels, t \in Seq(Events), s \in Statuses \cup {None},
             a \in {"none", "envelope", "error"} :
          EmitShape(w, t) \/ QuietShape(w, t, a) \/ PublishShape(w, t, s, a)
    BY <1>4 DEF WorkerShape
  <2>2. job[w].exec \in Execs /\ rec[w] \in Seq(Events)
    BY <1>4, DocumentExec, SameAt DEF WorkerShape, PhaseInv, PhaseOK
  <2>3. CASE EmitShape(w, t)
    <3>1. PICK ev \in Events : t = Append(rec[w], ev)
      BY <2>3 DEF EmitShape
    <3> QED BY <1>3, <2>2, <2>3, <3>1 DEF EmitShape
  <2>4. CASE QuietShape(w, t, a) \/ PublishShape(w, t, s, a)
    <3>1. StoreQuiet
      BY <2>2, <2>4 DEF QuietShape, PublishShape, StoreQuiet
    <3> QED BY <1>2, <3>1
  <2> QED BY <2>1, <2>3, <2>4
<1>5. CASE HostShape
  <2>1. HostExec \in Execs /\ hostRec \in Seq(Events)
    BY WorkAssumption DEF WorkTypeOK
  <2> QED BY <1>3, <1>5, <2>1 DEF HostShape
<1>6. CASE RestShape
  BY <1>2, <1>6 DEF RestShape
<1>7. CASE Crash
  BY <1>7 DEF Crash
<1> QED BY <1>1, <1>4, <1>5, <1>6, <1>7, WorkShapes

(* The workers and the host use JsonlAuditStore by its protocol: every step *)
(* of theirs is one of the store or leaves it alone.                        *)
THEOREM WorkImplementsStore == WorkSpec => StoreSpec
<1>1. WorkInit => StoreInit /\ WorkTypeOK /\ PhaseInv
  BY WorkTypeInit DEF WorkInit
<1>2. WorkSpec => [](WorkTypeOK /\ PhaseInv)
  BY <1>1, WorkTypeStep, PTL DEF WorkSpec
<1> QED BY <1>1, <1>2, WorkStoreStep, PTL DEF WorkSpec, StoreSpec

(* JsonlAuditStore under the workers, the host and the crashes of their     *)
(* process: a file that opens holds all the events that append has          *)
(* confirmed.                                                               *)
THEOREM WorkKeepsConfirmed == WorkSpec => []ConfirmedIsKept
BY WorkImplementsStore, StoreKeepsConfirmed, PTL

----------------------------------------------------------------------------
(* One recorder per execution *)

(* No record of e was lost, as far as e is concerned. *)
Intact(e) ==
  /\ ~cut
  /\ e \notin removed
  /\ ~misread \/ (Readable(file) /\ Chain(file, e))

(* Worker w has recorded events of e. *)
On(w, e) == rec[w] # << >> /\ job[w].exec = e

(* As long as the records of e are intact, one recorder at most has events  *)
(* of e, it has all that were confirmed, and the body was begun with the    *)
(* first of them.                                                           *)
OneRecorder(e) ==
  /\ \A w \in Workers : On(w, e) => rec[w] = accepted[e]
  /\ \A v, w \in Workers : On(v, e) /\ On(w, e) => v = w
  /\ hostRec # << >> /\ e = HostExec =>
       hostRec = accepted[e] /\ \A w \in Workers : ~On(w, e)
  /\ runs[e] <= 1
  /\ runs[e] = 1 => accepted[e] # << >>

TrailInv == \A e \in Execs : Intact(e) => OneRecorder(e)

LEMMA OwedIntact ==
  ASSUME StoreTypeOK, NEW e \in Execs, Owed(e)
  PROVE  Intact(e)
<1>1. CASE misread
  <2>1. Loads(file)
    BY <1>1 DEF Owed
  <2>2. Chain(file, e) /\ Readable(file)
    BY <2>1, LoadsByChains DEF StoreTypeOK
  <2> QED BY <2>2 DEF Intact, Owed
<1>2. CASE ~misread
  BY <1>2 DEF Intact, Owed
<1> QED BY <1>1, <1>2

(* What is intact was intact, and only an event of its own has changed what *)
(* is confirmed.                                                            *)
LEMMA IntactBefore ==
  ASSUME StoreInv, NEW e \in Execs, Intact(e)'
  PROVE  /\ StoreQuiet => Intact(e) /\ accepted'[e] = accepted[e]
         /\ \A x \in Execs : \A t \in Trails : AppendEvent(x, t) =>
              /\ Intact(e)
              /\ x # e => accepted'[e] = accepted[e]
              /\ x = e => accepted'[e] = t /\ Prefix(accepted[e], FrontOf(t))
<1>0. StoreTypeOK /\ file \in Files /\ accepted \in [Execs -> Seq(Events)]
  BY DEF StoreInv, StoreTypeOK
<1>a. ~cut' /\ e \notin removed' /\ (~misread' \/ (Readable(file') /\ Chain(file', e)))
  BY DEF Intact
<1>b. ASSUME UNCHANGED <<file, accepted, removed, cut, misread>>
      PROVE  Intact(e) /\ accepted'[e] = accepted[e]
  BY <1>a, <1>b DEF Intact
<1>c. ASSUME NEW x \in Execs, NEW t \in Trails, file' = Extended(Record(x, t)),
             UNCHANGED <<removed, cut, misread>>
      PROVE  Intact(e)
  <2>1. Record(x, t) \in StoredRecords
    BY <1>0, RecordType
  <2>2. CASE ~misread
    BY <1>a, <1>c, <2>2 DEF Intact
  <2>3. CASE Readable(file') /\ Chain(file', e)
    <3>1. file' = Append(file, Record(x, t)) /\ Readable(file)
      BY <1>0, <1>c, <2>1, <2>3, ExtendedFile
    <3>2. Chain(file, e)
      BY <1>0, <2>1, <2>3, <3>1, AppendedChain
    <3> QED BY <1>a, <1>c, <3>1, <3>2 DEF Intact
  <2> QED BY <1>a, <1>c, <2>2, <2>3
<1>1. ASSUME NEW x \in Execs, NEW t \in Trails, AppendEvent(x, t)
      PROVE  /\ Intact(e)
             /\ x # e => accepted'[e] = accepted[e]
             /\ x = e => accepted'[e] = t /\ Prefix(accepted[e], FrontOf(t))
  <2>1. /\ file' = Extended(Record(x, t)) /\ UNCHANGED <<removed, cut, misread>>
        /\ accepted' = [accepted EXCEPT ![x] = t]
    BY <1>1 DEF AppendEvent
  <2>2. Intact(e)
    BY <1>c, <2>1
  <2>3. x = e => Prefix(accepted[e], FrontOf(t))
    BY <1>1, <1>a, <2>1, ConfirmedGrows
  <2> QED BY <1>0, <2>1, <2>2, <2>3
<1>2. ASSUME NEW x \in Execs, NEW t \in Trails, AppendFails(x, t)
      PROVE  Intact(e) /\ accepted'[e] = accepted[e]
  <2>1. UNCHANGED <<accepted, removed, cut, misread>>
    BY <1>2 DEF AppendFails, FailedWrite
  <2>2. CASE file' = Extended(Torn)
    <3>1. ~Readable(file')
      BY <1>0, <2>2, ExtendedFile
    <3>2. ~misread
      BY <1>a, <2>1, <3>1
    <3> QED BY <1>a, <2>1, <3>2 DEF Intact
  <2>3. CASE file' = Extended(Record(x, t))
    BY <1>c, <2>1, <2>3
  <2>4. CASE UNCHANGED file
    BY <1>b, <2>1, <2>4
  <2> QED BY <1>2, <2>2, <2>3, <2>4 DEF AppendFails, FailedWrite
<1>3. ASSUME NEW gone \in SUBSET Execs, Rewrite(gone)
      PROVE  Intact(e) /\ accepted'[e] = accepted[e]
  <2>1. /\ Readable(file) /\ file' = Without(file, gone) /\ misread' = ~Loads(file')
        /\ removed' = removed \cup gone /\ cut' = cut
        /\ accepted'[e] = IF e \in gone THEN << >> ELSE accepted[e]
    BY <1>3 DEF Rewrite, Retained, Forget
  <2>2. e \notin gone /\ e \notin removed
    BY <1>a, <2>1
  <2>3. file' \in Files
    BY <1>0, <2>1, WithoutKeeps
  <2>4. Chain(file', e)
    BY <1>a, <2>1, <2>3, LoadsByChains
  <2>5. Chain(file, e)
    BY <1>0, <2>1, <2>2, <2>4, WithoutKeeps
  <2> QED BY <1>a, <2>1, <2>2, <2>5 DEF Intact
<1>4. ASSUME NEW gone \in SUBSET Execs, RewriteCut(gone)
      PROVE  FALSE
  BY <1>a, <1>4 DEF RewriteCut
<1>5. ASSUME Open
      PROVE  Intact(e) /\ accepted'[e] = accepted[e]
  <2>1. Loads(file) /\ UNCHANGED <<accepted, removed, cut>>
    BY <1>5 DEF Open
  <2>2. Readable(file) /\ Chain(file, e)
    BY <1>0, <2>1, LoadsByChains
  <2> QED BY <1>a, <2>1, <2>2 DEF Intact
<1>6. ASSUME StoreTick
      PROVE  Intact(e) /\ accepted'[e] = accepted[e]
  BY <1>6, <1>b DEF StoreTick
<1>7. ASSUME UNCHANGED storeVars
      PROVE  Intact(e) /\ accepted'[e] = accepted[e]
  BY <1>7, <1>b DEF storeVars
<1> QED BY <1>1, <1>2, <1>3, <1>4, <1>5, <1>6, <1>7 DEF StoreQuiet

(* A step in which no recorder moves, or some are lost. *)
LEMMA TrailRest ==
  ASSUME StoreInv, TrailInv, StoreQuiet, UNCHANGED runs,
         \A w \in Workers : rec'[w] # << >> => rec'[w] = rec[w] /\ job'[w].exec = job[w].exec,
         hostRec' = hostRec \/ hostRec' = << >>
  PROVE  TrailInv'
<1> SUFFICES ASSUME NEW e \in Execs, Intact(e)'
             PROVE  OneRecorder(e)'
  BY DEF TrailInv
<1>1. Intact(e) /\ accepted'[e] = accepted[e]
  BY IntactBefore
<1>2. OneRecorder(e)
  BY <1>1 DEF TrailInv
<1>3. \A w \in Workers : On(w, e)' => On(w, e) /\ rec'[w] = rec[w]
  BY DEF On
<1> QED BY <1>1, <1>2, <1>3 DEF OneRecorder

(* A recorder of x has stored an event: it was the one, or the first. *)
LEMMA TrailGrows ==
  ASSUME StoreInv, NEW e \in Execs, NEW r \in Seq(Events), NEW ev \in Events,
         AppendEvent(e, Append(r, ev)), Intact(e)'
  PROVE  /\ Intact(e) /\ accepted'[e] = Append(r, ev) /\ Append(r, ev) # << >>
         /\ accepted[e] # << >> => r # << >>
<1>1. /\ Append(r, ev) \in Trails /\ Append(r, ev) # << >>
      /\ FrontOf(Append(r, ev)) = r
  BY FrontOfAppend DEF Trails
<1>2. Intact(e) /\ accepted'[e] = Append(r, ev) /\ Prefix(accepted[e], r)
  BY <1>1, IntactBefore
<1>3. accepted[e] \in Seq(Events)
  BY DEF StoreInv, StoreTypeOK
<1>4. r = << >> => accepted[e] = << >>
  BY <1>2, <1>3, PrefixOfEmpty
<1> QED BY <1>1, <1>2, <1>4

LEMMA TrailEmit ==
  ASSUME StoreInv, TrailInv, WorkTypeOK, NEW w \in Workers, job[w].exec \in Execs,
         NEW t, EmitShape(w, t), rec' = [rec EXCEPT ![w] = t], UNCHANGED <<job, hostRec>>
  PROVE  TrailInv'
<1> DEFINE x == job[w].exec
<1>0. PICK ev \in Events : t = Append(rec[w], ev)
  BY DEF EmitShape
<1>1. /\ AppendEvent(x, t) /\ rec[w] \in Seq(Events) /\ t \in Trails
      /\ runs' = runs \/ (rec[w] = << >> /\ runs' = [runs EXCEPT ![x] = @ + 1])
  BY <1>0, SameAt, FrontOfAppend DEF EmitShape, Trails
<1>2. rec'[w] = t /\ \A v \in Workers : v # w => rec'[v] = rec[v]
  BY DEF WorkTypeOK
<1>t. runs \in [Execs -> Nat]
  BY DEF WorkTypeOK
<1> SUFFICES ASSUME NEW e \in Execs, Intact(e)'
             PROVE  OneRecorder(e)'
  BY DEF TrailInv
<1>3. CASE e # x
  <2>1. Intact(e) /\ accepted'[e] = accepted[e]
    BY <1>1, <1>3, IntactBefore
  <2>2. OneRecorder(e)
    BY <2>1 DEF TrailInv
  <2>3. \A v \in Workers : On(v, e)' => On(v, e) /\ rec'[v] = rec[v]
    BY <1>2, <1>3 DEF On
  <2>4. runs'[e] = runs[e]
    BY <1>1, <1>3, <1>t
  <2> QED BY <2>1, <2>2, <2>3, <2>4 DEF OneRecorder
<1>4. CASE e = x
  <2>1. /\ Intact(e) /\ accepted'[e] = t /\ t # << >>
        /\ accepted[e] # << >> => rec[w] # << >>
    BY <1>0, <1>1, <1>4, TrailGrows
  <2>2. OneRecorder(e)
    BY <2>1 DEF TrailInv
  <2>3. rec[w] # << >> => On(w, e)
    BY <1>4 DEF On
  <2>4. ASSUME NEW v \in Workers, On(v, e)'
        PROVE  v = w
    <3>1. CASE v # w
      <4>1. On(v, e) /\ rec[v] = accepted[e] /\ rec[v] # << >>
        BY <1>2, <2>2, <2>4, <3>1 DEF On, OneRecorder
      <4> QED BY <2>1, <2>2, <2>3, <4>1 DEF OneRecorder
    <3> QED BY <3>1
  <2>5. hostRec # << >> /\ e = HostExec => FALSE
    BY <2>1, <2>2, <2>3 DEF OneRecorder
  <2>6. runs'[e] <= 1
    <3>1. CASE runs' = runs
      BY <2>2, <3>1 DEF OneRecorder
    <3>2. CASE rec[w] = << >> /\ runs' = [runs EXCEPT ![x] = @ + 1]
      <4>1. accepted[e] = << >>
        BY <2>1, <3>2
      <4>2. runs[e] \in Nat /\ runs[e] <= 1 /\ runs[e] # 1
        BY <1>t, <2>2, <4>1 DEF OneRecorder
      <4>3. runs'[e] = runs[e] + 1
        BY <1>4, <1>t, <3>2
      <4> QED BY <4>2, <4>3
    <3> QED BY <1>1, <3>1, <3>2
  <2>7. \A v \in Workers : On(v, e)' => rec'[v] = accepted'[e]
    BY <1>2, <2>1, <2>4
  <2> QED BY <2>1, <2>4, <2>5, <2>6, <2>7 DEF OneRecorder
<1> QED BY <1>3, <1>4

LEMMA TrailHost ==
  ASSUME StoreInv, TrailInv, WorkTypeOK, HostShape
  PROVE  TrailInv'
<1>0. HostExec \in Execs /\ hostRec \in Seq(Events)
  BY WorkAssumption DEF WorkTypeOK
<1>1. PICK ev \in Events : /\ AppendEvent(HostExec, Append(hostRec, ev))
                           /\ hostRec' = Append(hostRec, ev)
  BY DEF HostShape
<1>2. Append(hostRec, ev) \in Trails
  BY <1>0, FrontOfAppend DEF Trails
<1>3. UNCHANGED <<job, rec, runs>>
  BY DEF HostShape
<1> SUFFICES ASSUME NEW e \in Execs, Intact(e)'
             PROVE  OneRecorder(e)'
  BY DEF TrailInv
<1>4. \A v \in Workers : On(v, e)' <=> On(v, e)
  BY <1>3 DEF On
<1>5. CASE e # HostExec
  <2>1. Intact(e) /\ accepted'[e] = accepted[e]
    BY <1>0, <1>1, <1>2, <1>5, IntactBefore
  <2>2. OneRecorder(e)
    BY <2>1 DEF TrailInv
  <2> QED BY <1>3, <1>4, <1>5, <2>1, <2>2 DEF OneRecorder
<1>6. CASE e = HostExec
  <2>1. /\ Intact(e) /\ accepted'[e] = hostRec' /\ hostRec' # << >>
        /\ accepted[e] # << >> => hostRec # << >>
    BY <1>0, <1>1, <1>6, TrailGrows
  <2>2. OneRecorder(e)
    BY <2>1 DEF TrailInv
  <2>3. ASSUME NEW v \in Workers, On(v, e)
        PROVE  FALSE
    <3>1. accepted[e] # << >>
      BY <2>2, <2>3 DEF OneRecorder, On
    <3> QED BY <1>6, <2>1, <2>2, <2>3, <3>1 DEF OneRecorder
  <2> QED BY <1>3, <1>4, <2>1, <2>2, <2>3 DEF OneRecorder
<1> QED BY <1>5, <1>6

LEMMA TrailInit == WorkInit => TrailInv
<1> SUFFICES ASSUME WorkInit, NEW e \in Execs
             PROVE  OneRecorder(e)
  BY DEF TrailInv
<1>1. hostRec = << >> /\ runs[e] = 0 /\ \A w \in Workers : rec[w] = << >>
  BY DEF WorkInit
<1> QED BY <1>1 DEF OneRecorder, On

LEMMA TrailStep ==
  StoreInv /\ WorkTypeOK /\ PhaseInv /\ TrailInv /\ [WorkNext]_vars => TrailInv'
<1> SUFFICES ASSUME StoreInv, WorkTypeOK, PhaseInv, TrailInv, [WorkNext]_vars
             PROVE  TrailInv'
  OBVIOUS
<1>1. CASE UNCHANGED vars
  <2>1. StoreQuiet
    BY <1>1 DEF vars, StoreQuiet
  <2> QED BY <1>1, <2>1, TrailRest DEF vars, workVars
<1>2. ASSUME NEW w \in Workers, WorkerShape(w)
      PROVE  TrailInv'
  <2>1. PICK l \in Labels, t \in Seq(Events), s \in Statuses \cup {None},
             a \in {"none", "envelope", "error"} :
          /\ Moves(w, l, t, s, a)
          /\ EmitShape(w, t) \/ QuietShape(w, t, a) \/ PublishShape(w, t, s, a)
    BY <1>2 DEF WorkerShape
  <2>2. job[w].exec \in Execs
    BY <1>2, DocumentExec DEF WorkerShape, PhaseInv, PhaseOK
  <2>3. rec' = [rec EXCEPT ![w] = t] /\ UNCHANGED <<job, hostRec>>
    BY <2>1 DEF Moves
  <2>4. CASE EmitShape(w, t)
    BY <2>2, <2>3, <2>4, TrailEmit
  <2>5. CASE QuietShape(w, t, a) \/ PublishShape(w, t, s, a)
    <3>1. StoreQuiet /\ t = rec[w] /\ UNCHANGED runs
      BY <2>2, <2>5 DEF QuietShape, PublishShape, StoreQuiet
    <3>2. UNCHANGED rec
      BY <2>3, <3>1, SameAt
    <3> QED BY <2>3, <3>1, <3>2, TrailRest
  <2> QED BY <2>1, <2>4, <2>5
<1>3. CASE HostShape
  BY <1>3, TrailHost
<1>4. CASE RestShape
  <2>1. StoreQuiet /\ UNCHANGED <<rec, hostRec, runs>>
    BY <1>4 DEF RestShape
  <2>2. ASSUME NEW v \in Workers, rec'[v] # << >>
        PROVE  job'[v] = job[v]
    <3>1. pc[v] # "idle"
      BY <2>1, <2>2 DEF PhaseInv, PhaseOK
    <3> QED BY <1>4, <3>1 DEF RestShape, WorkTypeOK
  <2> QED BY <2>1, <2>2, TrailRest
<1>5. CASE Crash
  <2>1. StoreQuiet /\ UNCHANGED runs /\ hostRec' = << >> /\ \A w \in Workers : rec'[w] = << >>
    BY <1>5 DEF Crash, StoreQuiet
  <2> QED BY <2>1, TrailRest
<1> QED BY <1>1, <1>2, <1>3, <1>4, <1>5, WorkShapes

----------------------------------------------------------------------------
(* Progress and answers *)

(* Four states are published for e by the call that has the envelope. *)
Reported(e) ==
  \E w \in Workers : /\ answer[w] = "envelope" /\ job[w].exec = e
                     /\ progress[e][4] = TerminalState(w)

(* A terminal state is the last one, at place 2 or 4. *)
EndsOnce(p) == \A k \in DOMAIN p : p[k] \in TerminalStates => k = Len(p) /\ k \in {2, 4}

ProgressOK(e) ==
  /\ EndsOnce(progress[e])
  /\ Len(progress[e]) = 4 => Reported(e)

ProgressInv == \A e \in Execs : ProgressOK(e)

(* The last summary rests on an event of the host's recorder. *)
SummaryInv ==
  summary \in {"VERIFIED", "FAILED"} =>
    \E k \in DOMAIN hostRec : /\ hostRec[k].type = VerificationEvent(summary)
                              /\ {"approval", "key"} \subseteq hostRec[k].value

(* A call that has its envelope does not change any more. *)
LEMMA EnvelopesStay ==
  ASSUME WorkTypeOK, PhaseInv, WorkNext, ~Crash, NEW v \in Workers, answer[v] = "envelope"
  PROVE  answer'[v] = answer[v] /\ job'[v] = job[v] /\ status'[v] = status[v]
<1>0. pc[v] = "done"
  BY DEF PhaseInv, PhaseOK
<1>1. ASSUME NEW w \in Workers, WorkerShape(w)
      PROVE  answer'[v] = answer[v] /\ job'[v] = job[v] /\ status'[v] = status[v]
  <2>1. v # w
    BY <1>0, <1>1 DEF WorkerShape
  <2>2. PICK l, t, s, a : Moves(w, l, t, s, a)
    BY <1>1 DEF WorkerShape
  <2> QED BY <2>1, <2>2 DEF Moves, WorkTypeOK
<1>2. CASE HostShape
  BY <1>2 DEF HostShape
<1>3. CASE RestShape
  <2>1. UNCHANGED status
    BY <1>3 DEF RestShape
  <2>2. answer'[v] = answer[v] /\ job'[v] = job[v]
    BY <1>0, <1>3 DEF RestShape, WorkTypeOK
  <2> QED BY <2>1, <2>2
<1> QED BY <1>1, <1>2, <1>3, WorkShapes

LEMMA ProgressSame ==
  ASSUME ProgressInv, WorkTypeOK, PhaseInv, WorkNext, ~Crash, NEW e \in Execs,
         progress'[e] = progress[e]
  PROVE  ProgressOK(e)'
<1>1. ASSUME Reported(e)
      PROVE  Reported(e)'
  <2>1. PICK v \in Workers : /\ answer[v] = "envelope" /\ job[v].exec = e
                             /\ progress[e][4] = TerminalState(v)
    BY <1>1 DEF Reported
  <2>2. answer'[v] = answer[v] /\ job'[v] = job[v] /\ status'[v] = status[v]
    BY <2>1, EnvelopesStay
  <2> QED BY <2>1, <2>2 DEF Reported, TerminalState
<1>2. ProgressOK(e)
  BY DEF ProgressInv
<1> QED BY <1>1, <1>2 DEF ProgressOK

LEMMA ProgressPublished ==
  ASSUME NEW p \in Seq(ProgressStates), EndsOnce(p), NEW n \in 1 .. 4,
         NEW state \in ProgressStates, n = Len(p) + 1,
         n > 1 => p[n - 1] \notin TerminalStates,
         state \in TerminalStates => n \in {2, 4}
  PROVE  /\ Len(Append(p, state)) = n /\ Append(p, state)[n] = state
         /\ EndsOnce(Append(p, state))
<1> DEFINE q == Append(p, state)
<1>1. Len(p) \in Nat /\ DOMAIN p = 1 .. Len(p)
  OBVIOUS
<1>2. /\ Len(q) = n /\ q[n] = state /\ DOMAIN q = 1 .. n
      /\ \A k \in 1 .. Len(p) : q[k] = p[k]
  BY <1>1
<1> HIDE DEF q
<1>3. ASSUME NEW k \in 1 .. n, q[k] \in TerminalStates
      PROVE  k = n /\ k \in {2, 4}
  <2>1. CASE k = n
    BY <1>2, <1>3, <2>1
  <2>2. CASE k # n
    <3>1. k \in 1 .. Len(p) /\ p[k] \in TerminalStates
      BY <1>1, <1>2, <1>3, <2>2
    <3>2. k = Len(p)
      <4>1. k \in DOMAIN p
        BY <1>1, <3>1
      <4> QED BY <3>1, <4>1, Zenon DEF EndsOnce
    <3>3. n > 1 /\ n - 1 = k
      BY <1>1, <3>1, <3>2
    <3> QED BY <3>1, <3>3
  <2> QED BY <2>1, <2>2
<1>4. EndsOnce(q)
  BY <1>2, <1>3 DEF EndsOnce
<1> QED BY <1>2, <1>4 DEF q

LEMMA ProgressStep ==
  ProgressInv /\ WorkTypeOK /\ PhaseInv /\ [WorkNext]_vars => ProgressInv'
<1> SUFFICES ASSUME ProgressInv, WorkTypeOK, PhaseInv, [WorkNext]_vars, NEW e \in Execs
             PROVE  ProgressOK(e)'
  BY DEF ProgressInv
<1>1. CASE UNCHANGED vars
  BY <1>1 DEF vars, workVars, ProgressInv, ProgressOK, Reported, TerminalState
<1>2. CASE Crash
  <2>1. progress'[e] = << >> /\ Len(progress'[e]) = 0 /\ DOMAIN progress'[e] = {}
    BY <1>2 DEF Crash
  <2> QED BY <2>1 DEF ProgressOK, EndsOnce
<1>3. CASE WorkNext /\ ~Crash /\ progress'[e] = progress[e]
  BY <1>3, ProgressSame
<1>4. ASSUME NEW w \in Workers, WorkerShape(w), progress'[e] # progress[e]
      PROVE  ProgressOK(e)'
  <2>1. PICK l \in Labels, t \in Seq(Events), s \in Statuses \cup {None},
             a \in {"none", "envelope", "error"} :
          /\ Moves(w, l, t, s, a)
          /\ EmitShape(w, t) \/ QuietShape(w, t, a) \/ PublishShape(w, t, s, a)
    BY <1>4 DEF WorkerShape
  <2>2. PublishShape(w, t, s, a) /\ ~UNCHANGED progress
    BY <1>4, <2>1 DEF EmitShape, QuietShape
  <2> DEFINE x == job[w].exec
  <2>s. s = status[w]
    BY <2>2 DEF PublishShape
  <2>3. PICK n \in 1 .. 4, state \in ProgressStates :
          /\ Publishable(x, n, state)
          /\ state \in TerminalStates => n \in {2, 4}
          /\ n = 4 => a = "envelope" /\ state = TerminalState(w)
          /\ progress' = IF conf.sink = "null" THEN progress
                         ELSE [progress EXCEPT ![x] = Append(@, state)]
    BY <2>2, Zenon DEF PublishShape
  <2>4. conf.sink # "null" /\ progress' = [progress EXCEPT ![x] = Append(@, state)]
    BY <2>2, <2>3
  <2>5. e = x /\ progress'[e] = Append(progress[e], state)
    BY <1>4, <2>4 DEF WorkTypeOK
  <2>6. n = Len(progress[e]) + 1 /\ (n > 1 => progress[e][n - 1] \notin TerminalStates)
    BY <2>3, <2>4, <2>5 DEF Publishable
  <2>7. Len(progress'[e]) = n /\ progress'[e][n] = state /\ EndsOnce(progress'[e])
    <3>1. EndsOnce(progress[e]) /\ progress[e] \in Seq(ProgressStates)
      BY DEF ProgressInv, ProgressOK, WorkTypeOK
    <3>2. state \in TerminalStates => n \in {2, 4}
      BY <2>3
    <3> QED BY <2>5, <2>6, <3>1, <3>2, ProgressPublished
  <2>8. answer'[w] = a /\ status'[w] = status[w] /\ job'[w] = job[w]
    BY <2>1, <2>s DEF Moves, WorkTypeOK
  <2>9. n = 4 => Reported(e)'
    BY <2>3, <2>5, <2>7, <2>8 DEF Reported, TerminalState
  <2> QED BY <2>7, <2>9 DEF ProgressOK
<1> QED BY <1>1, <1>2, <1>3, <1>4, WorkShapes DEF HostShape, RestShape

LEMMA SummaryStep ==
  SummaryInv /\ WorkTypeOK /\ PhaseInv /\ [WorkNext]_vars => SummaryInv'
<1> SUFFICES ASSUME SummaryInv, WorkTypeOK, PhaseInv, [WorkNext]_vars
             PROVE  SummaryInv'
  OBVIOUS
<1>1. CASE UNCHANGED <<hostRec, summary>>
  BY <1>1 DEF SummaryInv
<1>2. CASE HostShape
  <2>1. PICK ev \in Events : /\ hostRec' = Append(hostRec, ev)
                             /\ summary' = summary \/
                                  ( /\ ev.type = VerificationEvent(summary')
                                    /\ {"approval", "key"} \subseteq ev.value )
    BY <1>2 DEF HostShape
  <2>2. /\ hostRec \in Seq(Events) /\ Len(hostRec) \in Nat
        /\ \A k \in DOMAIN hostRec : k \in DOMAIN hostRec' /\ hostRec'[k] = hostRec[k]
        /\ Len(hostRec) + 1 \in DOMAIN hostRec' /\ hostRec'[Len(hostRec) + 1] = ev
    BY <2>1 DEF WorkTypeOK
  <2>3. CASE summary' = summary
    BY <2>2, <2>3 DEF SummaryInv
  <2>4. CASE ev.type = VerificationEvent(summary') /\ {"approval", "key"} \subseteq ev.value
    BY <2>2, <2>4 DEF SummaryInv
  <2> QED BY <2>1, <2>3, <2>4
<1>3. CASE Crash
  <2>1. summary' = None
    BY <1>3 DEF Crash
  <2> QED BY <2>1, WorkAssumption DEF SummaryInv
<1>4. ASSUME NEW w \in Workers, WorkerShape(w)
      PROVE  UNCHANGED <<hostRec, summary>>
  BY <1>4 DEF WorkerShape, Moves
<1> QED BY <1>1, <1>2, <1>3, <1>4, WorkShapes DEF RestShape, vars, workVars

----------------------------------------------------------------------------
(* The inductive invariant, and the theorems *)

WorkInv ==
  /\ StoreInv
  /\ WorkTypeOK
  /\ PhaseInv
  /\ TrailInv
  /\ ProgressInv
  /\ SummaryInv

LEMMA WorkInvInit == WorkInit => WorkInv
<1> SUFFICES ASSUME WorkInit
             PROVE  WorkInv
  OBVIOUS
<1>1. StoreInv /\ WorkTypeOK /\ PhaseInv /\ TrailInv
  BY StoreInvInit, WorkTypeInit, TrailInit DEF WorkInit
<1>2. ProgressInv
  <2>1. \A e \in Execs : progress[e] = << >> /\ Len(progress[e]) = 0 /\ DOMAIN progress[e] = {}
    BY DEF WorkInit
  <2> QED BY <2>1 DEF ProgressInv, ProgressOK, EndsOnce
<1>3. SummaryInv
  BY WorkAssumption DEF SummaryInv, WorkInit
<1> QED BY <1>1, <1>2, <1>3 DEF WorkInv

LEMMA WorkInvStep == WorkInv /\ [WorkNext]_vars => WorkInv'
BY WorkStoreStep, StoreInvStep, WorkTypeStep, TrailStep, ProgressStep, SummaryStep DEF WorkInv

LEMMA WorkInvariant == WorkSpec => []WorkInv
BY WorkInvInit, WorkInvStep, PTL DEF WorkSpec

(* However often and to however many workers a job is delivered, before and *)
(* after crashes, SkillExecutionWorker.execute begins its body once, unless *)
(* records of the execution were removed or a removal went wrong.           *)
THEOREM WorkRunsOnce == WorkSpec => []RunsOnce
<1>1. WorkInv => RunsOnce
  BY OwedIntact DEF RunsOnce, WorkInv, TrailInv, OneRecorder, StoreInv
<1> QED BY <1>1, WorkInvariant, PTL

(* The envelope of a call rests on the trail of its recorder. *)
LEMMA EnvelopeOnRecord ==
  ASSUME WorkInv, NEW w \in Workers, answer[w] = "envelope"
  PROVE  /\ job[w].exec \in Execs /\ status[w] \in Statuses
         /\ LastType(rec[w]) = EndEvent(status[w])
         /\ Owed(job[w].exec) => accepted[job[w].exec] = rec[w]
<1>1. /\ job[w] \in Documents /\ status[w] \in Statuses /\ rec[w] # << >>
      /\ LastType(rec[w]) = EndEvent(status[w])
  BY DEF WorkInv, PhaseInv, PhaseOK
<1>2. job[w].exec \in Execs
  BY <1>1, DocumentExec
<1>3. ASSUME Owed(job[w].exec)
      PROVE  accepted[job[w].exec] = rec[w]
  <2>1. OneRecorder(job[w].exec)
    BY <1>2, <1>3, OwedIntact DEF WorkInv, StoreInv, TrailInv
  <2> QED BY <1>1, <2>1 DEF OneRecorder, On
<1> QED BY <1>1, <1>2, <1>3

(* What InMemoryProgressSink was told of an execution is gapless, ends at a *)
(* terminal state, and says COMPLETED exactly if the stored trail does.     *)
THEOREM WorkProgressTellsTruth == WorkSpec => []ProgressTellsTruth
<1>1. ASSUME WorkInv
      PROVE  ProgressTellsTruth
  <2> SUFFICES ASSUME NEW e \in Execs
               PROVE  /\ EndsOnce(progress[e])
                      /\ Len(progress[e]) = 4 /\ Owed(e) =>
                           (progress[e][4] = "COMPLETED")
                             = (LastType(accepted[e]) = "EXECUTION_COMPLETED")
    BY DEF ProgressTellsTruth, EndsOnce
  <2>1. ProgressOK(e)
    BY <1>1 DEF WorkInv, ProgressInv
  <2>2. ASSUME Len(progress[e]) = 4, Owed(e)
        PROVE  (progress[e][4] = "COMPLETED") = (LastType(accepted[e]) = "EXECUTION_COMPLETED")
    <3>1. PICK w \in Workers : /\ answer[w] = "envelope" /\ job[w].exec = e
                               /\ progress[e][4] = TerminalState(w)
      BY <2>1, <2>2 DEF ProgressOK, Reported
    <3>2. status[w] \in Statuses /\ LastType(accepted[e]) = EndEvent(status[w])
      BY <1>1, <2>2, <3>1, EnvelopeOnRecord
    <3>3. CASE status[w] = "COMPLETED"
      BY <3>1, <3>2, <3>3 DEF TerminalState, EndEvent
    <3>4. CASE status[w] = "REJECTED"
      BY <3>1, <3>2, <3>4 DEF TerminalState, EndEvent
    <3>5. CASE status[w] = "FAILED"
      BY <3>1, <3>2, <3>5 DEF TerminalState, EndEvent
    <3> QED BY <3>2, <3>3, <3>4, <3>5 DEF Statuses
  <2> QED BY <2>1, <2>2 DEF ProgressOK
<1> QED BY <1>1, WorkInvariant, PTL

(* An envelope of SkillExecutionWorker.execute and a summary of             *)
(* WriteAuditRecorder.record_verification rest on events that the store has *)
(* confirmed and that no other recorder has continued.                      *)
THEOREM WorkAnswersAreOnRecord == WorkSpec => []AnswersAreOnRecord
<1>1. ASSUME WorkInv
      PROVE  AnswersAreOnRecord
  <2>1. ASSUME NEW w \in Workers, answer[w] = "envelope"
        PROVE  /\ LastType(rec[w]) = EndEvent(status[w])
               /\ Owed(job[w].exec) => accepted[job[w].exec] = rec[w]
    BY <1>1, <2>1, EnvelopeOnRecord
  <2>2. ASSUME summary \in {"VERIFIED", "FAILED"}
        PROVE  \E k \in DOMAIN hostRec :
                 /\ hostRec[k].type = VerificationEvent(summary)
                 /\ {"approval", "key"} \subseteq hostRec[k].value
                 /\ Owed(HostExec) => Prefix(SubSeq(hostRec, 1, k), accepted[HostExec])
    <3>1. PICK k \in DOMAIN hostRec : /\ hostRec[k].type = VerificationEvent(summary)
                                      /\ {"approval", "key"} \subseteq hostRec[k].value
      BY <1>1, <2>2 DEF WorkInv, SummaryInv
    <3>2. hostRec \in Seq(Events) /\ k \in 1 .. Len(hostRec) /\ HostExec \in Execs
      BY <1>1, WorkAssumption DEF WorkInv, WorkTypeOK
    <3>3. ASSUME Owed(HostExec)
          PROVE  accepted[HostExec] = hostRec
      <4>1. OneRecorder(HostExec) /\ hostRec # << >>
        BY <1>1, <3>2, <3>3, OwedIntact DEF WorkInv, StoreInv, TrailInv
      <4> QED BY <4>1 DEF OneRecorder
    <3>4. Len(SubSeq(hostRec, 1, k)) = k
      BY <3>2
    <3>5. Prefix(SubSeq(hostRec, 1, k), hostRec)
      BY <3>2, <3>4 DEF Prefix
    <3> QED BY <3>1, <3>3, <3>5
  <2> QED BY <2>1, <2>2 DEF AnswersAreOnRecord
<1> QED BY <1>1, WorkInvariant, PTL
==============================================================================
