---------------------------- MODULE SupplyProofs ----------------------------
(***************************************************************************)
(* Proofs about PackageTrust, for every set of artifacts, signers, trust    *)
(* stores, policies and profiles, and any number of packages; and about     *)
(* Includes, for every include graph, any limits and any number of edits.   *)
(***************************************************************************)
EXTENDS Includes, PackageTrust, FiniteSetTheorems, SequenceTheorems,
        WellFoundedInduction, TLAPS

Members == Prepared(Artifacts)

----------------------------------------------------------------------------
(* Lemmas about the operators *)

(* Encoding an artifact again changes nothing but its form. *)
LEMMA CanonicalKeeps ==
  ASSUME NEW a \in Artifacts
  PROVE  /\ Canonical(a).id = a.id /\ a.id \in Int
         /\ Canonical(a).size = a.size /\ a.size \in Nat
         /\ Canonical(a).semantic = a.semantic
         /\ Canonical(a).tools = a.tools /\ Canonical(a).body = a.body
         /\ Canonical(a).canonical = TRUE
BY TrustAssumption DEF Canonical

LEMMA MemberType ==
  ASSUME NEW m \in Members
  PROVE  m.id \in Int /\ m.size \in Nat /\ m.canonical = TRUE
BY CanonicalKeeps DEF Members, Prepared

LEMMA PreparedFinite ==
  ASSUME NEW S \in SUBSET Artifacts, S # {}
  PROVE  /\ Cardinality(Prepared(S)) \in Nat \ {0}
         /\ Prepared(S) \subseteq Members
<1> DEFINE f == [a \in S |-> Canonical(a)]
<1>1. IsFiniteSet(S)
  BY TrustAssumption, FS_Subset
<1>2. f \in Surjection(S, Prepared(S))
  BY DEF Surjection, Prepared
<1>3. IsFiniteSet(Prepared(S))
  <2> HIDE DEF f
  <2> QED BY <1>1, <1>2, FS_Surjection
<1>4. Prepared(S) # {}
  BY DEF Prepared
<1>5. Cardinality(Prepared(S)) \in Nat /\ Cardinality(Prepared(S)) # 0
  BY <1>3, <1>4, FS_CardinalityType, FS_EmptySet
<1>6. Prepared(S) \subseteq Members
  BY DEF Prepared, Members
<1> QED BY <1>5, <1>6

LEMMA ManifestShape ==
  ASSUME NEW m \in Seq(Members)
  PROVE  /\ DOMAIN Manifest(m) = 1 .. Len(m) /\ Len(Manifest(m)) = Len(m)
         /\ \A k \in 1 .. Len(m) : Manifest(m)[k] = Entry(m[k])
         /\ \A k \in 1 .. Len(m) : Manifest(m)[k].artifact = m[k]
<1>1. \A k \in 1 .. Len(m) : Manifest(m)[k] = Entry(m[k])
  BY DEF Manifest
<1>2. DOMAIN Manifest(m) = 1 .. Len(m) /\ Len(Manifest(m)) = Len(m)
  <2>1. Manifest(m) \in [1 .. Len(m) -> {Entry(m[k]) : k \in 1 .. Len(m)}]
    BY DEF Manifest
  <2> QED BY <2>1
<1> QED BY <1>1, <1>2 DEF Entry

(* The package hash covers the artifacts and their order. *)
LEMMA ManifestInjective ==
  ASSUME NEW m \in Seq(Members), NEW n \in Seq(Members), Manifest(m) = Manifest(n)
  PROVE  m = n
<1>1. Len(m) = Len(n) /\ \A k \in 1 .. Len(m) : m[k] = n[k]
  BY ManifestShape
<1> QED BY <1>1

----------------------------------------------------------------------------
(* What the builder builds *)

BuiltPackage(b) ==
  /\ b = [skills |-> Manifest(b.members), hash |-> Manifest(b.members),
          members |-> b.members, plain |-> TRUE, signature |-> b.signature]
  /\ b.signature # None => b.signature.over = b.hash
  /\ b.members \in Seq(Members) /\ Len(b.members) >= 1
  /\ \A j, k \in 1 .. Len(b.members) : j < k => b.members[j].id < b.members[k].id

BuiltInv == \A b \in built : BuiltPackage(b)

LEMMA BuildStep ==
  ASSUME NEW S \in SUBSET Artifacts, NEW s, Build(S, s)
  PROVE  \E b : built' = built \cup {b} /\ BuiltPackage(b)
<1>1. PICK m \in Orderings(Prepared(S)) :
        built' = built \cup
          {[skills |-> Manifest(m), hash |-> Manifest(m), members |-> m, plain |-> TRUE,
            signature |-> IF s = None THEN None ELSE Signature(Manifest(m), s)]}
  BY DEF Build
<1> DEFINE sig == IF s = None THEN None ELSE Signature(Manifest(m), s)
           b == [skills |-> Manifest(m), hash |-> Manifest(m), members |-> m, plain |-> TRUE,
                 signature |-> sig]
<1>2. /\ Cardinality(Prepared(S)) \in Nat \ {0}
      /\ Prepared(S) \subseteq Members
  BY PreparedFinite DEF Build
<1>3. m \in Seq(Members) /\ Len(m) >= 1
  <2>1. m \in [1 .. Cardinality(Prepared(S)) -> Prepared(S)]
    BY <1>1 DEF Orderings
  <2> QED BY <1>2, <2>1
<1>4. \A j, k \in 1 .. Len(m) : j < k => m[j].id < m[k].id
  <2>1. \A j, k \in DOMAIN m : j < k => m[j].id < m[k].id
    BY <1>1 DEF Orderings
  <2>2. DOMAIN m = 1 .. Len(m)
    BY <1>3
  <2> QED BY <2>1, <2>2
<1>5. sig # None => sig.over = Manifest(m)
  BY DEF Signature
<1>6. /\ b.members = m /\ b.signature = sig /\ b.hash = Manifest(m)
      /\ b.skills = Manifest(m) /\ b.plain = TRUE
  OBVIOUS
<1>7. BuiltPackage(b)
  BY <1>3, <1>4, <1>5, <1>6 DEF BuiltPackage
<1> QED BY <1>1, <1>7

----------------------------------------------------------------------------
(* What the verifier accepts *)

LEMMA AcceptedIsBuilt ==
  ASSUME BuiltInv, NEW p \in Received, NEW q, NEW l, Accepts(p, q, l)
  PROVE  \E b \in built :
           p.signature \in {b.signature, None} /\ p = [b EXCEPT !.signature = p.signature]
<1> DEFINE parts == UNION {Range(d.members) : d \in built}
<1>1. PICK a \in built, b \in built, ms \in UNION {[DOMAIN c.members -> parts] : c \in built},
           pl \in BOOLEAN, s \in {d.signature : d \in built} \cup {None} :
        p = [skills |-> a.skills, hash |-> b.hash, members |-> ms, plain |-> pl,
             signature |-> s]
  BY DEF Received
<1>2. p.skills = a.skills /\ p.hash = b.hash /\ p.members = ms /\ p.plain = pl
        /\ p.signature = s
  BY <1>1
<1>3. BuiltPackage(a) /\ BuiltPackage(b)
  BY DEF BuiltInv
<1>4. pl = TRUE /\ b.hash = a.skills
  BY <1>2 DEF Accepts, ContentOK, ArchiveOK, ManifestOK
<1>5. a.skills = Manifest(a.members) /\ b.hash = Manifest(b.members)
  BY <1>3 DEF BuiltPackage
<1>6. ms = a.members
  <2>1. a.members \in Seq(Members) /\ ms \in Seq(Members)
    <3>1. PICK c \in built : ms \in [DOMAIN c.members -> parts]
      OBVIOUS
    <3>2. \A d \in built : d.members \in Seq(Members)
      BY DEF BuiltInv, BuiltPackage
    <3>3. parts \subseteq Members
      BY <3>2 DEF Range
    <3>4. Len(c.members) \in Nat /\ DOMAIN c.members = 1 .. Len(c.members)
      BY <3>2
    <3> HIDE DEF parts
    <3>5. ms \in [1 .. Len(c.members) -> Members]
      BY <3>1, <3>3, <3>4
    <3> QED BY <3>2, <3>4, <3>5
  <2>2. /\ Len(ms) = Len(a.skills)
        /\ \A k \in DOMAIN a.skills : ms[k] = a.skills[k].artifact
    BY <1>2 DEF Accepts, ContentOK, MembersOK, SkillOK
  <2>3. Len(ms) = Len(a.members) /\ \A k \in 1 .. Len(a.members) : ms[k] = a.members[k]
    BY <1>5, <2>1, <2>2, ManifestShape
  <2> QED BY <2>1, <2>3
<1>7. ASSUME NEW d \in built, d.members = a.members PROVE p = [d EXCEPT !.signature = s]
  <2>1. d = [skills |-> Manifest(d.members), hash |-> Manifest(d.members),
             members |-> d.members, plain |-> TRUE, signature |-> d.signature]
    BY DEF BuiltInv, BuiltPackage
  <2>2. [d EXCEPT !.signature = s] =
          [skills |-> Manifest(d.members), hash |-> Manifest(d.members),
           members |-> d.members, plain |-> TRUE, signature |-> s]
    <3>1. ASSUME NEW h, NEW m, NEW g, NEW x
          PROVE  [[skills |-> h, hash |-> h, members |-> m, plain |-> x, signature |-> g]
                    EXCEPT !.signature = s]
                   = [skills |-> h, hash |-> h, members |-> m, plain |-> x, signature |-> s]
      OBVIOUS
    <3>2. ASSUME NEW h, NEW m, NEW g, NEW x, d = [skills |-> h, hash |-> h, members |-> m,
                                                  plain |-> x, signature |-> g]
          PROVE  [d EXCEPT !.signature = s] = [skills |-> h, hash |-> h, members |-> m,
                                               plain |-> x, signature |-> s]
      BY <3>1, <3>2, Zenon
    <3> QED BY <2>1, <3>2
  <2>3. a.skills = Manifest(d.members) /\ b.hash = Manifest(d.members) /\ ms = d.members
    BY <1>4, <1>5, <1>6, <1>7
  <2> QED BY <1>1, <1>4, <2>2, <2>3
<1>8. CASE s = None
  BY <1>2, <1>7, <1>8
<1>9. CASE s # None
  <2>1. PICK d \in built : s = d.signature
    BY <1>9
  <2>2. s.over = p.hash
    BY <1>2, <1>9 DEF Accepts, SignatureOK
  <2>3. BuiltPackage(d)
    BY DEF BuiltInv
  <2>4. d.hash = Manifest(d.members) /\ s.over = d.hash
    BY <1>9, <2>1, <2>3 DEF BuiltPackage
  <2>5. Manifest(d.members) = Manifest(a.members)
    BY <1>2, <1>4, <1>5, <2>2, <2>4
  <2>6. d.members = a.members
    BY <1>3, <2>3, <2>5, ManifestInjective DEF BuiltPackage
  <2> QED BY <1>2, <1>7, <2>1, <2>6
<1> QED BY <1>8, <1>9

(* The verifier accepts what the builder builds, within the limits. *)
WithinLimits(b, l) ==
  /\ PackageBytes(b) <= l.package
  /\ MemberCount(b) <= l.members
  /\ \A n \in Range(MemberSizes(b)) : n <= l.member
  /\ TotalSize(b) <= l.total

LEMMA BuiltAccepted ==
  ASSUME NEW b, BuiltPackage(b), NEW q \in Policies, NEW l \in Limits
  PROVE  Accepts(b, q, l) <=>
           /\ WithinLimits(b, l)
           /\ IF b.signature = None THEN q.allowUnsigned ELSE StoreVerifies(store, b.signature)
<1> DEFINE m == b.members
<1>1. /\ b.skills = Manifest(m) /\ b.hash = Manifest(m) /\ b.plain = TRUE
      /\ b.signature # None => b.signature.over = b.hash
      /\ m \in Seq(Members) /\ Len(m) >= 1
      /\ \A j, k \in 1 .. Len(m) : j < k => m[j].id < m[k].id
  BY DEF BuiltPackage
<1>2. /\ DOMAIN b.skills = 1 .. Len(m) /\ Len(b.skills) = Len(m)
      /\ \A k \in 1 .. Len(m) : b.skills[k] = Entry(m[k])
  BY <1>1, ManifestShape
<1>3. ArchiveOK(b, l) <=> WithinLimits(b, l)
  <2>1. MemberCount(b) = 1 + Len(m) \/ MemberCount(b) = 1 + Len(m) + 1
    <3> DEFINE first == Bytes.frame + Bytes.entry * Len(b.skills)
               sizes == [k \in DOMAIN m |-> m[k].size]
    <3>1. <<first>> \in Seq(Nat) /\ Len(<<first>>) = 1
      <4>1. Bytes.frame \in Nat /\ Bytes.entry \in Nat /\ Len(b.skills) \in Nat
        BY <1>1, <1>2, TrustAssumption
      <4>2. first \in Nat
        BY <4>1
      <4> HIDE DEF first
      <4> QED BY <4>2
    <3>2. sizes \in Seq(Nat) /\ Len(sizes) = Len(m)
      <4>1. DOMAIN m = 1 .. Len(m) /\ Len(m) \in Nat
        BY <1>1
      <4>2. \A k \in 1 .. Len(m) : m[k].size \in Nat
        <5>1. \A k \in 1 .. Len(m) : m[k] \in Members
          BY <1>1
        <5> HIDE DEF m
        <5> QED BY <5>1, MemberType
      <4>3. sizes \in [1 .. Len(m) -> Nat]
        BY <4>1, <4>2
      <4> HIDE DEF sizes
      <4> QED BY <4>1, <4>3
    <3>3. << >> \in Seq(Nat) /\ Len(<< >>) = 0
      OBVIOUS
    <3>4. <<Bytes.signature>> \in Seq(Nat) /\ Len(<<Bytes.signature>>) = 1
      BY TrustAssumption
    <3>5. MemberCount(b) =
            Len(<<first>> \o sizes \o (IF b.signature = None THEN << >> ELSE <<Bytes.signature>>))
      BY DEF MemberCount, MemberSizes
    <3> HIDE DEF first, sizes
    <3>6. Len(m) \in Nat
      BY <1>1
    <3>7. CASE b.signature = None
      BY <3>1, <3>2, <3>3, <3>5, <3>6, <3>7
    <3>8. CASE b.signature # None
      BY <3>1, <3>2, <3>4, <3>5, <3>6, <3>8
    <3> QED BY <3>7, <3>8
  <2>2. MemberCount(b) <= l.members => Len(b.skills) <= l.members - 1
    <3>1. l.members \in Nat /\ Len(m) \in Nat /\ Len(b.skills) = Len(m)
      BY <1>1, <1>2, TrustAssumption
    <3> QED BY <2>1, <3>1
  <2> QED BY <1>1, <2>2 DEF ArchiveOK, WithinLimits
<1>4. ManifestOK(b)
  <2>1. b.skills # << >>
    BY <1>1, <1>2
  <2>3. \A k \in 1 .. Len(m) : b.skills[k].id = m[k].id /\ m[k].id \in Int
    <3>1. \A k \in 1 .. Len(m) : m[k] \in Members
      BY <1>1
    <3>2. \A k \in 1 .. Len(m) : Entry(m[k]).id = m[k].id
      BY DEF Entry
    <3> QED BY <1>2, <3>1, <3>2, MemberType
  <2>4. \A j, k \in 1 .. Len(m) : m[j].id = m[k].id => j = k
    BY <1>1, <2>3
  <2>5. IsInjective([k \in DOMAIN b.skills |-> b.skills[k].id])
    BY <1>2, <2>3, <2>4 DEF IsInjective
  <2> QED BY <1>1, <2>1, <2>5 DEF ManifestOK
<1>5. MembersOK(b)
  <2>1. ASSUME NEW k \in 1 .. Len(m) PROVE SkillOK(b.skills[k], m[k])
    <3>1. b.skills[k] = Entry(m[k]) /\ m[k] \in Members
      BY <1>1, <1>2
    <3>2. SkillOK(Entry(m[k]), m[k])
      BY <3>1, MemberType DEF SkillOK, Entry
    <3> QED BY <3>1, <3>2
  <2> QED BY <1>2, <2>1 DEF MembersOK
<1>6. SignatureOK(b, q, store) <=>
        IF b.signature = None THEN q.allowUnsigned ELSE StoreVerifies(store, b.signature)
  BY <1>1, TrustAssumption DEF SignatureOK, ValidPolicy
<1> QED BY <1>3, <1>4, <1>5, <1>6 DEF Accepts, ContentOK

----------------------------------------------------------------------------
(* The invariant *)

(* A verified package was built, and a trust store that was in use then has *)
(* verified its signature.                                                  *)
VerifiedInv ==
  \A p \in verified :
    /\ \E b \in built :
         p.signature \in {b.signature, None} /\ p = [b EXCEPT !.signature = p.signature]
    /\ p.signature # None => \E st \in installed : StoreVerifies(st, p.signature)

ResolverInv ==
  resolver # None => \A p \in resolver.packages : \A a \in Range(p.members) :
    resolver.skills[a.id] = Resolved(p, a)

(* The package that evidence speaks of was built, under the signature whose *)
(* key the evidence names and a trust store has verified, and contains the  *)
(* artifact.                                                                *)
SignedOrigin(trust, artifact, packages, stores) ==
  \E b \in packages, st \in stores :
    /\ b.signature # None /\ b.signature.key = trust.key
    /\ StoreVerifies(st, b.signature)
    /\ b.hash = trust.package
    /\ artifact \in Range(b.members)

HeldInv ==
  held # None =>
    /\ held = [artifact |-> held.artifact, trust |-> held.trust]
    /\ held.artifact \in Members
    /\ held.trust # None =>
         /\ held.trust = [package |-> held.trust.package, publisher |-> held.trust.publisher,
                          policy |-> held.trust.policy, key |-> held.trust.key,
                          at |-> held.trust.at, status |-> held.trust.status]
         /\ held.trust.at \in Nat
         /\ SignedOrigin(held.trust, held.artifact, built, installed)

TrustInv ==
  /\ clock \in Nat
  /\ store \in installed
  /\ BuiltInv /\ VerifiedInv /\ ResolverInv /\ HeldInv
  /\ TrustedWriteIsSigned

LEMMA TrustInvInit == TrustInit => TrustInv
BY DEF TrustInit, TrustInv, BuiltInv, VerifiedInv, ResolverInv, HeldInv, TrustedWriteIsSigned

(* More packages and trust stores take nothing away from what is known of   *)
(* the ones there are.                                                      *)
LEMMA OriginGrows ==
  ASSUME NEW trust, NEW artifact, NEW S, NEW T, S \subseteq T, NEW U, NEW V, U \subseteq V,
         SignedOrigin(trust, artifact, S, U)
  PROVE  SignedOrigin(trust, artifact, T, V)
BY DEF SignedOrigin

LEMMA RegisterStep ==
  ASSUME NEW P \in SUBSET verified, Register(P)
  PROVE  ResolverInv'
<1> DEFINE ids == {a.id : a \in UNION {Range(p.members) : p \in P}}
           Package(i) == CHOOSE p \in P : \E a \in Range(p.members) : a.id = i
           Skill(i) == CHOOSE a \in Range(Package(i).members) : a.id = i
<1>1. resolver' = [packages |-> P, skills |-> [i \in ids |-> Resolved(Package(i), Skill(i))]]
  BY DEF Register
<1>2. Unambiguous(P)
  BY DEF Register
<1> SUFFICES ASSUME NEW p \in P, NEW a \in Range(p.members)
             PROVE  a.id \in ids /\ Package(a.id) = p /\ Skill(a.id) = a
  <2>1. resolver'.packages = P /\ resolver'.skills = [i \in ids |-> Resolved(Package(i), Skill(i))]
    BY <1>1
  <2> HIDE DEF ids, Package, Skill
  <2>2. \A p \in P : \A a \in Range(p.members) : resolver'.skills[a.id] = Resolved(p, a)
    BY <2>1
  <2> QED BY <2>1, <2>2 DEF ResolverInv
<1>3. a.id \in ids
  OBVIOUS
<1>4. ASSUME NEW p2 \in P, NEW a2 \in Range(p2.members), a2.id = a.id
      PROVE  p2 = p /\ a2 = a
  <2>1. PICK j \in DOMAIN p2.members : a2 = p2.members[j]
    BY DEF Range
  <2>2. PICK k \in DOMAIN p.members : a = p.members[k]
    BY DEF Range
  <2> QED BY <1>2, <1>4, <2>1, <2>2 DEF Unambiguous
<1>5. Package(a.id) \in P /\ \E a2 \in Range(Package(a.id).members) : a2.id = a.id
  OBVIOUS
<1>6. Package(a.id) = p
  <2> HIDE DEF Package
  <2> QED BY <1>4, <1>5
<1>7. Skill(a.id) \in Range(p.members) /\ Skill(a.id).id = a.id
  <2> HIDE DEF Package
  <2> QED BY <1>6
<1>8. Skill(a.id) = a
  <2> HIDE DEF Skill
  <2> QED BY <1>4, <1>7
<1> QED BY <1>3, <1>6, <1>8

LEMMA IssueStep ==
  ASSUME TrustInv, NEW p \in verified, Issue(p)
  PROVE  HeldInv'
<1>1. PICK b \in built :
        p.signature \in {b.signature, None} /\ p = [b EXCEPT !.signature = p.signature]
  BY DEF TrustInv, VerifiedInv
<1>2. BuiltPackage(b)
  BY DEF TrustInv, BuiltInv
<1>3. p.signature # None /\ p.signature = b.signature
  BY <1>1 DEF Issue
<1>4. p.hash = b.hash /\ p.members = b.members
  <2>1. b = [skills |-> b.skills, hash |-> b.hash, members |-> b.members, plain |-> b.plain,
             signature |-> b.signature]
    BY <1>2 DEF BuiltPackage
  <2> QED BY <1>1, <2>1
<1> DEFINE trust == [package |-> p.hash, publisher |-> Publisher, policy |-> TrustPolicy,
                     key |-> p.signature.key, at |-> clock, status |-> "VERIFIED"]
<1>5. PICK k \in DOMAIN p.members : held' = [artifact |-> p.members[k], trust |-> trust]
  BY DEF Issue
<1>6. held'.artifact = p.members[k] /\ held'.trust = trust
  BY <1>5
<1>7. p.members[k] \in Members
  BY <1>2, <1>4 DEF BuiltPackage
<1>8. trust.at \in Nat /\ trust.key = b.signature.key /\ trust.package = b.hash
  BY <1>3, <1>4 DEF TrustInv
<1>9. p.members[k] \in Range(b.members)
  BY <1>4 DEF Range
<1>10. SignedOrigin(trust, p.members[k], built', installed')
  <2>1. built' = built /\ installed' = installed
    BY DEF Issue
  <2>2. PICK st \in installed : StoreVerifies(st, p.signature)
    BY <1>3 DEF TrustInv, VerifiedInv
  <2> HIDE DEF trust
  <2> QED BY <1>3, <1>8, <1>9, <2>1, <2>2 DEF SignedOrigin
<1>11. trust = [package |-> trust.package, publisher |-> trust.publisher, policy |-> trust.policy,
                key |-> trust.key, at |-> trust.at, status |-> trust.status]
  OBVIOUS
<1> HIDE DEF trust
<1> QED BY <1>5, <1>6, <1>7, <1>8, <1>10, <1>11 DEF HeldInv

LEMMA RevokeStep ==
  ASSUME TrustInv, Revoke
  PROVE  HeldInv'
<1>1. /\ held # None /\ held.trust # None
      /\ held' = [held EXCEPT !.trust.status = "REVOKED"]
      /\ built' = built /\ installed' = installed
  BY DEF Revoke
<1>2. /\ held = [artifact |-> held.artifact, trust |-> held.trust]
      /\ held.artifact \in Members
      /\ held.trust = [package |-> held.trust.package, publisher |-> held.trust.publisher,
                       policy |-> held.trust.policy, key |-> held.trust.key,
                       at |-> held.trust.at, status |-> held.trust.status]
      /\ held.trust.at \in Nat
      /\ SignedOrigin(held.trust, held.artifact, built, installed)
  BY <1>1 DEF TrustInv, HeldInv
<1>3. held' = [artifact |-> held.artifact, trust |-> [held.trust EXCEPT !.status = "REVOKED"]]
  BY <1>1, <1>2
<1>4. held'.artifact = held.artifact /\ held'.trust = [held.trust EXCEPT !.status = "REVOKED"]
  BY <1>3
<1>5. held'.trust = [package |-> held.trust.package, publisher |-> held.trust.publisher,
                     policy |-> held.trust.policy, key |-> held.trust.key,
                     at |-> held.trust.at, status |-> "REVOKED"]
  BY <1>2, <1>4
<1>6. /\ held'.trust.package = held.trust.package /\ held'.trust.publisher = held.trust.publisher
      /\ held'.trust.policy = held.trust.policy /\ held'.trust.key = held.trust.key
      /\ held'.trust.at = held.trust.at /\ held'.trust.status = "REVOKED"
  BY <1>5
<1>7. SignedOrigin(held'.trust, held'.artifact, built', installed')
  BY <1>1, <1>2, <1>4, <1>6 DEF SignedOrigin
<1> QED BY <1>2, <1>3, <1>4, <1>5, <1>6, <1>7 DEF HeldInv

(* The step that matters: production, evidence and running Skill agree. *)
LEMMA WriteStep ==
  ASSUME TrustInv, NEW p \in Profiles, NEW c \in Contexts, NEW t \in 0 .. MaxClock,
         TrustedWrite(p, c, t)
  PROVE  TrustedWriteIsSigned'
<1>1. /\ held # None /\ PreflightOK(held, p, t) /\ BoundTo(held, p, c)
      /\ write' = [given |-> held, profile |-> p, context |-> c, at |-> t]
      /\ built' = built /\ installed' = installed
  BY DEF TrustedWrite
<1>2. write'.given = held /\ write'.profile = p /\ write'.context = c /\ write'.at = t
  BY <1>1
<1> SUFFICES ASSUME p.environment = "PRODUCTION", ContainsWrite(c.skill)
             PROVE  /\ \E b \in built, st \in installed :
                         /\ b.signature # None /\ b.signature.key \in p.keys
                         /\ b.signature.key \in DOMAIN st /\ b.signature.by = st[b.signature.key]
                         /\ b.signature.over = b.hash
                         /\ b.hash = p.package
                         /\ \E a \in Range(b.members) :
                              a = p.artifact /\ a.semantic = c.skill.semantic
                    /\ held.trust.status = "VERIFIED"
                    /\ t \in held.trust.at .. held.trust.at + p.maxAge - 1
  BY <1>1, <1>2 DEF TrustedWriteIsSigned
<1>3. /\ p.maxAge \in Int /\ p.artifact # None /\ p.keys # {} /\ p.package # None /\ t \in Int
      /\ p.maxAge # None
  BY TrustAssumption DEF ValidProfile
<1>4. held.artifact \in Members /\ held.artifact.semantic = c.skill.semantic
  BY <1>1 DEF TrustInv, HeldInv, BoundTo
<1>5. ContainsWrite(held.artifact)
  <2>1. PICK a \in Artifacts : held.artifact = Canonical(a)
    BY <1>4 DEF Members, Prepared
  <2>2. ContainsWrite(Canonical(a)) = ContainsWrite(a) /\ Canonical(a).semantic = a.semantic
    BY CanonicalKeeps DEF ContainsWrite
  <2>3. ContainsWrite(a)
    BY <1>4, <2>1, <2>2, TrustAssumption
  <2> QED BY <2>1, <2>2, <2>3
<1>6. held.trust # None
  BY <1>1, <1>5 DEF PreflightOK
<1>7. TrustOK(held, p, t)
  BY <1>1, <1>6 DEF PreflightOK
<1>8. held.trust.at \in Nat /\ SignedOrigin(held.trust, held.artifact, built, installed)
  BY <1>1, <1>6 DEF TrustInv, HeldInv
<1>9. PICK b \in built, st \in installed :
        /\ b.signature # None /\ b.signature.key = held.trust.key
        /\ StoreVerifies(st, b.signature)
        /\ b.hash = held.trust.package
        /\ held.artifact \in Range(b.members)
  BY <1>8 DEF SignedOrigin
<1>10. /\ held.trust.key \in p.keys /\ held.trust.package = p.package
       /\ held.artifact = p.artifact /\ held.trust.status = "VERIFIED"
       /\ FreshAt(held.trust, p, t)
  BY <1>3, <1>7 DEF TrustOK, Trusts, Agrees
<1>11. t \in held.trust.at .. held.trust.at + p.maxAge - 1
  BY <1>3, <1>8, <1>10 DEF FreshAt
<1>12. b.signature.over = b.hash
  BY <1>9 DEF TrustInv, BuiltInv, BuiltPackage
<1>13. b.signature.key \in DOMAIN st /\ b.signature.by = st[b.signature.key]
  BY <1>9 DEF StoreVerifies
<1> QED BY <1>4, <1>9, <1>10, <1>11, <1>12, <1>13

LEMMA TrustStep == TrustInv /\ [TrustNext]_vars => TrustInv'
<1> SUFFICES ASSUME TrustInv, [TrustNext]_vars PROVE TrustInv'
  OBVIOUS
<1>1. ASSUME NEW S \in SUBSET Artifacts, NEW s, Build(S, s) PROVE TrustInv'
  <2>1. PICK b : built' = built \cup {b} /\ BuiltPackage(b)
    BY <1>1, BuildStep
  <2>2. /\ built \subseteq built' /\ verified' = verified /\ held' = held
        /\ store' = store /\ installed' = installed
        /\ clock' = clock /\ resolver' = resolver /\ write' = None
    BY <1>1, <2>1 DEF Build
  <2>3. BuiltInv'
    BY <2>1 DEF TrustInv, BuiltInv
  <2>4. VerifiedInv'
    BY <2>2 DEF TrustInv, VerifiedInv
  <2>5. HeldInv'
    BY <2>2, OriginGrows DEF TrustInv, HeldInv
  <2> QED BY <2>2, <2>3, <2>4, <2>5 DEF TrustInv, ResolverInv, TrustedWriteIsSigned
<1>2. ASSUME NEW p \in Received, NEW q \in Policies, NEW l \in Limits, Verify(p, q, l)
      PROVE  TrustInv'
  <2>1. \E b \in built :
          p.signature \in {b.signature, None} /\ p = [b EXCEPT !.signature = p.signature]
    BY <1>2, AcceptedIsBuilt DEF TrustInv, Verify
  <2>2. /\ verified' = verified \cup {p} /\ built' = built /\ held' = held
        /\ store' = store /\ installed' = installed
        /\ clock' = clock /\ resolver' = resolver /\ write' = None
    BY <1>2 DEF Verify
  <2>3. p.signature # None => StoreVerifies(store, p.signature)
    BY <1>2 DEF Verify, Accepts, SignatureOK
  <2>4. VerifiedInv'
    BY <2>1, <2>2, <2>3 DEF TrustInv, VerifiedInv
  <2> QED BY <2>2, <2>4 DEF TrustInv, BuiltInv, HeldInv, ResolverInv, TrustedWriteIsSigned
<1>3. ASSUME NEW p \in verified, Issue(p) PROVE TrustInv'
  BY <1>3, IssueStep DEF Issue, TrustInv, BuiltInv, VerifiedInv, ResolverInv, TrustedWriteIsSigned
<1>4. ASSUME NEW a \in Artifacts, Present(a) PROVE TrustInv'
  <2>1. held' = [artifact |-> Canonical(a), trust |-> None]
    BY <1>4 DEF Present
  <2>2. held'.artifact = Canonical(a) /\ held'.trust = None /\ Canonical(a) \in Members
    BY <2>1 DEF Members, Prepared
  <2>3. HeldInv'
    BY <2>1, <2>2 DEF HeldInv
  <2> QED BY <1>4, <2>3 DEF Present, TrustInv, BuiltInv, VerifiedInv, ResolverInv, TrustedWriteIsSigned
<1>5. CASE Revoke
  BY <1>5, RevokeStep DEF Revoke, TrustInv, BuiltInv, VerifiedInv, ResolverInv, TrustedWriteIsSigned
<1>6. ASSUME NEW P \in SUBSET verified, Register(P) PROVE TrustInv'
  BY <1>6, RegisterStep DEF Register, TrustInv, BuiltInv, VerifiedInv, HeldInv, TrustedWriteIsSigned
<1>7. ASSUME NEW p \in Profiles, NEW c \in Contexts, NEW t \in 0 .. MaxClock, TrustedWrite(p, c, t)
      PROVE  TrustInv'
  BY <1>7, WriteStep DEF TrustedWrite, TrustInv, BuiltInv, VerifiedInv, ResolverInv, HeldInv
<1>8. ASSUME NEW s \in TrustStores, ReplaceStore(s) PROVE TrustInv'
  <2>1. /\ store' = s /\ installed' = installed \cup {s} /\ write' = None
        /\ UNCHANGED <<built, clock, verified, held, resolver>>
    BY <1>8 DEF ReplaceStore
  <2>2. VerifiedInv'
    BY <2>1 DEF TrustInv, VerifiedInv
  <2>3. HeldInv'
    <3>1. installed \subseteq installed'
      BY <2>1
    <3> QED BY <2>1, <3>1, OriginGrows DEF TrustInv, HeldInv
  <2> QED BY <2>1, <2>2, <2>3 DEF TrustInv, BuiltInv, ResolverInv, TrustedWriteIsSigned
<1>9. CASE TickTrust
  BY <1>9 DEF TickTrust, TrustInv, BuiltInv, VerifiedInv, ResolverInv, HeldInv, TrustedWriteIsSigned
<1>10. CASE UNCHANGED vars
  BY <1>10 DEF vars, TrustInv, BuiltInv, VerifiedInv, ResolverInv, HeldInv, TrustedWriteIsSigned
<1> QED BY <1>1, <1>2, <1>3, <1>4, <1>5, <1>6, <1>7, <1>8, <1>9, <1>10 DEF TrustNext

LEMMA TrustInvariant == TrustSpec => []TrustInv
<1> QED BY TrustInvInit, TrustStep, PTL DEF TrustSpec

(* The verifier accepts what the builder builds exactly within its limits   *)
(* and under its policy: NspBuilder and NspVerifier compute the same        *)
(* manifest, order and canonical bytes, whatever artifacts are packaged.    *)
THEOREM BuiltPackagesVerify == TrustSpec => []BuiltVerifies
<1>1. TrustInv => BuiltVerifies
  BY BuiltAccepted DEF TrustInv, BuiltInv, BuiltVerifies, WithinLimits
<1> QED BY <1>1, TrustInvariant, PTL

(* No package mixed from the parts of others passes NspVerifier.verify, and *)
(* the resolver serves each Skill from its own package.                     *)
THEOREM VerifiedPackagesAreBuilt == TrustSpec => []VerifiedIsBuilt
<1>1. TrustInv => VerifiedIsBuilt
  BY DEF TrustInv, VerifiedInv, ResolverInv, VerifiedIsBuilt
<1> QED BY <1>1, TrustInvariant, PTL

(* A Skill that writes in production comes, through packaging, transport,   *)
(* verification and preflight, from a package that was signed, under a key  *)
(* id of the profile, with the private key that a trust store in use until  *)
(* then had for that id; and its evidence is unrevoked and fresh.           *)
THEOREM TrustedWritesAreSigned == TrustSpec => []TrustedWriteIsSigned
<1>1. TrustInv => TrustedWriteIsSigned
  BY DEF TrustInv
<1> QED BY <1>1, TrustInvariant, PTL

----------------------------------------------------------------------------
(* Includes: canonical paths *)

(* A nonempty set of natural numbers has a least element. *)
LEMMA LeastNumber ==
  ASSUME NEW S, S \subseteq Nat, S # {}
  PROVE  \E m \in S : \A k \in S : m <= k
<1> DEFINE Less == {ss \in Nat \X Nat : ss[1] < ss[2]}
<1>1. IsWellFoundedOn(Less, Nat)
  BY NatLessThanWellFounded DEF OpToRel
<1>2. PICK m \in S : \A k \in S : <<k, m>> \notin Less
  BY <1>1, WFMin
<1>3. ASSUME NEW k \in S
      PROVE  m <= k
  <2>1. k \in Nat /\ m \in Nat
    OBVIOUS
  <2>2. k < m => <<k, m>> \in Less
    BY <2>1
  <2> QED BY <1>2, <2>1, <2>2
<1> QED BY <1>3

(* One step of a walk. *)
Step(t, part, floor) ==
  IF t = Absent \/ part = "." THEN t
  ELSE IF part # ".." THEN Append(t, part)
  ELSE IF Len(t) <= floor THEN Absent ELSE Parent(t)

(* f walks the first n parts of d from base. *)
Walks(f, base, floor, d, n) ==
  /\ f = [k \in 0 .. n |-> f[k]]
  /\ f[0] = base
  /\ \A k \in 1 .. n : f[k] = Step(f[k - 1], d[k], floor)

LEMMA WalkExists ==
  ASSUME NEW base, NEW floor, NEW d \in Paths
  PROVE  \E f : Walks(f, base, floor, d, Len(d))
<1> DEFINE Bad == {n \in Nat : n <= Len(d) /\ ~\E f : Walks(f, base, floor, d, n)}
<1>1. SUFFICES ASSUME ~\E f : Walks(f, base, floor, d, Len(d))
               PROVE  FALSE
  OBVIOUS
<1>n. Len(d) \in Nat
  BY DEF Paths
<1>b. Bad # {} /\ Bad \subseteq Nat
  BY <1>1, <1>n
<1>2. PICK m \in Bad : \A k \in Bad : m <= k
  BY <1>b, LeastNumber
<1>3. m # 0
  <2>1. Walks([n \in 0 .. 0 |-> base], base, floor, d, 0)
    BY DEF Walks
  <2> QED BY <2>1
<1>4. m - 1 \in Nat /\ m - 1 \notin Bad /\ m - 1 <= Len(d)
  BY <1>2, <1>3 DEF Paths
<1>5. PICK f : Walks(f, base, floor, d, m - 1)
  BY <1>4
<1> DEFINE g == [n \in 0 .. m |-> IF n = m THEN Step(f[m - 1], d[m], floor) ELSE f[n]]
<1>6. Walks(g, base, floor, d, m)
  <2>1. g = [k \in 0 .. m |-> g[k]] /\ g[0] = base
    BY <1>3, <1>4, <1>5 DEF Walks
  <2>2. ASSUME NEW k \in 1 .. m
        PROVE  g[k] = Step(g[k - 1], d[k], floor)
    <3>1. CASE k = m
      <4>1. g[k] = Step(f[m - 1], d[m], floor) /\ g[m - 1] = f[m - 1]
        BY <1>4, <3>1
      <4> QED BY <3>1, <4>1
    <3>2. CASE k # m
      <4>1. k \in 1 .. m - 1 /\ g[k] = f[k] /\ g[k - 1] = f[k - 1]
        BY <1>4, <3>2
      <4> HIDE DEF g
      <4> QED BY <1>5, <4>1 DEF Walks
    <3> QED BY <3>1, <3>2
  <2> HIDE DEF g
  <2> QED BY <2>1, <2>2 DEF Walks
<1> QED BY <1>6

(* Walk ends where some such function ends. *)
LEMMA WalkIs ==
  ASSUME NEW base, NEW floor, NEW d \in Paths
  PROVE  \E f : Walks(f, base, floor, d, Len(d)) /\ Walk(base, floor, d) = f[Len(d)]
<1> DEFINE to[n \in 0 .. Len(d)] ==
             IF n = 0 THEN base
             ELSE LET t == to[n - 1] IN
               IF t = Absent \/ d[n] = "." THEN t
               ELSE IF d[n] # ".." THEN Append(t, d[n])
               ELSE IF Len(t) <= floor THEN Absent ELSE Parent(t)
<1>1. Walk(base, floor, d) = to[Len(d)]
  BY DEF Walk
<1>2. PICK f : Walks(f, base, floor, d, Len(d))
  BY WalkExists
<1> DEFINE Is(h) == h = [n \in 0 .. Len(d) |->
             IF n = 0 THEN base
             ELSE LET t == h[n - 1] IN
               IF t = Absent \/ d[n] = "." THEN t
               ELSE IF d[n] # ".." THEN Append(t, d[n])
               ELSE IF Len(t) <= floor THEN Absent ELSE Parent(t)]
<1>3. to = CHOOSE h : Is(h)
  OBVIOUS
<1>n. Len(d) \in Nat
  BY DEF Paths
<1>4. Is(f)
  <2> DEFINE g == [n \in 0 .. Len(d) |->
             IF n = 0 THEN base
             ELSE LET t == f[n - 1] IN
               IF t = Absent \/ d[n] = "." THEN t
               ELSE IF d[n] # ".." THEN Append(t, d[n])
               ELSE IF Len(t) <= floor THEN Absent ELSE Parent(t)]
  <2>1. ASSUME NEW n \in 0 .. Len(d)
        PROVE  f[n] = g[n]
    <3>1. CASE n = 0
      BY <1>2, <3>1 DEF Walks
    <3>2. CASE n # 0
      <4>1. n \in 1 .. Len(d)
        BY <1>n, <3>2
      <4>2. f[n] = Step(f[n - 1], d[n], floor)
        BY <1>2, <4>1 DEF Walks
      <4> QED BY <3>2, <4>2 DEF Step
    <3> QED BY <3>1, <3>2
  <2>2. f = [n \in 0 .. Len(d) |-> f[n]] /\ g = [n \in 0 .. Len(d) |-> g[n]]
    BY <1>2 DEF Walks
  <2>3. f = g
    <3> HIDE DEF g
    <3> QED BY <2>1, <2>2
  <2> QED BY <2>3
<1>5. Is(to)
  <2> HIDE DEF to, Is
  <2> QED BY <1>3, <1>4
<1>6. Walks(to, base, floor, d, Len(d))
  <2> HIDE DEF to
  <2>1. to = [n \in 0 .. Len(d) |->
             IF n = 0 THEN base
             ELSE LET t == to[n - 1] IN
               IF t = Absent \/ d[n] = "." THEN t
               ELSE IF d[n] # ".." THEN Append(t, d[n])
               ELSE IF Len(t) <= floor THEN Absent ELSE Parent(t)]
    BY <1>5
  <2> HIDE DEF Is
  <2>2. to = [n \in 0 .. Len(d) |-> to[n]] /\ to[0] = base
    BY <1>n, <2>1
  <2>3. ASSUME NEW n \in 1 .. Len(d)
        PROVE  to[n] = Step(to[n - 1], d[n], floor)
    <3>1. n \in 0 .. Len(d) /\ n # 0
      BY <1>n
    <3>2. to[n] = IF n = 0 THEN base
             ELSE LET t == to[n - 1] IN
               IF t = Absent \/ d[n] = "." THEN t
               ELSE IF d[n] # ".." THEN Append(t, d[n])
               ELSE IF Len(t) <= floor THEN Absent ELSE Parent(t)
      BY <2>1, <3>1
    <3> QED BY <3>1, <3>2 DEF Step
  <2> QED BY <2>2, <2>3 DEF Walks
<1> HIDE DEF to
<1> QED BY <1>1, <1>6

(* What canonical_include_path may not leave. *)
RootDir == NormalizedParts(IncludeRoot)

(* A sequence without its last element. *)
LEMMA WithoutLast ==
  ASSUME NEW S, NEW t \in Seq(S), t # << >>
  PROVE  /\ SubSeq(t, 1, Len(t) - 1) \in Seq(S)
         /\ Len(SubSeq(t, 1, Len(t) - 1)) = Len(t) - 1
         /\ \A i \in 1 .. Len(t) - 1 : SubSeq(t, 1, Len(t) - 1)[i] = t[i]
<1>1. Len(t) \in Nat /\ Len(t) # 0
  OBVIOUS
<1>2. SubSeq(t, 1, Len(t) - 1) \in Seq(S)
  BY <1>1
<1>3. Len(SubSeq(t, 1, Len(t) - 1)) = Len(t) - 1
  <2>1. Len(t) - 1 \in Nat /\ Len(t) - 1 \in 1 - 1 .. Len(t)
    BY <1>1
  <2>2. Len(SubSeq(t, 1, Len(t) - 1)) = IF 1 <= Len(t) - 1 THEN (Len(t) - 1) - 1 + 1 ELSE 0
    BY <1>1, <2>1, SubSeqProperties
  <2>3. \A n \in Nat \ {0} : (IF 1 <= n - 1 THEN (n - 1) - 1 + 1 ELSE 0) = n - 1
    OBVIOUS
  <2> QED BY <1>1, <2>2, <2>3, Zenon
<1>4. \A i \in 1 .. Len(t) - 1 : SubSeq(t, 1, Len(t) - 1)[i] = t[i]
  BY <1>1
<1> QED BY <1>2, <1>3, <1>4

LEMMA ParentIs ==
  ASSUME NEW p \in Paths, p # << >>
  PROVE  Parent(p) \in Paths /\ Len(Parent(p)) = Len(p) - 1
BY WithoutLast DEF Paths, Parent

(* A walk stays among the paths, and below the directory it may not leave. *)
LEMMA WalkStays ==
  ASSUME NEW base \in Paths \cup {Absent}, NEW root \in Paths, NEW d \in Paths,
         base = Absent \/ Within(base, root)
  PROVE  /\ Walk(base, Len(root), d) \in Paths \cup {Absent}
         /\ Walk(base, Len(root), d) # Absent => Within(Walk(base, Len(root), d), root)
<1>1. PICK f : Walks(f, base, Len(root), d, Len(d)) /\ Walk(base, Len(root), d) = f[Len(d)]
  BY WalkIs
<1> DEFINE OK(t) == t = Absent \/ (t \in Paths /\ Within(t, root))
           Bad == {n \in Nat : n <= Len(d) /\ ~OK(f[n])}
<1>0. Len(d) \in Nat /\ Len(root) \in Nat
  BY DEF Paths
<1>2. ASSUME Bad # {}
      PROVE  FALSE
  <2>1. PICK m \in Bad : \A k \in Bad : m <= k
    BY <1>2, LeastNumber
  <2>2. m # 0
    BY <1>1, <2>1 DEF Walks
  <2>3. m - 1 \in Nat /\ m \in 1 .. Len(d) /\ OK(f[m - 1])
    BY <1>0, <2>1, <2>2
  <2>4. f[m] = Step(f[m - 1], d[m], Len(root))
    BY <1>1, <2>3, Zenon DEF Walks
  <2>s. d[m] \in STRING
    BY <2>3 DEF Paths
  <2>5. OK(f[m])
    <3> DEFINE t == f[m - 1]
    <3> HIDE DEF t
    <3>1. CASE t = Absent
      BY <2>4, <3>1 DEF Step, t
    <3>2. CASE t # Absent
      <4>1. t \in Paths /\ Len(t) \in Nat /\ Len(root) <= Len(t) /\ SubSeq(t, 1, Len(root)) = root
        BY <2>3, <3>2 DEF t, Paths, Within
      <4>2. CASE f[m] = t
        BY <2>3, <4>2 DEF t
      <4>3. CASE f[m] = Append(t, d[m])
        <5>1. Append(t, d[m]) \in Paths /\ Len(Append(t, d[m])) = Len(t) + 1
          BY <2>s, <4>1 DEF Paths
        <5>2. SubSeq(Append(t, d[m]), 1, Len(root)) = SubSeq(t, 1, Len(root))
          BY <1>0, <2>s, <4>1, <5>1 DEF Paths
        <5>3. Append(t, d[m]) # Absent /\ root # Absent
          BY <5>1, IncludeAssumption
        <5> QED BY <1>0, <4>1, <4>3, <5>1, <5>2, <5>3 DEF Within
      <4>4. CASE f[m] = Parent(t) /\ Len(root) < Len(t)
        <5>1. Parent(t) \in Paths /\ Len(Parent(t)) = Len(t) - 1
          <6>1. t # << >>
            BY <1>0, <4>1, <4>4
          <6> QED BY <4>1, <6>1, ParentIs
        <5>2. SubSeq(Parent(t), 1, Len(root)) = SubSeq(t, 1, Len(root))
          BY <1>0, <4>1, <4>4, <5>1 DEF Paths, Parent
        <5>3. Parent(t) # Absent /\ root # Absent
          BY <5>1, IncludeAssumption
        <5> QED BY <1>0, <4>1, <4>4, <5>1, <5>2, <5>3 DEF Within
      <4>5. CASE f[m] = Absent
        BY <4>5
      <4>6. f[m] = Step(t, d[m], Len(root))
        BY <2>4 DEF t
      <4>7. \/ f[m] = t \/ f[m] = Append(t, d[m]) \/ f[m] = Absent
            \/ (f[m] = Parent(t) /\ ~(Len(t) <= Len(root)))
        BY <3>2, <4>6 DEF Step
      <4>8. ~(Len(t) <= Len(root)) => Len(root) < Len(t)
        BY <1>0, <4>1
      <4> QED BY <4>2, <4>3, <4>4, <4>5, <4>7, <4>8
    <3> QED BY <3>1, <3>2
  <2> QED BY <2>1, <2>5
<1>3. OK(f[Len(d)])
  BY <1>0, <1>2
<1> QED BY <1>1, <1>3

LEMMA NormalizedType ==
  ASSUME NEW d \in Paths
  PROVE  NormalizedParts(d) \in Paths \cup {Absent}
<1>1. << >> \in Paths /\ Len(<< >>) = 0
  BY DEF Paths
<1>2. Within(<< >>, << >>)
  BY <1>1, IncludeAssumption DEF Within
<1> QED BY <1>1, <1>2, WalkStays DEF NormalizedParts

(* canonical_include_path never leaves the include root. *)
LEMMA CanonicalWithin ==
  ASSUME NEW p \in Paths, NEW d \in Paths
  PROVE  LET t == CanonicalIncludePath(p, d) IN t # Absent => t \in Paths /\ Within(t, RootDir)
<1> DEFINE base == NormalizedParts(Parent(p))
           t == CanonicalIncludePath(p, d)
<1>1. RootDir \in Paths \cup {Absent}
  BY NormalizedType, IncludeAssumption DEF RootDir
<1>2. t # Absent => Within(base, RootDir) /\ t = Walk(base, Len(RootDir), d)
  BY DEF CanonicalIncludePath, RootDir
<1>3. Parent(p) \in Paths
  <2>1. CASE p = << >>
    BY <2>1 DEF Parent, Paths
  <2> QED BY <2>1, ParentIs
<1>4. base \in Paths \cup {Absent}
  BY <1>3, NormalizedType
<1> HIDE DEF base
<1>5. Within(base, RootDir) => RootDir \in Paths
  BY <1>1 DEF Within
<1> QED BY <1>2, <1>4, <1>5, WalkStays

----------------------------------------------------------------------------
(* Includes: sums over sources *)

ByteSet(S) == UNION {{s} \X (1 .. s.content.size) : s \in S}
Blocks(S) == UNION {{s} \X (1 .. s.content.limits) : s \in S}

LEMMA PairsAdded ==
  ASSUME NEW U, IsFiniteSet(U), NEW s, NEW n \in Nat, \A u \in U : u[1] # s
  PROVE  /\ IsFiniteSet(U \cup ({s} \X (1 .. n)))
         /\ Cardinality(U \cup ({s} \X (1 .. n))) = Cardinality(U) + n
         /\ Cardinality(U) \in Nat
<1> DEFINE V == {s} \X (1 .. n)
           f == [k \in 1 .. n |-> <<s, k>>]
<1>1. IsFiniteSet(1 .. n) /\ Cardinality(1 .. n) = n
  BY FS_Interval
<1>2. f \in Bijection(1 .. n, V)
  <2>1. f \in [1 .. n -> V]
    OBVIOUS
  <2>2. \A j, k \in 1 .. n : f[j] = f[k] => j = k
    OBVIOUS
  <2>3. \A v \in V : \E k \in 1 .. n : f[k] = v
    OBVIOUS
  <2> QED BY <2>1, <2>2, <2>3 DEF Bijection, Injection, Surjection, IsInjective
<1>3. ExistsBijection(1 .. n, V)
  BY <1>2 DEF ExistsBijection
<1> HIDE DEF f, V
<1>4. IsFiniteSet(V) /\ Cardinality(V) = n
  BY <1>1, <1>3, FS_Bijection
<1>5. U \cap V = {}
  BY DEF V
<1>6. Cardinality(U) \in Nat /\ Cardinality(U \cap V) = 0
  BY <1>5, FS_CardinalityType, FS_EmptySet
<1>7. IsFiniteSet(U \cup V) /\ Cardinality(U \cup V) = Cardinality(U) + n - 0
  BY <1>4, <1>6, FS_Union
<1> QED BY <1>6, <1>7 DEF V

LEMMA SourceAdded ==
  ASSUME NEW S, NEW s, s \notin S
  PROVE  /\ ByteSet(S \cup {s}) = ByteSet(S) \cup ({s} \X (1 .. s.content.size))
         /\ Blocks(S \cup {s}) = Blocks(S) \cup ({s} \X (1 .. s.content.limits))
         /\ \A u \in ByteSet(S) : u[1] # s
         /\ \A u \in Blocks(S) : u[1] # s
<1>1. ByteSet(S \cup {s}) = ByteSet(S) \cup ({s} \X (1 .. s.content.size))
  BY DEF ByteSet
<1>2. Blocks(S \cup {s}) = Blocks(S) \cup ({s} \X (1 .. s.content.limits))
  BY DEF Blocks
<1>3. \A u \in ByteSet(S) : u[1] # s
  BY DEF ByteSet
<1>4. \A u \in Blocks(S) : u[1] # s
  BY DEF Blocks
<1> QED BY <1>1, <1>2, <1>3, <1>4, Zenon

(* The sums, when a source is added. *)
LEMMA SumsAdded ==
  ASSUME NEW S, NEW s, s \notin S, {s.content.size, s.content.limits} \subseteq Nat,
         IsFiniteSet(ByteSet(S)), IsFiniteSet(Blocks(S))
  PROVE  /\ IsFiniteSet(ByteSet(S \cup {s})) /\ IsFiniteSet(Blocks(S \cup {s}))
         /\ SourceBytes(S \cup {s}) = SourceBytes(S) + s.content.size
         /\ LimitsBlocks(S \cup {s}) = LimitsBlocks(S) + s.content.limits
         /\ SourceBytes(S) \in Nat /\ LimitsBlocks(S) \in Nat
<1>1. /\ IsFiniteSet(ByteSet(S \cup {s})) /\ Cardinality(ByteSet(S)) \in Nat
      /\ Cardinality(ByteSet(S \cup {s})) = Cardinality(ByteSet(S)) + s.content.size
  <2> DEFINE P == {s} \X (1 .. s.content.size)
  <2>1. ByteSet(S \cup {s}) = ByteSet(S) \cup P
    BY SourceAdded, Zenon
  <2>a. \A u \in ByteSet(S) : u[1] # s
    BY SourceAdded, Zenon
  <2>b. s.content.size \in Nat
    OBVIOUS
  <2>2. /\ IsFiniteSet(ByteSet(S) \cup P) /\ Cardinality(ByteSet(S)) \in Nat
        /\ Cardinality(ByteSet(S) \cup P) = Cardinality(ByteSet(S)) + s.content.size
    BY <2>a, <2>b, PairsAdded
  <2> HIDE DEF P
  <2> QED BY <2>1, <2>2
<1>2. /\ IsFiniteSet(Blocks(S \cup {s})) /\ Cardinality(Blocks(S)) \in Nat
      /\ Cardinality(Blocks(S \cup {s})) = Cardinality(Blocks(S)) + s.content.limits
  <2> DEFINE P == {s} \X (1 .. s.content.limits)
  <2>1. Blocks(S \cup {s}) = Blocks(S) \cup P
    BY SourceAdded, Zenon
  <2>a. \A u \in Blocks(S) : u[1] # s
    BY SourceAdded, Zenon
  <2>b. s.content.limits \in Nat
    OBVIOUS
  <2>2. /\ IsFiniteSet(Blocks(S) \cup P) /\ Cardinality(Blocks(S)) \in Nat
        /\ Cardinality(Blocks(S) \cup P) = Cardinality(Blocks(S)) + s.content.limits
    BY <2>a, <2>b, PairsAdded
  <2> HIDE DEF P
  <2> QED BY <2>1, <2>2
<1>3. \A T : SourceBytes(T) = Cardinality(ByteSet(T)) /\ LimitsBlocks(T) = Cardinality(Blocks(T))
  BY DEF SourceBytes, LimitsBlocks, ByteSet, Blocks
<1> QED BY <1>1, <1>2, <1>3

LEMMA SumsOfOne ==
  ASSUME NEW s, {s.content.size, s.content.limits} \subseteq Nat
  PROVE  /\ IsFiniteSet(ByteSet({s})) /\ IsFiniteSet(Blocks({s}))
         /\ SourceBytes({s}) = s.content.size /\ LimitsBlocks({s}) = s.content.limits
<1>1. ByteSet({}) = {} /\ Blocks({}) = {}
  BY DEF ByteSet, Blocks
<1>2. SourceBytes({}) = 0 /\ LimitsBlocks({}) = 0
  BY <1>1, FS_EmptySet DEF SourceBytes, LimitsBlocks, ByteSet, Blocks
<1>3. IsFiniteSet(ByteSet({})) /\ IsFiniteSet(Blocks({})) /\ {} \cup {s} = {s} /\ s \notin {}
  BY <1>1, FS_EmptySet
<1>4. /\ IsFiniteSet(ByteSet({} \cup {s})) /\ IsFiniteSet(Blocks({} \cup {s}))
      /\ SourceBytes({} \cup {s}) = SourceBytes({}) + s.content.size
      /\ LimitsBlocks({} \cup {s}) = LimitsBlocks({}) + s.content.limits
  BY <1>3, SumsAdded
<1> QED BY <1>2, <1>3, <1>4

LEMMA SumsGrow ==
  ASSUME NEW S, NEW T, S \subseteq T, IsFiniteSet(Blocks(T))
  PROVE  LimitsBlocks(S) <= LimitsBlocks(T) /\ LimitsBlocks(T) \in Nat /\ IsFiniteSet(Blocks(S))
<1>1. Blocks(S) \in SUBSET Blocks(T)
  BY DEF Blocks
<1>2. /\ Cardinality(Blocks(S)) <= Cardinality(Blocks(T)) /\ Cardinality(Blocks(T)) \in Nat
      /\ IsFiniteSet(Blocks(S))
  BY <1>1, FS_Subset, FS_CardinalityType
<1> QED BY <1>2 DEF LimitsBlocks, Blocks

----------------------------------------------------------------------------
(* Includes: the inductive invariant *)

SourceFiles == [path : Paths, content : Contents]
Frames == [source : SourceFiles, next : Nat]

IncludeTypeOK ==
  /\ stage \in {"root", "visit", "compose", "composed", "refused"}
  /\ stage # "refused" => refusal = Absent
  /\ stack \in Seq(Frames)
  /\ fragments \in Seq(SourceFiles)
  /\ visited \subseteq SourceFiles
  /\ edges \subseteq SourceFiles \X SourceFiles
  /\ bytes \in Nat
  /\ edits \in Nat

(* The sources on the stack are the active ones, and the visited ones are   *)
(* the root and the fragments, each once.                                   *)
StackInv ==
  /\ stack # << >> /\ Root.content \in RootContents
  /\ Len(stack) <= MaxDepth + 1
  /\ active = {stack[k].source : k \in DOMAIN stack}
  /\ active \subseteq visited
  /\ \A j, k \in DOMAIN stack : stack[j].source = stack[k].source => j = k
  /\ IsFiniteSet(active) /\ Cardinality(active) = Len(stack)

FragmentsInv ==
  /\ visited = {Root} \cup Elements(fragments)
  /\ Root \notin Elements(fragments)
  /\ \A j, k \in DOMAIN fragments : fragments[j] = fragments[k] => j = k
  /\ IsFiniteSet(Elements(fragments))
  /\ Cardinality(Elements(fragments)) = Len(fragments)
  /\ Len(fragments) <= MaxFiles
  /\ \A v \in Elements(fragments) : Within(v.path, RootDir)

(* Edges: between visited sources, to each fragment from the root; along    *)
(* the stack, and to an active source in no other way; without a cycle.     *)
EdgesInv ==
  /\ edges \subseteq visited \X visited
  /\ \A v \in Elements(fragments) : \E u \in visited : <<u, v>> \in edges
  /\ \A S : Root \in S /\ (\A e \in edges : e[1] \in S => e[2] \in S) => visited \subseteq S
  /\ \A k \in 1 .. Len(stack) - 1 : <<stack[k].source, stack[k + 1].source>> \in edges
  /\ \A u, v \in visited : <<u, v>> \in edges /\ v \in active =>
       \E k \in 1 .. Len(stack) - 1 : u = stack[k].source /\ v = stack[k + 1].source
  /\ \A S \in SUBSET visited : S # {} => \E u \in S : \A v \in S : <<u, v>> \notin edges

(* Declaration i of u was followed. *)
Followed(u, i) ==
  \E v \in visited : /\ <<u, v>> \in edges
                     /\ v.path = CanonicalIncludePath(u.path, u.content.includes[i])

FollowedInv ==
  /\ \A k \in DOMAIN stack :
       /\ stack[k].next \in 1 .. Len(stack[k].source.content.includes) + 1
       /\ \A i \in 1 .. stack[k].next - 1 : Followed(stack[k].source, i)
  /\ \A u \in visited \ active : \A i \in DOMAIN u.content.includes : Followed(u, i)

SumsInv ==
  /\ IsFiniteSet(ByteSet(visited)) /\ IsFiniteSet(Blocks(visited))
  /\ bytes = SourceBytes(visited) /\ bytes <= MaxBytes

DiskInv ==
  edits = 0 => \A u \in visited : u.path \in DOMAIN disk /\ disk[u.path] = u.content

BuildInv ==
  /\ stage = "root" => stack = << >> /\ fragments = << >> /\ edges = {}
  /\ stage \in {"visit", "compose", "composed"} =>
       StackInv /\ FragmentsInv /\ EdgesInv /\ FollowedInv /\ SumsInv /\ DiskInv

(* The sources that the composer has merged. *)
Merged == {Root} \cup {fragments[i] : i \in 1 .. merged.next - 1}

MergeInv ==
  stage \in {"compose", "composed"} =>
    /\ Len(stack) = 1 /\ Top.next > Len(Top.source.content.includes)
    /\ merged.next \in 1 .. Len(fragments) + 1
    /\ Functional(merged.requires, "tool") /\ Functional(merged.contexts, "name")
    /\ \A i \in 1 .. merged.next - 1 :
         /\ Elements(fragments[i].content.requires) \subseteq merged.requires
         /\ Elements(fragments[i].content.contexts) \subseteq merged.contexts
    /\ \A r \in merged.requires : \E s \in Merged : r \in Elements(s.content.requires)
    /\ \A f \in merged.contexts : \E s \in Merged : f \in Elements(s.content.contexts)
    /\ merged.limits = LimitsBlocks(Merged) /\ merged.limits \in {0, 1}
    /\ stage = "composed" => merged.next = Len(fragments) + 1 /\ merged.limits = 1

IncludeInv == IncludeTypeOK /\ BuildInv /\ MergeInv /\ RefusedForCause

LEMMA ContentType ==
  ASSUME NEW c \in Contents
  PROVE  /\ c.includes \in Seq(Paths)
         /\ c.requires \in Seq(Elements(c.requires)) /\ c.contexts \in Seq(Elements(c.contexts))
         /\ {c.size, c.limits} \subseteq Nat
BY IncludeAssumption

(* The refusals that RefusedForCause speaks of. *)
Codes == IncludeCodes \ {"INC_RESOLUTION_FAILED", "INC_PATH_OUTSIDE_ROOT"}

LEMMA NotRefused ==
  /\ refusal \notin Codes => RefusedForCause
  /\ refusal' \notin Codes => RefusedForCause'
<1>1. ASSUME refusal \notin Codes
      PROVE  RefusedForCause
  <2>1. /\ refusal # "INC_CYCLE" /\ refusal # "INC_DEPTH_LIMIT" /\ refusal # "INC_FILE_LIMIT"
        /\ refusal # "INC_BUNDLE_SIZE_LIMIT" /\ refusal # "INC_TOOL_VERSION_CONFLICT"
        /\ refusal # "INC_DUPLICATE_CONTEXT" /\ refusal # "INC_DUPLICATE_LIMIT"
        /\ refusal # "INC_REQUIRED_LIMITS_MISSING"
    BY <1>1 DEF Codes, IncludeCodes
  <2> QED BY <2>1, Zenon DEF RefusedForCause
<1>2. ASSUME refusal' \notin Codes
      PROVE  RefusedForCause'
  <2>1. /\ refusal' # "INC_CYCLE" /\ refusal' # "INC_DEPTH_LIMIT" /\ refusal' # "INC_FILE_LIMIT"
        /\ refusal' # "INC_BUNDLE_SIZE_LIMIT" /\ refusal' # "INC_TOOL_VERSION_CONFLICT"
        /\ refusal' # "INC_DUPLICATE_CONTEXT" /\ refusal' # "INC_DUPLICATE_LIMIT"
        /\ refusal' # "INC_REQUIRED_LIMITS_MISSING"
    BY <1>2 DEF Codes, IncludeCodes
  <2> QED BY <2>1, Zenon DEF RefusedForCause
<1> QED BY <1>1, <1>2

LEMMA NoneIsNoCode == Absent \notin Codes
BY IncludeAssumption DEF Codes

LEMMA IncludeInvInit == IncludeInit => IncludeInv
<1> SUFFICES ASSUME IncludeInit
             PROVE  IncludeInv
  OBVIOUS
<1>1. IncludeTypeOK
  BY DEF IncludeInit, IncludeTypeOK
<1>2. BuildInv /\ MergeInv
  BY DEF IncludeInit, BuildInv, MergeInv
<1>3. refusal \notin Codes
  BY NoneIsNoCode DEF IncludeInit
<1>4. RefusedForCause
  BY <1>3, NotRefused
<1> QED BY <1>1, <1>2, <1>4 DEF IncludeInv

(* The stack when a declaration was taken. *)
Advanced == [stack EXCEPT ![Len(stack)].next = @ + 1]

(* A declaration leads to the source s. *)
ResolvedShape(s) ==
  /\ stage = "visit" /\ Len(stack) <= MaxDepth
  /\ Top.next <= Len(Top.source.content.includes)
  /\ s \in SourceFiles
  /\ s.path = CanonicalIncludePath(Top.source.path, Top.source.content.includes[Top.next])
  /\ Within(s.path, RootDir)
  /\ edges' = edges \cup {<<Top.source, s>>}
  /\ edits' \in Nat
  /\ edits' = 0 => edits = 0 /\ (s.path \in DOMAIN disk => disk[s.path] = s.content)
  /\ disk' = [p \in DOMAIN disk \cup {s.path} |-> IF p = s.path THEN s.content ELSE disk[p]]
  /\ UNCHANGED merged

VisitShape(s) ==
  /\ s \notin visited /\ Len(fragments) < MaxFiles /\ bytes + s.content.size <= MaxBytes
  /\ visited' = visited \cup {s} /\ active' = active \cup {s}
  /\ fragments' = Append(fragments, s)
  /\ bytes' = bytes + s.content.size
  /\ stack' = Append(Advanced, [source |-> s, next |-> 1])
  /\ UNCHANGED <<stage, refusal>>

ContinueShape(s) ==
  /\ s \in visited /\ s \notin active
  /\ stack' = Advanced
  /\ UNCHANGED <<stage, refusal, visited, active, fragments, bytes>>

StopShape(s) ==
  /\ stage' = "refused"
  /\ \/ refusal' = "INC_CYCLE" /\ s \in active
     \/ refusal' = "INC_FILE_LIMIT" /\ s \notin visited /\ Len(fragments) >= MaxFiles
     \/ refusal' = "INC_BUNDLE_SIZE_LIMIT" /\ s \notin visited
        /\ bytes + s.content.size > MaxBytes
     \/ refusal' = "PARSE"
  /\ UNCHANGED <<stack, visited, active, fragments, bytes>>

(* What the builder has at the top of its stack. *)
LEMMA TopType ==
  ASSUME IncludeTypeOK, StackInv
  PROVE  /\ Len(stack) \in Nat \ {0} /\ DOMAIN stack = 1 .. Len(stack) /\ Len(stack) \in DOMAIN stack
         /\ Top = stack[Len(stack)] /\ Top \in Frames
         /\ Top.source \in SourceFiles /\ Top.next \in Nat
         /\ Top.source.path \in Paths /\ Top.source.content.includes \in Seq(Paths)
         /\ Top.source \in active /\ Top.source \in visited
<1>1. Len(stack) \in Nat \ {0} /\ DOMAIN stack = 1 .. Len(stack) /\ Len(stack) \in DOMAIN stack
  BY DEF IncludeTypeOK, StackInv
<1>2. Top = stack[Len(stack)] /\ Top \in Frames
  BY <1>1 DEF IncludeTypeOK, Top
<1>3. /\ Top.source \in SourceFiles /\ Top.next \in Nat /\ Top.source.path \in Paths
      /\ Top.source.content \in Contents
  BY <1>2 DEF Frames, SourceFiles
<1>4. Top.source \in active
  <2>1. stack[Len(stack)].source \in {stack[k].source : k \in DOMAIN stack}
    BY <1>1
  <2> QED BY <1>2, <2>1 DEF StackInv
<1>5. Top.source.content.includes \in Seq(Paths)
  BY <1>3, ContentType
<1>6. Top.source \in visited
  BY <1>4 DEF StackInv
<1> HIDE DEF Top
<1> QED BY <1>1, <1>2, <1>3, <1>4, <1>5, <1>6

LEMMA IncludeShape ==
  ASSUME IncludeTypeOK, BuildInv, NEW c \in Contents, Include(c)
  PROVE  \E s \in SourceFiles :
           ResolvedShape(s) /\ (VisitShape(s) \/ ContinueShape(s) \/ StopShape(s))
<1> DEFINE s == Source(Target, c)
<1>0. Resolves(c) /\ c # Absent
  BY DEF Include
<1>1. /\ stage = "visit" /\ Len(stack) <= MaxDepth /\ Target # Absent
      /\ Top.next <= Len(Top.source.content.includes)
  BY <1>0 DEF Resolves, Declared
<1>2. StackInv /\ FollowedInv /\ IncludeTypeOK
  BY <1>1 DEF BuildInv
<1>3. Top.next \in DOMAIN Top.source.content.includes /\ Declaration \in Paths
  <2>1. Top.next \in 1 .. Len(Top.source.content.includes) + 1
    BY <1>2, TopType DEF FollowedInv
  <2>2. Top.source.content.includes \in Seq(Paths)
    BY <1>2, TopType
  <2> QED BY <1>1, <2>1, <2>2 DEF Declaration
<1>4. Target \in Paths /\ Within(Target, RootDir)
  BY <1>1, <1>2, <1>3, TopType, CanonicalWithin DEF Target
<1>5. s \in SourceFiles /\ s.path = Target /\ s.content = c
  BY <1>4 DEF Source, SourceFiles
<1>6. edges' = edges \cup {<<Top.source, s>>} /\ UNCHANGED merged
  BY DEF Include
<1>7. /\ edits' = (IF Target \in DOMAIN disk /\ disk[Target] # c THEN edits + 1 ELSE edits)
      /\ disk' = [p \in DOMAIN disk \cup {Target} |-> IF p = Target THEN c ELSE disk[p]]
  BY <1>0 DEF Resolves
<1>8. edits' \in Nat /\ (edits' = 0 => edits = 0 /\ (Target \in DOMAIN disk => disk[Target] = c))
  BY <1>2, <1>7 DEF IncludeTypeOK
<1>9. ResolvedShape(s)
  <2> HIDE DEF s
  <2> QED BY <1>1, <1>4, <1>5, <1>6, <1>7, <1>8 DEF ResolvedShape, Target, Declaration
<1>v. VisitShape(s) \/ ContinueShape(s) \/ StopShape(s)
  <2>0. bytes \in Nat /\ s.content.size \in Nat /\ {MaxBytes, MaxFiles} \subseteq Nat
        /\ Len(fragments) \in Nat /\ active \subseteq visited /\ refusal = Absent
    BY <1>1, <1>2, <1>5, ContentType, IncludeAssumption DEF IncludeTypeOK, StackInv
  <2>1. CASE Verdict(s) = "VISIT"
    <3>1. /\ visited' = visited \cup {s} /\ active' = active \cup {s}
          /\ fragments' = Append(fragments, s) /\ bytes' = bytes + s.content.size
          /\ stack' = Append(Advanced, [source |-> s, next |-> 1])
          /\ UNCHANGED <<stage, refusal>>
      BY <1>5, <2>1 DEF Include, Advanced
    <3>2. s \notin visited /\ ~(Len(fragments) >= MaxFiles)
          /\ ~(bytes + s.content.size > MaxBytes)
      BY <2>1 DEF Verdict
    <3> HIDE DEF s
    <3>3. Len(fragments) < MaxFiles /\ bytes + s.content.size <= MaxBytes
      BY <2>0, <3>2
    <3> QED BY <3>1, <3>2, <3>3 DEF VisitShape
  <2>2. CASE Verdict(s) = "CONTINUE"
    <3>1. /\ stack' = Advanced /\ stage' = stage /\ refusal' = Absent
          /\ UNCHANGED <<visited, active, fragments, bytes>>
      BY <2>2 DEF Include, Advanced
    <3>2. s \notin active /\ s \in visited
      BY <2>2 DEF Verdict
    <3> HIDE DEF s
    <3> QED BY <2>0, <3>1, <3>2 DEF ContinueShape
  <2>3. CASE Verdict(s) \notin {"VISIT", "CONTINUE"}
    <3>1. /\ stack' = stack /\ stage' = "refused" /\ refusal' = Verdict(s)
          /\ UNCHANGED <<visited, active, fragments, bytes>>
      BY <2>3 DEF Include
    <3> HIDE DEF s
    <3>2. \/ Verdict(s) = "INC_CYCLE" /\ s \in active
          \/ Verdict(s) = "INC_FILE_LIMIT" /\ s \notin visited /\ Len(fragments) >= MaxFiles
          \/ Verdict(s) = "INC_BUNDLE_SIZE_LIMIT" /\ s \notin visited
             /\ bytes + s.content.size > MaxBytes
          \/ Verdict(s) = "PARSE"
      BY <2>3 DEF Verdict
    <3> QED BY <3>1, <3>2 DEF StopShape
  <2> QED BY <2>1, <2>2, <2>3
<1> HIDE DEF s
<1> QED BY <1>5, <1>9, <1>v

LEMMA AdvancedIs ==
  ASSUME IncludeTypeOK, StackInv
  PROVE  /\ Advanced \in Seq(Frames) /\ Len(Advanced) = Len(stack)
         /\ \A k \in 1 .. Len(stack) : Advanced[k].source = stack[k].source
         /\ \A k \in 1 .. Len(stack) - 1 : Advanced[k] = stack[k]
         /\ Advanced[Len(stack)].next = Top.next + 1
<1>1. /\ Len(stack) \in Nat \ {0} /\ DOMAIN stack = 1 .. Len(stack) /\ Len(stack) \in DOMAIN stack
      /\ Top = stack[Len(stack)] /\ Top \in Frames /\ Top.source \in SourceFiles /\ Top.next \in Nat
  BY TopType
<1>2. stack \in Seq(Frames)
  BY DEF IncludeTypeOK
<1> DEFINE f == [stack[Len(stack)] EXCEPT !.next = stack[Len(stack)].next + 1]
<1>3. f \in Frames /\ f.source = Top.source /\ f.next = Top.next + 1
  <2>1. Top = [source |-> Top.source, next |-> Top.next]
    BY <1>1 DEF Frames
  <2> HIDE DEF Top
  <2>2. f = [source |-> Top.source, next |-> Top.next + 1]
    BY <1>1, <2>1
  <2>3. Top.next + 1 \in Nat
    BY <1>1
  <2> HIDE DEF f
  <2> QED BY <1>1, <2>2, <2>3 DEF Frames
<1>4. Advanced = [stack EXCEPT ![Len(stack)] = f]
  BY DEF Advanced
<1> HIDE DEF f, Top
<1>5. Advanced \in Seq(Frames) /\ Len(Advanced) = Len(stack)
  BY <1>1, <1>2, <1>3, <1>4
<1>6. Advanced[Len(stack)] = f /\ \A k \in 1 .. Len(stack) - 1 : Advanced[k] = stack[k]
  BY <1>1, <1>2, <1>3, <1>4
<1>7. \A k \in 1 .. Len(stack) : Advanced[k].source = stack[k].source
  <2>1. \A n \in Nat : \A k \in 1 .. n : k = n \/ k \in 1 .. n - 1
    OBVIOUS
  <2>2. \A k \in 1 .. Len(stack) : k = Len(stack) \/ k \in 1 .. Len(stack) - 1
    BY <1>1, <2>1, Zenon
  <2> QED BY <1>1, <1>3, <1>6, <2>2
<1> QED BY <1>3, <1>5, <1>6, <1>7

(* The stack, when a source is visited. *)
LEMMA VisitedStack ==
  ASSUME IncludeTypeOK, StackInv, NEW s \in SourceFiles,
         stack' = Append(Advanced, [source |-> s, next |-> 1])
  PROVE  /\ stack' \in Seq(Frames) /\ Len(stack') = Len(stack) + 1
         /\ DOMAIN stack' = 1 .. Len(stack) + 1
         /\ \A k \in 1 .. Len(stack) : stack'[k].source = stack[k].source
         /\ \A k \in 1 .. Len(stack) - 1 : stack'[k] = stack[k]
         /\ stack'[Len(stack)].next = Top.next + 1
         /\ stack'[Len(stack) + 1].source = s /\ stack'[Len(stack) + 1].next = 1
<1> DEFINE f == [source |-> s, next |-> 1]
<1>1. f \in Frames /\ f.source = s /\ f.next = 1
  BY DEF Frames
<1>2. /\ Advanced \in Seq(Frames) /\ Len(Advanced) = Len(stack) /\ Len(stack) \in Nat \ {0}
      /\ \A k \in 1 .. Len(stack) : Advanced[k].source = stack[k].source
      /\ \A k \in 1 .. Len(stack) - 1 : Advanced[k] = stack[k]
      /\ Advanced[Len(stack)].next = Top.next + 1
  BY AdvancedIs, TopType
<1> HIDE DEF f, Advanced, Top
<1>3. stack' = Append(Advanced, f)
  BY DEF f
<1>4. /\ stack' \in Seq(Frames) /\ Len(stack') = Len(stack) + 1
      /\ stack'[Len(stack) + 1] = f
      /\ \A k \in 1 .. Len(stack) : stack'[k] = Advanced[k]
  BY <1>1, <1>2, <1>3
<1>5. DOMAIN stack' = 1 .. Len(stack) + 1
  BY <1>2, <1>4
<1> QED BY <1>1, <1>2, <1>4, <1>5

----------------------------------------------------------------------------
(* Includes: a source is visited *)

LEMMA ElementsAppended ==
  ASSUME NEW S, NEW q \in Seq(S), NEW e \in S
  PROVE  /\ Append(q, e) \in Seq(S) /\ Len(Append(q, e)) = Len(q) + 1
         /\ \A k \in 1 .. Len(q) : Append(q, e)[k] = q[k]
         /\ Append(q, e)[Len(q) + 1] = e
         /\ Elements(Append(q, e)) = Elements(q) \cup {e}
<1>1. /\ Append(q, e) \in Seq(S) /\ Len(Append(q, e)) = Len(q) + 1
      /\ \A k \in 1 .. Len(q) : Append(q, e)[k] = q[k]
      /\ Append(q, e)[Len(q) + 1] = e
      /\ Len(q) \in Nat
  OBVIOUS
<1> DEFINE r == Append(q, e)
<1> HIDE DEF r
<1>2. DOMAIN q = 1 .. Len(q) /\ DOMAIN r = 1 .. Len(q) + 1
  BY <1>1 DEF r
<1>3. \A n \in Nat : \A k : k \in 1 .. n + 1 <=> k \in 1 .. n \/ k = n + 1
  OBVIOUS
<1>4. \A k : k \in DOMAIN r <=> k \in DOMAIN q \/ k = Len(q) + 1
  BY <1>1, <1>2, <1>3
<1>5. (\A k \in DOMAIN q : r[k] = q[k]) /\ r[Len(q) + 1] = e
  BY <1>1, <1>2 DEF r
<1>6. Elements(r) = Elements(q) \cup {e}
  BY <1>4, <1>5 DEF Elements
<1> QED BY <1>1, <1>6 DEF r

LEMMA VisitStack ==
  ASSUME IncludeTypeOK, StackInv, NEW s \in SourceFiles, ResolvedShape(s), VisitShape(s)
  PROVE  StackInv' /\ Root' = Root
<1>0. Len(stack) \in Nat \ {0} /\ DOMAIN stack = 1 .. Len(stack)
  BY TopType
<1>1. /\ stack' \in Seq(Frames) /\ Len(stack') = Len(stack) + 1
      /\ DOMAIN stack' = 1 .. Len(stack) + 1
      /\ \A k \in 1 .. Len(stack) : stack'[k].source = stack[k].source
      /\ stack'[Len(stack) + 1].source = s
  BY VisitedStack DEF VisitShape
<1>2. \A k : k \in DOMAIN stack' <=> k \in DOMAIN stack \/ k = Len(stack) + 1
  <2>1. \A n \in Nat : \A k : k \in 1 .. n + 1 <=> k \in 1 .. n \/ k = n + 1
    OBVIOUS
  <2> QED BY <1>0, <1>1, <2>1
<1>3. \A k \in DOMAIN stack : stack'[k].source = stack[k].source
  BY <1>0, <1>1
<1>4. /\ active = {stack[k].source : k \in DOMAIN stack} /\ active \subseteq visited
      /\ \A j, k \in DOMAIN stack : stack[j].source = stack[k].source => j = k
      /\ IsFiniteSet(active) /\ Cardinality(active) = Len(stack)
  BY DEF StackInv
<1>5. s \notin active /\ active' = active \cup {s} /\ visited' = visited \cup {s}
  BY <1>4 DEF VisitShape
<1>6. active' = {stack'[k].source : k \in DOMAIN stack'}
  BY <1>1, <1>2, <1>3, <1>4, <1>5
<1>7. \A j, k \in DOMAIN stack' : stack'[j].source = stack'[k].source => j = k
  <2>1. \A k \in DOMAIN stack : stack'[k].source # s
    BY <1>3, <1>4, <1>5
  <2> QED BY <1>1, <1>2, <1>3, <1>4, <2>1
<1>8. IsFiniteSet(active') /\ Cardinality(active') = Len(stack')
  <2>1. IsFiniteSet(active \cup {s}) /\ Cardinality(active \cup {s}) = Cardinality(active) + 1
    BY <1>4, <1>5, FS_AddElement, Zenon
  <2> QED BY <1>1, <1>4, <1>5, <2>1, Zenon
<1>9. stack' # << >> /\ Len(stack') <= MaxDepth + 1
  BY <1>0, <1>1, IncludeAssumption DEF ResolvedShape
<1>10. active' \subseteq visited'
  BY <1>4, <1>5
<1>11. Root' = Root
  <2>1. 1 \in DOMAIN stack
    BY <1>0
  <2> QED BY <1>3, <2>1 DEF Root
<1>12. Root'.content \in RootContents
  BY <1>11 DEF StackInv
<1> QED BY <1>6, <1>7, <1>8, <1>9, <1>10, <1>11, <1>12 DEF StackInv

LEMMA VisitFragments ==
  ASSUME IncludeTypeOK, FragmentsInv, NEW s \in SourceFiles, ResolvedShape(s), VisitShape(s),
         Root' = Root
  PROVE  FragmentsInv'
<1>0. fragments \in Seq(SourceFiles) /\ Len(fragments) \in Nat
  BY DEF IncludeTypeOK
<1>1. /\ visited = {Root} \cup Elements(fragments) /\ Root \notin Elements(fragments)
      /\ \A j, k \in DOMAIN fragments : fragments[j] = fragments[k] => j = k
      /\ IsFiniteSet(Elements(fragments)) /\ Cardinality(Elements(fragments)) = Len(fragments)
      /\ \A v \in Elements(fragments) : Within(v.path, RootDir)
  BY DEF FragmentsInv
<1>2. /\ s \notin visited /\ Len(fragments) < MaxFiles /\ visited' = visited \cup {s}
      /\ fragments' = Append(fragments, s)
  BY DEF VisitShape
<1>3. /\ Len(fragments') = Len(fragments) + 1 /\ fragments' \in Seq(SourceFiles)
      /\ \A k \in 1 .. Len(fragments) : fragments'[k] = fragments[k]
      /\ fragments'[Len(fragments) + 1] = s
      /\ Elements(fragments') = Elements(fragments) \cup {s}
  <2>1. fragments \in Seq(SourceFiles)
    BY <1>0
  <2> QED BY <1>2, <2>1, ElementsAppended
<1>4. visited' = {Root} \cup Elements(fragments') /\ Root \notin Elements(fragments')
  BY <1>1, <1>2, <1>3
<1>5. \A j, k \in DOMAIN fragments' : fragments'[j] = fragments'[k] => j = k
  <2>1. DOMAIN fragments = 1 .. Len(fragments) /\ DOMAIN fragments' = 1 .. Len(fragments) + 1
    BY <1>0, <1>3
  <2>2. \A n \in Nat : \A k : k \in 1 .. n + 1 <=> k \in 1 .. n \/ k = n + 1
    OBVIOUS
  <2>3. \A k : k \in DOMAIN fragments' <=> k \in DOMAIN fragments \/ k = Len(fragments) + 1
    BY <1>0, <2>1, <2>2
  <2>4. \A k \in DOMAIN fragments : fragments'[k] = fragments[k] /\ fragments[k] # s
    BY <1>1, <1>2, <1>3, <2>1 DEF Elements
  <2> QED BY <1>1, <1>3, <2>3, <2>4
<1>6. /\ IsFiniteSet(Elements(fragments'))
      /\ Cardinality(Elements(fragments')) = Len(fragments')
  <2>1. s \notin Elements(fragments)
    BY <1>1, <1>2
  <2> QED BY <1>0, <1>1, <1>3, <2>1, FS_AddElement
<1>7. Len(fragments') <= MaxFiles
  BY <1>0, <1>2, <1>3, IncludeAssumption
<1>8. \A v \in Elements(fragments') : Within(v.path, RootDir)
  BY <1>1, <1>3 DEF ResolvedShape
<1> QED BY <1>4, <1>5, <1>6, <1>7, <1>8 DEF FragmentsInv, RootDir

LEMMA VisitEdges ==
  ASSUME IncludeTypeOK, StackInv, FragmentsInv, EdgesInv,
         NEW s \in SourceFiles, ResolvedShape(s), VisitShape(s), Root' = Root
  PROVE  EdgesInv'
<1> DEFINE t == Top.source
           L == Len(stack)
<1>0. L \in Nat \ {0} /\ DOMAIN stack = 1 .. L /\ t = stack[L].source /\ t \in visited
  BY TopType
<1>1. /\ Len(stack') = L + 1
      /\ \A k \in 1 .. L : stack'[k].source = stack[k].source
      /\ stack'[L + 1].source = s
  BY VisitedStack DEF VisitShape
<1>2. /\ edges' = edges \cup {<<t, s>>} /\ s \notin visited
      /\ visited' = visited \cup {s} /\ active' = active \cup {s}
      /\ fragments' = Append(fragments, s)
  BY DEF VisitShape, ResolvedShape
<1>3. Elements(fragments') = Elements(fragments) \cup {s}
  BY <1>2, ElementsAppended DEF IncludeTypeOK
<1>4. /\ edges \subseteq visited \X visited
      /\ \A v \in Elements(fragments) : \E u \in visited : <<u, v>> \in edges
      /\ \A S : Root \in S /\ (\A e \in edges : e[1] \in S => e[2] \in S) => visited \subseteq S
      /\ \A k \in 1 .. L - 1 : <<stack[k].source, stack[k + 1].source>> \in edges
      /\ \A u, v \in visited : <<u, v>> \in edges /\ v \in active =>
           \E k \in 1 .. L - 1 : u = stack[k].source /\ v = stack[k + 1].source
      /\ \A S \in SUBSET visited : S # {} => \E u \in S : \A v \in S : <<u, v>> \notin edges
  BY DEF EdgesInv
<1> HIDE DEF t, L
<1>5. \A u, v : <<u, v>> \in edges => u \in visited /\ v \in visited
  BY <1>4
<1>6. \A u, v : <<u, v>> \in edges' <=> <<u, v>> \in edges \/ (u = t /\ v = s)
  BY <1>2
<1>7. edges' \subseteq visited' \X visited'
  BY <1>0, <1>2, <1>4
<1>8. \A v \in Elements(fragments') : \E u \in visited' : <<u, v>> \in edges'
  BY <1>0, <1>2, <1>3, <1>4, <1>6
<1>9. ASSUME NEW S, Root' \in S, \A e \in edges' : e[1] \in S => e[2] \in S
      PROVE  visited' \subseteq S
  <2>1. Root \in S /\ \A e \in edges : e[1] \in S => e[2] \in S
    BY <1>2, <1>9
  <2>2. visited \subseteq S
    BY <1>4, <2>1
  <2>3. <<t, s>> \in edges' /\ <<t, s>>[1] = t /\ <<t, s>>[2] = s
    BY <1>2
  <2>4. s \in S
    BY <1>0, <1>9, <2>2, <2>3
  <2> QED BY <1>2, <2>2, <2>4
<1>10. \A n \in Nat \ {0} : /\ (n + 1) - 1 = n /\ n \in 1 .. n /\ n \in Nat
                            /\ \A k \in 1 .. n - 1 : k \in 1 .. n /\ k + 1 \in 1 .. n
                            /\ \A k \in 1 .. n : k = n \/ k \in 1 .. n - 1
  OBVIOUS
<1>11. /\ Len(stack') - 1 = L /\ L \in 1 .. L
       /\ \A k \in 1 .. L - 1 : k \in 1 .. L /\ k + 1 \in 1 .. L
       /\ \A k \in 1 .. L : k = L \/ k \in 1 .. L - 1
  BY <1>0, <1>1, <1>10, Zenon
<1>12. \A k \in 1 .. Len(stack') - 1 : <<stack'[k].source, stack'[k + 1].source>> \in edges'
  <2> SUFFICES ASSUME NEW k \in 1 .. L
               PROVE  <<stack'[k].source, stack'[k + 1].source>> \in edges'
    BY <1>11, Zenon
  <2>1. CASE k = L
    <3>1. stack'[k].source = t /\ stack'[k + 1].source = s
      BY <1>0, <1>1, <1>11, <2>1, Zenon
    <3> QED BY <1>6, <3>1
  <2>2. CASE k \in 1 .. L - 1
    <3>1. stack'[k].source = stack[k].source /\ stack'[k + 1].source = stack[k + 1].source
      BY <1>1, <1>11, <2>2, Zenon
    <3>2. <<stack[k].source, stack[k + 1].source>> \in edges
      BY <1>4, <2>2, Zenon
    <3> QED BY <1>6, <3>1, <3>2
  <2> QED BY <1>11, <2>1, <2>2
<1>13. ASSUME NEW u \in visited', NEW v \in visited', <<u, v>> \in edges', v \in active'
       PROVE  \E k \in 1 .. Len(stack') - 1 : u = stack'[k].source /\ v = stack'[k + 1].source
  <2>1. CASE u = t /\ v = s
    <3>1. u = stack'[L].source /\ v = stack'[L + 1].source
      BY <1>0, <1>1, <1>11, <2>1, Zenon
    <3> QED BY <1>11, <3>1, Zenon
  <2>2. CASE <<u, v>> \in edges
    <3>1. u \in visited /\ v \in visited /\ v \in active
      BY <1>2, <1>5, <1>13, <2>2
    <3>2. PICK k \in 1 .. L - 1 : u = stack[k].source /\ v = stack[k + 1].source
      BY <1>4, <2>2, <3>1
    <3>3. k \in 1 .. L /\ u = stack'[k].source /\ v = stack'[k + 1].source
      BY <1>1, <1>11, <3>2, Zenon
    <3> QED BY <1>11, <3>3, Zenon
  <2> QED BY <1>6, <1>13, <2>1, <2>2
<1>14. ASSUME NEW S \in SUBSET visited', S # {}
       PROVE  \E u \in S : \A v \in S : <<u, v>> \notin edges'
  <2>1. CASE s \in S
    <3>1. \A v \in S : <<s, v>> \notin edges'
      BY <1>0, <1>2, <1>5, <1>6
    <3> QED BY <2>1, <3>1
  <2>2. CASE s \notin S
    <3>1. S \in SUBSET visited
      BY <1>2, <2>2
    <3>2. PICK u \in S : \A v \in S : <<u, v>> \notin edges
      BY <1>4, <1>14, <3>1, Zenon
    <3>3. \A v \in S : <<u, v>> \notin edges'
      BY <1>6, <2>2, <3>2
    <3> QED BY <3>3
  <2> QED BY <2>1, <2>2
<1>15. \A S : Root' \in S /\ (\A e \in edges' : e[1] \in S => e[2] \in S) => visited' \subseteq S
  BY <1>9
<1>16. \A u, v \in visited' : <<u, v>> \in edges' /\ v \in active' =>
         \E k \in 1 .. Len(stack') - 1 : u = stack'[k].source /\ v = stack'[k + 1].source
  BY <1>13
<1>17. \A S \in SUBSET visited' : S # {} => \E u \in S : \A v \in S : <<u, v>> \notin edges'
  BY <1>14
<1> QED BY <1>7, <1>8, <1>12, <1>15, <1>16, <1>17 DEF EdgesInv

(* One declaration more is followed, whether its source was visited or not. *)
LEMMA FollowedTaken ==
  ASSUME IncludeTypeOK, StackInv, FollowedInv, NEW s \in SourceFiles, ResolvedShape(s),
         visited' = visited \cup {s}, visited' \ active' = visited \ active,
         DOMAIN stack' \in {1 .. Len(stack), 1 .. Len(stack) + 1},
         \A k \in 1 .. Len(stack) : stack'[k].source = stack[k].source,
         \A k \in 1 .. Len(stack) - 1 : stack'[k] = stack[k],
         stack'[Len(stack)].next = Top.next + 1,
         Len(stack) + 1 \in DOMAIN stack' =>
           stack'[Len(stack) + 1].source = s /\ stack'[Len(stack) + 1].next = 1
  PROVE  FollowedInv'
<1> DEFINE t == Top.source
           L == Len(stack)
           Was(u, i) == \E v \in visited : /\ <<u, v>> \in edges
                          /\ v.path = CanonicalIncludePath(u.path, u.content.includes[i])
           Is(u, i) == \E v \in visited' : /\ <<u, v>> \in edges'
                          /\ v.path = CanonicalIncludePath(u.path, u.content.includes[i])
<1>0. L \in Nat \ {0} /\ DOMAIN stack = 1 .. L /\ t = stack[L].source /\ Top.next \in Nat
      /\ Top.next = stack[L].next /\ t.content.includes \in Seq(Paths) /\ L \in DOMAIN stack
  BY TopType
<1>1. /\ edges' = edges \cup {<<t, s>>} /\ Top.next <= Len(t.content.includes)
      /\ s.path = CanonicalIncludePath(t.path, t.content.includes[Top.next])
  BY DEF ResolvedShape
<1>2. /\ \A k \in DOMAIN stack :
           /\ stack[k].next \in 1 .. Len(stack[k].source.content.includes) + 1
           /\ \A i \in 1 .. stack[k].next - 1 : Was(stack[k].source, i)
      /\ \A u \in visited \ active : \A i \in DOMAIN u.content.includes : Was(u, i)
  BY DEF FollowedInv, Followed
<1>3. \A u, i : Was(u, i) => Is(u, i)
  BY <1>1
<1>4. Is(t, Top.next)
  BY <1>1
<1>s. Len(s.content.includes) \in Nat
  BY ContentType DEF SourceFiles
<1> HIDE DEF t, L, Was, Is
<1>5. ASSUME NEW k \in DOMAIN stack'
      PROVE  /\ stack'[k].next \in 1 .. Len(stack'[k].source.content.includes) + 1
             /\ \A i \in 1 .. stack'[k].next - 1 : Is(stack'[k].source, i)
  <2>1. CASE k \in 1 .. L - 1
    <3>1. k \in DOMAIN stack /\ stack'[k] = stack[k]
      BY <1>0, <2>1 DEF L
    <3> QED BY <1>2, <1>3, <3>1
  <2>2. CASE k = L
    <3>1. stack'[k].source = t /\ stack'[k].next = Top.next + 1
      BY <1>0, <2>2 DEF L
    <3>2. Top.next \in 1 .. Len(t.content.includes) + 1
          /\ \A i \in 1 .. Top.next - 1 : Was(t, i)
      BY <1>0, <1>2
    <3>3. Len(t.content.includes) \in Nat
      BY <1>0
    <3>4. Top.next + 1 \in 1 .. Len(t.content.includes) + 1
      BY <1>0, <1>1, <3>2, <3>3
    <3>5. \A n \in Nat : \A i \in 1 .. (n + 1) - 1 : i = n \/ i \in 1 .. n - 1
      OBVIOUS
    <3>6. \A i \in 1 .. (Top.next + 1) - 1 : Is(t, i)
      BY <1>0, <1>3, <1>4, <3>2, <3>5
    <3> QED BY <3>1, <3>4, <3>6, Zenon
  <2>3. CASE k = L + 1
    <3>1. stack'[k].source = s /\ stack'[k].next = 1
      BY <2>3 DEF L
    <3> QED BY <1>s, <3>1
  <2>4. k \in 1 .. L - 1 \/ k = L \/ k = L + 1
    <3>1. \A n \in Nat : \A j \in 1 .. n + 1 : j \in 1 .. n - 1 \/ j = n \/ j = n + 1
      OBVIOUS
    <3>2. \A n \in Nat : \A j \in 1 .. n : j \in 1 .. n - 1 \/ j = n
      OBVIOUS
    <3>3. k \in 1 .. L \/ k \in 1 .. L + 1
      BY DEF L
    <3> QED BY <1>0, <3>1, <3>2, <3>3
  <2> QED BY <2>1, <2>2, <2>3, <2>4
<1>6. \A u \in visited' \ active' : \A i \in DOMAIN u.content.includes : Is(u, i)
  BY <1>2, <1>3
<1> QED BY <1>5, <1>6 DEF FollowedInv, Followed, Is

LEMMA VisitSums ==
  ASSUME IncludeTypeOK, SumsInv, NEW s \in SourceFiles, VisitShape(s)
  PROVE  SumsInv'
<1>1. {s.content.size, s.content.limits} \subseteq Nat
  BY ContentType DEF SourceFiles
<1>2. /\ s \notin visited /\ visited' = visited \cup {s} /\ bytes' = bytes + s.content.size
      /\ bytes + s.content.size <= MaxBytes
  BY DEF VisitShape
<1>3. IsFiniteSet(ByteSet(visited)) /\ IsFiniteSet(Blocks(visited)) /\ bytes = SourceBytes(visited)
  BY DEF SumsInv
<1>4. /\ IsFiniteSet(ByteSet(visited \cup {s})) /\ IsFiniteSet(Blocks(visited \cup {s}))
      /\ SourceBytes(visited \cup {s}) = SourceBytes(visited) + s.content.size
  BY <1>1, <1>2, <1>3, SumsAdded, Zenon
<1>5. /\ IsFiniteSet(ByteSet(visited')) /\ IsFiniteSet(Blocks(visited'))
      /\ bytes' = SourceBytes(visited') /\ bytes' <= MaxBytes
  BY <1>2, <1>3, <1>4, Zenon
<1>6. /\ ByteSet(visited)' = ByteSet(visited') /\ Blocks(visited)' = Blocks(visited')
      /\ SourceBytes(visited)' = SourceBytes(visited')
  BY DEF ByteSet, Blocks, SourceBytes
<1> QED BY <1>5, <1>6 DEF SumsInv

(* What is on the disk is what the sources hold, unless a file was edited. *)
LEMMA DiskTaken ==
  ASSUME IncludeTypeOK, DiskInv, NEW s \in SourceFiles, ResolvedShape(s),
         visited' = visited \cup {s}
  PROVE  DiskInv'
<1> SUFFICES ASSUME edits' = 0, NEW u \in visited'
             PROVE  u.path \in DOMAIN disk' /\ disk'[u.path] = u.content
  BY DEF DiskInv
<1>1. /\ edits = 0 /\ (s.path \in DOMAIN disk => disk[s.path] = s.content)
      /\ disk' = [p \in DOMAIN disk \cup {s.path} |-> IF p = s.path THEN s.content ELSE disk[p]]
  BY DEF ResolvedShape
<1>2. CASE u = s
  BY <1>1, <1>2
<1>3. CASE u \in visited
  <2>1. u.path \in DOMAIN disk /\ disk[u.path] = u.content
    BY <1>1, <1>3 DEF DiskInv
  <2> QED BY <1>1, <2>1
<1> QED BY <1>2, <1>3

LEMMA VisitKeeps ==
  ASSUME IncludeTypeOK, BuildInv, NEW s \in SourceFiles, ResolvedShape(s), VisitShape(s)
  PROVE  BuildInv' /\ IncludeTypeOK'
<1>1. /\ stage = "visit" /\ stage' = stage
      /\ StackInv /\ FragmentsInv /\ EdgesInv /\ FollowedInv /\ SumsInv /\ DiskInv
  BY DEF ResolvedShape, VisitShape, BuildInv
<1>2. StackInv' /\ Root' = Root
  BY <1>1, VisitStack
<1>3. FragmentsInv' /\ EdgesInv'
  BY <1>1, <1>2, VisitFragments, VisitEdges
<1>4. visited' = visited \cup {s} /\ visited' \ active' = visited \ active
  BY <1>1 DEF VisitShape
<1>5. stack' = Append(Advanced, [source |-> s, next |-> 1])
  BY DEF VisitShape
<1>6. FollowedInv'
  BY <1>1, <1>4, <1>5, VisitedStack, FollowedTaken
<1>7. SumsInv' /\ DiskInv'
  BY <1>1, <1>4, VisitSums, DiskTaken
<1>8. IncludeTypeOK'
  <2>1. stack' \in Seq(Frames)
    BY <1>1, <1>5, VisitedStack
  <2>2. fragments' \in Seq(SourceFiles)
    BY ElementsAppended DEF VisitShape, IncludeTypeOK
  <2>3. edges' \subseteq SourceFiles \X SourceFiles
    <3>1. edges \subseteq SourceFiles \X SourceFiles /\ Top.source \in SourceFiles
      BY <1>1, TopType DEF IncludeTypeOK
    <3>2. edges' = edges \cup {<<Top.source, s>>}
      BY DEF ResolvedShape
    <3> HIDE DEF Top
    <3> QED BY <3>1, <3>2
  <2>4. bytes' \in Nat /\ s.content.size \in Nat
    BY ContentType DEF VisitShape, IncludeTypeOK, SourceFiles
  <2> QED BY <1>1, <1>4, <2>1, <2>2, <2>3, <2>4 DEF IncludeTypeOK, ResolvedShape, VisitShape
<1> QED BY <1>1, <1>2, <1>3, <1>6, <1>7, <1>8 DEF BuildInv

----------------------------------------------------------------------------
(* Includes: a source is met again *)

(* An edge to a source whose visit is over closes no cycle: no source whose *)
(* visit is over includes one whose visit is not.                           *)
LEMMA ContinueAcyclic ==
  ASSUME NEW t, NEW s, NEW S \in SUBSET visited, S # {}, EdgesInv, StackInv,
         DOMAIN stack = 1 .. Len(stack), Len(stack) \in Nat,
         t \in active, s \in visited, s \notin active
  PROVE  \E u \in S : \A v \in S : <<u, v>> \notin edges \cup {<<t, s>>}
<1>1. \A T \in SUBSET visited : T # {} => \E u \in T : \A v \in T : <<u, v>> \notin edges
  BY DEF EdgesInv
<1>2. \A u, v \in visited : <<u, v>> \in edges /\ v \in active => u \in active
  <2> SUFFICES ASSUME NEW u \in visited, NEW v \in visited, <<u, v>> \in edges, v \in active
               PROVE  u \in active
    OBVIOUS
  <2>1. PICK k \in 1 .. Len(stack) - 1 : u = stack[k].source
    BY DEF EdgesInv
  <2>2. k \in DOMAIN stack
    BY <2>1
  <2> QED BY <2>1, <2>2 DEF StackInv
<1> DEFINE D == S \ active
<1>3. CASE D # {}
  <2>1. PICK u \in D : \A v \in D : <<u, v>> \notin edges
    <3>1. D \in SUBSET visited
      OBVIOUS
    <3> QED BY <1>1, <1>3, <3>1, Zenon
  <2>2. ASSUME NEW v \in S, <<u, v>> \in edges \cup {<<t, s>>}
        PROVE  FALSE
    <3>1. u # t /\ u \in visited /\ v \in visited
      OBVIOUS
    <3>2. <<u, v>> \in edges
      BY <2>2, <3>1
    <3>3. v \notin active
      BY <1>2, <3>1, <3>2
    <3> QED BY <2>1, <3>2, <3>3
  <2> QED BY <2>2
<1>4. CASE D = {}
  <2>1. s \notin S
    BY <1>4
  <2>2. PICK u \in S : \A v \in S : <<u, v>> \notin edges
    BY <1>1, Zenon
  <2> QED BY <2>1, <2>2
<1> QED BY <1>3, <1>4

LEMMA ContinueEdges ==
  ASSUME IncludeTypeOK, StackInv, EdgesInv,
         NEW s \in SourceFiles, ResolvedShape(s), ContinueShape(s),
         Len(stack') = Len(stack), Root' = Root,
         \A k \in 1 .. Len(stack) : stack'[k].source = stack[k].source
  PROVE  EdgesInv'
<1> DEFINE t == Top.source
           L == Len(stack)
<1>0. L \in Nat \ {0} /\ DOMAIN stack = 1 .. L /\ t \in active /\ t \in visited
  BY TopType
<1>2. /\ edges' = edges \cup {<<t, s>>} /\ s \in visited /\ s \notin active
      /\ visited' = visited /\ active' = active /\ fragments' = fragments
  BY DEF ContinueShape, ResolvedShape
<1>4. /\ edges \subseteq visited \X visited
      /\ \A v \in Elements(fragments) : \E u \in visited : <<u, v>> \in edges
      /\ \A S : Root \in S /\ (\A e \in edges : e[1] \in S => e[2] \in S) => visited \subseteq S
      /\ \A k \in 1 .. L - 1 : <<stack[k].source, stack[k + 1].source>> \in edges
      /\ \A u, v \in visited : <<u, v>> \in edges /\ v \in active =>
           \E k \in 1 .. L - 1 : u = stack[k].source /\ v = stack[k + 1].source
  BY DEF EdgesInv
<1>a. \A S \in SUBSET visited : S # {} => \E u \in S : \A v \in S : <<u, v>> \notin edges \cup {<<t, s>>}
  BY <1>0, <1>2, ContinueAcyclic
<1> HIDE DEF t, L
<1>6. \A u, v : <<u, v>> \in edges' <=> <<u, v>> \in edges \/ (u = t /\ v = s)
  BY <1>2
<1>7. edges' \subseteq visited' \X visited'
  BY <1>0, <1>2, <1>4
<1>8. \A v \in Elements(fragments') : \E u \in visited' : <<u, v>> \in edges'
  BY <1>2, <1>4, <1>6
<1>9. \A S : Root' \in S /\ (\A e \in edges' : e[1] \in S => e[2] \in S) => visited' \subseteq S
  BY <1>2, <1>4
<1>10. \A n \in Nat \ {0} : \A k \in 1 .. n - 1 : k \in 1 .. n /\ k + 1 \in 1 .. n
  OBVIOUS
<1>11. \A k \in 1 .. L - 1 : stack'[k].source = stack[k].source
                             /\ stack'[k + 1].source = stack[k + 1].source
  BY <1>0, <1>10, Zenon DEF L
<1>12. \A k \in 1 .. Len(stack') - 1 : <<stack'[k].source, stack'[k + 1].source>> \in edges'
  BY <1>4, <1>6, <1>11 DEF L
<1>13. \A u, v \in visited' : <<u, v>> \in edges' /\ v \in active' =>
         \E k \in 1 .. Len(stack') - 1 : u = stack'[k].source /\ v = stack'[k + 1].source
  BY <1>2, <1>4, <1>6, <1>11 DEF L
<1>14. \A S \in SUBSET visited' : S # {} => \E u \in S : \A v \in S : <<u, v>> \notin edges'
  BY <1>2, <1>a
<1> QED BY <1>7, <1>8, <1>9, <1>12, <1>13, <1>14 DEF EdgesInv

LEMMA ContinueKeeps ==
  ASSUME IncludeTypeOK, BuildInv, NEW s \in SourceFiles, ResolvedShape(s), ContinueShape(s)
  PROVE  BuildInv' /\ IncludeTypeOK'
<1>1. /\ stage = "visit" /\ stage' = stage
      /\ StackInv /\ FragmentsInv /\ EdgesInv /\ FollowedInv /\ SumsInv /\ DiskInv
  BY DEF ResolvedShape, ContinueShape, BuildInv
<1>2. /\ stack' \in Seq(Frames) /\ Len(stack') = Len(stack) /\ Len(stack) \in Nat \ {0}
      /\ \A k \in 1 .. Len(stack) : stack'[k].source = stack[k].source
      /\ \A k \in 1 .. Len(stack) - 1 : stack'[k] = stack[k]
      /\ stack'[Len(stack)].next = Top.next + 1
      /\ DOMAIN stack = 1 .. Len(stack)
  BY <1>1, AdvancedIs, TopType DEF ContinueShape
<1>3. UNCHANGED <<visited, active, fragments, bytes>> /\ s \in visited
  BY DEF ContinueShape
<1>4. DOMAIN stack' = 1 .. Len(stack)
  BY <1>2
<1>5. Root' = Root
  BY <1>2 DEF Root
<1>6. StackInv'
  <2>1. /\ active = {stack[k].source : k \in DOMAIN stack} /\ active \subseteq visited
        /\ \A j, k \in DOMAIN stack : stack[j].source = stack[k].source => j = k
        /\ IsFiniteSet(active) /\ Cardinality(active) = Len(stack) /\ Len(stack) <= MaxDepth + 1
    BY <1>1 DEF StackInv
  <2>2. active' = {stack'[k].source : k \in DOMAIN stack'} /\ active' \subseteq visited'
    BY <1>2, <1>3, <1>4, <2>1
  <2>3. \A j, k \in DOMAIN stack' : stack'[j].source = stack'[k].source => j = k
    BY <1>2, <1>4, <2>1
  <2>4. IsFiniteSet(active') /\ Cardinality(active') = Len(stack')
    BY <1>2, <1>3, <2>1
  <2>5. stack' # << >> /\ Len(stack') <= MaxDepth + 1
    BY <1>2, <2>1
  <2>6. Root'.content \in RootContents
    BY <1>1, <1>5 DEF StackInv
  <2> QED BY <2>2, <2>3, <2>4, <2>5, <2>6 DEF StackInv
<1>7. FragmentsInv'
  BY <1>1, <1>3, <1>5 DEF FragmentsInv, RootDir
<1>8. EdgesInv'
  BY <1>1, <1>2, <1>5, ContinueEdges
<1>9. visited' = visited \cup {s} /\ visited' \ active' = visited \ active
  BY <1>3
<1>10. FollowedInv'
  <2>1. Len(stack) + 1 \notin DOMAIN stack'
    BY <1>2, <1>4
  <2> QED BY <1>1, <1>2, <1>4, <1>9, <2>1, FollowedTaken
<1>11. SumsInv' /\ DiskInv'
  BY <1>1, <1>3, <1>9, DiskTaken DEF SumsInv, ByteSet, Blocks, SourceBytes
<1>12. IncludeTypeOK'
  <2>1. edges' \subseteq SourceFiles \X SourceFiles
    <3>1. edges \subseteq SourceFiles \X SourceFiles /\ Top.source \in SourceFiles
      BY <1>1, TopType DEF IncludeTypeOK
    <3>2. edges' = edges \cup {<<Top.source, s>>}
      BY DEF ResolvedShape
    <3> HIDE DEF Top
    <3> QED BY <3>1, <3>2
  <2> QED BY <1>1, <1>2, <1>3, <2>1 DEF IncludeTypeOK, ResolvedShape, ContinueShape
<1> QED BY <1>1, <1>6, <1>7, <1>8, <1>10, <1>11, <1>12 DEF BuildInv

----------------------------------------------------------------------------
(* Includes: a visit is over *)

LeaveShape ==
  /\ stage = "visit" /\ Top.next > Len(Top.source.content.includes)
  /\ Len(stack) > 1
  /\ stack' = SubSeq(stack, 1, Len(stack) - 1)
  /\ active' = active \ {Top.source}
  /\ UNCHANGED <<stage, merged, visited, fragments, edges, bytes, disk, edits, refusal>>

LEMMA LeaveStack ==
  ASSUME IncludeTypeOK, StackInv, LeaveShape
  PROVE  /\ StackInv' /\ Root' = Root
         /\ stack' \in Seq(Frames) /\ Len(stack') = Len(stack) - 1
         /\ \A k \in 1 .. Len(stack) - 1 : stack'[k] = stack[k]
<1> DEFINE t == Top.source
           L == Len(stack)
<1>0. L \in Nat \ {0} /\ DOMAIN stack = 1 .. L /\ t = stack[L].source /\ t \in active
      /\ L \in DOMAIN stack /\ stack \in Seq(Frames) /\ stack # << >> /\ L > 1
  BY TopType DEF LeaveShape, IncludeTypeOK
<1>1. /\ stack' \in Seq(Frames) /\ Len(stack') = L - 1
      /\ \A k \in 1 .. L - 1 : stack'[k] = stack[k]
  BY <1>0, WithoutLast DEF LeaveShape
<1>2. /\ active = {stack[k].source : k \in DOMAIN stack} /\ active \subseteq visited
      /\ \A j, k \in DOMAIN stack : stack[j].source = stack[k].source => j = k
      /\ IsFiniteSet(active) /\ Cardinality(active) = L /\ L <= MaxDepth + 1
      /\ Root.content \in RootContents
  BY DEF StackInv
<1>3. active' = active \ {t} /\ visited' = visited
  BY DEF LeaveShape
<1> HIDE DEF t, L
<1>4. DOMAIN stack' = 1 .. L - 1
  BY <1>0, <1>1
<1>5. \A k : k \in DOMAIN stack' <=> k \in DOMAIN stack /\ k # L
  <2>1. \A n \in Nat : \A k : k \in 1 .. n - 1 <=> k \in 1 .. n /\ k # n
    OBVIOUS
  <2> QED BY <1>0, <1>4, <2>1
<1>6. \A k \in DOMAIN stack' : stack'[k].source = stack[k].source /\ stack[k].source # t
  BY <1>0, <1>1, <1>2, <1>4, <1>5
<1>7. active' = {stack'[k].source : k \in DOMAIN stack'}
  BY <1>0, <1>2, <1>3, <1>5, <1>6
<1>8. \A j, k \in DOMAIN stack' : stack'[j].source = stack'[k].source => j = k
  BY <1>2, <1>5, <1>6
<1>9. IsFiniteSet(active') /\ Cardinality(active') = L - 1
  <2>1. IsFiniteSet(active \ {t}) /\ Cardinality(active \ {t}) = Cardinality(active) - 1
    <3>1. t \in active /\ IsFiniteSet(active)
      BY <1>0, <1>2
    <3>2. /\ IsFiniteSet(active \ {t})
          /\ Cardinality(active \ {t}) =
               IF t \in active THEN Cardinality(active) - 1 ELSE Cardinality(active)
      BY <3>1, FS_RemoveElement, Zenon
    <3> QED BY <3>1, <3>2
  <2> QED BY <1>2, <1>3, <2>1, Zenon
<1>10. stack' # << >> /\ Len(stack') <= MaxDepth + 1
  BY <1>0, <1>1, <1>2, IncludeAssumption
<1>11. Root' = Root
  <2>1. 1 \in 1 .. L - 1
    BY <1>0
  <2> QED BY <1>1, <2>1 DEF Root
<1>12. active' \subseteq visited' /\ Root'.content \in RootContents
  BY <1>2, <1>3, <1>11
<1>13. StackInv'
  BY <1>1, <1>7, <1>8, <1>9, <1>10, <1>12 DEF StackInv
<1> QED BY <1>1, <1>11, <1>13 DEF L

LEMMA LeaveEdges ==
  ASSUME IncludeTypeOK, StackInv, EdgesInv, LeaveShape, Root' = Root,
         Len(stack') = Len(stack) - 1,
         \A k \in 1 .. Len(stack) - 1 : stack'[k] = stack[k]
  PROVE  EdgesInv'
<1> DEFINE t == Top.source
           L == Len(stack)
<1>0. L \in Nat \ {0} /\ t = stack[L].source
  BY TopType
<1>1. /\ active' = active \ {t} /\ visited' = visited /\ edges' = edges /\ fragments' = fragments
  BY DEF LeaveShape
<1>2. /\ \A k \in 1 .. L - 1 : <<stack[k].source, stack[k + 1].source>> \in edges
      /\ \A u, v \in visited : <<u, v>> \in edges /\ v \in active =>
           \E k \in 1 .. L - 1 : u = stack[k].source /\ v = stack[k + 1].source
  BY DEF EdgesInv
<1> HIDE DEF t, L
<1>3. Len(stack') = L - 1 /\ \A k \in 1 .. L - 1 : stack'[k] = stack[k]
  BY DEF L
<1>4. \A n \in Nat \ {0} :
        /\ \A k \in 1 .. (n - 1) - 1 : k \in 1 .. n - 1 /\ k + 1 \in 1 .. n - 1
        /\ \A k \in 1 .. n - 1 : k + 1 = n \/ k \in 1 .. (n - 1) - 1
  OBVIOUS
<1>5. /\ \A k \in 1 .. Len(stack') - 1 : k \in 1 .. L - 1 /\ k + 1 \in 1 .. L - 1
      /\ \A k \in 1 .. L - 1 : k + 1 = L \/ k \in 1 .. Len(stack') - 1
  BY <1>0, <1>3, <1>4, Zenon
<1>6. \A k \in 1 .. Len(stack') - 1 : <<stack'[k].source, stack'[k + 1].source>> \in edges'
  BY <1>1, <1>2, <1>3, <1>5, Zenon
<1>7. ASSUME NEW u \in visited', NEW v \in visited', <<u, v>> \in edges', v \in active'
      PROVE  \E k \in 1 .. Len(stack') - 1 : u = stack'[k].source /\ v = stack'[k + 1].source
  <2>1. u \in visited /\ v \in visited /\ <<u, v>> \in edges /\ v \in active /\ v # t
    BY <1>1, <1>7
  <2>2. PICK k \in 1 .. L - 1 : u = stack[k].source /\ v = stack[k + 1].source
    BY <1>2, <2>1
  <2>3. k \in 1 .. Len(stack') - 1
    BY <1>0, <1>5, <2>1, <2>2, Zenon
  <2>4. stack'[k] = stack[k] /\ stack'[k + 1] = stack[k + 1]
    BY <1>3, <1>5, <2>3, Zenon
  <2> QED BY <2>2, <2>3, <2>4
<1>8. \A u, v \in visited' : <<u, v>> \in edges' /\ v \in active' =>
        \E k \in 1 .. Len(stack') - 1 : u = stack'[k].source /\ v = stack'[k + 1].source
  BY <1>7
<1>9. /\ edges' \subseteq visited' \X visited'
      /\ \A v \in Elements(fragments') : \E u \in visited' : <<u, v>> \in edges'
      /\ \A S : Root' \in S /\ (\A e \in edges' : e[1] \in S => e[2] \in S) => visited' \subseteq S
      /\ \A S \in SUBSET visited' : S # {} => \E u \in S : \A v \in S : <<u, v>> \notin edges'
  BY <1>1 DEF EdgesInv
<1> QED BY <1>6, <1>8, <1>9 DEF EdgesInv

LEMMA LeaveFollowed ==
  ASSUME IncludeTypeOK, StackInv, FollowedInv, LeaveShape,
         stack' \in Seq(Frames), Len(stack') = Len(stack) - 1,
         \A k \in 1 .. Len(stack) - 1 : stack'[k] = stack[k]
  PROVE  FollowedInv'
<1> DEFINE t == Top.source
           L == Len(stack)
           Is(u, i) == \E v \in visited : /\ <<u, v>> \in edges
                          /\ v.path = CanonicalIncludePath(u.path, u.content.includes[i])
<1>0. L \in Nat \ {0} /\ DOMAIN stack = 1 .. L /\ t = stack[L].source /\ Top.next \in Nat
      /\ Top.next = stack[L].next /\ t.content.includes \in Seq(Paths) /\ L \in DOMAIN stack
  BY TopType
<1>1. /\ active' = active \ {t} /\ visited' = visited /\ edges' = edges
      /\ Top.next > Len(t.content.includes)
  BY DEF LeaveShape
<1>2. /\ \A k \in DOMAIN stack :
           /\ stack[k].next \in 1 .. Len(stack[k].source.content.includes) + 1
           /\ \A i \in 1 .. stack[k].next - 1 : Is(stack[k].source, i)
      /\ \A u \in visited \ active : \A i \in DOMAIN u.content.includes : Is(u, i)
  BY DEF FollowedInv, Followed
<1> HIDE DEF t, L, Is
<1>3. \A k \in DOMAIN stack' : k \in DOMAIN stack /\ stack'[k] = stack[k]
  <2>1. DOMAIN stack' = 1 .. L - 1
    BY <1>0 DEF L
  <2> QED BY <1>0, <2>1 DEF L
<1>4. \A i \in DOMAIN t.content.includes : Is(t, i)
  <2>1. Top.next \in 1 .. Len(t.content.includes) + 1 /\ \A i \in 1 .. Top.next - 1 : Is(t, i)
    BY <1>0, <1>2
  <2>2. DOMAIN t.content.includes = 1 .. Len(t.content.includes) /\ Len(t.content.includes) \in Nat
    BY <1>0
  <2>3. 1 .. Top.next - 1 = 1 .. Len(t.content.includes)
    BY <1>0, <1>1, <2>1, <2>2
  <2> QED BY <2>1, <2>2, <2>3
<1>5. \A k \in DOMAIN stack' :
        /\ stack'[k].next \in 1 .. Len(stack'[k].source.content.includes) + 1
        /\ \A i \in 1 .. stack'[k].next - 1 : Is(stack'[k].source, i)
  BY <1>2, <1>3
<1>6. \A u \in visited' \ active' : \A i \in DOMAIN u.content.includes : Is(u, i)
  BY <1>1, <1>2, <1>4
<1> QED BY <1>1, <1>5, <1>6 DEF FollowedInv, Followed, Is

LEMMA LeaveKeeps ==
  ASSUME IncludeTypeOK, BuildInv, LeaveShape
  PROVE  BuildInv' /\ IncludeTypeOK'
<1>1. /\ stage = "visit" /\ stage' = stage
      /\ StackInv /\ FragmentsInv /\ EdgesInv /\ FollowedInv /\ SumsInv /\ DiskInv
  BY DEF LeaveShape, BuildInv
<1>2. /\ StackInv' /\ Root' = Root
      /\ stack' \in Seq(Frames) /\ Len(stack') = Len(stack) - 1
      /\ \A k \in 1 .. Len(stack) - 1 : stack'[k] = stack[k]
  BY <1>1, LeaveStack
<1>3. UNCHANGED <<merged, visited, fragments, edges, bytes, disk, edits, refusal>>
  BY DEF LeaveShape
<1>4. FragmentsInv'
  BY <1>1, <1>2, <1>3 DEF FragmentsInv, RootDir
<1>5. EdgesInv' /\ FollowedInv'
  BY <1>1, <1>2, LeaveEdges, LeaveFollowed
<1>6. SumsInv' /\ DiskInv'
  BY <1>1, <1>3 DEF SumsInv, ByteSet, Blocks, SourceBytes, DiskInv
<1>7. IncludeTypeOK'
  BY <1>1, <1>2, <1>3 DEF IncludeTypeOK
<1> QED BY <1>1, <1>2, <1>4, <1>5, <1>6, <1>7 DEF BuildInv

(* A step that leaves the builder's state as it is. *)
LEMMA BuilderUnchanged ==
  ASSUME StackInv, FragmentsInv, EdgesInv, FollowedInv, SumsInv, DiskInv,
         UNCHANGED <<stack, visited, active, fragments, edges, bytes, disk, edits>>
  PROVE  StackInv' /\ FragmentsInv' /\ EdgesInv' /\ FollowedInv' /\ SumsInv' /\ DiskInv'
<1>0. /\ stack' = stack /\ visited' = visited /\ active' = active /\ fragments' = fragments
      /\ edges' = edges /\ bytes' = bytes /\ disk' = disk /\ edits' = edits
  OBVIOUS
<1>1. Root' = Root
  BY <1>0 DEF Root
<1>2. StackInv' /\ FragmentsInv'
  BY <1>0, <1>1 DEF StackInv, FragmentsInv, RootDir
<1>3. EdgesInv'
  <2>1. /\ edges' \subseteq visited' \X visited'
        /\ \A v \in Elements(fragments') : \E u \in visited' : <<u, v>> \in edges'
        /\ \A S : Root' \in S /\ (\A e \in edges' : e[1] \in S => e[2] \in S) => visited' \subseteq S
        /\ \A S \in SUBSET visited' : S # {} => \E u \in S : \A v \in S : <<u, v>> \notin edges'
    BY <1>0, <1>1 DEF EdgesInv
  <2>2. /\ \A k \in 1 .. Len(stack') - 1 : <<stack'[k].source, stack'[k + 1].source>> \in edges'
        /\ \A u, v \in visited' : <<u, v>> \in edges' /\ v \in active' =>
             \E k \in 1 .. Len(stack') - 1 : u = stack'[k].source /\ v = stack'[k + 1].source
    BY <1>0 DEF EdgesInv
  <2> QED BY <2>1, <2>2 DEF EdgesInv
<1>4. FollowedInv'
  BY <1>0 DEF FollowedInv, Followed
<1>5. SumsInv' /\ DiskInv'
  BY <1>0 DEF SumsInv, ByteSet, Blocks, SourceBytes, DiskInv
<1> QED BY <1>2, <1>3, <1>4, <1>5

----------------------------------------------------------------------------
(* Includes: the root *)

LEMMA ReadRootKeeps ==
  ASSUME IncludeTypeOK, BuildInv, NEW c \in RootContents, ReadRoot(c), stage' = "visit"
  PROVE  BuildInv' /\ IncludeTypeOK' /\ refusal' = refusal
<1> DEFINE s == Source(RootPath, c)
           f == [source |-> s, next |-> 1]
<1>0. stage = "root" /\ fragments = << >> /\ edges = {} /\ refusal = Absent
  BY DEF ReadRoot, BuildInv, IncludeTypeOK
<1>1. ~(c.size > MaxBytes) /\ c.parses
  BY DEF ReadRoot, Refuse
<1>2. /\ stack' = <<f>> /\ visited' = {s} /\ active' = {s} /\ bytes' = c.size
      /\ fragments' = << >> /\ edges' = {} /\ merged' = merged /\ refusal' = refusal
      /\ disk' = [p \in {RootPath} |-> c] /\ edits' = edits
  BY <1>0, <1>1 DEF ReadRoot
<1>3. c \in Contents /\ RootPath \in Paths
  BY IncludeAssumption DEF Contents
<1>4. /\ s \in SourceFiles /\ s.path = RootPath /\ s.content = c
      /\ f \in Frames /\ f.source = s /\ f.next = 1
  BY <1>3 DEF Source, SourceFiles, Frames
<1>5. /\ {c.size, c.limits} \subseteq Nat /\ MaxBytes \in Nat /\ MaxDepth \in Nat /\ MaxFiles \in Nat
      /\ Len(c.includes) \in Nat
  BY <1>3, ContentType, IncludeAssumption
<1> HIDE DEF s, f
<1>6. /\ stack' \in Seq(Frames) /\ Len(stack') = 1 /\ DOMAIN stack' = {1} /\ stack'[1] = f
      /\ Root' = s
  <2>1. stack' \in Seq(Frames) /\ Len(stack') = 1 /\ DOMAIN stack' = {1} /\ stack'[1] = f
    BY <1>2, <1>4
  <2> QED BY <1>4, <2>1 DEF Root
<1>7. StackInv'
  <2>1. active' = {stack'[k].source : k \in DOMAIN stack'} /\ active' \subseteq visited'
    BY <1>2, <1>4, <1>6
  <2>2. IsFiniteSet(active') /\ Cardinality(active') = 1
    BY <1>2, FS_Singleton
  <2>3. stack' # << >> /\ Len(stack') <= MaxDepth + 1 /\ Root'.content \in RootContents
    <3>1. stack' # << >>
      BY <1>2
    <3>2. Len(stack') <= MaxDepth + 1
      BY <1>5, <1>6
    <3>3. Root'.content \in RootContents
      BY <1>4, <1>6, Zenon
    <3> QED BY <3>1, <3>2, <3>3
  <2>4. \A j, k \in DOMAIN stack' : stack'[j].source = stack'[k].source => j = k
    BY <1>6
  <2> QED BY <1>6, <2>1, <2>2, <2>3, <2>4 DEF StackInv
<1>8. FragmentsInv'
  <2>1. Elements(fragments') = {} /\ Len(fragments') = 0 /\ DOMAIN fragments' = {}
    BY <1>2 DEF Elements
  <2>2. IsFiniteSet({}) /\ Cardinality({}) = 0
    BY FS_EmptySet
  <2>3. visited' = {Root'} \cup Elements(fragments') /\ Root' \notin Elements(fragments')
    BY <1>2, <1>6, <2>1
  <2>4. /\ \A j, k \in DOMAIN fragments' : fragments'[j] = fragments'[k] => j = k
        /\ \A v \in Elements(fragments') : Within(v.path, RootDir')
    BY <2>1
  <2>5. /\ IsFiniteSet(Elements(fragments')) /\ Cardinality(Elements(fragments')) = Len(fragments')
        /\ Len(fragments') <= MaxFiles
    BY <1>5, <2>1, <2>2
  <2> QED BY <2>3, <2>4, <2>5 DEF FragmentsInv
<1>9. EdgesInv'
  <2>1. Elements(fragments') = {} /\ 1 .. Len(stack') - 1 = {}
    BY <1>2, <1>6 DEF Elements
  <2>2. /\ edges' \subseteq visited' \X visited'
        /\ \A v \in Elements(fragments') : \E u \in visited' : <<u, v>> \in edges'
        /\ \A S : Root' \in S /\ (\A e \in edges' : e[1] \in S => e[2] \in S) => visited' \subseteq S
        /\ \A S \in SUBSET visited' : S # {} => \E u \in S : \A v \in S : <<u, v>> \notin edges'
    BY <1>2, <1>6, <2>1
  <2>3. /\ \A k \in 1 .. Len(stack') - 1 : <<stack'[k].source, stack'[k + 1].source>> \in edges'
        /\ \A u, v \in visited' : <<u, v>> \in edges' /\ v \in active' =>
             \E k \in 1 .. Len(stack') - 1 : u = stack'[k].source /\ v = stack'[k + 1].source
    BY <1>2, <2>1
  <2> QED BY <2>2, <2>3 DEF EdgesInv
<1>10. FollowedInv'
  <2>1. \A k \in DOMAIN stack' :
          /\ stack'[k].next \in 1 .. Len(stack'[k].source.content.includes) + 1
          /\ 1 .. stack'[k].next - 1 = {}
    BY <1>4, <1>5, <1>6
  <2>2. visited' \ active' = {}
    BY <1>2
  <2> QED BY <2>1, <2>2 DEF FollowedInv
<1>11. SumsInv'
  <2>1. /\ IsFiniteSet(ByteSet({s})) /\ IsFiniteSet(Blocks({s})) /\ SourceBytes({s}) = c.size
    BY <1>4, <1>5, SumsOfOne
  <2>2. bytes' <= MaxBytes
    BY <1>1, <1>2, <1>5
  <2>3. /\ ByteSet(visited)' = ByteSet({s}) /\ Blocks(visited)' = Blocks({s})
        /\ SourceBytes(visited)' = SourceBytes({s})
    BY <1>2 DEF ByteSet, Blocks, SourceBytes
  <2> QED BY <1>2, <2>1, <2>2, <2>3 DEF SumsInv
<1>12. DiskInv'
  BY <1>2, <1>4 DEF DiskInv
<1>13. IncludeTypeOK'
  BY <1>0, <1>2, <1>4, <1>5, <1>6 DEF IncludeTypeOK
<1> QED BY <1>2, <1>7, <1>8, <1>9, <1>10, <1>11, <1>12, <1>13 DEF BuildInv

----------------------------------------------------------------------------
(* Includes: refusals of the builder *)

(* While the bundle is built its sources are the visited ones. *)
LEMMA SourcesAreVisited ==
  ASSUME FragmentsInv, EdgesInv
  PROVE  Sources = visited
<1>1. visited = {Root} \cup Elements(fragments)
  BY DEF FragmentsInv
<1>2. /\ \A e \in edges : e[2] \in visited
      /\ \A v \in Elements(fragments) : \E u \in visited : <<u, v>> \in edges
  BY DEF EdgesInv
<1>3. \A v \in Elements(fragments) : v \in {e[2] : e \in edges}
  <2> SUFFICES ASSUME NEW v \in Elements(fragments)
               PROVE  v \in {e[2] : e \in edges}
    OBVIOUS
  <2>1. PICK u \in visited : <<u, v>> \in edges
    BY <1>2
  <2>2. <<u, v>>[2] = v
    OBVIOUS
  <2> QED BY <2>1, <2>2
<1> QED BY <1>1, <1>2, <1>3 DEF Sources

(* An include that leads to a source on the stack closes a cycle. *)
LEMMA CycleFound ==
  ASSUME IncludeTypeOK, StackInv, FragmentsInv, EdgesInv, NEW s \in active,
         edges' = edges \cup {<<Top.source, s>>}, stack' = stack
  PROVE  Cyclic'
<1> DEFINE t == Top.source
           L == Len(stack)
<1>0. L \in Nat \ {0} /\ DOMAIN stack = 1 .. L /\ t = stack[L].source
  BY TopType
<1>1. PICK j \in 1 .. L : s = stack[j].source
  BY <1>0 DEF StackInv
<1>2. \A k \in 1 .. L - 1 : <<stack[k].source, stack[k + 1].source>> \in edges
  BY DEF EdgesInv
<1>3. \A k \in 1 .. L : stack[k].source \in Sources
  <2>1. \A k \in 1 .. L : stack[k].source \in visited
    BY <1>0 DEF StackInv
  <2> QED BY <2>1, SourcesAreVisited
<1>4. Sources \subseteq Sources'
  BY DEF Sources, Root
<1>5. <<t, s>> \in edges' /\ edges \subseteq edges'
  OBVIOUS
<1> HIDE DEF t, L
<1> DEFINE S == {stack[k].source : k \in j .. L}
<1>6. j .. L \subseteq 1 .. L /\ L \in j .. L /\ j \in j .. L
      /\ \A k \in j .. L : k = L \/ (k \in 1 .. L - 1 /\ k + 1 \in j .. L)
  BY <1>0, <1>1
<1>7. S \subseteq Sources' /\ S # {}
  BY <1>3, <1>4, <1>6
<1>8. ASSUME NEW u \in S
      PROVE  \E v \in S : <<u, v>> \in edges'
  <2>1. PICK k \in j .. L : u = stack[k].source
    OBVIOUS
  <2>2. CASE k = L
    <3>1. u = t /\ s \in S
      BY <1>0, <1>1, <1>6, <2>1, <2>2
    <3> QED BY <1>5, <3>1
  <2>3. CASE k \in 1 .. L - 1 /\ k + 1 \in j .. L
    <3>1. stack[k + 1].source \in S /\ <<u, stack[k + 1].source>> \in edges
      BY <1>2, <2>1, <2>3
    <3> QED BY <1>5, <3>1
  <2> QED BY <1>6, <2>2, <2>3
<1>9. S \in (SUBSET Sources') \ {{}}
  BY <1>7
<1>10. \A u \in S : \E v \in S : <<u, v>> \in edges'
  BY <1>8
<1> HIDE DEF S
<1> QED BY <1>9, <1>10 DEF Cyclic

LEMMA StopKeeps ==
  ASSUME IncludeTypeOK, BuildInv, NEW s \in SourceFiles, ResolvedShape(s), StopShape(s)
  PROVE  RefusedForCause'
<1>1. /\ stage = "visit"
      /\ StackInv /\ FragmentsInv /\ EdgesInv /\ FollowedInv /\ SumsInv /\ DiskInv
  BY DEF ResolvedShape, BuildInv
<1>2. /\ stack' = stack /\ visited' = visited /\ fragments' = fragments
      /\ edges' = edges \cup {<<Top.source, s>>}
  BY DEF StopShape, ResolvedShape
<1>3. Root' = Root
  BY <1>2 DEF Root
<1>4. Sources' = visited \cup {s}
  <2>1. Sources = visited
    BY <1>1, SourcesAreVisited
  <2>2. {e[2] : e \in edges'} = {e[2] : e \in edges} \cup {s}
    <3>1. \A e : e \in edges' <=> e \in edges \/ e = <<Top.source, s>>
      BY <1>2
    <3>2. <<Top.source, s>>[2] = s
      OBVIOUS
    <3> QED BY <3>1, <3>2
  <2> QED BY <1>3, <2>1, <2>2 DEF Sources
<1>5. CASE refusal' = "INC_CYCLE" /\ s \in active
  <2>1. Cyclic'
    BY <1>1, <1>2, <1>5, CycleFound
  <2> QED BY <1>5, <2>1 DEF RefusedForCause
<1>6. CASE refusal' = "INC_FILE_LIMIT" /\ s \notin visited /\ Len(fragments) >= MaxFiles
  <2>1. Cardinality(Sources' \ {Root'}) > MaxFiles
    <3>1. /\ visited = {Root} \cup Elements(fragments) /\ Root \notin Elements(fragments)
          /\ IsFiniteSet(Elements(fragments)) /\ Cardinality(Elements(fragments)) = Len(fragments)
      BY <1>1 DEF FragmentsInv
    <3>2. Sources' \ {Root'} = Elements(fragments) \cup {s} /\ s \notin Elements(fragments)
      BY <1>3, <1>4, <1>6, <3>1
    <3>3. Cardinality(Elements(fragments) \cup {s}) = Cardinality(Elements(fragments)) + 1
      BY <3>1, <3>2, FS_AddElement, Zenon
    <3>4. Len(fragments) \in Nat /\ MaxFiles \in Nat
      BY IncludeAssumption DEF IncludeTypeOK
    <3>5. Cardinality(Sources' \ {Root'}) = Len(fragments) + 1
      BY <3>1, <3>2, <3>3, Zenon
    <3>6. Len(fragments) + 1 > MaxFiles
      BY <1>6, <3>4
    <3> QED BY <3>5, <3>6
  <2> QED BY <1>6, <2>1 DEF RefusedForCause
<1>7. CASE refusal' = "INC_BUNDLE_SIZE_LIMIT" /\ s \notin visited
             /\ bytes + s.content.size > MaxBytes
  <2>1. SourceBytes(Sources') > MaxBytes
    <3>1. {s.content.size, s.content.limits} \subseteq Nat
      BY ContentType DEF SourceFiles
    <3>2. IsFiniteSet(ByteSet(visited)) /\ IsFiniteSet(Blocks(visited)) /\ bytes = SourceBytes(visited)
      BY <1>1 DEF SumsInv
    <3>3. SourceBytes(visited \cup {s}) = SourceBytes(visited) + s.content.size
      BY <1>7, <3>1, <3>2, SumsAdded, Zenon
    <3> QED BY <1>4, <1>7, <3>2, <3>3, Zenon
  <2>2. SourceBytes(Sources)' = SourceBytes(Sources')
    BY DEF SourceBytes
  <2> QED BY <1>7, <2>1, <2>2 DEF RefusedForCause
<1>8. CASE refusal' = "PARSE"
  <2>1. refusal' \notin Codes
    BY <1>8 DEF Codes, IncludeCodes
  <2> QED BY <2>1, NotRefused
<1> QED BY <1>5, <1>6, <1>7, <1>8 DEF StopShape

----------------------------------------------------------------------------
(* Includes: the composer *)

(* Of the root's declarations of one name only the last one is kept. *)
LEMMA LastOfIs ==
  ASSUME NEW S, NEW q \in Seq(S), NEW key
  PROVE  Functional(LastOf(q, key), key) /\ LastOf(q, key) \subseteq Elements(q)
<1>1. LastOf(q, key) \subseteq Elements(q)
  BY DEF LastOf, Elements
<1>2. ASSUME NEW r \in LastOf(q, key), NEW p \in LastOf(q, key), r[key] = p[key]
      PROVE  r = p
  <2>1. PICK j \in DOMAIN q : r = q[j] /\ \A i \in DOMAIN q : i > j => q[i][key] # q[j][key]
    BY DEF LastOf
  <2>2. PICK k \in DOMAIN q : p = q[k] /\ \A i \in DOMAIN q : i > k => q[i][key] # q[k][key]
    BY DEF LastOf
  <2>3. j \in Nat /\ k \in Nat
    OBVIOUS
  <2>4. ~(k > j) /\ ~(j > k)
    BY <1>2, <2>1, <2>2
  <2>5. j = k
    BY <2>3, <2>4
  <2> QED BY <2>1, <2>2, <2>5
<1> QED BY <1>1, <1>2 DEF Functional

ComposeShape ==
  /\ stage = "visit" /\ Top.next > Len(Top.source.content.includes)
  /\ Len(stack) = 1
  /\ stage' = "compose"
  /\ merged' = [next |-> 1, limits |-> Root.content.limits,
                requires |-> LastOf(Root.content.requires, "tool"),
                contexts |-> LastOf(Root.content.contexts, "name")]
  /\ UNCHANGED <<stack, active, visited, fragments, edges, bytes, disk, edits, refusal>>

LEMMA LeaveCases ==
  ASSUME IncludeTypeOK, BuildInv, Leave
  PROVE  LeaveShape \/ ComposeShape
<1>1. stage = "visit" /\ ~(Top.next <= Len(Top.source.content.includes))
  BY DEF Leave, Return, Declared
<1>2. StackInv
  BY <1>1 DEF BuildInv
<1>3. Len(stack) \in Nat \ {0} /\ Top.next \in Nat /\ Len(Top.source.content.includes) \in Nat
  BY <1>2, TopType
<1>4. Top.next > Len(Top.source.content.includes)
  <2> HIDE DEF Top
  <2> QED BY <1>1, <1>3
<1>5. CASE Len(stack) > 1
  BY <1>1, <1>4, <1>5 DEF Leave, Return, LeaveShape
<1>6. CASE ~(Len(stack) > 1)
  <2>1. \A n \in Nat \ {0} : ~(n > 1) => n = 1
    OBVIOUS
  <2>2. Len(stack) = 1
    BY <1>3, <1>6, <2>1, Zenon
  <2> QED BY <1>1, <1>4, <1>6, <2>2 DEF Leave, Return, ComposeShape
<1> QED BY <1>5, <1>6

LEMMA ComposeStarts ==
  ASSUME IncludeTypeOK, BuildInv, ComposeShape
  PROVE  IncludeTypeOK' /\ BuildInv' /\ MergeInv'
<1>1. /\ stage = "visit" /\ stage' = "compose"
      /\ StackInv /\ FragmentsInv /\ EdgesInv /\ FollowedInv /\ SumsInv /\ DiskInv
  BY DEF ComposeShape, BuildInv
<1>2. UNCHANGED <<stack, active, visited, fragments, edges, bytes, disk, edits, refusal>>
  BY DEF ComposeShape
<1>3. BuildInv'
  BY <1>1, <1>2, BuilderUnchanged DEF BuildInv
<1>4. IncludeTypeOK'
  BY <1>1, <1>2 DEF IncludeTypeOK
<1> DEFINE c == Root.content
<1>5. c \in RootContents /\ c \in Contents
  BY <1>1 DEF StackInv, Contents
<1>6. /\ c.requires \in Seq(Elements(c.requires)) /\ c.contexts \in Seq(Elements(c.contexts))
      /\ {c.size, c.limits} \subseteq Nat /\ c.limits <= 1
  BY <1>5, ContentType, IncludeAssumption
<1>7. /\ merged'.next = 1 /\ merged'.limits = c.limits
      /\ merged'.requires = LastOf(c.requires, "tool")
      /\ merged'.contexts = LastOf(c.contexts, "name")
  BY DEF ComposeShape
<1> HIDE DEF c
<1>8. Root' = Root /\ Top' = Top
  BY <1>2 DEF Root, Top
<1>9. 1 .. merged'.next - 1 = {} /\ Merged' = {Root}
  BY <1>7, <1>8 DEF Merged
<1>10. Len(stack') = 1 /\ Top'.next > Len(Top'.source.content.includes)
  BY <1>2, <1>8 DEF ComposeShape
<1>11. merged'.next \in 1 .. Len(fragments') + 1
  <2>1. Len(fragments) \in Nat /\ fragments' = fragments
    BY <1>2 DEF IncludeTypeOK
  <2> QED BY <1>7, <2>1
<1>12. /\ Functional(merged'.requires, "tool") /\ Functional(merged'.contexts, "name")
       /\ merged'.requires \subseteq Elements(c.requires)
       /\ merged'.contexts \subseteq Elements(c.contexts)
  BY <1>6, <1>7, LastOfIs
<1>13. /\ \A r \in merged'.requires : \E s \in Merged' : r \in Elements(s.content.requires)
       /\ \A f \in merged'.contexts : \E s \in Merged' : f \in Elements(s.content.contexts)
  BY <1>9, <1>12 DEF c
<1>14. merged'.limits = LimitsBlocks(Merged') /\ merged'.limits \in {0, 1}
  <2>1. LimitsBlocks({Root}) = c.limits
    BY <1>6, SumsOfOne DEF c
  <2>2. c.limits \in {0, 1}
    BY <1>6
  <2> QED BY <1>7, <1>9, <2>1, <2>2, Zenon
<1>15. LimitsBlocks(Merged)' = LimitsBlocks(Merged')
  BY DEF LimitsBlocks
<1>16. MergeInv'
  BY <1>1, <1>9, <1>10, <1>11, <1>12, <1>13, <1>14, <1>15 DEF MergeInv, Functional
<1> QED BY <1>3, <1>4, <1>16

(* The fragments are merged one by one, none twice and none left out. *)
LEMMA MergedIs ==
  ASSUME IncludeTypeOK, FragmentsInv, merged.next \in 1 .. Len(fragments) + 1
  PROVE  /\ Merged \subseteq visited
         /\ merged.next <= Len(fragments) =>
              /\ merged.next \in DOMAIN fragments
              /\ fragments[merged.next] \in SourceFiles
              /\ fragments[merged.next] \in visited /\ fragments[merged.next] \notin Merged
         /\ merged.next = Len(fragments) + 1 => Merged = visited
<1> DEFINE n == merged.next
           N == Len(fragments)
<1>0. N \in Nat /\ DOMAIN fragments = 1 .. N /\ fragments \in Seq(SourceFiles) /\ n \in Nat
  BY DEF IncludeTypeOK
<1>1. /\ visited = {Root} \cup Elements(fragments) /\ Root \notin Elements(fragments)
      /\ \A j, k \in DOMAIN fragments : fragments[j] = fragments[k] => j = k
  BY DEF FragmentsInv
<1>2. Merged = {Root} \cup {fragments[i] : i \in 1 .. n - 1} /\ n \in 1 .. N + 1
  BY DEF Merged
<1> HIDE DEF n, N
<1>3. \A i \in 1 .. n - 1 : i \in DOMAIN fragments /\ i # n
  BY <1>0, <1>2
<1>4. Merged \subseteq visited
  BY <1>1, <1>2, <1>3 DEF Elements
<1>5. ASSUME n <= N
      PROVE  /\ n \in DOMAIN fragments /\ fragments[n] \in SourceFiles
             /\ fragments[n] \in visited /\ fragments[n] \notin Merged
  <2>1. n \in DOMAIN fragments
    BY <1>0, <1>2, <1>5
  <2>2. fragments[n] \in Elements(fragments) /\ fragments[n] \in SourceFiles
    BY <1>0, <2>1 DEF Elements
  <2>3. fragments[n] \notin Merged
    BY <1>1, <1>2, <1>3, <2>1, <2>2
  <2> QED BY <1>1, <2>1, <2>2, <2>3
<1>6. ASSUME n = N + 1
      PROVE  Merged = visited
  <2>1. 1 .. n - 1 = DOMAIN fragments
    BY <1>0, <1>6
  <2> QED BY <1>1, <1>2, <2>1 DEF Elements
<1> QED BY <1>4, <1>5, <1>6 DEF n, N

(* What is known in every turn of the composer's loop. *)
LEMMA ComposeFacts ==
  ASSUME IncludeInv, stage = "compose"
  PROVE  /\ StackInv /\ FragmentsInv /\ EdgesInv /\ FollowedInv /\ SumsInv /\ DiskInv
         /\ IncludeTypeOK /\ MergeInv /\ merged.next \in 1 .. Len(fragments) + 1
         /\ Sources = visited /\ Merged \subseteq visited /\ refusal = Absent
         /\ IsFiniteSet(Blocks(visited)) /\ IsFiniteSet(Blocks(Merged))
         /\ merged.limits = LimitsBlocks(Merged) /\ merged.limits \in {0, 1}
<1>1. /\ StackInv /\ FragmentsInv /\ EdgesInv /\ FollowedInv /\ SumsInv /\ DiskInv
      /\ IncludeTypeOK /\ MergeInv
  BY DEF IncludeInv, BuildInv
<1>2. /\ merged.next \in 1 .. Len(fragments) + 1
      /\ merged.limits = LimitsBlocks(Merged) /\ merged.limits \in {0, 1}
  BY <1>1 DEF MergeInv
<1>3. Sources = visited /\ Merged \subseteq visited /\ refusal = Absent
  BY <1>1, <1>2, SourcesAreVisited, MergedIs DEF IncludeTypeOK
<1>4. IsFiniteSet(Blocks(visited))
  BY <1>1 DEF SumsInv
<1>5. IsFiniteSet(Blocks(Merged))
  BY <1>3, <1>4, SumsGrow, Zenon
<1> QED BY <1>1, <1>2, <1>3, <1>4, <1>5

(* The limits blocks of the merged sources and of the next fragment. *)
LEMMA LimitsMerged ==
  ASSUME IncludeInv, stage = "compose", merged.next <= Len(fragments)
  PROVE  LET t == fragments[merged.next] IN
           /\ t.content.limits \in Nat
           /\ LimitsBlocks(Merged \cup {t}) = merged.limits + t.content.limits
           /\ LimitsBlocks(Merged \cup {t}) <= LimitsBlocks(Sources)
           /\ LimitsBlocks(Sources) \in Nat
<1> DEFINE t == fragments[merged.next]
<1>1. /\ Sources = visited /\ Merged \subseteq visited
      /\ IsFiniteSet(Blocks(visited)) /\ IsFiniteSet(Blocks(Merged))
      /\ merged.limits = LimitsBlocks(Merged)
  BY ComposeFacts
<1>2. t \in SourceFiles /\ t \in visited /\ t \notin Merged
  BY ComposeFacts, MergedIs
<1> HIDE DEF t
<1>3. {t.content.size, t.content.limits} \subseteq Nat
  BY <1>2, ContentType DEF SourceFiles
<1>4. IsFiniteSet(ByteSet(Merged))
  <2>1. IsFiniteSet(ByteSet(visited))
    BY ComposeFacts DEF SumsInv
  <2>2. ByteSet(Merged) \in SUBSET ByteSet(visited)
    BY <1>1 DEF ByteSet
  <2> QED BY <2>1, <2>2, FS_Subset
<1>5. LimitsBlocks(Merged \cup {t}) = LimitsBlocks(Merged) + t.content.limits
  BY <1>1, <1>2, <1>3, <1>4, SumsAdded, Zenon
<1>6. Merged \cup {t} \subseteq visited
  BY <1>1, <1>2
<1>7. LimitsBlocks(Merged \cup {t}) <= LimitsBlocks(visited) /\ LimitsBlocks(visited) \in Nat
  BY <1>1, <1>6, SumsGrow, Zenon
<1>8. /\ t.content.limits \in Nat
      /\ LimitsBlocks(Merged \cup {t}) = merged.limits + t.content.limits
      /\ LimitsBlocks(Merged \cup {t}) <= LimitsBlocks(Sources)
      /\ LimitsBlocks(Sources) \in Nat
  <2>1. t.content.limits \in Nat
    BY <1>3
  <2> QED BY <1>1, <1>5, <1>7, <2>1, Zenon
<1> QED BY <1>8 DEF t

(* A refusal leaves the sources as they are. *)
LEMMA RefusedSources ==
  ASSUME NEW code, Refuse(code)
  PROVE  /\ stage' = "refused" /\ refusal' = code /\ Sources' = Sources
         /\ LimitsBlocks(Sources)' = LimitsBlocks(Sources)
<1>1. stage' = "refused" /\ refusal' = code /\ Sources' = Sources
  BY DEF Refuse, Sources, Root
<1> QED BY <1>1 DEF LimitsBlocks

LEMMA ToolConflict ==
  ASSUME IncludeInv, stage = "compose", merged.next <= Len(fragments),
         ~Functional(merged.requires \cup Elements(fragments[merged.next].content.requires), "tool")
  PROVE  ~Functional(UNION {Elements(s.content.requires) : s \in Sources}, "tool")
<1> DEFINE t == fragments[merged.next]
           R == merged.requires \cup Elements(t.content.requires)
           All == UNION {Elements(s.content.requires) : s \in Sources}
<1>1. Sources = visited /\ Merged \subseteq visited /\ t \in visited
  BY ComposeFacts, MergedIs
<1>2. \A r \in merged.requires : \E s \in Merged : r \in Elements(s.content.requires)
  BY DEF IncludeInv, MergeInv
<1>3. R \subseteq All
  BY <1>1, <1>2
<1>4. ~Functional(R, "tool")
  OBVIOUS
<1> HIDE DEF R, All
<1>5. ~Functional(All, "tool")
  BY <1>3, <1>4 DEF Functional
<1> QED BY <1>5 DEF All

LEMMA ContextConflict ==
  ASSUME IncludeInv, stage = "compose", merged.next <= Len(fragments),
         LET c == fragments[merged.next].content IN
           \E k \in DOMAIN c.contexts :
             c.contexts[k].name \in {f.name : f \in merged.contexts}
                                      \cup {c.contexts[j].name : j \in 1 .. k - 1}
  PROVE  \E s, t \in Sources : \E j \in DOMAIN s.content.contexts, k \in DOMAIN t.content.contexts :
           <<s, j>> # <<t, k>> /\ s.content.contexts[j].name = t.content.contexts[k].name
<1> DEFINE t == fragments[merged.next]
           c == t.content
<1>1. /\ Sources = visited /\ Merged \subseteq visited /\ t \in visited /\ t \in SourceFiles
      /\ t \notin Merged
  BY ComposeFacts, MergedIs
<1>2. \A f \in merged.contexts : \E s \in Merged : f \in Elements(s.content.contexts)
  BY DEF IncludeInv, MergeInv
<1>3. PICK k \in DOMAIN c.contexts :
        c.contexts[k].name \in {f.name : f \in merged.contexts}
                                 \cup {c.contexts[j].name : j \in 1 .. k - 1}
  OBVIOUS
<1>4. DOMAIN c.contexts = 1 .. Len(c.contexts) /\ Len(c.contexts) \in Nat
  BY <1>1, ContentType DEF SourceFiles
<1> HIDE DEF t
<1>5. CASE c.contexts[k].name \in {f.name : f \in merged.contexts}
  <2>1. PICK f \in merged.contexts : f.name = c.contexts[k].name
    BY <1>5
  <2>2. PICK s \in Merged : f \in Elements(s.content.contexts)
    BY <1>2
  <2>3. PICK j \in DOMAIN s.content.contexts : f = s.content.contexts[j]
    BY <2>2 DEF Elements
  <2>4. s # t /\ s \in Sources /\ t \in Sources
    BY <1>1, <2>2
  <2>5. <<s, j>> # <<t, k>> /\ s.content.contexts[j].name = t.content.contexts[k].name
    BY <2>1, <2>3, <2>4
  <2> QED BY <1>3, <2>3, <2>4, <2>5
<1>6. CASE c.contexts[k].name \in {c.contexts[j].name : j \in 1 .. k - 1}
  <2>1. PICK j \in 1 .. k - 1 : c.contexts[k].name = c.contexts[j].name
    BY <1>6
  <2>2. j \in DOMAIN c.contexts /\ j # k
    <3>1. \A n \in Nat : \A l \in 1 .. n : \A i \in 1 .. l - 1 : i \in 1 .. n /\ i # l
      OBVIOUS
    <3> QED BY <1>3, <1>4, <2>1, <3>1, Zenon
  <2>3. t \in Sources /\ <<t, j>> # <<t, k>>
    BY <1>1, <2>2
  <2> QED BY <1>3, <2>1, <2>2, <2>3
<1> QED BY <1>3, <1>5, <1>6

(* The contexts of the next fragment, when none of their names is taken. *)
LEMMA ContextsMerged ==
  ASSUME NEW M, NEW S, NEW q \in Seq(S), Functional(M, "name"),
         ~\E k \in DOMAIN q : q[k].name \in {f.name : f \in M} \cup {q[j].name : j \in 1 .. k - 1}
  PROVE  Functional(M \cup Elements(q), "name")
<1>1. \A f : f["name"] = f.name
  OBVIOUS
<1>2. \A f, g \in M : f.name = g.name => f = g
  BY <1>1 DEF Functional
<1>3. \A f \in M : \A g \in Elements(q) : f.name # g.name
  BY DEF Elements
<1>4. \A f, g \in Elements(q) : f.name = g.name => f = g
  <2> SUFFICES ASSUME NEW j \in DOMAIN q, NEW k \in DOMAIN q, q[j].name = q[k].name
               PROVE  j = k
    BY DEF Elements
  <2>1. j \in Nat \ {0} /\ k \in Nat \ {0}
    OBVIOUS
  <2>2. ~(j < k) /\ ~(k < j)
    <3>1. j \notin 1 .. k - 1
      OBVIOUS
    <3>2. k \notin 1 .. j - 1
      OBVIOUS
    <3> QED BY <2>1, <3>1, <3>2
  <2> QED BY <2>1, <2>2
<1>5. \A f, g \in M \cup Elements(q) : f.name = g.name => f = g
  BY <1>2, <1>3, <1>4
<1> QED BY <1>1, <1>5 DEF Functional

MergeShape ==
  LET c == fragments[merged.next].content
  IN /\ stage = "compose" /\ merged.next <= Len(fragments)
     /\ Functional(merged.requires \cup Elements(c.requires), "tool")
     /\ ~\E k \in DOMAIN c.contexts :
           c.contexts[k].name \in {f.name : f \in merged.contexts}
                                    \cup {c.contexts[j].name : j \in 1 .. k - 1}
     /\ ~(c.limits > 0 /\ (merged.limits > 0 \/ c.limits > 1))
     /\ merged' = [next |-> merged.next + 1, limits |-> merged.limits + c.limits,
                   requires |-> merged.requires \cup Elements(c.requires),
                   contexts |-> merged.contexts \cup Elements(c.contexts)]
     /\ UNCHANGED <<stage, stack, visited, active, fragments, edges, bytes, disk, edits, refusal>>

LEMMA MergeKeeps ==
  ASSUME IncludeInv, MergeShape
  PROVE  MergeInv'
<1> DEFINE t == fragments[merged.next]
           c == t.content
           n == merged.next
<1>1. /\ stage = "compose" /\ n <= Len(fragments)
      /\ UNCHANGED <<stage, stack, visited, active, fragments, edges, bytes, disk, edits, refusal>>
  BY DEF MergeShape
<1>2. /\ merged'.next = n + 1 /\ merged'.limits = merged.limits + c.limits
      /\ merged'.requires = merged.requires \cup Elements(c.requires)
      /\ merged'.contexts = merged.contexts \cup Elements(c.contexts)
  BY DEF MergeShape
<1>3. /\ Len(stack) = 1 /\ Top.next > Len(Top.source.content.includes)
      /\ n \in 1 .. Len(fragments) + 1
      /\ Functional(merged.contexts, "name")
      /\ \A i \in 1 .. n - 1 :
           /\ Elements(fragments[i].content.requires) \subseteq merged.requires
           /\ Elements(fragments[i].content.contexts) \subseteq merged.contexts
      /\ \A r \in merged.requires : \E s \in Merged : r \in Elements(s.content.requires)
      /\ \A f \in merged.contexts : \E s \in Merged : f \in Elements(s.content.contexts)
      /\ merged.limits \in {0, 1}
  BY <1>1 DEF IncludeInv, MergeInv
<1>4. t \in SourceFiles /\ n \in DOMAIN fragments /\ Len(fragments) \in Nat /\ n \in Nat
  BY <1>1, <1>3, ComposeFacts, MergedIs DEF IncludeTypeOK
<1>5. c.contexts \in Seq(Elements(c.contexts))
  BY <1>4, ContentType DEF SourceFiles
<1>6. /\ c.limits \in Nat /\ LimitsBlocks(Merged \cup {t}) = merged.limits + c.limits
  BY <1>1, LimitsMerged
<1>7. Functional(merged'.requires, "tool")
  BY <1>2 DEF MergeShape
<1>8. Functional(merged'.contexts, "name")
  <2>1. ~\E k \in DOMAIN c.contexts :
           c.contexts[k].name \in {f.name : f \in merged.contexts}
                                    \cup {c.contexts[j].name : j \in 1 .. k - 1}
    BY DEF MergeShape
  <2> HIDE DEF c
  <2>2. Functional(merged.contexts \cup Elements(c.contexts), "name")
    BY <1>3, <1>5, <2>1, ContextsMerged
  <2> QED BY <1>2, <2>2, Zenon
<1>9. ~(c.limits > 0 /\ (merged.limits > 0 \/ c.limits > 1))
  BY DEF MergeShape
<1>10. Root' = Root /\ Top' = Top /\ fragments' = fragments /\ stage' = "compose"
  BY <1>1 DEF Root, Top
<1>11. Merged' = Merged \cup {t}
  <2>1. \A m \in Nat \ {0} : \A i : i \in 1 .. (m + 1) - 1 <=> i \in 1 .. m - 1 \/ i = m
    OBVIOUS
  <2>2. n \in Nat \ {0}
    BY <1>3, <1>4
  <2>3. \A i : i \in 1 .. merged'.next - 1 <=> i \in 1 .. n - 1 \/ i = n
    BY <1>2, <2>1, <2>2, Zenon
  <2>4. {fragments[i] : i \in 1 .. merged'.next - 1} = {fragments[i] : i \in 1 .. n - 1} \cup {t}
    BY <2>3
  <2> QED BY <1>10, <2>4 DEF Merged
<1> HIDE DEF t, n
<1>12. merged'.limits \in {0, 1}
  <2> HIDE DEF c
  <2> QED BY <1>2, <1>3, <1>6, <1>9
<1>13. merged'.limits = LimitsBlocks(Merged') /\ LimitsBlocks(Merged') = LimitsBlocks(Merged)'
  <2>1. LimitsBlocks(Merged') = LimitsBlocks(Merged)'
    BY DEF LimitsBlocks
  <2> QED BY <1>2, <1>6, <1>11, <2>1, Zenon
<1>14. merged'.next \in 1 .. Len(fragments') + 1
  BY <1>1, <1>2, <1>3, <1>4, <1>10
<1>15. \A i \in 1 .. merged'.next - 1 :
         /\ Elements(fragments'[i].content.requires) \subseteq merged'.requires
         /\ Elements(fragments'[i].content.contexts) \subseteq merged'.contexts
  <2>1. \A i \in 1 .. merged'.next - 1 : i = n \/ i \in 1 .. n - 1
    BY <1>2, <1>4
  <2>2. fragments[n].content = c
    BY DEF t, n
  <2> HIDE DEF c
  <2> QED BY <1>2, <1>3, <1>10, <2>1, <2>2
<1>16. \A r \in merged'.requires : \E s \in Merged' : r \in Elements(s.content.requires)
  BY <1>2, <1>3, <1>11
<1>17. \A f \in merged'.contexts : \E s \in Merged' : f \in Elements(s.content.contexts)
  BY <1>2, <1>3, <1>11
<1>18. Len(stack') = 1 /\ Top'.next > Len(Top'.source.content.includes)
  BY <1>1, <1>3, <1>10
<1> QED BY <1>7, <1>8, <1>10, <1>12, <1>13, <1>14, <1>15, <1>16, <1>17, <1>18
        DEF MergeInv, Functional

(* A refusal ends the build. *)
LEMMA RefusedStays ==
  ASSUME IncludeTypeOK, NEW code, Refuse(code), edits' \in Nat
  PROVE  IncludeTypeOK' /\ BuildInv' /\ MergeInv' /\ refusal' = code
<1>1. stage' = "refused" /\ refusal' = code
  BY DEF Refuse
<1>2. IncludeTypeOK'
  BY <1>1 DEF IncludeTypeOK, Refuse
<1> QED BY <1>1, <1>2 DEF BuildInv, MergeInv

LEMMA ComposeFragmentKeeps ==
  ASSUME IncludeInv, ComposeFragment
  PROVE  IncludeInv'
<1> DEFINE c == fragments[merged.next].content
           R == merged.requires \cup Elements(c.requires)
           Taken == \E k \in DOMAIN c.contexts :
                      c.contexts[k].name \in {f.name : f \in merged.contexts}
                                               \cup {c.contexts[j].name : j \in 1 .. k - 1}
           Several == c.limits > 0 /\ (merged.limits > 0 \/ c.limits > 1)
<1>0. /\ stage = "compose" /\ merged.next <= Len(fragments) /\ UNCHANGED <<disk, edits>>
      /\ IncludeTypeOK /\ edits' \in Nat
  BY DEF ComposeFragment, IncludeInv, IncludeTypeOK
<1>1. CASE ~Functional(R, "tool")
  <2>1. Refuse("INC_TOOL_VERSION_CONFLICT")
    BY <1>1 DEF ComposeFragment
  <2>2. ~Functional(UNION {Elements(s.content.requires) : s \in Sources}, "tool")
    BY <1>0, <1>1, ToolConflict
  <2>3. refusal' = "INC_TOOL_VERSION_CONFLICT" /\ Sources' = Sources
    BY <2>1, RefusedSources
  <2>4. RefusedForCause'
    BY <2>2, <2>3 DEF RefusedForCause, Functional
  <2> QED BY <1>0, <2>1, <2>4, RefusedStays DEF IncludeInv
<1>2. CASE Functional(R, "tool") /\ Taken
  <2>1. Refuse("INC_DUPLICATE_CONTEXT")
    BY <1>2 DEF ComposeFragment
  <2>2. \E s, t \in Sources : \E j \in DOMAIN s.content.contexts, k \in DOMAIN t.content.contexts :
          <<s, j>> # <<t, k>> /\ s.content.contexts[j].name = t.content.contexts[k].name
    BY <1>0, <1>2, ContextConflict
  <2>3. refusal' = "INC_DUPLICATE_CONTEXT" /\ Sources' = Sources
    BY <2>1, RefusedSources
  <2>4. RefusedForCause'
    BY <2>2, <2>3 DEF RefusedForCause
  <2> QED BY <1>0, <2>1, <2>4, RefusedStays DEF IncludeInv
<1>3. CASE Functional(R, "tool") /\ ~Taken /\ Several
  <2>1. Refuse("INC_DUPLICATE_LIMIT")
    BY <1>3 DEF ComposeFragment
  <2>2. LimitsBlocks(Sources) > 1
    <3>1. /\ c.limits \in Nat /\ LimitsBlocks(Sources) \in Nat
          /\ merged.limits + c.limits <= LimitsBlocks(Sources)
      BY <1>0, LimitsMerged
    <3>2. merged.limits \in {0, 1}
      BY <1>0, ComposeFacts
    <3>3. c.limits > 0 /\ (merged.limits > 0 \/ c.limits > 1)
      BY <1>3
    <3> HIDE DEF c
    <3> QED BY <3>1, <3>2, <3>3
  <2>3. refusal' = "INC_DUPLICATE_LIMIT" /\ LimitsBlocks(Sources)' = LimitsBlocks(Sources)
    BY <2>1, RefusedSources
  <2>4. RefusedForCause'
    BY <2>2, <2>3 DEF RefusedForCause
  <2> QED BY <1>0, <2>1, <2>4, RefusedStays DEF IncludeInv
<1>4. CASE Functional(R, "tool") /\ ~Taken /\ ~Several
  <2>1. MergeShape
    BY <1>0, <1>4 DEF ComposeFragment, MergeShape
  <2>2. MergeInv'
    BY <2>1, MergeKeeps
  <2>3. UNCHANGED <<stage, stack, visited, active, fragments, edges, bytes, disk, edits, refusal>>
    BY <2>1 DEF MergeShape
  <2>4. BuildInv'
    BY <1>0, <2>3, ComposeFacts, BuilderUnchanged DEF BuildInv
  <2>5. IncludeTypeOK'
    BY <1>0, <2>3 DEF IncludeTypeOK
  <2>6. RefusedForCause'
    <3>1. refusal' \notin Codes
      BY <1>0, <2>3, ComposeFacts, NoneIsNoCode
    <3> QED BY <3>1, NotRefused
  <2> QED BY <2>2, <2>4, <2>5, <2>6 DEF IncludeInv
<1> HIDE DEF Taken, Several, R
<1> QED BY <1>1, <1>2, <1>3, <1>4

LEMMA FinishComposeKeeps ==
  ASSUME IncludeInv, FinishCompose
  PROVE  IncludeInv'
<1>0. /\ stage = "compose" /\ merged.next > Len(fragments) /\ UNCHANGED <<disk, edits>>
      /\ IncludeTypeOK /\ edits' \in Nat
  BY DEF FinishCompose, IncludeInv, IncludeTypeOK
<1>1. /\ merged.next \in 1 .. Len(fragments) + 1 /\ Len(fragments) \in Nat
      /\ FragmentsInv /\ Sources = visited
      /\ merged.limits = LimitsBlocks(Merged) /\ merged.limits \in {0, 1}
  BY <1>0, ComposeFacts DEF IncludeTypeOK
<1>2. merged.next = Len(fragments) + 1
  BY <1>0, <1>1
<1>3. Merged = Sources
  BY <1>0, <1>1, <1>2, MergedIs
<1>4. CASE merged.limits = 0
  <2>1. Refuse("INC_REQUIRED_LIMITS_MISSING")
    BY <1>4 DEF FinishCompose
  <2>2. LimitsBlocks(Sources) = 0
    BY <1>1, <1>3, <1>4
  <2>3. /\ refusal' = "INC_REQUIRED_LIMITS_MISSING"
        /\ LimitsBlocks(Sources)' = LimitsBlocks(Sources)
    BY <2>1, RefusedSources
  <2>4. RefusedForCause'
    BY <2>2, <2>3 DEF RefusedForCause
  <2> QED BY <1>0, <2>1, <2>4, RefusedStays DEF IncludeInv
<1>5. CASE merged.limits # 0
  <2>1. /\ stage' = "composed"
        /\ UNCHANGED <<stack, visited, active, fragments, edges, bytes, merged, refusal>>
    BY <1>5 DEF FinishCompose
  <2>2. BuildInv'
    BY <1>0, <2>1, ComposeFacts, BuilderUnchanged DEF BuildInv
  <2>3. IncludeTypeOK'
    BY <1>0, <2>1 DEF IncludeTypeOK
  <2>4. RefusedForCause'
    <3>1. refusal' \notin Codes
      BY <1>0, <2>1, ComposeFacts, NoneIsNoCode
    <3> QED BY <3>1, NotRefused
  <2>5. MergeInv'
    <3>1. Root' = Root /\ Top' = Top /\ Merged' = Merged
      BY <2>1 DEF Root, Top, Merged
    <3>2. merged' = merged /\ fragments' = fragments /\ stack' = stack /\ stage' = "composed"
      BY <2>1
    <3>3. merged'.limits = 1
      BY <1>1, <1>5, <3>2
    <3>4. LimitsBlocks(Merged)' = LimitsBlocks(Merged)
      BY <3>1 DEF LimitsBlocks
    <3>5. MergeInv
      BY DEF IncludeInv
    <3> QED BY <1>0, <1>2, <3>1, <3>2, <3>3, <3>4, <3>5 DEF MergeInv, Functional
  <2> QED BY <2>2, <2>3, <2>4, <2>5 DEF IncludeInv
<1> QED BY <1>4, <1>5

----------------------------------------------------------------------------
(* Includes: every step keeps the invariant *)

LEMMA ReadRootStep ==
  ASSUME IncludeInv, NEW c \in RootContents, ReadRoot(c)
  PROVE  IncludeInv'
<1>0. /\ stage = "root" /\ stack = << >> /\ refusal = Absent /\ IncludeTypeOK /\ BuildInv
      /\ edits' \in Nat
  BY DEF ReadRoot, IncludeInv, BuildInv, IncludeTypeOK
<1>1. CASE c.size > MaxBytes
  <2>1. Refuse("INC_BUNDLE_SIZE_LIMIT")
    BY <1>1 DEF ReadRoot
  <2>2. refusal' = "INC_BUNDLE_SIZE_LIMIT" /\ stack' = << >>
    BY <1>0, <2>1 DEF Refuse
  <2>3. RefusedForCause'
    BY <2>2 DEF RefusedForCause
  <2> QED BY <1>0, <2>1, <2>3, RefusedStays DEF IncludeInv
<1>2. CASE ~(c.size > MaxBytes) /\ ~c.parses
  <2>1. Refuse("PARSE")
    BY <1>2 DEF ReadRoot
  <2>2. refusal' \notin Codes
    BY <1>0, <2>1, RefusedStays DEF Codes, IncludeCodes
  <2> QED BY <1>0, <2>1, <2>2, RefusedStays, NotRefused DEF IncludeInv
<1>3. CASE ~(c.size > MaxBytes) /\ c.parses
  <2>1. stage' = "visit"
    BY <1>3 DEF ReadRoot
  <2>2. BuildInv' /\ IncludeTypeOK' /\ refusal' = Absent
    BY <1>0, <2>1, ReadRootKeeps
  <2>3. RefusedForCause'
    BY <2>2, NoneIsNoCode, NotRefused
  <2> QED BY <2>1, <2>2, <2>3 DEF IncludeInv, MergeInv
<1> QED BY <1>1, <1>2, <1>3

LEMMA RefusePathStep ==
  ASSUME IncludeInv, RefusePath
  PROVE  IncludeInv'
<1>0. /\ stage = "visit" /\ IncludeTypeOK /\ StackInv /\ edits' \in Nat
  BY DEF RefusePath, Declared, IncludeInv, BuildInv, IncludeTypeOK
<1>1. CASE Len(stack) > MaxDepth
  <2>1. Refuse("INC_DEPTH_LIMIT")
    BY <1>1 DEF RefusePath
  <2>2. refusal' = "INC_DEPTH_LIMIT" /\ stack' = stack
    BY <2>1 DEF Refuse
  <2>3. Cardinality({stack[k].source : k \in DOMAIN stack}) = Len(stack) /\ Len(stack) <= MaxDepth + 1
    BY <1>0 DEF StackInv
  <2>4. Len(stack) = MaxDepth + 1
    BY <1>0, <1>1, <2>3, IncludeAssumption DEF IncludeTypeOK
  <2>5. Cardinality({stack'[k].source : k \in DOMAIN stack'}) = MaxDepth + 1
    BY <2>2, <2>3, <2>4
  <2>6. RefusedForCause'
    BY <2>2, <2>5 DEF RefusedForCause
  <2> QED BY <1>0, <2>1, <2>6, RefusedStays DEF IncludeInv
<1>2. CASE ~(Len(stack) > MaxDepth)
  <2>1. Refuse("INC_PATH_OUTSIDE_ROOT")
    BY <1>2 DEF RefusePath
  <2>2. refusal' \notin Codes
    BY <1>0, <2>1, RefusedStays DEF Codes
  <2> QED BY <1>0, <2>1, <2>2, RefusedStays, NotRefused DEF IncludeInv
<1> QED BY <1>1, <1>2

(* The refusals that speak of a file and not of the bundle. *)
LEMMA ResolverFailsStep ==
  ASSUME IncludeInv, NEW c, NEW code, Resolves(c), Refuse(code), code \notin Codes
  PROVE  IncludeInv'
<1>1. IncludeTypeOK /\ edits' \in Nat
  BY DEF IncludeInv, IncludeTypeOK, Resolves
<1>2. IncludeTypeOK' /\ BuildInv' /\ MergeInv' /\ refusal' \notin Codes
  BY <1>1, RefusedStays
<1> QED BY <1>2, NotRefused DEF IncludeInv

LEMMA IncludeStep ==
  ASSUME IncludeInv, NEW c \in Contents, Include(c)
  PROVE  IncludeInv'
<1>0. IncludeTypeOK /\ BuildInv
  BY DEF IncludeInv
<1>1. PICK s \in SourceFiles :
        ResolvedShape(s) /\ (VisitShape(s) \/ ContinueShape(s) \/ StopShape(s))
  BY <1>0, IncludeShape
<1>2. stage = "visit" /\ refusal = Absent
  BY <1>0, <1>1 DEF ResolvedShape, IncludeTypeOK
<1>3. CASE VisitShape(s) \/ ContinueShape(s)
  <2>1. BuildInv' /\ IncludeTypeOK'
    BY <1>0, <1>1, <1>3, VisitKeeps, ContinueKeeps
  <2>2. stage' = "visit" /\ refusal' = Absent
    BY <1>2, <1>3 DEF VisitShape, ContinueShape
  <2>3. RefusedForCause'
    BY <2>2, NoneIsNoCode, NotRefused
  <2> QED BY <2>1, <2>2, <2>3 DEF IncludeInv, MergeInv
<1>4. CASE StopShape(s)
  <2>1. RefusedForCause'
    BY <1>0, <1>1, <1>4, StopKeeps
  <2>2. stage' = "refused" /\ UNCHANGED <<stack, visited, active, fragments, bytes>>
    BY <1>4 DEF StopShape
  <2>3. edges' = edges \cup {<<Top.source, s>>} /\ edits' \in Nat
    BY <1>1 DEF ResolvedShape
  <2>4. edges' \subseteq SourceFiles \X SourceFiles
    <3>1. edges \subseteq SourceFiles \X SourceFiles /\ Top.source \in SourceFiles
      BY <1>0, <1>2, TopType DEF IncludeTypeOK, BuildInv
    <3> HIDE DEF Top
    <3> QED BY <2>3, <3>1
  <2>5. IncludeTypeOK'
    BY <1>0, <2>2, <2>3, <2>4 DEF IncludeTypeOK
  <2> QED BY <2>1, <2>2, <2>5 DEF IncludeInv, BuildInv, MergeInv
<1> QED BY <1>1, <1>3, <1>4

LEMMA LeaveStep ==
  ASSUME IncludeInv, Leave
  PROVE  IncludeInv'
<1>0. IncludeTypeOK /\ BuildInv
  BY DEF IncludeInv
<1>1. LeaveShape \/ ComposeShape
  BY <1>0, LeaveCases
<1>2. refusal' = Absent
  BY <1>0, <1>1 DEF LeaveShape, ComposeShape, IncludeTypeOK
<1>3. RefusedForCause'
  BY <1>2, NoneIsNoCode, NotRefused
<1>4. CASE LeaveShape
  <2>1. BuildInv' /\ IncludeTypeOK'
    BY <1>0, <1>4, LeaveKeeps
  <2>2. stage' = "visit"
    BY <1>4 DEF LeaveShape
  <2> QED BY <1>3, <2>1, <2>2 DEF IncludeInv, MergeInv
<1>5. CASE ComposeShape
  BY <1>0, <1>3, <1>5, ComposeStarts DEF IncludeInv
<1> QED BY <1>1, <1>4, <1>5

LEMMA IncludeStutter ==
  ASSUME IncludeInv, UNCHANGED includeVars
  PROVE  IncludeInv'
<1>1. /\ stage' = stage /\ stack' = stack /\ visited' = visited /\ active' = active
      /\ fragments' = fragments /\ edges' = edges /\ bytes' = bytes /\ disk' = disk
      /\ edits' = edits /\ merged' = merged /\ refusal' = refusal
  BY DEF includeVars
<1>2. IncludeTypeOK'
  BY <1>1 DEF IncludeInv, IncludeTypeOK
<1>3. BuildInv'
  BY <1>1, BuilderUnchanged DEF IncludeInv, BuildInv
<1>4. Root' = Root /\ Top' = Top /\ Merged' = Merged /\ Sources' = Sources /\ Cyclic' = Cyclic
  BY <1>1 DEF Root, Top, Merged, Sources, Cyclic
<1>5. \A S : LimitsBlocks(S)' = LimitsBlocks(S) /\ SourceBytes(S)' = SourceBytes(S)
  BY DEF LimitsBlocks, SourceBytes
<1>6. MergeInv'
  BY <1>1, <1>4, <1>5 DEF IncludeInv, MergeInv, Functional
<1>7. RefusedForCause'
  BY <1>1, <1>4, <1>5, Zenon DEF IncludeInv, RefusedForCause, Functional
<1> QED BY <1>2, <1>3, <1>6, <1>7 DEF IncludeInv

LEMMA IncludeNextKeeps == IncludeInv /\ [IncludeNext]_includeVars => IncludeInv'
<1> SUFFICES ASSUME IncludeInv, [IncludeNext]_includeVars
             PROVE  IncludeInv'
  OBVIOUS
<1>1. ASSUME NEW c \in RootContents, ReadRoot(c)
      PROVE  IncludeInv'
  BY <1>1, ReadRootStep
<1>2. CASE RefusePath
  BY <1>2, RefusePathStep
<1>3. CASE ResolveFails
  <2>1. "INC_RESOLUTION_FAILED" \notin Codes
    BY DEF Codes
  <2> QED BY <1>3, <2>1, ResolverFailsStep DEF ResolveFails
<1>4. ASSUME NEW c \in Contents, DecodeFails(c)
      PROVE  IncludeInv'
  <2>1. "ValueError" \notin Codes
    BY DEF Codes, IncludeCodes
  <2> QED BY <1>4, <2>1, ResolverFailsStep DEF DecodeFails
<1>5. ASSUME NEW c \in Contents, ResolverStrays(c)
      PROVE  IncludeInv'
  <2>1. "INC_PATH_OUTSIDE_ROOT" \notin Codes
    BY DEF Codes
  <2> QED BY <1>5, <2>1, ResolverFailsStep DEF ResolverStrays
<1>6. ASSUME NEW c \in Contents, Include(c)
      PROVE  IncludeInv'
  BY <1>6, IncludeStep
<1>7. CASE Leave
  BY <1>7, LeaveStep
<1>8. CASE ComposeFragment
  BY <1>8, ComposeFragmentKeeps
<1>9. CASE FinishCompose
  BY <1>9, FinishComposeKeeps
<1>10. CASE UNCHANGED includeVars
  BY <1>10, IncludeStutter
<1> QED BY <1>1, <1>2, <1>3, <1>4, <1>5, <1>6, <1>7, <1>8, <1>9, <1>10 DEF IncludeNext

LEMMA IncludeInvariant == IncludeSpec => []IncludeInv
BY IncludeInvInit, IncludeNextKeeps, PTL DEF IncludeSpec

----------------------------------------------------------------------------
(* Includes: the theorems *)

LEMMA ComposedIsClosure ==
  ASSUME IncludeInv
  PROVE  BundleIsClosure
<1> SUFFICES ASSUME stage = "composed"
             PROVE  BundleIsClosure
  BY DEF BundleIsClosure
<1>1. /\ StackInv /\ FragmentsInv /\ EdgesInv /\ FollowedInv /\ SumsInv /\ DiskInv
      /\ IncludeTypeOK /\ MergeInv
  BY DEF IncludeInv, BuildInv
<1>2. Sources = visited
  BY <1>1, SourcesAreVisited
<1>3. /\ visited = {Root} \cup Elements(fragments) /\ Root \notin Elements(fragments)
      /\ Cardinality(Elements(fragments)) = Len(fragments) /\ Len(fragments) <= MaxFiles
      /\ \A v \in Elements(fragments) : Within(v.path, NormalizedParts(IncludeRoot))
  BY <1>1 DEF FragmentsInv, RootDir
<1>4. ASSUME NEW S \in SUBSET Sources, Root \in S, \A e \in edges : e[1] \in S => e[2] \in S
      PROVE  S = Sources
  <2>1. visited \subseteq S
    BY <1>1, <1>4 DEF EdgesInv
  <2> QED BY <1>2, <2>1
<1>5. ASSUME NEW u \in Sources, NEW d \in Elements(u.content.includes)
      PROVE  \E v \in Sources : <<u, v>> \in edges /\ v.path = CanonicalIncludePath(u.path, d)
  <2>1. PICK i \in DOMAIN u.content.includes : d = u.content.includes[i]
    BY DEF Elements
  <2>2. Followed(u, i)
    <3>1. CASE u \in visited \ active
      BY <1>1, <2>1, <3>1 DEF FollowedInv
    <3>2. CASE u \in active
      <4>1. Len(stack) = 1 /\ Top.next > Len(Top.source.content.includes)
        BY <1>1 DEF MergeInv
      <4>2. /\ DOMAIN stack = 1 .. Len(stack) /\ Top = stack[Len(stack)] /\ Top.next \in Nat
            /\ Top.source.content.includes \in Seq(Paths)
        BY <1>1, TopType
      <4>3. DOMAIN stack = {1} /\ active = {stack[k].source : k \in DOMAIN stack}
        BY <1>1, <4>1, <4>2 DEF StackInv
      <4>4. u = Top.source /\ 1 \in DOMAIN stack /\ Top = stack[1]
        BY <3>2, <4>1, <4>2, <4>3
      <4>5. \A j \in 1 .. Top.next - 1 : Followed(Top.source, j)
        BY <1>1, <4>4 DEF FollowedInv
      <4>6. i \in 1 .. Len(Top.source.content.includes) /\ Len(Top.source.content.includes) \in Nat
        BY <2>1, <4>2, <4>4
      <4> HIDE DEF Top
      <4>7. i \in 1 .. Top.next - 1
        BY <4>1, <4>2, <4>6
      <4> QED BY <4>4, <4>5, <4>7
    <3> QED BY <1>2, <3>1, <3>2
  <2> QED BY <1>2, <2>1, <2>2 DEF Followed
<1>6. ~Cyclic
  <2>1. \A S \in SUBSET visited : S # {} => \E u \in S : \A v \in S : <<u, v>> \notin edges
    BY <1>1 DEF EdgesInv
  <2> QED BY <1>2, <2>1 DEF Cyclic
<1>7. SourceBytes(Sources) <= MaxBytes
  BY <1>1, <1>2 DEF SumsInv
<1>8. ASSUME edits = 0, NEW u \in Sources, NEW v \in Sources, u.path = v.path
      PROVE  u = v
  <2>1. u \in SourceFiles /\ v \in SourceFiles
    BY <1>1, <1>2 DEF IncludeTypeOK
  <2>2. u.content = v.content
    BY <1>1, <1>2, <1>8 DEF DiskInv
  <2> QED BY <1>8, <2>1, <2>2 DEF SourceFiles
<1>9. /\ merged.next = Len(fragments) + 1 /\ merged.limits = 1
      /\ Functional(merged.requires, "tool") /\ Functional(merged.contexts, "name")
      /\ merged.limits = LimitsBlocks(Merged)
      /\ \A i \in 1 .. merged.next - 1 :
           /\ Elements(fragments[i].content.requires) \subseteq merged.requires
           /\ Elements(fragments[i].content.contexts) \subseteq merged.contexts
  BY <1>1 DEF MergeInv
<1>10. \A v \in Elements(fragments) :
         /\ Elements(v.content.requires) \subseteq merged.requires
         /\ Elements(v.content.contexts) \subseteq merged.contexts
  <2>1. 1 .. merged.next - 1 = DOMAIN fragments
    BY <1>1, <1>9 DEF IncludeTypeOK
  <2>2. \A v \in Elements(fragments) : \E i \in 1 .. merged.next - 1 : v = fragments[i]
    BY <2>1 DEF Elements
  <2> QED BY <1>9, <2>2
<1>11. LimitsBlocks(Sources) = 1
  <2>1. merged.next \in 1 .. Len(fragments) + 1
    BY <1>1 DEF MergeInv
  <2>2. Merged = visited
    BY <1>1, <1>9, <2>1, MergedIs
  <2> QED BY <1>2, <1>9, <2>2
<1>12. \A S \in SUBSET Sources :
         Root \in S /\ (\A e \in edges : e[1] \in S => e[2] \in S) => S = Sources
  BY <1>4
<1>13. \A u \in Sources : \A d \in Elements(u.content.includes) :
         \E v \in Sources : <<u, v>> \in edges /\ v.path = CanonicalIncludePath(u.path, d)
  BY <1>5
<1>14. edits = 0 => \A u, v \in Sources : u.path = v.path => u = v
  BY <1>8
<1>15. Sources = {Root} \cup Elements(fragments)
  BY <1>2, <1>3
<1> QED BY <1>3, <1>6, <1>7, <1>9, <1>10, <1>11, <1>12, <1>13, <1>14, <1>15, Zenon
        DEF BundleIsClosure

(* SourceBundleBuilder and SourceComposer: whatever the sources include and *)
(* however often the files are edited meanwhile, a composed Skill consists  *)
(* of exactly the root and what it includes, each source once; every        *)
(* include declaration was followed, inside the include root; nothing       *)
(* includes itself, the limits hold, no two sources are versions of one     *)
(* unedited file, and no declaration of a fragment is lost or overridden.   *)
THEOREM ComposedBundleIsClosure == IncludeSpec => []BundleIsClosure
<1>1. IncludeInv => BundleIsClosure
  BY ComposedIsClosure
<1> QED BY <1>1, IncludeInvariant, PTL

(* SourceBundleBuilder and SourceComposer: when a Skill is refused with a   *)
(* diagnostic about its bundle, the sources read so far contain the cycle,  *)
(* the too long chain, the excess of files or bytes, the conflicting tool   *)
(* versions, the doubled context or the wrong number of limits blocks that  *)
(* the diagnostic names.                                                    *)
THEOREM RefusalsHaveCause == IncludeSpec => []RefusedForCause
<1>1. IncludeInv => RefusedForCause
  BY DEF IncludeInv
<1> QED BY <1>1, IncludeInvariant, PTL
=============================================================================
