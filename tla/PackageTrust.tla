---------------------------- MODULE PackageTrust ----------------------------
(***************************************************************************)
(* Skill packages from the builder to the WRITE they authorize: NspBuilder, *)
(* NspVerifier over an Ed25519 trust store, the trust evidence that a       *)
(* verified package issues, the resolver that serves verified Skills, and   *)
(* the trust preflight of TrustedWriteExecutionCoordinator, at a later time *)
(* and under a profile of its own.                                          *)
(*                                                                          *)
(* A hash is identified with what it is the hash of: the hash of an         *)
(* artifact is the artifact, the package hash is the sequence of the        *)
(* manifest's entries.  A signature is the package hash it is over, the id  *)
(* of the key, and the private key (named like its public half) that made   *)
(* it.  Artifacts are records of a Skill id, a semantic hash, the build     *)
(* that produced the bytes, the tool capabilities the Skill requires, the   *)
(* expressions in its body at any depth, the size of the canonical bytes,   *)
(* and whether the bytes are these.  The sizes of manifest.json,            *)
(* signature.json and the ZIP structure follow from the number of entries   *)
(* and members; the lengths of the names in them are left out.              *)
(***************************************************************************)
EXTENDS Integers, Sequences, FiniteSets, Functions

CONSTANTS
  Artifacts,    \* the NSO artifacts that can be packaged
  Signers,      \* the signers: key id and private key
  TrustStores,  \* the contents a trust store can have: key ids to public keys
  Policies,     \* NspVerificationPolicy values
  Profiles,     \* ExecutionTrustProfile values
  Contexts,     \* the executions that ask for a WRITE: tenant and Skill
  Publisher, TrustPolicy,  \* what the host names when it issues evidence
  Limits,       \* NspVerificationLimits values
  Bytes,        \* of a manifest and an entry of it, a signature, a ZIP header, the ZIP end
  MaxClock, MaxBuilds,     \* bounds for model checking: instants, packages
  None

(* NspVerificationPolicy.__post_init__ *)
ValidPolicy(q) == q.allowUnsigned => q.environment = "DEVELOPMENT"

(* ExecutionTrustProfile.__post_init__ *)
ValidProfile(p) ==
  /\ p.maxAge = None \/ p.maxAge > 0
  /\ p.environment = "PRODUCTION" =>
       /\ None \notin {p.policy, p.artifact, p.semantic, p.maxAge} /\ p.package # None
       /\ p.publishers # {} /\ p.keys # {}
       /\ ~p.allowUnsigned

(* _contains_write: a required WRITE tool, or a WRITE at any depth. *)
ContainsWrite(a) == "WRITE" \in a.tools \/ "WRITE" \in a.body

(* The semantic hash covers the tools and the body.  *)
ASSUME TrustAssumption ==
  /\ \A q \in Policies : ValidPolicy(q)
  /\ \A p \in Profiles : ValidProfile(p) /\ p.maxAge \in Int \cup {None}
  /\ IsFiniteSet(Artifacts)
  /\ Artifacts \subseteq
       [id : Int, semantic : {a.semantic : a \in Artifacts}, tools : {a.tools : a \in Artifacts},
        body : {a.body : a \in Artifacts}, build : {a.build : a \in Artifacts},
        size : Nat, canonical : BOOLEAN]
  /\ \A a \in Artifacts, c \in Contexts :
       a.semantic = c.skill.semantic => ContainsWrite(a) = ContainsWrite(c.skill)
  /\ Limits \subseteq [package : Nat \ {0}, members : Nat \ {0}, member : Nat \ {0}, total : Nat \ {0}]
  /\ Bytes \in [frame : Nat, entry : Nat, signature : Nat, header : Nat, end : Nat]
  /\ {MaxClock, MaxBuilds} \subseteq Nat

VARIABLES
  built,        \* the packages that NspBuilder has built
  store,        \* the trust store in use
  installed,    \* history: the trust stores that have been in use until now
  clock,
  verified,     \* the VerifiedNspPackages
  held,         \* the VerifiedSkillArtifact in use: artifact and trust evidence
  resolver,     \* VerifiedPackageSkillResolver: its packages and _skills
  write         \* the WRITE that the trust boundary lets through in this step, if any

vars == <<built, store, installed, clock, verified, held, resolver, write>>

TrustInit ==
  /\ built = {} /\ verified = {}
  /\ held = None /\ resolver = None /\ write = None
  /\ store \in TrustStores /\ installed = {store}
  /\ clock = 0

----------------------------------------------------------------------------
(* NspBuilder *)

(* NsoCodec.encode after decode: the canonical bytes of the same Skill. *)
Canonical(a) == [a EXCEPT !.canonical = TRUE]



(* NspBuilder._prepare_artifacts: decoded and encoded again. *)
Prepared(S) == {Canonical(a) : a \in S}

(* In the order of the Skill ids (and versions): one, as they are distinct. *)
Orderings(S) ==
  {s \in [1 .. Cardinality(S) -> S] : \A j, k \in DOMAIN s : j < k => s[j].id < s[k].id}

Entry(a) == [id |-> a.id, semantic |-> a.semantic, artifact |-> a, size |-> a.size]

(* NspManifest.create: the package hash covers the entries. *)
Manifest(members) == [k \in DOMAIN members |-> Entry(members[k])]

(* NspSignatureMetadata.create, signature_message *)
Signature(hash, signer) == [key |-> signer.key, over |-> hash, by |-> signer.private]

(* NspBuilder.build; s is None for an unsigned package.  Two artifacts of   *)
(* one Skill are refused, also if their canonical bytes are the same.       *)
Build(S, s) ==
  /\ Cardinality(built) < MaxBuilds
  /\ S # {}
  /\ \A a, b \in S : a.id = b.id => a = b
  /\ \E members \in Orderings(Prepared(S)) :
       LET hash == Manifest(members)
       IN built' = built \cup
            {[skills |-> hash, hash |-> hash, members |-> members, plain |-> TRUE,
              signature |-> IF s = None THEN None ELSE Signature(hash, s)]}
  /\ write' = None
  /\ UNCHANGED <<store, installed, clock, verified, held, resolver>>

----------------------------------------------------------------------------
(* NspVerifier *)

(* What can be read as a package: a built one, or one whose manifest,       *)
(* package hash, signature and each of whose members come from different    *)
(* packages, or whose signature or plain ZIP layout is gone.                *)
Received ==
  {[skills |-> a.skills, hash |-> b.hash, members |-> ms, plain |-> pl, signature |-> s] :
     a \in built, b \in built,
     ms \in UNION {[DOMAIN c.members -> UNION {Range(d.members) : d \in built}] : c \in built},
     pl \in BOOLEAN, s \in {d.signature : d \in built} \cup {None}}

(* ZipInfo.file_size of manifest.json, the artifacts and signature.json *)
MemberSizes(p) ==
  <<Bytes.frame + Bytes.entry * Len(p.skills)>>
    \o [k \in DOMAIN p.members |-> p.members[k].size]
    \o (IF p.signature = None THEN << >> ELSE <<Bytes.signature>>)

MemberCount(p) == Len(MemberSizes(p))

TotalSize(p) == SumFunction(MemberSizes(p))

(* The length of the archive: every member is stored as it is. *)
PackageBytes(p) == TotalSize(p) + Bytes.header * MemberCount(p) + Bytes.end

(* Mutant: only the artifacts count towards the total. *)
ArchiveArtifactsOK(p, l) ==
  /\ p.plain
  /\ MemberCount(p) <= l.members /\ Len(p.skills) <= l.members - 1
  /\ \A n \in Range(MemberSizes(p)) : n <= l.member
  /\ SumFunction([k \in DOMAIN p.members |-> p.members[k].size]) <= l.total
  /\ PackageBytes(p) <= l.package

(* verify, its test of the length, _validate_archive_members and, for the   *)
(* number of entries, _parse_manifest: few, regular, stored members, each   *)
(* and all together not too large.                                          *)
ArchiveOK(p, l) ==
  /\ p.plain
  /\ MemberCount(p) <= l.members /\ Len(p.skills) <= l.members - 1
  /\ \A n \in Range(MemberSizes(p)) : n <= l.member
  /\ TotalSize(p) <= l.total
  /\ PackageBytes(p) <= l.package

(* Mutant: the stored package hash is not computed again. *)
ManifestUnhashed(p) ==
  /\ p.skills # << >>
  /\ IsInjective([k \in DOMAIN p.skills |-> p.skills[k].id])

(* _parse_manifest: distinct identities, and the hash of the content. *)
ManifestOK(p) ==
  /\ p.skills # << >>
  /\ p.hash = p.skills
  /\ IsInjective([k \in DOMAIN p.skills |-> p.skills[k].id])

(* _verify_skill: size, hash, canonical encoding and identity. *)
SkillOK(entry, member) ==
  /\ member.size = entry.size
  /\ member = entry.artifact
  /\ member.canonical
  /\ member.id = entry.id /\ member.semantic = entry.semantic

(* verify: the archive holds exactly the members of the manifest. *)
MembersOK(p) ==
  /\ Len(p.members) = Len(p.skills)
  /\ \A k \in DOMAIN p.skills : SkillOK(p.skills[k], p.members[k])

(* Mutant: a signature is good if its key id is known. *)
StoreKnows(st, s) == s.key \in DOMAIN st

(* Ed25519TrustStore.verify *)
StoreVerifies(st, s) == s.key \in DOMAIN st /\ st[s.key] = s.by

(* _verify_signature with the policy test of verify; the signature names    *)
(* the package hash of the manifest.                                        *)
SignatureOK(p, q, st) ==
  IF p.signature = None THEN q.environment = "DEVELOPMENT" /\ q.allowUnsigned
  ELSE p.signature.over = p.hash /\ StoreVerifies(st, p.signature)

ContentOK(p) == ManifestOK(p) /\ MembersOK(p)

Accepts(p, q, l) == ContentOK(p) /\ SignatureOK(p, q, store) /\ ArchiveOK(p, l)

(* NspVerifier.verify, verify_nsp_for_cli *)
Verify(p, q, l) ==
  /\ Accepts(p, q, l)
  /\ verified' = verified \cup {p}
  /\ write' = None
  /\ UNCHANGED <<built, store, installed, clock, held, resolver>>

----------------------------------------------------------------------------
(* Trust evidence and the resolver *)

(* VerifiedNspPackage.trust_evidence, trusted_artifacts *)
Issue(p) ==
  /\ p \in verified
  /\ p.signature # None
  /\ LET trust == [package |-> p.hash, publisher |-> Publisher, policy |-> TrustPolicy,
                   key |-> p.signature.key, at |-> clock, status |-> "VERIFIED"]
     IN \E k \in DOMAIN p.members : held' = [artifact |-> p.members[k], trust |-> trust]
  /\ write' = None
  /\ UNCHANGED <<built, store, installed, clock, verified, resolver>>

(* A host that presents a Skill without trust evidence. *)
Present(a) ==
  /\ a \in Artifacts
  /\ held' = [artifact |-> Canonical(a), trust |-> None]
  /\ write' = None
  /\ UNCHANGED <<built, store, installed, clock, verified, resolver>>

(* A host that marks the evidence of a package as revoked. *)
Revoke ==
  /\ held # None /\ held.trust # None
  /\ held' = [held EXCEPT !.trust.status = "REVOKED"]
  /\ write' = None
  /\ UNCHANGED <<built, store, installed, clock, verified, resolver>>

(* No two packages, and no two Skills of one, have the same identity. *)
Unambiguous(P) ==
  \A p, q \in P : \A j \in DOMAIN p.members, k \in DOMAIN q.members :
    p.members[j].id = q.members[k].id => p = q /\ j = k

(* ResolvedSkill *)
Resolved(p, a) ==
  [artifact |-> a, package |-> p.hash,
   key |-> IF p.signature = None THEN None ELSE p.signature.key]

(* VerifiedPackageSkillResolver.__init__ *)
Register(P) ==
  /\ P \subseteq verified /\ P # {}
  /\ Unambiguous(P)
  /\ LET ids == {a.id : a \in UNION {Range(p.members) : p \in P}}
         Package(i) == CHOOSE p \in P : \E a \in Range(p.members) : a.id = i
     IN resolver' =
          [packages |-> P,
           skills |-> [i \in ids |-> Resolved(Package(i), CHOOSE a \in Range(Package(i).members) :
                                                              a.id = i)]]
  /\ write' = None
  /\ UNCHANGED <<built, store, installed, clock, verified, held>>

----------------------------------------------------------------------------
(* RuntimePreflightValidator, TrustedWriteExecutionCoordinator *)

(* _validate_trust_identity, the two tests of time *)
FreshAt(trust, p, t) == trust.at <= t /\ (p.maxAge # None => t < trust.at + p.maxAge)

Agrees(expected, actual) == expected = None \/ expected = actual
Trusts(set, actual) == set = {} \/ actual \in set

(* _validate_trust_identity: evidence, artifact and profile agree. *)
TrustOK(v, p, t) ==
  /\ v.trust.status = "VERIFIED"
  /\ p.package = None \/ p.package = v.trust.package
  /\ Agrees(p.artifact, v.artifact)
  /\ Agrees(p.semantic, v.artifact.semantic)
  /\ Agrees(p.policy, v.trust.policy)
  /\ Trusts(p.publishers, v.trust.publisher)
  /\ Trusts(p.keys, v.trust.key)
  /\ FreshAt(v.trust, p, t)

(* RuntimePreflightValidator.validate does not raise. *)
PreflightOK(v, p, t) ==
  IF v.trust = None
  THEN ContainsWrite(v.artifact) => p.environment = "DEVELOPMENT" /\ p.allowUnsigned
  ELSE TrustOK(v, p, t)

(* TrustedWriteExecutionCoordinator.execute: the binding of the evidence to *)
(* the execution.                                                           *)
BoundTo(v, p, c) == p.tenant = c.tenant /\ v.artifact.semantic = c.skill.semantic

(* The WRITE passes on to the coordinator of WriteExecution.  The instant   *)
(* trust_checked_at is the caller's.                                        *)
TrustedWrite(p, c, t) ==
  /\ held # None
  /\ PreflightOK(held, p, t)
  /\ BoundTo(held, p, c)
  /\ write' = [given |-> held, profile |-> p, context |-> c, at |-> t]
  /\ UNCHANGED <<built, store, installed, clock, verified, held, resolver>>

----------------------------------------------------------------------------

(* The operator installs another trust store (load_ed25519_trust_store). *)
ReplaceStore(s) ==
  /\ s \in TrustStores /\ s # store
  /\ store' = s /\ installed' = installed \cup {s}
  /\ write' = None
  /\ UNCHANGED <<built, clock, verified, held, resolver>>

TickTrust ==
  /\ clock < MaxClock
  /\ clock' = clock + 1
  /\ write' = None
  /\ UNCHANGED <<built, store, installed, verified, held, resolver>>

TrustNext ==
  \/ \E S \in SUBSET Artifacts, s \in Signers \cup {None} : Build(S, s)
  \/ /\ Cardinality(verified) < MaxBuilds
     /\ \E p \in Received :
          ContentOK(p) /\ \E q \in Policies, l \in Limits : Verify(p, q, l)
  \/ \E p \in verified : Issue(p)
  \/ \E a \in Artifacts : Present(a)
  \/ Revoke
  \/ \E P \in SUBSET verified : Register(P)
  \/ \E p \in Profiles, c \in Contexts, t \in 0 .. MaxClock : TrustedWrite(p, c, t)
  \/ \E s \in TrustStores : ReplaceStore(s)
  \/ TickTrust

TrustSpec == TrustInit /\ [][TrustNext]_vars

----------------------------------------------------------------------------
(* Properties *)

(* The verifier accepts what the builder builds, unchanged, exactly if its  *)
(* bytes, the number of its members, the largest of them and their total -  *)
(* manifest.json and signature.json included - are within the limits and    *)
(* the trust store holds the key that has signed it, or, for an unsigned    *)
(* package, the policy is the development one that allows it.               *)
BuiltVerifies ==
  \A b \in built, q \in Policies, l \in Limits :
    Accepts(b, q, l) <=>
      /\ IF b.signature = None THEN q.allowUnsigned ELSE StoreVerifies(store, b.signature)
      /\ MemberCount(b) <= l.members
      /\ \A n \in Range(MemberSizes(b)) : n <= l.member
      /\ TotalSize(b) <= l.total
      /\ PackageBytes(b) <= l.package

(* Whatever parts of packages are put together, a verified package is one   *)
(* that the builder has built as a whole; if it has a signature, that is    *)
(* the one it was built with.  And the resolver serves every Skill of every *)
(* package it was given, from that package: none hides a Skill of another.  *)
VerifiedIsBuilt ==
  /\ \A p \in verified : \E b \in built :
       p.signature \in {b.signature, None} /\ p = [b EXCEPT !.signature = p.signature]
  /\ resolver # None => \A p \in resolver.packages : \A a \in Range(p.members) :
       resolver.skills[a.id] = Resolved(p, a)

(* The Skill that writes in production has the semantics of an artifact in  *)
(* the package the profile names, and that package was signed: under a key  *)
(* id of the profile, and with the private key that a trust store in use at *)
(* that time or before had under this id - no other key with the same id    *)
(* will do.  The evidence of that was neither revoked nor, at the time of   *)
(* the check, from the future or past its age.  This holds through build,   *)
(* transport, verification, changes of the trust store and later checks.    *)
TrustedWriteIsSigned ==
  write # None /\ write.profile.environment = "PRODUCTION"
               /\ ContainsWrite(write.context.skill) =>
    /\ \E b \in built, st \in installed :
         /\ b.signature # None /\ b.signature.key \in write.profile.keys
         /\ b.signature.key \in DOMAIN st /\ b.signature.by = st[b.signature.key]
         /\ b.signature.over = b.hash
         /\ b.hash = write.profile.package
         /\ \E a \in Range(b.members) :
              a = write.profile.artifact /\ a.semantic = write.context.skill.semantic
    /\ write.given.trust.status = "VERIFIED"
    /\ write.at \in write.given.trust.at .. write.given.trust.at + write.profile.maxAge - 1
=============================================================================
