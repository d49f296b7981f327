------------------------------ MODULE Snapshots ------------------------------
(***************************************************************************)
(* The snapshot stores of the replay evidence: InMemorySnapshotStore and    *)
(* ProtectedSnapshotStore.  Both live in the memory of the process and      *)
(* number their snapshots from one, while the references they give out      *)
(* outlive the process, in a bundle.  A hash is identified with what it is  *)
(* the hash of; the invocation id of a recorded tool result, which the hash *)
(* leaves out, is not part of a value.                                      *)
(***************************************************************************)
EXTENDS Integers, Sequences

CONSTANTS
  Principals,   \* [tenant, verified, scopes]: who reads and deletes
  Retention,    \* snapshot_retention_days
  MaxNow, MaxSnapshots,   \* bounds for model checking
  None

ASSUME SnapshotAssumption ==
  /\ Retention \in Nat \ {0}
  /\ {MaxNow, MaxSnapshots} \subseteq Nat

VARIABLES
  protected,    \* whether the store is a ProtectedSnapshotStore
  items,        \* _items: snapshot id to stored snapshot
  counter,      \* _counter
  now           \* the clock

storeVars == <<protected, items, counter, now>>

PROTECTED_CLASSIFICATIONS == {"CONFIDENTIAL", "RESTRICTED"}

StoreInit ==
  /\ protected \in BOOLEAN
  /\ items = [k \in {} |-> None] /\ counter = 0
  /\ now = 0

(* The value is sealed, or kept as a copy. *)
Seals(class) == protected /\ class \in PROTECTED_CLASSIFICATIONS

Stored(tenant, v, class) ==
  [tenant |-> tenant, class |-> class, value |-> v, sealed |-> Seals(class),
   hash |-> v, integrity |-> v, expires |-> now + Retention]

(* SnapshotRef, as put returns it for the n-th snapshot from now. *)
NewRef(n, tenant, v, class) ==
  [id |-> counter + n, tenant |-> tenant, class |-> class, hash |-> v,
   expires |-> now + Retention]

(* The references that put returns for the values vs, one after another.    *)
NewRefs(tenant, vs, class) == [k \in DOMAIN vs |-> NewRef(k, tenant, vs[k], class)]

(* put for each of vs; where the sealing of the next value fails, this is   *)
(* what remains of the ones before.                                         *)
PutAll(tenant, vs, class) ==
  /\ counter + Len(vs) <= MaxSnapshots
  /\ counter' = counter + Len(vs)
  /\ items' = [k \in DOMAIN items \cup (counter + 1) .. (counter + Len(vs)) |->
                 IF k \in DOMAIN items THEN items[k] ELSE Stored(tenant, vs[k - counter], class)]
  /\ UNCHANGED <<protected, now>>

(* Mutant: the hash in the reference is not compared. *)
ReferenceNamesItem(ref, item) == ref.class = item.class /\ ref.expires = item.expires

(* _validate_reference *)
ValidReference(ref, item) ==
  ref.class = item.class /\ ref.hash = item.hash /\ ref.expires = item.expires

(* What get and delete require before they touch the snapshot. *)
Admits(ref, p, scope) ==
  /\ p.verified /\ scope \in p.scopes
  /\ ref.id \in DOMAIN items
  /\ items[ref.id].tenant = p.tenant /\ ref.tenant = p.tenant
  /\ ValidReference(ref, items[ref.id])

(* get returns the value, unless the protector fails to unseal it. *)
Resolves(ref, p) ==
  /\ Admits(ref, p, "nsl:replay:read")
  /\ now < items[ref.id].expires
  /\ items[ref.id].value = items[ref.id].integrity

Value(ref) == items[ref.id].value

Drop(ids) == items' = [k \in DOMAIN items \ ids |-> items[k]]

(* The effect of calls of get: those that find a snapshot expired drop it.  *)
GetAll(refs, p) ==
  /\ Drop({ref.id : ref \in {r \in refs : Admits(r, p, "nsl:replay:read")
                                            /\ now >= items[r.id].expires}})
  /\ UNCHANGED <<protected, counter, now>>

DeleteSnapshot(ref, p) ==
  /\ Admits(ref, p, "nsl:snapshot:delete")
  /\ Drop({ref.id})
  /\ UNCHANGED <<protected, counter, now>>

PurgeSnapshots ==
  /\ \E k \in DOMAIN items : now >= items[k].expires
  /\ Drop({k \in DOMAIN items : now >= items[k].expires})
  /\ UNCHANGED <<protected, counter, now>>

(* The process ends and another one starts with an empty store. *)
RestartStore ==
  /\ items' = [k \in {} |-> None] /\ counter' = 0
  /\ UNCHANGED <<protected, now>>

TickStore ==
  /\ now < MaxNow
  /\ now' = now + 1
  /\ UNCHANGED <<protected, items, counter>>
=============================================================================
