----------------------------- MODULE AuditStore -----------------------------
(***************************************************************************)
(* JsonlAuditStore: the append-only audit file of a single writer, the      *)
(* chain tails that the store keeps in memory, the recorders that feed it,  *)
(* and what a failing write or a dying process leaves in the file.          *)
(*                                                                          *)
(* The hash of an event covers its content and the hash of the event before *)
(* it, back to the first.  An event is therefore identified with its trail: *)
(* the sequence of the contents up to and including its own.  The sequence  *)
(* number is the length of the trail, the previous hash its front.          *)
(***************************************************************************)
EXTENDS Integers, Sequences, FiniteSets

CONSTANTS
  Execs,        \* execution ids (of one tenant)
  Retention,    \* audit_retention_days of each execution, in ticks
  MaxNow,       \* the bound of the clock, for model checking
  MaxDamage     \* the bound of writes that fail or are cut short

ASSUME StoreAssumption ==
  /\ Retention \in [Execs -> Nat \ {0}]
  /\ {MaxNow, MaxDamage} \subseteq Nat

VARIABLES
  file,         \* the lines of the JSONL file
  ended,        \* the file is empty or ends with a newline
  tails,        \* _tails: the trail of the last event of each execution
  now,          \* the storage clock
  damage,       \* how many writes have failed or were cut short
  accepted,     \* history: the trail that append has confirmed, per execution
  removed,      \* history: the executions that were deleted or purged
  cut,          \* history: a rewrite of the file was cut short
  misread       \* history: tails are of a file that did not verify

storeVars == <<file, ended, tails, now, damage, accepted, removed, cut, misread>>

----------------------------------------------------------------------------
(* The file *)

Torn == [torn |-> TRUE]   \* a line that is not a record

FrontOf(t) == SubSeq(t, 1, Len(t) - 1)

Record(e, t) == [exec |-> e, trail |-> t, expires |-> now + Retention[e]]

Records(f) == {k \in DOMAIN f : f[k] # Torn}

(* The last record of e in the first n lines of f; 0 for none. *)
LastOf(f, e, n) ==
  LET mine == {k \in 1 .. n : k \in Records(f) /\ f[k].exec = e}
  IN  IF mine = {} THEN 0 ELSE CHOOSE k \in mine : \A j \in mine : j <= k

TrailAt(f, e, n) == LET k == LastOf(f, e, n) IN IF k = 0 THEN << >> ELSE f[k].trail

TailsOf(f) == [e \in Execs |-> TrailAt(f, e, Len(f))]

(* Line k of f continues the chain of its execution. *)
Continues(f, k) == FrontOf(f[k].trail) = TrailAt(f, f[k].exec, k - 1)

(* JsonlAuditStore._read_records: every line is a record. *)
Readable(f) == Records(f) = DOMAIN f

(* JsonlAuditStore._load_and_verify does not raise. *)
Loads(f) == Readable(f) /\ \A k \in DOMAIN f : Continues(f, k)

(* The lines that _load_and_verify has taken when it raises or ends. *)
Verified(f) ==
  LET broken == {k \in DOMAIN f : ~Continues(f, k)}
  IN  IF broken = {} THEN f
      ELSE SubSeq(f, 1, (CHOOSE k \in broken : \A j \in broken : k <= j) - 1)

(* Bytes added to a file whose last line is not ended become part of that   *)
(* line, which is then no record.                                           *)
Extended(line) == IF ended THEN Append(file, line)
                  ELSE [file EXCEPT ![Len(file)] = Torn]

StoreInit ==
  /\ file = << >>
  /\ ended = TRUE
  /\ tails = [e \in Execs |-> << >>]
  /\ now = 0
  /\ damage = 0
  /\ accepted = [e \in Execs |-> << >>]
  /\ removed = {}
  /\ cut = FALSE
  /\ misread = FALSE

----------------------------------------------------------------------------
(* append *)

(* Mutant: nothing is compared, as InMemoryAuditSink does. *)
ChainedNever(e, t) == TRUE

(* append: sequence and previous hash continue the tail of the execution. *)
Chained(e, t) == FrontOf(t) = tails[e]

(* Writing the line fails (OSError), or the process dies in it: none of it, *)
(* some of it, all but the newline, or all of it is in the file.            *)
FailedWrite(e, t) ==
  /\ damage < MaxDamage
  /\ damage' = damage + 1
  /\ \/ file' = Extended(Torn) /\ ended' = FALSE
     \/ file' = Extended(Record(e, t)) /\ ended' \in BOOLEAN
     \/ UNCHANGED <<file, ended>>
  /\ UNCHANGED <<tails, now, accepted, removed, cut, misread>>

(* append returns: the line is written and the tail moves. *)
AppendEvent(e, t) ==
  /\ Chained(e, t)
  /\ file' = Extended(Record(e, t))
  /\ ended' = TRUE
  /\ tails' = [tails EXCEPT ![e] = t]
  /\ accepted' = [accepted EXCEPT ![e] = t]
  /\ UNCHANGED <<now, damage, removed, cut, misread>>

(* append raises AuditPersistenceError; no chain has moved. *)
AppendFails(e, t) == Chained(e, t) /\ FailedWrite(e, t)

(* append raises AuditIntegrityError before it writes. *)
AppendRefused(e, t) == ~Chained(e, t) /\ UNCHANGED storeVars

----------------------------------------------------------------------------
(* delete_execution, purge_expired *)

(* The lines of f with the numbers in kept, in their order. *)
Keep(f, kept) ==
  LET place(k) == Cardinality({j \in kept : j <= k})
  IN  [i \in 1 .. Cardinality(kept) |-> f[CHOOSE k \in kept : place(k) = i]]

Without(f, gone) == Keep(f, {k \in DOMAIN f : f[k].exec \notin gone})

(* Mutant: a record goes when it has expired, whatever the others do. *)
WithoutExpiredLines(f, gone) ==
  Keep(f, {k \in DOMAIN f : f[k].exec \notin gone /\ f[k].expires > now})

(* What is left after a rewrite that keeps the executions outside gone. *)
Retained(f, gone) == Without(f, gone)

(* purge_expired: the executions of which every record has expired. *)
ExpiredExecs ==
  {e \in Execs : /\ LastOf(file, e, Len(file)) # 0
                 /\ \A k \in DOMAIN file : file[k].exec = e => file[k].expires <= now}

(* The events of gone are no longer owed to anyone. *)
Forget(gone) ==
  /\ accepted' = [e \in Execs |-> IF e \in gone THEN << >> ELSE accepted[e]]
  /\ removed' = removed \cup gone

(* _write_records and _load_and_verify.  The second raises on a chain that  *)
(* does not continue, with the tails it has seen so far; the store goes on  *)
(* with them.                                                               *)
Rewrite(gone) ==
  /\ Readable(file)
  /\ Retained(file, gone) # file
  /\ file' = Retained(file, gone)
  /\ ended' = TRUE
  /\ tails' = TailsOf(Verified(file'))
  /\ misread' = ~Loads(file')
  /\ Forget(gone)
  /\ UNCHANGED <<now, damage, cut>>

(* The file is truncated and written again; the write fails, or the process *)
(* dies in it, after some lines and perhaps part of the next.               *)
RewriteCut(gone) ==
  /\ Readable(file)
  /\ Retained(file, gone) # file
  /\ damage < MaxDamage
  /\ damage' = damage + 1
  /\ LET r == Retained(file, gone)
     IN \E n \in 0 .. Len(r) :
          \/ file' = SubSeq(r, 1, n) /\ ended' = TRUE
          \/ n < Len(r) /\ file' = Append(SubSeq(r, 1, n), Torn) /\ ended' = FALSE
  /\ cut' = TRUE
  /\ Forget(gone)
  /\ UNCHANGED <<tails, now, misread>>

(* JsonlAuditStore.delete_execution *)
DeleteExecution(e) == Rewrite({e})

(* JsonlAuditStore.purge_expired *)
PurgeExpired == Rewrite(ExpiredExecs)

(* Either of them raises AuditPersistenceError. *)
RemovalFails == (\E e \in Execs : RewriteCut({e})) \/ RewriteCut(ExpiredExecs)

(* A new process opens the file: JsonlAuditStore.__init__. *)
Open ==
  /\ Loads(file)
  /\ tails' = TailsOf(file)
  /\ misread' = FALSE
  /\ UNCHANGED <<file, ended, now, damage, accepted, removed, cut>>

StoreTick ==
  /\ now < MaxNow
  /\ now' = now + 1
  /\ UNCHANGED <<file, ended, tails, damage, accepted, removed, cut, misread>>

----------------------------------------------------------------------------
(* Properties *)

Prefix(s, t) == Len(s) <= Len(t) /\ s = SubSeq(t, 1, Len(s))

(* The store answers for the events of e that it has confirmed: they were   *)
(* not removed, no rewrite was cut short, and one that has raised on some   *)
(* chain has left a file that verifies by now.                              *)
Owed(e) == e \notin removed /\ ~cut /\ (misread => Loads(file))

(* A file that opens holds, for every execution, all the events that append *)
(* has confirmed, in their order, whatever writes failed or were cut short  *)
(* by a crash; and without any such write it opens and holds exactly them.  *)
(* (A rewrite that was cut short is the exception: see LossIsRefused.)      *)
ConfirmedIsKept ==
  IF Loads(file)
  THEN /\ damage = 0 => TailsOf(file) = accepted
       /\ ~cut => \A e \in Execs : Prefix(accepted[e], TrailAt(file, e, Len(file)))
  ELSE damage > 0

(* Reopening verifies the whole file and refuses a damaged one: what opens  *)
(* has lost nothing that append had confirmed.                              *)
LossIsRefused ==
  Loads(file) => \A e \in Execs : Prefix(accepted[e], TailsOf(file)[e])
=============================================================================
