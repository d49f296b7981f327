--------------------------- MODULE SingleConsumer ---------------------------
(***************************************************************************)
(* What the resume path promises about a checkpoint, without files: it is   *)
(* leased to one caller at a time, spent by at most one of them, and only   *)
(* the one that spent it is served, once.  A lease whose caller dies is     *)
(* never given to anybody else: the port has no operation that recovers it. *)
(***************************************************************************)
EXTENDS Naturals

CONSTANTS Executions, Workers, Free, Orphan

VARIABLES holder,   \* holder[e]: a worker, Free, or Orphan
          spentBy,  \* spentBy[e]: the worker that spent the checkpoint, or Free
          served    \* served[e]: how many resume calls came back with it spent

leaseVars == <<holder, spentBy, served>>

LeaseInit ==
  /\ holder = [e \in Executions |-> Free]
  /\ spentBy = [e \in Executions |-> Free]
  /\ served = [e \in Executions |-> 0]

Acquire(w, e) ==
  /\ holder[e] = Free
  /\ holder' = [holder EXCEPT ![e] = w]
  /\ UNCHANGED <<spentBy, served>>

GiveBack(w, e) ==
  /\ holder[e] = w
  /\ spentBy[e] # w
  /\ holder' = [holder EXCEPT ![e] = Free]
  /\ UNCHANGED <<spentBy, served>>

Spend(w, e) ==
  /\ holder[e] = w
  /\ spentBy[e] = Free
  /\ spentBy' = [spentBy EXCEPT ![e] = w]
  /\ UNCHANGED <<holder, served>>

Serve(w, e) ==
  /\ holder[e] = w
  /\ spentBy[e] = w
  /\ served[e] = 0
  /\ served' = [served EXCEPT ![e] = 1]
  /\ holder' = [holder EXCEPT ![e] = Free]
  /\ UNCHANGED spentBy

(* The caller dies, or finds the checkpoint spent by somebody else. *)
Abandon(w, e) ==
  /\ holder[e] = w
  /\ holder' = [holder EXCEPT ![e] = Orphan]
  /\ UNCHANGED <<spentBy, served>>

LeaseNext ==
  \E w \in Workers, e \in Executions :
    Acquire(w, e) \/ GiveBack(w, e) \/ Spend(w, e) \/ Serve(w, e) \/ Abandon(w, e)

LeaseSpec == LeaseInit /\ [][LeaseNext]_leaseVars
=============================================================================
