------------------------------ MODULE MCWork ------------------------------
(* Jobs of one execution for two workers, and a host that records WRITE     *)
(* evidence of another in the same file.                                    *)
EXTENDS JobWorker, TLC

Plain == [depth |-> 1, nodes |-> 1, credential |-> FALSE]

Job(skill, hash, scoped) ==
  [exec |-> "e1", skill |-> skill, hash |-> hash, scoped |-> scoped, schema |-> "1.0",
   inputs |-> {"year"}, sources |-> {"year"}, verification |-> "VERIFIED",
   values |-> Plain, context |-> Plain, retention |-> 1, tags |-> {"Date"}, canonical |-> TRUE]

Good == Job("audit", "h1", TRUE)

(* A job to run, one that the principal may not run, one for another        *)
(* version of the Skill; and documents that are no Job.                     *)
MCPayloads ==
  { Good, Job("audit", "h1", FALSE), Job("audit", "h2", TRUE),
    [Good EXCEPT !.sources = {}], [Good EXCEPT !.verification = "UNVERIFIED"],
    [Good EXCEPT !.values.depth = 2], [Good EXCEPT !.context.credential = TRUE],
    [Good EXCEPT !.retention = 0], [Good EXCEPT !.tags = {"Set"}],
    [Good EXCEPT !.skill = None] }

(* A certified worker, and one without progress and snapshots. *)
MCConfigs == { [sink |-> "memory", snapshots |-> TRUE, required |-> TRUE],
               [sink |-> "null", snapshots |-> FALSE, required |-> FALSE] }

MCCatalogue == [s \in {"audit"} |-> "h1"]
MCRetention == [e \in Execs |-> IF e = "e1" THEN 1 ELSE 2]

(* The properties of the passing run say nothing of a file that a rewrite   *)
(* has cut short, and the host records beside at most one certified worker: *)
(* what comes after the other states is left out.                           *)
HostAtWork == hostRec # << >> \/ LastOf(file, HostExec, Len(file)) # 0
Focus ==
  /\ ~cut
  /\ HostAtWork => conf.sink = "memory" /\ \E w \in Workers : pc[w] = "idle"

WorkerSymmetry == Permutations(Workers)
MCIdentities == {{"payload", "intent", "approval"}, {"payload", "intent", "approval", "key"}}
=============================================================================
