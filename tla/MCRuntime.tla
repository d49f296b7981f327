----------------------------- MODULE MCRuntime -----------------------------
(***************************************************************************)
(* Skills for RuntimeEngine.execute: a budget check over the elements of a  *)
(* collection, as in examples/project_budget_check.ns, in both versions of  *)
(* the language, a computation over one READ, and a loop in a loop.         *)
(***************************************************************************)
EXTENDS SkillRuntime

Limits(tools, loops, rows) ==
  [tools |-> tools, loops |-> loops, rows |-> rows, collection |-> 2, duration |-> 2]

Step(kind, target, uses) ==
  [kind |-> kind, target |-> target, uses |-> uses, over |-> "", block |-> "", max |-> 0]

Foreach(iterator, over, block, max) ==
  [kind |-> "FOREACH", target |-> iterator, uses |-> {over}, over |-> over,
   block |-> block, max |-> max]

CheckBlocks ==
  [main |-> <<Step("READ", "parents", {"year"}), Foreach("p", "parents", "body", 2)>>,
   body |-> <<Step("READ", "budget", {"p"}), Step("CHECK", "enough", {"budget", "p"}),
              Step("EMIT", "", {"budget"})>>]

(* The loop reads twice, emits twice and iterates twice: each limit in turn *)
(* is the one that is met.                                                  *)
BudgetCheck(tools, loops, rows) ==
  [version |-> "0.1", blocks |-> CheckBlocks, limits |-> Limits(tools, loops, rows)]

BudgetCheckV2 ==
  [version |-> "0.2", blocks |-> CheckBlocks, limits |-> Limits(3, 2, 2)]

OneRead ==
  [version |-> "0.2",
   blocks |-> [main |-> <<Step("READ", "total", {"year"}), Step("LET", "half", {"total"}),
                          Step("CHECK", "enough", {"half"}), Step("EMIT", "", {"half"})>>],
   limits |-> Limits(1, 0, 1)]

Nested ==
  [version |-> "0.1",
   blocks |-> [main |-> <<Step("READ", "rows", {}), Foreach("r", "rows", "outer", 2)>>,
               outer |-> <<Foreach("q", "rows", "inner", 1)>>,
               inner |-> <<Foreach("o", "rows", "last", 2)>>,
               last |-> <<Step("EMIT", "", {"o"})>>],
   limits |-> Limits(1, 2, 1)]

(* A statement that binds the symbol of an input: no compiled Skill does,   *)
(* the engine guards against an object that was loaded.                     *)
Rebinding(kind) ==
  [version |-> "0.1",
   blocks |-> [main |-> <<Step("READ", "rows", {}),
                          [Foreach("year", "rows", "body", 2) EXCEPT !.kind = kind]>>,
               body |-> << >>],
   limits |-> Limits(2, 1, 0)]

AllSkills == {BudgetCheck(3, 2, 2), BudgetCheck(2, 2, 2), BudgetCheck(3, 1, 2),
              BudgetCheck(3, 2, 1), BudgetCheckV2, OneRead, Nested}
  \cup {Rebinding(kind) : kind \in {"LET", "READ", "CHECK", "FOREACH"}}

LoopedCheck == {BudgetCheckV2}

Answers ==
  {[completeness |-> "COMPLETE", size |-> 2], [completeness |-> "PARTIAL", size |-> 1],
   [completeness |-> "UNKNOWN", size |-> 0], [completeness |-> "COMPLETE", size |-> 3]}

CompleteAnswers == {[completeness |-> "COMPLETE", size |-> 2]}
=============================================================================
