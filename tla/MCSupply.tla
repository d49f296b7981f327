------------------------------ MODULE MCSupply ------------------------------
(***************************************************************************)
(* How a Skill comes to the runtime, one part in each behaviour: its source *)
(* is composed from the files it includes, or its artifact is packaged,     *)
(* signed, verified and trusted.                                            *)
(***************************************************************************)
EXTENDS Includes, PackageTrust

VARIABLE mode

allVars == <<mode, includeVars, vars>>

(* Sources have nothing to do with the trust store: one is enough there. *)
Init ==
  /\ mode \in {"source", "package"}
  /\ IncludeInit /\ TrustInit
  /\ mode = "source" => DOMAIN store = {}

Next ==
  \/ mode = "source" /\ IncludeNext /\ UNCHANGED <<mode, vars>>
  \/ mode = "package" /\ TrustNext /\ UNCHANGED <<mode, includeVars>>

MCSpec == Init /\ [][Next]_allVars

----------------------------------------------------------------------------
(* Two files beside the root source in the include root "s", and two below  *)
(* "s/lib".  Two of the names lead to different files from there, one       *)
(* leads out of the include root from above.                                *)

Names == {<<"a">>, <<"lib", "b">>, <<"..", "a">>, <<"b">>}
UpTo(n, S) == UNION {[1 .. k -> S] : k \in 0 .. n}

Content(includes, requires, contexts, limits, size) ==
  [includes |-> includes, requires |-> requires, contexts |-> contexts, limits |-> limits,
   size |-> size, utf8 |-> TRUE, parses |-> TRUE]
Ledger(v) == [tool |-> "ledger", version |-> v]
Field(t) == [name |-> "user", type |-> t]

MCRoots ==
  {Content(i, << >>, << >>, 1, 1) : i \in UpTo(2, Names)}
  \cup {Content(<<<<"a">>, <<"lib", "b">>>>, <<Ledger(2), Ledger(1)>>, <<Field("x"), Field("y")>>, 0, 1),
        Content(<<<<"/">>>>, << >>, << >>, 1, 1),
        Content(<<<<"a">>>>, << >>, << >>, 1, 9),
        [Content(<<<<"a">>>>, << >>, << >>, 1, 1) EXCEPT !.parses = FALSE]}

Plain(n) == {Content(i, << >>, << >>, 0, 1) : i \in UpTo(n, Names)}

MCFiles ==
  << <<"s", "a">>, <<"s", "lib", "a">>, <<"s", "lib", "b">> >>
MCContentsAt ==
  [p \in Elements(MCFiles) |->
     CASE p = MCFiles[1] -> Plain(1) \cup {Content(<< >>, <<Ledger(1)>>, <<Field("z")>>, 0, 1)}
       [] p = MCFiles[2] -> Plain(1) \cup {Content(<< >>, << >>, << >>, 1, 2),
                                      [Content(<< >>, << >>, << >>, 0, 1) EXCEPT !.utf8 = FALSE]}
       [] p = MCFiles[3] -> Plain(2) \cup {Content(<<<<"..", "a">>>>, <<Ledger(2)>>, << >>, 1, 1),
                                      Content(<< >>, <<Ledger(1)>>, << >>, 1, 1),
                                      Content(<< >>, << >>, << >>, 2, 1),
                                      Content(<<<<"..", "main">>>>, << >>, << >>, 0, 1),
                                      [Content(<< >>, << >>, << >>, 0, 1) EXCEPT !.parses = FALSE]}]

MCRootPath == <<"s", "main">>
MCIncludeRoot == <<".", "s">>

----------------------------------------------------------------------------
(* Two versions of a Skill that writes, one given in a form that is not     *)
(* canonical, and one that only reads; a key, and another one used under    *)
(* the same id.                                                             *)

Artifact(id, semantic, tools, size, canonical) ==
  [id |-> id, semantic |-> semantic, tools |-> tools, body |-> tools, size |-> size,
   build |-> "b", canonical |-> canonical]

PostOld == Artifact(1, "post1", {"READ", "WRITE"}, 1, FALSE)
PostNew == Artifact(1, "post2", {"READ", "WRITE"}, 2, TRUE)
Check == Artifact(2, "check", {"READ"}, 2, TRUE)

MCArtifacts == {PostOld, PostNew, Check}

(* The newer version with the reading Skill, signed, has four members of up *)
(* to 3 and together 8 bytes, and 13 bytes as an archive: each of the       *)
(* limits refuses it, and only one of them does.                            *)
MCBytes == [frame |-> 1, entry |-> 1, signature |-> 1, header |-> 1, end |-> 1]

MCLimits == { [package |-> 13, members |-> 4, member |-> 3, total |-> 7],
              [package |-> 13, members |-> 4, member |-> 2, total |-> 8],
              [package |-> 13, members |-> 3, member |-> 3, total |-> 8],
              [package |-> 12, members |-> 4, member |-> 3, total |-> 8] }

MCSigners == { [key |-> "k1", private |-> "K1"], [key |-> "k1", private |-> "Other"] }

MCStores == { [k \in {"k1"} |-> "K1"], [k \in {} |-> "K1"] }

MCPolicies == { [environment |-> "PRODUCTION", allowUnsigned |-> FALSE],
                [environment |-> "DEVELOPMENT", allowUnsigned |-> FALSE],
                [environment |-> "DEVELOPMENT", allowUnsigned |-> TRUE] }

Pinned(S, a, age) ==
  [environment |-> "PRODUCTION", tenant |-> "t", policy |-> TrustPolicy,
   package |-> Manifest(CHOOSE s \in Orderings(Prepared(S)) : TRUE), artifact |-> Canonical(a),
   semantic |-> a.semantic, publishers |-> {Publisher}, keys |-> {"k1"}, maxAge |-> age,
   allowUnsigned |-> FALSE]

Development(unsigned) ==
  [environment |-> "DEVELOPMENT", tenant |-> "t", policy |-> None, package |-> None,
   artifact |-> None, semantic |-> None, publishers |-> {}, keys |-> {}, maxAge |-> None,
   allowUnsigned |-> unsigned]

MCProfiles == { Pinned({PostOld, Check}, PostOld, 1), Pinned({PostNew}, PostNew, 1),
                Development(TRUE), Development(FALSE) }

MCContexts == {[tenant |-> "t", skill |-> a] : a \in MCArtifacts}
=============================================================================
