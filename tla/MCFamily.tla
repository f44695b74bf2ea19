------------------------------- MODULE MCFamily -------------------------------
(***************************************************************************)
(* CpsRuntime over every program of a family: a main function of three     *)
(* instructions and a return, and a helper.  Init keeps the programs the   *)
(* validator accepts, so the runs show what validation is worth.           *)
(***************************************************************************)
EXTENDS MCRuntime

FamilyInstrs(pc) ==
  {Let("x", Lit(ok)), Let("y", Var("x")),
   Guard(Exists("x"), "think"), Guard(SchemaValid("x", {ok}), "abort"),
   Perform("x", Weak, Var("$input"), {ok}, Strict),
   Call("y", Helper, <<Var("x")>>), Map("y", Var("$input"), "item", Helper),
   Return(Var("x"))}
  \cup {Jump(t) : t \in 2 .. 5}
  \cup {Branch(SchemaValid("$input", {<<>>}), t, pc + 1) : t \in pc .. 5}

HelperBodies ==
  {<<Return(Var("m"))>>, <<Call("y", Helper, <<Var("m")>>), Return(Var("y"))>>,
   <<Guard(Exists("x"), "think"), Return(Var("x"))>>}

FamilyPrograms ==
  {Program({<<>>, <<ok, bad>>}, MCValue, {"weak_task", "think"},
     (Main :> Function(<<>>, MCValue, <<i, j, k, Return(Var(r))>>)) @@
     (Helper :> Function(<<"m">>, MCValue, helper))) :
       i \in FamilyInstrs(1), j \in FamilyInstrs(2), k \in FamilyInstrs(3),
       r \in {"x", "y"}, helper \in HelperBodies}

FamilyReplies ==
  [weak_model |-> {Reply(ok, "high"), Reply(bad, "high")},
   strong_model |-> {Reply(ok, "high"), Failure},
   local_tool |-> {Failure}]
=============================================================================
