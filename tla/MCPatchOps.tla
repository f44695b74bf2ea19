----------------------------- MODULE MCPatchOps -----------------------------
(***************************************************************************)
(* Small instances of PatchOps and SemanticFastPath: the base programs of  *)
(* the repository's patch tests and one with a helper, and every operation *)
(* of a model on them with coordinates up to one past any body's end; for  *)
(* the semantic patch, plans right and wrong in one respect each, and      *)
(* matches of every shape.                                                 *)
(***************************************************************************)
EXTENDS SemanticFastPath, TLC

CONSTANTS ok, null

MCValue == {ok, null}
NoField == [p \in {} |-> <<>>]
NoFragments == [v \in {} |-> v]

Helper == <<0, "helper">>
Hit    == FieldTest("flag", {ok})
Weak   == Effect("weak_task")

Base(allowed, functions) ==
  [entry |-> Main, functions |-> functions, input |-> MCValue, output |-> {ok},
   allowed |-> allowed]

(* tests/system_value_loop.rs, branch_program.                             *)
BranchProgram ==
  Base({}, Main :> Function(<<>>, MCValue,
    <<Let("flag", Lit(ok)), Branch(Hit, 4, 3), Return(Lit(null)), Return(Lit(ok))>>))

JumpProgram ==
  Base({"weak_task"}, Main :> Function(<<"event">>, MCValue,
    <<Jump(3), Return(Lit(null)), Return(Lit(ok))>>))

(* The shape of examples/message_action.program.json.                      *)
WeakProgram ==
  Base({"weak_task", "think"}, Main :> Function(<<"event">>, MCValue,
    <<Perform("draft", Weak, Var("event"), {ok}, Policy("high", TRUE, "capture")),
      Return(Var("draft"))>>))

HelperProgram ==
  Base({"weak_task"},
    (Main :> Function(<<"event">>, MCValue,
       <<Call("x", Helper, <<Var("event")>>), Return(Var("x"))>>)) @@
    (Helper :> Function(<<"flag">>, MCValue,
       <<Branch(Hit, 2, 3), Return(Lit(ok)), Return(Var("flag"))>>)))

(* A first instruction the rest of the program does not read.              *)
ConstantProgram ==
  Base({"weak_task"}, Main :> Function(<<"event">>, MCValue,
    <<Let("flag", Var("event")), Return(Lit(ok))>>))

MCPrograms == {BranchProgram, JumpProgram, WeakProgram, HelperProgram, ConstantProgram}

Instrs == {Return(Lit(null)), Let("flag", Lit(ok)), Jump(3), Jump(4), Branch(Hit, 2, 5)}
Pcs == 1 .. 6
Functions == {Main, Helper}

MCModelOps ==
  UNION {
    {ReplaceInstruction(f, pc, i) : f \in Functions, pc \in Pcs, i \in Instrs},
    {InsertInstruction(f, pc, i) : f \in Functions, pc \in Pcs, i \in Instrs},
    {UpdateAcceptancePolicy(Main, pc, Policy("none", FALSE, "abort")) : pc \in {1, 2}},
    {AddEffectPermission("weak_task")},
    {AddFunction(f, Function(<<>>, MCValue, <<Jump(2), Return(Lit(ok))>>)) : f \in Functions}}

-----------------------------------------------------------------------------
(* The evidence: tasks, one labelled for review too, news, and reviews; a  *)
(* text that looks like a task and is none.                                *)
Label(cluster, kind) == [cluster |-> cluster, kind |-> kind]
MCProfile ==
  <<Label("task", "create_task"), Label("news", "no_action"), Label("doubt", "needs_review"),
    Label("task", "needs_review")>>
MCNegatives ==
  {[text |-> "trap", related |-> {RuleId("task")}], [text |-> Absent, related |-> {RuleId("task")}]}

Rule(cluster, kind) ==
  [id |-> RuleId(cluster), cluster |-> cluster, kind |-> kind, examples |-> {"todo"}]
NegativeGuard(id, cluster, pattern) == [id |-> id, rule |-> RuleId(cluster), pattern |-> pattern]
TaskRule == Rule("task", "create_task")
NewsRule == Rule("news", "ignore")
MCPlan(rules, guards) == [header |-> TRUE, rules |-> rules, guards |-> guards]

MCPlans ==
  {MCPlan({TaskRule, NewsRule}, {NegativeGuard("g1", "task", {"trap"})}),
   MCPlan({TaskRule, NewsRule}, {NegativeGuard("g1", "task", {"trap", ""}),
                                 NegativeGuard("g2", "news", {"todo"})}),
   MCPlan({TaskRule, NewsRule}, {NegativeGuard("g1", "task", {"todo"})}),
   MCPlan({TaskRule, NewsRule}, {NegativeGuard("g1", "news", {"trap"})}),
   MCPlan({TaskRule, NewsRule}, {}),
   MCPlan({TaskRule, NewsRule}, {NegativeGuard("g1", "task", BadRegex)}),
   MCPlan({TaskRule}, {NegativeGuard("g1", "task", {"trap"})}),
   MCPlan({TaskRule, Rule("news", "no_action")}, {NegativeGuard("g1", "task", {"trap"})}),
   MCPlan({TaskRule, NewsRule, Rule("doubt", "needs_review")},
          {NegativeGuard("g1", "task", {"trap"})})}

MCEvents ==
  {[id |-> id, text |-> text] : id \in {"e1", Absent}, text \in {"todo", "trap", "", Absent}}

MCMatches ==
  [matched : {"true", "text", "false"}, rule : {RuleId("task"), RuleId("news"), RuleId("doubt")},
   kind : {"create_task", "ignore", "needs_review"}, sure : BOOLEAN, wellFormed : BOOLEAN]
=============================================================================
