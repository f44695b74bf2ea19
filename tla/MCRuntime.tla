------------------------------ MODULE MCRuntime ------------------------------
(***************************************************************************)
(* Small instances of CpsRuntime: a handful of values, programs that use   *)
(* every instruction, and handlers that answer with every kind of decision.*)
(***************************************************************************)
EXTENDS CpsRuntimeProperties, TLC

CONSTANTS ok, bad, null, fragV, nestingFragV, brokenFragV

MCScalar   == {ok, bad, null}
MCArray    == {<<>>} \cup {<<a>> : a \in {ok, bad}} \cup {<<a, b>> : a \in {ok, bad}, b \in {ok, bad}}
MCValue    == MCScalar \cup MCArray \cup {fragV, nestingFragV, brokenFragV}
MCField    == [p |-> [v \in {<<ok>>, <<ok, ok>>, <<bad, ok>>} |-> v[1]]]

Main   == <<0, "main">>
Helper == <<0, "helper">>
Weak   == Effect("weak_task")
Strong == Effect("strong_task")
Tool   == LocalTool("validator_apply", {ok, bad})
Strict == Policy("high", TRUE, "capture")

(* A fragment whose body performs a local tool, one that asks the model    *)
(* for a fragment to call (itself, perhaps), and one the validator refuses *)
(* because it reads a variable no path defines.                            *)
FragmentWith(allowed, body) ==
  [entry |-> Main, functions |-> (Main :> Function(<<"x">>, MCValue, body)),
   input |-> {ok, bad}, output |-> {ok}, allowed |-> allowed]

Codes == {fragV, nestingFragV, brokenFragV}

MCFragmentOf ==
  (fragV :> FragmentWith({"validator_apply"},
     <<Perform("y", Tool, Var("x"), {ok}, Policy("none", TRUE, "abort")), Return(Var("y"))>>)) @@
  (nestingFragV :> FragmentWith({"strong_task"},
     <<Perform("f", Strong, Lit(null), Codes, Policy("none", TRUE, "abort")),
       CallDynamic("y", Var("f"), <<Var("x")>>), Return(Var("y"))>>)) @@
  (brokenFragV :> FragmentWith({"strong_task"}, <<Return(Var("y"))>>))

Program(accepts, yields, allowed, functions) ==
  [entry |-> Main, functions |-> functions, input |-> accepts, output |-> yields,
   allowed |-> allowed]

(* The shape of examples/message_action.program.json: each item of a map   *)
(* is drafted by the weak model and checked by the helper's own guard.     *)
MapProgram ==
  Program({<<>>, <<ok, bad>>}, MCArray, {"weak_task", "think"},
    (Main :> Function(<<"items">>, MCArray,
       <<Map("out", Var("items"), "item", Helper), Return(Var("out"))>>)) @@
    (Helper :> Function(<<"m">>, {ok},
       <<Perform("draft", Weak, Var("m"), {ok}, Strict), Return(Var("draft"))>>)))

(* Every control-flow instruction, both guard outcomes, and a repair that  *)
(* may be answered with a patch because its schema accepts null.           *)
GuardProgram ==
  Program({<<ok>>, <<bad, ok>>, <<ok, ok>>, ok}, {ok, null, <<ok>>, bad},
    {"strong_task", "validator_apply", "think"},
    (Main :> Function(<<"in">>, MCValue,
       <<Project("head", Var("in"), "p"),
         Branch(FieldTest("head", {ok}), 3, 4),
         Jump(5),
         Guard(Exists("extra"), "think"),
         Perform("v", Strong, Var("head"), {ok}, Policy("none", FALSE, "abort")),
         Guard(SchemaValid("v", {ok, null}), "think"),
         Guard(FieldTest("head", {ok}), "abort"),
         Call("out", Helper, <<Var("v"), Var("head")>>),
         Return(Var("out"))>>)) @@
    (Helper :> Function(<<"a", "b">>, {ok, null, <<ok>>},
       <<Let("pair", Arr(<<"b">>)), Branch(FieldTest("a", {null}), 3, 4),
         Return(Var("pair")), Return(Var("a"))>>)))

(* A model supplies a fragment that the program then calls, twice; fragV   *)
(* may be called only by a program with the permission for its tool.       *)
DynamicProgram(tools) ==
  Program({ok}, MCValue, {"strong_task", "think"} \cup tools,
    (Main :> Function(<<>>, MCValue,
       <<Perform("f", Strong, Lit(null), Codes \cup {null}, Policy("none", TRUE, "capture")),
         CallDynamic("x", Var("f"), <<Var("$input")>>),
         CallDynamic("y", Var("f"), <<Var("x")>>),
         Return(Var("y"))>>)))

(* A strong compile, whose value only has to be accepted; a patch in place *)
(* of it leaves null, which the program's output schema refuses.           *)
CompileProgram ==
  Program({ok}, {ok}, {"compile_program", "weak_task", "think"},
    (Main :> Function(<<>>, MCValue,
       <<Perform("c", Effect("compile_program"), Lit(null), {ok, null}, Strict),
         Return(Var("c"))>>)))

MCPrograms ==
  {MapProgram, GuardProgram, DynamicProgram({"validator_apply"}), DynamicProgram({}),
   CompileProgram}

(* None of them is left out by Init.                                       *)
ASSUME AllProgramsRun == \A p \in MCPrograms : ValidProgram(p)

-----------------------------------------------------------------------------
(* What handlers answer.                                                   *)
Reply(v, c)   == [decision |-> "return_value", value |-> v, confidence |-> c]
Request(e, i, s, m) ==
  [decision |-> "request_effect", effect |-> e, input |-> i, schema |-> s, mode |-> m]
Patch(valid)  == [decision |-> "return_program_patch", valid |-> valid]
Fragment(v)   == [decision |-> "return_program_fragment", value |-> v]
Compiled(valid) == [decision |-> "return_program", value |-> ok, valid |-> valid]
Failure       == [decision |-> "error"]
HandlerAbort  == [decision |-> "abort"]

WeakReplies ==
  {Reply(ok, "high"), Reply(ok, "low"), Reply(bad, "high"), Failure,
   Request(Think, null, {ok}, "use_as_value"), Request(Strong, null, {ok}, "use_as_value"),
   Patch(TRUE)}

StrongReplies ==
  {Reply(ok, "high"), Reply(bad, "high"), Reply(ok, "invalid"), Failure, HandlerAbort,
   Request(Weak, null, {ok}, "reenter"), Request(Tool, ok, {ok, bad}, "reenter"),
   Request(Tool, null, {ok}, "use_as_value"), Request(Think, null, MCValue, "reenter"),
   Patch(TRUE), Patch(FALSE), Fragment(fragV), Fragment(nestingFragV),
   Fragment(brokenFragV), Reply(brokenFragV, "high"),
   Compiled(TRUE), Compiled(FALSE)}

ToolReplies == {Reply(ok, "high"), Reply(bad, "high"), Failure}

MCReplies == [weak_model |-> WeakReplies, strong_model |-> StrongReplies,
              local_tool |-> ToolReplies]
=============================================================================
