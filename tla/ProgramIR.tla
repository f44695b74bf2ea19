------------------------------ MODULE ProgramIR ------------------------------
(***************************************************************************)
(* The typed Program IR of src/src/program.rs: values, schemas, effects,   *)
(* instructions, and the pure operators the validator and the runtime      *)
(* share.                                                                  *)
(*                                                                         *)
(* Abstractions of data.  A JSON schema is the set of values it accepts,   *)
(* so validate_value(schema, v) is v \in schema and the schema {} that     *)
(* accepts everything is Value itself.  A JSON value is a member of the    *)
(* constant Value; the arrays among them are tuples, listed in ArrayValue. *)
(* A projection path is a name p, and Field[p] maps each value that has    *)
(* the path to what lies there.  An effect is its permission and, for a    *)
(* local tool, the schema of its arguments.  Program counters start at 1,  *)
(* those of the code at 0.  A function is named by a pair: <<0, n>> is the *)
(* program's own function n, <<k, n>> the function n of the k-th installed *)
(* fragment.                                                               *)
(***************************************************************************)
EXTENDS Integers, Sequences, FiniteSets

CONSTANTS
  Value,        \* every JSON value
  ArrayValue,   \* the values that are arrays, as tuples of values
  Null,         \* JSON null
  Field,        \* Field[p][v]: what path p selects in v
  FragmentOf,   \* FragmentOf[v]: the ProgramFragment that the value v encodes
  MaxBody       \* MAX_INSTRUCTIONS_PER_FUNCTION

(* A Vec, of elements of any type.                                         *)
IsSequence(s) == s \in Seq({s[i] : i \in DOMAIN s})

ASSUME ValueAssumption ==
  /\ MaxBody \in Nat
  /\ Null \in Value
  /\ ArrayValue \subseteq Value /\ \A a \in ArrayValue : IsSequence(a)
  /\ DOMAIN FragmentOf \subseteq Value

InputVar == "$input"

(* EffectCall::handler_name and the permissions it can carry.              *)
BuiltinTools == {"fast_path_apply", "validator_apply", "template_emit"}
StrongPermissions == {"strong_task", "think", "compile_program"}

HandlerName(effect) ==
  CASE effect.perm = "weak_task"            -> "weak_model"
    [] effect.perm \in StrongPermissions    -> "strong_model"
    [] OTHER                                -> "local_tool"

Effect(perm) == [perm |-> perm, args |-> Value]
LocalTool(tool, argsSchema) == [perm |-> tool, args |-> argsSchema]

EffectAllowed(allowed, effect) == effect.perm \in allowed

-----------------------------------------------------------------------------
(* Expressions.  An Object is evaluated field by field exactly as an Array *)
(* is item by item, so one compound form stands for both.                  *)
Lit(v)       == [kind |-> "lit", value |-> v]
Var(name)    == [kind |-> "var", name |-> name]
Arr(names)   == [kind |-> "array", names |-> names]

ReadVars(expr) ==
  CASE expr.kind = "lit"   -> {}
    [] expr.kind = "var"   -> {expr.name}
    [] expr.kind = "array" -> {expr.names[i] : i \in DOMAIN expr.names}

EvalExpr(env, expr) ==
  CASE expr.kind = "lit"   -> expr.value
    [] expr.kind = "var"   -> env[expr.name]
    [] expr.kind = "array" -> [i \in DOMAIN expr.names |-> env[expr.names[i]]]

(* Guards.  "exists" ignores the set; "schema" is JsonSchemaValid with its *)
(* schema; "field" is FieldEquals or FieldIsTruthy with the set of values  *)
(* for which the field test holds.                                         *)
Exists(name)           == [kind |-> "exists", var |-> name, set |-> Value]
SchemaValid(name, set) == [kind |-> "schema", var |-> name, set |-> set]
FieldTest(name, set)   == [kind |-> "field",  var |-> name, set |-> set]

GuardPasses(env, cond) ==
  /\ cond.var \in DOMAIN env
  /\ cond.kind # "exists" => env[cond.var] \in cond.set

(* guard_resume_contract: the schema a repaired guard variable must meet.  *)
AnyValueRepairs(cond) == Value
GuardResumeSchema(cond) == IF cond.kind = "schema" THEN cond.set ELSE Value

-----------------------------------------------------------------------------
Policy(minConfidence, requireSchemaValid, onFailure) ==
  [minConfidence |-> minConfidence, requireSchemaValid |-> requireSchemaValid,
   onFailure |-> onFailure]

(* The instructions, enum Instr.                                           *)
Let(out, expr)           == [op |-> "let", out |-> out, expr |-> expr]
Project(out, from, path) == [op |-> "project", out |-> out, expr |-> from, path |-> path]
Guard(cond, onFail)      == [op |-> "guard", cond |-> cond, onFail |-> onFail]
Branch(cond, t, e)       == [op |-> "branch", cond |-> cond, then |-> t, else |-> e]
Jump(t)                  == [op |-> "jump", target |-> t]
Call(out, fn, args)      == [op |-> "call", out |-> out, fn |-> fn, args |-> args]
Map(out, items, itemVar, fn) ==
  [op |-> "map", out |-> out, expr |-> items, itemVar |-> itemVar, fn |-> fn]
CallDynamic(out, fragment, args) ==
  [op |-> "call_dynamic", out |-> out, expr |-> fragment, args |-> args]
Perform(out, effect, input, schema, policy) ==
  [op |-> "perform", out |-> out, effect |-> effect, expr |-> input,
   schema |-> schema, policy |-> policy]
Return(expr)             == [op |-> "return", expr |-> expr]

Function(params, schema, body) == [params |-> params, schema |-> schema, body |-> body]

(* The types serde reads a Program or a ProgramFragment into: as much of   *)
(* them as no validator has to check.                                      *)
TypedInstr(instr) ==
  /\ instr.op = "guard" => instr.cond.kind \in {"exists", "schema", "field"}
  /\ instr.op = "call"  => DOMAIN instr = {"op", "out", "fn", "args"}
  /\ instr.op = "map"   => DOMAIN instr = {"op", "out", "expr", "itemVar", "fn"}

TypedFunction(f) ==
  /\ DOMAIN f = {"params", "schema", "body"}
  /\ IsSequence(f.params) /\ IsSequence(f.body)
  /\ \A pc \in DOMAIN f.body : TypedInstr(f.body[pc])

WellTyped(p) ==
  \A name \in DOMAIN p.functions : name = <<0, name[2]>> /\ TypedFunction(p.functions[name])

ASSUME FragmentAssumption == \A v \in DOMAIN FragmentOf : WellTyped(FragmentOf[v])

(* Instr::output_var.                                                      *)
OutputVars(instr) ==
  IF instr.op \in {"let", "project", "perform", "call", "map", "call_dynamic"}
  THEN {instr.out} ELSE {}

(* guard_think_repair_target: the variable a failed guard's repair binds.  *)
RepairTargets(instr) ==
  IF instr.op = "guard" /\ instr.onFail = "think" THEN {instr.cond.var} ELSE {}

ArgVars(args) == UNION {ReadVars(args[i]) : i \in DOMAIN args}

(* The variables whose absence from the environment makes the runtime fail *)
(* on this instruction; guards test absence and are not among them.        *)
NeededVars(instr) ==
  CASE instr.op \in {"let", "project", "perform", "map", "return"} -> ReadVars(instr.expr)
    [] instr.op = "call"         -> ArgVars(instr.args)
    [] instr.op = "call_dynamic" -> ReadVars(instr.expr) \cup ArgVars(instr.args)
    [] OTHER                     -> {}

Bind(env, name, v) == [n \in DOMAIN env \cup {name} |-> IF n = name THEN v ELSE env[n]]

(* bind_params: parameters in order, and $input is the first of them.      *)
BindParams(params, args) ==
  LET bound == [n \in {params[i] : i \in DOMAIN params} |->
                  args[CHOOSE i \in DOMAIN params : params[i] = n]]
  IN IF params = <<>> THEN bound ELSE Bind(bound, InputVar, args[1])

(* prefix_function_refs: calls inside the k-th fragment stay inside it.    *)
PrefixRefs(k, function) ==
  LET renamed(instr) == IF instr.op \in {"call", "map"}
                        THEN [instr EXCEPT !.fn = <<k, instr.fn[2]>>] ELSE instr
  IN [function EXCEPT !.body = [pc \in DOMAIN @ |-> renamed(@[pc])]]
=============================================================================
