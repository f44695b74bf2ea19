------------------------------ MODULE Validator ------------------------------
(***************************************************************************)
(* Static validation of programs and fragments, src/src/validator.rs.      *)
(* Every JSON schema is taken to be well formed (validate_json_schema      *)
(* succeeds); everything else the validator refuses is refused here.       *)
(***************************************************************************)
EXTENDS ProgramIR

(* instr_successors: where control may go from pc inside one function.     *)
Successors(body, pc) ==
  LET instr == body[pc] IN
  CASE instr.op = "branch" -> {instr.then, instr.else}
    [] instr.op = "jump"   -> {instr.target}
    [] instr.op = "return" -> {}
    [] OTHER               -> {pc + 1} \cap DOMAIN body

(* apply_instr_definitions.                                                *)
Defines(instr) == OutputVars(instr) \cup RepairTargets(instr)

(* merge_definitions: what every incoming path defines.                    *)
DefinedOnSomePath(sets) == UNION sets
DefinedOnEveryPath(sets) == {v \in UNION sets : \A S \in sets : v \in S}

Nowhere == [reached |-> FALSE, defined |-> {}]

(* The forward pass of validate_definite_assignments.  At each pc: is it   *)
(* reachable, and which variables does every path to it define.  Targets   *)
(* are forward-only, so all predecessors of pc lie below it.               *)
Arriving(body, initial, at, pc) ==
  LET preds == {q \in 1 .. pc - 1 : pc \in Successors(body, q) /\ at[q].reached}
      after(q) == at[q].defined \cup Defines(body[q])
  IN IF pc = 1 THEN [reached |-> TRUE, defined |-> initial]
     ELSE IF preds = {} THEN Nowhere
     ELSE [reached |-> TRUE, defined |-> DefinedOnEveryPath({after(q) : q \in preds})]

DefinedAt(body, initial) ==
  LET At[pc \in DOMAIN body] == Arriving(body, initial, At, pc) IN At

-----------------------------------------------------------------------------
ForwardTarget(body, pc, target) == target \in DOMAIN body /\ target > pc

SupportedEffect(effect) ==
  effect.perm \in {"weak_task"} \cup StrongPermissions \cup BuiltinTools

(* validate_instr_shape: the checks made of every instruction, reachable   *)
(* or not.                                                                 *)
ShapeOK(functions, allowed, body, pc) ==
  LET instr == body[pc] IN
  /\ InputVar \notin OutputVars(instr) \cup RepairTargets(instr)
  /\ instr.op = "perform" =>
       /\ SupportedEffect(instr.effect)
       /\ EffectAllowed(allowed, instr.effect)
       /\ instr.policy.onFailure = "capture" => "think" \in allowed
  /\ RepairTargets(instr) # {} => "think" \in allowed
  /\ instr.op = "branch" =>
       ForwardTarget(body, pc, instr.then) /\ ForwardTarget(body, pc, instr.else)
  /\ instr.op = "jump" => ForwardTarget(body, pc, instr.target)
  /\ instr.op = "call" =>
       /\ instr.fn \in DOMAIN functions
       /\ Len(functions[instr.fn].params) = Len(instr.args)
  /\ instr.op = "map" =>
       /\ instr.itemVar # InputVar
       /\ instr.fn \in DOMAIN functions
       /\ Len(functions[instr.fn].params) = 1

(* validate_instr: what a reachable instruction reads is defined there.  A *)
(* guard that repairs by Think may ask for a variable that does not exist. *)
ReadsDefined(instr, defined) ==
  /\ NeededVars(instr) \subseteq defined
  /\ instr.op \in {"guard", "branch"} =>
       \/ instr.cond.var \in defined
       \/ instr.cond.kind = "exists" /\ RepairTargets(instr) # {}

(* validate_function.                                                      *)
ValidFunction(functions, allowed, name, inputIsBound) ==
  LET f       == functions[name]
      params  == {f.params[i] : i \in DOMAIN f.params}
      initial == params \cup IF inputIsBound THEN {InputVar} ELSE {}
  IN /\ Len(f.body) \in 1 .. MaxBody
     /\ f.body[Len(f.body)].op = "return"
     /\ InputVar \notin params
     /\ Cardinality(params) = Len(f.params)
     /\ \A pc \in DOMAIN f.body : ShapeOK(functions, allowed, f.body, pc)
     /\ LET at == DefinedAt(f.body, initial)
        IN \A pc \in DOMAIN f.body :
             at[pc].reached => ReadsDefined(f.body[pc], at[pc].defined)

(* ensure_no_static_recursion: a finite call graph has a cycle exactly     *)
(* when some non-empty set of functions each call into that set.           *)
Callees(function) == {function.body[pc].fn : pc \in
                        {q \in DOMAIN function.body : function.body[q].op \in {"call", "map"}}}

NoStaticRecursion(functions) ==
  \A S \in (SUBSET DOMAIN functions) \ {{}} :
    \E f \in S : Callees(functions[f]) \cap S = {}

(* validate_program_with_entry_input: bindsInput is TRUE for a program,    *)
(* whose entry the runtime gives one input, and FALSE for a fragment.      *)
Valid(p, bindsInput) ==
  /\ p.entry \in DOMAIN p.functions
  /\ bindsInput => Len(p.functions[p.entry].params) <= 1
  /\ p.allowed \subseteq {"weak_task"} \cup StrongPermissions \cup BuiltinTools
  /\ \A f \in DOMAIN p.functions :
       ValidFunction(p.functions, p.allowed, f,
                     p.functions[f].params # <<>> \/ (bindsInput /\ f = p.entry))
  /\ NoStaticRecursion(p.functions)

ValidProgram(p)  == Valid(p, TRUE)
ValidFragment(p) == Valid(p, FALSE)
=============================================================================
