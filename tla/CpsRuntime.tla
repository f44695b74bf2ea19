------------------------------ MODULE CpsRuntime ------------------------------
(***************************************************************************)
(* One boundary of the CPS runtime, src/src/runtime.rs: a validated        *)
(* program run on one input.  The interpreter executes instructions, asks  *)
(* handlers (weak model, strong model, local tools) to resolve effects,    *)
(* lets a handler request nested effects, captures a continuation when an  *)
(* effect or a guard fails, and resumes it with a repaired value.          *)
(*                                                                         *)
(* The async recursion of resolve_effect is the sequence calls: one record *)
(* per activation, the innermost last.  A handler is the environment: it   *)
(* may answer with any decision of Replies.  Nothing else of the boundary  *)
(* runs while a handler is awaited, because step holds &mut ProgramState   *)
(* across the await; so each instruction fetch, each decision and each     *)
(* delivery of a result is one atomic action.                              *)
(***************************************************************************)
EXTENDS Validator

CONSTANTS
  Programs,              \* the programs the boundary may be started with
  Replies,               \* handler name -> the decisions it may return
  EncoderMayFail,        \* a frame encoder is installed and its store can fail
  MaxInstructions,       \* RuntimeBudget
  MaxEffects,
  MaxEffectDepth,
  MaxHandlerReentries,
  MaxProgramFragments,
  MaxPatchAttempts

ASSUME BudgetAssumption ==
  /\ MaxInstructions \in Nat /\ MaxEffects \in Nat /\ MaxEffectDepth \in Nat
  /\ MaxHandlerReentries \in Nat /\ MaxProgramFragments \in Nat
  /\ MaxPatchAttempts \in Nat /\ EncoderMayFail \in BOOLEAN

(* The variants of HandlerDecision, and the error a handler may return.    *)
DecisionKinds ==
  {"return_value", "request_effect", "return_program", "return_program_fragment",
   "return_program_patch", "abort", "error"}

ASSUME ProgramAssumption == \A p \in Programs : WellTyped(p)

ASSUME ReplyAssumption ==
  \A h \in DOMAIN Replies : \A d \in Replies[h] : d.decision \in DecisionKinds

VARIABLES
  prog,          \* host_program
  funcs,         \* program.functions: the host's and the installed fragments'
  stack,         \* Vec<RuntimeFrame>
  fuel,          \* fuel_remaining
  effectsLeft,   \* effects_remaining
  fragments,     \* fragment_count
  patchAttempts, \* patch_attempts
  pending,       \* pending_patches
  calls,         \* the resolve_effect activations in progress
  returned,      \* {} or the resolution the innermost activation produced
  cont,          \* {} or the continuation handle_captured_think holds
  status,        \* "running", "finished" or "aborted"
  reason,        \* why it aborted
  output,        \* {} or the value it finished with
  trace,         \* the trace events replay looks at
  decisions      \* history: how often a handler was called

budgetVars == <<fuel, effectsLeft, fragments, patchAttempts, pending, decisions>>
vars == <<prog, funcs, stack, calls, returned, cont, status, reason, output, trace, budgetVars>>

Last(s)  == s[Len(s)]
Front(s) == SubSeq(s, 1, Len(s) - 1)

-----------------------------------------------------------------------------
(* Frames, return slots and the instruction about to run.                  *)
NoReturn == [kind |-> "none"]
CallReturn(callerFn, callerPc, var, schema) ==
  [kind |-> "call", callerFn |-> callerFn, callerPc |-> callerPc, var |-> var,
   schema |-> schema]
MapReturn(callerFn, callerPc, out, itemVar, fn, items, results) ==
  [kind |-> "map", callerFn |-> callerFn, callerPc |-> callerPc, var |-> out,
   itemVar |-> itemVar, fn |-> fn, items |-> items, results |-> results]

Frame(fn, env, ret) == [fn |-> fn, pc |-> 1, env |-> env, ret |-> ret]

Top   == Last(stack)
Instr == funcs[Top.fn].body[Top.pc]
InRange == Top.fn \in DOMAIN funcs /\ Top.pc \in DOMAIN funcs[Top.fn].body

(* The stack after the top frame moves to pc with v bound to name.         *)
Moved(s, pc, name, v) ==
  LET top == Last(s)
  IN [s EXCEPT ![Len(s)] = [top EXCEPT !.pc = pc, !.env = Bind(top.env, name, v)]]
Jumped(s, pc) == [s EXCEPT ![Len(s)].pc = pc]

(* push_map_item_frame: the item is the parameter, item_var and $input.    *)
MapItemFrame(ret) ==
  LET item  == ret.items[Len(ret.results) + 1]
      param == funcs[ret.fn].params[1]
  IN Frame(ret.fn, [n \in {param, ret.itemVar, InputVar} |-> item], ret)

(* Every operand the instruction needs is there.  The code returns an      *)
(* error where this is false; the validator is meant to make it so.        *)
OperandsDefined ==
  /\ InRange
  /\ NeededVars(Instr) \subseteq DOMAIN Top.env
  /\ Instr.op = "perform" => EffectAllowed(prog.allowed, Instr.effect)
  /\ Instr.op = "call" =>
       /\ Instr.fn \in DOMAIN funcs
       /\ Len(funcs[Instr.fn].params) = Len(Instr.args)
  /\ Instr.op = "map" =>
       Instr.fn \in DOMAIN funcs /\ Len(funcs[Instr.fn].params) = 1

(* What the operands must satisfy at run time: a projected path exists, a  *)
(* mapped value is an array, a dynamic callee is a valid fragment whose    *)
(* entry takes one argument and accepts it, with permissions the host has. *)
FragmentUnvalidated(f, args) ==
  /\ Len(f.functions[f.entry].params) = 1 /\ Len(args) = 1
  /\ EvalExpr(Top.env, args[1]) \in f.input
  /\ fragments < MaxProgramFragments
  /\ f.allowed \subseteq prog.allowed

FragmentOK(f, args) ==
  /\ ValidFragment(f)
  /\ Len(f.functions[f.entry].params) = 1 /\ Len(args) = 1
  /\ EvalExpr(Top.env, args[1]) \in f.input
  /\ fragments < MaxProgramFragments
  /\ f.allowed \subseteq prog.allowed

OperandsOK ==
  LET v == EvalExpr(Top.env, Instr.expr) IN
  /\ Instr.op = "project" => v \in DOMAIN Field[Instr.path]
  /\ Instr.op = "map" => v \in ArrayValue
  /\ Instr.op = "call_dynamic" => v \in DOMAIN FragmentOf /\ FragmentOK(FragmentOf[v], Instr.args)

-----------------------------------------------------------------------------
(* Ways a run ends, and the trace events replay reads.                     *)
Event(name, id) == [ev |-> name, id |-> id]

AbortUntraced(events, why) ==
  /\ status' = "aborted" /\ reason' = why
  /\ trace' = trace \o events
  /\ calls' = <<>> /\ returned' = {} /\ cont' = {}
  /\ UNCHANGED <<prog, funcs, stack, output>>

AbortAfter(events, why) ==
  /\ status' = "aborted" /\ reason' = why
  /\ trace' = trace \o events \o <<Event("program_aborted", 0)>>
  /\ calls' = <<>> /\ returned' = {} /\ cont' = {}
  /\ UNCHANGED <<prog, funcs, stack, output>>

Abort(why) == AbortAfter(<<>>, why)

Captured == {i \in DOMAIN trace : trace[i].ev = "capture_continuation"}

(* make_effect_frame: snapshot the stack and the fuel.  The top frame's pc *)
(* still names the failed instruction; resume goes past it.                *)
Capture(why, resumeVar, schema, fuelNow) ==
  LET id == Cardinality(Captured) + 1 IN
  /\ cont' = {[id |-> id, stack |-> stack, fuel |-> fuelNow, why |-> why,
               resumePc |-> Top.pc + 1, resumeVar |-> resumeVar,
               schema |-> schema, depth |-> 0]}
  /\ trace' = Append(trace, Event("capture_continuation", id))
  /\ calls' = <<>> /\ returned' = {}
  /\ UNCHANGED <<prog, funcs, stack, status, reason, output>>

-----------------------------------------------------------------------------
(* Starting an effect: depth, effect budget, then local-tool arguments.    *)
Activation(effect, schema, depth, framed, mode) ==
  [effect |-> effect, schema |-> schema, depth |-> depth, framed |-> framed,
   mode |-> mode, reentries |-> 0]

RefusalWithoutBudget(effect, input, depth) ==
  IF depth > MaxEffectDepth THEN "depth"
  ELSE IF input \notin effect.args THEN "args"
  ELSE "none"

Refusal(effect, input, depth) ==
  IF depth > MaxEffectDepth THEN "depth"
  ELSE IF effectsLeft = 0 THEN "effects"
  ELSE IF input \notin effect.args THEN "args"
  ELSE "none"

(* Local-tool arguments are checked after the effect has been paid for.    *)
Charged(why) == IF why = "args" THEN 1 ELSE 0

(* AllowedDecision: what the handler of a captured frame may answer.       *)
FrameDecisions(schema) ==
  {"return_value", "request_effect", "abort"}
    \cup IF Null \in schema THEN {"return_program_patch"} ELSE {}

(* ensure_handler_decision_allowed.                                        *)
DecisionAllowed(a, d) ==
  /\ a.framed => d.decision \in FrameDecisions(a.schema)
  /\ d.decision = "return_program" => a.effect.perm = "compile_program"
  /\ d.decision = "return_program_patch" /\ ~a.framed =>
       HandlerName(a.effect) = "strong_model"

(* A nested effect has to be one the host program allows.                  *)
NestedRefusalUnconfined(d, depth) == Refusal(d.effect, d.input, depth)

NestedRefusal(d, depth) ==
  IF EffectAllowed(prog.allowed, d.effect) THEN Refusal(d.effect, d.input, depth)
  ELSE "not_allowed"

(* The error a decision the handler may make leads to, or "none".          *)
DecisionError(a, d) ==
  CASE d.decision = "abort" -> "handler_aborted"
    [] d.decision = "return_value" ->
         IF d.confidence = "invalid" THEN "confidence" ELSE "none"
    [] d.decision = "request_effect" ->
         IF d.mode = "reenter" /\ a.reentries >= MaxHandlerReentries THEN "reentry"
         ELSE NestedRefusal(d, a.depth + 1)
    [] d.decision = "return_program" ->
         IF d.valid THEN "none" ELSE "invalid_program"
    [] d.decision = "return_program_fragment" ->
         IF ValidFragment(FragmentOf[d.value]) THEN "none" ELSE "invalid_fragment"
    [] d.decision = "return_program_patch" ->
         IF Null \notin a.schema THEN "patch_schema"
         ELSE IF patchAttempts >= MaxPatchAttempts THEN "patch_attempts"
         ELSE IF d.valid THEN "none" ELSE "invalid_patch"

Verdict(a, d) == IF DecisionAllowed(a, d) THEN DecisionError(a, d) ELSE "decision"

(* accepted_by_policy.                                                     *)
AcceptedByPolicy(instr, r) ==
  /\ instr.policy.minConfidence = "high" => r.confidence = "high"
  /\ instr.policy.requireSchemaValid => r.value \in instr.schema

-----------------------------------------------------------------------------
(* ProgramState::new: only a validated program and an input its schema     *)
(* accepts start; $input, and the entry's parameter if it has one, hold    *)
(* the input.                                                              *)
EntryEnv(p, input) ==
  LET params == p.functions[p.entry].params
  IN [n \in {InputVar} \cup {params[i] : i \in DOMAIN params} |-> input]

Init ==
  /\ prog \in {p \in Programs : ValidProgram(p)}
  /\ funcs = prog.functions
  /\ \E input \in prog.input : stack = <<Frame(prog.entry, EntryEnv(prog, input), NoReturn)>>
  /\ fuel = MaxInstructions /\ effectsLeft = MaxEffects
  /\ fragments = 0 /\ patchAttempts = 0 /\ pending = <<>>
  /\ calls = <<>> /\ returned = {} /\ cont = {}
  /\ status = "running" /\ reason = "none" /\ output = {}
  /\ trace = <<>> /\ decisions = 0

(* The interpreter is between instructions.                                *)
Fetching == status = "running" /\ calls = <<>> /\ returned = {} /\ cont = {}

(* consume_instruction_fuel, then the instruction at the top frame's pc.   *)
Fetch(op) ==
  /\ Fetching /\ fuel > 0 /\ OperandsDefined /\ Instr.op = op /\ OperandsOK
  /\ fuel' = fuel - 1

FuelExhausted ==
  /\ Fetching /\ fuel = 0
  /\ Abort("fuel")
  /\ UNCHANGED budgetVars

OperandError ==
  /\ Fetching /\ fuel > 0
  /\ ~(OperandsDefined /\ OperandsOK)
  /\ fuel' = fuel - 1
  /\ Abort(IF OperandsDefined THEN "operand" ELSE "internal")
  /\ UNCHANGED <<effectsLeft, fragments, patchAttempts, pending, decisions>>

(* What an instruction that starts no effect leaves alone.                 *)
PureStep ==
  /\ UNCHANGED <<prog, calls, returned, cont, effectsLeft, patchAttempts, pending, decisions>>

LocalStep ==
  /\ PureStep
  /\ UNCHANGED <<funcs, fragments, status, reason, output, trace>>

ExecLet ==
  /\ Fetch("let")
  /\ stack' = Moved(stack, Top.pc + 1, Instr.out, EvalExpr(Top.env, Instr.expr))
  /\ LocalStep

ExecProject ==
  /\ Fetch("project")
  /\ stack' = Moved(stack, Top.pc + 1, Instr.out,
                    Field[Instr.path][EvalExpr(Top.env, Instr.expr)])
  /\ LocalStep

ExecBranch ==
  /\ Fetch("branch")
  /\ stack' = Jumped(stack, IF GuardPasses(Top.env, Instr.cond)
                            THEN Instr.then ELSE Instr.else)
  /\ LocalStep

ExecJump ==
  /\ Fetch("jump")
  /\ stack' = Jumped(stack, Instr.target)
  /\ LocalStep

GuardPass ==
  /\ Fetch("guard")
  /\ GuardPasses(Top.env, Instr.cond)
  /\ stack' = Jumped(stack, Top.pc + 1)
  /\ LocalStep

EffectBudgetUnchanged ==
  UNCHANGED <<effectsLeft, fragments, patchAttempts, pending, decisions>>

GuardAbort ==
  /\ Fetch("guard")
  /\ ~GuardPasses(Top.env, Instr.cond) /\ Instr.onFail = "abort"
  /\ Abort("guard")
  /\ EffectBudgetUnchanged

GuardThinkRefundsFuel ==
  /\ Fetch("guard")
  /\ ~GuardPasses(Top.env, Instr.cond) /\ Instr.onFail = "think"
  /\ Capture("guard", Instr.cond.var, GuardResumeSchema(Instr.cond), fuel)
  /\ EffectBudgetUnchanged

GuardThink ==
  /\ Fetch("guard")
  /\ ~GuardPasses(Top.env, Instr.cond) /\ Instr.onFail = "think"
  /\ Capture("guard", Instr.cond.var, GuardResumeSchema(Instr.cond), fuel - 1)
  /\ EffectBudgetUnchanged

-----------------------------------------------------------------------------
(* Calls, maps, dynamic fragments and returns.                             *)
Args(exprs) == [i \in DOMAIN exprs |-> EvalExpr(Top.env, exprs[i])]

ExecCall ==
  /\ Fetch("call")
  /\ stack' = Append(stack, Frame(Instr.fn, BindParams(funcs[Instr.fn].params, Args(Instr.args)),
                                  CallReturn(Top.fn, Top.pc + 1, Instr.out, Value)))
  /\ LocalStep

ExecMap ==
  LET items == EvalExpr(Top.env, Instr.expr) IN
  /\ Fetch("map")
  /\ stack' = IF items = <<>> THEN Moved(stack, Top.pc + 1, Instr.out, <<>>)
              ELSE Append(stack, MapItemFrame(
                     MapReturn(Top.fn, Top.pc + 1, Instr.out, Instr.itemVar, Instr.fn,
                               items, <<>>)))
  /\ LocalStep

(* The fresh prefix install_fragment draws for a fragment's functions.     *)
SharedPrefix == 1
FragmentPrefix == fragments + 1

(* install_fragment renames the fragment's functions apart from every      *)
(* other, then its entry is called with the fragment's output schema.      *)
ExecCallDynamic ==
  /\ Fetch("call_dynamic")
  /\ LET f         == FragmentOf[EvalExpr(Top.env, Instr.expr)]
         k         == FragmentPrefix
         installed == {<<k, n[2]>> : n \in DOMAIN f.functions}
     IN /\ fragments' = fragments + 1
        /\ funcs' = [n \in DOMAIN funcs \cup installed |->
                       IF n \in installed THEN PrefixRefs(k, f.functions[<<0, n[2]>>])
                       ELSE funcs[n]]
        /\ stack' = Append(stack,
             Frame(<<k, f.entry[2]>>,
                   BindParams(f.functions[f.entry].params, Args(Instr.args)),
                   CallReturn(Top.fn, Top.pc + 1, Instr.out, f.output)))
  /\ PureStep
  /\ UNCHANGED <<status, reason, output, trace>>

Returned == EvalExpr(Top.env, Instr.expr)
OutputOK ==
  /\ Returned \in funcs[Top.fn].schema
  /\ Top.ret.kind = "none" => Returned \in prog.output
  /\ Top.ret.kind = "call" => Returned \in Top.ret.schema

ReturnRefused ==
  /\ Fetch("return") /\ ~OutputOK
  /\ Abort("output_schema")
  /\ EffectBudgetUnchanged

FinishProgram ==
  /\ Fetch("return") /\ OutputOK /\ Top.ret.kind = "none"
  /\ status' = "finished" /\ output' = {Returned}
  /\ trace' = Append(trace, Event("program_finished", 0))
  /\ PureStep
  /\ UNCHANGED <<funcs, stack, fragments, reason>>

ReturnToCaller ==
  /\ Fetch("return") /\ OutputOK /\ Top.ret.kind = "call"
  /\ stack' = Moved(Front(stack), Top.ret.callerPc, Top.ret.var, Returned)
  /\ LocalStep

(* The next item of the map gets a fresh frame; after the last one the     *)
(* caller gets the results in item order.                                  *)
ReturnToMapKeepsFrame ==
  /\ Fetch("return") /\ OutputOK /\ Top.ret.kind = "map"
  /\ LET results == Append(Top.ret.results, Returned)
     IN stack' = IF Len(results) < Len(Top.ret.items)
                 THEN Append(stack, MapItemFrame([Top.ret EXCEPT !.results = results]))
                 ELSE Moved(Front(stack), Top.ret.callerPc, Top.ret.var, results)
  /\ LocalStep

ReturnToMap ==
  /\ Fetch("return") /\ OutputOK /\ Top.ret.kind = "map"
  /\ LET results == Append(Top.ret.results, Returned)
     IN stack' = IF Len(results) < Len(Top.ret.items)
                 THEN Append(Front(stack), MapItemFrame([Top.ret EXCEPT !.results = results]))
                 ELSE Moved(Front(stack), Top.ret.callerPc, Top.ret.var, results)
  /\ LocalStep

-----------------------------------------------------------------------------
(* Effects.  A perform is the root activation, at depth 0; the captured    *)
(* Think is the root activation at depth 1, with the captured frame.       *)
BeginNestedForFree(activation) ==
  /\ calls' = Append(calls, activation)
  /\ effectsLeft' = effectsLeft - IF calls = <<>> THEN 1 ELSE 0
  /\ UNCHANGED <<prog, funcs, stack, returned, cont, status, reason, output>>

Begin(activation) ==
  /\ calls' = Append(calls, activation)
  /\ effectsLeft' = effectsLeft - 1
  /\ UNCHANGED <<prog, funcs, stack, returned, cont, status, reason, output>>

ExecPerform ==
  /\ Fetch("perform")
  /\ Refusal(Instr.effect, EvalExpr(Top.env, Instr.expr), 0) = "none"
  /\ Begin(Activation(Instr.effect, Instr.schema, 0, FALSE, "root"))
  /\ UNCHANGED <<fragments, patchAttempts, pending, decisions, trace>>

PerformRefused ==
  LET why == Refusal(Instr.effect, EvalExpr(Top.env, Instr.expr), 0) IN
  /\ Fetch("perform")
  /\ why # "none"
  /\ Abort(why)
  /\ effectsLeft' = effectsLeft - Charged(why)
  /\ UNCHANGED <<fragments, patchAttempts, pending, decisions>>

(* handle_captured_think up to the handler call.                           *)
Think == Effect("think")
ThinkPending == status = "running" /\ cont # {} /\ calls = <<>>

StartThink ==
  /\ ThinkPending
  /\ \E c \in cont :
       /\ Refusal(Think, Null, c.depth + 1) = "none"
       /\ EffectAllowed(prog.allowed, Think)
       /\ Begin(Activation(Think, c.schema, c.depth + 1, TRUE, "root"))
  /\ UNCHANGED <<fuel, fragments, patchAttempts, pending, decisions, trace>>

ThinkRefused ==
  /\ ThinkPending
  /\ \E c \in cont :
       LET why == IF EffectAllowed(prog.allowed, Think)
                  THEN Refusal(Think, Null, c.depth + 1) ELSE "internal"
       IN why # "none" /\ Abort(why)
  /\ UNCHANGED budgetVars

(* The frame encoder writes continuation parts to its store first.         *)
EncoderFails ==
  /\ ThinkPending /\ EncoderMayFail
  /\ Abort("encoder")
  /\ UNCHANGED budgetVars

(* The handler of the innermost activation answers with d.                 *)
Answers(d) ==
  /\ status = "running" /\ calls # <<>> /\ returned = {}
  /\ d \in Replies[HandlerName(Last(calls).effect)]
  /\ decisions' = decisions + 1

(* The handler_decision event, kept only where replay might look: a strong *)
(* return_value that fails the expected schema.                            *)
DecisionEvents(d) ==
  IF /\ d.decision = "return_value" /\ HandlerName(Last(calls).effect) = "strong_model"
     /\ d.value \notin Last(calls).schema
  THEN <<Event("strong_return_value_schema_invalid", 0)>> ELSE <<>>

Resolve(value, confidence) ==
  /\ returned' = {[value |-> value, confidence |-> confidence]}
  /\ UNCHANGED <<prog, funcs, stack, calls, cont, status, reason, output,
                 fuel, effectsLeft, fragments>>

DecideValue(d) ==
  /\ Answers(d) /\ d.decision = "return_value" /\ Verdict(Last(calls), d) = "none"
  /\ trace' = trace \o DecisionEvents(d)
  /\ Resolve(d.value, d.confidence)
  /\ UNCHANGED <<patchAttempts, pending>>

(* A compiled Program or a ProgramFragment becomes a JSON value.           *)
DecideCode(d) ==
  /\ Answers(d) /\ d.decision \in {"return_program", "return_program_fragment"}
  /\ Verdict(Last(calls), d) = "none"
  /\ Resolve(d.value, "high")
  /\ UNCHANGED <<patchAttempts, pending, trace>>

(* A patch is kept for the caller of run_program; the value is null.       *)
DecidePatch(d) ==
  /\ Answers(d) /\ d.decision = "return_program_patch" /\ Verdict(Last(calls), d) = "none"
  /\ patchAttempts' = patchAttempts + 1
  /\ pending' = Append(pending, d)
  /\ Resolve(Null, "high")
  /\ UNCHANGED trace

DecideRequest(d) ==
  LET a == Last(calls) IN
  /\ Answers(d) /\ d.decision = "request_effect" /\ Verdict(a, d) = "none"
  /\ Begin(Activation(d.effect, d.schema, a.depth + 1, FALSE, d.mode))
  /\ UNCHANGED <<fuel, fragments, patchAttempts, pending, trace>>

(* A decision the runtime refuses is an error that no policy captures.     *)
DecisionRefused(d) ==
  /\ Answers(d) /\ d.decision # "error" /\ Verdict(Last(calls), d) # "none"
  /\ LET why == Verdict(Last(calls), d) IN
       /\ AbortAfter(DecisionEvents(d), why)
       /\ effectsLeft' = effectsLeft - Charged(why)
       /\ patchAttempts' = patchAttempts + IF why = "invalid_patch" THEN 1 ELSE 0
  /\ UNCHANGED <<fuel, fragments, pending>>

(* is_handler_failure: the handler itself failed, at whatever depth.  It   *)
(* unwinds every activation; a perform whose policy says so captures,      *)
(* anything else, a captured Think included, aborts.                       *)
HandlerFailsRecaptures(d) ==
  /\ Answers(d) /\ d.decision = "error"
  /\ IF Instr.op = "perform" /\ Instr.policy.onFailure = "capture"
     THEN Capture("perform", Instr.out, Instr.schema, fuel)
     ELSE Abort("handler_failed")
  /\ UNCHANGED <<fuel, effectsLeft, fragments, patchAttempts, pending>>

HandlerFails(d) ==
  /\ Answers(d) /\ d.decision = "error"
  /\ IF cont = {} /\ Instr.policy.onFailure = "capture"
     THEN Capture("perform", Instr.out, Instr.schema, fuel)
     ELSE Abort("handler_failed")
  /\ UNCHANGED <<fuel, effectsLeft, fragments, patchAttempts, pending>>

-----------------------------------------------------------------------------
(* A nested resolution goes to the activation that requested it.           *)
Delivering == status = "running" /\ returned # {}

NestedReturn ==
  /\ Delivering /\ Len(calls) > 1
  /\ \E r \in returned :
       LET child == Last(calls)  outer == Front(calls) IN
       \/ /\ r.value \notin child.schema
          /\ Abort("nested_schema")
       \/ /\ r.value \in child.schema
          /\ calls' = IF child.mode = "use_as_value" THEN outer
                      ELSE [outer EXCEPT ![Len(outer)].reentries = @ + 1]
          /\ returned' = IF child.mode = "use_as_value" THEN returned ELSE {}
          /\ UNCHANGED <<prog, funcs, stack, cont, status, reason, output, trace>>
  /\ UNCHANGED budgetVars

AcceptResult ==
  /\ Delivering /\ Len(calls) = 1 /\ cont = {}
  /\ \E r \in returned :
       /\ AcceptedByPolicy(Instr, r)
       /\ stack' = Moved(stack, Top.pc + 1, Instr.out, r.value)
  /\ calls' = <<>> /\ returned' = {}
  /\ UNCHANGED <<prog, funcs, cont, status, reason, output, trace, budgetVars>>

RejectResult ==
  /\ Delivering /\ Len(calls) = 1 /\ cont = {}
  /\ \E r \in returned : ~AcceptedByPolicy(Instr, r)
  /\ IF Instr.policy.onFailure = "capture"
     THEN Capture("perform", Instr.out, Instr.schema, fuel)
     ELSE Abort("rejected")
  /\ UNCHANGED budgetVars

(* resume_with: the snapshot becomes the running state, its top frame at   *)
(* the resume pc with the repaired value bound.                            *)
ResumeUntraced ==
  /\ Delivering /\ Len(calls) = 1
  /\ \E c \in cont, r \in returned :
       /\ r.value \in c.schema
       /\ stack' = Moved(c.stack, c.resumePc, c.resumeVar, r.value)
       /\ fuel' = c.fuel
  /\ calls' = <<>> /\ returned' = {} /\ cont' = {}
  /\ UNCHANGED <<prog, funcs, status, reason, output, trace,
                 effectsLeft, fragments, patchAttempts, pending, decisions>>

ResumeTopFrameOnly ==
  /\ Delivering /\ Len(calls) = 1
  /\ \E c \in cont, r \in returned :
       /\ r.value \in c.schema
       /\ stack' = Moved(<<Last(c.stack)>>, c.resumePc, c.resumeVar, r.value)
       /\ fuel' = c.fuel
       /\ trace' = Append(trace, Event("resume_continuation", c.id))
  /\ calls' = <<>> /\ returned' = {} /\ cont' = {}
  /\ UNCHANGED <<prog, funcs, status, reason, output,
                 effectsLeft, fragments, patchAttempts, pending, decisions>>

ResumeContinuation ==
  /\ Delivering /\ Len(calls) = 1
  /\ \E c \in cont, r \in returned :
       /\ r.value \in c.schema
       /\ stack' = Moved(c.stack, c.resumePc, c.resumeVar, r.value)
       /\ fuel' = c.fuel
       /\ trace' = Append(trace, Event("resume_continuation", c.id))
  /\ calls' = <<>> /\ returned' = {} /\ cont' = {}
  /\ UNCHANGED <<prog, funcs, status, reason, output,
                 effectsLeft, fragments, patchAttempts, pending, decisions>>

ThinkInvalidIgnored ==
  /\ Delivering /\ Len(calls) = 1
  /\ \E c \in cont, r \in returned : r.value \notin c.schema
  /\ UNCHANGED vars

ThinkInvalid ==
  /\ Delivering /\ Len(calls) = 1
  /\ \E c \in cont, r \in returned : r.value \notin c.schema
  /\ Abort("think_schema")
  /\ UNCHANGED budgetVars

-----------------------------------------------------------------------------
Terminated == status # "running" /\ UNCHANGED vars

Execute ==
  \/ FuelExhausted \/ OperandError
  \/ ExecLet \/ ExecProject \/ ExecBranch \/ ExecJump
  \/ GuardPass \/ GuardAbort \/ GuardThink
  \/ ExecCall \/ ExecMap \/ ExecCallDynamic
  \/ ReturnRefused \/ FinishProgram \/ ReturnToCaller \/ ReturnToMap
  \/ ExecPerform \/ PerformRefused

AllDecisions == UNION {Replies[h] : h \in DOMAIN Replies}

Handle ==
  \E d \in AllDecisions :
    \/ DecideValue(d) \/ DecideCode(d) \/ DecidePatch(d) \/ DecideRequest(d)
    \/ DecisionRefused(d) \/ HandlerFails(d)

Settle ==
  \/ StartThink \/ ThinkRefused \/ EncoderFails
  \/ NestedReturn \/ AcceptResult \/ RejectResult
  \/ ResumeContinuation \/ ThinkInvalid

Next == Execute \/ Handle \/ Settle \/ Terminated

Spec == Init /\ [][Next]_vars

(* Every handler call answers or fails, and the executor keeps polling.    *)
FairSpec == Spec /\ WF_vars(Next)
=============================================================================
