------------------------------ MODULE PatchOps ------------------------------
(***************************************************************************)
(* validate_patch of src/src/validator.rs: the operations of a patch are   *)
(* applied one after the other to a copy of the base program, and what     *)
(* comes out must pass the validator.  Branch and jump targets are plain   *)
(* program counters, so an insertion can change what they mean.            *)
(*                                                                         *)
(* A patch is written by a model, in any order and with any coordinates    *)
(* (author "model"), or is the fixed sequence of semantic_program_patch in *)
(* src/src/experiment/runner.rs (author "semantic").                       *)
(*                                                                         *)
(* The variable marks is no part of the code.  It gives every instruction  *)
(* slot of a function a number that insertions do not change, and remembers*)
(* which slots the targets of its instruction were when it was written.    *)
(***************************************************************************)
EXTENDS Validator

Seqs == INSTANCE SequencesExt

CONSTANTS
  Programs,   \* the base programs
  ModelOps,   \* the operations a model may write
  Truthy,     \* the values FieldIsTruthy holds for, on the field it reads
  MaxOps      \* bound on the operations of a model's patch

VARIABLES
  base,       \* the program given to validate_patch
  author,     \* who wrote the patch
  program,    \* the copy being patched
  marks,      \* marks[f][pc]: the slot at pc and the slots its targets meant
  applied,    \* operations applied so far
  verdict     \* "unread", "open", "accepted" or "refused"

vars == <<base, author, program, marks, applied, verdict>>

-----------------------------------------------------------------------------
(* The operations, enum PatchOp.                                           *)
AddEffectPermission(perm)      == [op |-> "permission", perm |-> perm]
ReplaceInstruction(f, pc, i)   == [op |-> "replace", fn |-> f, pc |-> pc, instr |-> i]
InsertInstruction(f, pc, i)    == [op |-> "insert", fn |-> f, pc |-> pc, instr |-> i]
AddFunction(f, function)       == [op |-> "function", fn |-> f, def |-> function]
UpdateAcceptancePolicy(f, pc, policy) ==
  [op |-> "acceptance", fn |-> f, pc |-> pc, policy |-> policy]

Main == <<0, "main">>
Strictly(reason) == Policy("high", TRUE, reason)

(* semantic_program_patch: ask the weak model which rule fits, validate,   *)
(* emit the answer; on a miss go on with what was the first instruction.   *)
FallbackPc == 7
MatchSteps ==
  <<AddEffectPermission("validator_apply"),
    AddEffectPermission("template_emit"),
    InsertInstruction(Main, 1, Perform("semantic_match", Effect("weak_task"),
      Arr(<<"event">>), Value, Policy("none", FALSE, "abort"))),
    InsertInstruction(Main, 2, Branch(FieldTest("semantic_match", Truthy), 3, FallbackPc))>>
ValidationSteps ==
  <<InsertInstruction(Main, 3, Perform("semantic_validation", LocalTool("validator_apply", Value),
      Arr(<<"semantic_match", "event">>), Truthy, Strictly("abort"))),
    InsertInstruction(Main, 4, Branch(FieldTest("semantic_validation", Truthy), 5, FallbackPc))>>
EmitSteps(outputSchema) ==
  <<InsertInstruction(Main, 5, Perform("fast_action", LocalTool("template_emit", Value),
      Arr(<<"event", "semantic_match">>), outputSchema, Strictly("abort"))),
    InsertInstruction(Main, 6, Return(Var("fast_action")))>>
SemanticPatch(outputSchema) == MatchSteps \o ValidationSteps \o EmitSteps(outputSchema)

-----------------------------------------------------------------------------
Targets(instr) ==
  CASE instr.op = "branch" -> <<instr.then, instr.else>>
    [] instr.op = "jump"   -> <<instr.target>>
    [] OTHER               -> <<>>

IsControlFlow(instr) == instr.op \in {"branch", "jump"}

(* functions_with_control_flow, of the base program.                       *)
FunctionsWithControlFlow(p) ==
  {f \in DOMAIN p.functions :
     \E pc \in DOMAIN p.functions[f].body : IsControlFlow(p.functions[f].body[pc])}

(* reject_insert_that_shifts_control_flow_target.                          *)
ShiftsPastTarget(body, insertPc) ==
  \E pc \in DOMAIN body : \E i \in DOMAIN Targets(body[pc]) : Targets(body[pc])[i] > insertPc
ShiftsTarget(body, insertPc) ==
  \E pc \in DOMAIN body : \E i \in DOMAIN Targets(body[pc]) : Targets(body[pc])[i] >= insertPc

(* The slot numbers at an instruction's targets; 0 where there is no slot. *)
SlotAt(marked, pc) == IF pc \in DOMAIN marked THEN marked[pc].slot ELSE 0
Means(marked, instr) ==
  [i \in DOMAIN Targets(instr) |-> SlotAt(marked, Targets(instr)[i])]

(* A body is a sequence of instructions whose targets are numbers.         *)
IsInstr(instr) ==
  /\ "op" \in DOMAIN instr
  /\ \A i \in DOMAIN Targets(instr) : Targets(instr)[i] \in Nat
IsBody(body) ==
  /\ body \in Seq({body[pc] : pc \in DOMAIN body})
  /\ \A pc \in DOMAIN body : IsInstr(body[pc])
IsFunction(f) ==
  /\ f = [params |-> f.params, schema |-> f.schema, body |-> f.body]
  /\ IsBody(f.body)

(* What serde has checked when it has read a program and a patch.          *)
ASSUME WellFormedAssumption ==
  /\ \A p \in Programs :
       /\ p = [entry |-> p.entry, functions |-> p.functions, input |-> p.input,
               output |-> p.output, allowed |-> p.allowed]
       /\ p.functions = [f \in DOMAIN p.functions |-> p.functions[f]]
       /\ \A f \in DOMAIN p.functions : IsFunction(p.functions[f])
  /\ \A op \in ModelOps :
       /\ op.op \in {"replace", "insert", "acceptance"} => op.pc \in Nat
       /\ op.op \in {"replace", "insert"} => IsInstr(op.instr)
       /\ op.op = "function" => IsFunction(op.def)

Marked(body) ==
  LET numbered == [pc \in DOMAIN body |-> [slot |-> pc, means |-> <<>>]]
  IN [pc \in DOMAIN body |-> [slot |-> pc, means |-> Means(numbered, body[pc])]]

Init ==
  /\ base \in Programs
  /\ author \in {"model", "semantic"}
  /\ program = base
  /\ marks = [f \in DOMAIN base.functions |-> Marked(base.functions[f].body)]
  /\ applied = 0
  /\ verdict = "unread"

(* The patch id must be a file name and the target program the base.       *)
CheckHeader(valid) ==
  /\ verdict = "unread"
  /\ verdict' = IF valid THEN "open" ELSE "refused"
  /\ UNCHANGED <<base, author, program, marks, applied>>

Refuse ==
  /\ verdict' = "refused"
  /\ UNCHANGED <<base, author, program, marks, applied>>

Applied ==
  /\ applied' = applied + 1
  /\ UNCHANGED <<base, author, verdict>>

SetBody(f, body) == program' = [program EXCEPT !.functions[f].body = body]

-----------------------------------------------------------------------------
(* The arms of apply_patch_op.                                             *)
GrantPermission(op) ==
  /\ op.op = "permission"
  /\ program' = [program EXCEPT !.allowed = @ \cup {op.perm}]
  /\ Applied
  /\ UNCHANGED marks

HasSlot(op) ==
  /\ op.fn \in DOMAIN program.functions
  /\ op.pc \in DOMAIN program.functions[op.fn].body

Replace(op) ==
  /\ op.op = "replace"
  /\ IF HasSlot(op)
     THEN /\ SetBody(op.fn, [program.functions[op.fn].body EXCEPT ![op.pc] = op.instr])
          /\ marks' = [marks EXCEPT ![op.fn][op.pc].means = Means(marks[op.fn], op.instr)]
          /\ Applied
     ELSE Refuse

MayInsert(op) ==
  /\ op.fn \in DOMAIN program.functions
  /\ LET body == program.functions[op.fn].body
     IN /\ op.pc \in 1 .. Len(body) + 1
        /\ op.fn \in FunctionsWithControlFlow(base) => ~ShiftsTarget(body, op.pc)

InsertMark(marked, pc, instr) ==
  LET slot    == Len(marked) + 1
      opened  == Seqs!InsertAt(marked, pc, [slot |-> slot, means |-> <<>>])
  IN [opened EXCEPT ![pc].means = Means(opened, instr)]

Insert(op) ==
  /\ op.op = "insert"
  /\ IF MayInsert(op)
     THEN /\ SetBody(op.fn, Seqs!InsertAt(program.functions[op.fn].body, op.pc, op.instr))
          /\ marks' = [marks EXCEPT ![op.fn] = InsertMark(@, op.pc, op.instr)]
          /\ Applied
     ELSE Refuse

OverrideFunction(op) ==
  /\ op.op = "function"
  /\ program' = [program EXCEPT !.functions = Bind(@, op.fn, op.def)]
  /\ marks' = Bind(marks, op.fn, IF op.fn \in DOMAIN marks THEN marks[op.fn] ELSE Marked(op.def.body))
  /\ Applied

DefineFunction(op) ==
  /\ op.op = "function"
  /\ IF op.fn \in DOMAIN program.functions
     THEN Refuse
     ELSE /\ program' = [program EXCEPT !.functions = Bind(@, op.fn, op.def)]
          /\ marks' = Bind(marks, op.fn, Marked(op.def.body))
          /\ Applied

SetAcceptance(op) ==
  /\ op.op = "acceptance"
  /\ IF HasSlot(op) /\ program.functions[op.fn].body[op.pc].op = "perform"
     THEN /\ SetBody(op.fn, [program.functions[op.fn].body EXCEPT ![op.pc].policy = op.policy])
          /\ Applied
          /\ UNCHANGED marks
     ELSE Refuse

Patch == SemanticPatch(base.output)
Written ==
  IF author = "semantic" THEN {Patch[i] : i \in {applied + 1} \cap DOMAIN Patch}
  ELSE IF applied < MaxOps THEN ModelOps ELSE {}
Complete == author = "semantic" => applied = Len(Patch)

(* validate_program of the result.                                         *)
Conclude ==
  /\ verdict = "open"
  /\ Complete
  /\ verdict' = IF ValidProgram(program) THEN "accepted" ELSE "refused"
  /\ UNCHANGED <<base, author, program, marks, applied>>

ApplyPatchOp(op) ==
  /\ verdict = "open"
  /\ \/ GrantPermission(op)
     \/ Replace(op)
     \/ Insert(op)
     \/ DefineFunction(op)
     \/ SetAcceptance(op)

Next ==
  \/ \E valid \in BOOLEAN : CheckHeader(valid)
  \/ \E op \in Written : ApplyPatchOp(op)
  \/ Conclude

Spec == Init /\ [][Next]_vars

-----------------------------------------------------------------------------
Body(f) == program.functions[f].body

(* validator.rs 712: a patch takes no function away; every slot has a mark. *)
TypeOK ==
  /\ base \in Programs
  /\ author \in {"model", "semantic"}
  /\ verdict \in {"unread", "open", "accepted", "refused"}
  /\ applied \in Nat
  /\ DOMAIN base.functions \subseteq DOMAIN program.functions
  /\ DOMAIN marks = DOMAIN program.functions
  /\ \A f \in DOMAIN marks : DOMAIN marks[f] = DOMAIN Body(f)

(* validator.rs 804: in a function that had branches or jumps, every       *)
(* branch or jump still leads to the instruction slot it led to when it    *)
(* was written, the patch's own instructions included, however the later   *)
(* operations of the patch move the function's slots.                      *)
TargetsKept ==
  \A f \in FunctionsWithControlFlow(base) : \A pc \in DOMAIN Body(f) :
    Means(marks[f], Body(f)[pc]) = marks[f][pc].means

(* runner.rs 2961: the semantic patch adds a way to an answer in front of  *)
(* the base program and nothing else.  Every edge from its instructions    *)
(* into the base's enters at the base's first instruction, and every edge  *)
(* of the base goes where it went.                                         *)
SemanticFallsBack ==
  verdict = "accepted" /\ author = "semantic" =>
    LET old  == base.functions[Main].body
        new  == Body(Main)
        slot(pc) == marks[Main][pc].slot
        IsOld(pc) == slot(pc) \in DOMAIN old
    IN \A pc \in DOMAIN new :
         IF IsOld(pc)
         THEN {slot(q) : q \in Successors(new, pc)} = Successors(old, slot(pc))
         ELSE \A q \in Successors(new, pc) : IsOld(q) => slot(q) = 1
=============================================================================
