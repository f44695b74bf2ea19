------------------------ MODULE CpsRuntimeProperties ------------------------
(***************************************************************************)
(* What is claimed of CpsRuntime.                                          *)
(***************************************************************************)
EXTENDS CpsRuntime, TraceReplay

(* Types: the counters stay within their budgets, stack and calls are      *)
(* sequences, there is always a frame, and at most one resolution and one  *)
(* continuation exist (ProgramState, resolve_effect, handle_captured_think).*)
TypeOK ==
  /\ fuel \in 0 .. MaxInstructions /\ effectsLeft \in 0 .. MaxEffects
  /\ fragments \in 0 .. MaxProgramFragments
  /\ patchAttempts \in 0 .. MaxPatchAttempts
  /\ decisions \in Nat
  /\ status \in {"running", "finished", "aborted"}
  /\ IsSequence(stack) /\ stack # <<>>
  /\ IsSequence(calls)
  /\ \A c, d \in cont : c = d
  /\ \A r, s \in returned : r = s

-----------------------------------------------------------------------------
(* Continuations.                                                          *)

(* While a continuation is held, however deep the repairing handler's      *)
(* nested effects go, neither the stack nor the fuel moves: resuming it    *)
(* neither undoes work nor refunds instructions (make_effect_frame clones  *)
(* the stack and the fuel, resume_with overwrites both).                   *)
CaptureIsolation == \A c \in cont : c.stack = stack /\ c.fuel = fuel

(* The captures of a running boundary's trace that no resume answers are   *)
(* exactly the continuation it holds.                                      *)
HeldIsUnresumed == status = "running" => Unresumed(trace) = {c.id : c \in cont}

(* However a run ends, its trace passes `replay`.                          *)
ReplayAccepts == status # "running" => Replays(trace)

(* A guard that fails because its variable is missing or fails its schema  *)
(* holds once the repaired value is bound.  (A field guard has no such     *)
(* promise: guard_resume_contract asks nothing of its repair.)             *)
RepairedGuardHolds ==
  [][(/\ cont # {} /\ cont' = {} /\ status' = "running"
      /\ Instr.op = "guard" /\ Instr.cond.kind # "field")
     => GuardPasses(Last(stack').env, Instr.cond)]_vars

(* The runtime keeps the promises of Boundary.                             *)
Promise == INSTANCE Boundary
             WITH phase <- status, issued <- Cardinality(Captured),
                  held <- {c.id : c \in cont}
KeepsPromise == Promise!Spec

-----------------------------------------------------------------------------
(* Frames.                                                                 *)

(* Each frame's return slot names the frame below it, the instruction that *)
(* called, the variable it writes and the pc after it; only the entry's    *)
(* frame has none, and a map frame has items left to compute.              *)
ReturnsToCaller(callee, caller) ==
  LET site == funcs[caller.fn].body[caller.pc] IN
  /\ callee.ret.callerFn = caller.fn
  /\ callee.ret.callerPc = caller.pc + 1
  /\ site.op \in {"call", "map", "call_dynamic"} /\ callee.ret.var = site.out
  /\ callee.ret.kind = "map" =>
       callee.fn = callee.ret.fn /\ Len(callee.ret.results) < Len(callee.ret.items)

FrameChain ==
  \A i \in DOMAIN stack :
    /\ stack[i].ret.kind = "none" <=> i = 1
    /\ i > 1 => ReturnsToCaller(stack[i], stack[i - 1])

(* A step changes the top frame, pushes one on it or pops it.  The frames  *)
(* below, suspended callers, never change, resumes included; the caller a  *)
(* pop uncovers goes on after its call with nothing but the result bound.  *)
Resumed(caller, name, v) == [caller EXCEPT !.pc = @ + 1, !.env = Bind(@, name, v)]

CallersSuspended ==
  [][LET old == Len(stack)  new == Len(stack') IN
     /\ new \in old - 1 .. old + 1
     /\ \A i \in 1 .. old : (i < old /\ i < new) \/ new > old => stack'[i] = stack[i]
     /\ new < old =>
          /\ Top.ret.var \in DOMAIN stack'[new].env
          /\ stack'[new] = Resumed(stack[new], Top.ret.var, stack'[new].env[Top.ret.var])]_vars

(* No function is active twice, fragments that call fragments included, so *)
(* the stack is bounded by the number of functions (ensure_no_static_      *)
(* recursion, and install_fragment's fresh names).                         *)
NoReentrantFunction ==
  \A i, j \in DOMAIN stack : stack[i].fn = stack[j].fn => i = j

(* A validated program or fragment never meets an undefined variable, a    *)
(* missing function, a pc outside the body, a wrong number of arguments or *)
(* an effect it may not perform, at any pc, resume or return.              *)
NeverGoesWrong == Fetching => OperandsDefined

-----------------------------------------------------------------------------
(* Effects and budgets.                                                    *)

(* allowed_effects confines every handler call: the program's own, those   *)
(* of the fragments it installs and those its handlers request.            *)
OnlyAllowedEffects == \A i \in DOMAIN calls : EffectAllowed(prog.allowed, calls[i].effect)

(* Activations whose handler has not yet resolved them.                    *)
Unresolved == Len(calls) - Cardinality(returned)

(* The effect budget bounds how often models and tools are called, although*)
(* a re-entered handler is called again without an effect of its own: each *)
(* effect pays for one call and for one re-entry.  The depth budget bounds *)
(* how deep the calls nest.                                                *)
HandlerCallsBounded ==
  /\ decisions <= 2 * (MaxEffects - effectsLeft) - Unresolved
  /\ Len(calls) <= MaxEffectDepth + 1

(* docs/runtime.md, line 93: replay checks that "strong `return_value`     *)
(* entries are not schema-invalid".                                        *)
DocReplayRejectsInvalid ==
  status # "running" /\ Replays(trace) =>
    Positions(trace, "strong_return_value_schema_invalid") = {}

(* Every run ends: control only moves forward, calls do not recurse, and   *)
(* every handler call is answered or fails (FairSpec).                     *)
Termination == <>(status # "running")
=============================================================================
