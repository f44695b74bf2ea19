--------------------------- MODULE CpsRuntimeProofs ---------------------------
(***************************************************************************)
(* Theorems about CpsRuntime for every program, every handler, every value *)
(* of the budgets: its type invariant, the isolation of captured           *)
(* continuations, the confinement of handler calls to the permissions of   *)
(* the program, the bound on their number and nesting, the order of the    *)
(* trace it leaves, and the promise of Boundary.                           *)
(***************************************************************************)
EXTENDS CpsRuntimeProperties, FiniteSetTheorems, TLAPS

-----------------------------------------------------------------------------
(* Sequences of elements of any kind.                                      *)

(* A sequence over any set is one over its own elements.                   *)
LEMMA TypedIsSequence ==
  ASSUME NEW S, NEW s \in Seq(S)
  PROVE  IsSequence(s) /\ Len(s) \in Nat /\ DOMAIN s = 1 .. Len(s)
  BY DEF IsSequence

(* Append adds its element after the others.                               *)
LEMMA AppendIsSequence ==
  ASSUME NEW s, IsSequence(s), NEW e
  PROVE  /\ IsSequence(Append(s, e))
         /\ Len(Append(s, e)) = Len(s) + 1
         /\ DOMAIN Append(s, e) = 1 .. Len(s) + 1
         /\ \A i \in 1 .. Len(s) : Append(s, e)[i] = s[i]
         /\ Append(s, e)[Len(s) + 1] = e
PROOF
  <1> DEFINE T == {s[i] : i \in DOMAIN s} \cup {e}
  <1>1. s \in Seq(T)
    BY DEF IsSequence
  <1>2. Append(s, e) \in Seq(T)
    BY <1>1
  <1>3. IsSequence(Append(s, e))
    BY <1>2, TypedIsSequence
  <1> QED
    BY <1>1, <1>2, <1>3

(* Replacing the last element keeps the others.                            *)
LEMMA UpdateIsSequence ==
  ASSUME NEW s, IsSequence(s), s # <<>>, NEW e
  PROVE  /\ IsSequence([s EXCEPT ![Len(s)] = e])
         /\ Len([s EXCEPT ![Len(s)] = e]) = Len(s)
         /\ DOMAIN [s EXCEPT ![Len(s)] = e] = 1 .. Len(s)
         /\ \A i \in 1 .. Len(s) - 1 : [s EXCEPT ![Len(s)] = e][i] = s[i]
         /\ [s EXCEPT ![Len(s)] = e][Len(s)] = e
PROOF
  <1> DEFINE T == {s[i] : i \in DOMAIN s} \cup {e}
             t == [s EXCEPT ![Len(s)] = e]
  <1>1. s \in Seq(T) /\ Len(s) \in Nat \ {0} /\ DOMAIN s = 1 .. Len(s)
    BY DEF IsSequence
  <1>2. t \in [1 .. Len(s) -> T]
    BY <1>1
  <1>3. t \in Seq(T) /\ Len(t) = Len(s)
    BY <1>1, <1>2
  <1>4. IsSequence(t)
    BY <1>3, TypedIsSequence
  <1> QED
    BY <1>1, <1>2, <1>3, <1>4

(* All but the last element.                                               *)
LEMMA FrontIsSequence ==
  ASSUME NEW s, IsSequence(s), s # <<>>
  PROVE  /\ IsSequence(Front(s))
         /\ Len(Front(s)) = Len(s) - 1
         /\ DOMAIN Front(s) = 1 .. Len(s) - 1
         /\ \A i \in 1 .. Len(s) - 1 : Front(s)[i] = s[i]
PROOF
  <1> DEFINE T == {s[i] : i \in DOMAIN s}
  <1>1. s \in Seq(T) /\ Len(s) \in Nat \ {0} /\ DOMAIN s = 1 .. Len(s)
    BY DEF IsSequence
  <1>2. /\ Front(s) \in Seq(T) /\ Len(Front(s)) = Len(s) - 1
        /\ \A i \in 1 .. Len(s) - 1 : Front(s)[i] = s[i]
    BY <1>1 DEF Front
  <1>3. IsSequence(Front(s)) /\ DOMAIN Front(s) = 1 .. Len(Front(s))
    BY <1>2, TypedIsSequence
  <1> QED
    BY <1>1, <1>2, <1>3

-----------------------------------------------------------------------------
(* Stacks: every frame is one, and only the entry's returns to nobody.     *)
IsFrame(f, isEntry) ==
  /\ DOMAIN f = {"fn", "pc", "env", "ret"}
  /\ "kind" \in DOMAIN f.ret
  /\ f.ret.kind = "none" <=> isEntry

WellFramed(s) ==
  /\ IsSequence(s) /\ s # <<>>
  /\ \A i \in 1 .. Len(s) : IsFrame(s[i], i = 1)

(* Moving the top frame on leaves its return slot alone.                   *)
LEMMA TopUpdate ==
  ASSUME NEW s, WellFramed(s), NEW f, IsFrame(f, Len(s) = 1)
  PROVE  WellFramed([s EXCEPT ![Len(s)] = f])
PROOF
  <1>1. Len(s) \in Nat \ {0}
    BY DEF WellFramed, IsSequence
  <1> DEFINE t == [s EXCEPT ![Len(s)] = f]
  <1>2. /\ IsSequence(t) /\ Len(t) = Len(s) /\ t[Len(s)] = f
        /\ \A i \in 1 .. Len(s) - 1 : t[i] = s[i]
    BY UpdateIsSequence DEF WellFramed
  <1>3. t # <<>>
    BY <1>1, <1>2
  <1>4. ASSUME NEW i \in 1 .. Len(t) PROVE IsFrame(t[i], i = 1)
    BY <1>1, <1>2 DEF WellFramed
  <1>5. WellFramed(t)
    <2> HIDE DEF t
    <2> QED
      BY <1>2, <1>3, <1>4 DEF WellFramed
  <1> QED
    BY <1>5

(* Binding a variable and moving on keeps the frames in shape.             *)
LEMMA MovedWellFramed ==
  ASSUME NEW s, WellFramed(s), NEW pc, NEW name, NEW v
  PROVE  WellFramed(Moved(s, pc, name, v))
PROOF
  <1> DEFINE top == s[Len(s)]
             f == [top EXCEPT !.pc = pc, !.env = Bind(@, name, v)]
  <1>1. Len(s) \in 1 .. Len(s) /\ DOMAIN s = 1 .. Len(s)
    BY DEF WellFramed, IsSequence
  <1>2. IsFrame(top, Len(s) = 1)
    BY <1>1 DEF WellFramed
  <1>3. DOMAIN f = DOMAIN top /\ f.ret = top.ret
    BY <1>2 DEF IsFrame
  <1>4. IsFrame(f, Len(s) = 1)
    BY <1>2, <1>3 DEF IsFrame
  <1>5. Moved(s, pc, name, v) = [s EXCEPT ![Len(s)] = f]
    BY <1>1 DEF Moved, Last
  <1>6. WellFramed([s EXCEPT ![Len(s)] = f])
    <2> HIDE DEF f
    <2> QED
      BY <1>4, TopUpdate
  <1> QED
    BY <1>5, <1>6, Zenon

(* So does a jump.                                                         *)
LEMMA JumpedWellFramed ==
  ASSUME NEW s, WellFramed(s), NEW pc
  PROVE  WellFramed(Jumped(s, pc))
PROOF
  <1> DEFINE top == s[Len(s)]
             f == [top EXCEPT !.pc = pc]
  <1>1. Len(s) \in 1 .. Len(s) /\ DOMAIN s = 1 .. Len(s)
    BY DEF WellFramed, IsSequence
  <1>2. IsFrame(top, Len(s) = 1)
    BY <1>1 DEF WellFramed
  <1>3. DOMAIN f = DOMAIN top /\ f.ret = top.ret
    BY <1>2 DEF IsFrame
  <1>4. IsFrame(f, Len(s) = 1)
    BY <1>2, <1>3 DEF IsFrame
  <1>5. Jumped(s, pc) = [s EXCEPT ![Len(s)] = f]
    BY <1>1 DEF Jumped
  <1>6. WellFramed([s EXCEPT ![Len(s)] = f])
    <2> HIDE DEF f
    <2> QED
      BY <1>4, TopUpdate
  <1> QED
    BY <1>5, <1>6, Zenon

(* A frame with a return slot may be pushed on any stack.                  *)
LEMMA PushWellFramed ==
  ASSUME NEW s, WellFramed(s), NEW f, IsFrame(f, FALSE)
  PROVE  WellFramed(Append(s, f))
PROOF
  <1>1. Len(s) \in Nat \ {0}
    BY DEF WellFramed, IsSequence
  <1> DEFINE t == Append(s, f)
  <1>2. /\ IsSequence(t) /\ Len(t) = Len(s) + 1 /\ t[Len(s) + 1] = f
        /\ \A i \in 1 .. Len(s) : t[i] = s[i]
    BY AppendIsSequence DEF WellFramed
  <1>3. t # <<>>
    BY <1>1, <1>2
  <1>4. ASSUME NEW i \in 1 .. Len(t) PROVE IsFrame(t[i], i = 1)
    <2>1. CASE i = Len(s) + 1
      BY <1>1, <1>2, <2>1 DEF IsFrame
    <2>2. CASE i \in 1 .. Len(s)
      BY <1>2, <2>2 DEF WellFramed
    <2> QED
      BY <1>1, <1>2, <2>1, <2>2
  <1>5. WellFramed(t)
    <2> HIDE DEF t
    <2> QED
      BY <1>2, <1>3, <1>4 DEF WellFramed
  <1> QED
    BY <1>5

(* A frame that returns to another has one below it.                       *)
LEMMA PopWellFramed ==
  ASSUME NEW s, WellFramed(s), Last(s).ret.kind # "none"
  PROVE  WellFramed(Front(s))
PROOF
  <1>1. Len(s) \in Nat \ {0}
    BY DEF WellFramed, IsSequence
  <1>2. Len(s) # 1
    BY <1>1 DEF WellFramed, IsFrame, Last
  <1>3. /\ IsSequence(Front(s)) /\ Len(Front(s)) = Len(s) - 1
        /\ \A i \in 1 .. Len(s) - 1 : Front(s)[i] = s[i]
    BY FrontIsSequence DEF WellFramed
  <1>4. Front(s) # <<>>
    BY <1>1, <1>2, <1>3
  <1> QED
    BY <1>1, <1>3, <1>4 DEF WellFramed

-----------------------------------------------------------------------------
(* The inductive invariant.                                                *)
Counters ==
  /\ fuel \in 0 .. MaxInstructions /\ effectsLeft \in 0 .. MaxEffects
  /\ fragments \in 0 .. MaxProgramFragments
  /\ patchAttempts \in 0 .. MaxPatchAttempts
  /\ decisions \in Nat
  /\ status \in {"running", "finished", "aborted"}

(* One continuation at most, a faithful snapshot taken at depth 0, and at  *)
(* most one resolution, produced by an activation.                         *)
Held ==
  /\ \A c, d \in cont : c = d
  /\ \A c \in cont : c.stack = stack /\ c.fuel = fuel /\ c.depth = 0
  /\ \A r, s \in returned : r = s
  /\ calls = <<>> => returned = {}

(* The depth of an activation is its place in the recursion; the captured  *)
(* Think is the one root that starts at 1.                                 *)
BaseDepth == IF cont = {} THEN 0 ELSE 1

IsActivation(a, depth) ==
  /\ DOMAIN a = {"effect", "schema", "depth", "framed", "mode", "reentries"}
  /\ a.depth = depth /\ depth <= MaxEffectDepth
  /\ EffectAllowed(prog.allowed, a.effect)

Nested ==
  /\ IsSequence(calls)
  /\ \A i \in 1 .. Len(calls) : IsActivation(calls[i], BaseDepth + i - 1)

(* What the effects spent so far have not yet paid for is owed to the      *)
(* activations in progress.                                                *)
Paid == decisions <= 2 * (MaxEffects - effectsLeft) - Unresolved

IInv == Counters /\ WellFramed(stack) /\ Held /\ Nested /\ Paid

(* A resolution belongs to the innermost activation.                       *)
LEMMA UnresolvedCount ==
  ASSUME Held, IsSequence(calls)
  PROVE  /\ Len(calls) \in Nat
         /\ returned = {} => Unresolved = Len(calls)
         /\ returned # {} => Len(calls) > 0 /\ Unresolved = Len(calls) - 1
PROOF
  <1>1. Len(calls) \in Nat /\ (calls # <<>> => Len(calls) > 0)
    BY DEF IsSequence
  <1>2. CASE returned = {}
    <2>1. Cardinality(returned) = 0
      BY <1>2, FS_EmptySet
    <2> QED
      BY <1>1, <1>2, <2>1 DEF Unresolved
  <1>3. CASE returned # {}
    <2>1. PICK r : returned = {r}
      BY <1>3 DEF Held
    <2>2. Cardinality(returned) = 1
      BY <2>1, FS_Singleton
    <2> QED
      BY <1>1, <1>3, <2>2 DEF Unresolved, Held
  <1> QED
    BY <1>2, <1>3

(* The empty sequence is a sequence, of length 0.                          *)
LEMMA NoCalls ==
  /\ IsSequence(<<>>) /\ Len(<<>>) = 0
  BY DEF IsSequence

(* The arithmetic of the invariant Paid.                                   *)
LEMMA PaidArithmetic ==
  ASSUME Counters, NEW d2 \in Int, NEW e2 \in Int, NEW u \in Int, NEW u2 \in Int,
         decisions <= 2 * (MaxEffects - effectsLeft) - u,
         d2 - decisions <= 2 * (effectsLeft - e2) + u - u2
  PROVE  d2 <= 2 * (MaxEffects - e2) - u2
PROOF
  <1>1. decisions \in Int /\ effectsLeft \in Int /\ MaxEffects \in Int
    BY BudgetAssumption DEF Counters, BudgetAssumption
  <1> QED
    BY <1>1

(* Settling what is owed, or spending more, leaves decisions paid for.  A  *)
(* primed number gets a name: the prover adds and subtracts names only.    *)
LEMMA PaidPreserved ==
  ASSUME Counters, Paid, NEW u \in Int, u = Unresolved,
         NEW d2 \in Int, d2 = decisions', NEW e2 \in Int, e2 = effectsLeft',
         NEW u2 \in Int, u2 = Unresolved',
         d2 - decisions <= 2 * (effectsLeft - e2) + u - u2
  PROVE  Paid'
PROOF
  <1>1. decisions <= 2 * (MaxEffects - effectsLeft) - u
    BY DEF Paid
  <1>2. d2 <= 2 * (MaxEffects - e2) - u2
    BY <1>1, PaidArithmetic, Zenon
  <1> QED
    BY <1>2, Zenon DEF Paid

(* A step that ends every activation, as aborts, captures and resumes do,  *)
(* leaves nothing unresolved.                                              *)
LEMMA UnwindPreserves ==
  ASSUME IInv, calls' = <<>>, WellFramed(stack'), Counters', Held',
         effectsLeft' <= effectsLeft, decisions' <= decisions + Unresolved
  PROVE  IInv'
PROOF
  <1>1. Nested'
    BY NoCalls DEF Nested
  <1>2. Unresolved' = 0
    <2>1. returned' = {}
      BY DEF Held
    <2> QED
      BY <2>1, NoCalls, FS_EmptySet DEF Unresolved
  <1>3. Unresolved \in Int
    BY UnresolvedCount DEF IInv, Nested
  <1>4. Paid'
    <2>1. /\ decisions \in Int /\ effectsLeft \in Int
          /\ decisions' \in Int /\ effectsLeft' \in Int
      BY BudgetAssumption DEF Counters, IInv, BudgetAssumption
    <2>2. PICK u \in Int : u = Unresolved
      BY <1>3
    <2>3. PICK d2 \in Int : d2 = decisions'
      BY <2>1
    <2>4. PICK e2 \in Int : e2 = effectsLeft'
      BY <2>1
    <2>5. d2 <= decisions + u /\ e2 <= effectsLeft
      BY <2>2, <2>3, <2>4, Zenon
    <2>6. d2 - decisions <= 2 * (effectsLeft - e2) + u - 0
      BY <2>1, <2>5
    <2> QED
      BY <1>2, <2>2, <2>3, <2>4, <2>6, PaidPreserved DEF IInv
  <1> QED
    BY <1>1, <1>4 DEF IInv

(* An abort, from any depth, unwinds every activation.                     *)
LEMMA AbortPreserves ==
  ASSUME IInv, NEW events, NEW why, AbortAfter(events, why),
         fuel' \in 0 .. fuel, effectsLeft' \in 0 .. effectsLeft, UNCHANGED fragments,
         patchAttempts' \in 0 .. MaxPatchAttempts,
         decisions' \in Nat, decisions' <= decisions + Unresolved
  PROVE  IInv'
PROOF
  <1>1. Counters'
    BY BudgetAssumption DEF IInv, Counters, AbortAfter, BudgetAssumption
  <1>2. WellFramed(stack')
    BY DEF IInv, AbortAfter
  <1>3. Held'
    BY DEF Held, AbortAfter
  <1>4. effectsLeft' <= effectsLeft /\ calls' = <<>>
    BY DEF IInv, Counters, AbortAfter
  <1> QED
    BY <1>1, <1>2, <1>3, <1>4, UnwindPreserves

(* So does a capture, which keeps a copy of stack and fuel.                *)
LEMMA CapturePreserves ==
  ASSUME IInv, NEW why, NEW name, NEW schema, Capture(why, name, schema, fuel'),
         fuel' \in 0 .. fuel, UNCHANGED <<effectsLeft, fragments, patchAttempts>>,
         decisions' \in Nat, decisions' <= decisions + Unresolved
  PROVE  IInv'
PROOF
  <1>1. Counters'
    BY BudgetAssumption DEF IInv, Counters, Capture, BudgetAssumption
  <1>2. WellFramed(stack') /\ stack' = stack
    BY DEF IInv, Capture
  <1>3. Held'
    BY <1>2 DEF Held, Capture
  <1>4. effectsLeft' <= effectsLeft /\ calls' = <<>>
    BY DEF IInv, Counters, Capture
  <1> QED
    BY <1>1, <1>2, <1>3, <1>4, UnwindPreserves

(* An instruction that starts no effect.                                   *)
LEMMA PurePreserves ==
  ASSUME IInv, Fetching, fuel > 0, fuel' = fuel - 1, PureStep, WellFramed(stack'),
         fragments' \in 0 .. MaxProgramFragments,
         status' \in {"running", "finished", "aborted"}
  PROVE  IInv'
PROOF
  <1>1. Counters'
    BY BudgetAssumption DEF IInv, Counters, PureStep, BudgetAssumption
  <1>2. Held'
    BY DEF Held, PureStep, Fetching
  <1>3. effectsLeft' <= effectsLeft /\ calls' = <<>> /\ decisions' <= decisions + Unresolved
    <2>1. Unresolved = 0
      BY NoCalls, FS_EmptySet DEF Unresolved, Fetching
    <2> QED
      BY <2>1 DEF IInv, Counters, PureStep, Fetching
  <1> QED
    BY <1>1, <1>2, <1>3, UnwindPreserves

(* An effect that starts has been paid for and is one deeper.              *)
LEMMA BeginPreserves ==
  ASSUME IInv, NEW a, Begin(a), returned = {},
         IsActivation(a, BaseDepth + Len(calls)), effectsLeft # 0,
         fuel' \in 0 .. fuel, cont # {} => fuel' = fuel,
         UNCHANGED <<fragments, patchAttempts>>,
         decisions' \in {decisions, decisions + 1}
  PROVE  IInv'
PROOF
  <1>1. Counters'
    BY BudgetAssumption DEF IInv, Counters, Begin, BudgetAssumption
  <1>2. WellFramed(stack')
    BY DEF IInv, Begin
  <1>3. IsSequence(calls) /\ Len(calls) \in Nat
    BY UnresolvedCount DEF IInv, Nested
  <1>4. /\ IsSequence(calls') /\ Len(calls') = Len(calls) + 1
        /\ calls'[Len(calls) + 1] = a
        /\ \A i \in 1 .. Len(calls) : calls'[i] = calls[i]
    BY <1>3, AppendIsSequence DEF Begin
  <1>5. Held'
    BY DEF IInv, Held, Begin
  <1>6. Nested'
    <2>1. ASSUME NEW i \in 1 .. Len(calls')
          PROVE  IsActivation(calls'[i], BaseDepth + i - 1)
      <3>1. CASE i = Len(calls) + 1
        <4>1. BaseDepth + Len(calls) = BaseDepth + i - 1
          BY <1>3, <3>1 DEF BaseDepth
        <4> QED
          BY <1>4, <3>1, <4>1
      <3>2. CASE i \in 1 .. Len(calls)
        BY <1>4, <3>2 DEF IInv, Nested
      <3> QED
        BY <1>3, <1>4, <3>1, <3>2
    <2>2. cont' = cont /\ prog' = prog
      BY DEF Begin
    <2> QED
      BY <1>4, <2>1, <2>2 DEF Nested, IsActivation, BaseDepth
  <1>7. Paid'
    <2>1. Unresolved = Len(calls)
      BY <1>3, UnresolvedCount DEF IInv
    <2>2. Cardinality(returned') = 0
      BY FS_EmptySet DEF Begin
    <2>3. PICK n \in Int : n = Len(calls)
      BY <1>3
    <2>4. Unresolved' = n + 1
      BY <1>4, <2>2, <2>3 DEF Unresolved
    <2>5. decisions \in Int /\ effectsLeft \in Int
      BY BudgetAssumption DEF IInv, Counters, BudgetAssumption
    <2>6. PICK d2 \in Int : d2 = decisions' /\ d2 \in {decisions, decisions + 1}
      BY <2>5
    <2>7. PICK e2 \in Int : e2 = effectsLeft' /\ e2 = effectsLeft - 1
      BY <2>5 DEF Begin
    <2>8. d2 \in {decisions, decisions + 1} /\ e2 = effectsLeft - 1
      BY <2>6, <2>7
    <2>9. d2 - decisions <= 2 * (effectsLeft - e2) + n - (n + 1)
      BY <2>5, <2>8
    <2> QED
      BY <2>1, <2>3, <2>4, <2>6, <2>7, <2>9, PaidPreserved DEF IInv
  <1> QED
    BY <1>1, <1>2, <1>5, <1>6, <1>7 DEF IInv, Begin

-----------------------------------------------------------------------------
(* Instructions.                                                           *)
LEMMA FetchingOwesNothing ==
  ASSUME Fetching
  PROVE  Unresolved = 0
  BY NoCalls, FS_EmptySet DEF Unresolved, Fetching

(* Instructions that call no handler cost their fuel only.                 *)
LEMMA LocalPreserves ==
  ASSUME IInv, NEW op, Fetch(op), LocalStep, WellFramed(stack')
  PROVE  IInv'
  BY PurePreserves DEF Fetch, LocalStep, IInv, Counters

(* Refusing an instruction costs it its fuel, and no more than one effect. *)
LEMMA RefusedPreserves ==
  ASSUME IInv, Fetching, NEW why, Abort(why),
         fuel' \in 0 .. fuel, effectsLeft' \in 0 .. effectsLeft,
         UNCHANGED <<fragments, patchAttempts, decisions>>
  PROVE  IInv'
PROOF
  <1>1. decisions' \in Nat /\ decisions' <= decisions + Unresolved
    BY FetchingOwesNothing DEF IInv, Counters
  <1>2. patchAttempts' \in 0 .. MaxPatchAttempts
    BY DEF IInv, Counters
  <1> QED
    BY <1>1, <1>2, AbortPreserves DEF Abort

(* Fetching an instruction uses one unit of fuel that was there.           *)
LEMMA FuelUsed ==
  ASSUME IInv, NEW op, Fetch(op)
  PROVE  /\ Fetching /\ fuel' = fuel - 1 /\ fuel' \in 0 .. fuel
         /\ effectsLeft \in 0 .. effectsLeft /\ fuel \in Nat
  BY BudgetAssumption DEF IInv, Counters, Fetch, BudgetAssumption

(* The frame a call pushes returns to somebody.                            *)
LEMMA ReturnSlots ==
  ASSUME NEW fn, NEW env, NEW ret, "kind" \in DOMAIN ret, ret.kind # "none"
  PROVE  IsFrame(Frame(fn, env, ret), FALSE)
  BY DEF IsFrame, Frame

(* The frame of a map's next item returns to the map.                      *)
LEMMA MapFrame ==
  ASSUME NEW ret, "kind" \in DOMAIN ret, ret.kind # "none"
  PROVE  IsFrame(MapItemFrame(ret), FALSE)
  BY ReturnSlots DEF MapItemFrame

(* An effect that starts is within both budgets, and one whose arguments   *)
(* are refused can be charged.                                             *)
LEMMA RefusalOrder ==
  ASSUME NEW effect, NEW input, NEW depth \in Int
  PROVE  /\ Refusal(effect, input, depth) = "none" =>
              depth <= MaxEffectDepth /\ effectsLeft # 0
         /\ Refusal(effect, input, depth) = "args" => effectsLeft # 0
PROOF
  <1>1. CASE depth > MaxEffectDepth
    BY <1>1 DEF Refusal
  <1>2. CASE ~(depth > MaxEffectDepth) /\ effectsLeft = 0
    BY <1>2 DEF Refusal
  <1>3. CASE ~(depth > MaxEffectDepth) /\ effectsLeft # 0
    BY <1>3, BudgetAssumption DEF BudgetAssumption
  <1> QED
    BY <1>1, <1>2, <1>3

(* Every instruction preserves the invariant.                              *)
LEMMA ExecutePreserves ==
  ASSUME IInv, Execute
  PROVE  IInv'
PROOF
  <1>1. WellFramed(stack)
    BY DEF IInv
  <1>2. CASE FuelExhausted
    BY <1>2, RefusedPreserves, BudgetAssumption
    DEF FuelExhausted, budgetVars, IInv, Counters, BudgetAssumption
  <1>3. CASE OperandError
    BY <1>3, RefusedPreserves, BudgetAssumption
    DEF OperandError, IInv, Counters, BudgetAssumption
  <1>4. CASE ExecLet
    BY <1>1, <1>4, LocalPreserves, MovedWellFramed DEF ExecLet
  <1>5. CASE ExecProject
    BY <1>1, <1>5, LocalPreserves, MovedWellFramed DEF ExecProject
  <1>6. CASE ExecBranch
    BY <1>1, <1>6, LocalPreserves, JumpedWellFramed DEF ExecBranch
  <1>7. CASE ExecJump
    BY <1>1, <1>7, LocalPreserves, JumpedWellFramed DEF ExecJump
  <1>8. CASE GuardPass
    BY <1>1, <1>8, LocalPreserves, JumpedWellFramed DEF GuardPass
  <1>9. CASE GuardAbort
    BY <1>9, FuelUsed, RefusedPreserves DEF GuardAbort, EffectBudgetUnchanged
  <1>10. CASE GuardThink
    <2>1. Fetching /\ fuel' = fuel - 1 /\ fuel' \in 0 .. fuel
      BY <1>10, FuelUsed DEF GuardThink
    <2>2. decisions' \in Nat /\ decisions' <= decisions + Unresolved
      BY <1>10, <2>1, FetchingOwesNothing
      DEF GuardThink, EffectBudgetUnchanged, IInv, Counters
    <2> QED
      BY <1>10, <2>1, <2>2, CapturePreserves DEF GuardThink, EffectBudgetUnchanged
  <1>11. CASE ExecCall
    <2>1. ASSUME NEW fn, NEW pc, NEW var, NEW schema
          PROVE  /\ "kind" \in DOMAIN CallReturn(fn, pc, var, schema)
                 /\ CallReturn(fn, pc, var, schema).kind # "none"
      BY DEF CallReturn
    <2>2. WellFramed(stack')
      BY <1>1, <1>11, <2>1, ReturnSlots, PushWellFramed DEF ExecCall
    <2> QED
      BY <1>11, <2>2, LocalPreserves DEF ExecCall
  <1>12. CASE ExecMap
    <2> DEFINE items == EvalExpr(Top.env, Instr.expr)
               ret == MapReturn(Top.fn, Top.pc + 1, Instr.out, Instr.itemVar, Instr.fn,
                                items, <<>>)
    <2>1. "kind" \in DOMAIN ret /\ ret.kind # "none"
      BY DEF MapReturn
    <2>2. \/ stack' = Moved(stack, Top.pc + 1, Instr.out, <<>>)
          \/ stack' = Append(stack, MapItemFrame(ret))
      BY <1>12 DEF ExecMap
    <2>3. IsFrame(MapItemFrame(ret), FALSE)
      <3> HIDE DEF ret
      <3> QED
        BY <2>1, MapFrame
    <2>4. WellFramed(stack')
      <3> HIDE DEF ret
      <3> QED
        BY <1>1, <2>2, <2>3, MovedWellFramed, PushWellFramed
    <2> QED
      BY <1>12, <2>4, LocalPreserves DEF ExecMap
  <1>13. CASE ExecCallDynamic
    <2> DEFINE f == FragmentOf[EvalExpr(Top.env, Instr.expr)]
               k == FragmentPrefix
               ret == CallReturn(Top.fn, Top.pc + 1, Instr.out, f.output)
               callee == Frame(<<k, f.entry[2]>>,
                               BindParams(f.functions[f.entry].params, Args(Instr.args)), ret)
    <2>1. IsFrame(callee, FALSE)
      BY ReturnSlots DEF CallReturn
    <2>2. stack' = Append(stack, callee)
      BY <1>13 DEF ExecCallDynamic
    <2>3. WellFramed(stack')
      <3> HIDE DEF callee
      <3> QED
        BY <1>1, <2>1, <2>2, PushWellFramed
    <2>4. fragments < MaxProgramFragments
      BY <1>13 DEF ExecCallDynamic, Fetch, OperandsOK, FragmentOK
    <2>5. fragments' \in 0 .. MaxProgramFragments
      BY <1>13, <2>4, BudgetAssumption
      DEF ExecCallDynamic, IInv, Counters, BudgetAssumption
    <2> QED
      BY <1>13, <2>3, <2>5, PurePreserves
      DEF ExecCallDynamic, Fetch, IInv, Counters
  <1>14. CASE ReturnRefused
    BY <1>14, FuelUsed, RefusedPreserves DEF ReturnRefused, EffectBudgetUnchanged
  <1>15. CASE FinishProgram
    BY <1>1, <1>15, PurePreserves DEF FinishProgram, Fetch, IInv, Counters
  <1>16. CASE ReturnToCaller
    <2>1. WellFramed(Front(stack))
      BY <1>1, <1>16, PopWellFramed DEF ReturnToCaller, Top
    <2>2. WellFramed(stack')
      BY <1>16, <2>1, MovedWellFramed DEF ReturnToCaller
    <2> QED
      BY <1>16, <2>2, LocalPreserves DEF ReturnToCaller
  <1>17. CASE ReturnToMap
    <2> DEFINE results == Append(Top.ret.results, Returned)
               ret == [Top.ret EXCEPT !.results = results]
    <2>1. WellFramed(Front(stack))
      BY <1>1, <1>17, PopWellFramed DEF ReturnToMap, Top
    <2>2. "kind" \in DOMAIN Top.ret /\ Top.ret.kind = "map"
      BY <1>1, <1>17 DEF ReturnToMap, Top, Last, WellFramed, IsSequence, IsFrame
    <2>3. "kind" \in DOMAIN ret /\ ret.kind # "none"
      BY <2>2
    <2>4. \/ stack' = Append(Front(stack), MapItemFrame(ret))
          \/ stack' = Moved(Front(stack), Top.ret.callerPc, Top.ret.var, results)
      BY <1>17 DEF ReturnToMap
    <2>5. WellFramed(stack')
      <3> HIDE DEF ret, results
      <3> QED
        BY <2>1, <2>3, <2>4, MapFrame, MovedWellFramed, PushWellFramed
    <2> QED
      BY <1>17, <2>5, LocalPreserves DEF ReturnToMap
  <1>18. CASE ExecPerform
    <2> DEFINE a == Activation(Instr.effect, Instr.schema, 0, FALSE, "root")
    <2>1. BaseDepth + Len(calls) = 0 /\ returned = {} /\ cont = {}
      BY <1>18, NoCalls DEF ExecPerform, Fetch, Fetching, BaseDepth
    <2>2. EffectAllowed(prog.allowed, Instr.effect)
      BY <1>18 DEF ExecPerform, Fetch, OperandsDefined
    <2>3. effectsLeft # 0
      BY <1>18, RefusalOrder DEF ExecPerform
    <2>4. IsActivation(a, 0)
      BY <2>2, BudgetAssumption DEF IsActivation, Activation, BudgetAssumption
    <2>5. fuel' \in 0 .. fuel
      BY <1>18, FuelUsed DEF ExecPerform
    <2>6. /\ Begin(a) /\ UNCHANGED <<fragments, patchAttempts>>
          /\ decisions' \in {decisions, decisions + 1}
      BY <1>18 DEF ExecPerform
    <2>7. IsActivation(a, BaseDepth + Len(calls))
      BY <2>1, <2>4
    <2> HIDE DEF a
    <2> QED
      BY <2>1, <2>3, <2>5, <2>6, <2>7, BeginPreserves, Zenon
  <1>19. CASE PerformRefused
    <2> DEFINE why == Refusal(Instr.effect, EvalExpr(Top.env, Instr.expr), 0)
    <2>1. why = "args" => effectsLeft # 0
      BY RefusalOrder
    <2>2. effectsLeft' \in 0 .. effectsLeft
      BY <1>19, <2>1, BudgetAssumption
      DEF PerformRefused, Charged, IInv, Counters, BudgetAssumption
    <2> QED
      BY <1>19, <2>2, FuelUsed, RefusedPreserves DEF PerformRefused
  <1> QED
    BY <1>2, <1>3, <1>4, <1>5, <1>6, <1>7, <1>8, <1>9, <1>10, <1>11, <1>12, <1>13,
       <1>14, <1>15, <1>16, <1>17, <1>18, <1>19 DEF Execute

-----------------------------------------------------------------------------
(* Decisions of handlers.                                                  *)

(* A resolution settles one decision.                                      *)
LEMMA ResolvePreserves ==
  ASSUME IInv, calls # <<>>, returned = {}, decisions' = decisions + 1,
         patchAttempts' \in 0 .. MaxPatchAttempts,
         NEW value, NEW confidence, Resolve(value, confidence)
  PROVE  IInv'
PROOF
  <1>1. Counters' /\ WellFramed(stack')
    BY DEF IInv, Counters, Resolve
  <1>2. Held'
    BY DEF IInv, Held, Resolve
  <1>3. IsSequence(calls) /\ Len(calls) \in Nat
    BY UnresolvedCount DEF IInv, Nested
  <1>4. calls' = calls /\ cont' = cont /\ prog' = prog
    BY DEF Resolve
  <1>5. Nested'
    BY <1>4 DEF IInv, Nested, IsActivation, BaseDepth
  <1>6. Paid'
    <2>1. Unresolved = Len(calls)
      BY <1>3, UnresolvedCount DEF IInv
    <2>2. Cardinality(returned') = 1
      BY FS_Singleton DEF Resolve
    <2>3. PICK n \in Int : n = Len(calls)
      BY <1>3
    <2>4. Unresolved' = n - 1
      BY <1>4, <2>2, <2>3 DEF Unresolved
    <2>5. decisions \in Int /\ effectsLeft \in Int
      BY BudgetAssumption DEF IInv, Counters, BudgetAssumption
    <2>6. PICK d2 \in Int : d2 = decisions' /\ d2 = decisions + 1
      BY <2>5
    <2>7. effectsLeft' = effectsLeft
      BY DEF Resolve
    <2>8. d2 = decisions + 1
      BY <2>6
    <2>9. d2 - decisions <= 2 * (effectsLeft - effectsLeft) + n - (n - 1)
      BY <2>5, <2>8
    <2> QED
      BY <2>1, <2>3, <2>4, <2>5, <2>6, <2>7, <2>9, PaidPreserved DEF IInv
  <1> QED
    BY <1>1, <1>2, <1>5, <1>6 DEF IInv

(* Every answer of a handler preserves the invariant.                      *)
LEMMA HandlePreserves ==
  ASSUME IInv, Handle
  PROVE  IInv'
PROOF
  <1>1. PICK d \in AllDecisions :
          \/ DecideValue(d) \/ DecideCode(d) \/ DecidePatch(d) \/ DecideRequest(d)
          \/ DecisionRefused(d) \/ HandlerFails(d)
    BY DEF Handle
  <1> DEFINE a == Last(calls)
  <1>2. d.decision \in DecisionKinds
    BY ReplyAssumption DEF AllDecisions
  <1>3. calls # <<>> /\ returned = {} /\ decisions' = decisions + 1
    BY <1>1 DEF DecideValue, DecideCode, DecidePatch, DecideRequest, DecisionRefused,
                HandlerFails, Answers
  <1>4. Len(calls) \in Nat /\ Len(calls) > 0 /\ Unresolved = Len(calls)
    BY <1>3, UnresolvedCount DEF IInv, Nested, IsSequence
  <1>5. IsActivation(a, BaseDepth + Len(calls) - 1)
    BY <1>4 DEF IInv, Nested, Last
  <1>6. a.depth \in Int
    BY <1>4, <1>5 DEF IsActivation, BaseDepth
  <1>7. decisions' \in Nat /\ decisions' <= decisions + Unresolved
    BY <1>3, <1>4 DEF IInv, Counters
  <1>8. patchAttempts \in 0 .. MaxPatchAttempts
    BY DEF IInv, Counters
  <1>9. CASE DecideValue(d)
    BY <1>3, <1>8, <1>9, ResolvePreserves DEF DecideValue
  <1>10. CASE DecideCode(d)
    BY <1>3, <1>8, <1>10, ResolvePreserves DEF DecideCode
  <1>11. CASE DecidePatch(d)
    <2>1. ~(patchAttempts >= MaxPatchAttempts)
      BY <1>11 DEF DecidePatch, Verdict, DecisionError
    <2>2. patchAttempts' \in 0 .. MaxPatchAttempts
      BY <1>8, <1>11, <2>1, BudgetAssumption DEF DecidePatch, BudgetAssumption
    <2> QED
      BY <1>3, <1>11, <2>2, ResolvePreserves DEF DecidePatch
  <1>12. CASE DecideRequest(d)
    <2> DEFINE nested == Activation(d.effect, d.schema, a.depth + 1, FALSE, d.mode)
    <2>1. NestedRefusal(d, a.depth + 1) = "none"
      BY <1>12 DEF DecideRequest, Verdict, DecisionError
    <2>2. /\ EffectAllowed(prog.allowed, d.effect)
          /\ Refusal(d.effect, d.input, a.depth + 1) = "none"
      BY <2>1 DEF NestedRefusal
    <2>3. a.depth + 1 <= MaxEffectDepth /\ effectsLeft # 0
      BY <1>6, <2>2, RefusalOrder
    <2>4. a.depth + 1 = BaseDepth + Len(calls)
      BY <1>4, <1>5 DEF IsActivation, BaseDepth
    <2>5. IsActivation(nested, a.depth + 1)
      <3> HIDE DEF a
      <3> QED
        BY <2>2, <2>3 DEF IsActivation, Activation
    <2>6. /\ Begin(nested) /\ fuel' = fuel /\ UNCHANGED <<fragments, patchAttempts>>
      BY <1>12 DEF DecideRequest
    <2>7. fuel' \in 0 .. fuel
      BY <2>6, BudgetAssumption DEF IInv, Counters, BudgetAssumption
    <2>8. decisions' \in {decisions, decisions + 1}
      BY <1>3
    <2>9. IsActivation(nested, BaseDepth + Len(calls))
      BY <2>4, <2>5
    <2> HIDE DEF nested
    <2> QED
      BY <1>3, <2>3, <2>6, <2>7, <2>8, <2>9, BeginPreserves, Zenon
  <1>13. CASE DecisionRefused(d)
    <2> DEFINE why == Verdict(a, d)
    <2>1. why = "args" => effectsLeft # 0
      BY <1>2, <1>6, <1>13, RefusalOrder
      DEF DecisionRefused, Verdict, DecisionError, NestedRefusal, DecisionKinds
    <2>2. effectsLeft' \in 0 .. effectsLeft
      BY <1>13, <2>1, BudgetAssumption
      DEF DecisionRefused, Charged, IInv, Counters, BudgetAssumption
    <2>3. why = "invalid_patch" => ~(patchAttempts >= MaxPatchAttempts)
      BY <1>2, <1>13
      DEF DecisionRefused, Verdict, DecisionError, NestedRefusal, Refusal, DecisionKinds
    <2>4. patchAttempts' \in 0 .. MaxPatchAttempts
      BY <1>8, <1>13, <2>3, BudgetAssumption DEF DecisionRefused, BudgetAssumption
    <2>5. fuel' \in 0 .. fuel /\ UNCHANGED fragments
      BY <1>13, BudgetAssumption DEF DecisionRefused, IInv, Counters, BudgetAssumption
    <2>6. AbortAfter(DecisionEvents(d), why)
      BY <1>13 DEF DecisionRefused
    <2> HIDE DEF why
    <2> QED
      BY <1>7, <2>2, <2>4, <2>5, <2>6, AbortPreserves
  <1>14. CASE HandlerFails(d)
    <2>1. fuel' = fuel /\ UNCHANGED <<effectsLeft, fragments, patchAttempts>>
      BY <1>14 DEF HandlerFails
    <2>2. fuel' \in 0 .. fuel /\ effectsLeft' \in 0 .. effectsLeft
      BY <2>1, BudgetAssumption DEF IInv, Counters, BudgetAssumption
    <2>3. CASE Abort("handler_failed")
      BY <1>7, <1>8, <2>1, <2>2, <2>3, AbortPreserves DEF Abort
    <2>4. CASE Capture("perform", Instr.out, Instr.schema, fuel)
      BY <1>7, <2>1, <2>2, <2>4, CapturePreserves
    <2> QED
      BY <1>14, <2>3, <2>4 DEF HandlerFails
  <1> QED
    BY <1>1, <1>9, <1>10, <1>11, <1>12, <1>13, <1>14

-----------------------------------------------------------------------------
(* Captured Thinks, and resolutions on their way to whoever asked.         *)
LEMMA BudgetsKept ==
  ASSUME IInv, UNCHANGED budgetVars
  PROVE  /\ fuel' = fuel /\ fuel' \in 0 .. fuel /\ effectsLeft' \in 0 .. effectsLeft
         /\ UNCHANGED <<effectsLeft, fragments, patchAttempts>>
         /\ patchAttempts' \in 0 .. MaxPatchAttempts
         /\ decisions' \in Nat /\ decisions' = decisions
  BY BudgetAssumption DEF IInv, Counters, budgetVars, BudgetAssumption

(* Activations that wait for a result owe no negative number of calls.     *)
LEMMA OwesNoLess ==
  ASSUME IInv
  PROVE  decisions <= decisions + Unresolved
PROOF
  <1>1. Unresolved \in Nat
    BY UnresolvedCount DEF IInv, Nested
  <1> QED
    BY <1>1 DEF IInv, Counters

(* An abort that calls no handler charges nothing.                         *)
LEMMA SettledAbort ==
  ASSUME IInv, UNCHANGED budgetVars, NEW why, Abort(why)
  PROVE  IInv'
PROOF
  <1>1. decisions' <= decisions + Unresolved
    BY BudgetsKept, OwesNoLess
  <1> QED
    BY <1>1, BudgetsKept, AbortPreserves DEF Abort

(* Delivering a nested resolution ends the activation that produced it.    *)
LEMMA NestedReturnPreserves ==
  ASSUME IInv, NestedReturn
  PROVE  IInv'
PROOF
  <1> DEFINE child == Last(calls)
             outer == Front(calls)
             asked == outer[Len(outer)]
             reentered == [asked EXCEPT !.reentries = @ + 1]
  <1>1. PICK r \in returned :
          \/ /\ r.value \notin child.schema
             /\ Abort("nested_schema")
          \/ /\ r.value \in child.schema
             /\ calls' = IF child.mode = "use_as_value" THEN outer
                         ELSE [outer EXCEPT ![Len(outer)].reentries = @ + 1]
             /\ returned' = IF child.mode = "use_as_value" THEN returned ELSE {}
             /\ UNCHANGED <<prog, funcs, stack, cont, status, reason, output, trace>>
    BY DEF NestedReturn
  <1>2. UNCHANGED budgetVars
    BY DEF NestedReturn
  <1>3. CASE Abort("nested_schema")
    BY <1>2, <1>3, SettledAbort
  <1>4. CASE ~Abort("nested_schema")
    <2>1. /\ calls' = IF child.mode = "use_as_value" THEN outer
                      ELSE [outer EXCEPT ![Len(outer)].reentries = @ + 1]
          /\ returned' = IF child.mode = "use_as_value" THEN returned ELSE {}
          /\ UNCHANGED <<prog, stack, cont, status>>
      BY <1>1, <1>4
    <2>2. IsSequence(calls) /\ Len(calls) \in Nat /\ Len(calls) > 1 /\ calls # <<>>
      BY UnresolvedCount DEF IInv, Nested, NestedReturn, Delivering, Held
    <2>3. /\ IsSequence(outer) /\ Len(outer) = Len(calls) - 1 /\ outer # <<>>
          /\ DOMAIN outer = 1 .. Len(outer)
          /\ \A i \in 1 .. Len(outer) : outer[i] = calls[i]
      BY <2>2, FrontIsSequence
    <2>4. \A i \in 1 .. Len(outer) : IsActivation(outer[i], BaseDepth + i - 1)
      BY <2>2, <2>3 DEF IInv, Nested
    <2>5. IsActivation(asked, BaseDepth + Len(outer) - 1)
      BY <2>2, <2>3, <2>4
    <2>6. IsActivation(reentered, BaseDepth + Len(outer) - 1)
      BY <2>5 DEF IsActivation
    <2>7. [outer EXCEPT ![Len(outer)].reentries = @ + 1]
            = [outer EXCEPT ![Len(outer)] = reentered]
      OBVIOUS
    <2>8. /\ IsSequence(calls') /\ Len(calls') = Len(outer)
          /\ \A i \in 1 .. Len(outer) : IsActivation(calls'[i], BaseDepth + i - 1)
      <3>1. CASE calls' = outer
        <4> HIDE DEF outer
        <4> QED
          BY <2>3, <2>4, <3>1
      <3>2. CASE calls' = [outer EXCEPT ![Len(outer)] = reentered]
        <4> HIDE DEF outer, reentered
        <4> DEFINE updated == [outer EXCEPT ![Len(outer)] = reentered]
        <4>1. /\ IsSequence(updated) /\ Len(updated) = Len(outer)
              /\ updated[Len(outer)] = reentered
              /\ \A i \in 1 .. Len(outer) - 1 : updated[i] = outer[i]
          BY <2>3, UpdateIsSequence
        <4>2. calls' = updated
          BY <3>2
        <4> HIDE DEF updated
        <4> QED
          BY <2>2, <2>3, <2>4, <2>6, <4>1, <4>2
      <3> QED
        BY <2>1, <2>7, <3>1, <3>2
    <2>9. Nested'
      <3> HIDE DEF outer
      <3> QED
        BY <2>1, <2>8 DEF Nested, IsActivation, BaseDepth
    <2>10. calls' # <<>>
      BY <2>2, <2>3, <2>8
    <2>11. Held'
      BY <1>2, <2>1, <2>10 DEF IInv, Held, budgetVars
    <2>12. Counters' /\ WellFramed(stack')
      BY <1>2, <2>1 DEF IInv, Counters, budgetVars
    <2>13. Paid'
      <3>1. Unresolved = Len(calls) - 1
        BY <2>2, UnresolvedCount DEF IInv, NestedReturn, Delivering
      <3>2. PICK n \in Int : n = Len(calls) - 1
        BY <2>2
      <3>3. Cardinality(returned') \in {0, 1}
        <4>1. returned' = returned \/ returned' = {}
          BY <2>1
        <4>2. \A p, q \in returned : p = q
          BY DEF IInv, Held
        <4>3. PICK s \in returned : TRUE
          BY DEF NestedReturn, Delivering
        <4>4. returned = {s}
          BY <4>2, <4>3
        <4>5. Cardinality(returned) = 1 /\ Cardinality({}) = 0
          BY <4>4, FS_EmptySet, FS_Singleton
        <4> QED
          BY <4>1, <4>5
      <3>4. PICK k \in {0, 1} : k = Cardinality(returned')
        BY <3>3
      <3>5. Unresolved' = n - k
        BY <2>3, <2>8, <3>2, <3>4 DEF Unresolved
      <3>6. decisions \in Int /\ effectsLeft \in Int
        BY BudgetAssumption DEF IInv, Counters, BudgetAssumption
      <3>7. n - k \in Int
        OBVIOUS
      <3>8. decisions - decisions <= 2 * (effectsLeft - effectsLeft) + n - (n - k)
        BY <3>6
      <3>9. decisions' = decisions /\ effectsLeft' = effectsLeft
        BY <1>2 DEF budgetVars
      <3>10. Unresolved = n
        BY <3>1, <3>2
      <3> QED
        BY <3>5, <3>6, <3>7, <3>8, <3>9, <3>10, PaidPreserved DEF IInv
    <2> QED
      BY <2>9, <2>11, <2>12, <2>13 DEF IInv
  <1> QED
    BY <1>3, <1>4

(* Every way to use or drop a result preserves the invariant.              *)
LEMMA SettlePreserves ==
  ASSUME IInv, Settle
  PROVE  IInv'
PROOF
  <1>1. CASE StartThink
    <2>1. PICK c \in cont :
            /\ Refusal(Think, Null, c.depth + 1) = "none"
            /\ EffectAllowed(prog.allowed, Think)
            /\ Begin(Activation(Think, c.schema, c.depth + 1, TRUE, "root"))
      BY <1>1 DEF StartThink
    <2> DEFINE a == Activation(Think, c.schema, c.depth + 1, TRUE, "root")
    <2>2. c.depth = 0 /\ calls = <<>> /\ returned = {} /\ cont # {}
      BY <1>1, <2>1 DEF StartThink, ThinkPending, IInv, Held
    <2>3. c.depth + 1 <= MaxEffectDepth /\ effectsLeft # 0
      BY <2>1, <2>2, RefusalOrder
    <2>4. BaseDepth + Len(calls) = c.depth + 1
      BY <2>2, NoCalls DEF BaseDepth
    <2>5. IsActivation(a, c.depth + 1)
      BY <2>1, <2>3 DEF IsActivation, Activation
    <2>6. IsActivation(a, BaseDepth + Len(calls))
      BY <2>4, <2>5
    <2>7. /\ Begin(a) /\ fuel' = fuel /\ UNCHANGED <<fragments, patchAttempts>>
          /\ decisions' \in {decisions, decisions + 1}
      BY <1>1, <2>1 DEF StartThink
    <2>8. fuel' \in 0 .. fuel
      BY <2>7, BudgetAssumption DEF IInv, Counters, BudgetAssumption
    <2> HIDE DEF a
    <2> QED
      BY <2>2, <2>3, <2>6, <2>7, <2>8, BeginPreserves, Zenon
  <1>2. CASE ThinkRefused
    BY <1>2, SettledAbort DEF ThinkRefused
  <1>3. CASE EncoderFails
    BY <1>3, SettledAbort DEF EncoderFails
  <1>4. CASE NestedReturn
    BY <1>4, NestedReturnPreserves
  <1>5. CASE AcceptResult
    <2>1. PICK r \in returned : stack' = Moved(stack, Top.pc + 1, Instr.out, r.value)
      BY <1>5 DEF AcceptResult
    <2>2. WellFramed(stack')
      BY <2>1, MovedWellFramed DEF IInv
    <2>3. Counters' /\ effectsLeft' <= effectsLeft /\ decisions' <= decisions + Unresolved
      BY <1>5, BudgetsKept, OwesNoLess DEF AcceptResult, IInv, Counters
    <2>4. calls' = <<>> /\ Held'
      BY <1>5 DEF AcceptResult, Held
    <2> QED
      BY <2>2, <2>3, <2>4, UnwindPreserves
  <1>6. CASE RejectResult
    <2>1. UNCHANGED budgetVars
      BY <1>6 DEF RejectResult
    <2>2. decisions' <= decisions + Unresolved
      BY <2>1, BudgetsKept, OwesNoLess
    <2>3. CASE Abort("rejected")
      BY <2>1, <2>3, SettledAbort
    <2>4. CASE Capture("perform", Instr.out, Instr.schema, fuel)
      BY <2>1, <2>2, <2>4, BudgetsKept, CapturePreserves
    <2> QED
      BY <1>6, <2>3, <2>4 DEF RejectResult
  <1>7. CASE ResumeContinuation
    <2>1. PICK c \in cont, r \in returned :
            /\ stack' = Moved(c.stack, c.resumePc, c.resumeVar, r.value)
            /\ fuel' = c.fuel
      BY <1>7 DEF ResumeContinuation
    <2>2. c.stack = stack /\ c.fuel = fuel
      BY <2>1 DEF IInv, Held
    <2>3. WellFramed(stack')
      BY <2>1, <2>2, MovedWellFramed DEF IInv
    <2>4. UNCHANGED budgetVars /\ UNCHANGED status
      BY <1>7, <2>1, <2>2 DEF ResumeContinuation, budgetVars
    <2>5. Counters' /\ effectsLeft' <= effectsLeft /\ decisions' <= decisions + Unresolved
      BY <2>4, BudgetsKept, OwesNoLess DEF IInv, Counters
    <2>6. calls' = <<>> /\ Held'
      BY <1>7 DEF ResumeContinuation, Held
    <2> QED
      BY <2>3, <2>5, <2>6, UnwindPreserves
  <1>8. CASE ThinkInvalid
    BY <1>8, SettledAbort DEF ThinkInvalid
  <1> QED
    BY <1>1, <1>2, <1>3, <1>4, <1>5, <1>6, <1>7, <1>8 DEF Settle

-----------------------------------------------------------------------------
(* The theorems.                                                           *)

(* A boundary starts with one frame and nothing in flight.                 *)
LEMMA InitInvariant == Init => IInv
PROOF
  <1> SUFFICES ASSUME Init PROVE IInv
    OBVIOUS
  <1>1. Counters
    BY BudgetAssumption DEF Init, Counters, BudgetAssumption
  <1>2. WellFramed(stack)
    <2>1. PICK input : stack = <<Frame(prog.entry, EntryEnv(prog, input), NoReturn)>>
      BY DEF Init
    <2> DEFINE f == Frame(prog.entry, EntryEnv(prog, input), NoReturn)
    <2>2. IsFrame(f, TRUE)
      BY DEF IsFrame, Frame, NoReturn
    <2>3. stack = <<f>>
      BY <2>1
    <2> HIDE DEF f
    <2>4. stack \in Seq({f}) /\ Len(stack) = 1 /\ stack[1] = f /\ stack # <<>>
      BY <2>3
    <2>5. IsSequence(stack)
      BY <2>4, TypedIsSequence
    <2>6. ASSUME NEW i \in 1 .. Len(stack) PROVE IsFrame(stack[i], i = 1)
      BY <2>2, <2>4 DEF IsFrame
    <2> QED
      BY <2>4, <2>5, <2>6 DEF WellFramed
  <1>3. Held
    BY DEF Init, Held
  <1>4. Nested
    BY NoCalls DEF Init, Nested
  <1>5. Paid
    <2>1. Unresolved = 0
      BY NoCalls, FS_EmptySet DEF Init, Unresolved
    <2> QED
      BY <2>1, BudgetAssumption DEF Init, Paid, BudgetAssumption
  <1> QED
    BY <1>1, <1>2, <1>3, <1>4, <1>5 DEF IInv

(* The invariant is inductive.                                             *)
LEMMA StepInvariant == IInv /\ [Next]_vars => IInv'
PROOF
  <1> SUFFICES ASSUME IInv, [Next]_vars PROVE IInv'
    OBVIOUS
  <1>1. CASE Execute
    BY <1>1, ExecutePreserves
  <1>2. CASE Handle
    BY <1>2, HandlePreserves
  <1>3. CASE Settle
    BY <1>3, SettlePreserves
  <1>4. CASE UNCHANGED vars
    BY <1>4 DEF vars, budgetVars, IInv, Counters, WellFramed, IsFrame, Held, Nested,
                IsActivation, BaseDepth, Paid, Unresolved, IsSequence
  <1> QED
    BY <1>1, <1>2, <1>3, <1>4 DEF Next, Terminated

(* The invariant holds of every boundary, whatever its program, handlers   *)
(* and budgets.                                                            *)
THEOREM Invariance == Spec => []IInv
PROOF
  <1> QED
    BY InitInvariant, StepInvariant, PTL DEF Spec

(* The budgets of runtime.rs are never overdrawn, and the interpreter is   *)
(* never without a frame.                                                  *)
THEOREM TypeCorrect == Spec => []TypeOK
PROOF
  <1>1. IInv => TypeOK
    BY DEF IInv, TypeOK, Counters, WellFramed, Held, Nested
  <1> QED
    BY <1>1, Invariance, PTL

(* Holding a continuation freezes the stack and the fuel, however deep the *)
(* repairing handler nests effects (handle_captured_think, resume_with).   *)
THEOREM ContinuationsIsolated == Spec => []CaptureIsolation
PROOF
  <1>1. IInv => CaptureIsolation
    BY DEF IInv, Held, CaptureIsolation
  <1> QED
    BY <1>1, Invariance, PTL

(* No handler is ever called for an effect outside the host program's      *)
(* allowed_effects, whoever asked for it (resolve_effect).                 *)
THEOREM EffectsConfined == Spec => []OnlyAllowedEffects
PROOF
  <1>1. IInv => OnlyAllowedEffects
    <2> SUFFICES ASSUME IInv PROVE OnlyAllowedEffects
      OBVIOUS
    <2>1. DOMAIN calls = 1 .. Len(calls)
      BY DEF IInv, Nested, IsSequence
    <2> QED
      BY <2>1 DEF IInv, Nested, IsActivation, OnlyAllowedEffects
  <1> QED
    BY <1>1, Invariance, PTL

(* The effect budget bounds the handler calls of a boundary at two for     *)
(* each effect, and the depth budget their nesting.                        *)
THEOREM HandlersBounded == Spec => []HandlerCallsBounded
PROOF
  <1>1. IInv => HandlerCallsBounded
    <2> SUFFICES ASSUME IInv PROVE HandlerCallsBounded
      OBVIOUS
    <2>1. Len(calls) \in Nat
      BY UnresolvedCount DEF IInv, Nested
    <2>2. Len(calls) <= MaxEffectDepth + 1
      <3>1. CASE Len(calls) = 0
        BY <3>1, BudgetAssumption DEF BudgetAssumption
      <3>2. CASE Len(calls) > 0
        <4>1. IsActivation(calls[Len(calls)], BaseDepth + Len(calls) - 1)
          BY <2>1, <3>2 DEF IInv, Nested
        <4>2. BaseDepth + Len(calls) - 1 <= MaxEffectDepth
          BY <4>1 DEF IsActivation
        <4> QED
          BY <2>1, <4>2, BudgetAssumption DEF BaseDepth, BudgetAssumption
      <3> QED
        BY <2>1, <3>1, <3>2
    <2> QED
      BY <2>2 DEF IInv, Paid, HandlerCallsBounded
  <1> QED
    BY <1>1, Invariance, PTL

-----------------------------------------------------------------------------
(* The trace.                                                              *)

(* An event appended takes the next place under its own name.              *)
LEMMA AppendEvent ==
  ASSUME NEW t, IsSequence(t), NEW e, NEW name
  PROVE  /\ e.ev # name => /\ Positions(Append(t, e), name) = Positions(t, name)
                           /\ Ids(Append(t, e), name) = Ids(t, name)
         /\ e.ev = name =>
              /\ Positions(Append(t, e), name) = Positions(t, name) \cup {Len(t) + 1}
              /\ Ids(Append(t, e), name) = Ids(t, name) \cup {e.id}
PROOF
  <1> DEFINE u == Append(t, e)
  <1>1. /\ Len(t) \in Nat /\ DOMAIN t = 1 .. Len(t) /\ DOMAIN u = 1 .. Len(t) + 1
        /\ u[Len(t) + 1] = e /\ \A i \in 1 .. Len(t) : u[i] = t[i]
    BY AppendIsSequence DEF IsSequence
  <1> HIDE DEF u
  <1>2. Len(t) + 1 \in DOMAIN u /\ DOMAIN u = DOMAIN t \cup {Len(t) + 1}
    BY <1>1
  <1>3. \A i \in DOMAIN t : u[i] = t[i]
    BY <1>1
  <1>4. /\ e.ev # name => Positions(u, name) = Positions(t, name)
        /\ e.ev = name => Positions(u, name) = Positions(t, name) \cup {Len(t) + 1}
    BY <1>1, <1>2, <1>3 DEF Positions
  <1>5. Len(t) + 1 \notin DOMAIN t
    BY <1>1
  <1>6. \A i \in Positions(t, name) : u[i] = t[i]
    BY <1>3 DEF Positions
  <1>7. e.ev # name => Ids(u, name) = Ids(t, name)
    BY <1>4, <1>6 DEF Ids
  <1>8. e.ev = name => Ids(u, name) = Ids(t, name) \cup {e.id}
    BY <1>1, <1>4, <1>6 DEF Ids
  <1> QED
    BY <1>4, <1>7, <1>8 DEF u

(* A trace in order: captures are numbered from 1, no id is captured or    *)
(* resumed twice, and none is resumed before it is captured.               *)
Captures(t) == Positions(t, "capture_continuation")
Resumes(t)  == Positions(t, "resume_continuation")

Numbered(t) ==
  /\ IsFiniteSet(Captures(t))
  /\ \A i \in Captures(t) : t[i].id \in 1 .. Cardinality(Captures(t))
Distinct(t, places) == \A i, j \in places : t[i].id = t[j].id => i = j
ResumedAfter(t) == \A j \in Resumes(t) : \E i \in Captures(t) : i < j /\ t[i].id = t[j].id

InOrder(t) ==
  /\ IsSequence(t)
  /\ Numbered(t) /\ Distinct(t, Captures(t)) /\ Distinct(t, Resumes(t)) /\ ResumedAfter(t)

(* Ids in use are numbers of captures.                                     *)
LEMMA IdsAreCaptured ==
  ASSUME NEW t, InOrder(t)
  PROVE  /\ Ids(t, "capture_continuation") \subseteq 1 .. Cardinality(Captures(t))
         /\ Ids(t, "resume_continuation") \subseteq Ids(t, "capture_continuation")
         /\ Cardinality(Captures(t)) \in Nat
PROOF
  <1>1. Cardinality(Captures(t)) \in Nat
    BY FS_CardinalityType DEF InOrder, Numbered
  <1>2. Ids(t, "capture_continuation") \subseteq 1 .. Cardinality(Captures(t))
    BY DEF InOrder, Numbered, Ids, Captures
  <1>3. Ids(t, "resume_continuation") \subseteq Ids(t, "capture_continuation")
    BY DEF InOrder, ResumedAfter, Ids, Captures, Resumes
  <1> QED
    BY <1>1, <1>2, <1>3

(* Any other event keeps the order, and what is unresumed.                 *)
LEMMA OtherEvent ==
  ASSUME NEW t, InOrder(t), NEW e,
         e.ev \notin {"capture_continuation", "resume_continuation"}
  PROVE  /\ InOrder(Append(t, e))
         /\ Unresumed(Append(t, e)) = Unresumed(t)
         /\ Captures(Append(t, e)) = Captures(t)
PROOF
  <1> DEFINE u == Append(t, e)
  <1>0. IsSequence(t) /\ DOMAIN t = 1 .. Len(t)
    BY DEF InOrder, IsSequence
  <1>1. /\ IsSequence(u)
        /\ \A i \in 1 .. Len(t) : u[i] = t[i]
        /\ DOMAIN t = 1 .. Len(t)
    BY <1>0, AppendIsSequence
  <1>2. /\ Captures(u) = Captures(t) /\ Resumes(u) = Resumes(t)
        /\ Unresumed(u) = Unresumed(t)
    BY AppendEvent DEF InOrder, Captures, Resumes, Unresumed
  <1>3. \A i \in Captures(t) \cup Resumes(t) : u[i] = t[i]
    BY <1>1 DEF Captures, Resumes, Positions
  <1> HIDE DEF u
  <1>4. InOrder(u)
    BY <1>1, <1>2, <1>3 DEF InOrder, Numbered, Distinct, ResumedAfter
  <1> QED
    BY <1>2, <1>4 DEF u

(* The next capture is new.                                                *)
LEMMA CaptureEvent ==
  ASSUME NEW t, InOrder(t), NEW n, n = Cardinality(Captures(t)) + 1
  PROVE  /\ InOrder(Append(t, Event("capture_continuation", n)))
         /\ Unresumed(Append(t, Event("capture_continuation", n))) = Unresumed(t) \cup {n}
         /\ Cardinality(Captures(Append(t, Event("capture_continuation", n)))) = n
PROOF
  <1> DEFINE e == Event("capture_continuation", n)
             u == Append(t, e)
             last == Len(t) + 1
  <1>1. e.ev = "capture_continuation" /\ e.id = n
    BY DEF Event
  <1> HIDE DEF e
  <1>2. /\ IsSequence(u) /\ u[last] = e /\ Len(t) \in Nat
        /\ \A i \in 1 .. Len(t) : u[i] = t[i]
        /\ DOMAIN t = 1 .. Len(t)
    BY AppendIsSequence DEF InOrder, IsSequence
  <1>3. /\ Captures(u) = Captures(t) \cup {last} /\ Resumes(u) = Resumes(t)
        /\ Ids(u, "capture_continuation") = Ids(t, "capture_continuation") \cup {n}
        /\ Ids(u, "resume_continuation") = Ids(t, "resume_continuation")
    BY <1>1, AppendEvent DEF InOrder, Captures, Resumes
  <1>4. /\ \A i \in Captures(t) \cup Resumes(t) : u[i] = t[i] /\ i \in 1 .. Len(t)
        /\ last \notin Captures(t)
    BY <1>2 DEF Captures, Resumes, Positions
  <1>5. Cardinality(Captures(u)) = n /\ IsFiniteSet(Captures(u))
    BY <1>3, <1>4, FS_AddElement DEF InOrder, Numbered
  <1>6. n \notin Ids(t, "capture_continuation") /\ n \notin Ids(t, "resume_continuation")
    BY IdsAreCaptured
  <1>7. Unresumed(u) = Unresumed(t) \cup {n}
    BY <1>3, <1>6 DEF Unresumed
  <1>8. n \in Nat /\ Cardinality(Captures(t)) \in Nat
    BY IdsAreCaptured
  <1>9. \A i \in Captures(t) : t[i].id # n
    BY <1>6 DEF Ids, Captures
  <1> HIDE DEF u
  <1>10. Numbered(u)
    <2>1. \A i \in Captures(t) : u[i].id \in 1 .. n
      BY <1>4, <1>8 DEF InOrder, Numbered
    <2>2. u[last].id \in 1 .. n
      BY <1>1, <1>2, <1>8
    <2> QED
      BY <1>3, <1>5, <2>1, <2>2 DEF Numbered
  <1>11. Distinct(u, Captures(u))
    BY <1>1, <1>2, <1>3, <1>4, <1>9 DEF InOrder, Distinct
  <1>12. Distinct(u, Resumes(u)) /\ ResumedAfter(u)
    BY <1>3, <1>4 DEF InOrder, Distinct, ResumedAfter
  <1> QED
    BY <1>2, <1>5, <1>7, <1>10, <1>11, <1>12 DEF InOrder, u, e

(* Resuming what is unresumed comes after its capture, and but once.       *)
LEMMA ResumeEvent ==
  ASSUME NEW t, InOrder(t), NEW n \in Unresumed(t)
  PROVE  /\ InOrder(Append(t, Event("resume_continuation", n)))
         /\ Unresumed(Append(t, Event("resume_continuation", n))) = Unresumed(t) \ {n}
         /\ Captures(Append(t, Event("resume_continuation", n))) = Captures(t)
PROOF
  <1> DEFINE e == Event("resume_continuation", n)
             u == Append(t, e)
             last == Len(t) + 1
  <1>1. e.ev = "resume_continuation" /\ e.id = n
    BY DEF Event
  <1> HIDE DEF e
  <1>2. /\ IsSequence(u) /\ u[last] = e /\ Len(t) \in Nat
        /\ \A i \in 1 .. Len(t) : u[i] = t[i]
        /\ DOMAIN t = 1 .. Len(t)
    BY AppendIsSequence DEF InOrder, IsSequence
  <1>3. /\ Captures(u) = Captures(t) /\ Resumes(u) = Resumes(t) \cup {last}
        /\ Ids(u, "capture_continuation") = Ids(t, "capture_continuation")
        /\ Ids(u, "resume_continuation") = Ids(t, "resume_continuation") \cup {n}
    BY <1>1, AppendEvent DEF InOrder, Captures, Resumes
  <1>4. \A i \in Captures(t) \cup Resumes(t) : u[i] = t[i] /\ i \in 1 .. Len(t)
    BY <1>2 DEF Captures, Resumes, Positions
  <1>5. Unresumed(u) = Unresumed(t) \ {n}
    BY <1>3 DEF Unresumed
  <1>6. /\ \E i \in Captures(t) : t[i].id = n
        /\ \A j \in Resumes(t) : t[j].id # n
    BY DEF Unresumed, Ids, Captures, Resumes
  <1> HIDE DEF u
  <1>7. Numbered(u) /\ Distinct(u, Captures(u))
    BY <1>3, <1>4 DEF InOrder, Numbered, Distinct
  <1>8. Distinct(u, Resumes(u))
    BY <1>1, <1>2, <1>3, <1>4, <1>6 DEF InOrder, Distinct
  <1>9. ResumedAfter(u)
    BY <1>1, <1>2, <1>3, <1>4, <1>6 DEF InOrder, ResumedAfter
  <1> QED
    BY <1>2, <1>3, <1>5, <1>7, <1>8, <1>9 DEF InOrder, u, e

(* What the events of a boundary say of its state.                         *)
Traced ==
  /\ InOrder(trace)
  /\ status = "running" => Unresumed(trace) = {c.id : c \in cont}
  /\ status = "finished" => Unresumed(trace) = {}
  /\ status = "aborted" => Positions(trace, "program_aborted") # {}

(* The ways a step may add to the trace.                                   *)
IsQuiet(e) == e.ev = "strong_return_value_schema_invalid"

KeepsQuiet ==
  /\ UNCHANGED <<status, cont>>
  /\ trace' = trace \/ \E e : IsQuiet(e) /\ trace' = Append(trace, e)
RecordsCapture ==
  /\ cont = {} /\ UNCHANGED status
  /\ \E n : /\ n = Cardinality(Captures(trace)) + 1
            /\ trace' = Append(trace, Event("capture_continuation", n))
            /\ {c.id : c \in cont'} = {n}
RecordsResume ==
  /\ cont' = {} /\ UNCHANGED status
  /\ \E c \in cont : trace' = Append(trace, Event("resume_continuation", c.id))
RecordsFinish ==
  /\ cont = {} /\ cont' = {} /\ status' = "finished"
  /\ trace' = Append(trace, Event("program_finished", 0))
RecordsAbort ==
  /\ cont' = {} /\ status' = "aborted"
  /\ \/ trace' = Append(trace, Event("program_aborted", 0))
     \/ \E e : IsQuiet(e) /\ trace' = Append(Append(trace, e), Event("program_aborted", 0))

Records ==
  /\ status = "running"
  /\ \/ KeepsQuiet \/ RecordsCapture \/ RecordsResume \/ RecordsFinish \/ RecordsAbort

(* Concatenating one event appends it.                                     *)
LEMMA ConcatOne ==
  ASSUME NEW s, IsSequence(s)
  PROVE  s \o <<>> = s /\ \A e : s \o <<e>> = Append(s, e)
PROOF
  <1>1. s \o <<>> = s
    BY DEF IsSequence
  <1>2. ASSUME NEW e PROVE s \o <<e>> = Append(s, e)
    <2> DEFINE T == {s[i] : i \in DOMAIN s} \cup {e}
    <2>1. s \in Seq(T) /\ e \in T
      BY DEF IsSequence
    <2> HIDE DEF T
    <2> QED
      BY <2>1
  <1> QED
    BY <1>1, <1>2

(* An abort closes the trace.                                              *)
LEMMA AbortRecords ==
  ASSUME IsSequence(trace), status = "running", NEW why, Abort(why)
  PROVE  Records
PROOF
  <1>1. trace' = trace \o <<>> \o <<Event("program_aborted", 0)>>
    BY DEF Abort, AbortAfter
  <1>2. trace' = Append(trace, Event("program_aborted", 0))
    BY <1>1, ConcatOne
  <1> QED
    BY <1>2 DEF Abort, AbortAfter, Records, RecordsAbort

(* A capture records the next id.                                          *)
LEMMA CaptureRecords ==
  ASSUME status = "running", cont = {}, NEW why, NEW name, NEW schema, NEW left,
         Capture(why, name, schema, left)
  PROVE  Records
PROOF
  <1> DEFINE c == [id |-> Cardinality(Captured) + 1, stack |-> stack, fuel |-> left, why |-> why,
                   resumePc |-> Top.pc + 1, resumeVar |-> name, schema |-> schema, depth |-> 0]
  <1>1. /\ cont' = {c} /\ c.id = Cardinality(Captured) + 1
        /\ trace' = Append(trace, Event("capture_continuation", c.id))
    BY DEF Capture
  <1> HIDE DEF c
  <1>2. Captured = Captures(trace)
    BY DEF Captured, Captures, Positions
  <1>3. {d.id : d \in cont'} = {c.id}
    BY <1>1
  <1>4. UNCHANGED status
    BY DEF Capture
  <1> QED
    BY <1>1, <1>2, <1>3, <1>4 DEF Records, RecordsCapture

(* Every step of a running boundary is one of these.                       *)
LEMMA ExecuteRecords ==
  ASSUME IsSequence(trace), Execute
  PROVE  Records
PROOF
  <1>1. CASE FuelExhausted \/ OperandError \/ GuardAbort \/ ReturnRefused \/ PerformRefused
    <2>1. PICK why : Abort(why)
      BY <1>1 DEF FuelExhausted, OperandError, GuardAbort, ReturnRefused, PerformRefused
    <2>2. status = "running"
      BY <1>1 DEF FuelExhausted, OperandError, GuardAbort, ReturnRefused, PerformRefused, Fetch,
                  Fetching
    <2> QED
      BY <2>1, <2>2, AbortRecords
  <1>2. CASE GuardThink
    BY <1>2, CaptureRecords DEF GuardThink, Fetch, Fetching
  <1>3. CASE FinishProgram
    BY <1>3 DEF FinishProgram, Fetch, Fetching, PureStep, Records, RecordsFinish
  <1>4. CASE ExecLet \/ ExecProject \/ ExecBranch \/ ExecJump \/ GuardPass \/ ExecCall \/ ExecMap
               \/ ReturnToCaller \/ ReturnToMap
    BY <1>4 DEF ExecLet, ExecProject, ExecBranch, ExecJump, GuardPass, ExecCall, ExecMap,
                ReturnToCaller, ReturnToMap, Fetch, Fetching, LocalStep, PureStep, Records,
                KeepsQuiet
  <1>5. CASE ExecCallDynamic
    BY <1>5 DEF ExecCallDynamic, Fetch, Fetching, PureStep, Records, KeepsQuiet
  <1>6. CASE ExecPerform
    BY <1>6 DEF ExecPerform, Fetch, Fetching, Begin, Records, KeepsQuiet
  <1> QED
    BY <1>1, <1>2, <1>3, <1>4, <1>5, <1>6 DEF Execute

(* So is every answer of a handler.                                        *)
LEMMA HandleRecords ==
  ASSUME IsSequence(trace), Handle
  PROVE  Records
PROOF
  <1>1. PICK d \in AllDecisions :
          \/ DecideValue(d) \/ DecideCode(d) \/ DecidePatch(d) \/ DecideRequest(d)
          \/ DecisionRefused(d) \/ HandlerFails(d)
    BY DEF Handle
  <1>2. status = "running"
    BY <1>1 DEF DecideValue, DecideCode, DecidePatch, DecideRequest, DecisionRefused,
                HandlerFails, Answers
  <1>3. DecisionEvents(d) = <<>> \/ \E e : IsQuiet(e) /\ DecisionEvents(d) = <<e>>
    BY DEF DecisionEvents, IsQuiet, Event
  <1>4. \/ trace \o DecisionEvents(d) = trace
        \/ \E e : IsQuiet(e) /\ trace \o DecisionEvents(d) = Append(trace, e)
    BY <1>3, ConcatOne, Zenon
  <1>5. CASE DecideValue(d)
    BY <1>2, <1>4, <1>5 DEF DecideValue, Resolve, Records, KeepsQuiet
  <1>6. CASE DecideCode(d) \/ DecidePatch(d) \/ DecideRequest(d)
    BY <1>2, <1>6 DEF DecideCode, DecidePatch, DecideRequest, Resolve, Begin, Records, KeepsQuiet
  <1>7. CASE DecisionRefused(d)
    <2>1. /\ status' = "aborted" /\ cont' = {}
          /\ trace' = trace \o DecisionEvents(d) \o <<Event("program_aborted", 0)>>
      BY <1>7 DEF DecisionRefused, AbortAfter
    <2>2. CASE trace \o DecisionEvents(d) = trace
      BY <1>2, <2>1, <2>2, ConcatOne DEF Records, RecordsAbort
    <2>3. ASSUME NEW e, IsQuiet(e), trace \o DecisionEvents(d) = Append(trace, e)
          PROVE  Records
      <3>1. IsSequence(Append(trace, e))
        BY AppendIsSequence
      <3>2. trace' = Append(Append(trace, e), Event("program_aborted", 0))
        BY <2>1, <2>3, <3>1, ConcatOne
      <3> QED
        BY <1>2, <2>1, <2>3, <3>2 DEF Records, RecordsAbort
    <2> QED
      BY <1>4, <2>2, <2>3
  <1>8. CASE HandlerFails(d)
    BY <1>2, <1>8, AbortRecords, CaptureRecords DEF HandlerFails
  <1> QED
    BY <1>1, <1>5, <1>6, <1>7, <1>8

(* And every delivery.                                                     *)
LEMMA SettleRecords ==
  ASSUME IsSequence(trace), Settle
  PROVE  Records
PROOF
  <1>1. status = "running"
    BY DEF Settle, StartThink, ThinkRefused, EncoderFails, NestedReturn, AcceptResult,
           RejectResult, ResumeContinuation, ThinkInvalid, ThinkPending, Delivering
  <1>2. CASE StartThink
    BY <1>1, <1>2 DEF StartThink, Begin, Records, KeepsQuiet
  <1>3. CASE ThinkRefused \/ EncoderFails \/ ThinkInvalid
    BY <1>1, <1>3, AbortRecords DEF ThinkRefused, EncoderFails, ThinkInvalid
  <1>4. CASE NestedReturn
    BY <1>1, <1>4, AbortRecords DEF NestedReturn, Records, KeepsQuiet
  <1>5. CASE AcceptResult
    BY <1>1, <1>5 DEF AcceptResult, Records, KeepsQuiet
  <1>6. CASE RejectResult
    BY <1>1, <1>6, AbortRecords, CaptureRecords DEF RejectResult
  <1>7. CASE ResumeContinuation
    BY <1>1, <1>7 DEF ResumeContinuation, Records, RecordsResume
  <1> QED
    BY <1>2, <1>3, <1>4, <1>5, <1>6, <1>7 DEF Settle

(* A step records one of these, or nothing happens.                        *)
LEMMA StepRecords ==
  ASSUME IsSequence(trace), [Next]_vars
  PROVE  Records \/ UNCHANGED <<trace, status, cont>>
  BY ExecuteRecords, HandleRecords, SettleRecords DEF Next, Terminated, vars

(* An invalid answer noted changes nothing else.                           *)
LEMMA QuietEvent ==
  ASSUME NEW t, InOrder(t), NEW e, IsQuiet(e)
  PROVE  /\ InOrder(Append(t, e))
         /\ Unresumed(Append(t, e)) = Unresumed(t)
         /\ Captures(Append(t, e)) = Captures(t)
  BY OtherEvent DEF IsQuiet

(* An abort leaves its mark on any trace.                                  *)
LEMMA AbortMarks ==
  ASSUME NEW t, InOrder(t)
  PROVE  /\ InOrder(Append(t, Event("program_aborted", 0)))
         /\ Positions(Append(t, Event("program_aborted", 0)), "program_aborted") # {}
         /\ Captures(Append(t, Event("program_aborted", 0))) = Captures(t)
PROOF
  <1> DEFINE e == Event("program_aborted", 0)
  <1>1. e.ev = "program_aborted"
    BY DEF Event
  <1> HIDE DEF e
  <1>2. IsSequence(t)
    BY DEF InOrder
  <1>3. Positions(Append(t, e), "program_aborted") # {}
    BY <1>1, <1>2, AppendEvent
  <1>4. InOrder(Append(t, e)) /\ Captures(Append(t, e)) = Captures(t)
    BY <1>1, OtherEvent
  <1> QED
    BY <1>3, <1>4 DEF e

(* A step keeps the trace in order, and is a step of Boundary or none.     *)
LEMMA StepTraced ==
  ASSUME Held, Traced, [Next]_vars
  PROVE  Traced' /\ [Promise!Next]_(Promise!vars)
PROOF
  <1>1. InOrder(trace) /\ IsSequence(trace)
    BY DEF Traced, InOrder
  <1>2. Captured = Captures(trace) /\ Captured' = Captures(trace')
    BY DEF Captured, Captures, Positions
  <1>3. CASE UNCHANGED <<trace, status, cont>>
    <2>1. Traced'
      BY <1>3 DEF Traced
    <2>2. UNCHANGED Promise!vars
      BY <1>3 DEF Promise!vars, Captured
    <2> QED
      BY <2>1, <2>2
  <1>4. CASE Records /\ KeepsQuiet
    <2>1. /\ InOrder(trace') /\ Unresumed(trace') = Unresumed(trace)
          /\ Captures(trace') = Captures(trace)
      BY <1>1, <1>4, QuietEvent DEF KeepsQuiet
    <2>2. Traced'
      BY <1>4, <2>1 DEF Traced, KeepsQuiet, Records
    <2>3. UNCHANGED Promise!vars
      BY <1>2, <1>4, <2>1 DEF Promise!vars, KeepsQuiet
    <2> QED
      BY <2>2, <2>3
  <1>5. CASE Records /\ RecordsCapture
    <2>1. PICK n : /\ n = Cardinality(Captures(trace)) + 1
                   /\ trace' = Append(trace, Event("capture_continuation", n))
                   /\ {c.id : c \in cont'} = {n}
      BY <1>5 DEF RecordsCapture
    <2>2. /\ InOrder(trace') /\ Unresumed(trace') = Unresumed(trace) \cup {n}
          /\ Cardinality(Captures(trace')) = n
      BY <1>1, <2>1, CaptureEvent
    <2>3. {c.id : c \in cont} = {}
      BY <1>5 DEF RecordsCapture
    <2>4. Traced'
      BY <1>5, <2>1, <2>2, <2>3 DEF Traced, RecordsCapture, Records
    <2>5. Promise!CaptureOne
      BY <1>2, <1>5, <2>1, <2>2, <2>3
      DEF Promise!CaptureOne, Promise!Running, Records, RecordsCapture
    <2> QED
      BY <2>4, <2>5 DEF Promise!Next
  <1>6. CASE Records /\ RecordsResume
    <2>1. PICK c \in cont : trace' = Append(trace, Event("resume_continuation", c.id))
      BY <1>6 DEF RecordsResume
    <2>2. {d.id : d \in cont} = {c.id} /\ {d.id : d \in cont'} = {}
      BY <1>6, <2>1 DEF Held, RecordsResume
    <2>3. Unresumed(trace) = {c.id}
      BY <1>6, <2>2 DEF Traced, Records
    <2>4. /\ InOrder(trace') /\ Unresumed(trace') = {}
          /\ Captures(trace') = Captures(trace)
      BY <1>1, <2>1, <2>3, ResumeEvent
    <2>5. Traced'
      BY <1>6, <2>2, <2>4 DEF Traced, RecordsResume, Records
    <2>6. Promise!ResumeHeld
      BY <1>2, <1>6, <2>2, <2>4
      DEF Promise!ResumeHeld, Promise!Running, Records, RecordsResume
    <2> QED
      BY <2>5, <2>6 DEF Promise!Next
  <1>7. CASE Records /\ RecordsFinish
    <2>1. {d.id : d \in cont} = {} /\ {d.id : d \in cont'} = {}
      BY <1>7 DEF RecordsFinish
    <2>2. /\ InOrder(trace') /\ Unresumed(trace') = Unresumed(trace)
          /\ Captures(trace') = Captures(trace)
      BY <1>1, <1>7, OtherEvent DEF RecordsFinish, Event
    <2>3. Traced'
      BY <1>7, <2>1, <2>2 DEF Traced, RecordsFinish, Records
    <2>4. Promise!Finish
      BY <1>2, <1>7, <2>1, <2>2 DEF Promise!Finish, Promise!Running, Records, RecordsFinish
    <2> QED
      BY <2>3, <2>4 DEF Promise!Next
  <1>8. CASE Records /\ RecordsAbort
    <2>1. {d.id : d \in cont'} = {}
      BY <1>8 DEF RecordsAbort
    <2>2. PICK t : /\ InOrder(t) /\ Captures(t) = Captures(trace)
                   /\ trace' = Append(t, Event("program_aborted", 0))
      BY <1>1, <1>8, QuietEvent DEF RecordsAbort
    <2>3. /\ InOrder(trace') /\ Positions(trace', "program_aborted") # {}
          /\ Captures(trace') = Captures(trace)
      BY <2>2, AbortMarks
    <2>4. Traced'
      BY <1>8, <2>3 DEF Traced, RecordsAbort
    <2>5. Promise!Stop
      BY <1>2, <1>8, <2>1, <2>3 DEF Promise!Stop, Promise!Running, Records, RecordsAbort
    <2> QED
      BY <2>4, <2>5 DEF Promise!Next
  <1> QED
    BY <1>1, <1>3, <1>4, <1>5, <1>6, <1>7, <1>8, StepRecords DEF Records

(* A boundary starts with an empty trace.                                  *)
LEMMA InitTraced == Init => Traced /\ Promise!Init
PROOF
  <1> SUFFICES ASSUME Init PROVE Traced /\ Promise!Init
    OBVIOUS
  <1>1. trace = <<>> /\ cont = {} /\ status = "running"
    BY DEF Init
  <1>2. IsSequence(trace) /\ \A name : Positions(trace, name) = {}
    BY <1>1, NoCalls DEF Positions
  <1>3. \A name : Ids(trace, name) = {}
    BY <1>2 DEF Ids
  <1>4. Captures(trace) = {} /\ Resumes(trace) = {} /\ Unresumed(trace) = {} /\ Captured = {}
    BY <1>2, <1>3 DEF Captures, Resumes, Unresumed, Captured, Positions
  <1>5. InOrder(trace)
    BY <1>2, <1>4, FS_EmptySet DEF InOrder, Numbered, Distinct, ResumedAfter
  <1>6. {c.id : c \in cont} = {}
    BY <1>1
  <1> QED
    BY <1>1, <1>4, <1>5, <1>6, FS_EmptySet DEF Traced, Promise!Init

(* The trace of a boundary is in order and tells what it holds.            *)
THEOREM TraceInvariance == Spec => []Traced
PROOF
  <1>1. IInv => Held
    BY DEF IInv
  <1> QED
    BY <1>1, InitTraced, StepTraced, Invariance, PTL DEF Spec

(* The captures no resume answers are those of the continuation held: the  *)
(* trace of make_effect_frame and resume_with misses neither.              *)
THEOREM HeldIsRecorded == Spec => []HeldIsUnresumed
PROOF
  <1>1. Traced => HeldIsUnresumed
    BY DEF Traced, HeldIsUnresumed
  <1> QED
    BY <1>1, TraceInvariance, PTL

(* Whatever the program, the handlers and the way the run ends, `replay`   *)
(* accepts its trace (trace.rs, replay_trace_events).                      *)
THEOREM TracesReplay == Spec => []ReplayAccepts
PROOF
  <1>1. Traced /\ TypeOK => ReplayAccepts
    BY DEF Traced, TypeOK, ReplayAccepts, Replays, InOrder, Distinct, ResumedAfter, Captures,
           Resumes
  <1> QED
    BY <1>1, TraceInvariance, TypeCorrect, PTL

(* The runtime implements Boundary: one continuation at a time, each new,  *)
(* each resumed once or gone with the boundary, none left at the end.      *)
THEOREM PromiseKept == Spec => KeepsPromise
PROOF
  <1>1. IInv => Held
    BY DEF IInv
  <1> QED
    BY <1>1, InitTraced, StepTraced, Invariance, TraceInvariance, PTL
    DEF Spec, KeepsPromise, Promise!Spec
=============================================================================
