-------------------------- MODULE CpsSoundnessProofs --------------------------
(***************************************************************************)
(* What the static validator promises the runtime, for every program it    *)
(* accepts, every fragment a model supplies and every handler: a boundary  *)
(* never goes wrong, no function is active twice, frames return to their   *)
(* callers, and a guard repaired by Think holds.                           *)
(*                                                                         *)
(* The argument is the usual one of a type system.  What the validator     *)
(* computes for a function is an analysis that agrees with itself along    *)
(* every edge of its control flow (Analysed); a frame is sound when some   *)
(* analysis of its function reaches its pc and defines no variable the     *)
(* frame lacks (FrameSound); instructions keep frames sound, calls start   *)
(* sound ones and returns find their caller sound at the next pc.          *)
(***************************************************************************)
EXTENDS CpsRuntimeProofs, WellFoundedInduction

-----------------------------------------------------------------------------
(* The forward pass of the validator is a recursive function; that it      *)
(* exists is proved by the least counterexample.                           *)

(* A non-empty set of natural numbers has a least element.                 *)
LEMMA LeastNatural ==
  ASSUME NEW T, T \subseteq Nat, T # {}
  PROVE  \E m \in T : \A k \in T : m <= k
PROOF
  <1> DEFINE R == {ss \in Nat \X Nat : ss[1] < ss[2]}
  <1>1. IsWellFoundedOn(R, Nat)
    BY NatLessThanWellFounded, Zenon DEF OpToRel
  <1>2. PICK m \in T : \A k \in T : ~(<<k, m>> \in R)
    <2> HIDE DEF R
    <2> QED
      BY <1>1, WFMin
  <1>3. \A k \in T : ~(k < m) /\ k \in Nat /\ m \in Nat
    BY <1>2
  <1> QED
    BY <1>3

(* What arrives at a pc depends on what lies below it only.                *)
LEMMA ArrivingFromBelow ==
  ASSUME NEW body, NEW initial, NEW at, NEW bt, NEW pc,
         \A q \in 1 .. pc - 1 : at[q] = bt[q]
  PROVE  Arriving(body, initial, at, pc) = Arriving(body, initial, bt, pc)
PROOF
  <1> DEFINE preds(ct) == {q \in 1 .. pc - 1 : pc \in Successors(body, q) /\ ct[q].reached}
             after(ct) == {ct[q].defined \cup Defines(body[q]) : q \in preds(ct)}
  <1>1. preds(at) = preds(bt)
    OBVIOUS
  <1>2. after(at) = after(bt)
    BY <1>1
  <1>3. ASSUME NEW ct
        PROVE  Arriving(body, initial, ct, pc)
                 = IF pc = 1 THEN [reached |-> TRUE, defined |-> initial]
                   ELSE IF preds(ct) = {} THEN Nowhere
                   ELSE [reached |-> TRUE, defined |-> DefinedOnEveryPath(after(ct))]
    BY DEF Arriving
  <1> HIDE DEF preds, after
  <1> QED
    BY <1>1, <1>2, <1>3, Zenon

LEMMA PassExists ==
  ASSUME NEW body, NEW N \in Nat, DOMAIN body = 1 .. N, NEW initial
  PROVE  \E at : at = [pc \in DOMAIN body |-> Arriving(body, initial, at, pc)]
PROOF
  <1> DEFINE OK(n) == \E at : at = [pc \in 1 .. n |-> Arriving(body, initial, at, pc)]
  <1>1. \A n \in Nat : OK(n)
    <2> SUFFICES ASSUME NEW m \in Nat, ~ OK(m) PROVE FALSE
      OBVIOUS
    <2> DEFINE T == {n \in Nat : ~ OK(n)}
    <2>1. PICK n \in T : \A k \in T : n <= k
      <3> HIDE DEF OK
      <3> QED
        BY LeastNatural
    <2>2. n # 0
      <3>1. 1 .. 0 = {}
        OBVIOUS
      <3>2. OK(0)
        BY <3>1
      <3> QED
        BY <2>1, <3>2
    <2>3. n \in Nat /\ n - 1 \in Nat /\ n - 1 \notin T
      <3> HIDE DEF OK
      <3> QED
        BY <2>1, <2>2
    <2>4. OK(n - 1)
      <3> HIDE DEF OK
      <3> QED
        BY <2>3
    <2>5. PICK at : at = [pc \in 1 .. n - 1 |-> Arriving(body, initial, at, pc)]
      BY <2>4
    <2> DEFINE bt == [pc \in 1 .. n |-> Arriving(body, initial, at, pc)]
    <2>6. \A q \in 1 .. n - 1 : bt[q] = at[q]
      BY <2>3, <2>5
    <2>7. ASSUME NEW pc \in 1 .. n
          PROVE  Arriving(body, initial, at, pc) = Arriving(body, initial, bt, pc)
      <3> HIDE DEF bt
      <3>1. \A q \in 1 .. pc - 1 : at[q] = bt[q]
        BY <2>3, <2>6
      <3> QED
        BY <3>1, ArrivingFromBelow
    <2>8. bt = [pc \in 1 .. n |-> Arriving(body, initial, bt, pc)]
      BY <2>7
    <2>9. OK(n)
      <3> HIDE DEF bt
      <3> QED
        BY <2>8
    <2> QED
      BY <2>1, <2>9
  <1> QED
    BY <1>1

(* The pass computes at every pc what arrives there.                       *)
LEMMA PassAgrees ==
  ASSUME NEW body, NEW N \in Nat, DOMAIN body = 1 .. N, NEW initial
  PROVE  DefinedAt(body, initial)
           = [pc \in DOMAIN body |-> Arriving(body, initial, DefinedAt(body, initial), pc)]
PROOF
  <1> DEFINE F(at) == [pc \in DOMAIN body |-> Arriving(body, initial, at, pc)]
  <1>1. PICK at : at = F(at)
    BY PassExists
  <1>2. DefinedAt(body, initial) = CHOOSE bt : bt = F(bt)
    BY DEF DefinedAt
  <1> HIDE DEF F
  <1>3. DefinedAt(body, initial) = F(DefinedAt(body, initial))
    BY <1>1, <1>2, Zenon
  <1> QED
    BY <1>3 DEF F

(* An analysis of a body: it reaches the first pc with the initial         *)
(* variables, it finds what every reached instruction reads, and along     *)
(* every edge it claims no more than the instruction leaves behind.        *)
Analysed(body, initial, at) ==
  /\ at[1].reached /\ at[1].defined = initial
  /\ \A pc \in DOMAIN body : at[pc].reached =>
       /\ ReadsDefined(body[pc], at[pc].defined)
       /\ \A q \in Successors(body, pc) :
            /\ q \in DOMAIN body /\ at[q].reached
            /\ at[q].defined \subseteq at[pc].defined \cup Defines(body[pc])

(* Control goes forward, within the body.                                  *)
LEMMA SuccessorsForward ==
  ASSUME NEW functions, NEW allowed, NEW body, NEW N \in Nat, DOMAIN body = 1 .. N,
         NEW pc \in DOMAIN body, ShapeOK(functions, allowed, body, pc),
         NEW q \in Successors(body, pc)
  PROVE  q \in DOMAIN body /\ pc < q
  BY DEF Successors, ShapeOK, ForwardTarget

(* What a function starts with: its parameters and, if it is bound, $input.*)
StartVars(f, inputIsBound) ==
  {f.params[i] : i \in DOMAIN f.params} \cup IF inputIsBound THEN {InputVar} ELSE {}

LEMMA PassIsAnalysis ==
  ASSUME NEW functions, NEW allowed, NEW name, NEW bound, TypedFunction(functions[name]),
         ValidFunction(functions, allowed, name, bound)
  PROVE  \E at : Analysed(functions[name].body, StartVars(functions[name], bound), at)
PROOF
  <1> DEFINE body == functions[name].body
             initial == StartVars(functions[name], bound)
             at == DefinedAt(body, initial)
  <1>1. PICK N \in Nat : DOMAIN body = 1 .. N /\ N >= 1
    BY DEF TypedFunction, IsSequence, ValidFunction
  <1>2. /\ \A pc \in DOMAIN body : ShapeOK(functions, allowed, body, pc)
        /\ \A pc \in DOMAIN body : at[pc].reached => ReadsDefined(body[pc], at[pc].defined)
    BY DEF ValidFunction, StartVars
  <1> HIDE DEF initial, body
  <1>3. \A pc \in DOMAIN body : at[pc] = Arriving(body, initial, at, pc)
    BY <1>1, PassAgrees
  <1> HIDE DEF at
  <1>4. at[1].reached /\ at[1].defined = initial
    <2>1. at[1] = Arriving(body, initial, at, 1)
      BY <1>1, <1>3
    <2>2. Arriving(body, initial, at, 1) = [reached |-> TRUE, defined |-> initial]
      BY DEF Arriving
    <2> QED
      BY <2>1, <2>2
  <1>5. ASSUME NEW pc \in DOMAIN body, at[pc].reached, NEW q \in Successors(body, pc)
        PROVE  /\ q \in DOMAIN body /\ at[q].reached
               /\ at[q].defined \subseteq at[pc].defined \cup Defines(body[pc])
    <2>1. q \in DOMAIN body /\ pc < q
      BY <1>1, <1>2, <1>5, SuccessorsForward
    <2> DEFINE preds == {p \in 1 .. q - 1 : q \in Successors(body, p) /\ at[p].reached}
               after == {at[p].defined \cup Defines(body[p]) : p \in preds}
    <2>2. pc \in preds /\ q # 1
      BY <1>1, <1>5, <2>1
    <2>3. at[q] = [reached |-> TRUE, defined |-> DefinedOnEveryPath(after)]
      BY <1>3, <2>1, <2>2 DEF Arriving
    <2>4. at[pc].defined \cup Defines(body[pc]) \in after
      BY <2>2
    <2> HIDE DEF after, preds
    <2> QED
      BY <2>1, <2>3, <2>4 DEF DefinedOnEveryPath
  <1>6. Analysed(body, initial, at)
    BY <1>2, <1>4, <1>5 DEF Analysed
  <1> QED
    BY <1>6 DEF body, initial

-----------------------------------------------------------------------------
(* Sound code, sound frames and sound stacks, as predicates on the         *)
(* functions F of a program, its entry, and a frame or a stack.            *)
InitialVars(F, entry, name) ==
  StartVars(F[name], F[name].params # <<>> \/ name = entry)

FunctionSound(F, entry, allowed, name) ==
  LET body == F[name].body IN
  /\ TypedFunction(F[name])
  /\ 1 \in DOMAIN body /\ body[Len(body)].op = "return"
  /\ \A pc \in DOMAIN body : ShapeOK(F, allowed, body, pc)
  /\ \E at : Analysed(body, InitialVars(F, entry, name), at)

(* Functions carry the number of the fragment they came with, at most k,   *)
(* and call none of another fragment.                                      *)
CodeSound(F, entry, allowed, k) ==
  /\ entry \in DOMAIN F /\ entry[1] = 0
  /\ NoStaticRecursion(F)
  /\ \A name \in DOMAIN F :
       /\ name[1] \in 0 .. k
       /\ FunctionSound(F, entry, allowed, name)
       /\ \A callee \in Callees(F[name]) : callee \in DOMAIN F /\ callee[1] = name[1]

FrameSound(F, entry, f) ==
  /\ f.fn \in DOMAIN F /\ f.pc \in DOMAIN F[f.fn].body
  /\ \E at : /\ Analysed(F[f.fn].body, InitialVars(F, entry, f.fn), at)
             /\ at[f.pc].reached /\ at[f.pc].defined \subseteq DOMAIN f.env

(* A callee returns to its caller's next pc.  A static call runs the       *)
(* function it names; a dynamic one, a function of a later fragment.       *)
MapSlot(ret) ==
  DOMAIN ret = {"kind", "callerFn", "callerPc", "var", "itemVar", "fn", "items", "results"}

Linked(F, caller, callee) ==
  LET site == F[caller.fn].body[caller.pc]
      ret  == callee.ret
  IN /\ caller.pc \in DOMAIN F[caller.fn].body
     /\ site.op \in {"call", "map", "call_dynamic"}
     /\ ret.callerFn = caller.fn /\ ret.callerPc = caller.pc + 1 /\ ret.var = site.out
     /\ site.op # "call_dynamic" => callee.fn = site.fn
     /\ site.op = "call_dynamic" => caller.fn[1] < callee.fn[1]
     /\ ret.kind = "map" =>
          /\ site.op = "map" /\ MapSlot(ret)
          /\ callee.fn = ret.fn /\ Len(ret.results) < Len(ret.items)

Chained(F, entry, s) ==
  /\ WellFramed(s) /\ s[1].fn = entry
  /\ \A i \in 1 .. Len(s) : s[i].fn \in DOMAIN F
  /\ \A i \in 1 .. Len(s) - 1 : Linked(F, s[i], s[i + 1])
  /\ \A i, j \in 1 .. Len(s) : i <= j => s[i].fn[1] <= s[j].fn[1]

StackSound(F, entry, s) ==
  Chained(F, entry, s) /\ \A i \in 1 .. Len(s) : FrameSound(F, entry, s[i])

(* No function is on a chain of calls twice: between the two occurrences   *)
(* no dynamic call could return to the same fragment, so each calls the    *)
(* next statically, and the validator refused that.                        *)
LEMMA NoCycle ==
  ASSUME NEW F, NEW entry, NEW allowed, NEW k \in Nat, CodeSound(F, entry, allowed, k),
         NEW s, Chained(F, entry, s),
         NEW i \in 1 .. Len(s), NEW j \in 1 .. Len(s), i < j
  PROVE  s[i].fn # s[j].fn
PROOF
  <1> SUFFICES ASSUME s[i].fn = s[j].fn PROVE FALSE
    OBVIOUS
  <1>1. Len(s) \in Nat
    BY DEF Chained, WellFramed, IsSequence
  <1>2. \A q \in 1 .. Len(s) : s[q].fn \in DOMAIN F /\ s[q].fn[1] \in Int
    BY DEF Chained, CodeSound
  <1>3. ASSUME NEW q \in i .. j - 1
        PROVE  s[q + 1].fn \in Callees(F[s[q].fn])
    <2>1. /\ q \in 1 .. Len(s) - 1 /\ q \in 1 .. Len(s) /\ q + 1 \in 1 .. Len(s)
          /\ i <= q /\ q + 1 <= j
      BY <1>1
    <2>2. s[i].fn[1] <= s[q].fn[1] /\ s[q + 1].fn[1] <= s[j].fn[1]
      BY <2>1 DEF Chained
    <2>3. ~(s[q].fn[1] < s[q + 1].fn[1])
      BY <1>2, <2>1, <2>2
    <2>4. Linked(F, s[q], s[q + 1])
      BY <2>1 DEF Chained
    <2> QED
      BY <2>3, <2>4 DEF Linked, Callees
  <1> DEFINE S == {s[q].fn : q \in i .. j - 1}
  <1>4. S \in (SUBSET DOMAIN F) \ {{}}
    <2>1. i \in i .. j - 1 /\ i .. j - 1 \subseteq 1 .. Len(s)
      BY <1>1
    <2> QED
      BY <1>2, <2>1
  <1>5. PICK f \in S : Callees(F[f]) \cap S = {}
    <2> HIDE DEF S
    <2> QED
      BY <1>4 DEF CodeSound, NoStaticRecursion
  <1>6. PICK q \in i .. j - 1 : f = s[q].fn
    BY <1>5
  <1>7. s[q + 1].fn \in S
    <2>1. CASE q + 1 \in i .. j - 1
      BY <2>1
    <2>2. CASE q + 1 = j
      <3>1. i \in i .. j - 1
        BY <1>1
      <3> QED
        BY <2>2, <3>1
    <2> QED
      BY <1>1, <1>6, <2>1, <2>2
  <1> HIDE DEF S
  <1> QED
    BY <1>3, <1>5, <1>6, <1>7

(* Replacing the top frame, its function and return slot kept.             *)
LEMMA TopSound ==
  ASSUME NEW F, NEW entry, NEW s, StackSound(F, entry, s),
         NEW f, FrameSound(F, entry, f), DOMAIN f = {"fn", "pc", "env", "ret"},
         f.fn = s[Len(s)].fn, f.ret = s[Len(s)].ret
  PROVE  StackSound(F, entry, [s EXCEPT ![Len(s)] = f])
PROOF
  <1> DEFINE t == [s EXCEPT ![Len(s)] = f]
  <1>1. WellFramed(s) /\ Len(s) \in Nat \ {0}
    BY DEF StackSound, Chained, WellFramed, IsSequence
  <1>2. /\ Len(t) = Len(s) /\ t[Len(s)] = f /\ \A i \in 1 .. Len(s) - 1 : t[i] = s[i]
    BY <1>1, UpdateIsSequence DEF WellFramed
  <1>3. IsFrame(f, Len(s) = 1)
    <2>1. Len(s) \in 1 .. Len(s)
      BY <1>1
    <2>2. IsFrame(s[Len(s)], Len(s) = 1)
      BY <1>1, <2>1 DEF WellFramed
    <2> QED
      BY <2>2 DEF IsFrame
  <1>4. WellFramed(t)
    BY <1>1, <1>3, TopUpdate
  <1> HIDE DEF t
  <1>5. \A i \in 1 .. Len(s) : t[i].fn = s[i].fn /\ t[i].ret = s[i].ret
    BY <1>1, <1>2
  <1>6. ASSUME NEW i \in 1 .. Len(t) - 1 PROVE Linked(F, t[i], t[i + 1])
    <2>1. /\ i \in 1 .. Len(s) - 1 /\ t[i] = s[i] /\ Linked(F, s[i], s[i + 1])
          /\ i + 1 \in 1 .. Len(s)
      BY <1>1, <1>2, <1>6 DEF StackSound, Chained
    <2>2. t[i + 1].fn = s[i + 1].fn /\ t[i + 1].ret = s[i + 1].ret
      BY <1>5, <2>1
    <2> QED
      BY <2>1, <2>2 DEF Linked
  <1>7. Chained(F, entry, t)
    <2>1. 1 \in 1 .. Len(s)
      BY <1>1
    <2> QED
      BY <1>2, <1>4, <1>5, <1>6, <2>1 DEF StackSound, Chained
  <1>8. \A i \in 1 .. Len(t) : FrameSound(F, entry, t[i])
    BY <1>1, <1>2 DEF StackSound
  <1> QED
    BY <1>7, <1>8 DEF StackSound, t

(* Pushing a callee on its caller.                                         *)
LEMMA PushChained ==
  ASSUME NEW F, NEW entry, NEW s, Chained(F, entry, s),
         \A n \in DOMAIN F : n[1] \in Int,
         NEW f, IsFrame(f, FALSE), f.fn \in DOMAIN F, Linked(F, s[Len(s)], f),
         s[Len(s)].fn[1] <= f.fn[1]
  PROVE  /\ Chained(F, entry, Append(s, f))
         /\ Len(Append(s, f)) = Len(s) + 1 /\ Append(s, f)[Len(s) + 1] = f
         /\ \A i \in 1 .. Len(s) : Append(s, f)[i] = s[i]
         /\ Len(s) \in Nat \ {0}
PROOF
  <1> DEFINE t == Append(s, f)
  <1>1. WellFramed(s) /\ Len(s) \in Nat \ {0}
    BY DEF Chained, WellFramed, IsSequence
  <1>2. /\ Len(t) = Len(s) + 1 /\ t[Len(s) + 1] = f /\ \A i \in 1 .. Len(s) : t[i] = s[i]
    BY <1>1, AppendIsSequence DEF WellFramed
  <1>3. WellFramed(t)
    BY <1>1, PushWellFramed
  <1> HIDE DEF t
  <1>4. \A i \in 1 .. Len(t) : t[i].fn \in DOMAIN F /\ t[i].fn[1] \in Int
    BY <1>1, <1>2 DEF Chained
  <1>5. ASSUME NEW i \in 1 .. Len(t) - 1 PROVE Linked(F, t[i], t[i + 1])
    <2>1. CASE i = Len(s)
      BY <1>1, <1>2, <2>1
    <2>2. CASE i \in 1 .. Len(s) - 1
      BY <1>1, <1>2, <2>2 DEF Chained
    <2> QED
      BY <1>1, <1>2, <2>1, <2>2
  <1>6. ASSUME NEW i \in 1 .. Len(t), NEW j \in 1 .. Len(t), i <= j
        PROVE  t[i].fn[1] <= t[j].fn[1]
    <2>1. CASE i \in 1 .. Len(s) /\ j \in 1 .. Len(s)
      BY <1>2, <1>6, <2>1 DEF Chained
    <2>2. CASE i \in 1 .. Len(s) /\ j = Len(s) + 1
      <3>1. s[i].fn[1] <= s[Len(s)].fn[1]
        BY <1>1, <2>2 DEF Chained
      <3>2. t[i] = s[i] /\ t[j] = f /\ s[Len(s)] = t[Len(s)]
        BY <1>1, <1>2, <2>2
      <3>3. t[Len(s)].fn[1] \in Int /\ t[i].fn[1] \in Int /\ t[j].fn[1] \in Int
        BY <1>1, <1>2, <1>4
      <3> QED
        BY <3>1, <3>2, <3>3
    <2>3. CASE i = j
      BY <1>4, <2>3
    <2> QED
      BY <1>1, <1>2, <1>6, <2>1, <2>2, <2>3
  <1>7. t[1].fn = entry
    BY <1>1, <1>2 DEF Chained
  <1> QED
    BY <1>1, <1>2, <1>3, <1>4, <1>5, <1>6, <1>7 DEF Chained, t

LEMMA PushSound ==
  ASSUME NEW F, NEW entry, NEW s, StackSound(F, entry, s), NEW f, FrameSound(F, entry, f),
         Chained(F, entry, Append(s, f)), Len(Append(s, f)) = Len(s) + 1,
         Append(s, f)[Len(s) + 1] = f, \A i \in 1 .. Len(s) : Append(s, f)[i] = s[i],
         Len(s) \in Nat
  PROVE  StackSound(F, entry, Append(s, f))
PROOF
  <1> DEFINE t == Append(s, f)
  <1>1. Chained(F, entry, t) /\ Len(t) = Len(s) + 1 /\ t[Len(s) + 1] = f
        /\ \A i \in 1 .. Len(s) : t[i] = s[i]
    OBVIOUS
  <1> HIDE DEF t
  <1>2. \A i \in 1 .. Len(t) : FrameSound(F, entry, t[i])
    BY <1>1 DEF StackSound
  <1> QED
    BY <1>1, <1>2 DEF StackSound, t

(* Popping the top frame.                                                  *)
LEMMA PopSound ==
  ASSUME NEW F, NEW entry, NEW s, StackSound(F, entry, s), Last(s).ret.kind # "none"
  PROVE  /\ StackSound(F, entry, Front(s))
         /\ Len(s) > 1 /\ Len(s) \in Nat /\ Len(Front(s)) = Len(s) - 1
         /\ \A i \in 1 .. Len(s) - 1 : Front(s)[i] = s[i]
         /\ Linked(F, s[Len(s) - 1], s[Len(s)])
PROOF
  <1> DEFINE t == Front(s)
  <1>1. WellFramed(s) /\ Len(s) \in Nat \ {0}
    BY DEF StackSound, Chained, WellFramed, IsSequence
  <1>2. Len(s) # 1
    BY <1>1 DEF WellFramed, IsFrame, Last
  <1>3. Len(t) = Len(s) - 1 /\ \A i \in 1 .. Len(s) - 1 : t[i] = s[i]
    BY <1>1, FrontIsSequence DEF WellFramed
  <1>4. WellFramed(t)
    BY <1>1, PopWellFramed
  <1> HIDE DEF t
  <1>5. ASSUME NEW i \in 1 .. Len(t) - 1 PROVE Linked(F, t[i], t[i + 1])
    <2>1. /\ i \in 1 .. Len(s) - 1 /\ t[i] = s[i] /\ t[i + 1] = s[i + 1]
      BY <1>1, <1>3
    <2> QED
      BY <2>1 DEF StackSound, Chained
  <1>6. \A i \in 1 .. Len(t) : i \in 1 .. Len(s) /\ t[i] = s[i]
    BY <1>1, <1>3
  <1>7. t[1].fn = entry
    BY <1>1, <1>2, <1>3 DEF StackSound, Chained
  <1>8. Chained(F, entry, t)
    BY <1>4, <1>5, <1>6, <1>7 DEF StackSound, Chained
  <1>9. \A i \in 1 .. Len(t) : FrameSound(F, entry, t[i])
    BY <1>6 DEF StackSound
  <1>10. Linked(F, s[Len(s) - 1], s[Len(s)])
    <2>1. PICK n \in Nat : n = Len(s)
      BY <1>1
    <2>2. n - 1 \in 1 .. n - 1 /\ n - 1 + 1 = n
      BY <1>1, <1>2, <2>1
    <2>3. \A i \in 1 .. n - 1 : Linked(F, s[i], s[i + 1])
      BY <2>1 DEF StackSound, Chained
    <2> QED
      BY <2>1, <2>2, <2>3
  <1> QED
    BY <1>1, <1>2, <1>3, <1>8, <1>9, <1>10 DEF StackSound, t

(* Adding functions keeps what rests on the others.                        *)
LEMMA MoreCode ==
  ASSUME NEW F, NEW G, NEW entry, NEW s, StackSound(F, entry, s),
         DOMAIN F \subseteq DOMAIN G, \A n \in DOMAIN F : G[n] = F[n]
  PROVE  StackSound(G, entry, s)
PROOF
  <1>1. ASSUME NEW i \in 1 .. Len(s) PROVE FrameSound(G, entry, s[i]) /\ s[i].fn \in DOMAIN G
    <2>1. FrameSound(F, entry, s[i]) /\ s[i].fn \in DOMAIN F
      BY DEF StackSound, Chained
    <2>2. G[s[i].fn] = F[s[i].fn]
      BY <2>1
    <2>3. InitialVars(G, entry, s[i].fn) = InitialVars(F, entry, s[i].fn)
      BY <2>2 DEF InitialVars
    <2> QED
      BY <2>1, <2>2, <2>3 DEF FrameSound
  <1>2. Len(s) \in Nat
    BY DEF StackSound, Chained, WellFramed, IsSequence
  <1>3. ASSUME NEW i \in 1 .. Len(s) - 1 PROVE Linked(G, s[i], s[i + 1])
    <2>1. i \in 1 .. Len(s) /\ Linked(F, s[i], s[i + 1])
      BY <1>2 DEF StackSound, Chained
    <2>2. G[s[i].fn] = F[s[i].fn]
      BY <2>1 DEF StackSound, Chained
    <2> QED
      BY <2>1, <2>2 DEF Linked
  <1> QED
    BY <1>1, <1>3 DEF StackSound, Chained

(* A frame that moves along an edge, with what its instruction defines     *)
(* bound, stays sound.                                                     *)
LEMMA EdgeSound ==
  ASSUME NEW F, NEW entry, NEW f, FrameSound(F, entry, f),
         NEW pc \in Successors(F[f.fn].body, f.pc),
         NEW g, g.fn = f.fn, g.pc = pc,
         DOMAIN f.env \cup Defines(F[f.fn].body[f.pc]) \subseteq DOMAIN g.env
  PROVE  FrameSound(F, entry, g)
PROOF
  <1>1. PICK at : /\ Analysed(F[f.fn].body, InitialVars(F, entry, f.fn), at)
                  /\ at[f.pc].reached /\ at[f.pc].defined \subseteq DOMAIN f.env
    BY DEF FrameSound
  <1>2. /\ pc \in DOMAIN F[f.fn].body /\ at[pc].reached
        /\ at[pc].defined \subseteq at[f.pc].defined \cup Defines(F[f.fn].body[f.pc])
    BY <1>1 DEF FrameSound, Analysed
  <1>3. at[pc].defined \subseteq DOMAIN g.env
    BY <1>1, <1>2
  <1> QED
    BY <1>1, <1>2, <1>3 DEF FrameSound

(* Every instruction but a branch, a jump and a return goes to the next.   *)
LEMMA NextIsSuccessor ==
  ASSUME NEW F, NEW entry, NEW allowed, NEW name, FunctionSound(F, entry, allowed, name),
         NEW pc \in DOMAIN F[name].body,
         F[name].body[pc].op \notin {"branch", "jump", "return"}
  PROVE  pc + 1 \in Successors(F[name].body, pc)
PROOF
  <1>1. PICK N \in Nat : N = Len(F[name].body) /\ DOMAIN F[name].body = 1 .. N
    BY DEF FunctionSound, TypedFunction, IsSequence
  <1>2. pc # N
    BY <1>1 DEF FunctionSound
  <1>3. pc + 1 \in DOMAIN F[name].body
    BY <1>1, <1>2
  <1> QED
    BY <1>3 DEF Successors

(* A frame at the first pc of a sound function with its variables bound.   *)
LEMMA EntrySound ==
  ASSUME NEW F, NEW entry, NEW allowed, NEW f, f.fn \in DOMAIN F,
         FunctionSound(F, entry, allowed, f.fn),
         f.pc = 1, InitialVars(F, entry, f.fn) \subseteq DOMAIN f.env
  PROVE  FrameSound(F, entry, f)
  BY DEF FunctionSound, FrameSound, Analysed

(* What a sound frame's instruction needs is there.                        *)
LEMMA NeedsMet ==
  ASSUME NEW F, NEW entry, NEW f, FrameSound(F, entry, f)
  PROVE  NeededVars(F[f.fn].body[f.pc]) \subseteq DOMAIN f.env
  BY DEF FrameSound, Analysed, ReadsDefined

-----------------------------------------------------------------------------
(* Validated code is sound, and so is what installing a fragment makes of  *)
(* it.                                                                     *)
LEMMA ValidIsSound ==
  ASSUME NEW F, NEW allowed, NEW name, NEW bound, TypedFunction(F[name]),
         ValidFunction(F, allowed, name, bound)
  PROVE  /\ 1 \in DOMAIN F[name].body /\ F[name].body[Len(F[name].body)].op = "return"
         /\ \A pc \in DOMAIN F[name].body : ShapeOK(F, allowed, F[name].body, pc)
         /\ \E at : Analysed(F[name].body, StartVars(F[name], bound), at)
PROOF
  <1>1. 1 \in DOMAIN F[name].body
    BY DEF TypedFunction, IsSequence, ValidFunction
  <1>2. \E at : Analysed(F[name].body, StartVars(F[name], bound), at)
    BY PassIsAnalysis
  <1> QED
    BY <1>1, <1>2 DEF ValidFunction

(* A static callee is a function of the program.                           *)
LEMMA CalleesExist ==
  ASSUME NEW F, NEW allowed, NEW name,
         \A pc \in DOMAIN F[name].body : ShapeOK(F, allowed, F[name].body, pc)
  PROVE  Callees(F[name]) \subseteq DOMAIN F
  BY DEF Callees, ShapeOK

(* A program as the boundary starts with it.                               *)
LEMMA ProgramSound ==
  ASSUME NEW p, WellTyped(p), ValidProgram(p)
  PROVE  CodeSound(p.functions, p.entry, p.allowed, 0)
PROOF
  <1> DEFINE F == p.functions
  <1>1. /\ p.entry \in DOMAIN F /\ NoStaticRecursion(F)
        /\ \A name \in DOMAIN F : ValidFunction(F, p.allowed, name,
                                                F[name].params # <<>> \/ name = p.entry)
    BY DEF ValidProgram, Valid
  <1>2. \A name \in DOMAIN F : name = <<0, name[2]>> /\ TypedFunction(F[name])
    BY DEF WellTyped
  <1>3. \A name \in DOMAIN F : name[1] = 0
    BY <1>2
  <1> HIDE DEF F
  <1>4. ASSUME NEW name \in DOMAIN F PROVE FunctionSound(F, p.entry, p.allowed, name)
    BY <1>1, <1>2, ValidIsSound DEF FunctionSound, InitialVars
  <1>5. ASSUME NEW name \in DOMAIN F, NEW callee \in Callees(F[name])
        PROVE  callee \in DOMAIN F /\ callee[1] = name[1]
    <2>1. \A pc \in DOMAIN F[name].body : ShapeOK(F, p.allowed, F[name].body, pc)
      BY <1>4 DEF FunctionSound
    <2>2. Callees(F[name]) \subseteq DOMAIN F
      BY <2>1, CalleesExist
    <2> QED
      BY <1>3, <2>2
  <1>6. \A name \in DOMAIN F : name[1] \in 0 .. 0
    BY <1>3
  <1> QED
    BY <1>1, <1>3, <1>4, <1>5, <1>6 DEF CodeSound, F

(* A function with domain 1 .. N is a sequence.                            *)
LEMMA FunctionIsSequence ==
  ASSUME NEW N \in Nat, NEW s, s = [i \in 1 .. N |-> s[i]]
  PROVE  IsSequence(s) /\ Len(s) = N
PROOF
  <1> DEFINE T == {s[i] : i \in DOMAIN s}
  <1>1. s \in [1 .. N -> T]
    OBVIOUS
  <1>2. s \in Seq(T) /\ Len(s) = N
    <2> HIDE DEF T
    <2> QED
      BY <1>1
  <1> QED
    BY <1>2 DEF IsSequence

(* Renaming the functions an instruction calls changes nothing else of it. *)
SameButCallee(a, b) ==
  /\ b.op = a.op
  /\ a.op \notin {"call", "map"} => b = a
  /\ a.op = "call" =>
       DOMAIN b = {"op", "out", "fn", "args"} /\ b.out = a.out /\ b.args = a.args
  /\ a.op = "map" =>
       /\ DOMAIN b = {"op", "out", "expr", "itemVar", "fn"}
       /\ b.out = a.out /\ b.expr = a.expr /\ b.itemVar = a.itemVar

LEMMA RenamedInstr ==
  ASSUME NEW f, TypedFunction(f), NEW k, NEW pc \in DOMAIN f.body
  PROVE  /\ SameButCallee(f.body[pc], PrefixRefs(k, f).body[pc])
         /\ f.body[pc].op \in {"call", "map"} =>
              PrefixRefs(k, f).body[pc].fn = <<k, f.body[pc].fn[2]>>
PROOF
  <1> DEFINE instr == f.body[pc]
             renamed == [instr EXCEPT !.fn = <<k, instr.fn[2]>>]
  <1>1. PrefixRefs(k, f).body[pc] = IF instr.op \in {"call", "map"} THEN renamed ELSE instr
    BY DEF PrefixRefs, TypedFunction
  <1>2. TypedInstr(instr)
    BY DEF TypedFunction
  <1>3. CASE instr.op = "call"
    <2>1. DOMAIN instr = {"op", "out", "fn", "args"}
      BY <1>2, <1>3 DEF TypedInstr
    <2>2. /\ DOMAIN renamed = DOMAIN instr /\ renamed.fn = <<k, instr.fn[2]>>
          /\ renamed.op = instr.op /\ renamed.out = instr.out /\ renamed.args = instr.args
      BY <2>1
    <2> HIDE DEF renamed, instr
    <2> QED
      BY <1>1, <1>3, <2>1, <2>2 DEF SameButCallee, instr
  <1>4. CASE instr.op = "map"
    <2>1. DOMAIN instr = {"op", "out", "expr", "itemVar", "fn"}
      BY <1>2, <1>4 DEF TypedInstr
    <2>2. /\ DOMAIN renamed = DOMAIN instr /\ renamed.fn = <<k, instr.fn[2]>>
          /\ renamed.op = instr.op /\ renamed.out = instr.out /\ renamed.expr = instr.expr
          /\ renamed.itemVar = instr.itemVar
      BY <2>1
    <2> HIDE DEF renamed, instr
    <2> QED
      BY <1>1, <1>4, <2>1, <2>2 DEF SameButCallee, instr
  <1>5. CASE instr.op \notin {"call", "map"}
    BY <1>1, <1>5 DEF SameButCallee
  <1> QED
    BY <1>3, <1>4, <1>5

(* So it reads, defines and leads to the same.                             *)
LEMMA SameFlow ==
  ASSUME NEW a, NEW b, SameButCallee(a, b)
  PROVE  /\ NeededVars(b) = NeededVars(a) /\ OutputVars(b) = OutputVars(a)
         /\ RepairTargets(b) = RepairTargets(a) /\ Defines(b) = Defines(a)
         /\ \A defined : ReadsDefined(a, defined) => ReadsDefined(b, defined)
PROOF
  <1>1. CASE a.op \notin {"call", "map"}
    BY <1>1 DEF SameButCallee
  <1>2. CASE a.op = "call"
    BY <1>2 DEF SameButCallee, NeededVars, OutputVars, RepairTargets, Defines, ReadsDefined
  <1>3. CASE a.op = "map"
    BY <1>3 DEF SameButCallee, NeededVars, OutputVars, RepairTargets, Defines, ReadsDefined
  <1> QED
    BY <1>1, <1>2, <1>3

LEMMA RenamedFunction ==
  ASSUME NEW f, TypedFunction(f), NEW k
  PROVE  /\ TypedFunction(PrefixRefs(k, f))
         /\ PrefixRefs(k, f).params = f.params
         /\ DOMAIN PrefixRefs(k, f).body = DOMAIN f.body
         /\ Len(PrefixRefs(k, f).body) = Len(f.body)
PROOF
  <1> DEFINE g == PrefixRefs(k, f)
  <1>1. /\ DOMAIN g = {"params", "schema", "body"} /\ g.params = f.params
        /\ g.body = [pc \in DOMAIN f.body |-> g.body[pc]]
    BY DEF PrefixRefs, TypedFunction
  <1>2. PICK N \in Nat : N = Len(f.body) /\ DOMAIN f.body = 1 .. N
    BY DEF TypedFunction, IsSequence
  <1>3. \A pc \in DOMAIN f.body : SameButCallee(f.body[pc], g.body[pc])
    BY RenamedInstr
  <1> HIDE DEF g
  <1>4. IsSequence(g.body) /\ Len(g.body) = N /\ DOMAIN g.body = DOMAIN f.body
    BY <1>1, <1>2, FunctionIsSequence
  <1>5. ASSUME NEW pc \in DOMAIN g.body PROVE TypedInstr(g.body[pc])
    <2>1. SameButCallee(f.body[pc], g.body[pc]) /\ TypedInstr(f.body[pc])
      BY <1>3, <1>4 DEF TypedFunction
    <2>2. CASE f.body[pc].op \in {"call", "map"}
      BY <2>1, <2>2 DEF SameButCallee, TypedInstr
    <2>3. CASE f.body[pc].op \notin {"call", "map"}
      BY <2>1, <2>3 DEF SameButCallee
    <2> QED
      BY <2>2, <2>3
  <1>6. TypedFunction(g)
    BY <1>1, <1>4, <1>5 DEF TypedFunction
  <1> QED
    BY <1>1, <1>2, <1>4, <1>6 DEF g

LEMMA RenamedAnalysis ==
  ASSUME NEW f, TypedFunction(f), NEW k, 1 \in DOMAIN f.body, NEW initial, NEW at,
         Analysed(f.body, initial, at)
  PROVE  Analysed(PrefixRefs(k, f).body, initial, at)
PROOF
  <1> DEFINE body == f.body
             renamed == PrefixRefs(k, f).body
  <1>1. DOMAIN renamed = DOMAIN body
    BY RenamedFunction
  <1>2. \A pc \in DOMAIN body : SameButCallee(body[pc], renamed[pc])
    BY RenamedInstr
  <1>3. Analysed(body, initial, at)
    OBVIOUS
  <1> HIDE DEF body, renamed
  <1>4. ASSUME NEW pc \in DOMAIN body PROVE Successors(renamed, pc) = Successors(body, pc)
    <2>1. SameButCallee(body[pc], renamed[pc])
      BY <1>2
    <2>2. CASE body[pc].op \in {"call", "map"}
      BY <1>1, <2>1, <2>2 DEF SameButCallee, Successors
    <2>3. CASE body[pc].op \notin {"call", "map"}
      BY <1>1, <2>1, <2>3 DEF SameButCallee, Successors
    <2> QED
      BY <2>2, <2>3
  <1>5. ASSUME NEW pc \in DOMAIN body
        PROVE  /\ Defines(renamed[pc]) = Defines(body[pc])
               /\ \A defined : ReadsDefined(body[pc], defined)
                                 => ReadsDefined(renamed[pc], defined)
    BY <1>2, SameFlow
  <1>6. Analysed(renamed, initial, at)
    BY <1>1, <1>3, <1>4, <1>5 DEF Analysed
  <1> QED
    BY <1>6 DEF renamed

(* G is F with the functions of the fragment f installed under number k.   *)
Renamed(k, name) == <<k, name[2]>>

Fresh(f, k) == {Renamed(k, name) : name \in DOMAIN f.functions}

Installs(F, f, k, G) ==
  G = [n \in DOMAIN F \cup Fresh(f, k) |->
         IF n \in Fresh(f, k) THEN PrefixRefs(k, f.functions[<<0, n[2]>>]) ELSE F[n]]

KeptApart(F, entry, k, f, m, G) ==
  /\ DOMAIN G = DOMAIN F \cup Fresh(f, m)
  /\ \A n \in DOMAIN F : G[n] = F[n] /\ n[1] \in 0 .. k
  /\ \A name \in DOMAIN f.functions :
       /\ Renamed(m, name) \notin DOMAIN F
       /\ Renamed(m, name)[1] = m /\ Renamed(m, name) # entry
       /\ G[Renamed(m, name)] = PrefixRefs(m, f.functions[name])

LEMMA InstalledNames ==
  ASSUME NEW F, NEW entry, NEW allowed, NEW k \in Nat, CodeSound(F, entry, allowed, k),
         NEW m \in Nat, m > k, NEW f, WellTyped(f), NEW G, Installs(F, f, m, G)
  PROVE  KeptApart(F, entry, k, f, m, G)
PROOF
  <1> DEFINE installed == Fresh(f, m)
  <1>1. \A n \in DOMAIN F : n[1] \in 0 .. k
    BY DEF CodeSound
  <1>2. \A name \in DOMAIN f.functions : Renamed(m, name)[1] = m
    BY DEF Renamed
  <1>3. \A n \in DOMAIN F : n \notin installed
    BY <1>1, <1>2 DEF Fresh
  <1>4. DOMAIN G = DOMAIN F \cup installed
    BY DEF Installs
  <1>5. \A n \in DOMAIN F : G[n] = F[n]
    BY <1>3 DEF Installs
  <1>6. ASSUME NEW name \in DOMAIN f.functions
        PROVE  G[Renamed(m, name)] = PrefixRefs(m, f.functions[name])
    <2>1. <<0, Renamed(m, name)[2]>> = name
      BY DEF WellTyped, Renamed
    <2>2. Renamed(m, name) \in installed
      BY DEF Fresh
    <2>3. \A n \in installed : G[n] = PrefixRefs(m, f.functions[<<0, n[2]>>])
      BY DEF Installs
    <2> HIDE DEF installed
    <2> QED
      BY <2>1, <2>2, <2>3
  <1>7. \A name \in DOMAIN f.functions :
          Renamed(m, name) \notin DOMAIN F /\ Renamed(m, name) # entry
    BY <1>3 DEF CodeSound, Fresh
  <1> QED
    BY <1>1, <1>2, <1>4, <1>5, <1>6, <1>7 DEF KeptApart

(* The old functions are as sound as before.                               *)
LEMMA OldStaysSound ==
  ASSUME NEW F, NEW G, NEW entry, NEW allowed,
         DOMAIN F \subseteq DOMAIN G, \A n \in DOMAIN F : G[n] = F[n],
         NEW name \in DOMAIN F, FunctionSound(F, entry, allowed, name)
  PROVE  FunctionSound(G, entry, allowed, name)
PROOF
  <1>1. G[name] = F[name]
    OBVIOUS
  <1>2. InitialVars(G, entry, name) = InitialVars(F, entry, name)
    BY <1>1 DEF InitialVars
  <1>3. ASSUME NEW pc \in DOMAIN F[name].body PROVE ShapeOK(G, allowed, F[name].body, pc)
    <2>1. ShapeOK(F, allowed, F[name].body, pc)
      BY DEF FunctionSound
    <2> QED
      BY <2>1 DEF ShapeOK
  <1> QED
    BY <1>1, <1>2, <1>3 DEF FunctionSound

(* The shape of a renamed instruction is as good as the original's.        *)
LEMMA RenamedShape ==
  ASSUME NEW f, WellTyped(f), NEW name \in DOMAIN f.functions,
         NEW pc \in DOMAIN f.functions[name].body,
         ShapeOK(f.functions, f.allowed, f.functions[name].body, pc),
         NEW allowed, f.allowed \subseteq allowed, NEW k, NEW G,
         \A n \in DOMAIN f.functions :
           /\ Renamed(k, n) \in DOMAIN G
           /\ G[Renamed(k, n)] = PrefixRefs(k, f.functions[n])
  PROVE  ShapeOK(G, allowed, PrefixRefs(k, f.functions[name]).body, pc)
PROOF
  <1> DEFINE body == f.functions[name].body
             renamed == PrefixRefs(k, f.functions[name]).body
             a == body[pc]
             b == renamed[pc]
  <1> SUFFICES ShapeOK(G, allowed, renamed, pc)
    OBVIOUS
  <1>1. \A n \in DOMAIN f.functions : TypedFunction(f.functions[n])
    BY DEF WellTyped
  <1>2. DOMAIN renamed = DOMAIN body
    BY <1>1, RenamedFunction
  <1>3. SameButCallee(a, b) /\ (a.op \in {"call", "map"} => b.fn = Renamed(k, a.fn))
    BY <1>1, RenamedInstr DEF Renamed
  <1>4. \A n \in DOMAIN f.functions : G[Renamed(k, n)].params = f.functions[n].params
    BY <1>1, RenamedFunction
  <1>5. ShapeOK(f.functions, f.allowed, body, pc)
    OBVIOUS
  <1>6. CASE a.op \in {"call", "map"}
    <2>1. b.fn = Renamed(k, a.fn) /\ a.fn \in DOMAIN f.functions /\ b.op = a.op
      BY <1>3, <1>5, <1>6 DEF ShapeOK, SameButCallee
    <2>2. b.fn \in DOMAIN G /\ G[b.fn].params = f.functions[a.fn].params
      BY <1>4, <2>1
    <2>3. OutputVars(b) = OutputVars(a) /\ RepairTargets(b) = {} /\ RepairTargets(a) = {}
      <3>1. OutputVars(b) = OutputVars(a) /\ RepairTargets(b) = RepairTargets(a)
        BY <1>3, SameFlow
      <3> HIDE DEF a, b
      <3>2. RepairTargets(a) = {}
        BY <1>6 DEF RepairTargets
      <3> QED
        BY <3>1, <3>2
    <2>4. /\ a.op = "call" => b.args = a.args /\ Len(f.functions[a.fn].params) = Len(a.args)
          /\ a.op = "map" => b.itemVar = a.itemVar /\ a.itemVar # InputVar
                             /\ Len(f.functions[a.fn].params) = 1
          /\ InputVar \notin OutputVars(a)
      BY <1>3, <1>5 DEF ShapeOK, SameButCallee
    <2> HIDE DEF body, a
    <2>5. CASE a.op = "call"
      BY <2>1, <2>2, <2>3, <2>4, <2>5 DEF ShapeOK
    <2>6. CASE a.op = "map"
      BY <2>1, <2>2, <2>3, <2>4, <2>6 DEF ShapeOK
    <2> QED
      BY <1>6, <2>5, <2>6
  <1>7. CASE a.op \notin {"call", "map"}
    <2>1. b = a
      BY <1>3, <1>7 DEF SameButCallee
    <2> HIDE DEF body, renamed
    <2>2. /\ InputVar \notin OutputVars(a) \cup RepairTargets(a)
          /\ a.op = "perform" =>
               /\ SupportedEffect(a.effect)
               /\ EffectAllowed(allowed, a.effect)
               /\ a.policy.onFailure = "capture" => "think" \in allowed
          /\ RepairTargets(a) # {} => "think" \in allowed
      BY <1>5 DEF ShapeOK, EffectAllowed
    <2>3. /\ a.op = "branch" =>
               ForwardTarget(renamed, pc, a.then) /\ ForwardTarget(renamed, pc, a.else)
          /\ a.op = "jump" => ForwardTarget(renamed, pc, a.target)
      BY <1>2, <1>5 DEF ShapeOK, ForwardTarget
    <2>4. renamed[pc] = a
      BY <2>1
    <2> HIDE DEF a, b
    <2> QED
      BY <1>7, <2>2, <2>3, <2>4 DEF ShapeOK
  <1> QED
    BY <1>6, <1>7

(* The functions a valid fragment brings are sound.                        *)
LEMMA NewIsSound ==
  ASSUME NEW F, NEW entry, NEW allowed, NEW k \in Nat, CodeSound(F, entry, allowed, k),
         NEW m \in Nat, m > k,
         NEW f, WellTyped(f), ValidFragment(f), f.allowed \subseteq allowed,
         NEW G, Installs(F, f, m, G), NEW name \in DOMAIN f.functions
  PROVE  FunctionSound(G, entry, allowed, Renamed(m, name))
PROOF
  <1> DEFINE old == f.functions[name]
             new == PrefixRefs(m, old)
  <1>0. KeptApart(F, entry, k, f, m, G)
    BY InstalledNames
  <1>1. G[Renamed(m, name)] = new /\ Renamed(m, name) # entry
    BY <1>0 DEF KeptApart
  <1>2. TypedFunction(old) /\ ValidFunction(f.functions, f.allowed, name, old.params # <<>>)
    BY DEF WellTyped, ValidFragment, Valid
  <1>3. /\ 1 \in DOMAIN old.body /\ old.body[Len(old.body)].op = "return"
        /\ \A pc \in DOMAIN old.body : ShapeOK(f.functions, f.allowed, old.body, pc)
        /\ \E at : Analysed(old.body, StartVars(old, old.params # <<>>), at)
    BY <1>2, ValidIsSound
  <1>4. /\ TypedFunction(new) /\ new.params = old.params
        /\ DOMAIN new.body = DOMAIN old.body /\ Len(new.body) = Len(old.body)
    BY <1>2, RenamedFunction
  <1>5. new.body[Len(new.body)].op = "return"
    <2>1. Len(old.body) \in DOMAIN old.body
      BY <1>2, <1>3 DEF TypedFunction, IsSequence
    <2> QED
      BY <1>2, <1>3, <1>4, <2>1, RenamedInstr DEF SameButCallee
  <1>6. ASSUME NEW pc \in DOMAIN new.body PROVE ShapeOK(G, allowed, new.body, pc)
    <2>0. KeptApart(F, entry, k, f, m, G)
      BY InstalledNames
    <2>1. \A n \in DOMAIN f.functions :
            /\ Renamed(m, n) \in DOMAIN G
            /\ G[Renamed(m, n)] = PrefixRefs(m, f.functions[n])
      <3>1. \A n \in DOMAIN f.functions : Renamed(m, n) \in Fresh(f, m)
        BY DEF Fresh
      <3> HIDE DEF old, new
      <3> QED
        BY <2>0, <3>1 DEF KeptApart
    <2> QED
      BY <1>3, <1>4, <2>1, RenamedShape
  <1>7. InitialVars(G, entry, Renamed(m, name)) = StartVars(old, old.params # <<>>)
    <2>1. StartVars(new, new.params # <<>>) = StartVars(old, old.params # <<>>)
      BY <1>4 DEF StartVars
    <2>2. InitialVars(G, entry, Renamed(m, name)) = StartVars(new, new.params # <<>>)
      BY <1>1 DEF InitialVars
    <2> QED
      BY <2>1, <2>2
  <1>8. \E at : Analysed(new.body, InitialVars(G, entry, Renamed(m, name)), at)
    BY <1>2, <1>3, <1>7, RenamedAnalysis
  <1> HIDE DEF new, old
  <1> QED
    BY <1>1, <1>3, <1>4, <1>5, <1>6, <1>8 DEF FunctionSound

(* They call each other, under their new names.                            *)
LEMMA NewCallees ==
  ASSUME NEW f, TypedFunction(f), NEW k
  PROVE  Callees(PrefixRefs(k, f)) = {Renamed(k, callee) : callee \in Callees(f)}
PROOF
  <1> DEFINE g == PrefixRefs(k, f)
             calling == {pc \in DOMAIN f.body : f.body[pc].op \in {"call", "map"}}
  <1>1. DOMAIN g.body = DOMAIN f.body
    BY RenamedFunction
  <1>2. \A pc \in DOMAIN f.body :
          /\ g.body[pc].op = f.body[pc].op
          /\ pc \in calling => g.body[pc].fn = Renamed(k, f.body[pc].fn)
    BY RenamedInstr DEF SameButCallee, Renamed
  <1> HIDE DEF g
  <1>3. {pc \in DOMAIN g.body : g.body[pc].op \in {"call", "map"}} = calling
    BY <1>1, <1>2
  <1>4. Callees(g) = {g.body[pc].fn : pc \in calling}
    BY <1>3 DEF Callees
  <1>5. Callees(f) = {f.body[pc].fn : pc \in calling}
    BY DEF Callees
  <1> HIDE DEF calling
  <1>6. \A pc \in calling : g.body[pc].fn = Renamed(k, f.body[pc].fn)
    BY <1>2 DEF calling
  <1> QED
    BY <1>4, <1>5, <1>6 DEF g

(* No call graph that was acyclic gets a cycle.                            *)
LEMMA StillNoRecursion ==
  ASSUME NEW F, NEW entry, NEW allowed, NEW k \in Nat, CodeSound(F, entry, allowed, k),
         NEW m \in Nat, m > k,
         NEW f, WellTyped(f), ValidFragment(f), NEW G, Installs(F, f, m, G)
  PROVE  NoStaticRecursion(G)
PROOF
  <1>0. KeptApart(F, entry, k, f, m, G)
    BY InstalledNames
  <1>1. /\ DOMAIN G = DOMAIN F \cup Fresh(f, m)
        /\ \A n \in DOMAIN F : G[n] = F[n]
        /\ \A name \in DOMAIN f.functions :
             G[Renamed(m, name)] = PrefixRefs(m, f.functions[name])
    BY <1>0 DEF KeptApart
  <1>2. ASSUME NEW S \in SUBSET DOMAIN G, S # {}
        PROVE  \E n \in S : Callees(G[n]) \cap S = {}
    <2> DEFINE T == {name \in DOMAIN f.functions : Renamed(m, name) \in S}
    <2>1. CASE T = {}
      <3>1. S \in (SUBSET DOMAIN F) \ {{}}
        BY <1>1, <1>2, <2>1 DEF Fresh
      <3>2. PICK n \in S : Callees(F[n]) \cap S = {}
        BY <3>1 DEF CodeSound, NoStaticRecursion
      <3> QED
        BY <1>1, <3>1, <3>2
    <2>2. CASE T # {}
      <3>1. T \in (SUBSET DOMAIN f.functions) \ {{}}
        BY <2>2
      <3>2. PICK name \in T : Callees(f.functions[name]) \cap T = {}
        <4> HIDE DEF T
        <4> QED
          BY <3>1 DEF ValidFragment, Valid, NoStaticRecursion
      <3>3. name \in DOMAIN f.functions /\ Renamed(m, name) \in S
        OBVIOUS
      <3>4. Callees(f.functions[name]) \subseteq DOMAIN f.functions
        BY <3>3, CalleesExist DEF ValidFragment, Valid, ValidFunction
      <3>5. Callees(G[Renamed(m, name)])
              = {Renamed(m, callee) : callee \in Callees(f.functions[name])}
        BY <1>1, <3>3, NewCallees DEF WellTyped
      <3>6. \A callee \in Callees(f.functions[name]) : Renamed(m, callee) \notin S
        BY <3>2, <3>4
      <3> QED
        BY <3>3, <3>5, <3>6
    <2> QED
      BY <2>1, <2>2
  <1> QED
    BY <1>2 DEF NoStaticRecursion

(* So the whole stays sound.                                               *)
LEMMA InstallSound ==
  ASSUME NEW F, NEW entry, NEW allowed, NEW k \in Nat, CodeSound(F, entry, allowed, k),
         NEW m \in Nat, m > k,
         NEW f, WellTyped(f), ValidFragment(f), f.allowed \subseteq allowed,
         NEW G, Installs(F, f, m, G)
  PROVE  CodeSound(G, entry, allowed, m)
PROOF
  <1>0. KeptApart(F, entry, k, f, m, G)
    BY InstalledNames
  <1>1. /\ DOMAIN G = DOMAIN F \cup Fresh(f, m)
        /\ \A n \in DOMAIN F : G[n] = F[n] /\ n[1] \in 0 .. k
        /\ \A name \in DOMAIN f.functions :
             /\ Renamed(m, name)[1] = m
             /\ G[Renamed(m, name)] = PrefixRefs(m, f.functions[name])
    BY <1>0 DEF KeptApart
  <1>2. ASSUME NEW n \in DOMAIN F
        PROVE  /\ n[1] \in 0 .. m
               /\ FunctionSound(G, entry, allowed, n)
               /\ \A callee \in Callees(G[n]) : callee \in DOMAIN G /\ callee[1] = n[1]
    <2>1. /\ FunctionSound(F, entry, allowed, n)
          /\ \A callee \in Callees(F[n]) : callee \in DOMAIN F /\ callee[1] = n[1]
      BY DEF CodeSound
    <2>2. FunctionSound(G, entry, allowed, n)
      BY <1>1, <2>1, OldStaysSound
    <2>3. n[1] \in 0 .. m
      BY <1>1
    <2> QED
      BY <1>1, <2>1, <2>2, <2>3
  <1>3. ASSUME NEW name \in DOMAIN f.functions
        PROVE  /\ Renamed(m, name)[1] \in 0 .. m
               /\ FunctionSound(G, entry, allowed, Renamed(m, name))
               /\ \A callee \in Callees(G[Renamed(m, name)]) :
                    callee \in DOMAIN G /\ callee[1] = Renamed(m, name)[1]
    <2>1. FunctionSound(G, entry, allowed, Renamed(m, name))
      BY NewIsSound
    <2>2. Callees(f.functions[name]) \subseteq DOMAIN f.functions
      BY CalleesExist DEF ValidFragment, Valid, ValidFunction
    <2>3. Callees(G[Renamed(m, name)])
            = {Renamed(m, callee) : callee \in Callees(f.functions[name])}
      BY <1>1, NewCallees DEF WellTyped
    <2>4. Renamed(m, name)[1] \in 0 .. m
      BY <1>1
    <2>5. \A callee \in Callees(f.functions[name]) :
            Renamed(m, callee) \in DOMAIN G /\ Renamed(m, callee)[1] = m
      BY <1>1, <2>2 DEF Fresh
    <2> QED
      BY <1>1, <2>1, <2>3, <2>4, <2>5
  <1>4. NoStaticRecursion(G)
    BY StillNoRecursion
  <1>5. entry \in DOMAIN G /\ entry[1] = 0
    BY <1>1 DEF CodeSound
  <1> QED
    BY <1>1, <1>2, <1>3, <1>4, <1>5 DEF CodeSound, Fresh

-----------------------------------------------------------------------------
(* What instructions do to a sound stack.                                  *)

(* The parts of a sound stack.                                             *)
LEMMA SoundParts ==
  ASSUME NEW F, NEW entry, NEW s, StackSound(F, entry, s)
  PROVE  /\ WellFramed(s) /\ Len(s) \in Nat \ {0} /\ Len(s) \in 1 .. Len(s)
         /\ DOMAIN s = 1 .. Len(s) /\ Last(s) = s[Len(s)] /\ s[1].fn = entry
         /\ FrameSound(F, entry, Last(s)) /\ IsFrame(Last(s), Len(s) = 1)
PROOF
  <1>1. /\ WellFramed(s) /\ Len(s) \in Nat \ {0} /\ DOMAIN s = 1 .. Len(s)
        /\ s[1].fn = entry
    BY DEF StackSound, Chained, WellFramed, IsSequence
  <1>2. Len(s) \in 1 .. Len(s) /\ Last(s) = s[Len(s)]
    BY <1>1 DEF Last
  <1> QED
    BY <1>1, <1>2 DEF StackSound, WellFramed

(* The top frame goes on along an edge with what the instruction defines.  *)
LEMMA MovedSound ==
  ASSUME NEW F, NEW entry, NEW s, StackSound(F, entry, s), NEW name, NEW v,
         NEW pc \in Successors(F[Last(s).fn].body, Last(s).pc),
         Defines(F[Last(s).fn].body[Last(s).pc]) \subseteq {name}
  PROVE  StackSound(F, entry, Moved(s, pc, name, v))
PROOF
  <1> DEFINE top == Last(s)
             f == [top EXCEPT !.pc = pc, !.env = Bind(top.env, name, v)]
  <1>1. /\ Len(s) \in 1 .. Len(s) /\ DOMAIN s = 1 .. Len(s) /\ top = s[Len(s)]
        /\ FrameSound(F, entry, top) /\ DOMAIN top = {"fn", "pc", "env", "ret"}
    BY SoundParts DEF IsFrame
  <1>2. /\ DOMAIN f = {"fn", "pc", "env", "ret"} /\ f.fn = top.fn /\ f.pc = pc
        /\ f.ret = top.ret /\ f.env = Bind(top.env, name, v)
    BY <1>1
  <1>3. DOMAIN f.env = DOMAIN top.env \cup {name}
    BY <1>2 DEF Bind
  <1>4. Moved(s, pc, name, v) = [s EXCEPT ![Len(s)] = f]
    BY <1>1 DEF Moved
  <1>5. pc \in Successors(F[top.fn].body, top.pc)
        /\ DOMAIN top.env \cup Defines(F[top.fn].body[top.pc]) \subseteq DOMAIN f.env
    BY <1>3
  <1> HIDE DEF top, f
  <1>6. FrameSound(F, entry, f)
    BY <1>1, <1>2, <1>5, EdgeSound
  <1>7. StackSound(F, entry, [s EXCEPT ![Len(s)] = f])
    BY <1>1, <1>2, <1>6, TopSound
  <1> QED
    BY <1>4, <1>7, Zenon

(* Or with nothing new, where the instruction defines nothing new.         *)
LEMMA JumpedSound ==
  ASSUME NEW F, NEW entry, NEW s, StackSound(F, entry, s),
         NEW pc \in Successors(F[Last(s).fn].body, Last(s).pc),
         Defines(F[Last(s).fn].body[Last(s).pc]) \subseteq DOMAIN Last(s).env
  PROVE  StackSound(F, entry, Jumped(s, pc))
PROOF
  <1> DEFINE top == Last(s)
             f == [top EXCEPT !.pc = pc]
  <1>1. /\ Len(s) \in 1 .. Len(s) /\ DOMAIN s = 1 .. Len(s) /\ top = s[Len(s)]
        /\ FrameSound(F, entry, top) /\ DOMAIN top = {"fn", "pc", "env", "ret"}
    BY SoundParts DEF IsFrame
  <1>2. /\ DOMAIN f = {"fn", "pc", "env", "ret"} /\ f.fn = top.fn /\ f.pc = pc
        /\ f.ret = top.ret /\ f.env = top.env
    BY <1>1
  <1>3. Jumped(s, pc) = [s EXCEPT ![Len(s)] = f]
    BY <1>1 DEF Jumped
  <1>4. pc \in Successors(F[top.fn].body, top.pc)
        /\ DOMAIN top.env \cup Defines(F[top.fn].body[top.pc]) \subseteq DOMAIN f.env
    BY <1>2
  <1> HIDE DEF top, f
  <1>5. FrameSound(F, entry, f)
    BY <1>1, <1>2, <1>4, EdgeSound
  <1>6. StackSound(F, entry, [s EXCEPT ![Len(s)] = f])
    BY <1>1, <1>2, <1>5, TopSound
  <1> QED
    BY <1>3, <1>6, Zenon

(* A link never goes back to an earlier fragment.                          *)
LEMMA LinkedForward ==
  ASSUME NEW F, NEW entry, NEW allowed, NEW k \in Nat, CodeSound(F, entry, allowed, k),
         NEW caller, NEW callee, caller.fn \in DOMAIN F, callee.fn \in DOMAIN F,
         Linked(F, caller, callee)
  PROVE  caller.fn[1] <= callee.fn[1]
PROOF
  <1>1. caller.fn[1] \in Int /\ callee.fn[1] \in Int
    BY DEF CodeSound
  <1>2. CASE F[caller.fn].body[caller.pc].op = "call_dynamic"
    BY <1>1, <1>2 DEF Linked
  <1>3. CASE F[caller.fn].body[caller.pc].op # "call_dynamic"
    <2>1. callee.fn \in Callees(F[caller.fn])
      BY <1>3 DEF Linked, Callees
    <2> QED
      BY <1>1, <2>1 DEF CodeSound
  <1> QED
    BY <1>2, <1>3

(* What a call binds: the parameters and, if there are any, $input.        *)
CallVars(f) == StartVars(f, f.params # <<>>)

(* A callee at its first pc with its parameters and $input bound.  It is   *)
(* not the entry, whose frame is below it.                                 *)
LEMMA CallSound ==
  ASSUME NEW F, NEW entry, NEW allowed, NEW k \in Nat, CodeSound(F, entry, allowed, k),
         NEW s, StackSound(F, entry, s),
         NEW f, IsFrame(f, FALSE), f.fn \in DOMAIN F, Linked(F, Last(s), f),
         f.pc = 1, CallVars(F[f.fn]) \subseteq DOMAIN f.env
  PROVE  StackSound(F, entry, Append(s, f))
PROOF
  <1>1. /\ Len(s) \in Nat \ {0} /\ Len(s) \in 1 .. Len(s) /\ Last(s) = s[Len(s)]
        /\ Last(s).fn \in DOMAIN F /\ Chained(F, entry, s) /\ s[1].fn = entry
    BY SoundParts DEF FrameSound, StackSound
  <1>2. s[Len(s)].fn[1] <= f.fn[1] /\ Linked(F, s[Len(s)], f)
    BY <1>1, LinkedForward
  <1>3. \A n \in DOMAIN F : n[1] \in Int
    BY DEF CodeSound
  <1> DEFINE t == Append(s, f)
  <1>4. /\ Chained(F, entry, t) /\ Len(t) = Len(s) + 1 /\ t[Len(s) + 1] = f
        /\ \A i \in 1 .. Len(s) : t[i] = s[i]
    <2>1. Chained(F, entry, t)
      BY <1>1, <1>2, <1>3, PushChained
    <2>2. /\ Len(t) = Len(s) + 1 /\ t[Len(s) + 1] = f
          /\ \A i \in 1 .. Len(s) : t[i] = s[i]
      BY <1>1, AppendIsSequence DEF Chained, WellFramed
    <2> QED
      BY <2>1, <2>2
  <1> HIDE DEF t
  <1>5. f.fn # entry
    <2>1. 1 \in 1 .. Len(t) /\ Len(s) + 1 \in 1 .. Len(t) /\ 1 < Len(s) + 1
      BY <1>1, <1>4
    <2>2. t[1].fn # t[Len(s) + 1].fn
      BY <1>4, <2>1, NoCycle
    <2>3. t[1].fn = entry
      BY <1>4 DEF Chained
    <2> QED
      BY <1>4, <2>2, <2>3
  <1>6. InitialVars(F, entry, f.fn) \subseteq DOMAIN f.env
    BY <1>5 DEF InitialVars, CallVars
  <1>7. FunctionSound(F, entry, allowed, f.fn)
    BY DEF CodeSound
  <1>8. FrameSound(F, entry, f)
    BY <1>6, <1>7, EntrySound
  <1> QED
    BY <1>1, <1>4, <1>8, PushSound DEF t

(* A return uncovers the caller, which goes on after its call.             *)
LEMMA ReturnSound ==
  ASSUME NEW F, NEW entry, NEW allowed, NEW k \in Nat, CodeSound(F, entry, allowed, k),
         NEW s, StackSound(F, entry, s), Last(s).ret.kind # "none", NEW v
  PROVE  StackSound(F, entry, Moved(Front(s), Last(s).ret.callerPc, Last(s).ret.var, v))
PROOF
  <1> DEFINE t == Front(s)
             caller == Last(t)
             site == F[caller.fn].body[caller.pc]
             ret == Last(s).ret
  <1>1. /\ StackSound(F, entry, t) /\ Len(t) = Len(s) - 1 /\ Len(s) \in Nat /\ Len(s) > 1
        /\ \A i \in 1 .. Len(s) - 1 : t[i] = s[i]
        /\ Linked(F, s[Len(s) - 1], s[Len(s)])
    BY PopSound
  <1>2. caller = t[Len(t)] /\ FrameSound(F, entry, caller) /\ Len(t) \in 1 .. Len(t)
    BY <1>1, SoundParts
  <1>3. Last(s) = s[Len(s)]
    BY DEF Last
  <1>4. Linked(F, caller, Last(s))
    BY <1>1, <1>2, <1>3
  <1> HIDE DEF t
  <1>5. /\ caller.fn \in DOMAIN F /\ caller.pc \in DOMAIN F[caller.fn].body
        /\ site.op \in {"call", "map", "call_dynamic"}
        /\ ret.callerPc = caller.pc + 1 /\ ret.var = site.out
    BY <1>2, <1>4 DEF FrameSound, Linked
  <1>6. FunctionSound(F, entry, allowed, caller.fn)
    BY <1>5 DEF CodeSound
  <1>7. caller.pc + 1 \in Successors(F[caller.fn].body, caller.pc)
    BY <1>5, <1>6, NextIsSuccessor
  <1>8. Defines(site) \subseteq {ret.var}
    BY <1>5 DEF Defines, OutputVars, RepairTargets
  <1> HIDE DEF caller, site, ret
  <1>9. StackSound(F, entry, Moved(t, ret.callerPc, ret.var, v))
    BY <1>1, <1>5, <1>7, <1>8, MovedSound DEF caller, site
  <1> QED
    BY <1>9 DEF t, ret

(* bind_params binds every parameter, and $input if there is one.          *)
LEMMA BoundParams ==
  ASSUME NEW f, NEW args
  PROVE  DOMAIN BindParams(f.params, args) = CallVars(f)
  BY DEF BindParams, CallVars, StartVars, Bind

-----------------------------------------------------------------------------
(* The invariant of a boundary.                                            *)

(* A captured continuation goes on at the next pc with the variable its    *)
(* instruction was to define, and for a guard with one that satisfies it.  *)
ResumesAfterTop(c) ==
  /\ c.resumePc = Top.pc + 1
  /\ Instr.op \in {"guard", "perform"} /\ Defines(Instr) \subseteq {c.resumeVar}
  /\ Instr.op = "guard" =>
       c.resumeVar = Instr.cond.var /\ c.schema = GuardResumeSchema(Instr.cond)

(* Handlers work for a continuation or for the perform at the top.         *)
HeldSound ==
  /\ \A c \in cont : ResumesAfterTop(c)
  /\ calls # <<>> /\ cont = {} => Instr.op = "perform"

Sound ==
  /\ CodeSound(funcs, prog.entry, prog.allowed, fragments)
  /\ StackSound(funcs, prog.entry, stack)
  /\ HeldSound

(* What the top frame then is.                                             *)
LEMMA TopFacts ==
  ASSUME Sound
  PROVE  /\ FrameSound(funcs, prog.entry, Top) /\ Top.fn \in DOMAIN funcs
         /\ Top.pc \in DOMAIN funcs[Top.fn].body
         /\ FunctionSound(funcs, prog.entry, prog.allowed, Top.fn)
         /\ ShapeOK(funcs, prog.allowed, funcs[Top.fn].body, Top.pc)
         /\ Instr = funcs[Top.fn].body[Top.pc] /\ TypedInstr(Instr)
PROOF
  <1>1. FrameSound(funcs, prog.entry, Top)
    BY SoundParts DEF Sound, Top
  <1>2. Top.fn \in DOMAIN funcs /\ Top.pc \in DOMAIN funcs[Top.fn].body
    BY <1>1 DEF FrameSound
  <1>3. FunctionSound(funcs, prog.entry, prog.allowed, Top.fn)
    BY <1>2 DEF Sound, CodeSound
  <1>4. Instr = funcs[Top.fn].body[Top.pc]
    BY DEF Instr
  <1> QED
    BY <1>1, <1>2, <1>3, <1>4 DEF FunctionSound, TypedFunction

(* Nothing is missing at the instruction about to run.                     *)
LEMMA OperandsThere ==
  ASSUME Sound
  PROVE  OperandsDefined
PROOF
  <1>1. NeededVars(Instr) \subseteq DOMAIN Top.env
    BY TopFacts, NeedsMet
  <1> QED
    BY <1>1, TopFacts DEF OperandsDefined, InRange, ShapeOK

(* The invariant after a step that leaves the code alone and holds nothing.*)
LEMMA LocalSound ==
  ASSUME Sound, UNCHANGED <<prog, funcs, fragments>>, calls' = <<>>, cont' = {},
         StackSound(funcs, prog.entry, stack')
  PROVE  Sound'
  BY DEF Sound, HeldSound

LEMMA AbortSound ==
  ASSUME Sound, NEW events, NEW why, AbortAfter(events, why), fragments' = fragments
  PROVE  Sound'
  BY LocalSound DEF AbortAfter, Sound

(* After one that leaves the stack alone and keeps what is held.           *)
LEMMA KeptSound ==
  ASSUME Sound, UNCHANGED <<prog, funcs, fragments, stack, cont>>,
         calls' # <<>> /\ cont = {} => Instr.op = "perform"
  PROVE  Sound'
PROOF
  <1>1. Instr' = Instr /\ Top' = Top
    BY DEF Instr, Top
  <1>2. ASSUME NEW c \in cont' PROVE ResumesAfterTop(c)'
    BY <1>1 DEF Sound, HeldSound, ResumesAfterTop
  <1> QED
    BY <1>1, <1>2 DEF Sound, HeldSound

(* After a capture.                                                        *)
LEMMA CaptureSound ==
  ASSUME Sound, NEW why, NEW v, NEW schema, NEW fuelNow, Capture(why, v, schema, fuelNow),
         fragments' = fragments, Instr.op \in {"guard", "perform"},
         Defines(Instr) \subseteq {v},
         Instr.op = "guard" => v = Instr.cond.var /\ schema = GuardResumeSchema(Instr.cond)
  PROVE  Sound'
PROOF
  <1>1. UNCHANGED <<prog, funcs, stack>> /\ calls' = <<>>
    BY DEF Capture
  <1>2. Instr' = Instr /\ Top' = Top
    BY <1>1 DEF Instr, Top
  <1>3. ASSUME NEW c \in cont' PROVE ResumesAfterTop(c)'
    <2>1. c.resumePc = Top.pc + 1 /\ c.resumeVar = v /\ c.schema = schema
      BY DEF Capture
    <2> QED
      BY <1>2, <2>1 DEF ResumesAfterTop
  <1> QED
    BY <1>1, <1>3 DEF Sound, HeldSound

-----------------------------------------------------------------------------
(* Every instruction keeps it.                                             *)
LEMMA FetchFacts ==
  ASSUME IInv, Sound, NEW op, Fetch(op)
  PROVE  /\ calls = <<>> /\ cont = {} /\ Instr.op = op /\ OperandsDefined /\ OperandsOK
         /\ fragments \in Nat /\ CodeSound(funcs, prog.entry, prog.allowed, fragments)
         /\ StackSound(funcs, prog.entry, stack) /\ Top = Last(stack)
  BY BudgetAssumption DEF Fetch, Fetching, IInv, Counters, BudgetAssumption, Sound, Top

(* Instructions within a function.                                         *)
LEMMA StraightSound ==
  ASSUME IInv, Sound, ExecLet \/ ExecProject \/ ExecBranch \/ ExecJump \/ GuardPass
  PROVE  Sound'
PROOF
  <1> DEFINE body == funcs[Top.fn].body
  <1>1. \E op \in {"let", "project", "branch", "jump", "guard"} : Fetch(op) /\ LocalStep
    BY DEF ExecLet, ExecProject, ExecBranch, ExecJump, GuardPass
  <1>2. /\ StackSound(funcs, prog.entry, stack) /\ Top = Last(stack)
        /\ calls = <<>> /\ cont = {}
    BY <1>1, FetchFacts
  <1>3. /\ Instr = body[Top.pc] /\ Top.pc \in DOMAIN body
        /\ FunctionSound(funcs, prog.entry, prog.allowed, Top.fn) /\ Top.fn \in DOMAIN funcs
        /\ ShapeOK(funcs, prog.allowed, body, Top.pc)
    BY TopFacts
  <1>4. Instr.op \notin {"branch", "jump", "return"} => Top.pc + 1 \in Successors(body, Top.pc)
    BY <1>3, NextIsSuccessor
  <1>5. StackSound(funcs, prog.entry, stack')
    <2>1. CASE ExecLet \/ ExecProject
      <3>1. PICK v : stack' = Moved(stack, Top.pc + 1, Instr.out, v)
        BY <2>1 DEF ExecLet, ExecProject
      <3>2. Instr.op \in {"let", "project"}
        BY <2>1 DEF ExecLet, ExecProject, Fetch
      <3>3. Defines(Instr) \subseteq {Instr.out}
        BY <3>2 DEF Defines, OutputVars, RepairTargets
      <3> QED
        BY <1>2, <1>3, <1>4, <3>1, <3>2, <3>3, MovedSound
    <2>2. CASE ExecBranch \/ ExecJump
      <3>1. PICK pc : stack' = Jumped(stack, pc) /\ pc \in Successors(body, Top.pc)
        BY <1>3, <2>2 DEF ExecBranch, ExecJump, Fetch, Successors
      <3>2. Instr.op \in {"branch", "jump"}
        BY <2>2 DEF ExecBranch, ExecJump, Fetch
      <3>3. Defines(Instr) = {}
        BY <3>2 DEF Defines, OutputVars, RepairTargets
      <3> QED
        BY <1>2, <1>3, <3>1, <3>3, JumpedSound
    <2>3. CASE GuardPass
      <3>1. stack' = Jumped(stack, Top.pc + 1) /\ Instr.op = "guard"
            /\ GuardPasses(Top.env, Instr.cond)
        BY <2>3 DEF GuardPass, Fetch
      <3>2. Defines(Instr) \subseteq DOMAIN Top.env
        BY <3>1 DEF Defines, OutputVars, RepairTargets, GuardPasses
      <3> QED
        BY <1>2, <1>3, <1>4, <3>1, <3>2, JumpedSound
    <2> QED
      BY <2>1, <2>2, <2>3
  <1> QED
    BY <1>1, <1>2, <1>5, LocalSound DEF LocalStep, PureStep

(* A failed guard.                                                         *)
LEMMA GuardSound ==
  ASSUME IInv, Sound, GuardAbort \/ GuardThink
  PROVE  Sound'
PROOF
  <1>1. CASE GuardAbort
    BY <1>1, AbortSound DEF GuardAbort, Abort, EffectBudgetUnchanged
  <1>2. CASE GuardThink
    <2>1. Instr.op = "guard" /\ Instr.onFail = "think" /\ fragments' = fragments
          /\ Capture("guard", Instr.cond.var, GuardResumeSchema(Instr.cond), fuel - 1)
      BY <1>2 DEF GuardThink, Fetch, EffectBudgetUnchanged
    <2>2. Defines(Instr) \subseteq {Instr.cond.var}
      BY <2>1 DEF Defines, OutputVars, RepairTargets
    <2> QED
      BY <2>1, <2>2, CaptureSound
  <1> QED
    BY <1>1, <1>2

(* A static call.                                                          *)
LEMMA ExecCallSound ==
  ASSUME IInv, Sound, ExecCall
  PROVE  Sound'
PROOF
  <1> DEFINE f == Frame(Instr.fn, BindParams(funcs[Instr.fn].params, Args(Instr.args)),
                        CallReturn(Top.fn, Top.pc + 1, Instr.out, Value))
  <1>1. Fetch("call") /\ LocalStep /\ stack' = Append(stack, f)
    BY DEF ExecCall
  <1>2. /\ StackSound(funcs, prog.entry, stack) /\ Top = Last(stack) /\ fragments \in Nat
        /\ calls = <<>> /\ cont = {} /\ Instr.op = "call" /\ OperandsDefined
        /\ CodeSound(funcs, prog.entry, prog.allowed, fragments)
    BY <1>1, FetchFacts
  <1>3. /\ f.fn = Instr.fn /\ f.pc = 1 /\ IsFrame(f, FALSE)
        /\ f.env = BindParams(funcs[Instr.fn].params, Args(Instr.args))
    BY ReturnSlots DEF Frame, CallReturn
  <1>4. Linked(funcs, Top, f)
    BY <1>2, TopFacts DEF Linked, Frame, CallReturn
  <1>5. f.fn \in DOMAIN funcs
    BY <1>2, <1>3 DEF OperandsDefined
  <1> HIDE DEF f
  <1>6. CallVars(funcs[f.fn]) \subseteq DOMAIN f.env
    BY <1>3, BoundParams
  <1>7. StackSound(funcs, prog.entry, stack')
    BY <1>1, <1>2, <1>3, <1>4, <1>5, <1>6, CallSound
  <1> QED
    BY <1>1, <1>2, <1>7, LocalSound DEF LocalStep, PureStep

(* A map's frame holds the item in its parameter and $input.               *)
LEMMA ItemBound ==
  ASSUME NEW ret, TypedFunction(funcs[ret.fn]), Len(funcs[ret.fn].params) = 1
  PROVE  /\ MapItemFrame(ret).fn = ret.fn /\ MapItemFrame(ret).pc = 1
         /\ MapItemFrame(ret).ret = ret
         /\ CallVars(funcs[ret.fn])
              \subseteq DOMAIN MapItemFrame(ret).env
PROOF
  <1>1. DOMAIN funcs[ret.fn].params = 1 .. 1
    BY DEF TypedFunction, IsSequence
  <1>2. /\ MapItemFrame(ret).fn = ret.fn /\ MapItemFrame(ret).pc = 1
        /\ MapItemFrame(ret).ret = ret
        /\ DOMAIN MapItemFrame(ret).env = {funcs[ret.fn].params[1], ret.itemVar, InputVar}
    BY DEF MapItemFrame, Frame
  <1>3. CallVars(funcs[ret.fn])
          \subseteq {funcs[ret.fn].params[1], InputVar}
    BY <1>1 DEF CallVars, StartVars
  <1> QED
    BY <1>2, <1>3

(* A map starts its first item, or ends at once.                           *)
LEMMA ExecMapSound ==
  ASSUME IInv, Sound, ExecMap
  PROVE  Sound'
PROOF
  <1> DEFINE items == EvalExpr(Top.env, Instr.expr)
             ret == MapReturn(Top.fn, Top.pc + 1, Instr.out, Instr.itemVar, Instr.fn,
                              items, <<>>)
             f == MapItemFrame(ret)
  <1>1. /\ Fetch("map") /\ LocalStep
        /\ stack' = IF items = <<>> THEN Moved(stack, Top.pc + 1, Instr.out, <<>>)
                    ELSE Append(stack, f)
    BY DEF ExecMap
  <1>2. /\ StackSound(funcs, prog.entry, stack) /\ Top = Last(stack) /\ fragments \in Nat
        /\ calls = <<>> /\ cont = {} /\ Instr.op = "map" /\ OperandsDefined /\ OperandsOK
        /\ CodeSound(funcs, prog.entry, prog.allowed, fragments)
    BY <1>1, FetchFacts
  <1>3. CASE items = <<>>
    <2>1. Top.pc + 1 \in Successors(funcs[Top.fn].body, Top.pc)
      BY <1>2, TopFacts, NextIsSuccessor
    <2>2. Defines(Instr) \subseteq {Instr.out}
      BY <1>2 DEF Defines, OutputVars, RepairTargets
    <2>3. StackSound(funcs, prog.entry, stack')
      BY <1>1, <1>2, <1>3, <2>1, <2>2, TopFacts, MovedSound
    <2> QED
      BY <1>1, <1>2, <2>3, LocalSound DEF LocalStep, PureStep
  <1>4. CASE items # <<>>
    <2>1. Len(items) > 0
      BY <1>2, <1>4, ValueAssumption DEF OperandsOK, ValueAssumption, IsSequence
    <2>2. /\ Instr.fn \in DOMAIN funcs /\ Len(funcs[Instr.fn].params) = 1
          /\ TypedFunction(funcs[Instr.fn])
      BY <1>2 DEF OperandsDefined, CodeSound, FunctionSound
    <2>3. /\ ret.fn = Instr.fn /\ ret.kind = "map" /\ MapSlot(ret)
          /\ ret.callerFn = Top.fn /\ ret.callerPc = Top.pc + 1 /\ ret.var = Instr.out
          /\ Len(ret.results) < Len(ret.items) /\ "kind" \in DOMAIN ret
      BY <2>1 DEF MapReturn, MapSlot
    <2> HIDE DEF ret
    <2>4. IsFrame(f, FALSE)
      BY <2>3, MapFrame
    <2>5. /\ f.fn = Instr.fn /\ f.pc = 1 /\ f.ret = ret
          /\ CallVars(funcs[f.fn]) \subseteq DOMAIN f.env
      BY <2>2, <2>3, ItemBound
    <2> HIDE DEF f
    <2>6. Linked(funcs, Top, f)
      BY <1>2, <2>3, <2>5, TopFacts DEF Linked
    <2>7. f.fn \in DOMAIN funcs
      BY <2>2, <2>5
    <2>8. StackSound(funcs, prog.entry, stack')
      BY <1>1, <1>2, <1>4, <2>4, <2>5, <2>6, <2>7, CallSound
    <2> QED
      BY <1>1, <1>2, <2>8, LocalSound DEF LocalStep, PureStep
  <1> QED
    BY <1>3, <1>4

(* A dynamic call installs its fragment, then calls its entry.             *)
LEMMA ExecCallDynamicSound ==
  ASSUME IInv, Sound, ExecCallDynamic
  PROVE  Sound'
PROOF
  <1> DEFINE v == EvalExpr(Top.env, Instr.expr)
             p == FragmentOf[v]
             k == FragmentPrefix
             args == Args(Instr.args)
             f == Frame(<<k, p.entry[2]>>, BindParams(p.functions[p.entry].params, args),
                        CallReturn(Top.fn, Top.pc + 1, Instr.out, p.output))
  <1>1. /\ Fetch("call_dynamic") /\ PureStep /\ stack' = Append(stack, f)
        /\ fragments' = fragments + 1 /\ Installs(funcs, p, k, funcs')
    BY DEF ExecCallDynamic, Installs, Fresh, Renamed
  <1>2. /\ StackSound(funcs, prog.entry, stack) /\ Top = Last(stack) /\ fragments \in Nat
        /\ calls = <<>> /\ cont = {} /\ Instr.op = "call_dynamic" /\ OperandsOK
        /\ CodeSound(funcs, prog.entry, prog.allowed, fragments)
    BY <1>1, FetchFacts
  <1>3. WellTyped(p) /\ ValidFragment(p) /\ p.allowed \subseteq prog.allowed
    BY <1>2, FragmentAssumption DEF OperandsOK, FragmentOK, FragmentAssumption
  <1>4. k \in Nat /\ k > fragments /\ fragments' = k /\ p.entry \in DOMAIN p.functions
    BY <1>1, <1>2, <1>3 DEF FragmentPrefix, ValidFragment, Valid
  <1>5. /\ f.fn = Renamed(k, p.entry) /\ f.pc = 1 /\ IsFrame(f, FALSE)
        /\ f.env = BindParams(p.functions[p.entry].params, args)
        /\ f.ret.callerFn = Top.fn /\ f.ret.callerPc = Top.pc + 1
        /\ f.ret.var = Instr.out /\ f.ret.kind = "call"
    BY ReturnSlots DEF Frame, CallReturn, Renamed
  <1> HIDE DEF p, k, f, args
  <1>6. CodeSound(funcs', prog.entry, prog.allowed, k)
    BY <1>1, <1>2, <1>3, <1>4, InstallSound
  <1>7. KeptApart(funcs, prog.entry, fragments, p, k, funcs')
    BY <1>1, <1>2, <1>3, <1>4, InstalledNames
  <1>8. /\ DOMAIN funcs \subseteq DOMAIN funcs' /\ \A n \in DOMAIN funcs : funcs'[n] = funcs[n]
        /\ funcs'[f.fn] = PrefixRefs(k, p.functions[p.entry]) /\ f.fn[1] = k
    BY <1>4, <1>5, <1>7 DEF KeptApart
  <1>9. f.fn \in DOMAIN funcs'
    BY <1>4, <1>5, <1>7 DEF KeptApart, Fresh
  <1>10. StackSound(funcs', prog.entry, stack)
    BY <1>2, <1>8, MoreCode
  <1>11. Linked(funcs', Top, f)
    <2>1. /\ Top.fn \in DOMAIN funcs /\ Top.pc \in DOMAIN funcs[Top.fn].body
          /\ Instr = funcs'[Top.fn].body[Top.pc] /\ funcs'[Top.fn] = funcs[Top.fn]
      BY <1>8, TopFacts
    <2>2. Top.fn[1] < f.fn[1]
      BY <1>2, <1>4, <1>8, <2>1 DEF CodeSound
    <2> QED
      BY <1>2, <1>5, <2>1, <2>2 DEF Linked
  <1>12. CallVars(funcs'[f.fn]) \subseteq DOMAIN f.env
    <2>1. funcs'[f.fn].params = p.functions[p.entry].params
      BY <1>3, <1>4, <1>8, RenamedFunction DEF WellTyped
    <2>2. CallVars(funcs'[f.fn])
            = CallVars(p.functions[p.entry])
      BY <2>1 DEF CallVars, StartVars
    <2> QED
      BY <1>5, <2>2, BoundParams
  <1>13. StackSound(funcs', prog.entry, stack')
    BY <1>1, <1>2, <1>4, <1>5, <1>6, <1>9, <1>10, <1>11, <1>12, CallSound
  <1>14. prog' = prog /\ calls' = <<>> /\ cont' = {}
    BY <1>1, <1>2 DEF PureStep
  <1> QED
    BY <1>4, <1>6, <1>13, <1>14 DEF Sound, HeldSound

(* A return to a call, and from the last item of a map.                    *)
LEMMA ExecReturnSound ==
  ASSUME IInv, Sound, ReturnToCaller \/ ReturnToMap
  PROVE  Sound'
PROOF
  <1>1. Fetch("return") /\ LocalStep /\ Top.ret.kind \in {"call", "map"}
    BY DEF ReturnToCaller, ReturnToMap
  <1>2. /\ StackSound(funcs, prog.entry, stack) /\ Top = Last(stack) /\ fragments \in Nat
        /\ calls = <<>> /\ cont = {}
        /\ CodeSound(funcs, prog.entry, prog.allowed, fragments)
    BY <1>1, FetchFacts
  <1> DEFINE results == Append(Top.ret.results, Returned)
             ret == [Top.ret EXCEPT !.results = results]
             f == MapItemFrame(ret)
  <1>3. \/ \E v : stack' = Moved(Front(stack), Top.ret.callerPc, Top.ret.var, v)
        \/ /\ Top.ret.kind = "map" /\ Len(results) < Len(Top.ret.items)
           /\ stack' = Append(Front(stack), f)
    BY DEF ReturnToCaller, ReturnToMap
  <1>4. CASE \E v : stack' = Moved(Front(stack), Top.ret.callerPc, Top.ret.var, v)
    <2>1. StackSound(funcs, prog.entry, stack')
      BY <1>1, <1>2, <1>4, ReturnSound
    <2> QED
      BY <1>1, <1>2, <2>1, LocalSound DEF LocalStep, PureStep
  <1>5. CASE /\ Top.ret.kind = "map" /\ Len(results) < Len(Top.ret.items)
             /\ stack' = Append(Front(stack), f)
    <2> DEFINE t == Front(stack)
               caller == Last(t)
               site == funcs[caller.fn].body[caller.pc]
    <2>1. /\ StackSound(funcs, prog.entry, t) /\ Len(t) = Len(stack) - 1
          /\ Len(stack) \in Nat /\ Len(stack) > 1
          /\ \A i \in 1 .. Len(stack) - 1 : t[i] = stack[i]
          /\ Linked(funcs, stack[Len(stack) - 1], stack[Len(stack)])
      <3>1. Last(stack).ret.kind # "none"
        BY <1>1, <1>2
      <3>2. /\ StackSound(funcs, prog.entry, t) /\ Len(stack) > 1 /\ Len(stack) \in Nat
            /\ Linked(funcs, stack[Len(stack) - 1], stack[Len(stack)])
        BY <1>2, <3>1, PopSound
      <3>3. WellFramed(stack)
        BY <1>2, SoundParts
      <3>4. Len(t) = Len(stack) - 1 /\ \A i \in 1 .. Len(stack) - 1 : t[i] = stack[i]
        BY <3>3, FrontIsSequence DEF WellFramed
      <3> QED
        BY <3>2, <3>4
    <2>2. caller = t[Len(t)] /\ FrameSound(funcs, prog.entry, caller) /\ Len(t) \in 1 .. Len(t)
      BY <2>1, SoundParts
    <2>3. Top = stack[Len(stack)]
      BY DEF Top, Last
    <2>4. Linked(funcs, caller, Top)
      BY <2>1, <2>2, <2>3
    <2> HIDE DEF t, results
    <2>5. /\ caller.fn \in DOMAIN funcs /\ caller.pc \in DOMAIN funcs[caller.fn].body
          /\ site.op = "map" /\ MapSlot(Top.ret) /\ Top.fn = Top.ret.fn /\ Top.fn = site.fn
          /\ Top.ret.callerFn = caller.fn /\ Top.ret.callerPc = caller.pc + 1
          /\ Top.ret.var = site.out
      BY <1>5, <2>2, <2>4 DEF FrameSound, Linked
    <2> HIDE DEF caller
    <2>6. ShapeOK(funcs, prog.allowed, funcs[caller.fn].body, caller.pc)
      BY <1>2, <2>5 DEF CodeSound, FunctionSound
    <2>7. /\ Top.fn \in DOMAIN funcs /\ Len(funcs[Top.fn].params) = 1
          /\ TypedFunction(funcs[Top.fn])
      <3>1. Top.fn \in DOMAIN funcs /\ Len(funcs[Top.fn].params) = 1
        BY <2>5, <2>6 DEF ShapeOK
      <3> QED
        BY <1>2, <3>1 DEF CodeSound, FunctionSound
    <2>8. /\ DOMAIN ret = DOMAIN Top.ret /\ ret.results = results /\ ret.fn = Top.fn
          /\ ret.kind = "map" /\ ret.items = Top.ret.items /\ ret.var = site.out
          /\ ret.callerFn = caller.fn /\ ret.callerPc = caller.pc + 1 /\ "kind" \in DOMAIN ret
      BY <1>5, <2>5 DEF MapSlot
    <2> HIDE DEF ret, site
    <2>9. IsFrame(f, FALSE)
      BY <2>8, MapFrame
    <2>10. /\ f.fn = Top.fn /\ f.pc = 1 /\ f.ret = ret
           /\ CallVars(funcs[f.fn]) \subseteq DOMAIN f.env
      BY <2>7, <2>8, ItemBound
    <2> HIDE DEF f
    <2>11. Linked(funcs, caller, f)
      BY <1>5, <2>5, <2>8, <2>10 DEF Linked, site, MapSlot
    <2>12. f.fn \in DOMAIN funcs
      BY <2>7, <2>10
    <2>13. StackSound(funcs, prog.entry, stack')
      BY <1>2, <1>5, <2>1, <2>9, <2>10, <2>11, <2>12, CallSound DEF t, caller
    <2> QED
      BY <1>1, <1>2, <2>13, LocalSound DEF LocalStep, PureStep
  <1> QED
    BY <1>3, <1>4, <1>5

LEMMA ExecuteSound ==
  ASSUME IInv, Sound, Execute
  PROVE  Sound'
PROOF
  <1>1. CASE ExecLet \/ ExecProject \/ ExecBranch \/ ExecJump \/ GuardPass
    BY <1>1, StraightSound
  <1>2. CASE GuardAbort \/ GuardThink
    BY <1>2, GuardSound
  <1>3. CASE ExecCall
    BY <1>3, ExecCallSound
  <1>4. CASE ExecMap
    BY <1>4, ExecMapSound
  <1>5. CASE ExecCallDynamic
    BY <1>5, ExecCallDynamicSound
  <1>6. CASE ReturnToCaller \/ ReturnToMap
    BY <1>6, ExecReturnSound
  <1>7. CASE FuelExhausted \/ OperandError \/ ReturnRefused \/ PerformRefused
    <2>1. fragments' = fragments /\ \E why : AbortAfter(<<>>, why)
      BY <1>7 DEF FuelExhausted, OperandError, ReturnRefused, PerformRefused, Abort,
                  EffectBudgetUnchanged, budgetVars
    <2> QED
      BY <2>1, AbortSound
  <1>8. CASE FinishProgram
    <2>1. UNCHANGED <<prog, funcs, fragments, stack, cont>> /\ calls' = <<>>
      BY <1>8 DEF FinishProgram, PureStep, Fetch, Fetching
    <2> QED
      BY <2>1, KeptSound
  <1>9. CASE ExecPerform
    <2>1. UNCHANGED <<prog, funcs, fragments, stack, cont>> /\ Instr.op = "perform"
      BY <1>9 DEF ExecPerform, Fetch, Begin
    <2> QED
      BY <2>1, KeptSound
  <1> QED
    BY <1>1, <1>2, <1>3, <1>4, <1>5, <1>6, <1>7, <1>8, <1>9 DEF Execute

(* A perform that fails captures the variable it was to bind.              *)
LEMMA PerformCaptured ==
  ASSUME Sound, calls # <<>>, cont = {}, fragments' = fragments,
         NEW fuelNow, Capture("perform", Instr.out, Instr.schema, fuelNow)
  PROVE  Sound'
PROOF
  <1>1. Instr.op = "perform"
    BY DEF Sound, HeldSound
  <1>2. Defines(Instr) \subseteq {Instr.out}
    BY <1>1 DEF Defines, OutputVars, RepairTargets
  <1> QED
    BY <1>1, <1>2, CaptureSound

(* Every decision of a handler keeps the invariant.                        *)
LEMMA HandleSound ==
  ASSUME IInv, Sound, Handle
  PROVE  Sound'
PROOF
  <1>1. PICK d : \/ DecideValue(d) \/ DecideCode(d) \/ DecidePatch(d) \/ DecideRequest(d)
                 \/ DecisionRefused(d) \/ HandlerFails(d)
    BY DEF Handle
  <1>2. calls # <<>> /\ fragments' = fragments
    BY <1>1 DEF DecideValue, DecideCode, DecidePatch, DecideRequest, DecisionRefused,
                HandlerFails, Answers, Resolve
  <1>3. CASE DecideValue(d) \/ DecideCode(d) \/ DecidePatch(d) \/ DecideRequest(d)
    <2>1. UNCHANGED <<prog, funcs, stack, cont>>
      BY <1>3 DEF DecideValue, DecideCode, DecidePatch, DecideRequest, Resolve, Begin
    <2>2. cont = {} => Instr.op = "perform"
      BY <1>2 DEF Sound, HeldSound
    <2> QED
      BY <1>2, <2>1, <2>2, KeptSound
  <1>4. CASE DecisionRefused(d)
    BY <1>2, <1>4, AbortSound DEF DecisionRefused
  <1>5. CASE HandlerFails(d)
    <2>1. CASE cont = {} /\ Instr.policy.onFailure = "capture"
      BY <1>2, <1>5, <2>1, PerformCaptured DEF HandlerFails
    <2>2. CASE ~(cont = {} /\ Instr.policy.onFailure = "capture")
      BY <1>2, <1>5, <2>2, AbortSound DEF HandlerFails, Abort
    <2> QED
      BY <2>1, <2>2
  <1> QED
    BY <1>1, <1>3, <1>4, <1>5

(* A repaired value lets the captured frame go on.                         *)
LEMMA ResumeMoves ==
  ASSUME IInv, Sound, ResumeContinuation
  PROVE  /\ Instr.op \in {"guard", "perform"}
         /\ \E c \in cont, r \in returned :
              /\ r.value \in c.schema /\ Defines(Instr) \subseteq {c.resumeVar}
              /\ stack' = Moved(stack, Top.pc + 1, c.resumeVar, r.value)
              /\ Instr.op = "guard" =>
                   c.resumeVar = Instr.cond.var /\ c.schema = GuardResumeSchema(Instr.cond)
PROOF
  <1>1. PICK c \in cont, r \in returned :
          r.value \in c.schema /\ stack' = Moved(c.stack, c.resumePc, c.resumeVar, r.value)
    BY DEF ResumeContinuation
  <1>2. c.stack = stack /\ ResumesAfterTop(c)
    BY DEF IInv, Held, Sound, HeldSound
  <1> QED
    BY <1>1, <1>2 DEF ResumesAfterTop

(* The result of a perform or a repair is bound, and control goes on.      *)
LEMMA BoundSound ==
  ASSUME IInv, Sound, AcceptResult \/ ResumeContinuation
  PROVE  Sound'
PROOF
  <1>1. /\ Instr.op \in {"guard", "perform"}
        /\ \E name, v : /\ Defines(Instr) \subseteq {name}
                        /\ stack' = Moved(stack, Top.pc + 1, name, v)
    <2>1. CASE AcceptResult
      <3>1. calls # <<>>
        <4>1. Len(calls) = 1
          BY <2>1 DEF AcceptResult
        <4> QED
          BY <4>1, NoCalls
      <3>2. Instr.op = "perform"
        BY <2>1, <3>1 DEF AcceptResult, Sound, HeldSound
      <3>3. Defines(Instr) \subseteq {Instr.out}
        BY <3>2 DEF Defines, OutputVars, RepairTargets
      <3> QED
        BY <2>1, <3>2, <3>3 DEF AcceptResult
    <2>2. CASE ResumeContinuation
      BY <2>2, ResumeMoves
    <2> QED
      BY <2>1, <2>2
  <1>2. Top.pc + 1 \in Successors(funcs[Top.fn].body, Top.pc)
    BY <1>1, TopFacts, NextIsSuccessor
  <1>3. StackSound(funcs, prog.entry, stack) /\ Top = Last(stack)
    BY DEF Sound, Top
  <1>4. StackSound(funcs, prog.entry, stack')
    BY <1>1, <1>2, <1>3, TopFacts, MovedSound
  <1>5. UNCHANGED <<prog, funcs, fragments>> /\ calls' = <<>> /\ cont' = {}
    BY DEF AcceptResult, ResumeContinuation, budgetVars
  <1> QED
    BY <1>4, <1>5, LocalSound

LEMMA SettleSound ==
  ASSUME IInv, Sound, Settle
  PROVE  Sound'
PROOF
  <1>1. CASE StartThink
    <2>1. UNCHANGED <<prog, funcs, fragments, stack, cont>> /\ cont # {}
      BY <1>1 DEF StartThink, ThinkPending, Begin
    <2> QED
      BY <2>1, KeptSound
  <1>2. CASE ThinkRefused \/ EncoderFails \/ ThinkInvalid
    <2>1. fragments' = fragments /\ \E why : AbortAfter(<<>>, why)
      BY <1>2 DEF ThinkRefused, EncoderFails, ThinkInvalid, Abort, budgetVars
    <2> QED
      BY <2>1, AbortSound
  <1>3. CASE NestedReturn
    <2>1. fragments' = fragments
      BY <1>3 DEF NestedReturn, budgetVars
    <2>2. CASE \E why : AbortAfter(<<>>, why)
      BY <2>1, <2>2, AbortSound
    <2>3. CASE UNCHANGED <<prog, funcs, stack, cont>>
      <3>1. calls # <<>>
        <4>1. Len(calls) > 1
          BY <1>3 DEF NestedReturn
        <4> QED
          BY <4>1, NoCalls
      <3> QED
        BY <2>1, <2>3, <3>1, KeptSound DEF Sound, HeldSound
    <2> QED
      BY <1>3, <2>2, <2>3 DEF NestedReturn, Abort
  <1>4. CASE AcceptResult \/ ResumeContinuation
    BY <1>4, BoundSound
  <1>5. CASE RejectResult
    <2>1. cont = {} /\ Len(calls) = 1 /\ fragments' = fragments
      BY <1>5 DEF RejectResult, budgetVars
    <2>2. calls # <<>>
      BY <2>1, NoCalls
    <2>3. CASE Instr.policy.onFailure = "capture"
      BY <1>5, <2>1, <2>2, <2>3, PerformCaptured DEF RejectResult
    <2>4. CASE Instr.policy.onFailure # "capture"
      BY <1>5, <2>1, <2>4, AbortSound DEF RejectResult, Abort
    <2> QED
      BY <2>3, <2>4
  <1> QED
    BY <1>1, <1>2, <1>3, <1>4, <1>5 DEF Settle

(* The program a boundary starts with is sound, and so is its one frame.   *)
LEMMA InitSound == Init => Sound
PROOF
  <1> SUFFICES ASSUME Init PROVE Sound
    OBVIOUS
  <1> DEFINE F == prog.functions
             entry == prog.entry
  <1>1. CodeSound(F, entry, prog.allowed, 0)
    BY ProgramAssumption, ProgramSound DEF Init, ProgramAssumption
  <1>2. PICK input : stack = <<Frame(entry, EntryEnv(prog, input), NoReturn)>>
    BY DEF Init
  <1> DEFINE f == Frame(entry, EntryEnv(prog, input), NoReturn)
  <1>3. f.fn = entry /\ f.pc = 1 /\ f.env = EntryEnv(prog, input)
    BY DEF Frame
  <1>4. InitialVars(F, entry, entry) \subseteq DOMAIN EntryEnv(prog, input)
    BY DEF InitialVars, StartVars, EntryEnv
  <1>5. FrameSound(F, entry, f)
    <2>1. entry \in DOMAIN F /\ FunctionSound(F, entry, prog.allowed, entry)
      BY <1>1 DEF CodeSound
    <2> HIDE DEF f, F, entry
    <2> QED
      BY <1>3, <1>4, <2>1, EntrySound
  <1>6. WellFramed(stack)
    BY InitInvariant DEF IInv
  <1> HIDE DEF f
  <1>7. Len(stack) = 1 /\ stack[1] = f
    BY <1>2 DEF f
  <1>8. StackSound(F, entry, stack)
    <2>1. /\ \A i \in 1 .. Len(stack) : i = 1
          /\ 1 .. Len(stack) - 1 = {}
      BY <1>7
    <2>2. f.fn = entry /\ f.fn \in DOMAIN F /\ f.fn[1] <= f.fn[1]
      BY <1>1, <1>3 DEF CodeSound, f
    <2> HIDE DEF F, entry
    <2> QED
      BY <1>5, <1>6, <1>7, <2>1, <2>2 DEF StackSound, Chained
  <1>9. funcs = F /\ fragments = 0 /\ calls = <<>> /\ cont = {}
    BY DEF Init
  <1> QED
    BY <1>1, <1>8, <1>9 DEF Sound, HeldSound

LEMMA StepSound == IInv /\ Sound /\ [Next]_vars => Sound'
PROOF
  <1> SUFFICES ASSUME IInv, Sound, [Next]_vars PROVE Sound'
    OBVIOUS
  <1>1. CASE Execute
    BY <1>1, ExecuteSound
  <1>2. CASE Handle
    BY <1>2, HandleSound
  <1>3. CASE Settle
    BY <1>3, SettleSound
  <1>4. CASE UNCHANGED vars
    <2>1. UNCHANGED <<prog, funcs, fragments, stack, cont, calls>>
      BY <1>4 DEF vars, budgetVars
    <2>2. calls' # <<>> /\ cont = {} => Instr.op = "perform"
      BY <2>1 DEF Sound, HeldSound
    <2> QED
      BY <2>1, <2>2, KeptSound
  <1> QED
    BY <1>1, <1>2, <1>3, <1>4 DEF Next, Terminated

-----------------------------------------------------------------------------
(* The theorems.                                                           *)

(* Both halves of the invariant hold of every boundary.                    *)
THEOREM Soundness == Spec => [](IInv /\ Sound)
PROOF
  <1> QED
    BY InitInvariant, StepInvariant, InitSound, StepSound, PTL DEF Spec

(* A boundary whose program and fragments the validator accepted never     *)
(* meets an undefined variable, a missing function, a wrong number of      *)
(* arguments or a forbidden effect (OperandsDefined; eval_expr,            *)
(* expect_function, bind_params, ensure_effect_allowed of runtime.rs).     *)
THEOREM NothingGoesWrong == Spec => []NeverGoesWrong
PROOF
  <1>1. Sound => NeverGoesWrong
    BY OperandsThere DEF NeverGoesWrong
  <1> QED
    BY <1>1, Soundness, PTL

(* Each frame returns to the one below it, after the instruction that      *)
(* called it (push_call_frame, push_map_item_frame, finish_return).        *)
THEOREM FramesChained == Spec => []FrameChain
PROOF
  <1>1. Sound => FrameChain
    <2> SUFFICES ASSUME Sound, NEW i \in DOMAIN stack
                 PROVE  /\ stack[i].ret.kind = "none" <=> i = 1
                        /\ i > 1 => ReturnsToCaller(stack[i], stack[i - 1])
      BY DEF FrameChain
    <2>1. WellFramed(stack) /\ DOMAIN stack = 1 .. Len(stack) /\ Len(stack) \in Nat
      BY SoundParts DEF Sound
    <2>2. stack[i].ret.kind = "none" <=> i = 1
      BY <2>1 DEF WellFramed, IsFrame
    <2>3. ASSUME i > 1 PROVE ReturnsToCaller(stack[i], stack[i - 1])
      <3>1. PICK j \in 1 .. Len(stack) - 1 : j = i - 1 /\ j + 1 = i
        BY <2>1, <2>3
      <3>2. Linked(funcs, stack[j], stack[j + 1])
        BY DEF Sound, StackSound, Chained
      <3> QED
        BY <3>1, <3>2 DEF Linked, ReturnsToCaller
    <2> QED
      BY <2>2, <2>3
  <1> QED
    BY <1>1, Soundness, PTL

(* No function is active twice, so the stack is never higher than there    *)
(* are functions (ensure_no_static_recursion, install_fragment).           *)
THEOREM NoFunctionReentered == Spec => []NoReentrantFunction
PROOF
  <1>1. IInv /\ Sound => NoReentrantFunction
    <2> SUFFICES ASSUME IInv, Sound, NEW i \in DOMAIN stack, NEW j \in DOMAIN stack,
                        stack[i].fn = stack[j].fn
                 PROVE  i = j
      BY DEF NoReentrantFunction
    <2>1. /\ i \in 1 .. Len(stack) /\ j \in 1 .. Len(stack) /\ Len(stack) \in Nat
          /\ Chained(funcs, prog.entry, stack)
      BY SoundParts DEF Sound, StackSound
    <2>2. fragments \in Nat /\ CodeSound(funcs, prog.entry, prog.allowed, fragments)
      BY BudgetAssumption DEF IInv, Counters, BudgetAssumption, Sound
    <2>3. ~(i < j) /\ ~(j < i)
      BY <2>1, <2>2, NoCycle
    <2> QED
      BY <2>1, <2>3
  <1> QED
    BY <1>1, Soundness, PTL

-----------------------------------------------------------------------------
(* What a step does to the frames: it changes the top one, pushes one,     *)
(* returns from the top one, or puts the next item of a map in its place.  *)
Replaces == \E f : stack' = [stack EXCEPT ![Len(stack)] = f]
Pushes   == \E f : stack' = Append(stack, f)
Returns  == /\ Top.ret.kind # "none"
            /\ \E v : stack' = Moved(Front(stack), Top.ret.callerPc, Top.ret.var, v)
Restarts == /\ Top.ret.kind # "none"
            /\ \E f : stack' = Append(Front(stack), f)
StackStep == stack' = stack \/ Replaces \/ Pushes \/ Returns \/ Restarts

LEMMA StepOfStack ==
  ASSUME IInv, Sound, [Next]_vars
  PROVE  StackStep
PROOF
  <1> USE DEF StackStep
  <1>1. DOMAIN stack = 1 .. Len(stack) /\ Len(stack) \in 1 .. Len(stack)
    BY SoundParts DEF Sound
  <1>2. ASSUME NEW pc, NEW name, NEW v, stack' = Moved(stack, pc, name, v) PROVE Replaces
    BY <1>2 DEF Moved, Replaces
  <1>3. ASSUME NEW pc, stack' = Jumped(stack, pc) PROVE Replaces
    <2> DEFINE f == [stack[Len(stack)] EXCEPT !.pc = pc]
    <2>1. stack' = [stack EXCEPT ![Len(stack)] = f]
      BY <1>1, <1>3 DEF Jumped
    <2> HIDE DEF f
    <2> QED
      BY <2>1 DEF Replaces
  <1>4. CASE Execute
    <2>1. CASE ExecLet \/ ExecProject
      BY <1>2, <2>1 DEF ExecLet, ExecProject
    <2>2. CASE ExecBranch \/ ExecJump \/ GuardPass
      BY <1>3, <2>2 DEF ExecBranch, ExecJump, GuardPass
    <2>3. CASE ExecCall \/ ExecCallDynamic
      BY <2>3 DEF ExecCall, ExecCallDynamic, Pushes
    <2>4. CASE ExecMap
      <3>1. \/ stack' = Moved(stack, Top.pc + 1, Instr.out, <<>>)
            \/ Pushes
        BY <2>4 DEF ExecMap, Pushes
      <3> QED
        BY <1>2, <3>1
    <2>5. CASE ReturnToCaller \/ ReturnToMap
      <3>1. Returns \/ Restarts
        BY <2>5 DEF ReturnToCaller, ReturnToMap, Returns, Restarts
      <3> QED
        BY <3>1
    <2>6. CASE \/ FuelExhausted \/ OperandError \/ GuardAbort \/ GuardThink \/ ReturnRefused
               \/ FinishProgram \/ ExecPerform \/ PerformRefused
      BY <2>6 DEF FuelExhausted, OperandError, GuardAbort, GuardThink, ReturnRefused,
                  FinishProgram, ExecPerform, PerformRefused, Abort, AbortAfter, Capture, Begin
    <2> QED
      BY <1>4, <2>1, <2>2, <2>3, <2>4, <2>5, <2>6 DEF Execute
  <1>5. CASE Handle
    <2>1. PICK d : \/ DecideValue(d) \/ DecideCode(d) \/ DecidePatch(d) \/ DecideRequest(d)
                   \/ DecisionRefused(d) \/ HandlerFails(d)
      BY <1>5 DEF Handle
    <2> QED
      BY <2>1 DEF DecideValue, DecideCode, DecidePatch, DecideRequest, Resolve, Begin,
                  DecisionRefused, HandlerFails, Abort, AbortAfter, Capture
  <1>6. CASE Settle
    <2>1. CASE AcceptResult
      BY <1>2, <2>1 DEF AcceptResult
    <2>2. CASE ResumeContinuation
      BY <1>2, <2>2, ResumeMoves
    <2>3. CASE \/ StartThink \/ ThinkRefused \/ EncoderFails \/ NestedReturn \/ RejectResult
               \/ ThinkInvalid
      BY <2>3 DEF StartThink, ThinkRefused, EncoderFails, NestedReturn, RejectResult,
                  ThinkInvalid, Begin, Abort, AbortAfter, Capture
    <2> QED
      BY <1>6, <2>1, <2>2, <2>3 DEF Settle
  <1>7. CASE UNCHANGED vars
    BY <1>7 DEF vars
  <1> QED
    BY <1>4, <1>5, <1>6, <1>7 DEF Next, Terminated

(* What that leaves of the frames below.                                   *)
SuspendedKept(s, t) ==
  LET old == Len(s)  new == Len(t) IN
  /\ new \in old - 1 .. old + 1
  /\ \A i \in 1 .. old : (i < old /\ i < new) \/ new > old => t[i] = s[i]
  /\ new < old =>
       /\ Last(s).ret.var \in DOMAIN t[new].env
       /\ t[new] = Resumed(s[new], Last(s).ret.var, t[new].env[Last(s).ret.var])

LEMMA BelowKept ==
  ASSUME NEW s, NEW t, NEW n \in Nat, Len(s) = n, NEW m \in {n, n + 1}, Len(t) = m,
         \A i \in 1 .. n : i < n \/ m > n => t[i] = s[i]
  PROVE  SuspendedKept(s, t)
  BY DEF SuspendedKept

LEMMA StepSuspends ==
  ASSUME IInv, Sound, StackStep
  PROVE  SuspendedKept(stack, stack')
PROOF
  <1>1. /\ StackSound(funcs, prog.entry, stack) /\ WellFramed(stack) /\ Top = Last(stack)
        /\ IsSequence(stack) /\ stack # <<>>
    BY SoundParts DEF Sound, Top, WellFramed
  <1>2. PICK n \in Nat : n = Len(stack) /\ n > 0
    BY <1>1, SoundParts
  <1>3. CASE stack' = stack
    BY <1>2, <1>3, BelowKept
  <1>4. CASE Replaces
    <2>1. /\ Len(stack') = n /\ \A i \in 1 .. n - 1 : stack'[i] = stack[i]
      BY <1>1, <1>2, <1>4, UpdateIsSequence DEF Replaces
    <2> QED
      BY <1>2, <2>1, BelowKept
  <1>5. CASE Pushes
    <2>1. Len(stack') = n + 1 /\ \A i \in 1 .. n : stack'[i] = stack[i]
      BY <1>1, <1>2, <1>5, AppendIsSequence DEF Pushes
    <2> QED
      BY <1>2, <2>1, BelowKept
  <1>6. CASE Restarts
    <2>1. /\ IsSequence(Front(stack)) /\ Len(Front(stack)) = n - 1
          /\ \A i \in 1 .. n - 1 : Front(stack)[i] = stack[i]
      BY <1>1, <1>2, FrontIsSequence
    <2>2. /\ Len(stack') = Len(Front(stack)) + 1
          /\ \A i \in 1 .. Len(Front(stack)) : stack'[i] = Front(stack)[i]
      BY <1>6, <2>1, AppendIsSequence DEF Restarts
    <2>3. Len(stack') = n /\ \A i \in 1 .. n - 1 : stack'[i] = stack[i]
      BY <1>2, <2>1, <2>2
    <2> QED
      BY <1>2, <2>3, BelowKept
  <1>7. CASE Returns
    <2> DEFINE t == Front(stack)
               caller == Last(t)
               ret == Top.ret
    <2>1. PICK v : stack' = Moved(t, ret.callerPc, ret.var, v)
      BY <1>7 DEF Returns
    <2> DEFINE f == [caller EXCEPT !.pc = ret.callerPc, !.env = Bind(caller.env, ret.var, v)]
    <2>2. /\ StackSound(funcs, prog.entry, t) /\ n > 1
          /\ Linked(funcs, stack[n - 1], stack[n])
      BY <1>1, <1>2, <1>7, PopSound DEF Returns
    <2>3. Len(t) = n - 1 /\ \A i \in 1 .. n - 1 : t[i] = stack[i]
      BY <1>1, <1>2, FrontIsSequence
    <2>4. caller = stack[n - 1] /\ Top = stack[n]
      BY <1>1, <1>2, <2>2, <2>3 DEF Last
    <2>5. WellFramed(t) /\ IsSequence(t) /\ t # <<>> /\ DOMAIN caller = {"fn", "pc", "env", "ret"}
      BY <2>2, SoundParts DEF WellFramed, IsFrame
    <2>6. stack' = [t EXCEPT ![Len(t)] = f]
      BY <2>1 DEF Moved
    <2> HIDE DEF t, f
    <2>7. /\ Len(stack') = n - 1 /\ stack'[n - 1] = f
          /\ \A i \in 1 .. n - 2 : stack'[i] = t[i]
      BY <1>2, <2>2, <2>3, <2>5, <2>6, UpdateIsSequence
    <2>8. ret.var \in DOMAIN f.env /\ f = Resumed(stack[n - 1], ret.var, f.env[ret.var])
      <3>1. ret.callerPc = stack[n - 1].pc + 1
        BY <2>2, <2>4 DEF Linked
      <3>2. f = [caller EXCEPT !.pc = ret.callerPc, !.env = Bind(caller.env, ret.var, v)]
        BY DEF f
      <3>3. f.env = Bind(caller.env, ret.var, v)
        BY <2>5, <3>2
      <3>4. ret.var \in DOMAIN f.env /\ f.env[ret.var] = v
        BY <3>3 DEF Bind
      <3> HIDE DEF caller, ret
      <3> QED
        BY <2>4, <2>5, <3>1, <3>2, <3>4 DEF Resumed
    <2>9. \A i \in 1 .. n : i < n - 1 => stack'[i] = stack[i]
      BY <2>3, <2>7
    <2>10. /\ Last(stack).ret.var \in DOMAIN stack'[n - 1].env
           /\ stack'[n - 1] = Resumed(stack[n - 1], Last(stack).ret.var,
                                      stack'[n - 1].env[Last(stack).ret.var])
      BY <1>1, <2>7, <2>8
    <2> HIDE DEF caller, ret
    <2> QED
      BY <1>2, <2>2, <2>7, <2>9, <2>10 DEF SuspendedKept
  <1> QED
    BY <1>3, <1>4, <1>5, <1>6, <1>7 DEF StackStep

(* A suspended caller is as it was when it called, and continues after its *)
(* call with nothing but the result bound (push_call_frame, finish_return, *)
(* resume_with).                                                           *)
THEOREM CallersKept == Spec => CallersSuspended
PROOF
  <1>1. IInv /\ Sound /\ [Next]_vars =>
          LET old == Len(stack)  new == Len(stack') IN
          /\ new \in old - 1 .. old + 1
          /\ \A i \in 1 .. old : (i < old /\ i < new) \/ new > old => stack'[i] = stack[i]
          /\ new < old =>
               /\ Top.ret.var \in DOMAIN stack'[new].env
               /\ stack'[new] = Resumed(stack[new], Top.ret.var, stack'[new].env[Top.ret.var])
    BY StepOfStack, StepSuspends DEF SuspendedKept, Top
  <1> QED
    BY <1>1, Soundness, PTL DEF Spec, CallersSuspended

(* A guard over presence or a schema holds once Think has repaired its     *)
(* variable (guard_resume_contract, resume_with).                          *)
THEOREM RepairsHold == Spec => RepairedGuardHolds
PROOF
  <1> DEFINE Repaired == cont # {} /\ cont' = {} /\ status' = "running"
  <1>1. ASSUME IInv, Sound, [Next]_vars, Repaired PROVE ResumeContinuation
    <2>1. ~ Execute
      BY <1>1 DEF Execute, FuelExhausted, OperandError, ExecLet, ExecProject, ExecBranch,
                  ExecJump, GuardPass, GuardAbort, GuardThink, ExecCall, ExecMap,
                  ExecCallDynamic, ReturnRefused, FinishProgram, ReturnToCaller,
                  ReturnToMap, ExecPerform, PerformRefused, Fetch, Fetching
    <2>2. ~ Handle
      <3> SUFFICES ASSUME Handle PROVE FALSE
        OBVIOUS
      <3>1. PICK d : \/ DecideValue(d) \/ DecideCode(d) \/ DecidePatch(d) \/ DecideRequest(d)
                     \/ DecisionRefused(d) \/ HandlerFails(d)
        BY DEF Handle
      <3>2. cont' = cont \/ status' = "aborted"
        BY <1>1, <3>1 DEF DecideValue, DecideCode, DecidePatch, DecideRequest, Resolve,
                          Begin, DecisionRefused, HandlerFails, Abort, AbortAfter
      <3> QED
        BY <1>1, <3>2
    <2>3. ~(UNCHANGED vars)
      BY <1>1 DEF vars
    <2>4. Settle
      BY <1>1, <2>1, <2>2, <2>3 DEF Next, Terminated
    <2>5. ~(StartThink \/ ThinkRefused \/ EncoderFails \/ ThinkInvalid \/ NestedReturn)
      BY <1>1 DEF StartThink, ThinkRefused, EncoderFails, ThinkInvalid, NestedReturn,
                  Begin, Abort, AbortAfter
    <2>6. ~(AcceptResult \/ RejectResult)
      BY <1>1 DEF AcceptResult, RejectResult
    <2> QED
      BY <2>4, <2>5, <2>6 DEF Settle
  <1>2. ASSUME IInv, Sound, ResumeContinuation, Instr.op = "guard",
               Instr.cond.kind # "field"
        PROVE  GuardPasses(Last(stack').env, Instr.cond)
    <2>1. PICK c \in cont, r \in returned :
            /\ r.value \in c.schema
            /\ stack' = Moved(stack, Top.pc + 1, c.resumeVar, r.value)
            /\ c.resumeVar = Instr.cond.var /\ c.schema = GuardResumeSchema(Instr.cond)
      BY <1>2, ResumeMoves
    <2> DEFINE top == Last(stack)
               f == [top EXCEPT !.pc = Top.pc + 1,
                                !.env = Bind(top.env, c.resumeVar, r.value)]
    <2>2. /\ WellFramed(stack) /\ Len(stack) \in Nat \ {0}
          /\ DOMAIN top = {"fn", "pc", "env", "ret"}
      <3>1. StackSound(funcs, prog.entry, stack)
        BY <1>2 DEF Sound
      <3> QED
        BY <3>1, SoundParts DEF IsFrame
    <2>3. stack' = [stack EXCEPT ![Len(stack)] = f]
      BY <2>1 DEF Moved
    <2>4. Last(stack') = f
      <3> HIDE DEF f
      <3> QED
        BY <2>2, <2>3, UpdateIsSequence DEF Last, WellFramed
    <2>5. Last(stack').env = Bind(top.env, c.resumeVar, r.value)
      BY <2>2, <2>4
    <2>6. Instr.cond.kind \in {"exists", "schema"}
      BY <1>2, TopFacts DEF TypedInstr
    <2>7. Instr.cond.kind = "schema" => r.value \in Instr.cond.set
      BY <2>1 DEF GuardResumeSchema
    <2> QED
      BY <2>1, <2>5, <2>6, <2>7 DEF GuardPasses, Bind
  <1>3. IInv /\ Sound /\ [Next]_vars =>
          ((Repaired /\ Instr.op = "guard" /\ Instr.cond.kind # "field")
             => GuardPasses(Last(stack').env, Instr.cond))
    BY <1>1, <1>2
  <1>4. Spec => [][(Repaired /\ Instr.op = "guard" /\ Instr.cond.kind # "field")
                     => GuardPasses(Last(stack').env, Instr.cond)]_vars
    <2> HIDE DEF Repaired
    <2> QED
      BY <1>3, Soundness, PTL DEF Spec
  <1> QED
    BY <1>4, PTL DEF RepairedGuardHolds
=============================================================================
