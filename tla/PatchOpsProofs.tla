--------------------------- MODULE PatchOpsProofs ---------------------------
(***************************************************************************)
(* For every base program and every patch: no accepted insertion changes   *)
(* what a branch or a jump means in a function that had control flow.  And *)
(* for every evidence, every plan and whatever the weak model answers: the *)
(* fast path keeps to the evidence, and what it does not answer the whole  *)
(* base program answers.                                                   *)
(***************************************************************************)
EXTENDS SemanticFastPath, SequenceTheorems, TLAPS

(* The elements of a sequence around an insertion.                         *)
LEMMA InsertAtElements ==
  ASSUME NEW S, NEW s \in Seq(S), NEW e \in S, NEW i \in 1 .. Len(s) + 1
  PROVE  LET t == Seqs!InsertAt(s, i, e)
         IN /\ t \in Seq(S)
            /\ Len(t) = Len(s) + 1
            /\ t[i] = e
            /\ \A j \in 1 .. i - 1 : t[j] = s[j]
            /\ \A j \in i + 1 .. Len(s) + 1 : t[j] = s[j - 1]
  <1> DEFINE before == SubSeq(s, 1, i - 1)
             after  == SubSeq(s, i, Len(s))
             front  == before \o <<e>>
  <1>1. before \in Seq(S) /\ Len(before) = i - 1 /\ \A j \in 1 .. i - 1 : before[j] = s[j]
    OBVIOUS
  <1>2. after \in Seq(S) /\ Len(after) = Len(s) - i + 1
        /\ \A j \in 1 .. Len(s) - i + 1 : after[j] = s[i + j - 1]
    OBVIOUS
  <1>3. front \in Seq(S) /\ Len(front) = i /\ front[i] = e
        /\ \A j \in 1 .. i - 1 : front[j] = s[j]
    <2>1. <<e>> \in Seq(S) /\ Len(<<e>>) = 1 /\ <<e>>[1] = e
      OBVIOUS
    <2> HIDE DEF before
    <2> QED BY <1>1, <2>1
  <1> HIDE DEF front, after
  <1>4. front \o after \in Seq(S) /\ Len(front \o after) = Len(s) + 1
    <2>1. front \o after \in Seq(S) /\ Len(front \o after) = Len(front) + Len(after)
      BY <1>2, <1>3, ConcatProperties
    <2>2. Len(s) \in Nat /\ i \in Int
      OBVIOUS
    <2> QED BY <1>2, <1>3, <2>1, <2>2
  <1>5. \A j \in 1 .. i : (front \o after)[j] = front[j]
    BY <1>2, <1>3
  <1>6. \A j \in i + 1 .. Len(s) + 1 : (front \o after)[j] = after[j - i]
    BY <1>2, <1>3
  <1>7. Seqs!InsertAt(s, i, e) = front \o after
    BY DEF Seqs!InsertAt, front, after
  <1> QED BY <1>2, <1>3, <1>4, <1>5, <1>6, <1>7

-----------------------------------------------------------------------------
(* The inductive invariant: programs stay well formed and every slot is    *)
(* marked.                                                                 *)
WellShaped(p) ==
  /\ p = [entry |-> p.entry, functions |-> p.functions, input |-> p.input,
          output |-> p.output, allowed |-> p.allowed]
  /\ p.functions = [f \in DOMAIN p.functions |-> p.functions[f]]
  /\ \A f \in DOMAIN p.functions : IsFunction(p.functions[f])

IsMark(mark) == mark = [slot |-> mark.slot, means |-> mark.means]
IsMarks(marked) ==
  /\ marked \in Seq({marked[pc] : pc \in DOMAIN marked})
  /\ \A pc \in DOMAIN marked : IsMark(marked[pc])

AllMarked ==
  /\ marks = [f \in DOMAIN program.functions |-> marks[f]]
  /\ \A f \in DOMAIN program.functions :
       IsMarks(marks[f]) /\ Len(marks[f]) = Len(Body(f))

Inv == TypeOK /\ WellShaped(program) /\ AllMarked /\ TargetsKept

(* A replaced instruction leaves the body a body of that length.           *)
LEMMA ReplacedBody ==
  ASSUME NEW p, WellShaped(p), NEW f \in DOMAIN p.functions, NEW b, IsBody(b)
  PROVE  LET q == [p EXCEPT !.functions[f].body = b]
         IN /\ WellShaped(q)
            /\ DOMAIN q.functions = DOMAIN p.functions
            /\ q.functions[f].body = b
            /\ \A g \in DOMAIN p.functions : g # f => q.functions[g] = p.functions[g]
  <1> DEFINE q == [p EXCEPT !.functions[f].body = b]
             g == [p.functions[f] EXCEPT !.body = b]
  <1>1. g = [params |-> p.functions[f].params, schema |-> p.functions[f].schema, body |-> b]
    BY DEF WellShaped, IsFunction
  <1>2. q.functions = [p.functions EXCEPT ![f] = g]
    BY DEF WellShaped
  <1>3. q = [entry |-> p.entry, functions |-> q.functions, input |-> p.input,
             output |-> p.output, allowed |-> p.allowed]
    BY DEF WellShaped
  <1> HIDE DEF q, g
  <1>4. IsFunction(g) /\ g.body = b
    BY <1>1 DEF IsFunction
  <1>5. /\ DOMAIN q.functions = DOMAIN p.functions
        /\ q.functions[f] = g
        /\ \A h \in DOMAIN p.functions : h # f => q.functions[h] = p.functions[h]
        /\ q.functions = [h \in DOMAIN q.functions |-> q.functions[h]]
    BY <1>2 DEF WellShaped
  <1>6. WellShaped(q)
    BY <1>3, <1>4, <1>5 DEF WellShaped
  <1> QED BY <1>4, <1>5, <1>6 DEF q

(* An instruction written into or inserted in a body keeps it a body.      *)
LEMMA WrittenBody ==
  ASSUME NEW b, IsBody(b), NEW instr, IsInstr(instr), NEW pc \in DOMAIN b
  PROVE  LET c == [b EXCEPT ![pc] = instr]
         IN IsBody(c) /\ Len(c) = Len(b) /\ c[pc] = instr
            /\ \A q \in DOMAIN b : q # pc => c[q] = b[q]
  <1> DEFINE c == [b EXCEPT ![pc] = instr]
             S == {b[q] : q \in DOMAIN b} \cup {instr}
  <1>1. b \in Seq(S)
    BY DEF IsBody
  <1> HIDE DEF S
  <1>2. b = [q \in 1 .. Len(b) |-> b[q]] /\ Len(b) \in Nat
    BY <1>1
  <1>3. c = [q \in 1 .. Len(b) |-> c[q]]
    BY <1>2
  <1>4. c \in Seq({c[q] : q \in DOMAIN c}) /\ Len(c) = Len(b)
    <2> HIDE DEF c
    <2> DEFINE n == Len(b)
               T == {c[q] : q \in DOMAIN c}
    <2>1. n \in Nat /\ DOMAIN c = 1 .. n /\ \A q \in 1 .. n : c[q] \in T
      BY <1>2, <1>3
    <2> HIDE DEF T, n
    <2>2. c \in [1 .. n -> T]
      BY <1>3, <2>1 DEF n
    <2>3. c \in Seq(T) /\ Len(c) = n
      BY <2>1, <2>2
    <2> QED BY <2>3 DEF T, n
  <1>5. c[pc] = instr /\ \A q \in DOMAIN b : q # pc => c[q] = b[q]
    BY <1>2
  <1> HIDE DEF c
  <1>6. \A q \in DOMAIN c : IsInstr(c[q])
    BY <1>2, <1>3, <1>5 DEF IsBody
  <1> QED BY <1>4, <1>5, <1>6 DEF IsBody, c

(* An inserted instruction makes the body longer by one.                   *)
LEMMA InsertedBody ==
  ASSUME NEW b, IsBody(b), NEW instr, IsInstr(instr), NEW pc \in 1 .. Len(b) + 1
  PROVE  LET c == Seqs!InsertAt(b, pc, instr)
         IN /\ IsBody(c) /\ Len(c) = Len(b) + 1 /\ Len(b) \in Nat
            /\ DOMAIN c = 1 .. Len(b) + 1 /\ DOMAIN b = 1 .. Len(b)
            /\ c[pc] = instr
            /\ \A q \in 1 .. pc - 1 : c[q] = b[q]
            /\ \A q \in pc + 1 .. Len(b) + 1 : c[q] = b[q - 1]
  <1> DEFINE c == Seqs!InsertAt(b, pc, instr)
             S == {b[q] : q \in DOMAIN b} \cup {instr}
  <1>1. b \in Seq(S) /\ instr \in S
    BY DEF IsBody
  <1> HIDE DEF S
  <1>2. Len(b) \in Nat /\ DOMAIN b = 1 .. Len(b)
    BY <1>1
  <1>3. /\ c \in Seq(S)
        /\ Len(c) = Len(b) + 1
        /\ c[pc] = instr
        /\ \A q \in 1 .. pc - 1 : c[q] = b[q]
        /\ \A q \in pc + 1 .. Len(b) + 1 : c[q] = b[q - 1]
    BY <1>1, InsertAtElements
  <1> HIDE DEF c
  <1>4. DOMAIN c = 1 .. Len(b) + 1 /\ c = [q \in 1 .. Len(b) + 1 |-> c[q]]
    BY <1>2, <1>3
  <1>5. c \in Seq({c[q] : q \in DOMAIN c})
    BY <1>2, <1>4
  <1>6. ASSUME NEW q \in DOMAIN c PROVE IsInstr(c[q])
    <2>1. CASE q = pc
      BY <2>1, <1>3
    <2>2. CASE q < pc
      BY <2>2, <1>2, <1>3, <1>4 DEF IsBody
    <2>3. CASE q > pc
      <3>1. q \in pc + 1 .. Len(b) + 1 /\ q - 1 \in DOMAIN b
        BY <2>3, <1>2, <1>4
      <3>2. c[q] = b[q - 1]
        BY <1>3, <3>1
      <3> QED BY <3>1, <3>2 DEF IsBody
    <2> QED BY <1>2, <1>4, <2>1, <2>2, <2>3
  <1> QED BY <1>2, <1>3, <1>4, <1>5, <1>6 DEF IsBody, c

-----------------------------------------------------------------------------
(* The same for marks.                                                     *)
KeptIn(marked, body) ==
  \A pc \in DOMAIN body : Means(marked, body[pc]) = marked[pc].means

(* What a target means depends on the slot numbers alone.                  *)
LEMMA SameSlots ==
  ASSUME NEW m, NEW n, DOMAIN n = DOMAIN m, \A q \in DOMAIN m : n[q].slot = m[q].slot,
         NEW instr
  PROVE  Means(n, instr) = Means(m, instr)
  BY DEF Means, SlotAt

(* Writing a slot anew changes what its mark says and nothing else.        *)
LEMMA RewrittenMark ==
  ASSUME NEW m, IsMarks(m), NEW pc \in DOMAIN m, NEW means
  PROVE  LET n == [m EXCEPT ![pc].means = means]
         IN /\ IsMarks(n) /\ Len(n) = Len(m) /\ DOMAIN n = DOMAIN m
            /\ \A q \in DOMAIN m : n[q].slot = m[q].slot
            /\ n[pc].means = means
            /\ \A q \in DOMAIN m : q # pc => n[q] = m[q]
  <1> DEFINE n == [m EXCEPT ![pc].means = means]
             mark == [m[pc] EXCEPT !.means = means]
  <1>1. mark = [slot |-> m[pc].slot, means |-> means]
    BY DEF IsMarks, IsMark
  <1>2. n = [m EXCEPT ![pc] = mark]
    OBVIOUS
  <1> HIDE DEF n, mark
  <1>3. Len(m) \in Nat /\ DOMAIN m = 1 .. Len(m) /\ m = [q \in 1 .. Len(m) |-> m[q]]
    <2> DEFINE S == {m[q] : q \in DOMAIN m}
    <2>1. m \in Seq(S)
      BY DEF IsMarks
    <2> HIDE DEF S
    <2> QED BY <2>1
  <1>4. /\ DOMAIN n = 1 .. Len(m) /\ n = [q \in 1 .. Len(m) |-> n[q]] /\ n[pc] = mark
        /\ \A q \in DOMAIN m : q # pc => n[q] = m[q]
    BY <1>2, <1>3
  <1>5. n \in Seq({n[q] : q \in DOMAIN n}) /\ Len(n) = Len(m)
    <2> DEFINE T == {n[q] : q \in DOMAIN n}
    <2>1. \A q \in 1 .. Len(m) : n[q] \in T
      BY <1>4
    <2> HIDE DEF T
    <2>2. n \in [1 .. Len(m) -> T]
      BY <1>4, <2>1
    <2>3. n \in Seq(T) /\ Len(n) = Len(m)
      BY <1>3, <2>2
    <2> QED BY <2>3 DEF T
  <1>6. IsMark(mark) /\ mark.slot = m[pc].slot /\ mark.means = means
    BY <1>1 DEF IsMark
  <1>7. IsMarks(n)
    BY <1>3, <1>4, <1>5, <1>6 DEF IsMarks
  <1> QED BY <1>3, <1>4, <1>5, <1>6, <1>7 DEF n

(* An insertion adds one mark and moves the later ones by one.             *)
LEMMA InsertedMark ==
  ASSUME NEW m, IsMarks(m), NEW pc \in 1 .. Len(m) + 1, NEW instr
  PROVE  LET n == InsertMark(m, pc, instr)
         IN /\ IsMarks(n) /\ Len(n) = Len(m) + 1 /\ Len(m) \in Nat
            /\ DOMAIN n = 1 .. Len(m) + 1 /\ DOMAIN m = 1 .. Len(m)
            /\ n[pc].means = Means(n, instr)
            /\ n[pc].slot = Len(m) + 1
            /\ \A q \in 1 .. pc - 1 : n[q] = m[q]
            /\ \A q \in pc + 1 .. Len(m) + 1 : n[q] = m[q - 1]
  <1> DEFINE new == [slot |-> Len(m) + 1, means |-> <<>>]
             opened == Seqs!InsertAt(m, pc, new)
             n == [opened EXCEPT ![pc].means = Means(opened, instr)]
             S == {m[q] : q \in DOMAIN m} \cup {new}
  <1>1. m \in Seq(S) /\ new \in S /\ \A mark \in S : IsMark(mark)
    <2>1. IsMark(new)
      BY DEF IsMark
    <2> QED BY <2>1 DEF IsMarks
  <1> HIDE DEF S
  <1>2. Len(m) \in Nat /\ DOMAIN m = 1 .. Len(m) /\ new.slot = Len(m) + 1
    BY <1>1
  <1> HIDE DEF new
  <1>3. /\ opened \in Seq(S)
        /\ Len(opened) = Len(m) + 1
        /\ opened[pc] = new
        /\ \A q \in 1 .. pc - 1 : opened[q] = m[q]
        /\ \A q \in pc + 1 .. Len(m) + 1 : opened[q] = m[q - 1]
    BY <1>1, InsertAtElements, SMTT(30)
  <1> HIDE DEF opened
  <1>4. DOMAIN opened = 1 .. Len(m) + 1 /\ opened \in Seq({opened[q] : q \in DOMAIN opened})
    <2> DEFINE T == {opened[q] : q \in DOMAIN opened}
    <2>1. DOMAIN opened = 1 .. Len(m) + 1 /\ opened = [q \in 1 .. Len(m) + 1 |-> opened[q]]
      BY <1>2, <1>3
    <2>2. \A q \in 1 .. Len(m) + 1 : opened[q] \in T
      BY <2>1
    <2> HIDE DEF T
    <2>3. opened \in Seq(T)
      BY <1>2, <2>1, <2>2
    <2> QED BY <2>1, <2>3 DEF T
  <1>5. IsMarks(opened)
    BY <1>1, <1>2, <1>3, <1>4 DEF IsMarks
  <1>6. /\ IsMarks(n) /\ Len(n) = Len(m) + 1 /\ DOMAIN n = DOMAIN opened
        /\ \A q \in DOMAIN opened : n[q].slot = opened[q].slot
        /\ n[pc].means = Means(opened, instr)
        /\ \A q \in DOMAIN opened : q # pc => n[q] = opened[q]
    <2>1. pc \in DOMAIN opened
      BY <1>2, <1>4
    <2>2. /\ IsMarks(n) /\ Len(n) = Len(opened) /\ DOMAIN n = DOMAIN opened
          /\ \A q \in DOMAIN opened : n[q].slot = opened[q].slot
          /\ n[pc].means = Means(opened, instr)
          /\ \A q \in DOMAIN opened : q # pc => n[q] = opened[q]
      BY <1>5, <2>1, RewrittenMark
    <2> QED BY <1>3, <2>2
  <1>7. InsertMark(m, pc, instr) = n
    BY DEF InsertMark, opened, new
  <1> HIDE DEF n
  <1>8. Means(n, instr) = Means(opened, instr) /\ n[pc].slot = Len(m) + 1
    BY <1>2, <1>3, <1>4, <1>6, SameSlots
  <1>9. /\ \A q \in 1 .. pc - 1 : n[q] = m[q]
        /\ \A q \in pc + 1 .. Len(m) + 1 : n[q] = m[q - 1]
    <2>1. ASSUME NEW q \in 1 .. pc - 1 PROVE n[q] = m[q]
      <3>1. q \in DOMAIN opened /\ q # pc
        BY <1>2, <1>4
      <3> QED BY <1>3, <1>6, <3>1
    <2>2. ASSUME NEW q \in pc + 1 .. Len(m) + 1 PROVE n[q] = m[q - 1]
      <3>1. q \in DOMAIN opened /\ q # pc
        BY <1>2, <1>4
      <3> QED BY <1>3, <1>6, <3>1
    <2> QED BY <2>1, <2>2
  <1> QED BY <1>2, <1>4, <1>6, <1>7, <1>8, <1>9

-----------------------------------------------------------------------------
(* What each edit of a body does to the meaning of its targets.            *)
LEMMA KeptAtStart ==
  ASSUME NEW b, IsBody(b)
  PROVE  IsMarks(Marked(b)) /\ Len(Marked(b)) = Len(b) /\ KeptIn(Marked(b), b)
  <1> DEFINE m == Marked(b)
             numbered == [pc \in DOMAIN b |-> [slot |-> pc, means |-> <<>>]]
  <1>1. Len(b) \in Nat /\ DOMAIN b = 1 .. Len(b)
    <2> DEFINE S == {b[q] : q \in DOMAIN b}
    <2>1. b \in Seq(S)
      BY DEF IsBody
    <2> HIDE DEF S
    <2> QED BY <2>1
  <1>2. /\ m = [pc \in DOMAIN b |-> m[pc]]
        /\ \A pc \in DOMAIN b : m[pc] = [slot |-> pc, means |-> Means(numbered, b[pc])]
    BY DEF Marked
  <1>3. DOMAIN numbered = DOMAIN m /\ \A pc \in DOMAIN numbered : m[pc].slot = numbered[pc].slot
    <2>1. \A pc \in DOMAIN b : numbered[pc].slot = pc
      OBVIOUS
    <2>2. DOMAIN numbered = DOMAIN b
      OBVIOUS
    <2> HIDE DEF m, numbered
    <2> QED BY <1>2, <2>1, <2>2
  <1> HIDE DEF m, numbered
  <1>4. KeptIn(m, b)
    BY <1>2, <1>3, SameSlots DEF KeptIn
  <1>5. m \in Seq({m[q] : q \in DOMAIN m}) /\ Len(m) = Len(b)
    <2> DEFINE T == {m[q] : q \in DOMAIN m}
    <2>1. \A q \in 1 .. Len(b) : m[q] \in T
      BY <1>1, <1>2
    <2> HIDE DEF T
    <2>2. m \in [1 .. Len(b) -> T]
      BY <1>1, <1>2, <2>1
    <2>3. m \in Seq(T) /\ Len(m) = Len(b)
      BY <1>1, <2>2
    <2> QED BY <2>3 DEF T
  <1>6. \A pc \in DOMAIN m : IsMark(m[pc])
    BY <1>2 DEF IsMark
  <1> QED BY <1>4, <1>5, <1>6 DEF IsMarks, m

(* A replacement keeps the meaning of every other target.                  *)
LEMMA KeptByReplace ==
  ASSUME NEW b, IsBody(b), NEW m, IsMarks(m), DOMAIN m = DOMAIN b, KeptIn(m, b),
         NEW pc \in DOMAIN b, NEW instr, IsInstr(instr)
  PROVE  KeptIn([m EXCEPT ![pc].means = Means(m, instr)], [b EXCEPT ![pc] = instr])
  <1> DEFINE n == [m EXCEPT ![pc].means = Means(m, instr)]
             c == [b EXCEPT ![pc] = instr]
  <1>1. /\ DOMAIN n = DOMAIN m
        /\ \A q \in DOMAIN m : n[q].slot = m[q].slot
        /\ n[pc].means = Means(m, instr)
        /\ \A q \in DOMAIN m : q # pc => n[q] = m[q]
    BY RewrittenMark
  <1>2. c[pc] = instr /\ (\A q \in DOMAIN b : q # pc => c[q] = b[q]) /\ DOMAIN c = DOMAIN b
    BY WrittenBody
  <1> HIDE DEF n, c
  <1>3. \A i : Means(n, i) = Means(m, i)
    BY <1>1, SameSlots
  <1>4. KeptIn(n, c)
    BY <1>1, <1>2, <1>3 DEF KeptIn
  <1> QED BY <1>4 DEF n, c

(* So does an insertion that shifts no target.                             *)
LEMMA KeptByInsert ==
  ASSUME NEW b, IsBody(b), NEW m, IsMarks(m), Len(m) = Len(b), KeptIn(m, b),
         NEW instr, IsInstr(instr), NEW pc \in 1 .. Len(b) + 1, ~ShiftsTarget(b, pc)
  PROVE  KeptIn(InsertMark(m, pc, instr), Seqs!InsertAt(b, pc, instr))
  <1> DEFINE n == InsertMark(m, pc, instr)
             c == Seqs!InsertAt(b, pc, instr)
  <1>1. /\ DOMAIN c = 1 .. Len(b) + 1 /\ DOMAIN b = 1 .. Len(b) /\ Len(b) \in Nat
        /\ c[pc] = instr
        /\ \A q \in 1 .. pc - 1 : c[q] = b[q]
        /\ \A q \in pc + 1 .. Len(b) + 1 : c[q] = b[q - 1]
    BY InsertedBody
  <1>2. /\ DOMAIN n = 1 .. Len(b) + 1 /\ DOMAIN m = 1 .. Len(b)
        /\ n[pc].means = Means(n, instr)
        /\ \A q \in 1 .. pc - 1 : n[q] = m[q]
        /\ \A q \in pc + 1 .. Len(b) + 1 : n[q] = m[q - 1]
    BY InsertedMark
  <1> HIDE DEF n, c
  <1>3. ASSUME NEW t \in Nat, t < pc PROVE SlotAt(n, t) = SlotAt(m, t)
    <2>1. t \in DOMAIN n <=> t \in DOMAIN m
      BY <1>1, <1>2, <1>3
    <2>2. t \in DOMAIN m => n[t] = m[t]
      BY <1>1, <1>2, <1>3
    <2> QED BY <2>1, <2>2 DEF SlotAt
  <1>4. ASSUME NEW q \in DOMAIN b PROVE Means(n, b[q]) = m[q].means
    <2>1. \A i \in DOMAIN Targets(b[q]) : Targets(b[q])[i] \in Nat
      BY DEF IsBody, IsInstr
    <2>2. \A i \in DOMAIN Targets(b[q]) : Targets(b[q])[i] < pc
      <3>1. pc \in Nat
        BY <1>1
      <3>2. ASSUME NEW i \in DOMAIN Targets(b[q]) PROVE ~(Targets(b[q])[i] >= pc)
        BY DEF ShiftsTarget
      <3> HIDE DEF Targets
      <3> QED BY <2>1, <3>1, <3>2
    <2>3. Means(n, b[q]) = Means(m, b[q])
      BY <1>3, <2>1, <2>2 DEF Means
    <2> QED BY <2>3 DEF KeptIn
  <1>5. ASSUME NEW q \in DOMAIN c PROVE Means(n, c[q]) = n[q].means
    <2>1. CASE q = pc
      BY <2>1, <1>1, <1>2
    <2>2. CASE q < pc
      <3>1. q \in 1 .. pc - 1 /\ q \in DOMAIN b
        BY <2>2, <1>1
      <3> QED BY <3>1, <1>1, <1>2, <1>4
    <2>3. CASE q > pc
      <3>1. q \in pc + 1 .. Len(b) + 1 /\ q - 1 \in DOMAIN b
        BY <2>3, <1>1
      <3> QED BY <3>1, <1>1, <1>2, <1>4
    <2> QED BY <1>1, <2>1, <2>2, <2>3
  <1> QED BY <1>5 DEF KeptIn, n, c

(* The policy of a perform is no target.                                   *)
LEMMA KeptByAcceptance ==
  ASSUME NEW b, IsBody(b), NEW m, IsMarks(m), DOMAIN m = DOMAIN b,
         NEW pc \in DOMAIN b, b[pc].op = "perform", NEW policy
  PROVE  LET c == [b EXCEPT ![pc].policy = policy]
         IN IsBody(c) /\ Len(c) = Len(b) /\ (KeptIn(m, b) => KeptIn(m, c))
  <1> DEFINE instr == [b[pc] EXCEPT !.policy = policy]
             c == [b EXCEPT ![pc].policy = policy]
  <1>1. c = [b EXCEPT ![pc] = instr]
    OBVIOUS
  <1>2. "op" \in DOMAIN b[pc]
    BY DEF IsBody, IsInstr
  <1>3. instr.op = "perform" /\ "op" \in DOMAIN instr
    BY <1>2
  <1> HIDE DEF instr, c
  <1>4. Targets(instr) = <<>> /\ Targets(b[pc]) = <<>>
    BY <1>3 DEF Targets
  <1>5. IsInstr(instr)
    BY <1>3, <1>4 DEF IsInstr
  <1>6. IsBody(c) /\ Len(c) = Len(b) /\ c[pc] = instr /\ DOMAIN c = DOMAIN b
        /\ \A q \in DOMAIN b : q # pc => c[q] = b[q]
    BY <1>1, <1>5, WrittenBody
  <1>7. Means(m, instr) = Means(m, b[pc])
    BY <1>4 DEF Means
  <1>8. KeptIn(m, b) => KeptIn(m, c)
    BY <1>6, <1>7 DEF KeptIn
  <1> QED BY <1>6, <1>8 DEF c

-----------------------------------------------------------------------------
(* Every operation that can be applied, a model's or the semantic patch's. *)
IsOp(op) ==
  /\ op.op \in {"replace", "insert"} => op.pc \in Nat /\ IsInstr(op.instr)
  /\ op.op = "function" => IsFunction(op.def)

(* Every operation of a patch has the fields of its kind.                  *)
LEMMA OpsWellFormed ==
  ASSUME NEW op \in Written PROVE IsOp(op)
  <1>1. CASE op \in ModelOps
    BY <1>1, WellFormedAssumption DEF IsOp
  <1>2. CASE \E i \in 1 .. 8 : op = SemanticPatch(base.output)[i]
    <2>1. \A instr : instr.op \in {"perform", "return"} /\ "op" \in DOMAIN instr => IsInstr(instr)
      BY DEF IsInstr, Targets
    <2>2. \A t, e \in Nat : \A cond : IsInstr(Branch(cond, t, e))
      <3> SUFFICES ASSUME NEW t \in Nat, NEW e \in Nat, NEW cond PROVE IsInstr(Branch(cond, t, e))
        OBVIOUS
      <3>1. Targets(Branch(cond, t, e)) = <<t, e>> /\ "op" \in DOMAIN Branch(cond, t, e)
        BY DEF Branch, Targets
      <3> HIDE DEF Branch, Targets
      <3> QED BY <3>1 DEF IsInstr
    <2>3. \A out, effect, input, schema, policy : IsInstr(Perform(out, effect, input, schema, policy))
      BY <2>1 DEF Perform
    <2>4. \A expr : IsInstr(Return(expr))
      BY <2>1 DEF Return
    <2>5. FallbackPc \in Nat
      BY DEF FallbackPc
    <2>6. \A pc \in Nat : \A f, instr : IsInstr(instr) => IsOp(InsertInstruction(f, pc, instr))
      BY DEF IsOp, InsertInstruction
    <2>7. \A perm : IsOp(AddEffectPermission(perm))
      BY DEF IsOp, AddEffectPermission
    <2> DEFINE sp == SemanticPatch(base.output)
    <2>8. IsOp(sp[1]) /\ IsOp(sp[2])
      BY <2>7 DEF SemanticPatch, MatchSteps, ValidationSteps, EmitSteps
    <2>9. IsOp(sp[3]) /\ IsOp(sp[5]) /\ IsOp(sp[7])
      <3>1. /\ sp[3] = MatchSteps[3]
            /\ sp[5] = ValidationSteps[1]
            /\ sp[7] = EmitSteps(base.output)[1]
        BY DEF SemanticPatch, MatchSteps, ValidationSteps, EmitSteps
      <3>2. IsOp(MatchSteps[3])
        BY <2>3, <2>6 DEF MatchSteps
      <3>3. IsOp(ValidationSteps[1])
        BY <2>3, <2>6 DEF ValidationSteps
      <3>4. IsOp(EmitSteps(base.output)[1])
        BY <2>3, <2>6 DEF EmitSteps
      <3> HIDE DEF sp
      <3> QED BY <3>1, <3>2, <3>3, <3>4
    <2>10. IsOp(sp[4]) /\ IsOp(sp[6])
      BY <2>2, <2>5, <2>6 DEF SemanticPatch, MatchSteps, ValidationSteps, EmitSteps
    <2>11. IsOp(sp[8])
      BY <2>4, <2>6 DEF SemanticPatch, MatchSteps, ValidationSteps, EmitSteps
    <2> HIDE DEF sp
    <2>12. PICK i \in 1 .. 8 : op = sp[i]
      BY <1>2 DEF sp
    <2>13. i \in {1, 2, 3, 4, 5, 6, 7, 8}
      OBVIOUS
    <2> QED BY <2>8, <2>9, <2>10, <2>11, <2>12, <2>13
  <1> QED BY <1>1, <1>2 DEF Written, Patch, SemanticPatch, MatchSteps, ValidationSteps, EmitSteps

(* Functions with control flow in the base are in the patched program.     *)
LEMMA ControlFlowKept ==
  ASSUME TypeOK
  PROVE  FunctionsWithControlFlow(base) \subseteq DOMAIN program.functions
  BY DEF TypeOK, FunctionsWithControlFlow

(* The base program keeps its own targets.                                 *)
LEMMA InitInv == Init => Inv
  <1> SUFFICES ASSUME Init PROVE Inv
    OBVIOUS
  <1>1. WellShaped(program)
    BY WellFormedAssumption DEF Init, WellShaped
  <1>2. \A f \in DOMAIN program.functions :
          IsMarks(marks[f]) /\ Len(marks[f]) = Len(Body(f)) /\ KeptIn(marks[f], Body(f))
    BY <1>1, KeptAtStart DEF Init, WellShaped, IsFunction, Body
  <1>3. AllMarked
    BY <1>2 DEF AllMarked, Init
  <1>4. \A f \in DOMAIN marks : DOMAIN marks[f] = DOMAIN Body(f)
    BY DEF Init, Marked, Body
  <1>5. TypeOK
    BY <1>4 DEF Init, TypeOK
  <1>6. TargetsKept
    BY <1>2, <1>5, ControlFlowKept DEF TargetsKept, KeptIn
  <1> QED BY <1>1, <1>3, <1>5, <1>6 DEF Inv

(* One body and its marks change together, all the others stand.           *)
LEMMA OneBody ==
  ASSUME Inv, NEW f \in DOMAIN program.functions, NEW b, IsBody(b), SetBody(f, b),
         marks' = [marks EXCEPT ![f] = marks'[f]], IsMarks(marks'[f]),
         Len(marks'[f]) = Len(b), f \in FunctionsWithControlFlow(base) => KeptIn(marks'[f], b),
         base' = base, author' = author, verdict' \in {"unread", "open", "accepted", "refused"},
         applied' \in Nat
  PROVE  Inv'
  <1>1. /\ WellShaped(program')
        /\ DOMAIN program'.functions = DOMAIN program.functions
        /\ program'.functions[f].body = b
        /\ \A g \in DOMAIN program.functions : g # f => program'.functions[g] = program.functions[g]
    BY ReplacedBody DEF Inv, SetBody
  <1>2. /\ DOMAIN marks' = DOMAIN marks /\ DOMAIN marks = DOMAIN program.functions
        /\ \A g \in DOMAIN program.functions : g # f => marks'[g] = marks[g]
    BY DEF Inv, AllMarked
  <1>3. AllMarked'
    <2>1. marks' = [g \in DOMAIN program'.functions |-> marks'[g]]
      BY <1>1, <1>2
    <2>2. ASSUME NEW g \in DOMAIN program'.functions
          PROVE  IsMarks(marks'[g]) /\ Len(marks'[g]) = Len(Body(g)')
      BY <1>1, <1>2 DEF Inv, AllMarked, Body
    <2> QED BY <2>1, <2>2 DEF AllMarked
  <1>4. ASSUME NEW g \in DOMAIN marks' PROVE DOMAIN marks'[g] = DOMAIN Body(g)'
    <2>1. \A m : IsMarks(m) => DOMAIN m = 1 .. Len(m)
      <3> SUFFICES ASSUME NEW m, IsMarks(m) PROVE DOMAIN m = 1 .. Len(m)
        OBVIOUS
      <3> DEFINE S == {m[q] : q \in DOMAIN m}
      <3>1. m \in Seq(S)
        BY DEF IsMarks
      <3> HIDE DEF S
      <3> QED BY <3>1
    <2>2. DOMAIN b = 1 .. Len(b)
      <3> DEFINE S == {b[q] : q \in DOMAIN b}
      <3>1. b \in Seq(S)
        BY DEF IsBody
      <3> HIDE DEF S
      <3> QED BY <3>1
    <2>3. CASE g = f
      BY <2>1, <2>2, <2>3, <1>1 DEF Body
    <2>4. CASE g # f
      BY <2>4, <1>1, <1>2 DEF Body, Inv, TypeOK
    <2> QED BY <2>3, <2>4
  <1>5. TypeOK'
    BY <1>1, <1>2, <1>4 DEF Inv, TypeOK
  <1>6. TargetsKept'
    <2>1. ASSUME NEW g \in FunctionsWithControlFlow(base) PROVE KeptIn(marks'[g], Body(g)')
      <3>1. g \in DOMAIN program.functions /\ KeptIn(marks[g], Body(g))
        BY ControlFlowKept DEF Inv, TargetsKept, KeptIn
      <3> QED BY <3>1, <1>1, <1>2 DEF Body
    <2> QED BY <2>1 DEF TargetsKept, KeptIn
  <1> QED BY <1>1, <1>3, <1>5, <1>6 DEF Inv

-----------------------------------------------------------------------------
(* A refusal changes no program.                                           *)
LEMMA RefuseInv ==
  ASSUME Inv, UNCHANGED <<base, author, program, marks>>,
         verdict' \in {"unread", "open", "accepted", "refused"}, applied' \in Nat
  PROVE  Inv'
  BY DEF Inv, TypeOK, AllMarked, WellShaped, TargetsKept, Body

(* The invariant is inductive.                                             *)
LEMMA StepInv == Inv /\ [Next]_vars => Inv'
  <1> SUFFICES ASSUME Inv, [Next]_vars PROVE Inv'
    OBVIOUS
  <1>1. applied \in Nat /\ verdict \in {"unread", "open", "accepted", "refused"}
    BY DEF Inv, TypeOK
  <1>2. ASSUME NEW f \in DOMAIN program.functions
        PROVE  /\ IsBody(Body(f)) /\ IsMarks(marks[f]) /\ Len(marks[f]) = Len(Body(f))
               /\ DOMAIN marks[f] = DOMAIN Body(f)
               /\ f \in FunctionsWithControlFlow(base) => KeptIn(marks[f], Body(f))
    BY DEF Inv, WellShaped, IsFunction, AllMarked, TypeOK, TargetsKept, KeptIn, Body
  <1>3. CASE UNCHANGED vars
    BY <1>1, <1>3, RefuseInv DEF vars
  <1>4. ASSUME NEW valid \in BOOLEAN, CheckHeader(valid) PROVE Inv'
    BY <1>1, <1>4, RefuseInv DEF CheckHeader
  <1>5. CASE Conclude
    BY <1>1, <1>5, RefuseInv DEF Conclude
  <1>6. CASE Refuse
    BY <1>1, <1>6, RefuseInv DEF Refuse
  <1>7. ASSUME NEW op \in Written, ApplyPatchOp(op) PROVE Inv'
    <2>1. CASE GrantPermission(op)
      <3>1. /\ program' = [entry |-> program.entry, functions |-> program.functions,
                           input |-> program.input, output |-> program.output,
                           allowed |-> program.allowed \cup {op.perm}]
            /\ base' = base /\ author' = author /\ marks' = marks /\ verdict' = verdict
            /\ applied' \in Nat
        <4>1. program' = [program EXCEPT !.allowed = program.allowed \cup {op.perm}]
          BY <2>1 DEF GrantPermission
        <4>2. base' = base /\ author' = author /\ marks' = marks /\ verdict' = verdict
              /\ applied' \in Nat
          BY <2>1, <1>1 DEF GrantPermission, Applied
        <4> QED BY <4>1, <4>2 DEF Inv, WellShaped
      <3>2. program'.functions = program.functions /\ WellShaped(program')
        BY <3>1 DEF Inv, WellShaped
      <3> QED BY <3>1, <3>2, <1>1 DEF Inv, TypeOK, AllMarked, TargetsKept, Body
    <2>2. CASE Replace(op)
      <3>1. CASE ~HasSlot(op)
        BY <2>2, <3>1, <1>6 DEF Replace
      <3>2. CASE HasSlot(op)
        <4> DEFINE b == [Body(op.fn) EXCEPT ![op.pc] = op.instr]
                   n == [marks[op.fn] EXCEPT ![op.pc].means = Means(marks[op.fn], op.instr)]
        <4>1. op.fn \in DOMAIN program.functions /\ op.pc \in DOMAIN Body(op.fn) /\ IsInstr(op.instr)
          BY <2>2, <3>2, OpsWellFormed DEF HasSlot, Replace, Body, IsOp
        <4>2. SetBody(op.fn, b) /\ marks' = [marks EXCEPT ![op.fn] = n]
              /\ base' = base /\ author' = author /\ verdict' = verdict /\ applied' \in Nat
          BY <2>2, <3>2, <1>1 DEF Replace, Applied, Body
        <4>3. IsBody(b) /\ Len(b) = Len(Body(op.fn))
          BY <4>1, <1>2, WrittenBody
        <4>4. IsMarks(n) /\ Len(n) = Len(marks[op.fn])
          <5>1. op.pc \in DOMAIN marks[op.fn] /\ IsMarks(marks[op.fn])
            BY <4>1, <1>2
          <5> DEFINE means == Means(marks[op.fn], op.instr)
          <5> HIDE DEF means
          <5>2. IsMarks([marks[op.fn] EXCEPT ![op.pc].means = means])
                /\ Len([marks[op.fn] EXCEPT ![op.pc].means = means]) = Len(marks[op.fn])
            BY <5>1, RewrittenMark
          <5> QED BY <5>2 DEF means
        <4>5. op.fn \in FunctionsWithControlFlow(base) => KeptIn(n, b)
          BY <4>1, <1>2, KeptByReplace
        <4>6. marks'[op.fn] = n
          BY <4>1, <4>2 DEF Inv, TypeOK
        <4> HIDE DEF b, n
        <4>7. marks' = [marks EXCEPT ![op.fn] = marks'[op.fn]] /\ IsMarks(marks'[op.fn])
              /\ Len(marks'[op.fn]) = Len(b)
              /\ (op.fn \in FunctionsWithControlFlow(base) => KeptIn(marks'[op.fn], b))
          BY <4>1, <4>2, <4>3, <4>4, <4>5, <4>6, <1>2
        <4> QED BY <4>1, <4>2, <4>3, <4>7, <1>1, OneBody
      <3> QED BY <3>1, <3>2
    <2>3. CASE Insert(op)
      <3>1. CASE ~MayInsert(op)
        BY <2>3, <3>1, <1>6 DEF Insert
      <3>2. CASE MayInsert(op)
        <4> DEFINE b == Seqs!InsertAt(Body(op.fn), op.pc, op.instr)
                   n == InsertMark(marks[op.fn], op.pc, op.instr)
        <4>1. op.fn \in DOMAIN program.functions /\ op.pc \in 1 .. Len(Body(op.fn)) + 1
              /\ IsInstr(op.instr)
              /\ (op.fn \in FunctionsWithControlFlow(base) => ~ShiftsTarget(Body(op.fn), op.pc))
          BY <2>3, <3>2, OpsWellFormed DEF MayInsert, Insert, Body, IsOp
        <4>2. SetBody(op.fn, b) /\ marks' = [marks EXCEPT ![op.fn] = n]
              /\ base' = base /\ author' = author /\ verdict' = verdict /\ applied' \in Nat
          BY <2>3, <3>2, <1>1 DEF Insert, Applied, Body
        <4>3. IsBody(b) /\ Len(b) = Len(Body(op.fn)) + 1
          BY <4>1, <1>2, InsertedBody
        <4>4. IsMarks(n) /\ Len(n) = Len(marks[op.fn]) + 1
          BY <4>1, <1>2, InsertedMark
        <4>5. op.fn \in FunctionsWithControlFlow(base) => KeptIn(n, b)
          BY <4>1, <1>2, KeptByInsert
        <4>6. marks'[op.fn] = n
          BY <4>1, <4>2 DEF Inv, TypeOK
        <4> HIDE DEF b, n
        <4>7. marks' = [marks EXCEPT ![op.fn] = marks'[op.fn]] /\ IsMarks(marks'[op.fn])
              /\ Len(marks'[op.fn]) = Len(b)
              /\ (op.fn \in FunctionsWithControlFlow(base) => KeptIn(marks'[op.fn], b))
          BY <4>1, <4>2, <4>3, <4>4, <4>5, <4>6, <1>2
        <4> QED BY <4>1, <4>2, <4>3, <4>7, <1>1, OneBody
      <3> QED BY <3>1, <3>2
    <2>4. CASE DefineFunction(op)
      <3>1. CASE op.fn \in DOMAIN program.functions
        BY <2>4, <3>1, <1>6 DEF DefineFunction
      <3>2. CASE op.fn \notin DOMAIN program.functions
        <4>1. IsFunction(op.def)
          BY <2>4, OpsWellFormed DEF DefineFunction, IsOp
        <4>2. IsMarks(Marked(op.def.body)) /\ Len(Marked(op.def.body)) = Len(op.def.body)
              /\ DOMAIN Marked(op.def.body) = DOMAIN op.def.body
          BY <4>1, KeptAtStart DEF IsFunction, Marked
        <4>3. /\ program' = [program EXCEPT !.functions = Bind(program.functions, op.fn, op.def)]
              /\ marks' = Bind(marks, op.fn, Marked(op.def.body))
              /\ base' = base /\ author' = author /\ verdict' = verdict /\ applied' \in Nat
          BY <2>4, <3>2, <1>1 DEF DefineFunction, Applied
        <4>4. /\ program' = [entry |-> program.entry, functions |-> program'.functions,
                             input |-> program.input, output |-> program.output,
                             allowed |-> program.allowed]
              /\ program'.functions = Bind(program.functions, op.fn, op.def)
          BY <4>3 DEF Inv, WellShaped
        <4> DEFINE names == DOMAIN program.functions
        <4>5. /\ DOMAIN program'.functions = names \cup {op.fn}
              /\ program'.functions[op.fn] = op.def
              /\ \A g \in names : program'.functions[g] = program.functions[g]
              /\ program'.functions = [g \in names \cup {op.fn} |-> program'.functions[g]]
          BY <4>4, <3>2 DEF Bind
        <4>6. /\ DOMAIN marks' = names \cup {op.fn}
              /\ marks'[op.fn] = Marked(op.def.body)
              /\ \A g \in names : marks'[g] = marks[g]
              /\ marks' = [g \in names \cup {op.fn} |-> marks'[g]]
          BY <4>3, <3>2 DEF Bind, Inv, TypeOK
        <4>7. WellShaped(program')
          BY <4>1, <4>4, <4>5 DEF Inv, WellShaped
        <4>8. AllMarked'
          BY <4>2, <4>5, <4>6 DEF Inv, AllMarked, Body
        <4>9. TypeOK'
          BY <4>2, <4>3, <4>5, <4>6, <1>1 DEF Inv, TypeOK, Body
        <4>10. TargetsKept'
          <5>1. ASSUME NEW g \in FunctionsWithControlFlow(base) PROVE KeptIn(marks'[g], Body(g)')
            BY <1>2, <4>5, <4>6, ControlFlowKept DEF Inv, Body
          <5> QED BY <5>1, <4>3 DEF TargetsKept, KeptIn
        <4> QED BY <4>7, <4>8, <4>9, <4>10 DEF Inv
      <3> QED BY <3>1, <3>2
    <2>5. CASE SetAcceptance(op)
      <3>1. CASE ~(HasSlot(op) /\ program.functions[op.fn].body[op.pc].op = "perform")
        BY <2>5, <3>1, <1>6 DEF SetAcceptance
      <3>2. CASE HasSlot(op) /\ program.functions[op.fn].body[op.pc].op = "perform"
        <4> DEFINE b == [Body(op.fn) EXCEPT ![op.pc].policy = op.policy]
        <4>1. op.fn \in DOMAIN program.functions /\ op.pc \in DOMAIN Body(op.fn)
              /\ Body(op.fn)[op.pc].op = "perform"
          BY <3>2 DEF HasSlot, Body
        <4>2. SetBody(op.fn, b) /\ marks' = marks
              /\ base' = base /\ author' = author /\ verdict' = verdict /\ applied' \in Nat
          <5>1. SetBody(op.fn, b) /\ marks' = marks /\ Applied
            BY <2>5, <3>2, ZenonT(30) DEF SetAcceptance, Body
          <5> QED BY <5>1, <1>1 DEF Applied
        <4>3. IsBody(b) /\ Len(b) = Len(Body(op.fn))
          BY <4>1, <1>2, KeptByAcceptance
        <4>4. op.fn \in FunctionsWithControlFlow(base) => KeptIn(marks[op.fn], b)
          BY <4>1, <1>2, KeptByAcceptance
        <4> HIDE DEF b
        <4>5. marks' = [marks EXCEPT ![op.fn] = marks'[op.fn]]
          BY <4>1, <4>2 DEF Inv, AllMarked
        <4> QED BY <4>1, <4>2, <4>3, <4>4, <4>5, <1>1, <1>2, OneBody
      <3> QED BY <3>1, <3>2
    <2> QED BY <1>7, <2>1, <2>2, <2>3, <2>4, <2>5 DEF ApplyPatchOp
  <1> QED BY <1>3, <1>4, <1>5, <1>7 DEF Next

(* In every state of every patch: the base program's functions are there,  *)
(* and each instruction has its slot.                                      *)
THEOREM PatchTypeCorrect == Spec => []TypeOK
  <1>1. Inv => TypeOK
    BY DEF Inv
  <1> QED BY <1>1, InitInv, StepInv, PTL DEF Spec

(* validator.rs 804, for every base program and every patch: whatever the  *)
(* order and the coordinates of its operations, no branch or jump of a     *)
(* function that had control flow comes to mean another instruction.       *)
THEOREM BranchesKeepMeaning == Spec => []TargetsKept
  <1>1. Inv => TargetsKept
    BY DEF Inv
  <1> QED BY <1>1, InitInv, StepInv, PTL DEF Spec

-----------------------------------------------------------------------------
(* The semantic patch, operation by operation.                             *)
Old == base.functions[Main].body
Step(i) == Patch[i + 2].instr
Inserted == IF applied > 2 THEN applied - 2 ELSE 0

(* Two permissions and then six insertions at the front of main, in order. *)
LEMMA PatchWritten ==
  /\ DOMAIN Patch = 1 .. 8 /\ Len(Patch) = 8
  /\ Patch[1].op = "permission" /\ Patch[2].op = "permission"
  /\ \A i \in 1 .. 6 :
       /\ Patch[i + 2].op = "insert" /\ Patch[i + 2].fn = Main /\ Patch[i + 2].pc = i
  <1> DEFINE p == Patch
  <1>1. DOMAIN p = 1 .. 8 /\ Len(p) = 8
    BY DEF Patch, SemanticPatch, MatchSteps, ValidationSteps, EmitSteps
  <1>2. p[1].op = "permission" /\ p[2].op = "permission"
    BY DEF Patch, SemanticPatch, MatchSteps, ValidationSteps, EmitSteps, AddEffectPermission
  <1>3. /\ p[3].op = "insert" /\ p[3].fn = Main /\ p[3].pc = 1
        /\ p[4].op = "insert" /\ p[4].fn = Main /\ p[4].pc = 2
    BY DEF Patch, SemanticPatch, MatchSteps, ValidationSteps, EmitSteps, InsertInstruction
  <1>4. /\ p[5].op = "insert" /\ p[5].fn = Main /\ p[5].pc = 3
        /\ p[6].op = "insert" /\ p[6].fn = Main /\ p[6].pc = 4
    BY DEF Patch, SemanticPatch, MatchSteps, ValidationSteps, EmitSteps, InsertInstruction
  <1>5. /\ p[7].op = "insert" /\ p[7].fn = Main /\ p[7].pc = 5
        /\ p[8].op = "insert" /\ p[8].fn = Main /\ p[8].pc = 6
    BY DEF Patch, SemanticPatch, MatchSteps, ValidationSteps, EmitSteps, InsertInstruction
  <1> HIDE DEF p
  <1>6. \A i \in 1 .. 6 : i = 1 \/ i = 2 \/ i = 3 \/ i = 4 \/ i = 5 \/ i = 6
    OBVIOUS
  <1>7. \A i \in 1 .. 6 : p[i + 2].op = "insert" /\ p[i + 2].fn = Main /\ p[i + 2].pc = i
    BY <1>3, <1>4, <1>5, <1>6
  <1> QED BY <1>1, <1>2, <1>7 DEF p

(* What each of the six is.                                                *)
LEMMA StepsWritten ==
  /\ Step(1).op = "perform" /\ Step(1).out = "semantic_match"
  /\ Step(2) = Branch(FieldTest("semantic_match", Truthy), 3, 7)
  /\ Step(3).op = "perform" /\ Step(3).out = "semantic_validation"
  /\ Step(4) = Branch(FieldTest("semantic_validation", Truthy), 5, 7)
  /\ Step(5).op = "perform" /\ Step(5).out = "fast_action"
  /\ Step(6).op = "return"
  <1>1. Step(1) = MatchSteps[3].instr /\ Step(2) = MatchSteps[4].instr
    BY DEF Step, Patch, SemanticPatch, MatchSteps, ValidationSteps, EmitSteps
  <1>2. Step(3) = ValidationSteps[1].instr /\ Step(4) = ValidationSteps[2].instr
    BY DEF Step, Patch, SemanticPatch, MatchSteps, ValidationSteps, EmitSteps
  <1>3. Step(5) = EmitSteps(base.output)[1].instr /\ Step(6) = EmitSteps(base.output)[2].instr
    BY DEF Step, Patch, SemanticPatch, MatchSteps, ValidationSteps, EmitSteps
  <1>4. Step(1).op = "perform" /\ Step(1).out = "semantic_match"
    BY <1>1 DEF MatchSteps, InsertInstruction, Perform
  <1>5. Step(2) = Branch(FieldTest("semantic_match", Truthy), 3, 7)
    BY <1>1 DEF MatchSteps, InsertInstruction, FallbackPc
  <1>6. Step(3).op = "perform" /\ Step(3).out = "semantic_validation"
    BY <1>2 DEF ValidationSteps, InsertInstruction, Perform
  <1>7. Step(4) = Branch(FieldTest("semantic_validation", Truthy), 5, 7)
    BY <1>2 DEF ValidationSteps, InsertInstruction, FallbackPc
  <1>8. Step(5).op = "perform" /\ Step(5).out = "fast_action"
    BY <1>3 DEF EmitSteps, InsertInstruction, Perform
  <1>9. Step(6).op = "return"
    BY <1>3 DEF EmitSteps, InsertInstruction, Return
  <1> QED BY <1>4, <1>5, <1>6, <1>7, <1>8, <1>9

(* Main is the steps inserted so far, and then the base's main.            *)
Layered ==
  /\ Len(Old) \in Nat /\ DOMAIN Old = 1 .. Len(Old)
  /\ Len(Body(Main)) = Len(Old) + Inserted
  /\ \A pc \in 1 .. Inserted :
       Body(Main)[pc] = Step(pc) /\ marks[Main][pc].slot > Len(Old)
  /\ \A pc \in 1 .. Len(Old) :
       Body(Main)[pc + Inserted] = Old[pc] /\ marks[Main][pc + Inserted].slot = pc

(* Inserting at the front has refused a main with a branch or a jump.      *)
Straight == \A pc \in DOMAIN Old : \A i \in DOMAIN Targets(Old[pc]) : ~(Targets(Old[pc])[i] >= 1)

Shape ==
  author = "semantic" =>
    /\ applied \in 0 .. 8
    /\ DOMAIN program.functions = DOMAIN base.functions
    /\ Main \in DOMAIN base.functions => Layered
    /\ verdict = "accepted" =>
         applied = 8 /\ Main \in DOMAIN base.functions /\ ValidProgram(program)
    /\ applied > 2 => Main \in DOMAIN base.functions /\ Straight

(* The patched program starts as the base.                                 *)
LEMMA ShapeInit == Init => Shape
  <1> SUFFICES ASSUME Init PROVE Shape
    OBVIOUS
  <1>1. applied = 0 /\ Inserted = 0 /\ program = base /\ verdict = "unread"
    BY DEF Init, Inserted
  <1>2. ASSUME Main \in DOMAIN base.functions PROVE Layered
    <2>1. IsBody(Old)
      BY <1>2, WellFormedAssumption DEF Init, IsFunction, Old
    <2>2. Len(Old) \in Nat /\ DOMAIN Old = 1 .. Len(Old)
      <3> DEFINE S == {Old[q] : q \in DOMAIN Old}
      <3>1. Old \in Seq(S)
        BY <2>1 DEF IsBody
      <3> HIDE DEF S
      <3> QED BY <3>1
    <2>3. Body(Main) = Old
      BY <1>1 DEF Body, Old
    <2>4. \A pc \in 1 .. Len(Old) : marks[Main][pc].slot = pc
      BY <1>2, <2>2 DEF Init, Marked, Old
    <2> QED BY <1>1, <2>2, <2>3, <2>4 DEF Layered
  <1> QED BY <1>1, <1>2 DEF Shape

(* Inserting the k-th step behind the first k - 1.                         *)
LEMMA LayeredInsert ==
  ASSUME Inv, Layered, Main \in DOMAIN program.functions, applied \in 2 .. 7,
         NEW op, op.fn = Main, op.pc = applied - 1, op.instr = Step(applied - 1),
         IsInstr(op.instr),
         SetBody(Main, Seqs!InsertAt(Body(Main), op.pc, op.instr)),
         marks' = [marks EXCEPT ![Main] = InsertMark(marks[Main], op.pc, op.instr)],
         applied' = applied + 1, base' = base
  PROVE  Layered'
  <1> DEFINE k == applied - 1
             b == Body(Main)
             m == marks[Main]
             c == Seqs!InsertAt(b, k, Step(k))
             n == InsertMark(m, k, Step(k))
             L == Len(Old)
  <1>1. IsBody(b) /\ IsMarks(m) /\ Len(m) = Len(b)
    BY DEF Inv, WellShaped, IsFunction, AllMarked, Body
  <1>2. k \in 1 .. 6 /\ Inserted = k - 1 /\ Inserted' = k
    BY DEF Inserted
  <1>3. L \in Nat /\ Len(b) = L + k - 1 /\ k \in 1 .. Len(b) + 1
    BY <1>2 DEF Layered
  <1>4. Body(Main)' = c
    BY ReplacedBody, <1>1, <1>3, InsertedBody DEF SetBody, Inv, Body
  <1>5. marks'[Main] = n
    BY DEF Inv, TypeOK
  <1>6. Old' = Old /\ \A i : Step(i)' = Step(i)
    BY DEF Old, Step, Patch
  <1>7. /\ Len(c) = Len(b) + 1
        /\ c[k] = Step(k)
        /\ \A q \in 1 .. k - 1 : c[q] = b[q]
        /\ \A q \in k + 1 .. Len(b) + 1 : c[q] = b[q - 1]
    <2>1. IsInstr(Step(k))
      OBVIOUS
    <2> HIDE DEF b, k
    <2> QED BY <1>1, <1>3, <2>1, InsertedBody
  <1>8. /\ n[k].slot = Len(m) + 1
        /\ \A q \in 1 .. k - 1 : n[q] = m[q]
        /\ \A q \in k + 1 .. Len(m) + 1 : n[q] = m[q - 1]
    <2>1. k \in 1 .. Len(m) + 1
      BY <1>1, <1>3
    <2> HIDE DEF b, m, k
    <2> QED
      BY <1>1, <2>1, InsertedMark
  <1>9. /\ \A q \in 1 .. k - 1 : b[q] = Step(q) /\ m[q].slot > L
        /\ \A q \in 1 .. L : b[q + k - 1] = Old[q] /\ m[q + k - 1].slot = q
    <2>1. \A q \in 1 .. L : q + Inserted = q + k - 1
      BY <1>2, <1>3
    <2> QED BY <1>2, <2>1 DEF Layered
  <1> HIDE DEF b, c, m, n, k, L
  <1>10. ASSUME NEW q \in 1 .. k PROVE c[q] = Step(q) /\ n[q].slot > L
    BY <1>1, <1>2, <1>3, <1>7, <1>8, <1>9
  <1>11. ASSUME NEW q \in 1 .. L PROVE c[q + k] = Old[q] /\ n[q + k].slot = q
    <2>1. q + k \in k + 1 .. Len(b) + 1 /\ (q + k) - 1 = q + k - 1
      BY <1>2, <1>3
    <2> QED BY <2>1, <1>1, <1>7, <1>8, <1>9
  <1>12. Len(c) = L + k
    BY <1>2, <1>3, <1>7
  <1> QED BY <1>2, <1>4, <1>5, <1>6, <1>10, <1>11, <1>12 DEF Layered, L

(* The shape of the semantic patch is inductive.                           *)
LEMMA ShapeStep == Inv /\ Shape /\ [Next]_vars => Shape'
  <1> SUFFICES ASSUME Inv, Shape, [Next]_vars, author' = "semantic" PROVE Shape'
    BY DEF Shape
  <1>1. author = "semantic" /\ base' = base
    BY DEF Next, vars, CheckHeader, ApplyPatchOp, Conclude, Refuse, Applied, GrantPermission,
           Replace, Insert, DefineFunction, SetAcceptance
  <1>2. ASSUME UNCHANGED <<base, author, program, marks, applied>>, verdict' # "accepted"
        PROVE  Shape'
    BY <1>1, <1>2 DEF Shape, Layered, Old, Step, Patch, Body, Inserted, Straight
  <1>3. CASE UNCHANGED vars
    BY <1>3 DEF vars, Shape, Layered, Old, Step, Patch, Body, Inserted, Straight
  <1>4. ASSUME NEW valid \in BOOLEAN, CheckHeader(valid) PROVE Shape'
    BY <1>2, <1>4 DEF CheckHeader
  <1>5. CASE Conclude
    <2>1. applied = 8
      BY <1>1, <1>5, PatchWritten DEF Conclude, Complete
    <2>2. verdict' = "accepted" => ValidProgram(program)
      BY <1>5 DEF Conclude
    <2>3. base' = base /\ program' = program /\ marks' = marks /\ applied' = applied
      BY <1>1, <1>5 DEF Conclude
    <2>4. (Layered' <=> Layered) /\ (Straight' <=> Straight)
      BY <2>3 DEF Layered, Old, Step, Patch, Body, Inserted, Straight
    <2>5. Main \in DOMAIN base.functions /\ Straight /\ Layered
      BY <1>1, <2>1 DEF Shape
    <2> QED BY <1>1, <2>1, <2>2, <2>3, <2>4, <2>5 DEF Shape
  <1>6. ASSUME NEW op \in Written, ApplyPatchOp(op) PROVE Shape'
    <2>1. applied + 1 \in 1 .. 8 /\ op = Patch[applied + 1] /\ verdict = "open"
      BY <1>1, <1>6, PatchWritten DEF Written, ApplyPatchOp
    <2>2. CASE applied < 2
      <3>1. op.op = "permission"
        <4>1. applied = 0 \/ applied = 1
          BY <1>1, <2>1, <2>2 DEF Shape
        <4> QED BY <2>1, <4>1, PatchWritten
      <3>2. GrantPermission(op)
        BY <1>6, <3>1 DEF ApplyPatchOp, Replace, Insert, DefineFunction, SetAcceptance
      <3>3. program'.functions = program.functions
        BY <3>2 DEF GrantPermission, Inv, WellShaped
      <3>4. Inserted = 0 /\ Inserted' = 0 /\ applied' \in 0 .. 8 /\ ~(applied' > 2)
        BY <1>1, <2>1, <2>2, <3>2 DEF GrantPermission, Applied, Inserted, Shape
      <3>5. marks' = marks /\ verdict' = "open"
        BY <2>1, <3>2 DEF GrantPermission, Applied
      <3>6. Layered => Layered'
        BY <1>1, <3>3, <3>4, <3>5 DEF Layered, Old, Step, Patch, Body
      <3> QED BY <1>1, <3>3, <3>4, <3>5, <3>6 DEF Shape
    <2>3. CASE applied >= 2
      <3> DEFINE k == applied - 1
      <3>1. k \in 1 .. 6 /\ k + 2 = applied + 1 /\ applied \in 2 .. 7
        BY <1>1, <2>1, <2>3 DEF Shape
      <3>2. op.op = "insert" /\ op.fn = Main /\ op.pc = k /\ op.instr = Step(k)
        BY <2>1, <3>1, PatchWritten DEF Step
      <3>3. Insert(op)
        BY <1>6, <3>2 DEF ApplyPatchOp, Replace, GrantPermission, DefineFunction, SetAcceptance
      <3>4. CASE ~MayInsert(op)
        BY <1>2, <2>1, <3>3, <3>4 DEF Insert, Refuse
      <3>5. CASE MayInsert(op)
        <4>1. /\ SetBody(Main, Seqs!InsertAt(Body(Main), op.pc, op.instr))
              /\ marks' = [marks EXCEPT ![Main] = InsertMark(marks[Main], op.pc, op.instr)]
              /\ applied' = applied + 1 /\ verdict' = "open"
          BY <2>1, <3>2, <3>3, <3>5 DEF Insert, Applied, Body
        <4>2. Main \in DOMAIN program.functions /\ Main \in DOMAIN base.functions /\ Layered
          BY <1>1, <3>2, <3>5 DEF MayInsert, Shape
        <4>3. IsInstr(op.instr)
          BY <3>2, OpsWellFormed DEF IsOp
        <4>4. Layered'
          BY <1>1, <3>1, <3>2, <4>1, <4>2, <4>3, LayeredInsert
        <4>5. IsBody(Body(Main)) /\ op.pc \in 1 .. Len(Body(Main)) + 1
          BY <3>2, <3>5, <4>2 DEF Inv, WellShaped, IsFunction, Body, MayInsert
        <4>6. DOMAIN program'.functions = DOMAIN program.functions
          BY <4>1, <4>2, <4>3, <4>5, InsertedBody, ReplacedBody DEF SetBody, Inv
        <4>7. Straight'
          <5>1. CASE applied > 2
            BY <1>1, <5>1 DEF Shape, Straight, Old
          <5>2. CASE applied = 2 /\ Main \in FunctionsWithControlFlow(base)
            <6>1. ~ShiftsTarget(Body(Main), 1)
              BY <3>2, <3>5, <5>2 DEF MayInsert, Body
            <6>2. DOMAIN Old \subseteq DOMAIN Body(Main) /\ \A pc \in DOMAIN Old : Body(Main)[pc] = Old[pc]
              <7>1. Inserted = 0
                BY <5>2 DEF Inserted
              <7>2. DOMAIN Body(Main) = 1 .. Len(Body(Main))
                BY <4>3, <4>5, InsertedBody
              <7> QED BY <4>2, <7>1, <7>2 DEF Layered
            <6>3. Straight
              BY <6>1, <6>2 DEF Straight, ShiftsTarget
            <6> QED BY <1>1, <6>3 DEF Straight, Old
          <5>3. CASE Main \notin FunctionsWithControlFlow(base)
            <6>1. \A pc \in DOMAIN Old : Targets(Old[pc]) = <<>>
              BY <4>2, <5>3 DEF FunctionsWithControlFlow, IsControlFlow, Targets, Old
            <6>2. Straight
              BY <6>1 DEF Straight
            <6> QED BY <1>1, <6>2 DEF Straight, Old
          <5> QED BY <3>1, <5>1, <5>2, <5>3
        <4> QED BY <1>1, <3>1, <4>1, <4>2, <4>4, <4>6, <4>7 DEF Shape
      <3> QED BY <3>4, <3>5
    <2> QED BY <1>1, <2>2, <2>3 DEF Shape
  <1> QED BY <1>3, <1>4, <1>5, <1>6 DEF Next

(* Once accepted, that shape leads back as SemanticFallsBack says.         *)
LEMMA ShapeFallsBack == Inv /\ Shape => SemanticFallsBack
  <1> SUFFICES ASSUME Inv, Shape, verdict = "accepted", author = "semantic"
               PROVE  LET slot(pc) == marks[Main][pc].slot
                          IsOld(pc) == slot(pc) \in DOMAIN Old
                      IN \A pc \in DOMAIN Body(Main) :
                           IF IsOld(pc)
                           THEN {slot(q) : q \in Successors(Body(Main), pc)} = Successors(Old, slot(pc))
                           ELSE \A q \in Successors(Body(Main), pc) : IsOld(q) => slot(q) = 1
    BY DEF SemanticFallsBack, Old
  <1> DEFINE slot(pc) == marks[Main][pc].slot
             L == Len(Old)
             b == Body(Main)
  <1>1. Inserted = 6 /\ Layered /\ ValidProgram(program) /\ Main \in DOMAIN program.functions
    BY DEF Shape, Inserted
  <1>2. /\ L \in Nat /\ DOMAIN Old = 1 .. L /\ Len(b) = L + 6
        /\ \A pc \in 1 .. 6 : b[pc] = Step(pc) /\ slot(pc) > L
        /\ \A pc \in 1 .. L : b[pc + 6] = Old[pc] /\ slot(pc + 6) = pc
    BY <1>1 DEF Layered
  <1>3. DOMAIN b = 1 .. L + 6
    <2>1. IsBody(b)
      BY <1>1 DEF Inv, WellShaped, IsFunction, Body
    <2> DEFINE S == {b[q] : q \in DOMAIN b}
    <2>2. b \in Seq(S)
      BY <2>1 DEF IsBody
    <2> HIDE DEF S, b
    <2> QED BY <1>2, <2>2
  <1>4. \A pc \in DOMAIN b : b[pc].op = "branch" => b[pc].then \in DOMAIN b /\ b[pc].then > pc
                                                  /\ b[pc].else \in DOMAIN b /\ b[pc].else > pc
    BY <1>1 DEF ValidProgram, Valid, ValidFunction, ShapeOK, ForwardTarget, Body
  <1>5. \A pc \in DOMAIN b : b[pc].op = "jump" => b[pc].target \in DOMAIN b /\ b[pc].target > pc
    BY <1>1 DEF ValidProgram, Valid, ValidFunction, ShapeOK, ForwardTarget, Body
  <1>6. Straight
    BY DEF Shape
  <1>7. \A pc \in 1 .. L : Old[pc].op # "branch" /\ Old[pc].op # "jump"
    <2> SUFFICES ASSUME NEW pc \in 1 .. L PROVE Old[pc].op # "branch" /\ Old[pc].op # "jump"
      OBVIOUS
    <2>1. pc + 6 \in DOMAIN b /\ b[pc + 6] = Old[pc]
      BY <1>2, <1>3
    <2> DEFINE instr == Old[pc]
    <2>2. CASE instr.op = "branch"
      <3>1. Targets(instr) = <<instr.then, instr.else>>
        BY <2>2 DEF Targets
      <3>2. instr.then >= 1
        BY <1>2, <1>3, <1>4, <2>1, <2>2
      <3>3. ~(Targets(instr)[1] >= 1)
        BY <1>2, <1>6, <3>1 DEF Straight
      <3> QED BY <3>1, <3>2, <3>3
    <2>3. CASE instr.op = "jump"
      <3>1. Targets(instr) = <<instr.target>>
        BY <2>3 DEF Targets
      <3>2. instr.target >= 1
        BY <1>2, <1>3, <1>5, <2>1, <2>3
      <3>3. ~(Targets(instr)[1] >= 1)
        BY <1>2, <1>6, <3>1 DEF Straight
      <3> QED BY <3>1, <3>2, <3>3
    <2> QED BY <2>2, <2>3
  <1>8. ASSUME NEW pc \in DOMAIN b, slot(pc) \in DOMAIN Old
        PROVE  {slot(q) : q \in Successors(b, pc)} = Successors(Old, slot(pc))
    <2> DEFINE p == slot(pc)
    <2>1. p \in 1 .. L /\ pc = p + 6 /\ b[pc] = Old[p]
      <3>1. pc \notin 1 .. 6
        BY <1>2, <1>8
      <3>2. pc - 6 \in 1 .. L /\ (pc - 6) + 6 = pc
        BY <1>2, <1>3, <3>1
      <3> HIDE DEF b
      <3> QED BY <1>2, <3>2
    <2>2. CASE Old[p].op = "return"
      BY <2>1, <2>2 DEF Successors
    <2>3. CASE Old[p].op # "return"
      <3>1. Successors(Old, p) = {p + 1} \cap DOMAIN Old
        BY <1>7, <2>1, <2>3 DEF Successors
      <3>2. Successors(b, pc) = {pc + 1} \cap DOMAIN b
        BY <1>7, <2>1, <2>3 DEF Successors
      <3>3. CASE p = L
        <4>1. Successors(Old, p) = {} /\ Successors(b, pc) = {}
          BY <1>2, <1>3, <2>1, <3>1, <3>2, <3>3
        <4> QED BY <4>1
      <3>4. CASE p # L
        <4>1. p + 1 \in 1 .. L /\ pc + 1 = (p + 1) + 6 /\ pc + 1 \in DOMAIN b
          <5> HIDE DEF p, L, b
          <5> QED BY <1>2, <1>3, <2>1, <3>4
        <4>2. slot(pc + 1) = p + 1
          BY <1>2, <4>1
        <4>3. Successors(Old, p) = {p + 1} /\ Successors(b, pc) = {pc + 1}
          BY <1>2, <3>1, <3>2, <4>1
        <4> QED BY <4>2, <4>3
      <3> QED BY <3>3, <3>4
    <2> QED BY <2>2, <2>3
  <1>9. ASSUME NEW pc \in DOMAIN b, slot(pc) \notin DOMAIN Old,
               NEW q \in Successors(b, pc), slot(q) \in DOMAIN Old
        PROVE  slot(q) = 1
    <2>1. pc \in 1 .. 6 /\ b[pc] = Step(pc)
      <3>1. ASSUME pc \notin 1 .. 6 PROVE FALSE
        <4>1. pc - 6 \in 1 .. L /\ (pc - 6) + 6 = pc
          BY <1>2, <1>3, <3>1
        <4> HIDE DEF b
        <4>2. slot(pc) = pc - 6
          BY <1>2, <4>1
        <4> QED BY <1>2, <1>9, <4>1, <4>2
      <3> QED BY <1>2, <3>1
    <2>2. q = 7 \/ q \in 1 .. 6
      <3>1. CASE pc = 2
        <4>1. Successors(b, pc) = {3, 7}
          BY <2>1, <3>1, StepsWritten DEF Successors, Branch
        <4> QED BY <1>9, <4>1
      <3>2. CASE pc = 4
        <4>1. Successors(b, pc) = {5, 7}
          BY <2>1, <3>2, StepsWritten DEF Successors, Branch
        <4> QED BY <1>9, <4>1
      <3>3. CASE pc = 6
        BY <1>9, <2>1, <3>3, StepsWritten DEF Successors
      <3>4. CASE pc \in {1, 3, 5}
        <4>1. Successors(b, pc) \subseteq {pc + 1}
          BY <2>1, <3>4, StepsWritten DEF Successors
        <4> QED BY <1>9, <3>4, <4>1
      <3> QED BY <2>1, <3>1, <3>2, <3>3, <3>4
    <2>3. q \notin 1 .. 6
      BY <1>2, <1>9
    <2>4. q = 1 + 6 /\ slot(q) \in 1 .. L /\ 1 \in 1 .. L
      BY <1>2, <1>9, <2>2, <2>3
    <2> QED BY <1>2, <2>4
  <1> QED BY <1>8, <1>9

(* runner.rs 2961, for every base program: the accepted semantic patch     *)
(* enters the base program at its first instruction only, and leaves every *)
(* edge of the base as it was.                                             *)
THEOREM SemanticPatchFallsBack == Spec => []SemanticFallsBack
  <1> QED BY InitInv, StepInv, ShapeInit, ShapeStep, ShapeFallsBack, PTL DEF Spec

-----------------------------------------------------------------------------
(* The fast path.                                                          *)
allVars == <<vars, fastVars>>

(* Where the patched main stands, and what it knows by then.               *)
AtStep ==
  /\ at \in 1 .. 7
  /\ at = 1 => match = None /\ ~passed
  /\ at \in {5, 6} => passed
  /\ passed => Passes(plan, match, event)
  /\ at = 6 => event.id # Absent

RunInv ==
  /\ Inv /\ Shape
  /\ stage \in {"plan", "patch", "run", "answered", "refused"}
  /\ author = "semantic" /\ stage # "plan" /\ stage # "refused" => ValidPlan(plan)
  /\ stage \in {"run", "answered"} => author = "semantic" /\ verdict = "accepted"
  /\ stage \in {"plan", "patch"} => ~passed /\ match = None
  /\ stage = "run" => AtStep
  /\ stage # "answered" => answer = None
  /\ HardNegativesFallBack /\ FastKindIsProfiled /\ MissesRunBase

(* Main as the fast path finds it.                                         *)
LEMMA PatchedMain ==
  ASSUME Inv, Shape, author = "semantic", verdict = "accepted"
  PROVE  /\ \A pc \in 1 .. 6 : program.functions[Main].body[pc] = Step(pc) /\ ~FromBase(pc)
         /\ FromBase(7) /\ marks[Main][7].slot = 1
  <1> DEFINE L == Len(Old)
             b == Body(Main)
  <1>1. Inserted = 6 /\ Layered /\ ValidProgram(program) /\ Main \in DOMAIN program.functions
    BY DEF Shape, Inserted
  <1>2. /\ L \in Nat /\ DOMAIN Old = 1 .. L /\ Len(b) = L + 6
        /\ \A pc \in 1 .. 6 : b[pc] = Step(pc) /\ marks[Main][pc].slot > L
        /\ \A pc \in 1 .. L : b[pc + 6] = Old[pc] /\ marks[Main][pc + 6].slot = pc
    BY <1>1 DEF Layered
  <1>3. 2 \in DOMAIN b /\ DOMAIN b = 1 .. L + 6
    <2>1. IsBody(b)
      BY <1>1 DEF Inv, WellShaped, IsFunction, Body
    <2> DEFINE S == {b[q] : q \in DOMAIN b}
    <2>2. b \in Seq(S)
      BY <2>1 DEF IsBody
    <2> HIDE DEF S, b
    <2> QED BY <1>2, <2>2
  <1>4. b[2].op = "branch" /\ b[2].else = 7
    BY <1>2, StepsWritten DEF Branch
  <1>5. 7 \in DOMAIN b
    BY <1>1, <1>3, <1>4 DEF ValidProgram, Valid, ValidFunction, ShapeOK, ForwardTarget, Body
  <1>6. 1 \in 1 .. L /\ marks[Main][1 + 6].slot = 1
    <2> HIDE DEF b, L
    <2> QED BY <1>2, <1>3, <1>5
  <1>7. \A pc \in 1 .. 6 : ~FromBase(pc)
    <2> HIDE DEF b, L
    <2>1. \A pc \in 1 .. 6 : marks[Main][pc].slot \notin DOMAIN Old
      BY <1>2
    <2> QED BY <2>1 DEF FromBase, Old
  <1>8. FromBase(7) /\ marks[Main][7].slot = 1
    BY <1>2, <1>6 DEF FromBase, Old
  <1> QED BY <1>2, <1>7, <1>8 DEF Body

(* A match that passes names a rule of the plan, with its kind, and no     *)
(* guard of that rule matches the text.                                    *)
LEMMA PassedMatch ==
  ASSUME NEW p, ValidPlan(p), NEW m, NEW e, Passes(p, m, e)
  PROVE  /\ \A n \in Negatives : n.text = e.text => m.rule \notin n.related
         /\ m.kind # "needs_review"
         /\ \E i \in DOMAIN Profile :
              m.rule = RuleId(Profile[i].cluster) /\ m.kind = OutputKind(Profile[i].kind)
  <1>1. PICK r \in p.rules : m.rule = r.id
    BY DEF Passes, Slotted, RuleIds
  <1>2. m.kind = r.kind /\ RuleFitsEvidence(r)
    BY <1>1 DEF Passes, KindMatchesRule, ValidPlan, RulesFitEvidence
  <1>3. PICK j \in DOMAIN Profile :
          /\ CanFastPath(Profile[j].kind) /\ r.id = RuleId(Profile[j].cluster)
          /\ r.kind = OutputKind(Profile[j].kind)
    BY <1>2 DEF RuleFitsEvidence, Eligible, Evidence
  <1>5. m.kind # "needs_review"
    BY <1>2, <1>3 DEF CanFastPath, OutputKind
  <1>6. ASSUME NEW n \in Negatives, n.text = e.text PROVE m.rule \notin n.related
    <2>1. e.text # Absent
      BY DEF Passes, Slotted
    <2>2. ASSUME m.rule \in n.related PROVE FALSE
      <3>1. PICK g \in p.guards : g.rule = m.rule /\ n.text \in g.pattern
        BY <1>6, <2>1, <2>2 DEF ValidPlan, NegativeIsGuarded
      <3> QED BY <1>6, <2>1, <3>1 DEF Passes, OutsideGuard
    <2> QED BY <2>2
  <1>7. \E i \in DOMAIN Profile :
          m.rule = RuleId(Profile[i].cluster) /\ m.kind = OutputKind(Profile[i].kind)
    BY <1>1, <1>2, <1>3
  <1> QED BY <1>5, <1>6, <1>7

(* What an instruction does tells which of the inserted ones it is.        *)
LEMMA WhichStep ==
  ASSUME NEW pc \in 1 .. 6
  PROVE  /\ Step(pc).op = "branch" => pc \in {2, 4}
         /\ Step(pc).op = "return" => pc = 6
         /\ Step(pc).op = "perform" =>
              /\ Step(pc).out = "semantic_match" => pc = 1
              /\ Step(pc).out = "semantic_validation" => pc = 3
              /\ Step(pc).out = "fast_action" => pc = 5
  <1>1. Step(2).op = "branch" /\ Step(4).op = "branch"
    BY StepsWritten DEF Branch
  <1>2. pc = 1 \/ pc = 2 \/ pc = 3 \/ pc = 4 \/ pc = 5 \/ pc = 6
    OBVIOUS
  <1> HIDE DEF Step
  <1> QED BY <1>1, <1>2, StepsWritten

-----------------------------------------------------------------------------
LEMMA RunInit == FastInit => RunInv
  <1> SUFFICES ASSUME FastInit PROVE RunInv
    OBVIOUS
  <1>1. Inv /\ Shape
    BY InitInv, ShapeInit DEF FastInit
  <1> QED BY <1>1 DEF FastInit, RunInv, None, HardNegativesFallBack, FastKindIsProfiled,
                      MissesRunBase, Fast

(* Neither what patching knows nor what is known of the program changes    *)
(* while events are answered.                                              *)
LEMMA StillPatched ==
  ASSUME RunInv, UNCHANGED vars
  PROVE  Inv' /\ Shape'
  BY StepInv, ShapeStep DEF RunInv

(* An unanswered event breaks no promise.                                  *)
LEMMA UnansweredKeeps ==
  ASSUME RunInv, answer' = answer, stage # "answered"
  PROVE  (HardNegativesFallBack /\ FastKindIsProfiled /\ MissesRunBase)'
  BY DEF RunInv, None, HardNegativesFallBack, FastKindIsProfiled, MissesRunBase, Fast

(* A move inside the patched main.                                         *)
LEMMA MoveKeeps ==
  ASSUME RunInv, stage = "run", UNCHANGED <<vars, plan, stage, event, answer>>, AtStep'
  PROVE  RunInv'
  BY StillPatched, UnansweredKeeps DEF RunInv, vars, ValidPlan, RulesFitEvidence, GuardsCompile,
     NegativeIsGuarded

(* An answer.                                                              *)
LEMMA AnswerKeeps ==
  ASSUME RunInv, stage = "run", NEW a, Answered(a),
         (HardNegativesFallBack /\ FastKindIsProfiled /\ MissesRunBase)'
  PROVE  RunInv'
  BY StillPatched DEF RunInv, vars, Answered

(* The validators read the plan, the match and the event only.             *)
LEMMA PassesStill ==
  ASSUME UNCHANGED <<plan, match, event>>, Passes(plan, match, event)
  PROVE  Passes(plan, match, event)'
  BY DEF Passes, Slotted, RuleIds, KindMatchesRule, OutsideGuard

LEMMA RunStep == RunInv /\ [FastNext]_allVars => RunInv'
  <1> SUFFICES ASSUME RunInv, [FastNext]_allVars PROVE RunInv'
    OBVIOUS
  <1>1. ASSUME stage = "run"
        PROVE  /\ author = "semantic" /\ verdict = "accepted" /\ AtStep /\ ValidPlan(plan)
               /\ \A pc \in 1 .. 6 : program.functions[Main].body[pc] = Step(pc) /\ ~FromBase(pc)
               /\ FromBase(7) /\ marks[Main][7].slot = 1
    BY <1>1, PatchedMain DEF RunInv
  <1>2. ASSUME Running
        PROVE  /\ stage = "run" /\ at \in 1 .. 6 /\ Here = Step(at)
               /\ Here.op = "branch" => at \in {2, 4}
               /\ Here.op = "return" => at = 6
               /\ Here.op = "perform" =>
                    /\ Here.out = "semantic_match" => at = 1
                    /\ Here.out = "semantic_validation" => at = 3
                    /\ Here.out = "fast_action" => at = 5
    <2>1. stage = "run" /\ at \in 1 .. 6
      BY <1>1, <1>2 DEF Running, AtStep
    <2>2. Here = Step(at)
      BY <1>1, <2>1 DEF Here
    <2> QED BY <2>1, <2>2, WhichStep
  <1>3. ASSUME NEW p \in Plans, ReturnPlan(p) PROVE RunInv'
    <2>1. plan' = p /\ stage' \in {"patch", "refused"} /\ (stage' = "patch" => ValidPlan(p))
      BY <1>3 DEF ReturnPlan
    <2>2. stage' = "patch" => ValidPlan(plan)'
      BY <2>1 DEF ValidPlan, RulesFitEvidence, GuardsCompile, NegativeIsGuarded, RuleIds, Guarded
    <2> QED BY <1>3, <2>1, <2>2, StillPatched, UnansweredKeeps DEF ReturnPlan, RunInv, vars
  <1>4. CASE PatchStep
    <2>1. Inv' /\ Shape'
      BY <1>4, StepInv, ShapeStep DEF PatchStep, RunInv
    <2>2. author' = author
      BY <1>4 DEF PatchStep, Next, CheckHeader, ApplyPatchOp, Conclude, Refuse, Applied,
                  GrantPermission, Replace, Insert, DefineFunction, SetAcceptance
    <2> QED BY <1>4, <2>1, <2>2, UnansweredKeeps DEF PatchStep, RunInv, fastVars
  <1>5. ASSUME NEW e \in Events, StartEvent(e) PROVE RunInv'
    <2>1. AtStep'
      BY <1>5 DEF StartEvent, AtStep, RunInv
    <2> QED BY <1>5, <2>1, StillPatched, UnansweredKeeps DEF StartEvent, RunInv, vars
  <1>6. ASSUME NEW m \in Matches, AskMatcher(m) PROVE RunInv'
    <2>1. stage = "run" /\ at = 1
      BY <1>2, <1>6 DEF AskMatcher, Performs
    <2>2. AtStep'
      BY <1>1, <1>6, <2>1 DEF AskMatcher, AtStep
    <2> QED BY <1>6, <2>1, <2>2, MoveKeeps DEF AskMatcher
  <1>7. CASE MatcherFails
    <2>1. stage = "run" /\ at = 1
      BY <1>2, <1>7 DEF MatcherFails, Performs
    <2>2. (HardNegativesFallBack /\ FastKindIsProfiled /\ MissesRunBase)'
      BY <1>1, <1>7, <2>1 DEF MatcherFails, Answered, AtStep, HardNegativesFallBack,
         FastKindIsProfiled, MissesRunBase, Fast
    <2> QED BY <1>7, <2>1, <2>2, AnswerKeeps DEF MatcherFails
  <1>8. CASE TakeBranch
    <2>1. stage = "run" /\ at \in {2, 4} /\ Here = Step(at)
      BY <1>2, <1>8 DEF TakeBranch
    <2>2. CASE at = 2
      <3>1. at' \in {3, 7}
        BY <1>8, <2>1, <2>2, StepsWritten DEF TakeBranch, Branch
      <3>2. AtStep'
        BY <1>1, <1>8, <2>1, <3>1 DEF TakeBranch, AtStep
      <3> QED BY <1>8, <2>1, <3>2, MoveKeeps DEF TakeBranch
    <2>3. CASE at = 4
      <3>1. at' = IF passed THEN 5 ELSE 7
        BY <1>8, <2>1, <2>3, StepsWritten DEF TakeBranch, Branch, FieldTest, Holds
      <3>2. AtStep'
        BY <1>1, <1>8, <2>1, <3>1 DEF TakeBranch, AtStep
      <3> QED BY <1>8, <2>1, <3>2, MoveKeeps DEF TakeBranch
    <2> QED BY <2>1, <2>2, <2>3
  <1>9. CASE ApplyValidators
    <2>1. stage = "run" /\ at = 3
      BY <1>2, <1>9 DEF ApplyValidators, Performs
    <2>2. AtStep'
      <3>1. passed' => Passes(plan, match, event)
        BY <1>9 DEF ApplyValidators
      <3>2. passed' => Passes(plan, match, event)'
        BY <1>9, <3>1, PassesStill DEF ApplyValidators
      <3>3. at' = 4
        BY <1>9, <2>1 DEF ApplyValidators
      <3> QED BY <3>2, <3>3 DEF AtStep
    <2> QED BY <1>9, <2>1, <2>2, MoveKeeps DEF ApplyValidators
  <1>10. CASE EmitTemplate
    <2>1. stage = "run" /\ at = 5
      BY <1>2, <1>10 DEF EmitTemplate, Performs
    <2>2. AtStep'
      BY <1>1, <1>10, <2>1, PassesStill DEF EmitTemplate, AtStep
    <2> QED BY <1>10, <2>1, <2>2, MoveKeeps DEF EmitTemplate
  <1>11. CASE EmitFails
    <2>1. stage = "run" /\ at = 5
      BY <1>2, <1>11 DEF EmitFails, Performs
    <2>2. (HardNegativesFallBack /\ FastKindIsProfiled /\ MissesRunBase)'
      BY <1>1, <1>11, <2>1 DEF EmitFails, Answered, AtStep, HardNegativesFallBack,
         FastKindIsProfiled, MissesRunBase, Fast
    <2> QED BY <1>11, <2>1, <2>2, AnswerKeeps DEF EmitFails
  <1>12. CASE ReturnFastAction
    <2>1. stage = "run" /\ at = 6
      BY <1>2, <1>12 DEF ReturnFastAction
    <2> DEFINE a == [by |-> "fast", id |-> event.id, rule |-> match.rule, kind |-> match.kind]
    <2>2. Answered(a) /\ event' = event /\ match' = match
      BY <1>12 DEF ReturnFastAction, Answered
    <2>3. Passes(plan, match, event) /\ event.id # Absent /\ ValidPlan(plan)
      BY <1>1, <2>1 DEF AtStep
    <2>4. /\ \A n \in Negatives : n.text = event.text => match.rule \notin n.related
          /\ match.kind # "needs_review"
          /\ \E i \in DOMAIN Profile :
               match.rule = RuleId(Profile[i].cluster) /\ match.kind = OutputKind(Profile[i].kind)
      BY <2>3, PassedMatch
    <2>5. answer' = a /\ a.by = "fast" /\ a.id = event.id /\ a.rule = match.rule /\ a.kind = match.kind
      BY <2>2 DEF Answered
    <2>6. HardNegativesFallBack'
      BY <2>2, <2>4, <2>5 DEF HardNegativesFallBack
    <2>7. FastKindIsProfiled'
      BY <2>2, <2>3, <2>4, <2>5 DEF FastKindIsProfiled
    <2>8. MissesRunBase'
      BY <2>5 DEF MissesRunBase
    <2> QED BY <2>1, <2>2, <2>6, <2>7, <2>8, AnswerKeeps
  <1>13. CASE BaseAnswers
    <2>1. stage = "run" /\ at = 7
      BY <1>1, <1>13 DEF BaseAnswers, AtStep
    <2>2. (HardNegativesFallBack /\ FastKindIsProfiled /\ MissesRunBase)'
      BY <1>1, <1>13, <2>1 DEF BaseAnswers, Answered, HardNegativesFallBack, FastKindIsProfiled,
         MissesRunBase, Fast
    <2> QED BY <1>13, <2>1, <2>2, AnswerKeeps DEF BaseAnswers
  <1>14. CASE UNCHANGED allVars
    <2>1. Inv' /\ Shape'
      BY <1>14, StillPatched DEF allVars
    <2> QED BY <1>14, <2>1 DEF allVars, vars, fastVars, RunInv, AtStep, HardNegativesFallBack,
               FastKindIsProfiled, MissesRunBase, Fast, ValidPlan, RulesFitEvidence, GuardsCompile,
               NegativeIsGuarded
  <1> QED BY <1>3, <1>4, <1>5, <1>6, <1>7, <1>8, <1>9, <1>10, <1>11, <1>12, <1>13, <1>14
          DEF FastNext

(* runner.rs 1345, for every base program, evidence, plan and weak model:  *)
(* no fast answer with a rule a hard negative of that text was against.    *)
THEOREM HardNegativesNeverFast == FastSpec => []HardNegativesFallBack
  <1>1. RunInv => HardNegativesFallBack
    BY DEF RunInv
  <1> QED BY <1>1, RunInit, RunStep, PTL DEF FastSpec, allVars

(* runner.rs 1044, for the same: a fast answer has a kind that             *)
(* profile_train gives the cluster of its rule.                            *)
THEOREM FastAnswersAreProfiled == FastSpec => []FastKindIsProfiled
  <1>1. RunInv => FastKindIsProfiled
    BY DEF RunInv
  <1> QED BY <1>1, RunInit, RunStep, PTL DEF FastSpec, allVars

(* runner.rs 3040, for the same: what the fast path does not answer, the   *)
(* base program answers from its first instruction.                        *)
THEOREM MissesReachTheBase == FastSpec => []MissesRunBase
  <1>1. RunInv => MissesRunBase
    BY DEF RunInv
  <1> QED BY <1>1, RunInit, RunStep, PTL DEF FastSpec, allVars
=============================================================================
