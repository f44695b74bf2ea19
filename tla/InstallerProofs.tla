--------------------------- MODULE InstallerProofs ---------------------------
(***************************************************************************)
(* For any bases, patches and number of commands, each stopped or failing  *)
(* at any file operation: the registry's files are a history that only     *)
(* grows, and its versions and records tell the truth.                     *)
(*                                                                         *)
(* A command writes several files one after the other, and may stop before *)
(* each.  So the argument is about the disks that the queue of operations  *)
(* leads through: Leads collects the steps from disk to disk, Safe says    *)
(* each of these finds the registry whole and moves its history as         *)
(* ProgramHistory allows, and the last disk is one on which the job may    *)
(* go on.                                                                  *)
(***************************************************************************)
EXTENDS PatchInstaller, SequenceTheorems, FiniteSetTheorems, TLAPS

-----------------------------------------------------------------------------
(* The disks a queue of file operations leads through.                     *)

PutIn(d, path, content) ==
  [q \in DOMAIN d \cup {path} |-> IF q = path THEN content ELSE d[q]]

Half(d, o) == PutIn(d, o.path, Torn)
Done(d, o) ==
  CASE o.op \in {"write", "fill"} -> PutIn(d, o.path, o.content)
    [] o.op = "mkdir"  -> PutIn(d, o.path, "directory")
    [] o.op = "append" -> PutIn(d, o.path, IF o.path \in DOMAIN d
                                           THEN Append(d[o.path], o.content) ELSE <<o.content>>)
    [] o.op = "remove" -> [q \in DOMAIN d \ {o.path} |-> d[q]]

IsWrite(o) == o = [op |-> o.op, path |-> o.path, content |-> o.content]

(* The operation o leads from d to e in steps of the set edges.            *)
Operations == {"write", "fill", "mkdir", "append", "remove"}

Performs(d, o, e, edges) ==
  /\ o.op \in Operations
  /\ o.op = "write" => IsWrite(o)
  /\ e = Done(d, o)
  /\ IF o.op = "write" THEN <<d, Half(d, o)>> \in edges /\ <<Half(d, o), e>> \in edges
     ELSE <<d, e>> \in edges

Through(plan, queue, edges) ==
  \A i \in 1 .. Len(queue) : Performs(plan[i], queue[i], plan[i + 1], edges)

Leads(d, queue, e, edges) ==
  /\ \E S : queue \in Seq(S)
  /\ \E plan : plan[1] = d /\ plan[Len(queue) + 1] = e /\ Through(plan, queue, edges)

LEMMA PutInFacts ==
  ASSUME NEW d, NEW path, NEW content
  PROVE  /\ DOMAIN PutIn(d, path, content) = DOMAIN d \cup {path}
         /\ PutIn(d, path, content)[path] = content
         /\ \A q \in DOMAIN d : q # path => PutIn(d, path, content)[q] = d[q]
  BY DEF PutIn

LEMMA PutInTwice ==
  ASSUME NEW d, NEW path, NEW c1, NEW c2
  PROVE  PutIn(PutIn(d, path, c1), path, c2) = PutIn(d, path, c2)
  BY DEF PutIn

LEMMA WriteOperation ==
  ASSUME NEW path, NEW content
  PROVE  LET o == Write(path, content)
         IN o.op = "write" /\ o.path = path /\ o.content = content /\ IsWrite(o)
  BY DEF Write, IsWrite

LEMMA LeadsNowhere ==
  ASSUME NEW d, NEW edges
  PROVE  Leads(d, <<>>, d, edges)
  <1> DEFINE plan == [i \in {1} |-> d]
  <1>1. plan[1] = d /\ Len(<<>>) + 1 = 1 /\ <<>> \in Seq({}) /\ 1 .. Len(<<>>) = {}
    OBVIOUS
  <1>2. Through(plan, <<>>, edges)
    BY <1>1 DEF Through
  <1> HIDE DEF plan
  <1> QED BY <1>1, <1>2 DEF Leads

LEMMA LeadsOver ==
  ASSUME NEW d, NEW o, NEW e, NEW edges, Performs(d, o, e, edges)
  PROVE  Leads(d, <<o>>, e, edges)
  <1> DEFINE plan == [i \in {1, 2} |-> IF i = 1 THEN d ELSE e]
             queue == <<o>>
  <1>1. plan[1] = d /\ plan[2] = e
    OBVIOUS
  <1>2. queue \in Seq({o}) /\ Len(queue) = 1 /\ queue[1] = o /\ 1 + 1 = 2 /\ 1 .. 1 = {1}
    OBVIOUS
  <1> HIDE DEF plan, queue
  <1>3. Through(plan, queue, edges)
    BY <1>1, <1>2 DEF Through
  <1>4. Leads(d, queue, e, edges)
    BY <1>1, <1>2, <1>3 DEF Leads
  <1> QED BY <1>4 DEF queue

LEMMA LeadsOn ==
  ASSUME NEW d, NEW p, NEW e, NEW q, NEW f, NEW edges,
         Leads(d, p, e, edges), Leads(e, q, f, edges)
  PROVE  Leads(d, p \o q, f, edges)
  <1>1. PICK S, T : p \in Seq(S) /\ q \in Seq(T)
    BY DEF Leads
  <1>2. p \in Seq(S \cup T) /\ q \in Seq(S \cup T)
    BY <1>1
  <1>3. PICK a : a[1] = d /\ a[Len(p) + 1] = e /\ Through(a, p, edges)
    BY DEF Leads
  <1>4. PICK b : b[1] = e /\ b[Len(q) + 1] = f /\ Through(b, q, edges)
    BY DEF Leads
  <1>5. PICK m \in Nat, n \in Nat : m = Len(p) /\ n = Len(q)
    BY <1>1
  <1> DEFINE r == p \o q
             c == [i \in 1 .. m + n + 1 |-> IF i <= m THEN a[i] ELSE b[i - m]]
  <1>6. r \in Seq(S \cup T) /\ Len(r) = m + n
    BY <1>2, <1>5
  <1>7. \A i \in 1 .. m + n : r[i] = IF i <= m THEN p[i] ELSE q[i - m]
    BY <1>2, <1>5
  <1>8. /\ \A i \in 1 .. m : c[i] = a[i]
        /\ \A i \in 1 .. n + 1 : c[i + m] = b[i]
    BY <1>5
  <1>9. c[m + 1] = e
    <2>1. 1 \in 1 .. n + 1 /\ 1 + m = m + 1
      BY <1>5
    <2> QED BY <1>4, <1>8, <2>1
  <1>10. c[1] = d /\ c[m + n + 1] = f
    <2>1. c[1] = d
      <3>1. CASE m = 0
        BY <1>3, <1>5, <1>9, <3>1
      <3>2. CASE m # 0
        BY <1>3, <1>5, <1>8, <3>2
      <3> QED BY <3>1, <3>2
    <2>2. n + 1 \in 1 .. n + 1 /\ (n + 1) + m = m + n + 1
      BY <1>5
    <2>3. c[m + n + 1] = b[n + 1]
      BY <1>8, <2>2
    <2> QED BY <1>4, <1>5, <2>1, <2>3
  <1>11. \A i \in 1 .. m : c[i + 1] = a[i + 1]
    <2> TAKE i \in 1 .. m
    <2>1. CASE i = m
      BY <1>3, <1>5, <1>9, <2>1
    <2>2. CASE i # m
      <3>1. i + 1 \in 1 .. m
        BY <1>5, <2>2
      <3> QED BY <1>8, <3>1
    <2> QED BY <2>1, <2>2
  <1> HIDE DEF c, r
  <1>12. ASSUME NEW i \in 1 .. m + n
         PROVE  Performs(c[i], r[i], c[i + 1], edges)
    <2>1. CASE i <= m
      <3>1. i \in 1 .. m
        BY <1>5, <2>1
      <3>2. Performs(a[i], p[i], a[i + 1], edges)
        BY <1>3, <1>5, <3>1 DEF Through
      <3>3. r[i] = p[i] /\ c[i] = a[i] /\ c[i + 1] = a[i + 1]
        BY <1>7, <1>8, <1>11, <2>1, <3>1
      <3> QED BY <3>2, <3>3
    <2>2. CASE ~(i <= m)
      <3>1. PICK k \in 1 .. n : i = k + m
        <4>1. i - m \in 1 .. n /\ i = (i - m) + m
          BY <1>5, <2>2
        <4> QED BY <4>1
      <3>2. Performs(b[k], q[k], b[k + 1], edges)
        BY <1>4, <1>5, <3>1 DEF Through
      <3>3. r[i] = q[k]
        <4>1. i - m = k
          BY <1>5, <3>1
        <4> QED BY <1>7, <2>2, <4>1
      <3>4. c[i] = b[k] /\ c[i + 1] = b[k + 1]
        <4>1. k \in 1 .. n + 1 /\ k + 1 \in 1 .. n + 1 /\ i + 1 = (k + 1) + m
          BY <1>5, <3>1
        <4> QED BY <1>8, <3>1, <4>1
      <3> QED BY <3>2, <3>3, <3>4
    <2> QED BY <2>1, <2>2
  <1>13. Through(c, r, edges)
    BY <1>6, <1>12 DEF Through
  <1>14. Leads(d, r, f, edges)
    BY <1>6, <1>10, <1>13 DEF Leads
  <1> QED BY <1>14 DEF r

LEMMA LeadsMore ==
  ASSUME NEW d, NEW q, NEW e, NEW edges, NEW more, edges \subseteq more, Leads(d, q, e, edges)
  PROVE  Leads(d, q, e, more)
  <1>1. ASSUME NEW a, NEW o, NEW b, Performs(a, o, b, edges) PROVE Performs(a, o, b, more)
    BY <1>1 DEF Performs
  <1>2. PICK plan : plan[1] = d /\ plan[Len(q) + 1] = e /\ Through(plan, q, edges)
    BY DEF Leads
  <1>3. Through(plan, q, more)
    BY <1>1, <1>2 DEF Through
  <1> QED BY <1>2, <1>3 DEF Leads

(* A file operation takes one of the steps, and the rest leads on.         *)
LEMMA LeadsAway ==
  ASSUME NEW e, NEW edges, Leads(disk, todo, e, edges), FileStep
  PROVE  <<disk, disk'>> \in edges /\ Leads(disk', todo', e, edges)
  <1>1. PICK S : todo \in Seq(S)
    BY DEF Leads
  <1>2. PICK plan : plan[1] = disk /\ plan[Len(todo) + 1] = e /\ Through(plan, todo, edges)
    BY DEF Leads
  <1>3. todo # <<>>
    BY DEF FileStep, Truncate, Fill, AppendToFile, Remove, MakeDirectory, Pending
  <1>4. PICK n \in Nat : n = Len(todo) /\ 1 \in 1 .. n /\ Head(todo) = todo[1]
    BY <1>1, <1>3
  <1> DEFINE o == todo[1]
  <1>5. Performs(disk, o, plan[2], edges)
    <2>1. 1 + 1 = 2
      OBVIOUS
    <2> QED BY <1>2, <1>4, <2>1 DEF Through
  <1>6. CASE Truncate
    <2>1. o.op = "write" /\ todo' = [todo EXCEPT ![1].op = "fill"] /\ disk' = Half(disk, o)
      BY <1>4, <1>6 DEF Truncate, Pending, Put, Half, PutIn
    <2> DEFINE w == [o EXCEPT !.op = "fill"]
               S2 == S \cup {w}
               more == [i \in 1 .. n + 1 |-> IF i = 1 THEN disk' ELSE plan[i]]
    <2>2. w.op = "fill" /\ w.path = o.path /\ w.content = o.content
      <3>1. IsWrite(o)
        BY <1>5, <2>1 DEF Performs
      <3> QED BY <3>1 DEF IsWrite
    <2>3. /\ todo' \in Seq(S2) /\ Len(todo') = n
          /\ todo'[1] = w /\ \A i \in 1 .. n : i # 1 => todo'[i] = todo[i]
      BY <1>1, <1>4, <2>1
    <2>4. Performs(disk', w, plan[2], edges)
      <3>1. plan[2] = PutIn(disk, o.path, o.content) /\ <<disk', plan[2]>> \in edges
        BY <1>5, <2>1 DEF Performs, Done
      <3>2. Done(disk', w) = PutIn(disk', o.path, o.content)
        BY <2>2 DEF Done
      <3>3. Done(disk', w) = plan[2]
        BY <2>1, <3>1, <3>2, PutInTwice DEF Half
      <3> QED BY <2>2, <3>1, <3>3 DEF Performs, Operations
    <2>5. /\ more[1] = disk' /\ \A i \in 1 .. n : more[i + 1] = plan[i + 1]
          /\ \A i \in 1 .. n : i # 1 => more[i] = plan[i]
      BY <1>4
    <2> HIDE DEF more, w
    <2>6. \A i \in 1 .. n : Performs(more[i], todo'[i], more[i + 1], edges)
      <3> TAKE i \in 1 .. n
      <3>1. CASE i = 1
        <4>1. more[i + 1] = plan[2]
          BY <2>5, <3>1
        <4> QED BY <2>3, <2>4, <2>5, <3>1, <4>1
      <3>2. CASE i # 1
        BY <1>2, <1>4, <2>3, <2>5, <3>2 DEF Through
      <3> QED BY <3>1, <3>2
    <2>7. more[n + 1] = e
      BY <1>2, <1>4, <2>5
    <2>8. <<disk, disk'>> \in edges
      BY <1>5, <2>1 DEF Performs
    <2>9. Through(more, todo', edges)
      BY <2>3, <2>6 DEF Through
    <2> QED BY <2>3, <2>5, <2>7, <2>8, <2>9 DEF Leads
  <1>7. CASE ~Truncate
    <2>1. /\ o.op \in {"fill", "append", "remove", "mkdir"} /\ todo' = Tail(todo)
          /\ disk' = Done(disk, o)
      <3>1. CASE Fill
        BY <1>4, <3>1 DEF Fill, Pending, Put, Done, PutIn
      <3>2. CASE AppendToFile
        BY <1>4, <3>2 DEF AppendToFile, Pending, Put, Done, PutIn, Exists
      <3>3. CASE Remove
        BY <1>4, <3>3 DEF Remove, Pending, Done
      <3>4. CASE MakeDirectory
        BY <1>4, <3>4 DEF MakeDirectory, Pending, Put, Done, PutIn
      <3> QED BY <1>7, <3>1, <3>2, <3>3, <3>4 DEF FileStep
    <2>2. disk' = plan[2] /\ <<disk, disk'>> \in edges
      BY <1>5, <2>1 DEF Performs
    <2> DEFINE more == [i \in 1 .. n |-> plan[i + 1]]
    <2>3. PICK m \in Nat : n = m + 1
      <3>1. n - 1 \in Nat /\ n = (n - 1) + 1
        BY <1>4
      <3> QED BY <3>1
    <2>4. /\ todo' \in Seq(S) /\ Len(todo') = m
          /\ \A i \in 1 .. m : i + 1 \in 1 .. n /\ todo'[i] = todo[i + 1]
      <3>1. Tail(todo) \in Seq(S) /\ Len(Tail(todo)) = Len(todo) - 1
            /\ \A i \in 1 .. Len(todo) - 1 : Tail(todo)[i] = todo[i + 1]
        BY <1>1, <1>3
      <3>2. Len(todo) - 1 = m
        BY <1>4, <2>3
      <3> QED BY <1>4, <2>1, <2>3, <3>1, <3>2
    <2>5. /\ more[1] = plan[2] /\ more[m + 1] = plan[n + 1]
          /\ \A i \in 1 .. m : more[i] = plan[i + 1] /\ more[i + 1] = plan[(i + 1) + 1]
      BY <1>4, <2>3
    <2> HIDE DEF more
    <2>6. \A i \in 1 .. m : Performs(more[i], todo'[i], more[i + 1], edges)
      <3> TAKE i \in 1 .. m
      <3>1. i + 1 \in 1 .. Len(todo)
        BY <1>4, <2>4
      <3>2. Performs(plan[i + 1], todo[i + 1], plan[(i + 1) + 1], edges)
        BY <1>2, <3>1 DEF Through
      <3> QED BY <2>4, <2>5, <3>2
    <2>7. Through(more, todo', edges)
      BY <2>4, <2>6 DEF Through
    <2>8. more[1] = disk' /\ more[Len(todo') + 1] = e
      BY <1>2, <1>4, <2>2, <2>4, <2>5
    <2> QED BY <2>2, <2>4, <2>7, <2>8 DEF Leads
  <1> QED BY <1>6, <1>7

(* A drained queue has led to its end; one that is not begins with a step. *)
LEMMA LeadsFrom ==
  ASSUME NEW d, NEW q, NEW e, NEW edges, Leads(d, q, e, edges)
  PROVE  /\ q = <<>> => e = d
         /\ q # <<>> => \E f : <<d, f>> \in edges
  <1>1. PICK S : q \in Seq(S)
    BY DEF Leads
  <1>2. PICK plan : plan[1] = d /\ plan[Len(q) + 1] = e /\ Through(plan, q, edges)
    BY DEF Leads
  <1>3. q = <<>> => e = d
    <2>1. Len(<<>>) + 1 = 1
      OBVIOUS
    <2> QED BY <1>2, <2>1
  <1>4. q # <<>> => 1 \in 1 .. Len(q)
    BY <1>1
  <1>5. q # <<>> => Performs(plan[1], q[1], plan[1 + 1], edges)
    BY <1>2, <1>4 DEF Through
  <1> QED BY <1>2, <1>3, <1>5 DEF Performs


-----------------------------------------------------------------------------
(* What a queue does not touch.                                            *)
LEMMA LeastNumber ==
  ASSUME NEW T, T \subseteq Nat, T # {}
  PROVE  \E m \in T : \A k \in T : m <= k
  <1> DEFINE R == {ss \in Nat \X Nat : ss[1] < ss[2]}
  <1>0. IsWellFoundedOn(R, Nat)
    BY NatLessThanWellFounded, Zenon DEF OpToRel
  <1>1. PICK m \in T : \A k \in T : ~(<<k, m>> \in R)
    <2> HIDE DEF R
    <2> QED BY <1>0, WFMin
  <1>2. \A k \in T : ~(k < m) /\ k \in Nat /\ m \in Nat
    BY <1>1
  <1> QED BY <1>1, <1>2

Agree(d, e, kinds) ==
  \A q : q[1] \in kinds => /\ q \in DOMAIN d <=> q \in DOMAIN e
                           /\ q \in DOMAIN d => e[q] = d[q]

Spares(queue, kinds) == \A i \in 1 .. Len(queue) : queue[i].path[1] \notin kinds

LEMMA PutInAgrees ==
  ASSUME NEW d, NEW path, NEW content, NEW kinds, path[1] \notin kinds
  PROVE  Agree(d, PutIn(d, path, content), kinds)
  BY DEF Agree, PutIn

LEMMA DoneAgrees ==
  ASSUME NEW d, NEW o, NEW kinds, o.path[1] \notin kinds, o.op \in Operations
  PROVE  Agree(d, Done(d, o), kinds) /\ Agree(d, Half(d, o), kinds)
  <1>1. o.op = "remove" => Agree(d, Done(d, o), kinds)
    <2>1. o.op = "remove" => Done(d, o) = [q \in DOMAIN d \ {o.path} |-> d[q]]
      BY DEF Done
    <2> QED BY <2>1 DEF Agree
  <1>2. o.op # "remove" => Agree(d, Done(d, o), kinds)
    <2>1. o.op # "remove" => \E content : Done(d, o) = PutIn(d, o.path, content)
      BY DEF Done, Operations
    <2> QED BY <2>1, PutInAgrees
  <1>3. Agree(d, Half(d, o), kinds)
    BY PutInAgrees DEF Half
  <1> QED BY <1>1, <1>2, <1>3

LEMMA AgreeFurther ==
  ASSUME NEW d, NEW e, NEW f, NEW kinds, Agree(d, e, kinds), Agree(e, f, kinds)
  PROVE  Agree(d, f, kinds)
  BY DEF Agree

LEMMA LeadsKeeps ==
  ASSUME NEW d, NEW queue, NEW e, NEW edges, NEW kinds,
         Leads(d, queue, e, edges), Spares(queue, kinds)
  PROVE  /\ Agree(d, e, kinds)
         /\ Leads(d, queue, e,
                  {p \in edges : Agree(d, p[1], kinds) /\ Agree(d, p[2], kinds)})
  <1>1. PICK S : queue \in Seq(S)
    BY DEF Leads
  <1>2. PICK plan : plan[1] = d /\ plan[Len(queue) + 1] = e /\ Through(plan, queue, edges)
    BY DEF Leads
  <1>3. PICK n \in Nat : n = Len(queue)
    BY <1>1
  <1> DEFINE T == {i \in 1 .. n + 1 : ~Agree(d, plan[i], kinds)}
             F == {p \in edges : Agree(d, p[1], kinds) /\ Agree(d, p[2], kinds)}
  <1>4. \A i \in 1 .. n : Performs(plan[i], queue[i], plan[i + 1], edges) /\ queue[i].path[1] \notin kinds
    BY <1>2, <1>3 DEF Through, Spares
  <1>5. \A i \in 1 .. n : /\ Agree(plan[i], plan[i + 1], kinds)
                          /\ Agree(plan[i], Half(plan[i], queue[i]), kinds)
    BY <1>4, DoneAgrees DEF Performs
  <1>6. T = {}
    <2> SUFFICES ASSUME T # {} PROVE FALSE
      OBVIOUS
    <2>1. PICK m \in T : \A k \in T : m <= k
      <3>1. T \subseteq Nat
        OBVIOUS
      <3> HIDE DEF T
      <3> QED BY <3>1, LeastNumber
    <2>2. m # 1
      BY <1>2, <2>1 DEF Agree
    <2>3. PICK k \in 1 .. n : m = k + 1
      <3>1. m - 1 \in 1 .. n /\ m = (m - 1) + 1
        BY <1>3, <2>1, <2>2
      <3> QED BY <3>1
    <2>4. k \notin T
      BY <1>3, <2>1, <2>3
    <2>5. Agree(d, plan[k], kinds)
      BY <1>3, <2>4
    <2>6. Agree(d, plan[k + 1], kinds)
      BY <1>5, <2>5, AgreeFurther
    <2> QED BY <2>1, <2>3, <2>6
  <1>7. \A i \in 1 .. n + 1 : Agree(d, plan[i], kinds)
    BY <1>6
  <1>8. ASSUME NEW i \in 1 .. n
        PROVE  Performs(plan[i], queue[i], plan[i + 1], F)
    <2>1. Agree(d, plan[i], kinds) /\ Agree(d, plan[i + 1], kinds)
      <3>1. i \in 1 .. n + 1 /\ i + 1 \in 1 .. n + 1
        BY <1>3
      <3> QED BY <1>7, <3>1
    <2>2. Agree(d, Half(plan[i], queue[i]), kinds)
      BY <1>5, <2>1, AgreeFurther
    <2> DEFINE a == plan[i]
               b == plan[i + 1]
               h == Half(plan[i], queue[i])
    <2>3. /\ <<a, b>> \in edges => <<a, b>> \in F
          /\ <<a, h>> \in edges => <<a, h>> \in F
          /\ <<h, b>> \in edges => <<h, b>> \in F
      <3> HIDE DEF a, b, h
      <3>1. Agree(d, a, kinds) /\ Agree(d, b, kinds) /\ Agree(d, h, kinds)
        BY <2>1, <2>2 DEF a, b, h
      <3> QED BY <3>1
    <2>4. Performs(a, queue[i], b, edges)
      BY <1>4
    <2> HIDE DEF a, b, F
    <2>5. Performs(a, queue[i], b, F)
      <3> HIDE DEF h
      <3>1. h = Half(a, queue[i])
        BY DEF h, a
      <3> QED BY <2>3, <2>4, <3>1 DEF Performs
    <2> QED BY <2>5 DEF a, b
  <1> HIDE DEF F, T
  <1>9. Through(plan, queue, F)
    BY <1>3, <1>8 DEF Through
  <1>10. Leads(d, queue, e, F)
    BY <1>1, <1>2, <1>9 DEF Leads
  <1>11. Agree(d, e, kinds)
    BY <1>2, <1>3, <1>7
  <1> QED BY <1>10, <1>11 DEF F

-----------------------------------------------------------------------------
(* The versions on a disk.                                                 *)
ReadableIn(d, path) == path \in DOMAIN d /\ d[path] # Torn

ListedIn(d) == {path[2] : path \in {q \in DOMAIN d : q[1] = "metadata"}}
WholeIn(d)  == {v \in ListedIn(d) : ReadableIn(d, MetadataFile(v))}

VersionIn(d, v) ==
  [program |-> IF ProgramFile(v) \in DOMAIN d THEN d[ProgramFile(v)] ELSE <<>>,
   parent  |-> d[MetadataFile(v)].parent,
   patch   |-> d[MetadataFile(v)].patch]
HistoryIn(d) == [v \in 1 .. Cardinality(WholeIn(d)) |-> VersionIn(d, v)]
CurrentIn(d) == IF ReadableIn(d, LatestFile) THEN d[LatestFile] ELSE 0

IsBaseline(metadata, program) ==
  metadata = Baseline /\ \E base \in Bases : program = <<base>>

IsPatched(d, ev, metadata, program, v) ==
  \E parent \in 1 .. v : \E patch :
    /\ parent # v
    /\ <<parent, patch>> \in ev
    /\ metadata = Metadata(parent, patch.id)
    /\ program = Append(d[ProgramFile(parent)], patch)

(* The instructions of programs are of P, the evaluated patches are ev.    *)
VersionOk(d, ev, P, v) ==
  /\ ReadableIn(d, MetadataFile(v))
  /\ ProgramFile(v) \in DOMAIN d
  /\ d[ProgramFile(v)] \in Seq(P)
  /\ \/ IsBaseline(d[MetadataFile(v)], d[ProgramFile(v)])
     \/ IsPatched(d, ev, d[MetadataFile(v)], d[ProgramFile(v)], v)

(* The n first versions are whole, and the metadata of one more may be     *)
(* torn; latest names one of them, unless it is torn.                      *)
RegistryOk(d, ev, P, n) ==
  /\ \A q \in DOMAIN d : q[1] = "metadata" => \E v \in 1 .. n + 1 : q = MetadataFile(v)
  /\ \A v \in 1 .. n : VersionOk(d, ev, P, v)
  /\ ~ReadableIn(d, MetadataFile(n + 1))
  /\ ReadableIn(d, LatestFile) => d[LatestFile] \in 1 .. n
  /\ \A q \in DOMAIN d : q[1] \in {"metadata", "latest"} => WorkflowDir \in DOMAIN d

IsInstalledRecord(path) == path[1] = "record" /\ path[2] = "installed"

RecordOk(d, n, r) ==
  /\ RecordFile("proposed", r.patch) \in DOMAIN d
  /\ RecordFile("validated", r.patch) \in DOMAIN d
  /\ r.target \in 1 .. n
  /\ d[MetadataFile(r.target)].patch = r.patch.id
  /\ d[ProgramFile(r.target)][Len(d[ProgramFile(r.target)])] = r.patch

RecordsOk(d, n) ==
  \A q \in DOMAIN d : IsInstalledRecord(q) /\ d[q] # Torn => RecordOk(d, n, d[q])

RecordedIn(d, v) ==
  \E q \in DOMAIN d : IsInstalledRecord(q) /\ d[q] # Torn /\ d[q].target = v

Registered(d, ev, P, n) == RegistryOk(d, ev, P, n) /\ RecordsOk(d, n)

LEMMA PathsApart ==
  /\ \A v, w : ProgramFile(v) = ProgramFile(w) => v = w
  /\ \A v, w : MetadataFile(v) = MetadataFile(w) => v = w
  /\ \A v, w : ProgramFile(v) # MetadataFile(w)
  /\ \A v : /\ ProgramFile(v)[1] = "program" /\ ProgramFile(v)[2] = v
            /\ MetadataFile(v)[1] = "metadata" /\ MetadataFile(v)[2] = v
  /\ \A s, p : RecordFile(s, p)[1] = "record" /\ RecordFile(s, p)[2] = s
  /\ WorkflowDir[1] = "workflow" /\ LatestFile[1] = "latest" /\ WorkflowFile[1] = "workflow.json"
  <1>1. \A v, w : ProgramFile(v) = ProgramFile(w) => v = w
    BY DEF ProgramFile
  <1>2. \A v, w : MetadataFile(v) = MetadataFile(w) => v = w
    BY DEF MetadataFile
  <1>3. \A v : ProgramFile(v)[1] = "program" /\ ProgramFile(v)[2] = v
    BY DEF ProgramFile
  <1>4. \A v : MetadataFile(v)[1] = "metadata" /\ MetadataFile(v)[2] = v
    BY DEF MetadataFile
  <1>5. WorkflowDir[1] = "workflow" /\ LatestFile[1] = "latest" /\ WorkflowFile[1] = "workflow.json"
    BY DEF WorkflowDir, LatestFile, WorkflowFile
  <1>6. \A v, w : ProgramFile(v) # MetadataFile(w)
    BY <1>3, <1>4
  <1>7. \A s, p : RecordFile(s, p)[1] = "record" /\ RecordFile(s, p)[2] = s
    BY DEF RecordFile
  <1> QED BY <1>1, <1>2, <1>3, <1>4, <1>5, <1>6, <1>7

LEMMA WholeVersions ==
  ASSUME NEW d, NEW ev, NEW P, NEW n \in Nat, RegistryOk(d, ev, P, n)
  PROVE  /\ WholeIn(d) = 1 .. n
         /\ HistoryIn(d) = [v \in 1 .. n |-> VersionIn(d, v)]
         /\ ListedIn(d) \subseteq 1 .. n + 1
         /\ \A v \in 1 .. n : v \in ListedIn(d)
  <1>1. ListedIn(d) \subseteq 1 .. n + 1
    BY PathsApart DEF ListedIn, RegistryOk
  <1>2. \A v : MetadataFile(v) \in DOMAIN d => v \in ListedIn(d)
    BY PathsApart DEF ListedIn
  <1>3. \A v \in 1 .. n : v \in ListedIn(d) /\ ReadableIn(d, MetadataFile(v))
    BY <1>2 DEF RegistryOk, VersionOk, ReadableIn
  <1>4. WholeIn(d) = 1 .. n
    <2>1. \A v \in WholeIn(d) : v \in 1 .. n + 1 /\ v # n + 1
      BY <1>1 DEF WholeIn, RegistryOk
    <2>2. \A v : v \in 1 .. n + 1 /\ v # n + 1 => v \in 1 .. n
      OBVIOUS
    <2> QED BY <1>3, <2>1, <2>2 DEF WholeIn
  <1>5. Cardinality(1 .. n) = n
    BY FS_Interval
  <1> QED BY <1>1, <1>3, <1>4, <1>5 DEF HistoryIn

(* A step of the history, as ProgramHistory has it.                        *)
Extends(h, h2) ==
  /\ Len(h2) = Len(h) + 1
  /\ SubSeq(h2, 1, Len(h)) = h
  /\ LET new == h2[Len(h2)]
     IN IF new.parent = 0
        THEN new.patch = NoPatch /\ \E base \in Bases : new.program = <<base>>
        ELSE /\ new.parent \in DOMAIN h
             /\ \E patch \in {new.program[Len(new.program)]} :
                  patch.id = new.patch /\ new.program = Append(h[new.parent].program, patch)

Moves(h, current) ==
  current \in {0} \cup {v \in DOMAIN h : v = Len(h) \/ h[v].patch = NoPatch}

SameHistory(d, e) == HistoryIn(e) = HistoryIn(d) /\ CurrentIn(e) = CurrentIn(d)

HistoryEdge(d, e) ==
  \/ SameHistory(d, e)
  \/ Extends(HistoryIn(d), HistoryIn(e)) /\ CurrentIn(e) = CurrentIn(d)
  \/ HistoryIn(e) = HistoryIn(d) /\ Moves(HistoryIn(d), CurrentIn(e))

-----------------------------------------------------------------------------
(* What one write does to the registry.                                    *)

(* The versions up to n are the same.                                      *)
SameVersions(d, e, n) ==
  \A v \in 1 .. n : /\ ProgramFile(v) \in DOMAIN e
                    /\ e[ProgramFile(v)] = d[ProgramFile(v)]
                    /\ ReadableIn(e, MetadataFile(v))
                    /\ e[MetadataFile(v)] = d[MetadataFile(v)]

LEMMA VersionsKept ==
  ASSUME NEW d, NEW e, NEW ev, NEW P, NEW n \in Nat,
         \A v \in 1 .. n : VersionOk(d, ev, P, v), SameVersions(d, e, n)
  PROVE  /\ \A v \in 1 .. n : VersionOk(e, ev, P, v)
         /\ \A v \in 1 .. n : VersionIn(e, v) = VersionIn(d, v)
  <1>1. ASSUME NEW v \in 1 .. n PROVE VersionOk(e, ev, P, v)
    <2>1. VersionOk(d, ev, P, v)
      OBVIOUS
    <2>2. /\ ProgramFile(v) \in DOMAIN e /\ e[ProgramFile(v)] = d[ProgramFile(v)]
          /\ ReadableIn(e, MetadataFile(v)) /\ e[MetadataFile(v)] = d[MetadataFile(v)]
      BY DEF SameVersions
    <2>3. ASSUME IsPatched(d, ev, d[MetadataFile(v)], d[ProgramFile(v)], v)
          PROVE  IsPatched(e, ev, e[MetadataFile(v)], e[ProgramFile(v)], v)
      <3>1. PICK parent \in 1 .. v : \E patch :
              /\ parent # v /\ <<parent, patch>> \in ev
              /\ d[MetadataFile(v)] = Metadata(parent, patch.id)
              /\ d[ProgramFile(v)] = Append(d[ProgramFile(parent)], patch)
        BY <2>3 DEF IsPatched
      <3>2. parent \in 1 .. n
        OBVIOUS
      <3>3. e[ProgramFile(parent)] = d[ProgramFile(parent)]
        BY <3>2 DEF SameVersions
      <3> QED BY <2>2, <3>1, <3>3 DEF IsPatched
    <2> QED BY <2>1, <2>2, <2>3 DEF VersionOk
  <1>2. ASSUME NEW v \in 1 .. n PROVE VersionIn(e, v) = VersionIn(d, v)
    BY DEF SameVersions, VersionIn, VersionOk
  <1> QED BY <1>1, <1>2

LEMMA RecordsKept ==
  ASSUME NEW d, NEW e, NEW n \in Nat, NEW m \in Nat, n <= m, SameVersions(d, e, n), RecordsOk(d, n),
         \A q : q[1] = "record" /\ q \in DOMAIN d => q \in DOMAIN e,
         \A q \in DOMAIN e : IsInstalledRecord(q) /\ e[q] # Torn
                               => (q \in DOMAIN d /\ e[q] = d[q]) \/ RecordOk(e, m, e[q])
  PROVE  RecordsOk(e, m)
  <1> SUFFICES ASSUME NEW q \in DOMAIN e, IsInstalledRecord(q), e[q] # Torn,
                      q \in DOMAIN d, e[q] = d[q]
               PROVE  RecordOk(e, m, e[q])
    BY DEF RecordsOk
  <1> DEFINE r == d[q]
  <1>1. RecordOk(d, n, r)
    BY DEF RecordsOk
  <1>2. r.target \in 1 .. n /\ r.target \in 1 .. m
    BY <1>1 DEF RecordOk
  <1>3. e[MetadataFile(r.target)] = d[MetadataFile(r.target)]
        /\ e[ProgramFile(r.target)] = d[ProgramFile(r.target)]
    BY <1>2 DEF SameVersions
  <1>4. /\ RecordFile("proposed", r.patch) \in DOMAIN e
        /\ RecordFile("validated", r.patch) \in DOMAIN e
    BY <1>1, PathsApart DEF RecordOk
  <1> QED BY <1>1, <1>2, <1>3, <1>4 DEF RecordOk

LEMMA SameVersionsSameHistory ==
  ASSUME NEW d, NEW e, NEW ev, NEW P, NEW n \in Nat,
         RegistryOk(d, ev, P, n), RegistryOk(e, ev, P, n), SameVersions(d, e, n)
  PROVE  HistoryIn(e) = HistoryIn(d)
  <1>1. \A v \in 1 .. n : VersionIn(e, v) = VersionIn(d, v)
    BY VersionsKept DEF RegistryOk
  <1>2. /\ HistoryIn(d) = [v \in 1 .. n |-> VersionIn(d, v)]
        /\ HistoryIn(e) = [v \in 1 .. n |-> VersionIn(e, v)]
    BY WholeVersions
  <1> QED BY <1>1, <1>2

(* A file that is of no version.                                           *)
LEMMA PutElsewhere ==
  ASSUME NEW d, NEW ev, NEW P, NEW n \in Nat, Registered(d, ev, P, n),
         NEW path, NEW content,
         path[1] \notin {"program", "metadata", "latest"},
         IsInstalledRecord(path) /\ content # Torn => RecordOk(d, n, content)
  PROVE  LET e == PutIn(d, path, content)
         IN Registered(e, ev, P, n) /\ SameHistory(d, e) /\ SameVersions(d, e, n)
  <1> DEFINE e == PutIn(d, path, content)
  <1>1. /\ DOMAIN e = DOMAIN d \cup {path} /\ e[path] = content
        /\ \A q \in DOMAIN d : q # path => e[q] = d[q]
    BY DEF PutIn
  <1> HIDE DEF e
  <1>2. \A v : ProgramFile(v) # path /\ MetadataFile(v) # path /\ LatestFile # path
    BY PathsApart
  <1>3. SameVersions(d, e, n)
    <2>1. \A v \in 1 .. n : VersionOk(d, ev, P, v)
      BY DEF Registered, RegistryOk
    <2> QED BY <1>1, <1>2, <2>1 DEF SameVersions, VersionOk, ReadableIn
  <1>4. RegistryOk(e, ev, P, n)
    <2>1. \A q \in DOMAIN e : q[1] = "metadata" => \E v \in 1 .. n + 1 : q = MetadataFile(v)
      BY <1>1 DEF Registered, RegistryOk
    <2>2. \A v \in 1 .. n : VersionOk(e, ev, P, v)
      BY <1>3, VersionsKept DEF Registered, RegistryOk
    <2>3. ~ReadableIn(e, MetadataFile(n + 1))
      BY <1>1, <1>2 DEF Registered, RegistryOk, ReadableIn
    <2>4. ReadableIn(e, LatestFile) => e[LatestFile] \in 1 .. n
      BY <1>1, <1>2 DEF Registered, RegistryOk, ReadableIn
    <2>5. \A q \in DOMAIN e : q[1] \in {"metadata", "latest"} => WorkflowDir \in DOMAIN e
      BY <1>1 DEF Registered, RegistryOk
    <2> QED BY <2>1, <2>2, <2>3, <2>4, <2>5 DEF RegistryOk
  <1>5. RecordsOk(e, n)
    <2>1. RecordOk(d, n, content) => RecordOk(e, n, content)
      BY <1>1, <1>3 DEF RecordOk, SameVersions
    <2>2. \A q \in DOMAIN e : IsInstalledRecord(q) /\ e[q] # Torn
            => (q \in DOMAIN d /\ e[q] = d[q]) \/ RecordOk(e, n, e[q])
      BY <1>1, <2>1
    <2> QED BY <1>1, <1>3, <2>2, RecordsKept DEF Registered
  <1>6. HistoryIn(e) = HistoryIn(d)
    BY <1>3, <1>4, SameVersionsSameHistory DEF Registered
  <1>7. CurrentIn(e) = CurrentIn(d)
    BY <1>1, <1>2 DEF CurrentIn, ReadableIn
  <1>8. Registered(e, ev, P, n) /\ SameHistory(d, e) /\ SameVersions(d, e, n)
    BY <1>3, <1>4, <1>5, <1>6, <1>7 DEF Registered, SameHistory
  <1> QED BY <1>8 DEF e

(* A program, under a number that is no version's.                         *)
LEMMA PutProgram ==
  ASSUME NEW d, NEW ev, NEW P, NEW n \in Nat, Registered(d, ev, P, n),
         NEW m, m \notin 1 .. n, NEW content
  PROVE  LET e == PutIn(d, ProgramFile(m), content)
         IN Registered(e, ev, P, n) /\ SameHistory(d, e) /\ SameVersions(d, e, n)
  <1> DEFINE path == ProgramFile(m)
             e == PutIn(d, path, content)
  <1>1. /\ DOMAIN e = DOMAIN d \cup {path} /\ e[path] = content
        /\ \A q \in DOMAIN d : q # path => e[q] = d[q]
    BY DEF PutIn
  <1>0. path[1] = "program"
    BY PathsApart
  <1>2. /\ \A v \in 1 .. n : ProgramFile(v) # path
        /\ \A v : MetadataFile(v) # path
        /\ LatestFile # path
    BY PathsApart
  <1> HIDE DEF e, path
  <1>3. SameVersions(d, e, n)
    <2>1. \A v \in 1 .. n : VersionOk(d, ev, P, v)
      BY DEF Registered, RegistryOk
    <2> QED BY <1>1, <1>2, <2>1 DEF SameVersions, VersionOk, ReadableIn
  <1>4. RegistryOk(e, ev, P, n)
    <2>1. \A q \in DOMAIN e : q[1] = "metadata" => \E v \in 1 .. n + 1 : q = MetadataFile(v)
      BY <1>0, <1>1 DEF Registered, RegistryOk
    <2>2. \A v \in 1 .. n : VersionOk(e, ev, P, v)
      BY <1>3, VersionsKept DEF Registered, RegistryOk
    <2>3. ~ReadableIn(e, MetadataFile(n + 1))
      BY <1>1, <1>2 DEF Registered, RegistryOk, ReadableIn
    <2>4. ReadableIn(e, LatestFile) => e[LatestFile] \in 1 .. n
      BY <1>1, <1>2 DEF Registered, RegistryOk, ReadableIn
    <2>5. \A q \in DOMAIN e : q[1] \in {"metadata", "latest"} => WorkflowDir \in DOMAIN e
      BY <1>0, <1>1 DEF Registered, RegistryOk
    <2> QED BY <2>1, <2>2, <2>3, <2>4, <2>5 DEF RegistryOk
  <1>5. RecordsOk(e, n)
    <2>1. \A q \in DOMAIN e : IsInstalledRecord(q) => q \in DOMAIN d /\ e[q] = d[q]
      BY <1>0, <1>1 DEF IsInstalledRecord
    <2> QED BY <1>1, <1>3, <2>1, RecordsKept DEF Registered
  <1>6. HistoryIn(e) = HistoryIn(d)
    BY <1>3, <1>4, SameVersionsSameHistory DEF Registered
  <1>7. CurrentIn(e) = CurrentIn(d)
    BY <1>1, <1>2 DEF CurrentIn, ReadableIn
  <1>8. Registered(e, ev, P, n) /\ SameHistory(d, e) /\ SameVersions(d, e, n)
    BY <1>3, <1>4, <1>5, <1>6, <1>7 DEF Registered, SameHistory
  <1> QED BY <1>8 DEF e, path

(* The metadata of the next version, which becomes one when they are whole.*)
LEMMA TearMetadata ==
  ASSUME NEW d, NEW ev, NEW P, NEW n \in Nat, Registered(d, ev, P, n), WorkflowDir \in DOMAIN d
  PROVE  LET e == PutIn(d, MetadataFile(n + 1), Torn)
         IN Registered(e, ev, P, n) /\ SameHistory(d, e) /\ SameVersions(d, e, n)
  <1> DEFINE path == MetadataFile(n + 1)
             e == PutIn(d, path, Torn)
  <1>1. /\ DOMAIN e = DOMAIN d \cup {path} /\ e[path] = Torn
        /\ \A q \in DOMAIN d : q # path => e[q] = d[q]
    BY DEF PutIn
  <1>0. path[1] = "metadata"
    BY PathsApart
  <1>2. /\ \A v \in 1 .. n : MetadataFile(v) # path
        /\ \A v : ProgramFile(v) # path
        /\ LatestFile # path
    BY PathsApart
  <1> HIDE DEF e
  <1>3. SameVersions(d, e, n)
    <2>1. \A v \in 1 .. n : VersionOk(d, ev, P, v)
      BY DEF Registered, RegistryOk
    <2> QED BY <1>1, <1>2, <2>1 DEF SameVersions, VersionOk, ReadableIn
  <1>4. RegistryOk(e, ev, P, n)
    <2>1. \A q \in DOMAIN e : q[1] = "metadata" => \E v \in 1 .. n + 1 : q = MetadataFile(v)
      <3>1. n + 1 \in 1 .. n + 1
        OBVIOUS
      <3> QED BY <1>1, <3>1 DEF Registered, RegistryOk
    <2>2. \A v \in 1 .. n : VersionOk(e, ev, P, v)
      BY <1>3, VersionsKept DEF Registered, RegistryOk
    <2>3. ~ReadableIn(e, MetadataFile(n + 1))
      BY <1>1 DEF ReadableIn
    <2>4. ReadableIn(e, LatestFile) => e[LatestFile] \in 1 .. n
      BY <1>1, <1>2 DEF Registered, RegistryOk, ReadableIn
    <2>5. \A q \in DOMAIN e : q[1] \in {"metadata", "latest"} => WorkflowDir \in DOMAIN e
      BY <1>1 DEF Registered, RegistryOk
    <2> QED BY <2>1, <2>2, <2>3, <2>4, <2>5 DEF RegistryOk
  <1> HIDE DEF path
  <1>5. RecordsOk(e, n)
    <2>1. \A q \in DOMAIN e : IsInstalledRecord(q) => q \in DOMAIN d /\ e[q] = d[q]
      BY <1>0, <1>1 DEF IsInstalledRecord
    <2> QED BY <1>1, <1>3, <2>1, RecordsKept DEF Registered
  <1>6. HistoryIn(e) = HistoryIn(d)
    BY <1>3, <1>4, SameVersionsSameHistory DEF Registered
  <1>7. CurrentIn(e) = CurrentIn(d)
    BY <1>1, <1>2 DEF CurrentIn, ReadableIn
  <1>8. Registered(e, ev, P, n) /\ SameHistory(d, e) /\ SameVersions(d, e, n)
    BY <1>3, <1>4, <1>5, <1>6, <1>7 DEF Registered, SameHistory
  <1> QED BY <1>8 DEF e, path

LEMMA PutMetadata ==
  ASSUME NEW d, NEW ev, NEW P, NEW n \in Nat, Registered(d, ev, P, n), WorkflowDir \in DOMAIN d,
         NEW metadata, metadata # Torn,
         ProgramFile(n + 1) \in DOMAIN d, d[ProgramFile(n + 1)] \in Seq(P),
         \/ IsBaseline(metadata, d[ProgramFile(n + 1)])
         \/ IsPatched(d, ev, metadata, d[ProgramFile(n + 1)], n + 1)
  PROVE  LET e == PutIn(d, MetadataFile(n + 1), metadata)
         IN /\ Registered(e, ev, P, n + 1)
            /\ Extends(HistoryIn(d), HistoryIn(e)) /\ CurrentIn(e) = CurrentIn(d)
            /\ SameVersions(d, e, n)
  <1> DEFINE m == n + 1
             path == MetadataFile(m)
             e == PutIn(d, path, metadata)
             program == d[ProgramFile(m)]
  <1>1. /\ DOMAIN e = DOMAIN d \cup {path} /\ e[path] = metadata
        /\ \A q \in DOMAIN d : q # path => e[q] = d[q]
    BY DEF PutIn
  <1>0. path[1] = "metadata" /\ path[2] = m
    BY PathsApart
  <1>2. /\ \A v : v # m => MetadataFile(v) # path
        /\ \A v : ProgramFile(v) # path
        /\ LatestFile # path
    BY PathsApart
  <1> HIDE DEF e
  <1>3. SameVersions(d, e, n)
    <2>1. \A v \in 1 .. n : VersionOk(d, ev, P, v) /\ v # m
      BY DEF Registered, RegistryOk
    <2> QED BY <1>1, <1>2, <2>1 DEF SameVersions, VersionOk, ReadableIn
  <1>4. e[ProgramFile(m)] = program /\ ProgramFile(m) \in DOMAIN e
    BY <1>1, <1>2
  <1>5. VersionOk(e, ev, P, m)
    <2>1. ASSUME IsPatched(d, ev, metadata, program, m)
          PROVE  IsPatched(e, ev, metadata, program, m)
      <3>1. PICK parent \in 1 .. m : \E patch :
              /\ parent # m /\ <<parent, patch>> \in ev
              /\ metadata = Metadata(parent, patch.id)
              /\ program = Append(d[ProgramFile(parent)], patch)
        BY <2>1 DEF IsPatched
      <3>2. parent \in 1 .. n
        BY <3>1
      <3>3. e[ProgramFile(parent)] = d[ProgramFile(parent)]
        BY <1>3, <3>2 DEF SameVersions
      <3> QED BY <3>1, <3>3 DEF IsPatched
    <2>2. IsBaseline(metadata, program) \/ IsPatched(e, ev, metadata, program, m)
      BY <2>1
    <2> QED BY <1>1, <1>4, <2>2 DEF VersionOk, ReadableIn
  <1>6. /\ \A v \in 1 .. n : VersionOk(e, ev, P, v)
        /\ \A v \in 1 .. n : VersionIn(e, v) = VersionIn(d, v)
    <2>1. \A v \in 1 .. n : VersionOk(d, ev, P, v)
      BY DEF Registered, RegistryOk
    <2> HIDE DEF m, path, program
    <2>2. \A v \in 1 .. n : VersionOk(e, ev, P, v)
      BY <1>3, <2>1, VersionsKept
    <2>3. \A v \in 1 .. n : VersionIn(e, v) = VersionIn(d, v)
      BY <1>3, <2>1, VersionsKept
    <2> QED BY <2>2, <2>3
  <1>7. RegistryOk(e, ev, P, m)
    <2>1. \A q \in DOMAIN e : q[1] = "metadata" => \E v \in 1 .. m + 1 : q = MetadataFile(v)
      <3>1. m \in 1 .. m + 1 /\ 1 .. n + 1 \subseteq 1 .. m + 1
        OBVIOUS
      <3> QED BY <1>1, <3>1 DEF Registered, RegistryOk
    <2>2. \A v \in 1 .. m : VersionOk(e, ev, P, v)
      <3>1. \A v \in 1 .. m : v \in 1 .. n \/ v = m
        OBVIOUS
      <3> QED BY <1>5, <1>6, <3>1
    <2>3. ~ReadableIn(e, MetadataFile(m + 1))
      <3>1. MetadataFile(m + 1) \notin DOMAIN d
        <4> SUFFICES ASSUME MetadataFile(m + 1) \in DOMAIN d PROVE FALSE
          OBVIOUS
        <4>1. PICK v \in 1 .. n + 1 : MetadataFile(m + 1) = MetadataFile(v)
          BY PathsApart DEF Registered, RegistryOk
        <4>2. m + 1 = v
          BY <4>1, PathsApart
        <4> QED BY <4>2
      <3>2. m + 1 # m
        OBVIOUS
      <3> QED BY <1>1, <1>2, <3>1, <3>2 DEF ReadableIn
    <2>4. ReadableIn(e, LatestFile) => e[LatestFile] \in 1 .. m
      <3>1. 1 .. n \subseteq 1 .. m
        OBVIOUS
      <3> QED BY <1>1, <1>2, <3>1 DEF Registered, RegistryOk, ReadableIn
    <2>5. \A q \in DOMAIN e : q[1] \in {"metadata", "latest"} => WorkflowDir \in DOMAIN e
      BY <1>1 DEF Registered, RegistryOk
    <2> HIDE DEF m
    <2> QED BY <2>1, <2>2, <2>3, <2>4, <2>5 DEF RegistryOk
  <1> HIDE DEF path
  <1>8. RecordsOk(e, m)
    <2>1. \A q \in DOMAIN e : IsInstalledRecord(q) => q \in DOMAIN d /\ e[q] = d[q]
      BY <1>0, <1>1 DEF IsInstalledRecord
    <2>2. n \in Nat /\ m \in Nat /\ n <= m
      OBVIOUS
    <2> HIDE DEF m
    <2> QED BY <1>1, <1>3, <2>1, <2>2, RecordsKept DEF Registered
  <1>9. CurrentIn(e) = CurrentIn(d)
    BY <1>1, <1>2 DEF CurrentIn, ReadableIn
  <1>10. Extends(HistoryIn(d), HistoryIn(e))
    <2> DEFINE h == HistoryIn(d)
               h2 == HistoryIn(e)
    <2>1. h = [v \in 1 .. n |-> VersionIn(d, v)] /\ h2 = [v \in 1 .. m |-> VersionIn(e, v)]
      <3>1. m \in Nat
        OBVIOUS
      <3> HIDE DEF m
      <3> QED BY <1>7, <3>1, WholeVersions DEF Registered
    <2>2. \A v \in 1 .. n : VersionIn(e, v) = VersionIn(d, v)
      BY <1>6
    <2> HIDE DEF h, h2
    <2>3. Len(h) = n /\ Len(h2) = n + 1 /\ SubSeq(h2, 1, n) = h /\ DOMAIN h = 1 .. n
      BY <2>1, <2>2
    <2>4. /\ h2[m] = VersionIn(e, m)
          /\ h2[m].program = program /\ h2[m].parent = metadata.parent
          /\ h2[m].patch = metadata.patch
      BY <1>1, <1>4, <2>1 DEF VersionIn, path
    <2>5. CASE IsBaseline(metadata, program)
      <3>1. metadata.parent = 0 /\ metadata.patch = NoPatch
        BY <2>5 DEF IsBaseline, Baseline, Metadata
      <3> QED BY <2>3, <2>4, <2>5, <3>1 DEF Extends, IsBaseline, h, h2
    <2>6. CASE IsPatched(d, ev, metadata, program, m)
      <3>1. PICK parent \in 1 .. n, patch \in {p : p \in {program[Len(program)]}} :
              /\ metadata = Metadata(parent, patch.id)
              /\ program = Append(d[ProgramFile(parent)], patch)
        <4>1. PICK parent \in 1 .. m : \E patch :
              /\ parent # m /\ <<parent, patch>> \in ev
              /\ metadata = Metadata(parent, patch.id)
              /\ program = Append(d[ProgramFile(parent)], patch)
          BY <2>6 DEF IsPatched
        <4>2. PICK patch : /\ parent # m /\ <<parent, patch>> \in ev
              /\ metadata = Metadata(parent, patch.id)
              /\ program = Append(d[ProgramFile(parent)], patch)
          BY <4>1
        <4>3. parent \in 1 .. n
          BY <4>2
        <4>4. d[ProgramFile(parent)] \in Seq(P)
          BY <4>3 DEF Registered, RegistryOk, VersionOk
        <4>5. program[Len(program)] = patch
          BY <4>2, <4>4
        <4> QED BY <4>2, <4>3, <4>5
      <3>2. metadata.parent = parent /\ metadata.patch = patch.id /\ parent # 0
        BY <3>1 DEF Metadata
      <3>3. h[parent].program = d[ProgramFile(parent)]
        <4>1. ProgramFile(parent) \in DOMAIN d
          BY DEF Registered, RegistryOk, VersionOk
        <4> QED BY <2>1, <4>1 DEF VersionIn
      <3>4. patch \in {h2[m].program[Len(h2[m].program)]}
        BY <2>4
      <3>5. patch.id = h2[m].patch /\ h2[m].program = Append(h[parent].program, patch)
        BY <2>4, <3>1, <3>2, <3>3
      <3>6. h2[Len(h2)].parent # 0 /\ h2[Len(h2)].parent = parent /\ parent \in DOMAIN h
        BY <2>3, <2>4, <3>2
      <3>7. h2[Len(h2)] = h2[m]
        BY <2>3
      <3> HIDE DEF m, program
      <3> QED BY <2>3, <3>4, <3>5, <3>6, <3>7 DEF Extends, h, h2
    <2> QED BY <2>5, <2>6
  <1>11. /\ Registered(e, ev, P, m) /\ SameVersions(d, e, n)
         /\ Extends(HistoryIn(d), HistoryIn(e)) /\ CurrentIn(e) = CurrentIn(d)
    BY <1>3, <1>7, <1>8, <1>9, <1>10 DEF Registered
  <1> QED BY <1>11 DEF e, path, m

(* The name of the latest version.                                         *)
LEMMA PutLatest ==
  ASSUME NEW d, NEW ev, NEW P, NEW n \in Nat, Registered(d, ev, P, n), WorkflowDir \in DOMAIN d,
         NEW v, v = Torn \/ v \in 1 .. n
  PROVE  LET e == PutIn(d, LatestFile, v)
         IN /\ Registered(e, ev, P, n) /\ SameVersions(d, e, n)
            /\ HistoryIn(e) = HistoryIn(d) /\ CurrentIn(e) = IF v = Torn THEN 0 ELSE v
  <1> DEFINE path == LatestFile
             e == PutIn(d, path, v)
  <1>1. /\ DOMAIN e = DOMAIN d \cup {path} /\ e[path] = v
        /\ \A q \in DOMAIN d : q # path => e[q] = d[q]
    BY DEF PutIn
  <1>0. path[1] = "latest"
    BY PathsApart
  <1>2. \A w : MetadataFile(w) # path /\ ProgramFile(w) # path
    BY PathsApart
  <1> HIDE DEF e
  <1>3. SameVersions(d, e, n)
    <2>1. \A w \in 1 .. n : VersionOk(d, ev, P, w)
      BY DEF Registered, RegistryOk
    <2> QED BY <1>1, <1>2, <2>1 DEF SameVersions, VersionOk, ReadableIn
  <1>4. RegistryOk(e, ev, P, n)
    <2>1. \A q \in DOMAIN e : q[1] = "metadata" => \E w \in 1 .. n + 1 : q = MetadataFile(w)
      BY <1>0, <1>1 DEF Registered, RegistryOk
    <2>2. \A w \in 1 .. n : VersionOk(e, ev, P, w)
      BY <1>3, VersionsKept DEF Registered, RegistryOk
    <2>3. ~ReadableIn(e, MetadataFile(n + 1))
      BY <1>1, <1>2 DEF Registered, RegistryOk, ReadableIn
    <2>4. ReadableIn(e, LatestFile) => e[LatestFile] \in 1 .. n
      BY <1>1, <1>2 DEF ReadableIn
    <2>5. \A q \in DOMAIN e : q[1] \in {"metadata", "latest"} => WorkflowDir \in DOMAIN e
      BY <1>1 DEF Registered, RegistryOk
    <2> QED BY <2>1, <2>2, <2>3, <2>4, <2>5 DEF RegistryOk
  <1>5. RecordsOk(e, n)
    <2>1. \A q \in DOMAIN e : IsInstalledRecord(q) => q \in DOMAIN d /\ e[q] = d[q]
      BY <1>0, <1>1 DEF IsInstalledRecord
    <2> QED BY <1>1, <1>3, <2>1, RecordsKept DEF Registered
  <1>6. HistoryIn(e) = HistoryIn(d)
    BY <1>3, <1>4, SameVersionsSameHistory DEF Registered
  <1>7. CurrentIn(e) = IF v = Torn THEN 0 ELSE v
    BY <1>1 DEF CurrentIn, ReadableIn
  <1>8. /\ Registered(e, ev, P, n) /\ SameVersions(d, e, n)
        /\ HistoryIn(e) = HistoryIn(d) /\ CurrentIn(e) = IF v = Torn THEN 0 ELSE v
    BY <1>3, <1>4, <1>5, <1>6, <1>7 DEF Registered
  <1> QED BY <1>8 DEF e

-----------------------------------------------------------------------------
(* The steps of commands on the registry.                                  *)
Asking == {"ask", "validate", "evaluate", "install", "installed"}
AskedOk(d, j) ==
  j.at \in Asking /\ ReadableIn(d, LatestFile)
    => j.asked = d[LatestFile] \/ ~RecordedIn(d, d[LatestFile])

RegistryEdge(d, e, j, ev, P) ==
  /\ \E n \in Nat : Registered(d, ev, P, n)
  /\ HistoryEdge(d, e)
  /\ AskedOk(d, j)

Safe(d, queue, e, j, ev, P) ==
  \E edges : /\ Leads(d, queue, e, edges)
             /\ \A p \in edges : RegistryEdge(p[1], p[2], j, ev, P)

LEMMA SafeNowhere ==
  ASSUME NEW d, NEW j, NEW ev, NEW P
  PROVE  Safe(d, <<>>, d, j, ev, P)
  <1>1. Leads(d, <<>>, d, {})
    BY LeadsNowhere
  <1> QED BY <1>1 DEF Safe

LEMMA SafeOn ==
  ASSUME NEW d, NEW p, NEW e, NEW q, NEW f, NEW j, NEW ev, NEW P,
         Safe(d, p, e, j, ev, P), Safe(e, q, f, j, ev, P)
  PROVE  Safe(d, p \o q, f, j, ev, P)
  <1>1. PICK a : Leads(d, p, e, a) /\ \A x \in a : RegistryEdge(x[1], x[2], j, ev, P)
    BY DEF Safe
  <1>2. PICK b : Leads(e, q, f, b) /\ \A x \in b : RegistryEdge(x[1], x[2], j, ev, P)
    BY DEF Safe
  <1> DEFINE c == a \cup b
  <1>3. a \subseteq c /\ b \subseteq c /\ \A x \in c : RegistryEdge(x[1], x[2], j, ev, P)
    BY <1>1, <1>2
  <1> HIDE DEF c
  <1>4. Leads(d, p, e, c) /\ Leads(e, q, f, c)
    BY <1>1, <1>2, <1>3, LeadsMore
  <1>5. Leads(d, p \o q, f, c)
    BY <1>4, LeadsOn
  <1> QED BY <1>3, <1>5 DEF Safe

LEMMA SafeWrite ==
  ASSUME NEW d, NEW path, NEW content, NEW j, NEW ev, NEW P,
         RegistryEdge(d, PutIn(d, path, Torn), j, ev, P),
         RegistryEdge(PutIn(d, path, Torn), PutIn(d, path, content), j, ev, P)
  PROVE  Safe(d, <<Write(path, content)>>, PutIn(d, path, content), j, ev, P)
  <1> DEFINE o == Write(path, content)
             h == PutIn(d, path, Torn)
             e == PutIn(d, path, content)
             edges == {<<d, h>>, <<h, e>>}
  <1>1. o.op = "write" /\ o.path = path /\ o.content = content /\ IsWrite(o)
    BY WriteOperation
  <1>2. Half(d, o) = h /\ Done(d, o) = e
    BY <1>1 DEF Half, Done
  <1> HIDE DEF o, h, e
  <1>3. Performs(d, o, e, edges)
    BY <1>1, <1>2 DEF Performs, Operations
  <1>4. Leads(d, <<o>>, e, edges)
    BY <1>3, LeadsOver
  <1>5. \A p \in edges : RegistryEdge(p[1], p[2], j, ev, P)
    BY DEF h, e
  <1>6. Safe(d, <<o>>, e, j, ev, P)
    <2> HIDE DEF edges
    <2> QED BY <1>4, <1>5 DEF Safe
  <1> QED BY <1>6 DEF o, e

LEMMA SafeMakeDir ==
  ASSUME NEW d, NEW path, NEW j, NEW ev, NEW P,
         RegistryEdge(d, PutIn(d, path, "directory"), j, ev, P)
  PROVE  Safe(d, <<MakeDir(path)>>, PutIn(d, path, "directory"), j, ev, P)
  <1> DEFINE o == MakeDir(path)
             e == PutIn(d, path, "directory")
             edges == {<<d, e>>}
  <1>1. o.op = "mkdir" /\ o.path = path
    BY DEF MakeDir
  <1>2. Done(d, o) = e
    BY <1>1 DEF Done
  <1> HIDE DEF o, e
  <1>3. Performs(d, o, e, edges)
    BY <1>1, <1>2 DEF Performs, Operations
  <1>4. Leads(d, <<o>>, e, edges)
    BY <1>3, LeadsOver
  <1>5. \A p \in edges : RegistryEdge(p[1], p[2], j, ev, P)
    BY DEF e
  <1>6. Safe(d, <<o>>, e, j, ev, P)
    <2> HIDE DEF edges
    <2> QED BY <1>4, <1>5 DEF Safe
  <1> QED BY <1>6 DEF o, e

LEMMA SameIsEdge ==
  ASSUME NEW d, NEW h, NEW e, SameHistory(d, h), SameHistory(d, e)
  PROVE  HistoryEdge(d, h) /\ HistoryEdge(h, e)
  BY DEF SameHistory, HistoryEdge

LEMMA AskedKept ==
  ASSUME NEW d, NEW e, NEW j, AskedOk(d, j), Agree(d, e, {"latest"}),
         \A q \in DOMAIN e : IsInstalledRecord(q) /\ e[q] # Torn => q \in DOMAIN d /\ e[q] = d[q]
  PROVE  AskedOk(e, j)
  <1>1. LatestFile \in DOMAIN d <=> LatestFile \in DOMAIN e
    BY PathsApart DEF Agree
  <1>2. LatestFile \in DOMAIN d => e[LatestFile] = d[LatestFile]
    BY PathsApart DEF Agree
  <1>3. \A v : RecordedIn(e, v) => RecordedIn(d, v)
    BY DEF RecordedIn
  <1> QED BY <1>1, <1>2, <1>3 DEF AskedOk, ReadableIn

(* What is there stays, and the versions stay the same.                    *)
Onward(d, e, n) == SameVersions(d, e, n) /\ DOMAIN d \subseteq DOMAIN e

LEMMA OnwardTwice ==
  ASSUME NEW d, NEW e, NEW f, NEW n, Onward(d, e, n), Onward(e, f, n)
  PROVE  Onward(d, f, n)
  BY DEF Onward, SameVersions

(* A write that concerns no version.                                       *)
LEMMA WriteElsewhere ==
  ASSUME NEW d, NEW ev, NEW P, NEW n \in Nat, Registered(d, ev, P, n), NEW j, AskedOk(d, j),
         NEW path, NEW content, path[1] \notin {"program", "metadata", "latest"},
         ~IsInstalledRecord(path)
  PROVE  LET e == PutIn(d, path, content)
         IN /\ Safe(d, <<Write(path, content)>>, e, j, ev, P)
            /\ Registered(e, ev, P, n) /\ Onward(d, e, n) /\ AskedOk(e, j) /\ path \in DOMAIN e
  <1> DEFINE h == PutIn(d, path, Torn)
             e == PutIn(d, path, content)
  <1>1. /\ Registered(h, ev, P, n) /\ SameHistory(d, h)
        /\ Registered(e, ev, P, n) /\ SameHistory(d, e) /\ SameVersions(d, e, n)
    BY PutElsewhere
  <1>2. Agree(d, h, {"latest"}) /\ Agree(d, e, {"latest"})
    BY PutInAgrees
  <1>3. /\ \A q \in DOMAIN h : IsInstalledRecord(q) => q \in DOMAIN d /\ h[q] = d[q]
        /\ \A q \in DOMAIN e : IsInstalledRecord(q) => q \in DOMAIN d /\ e[q] = d[q]
        /\ DOMAIN d \subseteq DOMAIN e /\ path \in DOMAIN e
    BY DEF PutIn
  <1> HIDE DEF h, e
  <1>4. AskedOk(h, j) /\ AskedOk(e, j)
    BY <1>2, <1>3, AskedKept
  <1>5. HistoryEdge(d, h) /\ HistoryEdge(h, e)
    BY <1>1, SameIsEdge
  <1>6. RegistryEdge(d, h, j, ev, P) /\ RegistryEdge(h, e, j, ev, P)
    BY <1>1, <1>4, <1>5 DEF RegistryEdge
  <1>7. Safe(d, <<Write(path, content)>>, e, j, ev, P)
    BY <1>6, SafeWrite DEF h, e
  <1>8. Onward(d, e, n)
    BY <1>1, <1>3 DEF Onward
  <1>9. /\ Safe(d, <<Write(path, content)>>, e, j, ev, P)
        /\ Registered(e, ev, P, n) /\ Onward(d, e, n) /\ AskedOk(e, j) /\ path \in DOMAIN e
    BY <1>1, <1>3, <1>4, <1>7, <1>8
  <1> QED BY <1>9 DEF e

(* A write that concerns neither a version nor a patch, or a record of one *)
(* that is not installed.                                                  *)
LEMMA RecordWritten ==
  ASSUME NEW d, NEW ev, NEW P, NEW n \in Nat, Registered(d, ev, P, n), NEW j, AskedOk(d, j),
         NEW status \in {"proposed", "validated", "rejected"}, NEW patch, NEW target
  PROVE  \E e : /\ Safe(d, Record(status, patch, target), e, j, ev, P)
                /\ Registered(e, ev, P, n) /\ Onward(d, e, n) /\ AskedOk(e, j)
                /\ RecordFile(status, patch) \in DOMAIN e
  <1> DEFINE path == RecordFile(status, patch)
             content == [patch |-> patch, target |-> target]
             e == PutIn(d, path, content)
  <1>1. path[1] = "record" /\ path[2] = status
    BY PathsApart
  <1>2. path[1] \notin {"program", "metadata", "latest"} /\ ~IsInstalledRecord(path)
    BY <1>1 DEF IsInstalledRecord
  <1>3. Record(status, patch, target) = <<Write(path, content)>>
    BY DEF Record
  <1> HIDE DEF path, content
  <1>4. /\ Safe(d, <<Write(path, content)>>, e, j, ev, P)
        /\ Registered(e, ev, P, n) /\ Onward(d, e, n) /\ AskedOk(e, j) /\ path \in DOMAIN e
    BY <1>2, WriteElsewhere
  <1> QED BY <1>3, <1>4 DEF path

(* A record of the installation of a patch that a version holds.           *)
LEMMA InstalledWritten ==
  ASSUME NEW d, NEW ev, NEW P, NEW n \in Nat, Registered(d, ev, P, n), NEW j, AskedOk(d, j),
         NEW patch, NEW target, RecordOk(d, n, [patch |-> patch, target |-> target])
  PROVE  \E e : /\ Safe(d, Record("installed", patch, target), e, j, ev, P)
                /\ Registered(e, ev, P, n) /\ Onward(d, e, n)
  <1> DEFINE path == RecordFile("installed", patch)
             content == [patch |-> patch, target |-> target]
             h == PutIn(d, path, Torn)
             e == PutIn(d, path, content)
  <1>1. path[1] = "record"
    BY PathsApart
  <1>2. path[1] \notin {"program", "metadata", "latest"}
    BY <1>1
  <1>3. Record("installed", patch, target) = <<Write(path, content)>>
    BY DEF Record
  <1> HIDE DEF path, content
  <1>4. RecordOk(d, n, content)
    BY DEF content
  <1>5. /\ Registered(h, ev, P, n) /\ SameHistory(d, h)
        /\ Registered(e, ev, P, n) /\ SameHistory(d, e) /\ SameVersions(d, e, n)
    BY <1>2, <1>4, PutElsewhere
  <1>6. Agree(d, h, {"latest"})
    BY <1>2, PutInAgrees
  <1>7. /\ \A q \in DOMAIN h : h[q] # Torn => q \in DOMAIN d /\ h[q] = d[q]
        /\ DOMAIN d \subseteq DOMAIN e
    BY DEF PutIn
  <1> HIDE DEF h, e
  <1>8. AskedOk(h, j)
    BY <1>6, <1>7, AskedKept
  <1>9. HistoryEdge(d, h) /\ HistoryEdge(h, e)
    BY <1>5, SameIsEdge
  <1>10. RegistryEdge(d, h, j, ev, P) /\ RegistryEdge(h, e, j, ev, P)
    BY <1>5, <1>8, <1>9 DEF RegistryEdge
  <1>11. Safe(d, <<Write(path, content)>>, e, j, ev, P)
    BY <1>10, SafeWrite DEF h, e
  <1> QED BY <1>3, <1>5, <1>7, <1>11 DEF Onward

LEMMA JoinTwo == \A a, b : <<a>> \o <<b>> = <<a, b>>
  <1> TAKE a, b
  <1> DEFINE p == <<a>> \o <<b>>
             q == <<a, b>>
             S == {a, b}
  <1>1. p \in Seq(S) /\ q \in Seq(S) /\ Len(p) = 2 /\ Len(q) = 2
   OBVIOUS
  <1>2. p[1] = q[1] /\ p[2] = q[2]
   OBVIOUS
  <1> HIDE DEF p, q, S
  <1>4. \A i \in 1 .. Len(p) : p[i] = q[i]
    BY <1>1, <1>2
  <1> QED BY <1>1, <1>4, SeqEqual DEF p, q

(* latest is set to the newest version, or back to a base.                 *)
IsLatest(d, v) == LatestFile \in DOMAIN d /\ d[LatestFile] = v

LEMMA LatestWritten ==
  ASSUME NEW d, NEW ev, NEW P, NEW n \in Nat, Registered(d, ev, P, n), NEW j, AskedOk(d, j),
         WorkflowDir \in DOMAIN d, NEW v \in 1 .. n,
         v = n \/ d[MetadataFile(v)].patch = NoPatch,
         j.at \notin Asking \/ ~RecordedIn(d, v)
  PROVE  \E e : /\ Safe(d, SetLatest(v), e, j, ev, P)
                /\ Registered(e, ev, P, n) /\ Onward(d, e, n) /\ AskedOk(e, j)
                /\ IsLatest(e, v)
                /\ \A q : IsInstalledRecord(q) => (q \in DOMAIN e <=> q \in DOMAIN d)
                                                  /\ (q \in DOMAIN d => e[q] = d[q])
  <1> DEFINE h == PutIn(d, LatestFile, Torn)
             e == PutIn(d, LatestFile, v)
  <1>1. /\ Registered(h, ev, P, n) /\ HistoryIn(h) = HistoryIn(d) /\ CurrentIn(h) = 0
        /\ Registered(e, ev, P, n) /\ SameVersions(d, e, n)
        /\ HistoryIn(e) = HistoryIn(d)
    BY PutLatest
  <1>2. CurrentIn(e) = IF v = Torn THEN 0 ELSE v
    BY PutLatest
  <1>3. HistoryIn(d) = [w \in 1 .. n |-> VersionIn(d, w)]
    BY WholeVersions DEF Registered
  <1>4. /\ DOMAIN h = DOMAIN d \cup {LatestFile} /\ h[LatestFile] = Torn
        /\ \A q \in DOMAIN d : q # LatestFile => h[q] = d[q]
        /\ DOMAIN e = DOMAIN d \cup {LatestFile} /\ e[LatestFile] = v
        /\ \A q \in DOMAIN d : q # LatestFile => e[q] = d[q]
    BY DEF PutIn
  <1> HIDE DEF h, e
  <1>5. Moves(HistoryIn(d), 0) /\ Moves(HistoryIn(d), v)
    <2> DEFINE past == HistoryIn(d)
    <2>1. DOMAIN past = 1 .. n /\ Len(past) = n /\ past[v].patch = d[MetadataFile(v)].patch
      BY <1>3 DEF VersionIn
    <2> HIDE DEF past
    <2>2. Moves(past, 0) /\ Moves(past, v)
      BY <2>1 DEF Moves
    <2> QED BY <2>2 DEF past
  <1>6. HistoryEdge(d, h) /\ HistoryEdge(h, e)
    BY <1>1, <1>2, <1>5 DEF HistoryEdge
  <1>7. AskedOk(h, j)
    BY <1>4 DEF AskedOk, ReadableIn
  <1>8. \A q : IsInstalledRecord(q) => q # LatestFile
    BY PathsApart DEF IsInstalledRecord
  <1>9. AskedOk(e, j)
    <2>1. RecordedIn(e, v) => RecordedIn(d, v)
      BY <1>4, <1>8 DEF RecordedIn
    <2> QED BY <1>4, <2>1 DEF AskedOk
  <1>10. RegistryEdge(d, h, j, ev, P) /\ RegistryEdge(h, e, j, ev, P)
    BY <1>1, <1>6, <1>7 DEF RegistryEdge
  <1>11. Safe(d, SetLatest(v), e, j, ev, P)
    BY <1>10, SafeWrite DEF h, e, SetLatest
  <1>12. Onward(d, e, n)
    BY <1>1, <1>4 DEF Onward
  <1>13. \A q : IsInstalledRecord(q) => (q \in DOMAIN e <=> q \in DOMAIN d)
                                        /\ (q \in DOMAIN d => e[q] = d[q])
    BY <1>4, <1>8
  <1>14. IsLatest(e, v)
    BY <1>4 DEF IsLatest
  <1> QED BY <1>1, <1>9, <1>11, <1>12, <1>13, <1>14

(* A new version: its program, then its metadata, and then it is latest.   *)
IsNew(d, ev, metadata, program, m) ==
  IsBaseline(metadata, program) \/ IsPatched(d, ev, metadata, program, m)

LEMMA VersionWritten ==
  ASSUME NEW d, NEW ev, NEW P, NEW n \in Nat, Registered(d, ev, P, n), NEW j, AskedOk(d, j),
         WorkflowDir \in DOMAIN d,
         NEW program \in Seq(P), NEW metadata, metadata # Torn, NEW m, m = n + 1,
         IsNew(d, ev, metadata, program, m)
  PROVE  \E e : /\ Safe(d, WriteVersion(m, program, metadata) \o SetLatest(m), e, j, ev, P)
                /\ Registered(e, ev, P, m) /\ Onward(d, e, n) /\ AskedOk(e, j)
                /\ IsLatest(e, m)
                /\ e[ProgramFile(m)] = program /\ e[MetadataFile(m)] = metadata
  <1> DEFINE h == PutIn(d, ProgramFile(m), Torn)
             e == PutIn(d, ProgramFile(m), program)
             k == PutIn(e, MetadataFile(m), Torn)
             f == PutIn(e, MetadataFile(m), metadata)
  <1>0. m \in Nat /\ n <= m /\ m \notin 1 .. n /\ m \in 1 .. m
    OBVIOUS
  <1>1. /\ Registered(h, ev, P, n) /\ SameHistory(d, h)
        /\ Registered(e, ev, P, n) /\ SameHistory(d, e) /\ SameVersions(d, e, n)
    <2> QED BY <1>0, PutProgram
  <1>2. /\ e[ProgramFile(m)] = program /\ DOMAIN e = DOMAIN d \cup {ProgramFile(m)}
        /\ \A q \in DOMAIN d : q # ProgramFile(m) => e[q] = d[q] /\ h[q] = d[q]
        /\ DOMAIN h = DOMAIN d \cup {ProgramFile(m)}
    BY DEF PutIn
  <1>3. Agree(d, h, {"latest"}) /\ Agree(d, e, {"latest"})
    BY PathsApart, PutInAgrees
  <1> HIDE DEF h, e
  <1>4. AskedOk(h, j) /\ AskedOk(e, j)
    <2>1. \A q : IsInstalledRecord(q) => q # ProgramFile(m)
      BY PathsApart DEF IsInstalledRecord
    <2>2. /\ \A q \in DOMAIN h : IsInstalledRecord(q) => q \in DOMAIN d /\ h[q] = d[q]
          /\ \A q \in DOMAIN e : IsInstalledRecord(q) => q \in DOMAIN d /\ e[q] = d[q]
      BY <1>2, <2>1
    <2> QED BY <1>3, <2>2, AskedKept
  <1>5. Safe(d, <<Write(ProgramFile(m), program)>>, e, j, ev, P)
    <2>1. HistoryEdge(d, h) /\ HistoryEdge(h, e)
      BY <1>1, SameIsEdge
    <2>2. RegistryEdge(d, h, j, ev, P) /\ RegistryEdge(h, e, j, ev, P)
      BY <1>1, <1>4, <2>1 DEF RegistryEdge
    <2> QED BY <2>2, SafeWrite DEF h, e
  <1>6. IsBaseline(metadata, program) \/ IsPatched(e, ev, metadata, program, m)
    <2> SUFFICES ASSUME IsPatched(d, ev, metadata, program, m)
                 PROVE  IsPatched(e, ev, metadata, program, m)
      BY DEF IsNew
    <2>1. PICK parent \in 1 .. m : \E patch :
            /\ parent # m /\ <<parent, patch>> \in ev
            /\ metadata = Metadata(parent, patch.id)
            /\ program = Append(d[ProgramFile(parent)], patch)
      BY DEF IsPatched
    <2>2. parent \in 1 .. n
      BY <2>1
    <2>3. e[ProgramFile(parent)] = d[ProgramFile(parent)]
      BY <1>1, <2>2 DEF SameVersions
    <2> QED BY <2>1, <2>3 DEF IsPatched
  <1>7. WorkflowDir \in DOMAIN e /\ ProgramFile(m) \in DOMAIN e
    BY <1>2
  <1>8. Registered(k, ev, P, n) /\ SameHistory(e, k)
    BY <1>1, <1>7, TearMetadata
  <1>9. /\ Registered(f, ev, P, m) /\ SameVersions(e, f, n)
        /\ Extends(HistoryIn(e), HistoryIn(f)) /\ CurrentIn(f) = CurrentIn(e)
    BY <1>1, <1>2, <1>6, <1>7, PutMetadata
  <1>10. /\ f[MetadataFile(m)] = metadata /\ DOMAIN f = DOMAIN e \cup {MetadataFile(m)}
         /\ \A q \in DOMAIN e : q # MetadataFile(m) => f[q] = e[q] /\ k[q] = e[q]
         /\ DOMAIN k = DOMAIN e \cup {MetadataFile(m)}
    BY DEF PutIn
  <1>11. Agree(e, k, {"latest"}) /\ Agree(e, f, {"latest"})
    BY PathsApart, PutInAgrees
  <1> HIDE DEF k, f
  <1>12. \A q : IsInstalledRecord(q) => q # MetadataFile(m) /\ q # ProgramFile(m)
    BY PathsApart DEF IsInstalledRecord
  <1>13. AskedOk(k, j) /\ AskedOk(f, j)
    BY <1>4, <1>10, <1>11, <1>12, AskedKept
  <1>14. Safe(e, <<Write(MetadataFile(m), metadata)>>, f, j, ev, P)
    <2>1. HistoryEdge(e, k) /\ HistoryEdge(k, f)
      BY <1>8, <1>9 DEF SameHistory, HistoryEdge
    <2>2. RegistryEdge(e, k, j, ev, P) /\ RegistryEdge(k, f, j, ev, P)
      BY <1>1, <1>4, <1>8, <1>13, <2>1 DEF RegistryEdge
    <2> QED BY <2>2, SafeWrite DEF k, f
  <1>15. ~RecordedIn(f, m)
    <2> SUFFICES ASSUME NEW q \in DOMAIN f, IsInstalledRecord(q), f[q] # Torn, f[q].target = m
                 PROVE  FALSE
      BY DEF RecordedIn
    <2>1. q \in DOMAIN d /\ f[q] = d[q]
      BY <1>2, <1>10, <1>12
    <2>2. f[q].target \in 1 .. n
      BY <2>1 DEF Registered, RecordsOk, RecordOk
    <2> QED BY <1>0, <2>2
  <1>16. PICK g : /\ Safe(f, SetLatest(m), g, j, ev, P)
                  /\ Registered(g, ev, P, m) /\ Onward(f, g, m) /\ AskedOk(g, j)
                  /\ IsLatest(g, m)
    <2>1. WorkflowDir \in DOMAIN f
      BY <1>7, <1>10
    <2> QED BY <1>0, <1>9, <1>13, <1>15, <2>1, LatestWritten
  <1>17. Onward(d, g, n)
    <2>1. SameVersions(f, g, n)
      <3>1. \A v \in 1 .. n : v \in 1 .. m
        BY <1>0
      <3> QED BY <1>16, <3>1 DEF Onward, SameVersions
    <2> QED BY <1>1, <1>2, <1>9, <1>10, <1>16, <2>1 DEF Onward, SameVersions
  <1>18. g[ProgramFile(m)] = program /\ g[MetadataFile(m)] = metadata
    <2>1. f[ProgramFile(m)] = program
      BY <1>2, <1>7, <1>10, PathsApart
    <2> QED BY <1>0, <1>10, <1>16, <2>1 DEF Onward, SameVersions
  <1>19. Safe(d, WriteVersion(m, program, metadata) \o SetLatest(m), g, j, ev, P)
    <2>1. Safe(d, <<Write(ProgramFile(m), program)>> \o <<Write(MetadataFile(m), metadata)>>,
               f, j, ev, P)
      BY <1>5, <1>14, SafeOn
    <2>2. <<Write(ProgramFile(m), program)>> \o <<Write(MetadataFile(m), metadata)>>
            = WriteVersion(m, program, metadata)
      BY JoinTwo, Zenon DEF WriteVersion
    <2>3. Safe(d, WriteVersion(m, program, metadata), f, j, ev, P)
      BY <2>1, <2>2
    <2> QED BY <1>16, <2>3, SafeOn
  <1> QED BY <1>16, <1>17, <1>18, <1>19

-----------------------------------------------------------------------------
(* What a job relies on, once its file operations are done.                *)
JobOk(d, j, ev, P, n) ==
  /\ j.at # "installed" => AskedOk(d, j)
  /\ j.at \in {"validate", "evaluate", "install"} =>
       /\ j = [at |-> j.at, attempts |-> j.attempts, asked |-> j.asked,
               patch |-> j.patch, base |-> j.base, program |-> j.program]
       /\ j.patch \in P /\ j.patch.id \in STRING
       /\ j.base \in 1 .. n
       /\ RecordFile("proposed", j.patch) \in DOMAIN d
  /\ j.at = "validate" => j.program = d[ProgramFile(j.base)]
  /\ j.at \in {"evaluate", "install"} =>
       /\ RecordFile("validated", j.patch) \in DOMAIN d
       /\ j.program = Append(d[ProgramFile(j.base)], j.patch)
  /\ j.at = "install" => <<j.base, j.patch>> \in ev

Ends(d, j, ev, P) == \E n \in Nat : Registered(d, ev, P, n) /\ JobOk(d, j, ev, P, n)

RegistryInv(d, queue, j, ev, P) ==
  \E e : Safe(d, queue, e, j, ev, P) /\ Ends(e, j, ev, P)

(* P holds what programs are made of, and no program is Torn.              *)
Instructions(P) ==
  /\ Bases \subseteq P /\ Patches \subseteq P
  /\ Torn \notin Seq(P)

LEMMA Drained ==
  ASSUME NEW d, NEW j, NEW ev, NEW P, RegistryInv(d, <<>>, j, ev, P)
  PROVE  Ends(d, j, ev, P)
  <1>1. PICK e : Safe(d, <<>>, e, j, ev, P) /\ Ends(e, j, ev, P)
    BY DEF RegistryInv
  <1>2. e = d
    BY <1>1, LeadsFrom DEF Safe
  <1> QED BY <1>1, <1>2

LEMMA Resting ==
  ASSUME NEW d, NEW j, NEW ev, NEW P, Ends(d, j, ev, P)
  PROVE  RegistryInv(d, <<>>, j, ev, P)
  BY SafeNowhere DEF RegistryInv

LEMMA UnderWay ==
  ASSUME NEW d, NEW queue, NEW j, NEW ev, NEW P, RegistryInv(d, queue, j, ev, P)
  PROVE  /\ \E n \in Nat : Registered(d, ev, P, n)
         /\ queue # <<>> => AskedOk(d, j)
  <1>1. PICK e : Safe(d, queue, e, j, ev, P) /\ Ends(e, j, ev, P)
    BY DEF RegistryInv
  <1>2. PICK edges : Leads(d, queue, e, edges) /\ \A p \in edges : RegistryEdge(p[1], p[2], j, ev, P)
    BY <1>1 DEF Safe
  <1>3. CASE queue = <<>>
    <2>1. e = d
      BY <1>2, <1>3, LeadsFrom
    <2> QED BY <1>1, <1>3, <2>1 DEF Ends
  <1>4. CASE queue # <<>>
    <2>1. PICK f : <<d, f>> \in edges
      BY <1>2, <1>4, LeadsFrom
    <2>2. RegistryEdge(<<d, f>>[1], <<d, f>>[2], j, ev, P)
      BY <1>2, <2>1
    <2>3. RegistryEdge(d, f, j, ev, P)
      BY <2>2
    <2> QED BY <2>3 DEF RegistryEdge
  <1> QED BY <1>3, <1>4

LEMMA FileStepKeeps ==
  ASSUME NEW j, NEW ev, NEW P, RegistryInv(disk, todo, j, ev, P), FileStep
  PROVE  RegistryInv(disk', todo', j, ev, P) /\ HistoryEdge(disk, disk')
  <1>1. PICK e : Safe(disk, todo, e, j, ev, P) /\ Ends(e, j, ev, P)
    BY DEF RegistryInv
  <1>2. PICK edges : Leads(disk, todo, e, edges) /\ \A p \in edges : RegistryEdge(p[1], p[2], j, ev, P)
    BY <1>1 DEF Safe
  <1>3. <<disk, disk'>> \in edges /\ Leads(disk', todo', e, edges)
    BY <1>2, LeadsAway
  <1>4. Safe(disk', todo', e, j, ev, P)
    BY <1>2, <1>3 DEF Safe
  <1>5. RegistryEdge(<<disk, disk'>>[1], <<disk, disk'>>[2], j, ev, P)
    BY <1>2, <1>3
  <1>6. HistoryEdge(disk, disk')
    BY <1>5 DEF RegistryEdge
  <1> QED BY <1>1, <1>4, <1>6 DEF RegistryInv

LEMMA MoreEvaluated ==
  ASSUME NEW d, NEW ev, NEW more, ev \subseteq more, NEW P, NEW n \in Nat, Registered(d, ev, P, n)
  PROVE  Registered(d, more, P, n)
  <1>1. ASSUME NEW v \in 1 .. n PROVE VersionOk(d, more, P, v)
    <2>1. VersionOk(d, ev, P, v)
      BY DEF Registered, RegistryOk
    <2>2. IsPatched(d, ev, d[MetadataFile(v)], d[ProgramFile(v)], v)
            => IsPatched(d, more, d[MetadataFile(v)], d[ProgramFile(v)], v)
      BY DEF IsPatched
    <2> QED BY <2>1, <2>2 DEF VersionOk
  <1> QED BY <1>1 DEF Registered, RegistryOk

LEMMA NextNumber ==
  ASSUME NEW ev, NEW P, NEW n \in Nat, Registered(disk, ev, P, n), CanList
  PROVE  NextVersion = n + 1 /\ Listed = 1 .. n
  <1>1. Listed = ListedIn(disk)
    BY DEF Listed, ListedIn
  <1>2. Listed = 1 .. n
    <2>1. \A v \in Listed : v \in 1 .. n + 1 /\ ReadableIn(disk, MetadataFile(v))
      BY <1>1, WholeVersions DEF Registered, CanList, Readable, Exists, ReadableIn
    <2>2. \A v \in Listed : v # n + 1
      BY <2>1 DEF Registered, RegistryOk
    <2>3. \A v \in 1 .. n + 1 : v # n + 1 => v \in 1 .. n
      OBVIOUS
    <2> QED BY <1>1, <2>1, <2>2, <2>3, WholeVersions DEF Registered
  <1>3. Max(1 .. n \cup {0}) = n
    <2> DEFINE S == 1 .. n \cup {0}
    <2>1. n \in S /\ (\A y \in S : n >= y) /\ \A x \in S : x \in Nat
      OBVIOUS
    <2>2. Max(S) \in S /\ \A y \in S : Max(S) >= y
      <3> HIDE DEF S
      <3> QED BY <2>1 DEF Max
    <2> QED BY <2>1, <2>2
  <1> QED BY <1>2, <1>3 DEF NextVersion

LEMMA JoinJoined ==
  ASSUME NEW S, NEW p \in Seq(S), NEW q \in Seq(S), NEW r \in Seq(S)
  PROVE  (p \o q) \o r = p \o (q \o r)
  OBVIOUS

LEMMA MetadataWhole ==
  ASSUME NEW parent \in Nat, NEW id \in STRING
  PROVE  Metadata(parent, id) # Torn /\ Baseline # Torn
  BY RegistryAssumption DEF Metadata, Baseline

(* init-workflow finds no version.                                         *)
IsFirst(d, base) == IsLatest(d, 1) /\ d[ProgramFile(1)] = <<base>>

LEMMA InitWritten ==
  ASSUME NEW d, NEW ev, NEW P, Instructions(P), NEW n \in Nat, Registered(d, ev, P, n),
         WorkflowDir \notin DOMAIN d, NEW j, j.at \notin Asking, NEW base \in Bases
  PROVE  \E e : /\ Safe(d, InitWorkflow(<<base>>), e, j, ev, P)
                /\ Registered(e, ev, P, 1)
                /\ IsFirst(e, base)
  <1>0. AskedOk(d, j)
    BY DEF AskedOk
  <1>1. n = 0
    <2> SUFFICES ASSUME n # 0 PROVE FALSE
      OBVIOUS
    <2>1. 1 \in 1 .. n
      OBVIOUS
    <2>2. MetadataFile(1) \in DOMAIN d
      BY <2>1 DEF Registered, RegistryOk, VersionOk, ReadableIn
    <2>3. MetadataFile(1)[1] = "metadata"
      BY PathsApart
    <2> QED BY <2>2, <2>3 DEF Registered, RegistryOk
  <1> DEFINE e == PutIn(d, WorkflowDir, "directory")
             f == PutIn(e, WorkflowFile, "metadata")
  <1>2. /\ Registered(e, ev, P, n) /\ SameHistory(d, e) /\ WorkflowDir \in DOMAIN e
    <2>1. WorkflowDir[1] \notin {"program", "metadata", "latest"} /\ ~IsInstalledRecord(WorkflowDir)
      BY PathsApart DEF IsInstalledRecord
    <2>2. WorkflowDir \in DOMAIN e
      BY DEF PutIn
    <2> QED BY <2>1, <2>2, PutElsewhere
  <1> HIDE DEF e
  <1>3. AskedOk(e, j)
    BY DEF AskedOk
  <1>4. Safe(d, <<MakeDir(WorkflowDir)>>, e, j, ev, P)
    <2>1. HistoryEdge(d, e)
      BY <1>2 DEF HistoryEdge
    <2>2. RegistryEdge(d, e, j, ev, P)
      BY <1>0, <2>1 DEF RegistryEdge
    <2> QED BY <2>2, SafeMakeDir DEF e
  <1>5. /\ Safe(e, <<Write(WorkflowFile, "metadata")>>, f, j, ev, P)
        /\ Registered(f, ev, P, n) /\ Onward(e, f, n) /\ AskedOk(f, j)
    <2>1. /\ WorkflowFile[1] \notin {"program", "metadata", "latest"}
          /\ ~IsInstalledRecord(WorkflowFile)
      BY PathsApart DEF IsInstalledRecord
    <2> QED BY <1>2, <1>3, <2>1, WriteElsewhere
  <1> HIDE DEF f
  <1>6. WorkflowDir \in DOMAIN f
    BY <1>2, <1>5 DEF Onward
  <1>7. <<base>> \in Seq(P) /\ IsBaseline(Baseline, <<base>>) /\ Baseline # Torn
    <2>1. base \in P
      BY DEF Instructions
    <2>2. NoPatch \in STRING /\ 0 \in Nat
      BY RegistryAssumption
    <2> QED BY <2>1, <2>2, MetadataWhole DEF IsBaseline
  <1>8. PICK g : /\ Safe(f, WriteVersion(1, <<base>>, Baseline) \o SetLatest(1), g, j, ev, P)
                 /\ Registered(g, ev, P, 1) /\ IsLatest(g, 1)
                 /\ g[ProgramFile(1)] = <<base>>
    <2> DEFINE program == <<base>>
    <2>1. program \in Seq(P) /\ Baseline # Torn /\ \A m : IsNew(f, ev, Baseline, program, m)
      BY <1>7 DEF IsNew
    <2> HIDE DEF program
    <2>2. ASSUME NEW m, m = n + 1
          PROVE  \E g : /\ Safe(f, WriteVersion(m, program, Baseline) \o SetLatest(m), g, j, ev, P)
                        /\ Registered(g, ev, P, m) /\ Onward(f, g, n) /\ AskedOk(g, j)
                        /\ IsLatest(g, m)
                        /\ g[ProgramFile(m)] = program /\ g[MetadataFile(m)] = Baseline
      BY <1>5, <1>6, <2>1, <2>2, VersionWritten
    <2>3. 1 = n + 1
      BY <1>1
    <2> QED BY <2>2, <2>3 DEF program
  <1> DEFINE a == <<MakeDir(WorkflowDir)>> \o <<Write(WorkflowFile, "metadata")>>
             b == WriteVersion(1, <<base>>, Baseline)
             c == SetLatest(1)
  <1>10. Safe(d, a \o (b \o c), g, j, ev, P)
    <2>1. Safe(d, a, f, j, ev, P)
      BY <1>4, <1>5, SafeOn
    <2>2. Safe(f, b \o c, g, j, ev, P)
      BY <1>8
    <2> HIDE DEF a, b, c
    <2> QED BY <2>1, <2>2, SafeOn
  <1>11. InitWorkflow(<<base>>) = a \o (b \o c)
    <2> DEFINE mk == MakeDir(WorkflowDir)
               wf == Write(WorkflowFile, "metadata")
               pf == Write(ProgramFile(1), <<base>>)
               mf == Write(MetadataFile(1), Baseline)
               lf == Write(LatestFile, 1)
               S  == {mk, wf, pf, mf, lf}
    <2>1. a = <<mk, wf>> /\ b = <<pf, mf>> /\ c = <<lf>>
      BY JoinTwo DEF WriteVersion, SetLatest
    <2>2. <<mk, wf>> \in Seq(S) /\ <<pf, mf>> \in Seq(S) /\ <<lf>> \in Seq(S)
      <3> HIDE DEF mk, wf, pf, mf, lf
      <3> QED OBVIOUS
    <2>3. InitWorkflow(<<base>>) = (a \o b) \o c
      BY <2>1 DEF InitWorkflow
    <2> HIDE DEF a, b, c, mk, wf, pf, mf, lf, S
    <2> QED BY <2>1, <2>2, <2>3, JoinJoined
  <1> HIDE DEF a, b, c
  <1> QED BY <1>8, <1>10, <1>11 DEF IsFirst

-----------------------------------------------------------------------------
(* The actions of the commands.                                            *)
Registry(P) == RegistryInv(disk, todo, job, evaluated, P)

LEMMA Begun ==
  ASSUME NEW d, NEW queue, NEW e, NEW j, NEW ev, NEW P, NEW n \in Nat,
         Safe(d, queue, e, j, ev, P), Registered(e, ev, P, n), JobOk(e, j, ev, P, n)
  PROVE  RegistryInv(d, queue, j, ev, P)
  BY DEF RegistryInv, Ends

LEMMA IdleOk ==
  ASSUME NEW d, NEW j, j.at \notin Asking, NEW ev, NEW P, NEW n
  PROVE  AskedOk(d, j) /\ JobOk(d, j, ev, P, n)
  BY DEF JobOk, AskedOk, Asking

NextOf(j) ==
  IF j.attempts > 1 THEN [at |-> "ask", attempts |-> j.attempts - 1, asked |-> j.asked] ELSE Idle

LEMMA NextJobOk ==
  ASSUME NEW d, NEW j, j.at \in Asking, AskedOk(d, j), NEW ev, NEW P, NEW n
  PROVE  AskedOk(d, NextOf(j)) /\ JobOk(d, NextOf(j), ev, P, n)
  <1> DEFINE k == NextOf(j)
  <1>1. k.at = "idle" \/ (k.at = "ask" /\ k.asked = j.asked)
    BY DEF NextOf, Idle
  <1> HIDE DEF k
  <1>2. AskedOk(d, k)
    BY <1>1 DEF AskedOk, Asking
  <1>3. JobOk(d, k, ev, P, n)
    BY <1>1, <1>2 DEF JobOk
  <1> QED BY <1>2, <1>3 DEF k

LEMMA FromRest ==
  ASSUME NEW P, Registry(P), todo = <<>>
  PROVE  \E n \in Nat : Registered(disk, evaluated, P, n) /\ JobOk(disk, job, evaluated, P, n)
  BY Drained DEF Registry, Ends

LEMMA ToRest ==
  ASSUME NEW P, NEW n \in Nat, todo' = <<>>, disk' = disk,
         Registered(disk, evaluated', P, n), JobOk(disk, job', evaluated', P, n)
  PROVE  Registry(P)'
  <1>1. Ends(disk', job', evaluated', P)
    BY DEF Ends
  <1> QED BY <1>1, Resting DEF Registry

LEMMA Underway ==
  ASSUME NEW P, NEW n \in Nat, disk' = disk, NEW e,
         Safe(disk, todo', e, job', evaluated', P),
         Registered(e, evaluated', P, n), JobOk(e, job', evaluated', P, n)
  PROVE  Registry(P)'
  <1>1. RegistryInv(disk', todo', job', evaluated', P)
    BY Begun
  <1> QED BY <1>1 DEF Registry

LEMMA InitCommandKeeps ==
  ASSUME NEW P, Instructions(P), Registry(P), NEW base \in Bases, InitWorkflowCommand(base)
  PROVE  Registry(P)'
  <1>1. PICK n \in Nat : Registered(disk, evaluated, P, n)
    BY FromRest DEF InitWorkflowCommand, Free
  <1>2. job' = job /\ job.at \notin Asking /\ evaluated' = evaluated /\ disk' = disk
    BY DEF InitWorkflowCommand, Free, Idle, Asking
  <1>3. PICK e : Safe(disk, InitWorkflow(<<base>>), e, job, evaluated, P) /\ Registered(e, evaluated, P, 1)
    BY <1>1, <1>2, InitWritten DEF InitWorkflowCommand, Exists
  <1>4. JobOk(e, job, evaluated, P, 1)
    BY <1>2, IdleOk
  <1> QED BY <1>2, <1>3, <1>4, Underway DEF InitWorkflowCommand

LEMMA OptimizeKeeps ==
  ASSUME NEW P, Registry(P), NEW attempts, Optimize(attempts)
  PROVE  Registry(P)'
  <1>1. PICK n \in Nat : Registered(disk, evaluated, P, n)
    BY FromRest DEF Optimize, Free
  <1>2. /\ job' = [at |-> "ask", attempts |-> attempts, asked |-> disk[LatestFile]]
        /\ evaluated' = evaluated /\ disk' = disk /\ todo' = <<>>
    BY DEF Optimize, Free, Latest
  <1>3. JobOk(disk, job', evaluated, P, n)
    BY <1>2 DEF JobOk, AskedOk
  <1> QED BY <1>1, <1>2, <1>3, ToRest

LEMMA NoPatchKeeps ==
  ASSUME NEW P, Registry(P), NoPatchReturned \/ EvaluationFails
  PROVE  Registry(P)'
  <1>1. PICK n \in Nat : Registered(disk, evaluated, P, n) /\ JobOk(disk, job, evaluated, P, n)
    BY FromRest DEF NoPatchReturned, EvaluationFails, At
  <1>2. /\ job.at \in {"ask", "evaluate"} /\ job' = NextOf(job)
        /\ evaluated' = evaluated /\ disk' = disk /\ todo' = <<>>
    BY DEF NoPatchReturned, EvaluationFails, At, NextAttempt, NextOf
  <1>3. job.at \in Asking /\ AskedOk(disk, job)
    BY <1>1, <1>2 DEF JobOk, Asking
  <1>4. JobOk(disk, job', evaluated, P, n)
    BY <1>2, <1>3, NextJobOk
  <1> QED BY <1>1, <1>2, <1>4, ToRest

LEMMA ProposeKeeps ==
  ASSUME NEW P, Registry(P), NEW patch \in P, patch.id \in STRING, Propose(patch)
  PROVE  Registry(P)'
  <1>1. PICK n \in Nat : Registered(disk, evaluated, P, n) /\ JobOk(disk, job, evaluated, P, n)
    BY FromRest DEF Propose, At
  <1> DEFINE base == disk[LatestFile]
             j == [at |-> "validate", attempts |-> job.attempts, asked |-> job.asked,
                   patch |-> patch, base |-> base, program |-> disk[ProgramFile(base)]]
  <1>2. /\ job' = j /\ todo' = Record("proposed", patch, base)
        /\ job.at = "ask" /\ evaluated' = evaluated /\ disk' = disk
    BY DEF Propose, At, Latest
  <1>3. base \in 1 .. n
    BY <1>1 DEF Propose, CanLoadLatest, Readable, Exists, Registered, RegistryOk, ReadableIn
  <1>4. /\ j.at = "validate" /\ j.asked = job.asked /\ j.patch = patch /\ j.base = base
        /\ j.program = disk[ProgramFile(base)]
        /\ j = [at |-> j.at, attempts |-> j.attempts, asked |-> j.asked,
                patch |-> j.patch, base |-> j.base, program |-> j.program]
    OBVIOUS
  <1> HIDE DEF j, base
  <1>5. AskedOk(disk, j)
    BY <1>1, <1>2, <1>4 DEF JobOk, AskedOk, Asking
  <1>6. PICK e : /\ Safe(disk, Record("proposed", patch, base), e, j, evaluated, P)
                 /\ Registered(e, evaluated, P, n) /\ Onward(disk, e, n) /\ AskedOk(e, j)
                 /\ RecordFile("proposed", patch) \in DOMAIN e
    BY <1>1, <1>5, RecordWritten
  <1>7. e[ProgramFile(base)] = disk[ProgramFile(base)]
    BY <1>3, <1>6 DEF Onward, SameVersions
  <1>8. JobOk(e, j, evaluated, P, n)
    BY <1>3, <1>4, <1>6, <1>7 DEF JobOk
  <1> QED BY <1>2, <1>6, <1>8, Underway

LEMMA ValidateKeeps ==
  ASSUME NEW P, Registry(P), NEW valid, Validate(valid)
  PROVE  Registry(P)'
  <1>1. PICK n \in Nat : Registered(disk, evaluated, P, n) /\ JobOk(disk, job, evaluated, P, n)
    BY FromRest DEF Validate, At
  <1>2. job.at = "validate" /\ evaluated' = evaluated /\ disk' = disk
    BY DEF Validate, At
  <1>3. AskedOk(disk, job)
    BY <1>1, <1>2 DEF JobOk
  <1>4. CASE valid
    <2> DEFINE j == [at |-> "evaluate", attempts |-> job.attempts, asked |-> job.asked,
                     patch |-> job.patch, base |-> job.base,
                     program |-> Append(job.program, job.patch)]
    <2>1. /\ job = [at |-> job.at, attempts |-> job.attempts, asked |-> job.asked,
                    patch |-> job.patch, base |-> job.base, program |-> job.program]
          /\ job.patch \in P /\ job.patch.id \in STRING /\ job.base \in 1 .. n
          /\ RecordFile("proposed", job.patch) \in DOMAIN disk
          /\ job.program = disk[ProgramFile(job.base)]
      BY <1>1, <1>2 DEF JobOk
    <2>2. todo' = Record("validated", job.patch, job.base)
      BY <1>4 DEF Validate
    <2>3. job' = j
      <3>1. job' = [job EXCEPT !.at = "evaluate", !.program = Append(@, job.patch)]
        BY <1>4 DEF Validate
      <3> QED BY <2>1, <3>1
    <2>4. /\ j.at = "evaluate" /\ j.asked = job.asked /\ j.patch = job.patch /\ j.base = job.base
          /\ j.program = Append(job.program, job.patch)
          /\ j = [at |-> j.at, attempts |-> j.attempts, asked |-> j.asked,
                  patch |-> j.patch, base |-> j.base, program |-> j.program]
      OBVIOUS
    <2> HIDE DEF j
    <2>5. AskedOk(disk, j)
      BY <1>2, <1>3, <2>4 DEF AskedOk, Asking
    <2>6. PICK e : /\ Safe(disk, Record("validated", job.patch, job.base), e, j, evaluated, P)
                   /\ Registered(e, evaluated, P, n) /\ Onward(disk, e, n) /\ AskedOk(e, j)
                   /\ RecordFile("validated", job.patch) \in DOMAIN e
      BY <1>1, <2>5, RecordWritten
    <2>7. e[ProgramFile(job.base)] = disk[ProgramFile(job.base)] /\ DOMAIN disk \subseteq DOMAIN e
      BY <2>1, <2>6 DEF Onward, SameVersions
    <2>8. JobOk(e, j, evaluated, P, n)
      BY <2>1, <2>4, <2>6, <2>7 DEF JobOk
    <2> QED BY <1>2, <2>2, <2>3, <2>6, <2>8, Underway
  <1>5. CASE ~valid
    <2>1. todo' = Record("rejected", job.patch, job.base) /\ job' = NextOf(job)
      BY <1>5 DEF Validate, RejectPatch, NextAttempt, NextOf
    <2>2. AskedOk(disk, job')
      BY <1>2, <1>3, <2>1, NextJobOk DEF Asking
    <2>3. PICK e : /\ Safe(disk, todo', e, job', evaluated, P)
                   /\ Registered(e, evaluated, P, n) /\ AskedOk(e, job')
      BY <1>1, <2>1, <2>2, RecordWritten
    <2>4. job'.at = "idle" \/ job'.at = "ask"
      BY <2>1 DEF NextOf, Idle
    <2>5. JobOk(e, job', evaluated, P, n)
      BY <2>3, <2>4 DEF JobOk
    <2> QED BY <1>2, <2>3, <2>5, Underway
  <1> QED BY <1>4, <1>5

LEMMA EvaluateKeeps ==
  ASSUME NEW P, Registry(P), NEW accepted, Evaluate(accepted)
  PROVE  Registry(P)'
  <1>1. PICK n \in Nat : Registered(disk, evaluated, P, n) /\ JobOk(disk, job, evaluated, P, n)
    BY FromRest DEF Evaluate, At
  <1>2. job.at = "evaluate" /\ disk' = disk /\ todo = <<>>
    BY DEF Evaluate, At
  <1>3. AskedOk(disk, job)
    BY <1>1, <1>2 DEF JobOk
  <1>4. CASE accepted
    <2> DEFINE j == [at |-> "install", attempts |-> job.attempts, asked |-> job.asked,
                     patch |-> job.patch, base |-> job.base, program |-> job.program]
    <2>1. /\ job = [at |-> job.at, attempts |-> job.attempts, asked |-> job.asked,
                    patch |-> job.patch, base |-> job.base, program |-> job.program]
          /\ job.patch \in P /\ job.patch.id \in STRING /\ job.base \in 1 .. n
          /\ RecordFile("proposed", job.patch) \in DOMAIN disk
          /\ RecordFile("validated", job.patch) \in DOMAIN disk
          /\ job.program = Append(disk[ProgramFile(job.base)], job.patch)
      BY <1>1, <1>2 DEF JobOk
    <2>2. /\ todo' = <<>> /\ job' = [job EXCEPT !.at = "install"]
          /\ evaluated' = evaluated \cup {<<job.base, job.patch>>}
      BY <1>2, <1>4 DEF Evaluate
    <2>3. job' = j
      BY <2>1, <2>2
    <2>4. /\ j.at = "install" /\ j.asked = job.asked /\ j.patch = job.patch /\ j.base = job.base
          /\ j.program = job.program
          /\ j = [at |-> j.at, attempts |-> j.attempts, asked |-> j.asked,
                  patch |-> j.patch, base |-> j.base, program |-> j.program]
      OBVIOUS
    <2> HIDE DEF j
    <2>5. AskedOk(disk, j)
      BY <1>2, <1>3, <2>4 DEF AskedOk, Asking
    <2>6. Registered(disk, evaluated', P, n)
      BY <1>1, <2>2, MoreEvaluated
    <2>7. <<j.base, j.patch>> \in evaluated'
      BY <2>2, <2>4
    <2>8. JobOk(disk, j, evaluated', P, n)
      BY <2>1, <2>4, <2>5, <2>7 DEF JobOk
    <2> QED BY <1>2, <2>2, <2>3, <2>6, <2>8, ToRest
  <1>5. CASE ~accepted
    <2>1. /\ todo' = Record("rejected", job.patch, job.base) /\ job' = NextOf(job)
          /\ evaluated' = evaluated
      BY <1>5 DEF Evaluate, RejectPatch, NextAttempt, NextOf
    <2>2. AskedOk(disk, job')
      BY <1>2, <1>3, <2>1, NextJobOk DEF Asking
    <2>3. PICK e : /\ Safe(disk, todo', e, job', evaluated, P)
                   /\ Registered(e, evaluated, P, n) /\ AskedOk(e, job')
      BY <1>1, <2>1, <2>2, RecordWritten
    <2>4. job'.at = "idle" \/ job'.at = "ask"
      BY <2>1 DEF NextOf, Idle
    <2>5. JobOk(e, job', evaluated, P, n)
      BY <2>3, <2>4 DEF JobOk
    <2> QED BY <1>2, <2>1, <2>3, <2>5, Underway
  <1> QED BY <1>4, <1>5

(* The version and the record of a patch that passed evaluation.           *)
PatchVersion(m, program, base, patch) ==
  WriteVersion(m, program, Metadata(base, patch.id)) \o SetLatest(m)
PatchInstalled(m, program, base, patch) ==
  PatchVersion(m, program, base, patch) \o Record("installed", patch, m)

(* Version m is the patched program.                                       *)
HoldsPatch(d, m, program, patch) ==
  RecordOk(d, m, [patch |-> patch, target |-> m]) /\ d[ProgramFile(m)] = program

LEMMA PatchVersionWritten ==
  ASSUME NEW d, NEW ev, NEW P, NEW n \in Nat, Registered(d, ev, P, n), NEW j, AskedOk(d, j),
         NEW patch \in P, patch.id \in STRING, NEW base \in 1 .. n, <<base, patch>> \in ev,
         RecordFile("proposed", patch) \in DOMAIN d, RecordFile("validated", patch) \in DOMAIN d,
         NEW program, program = Append(d[ProgramFile(base)], patch), NEW m, m = n + 1
  PROVE  \E e : /\ Safe(d, PatchVersion(m, program, base, patch), e, j, ev, P)
                /\ Registered(e, ev, P, m) /\ AskedOk(e, j) /\ HoldsPatch(e, m, program, patch)
  <1> DEFINE metadata == Metadata(base, patch.id)
  <1>0. m \in Nat /\ m \in 1 .. m
    OBVIOUS
  <1>1. VersionOk(d, ev, P, base)
    BY DEF Registered, RegistryOk
  <1>2. WorkflowDir \in DOMAIN d
    <2>1. MetadataFile(base) \in DOMAIN d /\ MetadataFile(base)[1] = "metadata"
      BY <1>1, PathsApart DEF VersionOk, ReadableIn
    <2> QED BY <2>1 DEF Registered, RegistryOk
  <1>3. program \in Seq(P) /\ program[Len(program)] = patch
    BY <1>1 DEF VersionOk
  <1>4. metadata # Torn /\ metadata.patch = patch.id
    <2>1. base \in Nat
      OBVIOUS
    <2> QED BY <2>1, MetadataWhole DEF Metadata
  <1>5. IsNew(d, ev, metadata, program, m)
    <2>1. base \in 1 .. m /\ base # m
      OBVIOUS
    <2> QED BY <2>1 DEF IsPatched, IsNew
  <1> HIDE DEF metadata
  <1>6. PICK e : /\ Safe(d, WriteVersion(m, program, metadata) \o SetLatest(m), e, j, ev, P)
                 /\ Registered(e, ev, P, m) /\ Onward(d, e, n) /\ AskedOk(e, j)
                 /\ IsLatest(e, m)
                 /\ e[ProgramFile(m)] = program /\ e[MetadataFile(m)] = metadata
    <2> DEFINE Written(p, md) ==
                 \E e : /\ Safe(d, WriteVersion(m, p, md) \o SetLatest(m), e, j, ev, P)
                        /\ Registered(e, ev, P, m) /\ Onward(d, e, n) /\ AskedOk(e, j)
                        /\ IsLatest(e, m)
                        /\ e[ProgramFile(m)] = p /\ e[MetadataFile(m)] = md
    <2>1. ASSUME NEW p \in Seq(P), NEW md, md # Torn, IsNew(d, ev, md, p, m)
          PROVE  Written(p, md)
      BY <1>2, <2>1, VersionWritten
    <2>2. program \in Seq(P) /\ metadata # Torn
      BY <1>3, <1>4
    <2>3. Written(program, metadata)
      <3> HIDE DEF Written
      <3> QED BY <1>5, <2>1, <2>2
    <2> QED BY <2>3
  <1>7. RecordOk(e, m, [patch |-> patch, target |-> m])
    <2> DEFINE r == [patch |-> patch, target |-> m]
    <2>1. r.patch = patch /\ r.target = m
      OBVIOUS
    <2> HIDE DEF r
    <2>2. DOMAIN d \subseteq DOMAIN e
      BY <1>6 DEF Onward
    <2>3. RecordOk(e, m, r)
      BY <1>0, <1>3, <1>4, <1>6, <2>1, <2>2 DEF RecordOk
    <2> QED BY <2>3 DEF r
  <1>8. Safe(d, PatchVersion(m, program, base, patch), e, j, ev, P)
    BY <1>6 DEF PatchVersion, metadata
  <1> QED BY <1>6, <1>7, <1>8 DEF HoldsPatch

LEMMA PatchWritten ==
  ASSUME NEW d, NEW ev, NEW P, NEW n \in Nat, Registered(d, ev, P, n), NEW j, AskedOk(d, j),
         NEW patch \in P, patch.id \in STRING, NEW base \in 1 .. n, <<base, patch>> \in ev,
         RecordFile("proposed", patch) \in DOMAIN d, RecordFile("validated", patch) \in DOMAIN d,
         NEW program, program = Append(d[ProgramFile(base)], patch), NEW m, m = n + 1
  PROVE  \E e : /\ Safe(d, PatchInstalled(m, program, base, patch), e, j, ev, P)
                /\ Registered(e, ev, P, m)
  <1>1. PICK e : /\ Safe(d, PatchVersion(m, program, base, patch), e, j, ev, P)
                 /\ Registered(e, ev, P, m) /\ AskedOk(e, j) /\ HoldsPatch(e, m, program, patch)
    BY PatchVersionWritten
  <1>2. m \in Nat
    OBVIOUS
  <1>3. PICK f : /\ Safe(e, Record("installed", patch, m), f, j, ev, P)
                 /\ Registered(f, ev, P, m)
    BY <1>1, <1>2, InstalledWritten DEF HoldsPatch
  <1> DEFINE a == PatchVersion(m, program, base, patch)
             b == Record("installed", patch, m)
  <1>4. Safe(d, a, e, j, ev, P) /\ Safe(e, b, f, j, ev, P)
    BY <1>1, <1>3
  <1> HIDE DEF a, b
  <1>5. Safe(d, a \o b, f, j, ev, P)
    BY <1>4, SafeOn
  <1> QED BY <1>3, <1>5 DEF PatchInstalled, a, b

LEMMA InstallKeeps ==
  ASSUME NEW P, Instructions(P), Registry(P), Install
  PROVE  Registry(P)'
  <1>1. PICK n \in Nat : Registered(disk, evaluated, P, n) /\ JobOk(disk, job, evaluated, P, n)
    BY FromRest DEF Install, At
  <1>2. job.at = "install" /\ evaluated' = evaluated /\ disk' = disk /\ todo = <<>>
    BY DEF Install, At
  <1>3. AskedOk(disk, job)
    BY <1>1, <1>2 DEF JobOk
  <1>4. CASE CanList
    <2>1. /\ job.patch \in P /\ job.patch.id \in STRING /\ job.base \in 1 .. n
          /\ RecordFile("proposed", job.patch) \in DOMAIN disk
          /\ RecordFile("validated", job.patch) \in DOMAIN disk
          /\ job.program = Append(disk[ProgramFile(job.base)], job.patch)
          /\ <<job.base, job.patch>> \in evaluated
      BY <1>1, <1>2 DEF JobOk
    <2>2. /\ todo' = InstallVersion(job.program, Metadata(job.base, job.patch.id))
                       \o Record("installed", job.patch, NextVersion)
          /\ job' = [at |-> "installed", attempts |-> job.attempts, asked |-> job.asked]
      BY <1>4 DEF Install, InstallAndMark
    <2>3. NextVersion = n + 1
      BY <1>1, <1>4, NextNumber
    <2>4. todo' = PatchInstalled(n + 1, job.program, job.base, job.patch)
      BY <2>2, <2>3 DEF InstallVersion, PatchInstalled, PatchVersion
    <2>5. AskedOk(disk, job')
      BY <1>2, <1>3, <2>2 DEF AskedOk, Asking
    <2>6. PICK m : m \in Nat /\ m = n + 1
      OBVIOUS
    <2>7. PICK e : /\ Safe(disk, PatchInstalled(m, job.program, job.base, job.patch), e, job',
                           evaluated, P)
                   /\ Registered(e, evaluated, P, m)
      BY <1>1, <2>1, <2>5, <2>6, PatchWritten
    <2>8. Safe(disk, todo', e, job', evaluated, P)
      BY <2>4, <2>6, <2>7
    <2>9. JobOk(e, job', evaluated, P, m)
      BY <2>2 DEF JobOk
    <2> QED BY <1>2, <2>6, <2>7, <2>8, <2>9, Underway
  <1>5. CASE ~CanList
    <2>1. todo' = <<>> /\ job' = NextOf(job)
      BY <1>2, <1>5 DEF Install, NextAttempt, NextOf
    <2>2. job.at \in Asking
      BY <1>2 DEF Asking
    <2>3. JobOk(disk, job', evaluated, P, n)
      BY <1>3, <2>1, <2>2, NextJobOk
    <2> QED BY <1>1, <1>2, <2>1, <2>3, ToRest
  <1> QED BY <1>4, <1>5

(* A command that stops or fails leaves whatever its writes have reached.  *)
LEMMA StopsKeep ==
  ASSUME NEW P, Registry(P), Installed \/ AttemptFails \/ Stop
  PROVE  Registry(P)'
  <1>1. PICK n \in Nat : Registered(disk, evaluated, P, n)
    BY UnderWay DEF Registry
  <1>2. evaluated' = evaluated /\ disk' = disk /\ todo' = <<>>
    BY DEF Installed, AttemptFails, Stop, At
  <1>3. CASE job' = Idle
    <2>1. JobOk(disk, job', evaluated, P, n)
      BY <1>3, IdleOk DEF Idle, Asking
    <2> QED BY <1>1, <1>2, <2>1, ToRest
  <1>4. CASE AttemptFails
    <2>1. job.at \in Asking /\ AskedOk(disk, job)
      BY <1>4, UnderWay DEF AttemptFails, Registry, Asking
    <2>2. job' = NextOf(job) \/ (job.at = "ask" /\ job' = job)
      BY <1>4 DEF AttemptFails, NextAttempt, NextOf
    <2>3. JobOk(disk, job', evaluated, P, n)
      <3>1. CASE job' = NextOf(job)
        BY <2>1, <3>1, NextJobOk
      <3>2. CASE job.at = "ask" /\ job' = job
        BY <2>1, <3>2 DEF JobOk
      <3> QED BY <2>2, <3>1, <3>2
    <2> QED BY <1>1, <1>2, <2>3, ToRest
  <1> QED BY <1>3, <1>4 DEF Installed, Stop

LEMMA FileOperationKeeps ==
  ASSUME NEW P, Registry(P), FileOperation
  PROVE  Registry(P)' /\ HistoryEdge(disk, disk')
  <1>1. job' = job /\ evaluated' = evaluated /\ FileStep
    BY DEF FileOperation
  <1> QED BY <1>1, FileStepKeeps DEF Registry

LEMMA InstallerKeeps ==
  ASSUME NEW P, Instructions(P), Registry(P), InstallerStep
  PROVE  Registry(P)'
  <1>1. \A patch \in Patches : patch \in P /\ patch.id \in STRING
    BY PatchAssumption DEF Instructions
  <1> QED BY <1>1, InitCommandKeeps, OptimizeKeeps, NoPatchKeeps, ProposeKeeps, ValidateKeeps,
             EvaluateKeeps, InstallKeeps, StopsKeep, FileOperationKeeps DEF InstallerStep

LEMMA RegistryStart ==
  ASSUME NEW P, InstallerInit
  PROVE  Registry(P)
  <1>1. disk = [path \in {} |-> Torn] /\ todo = <<>> /\ job = Idle
    BY DEF InstallerInit
  <1>2. DOMAIN disk = {} /\ 0 \in Nat /\ 1 .. 0 = {}
    BY <1>1
  <1>3. RegistryOk(disk, evaluated, P, 0) /\ RecordsOk(disk, 0)
    BY <1>2 DEF RegistryOk, RecordsOk, ReadableIn
  <1>4. JobOk(disk, job, evaluated, P, 0)
    BY <1>1, IdleOk DEF Idle, Asking
  <1>5. Ends(disk, job, evaluated, P)
    BY <1>2, <1>3, <1>4 DEF Ends, Registered
  <1> QED BY <1>1, <1>5, Resting DEF Registry

LEMMA RegistryStays ==
  ASSUME NEW P, Registry(P), disk' = disk, todo' = todo, job' = job, evaluated' = evaluated
  PROVE  Registry(P)'
  BY DEF Registry

(* What a registry promises to those that read it.                         *)
LEMMA RegistryPromises ==
  ASSUME NEW P, Instructions(P), Registry(P)
  PROVE  EvaluatedOnParent /\ RecordsTellVersions
  <1>1. PICK n \in Nat : Registered(disk, evaluated, P, n)
    BY UnderWay DEF Registry
  <1>2. Whole = 1 .. n
    <2>1. Whole = WholeIn(disk)
      BY DEF Whole, WholeIn, Listed, ListedIn, Readable, Exists, ReadableIn
    <2> QED BY <1>1, <2>1, WholeVersions DEF Registered
  <1>3. ASSUME NEW v \in 1 .. n
        PROVE  /\ disk[ProgramFile(v)] \in Seq(P) /\ Readable(ProgramFile(v))
               /\ PatchOf(v) # NoPatch =>
                    LET program == disk[ProgramFile(v)]
                    IN <<disk[MetadataFile(v)].parent, program[Len(program)]>> \in evaluated
    <2>1. VersionOk(disk, evaluated, P, v)
      BY <1>1 DEF Registered, RegistryOk
    <2>2. Readable(ProgramFile(v)) /\ disk[ProgramFile(v)] \in Seq(P)
      BY <2>1 DEF VersionOk, Instructions, Readable, Exists
    <2>3. ASSUME PatchOf(v) # NoPatch
          PROVE  <<disk[MetadataFile(v)].parent,
                   disk[ProgramFile(v)][Len(disk[ProgramFile(v)])]>> \in evaluated
      <3>1. ~IsBaseline(disk[MetadataFile(v)], disk[ProgramFile(v)])
        BY <2>3 DEF PatchOf, IsBaseline, Baseline, Metadata
      <3>2. PICK parent \in 1 .. v, patch \in {p : p \in {disk[ProgramFile(v)][Len(disk[ProgramFile(v)])]}} :
              <<parent, patch>> \in evaluated /\ disk[MetadataFile(v)] = Metadata(parent, patch.id)
        <4>1. PICK parent \in 1 .. v : \E patch :
                /\ parent # v
                /\ <<parent, patch>> \in evaluated
                /\ disk[MetadataFile(v)] = Metadata(parent, patch.id)
                /\ disk[ProgramFile(v)] = Append(disk[ProgramFile(parent)], patch)
          BY <2>1, <3>1 DEF VersionOk, IsPatched
        <4>2. PICK patch :
                /\ parent # v
                /\ <<parent, patch>> \in evaluated
                /\ disk[MetadataFile(v)] = Metadata(parent, patch.id)
                /\ disk[ProgramFile(v)] = Append(disk[ProgramFile(parent)], patch)
          BY <4>1
        <4>3. disk[ProgramFile(parent)] \in Seq(P)
          BY <1>1, <4>2 DEF Registered, RegistryOk, VersionOk
        <4>4. disk[ProgramFile(v)][Len(disk[ProgramFile(v)])] = patch
          BY <4>2, <4>3
        <4> QED BY <4>2, <4>4
      <3>3. disk[MetadataFile(v)].parent = parent
        BY <3>2 DEF Metadata
      <3> QED BY <3>2, <3>3
    <2> QED BY <2>2, <2>3
  <1>4. EvaluatedOnParent
    BY <1>2, <1>3 DEF EvaluatedOnParent
  <1>5. RecordsTellVersions
    <2> SUFFICES ASSUME NEW path \in DOMAIN disk, path[1] = "record", path[2] = "installed",
                        disk[path] # Torn
                 PROVE  /\ Exists(RecordFile("proposed", disk[path].patch))
                        /\ Exists(RecordFile("validated", disk[path].patch))
                        /\ disk[path].target \in Whole
                        /\ PatchOf(disk[path].target) = disk[path].patch.id
                        /\ LET program == disk[ProgramFile(disk[path].target)]
                           IN program[Len(program)] = disk[path].patch
      BY DEF RecordsTellVersions
    <2>1. RecordOk(disk, n, disk[path])
      BY <1>1 DEF Registered, RecordsOk, IsInstalledRecord
    <2> QED BY <1>2, <2>1 DEF RecordOk, Exists, PatchOf
  <1> QED BY <1>4, <1>5

(* A step of the disk is a step of the history, or none.                   *)
LEMMA HistoryIs ==
  /\ HistoryIn(disk) = [v \in 1 .. Cardinality(Whole) |-> Version(v)]
  /\ CurrentIn(disk) = IF Readable(LatestFile) THEN Latest ELSE 0
  <1>1. Whole = WholeIn(disk)
    BY DEF Whole, WholeIn, Listed, ListedIn, Readable, Exists, ReadableIn
  <1>2. \A v : Version(v) = VersionIn(disk, v)
    BY DEF Version, VersionIn, PatchOf, Exists
  <1>3. CurrentIn(disk) = IF Readable(LatestFile) THEN Latest ELSE 0
    BY DEF CurrentIn, Readable, Exists, ReadableIn, Latest
  <1> QED BY <1>1, <1>2, <1>3 DEF HistoryIn

HistoryStep ==
  [History!Install \/ History!Move]_<<[v \in 1 .. Cardinality(Whole) |-> Version(v)],
                                      IF Readable(LatestFile) THEN Latest ELSE 0>>

LEMMA EdgeIsStep ==
  ASSUME HistoryEdge(disk, disk') \/ disk' = disk
  PROVE  HistoryStep
  <1> DEFINE h == [v \in 1 .. Cardinality(Whole) |-> Version(v)]
             c == IF Readable(LatestFile) THEN Latest ELSE 0
  <1>1. h = HistoryIn(disk) /\ c = CurrentIn(disk)
    BY HistoryIs
  <1>2. h' = HistoryIn(disk') /\ c' = CurrentIn(disk')
    <2>1. (HistoryIn(disk) = h /\ CurrentIn(disk) = c)'
      BY HistoryIs, PTL
    <2> QED BY <2>1
  <1>3. CASE disk' = disk
    BY <1>1, <1>2, <1>3 DEF HistoryStep
  <1>4. CASE SameHistory(disk, disk')
    BY <1>1, <1>2, <1>4 DEF HistoryStep, SameHistory
  <1>5. CASE Extends(HistoryIn(disk), HistoryIn(disk')) /\ CurrentIn(disk') = CurrentIn(disk)
    <2>1. Extends(h, h') /\ c' = c
      BY <1>1, <1>2, <1>5
    <2> HIDE DEF h, c
    <2>2. History!Install
      BY <2>1 DEF History!Install, History!IsBase, History!IsDerived, Extends, h, c
    <2> QED BY <2>2 DEF HistoryStep
  <1>6. CASE HistoryIn(disk') = HistoryIn(disk) /\ Moves(HistoryIn(disk), CurrentIn(disk'))
    <2>1. h' = h /\ Moves(h, c')
      BY <1>1, <1>2, <1>6
    <2>2. History!Move
      BY <2>1 DEF History!Move, Moves
    <2> QED BY <2>2 DEF HistoryStep
  <1> QED BY <1>3, <1>4, <1>5, <1>6 DEF HistoryEdge

-----------------------------------------------------------------------------
(* Operations that spare kinds of files.                                   *)
LEMMA SparesJoin ==
  ASSUME NEW S, NEW p \in Seq(S), NEW q \in Seq(S), NEW kinds,
         Spares(p, kinds), Spares(q, kinds)
  PROVE  Spares(p \o q, kinds) /\ p \o q \in Seq(S)
  <1>1. PICK m \in Nat, n \in Nat : m = Len(p) /\ n = Len(q)
    OBVIOUS
  <1> DEFINE r == p \o q
  <1>2. r \in Seq(S) /\ Len(r) = m + n
        /\ \A i \in 1 .. m + n : r[i] = IF i <= m THEN p[i] ELSE q[i - m]
    BY <1>1
  <1> HIDE DEF r
  <1>3. ASSUME NEW i \in 1 .. m + n PROVE r[i].path[1] \notin kinds
    <2>1. CASE i <= m
      <3>1. i \in 1 .. Len(p) /\ r[i] = p[i]
        BY <1>1, <1>2, <2>1
      <3> QED BY <3>1 DEF Spares
    <2>2. CASE ~(i <= m)
      <3>1. i - m \in 1 .. Len(q) /\ r[i] = q[i - m]
        BY <1>1, <1>2, <2>2
      <3>2. PICK k \in 1 .. Len(q) : r[i] = q[k]
        BY <3>1
      <3> QED BY <3>2 DEF Spares
    <2> QED BY <2>1, <2>2
  <1>4. Spares(r, kinds)
    BY <1>2, <1>3 DEF Spares
  <1> QED BY <1>2, <1>4 DEF r

LEMMA SparesOne ==
  ASSUME NEW o, NEW kinds, o.path[1] \notin kinds
  PROVE  Spares(<<o>>, kinds)
  BY DEF Spares

LEMMA SparesTwo ==
  ASSUME NEW a, NEW b, NEW kinds, a.path[1] \notin kinds, b.path[1] \notin kinds
  PROVE  Spares(<<a, b>>, kinds)
  <1> DEFINE q == <<a, b>>
  <1>1. Len(q) = 2 /\ q[1] = a /\ q[2] = b
    OBVIOUS
  <1> HIDE DEF q
  <1>2. Spares(q, kinds)
    <2>1. \A i \in 1 .. 2 : i = 1 \/ i = 2
      OBVIOUS
    <2> QED BY <1>1, <2>1 DEF Spares
  <1> QED BY <1>2 DEF q

LEMMA AgreeLess ==
  ASSUME NEW d, NEW e, NEW kinds, NEW less, less \subseteq kinds, Agree(d, e, kinds)
  PROVE  Agree(d, e, less)
  BY DEF Agree

(* The streams.                                                            *)
LEMMA PlainWritten ==
  ASSUME NEW d, NEW ev, NEW P, NEW n \in Nat, Registered(d, ev, P, n), NEW j, j.at \notin Asking,
         NEW path, NEW content, path[1] \notin {"program", "metadata", "latest", "record"}
  PROVE  LET e == PutIn(d, path, content)
         IN Safe(d, <<Write(path, content)>>, e, j, ev, P) /\ Registered(e, ev, P, n)
  <1>1. AskedOk(d, j) /\ ~IsInstalledRecord(path)
    BY DEF AskedOk, IsInstalledRecord
  <1> QED BY <1>1, WriteElsewhere

-----------------------------------------------------------------------------
(* What programs are made of.                                              *)
Known == Bases \cup Patches

LEMMA KnownInstructions == Instructions(Known)
  BY TornAssumption DEF Instructions, Known

LEMMA InstallerStepKeeps ==
  ASSUME Registry(Known), [InstallerStep]_installerVars
  PROVE  Registry(Known)' /\ HistoryStep
  <1>1. CASE FileOperation
    BY <1>1, FileOperationKeeps, EdgeIsStep
  <1>2. CASE InstallerStep /\ ~FileOperation
    <2>1. disk' = disk
      BY <1>2 DEF InstallerStep, InitWorkflowCommand, Optimize, NoPatchReturned, Propose,
            Validate, Evaluate, EvaluationFails, Install, Installed, AttemptFails, Stop
    <2> QED BY <1>2, <2>1, KnownInstructions, InstallerKeeps, EdgeIsStep
  <1>3. CASE UNCHANGED installerVars
    BY <1>3, RegistryStays, EdgeIsStep DEF installerVars
  <1> QED BY <1>1, <1>2, <1>3, InstallerKeeps, KnownInstructions

(* Commands start on an empty disk, whose history is empty.                *)
LEMMA HistoryStart ==
  ASSUME InstallerInit
  PROVE  History!Init
  <1>1. DOMAIN disk = {}
    BY DEF InstallerInit
  <1>2. Whole = {} /\ ~Readable(LatestFile)
    BY <1>1 DEF Whole, Listed, Readable, Exists
  <1>3. Cardinality(Whole) = 0
    BY <1>2, FS_EmptySet
  <1>4. 1 .. 0 = {}
    OBVIOUS
  <1>5. [v \in 1 .. Cardinality(Whole) |-> Version(v)] = <<>>
    BY <1>3, <1>4
  <1> QED BY <1>2, <1>5 DEF History!Init

-----------------------------------------------------------------------------
(* The invariant of the commands that change programs: whatever was begun, *)
(* every disk its remaining file operations lead through holds versions    *)
(* 1 to n, each a base or its parent and one evaluated patch, records that *)
(* tell the truth of them, and a latest file that names one of them.       *)
THEOREM RegistryInvariance == InstallerSpec => []Registry(Known)
  <1>1. InstallerInit => Registry(Known)
    BY RegistryStart
  <1>2. Registry(Known) /\ [InstallerStep]_installerVars => Registry(Known)'
    BY InstallerStepKeeps
  <1> QED BY <1>1, <1>2, PTL DEF InstallerSpec

(* patch_installer.rs 89: whatever stops a command, and wherever, no       *)
(* version of the registry holds a patch that was not evaluated on its     *)
(* parent.                                                                 *)
THEOREM InstalledWasEvaluated == InstallerSpec => []EvaluatedOnParent
  <1>1. Registry(Known) => EvaluatedOnParent
    BY KnownInstructions, RegistryPromises
  <1> QED BY <1>1, RegistryInvariance, PTL

(* program_registry.rs 156: the files of the registry implement            *)
(* ProgramHistory.  Of the file operations one extends the history, the    *)
(* filling of a metadata file; those on the latest file move the current   *)
(* version, and all others are stutters of it, under any stop or failure.  *)
THEOREM HistoryImplemented == InstallerSpec => HistoryKept
  <1>1. InstallerInit => History!Init
    BY HistoryStart
  <1>2. Registry(Known) /\ [InstallerStep]_installerVars => HistoryStep
    BY InstallerStepKeeps
  <1>3. InstallerSpec =>
          [][History!Install \/ History!Move]_<<[v \in 1 .. Cardinality(Whole) |-> Version(v)],
                                                IF Readable(LatestFile) THEN Latest ELSE 0>>
    BY <1>2, RegistryInvariance, PTL DEF InstallerSpec, HistoryStep
  <1> QED BY <1>1, <1>3, PTL DEF InstallerSpec, HistoryKept, History!Spec
=============================================================================
