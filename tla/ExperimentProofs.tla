-------------------------- MODULE ExperimentProofs --------------------------
(***************************************************************************)
(* For any experiments, configurations, plans, events, patches and number  *)
(* of starts, each stopped at any file operation.                          *)
(***************************************************************************)
EXTENDS ExperimentProperties, InstallerProofs

-----------------------------------------------------------------------------
(* The disks a queue goes over on its way from d to e.                     *)
Goes(d, queue, e, disks) ==
  /\ d \in disks /\ e \in disks
  /\ Leads(d, queue, e, disks \X disks)

LEMMA GoesNowhere ==
  ASSUME NEW d
  PROVE  Goes(d, <<>>, d, {d})
  BY LeadsNowhere DEF Goes

LEMMA GoesMore ==
  ASSUME NEW d, NEW queue, NEW e, NEW disks, NEW more, disks \subseteq more,
         Goes(d, queue, e, disks)
  PROVE  Goes(d, queue, e, more)
  <1>1. disks \X disks \subseteq more \X more
    OBVIOUS
  <1>2. Leads(d, queue, e, disks \X disks)
    BY DEF Goes
  <1> HIDE DEF Goes
  <1>3. Leads(d, queue, e, more \X more)
    BY <1>1, <1>2, LeadsMore
  <1> QED BY <1>3 DEF Goes

LEMMA GoesOn ==
  ASSUME NEW d, NEW p, NEW e, NEW q, NEW f, NEW A, NEW B,
         Goes(d, p, e, A), Goes(e, q, f, B)
  PROVE  Goes(d, p \o q, f, A \cup B)
  <1> DEFINE C == A \cup B
  <1>1. A \subseteq C /\ B \subseteq C
    OBVIOUS
  <1> HIDE DEF C
  <1>2. Goes(d, p, e, C) /\ Goes(e, q, f, C)
    BY <1>1, GoesMore
  <1>3. Leads(d, p \o q, f, C \X C)
    BY <1>2, LeadsOn DEF Goes
  <1>4. Goes(d, p \o q, f, C)
    BY <1>2, <1>3 DEF Goes
  <1> QED BY <1>4 DEF C

LEMMA GoesOver ==
  ASSUME NEW d, NEW o, NEW e, NEW edges, Performs(d, o, e, edges),
         NEW disks, d \in disks, e \in disks, edges \subseteq disks \X disks
  PROVE  Goes(d, <<o>>, e, disks)
  <1>1. Leads(d, <<o>>, e, edges)
    BY LeadsOver
  <1>2. Leads(d, <<o>>, e, disks \X disks)
    BY <1>1, LeadsMore
  <1> QED BY <1>2 DEF Goes

(* One operation.                                                          *)
IsPlain(o) == o.op \in Operations /\ (o.op = "write" => IsWrite(o))

LEMMA GoesStep ==
  ASSUME NEW d, NEW o, IsPlain(o)
  PROVE  Goes(d, <<o>>, Done(d, o), {d, Half(d, o), Done(d, o)})
  <1> DEFINE h == Half(d, o)
             e == Done(d, o)
             edges == {<<d, h>>, <<h, e>>, <<d, e>>}
             disks == {d, h, e}
  <1>1. Performs(d, o, e, edges)
    BY DEF Performs, IsPlain
  <1>2. edges \subseteq disks \X disks /\ d \in disks /\ e \in disks
    OBVIOUS
  <1> HIDE DEF edges, disks, e
  <1>3. Goes(d, <<o>>, e, disks)
    BY <1>1, <1>2, GoesOver
  <1> QED BY <1>3 DEF disks, e

LEMMA WriteIsPlain ==
  ASSUME NEW path, NEW content
  PROVE  IsPlain(Write(path, content)) /\ Write(path, content).path = path
  BY WriteOperation DEF IsPlain, Operations

LEMMA GoesWrite ==
  ASSUME NEW d, NEW path, NEW content
  PROVE  Goes(d, <<Write(path, content)>>, PutIn(d, path, content),
              {d, PutIn(d, path, Torn), PutIn(d, path, content)})
  <1> DEFINE o == Write(path, content)
  <1>1. o.op = "write" /\ o.path = path /\ o.content = content /\ IsPlain(o)
    BY WriteOperation, WriteIsPlain
  <1> HIDE DEF o
  <1>2. Half(d, o) = PutIn(d, path, Torn) /\ Done(d, o) = PutIn(d, path, content)
    BY <1>1 DEF Half, Done
  <1>3. Goes(d, <<o>>, Done(d, o), {d, Half(d, o), Done(d, o)})
    BY <1>1, GoesStep
  <1> QED BY <1>2, <1>3 DEF o

(* A file operation stays on the way.                                      *)
LEMMA GoesAway ==
  ASSUME NEW e, NEW disks, Goes(disk, todo, e, disks), FileStep
  PROVE  disk' \in disks /\ Goes(disk', todo', e, disks)
  <1>1. <<disk, disk'>> \in disks \X disks /\ Leads(disk', todo', e, disks \X disks)
    BY LeadsAway DEF Goes
  <1> QED BY <1>1 DEF Goes

LEMMA GoesDrained ==
  ASSUME NEW d, NEW e, NEW disks, Goes(d, <<>>, e, disks)
  PROVE  e = d
  BY LeadsFrom DEF Goes

-----------------------------------------------------------------------------
(* What a queue leaves alone: the files it has no operation on, and, of    *)
(* those it has, the ones it does not remove stay there.                   *)
PathsOf(queue)   == {queue[i].path : i \in 1 .. Len(queue)}
RemovedBy(queue) == {queue[i].path : i \in {k \in 1 .. Len(queue) : queue[k].op = "remove"}}

Follows(d, e, paths, removed) ==
  /\ \A q : q \notin paths => (q \in DOMAIN d <=> q \in DOMAIN e)
                              /\ (q \in DOMAIN d => e[q] = d[q])
  /\ \A q \in DOMAIN d : q \notin removed => q \in DOMAIN e

LEMMA FollowsFurther ==
  ASSUME NEW d, NEW e, NEW f, NEW paths, NEW removed,
         Follows(d, e, paths, removed), Follows(e, f, paths, removed)
  PROVE  Follows(d, f, paths, removed)
  BY DEF Follows

LEMMA FollowsSelf ==
  ASSUME NEW d, NEW paths, NEW removed
  PROVE  Follows(d, d, paths, removed)
  BY DEF Follows

LEMMA DoneFollows ==
  ASSUME NEW d, NEW o, IsPlain(o), NEW paths, NEW removed, o.path \in paths,
         o.op = "remove" => o.path \in removed
  PROVE  Follows(d, Done(d, o), paths, removed) /\ Follows(d, Half(d, o), paths, removed)
  <1>1. \A content : Follows(d, PutIn(d, o.path, content), paths, removed)
    BY DEF Follows, PutIn
  <1>2. Follows(d, Half(d, o), paths, removed)
    BY <1>1 DEF Half
  <1>3. CASE o.op = "remove"
    <2>1. Done(d, o) = [q \in DOMAIN d \ {o.path} |-> d[q]]
      BY <1>3 DEF Done
    <2> QED BY <1>2, <1>3, <2>1 DEF Follows
  <1>4. CASE o.op # "remove"
    <2>1. \E content : Done(d, o) = PutIn(d, o.path, content)
      BY <1>4 DEF Done, IsPlain, Operations
    <2> QED BY <1>1, <1>2, <2>1
  <1> QED BY <1>3, <1>4

AllPlain(queue) ==
  /\ \E S : queue \in Seq(S)
  /\ \A i \in 1 .. Len(queue) : IsPlain(queue[i])

Ways(d, queue, e, disks, paths, removed) ==
  Goes(d, queue, e, disks) /\ \A x \in disks : Follows(d, x, paths, removed)

LEMMA PrefixGrows ==
  ASSUME NEW S, NEW queue \in Seq(S), NEW k \in Nat, NEW m, m = k + 1, m <= Len(queue)
  PROVE  SubSeq(queue, 1, m) = SubSeq(queue, 1, k) \o <<queue[m]>>
  <1> DEFINE a == SubSeq(queue, 1, m)
             p == SubSeq(queue, 1, k)
             b == p \o <<queue[m]>>
  <1>1. m \in Nat /\ k <= Len(queue) /\ queue[m] \in S
    OBVIOUS
  <1>2. a \in Seq(S) /\ Len(a) = m /\ \A i \in 1 .. m : a[i] = queue[i]
    BY <1>1
  <1>3. p \in Seq(S) /\ Len(p) = k /\ \A i \in 1 .. k : p[i] = queue[i]
    BY <1>1
  <1> HIDE DEF p, a
  <1>4. b \in Seq(S) /\ Len(b) = m /\ \A i \in 1 .. m : b[i] = IF i <= k THEN p[i] ELSE queue[m]
    BY <1>1, <1>3
  <1> HIDE DEF b
  <1>5. \A i \in 1 .. m : a[i] = b[i]
    <2> TAKE i \in 1 .. m
    <2>1. CASE i <= k
      <3>1. i \in 1 .. k
        BY <2>1
      <3> QED BY <1>2, <1>3, <1>4, <2>1, <3>1
    <2>2. CASE ~(i <= k)
      <3>1. i = m
        BY <2>2
      <3> QED BY <1>2, <1>4, <2>2, <3>1
    <2> QED BY <2>1, <2>2
  <1> HIDE DEF a
  <1>6. a = b
    BY <1>1, <1>2, <1>4, <1>5, SeqEqual
  <1> QED BY <1>6 DEF a, b, p

LEMMA PlainGoes ==
  ASSUME NEW d, NEW queue, AllPlain(queue)
  PROVE  \E e, disks : Ways(d, queue, e, disks, PathsOf(queue), RemovedBy(queue))
  <1>1. PICK S : queue \in Seq(S)
    BY DEF AllPlain
  <1>2. PICK n \in Nat : n = Len(queue)
    BY <1>1
  <1> DEFINE Paths == PathsOf(queue)
             Removed == RemovedBy(queue)
             Reached(k) == \E e, disks : Ways(d, SubSeq(queue, 1, k), e, disks, Paths, Removed)
             Bad == {k \in 0 .. n : ~Reached(k)}
  <1>3. \A i \in 1 .. n : /\ IsPlain(queue[i]) /\ queue[i].path \in Paths
                          /\ queue[i].op = "remove" => queue[i].path \in Removed
    BY <1>2 DEF AllPlain, PathsOf, RemovedBy
  <1>4. SubSeq(queue, 1, n) = queue /\ SubSeq(queue, 1, 0) = <<>>
    BY <1>1, <1>2
  <1> HIDE DEF Paths, Removed
  <1>5. Reached(0)
    <2>1. Goes(d, <<>>, d, {d}) /\ Follows(d, d, Paths, Removed)
      BY GoesNowhere, FollowsSelf
    <2>2. Ways(d, SubSeq(queue, 1, 0), d, {d}, Paths, Removed)
      BY <1>4, <2>1 DEF Ways
    <2> QED BY <2>2
  <1>6. ASSUME NEW k \in Nat, NEW m, m = k + 1, m <= n, Reached(k)
        PROVE  Reached(m)
    <2> DEFINE p == SubSeq(queue, 1, k)
               o == queue[m]
    <2>1. PICK e, disks : Ways(d, p, e, disks, Paths, Removed)
      BY <1>6
    <2>2. m \in 1 .. n
      BY <1>6
    <2>3. /\ IsPlain(o) /\ o.path \in Paths
          /\ o.op = "remove" => o.path \in Removed
      BY <1>3, <2>2
    <2>4. SubSeq(queue, 1, m) = p \o <<o>>
      BY <1>1, <1>2, <1>6, PrefixGrows
    <2> DEFINE f == Done(e, o)
               more == disks \cup {e, Half(e, o), f}
    <2> HIDE DEF p, o
    <2>5. Goes(e, <<o>>, f, {e, Half(e, o), f})
      BY <2>3, GoesStep
    <2>6. Goes(d, p \o <<o>>, f, more)
      BY <2>1, <2>5, GoesOn DEF Ways
    <2>7. Follows(e, f, Paths, Removed) /\ Follows(e, Half(e, o), Paths, Removed)
      BY <2>3, DoneFollows
    <2>8. e \in disks
      BY <2>1 DEF Ways, Goes
    <2>9. \A x \in more : Follows(d, x, Paths, Removed)
      BY <2>1, <2>7, <2>8, FollowsFurther DEF Ways
    <2> HIDE DEF more, f
    <2>10. Ways(d, SubSeq(queue, 1, m), f, more, Paths, Removed)
      BY <2>4, <2>6, <2>9 DEF Ways
    <2> QED BY <2>10
  <1>7. Bad = {}
    <2> SUFFICES ASSUME Bad # {} PROVE FALSE
      OBVIOUS
    <2>1. Bad \subseteq Nat
      BY <1>2
    <2>2. PICK m \in Bad : \A k \in Bad : m <= k
      BY <2>1, LeastNumber
    <2>3. m \in 0 .. n /\ ~Reached(m)
      OBVIOUS
    <2>4. m # 0
      BY <1>5, <2>3
    <2>5. PICK k \in Nat : m = k + 1
      BY <1>2, <2>3, <2>4
    <2>6. k \notin Bad /\ k \in 0 .. n
      BY <1>2, <2>2, <2>3, <2>5
    <2>7. Reached(k)
      BY <2>6
    <2> HIDE DEF Reached, Bad
    <2> QED BY <1>2, <1>6, <2>3, <2>5, <2>7
  <1>8. Reached(n)
    BY <1>2, <1>7
  <1> QED BY <1>4, <1>8 DEF Paths, Removed

-----------------------------------------------------------------------------
(* The files a queue may write and remove.                                 *)
Within(queue, paths, removed) ==
  AllPlain(queue) /\ PathsOf(queue) \subseteq paths /\ RemovedBy(queue) \subseteq removed

LEMMA WithinMore ==
  ASSUME NEW queue, NEW paths, NEW removed, Within(queue, paths, removed),
         NEW more, NEW gone, paths \subseteq more, removed \subseteq gone
  PROVE  Within(queue, more, gone)
  BY DEF Within

LEMMA WithinNone == Within(<<>>, {}, {})
  <1>1. <<>> \in Seq({}) /\ Len(<<>>) = 0 /\ 1 .. 0 = {}
    OBVIOUS
  <1> QED BY <1>1 DEF Within, AllPlain, PathsOf, RemovedBy

LEMMA WithinOne ==
  ASSUME NEW o, IsPlain(o)
  PROVE  Within(<<o>>, {o.path}, IF o.op = "remove" THEN {o.path} ELSE {})
  <1> DEFINE q == <<o>>
  <1>1. q \in Seq({o}) /\ Len(q) = 1 /\ q[1] = o /\ 1 .. 1 = {1}
    OBVIOUS
  <1> HIDE DEF q
  <1>2. AllPlain(q)
    BY <1>1 DEF AllPlain
  <1>3. PathsOf(q) \subseteq {o.path} /\ RemovedBy(q) \subseteq IF o.op = "remove" THEN {o.path} ELSE {}
    BY <1>1 DEF PathsOf, RemovedBy
  <1>4. Within(q, {o.path}, IF o.op = "remove" THEN {o.path} ELSE {})
    BY <1>2, <1>3 DEF Within
  <1> QED BY <1>4 DEF q

LEMMA WithinWrite ==
  ASSUME NEW path, NEW content
  PROVE  Within(<<Write(path, content)>>, {path}, {})
  <1> DEFINE o == Write(path, content)
  <1>1. IsPlain(o) /\ o.path = path /\ o.op # "remove"
    BY WriteOperation, WriteIsPlain
  <1> HIDE DEF o
  <1>2. Within(<<o>>, {path}, {})
    BY <1>1, WithinOne
  <1> QED BY <1>2 DEF o

LEMMA WithinJoin ==
  ASSUME NEW p, NEW A, NEW R, Within(p, A, R), NEW q, NEW B, NEW T, Within(q, B, T)
  PROVE  Within(p \o q, A \cup B, R \cup T)
  <1>1. PICK S1, S2 : p \in Seq(S1) /\ q \in Seq(S2)
    BY DEF Within, AllPlain
  <1>2. PICK S : S1 \subseteq S /\ S2 \subseteq S
    <2>1. S1 \subseteq S1 \cup S2 /\ S2 \subseteq S1 \cup S2
      OBVIOUS
    <2> QED BY <2>1
  <1>3. p \in Seq(S) /\ q \in Seq(S)
    BY <1>1, <1>2
  <1> DEFINE r == p \o q
  <1>4. PICK m \in Nat, n \in Nat : m = Len(p) /\ n = Len(q)
    BY <1>3
  <1>5. r \in Seq(S) /\ Len(r) = m + n
        /\ \A i \in 1 .. m + n : r[i] = IF i <= m THEN p[i] ELSE q[i - m]
    BY <1>3, <1>4
  <1> HIDE DEF r
  <1>6. ASSUME NEW i \in 1 .. Len(r)
        PROVE  \/ \E k \in 1 .. Len(p) : r[i] = p[k]
               \/ \E k \in 1 .. Len(q) : r[i] = q[k]
    <2>1. CASE i <= m
      <3>1. i \in 1 .. Len(p) /\ r[i] = p[i]
        BY <1>4, <1>5, <2>1
      <3> QED BY <3>1
    <2>2. CASE ~(i <= m)
      <3>1. i - m \in 1 .. Len(q) /\ r[i] = q[i - m]
        BY <1>4, <1>5, <2>2
      <3> QED BY <3>1
    <2> QED BY <2>1, <2>2
  <1>7. AllPlain(r)
    BY <1>5, <1>6 DEF AllPlain, Within
  <1>8. PathsOf(r) \subseteq A \cup B
    <2> SUFFICES ASSUME NEW i \in 1 .. Len(r) PROVE r[i].path \in A \cup B
      BY DEF PathsOf
    <2>1. (\A k \in 1 .. Len(p) : p[k].path \in A) /\ (\A k \in 1 .. Len(q) : q[k].path \in B)
      BY DEF Within, PathsOf
    <2> QED BY <1>6, <2>1
  <1>9. RemovedBy(r) \subseteq R \cup T
    <2> SUFFICES ASSUME NEW i \in 1 .. Len(r), r[i].op = "remove" PROVE r[i].path \in R \cup T
      BY DEF RemovedBy
    <2>1. /\ \A k \in 1 .. Len(p) : p[k].op = "remove" => p[k].path \in R
          /\ \A k \in 1 .. Len(q) : q[k].op = "remove" => q[k].path \in T
      BY DEF Within, RemovedBy
    <2> QED BY <1>6, <2>1
  <1>10. Within(r, A \cup B, R \cup T)
    BY <1>7, <1>8, <1>9 DEF Within
  <1> QED BY <1>10 DEF r

LEMMA WithinGoes ==
  ASSUME NEW d, NEW queue, NEW paths, NEW removed, Within(queue, paths, removed)
  PROVE  \E e, disks : Ways(d, queue, e, disks, paths, removed)
  <1>1. PICK e, disks : Ways(d, queue, e, disks, PathsOf(queue), RemovedBy(queue))
    BY PlainGoes DEF Within
  <1>2. ASSUME NEW x \in disks PROVE Follows(d, x, paths, removed)
    <2>1. Follows(d, x, PathsOf(queue), RemovedBy(queue))
      BY <1>1 DEF Ways
    <2> QED BY <2>1 DEF Follows, Within
  <1> QED BY <1>1, <1>2 DEF Ways

(* Lines appended to a file that was not there are its content.            *)
HoldsLines(e, path, records, k) ==
  IF k = 0 THEN path \notin DOMAIN e
  ELSE path \in DOMAIN e /\ e[path] = SubSeq(records, 1, k)

LinesOf(path, records) == [i \in DOMAIN records |-> AppendLine(path, records[i])]

LEMMA LinePlain ==
  ASSUME NEW path, NEW line
  PROVE  LET o == AppendLine(path, line)
         IN IsPlain(o) /\ o.op = "append" /\ o.path = path /\ o.content = line
  BY DEF AppendLine, IsPlain, Operations

LEMMA LinesPlain ==
  ASSUME NEW path, NEW S, NEW records \in Seq(S)
  PROVE  /\ Len(LinesOf(path, records)) = Len(records)
         /\ \E T : LinesOf(path, records) \in Seq(T)
         /\ \A i \in 1 .. Len(records) : LinesOf(path, records)[i] = AppendLine(path, records[i])
         /\ Within(LinesOf(path, records), {path}, {})
  <1> DEFINE queue == LinesOf(path, records)
             T == {AppendLine(path, records[i]) : i \in DOMAIN records}
  <1>1. PICK n \in Nat : n = Len(records) /\ DOMAIN records = 1 .. n
    OBVIOUS
  <1>2. DOMAIN queue = 1 .. n /\ \A i \in 1 .. n : queue[i] = AppendLine(path, records[i]) /\ queue[i] \in T
    BY <1>1 DEF LinesOf
  <1>3. queue \in [1 .. n -> T]
    BY <1>1, <1>2 DEF LinesOf
  <1> HIDE DEF queue, T
  <1>4. queue \in Seq(T) /\ Len(queue) = n
    BY <1>3
  <1>5. \A i \in 1 .. Len(queue) : IsPlain(queue[i]) /\ queue[i].op = "append" /\ queue[i].path = path
    BY <1>2, <1>4, LinePlain
  <1>6. AllPlain(queue)
    BY <1>4, <1>5 DEF AllPlain
  <1>7. PathsOf(queue) \subseteq {path}
    BY <1>5 DEF PathsOf
  <1>8. RemovedBy(queue) \subseteq {}
    <2>1. ~("append" = "remove")
      OBVIOUS
    <2> QED BY <1>5, <2>1 DEF RemovedBy
  <1> QED BY <1>1, <1>2, <1>4, <1>6, <1>7, <1>8 DEF queue, Within

LEMMA LinesGo ==
  ASSUME NEW d, NEW path, path \notin DOMAIN d, NEW S, NEW records \in Seq(S)
  PROVE  \E e, disks : /\ Ways(d, LinesOf(path, records), e, disks, {path}, {})
                       /\ HoldsLines(e, path, records, Len(records))
  <1> DEFINE queue == LinesOf(path, records)
  <1>0. records \in Seq(S) /\ Len(records) \in Nat
    OBVIOUS
  <1>1. PICK n \in Nat : n = Len(records) /\ n = Len(queue)
    BY <1>0, LinesPlain
  <1>2. PICK T : queue \in Seq(T)
    BY <1>0, LinesPlain
  <1>3. \A i \in 1 .. n : queue[i] = AppendLine(path, records[i])
    BY <1>0, <1>1, LinesPlain
  <1> HIDE DEF queue
  <1> DEFINE Reached(k) == \E e, disks : /\ Ways(d, SubSeq(queue, 1, k), e, disks, {path}, {})
                                         /\ HoldsLines(e, path, records, k)
             Bad == {k \in 0 .. n : ~Reached(k)}
  <1>4. SubSeq(queue, 1, n) = queue /\ SubSeq(queue, 1, 0) = <<>>
    BY <1>1, <1>2
  <1>5. Reached(0)
    <2>1. Goes(d, <<>>, d, {d}) /\ Follows(d, d, {path}, {})
      BY GoesNowhere, FollowsSelf
    <2>2. Ways(d, SubSeq(queue, 1, 0), d, {d}, {path}, {})
      BY <1>4, <2>1 DEF Ways
    <2>3. HoldsLines(d, path, records, 0)
      BY DEF HoldsLines
    <2> DEFINE disks == {d}
    <2>4. /\ Ways(d, SubSeq(queue, 1, 0), d, disks, {path}, {})
          /\ HoldsLines(d, path, records, 0)
      BY <2>2, <2>3
    <2> HIDE DEF disks
    <2> QED BY <2>4, Zenon
  <1>6. ASSUME NEW k \in Nat, NEW m, m = k + 1, m <= n, Reached(k)
        PROVE  Reached(m)
    <2> DEFINE p == SubSeq(queue, 1, k)
               o == queue[m]
    <2>1. PICK e, disks : Ways(d, p, e, disks, {path}, {}) /\ HoldsLines(e, path, records, k)
      BY <1>6
    <2>2. m \in 1 .. n /\ m \in Nat /\ k <= n /\ m # 0
      BY <1>6
    <2>3. o = AppendLine(path, records[m])
      BY <1>3, <2>2
    <2>4. SubSeq(queue, 1, m) = p \o <<o>>
      BY <1>1, <1>2, <1>6, PrefixGrows
    <2> DEFINE f == Done(e, o)
               more == disks \cup {e, Half(e, o), f}
    <2> HIDE DEF p, o
    <2>5. IsPlain(o) /\ o.op = "append" /\ o.path = path /\ o.content = records[m]
      BY <2>3, LinePlain
    <2>6. Goes(e, <<o>>, f, {e, Half(e, o), f})
      BY <2>5, GoesStep
    <2>7. Goes(d, p \o <<o>>, f, more)
      BY <2>1, <2>6, GoesOn DEF Ways
    <2>8. Follows(e, f, {path}, {}) /\ Follows(e, Half(e, o), {path}, {})
      BY <2>5, DoneFollows
    <2>9. e \in disks
      BY <2>1 DEF Ways, Goes
    <2>10. \A x \in more : Follows(d, x, {path}, {})
      BY <2>1, <2>8, <2>9, FollowsFurther DEF Ways
    <2>11. HoldsLines(f, path, records, m)
      <3> DEFINE c == IF path \in DOMAIN e THEN Append(e[path], records[m]) ELSE <<records[m]>>
      <3>1. f = PutIn(e, path, c)
        BY <2>5 DEF Done
      <3>2. path \in DOMAIN f /\ f[path] = c
        <4> HIDE DEF c, f
        <4>1. DOMAIN f = DOMAIN e \cup {path}
          BY <3>1 DEF PutIn
        <4>2. f[path] = c
          BY <3>1 DEF PutIn
        <4> QED BY <4>1, <4>2
      <3>3. SubSeq(records, 1, m) = SubSeq(records, 1, k) \o <<records[m]>>
        <4>1. m <= Len(records)
          BY <1>1, <1>6
        <4> HIDE DEF c, f, more
        <4> QED BY <1>0, <1>6, <4>1, PrefixGrows
      <3>4. SubSeq(records, 1, k) \in Seq(S) /\ records[m] \in S
        <4>1. k <= Len(records) /\ m \in 1 .. Len(records)
          BY <1>1, <2>2
        <4> QED BY <1>0, <4>1
      <3>5. CASE k = 0
        <4>1. SubSeq(records, 1, k) = <<>>
          <5>1. SubSeq(records, 1, 0) = <<>>
            OBVIOUS
          <5> QED BY <3>5, <5>1
        <4>2. f[path] = <<records[m]>>
          BY <2>1, <3>2, <3>5 DEF HoldsLines
        <4>3. <<>> \o <<records[m]>> = <<records[m]>>
          <5> DEFINE x == records[m]
                     s == <<x>>
          <5>1. s \in Seq({x}) /\ <<>> \in Seq({x})
            OBVIOUS
          <5> HIDE DEF x, s
          <5>2. <<>> \o s = s
            BY <5>1
          <5> QED BY <5>2 DEF s, x
        <4> QED BY <2>2, <3>2, <3>3, <4>1, <4>2, <4>3 DEF HoldsLines
      <3>6. CASE k # 0
        <4>1. path \in DOMAIN e /\ e[path] = SubSeq(records, 1, k)
          BY <2>1, <3>6 DEF HoldsLines
        <4>2. f[path] = Append(SubSeq(records, 1, k), records[m])
          BY <3>2, <4>1
        <4> DEFINE s == SubSeq(records, 1, k)
        <4>3. s \in Seq(S) /\ records[m] \in S
          BY <3>4
        <4> HIDE DEF s
        <4>4. Append(s, records[m]) = s \o <<records[m]>>
          BY <4>3
        <4> QED BY <2>2, <3>2, <3>3, <4>2, <4>4 DEF HoldsLines, s
      <3> QED BY <3>5, <3>6
    <2> HIDE DEF more, f
    <2>12. Ways(d, SubSeq(queue, 1, m), f, more, {path}, {})
      BY <2>4, <2>7, <2>10 DEF Ways
    <2> QED BY <2>11, <2>12, Zenon
  <1>7. Bad = {}
    <2> SUFFICES ASSUME Bad # {} PROVE FALSE
      OBVIOUS
    <2>1. Bad \subseteq Nat
      BY <1>1
    <2>2. PICK m \in Bad : \A k \in Bad : m <= k
      BY <2>1, LeastNumber
    <2>3. m \in 0 .. n /\ ~Reached(m)
      OBVIOUS
    <2>4. m # 0
      BY <1>5, <2>3
    <2>5. PICK k \in Nat : m = k + 1
      BY <1>1, <2>3, <2>4
    <2>6. k \in 0 .. n /\ ~(m <= k)
      BY <1>1, <2>3, <2>5
    <2>7. Reached(k)
      BY <2>2, <2>6
    <2> HIDE DEF Reached, Bad
    <2> QED BY <1>1, <1>6, <2>3, <2>5, <2>7
  <1>8. Reached(n)
    BY <1>1, <1>7
  <1>9. PICK e, disks : /\ Ways(d, SubSeq(queue, 1, n), e, disks, {path}, {})
                        /\ HoldsLines(e, path, records, n)
    BY <1>8
  <1>10. /\ Ways(d, queue, e, disks, {path}, {})
         /\ HoldsLines(e, path, records, Len(records))
    BY <1>1, <1>4, <1>9
  <1> QED BY <1>10 DEF queue

-----------------------------------------------------------------------------
(* The files of experiments.                                               *)
LEMMA ExperimentPaths ==
  /\ \A x : /\ ManifestFile(x)[1] = "manifest" /\ ManifestFile(x)[2] = x
            /\ LockFile(x)[1] = "lock" /\ LockFile(x)[2] = x
            /\ PlanFile(x)[1] = "plan" /\ PlanFile(x)[2] = x
            /\ RulesFile(x)[1] = "rules" /\ MemoFile(x)[1] = "memo" /\ MemoFile(x)[2] = x
            /\ GateFile(x)[1] = "gate" /\ GateFile(x)[2] = x
            /\ PatchInstallFile(x)[1] = "patch_install" /\ PatchInstallFile(x)[2] = x
            /\ ShadowFile(x)[1] = "shadow" /\ ShadowMetrics(x)[1] = "shadow_metrics"
            /\ ReportMarkdown(x)[1] = "report.md" /\ ReportJson(x)[1] = "report.json"
  /\ \A x, y : /\ MarkerFile(x, y)[1] = "marker" /\ MarkerFile(x, y)[2] = x /\ MarkerFile(x, y)[3] = y
               /\ Predictions(x, y)[1] = "predictions" /\ Predictions(x, y)[2] = x
               /\ Predictions(x, y)[3] = y
               /\ Quality(x, y)[1] = "quality"
  <1>1. \A x : /\ ManifestFile(x)[1] = "manifest" /\ ManifestFile(x)[2] = x
               /\ LockFile(x)[1] = "lock" /\ LockFile(x)[2] = x
    BY DEF ManifestFile, LockFile
  <1>2. \A x : /\ PlanFile(x)[1] = "plan" /\ PlanFile(x)[2] = x
               /\ RulesFile(x)[1] = "rules" /\ MemoFile(x)[1] = "memo" /\ MemoFile(x)[2] = x
    BY DEF PlanFile, RulesFile, MemoFile
  <1>3. \A x : /\ GateFile(x)[1] = "gate" /\ GateFile(x)[2] = x
               /\ PatchInstallFile(x)[1] = "patch_install" /\ PatchInstallFile(x)[2] = x
    BY DEF GateFile, PatchInstallFile
  <1>4. \A x : /\ ShadowFile(x)[1] = "shadow" /\ ShadowMetrics(x)[1] = "shadow_metrics"
               /\ ReportMarkdown(x)[1] = "report.md" /\ ReportJson(x)[1] = "report.json"
    BY DEF ShadowFile, ShadowMetrics, ReportMarkdown, ReportJson
  <1>5. \A x, y : /\ MarkerFile(x, y)[1] = "marker" /\ MarkerFile(x, y)[2] = x
                  /\ MarkerFile(x, y)[3] = y
    BY DEF MarkerFile
  <1>6. \A x, y : /\ Predictions(x, y)[1] = "predictions" /\ Predictions(x, y)[2] = x
                  /\ Predictions(x, y)[3] = y
                  /\ Quality(x, y)[1] = "quality"
    BY DEF Predictions, Quality
  <1> QED BY <1>1, <1>2, <1>3, <1>4, <1>5, <1>6

(* The predictions a phase writes.                                         *)
FilesOf(ph) ==
  {RewrittenFile[p] : p \in {ph} \cap DOMAIN RewrittenFile}
    \cup {f \in {UnoptimizedFile} : ph = "cps_unoptimized_heldout"}
    \cup {f \in {NoSemanticFile} : ph = "cps_generalized_patch_no_semantic_weak"}
    \cup {f \in {SplitFiles[i] : i \in DOMAIN SplitFiles} : ph = "patch_validation"}

(* The files phase ph of experiment x writes before it is complete, but    *)
(* for those of the registry.                                              *)
BookKinds == {"manifest", "marker", "lock"}
VersionKinds == {"program", "metadata", "latest", "workflow"}
Owned(path, x, ph) ==
  /\ path[1] \notin BookKinds \cup VersionKinds
  /\ ~IsInstalledRecord(path)
  /\ path[1] = "predictions" => \E file \in FilesOf(ph) : path = Predictions(x, file)
  /\ path[1] \in {"gate", "patch_install"} => path[2] = x /\ ph = "patch_validation"
  /\ path[1] \in {"plan", "memo"} => path[2] = x /\ ph \in {"optimize", "patch_validation"}
Removable(path) == path[1] \in {"predictions", "shadow"}

OwnedQueue(queue, x, ph) ==
  \E paths, removed : /\ Within(queue, paths, removed)
                      /\ \A q \in paths : Owned(q, x, ph)
                      /\ \A q \in removed : Removable(q)

LEMMA OwnedNone ==
  ASSUME NEW x, NEW ph
  PROVE  OwnedQueue(<<>>, x, ph)
  <1> DEFINE none == {}
  <1>1. /\ Within(<<>>, none, none)
        /\ \A q \in none : Owned(q, x, ph)
        /\ \A q \in none : Removable(q)
    BY WithinNone
  <1> HIDE DEF none
  <1> QED BY <1>1 DEF OwnedQueue

LEMMA OwnedJoin ==
  ASSUME NEW p, NEW q, NEW x, NEW ph, OwnedQueue(p, x, ph), OwnedQueue(q, x, ph)
  PROVE  OwnedQueue(p \o q, x, ph)
  <1>1. PICK A, R : /\ Within(p, A, R) /\ (\A path \in A : Owned(path, x, ph))
                    /\ \A path \in R : Removable(path)
    BY DEF OwnedQueue
  <1>2. PICK B, T : /\ Within(q, B, T) /\ (\A path \in B : Owned(path, x, ph))
                    /\ \A path \in T : Removable(path)
    BY DEF OwnedQueue
  <1> DEFINE C == A \cup B
             U == R \cup T
             r == p \o q
  <1>3. Within(r, C, U)
    BY <1>1, <1>2, WithinJoin
  <1>4. (\A path \in C : Owned(path, x, ph)) /\ \A path \in U : Removable(path)
    BY <1>1, <1>2
  <1> HIDE DEF C, U, r
  <1>5. OwnedQueue(r, x, ph)
    BY <1>3, <1>4 DEF OwnedQueue
  <1> QED BY <1>5 DEF r

LEMMA OwnedWrite ==
  ASSUME NEW x, NEW ph, NEW path, Owned(path, x, ph), NEW content
  PROVE  OwnedQueue(<<Write(path, content)>>, x, ph)
  <1> DEFINE q == <<Write(path, content)>>
             A == {path}
             R == {}
  <1>1. Within(q, A, R)
    BY WithinWrite
  <1>2. (\A p \in A : Owned(p, x, ph)) /\ \A p \in R : Removable(p)
    OBVIOUS
  <1> HIDE DEF q, A, R
  <1>3. OwnedQueue(q, x, ph)
    BY <1>1, <1>2 DEF OwnedQueue
  <1> QED BY <1>3 DEF q

(* A file is removed if it is there, and its lines are written.            *)
Cleared(there, path) == IF there THEN <<RemoveFile(path)>> ELSE <<>>

LEMMA ClearedWithin ==
  ASSUME NEW there, NEW path
  PROVE  Within(Cleared(there, path), {path}, {path})
  <1> DEFINE o == RemoveFile(path)
  <1>1. o.op = "remove" /\ o.path = path /\ IsPlain(o)
    BY DEF RemoveFile, IsPlain, Operations
  <1> HIDE DEF o
  <1>2. Within(<<o>>, {path}, {path})
    BY <1>1, WithinOne
  <1>3. Within(<<>>, {path}, {path})
    BY WithinNone, WithinMore
  <1>4. Cleared(there, path) = <<o>> \/ Cleared(there, path) = <<>>
    BY DEF Cleared, o
  <1> QED BY <1>2, <1>3, <1>4

LEMMA OwnedLines ==
  ASSUME NEW x, NEW ph, NEW path, Owned(path, x, ph), NEW S, NEW records \in Seq(S)
  PROVE  OwnedQueue(LinesOf(path, records), x, ph)
  <1>0. records \in Seq(S)
    OBVIOUS
  <1> DEFINE q == LinesOf(path, records)
             A == {path}
             R == {}
  <1>1. Within(q, A, R)
    BY <1>0, LinesPlain
  <1>2. (\A p \in A : Owned(p, x, ph)) /\ \A p \in R : Removable(p)
    OBVIOUS
  <1> HIDE DEF q, A, R
  <1>3. OwnedQueue(q, x, ph)
    BY <1>1, <1>2 DEF OwnedQueue
  <1> QED BY <1>3 DEF q

LEMMA OwnedCleared ==
  ASSUME NEW x, NEW ph, NEW path, Owned(path, x, ph), Removable(path), NEW there
  PROVE  OwnedQueue(Cleared(there, path), x, ph)
  <1> DEFINE q == Cleared(there, path)
             A == {path}
  <1>1. Within(q, A, A)
    BY ClearedWithin
  <1>2. (\A p \in A : Owned(p, x, ph)) /\ \A p \in A : Removable(p)
    OBVIOUS
  <1> HIDE DEF q, A
  <1>3. OwnedQueue(q, x, ph)
    BY <1>1, <1>2 DEF OwnedQueue
  <1> QED BY <1>3 DEF q

LEMMA OwnedRecord ==
  ASSUME NEW x, NEW ph, NEW status \in {"proposed", "validated"}, NEW patch, NEW target
  PROVE  OwnedQueue(Record(status, patch, target), x, ph)
  <1> DEFINE path == RecordFile(status, patch)
             content == [patch |-> patch, target |-> target]
  <1>1. path[1] = "record" /\ path[2] = status
    BY PathsApart
  <1> HIDE DEF path
  <1>2. Owned(path, x, ph)
    BY <1>1 DEF Owned, IsInstalledRecord, BookKinds, VersionKinds
  <1>3. Record(status, patch, target) = <<Write(path, content)>>
    BY DEF Record, path
  <1> HIDE DEF content
  <1> QED BY <1>2, <1>3, OwnedWrite

LEMMA OwnedOffer ==
  ASSUME NEW x, NEW ph, NEW offered
  PROVE  OwnedQueue(Offer(offered), x, ph)
  <1>1. CASE offered = {}
    BY <1>1, OwnedNone DEF Offer
  <1>2. CASE offered # {}
    <2> DEFINE patch == CHOOSE p \in offered : TRUE
    <2>1. Offer(offered) = Record("proposed", patch, Latest) \o Record("validated", patch, Latest)
      BY <1>2 DEF Offer
    <2> HIDE DEF patch
    <2>2. OwnedQueue(Record("proposed", patch, Latest), x, ph)
      BY OwnedRecord
    <2>3. OwnedQueue(Record("validated", patch, Latest), x, ph)
      BY OwnedRecord
    <2> QED BY <2>1, <2>2, <2>3, OwnedJoin
  <1> QED BY <1>1, <1>2

-----------------------------------------------------------------------------
(* The shapes of the steps of an experiment.                               *)
RecordsOf(j, file, program) ==
  [i \in DOMAIN Events |-> [event |-> Events[i], run |-> <<file, j.run>>, program |-> program]]

LEMMA RecordsFacts ==
  ASSUME NEW j, NEW file, NEW program
  PROVE  /\ \E S : RecordsOf(j, file, program) \in Seq(S)
         /\ Len(RecordsOf(j, file, program)) = Len(Events)
         /\ \A i \in DOMAIN Events : RecordsOf(j, file, program)[i] =
              [event |-> Events[i], run |-> <<file, j.run>>, program |-> program]
  <1> DEFINE r == RecordsOf(j, file, program)
             S == {[event |-> Events[i], run |-> <<file, j.run>>, program |-> program] : i \in DOMAIN Events}
  <1>1. PICK n \in Nat : n = Len(Events) /\ DOMAIN Events = 1 .. n
    BY ExperimentAssumption
  <1>2. r \in [1 .. n -> S]
    BY <1>1 DEF RecordsOf
  <1>3. \A i \in DOMAIN Events : r[i] =
          [event |-> Events[i], run |-> <<file, j.run>>, program |-> program]
    BY DEF RecordsOf
  <1> HIDE DEF r, S
  <1>4. r \in Seq(S) /\ Len(r) = n
    BY <1>2
  <1> QED BY <1>1, <1>3, <1>4 DEF r

LEMMA LinesAre ==
  ASSUME NEW file, NEW program
  PROVE  /\ Lines(file, program) = LinesOf(Predictions(job.exp, file), RecordsOf(job, file, program))
         /\ Rewritten(file, program) =
              Cleared(Exists(Predictions(job.exp, file)), Predictions(job.exp, file))
                \o LinesOf(Predictions(job.exp, file), RecordsOf(job, file, program))
  <1> DEFINE p == Predictions(job.exp, file)
             r == RecordsOf(job, file, program)
  <1>1. DOMAIN r = DOMAIN Events
    BY DEF RecordsOf
  <1>2. LinesOf(p, r) = [i \in DOMAIN Events |-> AppendLine(p, r[i])]
    BY <1>1 DEF LinesOf
  <1>3. \A i \in DOMAIN Events :
          r[i] = [event |-> Events[i], run |-> <<file, job.run>>, program |-> program]
    BY DEF RecordsOf
  <1>4. Lines(file, program) = [i \in DOMAIN Events |-> AppendLine(p,
          [event |-> Events[i], run |-> <<file, job.run>>, program |-> program])]
    BY DEF Lines
  <1> HIDE DEF p, r
  <1>5. Lines(file, program) = LinesOf(p, r)
    BY <1>2, <1>3, <1>4
  <1>6. Clear(p) = Cleared(Exists(p), p)
    BY DEF Clear, Cleared
  <1> QED BY <1>5, <1>6 DEF Rewritten, p, r

LEMMA PhaseFiles ==
  /\ \A ph \in DOMAIN DirectFile : ph \in DOMAIN RewrittenFile /\ RewrittenFile[ph] = DirectFile[ph]
  /\ \A ph \in DOMAIN InstalledFile : /\ ph \in DOMAIN RewrittenFile
                                      /\ RewrittenFile[ph] = InstalledFile[ph]
  /\ DOMAIN DirectFile = {"weak_only", "strong_direct", "cps_exact_memo_heldout"}
  /\ DOMAIN InstalledFile = {"cps_generalized_patch_heldout", "adversarial_audit"}
  /\ DOMAIN RewrittenFile = {"weak_only", "strong_direct", "cps_exact_memo_heldout",
                             "cps_generalized_patch_heldout", "adversarial_audit"}
  /\ \A ph \in DOMAIN RewrittenFile : RewrittenFile[ph] \in FilesOf(ph)
  /\ UnoptimizedFile \in FilesOf("cps_unoptimized_heldout")
  /\ NoSemanticFile \in FilesOf("cps_generalized_patch_no_semantic_weak")
  /\ \A i \in DOMAIN SplitFiles : SplitFiles[i] \in FilesOf("patch_validation")
  <1>1. DOMAIN DirectFile = {"weak_only", "strong_direct", "cps_exact_memo_heldout"}
    BY DEF DirectFile
  <1>2. DOMAIN InstalledFile = {"cps_generalized_patch_heldout", "adversarial_audit"}
    BY DEF InstalledFile
  <1>3. DOMAIN RewrittenFile = DOMAIN DirectFile \cup DOMAIN InstalledFile
    BY DEF RewrittenFile
  <1>4. \A ph \in DOMAIN DirectFile : RewrittenFile[ph] = DirectFile[ph]
    BY DEF RewrittenFile
  <1>5. \A ph \in DOMAIN InstalledFile : RewrittenFile[ph] = InstalledFile[ph]
    <2>1. \A ph \in DOMAIN InstalledFile : ph \notin DOMAIN DirectFile
      BY <1>1, <1>2
    <2> HIDE DEF DirectFile, InstalledFile
    <2> QED BY <2>1 DEF RewrittenFile
  <1>6. \A ph \in DOMAIN RewrittenFile : RewrittenFile[ph] \in FilesOf(ph)
    BY DEF FilesOf
  <1>7. /\ UnoptimizedFile \in FilesOf("cps_unoptimized_heldout")
        /\ NoSemanticFile \in FilesOf("cps_generalized_patch_no_semantic_weak")
        /\ \A i \in DOMAIN SplitFiles : SplitFiles[i] \in FilesOf("patch_validation")
    BY DEF FilesOf
  <1> QED BY <1>1, <1>2, <1>3, <1>4, <1>5, <1>6, <1>7

LEMMA PredictionsOwned ==
  ASSUME NEW x, NEW ph, NEW file \in FilesOf(ph)
  PROVE  Owned(Predictions(x, file), x, ph) /\ Removable(Predictions(x, file))
  <1> DEFINE p == Predictions(x, file)
  <1>1. p[1] = "predictions"
    BY ExperimentPaths
  <1>2. \E f \in FilesOf(ph) : p = Predictions(x, f)
    OBVIOUS
  <1> HIDE DEF p
  <1>3. Owned(p, x, ph) /\ Removable(p)
    BY <1>1, <1>2 DEF Owned, Removable, IsInstalledRecord, BookKinds, VersionKinds
  <1> QED BY <1>3 DEF p

LEMMA OwnedRewritten ==
  ASSUME NEW ph, NEW file \in FilesOf(ph), NEW program
  PROVE  /\ OwnedQueue(Rewritten(file, program), job.exp, ph)
         /\ OwnedQueue(Lines(file, program), job.exp, ph)
         /\ OwnedQueue(Clear(Predictions(job.exp, file)), job.exp, ph)
  <1> DEFINE p == Predictions(job.exp, file)
             r == RecordsOf(job, file, program)
             x == job.exp
  <1>1. Owned(p, x, ph) /\ Removable(p)
    BY PredictionsOwned
  <1>2. PICK S : r \in Seq(S)
    BY RecordsFacts
  <1>3. /\ Lines(file, program) = LinesOf(p, r)
        /\ Rewritten(file, program) = Cleared(Exists(p), p) \o LinesOf(p, r)
    BY LinesAre
  <1>4. Clear(p) = Cleared(Exists(p), p)
    BY DEF Clear, Cleared
  <1> HIDE DEF p, r, x
  <1>5. OwnedQueue(LinesOf(p, r), x, ph)
    BY <1>1, <1>2, OwnedLines
  <1>6. OwnedQueue(Cleared(Exists(p), p), x, ph)
    BY <1>1, OwnedCleared
  <1>7. OwnedQueue(Cleared(Exists(p), p) \o LinesOf(p, r), x, ph)
    BY <1>5, <1>6, OwnedJoin
  <1> QED BY <1>3, <1>4, <1>5, <1>6, <1>7 DEF p, x

(* The other files of a phase.                                             *)
SideKinds == {"rules", "shadow", "shadow_metrics", "report.md", "report.json", "quality"}
LEMMA SideOwned ==
  ASSUME NEW x, NEW ph, NEW path, path[1] \in SideKinds
  PROVE  Owned(path, x, ph)
  BY DEF SideKinds, Owned, IsInstalledRecord, BookKinds, VersionKinds

LEMMA JoinThree ==
  ASSUME NEW a, NEW b, NEW c
  PROVE  <<a, b, c>> = (<<a>> \o <<b>>) \o <<c>>
  <1> DEFINE S == {a, b, c}
             p == (<<a>> \o <<b>>) \o <<c>>
             q == <<a, b, c>>
  <1>1. p \in Seq(S) /\ q \in Seq(S) /\ Len(p) = 3 /\ Len(q) = 3
    OBVIOUS
  <1>2. p[1] = q[1] /\ p[2] = q[2] /\ p[3] = q[3]
    OBVIOUS
  <1> HIDE DEF p, q, S
  <1>3. \A i \in 1 .. Len(p) : p[i] = q[i]
    BY <1>1, <1>2
  <1>4. p = q
    BY <1>1, <1>3, SeqEqual
  <1> QED BY <1>4 DEF p, q

LEMMA ArtifactsOwned ==
  ASSUME NEW ph \in {"optimize", "patch_validation"}, NEW plan
  PROVE  OwnedQueue(Artifacts(plan), job.exp, ph)
  <1> DEFINE x == job.exp
             a == Write(PlanFile(x), plan)
             b == Write(RulesFile(x), plan)
             c == Write(MemoFile(x), "memo")
  <1>1. Owned(PlanFile(x), x, ph) /\ Owned(MemoFile(x), x, ph)
    BY ExperimentPaths DEF Owned, IsInstalledRecord, BookKinds, VersionKinds
  <1>2. Owned(RulesFile(x), x, ph)
    BY ExperimentPaths, SideOwned DEF SideKinds
  <1>3. /\ OwnedQueue(<<a>>, x, ph) /\ OwnedQueue(<<b>>, x, ph) /\ OwnedQueue(<<c>>, x, ph)
    BY <1>1, <1>2, OwnedWrite
  <1>4. Artifacts(plan) = <<a, b, c>>
    BY DEF Artifacts
  <1> HIDE DEF a, b, c, x
  <1>5. <<a, b, c>> = (<<a>> \o <<b>>) \o <<c>>
    BY JoinThree
  <1>6. OwnedQueue((<<a>> \o <<b>>) \o <<c>>, x, ph)
    BY <1>3, OwnedJoin
  <1> QED BY <1>4, <1>5, <1>6 DEF x

-----------------------------------------------------------------------------
(* The jobs of experiments, and those of commands.                         *)
ExpPlaces == {"estimate", "workflow", "phase", "select", "gate", "install_semantic"}

HasFields(j) ==
  j = [at |-> j.at, exp |-> j.exp, config |-> j.config, fresh |-> j.fresh,
       manifest |-> j.manifest, run |-> j.run, runs |-> j.runs, done |-> j.done,
       left |-> j.left, base |-> j.base, program |-> j.program]
IsJob(j)   == HasFields(j) /\ j.at \in ExpPlaces
IsOther(j) == "at" \in DOMAIN j /\ "exp" \notin DOMAIN j /\ j.at \notin ExpPlaces

(* The same experiment, as far as it has got.                              *)
SameBook(j, k) ==
  /\ k.exp = j.exp /\ k.config = j.config /\ k.fresh = j.fresh /\ k.manifest = j.manifest
  /\ k.run = j.run /\ k.done = j.done /\ k.left = j.left

LEMMA OtherJobs ==
  /\ IsOther(Idle)
  /\ \A at, attempts, asked : at \notin ExpPlaces =>
       IsOther([at |-> at, attempts |-> attempts, asked |-> asked])
  /\ \A at, attempts, asked, patch, base, program : at \notin ExpPlaces =>
       IsOther([at |-> at, attempts |-> attempts, asked |-> asked,
                patch |-> patch, base |-> base, program |-> program])
  /\ \A j, at : IsOther(j) /\ at \notin ExpPlaces => IsOther([j EXCEPT !.at = at])
  /\ \A j, at, program : IsOther(j) /\ at \notin ExpPlaces =>
       IsOther([j EXCEPT !.at = at, !.program = program])
  <1>1. IsOther(Idle)
    BY DEF IsOther, Idle, ExpPlaces
  <1>2. \A at, attempts, asked : at \notin ExpPlaces =>
          IsOther([at |-> at, attempts |-> attempts, asked |-> asked])
    BY DEF IsOther
  <1>3. \A at, attempts, asked, patch, base, program : at \notin ExpPlaces =>
          IsOther([at |-> at, attempts |-> attempts, asked |-> asked,
                   patch |-> patch, base |-> base, program |-> program])
    BY DEF IsOther
  <1>4. \A j, at : IsOther(j) /\ at \notin ExpPlaces => IsOther([j EXCEPT !.at = at])
    BY DEF IsOther
  <1>5. \A j, at, program : IsOther(j) /\ at \notin ExpPlaces =>
          IsOther([j EXCEPT !.at = at, !.program = program])
    <2> SUFFICES ASSUME NEW j, NEW at, NEW program, IsOther(j), at \notin ExpPlaces
                 PROVE  IsOther([j EXCEPT !.at = at, !.program = program])
      OBVIOUS
    <2> DEFINE k == [j EXCEPT !.at = at]
               m == [k EXCEPT !.program = program]
    <2>1. DOMAIN k = DOMAIN j /\ k.at = at
      BY DEF IsOther
    <2> HIDE DEF k
    <2>2. DOMAIN m = DOMAIN k /\ m.at = at
      BY <2>1 DEF IsOther
    <2> QED BY <2>1, <2>2 DEF k, IsOther
  <1> QED BY <1>1, <1>2, <1>3, <1>4, <1>5

(* Fields are set one by one.                                              *)
Job(at, exp, config, fresh, manifest, run, runs, done, left, base, program) ==
  [at |-> at, exp |-> exp, config |-> config, fresh |-> fresh,
   manifest |-> manifest, run |-> run, runs |-> runs, done |-> done,
   left |-> left, base |-> base, program |-> program]

LEMMA JobSet ==
  ASSUME NEW j, HasFields(j), NEW x
  PROVE  /\ [j EXCEPT !.at = x] = Job(x, j.exp, j.config, j.fresh, j.manifest, j.run, j.runs,
                                      j.done, j.left, j.base, j.program)
         /\ [j EXCEPT !.runs = x] = Job(j.at, j.exp, j.config, j.fresh, j.manifest, j.run, x,
                                        j.done, j.left, j.base, j.program)
         /\ [j EXCEPT !.left = x] = Job(j.at, j.exp, j.config, j.fresh, j.manifest, j.run, j.runs,
                                        j.done, x, j.base, j.program)
         /\ [j EXCEPT !.manifest = x] = Job(j.at, j.exp, j.config, j.fresh, x, j.run, j.runs,
                                            j.done, j.left, j.base, j.program)
         /\ [j EXCEPT !.base = x] = Job(j.at, j.exp, j.config, j.fresh, j.manifest, j.run, j.runs,
                                        j.done, j.left, x, j.program)
         /\ [j EXCEPT !.program = x] = Job(j.at, j.exp, j.config, j.fresh, j.manifest, j.run, j.runs,
                                           j.done, j.left, j.base, x)
  <1>1. [j EXCEPT !.at = x] = Job(x, j.exp, j.config, j.fresh, j.manifest, j.run, j.runs,
                                  j.done, j.left, j.base, j.program)
    BY DEF HasFields, Job
  <1>2. [j EXCEPT !.runs = x] = Job(j.at, j.exp, j.config, j.fresh, j.manifest, j.run, x,
                                    j.done, j.left, j.base, j.program)
    BY DEF HasFields, Job
  <1>3. [j EXCEPT !.left = x] = Job(j.at, j.exp, j.config, j.fresh, j.manifest, j.run, j.runs,
                                    j.done, x, j.base, j.program)
    BY DEF HasFields, Job
  <1>4. [j EXCEPT !.manifest = x] = Job(j.at, j.exp, j.config, j.fresh, x, j.run, j.runs,
                                        j.done, j.left, j.base, j.program)
    BY DEF HasFields, Job
  <1>5. [j EXCEPT !.base = x] = Job(j.at, j.exp, j.config, j.fresh, j.manifest, j.run, j.runs,
                                    j.done, j.left, x, j.program)
    BY DEF HasFields, Job
  <1>6. [j EXCEPT !.program = x] = Job(j.at, j.exp, j.config, j.fresh, j.manifest, j.run, j.runs,
                                       j.done, j.left, j.base, x)
    BY DEF HasFields, Job
  <1> QED BY <1>1, <1>2, <1>3, <1>4, <1>5, <1>6

LEMMA JobIs ==
  ASSUME NEW at, NEW exp, NEW config, NEW fresh, NEW manifest, NEW run, NEW runs, NEW done,
         NEW left, NEW base, NEW program, NEW j,
         j = Job(at, exp, config, fresh, manifest, run, runs, done, left, base, program)
  PROVE  /\ HasFields(j) /\ j.at = at /\ j.exp = exp /\ j.config = config /\ j.fresh = fresh
         /\ j.manifest = manifest /\ j.run = run /\ j.runs = runs /\ j.done = done
         /\ j.left = left /\ j.base = base /\ j.program = program
  BY DEF HasFields, Job

Moved(j, k, at) == HasFields(k) /\ k.at = at /\ SameBook(j, k)

LEMMA JobMoves ==
  ASSUME NEW j, HasFields(j), NEW at, NEW k, k = [j EXCEPT !.at = at]
  PROVE  Moved(j, k, at) /\ k.base = j.base /\ k.program = j.program /\ k.runs = j.runs
  <1>1. k = Job(at, j.exp, j.config, j.fresh, j.manifest, j.run, j.runs,
                j.done, j.left, j.base, j.program)
    BY JobSet
  <1> QED BY <1>1, JobIs DEF Moved, SameBook

LEMMA JobMovesRuns ==
  ASSUME NEW j, HasFields(j), NEW at, NEW runs, NEW k, k = [j EXCEPT !.at = at, !.runs = runs]
  PROVE  Moved(j, k, at)
  <1> DEFINE a == [j EXCEPT !.at = at]
             r == [a EXCEPT !.runs = runs]
  <1>1. k = r
    OBVIOUS
  <1> HIDE DEF r
  <1>2. Moved(j, a, at)
    BY JobMoves
  <1> HIDE DEF a
  <1>3. r = Job(a.at, a.exp, a.config, a.fresh, a.manifest, a.run, runs,
                a.done, a.left, a.base, a.program)
    BY <1>2, JobSet DEF Moved, r
  <1>4. Moved(j, r, at)
    BY <1>2, <1>3, JobIs DEF Moved, SameBook
  <1> QED BY <1>1, <1>4

Selected(j, k, base, program) == Moved(j, k, "gate") /\ k.base = base /\ k.program = program

LEMMA JobSelects ==
  ASSUME NEW j, HasFields(j), NEW base, NEW program,
         NEW k, k = [j EXCEPT !.at = "gate", !.base = base, !.program = program]
  PROVE  Selected(j, k, base, program)
  <1> DEFINE a == [j EXCEPT !.at = "gate"]
             l == [a EXCEPT !.base = base]
             m == [l EXCEPT !.program = program]
  <1>1. k = m
    OBVIOUS
  <1> HIDE DEF l, m
  <1>2. Moved(j, a, "gate")
    BY JobMoves
  <1> HIDE DEF a
  <1>3. l = Job(a.at, a.exp, a.config, a.fresh, a.manifest, a.run, a.runs,
                a.done, a.left, base, a.program)
    BY <1>2, JobSet DEF Moved, l
  <1>4. Moved(j, l, "gate") /\ l.base = base
    BY <1>2, <1>3, JobIs DEF Moved, SameBook
  <1>5. m = Job(l.at, l.exp, l.config, l.fresh, l.manifest, l.run, l.runs,
                l.done, l.left, l.base, program)
    BY <1>4, JobSet DEF Moved, m
  <1>6. Selected(j, m, base, program)
    BY <1>4, <1>5, JobIs DEF Selected, Moved, SameBook
  <1> QED BY <1>1, <1>6

(* A phase is passed, skipped or completed.                                *)
Passed(j, k, left, manifest) ==
  /\ HasFields(k)
  /\ k.exp = j.exp /\ k.config = j.config /\ k.fresh = j.fresh /\ k.run = j.run
  /\ k.done = j.done /\ k.left = left /\ k.manifest = manifest

LEMMA JobPasses ==
  ASSUME NEW j, HasFields(j), NEW left, NEW k, k = [j EXCEPT !.left = left]
  PROVE  Passed(j, k, left, j.manifest) /\ k.at = j.at
  <1>1. k = Job(j.at, j.exp, j.config, j.fresh, j.manifest, j.run, j.runs,
                j.done, left, j.base, j.program)
    BY JobSet
  <1> QED BY <1>1, JobIs DEF Passed

Skips(j, k, left, manifest) == Passed(j, k, left, manifest) /\ k.at = j.at

LEMMA JobSkips ==
  ASSUME NEW j, HasFields(j), NEW left, NEW manifest,
         NEW k, k = [j EXCEPT !.left = left, !.manifest = manifest]
  PROVE  Skips(j, k, left, manifest)
  <1> DEFINE a == [j EXCEPT !.left = left]
             m == [a EXCEPT !.manifest = manifest]
  <1>1. k = m
    OBVIOUS
  <1> HIDE DEF m
  <1>2. Passed(j, a, left, j.manifest) /\ a.at = j.at
    BY JobPasses
  <1> HIDE DEF a
  <1>3. m = Job(a.at, a.exp, a.config, a.fresh, manifest, a.run, a.runs,
                a.done, a.left, a.base, a.program)
    BY <1>2, JobSet DEF Passed, m
  <1>4. Passed(j, m, left, manifest) /\ m.at = j.at
    BY <1>2, <1>3, JobIs DEF Passed
  <1> QED BY <1>1, <1>4 DEF Skips

LEMMA JobCompletes ==
  ASSUME NEW j, HasFields(j), NEW left, NEW manifest,
         NEW k, k = [j EXCEPT !.at = "phase", !.left = left, !.manifest = manifest]
  PROVE  Passed(j, k, left, manifest) /\ k.at = "phase"
  <1> DEFINE a == [j EXCEPT !.at = "phase"]
             b == [a EXCEPT !.left = left]
             m == [b EXCEPT !.manifest = manifest]
  <1>1. k = m
    OBVIOUS
  <1> HIDE DEF b, m
  <1>2. Moved(j, a, "phase")
    BY JobMoves
  <1> HIDE DEF a
  <1>3. Passed(a, b, left, a.manifest) /\ b.at = "phase"
    BY <1>2, JobPasses DEF Moved, b
  <1> HIDE DEF b
  <1>4. m = Job(b.at, b.exp, b.config, b.fresh, manifest, b.run, b.runs,
                b.done, b.left, b.base, b.program)
    BY <1>3, JobSet DEF Passed, m
  <1>5. Passed(j, m, left, manifest) /\ m.at = "phase"
    BY <1>2, <1>3, <1>4, JobIs DEF Passed, Moved, SameBook
  <1> QED BY <1>1, <1>5

-----------------------------------------------------------------------------
(* Queues that leave kinds of files alone.                                 *)
Spared(queue, kinds) ==
  \E paths, removed : Within(queue, paths, removed) /\ \A q \in paths : q[1] \notin kinds

LEMMA SparedNone ==
  ASSUME NEW kinds
  PROVE  Spared(<<>>, kinds)
  <1> DEFINE none == {}
  <1>1. Within(<<>>, none, none) /\ \A q \in none : q[1] \notin kinds
    BY WithinNone
  <1> HIDE DEF none
  <1> QED BY <1>1 DEF Spared

LEMMA SparedJoin ==
  ASSUME NEW p, NEW q, NEW kinds, Spared(p, kinds), Spared(q, kinds)
  PROVE  Spared(p \o q, kinds)
  <1>1. PICK A, R : Within(p, A, R) /\ \A path \in A : path[1] \notin kinds
    BY DEF Spared
  <1>2. PICK B, T : Within(q, B, T) /\ \A path \in B : path[1] \notin kinds
    BY DEF Spared
  <1> DEFINE C == A \cup B
             U == R \cup T
             r == p \o q
  <1>3. Within(r, C, U)
    BY <1>1, <1>2, WithinJoin
  <1>4. \A path \in C : path[1] \notin kinds
    BY <1>1, <1>2
  <1> HIDE DEF C, U, r
  <1>5. Spared(r, kinds)
    BY <1>3, <1>4 DEF Spared
  <1> QED BY <1>5 DEF r

LEMMA SparedOne ==
  ASSUME NEW o, IsPlain(o), NEW kinds, o.path[1] \notin kinds
  PROVE  Spared(<<o>>, kinds)
  <1> DEFINE A == {o.path}
             R == IF o.op = "remove" THEN {o.path} ELSE {}
             q == <<o>>
  <1>1. Within(q, A, R)
    BY WithinOne
  <1>2. \A path \in A : path[1] \notin kinds
    OBVIOUS
  <1> HIDE DEF A, R, q
  <1>3. Spared(q, kinds)
    BY <1>1, <1>2 DEF Spared
  <1> QED BY <1>3 DEF q

LEMMA SparedWrite ==
  ASSUME NEW path, NEW content, NEW kinds, path[1] \notin kinds
  PROVE  Spared(<<Write(path, content)>>, kinds)
  <1> DEFINE o == Write(path, content)
  <1>1. IsPlain(o) /\ o.path = path
    BY WriteIsPlain
  <1> HIDE DEF o
  <1>2. Spared(<<o>>, kinds)
    BY <1>1, SparedOne
  <1> QED BY <1>2 DEF o

LEMMA SparedMore ==
  ASSUME NEW queue, NEW kinds, NEW less, less \subseteq kinds, Spared(queue, kinds)
  PROVE  Spared(queue, less)
  BY DEF Spared

LEMMA SparedGoes ==
  ASSUME NEW d, NEW queue, NEW kinds, Spared(queue, kinds)
  PROVE  \E e, disks : Goes(d, queue, e, disks) /\ \A x \in disks : Agree(d, x, kinds)
  <1>1. PICK paths, removed : Within(queue, paths, removed) /\ \A q \in paths : q[1] \notin kinds
    BY DEF Spared
  <1>2. PICK e, disks : Ways(d, queue, e, disks, paths, removed)
    BY <1>1, WithinGoes
  <1>3. ASSUME NEW x \in disks PROVE Agree(d, x, kinds)
    <2>1. Follows(d, x, paths, removed)
      BY <1>2 DEF Ways
    <2> QED BY <1>1, <2>1 DEF Follows, Agree
  <1> QED BY <1>2, <1>3 DEF Ways

LEMMA OwnedSpared ==
  ASSUME NEW queue, NEW x, NEW ph, OwnedQueue(queue, x, ph)
  PROVE  Spared(queue, BookKinds \cup VersionKinds)
  <1>1. PICK paths, removed : Within(queue, paths, removed) /\ \A q \in paths : Owned(q, x, ph)
    BY DEF OwnedQueue
  <1>2. \A q \in paths : q[1] \notin BookKinds \cup VersionKinds
    BY <1>1 DEF Owned
  <1> QED BY <1>1, <1>2 DEF Spared

(* The files of the registry.                                              *)
RegistryKinds == {"program", "metadata", "latest", "workflow", "workflow.json", "record"}

LEMMA RegistrySpares ==
  ASSUME NEW kinds, kinds \cap RegistryKinds = {}
  PROVE  /\ \A s, p, t : Spared(Record(s, p, t), kinds)
         /\ \A m, program, metadata :
              Spared(WriteVersion(m, program, metadata) \o SetLatest(m), kinds)
         /\ \A m : Spared(SetLatest(m), kinds)
         /\ \A program : Spared(InitWorkflow(program), kinds)
  <1>0. \A k \in RegistryKinds : k \notin kinds
    OBVIOUS
  <1>1. ASSUME NEW s, NEW p, NEW t PROVE Spared(Record(s, p, t), kinds)
    <2> DEFINE path == RecordFile(s, p)
               content == [patch |-> p, target |-> t]
    <2>1. path[1] \notin kinds
      BY <1>0, PathsApart DEF RegistryKinds
    <2>2. Record(s, p, t) = <<Write(path, content)>>
      BY DEF Record
    <2> HIDE DEF path, content
    <2> QED BY <2>1, <2>2, SparedWrite
  <1>2. ASSUME NEW m PROVE Spared(SetLatest(m), kinds)
    <2>1. LatestFile[1] \notin kinds
      BY <1>0, PathsApart DEF RegistryKinds
    <2> QED BY <2>1, SparedWrite DEF SetLatest
  <1>3. ASSUME NEW m, NEW program, NEW metadata PROVE Spared(WriteVersion(m, program, metadata), kinds)
    <2> DEFINE a == Write(ProgramFile(m), program)
               b == Write(MetadataFile(m), metadata)
    <2>1. ProgramFile(m)[1] \notin kinds /\ MetadataFile(m)[1] \notin kinds
      BY <1>0, PathsApart DEF RegistryKinds
    <2>2. Spared(<<a>>, kinds) /\ Spared(<<b>>, kinds)
      BY <2>1, SparedWrite
    <2>3. WriteVersion(m, program, metadata) = <<a, b>>
      BY DEF WriteVersion
    <2> HIDE DEF a, b
    <2>4. <<a, b>> = <<a>> \o <<b>>
      BY JoinTwo
    <2> QED BY <2>2, <2>3, <2>4, SparedJoin
  <1>4. ASSUME NEW program PROVE Spared(InitWorkflow(program), kinds)
    <2> DEFINE a == MakeDir(WorkflowDir)
               b == Write(WorkflowFile, "metadata")
    <2>1. a.path = WorkflowDir /\ IsPlain(a)
      BY DEF MakeDir, IsPlain, Operations
    <2>2. WorkflowDir[1] \notin kinds /\ WorkflowFile[1] \notin kinds
      BY <1>0, PathsApart DEF RegistryKinds
    <2>3. Spared(<<b>>, kinds)
      BY <2>2, SparedWrite
    <2>4. InitWorkflow(program) = <<a, b>> \o WriteVersion(1, program, Baseline) \o SetLatest(1)
      BY DEF InitWorkflow
    <2> HIDE DEF a, b
    <2>5. Spared(<<a>>, kinds)
      BY <2>1, <2>2, SparedOne
    <2>6. <<a, b>> = <<a>> \o <<b>>
      BY JoinTwo
    <2>7. Spared(<<a, b>>, kinds)
      BY <2>3, <2>5, <2>6, SparedJoin
    <2> QED BY <1>2, <1>3, <2>4, <2>7, SparedJoin
  <1>5. ASSUME NEW m, NEW program, NEW metadata
        PROVE  Spared(WriteVersion(m, program, metadata) \o SetLatest(m), kinds)
    BY <1>2, <1>3, SparedJoin
  <1> QED BY <1>1, <1>2, <1>4, <1>5

-----------------------------------------------------------------------------
(* What a command does to experiments: its files are others, and a stopped *)
(* job is none.                                                            *)
LEMMA AskingPlaces == Asking \cap ExpPlaces = {} /\ "ask" \notin ExpPlaces
  BY DEF Asking, ExpPlaces

LEMMA InstallerQuiet ==
  ASSUME IsJob(job) \/ IsOther(job), InstallerStep, NEW kinds, kinds \cap RegistryKinds = {}
  PROVE  \/ FileOperation
         \/ disk' = disk /\ Spared(todo', kinds) /\ IsOther(job')
  <1> DEFINE Quiet == disk' = disk /\ Spared(todo', kinds) /\ IsOther(job')
  <1>0. Spared(<<>>, kinds)
    BY SparedNone
  <1>1. IsOther(Idle) /\ (NextAttempt => IsOther(job'))
    <2>1. \A attempts, asked : IsOther([at |-> "ask", attempts |-> attempts, asked |-> asked])
      BY AskingPlaces, OtherJobs
    <2>2. IsOther(Idle)
      BY OtherJobs
    <2>3. ASSUME NextAttempt PROVE IsOther(job')
      <3>1. CASE job.attempts > 1
        <4>1. job' = [at |-> "ask", attempts |-> job.attempts - 1, asked |-> job.asked]
          BY <2>3, <3>1 DEF NextAttempt
        <4> QED BY <2>1, <4>1
      <3>2. CASE ~(job.attempts > 1)
        <4>1. job' = Idle
          BY <2>3, <3>2 DEF NextAttempt
        <4> QED BY <2>2, <4>1
      <3> QED BY <3>1, <3>2
    <2> QED BY <2>2, <2>3
  <1>2. ASSUME NEW base \in Bases, InitWorkflowCommand(base) PROVE Quiet
    BY <1>1, <1>2, RegistrySpares DEF InitWorkflowCommand, Free
  <1>3. ASSUME NEW attempts, Optimize(attempts) PROVE Quiet
    <2>1. "ask" \notin ExpPlaces
      BY DEF ExpPlaces
    <2>2. IsOther(job')
      BY <1>3, <2>1, OtherJobs DEF Optimize
    <2> QED BY <1>0, <1>3, <2>2 DEF Optimize, Free
  <1>4. CASE NoPatchReturned \/ EvaluationFails \/ Installed
    BY <1>0, <1>1, <1>4 DEF NoPatchReturned, EvaluationFails, Installed, At
  <1>5. ASSUME NEW patch, Propose(patch) PROVE Quiet
    <2>1. "validate" \notin ExpPlaces
      BY DEF ExpPlaces
    <2>2. IsOther(job')
      BY <1>5, <2>1, OtherJobs DEF Propose
    <2> QED BY <1>5, <2>2, RegistrySpares DEF Propose
  <1>6. ASSUME NEW at \in {"validate", "evaluate", "install"}, At(at)
        PROVE  IsOther(job) /\ todo = <<>>
    BY <1>6 DEF At, IsJob, ExpPlaces
  <1>7. ASSUME NEW valid, Validate(valid) PROVE Quiet
    <2>1. IsOther(job) /\ "evaluate" \notin ExpPlaces
      BY <1>6, <1>7 DEF Validate, ExpPlaces
    <2>2. CASE valid
      <3>1. job' = [job EXCEPT !.at = "evaluate", !.program = Append(@, job.patch)]
        BY <1>7, <2>2 DEF Validate
      <3>2. IsOther(job')
        BY <2>1, <3>1, OtherJobs
      <3> QED BY <1>7, <2>2, <3>2, RegistrySpares DEF Validate
    <2>3. CASE ~valid
      BY <1>1, <1>7, <2>3, RegistrySpares DEF Validate, RejectPatch
    <2> QED BY <2>2, <2>3
  <1>8. ASSUME NEW accepted, Evaluate(accepted) PROVE Quiet
    <2>1. IsOther(job) /\ "install" \notin ExpPlaces /\ todo = <<>>
      BY <1>6, <1>8 DEF Evaluate, ExpPlaces
    <2>2. CASE accepted
      <3>1. job' = [job EXCEPT !.at = "install"] /\ todo' = todo /\ disk' = disk
        BY <1>8, <2>2 DEF Evaluate
      <3>2. IsOther(job')
        BY <2>1, <3>1, OtherJobs
      <3> QED BY <1>0, <2>1, <3>1, <3>2
    <2>3. CASE ~accepted
      BY <1>1, <1>8, <2>3, RegistrySpares DEF Evaluate, RejectPatch
    <2> QED BY <2>2, <2>3
  <1>9. CASE Install
    <2>1. IsOther(job) /\ "installed" \notin ExpPlaces /\ todo = <<>> /\ disk' = disk
      BY <1>6, <1>9 DEF Install, ExpPlaces
    <2>2. CASE CanList
      <3>0. job' = [at |-> "installed", attempts |-> job.attempts, asked |-> job.asked]
        BY <1>9, <2>2 DEF Install
      <3>1. IsOther(job')
        BY <2>1, <3>0, OtherJobs
      <3>2. todo' = InstallAndMark
        BY <1>9, <2>2 DEF Install
      <3>3. Spared(InstallAndMark, kinds)
        BY RegistrySpares, SparedJoin DEF InstallAndMark, InstallVersion
      <3> QED BY <2>1, <3>1, <3>2, <3>3
    <2>3. CASE ~CanList
      BY <1>0, <1>1, <1>9, <2>1, <2>3 DEF Install
    <2> QED BY <2>2, <2>3
  <1>10. CASE Stop
    BY <1>0, <1>1, <1>10 DEF Stop
  <1>11. CASE AttemptFails
    <2>1. IsOther(job)
      BY <1>11 DEF AttemptFails, IsJob, ExpPlaces
    <2> QED BY <1>0, <1>1, <1>11, <2>1 DEF AttemptFails
  <1> QED BY <1>2, <1>3, <1>4, <1>5, <1>7, <1>8, <1>9, <1>10, <1>11 DEF InstallerStep

-----------------------------------------------------------------------------
(* A phase's step: its files are its own, and it fails or is complete; one *)
(* that rewrites the predictions of a variant has then done so.            *)
FreshPredictions(ops, runs) ==
  Phase \in DOMAIN RewrittenFile =>
    /\ Run(RewrittenFile[Phase]) \in runs
    /\ \E offered, program : ops = Offer(offered) \o Rewritten(RewrittenFile[Phase], program)

Works == /\ todo = <<>> /\ job.left # <<>> /\ Phase \in KnownPhases \ job.done
         /\ UNCHANGED <<disk, commands>>

PhaseDone(ops) ==
  /\ OwnedQueue(ops, job.exp, Phase)
  /\ Fail(ops) \/ \E runs : Complete(ops, runs) /\ FreshPredictions(ops, runs)

WholePhase ==
  /\ Works /\ job.at = "phase" /\ Phase # "patch_validation"
  /\ \E ops : PhaseDone(ops)

LEMMA AtPhaseWorks ==
  ASSUME NEW phases, phases \subseteq KnownPhases, AtPhase(phases), Unchanged
  PROVE  Works /\ job.at = "phase" /\ Phase \in phases
  BY DEF AtPhase, At, Works, Unchanged

LEMMA PhaseNames ==
  /\ DOMAIN DirectFile \subseteq KnownPhases /\ DOMAIN InstalledFile \subseteq KnownPhases
  /\ DOMAIN RewrittenFile \subseteq KnownPhases
  /\ {"split_events", "cps_unoptimized_profile", "cps_unoptimized_heldout", "optimize",
      "patch_validation", "cps_generalized_patch_no_semantic_weak", "shadow_audit",
      "quality_eval", "report"} \subseteq KnownPhases
  /\ \A ph \in {"split_events", "cps_unoptimized_profile", "cps_unoptimized_heldout", "optimize",
                 "patch_validation", "cps_generalized_patch_no_semantic_weak", "shadow_audit",
                 "quality_eval", "report"} : ph \notin DOMAIN RewrittenFile
  <1>1. DOMAIN RewrittenFile = DOMAIN DirectFile \cup DOMAIN InstalledFile
    BY DEF RewrittenFile
  <1>2. /\ DOMAIN DirectFile = {"weak_only", "strong_direct", "cps_exact_memo_heldout"}
        /\ DOMAIN InstalledFile = {"cps_generalized_patch_heldout", "adversarial_audit"}
    BY PhaseFiles
  <1> HIDE DEF DirectFile, InstalledFile, RewrittenFile
  <1>4. DOMAIN RewrittenFile = {"weak_only", "strong_direct", "cps_exact_memo_heldout",
                                "cps_generalized_patch_heldout", "adversarial_audit"}
    BY <1>1, <1>2
  <1>5. /\ DOMAIN DirectFile \subseteq KnownPhases /\ DOMAIN InstalledFile \subseteq KnownPhases
        /\ DOMAIN RewrittenFile \subseteq KnownPhases
    BY <1>1 DEF KnownPhases
  <1>6. {"split_events", "cps_unoptimized_profile", "cps_unoptimized_heldout", "optimize",
         "patch_validation", "cps_generalized_patch_no_semantic_weak", "shadow_audit",
         "quality_eval", "report"} \subseteq KnownPhases
    BY DEF KnownPhases
  <1>8. \A ph \in {"split_events", "cps_unoptimized_profile", "cps_unoptimized_heldout", "optimize",
                    "patch_validation", "cps_generalized_patch_no_semantic_weak", "shadow_audit",
                    "quality_eval", "report"} : ph \notin DOMAIN RewrittenFile
    BY <1>4
  <1> QED BY <1>5, <1>6, <1>8

LEMMA OffersNothing ==
  ASSUME NEW queue, NEW x, NEW ph, OwnedQueue(queue, x, ph)
  PROVE  queue = Offer({}) \o queue
  <1>1. PICK S : queue \in Seq(S)
    BY DEF OwnedQueue, Within, AllPlain
  <1>2. Offer({}) = <<>>
    BY DEF Offer
  <1> QED BY <1>1, <1>2

LEMMA DirectShape ==
  ASSUME RunDirect \/ RunExactMemo
  PROVE  WholePhase
  <1>1. /\ AtPhase(DOMAIN DirectFile) /\ Unchanged
        /\ Complete(Rewritten(DirectFile[Phase], <<>>), {Run(DirectFile[Phase])})
    BY PhaseFiles DEF RunDirect, RunExactMemo, AtPhase
  <1>2. Works /\ job.at = "phase" /\ Phase \in DOMAIN DirectFile
    BY <1>1, AtPhaseWorks, PhaseNames
  <1> DEFINE file == RewrittenFile[Phase]
             none == <<>>
             ops == Rewritten(file, none)
             runs == {Run(file)}
  <1>3. Complete(ops, runs) /\ Phase \in DOMAIN RewrittenFile
    BY <1>1, <1>2, PhaseFiles
  <1>4. OwnedQueue(ops, job.exp, Phase)
    BY <1>3, PhaseFiles, OwnedRewritten
  <1>5. Phase # "patch_validation"
    BY <1>3, PhaseNames
  <1>6. Run(file) \in runs
    OBVIOUS
  <1> HIDE DEF none, file
  <1>7. ops = Offer({}) \o Rewritten(file, none)
    BY <1>4, OffersNothing
  <1>8. FreshPredictions(ops, runs)
    BY <1>6, <1>7 DEF FreshPredictions, file
  <1> HIDE DEF ops, runs
  <1> QED BY <1>2, <1>3, <1>4, <1>5, <1>8 DEF WholePhase, PhaseDone

LEMMA OtherShape ==
  ASSUME Works, job.at = "phase", Phase # "patch_validation", Phase \notin DOMAIN RewrittenFile,
         NEW ops, OwnedQueue(ops, job.exp, Phase), Fail(ops) \/ \E runs : Complete(ops, runs)
  PROVE  WholePhase
  BY DEF WholePhase, PhaseDone, FreshPredictions

LEMMA InstalledShape ==
  ASSUME NEW offered, RunInstalled(offered)
  PROVE  WholePhase
  <1>1. AtPhase(DOMAIN InstalledFile) /\ Unchanged
    BY DEF RunInstalled
  <1>2. Works /\ job.at = "phase" /\ Phase \in DOMAIN InstalledFile
    BY <1>1, AtPhaseWorks, PhaseNames
  <1> DEFINE file == RewrittenFile[Phase]
             program == disk[ProgramFile(Latest)]
             lines == Rewritten(file, program)
             ops == Offer(offered) \o lines
             clear == Clear(Predictions(job.exp, file))
             runs == {Run(file)}
  <1>3. file = InstalledFile[Phase] /\ Phase \in DOMAIN RewrittenFile
    BY <1>2, PhaseFiles
  <1>4. IF ~CanLoadLatest THEN Fail(clear)
        ELSE IF Latest = 1 THEN Fail(ops) ELSE Complete(ops, runs)
    BY <1>3 DEF RunInstalled
  <1>5. OwnedQueue(lines, job.exp, Phase) /\ OwnedQueue(clear, job.exp, Phase)
    BY <1>3, PhaseFiles, OwnedRewritten
  <1>6. OwnedQueue(Offer(offered), job.exp, Phase)
    BY OwnedOffer
  <1>7. Phase # "patch_validation"
    BY <1>3, PhaseNames
  <1>8. Run(file) \in runs
    OBVIOUS
  <1> HIDE DEF file, program
  <1>9. FreshPredictions(ops, runs)
    BY <1>8 DEF FreshPredictions, file
  <1> HIDE DEF lines, clear, runs
  <1>10. OwnedQueue(ops, job.exp, Phase)
    BY <1>5, <1>6, OwnedJoin
  <1> HIDE DEF ops
  <1>11. PhaseDone(ops) \/ PhaseDone(clear)
    BY <1>4, <1>5, <1>9, <1>10 DEF PhaseDone
  <1> QED BY <1>2, <1>7, <1>11 DEF WholePhase

LEMMA SideQueue ==
  ASSUME NEW x, NEW ph
  PROVE  /\ \A content : /\ OwnedQueue(<<Write(ShadowMetrics(x), content)>>, x, ph)
                         /\ OwnedQueue(<<Write(ReportMarkdown(x), content)>>, x, ph)
                         /\ OwnedQueue(<<Write(ReportJson(x), content)>>, x, ph)
         /\ Owned(ShadowFile(x), x, ph) /\ Removable(ShadowFile(x))
         /\ \A file : Owned(Quality(x, file), x, ph)
  <1>1. /\ Owned(ShadowMetrics(x), x, ph) /\ Owned(ReportMarkdown(x), x, ph)
        /\ Owned(ReportJson(x), x, ph) /\ Owned(ShadowFile(x), x, ph)
        /\ \A file : Owned(Quality(x, file), x, ph)
    BY ExperimentPaths, SideOwned DEF SideKinds
  <1>2. Removable(ShadowFile(x))
    BY ExperimentPaths DEF Removable
  <1> QED BY <1>1, <1>2, OwnedWrite

LEMMA QuietShapes ==
  ASSUME NEW offered, SplitEvents \/ RunProfile(offered) \/ RunUnoptimized(offered) \/ RunNoSemantic
  PROVE  WholePhase
  <1> DEFINE program == disk[ProgramFile(Latest)]
             none == <<>>
  <1>1. ASSUME NEW ph, AtPhase({ph}), Unchanged, ph \in KnownPhases, ph \notin DOMAIN RewrittenFile,
               ph # "patch_validation"
        PROVE  /\ Works /\ job.at = "phase" /\ Phase # "patch_validation"
               /\ Phase \notin DOMAIN RewrittenFile /\ Phase = ph
    BY <1>1, AtPhaseWorks
  <1>2. CASE SplitEvents
    <2>1. AtPhase({"split_events"}) /\ Unchanged /\ Complete(<<>>, {})
      BY <1>2 DEF SplitEvents
    <2>2. OwnedQueue(<<>>, job.exp, Phase)
      BY OwnedNone
    <2> QED BY <1>1, <2>1, <2>2, OtherShape, PhaseNames
  <1>3. CASE RunProfile(offered)
    <2>1. AtPhase({"cps_unoptimized_profile"}) /\ Unchanged
      BY <1>3 DEF RunProfile
    <2> DEFINE ops == Offer(offered)
    <2>2. Complete(ops, {Run("profile")}) \/ Fail(<<>>)
      BY <1>3 DEF RunProfile
    <2>3. OwnedQueue(<<>>, job.exp, Phase) /\ OwnedQueue(ops, job.exp, Phase)
      BY OwnedNone, OwnedOffer
    <2> HIDE DEF ops
    <2> QED BY <1>1, <2>1, <2>2, <2>3, OtherShape, PhaseNames
  <1>4. CASE RunUnoptimized(offered)
    <2>1. AtPhase({"cps_unoptimized_heldout"}) /\ Unchanged
      BY <1>4 DEF RunUnoptimized
    <2> DEFINE lines == Lines(UnoptimizedFile, program)
               ops == Offer(offered) \o lines
    <2>2. Complete(ops, {Run(UnoptimizedFile)}) \/ Fail(<<>>)
      BY <1>4 DEF RunUnoptimized
    <2>3. Phase = "cps_unoptimized_heldout"
      BY <1>1, <2>1, PhaseNames
    <2>4. UnoptimizedFile \in FilesOf(Phase)
      BY <2>3, PhaseFiles
    <2>5. OwnedQueue(Lines(UnoptimizedFile, program), job.exp, Phase)
      BY <2>4, OwnedRewritten
    <2> HIDE DEF lines
    <2>6. OwnedQueue(<<>>, job.exp, Phase) /\ OwnedQueue(ops, job.exp, Phase)
      BY <2>5, OwnedNone, OwnedOffer, OwnedJoin DEF lines
    <2> HIDE DEF ops
    <2> QED BY <1>1, <2>1, <2>2, <2>6, OtherShape, PhaseNames
  <1>5. CASE RunNoSemantic
    <2>1. AtPhase({"cps_generalized_patch_no_semantic_weak"}) /\ Unchanged
      BY <1>5 DEF RunNoSemantic
    <2> DEFINE ops == Rewritten(NoSemanticFile, none)
    <2>2. Complete(ops, {Run(NoSemanticFile)}) \/ Fail(<<>>)
      BY <1>5 DEF RunNoSemantic
    <2>3. Phase = "cps_generalized_patch_no_semantic_weak"
      BY <1>1, <2>1, PhaseNames
    <2>4. NoSemanticFile \in FilesOf(Phase)
      BY <2>3, PhaseFiles
    <2>5. OwnedQueue(<<>>, job.exp, Phase) /\ OwnedQueue(ops, job.exp, Phase)
      BY <2>4, OwnedNone, OwnedRewritten
    <2> HIDE DEF ops
    <2> QED BY <1>1, <2>1, <2>2, <2>5, OtherShape, PhaseNames
  <1> QED BY <1>2, <1>3, <1>4, <1>5

LEMMA OwnedWrites ==
  ASSUME NEW x, NEW ph, NEW S, NEW queue \in Seq(S),
         \A i \in 1 .. Len(queue) : \E path, content :
            queue[i] = Write(path, content) /\ Owned(path, x, ph)
  PROVE  OwnedQueue(queue, x, ph)
  <1>1. ASSUME NEW i \in 1 .. Len(queue)
        PROVE  IsPlain(queue[i]) /\ queue[i].op # "remove" /\ Owned(queue[i].path, x, ph)
    <2>1. PICK path, content : queue[i] = Write(path, content) /\ Owned(path, x, ph)
      OBVIOUS
    <2> DEFINE o == Write(path, content)
    <2>2. IsPlain(o) /\ o.path = path /\ o.op = "write"
      BY WriteIsPlain, WriteOperation
    <2> HIDE DEF o
    <2>3. queue[i] = o
      BY <2>1 DEF o
    <2> QED BY <2>1, <2>2, <2>3
  <1> DEFINE A == PathsOf(queue)
             R == RemovedBy(queue)
  <1>2. AllPlain(queue)
    BY <1>1 DEF AllPlain
  <1>3. \A q \in A : Owned(q, x, ph)
    BY <1>1 DEF PathsOf
  <1>4. \A q \in R : Removable(q)
    BY <1>1 DEF RemovedBy
  <1>5. Within(queue, A, R)
    BY <1>2 DEF Within
  <1> HIDE DEF A, R
  <1> QED BY <1>3, <1>4, <1>5 DEF OwnedQueue

(* The order a directory is read in.                                       *)
LEMMA AnyOrder ==
  ASSUME NEW files, IsFiniteSet(files)
  PROVE  \E n \in Nat : /\ InAnyOrder(files) \in [1 .. n -> files]
                        /\ \A f \in files : \E i \in 1 .. n : InAnyOrder(files)[i] = f
  <1> DEFINE n == Cardinality(files)
             Covers(s) == \A f \in files : \E i \in DOMAIN s : s[i] = f
  <1>1. n \in Nat
    BY FS_CardinalityType
  <1>2. PICK s : s \in Bijection(1 .. n, files)
    BY FS_CardinalityType DEF ExistsBijection
  <1>3. s \in [1 .. n -> files] /\ Covers(s)
    BY <1>2 DEF Bijection, Surjection
  <1>4. InAnyOrder(files) = CHOOSE t \in [1 .. n -> files] : Covers(t)
    BY DEF InAnyOrder
  <1> HIDE DEF Covers
  <1>5. InAnyOrder(files) \in [1 .. n -> files] /\ Covers(InAnyOrder(files))
    BY <1>3, <1>4
  <1> QED BY <1>1, <1>5 DEF Covers

LEMMA EvaluatedFinite == IsFiniteSet(EvaluatedFiles)
  <1>1. \A S, T : IsFiniteSet(S) /\ IsFiniteSet(T) => IsFiniteSet(S \cup T)
    BY FS_Union
  <1>2. \A a : IsFiniteSet({a})
    BY FS_Singleton
  <1>3. \A a, b : IsFiniteSet({a, b})
    <2> TAKE a, b
    <2> DEFINE u == {a}
               v == {b}
               w == {a, b}
    <2>1. w = u \cup v
      OBVIOUS
    <2>2. IsFiniteSet(u) /\ IsFiniteSet(v)
      BY <1>2
    <2> HIDE DEF u, v, w
    <2>3. IsFiniteSet(w)
      BY <1>1, <2>1, <2>2
    <2> QED BY <2>3 DEF w
  <1>4. \A a, b, c : IsFiniteSet({a, b, c})
    <2> TAKE a, b, c
    <2> DEFINE u == {a, b}
               v == {c}
               w == {a, b, c}
    <2>1. w = u \cup v
      OBVIOUS
    <2>2. IsFiniteSet(u) /\ IsFiniteSet(v)
      BY <1>2, <1>3
    <2> HIDE DEF u, v, w
    <2>3. IsFiniteSet(w)
      BY <1>1, <2>1, <2>2
    <2> QED BY <2>3 DEF w
  <1> DEFINE A == {DirectFile[ph] : ph \in DOMAIN DirectFile}
             B == {InstalledFile[ph] : ph \in DOMAIN InstalledFile}
             C == {UnoptimizedFile, NoSemanticFile}
  <1>5. DOMAIN DirectFile = {"weak_only", "strong_direct", "cps_exact_memo_heldout"}
        /\ DOMAIN InstalledFile = {"cps_generalized_patch_heldout", "adversarial_audit"}
    BY PhaseFiles
  <1>6. A = {DirectFile["weak_only"], DirectFile["strong_direct"], DirectFile["cps_exact_memo_heldout"]}
    BY <1>5
  <1>7. B = {InstalledFile["cps_generalized_patch_heldout"], InstalledFile["adversarial_audit"]}
    BY <1>5
  <1>8. EvaluatedFiles = (A \cup B) \cup C
    BY DEF EvaluatedFiles
  <1>9. IsFiniteSet(C)
    BY <1>3
  <1> HIDE DEF A, B, C
  <1>10. IsFiniteSet(A) /\ IsFiniteSet(B)
    BY <1>3, <1>4, <1>6, <1>7
  <1>11. IsFiniteSet(A \cup B)
    BY <1>1, <1>10
  <1> QED BY <1>1, <1>8, <1>9, <1>11

LEMMA QualityShape ==
  ASSUME EvaluateQuality
  PROVE  WholePhase
  <1>1. AtPhase({"quality_eval"}) /\ Unchanged
    BY DEF EvaluateQuality
  <1>2. /\ Works /\ job.at = "phase" /\ Phase = "quality_eval"
        /\ Phase # "patch_validation" /\ Phase \notin DOMAIN RewrittenFile
    BY <1>1, AtPhaseWorks, PhaseNames
  <1> DEFINE files == InAnyOrder(Present)
             x == job.exp
             ops == [i \in DOMAIN files |-> Write(Quality(x, files[i]), disk[Predictions(x, files[i])])]
  <1>3. Complete(ops, {})
    BY DEF EvaluateQuality
  <1>4. Present \subseteq EvaluatedFiles
    BY DEF Present
  <1>5. IsFiniteSet(Present)
    BY <1>4, EvaluatedFinite, FS_Subset
  <1>6. PICK n \in Nat : files \in [1 .. n -> Present]
    BY <1>5, AnyOrder
  <1> HIDE DEF files, x
  <1> DEFINE S == {ops[i] : i \in 1 .. n}
  <1>7. DOMAIN files = 1 .. n
    BY <1>6
  <1>8. ops \in [1 .. n -> S]
    BY <1>7
  <1>9. \A i \in 1 .. n : ops[i] = Write(Quality(x, files[i]), disk[Predictions(x, files[i])])
    BY <1>7
  <1> HIDE DEF S, ops
  <1>10. ops \in Seq(S) /\ Len(ops) = n
    BY <1>8
  <1>11. \A i \in 1 .. Len(ops) : \E path, content :
           ops[i] = Write(path, content) /\ Owned(path, x, Phase)
    BY <1>9, <1>10, SideQueue
  <1>12. OwnedQueue(ops, x, Phase)
    BY <1>10, <1>11, OwnedWrites
  <1> QED BY <1>2, <1>3, <1>12, OtherShape DEF x

LEMMA AuditShapes ==
  ASSUME NEW plan, ShadowAudit \/ Report \/ OptimizePhase(plan)
  PROVE  WholePhase
  <1> DEFINE x == job.exp
  <1>1. CASE ShadowAudit
    <2>1. AtPhase({"shadow_audit"}) /\ Unchanged
      BY <1>1 DEF ShadowAudit
    <2>2. /\ Works /\ job.at = "phase"
          /\ Phase # "patch_validation" /\ Phase \notin DOMAIN RewrittenFile
      BY <2>1, AtPhaseWorks, PhaseNames
    <2> DEFINE p == ShadowFile(x)
               a == Clear(p)
               b == [i \in DOMAIN Events |-> AppendLine(p, Events[i])]
               m == <<Write(ShadowMetrics(x), "metrics")>>
    <2>3. Complete((a \o b) \o m, {Run("shadow")}) \/ Fail(<<>>)
      BY <1>1 DEF ShadowAudit
    <2>4. a = Cleared(Exists(p), p) /\ b = LinesOf(p, Events)
      BY DEF Clear, Cleared, LinesOf
    <2>5. Owned(p, x, Phase) /\ Removable(p) /\ OwnedQueue(m, x, Phase)
      BY SideQueue
    <2>6. Events \in Seq(STRING)
      BY ExperimentAssumption
    <2> HIDE DEF p, a, b, m
    <2>7. OwnedQueue(b, x, Phase)
      BY <2>4, <2>5, <2>6, OwnedLines
    <2>8. OwnedQueue(a, x, Phase)
      BY <2>4, <2>5, OwnedCleared
    <2> DEFINE ops == (a \o b) \o m
    <2>9. OwnedQueue(ops, x, Phase) /\ OwnedQueue(<<>>, x, Phase)
      BY <2>5, <2>7, <2>8, OwnedJoin, OwnedNone
    <2> HIDE DEF ops
    <2>10. Complete(ops, {Run("shadow")}) \/ Fail(<<>>)
      BY <2>3 DEF ops
    <2> QED BY <2>2, <2>9, <2>10, OtherShape
  <1>2. CASE Report
    <2>1. AtPhase({"report"}) /\ Unchanged
      BY <1>2 DEF Report
    <2>2. /\ Works /\ job.at = "phase"
          /\ Phase # "patch_validation" /\ Phase \notin DOMAIN RewrittenFile
      BY <2>1, AtPhaseWorks, PhaseNames
    <2> DEFINE a == Write(ReportMarkdown(x), ReportedRuns)
               b == Write(ReportJson(x), ReportedRuns)
    <2>3. Complete(<<a, b>>, {}) \/ Fail(<<>>)
      BY <1>2 DEF Report
    <2>4. OwnedQueue(<<a>>, x, Phase) /\ OwnedQueue(<<b>>, x, Phase)
      BY SideQueue
    <2> HIDE DEF a, b
    <2>5. <<a, b>> = <<a>> \o <<b>>
      BY JoinTwo
    <2>6. OwnedQueue(<<a, b>>, x, Phase) /\ OwnedQueue(<<>>, x, Phase)
      BY <2>4, <2>5, OwnedJoin, OwnedNone
    <2> QED BY <2>2, <2>3, <2>6, OtherShape
  <1>3. CASE OptimizePhase(plan)
    <2>1. AtPhase({"optimize"}) /\ Unchanged /\ Complete(Artifacts(plan), {Run("optimize")})
      BY <1>3 DEF OptimizePhase
    <2>2. /\ Works /\ job.at = "phase" /\ Phase = "optimize"
          /\ Phase # "patch_validation" /\ Phase \notin DOMAIN RewrittenFile
      BY <2>1, AtPhaseWorks, PhaseNames
    <2>3. OwnedQueue(Artifacts(plan), x, Phase)
      BY <2>2, ArtifactsOwned
    <2> QED BY <2>1, <2>2, <2>3, OtherShape
  <1> QED BY <1>1, <1>2, <1>3

LEMMA PhaseShapes ==
  ASSUME \/ SplitEvents \/ RunDirect \/ RunExactMemo
         \/ \E offered \in Offers : RunProfile(offered) \/ RunUnoptimized(offered) \/ RunInstalled(offered)
         \/ RunNoSemantic \/ ShadowAudit \/ EvaluateQuality \/ Report
         \/ \E plan \in Plans : OptimizePhase(plan)
  PROVE  WholePhase
  BY DirectShape, InstalledShape, QuietShapes, QualityShape, AuditShapes

-----------------------------------------------------------------------------
(* patch_validation takes several steps, and is the phase throughout.      *)
PartPlaces == {"select", "gate", "install_semantic"}
Placed(j) ==
  j.at \in PartPlaces =>
    j.left # <<>> /\ Head(j.left) = "patch_validation" /\ "patch_validation" \notin j.done

GoesOnAs(k) == k = Idle \/ (IsJob(k) /\ SameBook(job, k) /\ Placed(k))

PartPhase ==
  /\ Works /\ Phase = "patch_validation" /\ IsJob(job)
  /\ OwnedQueue(todo', job.exp, Phase)
  /\ GoesOnAs(job')

LEMMA PartWorks ==
  ASSUME IsJob(job), Placed(job), NEW at \in PartPlaces, At(at), UNCHANGED <<disk, commands>>
  PROVE  Works /\ Phase = "patch_validation"
  BY PhaseNames DEF At, Placed, Works, Phase

LEMMA PartGoesOn ==
  ASSUME IsJob(job), job.left # <<>>, Phase = "patch_validation", Phase \notin job.done,
         NEW k, HasFields(k), SameBook(job, k), k.at \in PartPlaces
  PROVE  GoesOnAs(k)
  <1>1. IsJob(k)
    BY DEF IsJob, PartPlaces, ExpPlaces
  <1> QED BY <1>1 DEF GoesOnAs, Placed, SameBook, Phase

LEMMA PartOwned ==
  ASSUME NEW content
  PROVE  /\ OwnedQueue(<<Write(GateFile(job.exp), content)>>, job.exp, "patch_validation")
         /\ OwnedQueue(<<Write(PatchInstallFile(job.exp), content)>>, job.exp, "patch_validation")
  <1> DEFINE x == job.exp
  <1>1. GateFile(x)[1] = "gate" /\ GateFile(x)[2] = x
        /\ PatchInstallFile(x)[1] = "patch_install" /\ PatchInstallFile(x)[2] = x
    BY ExperimentPaths
  <1> DEFINE g == GateFile(x)
             p == PatchInstallFile(x)
  <1> HIDE DEF g, p
  <1>2. Owned(g, x, "patch_validation") /\ Owned(p, x, "patch_validation")
    BY <1>1 DEF Owned, IsInstalledRecord, BookKinds, VersionKinds, g, p
  <1>3. OwnedQueue(<<Write(g, content)>>, x, "patch_validation")
        /\ OwnedQueue(<<Write(p, content)>>, x, "patch_validation")
    BY <1>2, OwnedWrite
  <1> QED BY <1>3 DEF g, p

LEMMA ArtifactShapes ==
  ASSUME IsJob(job), NEW plan, ReuseArtifacts \/ MakeArtifacts(plan)
  PROVE  PartPhase /\ job'.at = "select" /\ evaluated' = evaluated
  <1>1. AtPhase({"patch_validation"}) /\ Unchanged
    BY DEF ReuseArtifacts, MakeArtifacts, Unchanged
  <1>2. Works /\ Phase = "patch_validation"
    BY <1>1, AtPhaseWorks, PhaseNames
  <1>3. OwnedQueue(<<>>, job.exp, Phase) /\ OwnedQueue(Artifacts(plan), job.exp, Phase)
    BY <1>2, OwnedNone, ArtifactsOwned
  <1>4. todo' = todo \/ todo' = Artifacts(plan)
    BY DEF ReuseArtifacts, MakeArtifacts
  <1>5. PICK runs : job' = [job EXCEPT !.at = "select", !.runs = runs]
    BY DEF ReuseArtifacts, MakeArtifacts
  <1>6. HasFields(job') /\ job'.at = "select" /\ SameBook(job, job')
    <2>1. HasFields(job)
      BY DEF IsJob
    <2>2. Moved(job, job', "select")
      BY <1>5, <2>1, JobMovesRuns, Zenon
    <2> QED BY <2>2 DEF Moved
  <1>7. GoesOnAs(job')
    <2>1. job.left # <<>> /\ Phase \notin job.done
      BY <1>2 DEF Works
    <2> DEFINE k == job'
    <2>2. HasFields(k) /\ SameBook(job, k) /\ k.at \in PartPlaces
      BY <1>6 DEF PartPlaces
    <2> HIDE DEF k
    <2>3. GoesOnAs(k)
      BY <1>2, <2>1, <2>2, PartGoesOn
    <2> QED BY <2>3 DEF k
  <1>8. todo = <<>>
    BY <1>2 DEF Works
  <1> QED BY <1>1, <1>2, <1>3, <1>4, <1>6, <1>7, <1>8 DEF PartPhase, Unchanged

LEMMA SelectShape ==
  ASSUME IsJob(job), Placed(job), SelectBase
  PROVE  PartPhase
  <1>1. At("select") /\ Unchanged
    BY DEF SelectBase
  <1>2. Works /\ Phase = "patch_validation"
    BY <1>1, PartWorks DEF PartPlaces, Unchanged
  <1>3. CASE CanSelect /\ IsStraight(disk[ProgramFile(BaseVersion)])
    <2> DEFINE patched == Append(disk[ProgramFile(BaseVersion)], SemanticPatch)
               none == <<>>
    <2>1. job' = [job EXCEPT !.at = "gate", !.base = BaseVersion, !.program = patched]
          /\ todo' = DirectSplit \o ExactMemoSplit \o CandidateSplit(patched)
      BY <1>3 DEF SelectBase
    <2> HIDE DEF patched
    <2>2. HasFields(job') /\ job'.at = "gate" /\ SameBook(job, job')
      <3>1. HasFields(job)
        BY DEF IsJob
      <3>2. Selected(job, job', BaseVersion, patched)
        BY <2>1, <3>1, JobSelects, Zenon
      <3> QED BY <3>2 DEF Selected, Moved
    <2>3. \A i \in {1, 2, 3} : SplitFiles[i] \in FilesOf(Phase)
      <3>1. DOMAIN SplitFiles = {1, 2, 3}
        BY DEF SplitFiles
      <3> QED BY <1>2, <3>1, PhaseFiles
    <2>4. /\ OwnedQueue(Rewritten(SplitFiles[1], none), job.exp, Phase)
          /\ OwnedQueue(Rewritten(SplitFiles[2], none), job.exp, Phase)
          /\ OwnedQueue(Rewritten(SplitFiles[3], patched), job.exp, Phase)
      BY <2>3, OwnedRewritten
    <2>5. CandidateFile = SplitFiles[3]
      BY DEF SplitFiles
    <2>6. /\ OwnedQueue(DirectSplit, job.exp, Phase) /\ OwnedQueue(ExactMemoSplit, job.exp, Phase)
          /\ OwnedQueue(CandidateSplit(patched), job.exp, Phase)
      BY <2>4, <2>5 DEF DirectSplit, ExactMemoSplit, CandidateSplit
    <2>7. OwnedQueue(DirectSplit \o ExactMemoSplit \o CandidateSplit(patched), job.exp, Phase)
      BY <2>6, OwnedJoin
    <2>8. GoesOnAs(job')
      <3>1. job.left # <<>> /\ Phase \notin job.done
        BY <1>2 DEF Works
      <3> DEFINE k == job'
      <3>2. HasFields(k) /\ SameBook(job, k) /\ k.at \in PartPlaces
        BY <2>2 DEF PartPlaces
      <3> HIDE DEF k
      <3>3. GoesOnAs(k)
        BY <1>2, <3>1, <3>2, PartGoesOn
      <3> QED BY <3>3 DEF k
    <2> QED BY <1>2, <2>1, <2>7, <2>8 DEF PartPhase
  <1>4. CASE ~(CanSelect /\ IsStraight(disk[ProgramFile(BaseVersion)]))
    <2>1. Fail(<<>>)
      BY <1>4 DEF SelectBase
    <2> QED BY <1>2, <2>1, OwnedNone DEF PartPhase, GoesOnAs, Fail
  <1> QED BY <1>3, <1>4

LEMMA GateShape ==
  ASSUME IsJob(job), Placed(job), NEW accepted, Gate(accepted)
  PROVE  PartPhase
  <1>1. At("gate") /\ UNCHANGED <<disk, commands>>
    BY DEF Gate
  <1>2. Works /\ Phase = "patch_validation"
    BY <1>1, PartWorks DEF PartPlaces
  <1>3. CASE accepted
    <2>1. job' = [job EXCEPT !.at = "install_semantic"] /\ todo' = <<Write(GateFile(job.exp), TRUE)>>
      BY <1>3 DEF Gate
    <2>2. HasFields(job') /\ job'.at = "install_semantic" /\ SameBook(job, job')
      BY <2>1, JobMoves DEF IsJob, Moved
    <2>3. GoesOnAs(job')
      <3>1. job.left # <<>> /\ Phase \notin job.done
        BY <1>2 DEF Works
      <3> DEFINE k == job'
      <3>2. HasFields(k) /\ SameBook(job, k) /\ k.at \in PartPlaces
        BY <2>2 DEF PartPlaces
      <3> HIDE DEF k
      <3>3. GoesOnAs(k)
        BY <1>2, <3>1, <3>2, PartGoesOn
      <3> QED BY <3>3 DEF k
    <2>4. OwnedQueue(todo', job.exp, Phase)
      BY <1>2, <2>1, PartOwned
    <2> QED BY <1>2, <2>3, <2>4 DEF PartPhase
  <1>4. CASE ~accepted
    <2> DEFINE a == Write(GateFile(job.exp), FALSE)
               b == Write(PatchInstallFile(job.exp), 0)
    <2>1. Fail(<<a, b>>)
      BY <1>4 DEF Gate
    <2>2. OwnedQueue(<<a>>, job.exp, Phase) /\ OwnedQueue(<<b>>, job.exp, Phase)
      BY <1>2, PartOwned
    <2> HIDE DEF a, b
    <2>3. <<a, b>> = <<a>> \o <<b>>
      BY JoinTwo
    <2>4. OwnedQueue(<<a, b>>, job.exp, Phase)
      BY <2>2, <2>3, OwnedJoin
    <2> QED BY <1>2, <2>1, <2>4 DEF PartPhase, GoesOnAs, Fail
  <1> QED BY <1>3, <1>4

(* The installation writes what it has to in the registry and its report.  *)
InstallSpares == BookKinds \cup {"predictions", "gate", "plan", "rules", "memo"}

InstallPhase ==
  /\ Works /\ Phase = "patch_validation" /\ IsJob(job) /\ evaluated' = evaluated
  /\ \/ Fail(<<>>)
     \/ \E ops, runs : /\ Complete(ops, runs) /\ Spared(ops, InstallSpares)
                       /\ job.runs \cup {Run(SplitFiles[i]) : i \in DOMAIN SplitFiles} = runs

LEMMA InstallShape ==
  ASSUME IsJob(job), Placed(job), InstallSemantic
  PROVE  InstallPhase
  <1>1. At("install_semantic") /\ Unchanged
    BY DEF InstallSemantic
  <1>2. Works /\ Phase = "patch_validation"
    BY <1>1, PartWorks DEF PartPlaces, Unchanged
  <1>3. CASE CanSelect
    <2> DEFINE patched == Append(disk[ProgramFile(BaseVersion)], SemanticPatch)
               version == IF Reusable(patched) THEN Latest ELSE NextVersion
               install == IF Reusable(patched) THEN <<>> ELSE InstallVersion(patched, PatchMetadata)
               a == Record("proposed", SemanticPatch, BaseVersion)
               b == Record("validated", SemanticPatch, BaseVersion)
               c == Record("installed", SemanticPatch, version)
               f == <<Write(PatchInstallFile(job.exp), version)>>
               runs == job.runs \cup {Run(SplitFiles[i]) : i \in DOMAIN SplitFiles}
               ops == a \o b \o install \o c \o f
    <2>1. Complete(ops, runs)
      BY <1>3 DEF InstallSemantic
    <2>2. InstallSpares \cap RegistryKinds = {}
      BY DEF InstallSpares, RegistryKinds, BookKinds
    <2>3. Spared(a, InstallSpares) /\ Spared(b, InstallSpares) /\ Spared(c, InstallSpares)
      BY <2>2, RegistrySpares
    <2>4. Spared(install, InstallSpares)
      <3>1. Spared(InstallVersion(patched, PatchMetadata), InstallSpares)
        BY <2>2, RegistrySpares DEF InstallVersion
      <3>2. Spared(<<>>, InstallSpares)
        BY SparedNone
      <3> QED BY <3>1, <3>2
    <2>5. Spared(f, InstallSpares)
      <3>1. PatchInstallFile(job.exp)[1] = "patch_install"
        BY ExperimentPaths
      <3>2. "patch_install" \notin InstallSpares
        BY DEF InstallSpares, BookKinds
      <3> QED BY <3>1, <3>2, SparedWrite
    <2> HIDE DEF a, b, c, install, f
    <2>6. Spared(ops, InstallSpares)
      BY <2>3, <2>4, <2>5, SparedJoin
    <2> HIDE DEF ops, runs
    <2>7. job.runs \cup {Run(SplitFiles[i]) : i \in DOMAIN SplitFiles} = runs
      BY DEF runs
    <2> QED BY <1>1, <1>2, <2>1, <2>6, <2>7 DEF InstallPhase, Unchanged
  <1>4. CASE ~CanSelect
    BY <1>1, <1>2, <1>4 DEF InstallSemantic, InstallPhase, Unchanged
  <1> QED BY <1>3, <1>4

-----------------------------------------------------------------------------
(* How far an experiment has got.                                          *)
KnownAmong(phases, m) == {phases[i] : i \in 1 .. m} \cap KnownPhases
CompletedOf(m) == {m.completed[i] : i \in DOMAIN m.completed}

InOrder(completed, phases) ==
  \A i \in DOMAIN completed :
    \E k \in DOMAIN phases :
      /\ phases[k] = completed[i]
      /\ {completed[j] : j \in 1 .. i - 1} = {phases[j] : j \in 1 .. k - 1} \cap KnownPhases

(* left is what follows the first m of phases, of which those known are    *)
(* completed, beside the ones that had been before.                        *)
Position(phases, left, completed, done, m, k) ==
  /\ m \in 0 .. Len(phases) /\ k \in 0 .. Len(phases)
  /\ left = SubSeq(phases, m + 1, Len(phases))
  /\ done = KnownAmong(phases, k)
  /\ {completed[i] : i \in DOMAIN completed} = KnownAmong(phases, m) \cup done

LEMMA Remainder ==
  ASSUME NEW S, NEW s \in Seq(S), NEW m \in Nat, NEW n, n = m + 1, n \in 1 .. Len(s),
         NEW left, left = SubSeq(s, n, Len(s))
  PROVE  Head(left) = s[n] /\ Tail(left) = SubSeq(s, n + 1, Len(s))
  BY HeadTailOfSubSeq

LEMMA Predecessor == ASSUME NEW l \in Nat, NEW k \in 1 .. l PROVE \E p \in Nat : k = p + 1
  <1>1. k - 1 \in Nat /\ k = (k - 1) + 1
    OBVIOUS
  <1> QED BY <1>1

Reaches(phases, left, completed, done) ==
  \E m, k : Position(phases, left, completed, done, m, k)
Distinct(phases) ==
  \A i, k \in DOMAIN phases : phases[i] = phases[k] => i = k

LEMMA KnownOneMore ==
  ASSUME NEW phases, NEW m \in Nat, NEW n, n = m + 1
  PROVE  KnownAmong(phases, n) = KnownAmong(phases, m) \cup ({phases[n]} \cap KnownPhases)
  <1>1. 1 .. n = (1 .. m) \cup {n}
    OBVIOUS
  <1> QED BY <1>1 DEF KnownAmong

LEMMA KnownFewer ==
  ASSUME NEW phases, NEW m \in Nat, NEW k \in Nat, k <= m
  PROVE  KnownAmong(phases, k) \subseteq KnownAmong(phases, m)
  <1>1. 1 .. k \subseteq 1 .. m
    OBVIOUS
  <1> QED BY <1>1 DEF KnownAmong

LEMMA AppendedElements ==
  ASSUME NEW S, NEW s \in Seq(S), NEW x \in S, NEW t, t = Append(s, x)
  PROVE  /\ t \in Seq(S) /\ Len(t) = Len(s) + 1 /\ DOMAIN t = 1 .. Len(s) + 1
         /\ DOMAIN s = 1 .. Len(s)
         /\ \A i \in 1 .. Len(s) : t[i] = s[i]
         /\ t[Len(s) + 1] = x
         /\ {t[i] : i \in DOMAIN t} = {s[i] : i \in DOMAIN s} \cup {x}
  <1>1. PICK n \in Nat : n = Len(s) /\ DOMAIN s = 1 .. n
    OBVIOUS
  <1>2. t \in Seq(S) /\ Len(t) = n + 1 /\ DOMAIN t = 1 .. n + 1
    BY <1>1
  <1>3. (\A i \in 1 .. n : t[i] = s[i]) /\ t[n + 1] = x
    BY <1>1
  <1>4. 1 .. n + 1 = (1 .. n) \cup {n + 1}
    BY <1>1
  <1>5. {t[i] : i \in DOMAIN t} = {s[i] : i \in DOMAIN s} \cup {x}
    BY <1>1, <1>2, <1>3, <1>4
  <1> QED BY <1>1, <1>2, <1>3, <1>5

LEMMA PositionStart ==
  ASSUME NEW phases \in Seq(STRING), NEW completed \in Seq(KnownPhases), InOrder(completed, phases)
  PROVE  Reaches(phases, phases, completed, {completed[i] : i \in DOMAIN completed})
  <1> DEFINE done == {completed[i] : i \in DOMAIN completed}
  <1>1. PICK n \in Nat : n = Len(completed) /\ DOMAIN completed = 1 .. n
    OBVIOUS
  <1>2. PICK l \in Nat : l = Len(phases) /\ DOMAIN phases = 1 .. l
    OBVIOUS
  <1>3. KnownAmong(phases, 0) = {}
    <2>1. 1 .. 0 = {}
      OBVIOUS
    <2> QED BY <2>1 DEF KnownAmong
  <1>4. SubSeq(phases, 1, l) = phases
    BY <1>2
  <1>5. ASSUME NEW k \in 0 .. l, done = KnownAmong(phases, k)
        PROVE  Reaches(phases, phases, completed, done)
    <2>1. phases = SubSeq(phases, 0 + 1, Len(phases))
      BY <1>2, <1>4
    <2>2. 0 \in 0 .. Len(phases) /\ k \in 0 .. Len(phases)
      BY <1>2
    <2>3. Position(phases, phases, completed, done, 0, k)
      BY <1>3, <1>5, <2>1, <2>2 DEF Position
    <2> QED BY <2>3 DEF Reaches
  <1>6. CASE n = 0
    <2>1. done = {}
      BY <1>1, <1>6
    <2>2. 0 \in 0 .. l
      BY <1>2
    <2> QED BY <1>3, <1>5, <2>1, <2>2
  <1>7. CASE n # 0
    <2>1. n \in DOMAIN completed /\ completed[n] \in KnownPhases
      BY <1>1, <1>7
    <2>2. PICK k \in DOMAIN phases :
            /\ phases[k] = completed[n]
            /\ {completed[j] : j \in 1 .. n - 1} = {phases[j] : j \in 1 .. k - 1} \cap KnownPhases
      BY <2>1 DEF InOrder
    <2>3. PICK p \in Nat : k = p + 1
      <3>1. k \in 1 .. l
        BY <1>2, <2>2
      <3> QED BY <3>1, Predecessor
    <2>4. PICK q \in Nat : n = q + 1
      BY <1>7
    <2>5. {completed[j] : j \in 1 .. q} = KnownAmong(phases, p)
      <3>1. n - 1 = q /\ k - 1 = p
        BY <2>3, <2>4
      <3> QED BY <2>2, <3>1 DEF KnownAmong
    <2>6. 1 .. n = (1 .. q) \cup {n}
      BY <2>4
    <2>7. done = {completed[j] : j \in 1 .. q} \cup {completed[n]}
      BY <1>1, <2>6
    <2>8. KnownAmong(phases, k) = KnownAmong(phases, p) \cup ({phases[k]} \cap KnownPhases)
      BY <2>3, KnownOneMore
    <2>9. done = KnownAmong(phases, k)
      BY <2>1, <2>2, <2>5, <2>7, <2>8
    <2>10. k \in 0 .. l
      BY <1>2
    <2> QED BY <1>5, <2>9, <2>10
  <1> QED BY <1>6, <1>7

(* The phase at the head, and what follows it.                             *)
LEMMA PositionHead ==
  ASSUME NEW phases \in Seq(STRING), NEW left, left # <<>>, NEW completed, NEW done, NEW m, NEW k,
         Position(phases, left, completed, done, m, k)
  PROVE  \E n : /\ m \in Nat /\ n = m + 1 /\ n \in 1 .. Len(phases) /\ Head(left) = phases[n]
                /\ Tail(left) = SubSeq(phases, n + 1, Len(phases))
  <1>1. PICK l \in Nat : l = Len(phases)
    OBVIOUS
  <1>2. m \in 0 .. l /\ left = SubSeq(phases, m + 1, l)
    BY <1>1 DEF Position
  <1>3. m # l
    BY <1>1, <1>2
  <1>4. PICK n \in Nat : n = m + 1 /\ n \in 1 .. l
    BY <1>2, <1>3
  <1>5. left = SubSeq(phases, n, l)
    BY <1>2, <1>4
  <1>6. Head(left) = phases[n] /\ Tail(left) = SubSeq(phases, n + 1, l)
    <2>1. m \in Nat
      BY <1>2
    <2> QED BY <1>1, <1>4, <1>5, <2>1, Remainder
  <1>7. m \in Nat /\ n = m + 1 /\ n \in 1 .. Len(phases)
    BY <1>1, <1>2, <1>4
  <1>8. Tail(left) = SubSeq(phases, n + 1, Len(phases))
    BY <1>1, <1>6
  <1> QED BY <1>6, <1>7, <1>8

LEMMA PositionPasses ==
  ASSUME NEW phases \in Seq(STRING), NEW left, left # <<>>, NEW completed, NEW done, NEW m, NEW k,
         Position(phases, left, completed, done, m, k),
         Head(left) \in done \/ Head(left) \notin KnownPhases
  PROVE  Reaches(phases, Tail(left), completed, done)
  <1>1. PICK n : /\ m \in Nat /\ n = m + 1 /\ n \in 1 .. Len(phases) /\ Head(left) = phases[n]
                 /\ Tail(left) = SubSeq(phases, n + 1, Len(phases))
    BY PositionHead
  <1>2. KnownAmong(phases, n) = KnownAmong(phases, m) \cup ({phases[n]} \cap KnownPhases)
    BY <1>1, KnownOneMore
  <1>3. KnownAmong(phases, n) \cup done = KnownAmong(phases, m) \cup done
    BY <1>1, <1>2
  <1>4. n \in 0 .. Len(phases)
    BY <1>1
  <1>5. Position(phases, Tail(left), completed, done, n, k)
    BY <1>1, <1>3, <1>4 DEF Position
  <1> QED BY <1>5 DEF Reaches

LEMMA PositionCompletes ==
  ASSUME NEW phases \in Seq(STRING), NEW left, left # <<>>, NEW completed \in Seq(KnownPhases),
         NEW done, NEW m, NEW k, Position(phases, left, completed, done, m, k),
         NEW ph, ph = Head(left), ph \notin done, ph \in KnownPhases,
         InOrder(completed, phases), NEW more, more = Append(completed, ph)
  PROVE  /\ Reaches(phases, Tail(left), more, done)
         /\ InOrder(more, phases)
         /\ Distinct(phases) => ph \notin {completed[i] : i \in DOMAIN completed}
  <1>1. PICK n : /\ m \in Nat /\ n = m + 1 /\ n \in 1 .. Len(phases) /\ ph = phases[n]
                 /\ Tail(left) = SubSeq(phases, n + 1, Len(phases))
    BY PositionHead
  <1>2. KnownAmong(phases, n) = KnownAmong(phases, m) \cup {ph}
    <2>1. KnownAmong(phases, n) = KnownAmong(phases, m) \cup ({phases[n]} \cap KnownPhases)
      BY <1>1, KnownOneMore
    <2>2. phases[n] = ph
      BY <1>1
    <2>3. {phases[n]} \cap KnownPhases = {ph}
      BY <2>2
    <2> QED BY <2>1, <2>3
  <1> DEFINE C == {completed[i] : i \in DOMAIN completed}
  <1>3. C = KnownAmong(phases, m) \cup done /\ done = KnownAmong(phases, k) /\ k \in Nat
    BY DEF Position
  <1>4. PICK c \in Nat : c = Len(completed) /\ DOMAIN completed = 1 .. c
    OBVIOUS
  <1>5. /\ Len(more) = c + 1 /\ DOMAIN more = 1 .. c + 1
        /\ (\A i \in 1 .. c : more[i] = completed[i]) /\ more[c + 1] = ph
        /\ {more[i] : i \in DOMAIN more} = C \cup {ph}
    BY <1>4, AppendedElements
  <1>6. k <= m
    <2> SUFFICES ASSUME ~(k <= m) PROVE FALSE
      OBVIOUS
    <2>1. n <= k /\ n \in Nat
      BY <1>1, <1>3
    <2>2. KnownAmong(phases, n) \subseteq KnownAmong(phases, k)
      BY <1>3, <2>1, KnownFewer
    <2> QED BY <1>2, <1>3, <2>2
  <1>7. C = KnownAmong(phases, m)
    BY <1>1, <1>3, <1>6, KnownFewer
  <1>8. Reaches(phases, Tail(left), more, done)
    <2>1. n \in 0 .. Len(phases)
      BY <1>1
    <2>2. {more[i] : i \in DOMAIN more} = KnownAmong(phases, n) \cup done
      BY <1>2, <1>3, <1>5
    <2>3. Position(phases, Tail(left), more, done, n, k)
      BY <1>1, <2>1, <2>2 DEF Position
    <2> QED BY <2>3 DEF Reaches
  <1>9. InOrder(more, phases)
    <2> SUFFICES ASSUME NEW i \in DOMAIN more
                 PROVE  \E q \in DOMAIN phases :
                          /\ phases[q] = more[i]
                          /\ {more[j] : j \in 1 .. i - 1} = {phases[j] : j \in 1 .. q - 1} \cap KnownPhases
      BY DEF InOrder
    <2>1. CASE i \in 1 .. c
      <3>1. PICK q \in DOMAIN phases :
              /\ phases[q] = completed[i]
              /\ {completed[j] : j \in 1 .. i - 1} = {phases[j] : j \in 1 .. q - 1} \cap KnownPhases
        BY <1>4, <2>1 DEF InOrder
      <3>2. 1 .. i - 1 \subseteq 1 .. c
        BY <1>4, <2>1
      <3>3. {more[j] : j \in 1 .. i - 1} = {completed[j] : j \in 1 .. i - 1}
        BY <1>5, <3>2
      <3> QED BY <1>5, <2>1, <3>1, <3>3
    <2>2. CASE i = c + 1
      <3>1. i - 1 = c /\ n - 1 = m
        BY <1>1, <1>4, <2>2
      <3>2. {more[j] : j \in 1 .. c} = C
        BY <1>4, <1>5
      <3>3. {phases[j] : j \in 1 .. m} \cap KnownPhases = C
        BY <1>7 DEF KnownAmong
      <3>4. n \in DOMAIN phases /\ phases[n] = more[i]
        BY <1>1, <1>5, <2>2
      <3> QED BY <3>1, <3>2, <3>3, <3>4
    <2>3. i \in 1 .. c \/ i = c + 1
      BY <1>4, <1>5
    <2> QED BY <2>1, <2>2, <2>3
  <1>10. ASSUME Distinct(phases)
         PROVE  ph \notin C
    <2> SUFFICES ASSUME ph \in C PROVE FALSE
      OBVIOUS
    <2>1. PICK i \in 1 .. m : phases[i] = ph
      BY <1>7 DEF KnownAmong
    <2>2. i \in DOMAIN phases /\ n \in DOMAIN phases /\ i # n
      BY <1>1, <2>1
    <2> QED BY <1>1, <1>10, <2>1, <2>2 DEF Distinct
  <1> QED BY <1>8, <1>9, <1>10

-----------------------------------------------------------------------------
(* Manifests.                                                              *)
IsRecorded(m) ==
  m = [scope |-> m.scope, completed |-> m.completed, skipped |-> m.skipped, runs |-> m.runs]
IsManifest(m) ==
  /\ IsRecorded(m)
  /\ m.completed \in Seq(KnownPhases)
  /\ \A ph \in m.skipped : ph \notin KnownPhases

(* The markers that go with a manifest.                                    *)
Marks(m) ==
  {<<ph, "completed">> : ph \in CompletedOf(m)} \cup {<<ph, "skipped">> : ph \in m.skipped}
MarkersOk(d, x, m) ==
  \A r \in Marks(m) : ReadableIn(d, MarkerFile(x, r[1])) /\ d[MarkerFile(x, r[1])] = r[2]

(* n records what m does and perhaps more.                                 *)
Grows(m, n) ==
  /\ IsManifest(m) /\ IsManifest(n)
  /\ m.scope = n.scope /\ IsPrefixOf(m.completed, n.completed) /\ m.runs \subseteq n.runs
  /\ Marks(m) \subseteq Marks(n)

LEMMA PrefixTwice ==
  ASSUME NEW S, NEW s \in Seq(S), NEW t \in Seq(S), NEW u \in Seq(S),
         IsPrefixOf(s, t), IsPrefixOf(t, u)
  PROVE  IsPrefixOf(s, u)
  <1>1. PICK l \in Nat, m \in Nat, n \in Nat : l = Len(s) /\ m = Len(t) /\ n = Len(u)
    OBVIOUS
  <1>2. l <= m /\ m <= n /\ SubSeq(t, 1, l) = s /\ SubSeq(u, 1, m) = t
    BY <1>1 DEF IsPrefixOf
  <1> DEFINE v == SubSeq(u, 1, l)
  <1>3. v \in Seq(S) /\ Len(v) = l /\ \A i \in 1 .. l : v[i] = u[i]
    BY <1>1, <1>2
  <1>4. \A i \in 1 .. l : s[i] = t[i]
    BY <1>1, <1>2
  <1>5. \A i \in 1 .. m : t[i] = u[i]
    BY <1>1, <1>2
  <1> HIDE DEF v
  <1>6. \A i \in 1 .. l : s[i] = v[i]
    <2> TAKE i \in 1 .. l
    <2>1. i \in 1 .. m
      BY <1>2
    <2> QED BY <1>3, <1>4, <1>5, <2>1
  <1>7. s = v
    BY <1>1, <1>3, <1>6, SeqEqual
  <1> QED BY <1>1, <1>2, <1>7 DEF IsPrefixOf, v

LEMMA PrefixSelf ==
  ASSUME NEW S, NEW s \in Seq(S), NEW x \in S, NEW t, t = Append(s, x)
  PROVE  IsPrefixOf(s, s) /\ IsPrefixOf(s, t)
  <1>1. PICK n \in Nat : n = Len(s)
    OBVIOUS
  <1> DEFINE p == SubSeq(t, 1, n)
  <1>2. t \in Seq(S) /\ Len(t) = n + 1 /\ \A i \in 1 .. n : t[i] = s[i]
    BY <1>1, AppendedElements
  <1>3. p \in Seq(S) /\ Len(p) = n /\ \A i \in 1 .. n : p[i] = t[i]
    BY <1>1, <1>2
  <1> HIDE DEF p
  <1>4. p = s
    BY <1>1, <1>2, <1>3, SeqEqual
  <1>5. SubSeq(s, 1, n) = s
    BY <1>1, SubSeqFull
  <1> QED BY <1>1, <1>2, <1>4, <1>5 DEF IsPrefixOf, p

LEMMA GrowsNone ==
  ASSUME NEW m, IsManifest(m)
  PROVE  Grows(m, m)
  <1>1. KnownPhases # {}
    BY PhaseNames
  <1>2. PICK ph \in KnownPhases : TRUE
    BY <1>1
  <1>3. IsPrefixOf(m.completed, m.completed)
    BY <1>2, PrefixSelf DEF IsManifest
  <1> QED BY <1>3 DEF Grows

LEMMA GrowsTwice ==
  ASSUME NEW m, NEW n, NEW p, Grows(m, n), Grows(n, p)
  PROVE  Grows(m, p)
  <1>1. IsPrefixOf(m.completed, p.completed)
    BY PrefixTwice DEF Grows, IsManifest
  <1> QED BY <1>1 DEF Grows

(* A phase is added to a manifest.                                         *)
ManifestWith(scope, completed, skipped, runs) ==
  [scope |-> scope, completed |-> completed, skipped |-> skipped, runs |-> runs]

LEMMA ManifestSet ==
  ASSUME NEW m, IsRecorded(m), NEW x
  PROVE  /\ [m EXCEPT !.completed = x] = ManifestWith(m.scope, x, m.skipped, m.runs)
         /\ [m EXCEPT !.skipped = x] = ManifestWith(m.scope, m.completed, x, m.runs)
         /\ [m EXCEPT !.runs = x] = ManifestWith(m.scope, m.completed, m.skipped, x)
  <1>1. [m EXCEPT !.completed = x] = ManifestWith(m.scope, x, m.skipped, m.runs)
    BY DEF ManifestWith, IsRecorded
  <1>2. [m EXCEPT !.skipped = x] = ManifestWith(m.scope, m.completed, x, m.runs)
    BY DEF ManifestWith, IsRecorded
  <1>3. [m EXCEPT !.runs = x] = ManifestWith(m.scope, m.completed, m.skipped, x)
    BY DEF ManifestWith, IsRecorded
  <1> QED BY <1>1, <1>2, <1>3

Holds(m, scope, completed, skipped, runs) ==
  /\ IsRecorded(m)
  /\ m.scope = scope /\ m.completed = completed /\ m.skipped = skipped /\ m.runs = runs

LEMMA ManifestHas ==
  ASSUME NEW scope, NEW completed, NEW skipped, NEW runs,
         NEW m, m = ManifestWith(scope, completed, skipped, runs)
  PROVE  Holds(m, scope, completed, skipped, runs)
  BY DEF Holds, ManifestWith, IsRecorded

Unmarked(m, ph) == \A r \in Marks(m) : r[1] # ph
Marked(m, n, ph, word, completed) ==
  Grows(m, n) /\ Marks(n) = Marks(m) \cup {<<ph, word>>} /\ n.completed = completed

LEMMA PhaseCompleted ==
  ASSUME NEW m, IsManifest(m), NEW ph \in KnownPhases, NEW completed,
         completed = Append(m.completed, ph), NEW runs, m.runs \subseteq runs,
         NEW n, n = ManifestWith(m.scope, completed, m.skipped, runs)
  PROVE  Marked(m, n, ph, "completed", completed)
  <1>1. /\ n.scope = m.scope /\ n.completed = completed /\ n.skipped = m.skipped /\ n.runs = runs
        /\ IsRecorded(n)
    <2>1. Holds(n, m.scope, completed, m.skipped, runs)
      BY ManifestHas, Zenon
    <2> QED BY <2>1 DEF Holds
  <1>2. m.completed \in Seq(KnownPhases)
    BY DEF IsManifest
  <1>3. /\ completed \in Seq(KnownPhases)
        /\ {completed[i] : i \in DOMAIN completed}
             = {m.completed[i] : i \in DOMAIN m.completed} \cup {ph}
    BY <1>2, AppendedElements
  <1>4. IsManifest(n)
    BY <1>1, <1>3 DEF IsManifest
  <1>5. CompletedOf(n) = CompletedOf(m) \cup {ph}
    BY <1>1, <1>3 DEF CompletedOf
  <1>6. Marks(n) = Marks(m) \cup {<<ph, "completed">>}
    BY <1>1, <1>5 DEF Marks
  <1>7. IsPrefixOf(m.completed, n.completed)
    BY <1>1, <1>2, PrefixSelf
  <1>8. Grows(m, n)
    BY <1>1, <1>4, <1>6, <1>7 DEF Grows
  <1> QED BY <1>1, <1>6, <1>8 DEF Marked

LEMMA ManifestCompletes ==
  ASSUME NEW m, IsManifest(m), NEW ph \in KnownPhases, NEW completed,
         completed = Append(m.completed, ph), NEW runs, m.runs \subseteq runs,
         NEW n, n = [m EXCEPT !.completed = completed, !.runs = runs]
  PROVE  Marked(m, n, ph, "completed", completed)
  <1> DEFINE k == [m EXCEPT !.completed = completed]
             l == [k EXCEPT !.runs = runs]
  <1>1. n = l
    BY Zenon
  <1> HIDE DEF l
  <1>2. k = ManifestWith(m.scope, completed, m.skipped, m.runs)
    BY ManifestSet DEF IsManifest
  <1> HIDE DEF k
  <1>3. /\ IsRecorded(k) /\ k.scope = m.scope /\ k.completed = completed
        /\ k.skipped = m.skipped /\ k.runs = m.runs
    <2>1. Holds(k, m.scope, completed, m.skipped, m.runs)
      BY <1>2, ManifestHas, Zenon
    <2> QED BY <2>1 DEF Holds
  <1>4. l = ManifestWith(m.scope, completed, m.skipped, runs)
    <2>1. l = ManifestWith(k.scope, k.completed, k.skipped, runs)
      BY <1>3, ManifestSet, Zenon DEF l
    <2> QED BY <1>3, <2>1, Zenon
  <1>5. Marked(m, l, ph, "completed", completed)
    BY <1>4, PhaseCompleted, Zenon
  <1> QED BY <1>1, <1>5

LEMMA ManifestSkips ==
  ASSUME NEW m, IsManifest(m), NEW ph, ph \notin KnownPhases, NEW skipped,
         skipped = m.skipped \cup {ph}, NEW n, n = [m EXCEPT !.skipped = skipped]
  PROVE  Marked(m, n, ph, "skipped", m.completed)
  <1>1. n = ManifestWith(m.scope, m.completed, skipped, m.runs)
    BY ManifestSet DEF IsManifest
  <1>2. /\ n.scope = m.scope /\ n.completed = m.completed /\ n.skipped = skipped /\ n.runs = m.runs
        /\ IsRecorded(n)
    <2>1. Holds(n, m.scope, m.completed, skipped, m.runs)
      BY <1>1, ManifestHas, Zenon
    <2> QED BY <2>1 DEF Holds
  <1>3. IsManifest(n)
    BY <1>2 DEF IsManifest
  <1>4. CompletedOf(n) = CompletedOf(m)
    BY <1>2 DEF CompletedOf
  <1>5. Marks(n) = Marks(m) \cup {<<ph, "skipped">>}
    BY <1>2, <1>4 DEF Marks
  <1>6. IsPrefixOf(m.completed, n.completed)
    BY <1>2, GrowsNone DEF Grows
  <1>7. Grows(m, n)
    BY <1>2, <1>3, <1>5, <1>6 DEF Grows
  <1> QED BY <1>2, <1>5, <1>7 DEF Marked

LEMMA FreshIsManifest ==
  IsManifest(FreshManifest) /\ FreshManifest.completed = <<>> /\ Marks(FreshManifest) = {}
  <1>1. /\ FreshManifest.completed = <<>> /\ FreshManifest.skipped = {}
        /\ IsRecorded(FreshManifest)
    BY DEF FreshManifest, IsRecorded
  <1>2. <<>> \in Seq(KnownPhases) /\ DOMAIN <<>> = {}
    OBVIOUS
  <1>3. Marks(FreshManifest) = {}
    BY <1>1, <1>2 DEF Marks, CompletedOf
  <1> QED BY <1>1, <1>2, <1>3 DEF IsManifest

-----------------------------------------------------------------------------
(* What the manifest, the lock and the markers on a disk have in common,   *)
(* and what a job knows of them.                                           *)

(* No configuration names a phase twice, which the code does not check.    *)
PhasesOnce ==
  \A x \in Experiments : \A config \in Configs[x] : Distinct(config.phases)

BookOk(d) ==
  \A x \in Experiments : ReadableIn(d, ManifestFile(x)) =>
    /\ IsManifest(d[ManifestFile(x)])
    /\ ReadableIn(d, LockFile(x)) =>
         InOrder(d[ManifestFile(x)].completed, d[LockFile(x)].phases)
    /\ PhasesOnce => MarkersOk(d, x, d[ManifestFile(x)])

JobBook(d, j) ==
  IsJob(j) /\ ReadableIn(d, ManifestFile(j.exp)) => Grows(d[ManifestFile(j.exp)], j.manifest)

JobKnows(d, j) ==
  IsJob(j) =>
    /\ j.exp \in Experiments /\ j.config \in Configs[j.exp]
    /\ IsManifest(j.manifest)
    /\ ReadableIn(d, LockFile(j.exp)) => d[LockFile(j.exp)] = j.config
    /\ InOrder(j.manifest.completed, j.config.phases)
    /\ Reaches(j.config.phases, j.left, j.manifest.completed, j.done)
    /\ PhasesOnce => MarkersOk(d, j.exp, j.manifest)
    /\ Placed(j)

BookInv(d, queue, j) ==
  /\ IsJob(j) \/ IsOther(j)
  /\ \E e, disks : /\ Goes(d, queue, e, disks)
                   /\ \A x \in disks : BookOk(x) /\ JobBook(x, j)
                   /\ JobKnows(e, j)

LEMMA BookAgrees ==
  ASSUME NEW d, NEW e, Agree(d, e, BookKinds)
  PROVE  /\ \A path : path[1] \in BookKinds =>
              (ReadableIn(d, path) <=> ReadableIn(e, path)) /\ (ReadableIn(d, path) => e[path] = d[path])
         /\ \A x : /\ ReadableIn(d, ManifestFile(x)) <=> ReadableIn(e, ManifestFile(x))
                   /\ ReadableIn(d, ManifestFile(x)) => e[ManifestFile(x)] = d[ManifestFile(x)]
                   /\ ReadableIn(d, LockFile(x)) <=> ReadableIn(e, LockFile(x))
                   /\ ReadableIn(d, LockFile(x)) => e[LockFile(x)] = d[LockFile(x)]
                   /\ \A m : MarkersOk(d, x, m) => MarkersOk(e, x, m)
  <1>1. \A path : path[1] \in BookKinds =>
          (ReadableIn(d, path) <=> ReadableIn(e, path)) /\ (ReadableIn(d, path) => e[path] = d[path])
    BY DEF Agree, ReadableIn
  <1>2. \A x : ManifestFile(x)[1] \in BookKinds /\ LockFile(x)[1] \in BookKinds
    BY ExperimentPaths DEF BookKinds
  <1>3. \A x, y : MarkerFile(x, y)[1] \in BookKinds
    BY ExperimentPaths DEF BookKinds
  <1>4. ASSUME NEW x, NEW m, MarkersOk(d, x, m) PROVE MarkersOk(e, x, m)
    BY <1>1, <1>3, <1>4 DEF MarkersOk
  <1> QED BY <1>1, <1>2, <1>4

LEMMA BookElsewhere ==
  ASSUME NEW d, NEW e, Agree(d, e, BookKinds), NEW j
  PROVE  /\ BookOk(d) => BookOk(e)
         /\ JobBook(d, j) => JobBook(e, j)
         /\ JobKnows(d, j) => JobKnows(e, j)
  <1>1. BookOk(d) => BookOk(e)
    BY BookAgrees DEF BookOk
  <1>2. JobBook(d, j) => JobBook(e, j)
    BY BookAgrees DEF JobBook
  <1>3. JobKnows(d, j) => JobKnows(e, j)
    BY BookAgrees DEF JobKnows
  <1> QED BY <1>1, <1>2, <1>3

LEMMA BookSpared ==
  ASSUME NEW d, NEW queue, NEW j, IsJob(j) \/ IsOther(j), Spared(queue, BookKinds),
         BookOk(d), JobBook(d, j), JobKnows(d, j)
  PROVE  BookInv(d, queue, j)
  <1>1. PICK e, disks : Goes(d, queue, e, disks) /\ \A x \in disks : Agree(d, x, BookKinds)
    BY SparedGoes
  <1>2. \A x \in disks : BookOk(x) /\ JobBook(x, j) /\ JobKnows(x, j)
    BY <1>1, BookElsewhere
  <1>3. e \in disks
    BY <1>1 DEF Goes
  <1> QED BY <1>1, <1>2, <1>3 DEF BookInv

LEMMA BookDrained ==
  ASSUME NEW d, NEW queue, NEW j, BookInv(d, queue, j)
  PROVE  /\ BookOk(d) /\ JobBook(d, j)
         /\ queue = <<>> => JobKnows(d, j)
  <1>1. PICK e, disks : /\ Goes(d, queue, e, disks)
                        /\ \A x \in disks : BookOk(x) /\ JobBook(x, j)
                        /\ JobKnows(e, j)
    BY DEF BookInv
  <1>2. d \in disks
    BY <1>1 DEF Goes
  <1>3. queue = <<>> => e = d
    BY <1>1, GoesDrained
  <1> QED BY <1>1, <1>2, <1>3

LEMMA NoBook ==
  ASSUME NEW d, NEW j, IsOther(j)
  PROVE  ~IsJob(j) /\ JobBook(d, j) /\ JobKnows(d, j)
  <1>1. ~IsJob(j)
    BY DEF IsOther, IsJob
  <1> QED BY <1>1 DEF JobBook, JobKnows

(* What one write does to them.                                            *)
LEMMA PutReads ==
  ASSUME NEW d, NEW path, NEW content, NEW e, e = PutIn(d, path, content)
  PROVE  /\ \A q : q # path => (ReadableIn(e, q) <=> ReadableIn(d, q))
         /\ \A q : q # path /\ ReadableIn(d, q) => e[q] = d[q]
         /\ ReadableIn(e, path) <=> content # Torn
         /\ e[path] = content
  BY DEF ReadableIn, PutIn

LEMMA BookPathsApart ==
  /\ \A x, y : ManifestFile(x) # LockFile(y)
  /\ \A x, y, ph : ManifestFile(x) # MarkerFile(y, ph) /\ LockFile(x) # MarkerFile(y, ph)
  /\ \A x, y : ManifestFile(x) = ManifestFile(y) => x = y
  /\ \A x, y : LockFile(x) = LockFile(y) => x = y
  /\ \A x, y, p, q : MarkerFile(x, p) = MarkerFile(y, q) => x = y /\ p = q
  <1>1. \A x, y : ManifestFile(x) # LockFile(y)
    BY ExperimentPaths
  <1>2. \A x, y, ph : ManifestFile(x) # MarkerFile(y, ph) /\ LockFile(x) # MarkerFile(y, ph)
    BY ExperimentPaths
  <1>3. \A x, y : (ManifestFile(x) = ManifestFile(y) => x = y) /\ (LockFile(x) = LockFile(y) => x = y)
    BY ExperimentPaths
  <1>4. \A x, y, p, q : MarkerFile(x, p) = MarkerFile(y, q) => x = y /\ p = q
    BY ExperimentPaths
  <1> QED BY <1>1, <1>2, <1>3, <1>4

SameManifests(d, e) ==
  \A x : /\ ReadableIn(e, ManifestFile(x)) <=> ReadableIn(d, ManifestFile(x))
         /\ ReadableIn(d, ManifestFile(x)) => e[ManifestFile(x)] = d[ManifestFile(x)]
SameLocks(d, e) ==
  \A x : /\ ReadableIn(e, LockFile(x)) <=> ReadableIn(d, LockFile(x))
         /\ ReadableIn(d, LockFile(x)) => e[LockFile(x)] = d[LockFile(x)]
SameMarkers(d, e) ==
  \A x, m : MarkersOk(d, x, m) => MarkersOk(e, x, m)

LEMMA BookMarker ==
  ASSUME NEW d, BookOk(d), NEW x, NEW ph, NEW content, NEW m,
         ReadableIn(d, ManifestFile(x)) => Grows(d[ManifestFile(x)], m),
         PhasesOnce => Unmarked(m, ph),
         NEW e, e = PutIn(d, MarkerFile(x, ph), content)
  PROVE  /\ BookOk(e) /\ SameManifests(d, e) /\ SameLocks(d, e)
         /\ PhasesOnce /\ MarkersOk(d, x, m) => MarkersOk(e, x, m)
  <1>1. SameManifests(d, e) /\ SameLocks(d, e)
    BY PutReads, BookPathsApart DEF SameManifests, SameLocks
  <1>2. ASSUME PhasesOnce, NEW n, Marks(n) \subseteq Marks(m), MarkersOk(d, x, n)
        PROVE  MarkersOk(e, x, n)
    <2> SUFFICES ASSUME NEW r \in Marks(n)
                 PROVE  ReadableIn(e, MarkerFile(x, r[1])) /\ e[MarkerFile(x, r[1])] = r[2]
      BY DEF MarkersOk
    <2>1. r[1] # ph
      BY <1>2 DEF Unmarked
    <2>2. MarkerFile(x, r[1]) # MarkerFile(x, ph)
      BY <2>1, BookPathsApart
    <2>3. ReadableIn(d, MarkerFile(x, r[1])) /\ d[MarkerFile(x, r[1])] = r[2]
      BY <1>2 DEF MarkersOk
    <2> QED BY <2>2, <2>3, PutReads
  <1>3. ASSUME NEW y, y # x, NEW n, MarkersOk(d, y, n)
        PROVE  MarkersOk(e, y, n)
    <2> SUFFICES ASSUME NEW r \in Marks(n)
                 PROVE  ReadableIn(e, MarkerFile(y, r[1])) /\ e[MarkerFile(y, r[1])] = r[2]
      BY DEF MarkersOk
    <2>1. MarkerFile(y, r[1]) # MarkerFile(x, ph)
      BY <1>3, BookPathsApart
    <2>2. ReadableIn(d, MarkerFile(y, r[1])) /\ d[MarkerFile(y, r[1])] = r[2]
      BY <1>3 DEF MarkersOk
    <2> QED BY <2>1, <2>2, PutReads
  <1>4. BookOk(e)
    <2> SUFFICES ASSUME NEW y \in Experiments, ReadableIn(e, ManifestFile(y))
                 PROVE  /\ IsManifest(e[ManifestFile(y)])
                        /\ ReadableIn(e, LockFile(y)) =>
                             InOrder(e[ManifestFile(y)].completed, e[LockFile(y)].phases)
                        /\ PhasesOnce => MarkersOk(e, y, e[ManifestFile(y)])
      BY DEF BookOk
    <2> DEFINE n == d[ManifestFile(y)]
    <2>1. ReadableIn(d, ManifestFile(y)) /\ e[ManifestFile(y)] = n
      BY <1>1 DEF SameManifests
    <2>2. /\ IsManifest(n)
          /\ ReadableIn(d, LockFile(y)) => InOrder(n.completed, d[LockFile(y)].phases)
          /\ PhasesOnce => MarkersOk(d, y, n)
      BY <2>1 DEF BookOk
    <2>3. y = x => Marks(n) \subseteq Marks(m)
      BY <2>1 DEF Grows
    <2> HIDE DEF n
    <2>4. PhasesOnce => MarkersOk(e, y, n)
      BY <1>2, <1>3, <2>2, <2>3
    <2>5. ReadableIn(e, LockFile(y)) => ReadableIn(d, LockFile(y)) /\ e[LockFile(y)] = d[LockFile(y)]
      BY <1>1 DEF SameLocks
    <2> QED BY <2>1, <2>2, <2>4, <2>5
  <1>5. PhasesOnce /\ MarkersOk(d, x, m) => MarkersOk(e, x, m)
    BY <1>2
  <1> QED BY <1>1, <1>4, <1>5

LEMMA MarkersStay ==
  ASSUME NEW d, NEW path, \A x, ph : path # MarkerFile(x, ph), NEW content,
         NEW e, e = PutIn(d, path, content)
  PROVE  SameMarkers(d, e)
  <1> SUFFICES ASSUME NEW x, NEW m, MarkersOk(d, x, m), NEW r \in Marks(m)
               PROVE  ReadableIn(e, MarkerFile(x, r[1])) /\ e[MarkerFile(x, r[1])] = r[2]
    BY DEF SameMarkers, MarkersOk
  <1>1. ReadableIn(d, MarkerFile(x, r[1])) /\ d[MarkerFile(x, r[1])] = r[2]
    BY DEF MarkersOk
  <1>2. path # MarkerFile(x, r[1])
    OBVIOUS
  <1> QED BY <1>1, <1>2, PutReads

LEMMA BookManifest ==
  ASSUME NEW d, BookOk(d), NEW x, NEW content,
         content # Torn =>
           /\ IsManifest(content)
           /\ ReadableIn(d, LockFile(x)) => InOrder(content.completed, d[LockFile(x)].phases)
           /\ PhasesOnce => MarkersOk(d, x, content),
         NEW e, e = PutIn(d, ManifestFile(x), content)
  PROVE  /\ BookOk(e) /\ SameLocks(d, e) /\ SameMarkers(d, e)
         /\ ReadableIn(e, ManifestFile(x)) => content # Torn /\ e[ManifestFile(x)] = content
  <1>1. SameLocks(d, e)
    BY PutReads, BookPathsApart DEF SameLocks
  <1>2. SameMarkers(d, e)
    BY BookPathsApart, MarkersStay
  <1>3. ReadableIn(e, ManifestFile(x)) => content # Torn /\ e[ManifestFile(x)] = content
    BY PutReads
  <1>4. ASSUME NEW y \in Experiments, ReadableIn(e, ManifestFile(y))
        PROVE  /\ IsManifest(e[ManifestFile(y)])
               /\ ReadableIn(e, LockFile(y)) =>
                    InOrder(e[ManifestFile(y)].completed, e[LockFile(y)].phases)
               /\ PhasesOnce => MarkersOk(e, y, e[ManifestFile(y)])
    <2>1. ReadableIn(e, LockFile(y)) => ReadableIn(d, LockFile(y)) /\ e[LockFile(y)] = d[LockFile(y)]
      BY <1>1 DEF SameLocks
    <2>2. CASE y = x
      <3>1. content # Torn /\ e[ManifestFile(y)] = content
        BY <1>3, <1>4, <2>2
      <3> QED BY <1>2, <2>1, <2>2, <3>1 DEF SameMarkers
    <2>3. CASE y # x
      <3> DEFINE n == d[ManifestFile(y)]
      <3>1. ReadableIn(d, ManifestFile(y)) /\ e[ManifestFile(y)] = n
        BY <1>4, <2>3, PutReads, BookPathsApart
      <3>2. /\ IsManifest(n)
            /\ ReadableIn(d, LockFile(y)) => InOrder(n.completed, d[LockFile(y)].phases)
            /\ PhasesOnce => MarkersOk(d, y, n)
        BY <3>1 DEF BookOk
      <3> HIDE DEF n
      <3> QED BY <1>2, <2>1, <3>1, <3>2 DEF SameMarkers
    <2> QED BY <2>2, <2>3
  <1>5. BookOk(e)
    BY <1>4 DEF BookOk
  <1> QED BY <1>1, <1>2, <1>3, <1>5

LEMMA BookLock ==
  ASSUME NEW d, BookOk(d), NEW x, NEW content,
         content # Torn /\ ReadableIn(d, ManifestFile(x)) =>
           InOrder(d[ManifestFile(x)].completed, content.phases),
         NEW e, e = PutIn(d, LockFile(x), content)
  PROVE  /\ BookOk(e) /\ SameManifests(d, e) /\ SameMarkers(d, e)
         /\ ReadableIn(e, LockFile(x)) => e[LockFile(x)] = content
  <1>1. SameManifests(d, e)
    BY PutReads, BookPathsApart DEF SameManifests
  <1>2. SameMarkers(d, e)
    BY BookPathsApart, MarkersStay
  <1>3. ReadableIn(e, LockFile(x)) => content # Torn /\ e[LockFile(x)] = content
    BY PutReads
  <1>4. ASSUME NEW y \in Experiments, ReadableIn(e, ManifestFile(y))
        PROVE  /\ IsManifest(e[ManifestFile(y)])
               /\ ReadableIn(e, LockFile(y)) =>
                    InOrder(e[ManifestFile(y)].completed, e[LockFile(y)].phases)
               /\ PhasesOnce => MarkersOk(e, y, e[ManifestFile(y)])
    <2> DEFINE n == d[ManifestFile(y)]
    <2>1. ReadableIn(d, ManifestFile(y)) /\ e[ManifestFile(y)] = n
      BY <1>1, <1>4 DEF SameManifests
    <2>2. /\ IsManifest(n)
          /\ ReadableIn(d, LockFile(y)) => InOrder(n.completed, d[LockFile(y)].phases)
          /\ PhasesOnce => MarkersOk(d, y, n)
      BY <2>1 DEF BookOk
    <2>3. y = x /\ content # Torn => InOrder(n.completed, content.phases)
      BY <2>1
    <2>4. y # x /\ ReadableIn(e, LockFile(y)) => ReadableIn(d, LockFile(y)) /\ e[LockFile(y)] = d[LockFile(y)]
      BY PutReads, BookPathsApart
    <2> HIDE DEF n
    <2> QED BY <1>2, <1>3, <2>1, <2>2, <2>3, <2>4 DEF SameMarkers
  <1>5. BookOk(e)
    BY <1>4 DEF BookOk
  <1> QED BY <1>1, <1>2, <1>3, <1>5

LEMMA GoesTwoWrites ==
  ASSUME NEW d, NEW p, NEW a, NEW q, NEW b
  PROVE  LET e == PutIn(d, p, a)
         IN Goes(d, <<Write(p, a), Write(q, b)>>, PutIn(e, q, b),
                 {d, PutIn(d, p, Torn), e} \cup {e, PutIn(e, q, Torn), PutIn(e, q, b)})
  <1> DEFINE e == PutIn(d, p, a)
             f == PutIn(e, q, b)
             A == {d, PutIn(d, p, Torn), e}
             B == {e, PutIn(e, q, Torn), f}
  <1>1. Goes(d, <<Write(p, a)>>, e, A)
    BY GoesWrite
  <1>2. Goes(e, <<Write(q, b)>>, f, B)
    BY GoesWrite
  <1> HIDE DEF A, B, e, f
  <1>3. Goes(d, <<Write(p, a)>> \o <<Write(q, b)>>, f, A \cup B)
    BY <1>1, <1>2, GoesOn
  <1>4. Goes(d, <<Write(p, a), Write(q, b)>>, f, A \cup B)
    BY <1>3, JoinTwo
  <1> QED BY <1>4 DEF A, B, e, f

(* A phase is written down: its marker, then the manifest.                 *)
Recording(x, ph, word, manifest) ==
  <<Write(MarkerFile(x, ph), word), Write(ManifestFile(x), manifest)>>

Records(d, j, k, ph, word, manifest, completed, left) ==
  /\ BookOk(d) /\ IsJob(j) /\ JobBook(d, j) /\ JobKnows(d, j)
  /\ word # Torn /\ Marked(j.manifest, manifest, ph, word, completed)
  /\ InOrder(completed, j.config.phases)
  /\ PhasesOnce => Unmarked(j.manifest, ph)
  /\ IsJob(k) /\ Passed(j, k, left, manifest) /\ Placed(k)
  /\ Reaches(j.config.phases, left, completed, j.done)

LEMMA BookProgress ==
  ASSUME NEW d, NEW j, NEW k, NEW ph, NEW word, NEW manifest, NEW completed, NEW left,
         Records(d, j, k, ph, word, manifest, completed, left)
  PROVE  BookInv(d, Recording(j.exp, ph, word, manifest), k)
  <1> DEFINE x == j.exp
             t2 == PutIn(d, MarkerFile(x, ph), Torn)
             e2 == PutIn(d, MarkerFile(x, ph), word)
             t3 == PutIn(e2, ManifestFile(x), Torn)
             e3 == PutIn(e2, ManifestFile(x), manifest)
             disks == {d, t2, e2} \cup {e2, t3, e3}
             queue == Recording(x, ph, word, manifest)
  <1> USE DEF Records
  <1>1. Goes(d, queue, e3, disks)
    BY GoesTwoWrites DEF Recording
  <1>2. /\ Grows(j.manifest, manifest) /\ Marks(manifest) = Marks(j.manifest) \cup {<<ph, word>>}
        /\ manifest.completed = completed /\ IsManifest(manifest) /\ IsManifest(j.manifest)
    BY DEF Marked, Grows
  <1>3. ReadableIn(d, ManifestFile(x)) => Grows(d[ManifestFile(x)], j.manifest)
    BY DEF JobBook
  <1>4. /\ x \in Experiments /\ j.config \in Configs[x]
        /\ ReadableIn(d, LockFile(x)) => d[LockFile(x)] = j.config
        /\ PhasesOnce => MarkersOk(d, x, j.manifest)
    BY DEF JobKnows
  <1>5. k.exp = x /\ k.manifest = manifest /\ k.config = j.config /\ k.left = left /\ k.done = j.done
    BY DEF Passed
  <1>6. word # Torn
    OBVIOUS
  <1> HIDE DEF t2, e2, t3, e3, disks, queue, x
  <1>7. ASSUME NEW e, SameManifests(d, e)
        PROVE  ReadableIn(e, ManifestFile(x)) => Grows(e[ManifestFile(x)], j.manifest)
    BY <1>3, <1>7 DEF SameManifests
  <1>8. BookOk(t2) /\ SameManifests(d, t2) /\ SameLocks(d, t2)
    BY <1>3, BookMarker DEF t2
  <1>9. /\ BookOk(e2) /\ SameManifests(d, e2) /\ SameLocks(d, e2)
        /\ PhasesOnce => MarkersOk(e2, x, j.manifest)
    BY <1>3, <1>4, BookMarker DEF e2
  <1>10. PhasesOnce => MarkersOk(e2, x, manifest)
    <2>1. ReadableIn(e2, MarkerFile(x, ph)) /\ e2[MarkerFile(x, ph)] = word
      BY <1>6, PutReads DEF e2
    <2> SUFFICES ASSUME PhasesOnce, NEW r \in Marks(manifest)
                 PROVE  ReadableIn(e2, MarkerFile(x, r[1])) /\ e2[MarkerFile(x, r[1])] = r[2]
      BY DEF MarkersOk
    <2>2. CASE r \in Marks(j.manifest)
      BY <1>9, <2>2 DEF MarkersOk
    <2>3. CASE r = <<ph, word>>
      BY <2>1, <2>3
    <2> QED BY <1>2, <2>2, <2>3
  <1>11. ReadableIn(e2, LockFile(x)) => InOrder(manifest.completed, e2[LockFile(x)].phases)
    BY <1>2, <1>4, <1>9 DEF SameLocks
  <1>12. BookOk(t3) /\ ~ReadableIn(t3, ManifestFile(x))
    BY <1>9, BookManifest DEF t3
  <1>13. /\ BookOk(e3) /\ SameLocks(e2, e3) /\ SameMarkers(e2, e3)
         /\ ReadableIn(e3, ManifestFile(x)) => e3[ManifestFile(x)] = manifest
    BY <1>2, <1>9, <1>10, <1>11, BookManifest DEF e3
  <1>14. Grows(manifest, manifest)
    BY <1>2, GrowsNone
  <1>15. ASSUME NEW e \in disks
         PROVE  BookOk(e) /\ (ReadableIn(e, ManifestFile(x)) => Grows(e[ManifestFile(x)], manifest))
    <2>1. e \in {d, t2, e2} \/ e = t3 \/ e = e3
      BY DEF disks
    <2>2. SameManifests(d, d)
      BY DEF SameManifests
    <2>3. CASE e \in {d, t2, e2}
      <3>1. SameManifests(d, e) /\ BookOk(e)
        BY <1>8, <1>9, <2>2, <2>3
      <3> QED BY <1>2, <1>7, <3>1, GrowsTwice
    <2>4. CASE e = t3
      BY <1>12, <2>4
    <2>5. CASE e = e3
      BY <1>13, <1>14, <2>5
    <2> QED BY <2>1, <2>3, <2>4, <2>5
  <1>16. \A e \in disks : BookOk(e) /\ JobBook(e, k)
    BY <1>5, <1>15 DEF JobBook
  <1>17. JobKnows(e3, k)
    <2>1. ReadableIn(e3, LockFile(x)) => e3[LockFile(x)] = j.config
      BY <1>4, <1>9, <1>13 DEF SameLocks
    <2>2. PhasesOnce => MarkersOk(e3, x, manifest)
      BY <1>10, <1>13 DEF SameMarkers
    <2>3. InOrder(manifest.completed, j.config.phases)
      BY <1>2
    <2>4. Reaches(j.config.phases, left, manifest.completed, j.done)
      BY <1>2
    <2> QED BY <1>2, <1>4, <1>5, <2>1, <2>2, <2>3, <2>4 DEF JobKnows
  <1> QED BY <1>1, <1>16, <1>17 DEF BookInv, queue, x

(* The operations of a phase before it is written down.                    *)
LEMMA BookAfter ==
  ASSUME NEW d, NEW e, NEW disks, NEW queue, NEW more, NEW k,
         Goes(d, queue, e, disks), \A x \in disks : BookOk(x) /\ JobBook(x, k),
         BookInv(e, more, k)
  PROVE  BookInv(d, queue \o more, k)
  <1>1. PICK f, others : /\ Goes(e, more, f, others)
                         /\ \A x \in others : BookOk(x) /\ JobBook(x, k)
                         /\ JobKnows(f, k)
    BY DEF BookInv
  <1> DEFINE all == disks \cup others
  <1>2. Goes(d, queue \o more, f, all)
    BY <1>1, GoesOn
  <1>3. \A x \in all : BookOk(x) /\ JobBook(x, k)
    BY <1>1
  <1> HIDE DEF all
  <1> QED BY <1>1, <1>2, <1>3 DEF BookInv

LEMMA BookWorked ==
  ASSUME NEW d, NEW queue, Spared(queue, BookKinds),
         NEW j, NEW k, NEW ph, NEW word, NEW manifest, NEW completed, NEW left,
         Records(d, j, k, ph, word, manifest, completed, left)
  PROVE  BookInv(d, queue \o Recording(j.exp, ph, word, manifest), k)
  <1>1. PICK e, disks : Goes(d, queue, e, disks) /\ \A x \in disks : Agree(d, x, BookKinds)
    BY SparedGoes
  <1>2. e \in disks
    BY <1>1 DEF Goes
  <1>3. \A x \in disks : BookOk(x) /\ JobBook(x, j) /\ JobKnows(x, j)
    BY <1>1, BookElsewhere DEF Records
  <1>4. BookInv(e, Recording(j.exp, ph, word, manifest), k)
    <2>1. Records(e, j, k, ph, word, manifest, completed, left)
      BY <1>2, <1>3 DEF Records
    <2> QED BY <2>1, BookProgress
  <1>5. \A x \in disks : JobBook(x, k)
    <2>1. k.exp = j.exp /\ k.manifest = manifest /\ Grows(j.manifest, manifest)
      BY DEF Passed, Marked, Records
    <2>2. \A x \in disks : JobBook(x, j)
      BY <1>3
    <2>3. IsJob(j)
      BY DEF Records
    <2> QED BY <2>1, <2>2, <2>3, GrowsTwice DEF JobBook
  <1> QED BY <1>1, <1>3, <1>4, <1>5, BookAfter

-----------------------------------------------------------------------------
(* The steps of experiments and commands.                                  *)
Book == BookInv(disk, todo, job)

LEMMA BookTyped ==
  ASSUME Book
  PROVE  /\ IsJob(job) \/ IsOther(job)
         /\ job.at \in ExpPlaces => IsJob(job)
         /\ job = Idle => ~IsJob(job)
  <1>1. IsJob(job) \/ IsOther(job)
    BY DEF Book, BookInv
  <1>2. IsOther(Idle)
    BY OtherJobs
  <1> QED BY <1>1, <1>2, NoBook DEF IsOther

LEMMA BookStops ==
  ASSUME Book, disk' = disk, Spared(todo', BookKinds), IsOther(job')
  PROVE  Book'
  <1> DEFINE k == job'
             q == todo'
  <1>1. BookOk(disk)
    BY BookDrained DEF Book
  <1> HIDE DEF k, q
  <1>2. IsOther(k) /\ Spared(q, BookKinds)
    BY DEF k, q
  <1>3. JobBook(disk, k) /\ JobKnows(disk, k)
    BY <1>2, NoBook
  <1>4. BookInv(disk, q, k)
    BY <1>1, <1>2, <1>3, BookSpared
  <1> QED BY <1>4 DEF Book, k, q

LEMMA BookMoves ==
  ASSUME Book, todo = <<>>, IsJob(job), disk' = disk, Spared(todo', BookKinds),
         IsJob(job'), SameBook(job, job'), Placed(job')
  PROVE  Book'
  <1> DEFINE k == job'
             q == todo'
  <1>1. BookOk(disk) /\ JobBook(disk, job) /\ JobKnows(disk, job)
    BY BookDrained DEF Book
  <1>2. IsJob(k) /\ SameBook(job, k) /\ Placed(k) /\ Spared(q, BookKinds)
    OBVIOUS
  <1> HIDE DEF k, q
  <1>3. JobBook(disk, k)
    BY <1>1, <1>2 DEF JobBook, SameBook
  <1>4. JobKnows(disk, k)
    BY <1>1, <1>2 DEF JobKnows, SameBook
  <1>5. BookInv(disk, q, k)
    BY <1>1, <1>2, <1>3, <1>4, BookSpared
  <1> QED BY <1>5 DEF Book, k, q

(* A phase that is passed over.                                            *)
LEMMA BookPasses ==
  ASSUME Book, todo = <<>>, IsJob(job), disk' = disk, todo' = <<>>,
         NEW left, NEW manifest, IsJob(job'), Passed(job, job', left, manifest), Placed(job'),
         Grows(job.manifest, manifest), Marks(manifest) = Marks(job.manifest),
         manifest.completed = job.manifest.completed,
         Reaches(job.config.phases, left, job.manifest.completed, job.done)
  PROVE  Book'
  <1> DEFINE k == job'
  <1>1. BookOk(disk) /\ JobBook(disk, job) /\ JobKnows(disk, job)
    BY BookDrained DEF Book
  <1>2. IsJob(k) /\ Passed(job, k, left, manifest) /\ Placed(k)
    OBVIOUS
  <1> HIDE DEF k
  <1>3. k.exp = job.exp /\ k.config = job.config /\ k.manifest = manifest /\ k.left = left /\ k.done = job.done
    BY <1>2 DEF Passed
  <1>4. JobBook(disk, k)
    BY <1>1, <1>2, <1>3, GrowsTwice DEF JobBook
  <1>5. JobKnows(disk, k)
    <2>1. IsManifest(manifest)
      BY DEF Grows
    <2>2. PhasesOnce => MarkersOk(disk, job.exp, manifest)
      BY <1>1 DEF JobKnows, MarkersOk
    <2> QED BY <1>1, <1>2, <1>3, <2>1, <2>2 DEF JobKnows
  <1>6. Spared(<<>>, BookKinds)
    BY SparedNone
  <1>7. BookInv(disk, <<>>, k)
    BY <1>1, <1>2, <1>4, <1>5, <1>6, BookSpared
  <1> QED BY <1>7 DEF Book, k

LEMMA JobFacts ==
  ASSUME Book, todo = <<>>, IsJob(job)
  PROVE  /\ BookOk(disk) /\ JobBook(disk, job) /\ JobKnows(disk, job)
         /\ HasFields(job) /\ IsManifest(job.manifest) /\ job.manifest.completed \in Seq(KnownPhases)
         /\ job.exp \in Experiments /\ job.config \in Configs[job.exp] /\ Placed(job)
         /\ job.config.phases \in Seq(STRING) /\ job.config.base \in Bases \cup {NoProgram}
         /\ InOrder(job.manifest.completed, job.config.phases)
         /\ Reaches(job.config.phases, job.left, job.manifest.completed, job.done)
         /\ PhasesOnce => Distinct(job.config.phases)
  <1>1. BookOk(disk) /\ JobBook(disk, job) /\ JobKnows(disk, job)
    BY BookDrained DEF Book
  <1>2. /\ job.exp \in Experiments /\ job.config \in Configs[job.exp] /\ Placed(job)
        /\ IsManifest(job.manifest) /\ InOrder(job.manifest.completed, job.config.phases)
        /\ Reaches(job.config.phases, job.left, job.manifest.completed, job.done)
    BY <1>1 DEF JobKnows
  <1>3. job.config.phases \in Seq(STRING) /\ job.config.base \in Bases \cup {NoProgram}
    BY <1>2, ExperimentAssumption
  <1>4. HasFields(job)
    BY DEF IsJob
  <1>5. job.manifest.completed \in Seq(KnownPhases)
    BY <1>2 DEF IsManifest
  <1>6. PhasesOnce => Distinct(job.config.phases)
    BY <1>2 DEF PhasesOnce
  <1> QED BY <1>1, <1>2, <1>3, <1>4, <1>5, <1>6

LEMMA PassKeepsBook ==
  ASSUME Book, PassCompleted
  PROVE  Book'
  <1> DEFINE phases == job.config.phases
             completed == job.manifest.completed
  <1>1. /\ todo = <<>> /\ job.at = "phase" /\ job.left # <<>> /\ Head(job.left) \in job.done
        /\ job' = [job EXCEPT !.left = Tail(job.left)] /\ disk' = disk /\ todo' = todo
    BY DEF PassCompleted, At, Phase
  <1>2. IsJob(job)
    BY <1>1, BookTyped DEF ExpPlaces
  <1>3. PICK m, n : Position(phases, job.left, completed, job.done, m, n)
    BY <1>1, <1>2, JobFacts DEF Reaches
  <1>4. phases \in Seq(STRING) /\ completed \in Seq(KnownPhases) /\ HasFields(job)
    BY <1>1, <1>2, JobFacts
  <1> DEFINE left == Tail(job.left)
  <1>5. Reaches(phases, left, completed, job.done)
    BY <1>1, <1>3, <1>4, PositionPasses
  <1> HIDE DEF left
  <1>6. job' = [job EXCEPT !.left = left]
    BY <1>1 DEF left
  <1>7. Passed(job, job', left, job.manifest) /\ job'.at = job.at
    BY <1>4, <1>6, JobPasses, Zenon
  <1>8. IsJob(job') /\ Placed(job')
    BY <1>1, <1>7 DEF IsJob, ExpPlaces, Placed, PartPlaces, Passed
  <1>9. Grows(job.manifest, job.manifest)
    BY <1>1, <1>2, JobFacts, GrowsNone
  <1> QED BY <1>1, <1>2, <1>5, <1>7, <1>8, <1>9, BookPasses

LEMMA CompleteKeepsBook ==
  ASSUME Book, IsJob(job), Works, NEW ops, Spared(ops, BookKinds), NEW runs, Complete(ops, runs)
  PROVE  Book'
  <1> DEFINE phases == job.config.phases
             completed == job.manifest.completed
             ph == Phase
             all == job.manifest.runs \cup {<<ph, run>> : run \in runs}
             more == Append(completed, ph)
             manifest == [job.manifest EXCEPT !.completed = more, !.runs = all]
             left == Tail(job.left)
  <1>1. /\ todo = <<>> /\ job.left # <<>> /\ ph = Head(job.left) /\ ph \in KnownPhases
        /\ ph \notin job.done /\ disk' = disk
    BY DEF Works, Phase
  <1>2. /\ todo' = ops \o Recording(job.exp, ph, "completed", manifest)
        /\ job' = [job EXCEPT !.at = "phase", !.left = left, !.manifest = manifest]
    BY DEF Complete, MarkerThenManifest, Recording
  <1>3. PICK m, n : Position(phases, job.left, completed, job.done, m, n)
    BY <1>1, JobFacts DEF Reaches
  <1>4. /\ phases \in Seq(STRING) /\ completed \in Seq(KnownPhases) /\ HasFields(job)
        /\ IsManifest(job.manifest) /\ InOrder(completed, phases)
    BY <1>1, JobFacts
  <1>5. job.manifest.runs \subseteq all
    OBVIOUS
  <1> HIDE DEF ph, all, left
  <1>6. Marked(job.manifest, manifest, ph, "completed", more)
    BY <1>1, <1>4, <1>5, ManifestCompletes
  <1>7. /\ Reaches(phases, left, more, job.done)
        /\ InOrder(more, phases)
        /\ Distinct(phases) => ph \notin {completed[i] : i \in DOMAIN completed}
    BY <1>1, <1>3, <1>4, PositionCompletes DEF left
  <1>8. PhasesOnce => Unmarked(job.manifest, ph)
    <2>1. PhasesOnce => ph \notin CompletedOf(job.manifest)
      BY <1>1, <1>7, JobFacts DEF CompletedOf
    <2>2. ph \notin job.manifest.skipped
      BY <1>1, <1>4 DEF IsManifest
    <2> QED BY <2>1, <2>2 DEF Marks, Unmarked
  <1> HIDE DEF manifest, more
  <1>9. Passed(job, job', left, manifest) /\ job'.at = "phase"
    BY <1>2, <1>4, JobCompletes, Zenon
  <1>10. IsJob(job') /\ Placed(job')
    BY <1>9 DEF IsJob, ExpPlaces, Placed, PartPlaces, Passed
  <1>11. BookOk(disk) /\ JobBook(disk, job) /\ JobKnows(disk, job)
    BY <1>1, JobFacts
  <1> DEFINE k == job'
  <1>12. IsJob(k) /\ Passed(job, k, left, manifest) /\ Placed(k)
    BY <1>9, <1>10
  <1> HIDE DEF k
  <1>13. BookInv(disk, ops \o Recording(job.exp, ph, "completed", manifest), k)
    <2>1. "completed" # Torn
      BY ExperimentAssumption
    <2>2. InOrder(more, phases) /\ Reaches(phases, left, more, job.done)
      BY <1>7
    <2>3. Records(disk, job, k, ph, "completed", manifest, more, left)
      BY <1>6, <1>8, <1>11, <1>12, <2>1, <2>2 DEF Records
    <2> QED BY <2>3, BookWorked
  <1> QED BY <1>1, <1>2, <1>13 DEF Book, k

LEMMA SkipKeepsBook ==
  ASSUME Book, SkipPhase
  PROVE  Book'
  <1> DEFINE phases == job.config.phases
             completed == job.manifest.completed
             ph == Phase
             skipped == job.manifest.skipped \cup {ph}
             manifest == [job.manifest EXCEPT !.skipped = skipped]
             left == Tail(job.left)
  <1>1. /\ todo = <<>> /\ job.left # <<>> /\ ph = Head(job.left) /\ ph \notin KnownPhases
        /\ ph \notin job.done /\ disk' = disk /\ job.at = "phase"
    BY DEF SkipPhase, Phase, At, Unchanged
  <1>2. /\ todo' = IF ph \in job.manifest.skipped THEN <<>>
                   ELSE Recording(job.exp, ph, "skipped", manifest)
        /\ job' = [job EXCEPT !.left = left, !.manifest = manifest]
    BY DEF SkipPhase, Recording
  <1>3. IsJob(job)
    BY <1>1, BookTyped DEF ExpPlaces
  <1>4. PICK m, n : Position(phases, job.left, completed, job.done, m, n)
    BY <1>1, <1>3, JobFacts DEF Reaches
  <1>5. /\ phases \in Seq(STRING) /\ completed \in Seq(KnownPhases) /\ HasFields(job)
        /\ IsManifest(job.manifest) /\ InOrder(completed, phases)
    BY <1>1, <1>3, JobFacts
  <1> HIDE DEF ph
  <1>6. Marked(job.manifest, manifest, ph, "skipped", completed)
    BY <1>1, <1>5, ManifestSkips
  <1>7. Reaches(phases, left, completed, job.done)
    BY <1>1, <1>4, <1>5, PositionPasses
  <1> HIDE DEF manifest, left
  <1>8. Passed(job, job', left, manifest) /\ job'.at = job.at
    <2>1. job' = [job EXCEPT !.left = left, !.manifest = manifest]
      BY <1>2
    <2>2. HasFields(job)
      BY <1>5
    <2>3. Skips(job, job', left, manifest)
      BY <2>1, <2>2, JobSkips, Zenon
    <2> QED BY <2>3 DEF Skips
  <1>9. IsJob(job') /\ Placed(job')
    BY <1>1, <1>8 DEF IsJob, ExpPlaces, Placed, PartPlaces, Passed
  <1>10. BookOk(disk) /\ JobBook(disk, job) /\ JobKnows(disk, job)
    BY <1>1, <1>3, JobFacts
  <1>11. CASE ph \in job.manifest.skipped
    <2>1. Marks(manifest) = Marks(job.manifest)
      BY <1>6, <1>11 DEF Marked, Marks
    <2>2. todo' = <<>>
      BY <1>2, <1>11
    <2>3. Grows(job.manifest, manifest) /\ manifest.completed = completed
      BY <1>6 DEF Marked
    <2> QED BY <1>1, <1>3, <1>7, <1>8, <1>9, <2>1, <2>2, <2>3, BookPasses
  <1>12. CASE ph \notin job.manifest.skipped
    <2>1. Unmarked(job.manifest, ph)
      <3>1. CompletedOf(job.manifest) \subseteq KnownPhases
        BY <1>5 DEF CompletedOf
      <3> QED BY <1>1, <1>12, <3>1 DEF Marks, Unmarked
    <2> DEFINE k == job'
    <2>2. IsJob(k) /\ Passed(job, k, left, manifest) /\ Placed(k)
      BY <1>8, <1>9
    <2> HIDE DEF k
    <2>3. BookInv(disk, Recording(job.exp, ph, "skipped", manifest), k)
      <3>1. Records(disk, job, k, ph, "skipped", manifest, completed, left)
        <4>1. BookOk(disk) /\ IsJob(job) /\ JobBook(disk, job) /\ JobKnows(disk, job)
          BY <1>3, <1>10
        <4>2. "skipped" # Torn
          BY ExperimentAssumption
        <4>3. InOrder(completed, phases)
          BY <1>5
        <4>4. PhasesOnce => Unmarked(job.manifest, ph)
          BY <2>1
        <4> QED BY <4>1, <4>2, <4>3, <4>4, <1>6, <1>7, <2>2 DEF Records
      <3> QED BY <3>1, BookProgress
    <2> QED BY <1>1, <1>2, <1>12, <2>3 DEF Book, k
  <1> QED BY <1>11, <1>12

LEMMA StartKeepsBook ==
  ASSUME Book, NEW x \in Experiments, NEW config \in Configs[x], StartExperiment(x, config)
  PROVE  Book'
  <1> DEFINE fresh == ~Exists(ManifestFile(x))
             manifest == ManifestOf(x, fresh)
             completed == manifest.completed
             done == {completed[i] : i \in DOMAIN completed}
             run == ThisStart
             k == job'
             t == PutIn(disk, LockFile(x), Torn)
             e == PutIn(disk, LockFile(x), config)
             disks == {disk, t, e}
  <1>1. BookOk(disk) /\ config.phases \in Seq(STRING)
    BY BookDrained, ExperimentAssumption DEF Book
  <1>2. /\ disk' = disk /\ todo' = <<Write(LockFile(x), config)>>
        /\ k = Job("estimate", x, config, fresh, manifest, run, {}, done, config.phases, 0, <<>>)
        /\ Exists(ManifestFile(x)) => MayResume(x, config)
    BY DEF StartExperiment, Job
  <1>3. manifest = IF fresh THEN FreshManifest ELSE disk[ManifestFile(x)]
    BY DEF ManifestOf
  <1>4. fresh => ~ReadableIn(disk, ManifestFile(x))
    BY DEF Exists, ReadableIn
  <1>5. ~fresh => /\ ReadableIn(disk, ManifestFile(x)) /\ ReadableIn(disk, LockFile(x))
                  /\ disk[LockFile(x)] = config
    BY <1>2 DEF MayResume, Readable, Exists, ReadableIn
  <1>6. Goes(disk, <<Write(LockFile(x), config)>>, e, disks)
    BY GoesWrite
  <1> HIDE DEF fresh, k, t, e, disks, run
  <1>7. /\ IsManifest(manifest) /\ InOrder(completed, config.phases)
        /\ PhasesOnce => MarkersOk(disk, x, manifest)
    <2>1. CASE fresh
      <3>1. manifest = FreshManifest
        BY <1>3, <2>1
      <3>2. DOMAIN completed = {}
        BY <3>1, FreshIsManifest
      <3> QED BY <3>1, <3>2, FreshIsManifest DEF InOrder, MarkersOk
    <2>2. CASE ~fresh
      <3>1. manifest = disk[ManifestFile(x)]
        BY <1>3, <2>2
      <3> QED BY <1>1, <1>5, <2>2, <3>1 DEF BookOk
    <2> QED BY <2>1, <2>2
  <1>8. completed \in Seq(KnownPhases)
    BY <1>7 DEF IsManifest
  <1> HIDE DEF manifest
  <1>9. Reaches(config.phases, config.phases, completed, done)
    BY <1>1, <1>7, <1>8, PositionStart
  <1> HIDE DEF done
  <1>10. /\ HasFields(k) /\ k.at = "estimate" /\ k.exp = x /\ k.config = config /\ k.manifest = manifest
         /\ k.done = done /\ k.left = config.phases
    BY <1>2, JobIs
  <1>11. IsJob(k) /\ Placed(k)
    BY <1>10 DEF IsJob, ExpPlaces, Placed, PartPlaces
  <1>12. ReadableIn(disk, ManifestFile(x)) => manifest = disk[ManifestFile(x)]
    BY <1>3, <1>4
  <1>13. ReadableIn(disk, ManifestFile(x)) => InOrder(disk[ManifestFile(x)].completed, config.phases)
    BY <1>7, <1>12
  <1>14. /\ BookOk(t) /\ SameManifests(disk, t) /\ BookOk(e) /\ SameManifests(disk, e)
         /\ SameMarkers(disk, e)
         /\ ReadableIn(e, LockFile(x)) => e[LockFile(x)] = config
    <2>1. BookOk(t) /\ SameManifests(disk, t)
      BY <1>1, BookLock DEF t
    <2>2. /\ BookOk(e) /\ SameManifests(disk, e) /\ SameMarkers(disk, e)
          /\ ReadableIn(e, LockFile(x)) => e[LockFile(x)] = config
      BY <1>1, <1>13, BookLock DEF e
    <2> QED BY <2>1, <2>2
  <1>15. Grows(manifest, manifest)
    BY <1>7, GrowsNone
  <1>16. ASSUME NEW d \in disks
         PROVE  BookOk(d) /\ JobBook(d, k)
    <2>1. BookOk(d) /\ SameManifests(disk, d)
      <3>1. SameManifests(disk, disk)
        BY DEF SameManifests
      <3> QED BY <1>1, <1>14, <3>1 DEF disks
    <2>2. ReadableIn(d, ManifestFile(x)) => Grows(d[ManifestFile(x)], manifest)
      BY <1>12, <1>15, <2>1 DEF SameManifests
    <2> QED BY <1>10, <2>1, <2>2 DEF JobBook
  <1>17. JobKnows(e, k)
    <2>1. PhasesOnce => MarkersOk(e, x, manifest)
      BY <1>7, <1>14 DEF SameMarkers
    <2> QED BY <1>7, <1>9, <1>10, <1>11, <1>14, <2>1 DEF JobKnows
  <1>18. \A d \in disks : BookOk(d) /\ JobBook(d, k)
    BY <1>16
  <1>19. BookInv(disk, <<Write(LockFile(x), config)>>, k)
    BY <1>6, <1>11, <1>17, <1>18 DEF BookInv
  <1> QED BY <1>2, <1>19 DEF Book, k

LEMMA EstimateKeepsBook ==
  ASSUME Book, NEW goesOn, Estimate(goesOn)
  PROVE  Book'
  <1>1. /\ job.at = "estimate" /\ todo = <<>> /\ todo' = <<>> /\ disk' = disk
        /\ job' = IF goesOn THEN [job EXCEPT !.at = "workflow"] ELSE Idle
    BY DEF Estimate, At
  <1>2. IsJob(job) /\ HasFields(job)
    BY <1>1, BookTyped DEF ExpPlaces, IsJob
  <1>3. Spared(<<>>, BookKinds)
    BY SparedNone
  <1>4. CASE goesOn
    <2>1. job' = [job EXCEPT !.at = "workflow"]
      BY <1>1, <1>4
    <2>2. Moved(job, job', "workflow")
      BY <1>2, <2>1, JobMoves
    <2>3. IsJob(job') /\ Placed(job')
      BY <2>2 DEF Moved, IsJob, ExpPlaces, Placed, PartPlaces
    <2> QED BY <1>1, <1>2, <1>3, <2>2, <2>3, BookMoves DEF Moved
  <1>5. CASE ~goesOn
    <2>1. IsOther(job')
      BY <1>1, <1>5, OtherJobs
    <2> QED BY <1>1, <1>3, <2>1, BookStops
  <1> QED BY <1>4, <1>5

LEMMA EnsureKeepsBook ==
  ASSUME Book, EnsureWorkflow
  PROVE  Book'
  <1>1. /\ job.at = "workflow" /\ todo = <<>> /\ disk' = disk
        /\ job' = [job EXCEPT !.at = "phase"]
    BY DEF EnsureWorkflow, At
  <1>2. IsJob(job) /\ HasFields(job)
    BY <1>1, BookTyped DEF ExpPlaces, IsJob
  <1>3. Moved(job, job', "phase")
    BY <1>1, <1>2, JobMoves
  <1>4. IsJob(job') /\ Placed(job')
    BY <1>3 DEF Moved, IsJob, ExpPlaces, Placed, PartPlaces
  <1>5. BookKinds \cap RegistryKinds = {}
    BY DEF BookKinds, RegistryKinds
  <1>6. /\ Spared(<<>>, BookKinds)
        /\ \A m, program, metadata : Spared(WriteVersion(m, program, metadata) \o SetLatest(m), BookKinds)
        /\ \A m : Spared(SetLatest(m), BookKinds)
        /\ \A program : Spared(InitWorkflow(program), BookKinds)
    BY <1>5, SparedNone, RegistrySpares
  <1>7. Spared(todo', BookKinds)
    <2>1. \/ todo' = <<>>
          \/ todo' = InitWorkflow(Configured)
          \/ todo' = EnsureConfiguredBaseline(Configured)
      BY <1>1 DEF EnsureWorkflow
    <2>2. Spared(EnsureConfiguredBaseline(Configured), BookKinds)
      BY <1>6 DEF EnsureConfiguredBaseline, InstallVersion
    <2> QED BY <1>6, <2>1, <2>2
  <1> QED BY <1>1, <1>2, <1>3, <1>4, <1>7, BookMoves DEF Moved

LEMMA FinishKeepsBook ==
  ASSUME Book, Finish
  PROVE  Book'
  <1>1. job' = Idle /\ disk' = disk
    BY DEF Finish, Unchanged
  <1>2. IsOther(job')
    BY <1>1, OtherJobs
  <1>3. /\ ReportJson(job.exp)[1] \notin BookKinds /\ ReportMarkdown(job.exp)[1] \notin BookKinds
    BY ExperimentPaths DEF BookKinds
  <1> DEFINE a == Write(ReportJson(job.exp), job.manifest.runs)
             b == Write(ReportMarkdown(job.exp), job.manifest.runs)
  <1>4. todo' = <<>> \/ todo' = <<a, b>>
    BY DEF Finish
  <1>5. Spared(<<a>>, BookKinds) /\ Spared(<<b>>, BookKinds)
    BY <1>3, SparedWrite
  <1> HIDE DEF a, b
  <1>6. Spared(<<a>> \o <<b>>, BookKinds)
    BY <1>5, SparedJoin
  <1>7. Spared(<<a, b>>, BookKinds)
    BY <1>6, JoinTwo
  <1>8. Spared(todo', BookKinds)
    BY <1>4, <1>7, SparedNone
  <1> QED BY <1>1, <1>2, <1>8, BookStops

LEMMA WholeKeepsBook ==
  ASSUME Book, WholePhase
  PROVE  Book'
  <1>1. PICK ops : PhaseDone(ops)
    BY DEF WholePhase
  <1>2. Works /\ job.at = "phase" /\ disk' = disk
    BY DEF WholePhase, Works
  <1>3. IsJob(job)
    BY <1>2, BookTyped DEF ExpPlaces
  <1>4. Spared(ops, BookKinds)
    <2>1. Spared(ops, BookKinds \cup VersionKinds)
      BY <1>1, OwnedSpared DEF PhaseDone
    <2>2. BookKinds \subseteq BookKinds \cup VersionKinds
      OBVIOUS
    <2> QED BY <2>1, <2>2, SparedMore
  <1>5. CASE Fail(ops)
    <2>1. todo' = ops /\ IsOther(job')
      BY <1>5, OtherJobs DEF Fail
    <2> QED BY <1>2, <1>4, <2>1, BookStops
  <1>6. CASE \E runs : Complete(ops, runs)
    <2>1. PICK runs : Complete(ops, runs)
      BY <1>6
    <2> QED BY <1>2, <1>3, <1>4, <2>1, CompleteKeepsBook
  <1> QED BY <1>1, <1>5, <1>6 DEF PhaseDone

LEMMA PartKeepsBook ==
  ASSUME Book, PartPhase
  PROVE  Book'
  <1>1. todo = <<>> /\ disk' = disk /\ IsJob(job)
    BY DEF PartPhase, Works
  <1>2. Spared(todo', BookKinds)
    <2>1. Spared(todo', BookKinds \cup VersionKinds)
      BY OwnedSpared DEF PartPhase
    <2>2. BookKinds \subseteq BookKinds \cup VersionKinds
      OBVIOUS
    <2> QED BY <2>1, <2>2, SparedMore
  <1>3. CASE job' = Idle
    <2>1. IsOther(job')
      BY <1>3, OtherJobs
    <2> QED BY <1>1, <1>2, <2>1, BookStops
  <1>4. CASE IsJob(job') /\ SameBook(job, job') /\ Placed(job')
    BY <1>1, <1>2, <1>4, BookMoves
  <1> QED BY <1>3, <1>4 DEF PartPhase, GoesOnAs

LEMMA InstallKeepsBook ==
  ASSUME Book, InstallPhase
  PROVE  Book'
  <1>1. Works /\ disk' = disk /\ IsJob(job)
    BY DEF InstallPhase, Works
  <1>2. CASE Fail(<<>>)
    <2>1. todo' = <<>> /\ IsOther(job')
      BY <1>2, OtherJobs DEF Fail
    <2> QED BY <1>1, <2>1, SparedNone, BookStops
  <1>3. CASE \E ops, runs : Complete(ops, runs) /\ Spared(ops, InstallSpares)
    <2>1. PICK ops, runs : Complete(ops, runs) /\ Spared(ops, InstallSpares)
      BY <1>3
    <2>2. BookKinds \subseteq InstallSpares
      BY DEF InstallSpares
    <2>3. Spared(ops, BookKinds)
      BY <2>1, <2>2, SparedMore
    <2> QED BY <1>1, <2>1, <2>3, CompleteKeepsBook
  <1> QED BY <1>2, <1>3 DEF InstallPhase

LEMMA InstallerKeepsBook ==
  ASSUME Book, InstallerStep
  PROVE  Book'
  <1>1. BookKinds \cap RegistryKinds = {}
    BY DEF BookKinds, RegistryKinds
  <1>2. IsJob(job) \/ IsOther(job)
    BY BookTyped
  <1>3. CASE FileOperation
    <2>1. FileStep /\ job' = job
      BY <1>3 DEF FileOperation
    <2>2. PICK e, disks : /\ Goes(disk, todo, e, disks)
                          /\ \A x \in disks : BookOk(x) /\ JobBook(x, job)
                          /\ JobKnows(e, job)
      BY DEF Book, BookInv
    <2>3. Goes(disk', todo', e, disks)
      BY <2>1, <2>2, GoesAway
    <2> DEFINE d == disk'
               q == todo'
    <2>4. Goes(d, q, e, disks)
      BY <2>3
    <2> HIDE DEF d, q
    <2>5. BookInv(d, q, job)
      BY <1>2, <2>2, <2>4 DEF BookInv
    <2> QED BY <2>1, <2>5 DEF Book, d, q
  <1>4. CASE disk' = disk /\ Spared(todo', BookKinds) /\ IsOther(job')
    BY <1>4, BookStops
  <1> QED BY <1>1, <1>2, <1>3, <1>4, InstallerQuiet

(* Every step of an experiment is one of these.                            *)
LEMMA ExperimentKeepsBook ==
  ASSUME Book, ExperimentStep
  PROVE  Book'
  <1>1. todo = <<>> /\ job.at \in PartPlaces => IsJob(job) /\ Placed(job)
    BY BookTyped, JobFacts DEF ExpPlaces, PartPlaces
  <1>2. ASSUME NEW at \in PartPlaces, At(at) PROVE IsJob(job) /\ Placed(job)
    BY <1>1, <1>2 DEF At
  <1>3. \A phases : AtPhase(phases) => IsJob(job)
    BY BookTyped DEF AtPhase, At, ExpPlaces
  <1>4. CASE \E x \in Experiments : \E config \in Configs[x] : StartExperiment(x, config)
    BY <1>4, StartKeepsBook
  <1>5. CASE \E goesOn \in BOOLEAN : Estimate(goesOn)
    BY <1>5, EstimateKeepsBook
  <1>6. CASE EnsureWorkflow
    BY <1>6, EnsureKeepsBook
  <1>7. CASE PassCompleted
    BY <1>7, PassKeepsBook
  <1>8. CASE SkipPhase
    BY <1>8, SkipKeepsBook
  <1>9. CASE Finish
    BY <1>9, FinishKeepsBook
  <1>10. CASE \/ SplitEvents \/ RunDirect \/ RunExactMemo
              \/ \E offered \in Offers : RunProfile(offered) \/ RunUnoptimized(offered) \/ RunInstalled(offered)
              \/ RunNoSemantic \/ ShadowAudit \/ EvaluateQuality \/ Report
              \/ \E plan \in Plans : OptimizePhase(plan)
    <2>1. WholePhase
      BY <1>10, PhaseShapes
    <2> QED BY <2>1, WholeKeepsBook
  <1>11. CASE ReuseArtifacts \/ \E plan \in Plans : MakeArtifacts(plan)
    <2>1. IsJob(job)
      BY <1>3, <1>11 DEF ReuseArtifacts, MakeArtifacts
    <2>2. PartPhase
      BY <1>11, <2>1, ArtifactShapes
    <2> QED BY <2>2, PartKeepsBook
  <1>12. CASE SelectBase
    <2>1. IsJob(job) /\ Placed(job)
      BY <1>2, <1>12 DEF SelectBase, PartPlaces
    <2>2. PartPhase
      BY <1>12, <2>1, SelectShape
    <2> QED BY <2>2, PartKeepsBook
  <1>13. CASE \E accepted \in BOOLEAN : Gate(accepted)
    <2>1. PICK accepted : Gate(accepted)
      BY <1>13
    <2>2. IsJob(job) /\ Placed(job)
      BY <1>2, <2>1 DEF Gate, PartPlaces
    <2>3. PartPhase
      BY <2>1, <2>2, GateShape
    <2> QED BY <2>3, PartKeepsBook
  <1>14. CASE InstallSemantic
    <2>1. IsJob(job) /\ Placed(job)
      BY <1>2, <1>14 DEF InstallSemantic, PartPlaces
    <2>2. InstallPhase
      BY <1>14, <2>1, InstallShape
    <2> QED BY <2>2, InstallKeepsBook
  <1> QED BY <1>4, <1>5, <1>6, <1>7, <1>8, <1>9, <1>10, <1>11, <1>12, <1>13, <1>14 DEF ExperimentStep

LEMMA BookStart ==
  ASSUME InstallerInit
  PROVE  Book
  <1> DEFINE d == [path \in {} |-> Torn]
  <1>1. disk = d /\ todo = <<>> /\ job = Idle
    BY DEF InstallerInit
  <1>2. BookOk(d)
    BY DEF BookOk, ReadableIn
  <1> HIDE DEF d
  <1>3. IsOther(Idle)
    BY OtherJobs
  <1>4. JobBook(d, Idle) /\ JobKnows(d, Idle) /\ Spared(<<>>, BookKinds)
    BY <1>3, NoBook, SparedNone
  <1>5. BookInv(d, <<>>, Idle)
    BY <1>2, <1>3, <1>4, BookSpared
  <1> QED BY <1>1, <1>5 DEF Book

(* The book of every experiment is kept, whatever is begun and stopped.    *)
THEOREM BookInvariance == Spec => []Book
  <1>1. InstallerInit => Book
    BY BookStart
  <1>2. Book /\ [ExperimentStep \/ InstallerStep]_vars => Book'
    <2> SUFFICES ASSUME Book, [ExperimentStep \/ InstallerStep]_vars PROVE Book'
      OBVIOUS
    <2>1. CASE ExperimentStep
      BY <2>1, ExperimentKeepsBook
    <2>2. CASE InstallerStep
      BY <2>2, InstallerKeepsBook
    <2>3. CASE UNCHANGED vars
      BY <2>3 DEF vars, installerVars, Book
    <2> QED BY <2>1, <2>2, <2>3
  <1> QED BY <1>1, <1>2, PTL DEF Spec

(* What the book promises to those that read it.                           *)
LEMMA BookPromises ==
  ASSUME Book
  PROVE  ManifestExtended /\ ProgressInOrder /\ (PhasesOnce => MarkersCoverManifest)
  <1>1. BookOk(disk) /\ JobBook(disk, job) /\ (IsJob(job) \/ IsOther(job))
    BY BookDrained, BookTyped DEF Book
  <1>2. \A x \in Recorded : x \in Experiments /\ ReadableIn(disk, ManifestFile(x))
    BY DEF Recorded, Readable, Exists, ReadableIn
  <1>3. ManifestExtended
    <2> SUFFICES ASSUME NEW x \in Recorded, Running(x)
                 PROVE  /\ Saved(x).scope = job.manifest.scope
                        /\ IsPrefixOf(Saved(x).completed, job.manifest.completed)
                        /\ Saved(x).runs \subseteq job.manifest.runs
      BY DEF ManifestExtended
    <2>1. IsJob(job) /\ job.exp = x
      BY <1>1 DEF Running, IsOther
    <2>2. Grows(disk[ManifestFile(x)], job.manifest)
      BY <1>1, <1>2, <2>1 DEF JobBook
    <2> QED BY <2>2 DEF Saved, Grows
  <1>4. ProgressInOrder
    <2> SUFFICES ASSUME NEW x \in Recorded, Readable(LockFile(x))
                 PROVE  InOrder(Saved(x).completed, disk[LockFile(x)].phases)
      BY DEF ProgressInOrder, InOrder
    <2>1. ReadableIn(disk, ManifestFile(x)) /\ x \in Experiments
      BY <1>2
    <2>2. ReadableIn(disk, LockFile(x))
      BY DEF Readable, Exists, ReadableIn
    <2> QED BY <1>1, <2>1, <2>2 DEF BookOk, Saved
  <1>5. ASSUME PhasesOnce PROVE MarkersCoverManifest
    <2> SUFFICES ASSUME NEW x \in Recorded
                 PROVE  /\ \A ph \in Completed(x) :
                             Readable(MarkerFile(x, ph)) /\ disk[MarkerFile(x, ph)] = "completed"
                        /\ \A ph \in Saved(x).skipped :
                             Readable(MarkerFile(x, ph)) /\ disk[MarkerFile(x, ph)] = "skipped"
      BY DEF MarkersCoverManifest
    <2> DEFINE m == Saved(x)
    <2>1. MarkersOk(disk, x, m)
      BY <1>1, <1>2, <1>5 DEF BookOk, Saved
    <2>2. Completed(x) = CompletedOf(m)
      BY DEF Completed, CompletedOf
    <2> HIDE DEF m
    <2>3. \A r \in Marks(m) : Readable(MarkerFile(x, r[1])) /\ disk[MarkerFile(x, r[1])] = r[2]
      BY <2>1 DEF MarkersOk, Readable, Exists, ReadableIn
    <2>4. ASSUME NEW ph \in CompletedOf(m)
          PROVE  Readable(MarkerFile(x, ph)) /\ disk[MarkerFile(x, ph)] = "completed"
      <3>1. <<ph, "completed">> \in Marks(m)
        BY DEF Marks
      <3> QED BY <2>3, <3>1
    <2>5. ASSUME NEW ph \in m.skipped
          PROVE  Readable(MarkerFile(x, ph)) /\ disk[MarkerFile(x, ph)] = "skipped"
      <3>1. <<ph, "skipped">> \in Marks(m)
        BY DEF Marks
      <3> QED BY <2>3, <3>1
    <2> QED BY <2>2, <2>4, <2>5 DEF m
  <1> QED BY <1>3, <1>4, <1>5

(* runner.rs 177: whatever stops an experiment and whatever is started in  *)
(* between, a run that is under way has the scope of the manifest on disk, *)
(* and all it records.                                                     *)
THEOREM ManifestIsExtended == Spec => []ManifestExtended
  <1>1. Book => ManifestExtended
    BY BookPromises
  <1> QED BY <1>1, BookInvariance, PTL

(* runner.rs 290: what a manifest records are phases of the locked         *)
(* configuration, in its order and without a gap, also of a configuration  *)
(* that names a phase twice.                                               *)
THEOREM ProgressIsInOrder == Spec => []ProgressInOrder
  <1>1. Book => ProgressInOrder
    BY BookPromises
  <1> QED BY <1>1, BookInvariance, PTL

(* runner.rs 223: no manifest records a phase whose marker is not there,   *)
(* if no configuration names a phase twice.                                *)
THEOREM MarkersCover == PhasesOnce => (Spec => []MarkersCoverManifest)
  <1>1. PhasesOnce /\ Book => MarkersCoverManifest
    BY BookPromises
  <1>2. ASSUME PhasesOnce PROVE Spec => []MarkersCoverManifest
    <2>1. Book => MarkersCoverManifest
      BY <1>1, <1>2
    <2> QED BY <2>1, BookInvariance, PTL
  <1> QED BY <1>2
-----------------------------------------------------------------------------
(* Queues that leave the versions of programs alone.                       *)
LightPaths(paths, removed) ==
  /\ \A q \in paths : q[1] \notin VersionKinds /\ ~IsInstalledRecord(q)
  /\ \A q \in removed : q[1] # "record"
Light(queue) ==
  \E paths, removed : Within(queue, paths, removed) /\ LightPaths(paths, removed)

LEMMA OwnedLight ==
  ASSUME NEW queue, NEW x, NEW ph, OwnedQueue(queue, x, ph)
  PROVE  Light(queue)
  <1>1. PICK paths, removed : /\ Within(queue, paths, removed)
                              /\ \A q \in paths : Owned(q, x, ph)
                              /\ \A q \in removed : Removable(q)
    BY DEF OwnedQueue
  <1>2. \A q \in paths : q[1] \notin VersionKinds /\ ~IsInstalledRecord(q)
    BY <1>1 DEF Owned
  <1>3. \A q \in removed : q[1] # "record"
    <2>1. "record" # "predictions" /\ "record" # "shadow"
      OBVIOUS
    <2> QED BY <1>1, <2>1 DEF Removable
  <1> QED BY <1>1, <1>2, <1>3 DEF Light, LightPaths

LEMMA LightJoin ==
  ASSUME NEW p, NEW q, Light(p), Light(q)
  PROVE  Light(p \o q)
  <1>1. PICK A, R : Within(p, A, R) /\ LightPaths(A, R)
    BY DEF Light
  <1>2. PICK B, T : Within(q, B, T) /\ LightPaths(B, T)
    BY DEF Light
  <1> DEFINE C == A \cup B
             U == R \cup T
             r == p \o q
  <1>3. Within(r, C, U)
    BY <1>1, <1>2, WithinJoin
  <1>4. LightPaths(C, U)
    BY <1>1, <1>2 DEF LightPaths
  <1> HIDE DEF C, U, r
  <1>5. Light(r)
    BY <1>3, <1>4 DEF Light
  <1> QED BY <1>5 DEF r

LEMMA LightWrite ==
  ASSUME NEW path, NEW content, path[1] \notin VersionKinds, ~IsInstalledRecord(path)
  PROVE  Light(<<Write(path, content)>>)
  <1> DEFINE A == {path}
             q == <<Write(path, content)>>
  <1>1. Within(q, A, {})
    BY WithinWrite
  <1>2. LightPaths(A, {})
    BY DEF LightPaths
  <1> HIDE DEF A, q
  <1>3. Light(q)
    BY <1>1, <1>2 DEF Light
  <1> QED BY <1>3 DEF q

LEMMA LightNone == Light(<<>>)
  <1>1. LightPaths({}, {})
    BY DEF LightPaths
  <1> QED BY <1>1, WithinNone DEF Light

LEMMA LightKeeps ==
  ASSUME NEW d, NEW e, NEW ev, NEW P, NEW n \in Nat, Registered(d, ev, P, n),
         NEW paths, NEW removed, LightPaths(paths, removed), Follows(d, e, paths, removed)
  PROVE  Registered(e, ev, P, n) /\ SameHistory(d, e)
  <1>1. \A q : q[1] \in VersionKinds \/ IsInstalledRecord(q) =>
          (q \in DOMAIN d <=> q \in DOMAIN e) /\ (q \in DOMAIN d => e[q] = d[q])
    BY DEF LightPaths, Follows
  <1>2. \A q \in DOMAIN d : q[1] = "record" => q \in DOMAIN e
    BY DEF LightPaths, Follows
  <1>3. /\ \A v : ProgramFile(v)[1] \in VersionKinds /\ MetadataFile(v)[1] \in VersionKinds
        /\ LatestFile[1] \in VersionKinds /\ WorkflowDir[1] \in VersionKinds
    BY PathsApart DEF VersionKinds
  <1>4. SameVersions(d, e, n)
    <2>1. \A v \in 1 .. n : VersionOk(d, ev, P, v)
      BY DEF Registered, RegistryOk
    <2> QED BY <1>1, <1>3, <2>1 DEF SameVersions, VersionOk, ReadableIn
  <1>5. RegistryOk(e, ev, P, n)
    <2>1. \A q \in DOMAIN e : q[1] = "metadata" => \E v \in 1 .. n + 1 : q = MetadataFile(v)
      BY <1>1 DEF Registered, RegistryOk, VersionKinds
    <2>2. \A v \in 1 .. n : VersionOk(e, ev, P, v)
      BY <1>4, VersionsKept DEF Registered, RegistryOk
    <2>3. ~ReadableIn(e, MetadataFile(n + 1))
      BY <1>1, <1>3 DEF Registered, RegistryOk, ReadableIn
    <2>4. ReadableIn(e, LatestFile) => e[LatestFile] \in 1 .. n
      BY <1>1, <1>3 DEF Registered, RegistryOk, ReadableIn
    <2>5. \A q \in DOMAIN e : q[1] \in {"metadata", "latest"} => WorkflowDir \in DOMAIN e
      BY <1>1, <1>3 DEF Registered, RegistryOk, VersionKinds
    <2> QED BY <2>1, <2>2, <2>3, <2>4, <2>5 DEF RegistryOk
  <1>6. RecordsOk(e, n)
    <2>1. \A q \in DOMAIN e : IsInstalledRecord(q) /\ e[q] # Torn
            => (q \in DOMAIN d /\ e[q] = d[q]) \/ RecordOk(e, n, e[q])
      BY <1>1
    <2>2. \A q : q[1] = "record" /\ q \in DOMAIN d => q \in DOMAIN e
      BY <1>2
    <2>3. n <= n
      OBVIOUS
    <2> QED BY <1>4, <2>1, <2>2, <2>3, RecordsKept DEF Registered
  <1>7. HistoryIn(e) = HistoryIn(d)
    BY <1>4, <1>5, SameVersionsSameHistory DEF Registered
  <1>8. CurrentIn(e) = CurrentIn(d)
    BY <1>1, <1>3 DEF CurrentIn, ReadableIn
  <1> QED BY <1>5, <1>6, <1>7, <1>8 DEF Registered, SameHistory

LEMMA LightSafe ==
  ASSUME NEW d, NEW ev, NEW P, NEW n \in Nat, Registered(d, ev, P, n),
         NEW queue, Light(queue), NEW j, j.at \notin Asking
  PROVE  \E e : Safe(d, queue, e, j, ev, P) /\ Registered(e, ev, P, n)
  <1>1. PICK paths, removed : Within(queue, paths, removed) /\ LightPaths(paths, removed)
    BY DEF Light
  <1>2. PICK e, disks : Ways(d, queue, e, disks, paths, removed)
    BY <1>1, WithinGoes
  <1>3. ASSUME NEW x \in disks
        PROVE  Registered(x, ev, P, n) /\ SameHistory(d, x)
    <2>1. Follows(d, x, paths, removed)
      BY <1>2 DEF Ways
    <2> QED BY <1>1, <2>1, LightKeeps
  <1>4. ASSUME NEW x \in disks, NEW y \in disks
        PROVE  RegistryEdge(x, y, j, ev, P)
    <2>1. Registered(x, ev, P, n) /\ SameHistory(x, y)
      BY <1>3 DEF SameHistory
    <2>2. AskedOk(x, j)
      BY DEF AskedOk
    <2> QED BY <2>1, <2>2 DEF RegistryEdge, HistoryEdge
  <1> DEFINE edges == disks \X disks
  <1>5. \A p \in edges : RegistryEdge(p[1], p[2], j, ev, P)
    BY <1>4
  <1>6. Leads(d, queue, e, edges) /\ e \in disks
    BY <1>2 DEF Ways, Goes
  <1> HIDE DEF edges
  <1>7. Safe(d, queue, e, j, ev, P)
    BY <1>5, <1>6 DEF Safe
  <1> QED BY <1>3, <1>6, <1>7

(* A step of an experiment that does not concern its versions.             *)
LEMMA LightStep ==
  ASSUME NEW P, Registry(P), todo = <<>>, disk' = disk, Light(todo'),
         job'.at \notin Asking, evaluated \subseteq evaluated'
  PROVE  Registry(P)'
  <1>1. PICK n \in Nat : Registered(disk, evaluated, P, n)
    BY FromRest
  <1>2. Registered(disk, evaluated', P, n)
    BY <1>1, MoreEvaluated
  <1> DEFINE k == job'
             q == todo'
             ev == evaluated'
  <1>3. k.at \notin Asking /\ Light(q) /\ Registered(disk, ev, P, n)
    BY <1>2
  <1> HIDE DEF k, q, ev
  <1>4. PICK e : Safe(disk, q, e, k, ev, P) /\ Registered(e, ev, P, n)
    BY <1>3, LightSafe
  <1>5. JobOk(e, k, ev, P, n)
    BY <1>3, IdleOk
  <1> QED BY <1>4, <1>5, Underway DEF k, q, ev

(* The versions that were there on the disks a queue goes over.            *)
KeepsVersions(d, e) ==
  \A v \in WholeIn(d) : v \in WholeIn(e) /\ VersionIn(e, v) = VersionIn(d, v)

LEMMA KeepsTwice ==
  ASSUME NEW d, NEW e, NEW f, KeepsVersions(d, e), KeepsVersions(e, f)
  PROVE  KeepsVersions(d, f)
  BY DEF KeepsVersions

LEMMA KeepsSelf ==
  ASSUME NEW d
  PROVE  KeepsVersions(d, d)
  BY DEF KeepsVersions

IsRegistry(d, ev, P) == \E n \in Nat : Registered(d, ev, P, n)

LEMMA EdgeKeeps ==
  ASSUME NEW d, NEW e, NEW ev, NEW P, IsRegistry(d, ev, P), IsRegistry(e, ev, P), HistoryEdge(d, e)
  PROVE  KeepsVersions(d, e)
  <1>1. PICK n \in Nat : Registered(d, ev, P, n)
    BY DEF IsRegistry
  <1>2. PICK m \in Nat : Registered(e, ev, P, m)
    BY DEF IsRegistry
  <1> DEFINE g == HistoryIn(d)
             h == HistoryIn(e)
  <1>3. WholeIn(d) = 1 .. n /\ g = [v \in 1 .. n |-> VersionIn(d, v)]
    BY <1>1, WholeVersions DEF Registered
  <1>4. WholeIn(e) = 1 .. m /\ h = [v \in 1 .. m |-> VersionIn(e, v)]
    BY <1>2, WholeVersions DEF Registered
  <1>5. h = g \/ Extends(g, h)
    BY DEF HistoryEdge, SameHistory
  <1> HIDE DEF g, h
  <1>6. /\ DOMAIN g = 1 .. n /\ \A v \in 1 .. n : g[v] = VersionIn(d, v)
        /\ DOMAIN h = 1 .. m /\ \A v \in 1 .. m : h[v] = VersionIn(e, v)
    BY <1>3, <1>4
  <1>7. CASE h = g
    <2>1. 1 .. n = 1 .. m
      BY <1>6, <1>7
    <2>2. \A v \in 1 .. n : v \in 1 .. m /\ VersionIn(e, v) = VersionIn(d, v)
      BY <1>6, <1>7, <2>1
    <2> QED BY <1>3, <1>4, <2>2 DEF KeepsVersions
  <1>8. CASE Extends(g, h)
    <2>1. Len(g) = n /\ Len(h) = m
      BY <1>3, <1>4
    <2>2. m = n + 1 /\ SubSeq(h, 1, n) = g
      BY <1>8, <2>1 DEF Extends
    <2>3. ASSUME NEW v \in 1 .. n
          PROVE  v \in 1 .. m /\ VersionIn(e, v) = VersionIn(d, v)
      <3>1. v \in 1 .. m
        BY <2>2
      <3>2. \E T : h \in Seq(T)
        <4>1. h \in Seq({VersionIn(e, w) : w \in 1 .. m})
          BY <1>4
        <4> QED BY <4>1
      <3>3. SubSeq(h, 1, n)[v] = h[v]
        BY <2>1, <2>2, <3>2
      <3> QED BY <1>6, <2>2, <3>1, <3>3
    <2> QED BY <1>3, <1>4, <2>3 DEF KeepsVersions
  <1> QED BY <1>5, <1>7, <1>8

LEMMA LeadsKeepsVersions ==
  ASSUME NEW d, NEW queue, NEW e, NEW edges, NEW j, NEW ev, NEW P,
         Leads(d, queue, e, edges), IsRegistry(e, ev, P),
         \A p \in edges : RegistryEdge(p[1], p[2], j, ev, P)
  PROVE  /\ KeepsVersions(d, e)
         /\ Leads(d, queue, e,
                  {p \in edges : KeepsVersions(d, p[1]) /\ KeepsVersions(d, p[2])})
  <1>1. PICK S : queue \in Seq(S)
    BY DEF Leads
  <1>2. PICK plan : plan[1] = d /\ plan[Len(queue) + 1] = e /\ Through(plan, queue, edges)
    BY DEF Leads
  <1>3. PICK n \in Nat : n = Len(queue)
    BY <1>1
  <1> DEFINE T == {i \in 1 .. n + 1 : ~KeepsVersions(d, plan[i])}
             F == {p \in edges : KeepsVersions(d, p[1]) /\ KeepsVersions(d, p[2])}
  <1>4. \A i \in 1 .. n : Performs(plan[i], queue[i], plan[i + 1], edges)
    BY <1>2, <1>3 DEF Through
  <1>5. \A a, b : <<a, b>> \in edges => IsRegistry(a, ev, P) /\ HistoryEdge(a, b)
    BY DEF RegistryEdge, IsRegistry
  <1>6. \A i \in 1 .. n + 1 : IsRegistry(plan[i], ev, P)
    <2> TAKE i \in 1 .. n + 1
    <2>1. CASE i = n + 1
      BY <1>2, <1>3, <2>1
    <2>2. CASE i # n + 1
      <3>1. i \in 1 .. n
        BY <2>2
      <3> QED BY <1>4, <1>5, <3>1 DEF Performs
    <2> QED BY <2>1, <2>2
  <1>7. ASSUME NEW i \in 1 .. n
        PROVE  /\ KeepsVersions(plan[i], plan[i + 1])
               /\ queue[i].op = "write" => KeepsVersions(plan[i], Half(plan[i], queue[i]))
    <2> DEFINE a == plan[i]
               b == plan[i + 1]
               h == Half(a, queue[i])
    <2>1. i \in 1 .. n + 1 /\ i + 1 \in 1 .. n + 1
      OBVIOUS
    <2>2. IsRegistry(a, ev, P) /\ IsRegistry(b, ev, P)
      BY <1>6, <2>1
    <2>3. IF queue[i].op = "write" THEN <<a, h>> \in edges /\ <<h, b>> \in edges
          ELSE <<a, b>> \in edges
      BY <1>4 DEF Performs
    <2> HIDE DEF a, b, h
    <2>4. CASE queue[i].op = "write"
      <3>1. IsRegistry(h, ev, P) /\ HistoryEdge(a, h) /\ HistoryEdge(h, b)
        BY <1>5, <2>3, <2>4
      <3>2. KeepsVersions(a, h) /\ KeepsVersions(h, b)
        BY <2>2, <3>1, EdgeKeeps
      <3>3. KeepsVersions(a, b)
        BY <3>2, KeepsTwice
      <3> QED BY <3>2, <3>3 DEF a, b, h
    <2>5. CASE queue[i].op # "write"
      <3>1. HistoryEdge(a, b)
        BY <1>5, <2>3, <2>5
      <3>2. KeepsVersions(a, b)
        BY <2>2, <3>1, EdgeKeeps
      <3> QED BY <2>5, <3>2 DEF a, b
    <2> QED BY <2>4, <2>5
  <1>8. T = {}
    <2> SUFFICES ASSUME T # {} PROVE FALSE
      OBVIOUS
    <2>1. PICK m \in T : \A k \in T : m <= k
      <3>1. T \subseteq Nat
        OBVIOUS
      <3> HIDE DEF T
      <3> QED BY <3>1, LeastNumber
    <2>2. m # 1
      BY <1>2, <2>1, KeepsSelf
    <2>3. PICK k \in 1 .. n : m = k + 1
      <3>1. m - 1 \in 1 .. n /\ m = (m - 1) + 1
        BY <1>3, <2>1, <2>2
      <3> QED BY <3>1
    <2>4. k \notin T
      BY <1>3, <2>1, <2>3
    <2>5. KeepsVersions(d, plan[k])
      BY <1>3, <2>4
    <2>6. KeepsVersions(d, plan[k + 1])
      BY <1>7, <2>5, KeepsTwice
    <2> QED BY <2>1, <2>3, <2>6
  <1>9. \A i \in 1 .. n + 1 : KeepsVersions(d, plan[i])
    BY <1>8
  <1>10. ASSUME NEW i \in 1 .. n
        PROVE  Performs(plan[i], queue[i], plan[i + 1], F)
    <2> DEFINE a == plan[i]
               b == plan[i + 1]
               h == Half(a, queue[i])
    <2>1. KeepsVersions(d, a) /\ KeepsVersions(d, b)
      <3>1. i \in 1 .. n + 1 /\ i + 1 \in 1 .. n + 1
        BY <1>3
      <3> QED BY <1>9, <3>1
    <2>2. queue[i].op = "write" => KeepsVersions(d, h)
      BY <1>7, <2>1, KeepsTwice
    <2>3. Performs(a, queue[i], b, edges)
      BY <1>4
    <2>4. h = Half(a, queue[i])
      OBVIOUS
    <2> HIDE DEF a, b, h
    <2>5. /\ <<a, b>> \in edges => <<a, b>> \in F
          /\ queue[i].op = "write" /\ <<a, h>> \in edges => <<a, h>> \in F
          /\ queue[i].op = "write" /\ <<h, b>> \in edges => <<h, b>> \in F
      BY <2>1, <2>2
    <2> HIDE DEF F
    <2>6. Performs(a, queue[i], b, F)
      BY <2>3, <2>4, <2>5 DEF Performs
    <2> QED BY <2>6 DEF a, b
  <1> HIDE DEF F, T
  <1>11. Through(plan, queue, F)
    BY <1>3, <1>10 DEF Through
  <1>12. Leads(d, queue, e, F)
    BY <1>1, <1>2, <1>11 DEF Leads
  <1>13. KeepsVersions(d, e)
    BY <1>2, <1>3, <1>9
  <1> QED BY <1>12, <1>13 DEF F

LEMMA LeadsPairs ==
  ASSUME NEW d, NEW queue, NEW e, NEW edges, NEW more, Leads(d, queue, e, edges),
         \A a, b : <<a, b>> \in edges => <<a, b>> \in more
  PROVE  Leads(d, queue, e, more)
  <1>1. PICK plan : plan[1] = d /\ plan[Len(queue) + 1] = e /\ Through(plan, queue, edges)
    BY DEF Leads
  <1>2. Through(plan, queue, more)
    BY <1>1 DEF Through, Performs
  <1> QED BY <1>1, <1>2 DEF Leads

LEMMA SparedSpares ==
  ASSUME NEW queue, NEW kinds, Spared(queue, kinds)
  PROVE  Spares(queue, kinds)
  <1>1. PICK paths, removed : Within(queue, paths, removed) /\ \A q \in paths : q[1] \notin kinds
    BY DEF Spared
  <1>2. \A i \in 1 .. Len(queue) : queue[i].path \in paths
    BY <1>1 DEF Within, PathsOf
  <1> QED BY <1>1, <1>2 DEF Spares

LEMMA AgreeSelf ==
  ASSUME NEW d, NEW kinds
  PROVE  Agree(d, d, kinds)
  BY DEF Agree

(* A queue of the registry goes over disks that keep the versions, and the *)
(* kinds of files it has no operation on.                                  *)
LEMMA SafeGoes ==
  ASSUME NEW d, NEW queue, NEW e, NEW j, NEW ev, NEW P, NEW n \in Nat, NEW kinds,
         Safe(d, queue, e, j, ev, P), Registered(e, ev, P, n), Spared(queue, kinds)
  PROVE  \E disks : /\ Goes(d, queue, e, disks)
                    /\ \A x \in disks : Agree(d, x, kinds) /\ KeepsVersions(d, x)
  <1>1. PICK edges : /\ Leads(d, queue, e, edges)
                     /\ \A p \in edges : RegistryEdge(p[1], p[2], j, ev, P)
    BY DEF Safe
  <1>2. Spares(queue, kinds)
    BY SparedSpares
  <1> DEFINE F == {p \in edges : Agree(d, p[1], kinds) /\ Agree(d, p[2], kinds)}
             G == {p \in F : KeepsVersions(d, p[1]) /\ KeepsVersions(d, p[2])}
             disks == {d, e} \cup {p[1] : p \in G} \cup {p[2] : p \in G}
  <1>3. Agree(d, e, kinds) /\ Leads(d, queue, e, F)
    BY <1>1, <1>2, LeadsKeeps
  <1>4. \A p \in F : RegistryEdge(p[1], p[2], j, ev, P)
    BY <1>1
  <1>5. IsRegistry(e, ev, P)
    BY DEF IsRegistry
  <1>6. \A p \in F : Agree(d, p[1], kinds) /\ Agree(d, p[2], kinds)
    OBVIOUS
  <1> HIDE DEF F
  <1>7. KeepsVersions(d, e) /\ Leads(d, queue, e, G)
    BY <1>3, <1>4, <1>5, LeadsKeepsVersions
  <1>8. \A p \in G : /\ Agree(d, p[1], kinds) /\ Agree(d, p[2], kinds)
                     /\ KeepsVersions(d, p[1]) /\ KeepsVersions(d, p[2])
    BY <1>6
  <1> HIDE DEF G
  <1>9. \A x \in disks : Agree(d, x, kinds) /\ KeepsVersions(d, x)
    BY <1>3, <1>7, <1>8, AgreeSelf, KeepsSelf
  <1>10. \A a, b : <<a, b>> \in G => <<a, b>> \in disks \X disks
    <2> TAKE a, b
    <2> HAVE <<a, b>> \in G
    <2> DEFINE p == <<a, b>>
    <2>1. p \in G /\ p[1] = a /\ p[2] = b
      OBVIOUS
    <2>2. p[1] \in disks /\ p[2] \in disks
      <3> HIDE DEF p
      <3> QED BY <2>1
    <2> QED BY <2>1, <2>2
  <1>11. d \in disks /\ e \in disks
    OBVIOUS
  <1> HIDE DEF disks
  <1>12. Leads(d, queue, e, disks \X disks)
    BY <1>7, <1>10, LeadsPairs
  <1> QED BY <1>9, <1>11, <1>12 DEF Goes

-----------------------------------------------------------------------------
(* The base of the semantic patch.                                         *)
SemanticId == "semantic_patch_v1"
SemanticIn(d, v) == v \in ListedIn(d) /\ d[MetadataFile(v)].patch = SemanticId
BaseIn(d) ==
  IF SemanticIn(d, d[LatestFile]) THEN d[MetadataFile(d[LatestFile])].parent ELSE d[LatestFile]

LEMMA BaseIs ==
  /\ \A v : IsSemantic(v) <=> SemanticIn(disk, v)
  /\ BaseVersion = BaseIn(disk)
  <1>1. SemanticPatch.id = SemanticId
    BY DEF SemanticPatch, Semantic, SemanticId
  <1>2. \A v : IsSemantic(v) <=> SemanticIn(disk, v)
    BY <1>1 DEF IsSemantic, SemanticIn, Listed, ListedIn, PatchOf
  <1>3. BaseVersion = BaseIn(disk)
    BY <1>2 DEF BaseVersion, BaseIn, Latest
  <1> QED BY <1>2, <1>3

LEMMA SemanticHas ==
  ASSUME NEW plan
  PROVE  /\ Semantic(plan).id = SemanticId /\ Semantic(plan).plan = plan
         /\ SemanticId \in STRING /\ SemanticId # NoPatch
  BY ExperimentAssumption DEF Semantic, SemanticId

(* What programs are made of.                                              *)
Instr == Bases \cup Patches \cup {Semantic(plan) : plan \in Plans}

LEMMA SemanticInstructions ==
  /\ Instructions(Instr)
  /\ \A plan \in Plans : Semantic(plan) \in Instr
  BY ExperimentAssumption DEF Instructions, Instr

(* A semantic version has a parent, on which its patch was evaluated.      *)
LEMMA SemanticParent ==
  ASSUME NEW d, NEW ev, NEW P, NEW n \in Nat, Registered(d, ev, P, n), NEW v \in 1 .. n,
         d[MetadataFile(v)].patch # NoPatch
  PROVE  /\ d[MetadataFile(v)].parent \in 1 .. n
         /\ \E patch : /\ <<d[MetadataFile(v)].parent, patch>> \in ev
                       /\ patch.id = d[MetadataFile(v)].patch
  <1>1. VersionOk(d, ev, P, v)
    BY DEF Registered, RegistryOk
  <1>2. ~IsBaseline(d[MetadataFile(v)], d[ProgramFile(v)])
    BY DEF IsBaseline, Baseline, Metadata
  <1>3. PICK parent \in 1 .. v : \E patch :
          /\ <<parent, patch>> \in ev
          /\ d[MetadataFile(v)] = Metadata(parent, patch.id)
    BY <1>1, <1>2 DEF VersionOk, IsPatched
  <1>4. PICK patch : <<parent, patch>> \in ev /\ d[MetadataFile(v)] = Metadata(parent, patch.id)
    BY <1>3
  <1>5. d[MetadataFile(v)].parent = parent /\ d[MetadataFile(v)].patch = patch.id
    BY <1>4 DEF Metadata
  <1>6. parent \in 1 .. n
    OBVIOUS
  <1> QED BY <1>4, <1>5, <1>6

LEMMA BaseExists ==
  ASSUME NEW d, NEW ev, NEW P, Instructions(P), NEW n \in Nat, Registered(d, ev, P, n),
         ReadableIn(d, LatestFile)
  PROVE  /\ d[LatestFile] \in 1 .. n
         /\ BaseIn(d) \in 1 .. n
         /\ d[ProgramFile(BaseIn(d))] \in Seq(P)
         /\ ReadableIn(d, ProgramFile(BaseIn(d)))
  <1>1. d[LatestFile] \in 1 .. n
    BY DEF Registered, RegistryOk
  <1>2. BaseIn(d) \in 1 .. n
    <2>1. CASE SemanticIn(d, d[LatestFile])
      <3>1. d[MetadataFile(d[LatestFile])].patch # NoPatch
        BY <2>1, SemanticHas DEF SemanticIn
      <3> QED BY <1>1, <2>1, <3>1, SemanticParent DEF BaseIn
    <2>2. CASE ~SemanticIn(d, d[LatestFile])
      BY <1>1, <2>2 DEF BaseIn
    <2> QED BY <2>1, <2>2
  <1>3. VersionOk(d, ev, P, BaseIn(d))
    BY <1>2 DEF Registered, RegistryOk
  <1> QED BY <1>1, <1>2, <1>3 DEF VersionOk, Instructions, ReadableIn

-----------------------------------------------------------------------------
(* What an experiment writes in the registry.                              *)
StandsOn(d, program) ==
  /\ ReadableIn(d, LatestFile)
  /\ ReadableIn(d, ProgramFile(d[LatestFile]))
  /\ d[ProgramFile(d[LatestFile])] = program

Wrote(d, queue, e, j, ev, P) ==
  Safe(d, queue, e, j, ev, P) /\ \E n \in Nat : Registered(e, ev, P, n)

LEMMA LatestStands ==
  ASSUME NEW e, NEW ev, NEW P, Instructions(P), NEW n \in Nat, Registered(e, ev, P, n),
         NEW v \in 1 .. n, IsLatest(e, v), NEW program, e[ProgramFile(v)] = program
  PROVE  StandsOn(e, program)
  <1>1. VersionOk(e, ev, P, v)
    BY DEF Registered, RegistryOk
  <1>2. v # Torn
    BY ExperimentAssumption
  <1>3. ReadableIn(e, ProgramFile(v))
    BY <1>1 DEF VersionOk, Instructions, ReadableIn
  <1> QED BY <1>2, <1>3 DEF StandsOn, IsLatest, ReadableIn

LEMMA LeastOf ==
  ASSUME NEW T, T \subseteq Nat, T # {}
  PROVE  Min(T) \in T
  <1>1. \E m \in T : \A k \in T : m <= k
    BY LeastNumber
  <1> QED BY <1>1 DEF Min

(* ensure_workflow_initialized.                                            *)
LEMMA EnsureWritten ==
  ASSUME NEW P, Instructions(P), NEW n \in Nat, Registered(disk, evaluated, P, n),
         EnsureWorkflow, job.config.base \in Bases \cup {NoProgram}, NEW j, j.at \notin Asking
  PROVE  \E e : /\ Wrote(disk, todo', e, j, evaluated, P)
                /\ job.fresh /\ job.config.base # NoProgram => StandsOn(e, Configured)
  <1> DEFINE base == job.config.base
             program == <<base>>
  <1>0. todo = <<>> /\ AskedOk(disk, j)
    BY DEF EnsureWorkflow, At, AskedOk
  <1>1. CASE todo' = <<>> /\ ~(job.fresh /\ base # NoProgram)
    <2>1. Safe(disk, todo', disk, j, evaluated, P)
      BY <1>1, SafeNowhere
    <2> QED BY <1>1, <2>1 DEF Wrote
  <1>2. CASE base # NoProgram /\ ~Exists(WorkflowDir)
    <2>1. todo' = InitWorkflow(program) /\ Configured = program
      BY <1>2 DEF EnsureWorkflow, Configured
    <2>2. base \in Bases /\ WorkflowDir \notin DOMAIN disk
      BY <1>2 DEF Exists
    <2>3. PICK e : /\ Safe(disk, InitWorkflow(program), e, j, evaluated, P)
                   /\ Registered(e, evaluated, P, 1)
                   /\ IsLatest(e, 1) /\ e[ProgramFile(1)] = program
      <3> DEFINE Written(b) ==
                   \E e : /\ Safe(disk, InitWorkflow(<<b>>), e, j, evaluated, P)
                          /\ Registered(e, evaluated, P, 1)
                          /\ IsFirst(e, b)
      <3>1. ASSUME NEW b \in Bases
            PROVE  Written(b)
        BY <2>2, InitWritten
      <3>2. Written(base)
        <4> HIDE DEF Written
        <4> QED BY <2>2, <3>1
      <3> QED BY <3>2 DEF IsFirst
    <2>4. 1 \in Nat /\ 1 \in 1 .. 1
      OBVIOUS
    <2>5. StandsOn(e, program)
      BY <2>3, <2>4, LatestStands
    <2> QED BY <2>1, <2>3, <2>4, <2>5 DEF Wrote
  <1>3. CASE base # NoProgram /\ Exists(WorkflowDir) /\ job.fresh
    <2>1. CanCompare(program) /\ todo' = EnsureConfiguredBaseline(program) /\ Configured = program
      BY <1>3 DEF EnsureWorkflow, Configured
    <2>2. base \in Bases /\ WorkflowDir \in DOMAIN disk
      BY <1>3 DEF Exists
    <2>3. NextVersion = n + 1 /\ Listed = 1 .. n
      BY <2>1, NextNumber DEF CanCompare
    <2>4. CASE Matching(program) # {}
      <3> DEFINE v == Min(Matching(program))
      <3>1. Matching(program) \subseteq 1 .. n /\ Matching(program) \subseteq Nat
        BY <2>3 DEF Matching, Unpatched
      <3>2. v \in Matching(program)
        BY <2>4, <3>1, LeastOf
      <3>3. v \in 1 .. n /\ disk[MetadataFile(v)].patch = NoPatch /\ disk[ProgramFile(v)] = program
        BY <3>1, <3>2 DEF Matching, Unpatched, PatchOf
      <3>4. todo' = SetLatest(v)
        BY <2>1, <2>4 DEF EnsureConfiguredBaseline
      <3> HIDE DEF v, program
      <3>5. PICK e : /\ Safe(disk, SetLatest(v), e, j, evaluated, P)
                     /\ Registered(e, evaluated, P, n) /\ Onward(disk, e, n)
                     /\ IsLatest(e, v)
        BY <1>0, <2>2, <3>3, LatestWritten
      <3>6. e[ProgramFile(v)] = program
        BY <3>3, <3>5 DEF Onward, SameVersions
      <3>7. StandsOn(e, program)
        BY <3>3, <3>5, <3>6, LatestStands
      <3> QED BY <2>1, <3>4, <3>5, <3>7 DEF Wrote
    <2>5. CASE Matching(program) = {}
      <3>1. PICK m : m = n + 1
        OBVIOUS
      <3>2. todo' = WriteVersion(m, program, Baseline) \o SetLatest(m)
        BY <2>1, <2>3, <2>5, <3>1 DEF EnsureConfiguredBaseline, InstallVersion
      <3>3. IsBaseline(Baseline, program)
        BY <2>2 DEF IsBaseline
      <3>4. program \in Seq(P) /\ Baseline # Torn
        <4>1. base \in P
          BY <2>2 DEF Instructions
        <4>2. NoPatch \in STRING /\ 0 \in Nat
          BY RegistryAssumption
        <4> QED BY <4>1, <4>2, MetadataWhole
      <3> HIDE DEF program
      <3>5. IsNew(disk, evaluated, Baseline, program, m)
        BY <3>3 DEF IsNew
      <3> DEFINE Written(p, md) ==
                   \E e : /\ Safe(disk, WriteVersion(m, p, md) \o SetLatest(m), e, j, evaluated, P)
                          /\ Registered(e, evaluated, P, m) /\ Onward(disk, e, n) /\ AskedOk(e, j)
                          /\ IsLatest(e, m)
                          /\ e[ProgramFile(m)] = p /\ e[MetadataFile(m)] = md
      <3>6. ASSUME NEW p \in Seq(P), NEW md, md # Torn, IsNew(disk, evaluated, md, p, m)
            PROVE  Written(p, md)
        BY <1>0, <2>2, <3>1, <3>6, VersionWritten
      <3>7. Written(program, Baseline)
        <4> HIDE DEF Written
        <4> QED BY <3>4, <3>5, <3>6
      <3>8. PICK e : /\ Safe(disk, WriteVersion(m, program, Baseline) \o SetLatest(m), e, j, evaluated, P)
                     /\ Registered(e, evaluated, P, m)
                     /\ IsLatest(e, m) /\ e[ProgramFile(m)] = program
        BY <3>7
      <3>9. m \in Nat /\ m \in 1 .. m
        BY <3>1
      <3>10. StandsOn(e, program)
        BY <3>8, <3>9, LatestStands
      <3> QED BY <2>1, <3>2, <3>8, <3>9, <3>10 DEF Wrote
    <2> QED BY <2>4, <2>5
  <1> QED BY <1>0, <1>1, <1>2, <1>3 DEF EnsureWorkflow

-----------------------------------------------------------------------------
(* The installation of the semantic patch.                                 *)
Recorded2(patch, base) == Record("proposed", patch, base) \o Record("validated", patch, base)

LEMMA RecordedTwice ==
  ASSUME NEW d, NEW ev, NEW P, NEW n \in Nat, Registered(d, ev, P, n), NEW j, j.at \notin Asking,
         NEW patch, NEW base
  PROVE  \E f : /\ Safe(d, Recorded2(patch, base), f, j, ev, P)
                /\ Registered(f, ev, P, n) /\ Onward(d, f, n)
                /\ RecordFile("proposed", patch) \in DOMAIN f
                /\ RecordFile("validated", patch) \in DOMAIN f
  <1> DEFINE a == Record("proposed", patch, base)
             b == Record("validated", patch, base)
  <1>1. AskedOk(d, j)
    BY DEF AskedOk
  <1>2. PICK e : /\ Safe(d, a, e, j, ev, P)
                 /\ Registered(e, ev, P, n) /\ Onward(d, e, n) /\ AskedOk(e, j)
                 /\ RecordFile("proposed", patch) \in DOMAIN e
    BY <1>1, RecordWritten
  <1>3. PICK f : /\ Safe(e, b, f, j, ev, P)
                 /\ Registered(f, ev, P, n) /\ Onward(e, f, n)
                 /\ RecordFile("validated", patch) \in DOMAIN f
    BY <1>2, RecordWritten
  <1>4. Onward(d, f, n) /\ RecordFile("proposed", patch) \in DOMAIN f
    BY <1>2, <1>3, OnwardTwice DEF Onward
  <1> HIDE DEF a, b
  <1>5. Safe(d, a \o b, f, j, ev, P)
    BY <1>2, <1>3, SafeOn
  <1> QED BY <1>3, <1>4, <1>5 DEF Recorded2, a, b

Installation(patch, base, install, version) ==
  (Recorded2(patch, base) \o install) \o Record("installed", patch, version)

(* The version is there, or is made.                                       *)
IsThere(d, n, program, patch, version) ==
  /\ version \in 1 .. n
  /\ d[MetadataFile(version)].patch = patch.id
  /\ d[ProgramFile(version)] = program
Supplies(d, n, program, base, patch, install, version) ==
  \/ install = <<>> /\ IsThere(d, n, program, patch, version)
  \/ version = n + 1 /\ install = PatchVersion(version, program, base, patch)

IsHeld(e, m, version, program) == version \in 1 .. m /\ e[ProgramFile(version)] = program

HoldsAt(d, m, version, program, patch) ==
  RecordOk(d, m, [patch |-> patch, target |-> version]) /\ d[ProgramFile(version)] = program

LEMMA HeldAt ==
  ASSUME NEW d, NEW n, NEW patch, RecordFile("proposed", patch) \in DOMAIN d,
         RecordFile("validated", patch) \in DOMAIN d, NEW version \in 1 .. n,
         d[MetadataFile(version)].patch = patch.id, NEW program, d[ProgramFile(version)] = program,
         program[Len(program)] = patch
  PROVE  HoldsAt(d, n, version, program, patch)
  <1> DEFINE r == [patch |-> patch, target |-> version]
  <1>1. r.patch = patch /\ r.target = version
    OBVIOUS
  <1> HIDE DEF r
  <1>2. RecordOk(d, n, r)
    BY <1>1 DEF RecordOk
  <1> QED BY <1>2 DEF HoldsAt, r

LEMMA HeldIs ==
  ASSUME NEW d, NEW n, NEW version, NEW program, NEW patch, HoldsAt(d, n, version, program, patch)
  PROVE  version \in 1 .. n /\ d[ProgramFile(version)] = program
  <1> DEFINE r == [patch |-> patch, target |-> version]
  <1>1. r.target = version
    OBVIOUS
  <1>2. RecordOk(d, n, r) /\ d[ProgramFile(version)] = program
    BY DEF HoldsAt
  <1> HIDE DEF r
  <1> QED BY <1>1, <1>2 DEF RecordOk

LEMMA InstallationWritten ==
  ASSUME NEW d, NEW ev, NEW P, NEW n \in Nat, Registered(d, ev, P, n), NEW j, j.at \notin Asking,
         NEW patch \in P, patch.id \in STRING, NEW base \in 1 .. n, <<base, patch>> \in ev,
         NEW program, program = Append(d[ProgramFile(base)], patch),
         NEW install, NEW version, Supplies(d, n, program, base, patch, install, version)
  PROVE  \E e : \E m \in Nat : /\ Safe(d, Installation(patch, base, install, version), e, j, ev, P)
                               /\ Registered(e, ev, P, m) /\ IsHeld(e, m, version, program)
  <1>1. PICK f : /\ Safe(d, Recorded2(patch, base), f, j, ev, P)
                 /\ Registered(f, ev, P, n) /\ Onward(d, f, n)
                 /\ RecordFile("proposed", patch) \in DOMAIN f
                 /\ RecordFile("validated", patch) \in DOMAIN f
    BY RecordedTwice
  <1>2. program = Append(f[ProgramFile(base)], patch) /\ AskedOk(f, j)
    BY <1>1 DEF Onward, SameVersions, AskedOk
  <1> DEFINE Leaves(g, m) == /\ Safe(f, install, g, j, ev, P) /\ Registered(g, ev, P, m)
                             /\ HoldsAt(g, m, version, program, patch)
  <1>3. \E m \in Nat : \E g : Leaves(g, m)
    <2>1. CASE install = <<>> /\ IsThere(d, n, program, patch, version)
      <3>1. Safe(f, install, f, j, ev, P)
        BY <2>1, SafeNowhere
      <3>2. HoldsAt(f, n, version, program, patch)
        <4>1. version \in 1 .. n /\ VersionOk(d, ev, P, base)
          BY <2>1 DEF IsThere, Registered, RegistryOk
        <4>2. program[Len(program)] = patch
          BY <4>1 DEF VersionOk
        <4>3. f[MetadataFile(version)].patch = patch.id /\ f[ProgramFile(version)] = program
          BY <1>1, <2>1, <4>1 DEF IsThere, Onward, SameVersions
        <4> QED BY <1>1, <4>1, <4>2, <4>3, HeldAt
      <3>3. Leaves(f, n)
        BY <1>1, <3>1, <3>2
      <3> HIDE DEF Leaves
      <3> QED BY <3>3
    <2>2. CASE version = n + 1 /\ install = PatchVersion(version, program, base, patch)
      <3>1. PICK m : m = n + 1
        OBVIOUS
      <3>2. PICK g : /\ Safe(f, PatchVersion(m, program, base, patch), g, j, ev, P)
                     /\ Registered(g, ev, P, m) /\ HoldsPatch(g, m, program, patch)
        BY <1>1, <1>2, <3>1, PatchVersionWritten
      <3>3. HoldsAt(g, m, m, program, patch)
        BY <3>2 DEF HoldsPatch, HoldsAt
      <3>4. m \in Nat /\ version = m
        BY <2>2, <3>1
      <3>5. Safe(f, install, g, j, ev, P) /\ HoldsAt(g, m, version, program, patch)
        BY <2>2, <3>2, <3>3, <3>4
      <3>6. Leaves(g, m)
        BY <3>2, <3>5
      <3> HIDE DEF Leaves
      <3> QED BY <3>4, <3>6
    <2> HIDE DEF Leaves
    <2> QED BY <2>1, <2>2 DEF Supplies
  <1>3a. PICK m \in Nat : \E g : Leaves(g, m)
    BY <1>3
  <1>3b. PICK g : Leaves(g, m)
    BY <1>3a
  <1>4. AskedOk(g, j)
    BY DEF AskedOk
  <1>5. PICK e : /\ Safe(g, Record("installed", patch, version), e, j, ev, P)
                 /\ Registered(e, ev, P, m) /\ Onward(g, e, m)
    BY <1>3b, <1>4, InstalledWritten DEF HoldsAt
  <1>6. IsHeld(e, m, version, program)
    BY <1>3b, <1>5, HeldIs DEF Onward, SameVersions, IsHeld
  <1> DEFINE a == Recorded2(patch, base)
             b == Record("installed", patch, version)
  <1>7. Safe(d, a, f, j, ev, P) /\ Safe(g, b, e, j, ev, P)
    BY <1>1, <1>5
  <1> HIDE DEF a, b
  <1>8. Safe(d, a \o install, g, j, ev, P)
    BY <1>3b, <1>7, SafeOn
  <1> DEFINE c == a \o install
  <1>9. Safe(d, c, g, j, ev, P)
    BY <1>8
  <1> HIDE DEF c
  <1>10. Safe(d, c \o b, e, j, ev, P)
    BY <1>7, <1>9, SafeOn
  <1>11. Safe(d, Installation(patch, base, install, version), e, j, ev, P)
    BY <1>10 DEF Installation, a, b, c
  <1> QED BY <1>5, <1>6, <1>11
-----------------------------------------------------------------------------
(* What a plan file holds, and what a job has chosen: the base of its      *)
(* patch, which is still the one, or the program it starts from.           *)
ChoiceKinds == {"program", "metadata", "latest", "plan"}

PlansOk(d) == \A x : ReadableIn(d, PlanFile(x)) => d[PlanFile(x)] \in Plans

Chosen(d, j) ==
  /\ ReadableIn(d, PlanFile(j.exp)) /\ ReadableIn(d, LatestFile)
  /\ ReadableIn(d, MetadataFile(d[LatestFile])) /\ ReadableIn(d, ProgramFile(BaseIn(d)))
  /\ j.base = BaseIn(d)
  /\ j.program = Append(d[ProgramFile(j.base)], Semantic(d[PlanFile(j.exp)]))

WillPatch(left) == \E i \in DOMAIN left : left[i] = "patch_validation"
Starts(d, j) ==
  j.at = "phase" /\ j.fresh /\ j.config.base # NoProgram /\ WillPatch(j.left)
    => StandsOn(d, <<j.config.base>>)

KnowsBase(d, j, ev) ==
  IsJob(j) =>
    /\ j.at \in {"gate", "install_semantic"} => Chosen(d, j)
    /\ j.at = "install_semantic" => <<j.base, Semantic(d[PlanFile(j.exp)])>> \in ev
    /\ PhasesOnce => Starts(d, j)

ChoiceInv(d, queue, j, ev) ==
  \E e, disks : /\ Goes(d, queue, e, disks)
                /\ \A x \in disks : PlansOk(x)
                /\ KnowsBase(e, j, ev)

LEMMA AgreeReads ==
  ASSUME NEW d, NEW e, NEW kinds, Agree(d, e, kinds), NEW path, path[1] \in kinds
  PROVE  /\ ReadableIn(d, path) <=> ReadableIn(e, path)
         /\ path \in DOMAIN d <=> path \in DOMAIN e
         /\ path \in DOMAIN d => e[path] = d[path]
  BY DEF Agree, ReadableIn

LEMMA PlansElsewhere ==
  ASSUME NEW d, NEW e, NEW kinds, "plan" \in kinds, Agree(d, e, kinds), PlansOk(d)
  PROVE  PlansOk(e)
  <1> SUFFICES ASSUME NEW x, ReadableIn(e, PlanFile(x)) PROVE e[PlanFile(x)] \in Plans
    BY DEF PlansOk
  <1>1. PlanFile(x)[1] \in kinds
    BY ExperimentPaths
  <1> QED BY <1>1, AgreeReads DEF PlansOk, ReadableIn

LEMMA BaseElsewhere ==
  ASSUME NEW d, NEW e, Agree(d, e, ChoiceKinds), ReadableIn(d, LatestFile),
         ReadableIn(d, MetadataFile(d[LatestFile]))
  PROVE  BaseIn(e) = BaseIn(d)
  <1> DEFINE v == d[LatestFile]
  <1>1. LatestFile[1] \in ChoiceKinds /\ MetadataFile(v)[1] \in ChoiceKinds
    BY PathsApart DEF ChoiceKinds
  <1>2. e[LatestFile] = v /\ e[MetadataFile(v)] = d[MetadataFile(v)]
    BY <1>1, AgreeReads DEF ReadableIn
  <1>3. v \in ListedIn(d) <=> v \in ListedIn(e)
    BY DEF Agree, ListedIn, ChoiceKinds
  <1> QED BY <1>2, <1>3 DEF BaseIn, SemanticIn

LEMMA ChosenElsewhere ==
  ASSUME NEW d, NEW e, Agree(d, e, ChoiceKinds), NEW j, Chosen(d, j)
  PROVE  Chosen(e, j) /\ e[PlanFile(j.exp)] = d[PlanFile(j.exp)]
  <1> DEFINE v == d[LatestFile]
  <1>1. /\ LatestFile[1] \in ChoiceKinds /\ MetadataFile(v)[1] \in ChoiceKinds
        /\ ProgramFile(BaseIn(d))[1] \in ChoiceKinds /\ PlanFile(j.exp)[1] \in ChoiceKinds
    BY PathsApart, ExperimentPaths DEF ChoiceKinds
  <1>2. BaseIn(e) = BaseIn(d)
    BY BaseElsewhere DEF Chosen
  <1>3. /\ ReadableIn(e, LatestFile) /\ e[LatestFile] = v
        /\ ReadableIn(e, MetadataFile(v))
        /\ ReadableIn(e, ProgramFile(BaseIn(d)))
        /\ e[ProgramFile(BaseIn(d))] = d[ProgramFile(BaseIn(d))]
        /\ ReadableIn(e, PlanFile(j.exp)) /\ e[PlanFile(j.exp)] = d[PlanFile(j.exp)]
    BY <1>1, AgreeReads DEF Chosen, ReadableIn
  <1> QED BY <1>2, <1>3 DEF Chosen

LEMMA StandsElsewhere ==
  ASSUME NEW d, NEW e, NEW kinds, {"program", "latest"} \subseteq kinds, Agree(d, e, kinds),
         NEW program, StandsOn(d, program)
  PROVE  StandsOn(e, program)
  <1> DEFINE v == d[LatestFile]
  <1>1. LatestFile[1] \in kinds /\ ProgramFile(v)[1] \in kinds
    BY PathsApart
  <1> QED BY <1>1, AgreeReads DEF StandsOn, ReadableIn

LEMMA KnowsElsewhere ==
  ASSUME NEW d, NEW e, Agree(d, e, ChoiceKinds), NEW j, NEW ev, KnowsBase(d, j, ev)
  PROVE  KnowsBase(e, j, ev)
  <1> SUFFICES ASSUME IsJob(j) PROVE KnowsBase(e, j, ev)
    BY DEF KnowsBase
  <1>1. j.at \in {"gate", "install_semantic"} =>
          Chosen(e, j) /\ e[PlanFile(j.exp)] = d[PlanFile(j.exp)]
    BY ChosenElsewhere DEF KnowsBase
  <1>2. PhasesOnce => Starts(e, j)
    BY StandsElsewhere DEF KnowsBase, Starts, ChoiceKinds
  <1> QED BY <1>1, <1>2 DEF KnowsBase

LEMMA ChoiceSpared ==
  ASSUME NEW d, NEW queue, Spared(queue, ChoiceKinds), NEW j, NEW ev, PlansOk(d), KnowsBase(d, j, ev)
  PROVE  ChoiceInv(d, queue, j, ev)
  <1>1. PICK e, disks : Goes(d, queue, e, disks) /\ \A x \in disks : Agree(d, x, ChoiceKinds)
    BY SparedGoes
  <1>2. \A x \in disks : PlansOk(x)
    BY <1>1, PlansElsewhere DEF ChoiceKinds
  <1>3. KnowsBase(e, j, ev)
    BY <1>1, KnowsElsewhere DEF Goes
  <1> QED BY <1>1, <1>2, <1>3 DEF ChoiceInv

(* A job that needs to know nothing.                                       *)
LEMMA ChoiceFree ==
  ASSUME NEW d, NEW queue, Spared(queue, {"plan"}), NEW j, NEW ev, PlansOk(d),
         \A x : KnowsBase(x, j, ev)
  PROVE  ChoiceInv(d, queue, j, ev)
  <1>1. PICK e, disks : Goes(d, queue, e, disks) /\ \A x \in disks : Agree(d, x, {"plan"})
    BY SparedGoes
  <1>2. \A x \in disks : PlansOk(x)
    BY <1>1, PlansElsewhere
  <1> QED BY <1>1, <1>2 DEF ChoiceInv

LEMMA ChoiceDrained ==
  ASSUME NEW d, NEW queue, NEW j, NEW ev, ChoiceInv(d, queue, j, ev)
  PROVE  PlansOk(d) /\ (queue = <<>> => KnowsBase(d, j, ev))
  <1>1. PICK e, disks : /\ Goes(d, queue, e, disks)
                        /\ \A x \in disks : PlansOk(x)
                        /\ KnowsBase(e, j, ev)
    BY DEF ChoiceInv
  <1>2. d \in disks
    BY <1>1 DEF Goes
  <1>3. queue = <<>> => e = d
    BY <1>1, GoesDrained
  <1> QED BY <1>1, <1>2, <1>3
-----------------------------------------------------------------------------
(* The registry through the steps of experiments.                          *)
LEMMA ExpNotAsking ==
  /\ \A j : IsJob(j) => j.at \notin Asking
  /\ Idle.at \notin Asking
  BY AskingPlaces DEF IsJob, Idle, Asking

LEMMA LightRecording ==
  ASSUME NEW manifest
  PROVE  Light(MarkerThenManifest(manifest))
  <1> DEFINE a == Write(MarkerFile(job.exp, Phase), "completed")
             b == Write(ManifestFile(job.exp), manifest)
             p == <<a>>
             q == <<b>>
  <1>1. /\ MarkerFile(job.exp, Phase)[1] = "marker"
        /\ ManifestFile(job.exp)[1] = "manifest"
    BY ExperimentPaths
  <1>2. Light(p) /\ Light(q)
    BY <1>1, LightWrite DEF VersionKinds, IsInstalledRecord
  <1>3. MarkerThenManifest(manifest) = p \o q
    BY JoinTwo DEF MarkerThenManifest
  <1> HIDE DEF p, q
  <1> QED BY <1>2, <1>3, LightJoin

CompletedAs(j, left, manifest) == [j EXCEPT !.at = "phase", !.left = left, !.manifest = manifest]

LEMMA JobCompletedAs ==
  ASSUME NEW j, HasFields(j), NEW left, NEW manifest
  PROVE  LET k == CompletedAs(j, left, manifest)
         IN Passed(j, k, left, manifest) /\ k.at = "phase"
  <1> DEFINE a == [j EXCEPT !.at = "phase"]
             b == [a EXCEPT !.left = left]
             m == [b EXCEPT !.manifest = manifest]
  <1>1. CompletedAs(j, left, manifest) = m
    BY DEF CompletedAs
  <1> HIDE DEF b, m
  <1>2. Moved(j, a, "phase")
    BY JobMoves
  <1> HIDE DEF a
  <1>3. Passed(a, b, left, a.manifest) /\ b.at = "phase"
    BY <1>2, JobPasses DEF Moved, b
  <1> HIDE DEF b
  <1>4. m = Job(b.at, b.exp, b.config, b.fresh, manifest, b.run, b.runs,
                b.done, b.left, b.base, b.program)
    BY <1>3, JobSet DEF Passed, m
  <1>5. Passed(j, m, left, manifest) /\ m.at = "phase"
    BY <1>2, <1>3, <1>4, JobIs DEF Passed, Moved, SameBook
  <1> QED BY <1>1, <1>5

LEMMA CompletedJob ==
  ASSUME IsJob(job), NEW ops, NEW runs, Complete(ops, runs)
  PROVE  \E manifest : /\ todo' = ops \o MarkerThenManifest(manifest)
                       /\ Passed(job, job', Tail(job.left), manifest) /\ job'.at = "phase"
                       /\ IsJob(job')
  <1> DEFINE more == Append(job.manifest.completed, Phase)
             all == job.manifest.runs \cup {<<Phase, run>> : run \in runs}
             manifest == [job.manifest EXCEPT !.completed = more, !.runs = all]
             left == Tail(job.left)
  <1>1. /\ todo' = ops \o MarkerThenManifest(manifest)
        /\ job' = CompletedAs(job, left, manifest)
    BY DEF Complete, CompletedAs
  <1>2. HasFields(job)
    BY DEF IsJob
  <1> HIDE DEF left, manifest
  <1>3. Passed(job, job', left, manifest) /\ job'.at = "phase"
    BY <1>1, <1>2, JobCompletedAs
  <1>4. IsJob(job')
    BY <1>3 DEF IsJob, ExpPlaces, Passed
  <1> QED BY <1>1, <1>3, <1>4 DEF left

LEMMA CompleteKeepsRegistry ==
  ASSUME NEW P, Registry(P), IsJob(job), Works, evaluated' = evaluated,
         NEW ops, Light(ops), NEW runs, Complete(ops, runs)
  PROVE  Registry(P)'
  <1>1. PICK manifest : /\ todo' = ops \o MarkerThenManifest(manifest)
                        /\ IsJob(job')
    BY CompletedJob
  <1> DEFINE recording == MarkerThenManifest(manifest)
  <1>2. Light(recording) /\ todo' = ops \o recording
    BY <1>1, LightRecording
  <1> HIDE DEF recording
  <1>3. Light(todo')
    BY <1>2, LightJoin
  <1>4. job'.at \notin Asking
    BY <1>1, ExpNotAsking
  <1> QED BY <1>3, <1>4, LightStep DEF Works

LEMMA WholeKeepsRegistry ==
  ASSUME NEW P, Book, Registry(P), WholePhase, evaluated' = evaluated
  PROVE  Registry(P)'
  <1>1. PICK ops : PhaseDone(ops)
    BY DEF WholePhase
  <1>2. Works /\ job.at = "phase" /\ disk' = disk /\ todo = <<>>
    BY DEF WholePhase, Works
  <1>3. IsJob(job)
    BY <1>2, BookTyped DEF ExpPlaces
  <1>4. Light(ops)
    BY <1>1, OwnedLight DEF PhaseDone
  <1>5. CASE Fail(ops)
    <2>1. todo' = ops /\ job'.at \notin Asking
      BY <1>5, ExpNotAsking DEF Fail
    <2> QED BY <1>2, <1>4, <2>1, LightStep
  <1>6. CASE \E runs : Complete(ops, runs)
    BY <1>2, <1>3, <1>4, <1>6, CompleteKeepsRegistry
  <1> QED BY <1>1, <1>5, <1>6 DEF PhaseDone

LEMMA PartKeepsRegistry ==
  ASSUME NEW P, Registry(P), PartPhase, evaluated \subseteq evaluated'
  PROVE  Registry(P)'
  <1>1. todo = <<>> /\ disk' = disk /\ Light(todo')
    BY OwnedLight DEF PartPhase, Works
  <1>2. job'.at \notin Asking
    BY ExpNotAsking DEF PartPhase, GoesOnAs
  <1> QED BY <1>1, <1>2, LightStep

LEMMA EnsureKeepsRegistry ==
  ASSUME NEW P, Instructions(P), Book, Registry(P), EnsureWorkflow
  PROVE  \E e : \E n \in Nat :
            /\ Safe(disk, todo', e, job', evaluated', P) /\ Registered(e, evaluated', P, n)
            /\ job.fresh /\ job.config.base # NoProgram => StandsOn(e, Configured)
  <1>1. /\ job.at = "workflow" /\ todo = <<>> /\ evaluated' = evaluated
        /\ job' = [job EXCEPT !.at = "phase"]
    BY DEF EnsureWorkflow, At
  <1>2. IsJob(job) /\ HasFields(job)
    BY <1>1, BookTyped DEF ExpPlaces, IsJob
  <1>3. Moved(job, job', "phase")
    BY <1>1, <1>2, JobMoves
  <1>4. job'.at \notin Asking
    BY <1>3, ExpNotAsking DEF Moved, IsJob, ExpPlaces
  <1>5. job.config.base \in Bases \cup {NoProgram}
    BY <1>1, <1>2, JobFacts
  <1>6. PICK n \in Nat : Registered(disk, evaluated, P, n)
    BY <1>1, FromRest
  <1> DEFINE j == job'
  <1>7. j.at \notin Asking
    BY <1>4
  <1> HIDE DEF j
  <1>8. PICK e : /\ Wrote(disk, todo', e, j, evaluated, P)
                 /\ job.fresh /\ job.config.base # NoProgram => StandsOn(e, Configured)
    BY <1>5, <1>6, <1>7, EnsureWritten
  <1> QED BY <1>1, <1>8 DEF Wrote, j

LEMMA EnsuredRegistry ==
  ASSUME NEW P, Instructions(P), Book, Registry(P), EnsureWorkflow
  PROVE  Registry(P)'
  <1>1. PICK e : \E n \in Nat :
            Safe(disk, todo', e, job', evaluated', P) /\ Registered(e, evaluated', P, n)
    BY EnsureKeepsRegistry
  <1>2. job'.at \notin Asking /\ disk' = disk
    <2>1. /\ job.at = "workflow" /\ todo = <<>> /\ job' = [job EXCEPT !.at = "phase"] /\ disk' = disk
      BY DEF EnsureWorkflow, At
    <2>2. IsJob(job) /\ HasFields(job)
      BY <2>1, BookTyped DEF ExpPlaces, IsJob
    <2>3. Moved(job, job', "phase")
      BY <2>1, <2>2, JobMoves
    <2> QED BY <2>1, <2>3, ExpNotAsking DEF Moved, IsJob, ExpPlaces
  <1>3. PICK n \in Nat : Safe(disk, todo', e, job', evaluated', P) /\ Registered(e, evaluated', P, n)
    BY <1>1
  <1>4. JobOk(e, job', evaluated', P, n)
    BY <1>2, IdleOk
  <1> QED BY <1>2, <1>3, <1>4, Underway
Choice == ChoiceInv(disk, todo, job, evaluated)

(* install_semantic_patch_if_gate_accepted installs what was evaluated.    *)
SplitRuns == {Run(SplitFiles[i]) : i \in DOMAIN SplitFiles}

Arrives(queue, e, k, m, version, program) ==
  /\ Safe(disk, queue, e, k, evaluated, Instr) /\ Registered(e, evaluated, Instr, m)
  /\ IsHeld(e, m, version, program)

Modest(queue) == \A kinds : kinds \cap RegistryKinds = {} => Spared(queue, kinds)

SemanticInstalled(install, version) ==
  /\ Modest(install)
  /\ Complete(Installation(SemanticPatch, BaseVersion, install, version)
                \o <<Write(PatchInstallFile(job.exp), version)>>,
              job.runs \cup SplitRuns)

LEMMA SemanticInstalls ==
  ASSUME Registry(Instr), Choice, IsJob(job), InstallSemantic, CanSelect,
         NEW k, k.at \notin Asking
  PROVE  \E install, version : /\ SemanticInstalled(install, version)
                               /\ \E e : \E m \in Nat :
                                    Arrives(Installation(SemanticPatch, BaseVersion, install, version),
                                            e, k, m, version, job.program)
  <1> DEFINE plan == disk[PlanFile(job.exp)]
             patch == Semantic(plan)
             base == job.base
             program == job.program
  <1>1. job.at = "install_semantic" /\ todo = <<>>
    BY DEF InstallSemantic, At
  <1>2. PICK n \in Nat : Registered(disk, evaluated, Instr, n)
    BY <1>1, FromRest
  <1>3. PlansOk(disk) /\ KnowsBase(disk, job, evaluated)
    BY <1>1, ChoiceDrained DEF Choice
  <1>4. /\ Chosen(disk, job) /\ <<base, patch>> \in evaluated /\ plan \in Plans
    BY <1>1, <1>3 DEF KnowsBase, Chosen, PlansOk
  <1>5. patch \in Instr /\ patch.id = SemanticId /\ SemanticId \in STRING /\ Instructions(Instr)
    BY <1>4, SemanticInstructions, SemanticHas
  <1>6. /\ base = BaseIn(disk) /\ ReadableIn(disk, LatestFile)
        /\ program = Append(disk[ProgramFile(base)], patch)
    BY <1>4 DEF Chosen
  <1>7. base \in 1 .. n /\ disk[LatestFile] \in 1 .. n
    BY <1>2, <1>5, <1>6, BaseExists
  <1>8. SemanticPatch = patch /\ BaseVersion = base
    BY <1>6, BaseIs DEF SemanticPatch
  <1>9. NextVersion = n + 1
    BY <1>2, NextNumber DEF CanSelect
  <1> DEFINE version == IF Reusable(program) THEN Latest ELSE NextVersion
             install == IF Reusable(program) THEN <<>> ELSE InstallVersion(program, PatchMetadata)
  <1>10. SemanticInstalled(install, version)
    <2>1. Append(disk[ProgramFile(BaseVersion)], SemanticPatch) = program
      BY <1>6, <1>8
    <2>2. Modest(install)
      BY RegistrySpares, SparedNone DEF Modest, InstallVersion
    <2> QED BY <2>1, <2>2 DEF InstallSemantic, SemanticInstalled, Installation, Recorded2, SplitRuns
  <1>11. Supplies(disk, n, program, base, patch, install, version)
    <2>1. CASE Reusable(program)
      <3>1. /\ disk[MetadataFile(Latest)].patch = patch.id
            /\ disk[ProgramFile(Latest)] = program
        BY <1>8, <2>1 DEF Reusable, IsSemantic, PatchOf
      <3>2. IsThere(disk, n, program, patch, Latest)
        BY <1>7, <3>1 DEF IsThere, Latest
      <3> QED BY <2>1, <3>2 DEF Supplies
    <2>2. CASE ~Reusable(program)
      <3>1. install = PatchVersion(NextVersion, program, base, patch)
        BY <1>8, <2>2 DEF InstallVersion, PatchVersion, PatchMetadata
      <3> QED BY <1>9, <2>2, <3>1 DEF Supplies
    <2> QED BY <2>1, <2>2
  <1> HIDE DEF plan, patch, base, program, version, install
  <1>12. PICK e : \E m \in Nat :
            /\ Safe(disk, Installation(patch, base, install, version), e, k, evaluated, Instr)
            /\ Registered(e, evaluated, Instr, m) /\ IsHeld(e, m, version, program)
    BY <1>2, <1>4, <1>5, <1>6, <1>7, <1>11, InstallationWritten
  <1>13. \E m \in Nat : Arrives(Installation(SemanticPatch, BaseVersion, install, version),
                                e, k, m, version, program)
    BY <1>8, <1>12 DEF Arrives
  <1> QED BY <1>10, <1>13 DEF program

LEMMA InstallKeepsRegistry ==
  ASSUME Book, Registry(Instr), Choice, InstallSemantic
  PROVE  Registry(Instr)'
  <1>1. /\ job.at = "install_semantic" /\ todo = <<>> /\ disk' = disk /\ evaluated' = evaluated
        /\ ~CanSelect => Fail(<<>>)
    BY DEF InstallSemantic, At, Unchanged
  <1>2. IsJob(job)
    BY <1>1, BookTyped DEF ExpPlaces
  <1>3. CASE ~CanSelect
    <2>1. todo' = <<>> /\ job'.at \notin Asking
      BY <1>1, <1>3, ExpNotAsking DEF Fail
    <2> QED BY <1>1, <2>1, LightNone, LightStep
  <1>4. CASE CanSelect
    <2> DEFINE k == job'
    <2>1. k.at \notin Asking
      <3>1. \E ops, runs : Complete(ops, runs)
        BY <1>4 DEF InstallSemantic
      <3>2. IsJob(job')
        BY <1>2, <3>1, CompletedJob
      <3> QED BY <3>2, ExpNotAsking
    <2> HIDE DEF k
    <2>2. PICK install, version : /\ SemanticInstalled(install, version)
                                  /\ \E e : \E m \in Nat :
                                       Arrives(Installation(SemanticPatch, BaseVersion, install, version),
                                               e, k, m, version, job.program)
      BY <1>2, <1>4, <2>1, SemanticInstalls
    <2> DEFINE a == Installation(SemanticPatch, BaseVersion, install, version)
               b == <<Write(PatchInstallFile(job.exp), version)>>
               runs == job.runs \cup SplitRuns
    <2>3. PICK e : \E m \in Nat : Safe(disk, a, e, k, evaluated, Instr) /\ Registered(e, evaluated, Instr, m)
      BY <2>2 DEF Arrives
    <2>4. PICK m \in Nat : Safe(disk, a, e, k, evaluated, Instr) /\ Registered(e, evaluated, Instr, m)
      BY <2>3
    <2>5. PatchInstallFile(job.exp)[1] = "patch_install"
      BY ExperimentPaths
    <2>6. Light(b)
      BY <2>5, LightWrite DEF VersionKinds, IsInstalledRecord
    <2>7. Complete(a \o b, runs)
      BY <2>2 DEF SemanticInstalled
    <2> HIDE DEF a, b, runs
    <2>8. PICK manifest : todo' = (a \o b) \o MarkerThenManifest(manifest)
      BY <1>2, <2>7, CompletedJob
    <2> DEFINE c == MarkerThenManifest(manifest)
    <2>9. Light(c) /\ todo' = (a \o b) \o c
      BY <2>8, LightRecording
    <2> HIDE DEF c
    <2>10. PICK f : Safe(e, b, f, k, evaluated, Instr) /\ Registered(f, evaluated, Instr, m)
      BY <2>1, <2>4, <2>6, LightSafe
    <2>11. PICK g : Safe(f, c, g, k, evaluated, Instr) /\ Registered(g, evaluated, Instr, m)
      BY <2>1, <2>9, <2>10, LightSafe
    <2>12. Safe(disk, a \o b, f, k, evaluated, Instr)
      BY <2>4, <2>10, SafeOn
    <2> DEFINE ab == a \o b
    <2>13. Safe(disk, ab, f, k, evaluated, Instr) /\ todo' = ab \o c
      BY <2>9, <2>12
    <2> HIDE DEF ab
    <2>14. Safe(disk, todo', g, k, evaluated, Instr)
      BY <2>11, <2>13, SafeOn
    <2>15. JobOk(g, k, evaluated, Instr, m)
      BY <2>1, IdleOk
    <2> QED BY <1>1, <2>11, <2>14, <2>15, Underway DEF k
  <1> QED BY <1>3, <1>4

-----------------------------------------------------------------------------
(* What is chosen, through the steps.                                      *)
NeedsNothing(k) == \A x, ev : KnowsBase(x, k, ev)

LEMMA NeedNothing ==
  /\ \A k : ~IsJob(k) => NeedsNothing(k)
  /\ \A k : k.at \in {"estimate", "workflow", "select"} => NeedsNothing(k)
  /\ \A k : k.at = "phase" /\ (PhasesOnce => ~WillPatch(k.left)) => NeedsNothing(k)
  BY DEF NeedsNothing, KnowsBase, Starts

LEMMA ChoiceLet ==
  ASSUME Choice, disk' = disk, Spared(todo', {"plan"}), NeedsNothing(job')
  PROVE  Choice'
  <1> DEFINE k == job'
             q == todo'
             ev == evaluated'
  <1>1. PlansOk(disk)
    BY ChoiceDrained DEF Choice
  <1>2. Spared(q, {"plan"}) /\ \A x : KnowsBase(x, k, ev)
    BY DEF NeedsNothing
  <1> HIDE DEF k, q, ev
  <1>3. ChoiceInv(disk, q, k, ev)
    BY <1>1, <1>2, ChoiceFree
  <1> QED BY <1>3 DEF Choice, k, q, ev

LEMMA ChoiceMoves ==
  ASSUME Choice, disk' = disk, Spared(todo', ChoiceKinds), KnowsBase(disk, job', evaluated')
  PROVE  Choice'
  <1> DEFINE k == job'
             q == todo'
             ev == evaluated'
  <1>1. PlansOk(disk)
    BY ChoiceDrained DEF Choice
  <1>2. Spared(q, ChoiceKinds) /\ KnowsBase(disk, k, ev)
    OBVIOUS
  <1> HIDE DEF k, q, ev
  <1>3. ChoiceInv(disk, q, k, ev)
    BY <1>1, <1>2, ChoiceSpared
  <1> QED BY <1>3 DEF Choice, k, q, ev

LEMMA OwnedNoPlan ==
  ASSUME NEW queue, NEW x, NEW ph, OwnedQueue(queue, x, ph), ph \notin {"optimize", "patch_validation"}
  PROVE  Spared(queue, ChoiceKinds)
  <1>1. PICK paths, removed : Within(queue, paths, removed) /\ \A q \in paths : Owned(q, x, ph)
    BY DEF OwnedQueue
  <1>2. \A q \in paths : q[1] \notin ChoiceKinds
    BY <1>1 DEF Owned, ChoiceKinds, VersionKinds
  <1> QED BY <1>1, <1>2 DEF Spared

LEMMA SparedRecording ==
  ASSUME NEW manifest, NEW kinds, "marker" \notin kinds, "manifest" \notin kinds
  PROVE  Spared(MarkerThenManifest(manifest), kinds)
  <1> DEFINE p == <<Write(MarkerFile(job.exp, Phase), "completed")>>
             q == <<Write(ManifestFile(job.exp), manifest)>>
  <1>1. /\ MarkerFile(job.exp, Phase)[1] = "marker"
        /\ ManifestFile(job.exp)[1] = "manifest"
    BY ExperimentPaths
  <1>2. Spared(p, kinds) /\ Spared(q, kinds)
    BY <1>1, SparedWrite
  <1>3. MarkerThenManifest(manifest) = p \o q
    BY JoinTwo DEF MarkerThenManifest
  <1> HIDE DEF p, q
  <1> QED BY <1>2, <1>3, SparedJoin

(* What is left of the phases.                                             *)
LEMMA LeftIsSeq ==
  ASSUME Book, todo = <<>>, IsJob(job)
  PROVE  job.left \in Seq(STRING)
  <1>1. PICK m, k : Position(job.config.phases, job.left, job.manifest.completed, job.done, m, k)
    BY JobFacts DEF Reaches
  <1>2. job.config.phases \in Seq(STRING)
    BY JobFacts
  <1> QED BY <1>1, <1>2 DEF Position

LEMMA WillPatchLess ==
  ASSUME NEW S, NEW left \in Seq(S), left # <<>>, WillPatch(Tail(left))
  PROVE  WillPatch(left)
  <1>1. PICK i \in DOMAIN Tail(left) : Tail(left)[i] = "patch_validation"
    BY DEF WillPatch
  <1>2. i + 1 \in DOMAIN left /\ left[i + 1] = "patch_validation"
    BY <1>1
  <1> QED BY <1>2 DEF WillPatch

LEMMA PatchesOnce ==
  ASSUME Book, todo = <<>>, IsJob(job), job.left # <<>>, Phase = "patch_validation", PhasesOnce
  PROVE  ~WillPatch(Tail(job.left))
  <1> DEFINE phases == job.config.phases
             left == job.left
  <1>1. PICK m, k : Position(phases, left, job.manifest.completed, job.done, m, k)
    BY JobFacts DEF Reaches
  <1>2. phases \in Seq(STRING) /\ Distinct(phases)
    BY JobFacts
  <1>3. PICK n : /\ m \in Nat /\ n = m + 1 /\ n \in 1 .. Len(phases) /\ Head(left) = phases[n]
                 /\ Tail(left) = SubSeq(phases, n + 1, Len(phases))
    BY <1>1, <1>2, PositionHead
  <1> SUFFICES ASSUME WillPatch(Tail(left)) PROVE FALSE
    OBVIOUS
  <1>4. PICK i \in DOMAIN Tail(left) : Tail(left)[i] = "patch_validation"
    BY DEF WillPatch
  <1>5. n + i \in 1 .. Len(phases) /\ n + i # n /\ phases[n + i] = "patch_validation"
    <2> DEFINE t == SubSeq(phases, n + 1, Len(phases))
    <2>1. PICK l \in Nat : l = Len(phases)
      BY <1>2
    <2>2. n \in Nat /\ n <= l
      BY <1>3, <2>1
    <2>3. DOMAIN t = 1 .. l - n /\ \A h \in 1 .. l - n : t[h] = phases[n + h]
      BY <1>2, <2>1, <2>2
    <2>4. i \in DOMAIN t /\ t[i] = "patch_validation"
      BY <1>3, <1>4
    <2> HIDE DEF t
    <2>5. i \in 1 .. l - n /\ phases[n + i] = "patch_validation"
      BY <2>3, <2>4
    <2> QED BY <2>1, <2>2, <2>5
  <1>6. phases[n] = "patch_validation" /\ n \in DOMAIN phases /\ n + i \in DOMAIN phases
    BY <1>2, <1>3, <1>5 DEF Phase
  <1> QED BY <1>2, <1>5, <1>6 DEF Distinct

(* A job that goes from one phase to a later one.                          *)
LEMMA LaterStarts ==
  ASSUME Book, todo = <<>>, IsJob(job), job.at = "phase", job.left # <<>>, NEW d, NEW ev, NEW more,
         KnowsBase(d, job, ev), NEW k, NEW manifest, Passed(job, k, Tail(job.left), manifest),
         k.at = "phase"
  PROVE  KnowsBase(d, k, more)
  <1>1. WillPatch(k.left) => WillPatch(job.left)
    BY LeftIsSeq, WillPatchLess DEF Passed
  <1>2. PhasesOnce => Starts(d, job)
    BY DEF KnowsBase
  <1>3. PhasesOnce => Starts(d, k)
    BY <1>1, <1>2 DEF Starts, Passed
  <1> QED BY <1>3 DEF KnowsBase

LEMMA JobAt ==
  ASSUME IsJob(job), NEW at \in ExpPlaces, NEW k, k = [job EXCEPT !.at = at]
  PROVE  IsJob(k) /\ Moved(job, k, at)
  <1>1. HasFields(job)
    BY DEF IsJob
  <1>2. Moved(job, k, at)
    BY <1>1, JobMoves
  <1> QED BY <1>2 DEF Moved, IsJob

LEMMA StartKeepsChoice ==
  ASSUME Choice, NEW x, NEW config, StartExperiment(x, config)
  PROVE  Choice'
  <1>1. disk' = disk /\ todo' = <<Write(LockFile(x), config)>>
    BY DEF StartExperiment
  <1>2. job'.at = "estimate"
    BY DEF StartExperiment
  <1>3. LockFile(x)[1] = "lock"
    BY ExperimentPaths
  <1>4. Spared(<<Write(LockFile(x), config)>>, {"plan"})
    BY <1>3, SparedWrite
  <1>5. NeedsNothing(job')
    BY <1>2, NeedNothing
  <1> QED BY <1>1, <1>4, <1>5, ChoiceLet

LEMMA EstimateKeepsChoice ==
  ASSUME Book, Choice, NEW goesOn, Estimate(goesOn)
  PROVE  Choice'
  <1>1. /\ job.at = "estimate" /\ todo' = <<>> /\ disk' = disk
        /\ job' = IF goesOn THEN [job EXCEPT !.at = "workflow"] ELSE Idle
    BY DEF Estimate, At
  <1>2. IsJob(job)
    BY <1>1, BookTyped DEF ExpPlaces
  <1>3. NeedsNothing(job')
    <2>1. CASE goesOn
      <3>1. job' = [job EXCEPT !.at = "workflow"] /\ "workflow" \in ExpPlaces
        BY <1>1, <2>1 DEF ExpPlaces
      <3>2. Moved(job, job', "workflow")
        BY <1>2, <3>1, JobAt
      <3> QED BY <3>2, NeedNothing DEF Moved
    <2>2. CASE ~goesOn
      <3>1. ~IsJob(job')
        BY <1>1, <2>2, OtherJobs, NoBook
      <3> QED BY <3>1, NeedNothing
    <2> QED BY <2>1, <2>2
  <1> QED BY <1>1, <1>3, SparedNone, ChoiceLet

LEMMA IdleNeedsNothing == NeedsNothing(Idle)
  <1>1. ~IsJob(Idle)
    BY OtherJobs, NoBook
  <1> QED BY <1>1, NeedNothing

LEMMA PassKeepsChoice ==
  ASSUME Book, Choice, PassCompleted
  PROVE  Choice'
  <1>1. /\ job.at = "phase" /\ todo = <<>> /\ todo' = <<>> /\ disk' = disk /\ job.left # <<>>
        /\ job' = [job EXCEPT !.left = Tail(@)]
    BY DEF PassCompleted, At
  <1>2. IsJob(job) /\ HasFields(job)
    BY <1>1, BookTyped DEF ExpPlaces, IsJob
  <1> DEFINE left == Tail(job.left)
             k == job'
  <1>3. k = [job EXCEPT !.left = left]
    BY <1>1
  <1> HIDE DEF left, k
  <1>4. Passed(job, k, left, job.manifest) /\ k.at = "phase"
    BY <1>1, <1>2, <1>3, JobPasses
  <1>5. KnowsBase(disk, job, evaluated)
    BY <1>1, ChoiceDrained DEF Choice
  <1>6. KnowsBase(disk, k, evaluated')
    BY <1>1, <1>2, <1>4, <1>5, LaterStarts DEF left
  <1> QED BY <1>1, <1>6, SparedNone, ChoiceMoves DEF k

LEMMA SkipKeepsChoice ==
  ASSUME Book, Choice, SkipPhase
  PROVE  Choice'
  <1> DEFINE ph == Phase
             skipped == job.manifest.skipped \cup {ph}
             manifest == [job.manifest EXCEPT !.skipped = skipped]
             left == Tail(job.left)
  <1>1. /\ todo = <<>> /\ job.left # <<>> /\ disk' = disk /\ job.at = "phase"
    BY DEF SkipPhase, At, Unchanged
  <1>2. /\ todo' = IF ph \in job.manifest.skipped THEN <<>>
                   ELSE Recording(job.exp, ph, "skipped", manifest)
        /\ job' = [job EXCEPT !.left = left, !.manifest = manifest]
    BY DEF SkipPhase, Recording
  <1>3. IsJob(job)
    BY <1>1, BookTyped DEF ExpPlaces
  <1> HIDE DEF manifest, left, ph
  <1>4. Passed(job, job', left, manifest) /\ job'.at = job.at
    <2>1. job' = [job EXCEPT !.left = left, !.manifest = manifest]
      BY <1>2
    <2>2. HasFields(job)
      BY <1>3 DEF IsJob
    <2>3. Skips(job, job', left, manifest)
      BY <2>1, <2>2, JobSkips, Zenon
    <2> QED BY <2>3 DEF Skips
  <1>5. KnowsBase(disk, job, evaluated)
    BY <1>1, ChoiceDrained DEF Choice
  <1> DEFINE k == job'
  <1>6. Passed(job, k, left, manifest) /\ k.at = "phase"
    BY <1>1, <1>4
  <1> HIDE DEF k
  <1>7. KnowsBase(disk, k, evaluated')
    BY <1>1, <1>3, <1>5, <1>6, LaterStarts DEF left
  <1>8. Spared(Recording(job.exp, ph, "skipped", manifest), ChoiceKinds)
    <2> DEFINE p == <<Write(MarkerFile(job.exp, ph), "skipped")>>
               q == <<Write(ManifestFile(job.exp), manifest)>>
    <2>1. MarkerFile(job.exp, ph)[1] = "marker" /\ ManifestFile(job.exp)[1] = "manifest"
      BY ExperimentPaths
    <2>2. Spared(p, ChoiceKinds) /\ Spared(q, ChoiceKinds)
      BY <2>1, SparedWrite DEF ChoiceKinds
    <2>3. Recording(job.exp, ph, "skipped", manifest) = p \o q
      BY JoinTwo DEF Recording
    <2> HIDE DEF p, q
    <2> QED BY <2>2, <2>3, SparedJoin
  <1>9. Spared(todo', ChoiceKinds)
    BY <1>2, <1>8, SparedNone
  <1> QED BY <1>1, <1>7, <1>9, ChoiceMoves DEF k

LEMMA WholeKeepsChoice ==
  ASSUME Book, Choice, WholePhase, Phase # "optimize"
  PROVE  Choice'
  <1>1. PICK ops : PhaseDone(ops)
    BY DEF WholePhase
  <1>2. Works /\ job.at = "phase" /\ disk' = disk /\ todo = <<>> /\ job.left # <<>>
    BY DEF WholePhase, Works
  <1>3. IsJob(job)
    BY <1>2, BookTyped DEF ExpPlaces
  <1>4. Spared(ops, ChoiceKinds) /\ Spared(ops, {"plan"})
    <2>1. Spared(ops, ChoiceKinds)
      BY <1>1, OwnedNoPlan DEF PhaseDone, WholePhase
    <2>2. {"plan"} \subseteq ChoiceKinds
      BY DEF ChoiceKinds
    <2> QED BY <2>1, <2>2, SparedMore
  <1>5. CASE Fail(ops)
    <2>1. todo' = ops /\ NeedsNothing(job')
      BY <1>5, IdleNeedsNothing DEF Fail
    <2> QED BY <1>2, <1>4, <2>1, ChoiceLet
  <1>6. CASE \E runs : Complete(ops, runs)
    <2>1. PICK manifest : /\ todo' = ops \o MarkerThenManifest(manifest)
                          /\ Passed(job, job', Tail(job.left), manifest) /\ job'.at = "phase"
      BY <1>3, <1>6, CompletedJob
    <2> DEFINE k == job'
               recording == MarkerThenManifest(manifest)
    <2>2. Passed(job, k, Tail(job.left), manifest) /\ k.at = "phase" /\ todo' = ops \o recording
      BY <2>1
    <2>3. Spared(recording, ChoiceKinds)
      BY SparedRecording DEF ChoiceKinds
    <2> HIDE DEF k, recording
    <2>4. KnowsBase(disk, job, evaluated)
      BY <1>2, ChoiceDrained DEF Choice
    <2>5. KnowsBase(disk, k, evaluated')
      BY <1>2, <1>3, <2>2, <2>4, LaterStarts
    <2>6. Spared(todo', ChoiceKinds)
      BY <1>4, <2>2, <2>3, SparedJoin
    <2> QED BY <1>2, <2>5, <2>6, ChoiceMoves DEF k
  <1> QED BY <1>1, <1>5, <1>6 DEF PhaseDone

LEMMA FinishKeepsChoice ==
  ASSUME Choice, Finish
  PROVE  Choice'
  <1> DEFINE x == job.exp
             runs == job.manifest.runs
             p == <<Write(ReportJson(x), runs)>>
             q == <<Write(ReportMarkdown(x), runs)>>
  <1>1. ReportJson(x)[1] = "report.json" /\ ReportMarkdown(x)[1] = "report.md"
    BY ExperimentPaths
  <1>2. Spared(p, {"plan"}) /\ Spared(q, {"plan"})
    BY <1>1, SparedWrite
  <1>3. disk' = disk /\ NeedsNothing(job') /\ (todo' = <<>> \/ todo' = p \o q)
    BY IdleNeedsNothing, JoinTwo DEF Finish, Unchanged
  <1> HIDE DEF p, q
  <1>4. Spared(p \o q, {"plan"}) /\ Spared(<<>>, {"plan"})
    BY <1>2, SparedJoin, SparedNone
  <1>5. Spared(todo', {"plan"})
    BY <1>3, <1>4
  <1> QED BY <1>3, <1>5, ChoiceLet

LEMMA InstallerKeepsChoice ==
  ASSUME Book, Choice, InstallerStep
  PROVE  Choice'
  <1>1. IsJob(job) \/ IsOther(job)
    BY BookTyped
  <1>2. {"plan"} \cap RegistryKinds = {}
    BY DEF RegistryKinds
  <1>3. CASE FileOperation
    <2>1. FileStep /\ job' = job /\ evaluated' = evaluated
      BY <1>3 DEF FileOperation
    <2>2. PICK e, disks : /\ Goes(disk, todo, e, disks)
                          /\ \A x \in disks : PlansOk(x)
                          /\ KnowsBase(e, job, evaluated)
      BY DEF Choice, ChoiceInv
    <2>3. Goes(disk', todo', e, disks)
      BY <2>1, <2>2, GoesAway
    <2> QED BY <2>1, <2>2, <2>3 DEF Choice, ChoiceInv
  <1>4. CASE disk' = disk /\ Spared(todo', {"plan"}) /\ IsOther(job')
    <2>1. NeedsNothing(job')
      BY <1>4, NoBook, NeedNothing
    <2> QED BY <1>4, <2>1, ChoiceLet
  <1> QED BY <1>1, <1>2, <1>3, <1>4, InstallerQuiet

(* Artifacts write plans, and nothing else that is chosen from.            *)
PlanSpares == {"program", "metadata", "latest"}

LEMMA ArtifactsGo ==
  ASSUME NEW d, PlansOk(d), NEW plan \in Plans
  PROVE  \E e, disks : /\ Goes(d, Artifacts(plan), e, disks)
                       /\ \A x \in disks : PlansOk(x) /\ Agree(d, x, PlanSpares)
  <1> DEFINE y == job.exp
             path == PlanFile(y)
             a == <<Write(path, plan)>>
             b == <<Write(RulesFile(y), plan)>>
             c == <<Write(MemoFile(y), "memo")>>
             f == PutIn(d, path, plan)
             h == PutIn(d, path, Torn)
             first == {d, h, f}
             kinds == PlanSpares \cup {"plan"}
  <1>1. path[1] = "plan" /\ RulesFile(y)[1] = "rules" /\ MemoFile(y)[1] = "memo"
    BY ExperimentPaths
  <1>2. Goes(d, a, f, first)
    BY GoesWrite
  <1>3. plan # Torn
    BY ExperimentAssumption
  <1>4. PlansOk(f) /\ PlansOk(h)
    <2>1. \A x : PlanFile(x) # path => /\ ReadableIn(f, PlanFile(x)) => f[PlanFile(x)] \in Plans
                                       /\ ReadableIn(h, PlanFile(x)) => h[PlanFile(x)] \in Plans
      BY PutReads DEF PlansOk
    <2>2. f[path] \in Plans /\ ~ReadableIn(h, path)
      BY PutReads
    <2> HIDE DEF f, h, path
    <2> QED BY <2>1, <2>2 DEF PlansOk
  <1>5. Agree(d, f, PlanSpares) /\ Agree(d, h, PlanSpares)
    BY <1>1 DEF Agree, PutIn, PlanSpares
  <1>6. \A x \in first : PlansOk(x) /\ Agree(d, x, PlanSpares)
    BY <1>4, <1>5, AgreeSelf
  <1>7. Spared(b, kinds) /\ Spared(c, kinds)
    BY <1>1, SparedWrite DEF PlanSpares
  <1>8. Artifacts(plan) = (a \o b) \o c
    <2> DEFINE u == Write(path, plan)
               v == Write(RulesFile(y), plan)
               w == Write(MemoFile(y), "memo")
    <2>1. Artifacts(plan) = <<u, v, w>>
      BY DEF Artifacts
    <2> HIDE DEF u, v, w
    <2>2. <<u, v, w>> = (<<u>> \o <<v>>) \o <<w>>
      BY JoinThree
    <2> QED BY <2>1, <2>2 DEF u, v, w
  <1> HIDE DEF a, b, c, f, h, first
  <1>9. PICK g, second : Goes(f, b, g, second) /\ \A x \in second : Agree(f, x, kinds)
    BY <1>7, SparedGoes
  <1>10. PICK e, third : Goes(g, c, e, third) /\ \A x \in third : Agree(g, x, kinds)
    BY <1>7, SparedGoes
  <1>11. Agree(f, g, kinds)
    BY <1>9 DEF Goes
  <1>12. PlansOk(g) /\ Agree(d, g, PlanSpares)
    <2>1. PlansOk(g)
      BY <1>4, <1>11, PlansElsewhere
    <2> QED BY <1>5, <1>11, <2>1 DEF Agree
  <1>13. \A x \in second : PlansOk(x) /\ Agree(d, x, PlanSpares)
    <2> TAKE x \in second
    <2>1. Agree(f, x, kinds)
      BY <1>9
    <2>2. PlansOk(x)
      BY <1>4, <2>1, PlansElsewhere
    <2> QED BY <1>5, <2>1, <2>2 DEF Agree
  <1>14. \A x \in third : PlansOk(x) /\ Agree(d, x, PlanSpares)
    <2> TAKE x \in third
    <2>1. Agree(g, x, kinds)
      BY <1>10
    <2>2. PlansOk(x)
      BY <1>12, <2>1, PlansElsewhere
    <2> QED BY <1>12, <2>1, <2>2 DEF Agree
  <1> DEFINE ab == a \o b
             ds == first \cup second
  <1>15. Goes(d, ab, g, ds)
    BY <1>2, <1>9, GoesOn
  <1>16. Artifacts(plan) = ab \o c
    BY <1>8
  <1>17. \A x \in ds \cup third : PlansOk(x) /\ Agree(d, x, PlanSpares)
    BY <1>6, <1>13, <1>14
  <1> HIDE DEF ab, ds
  <1>18. Goes(d, Artifacts(plan), e, ds \cup third)
    BY <1>10, <1>15, <1>16, GoesOn
  <1> QED BY <1>17, <1>18

(* A queue that begins with artifacts.                                     *)
LEMMA ArtifactsThen ==
  ASSUME NEW d, PlansOk(d), NEW plan \in Plans, NEW more, Spared(more, ChoiceKinds), NEW k, NEW ev,
         \A e : Agree(d, e, PlanSpares) => KnowsBase(e, k, ev)
  PROVE  ChoiceInv(d, Artifacts(plan) \o more, k, ev)
  <1> DEFINE a == Artifacts(plan)
  <1>1. PICK e, disks : /\ Goes(d, a, e, disks)
                        /\ \A x \in disks : PlansOk(x) /\ Agree(d, x, PlanSpares)
    BY ArtifactsGo
  <1>2. PICK f, others : Goes(e, more, f, others) /\ \A x \in others : Agree(e, x, ChoiceKinds)
    BY SparedGoes
  <1> HIDE DEF a
  <1>3. Goes(d, a \o more, f, disks \cup others)
    BY <1>1, <1>2, GoesOn
  <1>4. PlansOk(e) /\ Agree(d, e, PlanSpares)
    BY <1>1 DEF Goes
  <1>5. \A x \in others : PlansOk(x)
    BY <1>2, <1>4, PlansElsewhere DEF ChoiceKinds
  <1>6. KnowsBase(f, k, ev)
    <2>1. Agree(e, f, ChoiceKinds)
      BY <1>2 DEF Goes
    <2>2. KnowsBase(e, k, ev)
      BY <1>4
    <2> QED BY <2>1, <2>2, KnowsElsewhere
  <1> QED BY <1>1, <1>3, <1>5, <1>6 DEF ChoiceInv, a

LEMMA OptimizeKeepsChoice ==
  ASSUME Book, Choice, NEW plan \in Plans, OptimizePhase(plan)
  PROVE  Choice'
  <1>1. /\ AtPhase({"optimize"}) /\ Unchanged
        /\ \E runs : Complete(Artifacts(plan), runs)
    BY DEF OptimizePhase
  <1>2. Works /\ job.at = "phase"
    BY <1>1, AtPhaseWorks, PhaseNames
  <1>3. todo = <<>> /\ job.left # <<>> /\ disk' = disk
    BY <1>2 DEF Works
  <1>4. IsJob(job)
    BY <1>2, BookTyped DEF ExpPlaces
  <1>5. PICK manifest : /\ todo' = Artifacts(plan) \o MarkerThenManifest(manifest)
                        /\ Passed(job, job', Tail(job.left), manifest) /\ job'.at = "phase"
    BY <1>1, <1>4, CompletedJob
  <1> DEFINE k == job'
             ev == evaluated'
             recording == MarkerThenManifest(manifest)
  <1>6. Passed(job, k, Tail(job.left), manifest) /\ k.at = "phase"
    BY <1>5
  <1>7. Spared(recording, ChoiceKinds)
    BY SparedRecording DEF ChoiceKinds
  <1>8. PlansOk(disk) /\ KnowsBase(disk, job, evaluated)
    BY <1>3, ChoiceDrained DEF Choice
  <1> HIDE DEF k, ev, recording
  <1>9. KnowsBase(disk, k, ev)
    BY <1>2, <1>3, <1>4, <1>6, <1>8, LaterStarts
  <1>10. ASSUME NEW e, Agree(disk, e, PlanSpares) PROVE KnowsBase(e, k, ev)
    <2>1. PhasesOnce => Starts(e, k)
      <3> SUFFICES ASSUME PhasesOnce, k.at = "phase", k.fresh, k.config.base # NoProgram, WillPatch(k.left)
                   PROVE  StandsOn(e, <<k.config.base>>)
        BY DEF Starts
      <3> DEFINE program == <<k.config.base>>
      <3>1. IsJob(k)
        BY <1>6 DEF IsJob, Passed, ExpPlaces
      <3>2. StandsOn(disk, program)
        BY <1>9, <3>1 DEF KnowsBase, Starts
      <3> HIDE DEF program
      <3>3. StandsOn(e, program)
        BY <1>10, <3>2, StandsElsewhere DEF PlanSpares
      <3> QED BY <3>3 DEF program
    <2> QED BY <1>6, <2>1 DEF KnowsBase
  <1>11. ChoiceInv(disk, Artifacts(plan) \o recording, k, ev)
    BY <1>7, <1>8, <1>10, ArtifactsThen
  <1> QED BY <1>3, <1>5, <1>11 DEF Choice, k, ev, recording

LEMMA ArtifactsKeepChoice ==
  ASSUME Book, Choice, NEW plan \in Plans, ReuseArtifacts \/ MakeArtifacts(plan)
  PROVE  Choice'
  <1>1. /\ todo = <<>> /\ disk' = disk /\ job.at = "phase"
        /\ todo' = <<>> \/ todo' = Artifacts(plan)
    BY DEF ReuseArtifacts, MakeArtifacts, AtPhase, At, Unchanged
  <1>2. IsJob(job)
    BY <1>1, BookTyped DEF ExpPlaces
  <1>3. job'.at = "select"
    BY <1>2, ArtifactShapes
  <1>4. NeedsNothing(job')
    BY <1>3, NeedNothing
  <1>5. CASE todo' = <<>>
    BY <1>1, <1>4, <1>5, SparedNone, ChoiceLet
  <1>6. CASE todo' = Artifacts(plan)
    <2> DEFINE k == job'
               ev == evaluated'
    <2>1. PlansOk(disk) /\ \A x : KnowsBase(x, k, ev)
      BY <1>4, ChoiceDrained DEF Choice, NeedsNothing
    <2> HIDE DEF k, ev
    <2>2. PICK e, disks : /\ Goes(disk, Artifacts(plan), e, disks)
                          /\ \A x \in disks : PlansOk(x) /\ Agree(disk, x, PlanSpares)
      BY <2>1, ArtifactsGo
    <2>3. ChoiceInv(disk, Artifacts(plan), k, ev)
      BY <2>1, <2>2 DEF ChoiceInv
    <2> QED BY <1>1, <1>6, <2>3 DEF Choice, k, ev
  <1> QED BY <1>1, <1>5, <1>6

LEMMA EnsureKeepsChoice ==
  ASSUME Book, Registry(Instr), Choice, EnsureWorkflow
  PROVE  Choice'
  <1>1. /\ job.at = "workflow" /\ todo = <<>> /\ disk' = disk /\ evaluated' = evaluated
        /\ job' = [job EXCEPT !.at = "phase"]
    BY DEF EnsureWorkflow, At
  <1>2. IsJob(job) /\ HasFields(job)
    BY <1>1, BookTyped DEF ExpPlaces, IsJob
  <1> DEFINE k == job'
             q == todo'
             ev == evaluated'
             kinds == {"plan"}
  <1>3. Moved(job, k, "phase")
    BY <1>1, <1>2, JobMoves
  <1>4. kinds \cap RegistryKinds = {}
    BY DEF RegistryKinds
  <1>5. Spared(q, kinds)
    <2>1. /\ Spared(<<>>, kinds)
          /\ \A m, program, metadata : Spared(WriteVersion(m, program, metadata) \o SetLatest(m), kinds)
          /\ \A m : Spared(SetLatest(m), kinds)
          /\ \A program : Spared(InitWorkflow(program), kinds)
      BY <1>4, SparedNone, RegistrySpares
    <2>2. \/ todo' = <<>>
          \/ todo' = InitWorkflow(Configured)
          \/ todo' = EnsureConfiguredBaseline(Configured)
      BY <1>1 DEF EnsureWorkflow
    <2>3. Spared(EnsureConfiguredBaseline(Configured), kinds)
      BY <2>1 DEF EnsureConfiguredBaseline, InstallVersion
    <2> QED BY <2>1, <2>2, <2>3
  <1>6. PICK e : \E n \in Nat :
            /\ Safe(disk, q, e, k, ev, Instr) /\ Registered(e, ev, Instr, n)
            /\ job.fresh /\ job.config.base # NoProgram => StandsOn(e, Configured)
    BY EnsureKeepsRegistry, SemanticInstructions
  <1>7. PICK n \in Nat :
            /\ Safe(disk, q, e, k, ev, Instr) /\ Registered(e, ev, Instr, n)
            /\ job.fresh /\ job.config.base # NoProgram => StandsOn(e, Configured)
    BY <1>6
  <1> HIDE DEF k, q, ev, kinds
  <1>8. PICK disks : /\ Goes(disk, q, e, disks)
                     /\ \A x \in disks : Agree(disk, x, kinds) /\ KeepsVersions(disk, x)
    BY <1>5, <1>7, SafeGoes
  <1>9. PlansOk(disk)
    BY ChoiceDrained DEF Choice
  <1>10. \A x \in disks : PlansOk(x)
    BY <1>8, <1>9, PlansElsewhere DEF kinds
  <1>11. KnowsBase(e, k, ev)
    <2>1. k.at = "phase" /\ k.fresh = job.fresh /\ k.config = job.config
      BY <1>3 DEF Moved, SameBook
    <2>2. Starts(e, k)
      BY <1>7, <2>1 DEF Starts, Configured
    <2> QED BY <2>1, <2>2 DEF KnowsBase
  <1>12. ChoiceInv(disk, q, k, ev)
    BY <1>8, <1>10, <1>11 DEF ChoiceInv
  <1> QED BY <1>1, <1>12 DEF Choice, k, q, ev

(* The predictions of a file.                                              *)
LEMMA SparedRewritten ==
  ASSUME NEW file, NEW program, NEW kinds, "predictions" \notin kinds
  PROVE  Spared(Rewritten(file, program), kinds)
  <1> DEFINE path == Predictions(job.exp, file)
             records == RecordsOf(job, file, program)
             p == Cleared(Exists(path), path)
             q == LinesOf(path, records)
  <1>1. path[1] \notin kinds
    BY ExperimentPaths
  <1>2. PICK S : records \in Seq(S)
    BY RecordsFacts
  <1>3. Within(q, {path}, {})
    BY <1>2, LinesPlain
  <1>4. Within(p, {path}, {path})
    BY ClearedWithin
  <1>5. Rewritten(file, program) = p \o q
    BY LinesAre
  <1> HIDE DEF p, q, path
  <1>6. Spared(p, kinds) /\ Spared(q, kinds)
    BY <1>1, <1>3, <1>4 DEF Spared
  <1> QED BY <1>5, <1>6, SparedJoin

LEMMA SelectKeepsChoice ==
  ASSUME Book, Registry(Instr), Choice, SelectBase
  PROVE  Choice'
  <1>1. job.at = "select" /\ todo = <<>> /\ disk' = disk
    BY DEF SelectBase, At, Unchanged
  <1>2. IsJob(job) /\ HasFields(job)
    BY <1>1, BookTyped DEF ExpPlaces, IsJob
  <1>3. CASE ~(CanSelect /\ IsStraight(disk[ProgramFile(BaseVersion)]))
    <2>1. todo' = <<>> /\ NeedsNothing(job')
      BY <1>3, IdleNeedsNothing DEF SelectBase, Fail
    <2> QED BY <1>1, <2>1, SparedNone, ChoiceLet
  <1>4. CASE CanSelect /\ IsStraight(disk[ProgramFile(BaseVersion)])
    <2> DEFINE patched == Append(disk[ProgramFile(BaseVersion)], SemanticPatch)
               none == <<>>
    <2>1. job' = [job EXCEPT !.at = "gate", !.base = BaseVersion, !.program = patched]
          /\ todo' = DirectSplit \o ExactMemoSplit \o CandidateSplit(patched)
      BY <1>4 DEF SelectBase
    <2>2. patched = Append(disk[ProgramFile(BaseVersion)], Semantic(disk[PlanFile(job.exp)]))
      BY DEF SemanticPatch
    <2> HIDE DEF patched
    <2> DEFINE k == job'
    <2>3. Selected(job, k, BaseVersion, patched)
      BY <1>2, <2>1, JobSelects, Zenon
    <2>4. k.at = "gate" /\ k.exp = job.exp /\ k.base = BaseIn(disk) /\ k.program = patched
      BY <2>3, BaseIs DEF Selected, Moved, SameBook
    <2> HIDE DEF k
    <2>5. Chosen(disk, k)
      <3>1. /\ ReadableIn(disk, PlanFile(job.exp)) /\ ReadableIn(disk, LatestFile)
            /\ ReadableIn(disk, ProgramFile(BaseIn(disk)))
        BY <1>4, BaseIs DEF CanSelect, Readable, ReadableIn, Exists
      <3>2. ReadableIn(disk, MetadataFile(disk[LatestFile]))
        <4>1. PICK n \in Nat : Registered(disk, evaluated, Instr, n)
          BY <1>1, FromRest
        <4>2. disk[LatestFile] \in 1 .. n
          BY <3>1, <4>1, BaseExists, SemanticInstructions
        <4> QED BY <4>1, <4>2 DEF Registered, RegistryOk, VersionOk
      <3> QED BY <2>2, <2>4, <3>1, <3>2, BaseIs DEF Chosen
    <2>6. KnowsBase(disk, k, evaluated')
      BY <2>4, <2>5 DEF KnowsBase, Starts
    <2>7. "predictions" \notin ChoiceKinds
      BY DEF ChoiceKinds
    <2>8. Spared(DirectSplit, ChoiceKinds) /\ Spared(ExactMemoSplit, ChoiceKinds)
          /\ Spared(CandidateSplit(patched), ChoiceKinds)
      BY <2>7, SparedRewritten DEF DirectSplit, ExactMemoSplit, CandidateSplit
    <2>9. Spared(DirectSplit \o ExactMemoSplit, ChoiceKinds)
      BY <2>8, SparedJoin
    <2>10. Spared(todo', ChoiceKinds)
      BY <2>1, <2>8, <2>9, SparedJoin
    <2> QED BY <1>1, <2>6, <2>10, ChoiceMoves DEF k
  <1> QED BY <1>3, <1>4

LEMMA PartSpared ==
  ASSUME NEW content, NEW kinds, "gate" \notin kinds, "patch_install" \notin kinds
  PROVE  /\ Spared(<<Write(GateFile(job.exp), content)>>, kinds)
         /\ Spared(<<Write(PatchInstallFile(job.exp), content)>>, kinds)
  BY ExperimentPaths, SparedWrite

LEMMA GateKeepsChoice ==
  ASSUME Book, Registry(Instr), Choice, NEW accepted, Gate(accepted)
  PROVE  Choice'
  <1>1. job.at = "gate" /\ todo = <<>> /\ disk' = disk
    BY DEF Gate, At
  <1>2. IsJob(job) /\ HasFields(job)
    BY <1>1, BookTyped DEF ExpPlaces, IsJob
  <1>4. CASE accepted
    <2>1. /\ evaluated' = evaluated \cup {<<job.base, job.program[Len(job.program)]>>}
          /\ todo' = <<Write(GateFile(job.exp), TRUE)>>
          /\ job' = [job EXCEPT !.at = "install_semantic"]
      BY <1>4 DEF Gate
    <2> DEFINE k == job'
               patch == Semantic(disk[PlanFile(job.exp)])
               program == disk[ProgramFile(job.base)]
    <2>2. Moved(job, k, "install_semantic") /\ k.base = job.base /\ k.program = job.program
      BY <1>2, <2>1, JobMoves
    <2>3. KnowsBase(disk, job, evaluated)
      BY <1>1, ChoiceDrained DEF Choice
    <2>4. Chosen(disk, job)
      BY <1>1, <1>2, <2>3 DEF KnowsBase
    <2>5. program \in Seq(Instr)
      <3>1. PICK n \in Nat : Registered(disk, evaluated, Instr, n)
        BY <1>1, FromRest
      <3> QED BY <2>4, <3>1, BaseExists, SemanticInstructions DEF Chosen
    <2>6. job.program = Append(program, patch)
      BY <2>4 DEF Chosen
    <2> HIDE DEF k, patch, program
    <2>7. job.program[Len(job.program)] = patch
      BY <2>5, <2>6
    <2>8. <<k.base, Semantic(disk[PlanFile(k.exp)])>> \in evaluated'
      BY <2>1, <2>2, <2>7 DEF patch, Moved, SameBook
    <2>9. Chosen(disk, k)
      BY <2>2, <2>4 DEF Chosen, Moved, SameBook
    <2>10. KnowsBase(disk, k, evaluated')
      BY <2>2, <2>8, <2>9 DEF KnowsBase, Starts, Moved
    <2>11. Spared(todo', ChoiceKinds)
      <3>1. "gate" \notin ChoiceKinds /\ "patch_install" \notin ChoiceKinds
        BY DEF ChoiceKinds
      <3> QED BY <2>1, <3>1, PartSpared
    <2> QED BY <1>1, <2>10, <2>11, ChoiceMoves DEF k
  <1>5. CASE ~accepted
    <2> DEFINE no == FALSE
               none == 0
               kinds == {"plan"}
               a == Write(GateFile(job.exp), no)
               b == Write(PatchInstallFile(job.exp), none)
    <2>1. todo' = <<a, b>> /\ NeedsNothing(job')
      BY <1>5, IdleNeedsNothing DEF Gate, Fail
    <2>2. "gate" \notin kinds /\ "patch_install" \notin kinds
      OBVIOUS
    <2> HIDE DEF no, none, kinds
    <2>3. Spared(<<a>>, kinds) /\ Spared(<<b>>, kinds)
      BY <2>2, PartSpared
    <2> HIDE DEF a, b
    <2>4. <<a, b>> = <<a>> \o <<b>>
      BY JoinTwo
    <2>5. Spared(todo', kinds)
      BY <2>1, <2>3, <2>4, SparedJoin
    <2> QED BY <1>1, <2>1, <2>5, ChoiceLet DEF kinds
  <1> QED BY <1>4, <1>5

LEMMA InstallKeepsChoice ==
  ASSUME Book, Choice, InstallSemantic
  PROVE  Choice'
  <1>1. job.at = "install_semantic" /\ todo = <<>> /\ disk' = disk
    BY DEF InstallSemantic, At, Unchanged
  <1>2. IsJob(job) /\ Placed(job)
    BY <1>1, BookTyped, JobFacts DEF ExpPlaces
  <1>3. InstallPhase
    BY <1>2, InstallShape
  <1>4. CASE Fail(<<>>)
    <2>1. todo' = <<>> /\ NeedsNothing(job')
      BY <1>4, IdleNeedsNothing DEF Fail
    <2> QED BY <1>1, <2>1, SparedNone, ChoiceLet
  <1>5. ASSUME NEW ops, NEW runs, Complete(ops, runs), Spared(ops, InstallSpares) PROVE Choice'
    <2>1. Spared(ops, {"plan"})
      BY <1>5, SparedMore DEF InstallSpares
    <2>2. PICK manifest : /\ todo' = ops \o MarkerThenManifest(manifest)
                          /\ Passed(job, job', Tail(job.left), manifest) /\ job'.at = "phase"
      BY <1>2, <1>5, CompletedJob
    <2>3. Spared(MarkerThenManifest(manifest), {"plan"})
      BY SparedRecording
    <2>4. Spared(todo', {"plan"})
      BY <2>1, <2>2, <2>3, SparedJoin
    <2>5. PhasesOnce => ~WillPatch(job'.left)
      <3>1. job.left # <<>> /\ Phase = "patch_validation"
        BY <1>3 DEF InstallPhase, Works
      <3>2. PhasesOnce => ~WillPatch(Tail(job.left))
        BY <1>1, <1>2, <3>1, PatchesOnce
      <3> QED BY <2>2, <3>2 DEF Passed
    <2>6. NeedsNothing(job')
      BY <2>2, <2>5, NeedNothing
    <2> QED BY <1>1, <2>4, <2>6, ChoiceLet
  <1> QED BY <1>3, <1>4, <1>5 DEF InstallPhase

LEMMA WholeKeepChoice ==
  ASSUME Book, Choice,
         \/ SplitEvents \/ RunDirect \/ RunExactMemo
         \/ \E offered \in Offers : RunProfile(offered) \/ RunUnoptimized(offered) \/ RunInstalled(offered)
         \/ RunNoSemantic \/ ShadowAudit \/ EvaluateQuality \/ Report
  PROVE  Choice'
  <1>1. WholePhase
    BY PhaseShapes
  <1>2. Phase # "optimize"
    BY DEF SplitEvents, RunDirect, RunExactMemo, RunProfile, RunUnoptimized, RunInstalled,
           RunNoSemantic, ShadowAudit, EvaluateQuality, Report, AtPhase, DirectFile, InstalledFile
  <1> QED BY <1>1, <1>2, WholeKeepsChoice

LEMMA ExperimentKeepsChoice ==
  ASSUME Book, Registry(Instr), Choice, ExperimentStep
  PROVE  Choice'
  <1>1. CASE \E x \in Experiments : \E config \in Configs[x] : StartExperiment(x, config)
    BY <1>1, StartKeepsChoice
  <1>2. CASE \E goesOn \in BOOLEAN : Estimate(goesOn)
    BY <1>2, EstimateKeepsChoice
  <1>3. CASE EnsureWorkflow \/ PassCompleted \/ SkipPhase \/ Finish
    BY <1>3, EnsureKeepsChoice, PassKeepsChoice, SkipKeepsChoice, FinishKeepsChoice
  <1>4. CASE \/ SplitEvents \/ RunDirect \/ RunExactMemo
             \/ \E offered \in Offers : RunProfile(offered) \/ RunUnoptimized(offered) \/ RunInstalled(offered)
             \/ RunNoSemantic \/ ShadowAudit \/ EvaluateQuality \/ Report
    BY <1>4, WholeKeepChoice
  <1>5. CASE \E plan \in Plans : OptimizePhase(plan) \/ MakeArtifacts(plan)
    BY <1>5, OptimizeKeepsChoice, ArtifactsKeepChoice
  <1>6. CASE ReuseArtifacts
    <2>1. CASE Plans = {}
      <3>1. todo' = <<>> /\ disk' = disk /\ job.at = "phase"
        BY <1>6 DEF ReuseArtifacts, AtPhase, At
      <3>2. job'.at = "select"
        BY <1>6, <3>1, BookTyped, ArtifactShapes DEF ExpPlaces
      <3>3. NeedsNothing(job')
        BY <3>2, NeedNothing
      <3> QED BY <3>1, <3>3, SparedNone, ChoiceLet
    <2>2. CASE Plans # {}
      BY <1>6, <2>2, ArtifactsKeepChoice
    <2> QED BY <2>1, <2>2
  <1>7. CASE SelectBase \/ InstallSemantic \/ \E accepted \in BOOLEAN : Gate(accepted)
    BY <1>7, SelectKeepsChoice, InstallKeepsChoice, GateKeepsChoice
  <1> QED BY <1>1, <1>2, <1>3, <1>4, <1>5, <1>6, <1>7 DEF ExperimentStep

-----------------------------------------------------------------------------
(* The registry through all steps.                                         *)
LEMMA ExperimentGoesOn ==
  ASSUME Book, ExperimentStep
  PROVE  IsJob(job') \/ job' = Idle
  <1> DEFINE k == job'
  <1>1. ASSUME job.at \in ExpPlaces PROVE IsJob(job) /\ HasFields(job)
    BY <1>1, BookTyped DEF IsJob
  <1>2. CASE \E x \in Experiments : \E config \in Configs[x] : StartExperiment(x, config)
    <2>1. PICK x, config : StartExperiment(x, config)
      BY <1>2
    <2>2. \E fresh, manifest, run, done, left :
            k = Job("estimate", x, config, fresh, manifest, run, {}, done, left, 0, <<>>)
      BY <2>1 DEF StartExperiment, Job
    <2> HIDE DEF k
    <2>3. HasFields(k) /\ k.at = "estimate"
      BY <2>2, JobIs
    <2> QED BY <2>3 DEF IsJob, ExpPlaces, k
  <1>3. CASE \E goesOn \in BOOLEAN : Estimate(goesOn)
    <2>1. PICK goesOn : Estimate(goesOn)
      BY <1>3
    <2>2. /\ job.at = "estimate"
          /\ job' = IF goesOn THEN [job EXCEPT !.at = "workflow"] ELSE Idle
      BY <2>1 DEF Estimate, At
    <2>3. CASE goesOn
      BY <1>1, <2>2, <2>3, JobAt DEF ExpPlaces
    <2> QED BY <2>2, <2>3
  <1>4. CASE EnsureWorkflow
    <2>1. job.at = "workflow" /\ job' = [job EXCEPT !.at = "phase"]
      BY <1>4 DEF EnsureWorkflow, At
    <2> QED BY <1>1, <2>1, JobAt DEF ExpPlaces
  <1>5. CASE PassCompleted
    <2> DEFINE left == Tail(job.left)
    <2>1. job.at = "phase" /\ k = [job EXCEPT !.left = left]
      BY <1>5 DEF PassCompleted, At
    <2> HIDE DEF left, k
    <2>2. Passed(job, k, left, job.manifest) /\ k.at = "phase"
      BY <1>1, <2>1, JobPasses DEF ExpPlaces
    <2> QED BY <2>2 DEF Passed, IsJob, ExpPlaces, k
  <1>6. CASE SkipPhase
    <2> DEFINE left == Tail(job.left)
               manifest == [job.manifest EXCEPT !.skipped = @ \cup {Phase}]
    <2>1. job.at = "phase"
      BY <1>6 DEF SkipPhase, At
    <2>2. job' = [job EXCEPT !.left = left, !.manifest = manifest]
      BY <1>6 DEF SkipPhase
    <2> HIDE DEF left, manifest
    <2>3. HasFields(job)
      BY <1>1, <2>1 DEF ExpPlaces
    <2>4. Skips(job, job', left, manifest)
      BY <2>2, <2>3, JobSkips, Zenon
    <2> QED BY <2>1, <2>4 DEF Skips, Passed, IsJob, ExpPlaces
  <1>7. CASE Finish
    BY <1>7 DEF Finish
  <1>8. CASE \/ SplitEvents \/ RunDirect \/ RunExactMemo
             \/ \E offered \in Offers : RunProfile(offered) \/ RunUnoptimized(offered) \/ RunInstalled(offered)
             \/ RunNoSemantic \/ ShadowAudit \/ EvaluateQuality \/ Report
             \/ \E plan \in Plans : OptimizePhase(plan)
    <2>1. WholePhase
      BY <1>8, PhaseShapes
    <2>2. IsJob(job)
      BY <1>1, <2>1 DEF WholePhase, ExpPlaces
    <2>3. PICK ops : Fail(ops) \/ \E runs : Complete(ops, runs)
      BY <2>1 DEF WholePhase, PhaseDone
    <2> QED BY <2>2, <2>3, CompletedJob DEF Fail
  <1>9. CASE ReuseArtifacts \/ \E plan \in Plans : MakeArtifacts(plan)
    <2>1. job.at = "phase"
      BY <1>9 DEF ReuseArtifacts, MakeArtifacts, AtPhase, At
    <2>2. PartPhase
      BY <1>1, <1>9, <2>1, ArtifactShapes DEF ExpPlaces
    <2> QED BY <2>2 DEF PartPhase, GoesOnAs
  <1>10. ASSUME NEW at \in PartPlaces, At(at) PROVE IsJob(job) /\ Placed(job)
    BY <1>1, <1>10, JobFacts DEF At, ExpPlaces, PartPlaces
  <1>11. CASE SelectBase \/ \E accepted \in BOOLEAN : Gate(accepted)
    <2>1. IsJob(job) /\ Placed(job)
      BY <1>10, <1>11 DEF SelectBase, Gate, PartPlaces
    <2>2. PartPhase
      BY <1>11, <2>1, SelectShape, GateShape
    <2> QED BY <2>2 DEF PartPhase, GoesOnAs
  <1>12. CASE InstallSemantic
    <2>1. IsJob(job) /\ Placed(job)
      BY <1>10, <1>12 DEF InstallSemantic, PartPlaces
    <2>2. InstallPhase
      BY <1>12, <2>1, InstallShape
    <2>3. PICK ops : Fail(ops) \/ \E runs : Complete(ops, runs)
      BY <2>2 DEF InstallPhase
    <2> QED BY <2>1, <2>3, CompletedJob DEF Fail
  <1> QED BY <1>2, <1>3, <1>4, <1>5, <1>6, <1>7, <1>8, <1>9, <1>11, <1>12 DEF ExperimentStep

LEMMA QuietKeepsRegistry ==
  ASSUME NEW P, Book, Registry(P), ExperimentStep,
         \/ \E x \in Experiments : \E config \in Configs[x] : StartExperiment(x, config)
         \/ \E goesOn \in BOOLEAN : Estimate(goesOn)
         \/ PassCompleted
         \/ SkipPhase
         \/ Finish
  PROVE  Registry(P)'
  <1>1. job'.at \notin Asking
    BY ExperimentGoesOn, ExpNotAsking
  <1>2. todo = <<>> /\ disk' = disk /\ evaluated' = evaluated
    BY DEF StartExperiment, Estimate, PassCompleted, SkipPhase, Finish, Unchanged, Free, At
  <1>3. /\ \A x, content : Light(<<Write(LockFile(x), content)>>)
        /\ \A x, ph, content : Light(<<Write(MarkerFile(x, ph), content)>>)
        /\ \A x, content : Light(<<Write(ManifestFile(x), content)>>)
        /\ \A x, content : Light(<<Write(ReportJson(x), content)>>)
        /\ \A x, content : Light(<<Write(ReportMarkdown(x), content)>>)
    BY ExperimentPaths, LightWrite DEF VersionKinds, IsInstalledRecord
  <1>4. Light(todo')
    <2>1. CASE \E x \in Experiments : \E config \in Configs[x] : StartExperiment(x, config)
      BY <1>3, <2>1 DEF StartExperiment
    <2>2. CASE PassCompleted \/ \E goesOn \in BOOLEAN : Estimate(goesOn)
      BY <1>2, <2>2, LightNone DEF PassCompleted, Estimate
    <2>3. CASE SkipPhase
      <3> DEFINE manifest == [job.manifest EXCEPT !.skipped = @ \cup {Phase}]
                 p == <<Write(MarkerFile(job.exp, Phase), "skipped")>>
                 q == <<Write(ManifestFile(job.exp), manifest)>>
      <3>1. todo' = <<>> \/ todo' = p \o q
        BY <2>3, JoinTwo DEF SkipPhase
      <3>2. Light(p) /\ Light(q)
        BY <1>3
      <3> HIDE DEF p, q
      <3>3. Light(p \o q)
        BY <3>2, LightJoin
      <3> QED BY <3>1, <3>3, LightNone
    <2>4. CASE Finish
      <3> DEFINE p == <<Write(ReportJson(job.exp), job.manifest.runs)>>
                 q == <<Write(ReportMarkdown(job.exp), job.manifest.runs)>>
      <3>1. todo' = <<>> \/ todo' = p \o q
        BY <2>4, JoinTwo DEF Finish
      <3>2. Light(p) /\ Light(q)
        BY <1>3
      <3> HIDE DEF p, q
      <3>3. Light(p \o q)
        BY <3>2, LightJoin
      <3> QED BY <3>1, <3>3, LightNone
    <2> QED BY <2>1, <2>2, <2>3, <2>4
  <1> QED BY <1>1, <1>2, <1>4, LightStep

LEMMA ExperimentKeepsRegistry ==
  ASSUME Book, Choice, Registry(Instr), ExperimentStep
  PROVE  Registry(Instr)'
  <1>1. todo = <<>> /\ job.at \in PartPlaces => IsJob(job) /\ Placed(job)
    BY BookTyped, JobFacts DEF ExpPlaces, PartPlaces
  <1>2. ASSUME NEW at \in PartPlaces, At(at) PROVE IsJob(job) /\ Placed(job)
    BY <1>1, <1>2 DEF At
  <1>3. \A phases : AtPhase(phases) => IsJob(job)
    BY BookTyped DEF AtPhase, At, ExpPlaces
  <1>4. CASE \/ \E x \in Experiments : \E config \in Configs[x] : StartExperiment(x, config)
             \/ \E goesOn \in BOOLEAN : Estimate(goesOn)
             \/ PassCompleted
             \/ SkipPhase
             \/ Finish
    BY <1>4, QuietKeepsRegistry
  <1>5. CASE EnsureWorkflow
    BY <1>5, EnsuredRegistry, SemanticInstructions
  <1>6. CASE \/ SplitEvents \/ RunDirect \/ RunExactMemo
             \/ \E offered \in Offers : RunProfile(offered) \/ RunUnoptimized(offered) \/ RunInstalled(offered)
             \/ RunNoSemantic \/ ShadowAudit \/ EvaluateQuality \/ Report
             \/ \E plan \in Plans : OptimizePhase(plan)
    <2>1. WholePhase
      BY <1>6, PhaseShapes
    <2>2. evaluated' = evaluated
      BY <1>6 DEF SplitEvents, RunDirect, RunExactMemo, RunProfile, RunUnoptimized, RunInstalled,
             RunNoSemantic, ShadowAudit, EvaluateQuality, Report, OptimizePhase, Unchanged
    <2> QED BY <2>1, <2>2, WholeKeepsRegistry
  <1>7. CASE ReuseArtifacts \/ \E plan \in Plans : MakeArtifacts(plan)
    <2>1. IsJob(job)
      BY <1>3, <1>7 DEF ReuseArtifacts, MakeArtifacts
    <2>2. PartPhase /\ evaluated' = evaluated
      BY <1>7, <2>1, ArtifactShapes
    <2> QED BY <2>2, PartKeepsRegistry
  <1>8. CASE SelectBase
    <2>1. IsJob(job) /\ Placed(job)
      BY <1>2, <1>8 DEF SelectBase, PartPlaces
    <2>2. PartPhase /\ evaluated' = evaluated
      BY <1>8, <2>1, SelectShape DEF SelectBase, Unchanged
    <2> QED BY <2>2, PartKeepsRegistry
  <1>9. CASE \E accepted \in BOOLEAN : Gate(accepted)
    <2>1. PICK accepted : Gate(accepted)
      BY <1>9
    <2>2. IsJob(job) /\ Placed(job)
      BY <1>2, <2>1 DEF Gate, PartPlaces
    <2>3. PartPhase /\ evaluated \subseteq evaluated'
      BY <2>1, <2>2, GateShape DEF Gate
    <2> QED BY <2>3, PartKeepsRegistry
  <1>10. CASE InstallSemantic
    BY <1>10, InstallKeepsRegistry
  <1> QED BY <1>4, <1>5, <1>6, <1>7, <1>8, <1>9, <1>10 DEF ExperimentStep

(* What holds of all that experiments and commands share.                  *)
ExperimentInv == Book /\ Choice /\ Registry(Instr)

LEMMA ExperimentBegins ==
  ASSUME InstallerInit
  PROVE  ExperimentInv
  <1> DEFINE d == [path \in {} |-> Torn]
  <1>1. disk = d /\ todo = <<>> /\ job = Idle
    BY DEF InstallerInit
  <1>2. PlansOk(d)
    BY DEF PlansOk, ReadableIn
  <1> HIDE DEF d
  <1>3. KnowsBase(d, Idle, evaluated) /\ Spared(<<>>, ChoiceKinds)
    BY IdleNeedsNothing, SparedNone DEF NeedsNothing
  <1>4. ChoiceInv(d, <<>>, Idle, evaluated)
    BY <1>2, <1>3, ChoiceSpared
  <1> QED BY <1>1, <1>4, BookStart, RegistryStart DEF ExperimentInv, Choice

LEMMA ExperimentKeepsDisk ==
  ASSUME ExperimentStep
  PROVE  disk' = disk
  BY DEF ExperimentStep, StartExperiment, Estimate, EnsureWorkflow, PassCompleted, SplitEvents,
         RunDirect, RunExactMemo, RunProfile, RunUnoptimized, RunInstalled, RunNoSemantic,
         ShadowAudit, OptimizePhase, MakeArtifacts, ReuseArtifacts, SelectBase, Gate,
         InstallSemantic, EvaluateQuality, Report, SkipPhase, Finish, Unchanged

LEMMA ExperimentInvSteps ==
  ASSUME ExperimentInv, [ExperimentStep \/ InstallerStep]_vars
  PROVE  ExperimentInv' /\ HistoryStep
  <1>1. Book /\ Choice /\ Registry(Instr)
    BY DEF ExperimentInv
  <1>2. CASE ExperimentStep
    BY <1>1, <1>2, ExperimentKeepsBook, ExperimentKeepsChoice, ExperimentKeepsRegistry,
       ExperimentKeepsDisk, EdgeIsStep DEF ExperimentInv
  <1>3. CASE InstallerStep
    <2>1. ExperimentInv'
      BY <1>1, <1>3, InstallerKeepsBook, InstallerKeepsChoice, InstallerKeeps, SemanticInstructions
         DEF ExperimentInv
    <2>2. CASE FileOperation
      BY <1>1, <2>1, <2>2, FileOperationKeeps, EdgeIsStep
    <2>3. CASE ~FileOperation
      <3>1. disk' = disk
        BY <1>3, <2>3 DEF InstallerStep, InitWorkflowCommand, Optimize, NoPatchReturned, Propose,
              Validate, Evaluate, EvaluationFails, Install, Installed, AttemptFails, Stop
      <3> QED BY <2>1, <3>1, EdgeIsStep
    <2> QED BY <2>2, <2>3
  <1>4. CASE UNCHANGED vars
    <2>1. disk' = disk /\ todo' = todo /\ job' = job /\ evaluated' = evaluated
      BY <1>4 DEF vars, installerVars
    <2>2. Book' /\ Choice'
      BY <1>1, <2>1 DEF Book, Choice
    <2> QED BY <1>1, <2>1, <2>2, RegistryStays, EdgeIsStep DEF ExperimentInv
  <1> QED BY <1>2, <1>3, <1>4

(* The invariant of experiments and commands together: the book, the plans *)
(* and what is chosen from them, and the registry, on every disk that the  *)
(* remaining file operations lead through.                                 *)
THEOREM ExperimentInvariance == Spec => []ExperimentInv
  <1>1. InstallerInit => ExperimentInv
    BY ExperimentBegins
  <1>2. ExperimentInv /\ [ExperimentStep \/ InstallerStep]_vars => ExperimentInv'
    BY ExperimentInvSteps
  <1> QED BY <1>1, <1>2, PTL DEF Spec

(* program_registry.rs 156: the files of the registry implement            *)
(* ProgramHistory also when experiments initialise the workflow, reset its *)
(* baseline and install the semantic patch among the commands.             *)
THEOREM HistoryOfExperiments == Spec => HistoryKept
  <1>1. InstallerInit => History!Init
    BY HistoryStart
  <1>2. ExperimentInv /\ [ExperimentStep \/ InstallerStep]_vars => HistoryStep
    BY ExperimentInvSteps
  <1>3. Spec =>
          [][History!Install \/ History!Move]_<<[v \in 1 .. Cardinality(Whole) |-> Version(v)],
                                                IF Readable(LatestFile) THEN Latest ELSE 0>>
    BY <1>2, ExperimentInvariance, PTL DEF Spec, HistoryStep
  <1> QED BY <1>1, <1>3, PTL DEF Spec, HistoryKept, History!Spec

(* runner.rs 1802 and patch_installer.rs 89: no version, of an experiment  *)
(* or of a command, holds a patch that was not evaluated on its parent, by *)
(* the gate or by the evaluator, and a record of an installed patch tells  *)
(* the truth of the version it names.                                      *)
THEOREM ExperimentsInstallEvaluated == Spec => [](EvaluatedOnParent /\ RecordsTellVersions)
  <1>1. ExperimentInv => EvaluatedOnParent /\ RecordsTellVersions
    BY SemanticInstructions, RegistryPromises DEF ExperimentInv
  <1> QED BY <1>1, ExperimentInvariance, PTL

LEMMA BaselineIsLatest ==
  ASSUME ExperimentInv, PhasesOnce
  PROVE  StartsFromBaseline
  <1> SUFFICES ASSUME job.at = "phase", todo = <<>>, job.fresh, job.config.base # NoProgram,
                      \E i \in DOMAIN job.left : job.left[i] = "patch_validation"
               PROVE  CanLoadLatest /\ disk[ProgramFile(Latest)] = Configured
    BY DEF StartsFromBaseline
  <1>1. IsJob(job)
    BY BookTyped DEF ExpPlaces, ExperimentInv
  <1>2. KnowsBase(disk, job, evaluated)
    BY ChoiceDrained DEF Choice, ExperimentInv
  <1>3. StandsOn(disk, Configured)
    BY <1>1, <1>2 DEF KnowsBase, Starts, WillPatch, Configured
  <1> QED BY <1>3 DEF StandsOn, CanLoadLatest, Readable, ReadableIn, Exists, Latest

(* runner.rs 630: until it validates its patch, a new experiment runs on   *)
(* the program it was configured with, whatever other experiments and      *)
(* commands have left, if no configuration names a phase twice.            *)
THEOREM StartsAreBaselines == PhasesOnce => (Spec => []StartsFromBaseline)
  <1>1. PhasesOnce /\ ExperimentInv => StartsFromBaseline
    BY BaselineIsLatest
  <1>2. ASSUME PhasesOnce PROVE Spec => []StartsFromBaseline
    <2>1. ExperimentInv => StartsFromBaseline
      BY <1>1, <1>2
    <2> QED BY <2>1, ExperimentInvariance, PTL
  <1> QED BY <1>2

-----------------------------------------------------------------------------
(* What the semantic patch was evaluated on.                               *)

(* No patch of a command has the id of the semantic patch, or is nameless. *)
OwnIds == \A patch \in Patches : patch.id \notin {NoPatch, SemanticId}

PatchGiven(j) == j.at \in {"validate", "evaluate", "install"} => j.patch \in Patches

PlainBase(d, b) == b \in WholeIn(d) /\ d[MetadataFile(b)].patch # SemanticId
EvaluatedOk(d, ev) ==
  \A b, p : <<b, p>> \in ev => p.id # NoPatch /\ (p.id = SemanticId => PlainBase(d, b))

SemanticOnce == PatchGiven(job) /\ EvaluatedOk(disk, evaluated)

LEMMA PlainStays ==
  ASSUME NEW d, NEW e, KeepsVersions(d, e), NEW ev, EvaluatedOk(d, ev)
  PROVE  EvaluatedOk(e, ev)
  <1>1. ASSUME NEW b, PlainBase(d, b) PROVE PlainBase(e, b)
    <2>1. b \in WholeIn(e) /\ VersionIn(e, b) = VersionIn(d, b)
      BY <1>1 DEF PlainBase, KeepsVersions
    <2>2. VersionIn(e, b).patch = e[MetadataFile(b)].patch /\ VersionIn(d, b).patch = d[MetadataFile(b)].patch
      BY DEF VersionIn
    <2> QED BY <1>1, <2>1, <2>2 DEF PlainBase
  <1> QED BY <1>1 DEF EvaluatedOk

LEMMA EvaluatedOnce ==
  ASSUME NEW d, NEW ev, EvaluatedOk(d, ev), NEW b, NEW p, p.id # NoPatch,
         p.id = SemanticId => PlainBase(d, b), NEW more, more = ev \cup {<<b, p>>}
  PROVE  EvaluatedOk(d, more)
  BY DEF EvaluatedOk

LEMMA SemanticBase ==
  ASSUME NEW d, NEW ev, NEW n \in Nat, Registered(d, ev, Instr, n), EvaluatedOk(d, ev),
         ReadableIn(d, LatestFile)
  PROVE  PlainBase(d, BaseIn(d)) /\ BaseIn(d) \in 1 .. n
  <1> DEFINE v == d[LatestFile]
  <1>1. v \in 1 .. n /\ BaseIn(d) \in 1 .. n
    BY BaseExists, SemanticInstructions
  <1>2. WholeIn(d) = 1 .. n
    BY WholeVersions DEF Registered
  <1>3. v \in ListedIn(d)
    BY <1>1, <1>2 DEF WholeIn
  <1>4. CASE d[MetadataFile(v)].patch = SemanticId
    <2>1. BaseIn(d) = d[MetadataFile(v)].parent
      BY <1>3, <1>4 DEF BaseIn, SemanticIn
    <2>2. d[MetadataFile(v)].patch # NoPatch
      BY <1>4, SemanticHas
    <2>3. PICK patch : <<d[MetadataFile(v)].parent, patch>> \in ev /\ patch.id = SemanticId
      <3> HIDE DEF v
      <3>1. PICK patch : /\ <<d[MetadataFile(v)].parent, patch>> \in ev
                         /\ patch.id = d[MetadataFile(v)].patch
        BY <1>1, <2>2, SemanticParent
      <3> QED BY <1>4, <3>1
    <2> QED BY <1>1, <2>1, <2>3 DEF EvaluatedOk
  <1>5. CASE d[MetadataFile(v)].patch # SemanticId
    BY <1>1, <1>2, <1>5 DEF BaseIn, SemanticIn, PlainBase
  <1> QED BY <1>4, <1>5

LEMMA GateIsOnce ==
  ASSUME ExperimentInv, EvaluatedOk(disk, evaluated), NEW accepted, Gate(accepted)
  PROVE  EvaluatedOk(disk, evaluated')
  <1>1. job.at = "gate" /\ todo = <<>>
    BY DEF Gate, At
  <1>2. CASE ~accepted
    BY <1>2 DEF Gate
  <1>3. CASE accepted
    <2> DEFINE patch == Semantic(disk[PlanFile(job.exp)])
               base == job.base
               program == disk[ProgramFile(base)]
               last == job.program[Len(job.program)]
    <2>1. evaluated' = evaluated \cup {<<base, last>>}
      BY <1>3 DEF Gate
    <2>2. IsJob(job) /\ KnowsBase(disk, job, evaluated)
      BY <1>1, BookTyped, ChoiceDrained DEF ExperimentInv, Choice, ExpPlaces
    <2>3. Chosen(disk, job)
      BY <1>1, <2>2 DEF KnowsBase
    <2>4. PICK n \in Nat : Registered(disk, evaluated, Instr, n)
      BY <1>1, FromRest DEF ExperimentInv
    <2>5. program \in Seq(Instr) /\ PlainBase(disk, base)
      BY <2>3, <2>4, BaseExists, SemanticInstructions, SemanticBase DEF Chosen
    <2>6. job.program = Append(program, patch) /\ patch.id = SemanticId /\ SemanticId # NoPatch
      BY <2>3, SemanticHas DEF Chosen
    <2> HIDE DEF patch, program, base
    <2>7. last = patch
      BY <2>5, <2>6
    <2> HIDE DEF last
    <2>8. EvaluatedOk(disk, evaluated \cup {<<base, last>>})
      BY <2>5, <2>6, <2>7, EvaluatedOnce
    <2> QED BY <2>1, <2>8
  <1> QED BY <1>2, <1>3

LEMMA ExperimentKeepsOnce ==
  ASSUME ExperimentInv, SemanticOnce, ExperimentStep
  PROVE  SemanticOnce'
  <1>1. PatchGiven(job')
    <2>1. job'.at \notin {"validate", "evaluate", "install"}
      BY ExperimentGoesOn, ExpNotAsking DEF ExperimentInv, Asking
    <2> QED BY <2>1 DEF PatchGiven
  <1>2. evaluated' = evaluated \/ \E accepted \in BOOLEAN : Gate(accepted)
    BY DEF ExperimentStep, StartExperiment, Estimate, EnsureWorkflow, PassCompleted, SplitEvents,
           RunDirect, RunExactMemo, RunProfile, RunUnoptimized, RunInstalled, RunNoSemantic,
           ShadowAudit, OptimizePhase, MakeArtifacts, ReuseArtifacts, SelectBase,
           InstallSemantic, EvaluateQuality, Report, SkipPhase, Finish, Unchanged
  <1>3. EvaluatedOk(disk, evaluated')
    BY <1>2, GateIsOnce DEF SemanticOnce
  <1>4. disk' = disk
    BY ExperimentKeepsDisk
  <1> QED BY <1>1, <1>3, <1>4 DEF SemanticOnce

LEMMA InstallerKeepsOnce ==
  ASSUME OwnIds, ExperimentInv, ExperimentInv', SemanticOnce, InstallerStep
  PROVE  SemanticOnce'
  <1> DEFINE k == job'
             ev == evaluated'
             e == disk'
  <1>1. PatchGiven(Idle) /\ (NextAttempt => PatchGiven(k))
    <2>1. \A attempts, asked : PatchGiven([at |-> "ask", attempts |-> attempts, asked |-> asked])
      BY DEF PatchGiven
    <2>2. PatchGiven(Idle)
      BY DEF PatchGiven, Idle
    <2>3. ASSUME NextAttempt PROVE PatchGiven(k)
      <3>1. CASE job.attempts > 1
        <4>1. k = [at |-> "ask", attempts |-> job.attempts - 1, asked |-> job.asked]
          BY <2>3, <3>1 DEF NextAttempt
        <4> QED BY <2>1, <4>1
      <3>2. CASE ~(job.attempts > 1)
        <4>1. k = Idle
          BY <2>3, <3>2 DEF NextAttempt
        <4> QED BY <2>2, <4>1
      <3> QED BY <3>1, <3>2
    <2> QED BY <2>2, <2>3
  <1>2. CASE FileOperation
    <2>1. job' = job /\ evaluated' = evaluated
      BY <1>2 DEF FileOperation
    <2>2. HistoryEdge(disk, e)
      BY <1>2, FileOperationKeeps DEF ExperimentInv
    <2>3. IsRegistry(disk, evaluated, Instr)
      BY UnderWay DEF IsRegistry, ExperimentInv, Registry
    <2>4. IsRegistry(e, ev, Instr)
      <3> DEFINE q == todo'
      <3>1. RegistryInv(e, q, k, ev, Instr)
        BY DEF ExperimentInv, Registry
      <3> HIDE DEF q, k, ev, e
      <3> QED BY <3>1, UnderWay DEF IsRegistry
    <2> HIDE DEF e
    <2>5. KeepsVersions(disk, e)
      BY <2>1, <2>2, <2>3, <2>4, EdgeKeeps DEF ev
    <2>6. EvaluatedOk(e, evaluated)
      BY <2>5, PlainStays DEF SemanticOnce
    <2> QED BY <2>1, <2>6 DEF SemanticOnce, e
  <1>3. CASE disk' = disk /\ evaluated' = evaluated /\ PatchGiven(k)
    BY <1>3 DEF SemanticOnce
  <1>4. ASSUME NEW at \in {"validate", "evaluate", "install"}, At(at)
        PROVE  /\ job = [at |-> job.at, attempts |-> job.attempts, asked |-> job.asked,
                         patch |-> job.patch, base |-> job.base, program |-> job.program]
               /\ job.patch \in Patches
    <2>1. todo = <<>> /\ job.at = at
      BY <1>4 DEF At
    <2>2. PICK n \in Nat : JobOk(disk, job, evaluated, Instr, n)
      BY <2>1, FromRest DEF ExperimentInv
    <2> QED BY <2>1, <2>2 DEF JobOk, SemanticOnce, PatchGiven
  <1>5. CASE \E patch \in Patches : Propose(patch)
    <2>1. PICK patch \in Patches : Propose(patch)
      BY <1>5
    <2> QED BY <1>3, <2>1 DEF Propose, PatchGiven
  <1>6. CASE \E valid \in BOOLEAN : Validate(valid)
    <2>1. PICK valid : Validate(valid)
      BY <1>6
    <2>2. CASE valid
      <3> DEFINE program == Append(job.program, job.patch)
      <3>1. job' = [job EXCEPT !.at = "evaluate", !.program = program]
        BY <2>1, <2>2 DEF Validate
      <3>2. /\ job = [at |-> job.at, attempts |-> job.attempts, asked |-> job.asked,
                      patch |-> job.patch, base |-> job.base, program |-> job.program]
            /\ job.patch \in Patches
        BY <1>4, <2>1 DEF Validate
      <3> HIDE DEF program
      <3>3. job' = [at |-> "evaluate", attempts |-> job.attempts, asked |-> job.asked,
                    patch |-> job.patch, base |-> job.base, program |-> program]
        BY <3>1, <3>2, Zenon
      <3>4. PatchGiven(k)
        BY <3>2, <3>3 DEF PatchGiven
      <3> QED BY <1>3, <2>1, <3>4 DEF Validate
    <2>3. CASE ~valid
      BY <1>1, <1>3, <2>1, <2>3 DEF Validate
    <2> QED BY <2>2, <2>3
  <1>7. CASE \E accepted \in BOOLEAN : Evaluate(accepted)
    <2>1. PICK accepted : Evaluate(accepted)
      BY <1>7
    <2>2. CASE accepted
      <3>1. /\ job = [at |-> job.at, attempts |-> job.attempts, asked |-> job.asked,
                      patch |-> job.patch, base |-> job.base, program |-> job.program]
            /\ job.patch \in Patches
        BY <1>4, <2>1 DEF Evaluate
      <3>2. job' = [job EXCEPT !.at = "install"] /\ disk' = disk
            /\ evaluated' = evaluated \cup {<<job.base, job.patch>>}
        BY <2>1, <2>2 DEF Evaluate
      <3>3. job'.patch = job.patch
        BY <3>1, <3>2
      <3>4. job.patch.id # NoPatch /\ job.patch.id # SemanticId
        BY <3>1 DEF OwnIds
      <3> HIDE DEF ev
      <3>5. EvaluatedOk(disk, evaluated')
        BY <3>2, <3>4, EvaluatedOnce DEF SemanticOnce
      <3>6. PatchGiven(k)
        BY <3>1, <3>3 DEF PatchGiven
      <3> QED BY <3>2, <3>5, <3>6 DEF SemanticOnce
    <2>3. CASE ~accepted
      BY <1>1, <1>3, <2>1, <2>3 DEF Evaluate
    <2> QED BY <2>2, <2>3
  <1>8. CASE Install
    <2>1. CASE CanList
      <3>1. job' = [at |-> "installed", attempts |-> job.attempts, asked |-> job.asked]
        BY <1>8, <2>1 DEF Install
      <3>2. PatchGiven(k)
        BY <3>1 DEF PatchGiven
      <3> QED BY <1>3, <1>8, <3>2 DEF Install
    <2>2. CASE ~CanList
      BY <1>1, <1>3, <1>8, <2>2 DEF Install
    <2> QED BY <2>1, <2>2
  <1>9. CASE \E attempts \in 1 .. MaxAttempts : Optimize(attempts)
    <2>1. PICK attempts : Optimize(attempts)
      BY <1>9
    <2>2. PatchGiven(k)
      BY <2>1 DEF Optimize, PatchGiven
    <2> QED BY <1>3, <2>1, <2>2 DEF Optimize
  <1>10. CASE NoPatchReturned \/ EvaluationFails \/ Installed \/ Stop
    BY <1>1, <1>3, <1>10 DEF NoPatchReturned, EvaluationFails, Installed, Stop
  <1>11. CASE AttemptFails \/ \E base \in Bases : InitWorkflowCommand(base)
    <2>1. PatchGiven(k)
      BY <1>1, <1>11 DEF AttemptFails, InitWorkflowCommand, SemanticOnce
    <2> QED BY <1>3, <1>11, <2>1 DEF AttemptFails, InitWorkflowCommand
  <1> QED BY <1>2, <1>5, <1>6, <1>7, <1>8, <1>9, <1>10, <1>11 DEF InstallerStep

(* A base with no patch is one instruction, after which the semantic patch *)
(* moves no target.                                                        *)
LEMMA BaseIsStraight ==
  ASSUME ExperimentInv, SemanticOnce
  PROVE  SemanticPatchFits
  <1> SUFFICES ASSUME At("select"), CanSelect, \A v \in Whole : PatchOf(v) \in {NoPatch, SemanticPatch.id}
               PROVE  IsStraight(disk[ProgramFile(BaseVersion)])
    BY DEF SemanticPatchFits
  <1> DEFINE b == BaseVersion
             program == disk[ProgramFile(b)]
  <1>1. PICK n \in Nat : Registered(disk, evaluated, Instr, n)
    BY FromRest DEF ExperimentInv, At
  <1>2. ReadableIn(disk, LatestFile)
    BY DEF CanSelect, Readable, Exists, ReadableIn
  <1>3. PlainBase(disk, b) /\ b \in 1 .. n
    BY <1>1, <1>2, SemanticBase, BaseIs DEF SemanticOnce
  <1>4. Whole = WholeIn(disk)
    BY DEF Whole, WholeIn, Listed, ListedIn, Readable, Exists, ReadableIn
  <1>5. disk[MetadataFile(b)].patch = NoPatch
    <2>1. SemanticPatch.id = SemanticId
      BY SemanticHas DEF SemanticPatch
    <2>2. PatchOf(b) \in {NoPatch, SemanticId}
      BY <1>3, <1>4, <2>1 DEF PlainBase
    <2> QED BY <1>3, <2>2 DEF PlainBase, PatchOf
  <1>6. VersionOk(disk, evaluated, Instr, b)
    BY <1>1, <1>3 DEF Registered, RegistryOk
  <1> HIDE DEF b
  <1>7. ~IsPatched(disk, evaluated, disk[MetadataFile(b)], disk[ProgramFile(b)], b)
    <2> SUFFICES ASSUME NEW parent, NEW patch, <<parent, patch>> \in evaluated,
                        disk[MetadataFile(b)] = Metadata(parent, patch.id)
                 PROVE  FALSE
      BY DEF IsPatched
    <2>1. patch.id = NoPatch
      BY <1>5 DEF Metadata
    <2> QED BY <2>1 DEF SemanticOnce, EvaluatedOk
  <1>8. PICK base : program = <<base>>
    BY <1>6, <1>7 DEF VersionOk, IsBaseline
  <1>9. Len(program) = 1
    BY <1>8
  <1> HIDE DEF program
  <1>10. \A i \in 2 .. Len(program) : FALSE
    BY <1>9
  <1> QED BY <1>10 DEF IsStraight, program, b

(* runner.rs 2689: as long as only experiments have patched the workflow,  *)
(* the semantic patch is never refused for a branch that another semantic  *)
(* patch has put in, if no patch of a command takes its id.                *)
THEOREM SemanticFits == OwnIds => (Spec => []SemanticPatchFits)
  <1> SUFFICES ASSUME OwnIds PROVE Spec => []SemanticPatchFits
    OBVIOUS
  <1>1. InstallerInit => SemanticOnce
    BY DEF InstallerInit, SemanticOnce, PatchGiven, EvaluatedOk, Idle
  <1>2. ExperimentInv /\ ExperimentInv' /\ SemanticOnce /\ [ExperimentStep \/ InstallerStep]_vars
          => SemanticOnce'
    <2> SUFFICES ASSUME ExperimentInv, ExperimentInv', SemanticOnce,
                        [ExperimentStep \/ InstallerStep]_vars
                 PROVE  SemanticOnce'
      OBVIOUS
    <2>1. CASE UNCHANGED vars
      BY <2>1 DEF vars, installerVars, SemanticOnce
    <2> QED BY <2>1, ExperimentKeepsOnce, InstallerKeepsOnce
  <1>3. ExperimentInv /\ SemanticOnce => SemanticPatchFits
    BY BaseIsStraight
  <1> QED BY <1>1, <1>2, <1>3, ExperimentInvariance, PTL DEF Spec
-----------------------------------------------------------------------------
(* What a completed phase has left: the predictions of one run, whole, and *)
(* of patch_validation the verdict and a version of the program they are   *)
(* the predictions of.                                                     *)
Shown(d, x, file, run, program) ==
  Events # <<>> =>
    /\ Predictions(x, file) \in DOMAIN d
    /\ Len(d[Predictions(x, file)]) = Len(Events)
    /\ \A i \in DOMAIN Events : d[Predictions(x, file)][i] =
         [event |-> Events[i], run |-> run, program |-> program]

(* The predictions that are of one run, however often the phase was begun. *)
Told(ph) ==
  {RewrittenFile[p] : p \in {ph} \cap DOMAIN RewrittenFile}
    \cup {f \in {SplitFiles[i] : i \in DOMAIN SplitFiles} : ph = "patch_validation"}

OneRun(d, x, ph, file, runs) ==
  \E run, program : <<ph, run>> \in runs /\ Shown(d, x, file, run, program)

Accepted(d, x) == ReadableIn(d, GateFile(x)) /\ d[GateFile(x)]
Delivered(d, x) ==
  /\ Accepted(d, x)
  /\ ReadableIn(d, PatchInstallFile(x)) /\ d[PatchInstallFile(x)] \in WholeIn(d)
  /\ \E run : Shown(d, x, CandidateFile, run, VersionIn(d, d[PatchInstallFile(x)]).program)

Has(d, x, m) ==
  /\ \A ph \in CompletedOf(m) : \A file \in Told(ph) : OneRun(d, x, ph, file, m.runs)
  /\ "patch_validation" \in CompletedOf(m) => Delivered(d, x)

SameFile(d, e, path) ==
  (path \in DOMAIN d <=> path \in DOMAIN e) /\ (path \in DOMAIN d => e[path] = d[path])

(* What the phases done of experiment x have left is still there.          *)
Kept(d, e, x, done) ==
  /\ KeepsVersions(d, e)
  /\ \A ph \in done : \A file \in Told(ph) : SameFile(d, e, Predictions(x, file))
  /\ "patch_validation" \in done =>
       SameFile(d, e, GateFile(x)) /\ SameFile(d, e, PatchInstallFile(x))

LEMMA SplitNames ==
  /\ DOMAIN SplitFiles = {1, 2, 3}
  /\ CandidateFile = SplitFiles[3]
  /\ \A i \in {1, 2, 3} : SplitFiles[i] \in Told("patch_validation")
  /\ \A file \in Told("patch_validation") : \E i \in {1, 2, 3} : file = SplitFiles[i]
  /\ SplitFiles[1] # SplitFiles[2] /\ SplitFiles[1] # SplitFiles[3] /\ SplitFiles[2] # SplitFiles[3]
  BY PhaseFiles DEF SplitFiles, CandidateFile, Told

LEMMA ToldFiles ==
  ASSUME NEW ph, NEW file \in Told(ph)
  PROVE  /\ file \in FilesOf(ph)
         /\ ph \in DOMAIN RewrittenFile => file = RewrittenFile[ph]
         /\ ph \in DOMAIN RewrittenFile \cup {"patch_validation"}
  BY PhaseFiles DEF Told, FilesOf

(* A file is of one phase.                                                 *)
LEMMA FilesApart ==
  ASSUME NEW p, NEW q, NEW file \in FilesOf(p), file \in FilesOf(q)
  PROVE  p = q
  <1> DEFINE F == {<<"weak_only", "weak_only.heldout">>, <<"strong_direct", "strong_direct.heldout">>,
                   <<"cps_exact_memo_heldout", "cps_exact_memo.heldout">>,
                   <<"cps_generalized_patch_heldout", "cps_generalized_patch.heldout">>,
                   <<"adversarial_audit", "cps_generalized_patch.adversarial">>,
                   <<"cps_unoptimized_heldout", "cps_unoptimized.heldout">>,
                   <<"cps_generalized_patch_no_semantic_weak",
                     "cps_generalized_patch_no_semantic_weak.heldout">>,
                   <<"patch_validation", "strong_direct.patch_validation">>,
                   <<"patch_validation", "cps_exact_memo.patch_validation">>,
                   <<"patch_validation", "cps_generalized_patch.patch_validation">>}
  <1>1. /\ RewrittenFile["weak_only"] = "weak_only.heldout"
        /\ RewrittenFile["strong_direct"] = "strong_direct.heldout"
        /\ RewrittenFile["cps_exact_memo_heldout"] = "cps_exact_memo.heldout"
        /\ RewrittenFile["cps_generalized_patch_heldout"] = "cps_generalized_patch.heldout"
        /\ RewrittenFile["adversarial_audit"] = "cps_generalized_patch.adversarial"
    BY PhaseFiles DEF DirectFile, InstalledFile
  <1>2. ASSUME NEW r, file \in FilesOf(r)
        PROVE  <<r, file>> \in F
    <2>1. CASE \E s \in {r} \cap DOMAIN RewrittenFile : file = RewrittenFile[s]
      <3>1. r \in {"weak_only", "strong_direct", "cps_exact_memo_heldout",
                   "cps_generalized_patch_heldout", "adversarial_audit"} /\ file = RewrittenFile[r]
        BY <2>1, PhaseFiles
      <3> QED BY <1>1, <3>1
    <2>2. CASE file = UnoptimizedFile /\ r = "cps_unoptimized_heldout"
      BY <2>2 DEF UnoptimizedFile
    <2>3. CASE file = NoSemanticFile /\ r = "cps_generalized_patch_no_semantic_weak"
      BY <2>3 DEF NoSemanticFile
    <2>4. CASE r = "patch_validation" /\ \E i \in DOMAIN SplitFiles : file = SplitFiles[i]
      BY <2>4 DEF SplitFiles, CandidateFile
    <2> QED BY <1>2, <2>1, <2>2, <2>3, <2>4 DEF FilesOf
  <1> QED BY <1>2

LEMMA ShownStays ==
  ASSUME NEW d, NEW e, NEW x, NEW file, SameFile(d, e, Predictions(x, file)),
         NEW run, NEW program, Shown(d, x, file, run, program)
  PROVE  Shown(e, x, file, run, program)
  BY DEF Shown, SameFile

LEMMA HasStays ==
  ASSUME NEW d, NEW e, NEW x, NEW m, Has(d, x, m), Kept(d, e, x, CompletedOf(m))
  PROVE  Has(e, x, m)
  <1>1. ASSUME NEW ph \in CompletedOf(m), NEW file \in Told(ph)
        PROVE  OneRun(e, x, ph, file, m.runs)
    <2>1. OneRun(d, x, ph, file, m.runs) /\ SameFile(d, e, Predictions(x, file))
      BY DEF Has, Kept
    <2> QED BY <2>1, ShownStays DEF OneRun
  <1>2. ASSUME "patch_validation" \in CompletedOf(m)
        PROVE  Delivered(e, x)
    <2>1. /\ Delivered(d, x) /\ KeepsVersions(d, e)
          /\ SameFile(d, e, GateFile(x)) /\ SameFile(d, e, PatchInstallFile(x))
      BY <1>2 DEF Has, Kept
    <2>2. Accepted(e, x)
      BY <2>1 DEF Delivered, Accepted, SameFile, ReadableIn
    <2> DEFINE v == d[PatchInstallFile(x)]
    <2>3. ReadableIn(e, PatchInstallFile(x)) /\ e[PatchInstallFile(x)] = v /\ v \in WholeIn(d)
      BY <2>1 DEF Delivered, SameFile, ReadableIn
    <2> HIDE DEF v
    <2>4. v \in WholeIn(e) /\ VersionIn(e, v) = VersionIn(d, v)
      BY <2>1, <2>3 DEF KeepsVersions
    <2>5. SameFile(d, e, Predictions(x, CandidateFile))
      BY <1>2, SplitNames DEF Kept
    <2>6. PICK run : Shown(d, x, CandidateFile, run, VersionIn(d, v).program)
      BY <2>1 DEF Delivered, v
    <2>7. Shown(e, x, CandidateFile, run, VersionIn(e, v).program)
      BY <2>4, <2>5, <2>6, ShownStays
    <2> QED BY <2>2, <2>3, <2>4, <2>7 DEF Delivered
  <1> QED BY <1>1, <1>2 DEF Has

LEMMA KeptTwice ==
  ASSUME NEW d, NEW e, NEW f, NEW x, NEW done, Kept(d, e, x, done), Kept(e, f, x, done)
  PROVE  Kept(d, f, x, done)
  <1>1. KeepsVersions(d, f)
    BY KeepsTwice DEF Kept
  <1>2. \A p : SameFile(d, e, p) /\ SameFile(e, f, p) => SameFile(d, f, p)
    BY DEF SameFile
  <1> QED BY <1>1, <1>2 DEF Kept

LEMMA AgreeVersions ==
  ASSUME NEW d, NEW e, Agree(d, e, VersionKinds)
  PROVE  KeepsVersions(d, e)
  <1> SUFFICES ASSUME NEW v \in WholeIn(d)
               PROVE  v \in WholeIn(e) /\ VersionIn(e, v) = VersionIn(d, v)
    BY DEF KeepsVersions
  <1>1. /\ ProgramFile(v)[1] \in VersionKinds /\ MetadataFile(v)[1] \in VersionKinds
        /\ MetadataFile(v)[1] = "metadata" /\ MetadataFile(v)[2] = v
    BY PathsApart DEF VersionKinds
  <1>2. /\ MetadataFile(v) \in DOMAIN e /\ e[MetadataFile(v)] = d[MetadataFile(v)]
        /\ e[MetadataFile(v)] # Torn
    BY <1>1 DEF Agree, WholeIn, ReadableIn
  <1>3. v \in WholeIn(e)
    BY <1>1, <1>2 DEF WholeIn, ListedIn, ReadableIn
  <1>4. /\ ProgramFile(v) \in DOMAIN d <=> ProgramFile(v) \in DOMAIN e
        /\ ProgramFile(v) \in DOMAIN d => e[ProgramFile(v)] = d[ProgramFile(v)]
    BY <1>1 DEF Agree
  <1>5. VersionIn(e, v) = VersionIn(d, v)
    BY <1>2, <1>4 DEF VersionIn
  <1> QED BY <1>3, <1>5

ResultKinds == {"predictions", "gate", "patch_install"}

LEMMA AgreeKept ==
  ASSUME NEW d, NEW e, Agree(d, e, ResultKinds), KeepsVersions(d, e), NEW x, NEW done
  PROVE  Kept(d, e, x, done)
  <1>1. \A p : p[1] \in ResultKinds => SameFile(d, e, p)
    BY DEF Agree, SameFile
  <1>2. /\ \A f : Predictions(x, f)[1] \in ResultKinds
        /\ GateFile(x)[1] \in ResultKinds /\ PatchInstallFile(x)[1] \in ResultKinds
    BY ExperimentPaths DEF ResultKinds
  <1> QED BY <1>1, <1>2 DEF Kept

(* Files of phase ph of experiment x concern no phase that is done.        *)
LEMMA OwnedKept ==
  ASSUME NEW d, NEW e, NEW paths, NEW removed, Follows(d, e, paths, removed),
         NEW x, NEW ph, \A q \in paths : Owned(q, x, ph),
         NEW y, NEW done, y = x => ph \notin done
  PROVE  Kept(d, e, y, done)
  <1>1. \A q : q \notin paths => SameFile(d, e, q)
    BY DEF Follows, SameFile
  <1>2. Agree(d, e, VersionKinds)
    <2>1. \A q : q[1] \in VersionKinds => q \notin paths
      BY DEF Owned
    <2> QED BY <1>1, <2>1 DEF Agree, SameFile
  <1>3. ASSUME NEW p \in done, NEW file \in Told(p)
        PROVE  Predictions(y, file) \notin paths
    <2>1. SUFFICES ASSUME Owned(Predictions(y, file), x, ph) PROVE FALSE
      OBVIOUS
    <2>2. PICK f \in FilesOf(ph) : Predictions(y, file) = Predictions(x, f)
      BY <2>1, ExperimentPaths DEF Owned
    <2>3. y = x /\ file = f
      <3>1. /\ Predictions(y, file)[2] = y /\ Predictions(x, f)[2] = x
            /\ Predictions(y, file)[3] = file /\ Predictions(x, f)[3] = f
        BY ExperimentPaths
      <3> QED BY <2>2, <3>1
    <2>4. p = ph
      BY <2>2, <2>3, ToldFiles, FilesApart
    <2> QED BY <2>3, <2>4
  <1>4. ASSUME "patch_validation" \in done
        PROVE  GateFile(y) \notin paths /\ PatchInstallFile(y) \notin paths
    <2>1. \A q \in {GateFile(y), PatchInstallFile(y)} :
            q[1] \in {"gate", "patch_install"} /\ q[2] = y
      BY ExperimentPaths
    <2>2. \A q \in {GateFile(y), PatchInstallFile(y)} : ~Owned(q, x, ph)
      BY <1>4, <2>1 DEF Owned
    <2> QED BY <2>2
  <1> QED BY <1>1, <1>2, <1>3, <1>4, AgreeVersions DEF Kept

-----------------------------------------------------------------------------
(* What was left is there on each of the disks the queue goes over.        *)
ResultsOk(d) ==
  \A x \in Experiments : ReadableIn(d, ManifestFile(x)) => Has(d, x, d[ManifestFile(x)])

SplitShown(d, j, i, program) ==
  Shown(d, j.exp, SplitFiles[i], <<SplitFiles[i], j.run>>, program)
JobResults(d, j) ==
  IsJob(j) =>
    /\ Has(d, j.exp, j.manifest)
    /\ j.at \in {"gate", "install_semantic"} =>
         /\ \A i \in {1, 2, 3} : \E program : SplitShown(d, j, i, program)
         /\ SplitShown(d, j, 3, j.program)
    /\ j.at = "install_semantic" => Accepted(d, j.exp)

ResultsInv(d, queue, j) ==
  \E e, disks : /\ Goes(d, queue, e, disks)
                /\ \A x \in disks : ResultsOk(x)
                /\ JobResults(e, j)

LEMMA ResultsElsewhere ==
  ASSUME NEW d, NEW e, ResultsOk(d), SameManifests(d, e),
         \A x \in Experiments : ReadableIn(d, ManifestFile(x)) =>
           Kept(d, e, x, CompletedOf(d[ManifestFile(x)]))
  PROVE  ResultsOk(e)
  <1> SUFFICES ASSUME NEW x \in Experiments, ReadableIn(e, ManifestFile(x))
               PROVE  Has(e, x, e[ManifestFile(x)])
    BY DEF ResultsOk
  <1>1. ReadableIn(d, ManifestFile(x)) /\ e[ManifestFile(x)] = d[ManifestFile(x)]
    BY DEF SameManifests
  <1>2. Has(d, x, d[ManifestFile(x)])
    BY <1>1 DEF ResultsOk
  <1> QED BY <1>1, <1>2, HasStays

LEMMA ResultsAgree ==
  ASSUME NEW d, NEW e, ResultsOk(d), Agree(d, e, ResultKinds \cup {"manifest"}), KeepsVersions(d, e)
  PROVE  /\ ResultsOk(e) /\ SameManifests(d, e) /\ \A x, done : Kept(d, e, x, done)
         /\ \A x, m : Has(d, x, m) => Has(e, x, m)
  <1>1. SameManifests(d, e)
    BY ExperimentPaths DEF Agree, SameManifests, ReadableIn
  <1>2. Agree(d, e, ResultKinds)
    BY DEF Agree
  <1>3. \A x, done : Kept(d, e, x, done)
    BY <1>2, AgreeKept
  <1> QED BY <1>1, <1>3, ResultsElsewhere, HasStays

LEMMA ResultsDrained ==
  ASSUME NEW d, NEW queue, NEW j, ResultsInv(d, queue, j)
  PROVE  ResultsOk(d) /\ (queue = <<>> => JobResults(d, j))
  <1>1. PICK e, disks : /\ Goes(d, queue, e, disks)
                        /\ \A x \in disks : ResultsOk(x)
                        /\ JobResults(e, j)
    BY DEF ResultsInv
  <1>2. d \in disks
    BY <1>1 DEF Goes
  <1>3. queue = <<>> => e = d
    BY <1>1, GoesDrained
  <1> QED BY <1>1, <1>2, <1>3

LEMMA ResultsAfter ==
  ASSUME NEW d, NEW e, NEW disks, NEW queue, NEW more, NEW k,
         Goes(d, queue, e, disks), \A x \in disks : ResultsOk(x), ResultsInv(e, more, k)
  PROVE  ResultsInv(d, queue \o more, k)
  <1>1. PICK f, others : /\ Goes(e, more, f, others)
                         /\ \A x \in others : ResultsOk(x)
                         /\ JobResults(f, k)
    BY DEF ResultsInv
  <1> DEFINE all == disks \cup others
  <1>2. Goes(d, queue \o more, f, all)
    BY <1>1, GoesOn
  <1>3. \A x \in all : ResultsOk(x)
    BY <1>1
  <1> HIDE DEF all
  <1> QED BY <1>1, <1>2, <1>3 DEF ResultsInv

LEMMA ResultsPut ==
  ASSUME NEW d, ResultsOk(d), NEW path, path[1] \notin ResultKinds \cup VersionKinds \cup {"manifest"},
         NEW content, NEW e, e = PutIn(d, path, content)
  PROVE  ResultsOk(e) /\ \A x, m : Has(d, x, m) => Has(e, x, m)
  <1>1. Agree(d, e, ResultKinds \cup {"manifest"}) /\ Agree(d, e, VersionKinds)
    BY PutInAgrees
  <1> QED BY <1>1, AgreeVersions, ResultsAgree

LEMMA ResultsManifest ==
  ASSUME NEW d, ResultsOk(d), NEW x, NEW content, content # Torn => Has(d, x, content),
         NEW e, e = PutIn(d, ManifestFile(x), content)
  PROVE  ResultsOk(e) /\ \A y, m : Has(d, y, m) => Has(e, y, m)
  <1>1. ManifestFile(x)[1] \notin ResultKinds \cup VersionKinds
    BY ExperimentPaths DEF ResultKinds, VersionKinds
  <1>2. Agree(d, e, ResultKinds) /\ Agree(d, e, VersionKinds)
    BY <1>1, PutInAgrees
  <1>3. \A y, m : Has(d, y, m) => Has(e, y, m)
    BY <1>2, AgreeVersions, AgreeKept, HasStays
  <1>4. ASSUME NEW y \in Experiments, ReadableIn(e, ManifestFile(y))
        PROVE  Has(e, y, e[ManifestFile(y)])
    <2>1. CASE y = x
      <3>1. content # Torn /\ e[ManifestFile(y)] = content
        BY <1>4, <2>1, PutReads
      <3> QED BY <1>3, <2>1, <3>1
    <2>2. CASE y # x
      <3>1. ManifestFile(y) # ManifestFile(x)
        BY <2>2, BookPathsApart
      <3>2. ReadableIn(d, ManifestFile(y)) /\ e[ManifestFile(y)] = d[ManifestFile(y)]
        BY <1>4, <3>1, PutReads
      <3> QED BY <1>3, <3>2 DEF ResultsOk
    <2> QED BY <2>1, <2>2
  <1> QED BY <1>3, <1>4 DEF ResultsOk

(* A job between two phases.                                               *)
Between(k, x, manifest) == IsJob(k) /\ k.at = "phase" /\ k.exp = x /\ k.manifest = manifest

LEMMA ResultsRecorded ==
  ASSUME NEW d, ResultsOk(d), NEW x, NEW ph, NEW word, NEW manifest, Has(d, x, manifest),
         NEW k, Between(k, x, manifest)
  PROVE  ResultsInv(d, Recording(x, ph, word, manifest), k)
  <1> DEFINE t2 == PutIn(d, MarkerFile(x, ph), Torn)
             e2 == PutIn(d, MarkerFile(x, ph), word)
             t3 == PutIn(e2, ManifestFile(x), Torn)
             e3 == PutIn(e2, ManifestFile(x), manifest)
             disks == {d, t2, e2} \cup {e2, t3, e3}
             queue == Recording(x, ph, word, manifest)
  <1>1. Goes(d, queue, e3, disks)
    BY GoesTwoWrites DEF Recording
  <1> HIDE DEF t2, e2, t3, e3, queue
  <1>2. MarkerFile(x, ph)[1] \notin ResultKinds \cup VersionKinds \cup {"manifest"}
    BY ExperimentPaths DEF ResultKinds, VersionKinds
  <1>3. ResultsOk(t2)
    BY <1>2, ResultsPut DEF t2
  <1>4. ResultsOk(e2) /\ Has(e2, x, manifest)
    BY <1>2, ResultsPut DEF e2
  <1>5. ResultsOk(t3)
    BY <1>4, ResultsManifest DEF t3
  <1>6. ResultsOk(e3) /\ Has(e3, x, manifest)
    BY <1>4, ResultsManifest DEF e3
  <1>7. \A f \in disks : ResultsOk(f)
    BY <1>3, <1>4, <1>5, <1>6
  <1>8. JobResults(e3, k)
    BY <1>6 DEF Between, JobResults
  <1> HIDE DEF disks
  <1> QED BY <1>1, <1>7, <1>8 DEF ResultsInv, queue


QuietKinds == ResultKinds \cup {"manifest"}

LEMMA ResultsQuiet ==
  ASSUME NEW d, ResultsOk(d), NEW queue, NEW k, NEW ev, NEW P, Spared(queue, QuietKinds),
         NEW e, NEW n \in Nat, Safe(d, queue, e, k, ev, P), Registered(e, ev, P, n),
         \A f : Agree(d, f, QuietKinds) /\ KeepsVersions(d, f) => JobResults(f, k)
  PROVE  ResultsInv(d, queue, k)
  <1>1. PICK disks : /\ Goes(d, queue, e, disks)
                     /\ \A x \in disks : Agree(d, x, QuietKinds) /\ KeepsVersions(d, x)
    BY SafeGoes
  <1>2. \A x \in disks : ResultsOk(x)
    BY <1>1, ResultsAgree DEF QuietKinds
  <1>3. e \in disks
    BY <1>1 DEF Goes
  <1> QED BY <1>1, <1>2, <1>3 DEF ResultsInv

-----------------------------------------------------------------------------
(* The results through the steps.                                          *)
Results == ResultsInv(disk, todo, job)

LEMMA RegistryWay ==
  ASSUME NEW P, Registry(P)'
  PROVE  \E e : \E n \in Nat : /\ Safe(disk', todo', e, job', evaluated', P)
                               /\ Registered(e, evaluated', P, n)
  BY DEF Registry, RegistryInv, Ends

LEMMA QuietStep ==
  ASSUME Results, Registry(Instr)', disk' = disk, Spared(todo', QuietKinds),
         \A f : Agree(disk, f, QuietKinds) /\ KeepsVersions(disk, f) => JobResults(f, job')
  PROVE  Results'
  <1> DEFINE k == job'
             q == todo'
             ev == evaluated'
  <1>1. \E e : \E n \in Nat : Safe(disk, q, e, k, ev, Instr) /\ Registered(e, ev, Instr, n)
    BY RegistryWay
  <1>2. /\ ResultsOk(disk) /\ Spared(q, QuietKinds)
        /\ \A f : Agree(disk, f, QuietKinds) /\ KeepsVersions(disk, f) => JobResults(f, k)
    BY ResultsDrained DEF Results
  <1> HIDE DEF k, q, ev
  <1>3. ResultsInv(disk, q, k)
    BY <1>1, <1>2, ResultsQuiet
  <1> QED BY <1>3 DEF Results, k, q

(* A job that stops has nothing to show.                                   *)
LEMMA ResultsStop ==
  ASSUME Results, Registry(Instr)', disk' = disk, Spared(todo', QuietKinds), ~IsJob(job')
  PROVE  Results'
  <1>1. \A f : JobResults(f, job')
    BY DEF JobResults
  <1> QED BY <1>1, QuietStep

(* A job that goes on somewhere else with what it has recorded.            *)
LEMMA ResultsMove ==
  ASSUME Results, Registry(Instr)', disk' = disk, Spared(todo', QuietKinds),
         Has(disk, job'.exp, job'.manifest), job'.at \notin {"gate", "install_semantic"}
  PROVE  Results'
  <1> DEFINE k == job'
  <1>1. ResultsOk(disk) /\ Has(disk, k.exp, k.manifest) /\ k.at \notin {"gate", "install_semantic"}
    BY ResultsDrained DEF Results
  <1> HIDE DEF k
  <1>2. ASSUME NEW f, Agree(disk, f, QuietKinds), KeepsVersions(disk, f)
        PROVE  JobResults(f, k)
    <2>1. Has(f, k.exp, k.manifest)
      BY <1>1, <1>2, ResultsAgree DEF QuietKinds
    <2> QED BY <1>1, <2>1 DEF JobResults
  <1>3. \A f : Agree(disk, f, QuietKinds) /\ KeepsVersions(disk, f) => JobResults(f, job')
    BY <1>2 DEF k
  <1> QED BY <1>3, QuietStep

LEMMA GrowsCompleted ==
  ASSUME NEW m, NEW n, Grows(m, n)
  PROVE  CompletedOf(m) \subseteq CompletedOf(n)
  <1> SUFFICES ASSUME NEW ph \in CompletedOf(m) PROVE ph \in CompletedOf(n)
    OBVIOUS
  <1>1. <<ph, "completed">> \in Marks(n)
    BY DEF Grows, Marks
  <1> QED BY <1>1 DEF Marks

(* A phase at work is not among those that are done.                       *)
LEMMA PhaseIsNew ==
  ASSUME Book, PhasesOnce, IsJob(job), todo = <<>>, job.left # <<>>, Phase \in KnownPhases \ job.done
  PROVE  /\ Phase \notin CompletedOf(job.manifest)
         /\ ReadableIn(disk, ManifestFile(job.exp)) =>
              Phase \notin CompletedOf(disk[ManifestFile(job.exp)])
  <1> DEFINE phases == job.config.phases
             completed == job.manifest.completed
             ph == Phase
             left == job.left
             done == job.done
             more == Append(completed, ph)
  <1>1. ph = Head(left) /\ ph \in KnownPhases /\ ph \notin done /\ left # <<>>
    BY DEF Phase
  <1>2. PICK m, n : Position(phases, left, completed, done, m, n)
    BY JobFacts DEF Reaches
  <1>3. /\ phases \in Seq(STRING) /\ completed \in Seq(KnownPhases) /\ InOrder(completed, phases)
        /\ Distinct(phases)
    BY JobFacts
  <1>4. more = Append(completed, ph)
    OBVIOUS
  <1> HIDE DEF ph, phases, completed, left, done, more
  <1>5. /\ Reaches(phases, Tail(left), more, done)
        /\ InOrder(more, phases)
        /\ Distinct(phases) => ph \notin {completed[i] : i \in DOMAIN completed}
    BY <1>1, <1>2, <1>3, <1>4, PositionCompletes
  <1>6. ph \notin CompletedOf(job.manifest)
    BY <1>3, <1>5 DEF CompletedOf, completed
  <1>7. ReadableIn(disk, ManifestFile(job.exp)) => Grows(disk[ManifestFile(job.exp)], job.manifest)
    BY JobFacts DEF JobBook
  <1> QED BY <1>6, <1>7, GrowsCompleted DEF ph

(* The files of a phase are no results of others.                          *)
LEMMA OwnedResults ==
  ASSUME Book, PhasesOnce, Results, IsJob(job), todo = <<>>, job.left # <<>>,
         Phase \in KnownPhases \ job.done,
         NEW d, ResultsOk(d), Has(d, job.exp, job.manifest), SameManifests(disk, d),
         NEW e, NEW paths, NEW removed, Follows(d, e, paths, removed),
         \A q \in paths : Owned(q, job.exp, Phase)
  PROVE  ResultsOk(e) /\ Has(e, job.exp, job.manifest) /\ SameManifests(disk, e)
  <1>1. /\ Phase \notin CompletedOf(job.manifest)
        /\ ReadableIn(disk, ManifestFile(job.exp)) =>
             Phase \notin CompletedOf(disk[ManifestFile(job.exp)])
    BY PhaseIsNew
  <1>2. SameManifests(d, e)
    <2>1. \A x : ManifestFile(x) \notin paths
      BY ExperimentPaths DEF Owned, BookKinds
    <2> QED BY <2>1 DEF SameManifests, Follows, ReadableIn
  <1> DEFINE x == job.exp
             ph == Phase
  <1>3. ASSUME NEW y, NEW done, y = x => ph \notin done
        PROVE  Kept(d, e, y, done)
    <2> HIDE DEF x, ph
    <2>1. \A q \in paths : Owned(q, x, ph)
      BY DEF x, ph
    <2> QED BY <1>3, <2>1, OwnedKept
  <1>4. Has(e, x, job.manifest)
    BY <1>1, <1>3, HasStays
  <1>5. ASSUME NEW y \in Experiments, ReadableIn(d, ManifestFile(y))
        PROVE  Kept(d, e, y, CompletedOf(d[ManifestFile(y)]))
    <2>1. ReadableIn(disk, ManifestFile(y)) /\ d[ManifestFile(y)] = disk[ManifestFile(y)]
      BY <1>5 DEF SameManifests
    <2>2. y = x => ph \notin CompletedOf(d[ManifestFile(y)])
      BY <1>1, <2>1
    <2> QED BY <1>3, <2>2
  <1>6. ResultsOk(e)
    BY <1>2, <1>5, ResultsElsewhere
  <1>7. SameManifests(disk, e)
    BY <1>2 DEF SameManifests
  <1> QED BY <1>4, <1>6, <1>7

-----------------------------------------------------------------------------
(* What a phase leaves behind before it is written down.                   *)
LEMMA WaysOn ==
  ASSUME NEW d, NEW p, NEW e, NEW q, NEW f, NEW A, NEW B, NEW paths, NEW removed,
         Ways(d, p, e, A, paths, removed), Ways(e, q, f, B, paths, removed)
  PROVE  Ways(d, p \o q, f, A \cup B, paths, removed)
  <1>1. Goes(d, p \o q, f, A \cup B)
    BY GoesOn DEF Ways
  <1>2. e \in A
    BY DEF Ways, Goes
  <1>3. \A x \in A \cup B : Follows(d, x, paths, removed)
    BY <1>2, FollowsFurther DEF Ways
  <1> QED BY <1>1, <1>3 DEF Ways

LEMMA FollowsMore ==
  ASSUME NEW d, NEW e, NEW paths, NEW removed, NEW more, NEW gone,
         paths \subseteq more, removed \subseteq gone, Follows(d, e, paths, removed)
  PROVE  Follows(d, e, more, gone)
  BY DEF Follows

LEMMA ClearedGoes ==
  ASSUME NEW d, NEW path, NEW there, there <=> path \in DOMAIN d
  PROVE  \E e, disks : Ways(d, Cleared(there, path), e, disks, {path}, {path}) /\ path \notin DOMAIN e
  <1>1. CASE there
    <2> DEFINE o == RemoveFile(path)
               e == Done(d, o)
               disks == {d, Half(d, o), e}
    <2>1. IsPlain(o) /\ o.path = path /\ o.op = "remove"
      BY DEF IsPlain, RemoveFile, Operations
    <2>2. path \notin DOMAIN e
      BY <2>1 DEF Done
    <2> HIDE DEF o
    <2>3. Goes(d, <<o>>, e, disks)
      BY <2>1, GoesStep
    <2>4. \A x \in disks : Follows(d, x, {path}, {path})
      BY <2>1, DoneFollows, FollowsSelf
    <2>5. Cleared(there, path) = <<o>>
      BY <1>1 DEF Cleared, o
    <2> HIDE DEF e, disks
    <2>6. Ways(d, Cleared(there, path), e, disks, {path}, {path})
      BY <2>3, <2>4, <2>5 DEF Ways
    <2> QED BY <2>2, <2>6
  <1>2. CASE ~there
    <2> DEFINE disks == {d}
    <2>1. Cleared(there, path) = <<>>
      BY <1>2 DEF Cleared
    <2>2. Goes(d, <<>>, d, disks) /\ \A x \in disks : Follows(d, x, {path}, {path})
      BY GoesNowhere, FollowsSelf
    <2> HIDE DEF disks
    <2>3. Ways(d, Cleared(there, path), d, disks, {path}, {path})
      BY <2>1, <2>2 DEF Ways
    <2> QED BY <1>2, <2>3
  <1> QED BY <1>1, <1>2

LEMMA ShownByLines ==
  ASSUME NEW e, NEW file, NEW program,
         HoldsLines(e, Predictions(job.exp, file), RecordsOf(job, file, program),
                    Len(RecordsOf(job, file, program)))
  PROVE  Shown(e, job.exp, file, Run(file), program)
  <1> DEFINE records == RecordsOf(job, file, program)
             path == Predictions(job.exp, file)
  <1>1. PICK S : records \in Seq(S)
    BY RecordsFacts
  <1>2. /\ Len(records) = Len(Events)
        /\ \A i \in DOMAIN Events : records[i] =
             [event |-> Events[i], run |-> <<file, job.run>>, program |-> program]
    BY RecordsFacts
  <1> HIDE DEF records, path
  <1> SUFFICES ASSUME Events # <<>>
               PROVE  /\ path \in DOMAIN e /\ Len(e[path]) = Len(Events)
                      /\ \A i \in DOMAIN Events : e[path][i] = records[i]
    BY <1>2 DEF Shown, path, Run
  <1>3. Events \in Seq(STRING)
    BY ExperimentAssumption
  <1>4. Len(records) # 0
    BY <1>2, <1>3
  <1>5. path \in DOMAIN e /\ e[path] = SubSeq(records, 1, Len(records))
    BY <1>4 DEF HoldsLines, records, path
  <1>6. SubSeq(records, 1, Len(records)) = records
    BY <1>1
  <1> QED BY <1>2, <1>5, <1>6

LEMMA RewrittenGoes ==
  ASSUME NEW d, NEW file, NEW program,
         Exists(Predictions(job.exp, file)) <=> Predictions(job.exp, file) \in DOMAIN d
  PROVE  \E e, disks : /\ Ways(d, Rewritten(file, program), e, disks,
                               {Predictions(job.exp, file)}, {Predictions(job.exp, file)})
                       /\ Shown(e, job.exp, file, Run(file), program)
  <1> DEFINE records == RecordsOf(job, file, program)
             path == Predictions(job.exp, file)
             there == Exists(path)
             own == {path}
  <1>1. Rewritten(file, program) = Cleared(there, path) \o LinesOf(path, records)
    BY LinesAre
  <1>2. PICK S : records \in Seq(S)
    BY RecordsFacts
  <1>3. there <=> path \in DOMAIN d
    OBVIOUS
  <1>4. \A e : HoldsLines(e, path, records, Len(records)) => Shown(e, job.exp, file, Run(file), program)
    BY ShownByLines
  <1> HIDE DEF records, path, there
  <1>5. PICK f, A : Ways(d, Cleared(there, path), f, A, own, own) /\ path \notin DOMAIN f
    BY <1>3, ClearedGoes
  <1>6. PICK e, B : /\ Ways(f, LinesOf(path, records), e, B, own, {})
                    /\ HoldsLines(e, path, records, Len(records))
    BY <1>2, <1>5, LinesGo
  <1> HIDE DEF own
  <1>7. Ways(f, LinesOf(path, records), e, B, own, own)
    BY <1>6, FollowsMore DEF Ways
  <1>8. Ways(d, Rewritten(file, program), e, A \cup B, own, own)
    BY <1>1, <1>5, <1>7, WaysOn
  <1> QED BY <1>4, <1>6, <1>8 DEF own, path

AtWork ==
  /\ Book /\ PhasesOnce /\ Results /\ IsJob(job) /\ todo = <<>> /\ job.left # <<>>
  /\ Phase \in KnownPhases \ job.done

(* On the way from the disk, what was recorded is there.                   *)
Intact(d) == ResultsOk(d) /\ Has(d, job.exp, job.manifest) /\ SameManifests(disk, d)
Leaves(queue, e, disks) == Goes(disk, queue, e, disks) /\ \A d \in disks : Intact(d)

LEMMA WorkerKnows ==
  ASSUME AtWork
  PROVE  ResultsOk(disk) /\ JobResults(disk, job) /\ Intact(disk)
  <1>1. ResultsOk(disk) /\ JobResults(disk, job)
    BY ResultsDrained DEF AtWork, Results
  <1> QED BY <1>1 DEF AtWork, JobResults, Intact, SameManifests

LEMMA OwnedIntact ==
  ASSUME AtWork, NEW d, Intact(d), NEW e, NEW paths, NEW removed, Follows(d, e, paths, removed),
         \A q \in paths : Owned(q, job.exp, Phase)
  PROVE  Intact(e)
  BY OwnedResults DEF AtWork, Intact

LEMMA LeavesNothing ==
  ASSUME AtWork
  PROVE  Leaves(<<>>, disk, {disk})
  BY WorkerKnows, GoesNowhere DEF Leaves

LEMMA LeavesWays ==
  ASSUME AtWork, NEW p, NEW d, NEW A, Leaves(p, d, A),
         NEW q, NEW e, NEW B, NEW paths, NEW removed, Ways(d, q, e, B, paths, removed),
         \A path \in paths : Owned(path, job.exp, Phase)
  PROVE  Leaves(p \o q, e, A \cup B)
  <1>1. Intact(d)
    BY DEF Leaves, Goes
  <1>2. \A f \in B : Intact(f)
    <2> SUFFICES ASSUME NEW f \in B PROVE Intact(f)
      OBVIOUS
    <2>1. Follows(d, f, paths, removed)
      BY DEF Ways
    <2> QED BY <1>1, <2>1, OwnedIntact
  <1>3. Goes(disk, p \o q, e, A \cup B)
    BY GoesOn DEF Leaves, Ways
  <1> QED BY <1>2, <1>3 DEF Leaves

LEMMA LeavesOwned ==
  ASSUME AtWork, NEW queue, OwnedQueue(queue, job.exp, Phase)
  PROVE  \E e, disks : Leaves(queue, e, disks)
  <1>1. PICK paths, removed : /\ Within(queue, paths, removed)
                              /\ \A q \in paths : Owned(q, job.exp, Phase)
    BY DEF OwnedQueue
  <1>2. PICK e, B : Ways(disk, queue, e, B, paths, removed)
    BY <1>1, WithinGoes
  <1>3. Intact(disk)
    BY WorkerKnows
  <1>4. \A f \in B : Intact(f)
    <2> SUFFICES ASSUME NEW f \in B PROVE Intact(f)
      OBVIOUS
    <2>1. Follows(disk, f, paths, removed)
      BY <1>2 DEF Ways
    <2> QED BY <1>1, <1>3, <2>1, OwnedIntact
  <1>5. Leaves(queue, e, B)
    BY <1>2, <1>4 DEF Leaves, Ways
  <1> QED BY <1>5

LEMMA OfferSpared ==
  ASSUME NEW offered, NEW kinds, "record" \notin kinds
  PROVE  Spared(Offer(offered), kinds)
  <1>1. \A s, patch, target : Spared(Record(s, patch, target), kinds)
    <2> TAKE s, patch, target
    <2>1. RecordFile(s, patch)[1] \notin kinds
      BY PathsApart
    <2> QED BY <2>1, SparedWrite DEF Record
  <1>2. CASE offered = {}
    BY <1>2, SparedNone DEF Offer
  <1>3. CASE offered # {}
    <2> DEFINE patch == CHOOSE p \in offered : TRUE
               a == Record("proposed", patch, Latest)
               b == Record("validated", patch, Latest)
    <2>1. Offer(offered) = a \o b
      BY <1>3 DEF Offer
    <2>2. Spared(a, kinds) /\ Spared(b, kinds)
      BY <1>1
    <2> HIDE DEF a, b
    <2> QED BY <2>1, <2>2, SparedJoin
  <1> QED BY <1>2, <1>3

LEMMA AgreeIntact ==
  ASSUME AtWork, NEW e, Agree(disk, e, ResultKinds \cup VersionKinds \cup {"manifest"})
  PROVE  Intact(e)
  <1>1. Agree(disk, e, ResultKinds \cup {"manifest"}) /\ Agree(disk, e, VersionKinds)
    BY DEF Agree
  <1>2. ResultsOk(disk) /\ Has(disk, job.exp, job.manifest)
    BY WorkerKnows DEF Intact
  <1>3. ResultsOk(e) /\ SameManifests(disk, e) /\ Has(e, job.exp, job.manifest)
    BY <1>1, <1>2, AgreeVersions, ResultsAgree
  <1> QED BY <1>3 DEF Intact

LEMMA LeavesOffer ==
  ASSUME AtWork, NEW offered
  PROVE  \E e, disks : /\ Leaves(Offer(offered), e, disks)
                       /\ Agree(disk, e, ResultKinds \cup VersionKinds \cup {"manifest"})
  <1> DEFINE kinds == ResultKinds \cup VersionKinds \cup {"manifest"}
  <1>1. "record" \notin kinds
    BY DEF ResultKinds, VersionKinds
  <1>2. \A e : Agree(disk, e, kinds) => Intact(e)
    BY AgreeIntact
  <1> HIDE DEF kinds
  <1>3. PICK e, disks : /\ Goes(disk, Offer(offered), e, disks)
                        /\ \A x \in disks : Agree(disk, x, kinds)
    BY <1>1, OfferSpared, SparedGoes
  <1>4. Leaves(Offer(offered), e, disks) /\ Agree(disk, e, kinds)
    BY <1>2, <1>3 DEF Leaves, Goes
  <1> QED BY <1>4 DEF kinds

(* A file of predictions is rewritten.                                     *)
LEMMA LeavesRewritten ==
  ASSUME AtWork, NEW p, NEW d, NEW A, Leaves(p, d, A), NEW file \in FilesOf(Phase), NEW program,
         Exists(Predictions(job.exp, file)) <=> Predictions(job.exp, file) \in DOMAIN d
  PROVE  \E e, B : /\ Leaves(p \o Rewritten(file, program), e, B)
                   /\ Shown(e, job.exp, file, Run(file), program)
                   /\ \A q : q # Predictions(job.exp, file) => SameFile(d, e, q)
  <1> DEFINE path == Predictions(job.exp, file)
             own == {path}
  <1>1. PICK e, B : /\ Ways(d, Rewritten(file, program), e, B, own, own)
                    /\ Shown(e, job.exp, file, Run(file), program)
    BY RewrittenGoes
  <1>2. \A q \in own : Owned(q, job.exp, Phase)
    BY PredictionsOwned
  <1>3. \A q : q \notin own => SameFile(d, e, q)
    BY <1>1 DEF Ways, Goes, Follows, SameFile
  <1>4. \A q : q # path => SameFile(d, e, q)
    BY <1>3
  <1> HIDE DEF own, path
  <1>5. Leaves(p \o Rewritten(file, program), e, A \cup B)
    BY <1>1, <1>2, LeavesWays
  <1> QED BY <1>1, <1>4, <1>5 DEF path

-----------------------------------------------------------------------------
(* The manifest a completed phase writes, and what it says is there.       *)
Completes(m, n, ph, runs) ==
  /\ CompletedOf(n) = CompletedOf(m) \cup {ph}
  /\ m.runs \subseteq n.runs /\ \A run \in runs : <<ph, run>> \in n.runs

Fruits(d, x, ph, runs) ==
  /\ \A file \in Told(ph) : \E run, program : run \in runs /\ Shown(d, x, file, run, program)
  /\ ph = "patch_validation" => Delivered(d, x)

LEMMA ManifestExtends ==
  ASSUME NEW m, IsManifest(m), NEW ph \in KnownPhases, NEW runs, NEW all,
         all = m.runs \cup {<<ph, run>> : run \in runs},
         NEW completed, completed = Append(m.completed, ph),
         NEW n, n = [m EXCEPT !.completed = completed, !.runs = all]
  PROVE  Completes(m, n, ph, runs)
  <1> DEFINE k == [m EXCEPT !.completed = completed]
             l == [k EXCEPT !.runs = all]
  <1>1. n = l
    BY Zenon
  <1> HIDE DEF l
  <1>2. k = ManifestWith(m.scope, completed, m.skipped, m.runs)
    BY ManifestSet DEF IsManifest
  <1> HIDE DEF k
  <1>3. Holds(k, m.scope, completed, m.skipped, m.runs)
    BY <1>2, ManifestHas, Zenon
  <1>4. IsRecorded(k) /\ k.scope = m.scope /\ k.completed = completed /\ k.skipped = m.skipped
    BY <1>3 DEF Holds
  <1>5. l = ManifestWith(k.scope, k.completed, k.skipped, all)
    BY <1>4, ManifestSet, Zenon DEF l
  <1>6. l = ManifestWith(m.scope, completed, m.skipped, all)
    BY <1>4, <1>5, Zenon
  <1>7. Holds(l, m.scope, completed, m.skipped, all)
    BY <1>6, ManifestHas, Zenon
  <1>8. n.completed = completed /\ n.runs = all
    BY <1>1, <1>7 DEF Holds
  <1>9. {completed[i] : i \in DOMAIN completed}
          = {m.completed[i] : i \in DOMAIN m.completed} \cup {ph}
    <2>1. m.completed \in Seq(KnownPhases)
      BY DEF IsManifest
    <2> QED BY <2>1, AppendedElements
  <1> QED BY <1>8, <1>9 DEF Completes, CompletedOf

LEMMA CompletedManifest ==
  ASSUME IsJob(job), IsManifest(job.manifest), Phase \in KnownPhases,
         NEW ops, NEW runs, Complete(ops, runs)
  PROVE  \E manifest : /\ todo' = ops \o Recording(job.exp, Phase, "completed", manifest)
                       /\ Between(job', job.exp, manifest)
                       /\ Completes(job.manifest, manifest, Phase, runs)
  <1> DEFINE ph == Phase
             more == Append(job.manifest.completed, ph)
             all == job.manifest.runs \cup {<<ph, run>> : run \in runs}
             manifest == [job.manifest EXCEPT !.completed = more, !.runs = all]
             left == Tail(job.left)
  <1>1. /\ todo' = ops \o Recording(job.exp, ph, "completed", manifest)
        /\ job' = CompletedAs(job, left, manifest)
    BY DEF Complete, CompletedAs, MarkerThenManifest, Recording
  <1>2. HasFields(job)
    BY DEF IsJob
  <1>3. Completes(job.manifest, manifest, ph, runs)
    <2> DEFINE m == job.manifest
    <2>1. m = job.manifest /\ IsManifest(m) /\ ph \in KnownPhases
      BY DEF m
    <2>2. all = m.runs \cup {<<ph, run>> : run \in runs} /\ more = Append(m.completed, ph)
      OBVIOUS
    <2>3. manifest = [m EXCEPT !.completed = more, !.runs = all]
      OBVIOUS
    <2> HIDE DEF m, ph, all, more, manifest
    <2> QED BY <2>1, <2>2, <2>3, ManifestExtends
  <1> HIDE DEF left, manifest
  <1>4. Passed(job, job', left, manifest) /\ job'.at = "phase"
    BY <1>1, <1>2, JobCompletedAs
  <1>5. Between(job', job.exp, manifest)
    BY <1>4 DEF Between, IsJob, ExpPlaces, Passed
  <1> QED BY <1>1, <1>3, <1>5 DEF ph

LEMMA HasMore ==
  ASSUME NEW d, NEW x, NEW m, NEW n, NEW ph, NEW runs,
         Has(d, x, m), Completes(m, n, ph, runs), Fruits(d, x, ph, runs)
  PROVE  Has(d, x, n)
  <1>1. ASSUME NEW p \in CompletedOf(n), NEW file \in Told(p)
        PROVE  OneRun(d, x, p, file, n.runs)
    <2>1. CASE p \in CompletedOf(m)
      <3>1. PICK run, program : <<p, run>> \in m.runs /\ Shown(d, x, file, run, program)
        BY <2>1 DEF Has, OneRun
      <3>2. <<p, run>> \in n.runs
        BY <3>1 DEF Completes
      <3> QED BY <3>1, <3>2 DEF OneRun
    <2>2. CASE p = ph
      <3>1. PICK run, program : run \in runs /\ Shown(d, x, file, run, program)
        BY <2>2 DEF Fruits
      <3>2. <<p, run>> \in n.runs
        BY <2>2, <3>1 DEF Completes
      <3> QED BY <3>1, <3>2 DEF OneRun
    <2> QED BY <2>1, <2>2 DEF Completes
  <1>2. "patch_validation" \in CompletedOf(n) => Delivered(d, x)
    BY DEF Completes, Has, Fruits
  <1> QED BY <1>1, <1>2 DEF Has

LEMMA ResultsComplete ==
  ASSUME AtWork, disk' = disk, NEW ops, NEW e, NEW disks, Leaves(ops, e, disks),
         NEW runs, Complete(ops, runs), Fruits(e, job.exp, Phase, runs)
  PROVE  Results'
  <1>1. IsJob(job) /\ IsManifest(job.manifest) /\ Phase \in KnownPhases
    BY JobFacts DEF AtWork
  <1>2. PICK manifest : /\ todo' = ops \o Recording(job.exp, Phase, "completed", manifest)
                        /\ Between(job', job.exp, manifest)
                        /\ Completes(job.manifest, manifest, Phase, runs)
    BY <1>1, CompletedManifest
  <1>3. Intact(e)
    BY DEF Leaves, Goes
  <1> DEFINE x == job.exp
             ph == Phase
             k == job'
             more == Recording(x, ph, "completed", manifest)
  <1>4. Has(e, x, manifest)
    BY <1>2, <1>3, HasMore DEF Intact
  <1>5. ResultsOk(e) /\ Between(k, x, manifest)
    BY <1>2, <1>3 DEF Intact
  <1>6. todo' = ops \o more
    BY <1>2
  <1> HIDE DEF x, ph, k
  <1>7. ResultsInv(e, more, k)
    BY <1>4, <1>5, ResultsRecorded DEF more
  <1>8. Goes(disk, ops, e, disks) /\ \A f \in disks : ResultsOk(f)
    BY DEF Leaves, Intact
  <1> HIDE DEF more
  <1>9. ResultsInv(disk, ops \o more, k)
    BY <1>7, <1>8, ResultsAfter
  <1> QED BY <1>6, <1>9 DEF Results, k

LEMMA ResultsFail ==
  ASSUME AtWork, disk' = disk, NEW ops, NEW e, NEW disks, Leaves(ops, e, disks), Fail(ops)
  PROVE  Results'
  <1> DEFINE k == job'
  <1>1. todo' = ops /\ ~IsJob(k)
    BY OtherJobs DEF Fail, IsOther, IsJob, ExpPlaces
  <1> HIDE DEF k
  <1>2. JobResults(e, k)
    BY <1>1 DEF JobResults
  <1>3. ResultsInv(disk, ops, k)
    BY <1>2 DEF ResultsInv, Leaves, Intact
  <1> QED BY <1>1, <1>3 DEF Results, k

(* The phases that are one step.                                           *)
LEMMA WholeKeepsResults ==
  ASSUME Book, PhasesOnce, Results, WholePhase
  PROVE  Results'
  <1>1. PICK ops : PhaseDone(ops)
    BY DEF WholePhase
  <1>2. Works /\ job.at = "phase" /\ disk' = disk /\ Phase # "patch_validation"
    BY DEF WholePhase, Works
  <1>3. AtWork
    <2>1. IsJob(job)
      BY <1>2, BookTyped DEF ExpPlaces
    <2> QED BY <1>2, <2>1 DEF AtWork, Works
  <1>4. CASE Fail(ops)
    <2>1. PICK e, disks : Leaves(ops, e, disks)
      BY <1>1, <1>3, LeavesOwned DEF PhaseDone
    <2> QED BY <1>2, <1>3, <1>4, <2>1, ResultsFail
  <1>5. ASSUME NEW runs, Complete(ops, runs), Phase \notin DOMAIN RewrittenFile
        PROVE  Results'
    <2>1. PICK e, disks : Leaves(ops, e, disks)
      BY <1>1, <1>3, LeavesOwned DEF PhaseDone
    <2>2. Told(Phase) = {}
      BY <1>2, <1>5 DEF Told
    <2>3. Fruits(e, job.exp, Phase, runs)
      BY <1>2, <2>2 DEF Fruits
    <2> QED BY <1>2, <1>3, <1>5, <2>1, <2>3, ResultsComplete
  <1>6. ASSUME NEW runs, Complete(ops, runs), Phase \in DOMAIN RewrittenFile,
               FreshPredictions(ops, runs)
        PROVE  Results'
    <2> DEFINE file == RewrittenFile[Phase]
               path == Predictions(job.exp, file)
    <2>1. Run(file) \in runs
      BY <1>6 DEF FreshPredictions
    <2>2. PICK offered, program : ops = Offer(offered) \o Rewritten(file, program)
      BY <1>6 DEF FreshPredictions
    <2>3. file \in FilesOf(Phase) /\ \A f \in Told(Phase) : f = file
      BY <1>6, PhaseFiles, ToldFiles
    <2>4. path[1] = "predictions"
      BY ExperimentPaths
    <2> HIDE DEF file
    <2>5. PICK d, A : /\ Leaves(Offer(offered), d, A)
                      /\ Agree(disk, d, ResultKinds \cup VersionKinds \cup {"manifest"})
      BY <1>3, LeavesOffer
    <2>6. Exists(path) <=> path \in DOMAIN d
      BY <2>4, <2>5 DEF Agree, ResultKinds, Exists
    <2>7. PICK e, B : /\ Leaves(Offer(offered) \o Rewritten(file, program), e, B)
                      /\ Shown(e, job.exp, file, Run(file), program)
      BY <1>3, <2>3, <2>5, <2>6, LeavesRewritten
    <2>8. Fruits(e, job.exp, Phase, runs)
      BY <1>2, <2>1, <2>3, <2>7 DEF Fruits
    <2> QED BY <1>2, <1>3, <1>6, <2>2, <2>7, <2>8, ResultsComplete
  <1> QED BY <1>1, <1>4, <1>5, <1>6 DEF PhaseDone

(* The steps of patch_validation.                                          *)
LEMMA PartAtWork ==
  ASSUME Book, PhasesOnce, Results, PartPhase
  PROVE  AtWork /\ disk' = disk
  BY DEF PartPhase, Works, AtWork

LEMMA PartKeepsResults ==
  ASSUME Book, PhasesOnce, Results, PartPhase, job'.at \notin {"gate", "install_semantic"}
  PROVE  Results'
  <1>1. AtWork /\ disk' = disk
    BY PartAtWork
  <1> DEFINE k == job'
             queue == todo'
  <1>2. PICK e, disks : Leaves(queue, e, disks)
    BY <1>1, LeavesOwned DEF PartPhase
  <1>3. IsJob(k) => k.exp = job.exp /\ k.manifest = job.manifest
    <2>1. ~IsJob(Idle)
      BY OtherJobs DEF IsOther, IsJob, ExpPlaces
    <2> QED BY <2>1 DEF PartPhase, GoesOnAs, SameBook
  <1>4. k.at \notin {"gate", "install_semantic"}
    OBVIOUS
  <1> HIDE DEF k, queue
  <1>5. Intact(e)
    BY <1>2 DEF Leaves, Goes
  <1>6. JobResults(e, k)
    BY <1>3, <1>4, <1>5 DEF JobResults, Intact
  <1>7. ResultsInv(disk, queue, k)
    BY <1>2, <1>6 DEF ResultsInv, Leaves, Intact
  <1> QED BY <1>1, <1>7 DEF Results, k, queue

LEMMA ArtifactsKeepResults ==
  ASSUME Book, PhasesOnce, Results, NEW plan, ReuseArtifacts \/ MakeArtifacts(plan)
  PROVE  Results'
  <1>1. job.at = "phase"
    BY DEF ReuseArtifacts, MakeArtifacts, AtPhase, At
  <1>2. IsJob(job)
    BY <1>1, BookTyped DEF ExpPlaces
  <1>3. PartPhase /\ job'.at = "select"
    BY <1>2, ArtifactShapes
  <1> QED BY <1>3, PartKeepsResults

(* The predictions of the split, one file after the other.                 *)
SplitsShown(e, program) ==
  /\ \A i \in {1, 2, 3} : \E p : Shown(e, job.exp, SplitFiles[i], Run(SplitFiles[i]), p)
  /\ Shown(e, job.exp, SplitFiles[3], Run(SplitFiles[3]), program)

LEMMA SplitsLeave ==
  ASSUME AtWork, Phase = "patch_validation", NEW program
  PROVE  \E e, disks : /\ Leaves(DirectSplit \o ExactMemoSplit \o CandidateSplit(program), e, disks)
                       /\ SplitsShown(e, program)
  <1> DEFINE x == job.exp
             none == <<>>
             path(i) == Predictions(x, SplitFiles[i])
             a == Rewritten(SplitFiles[1], none)
             b == Rewritten(SplitFiles[2], none)
             c == Rewritten(SplitFiles[3], program)
             o == Offer({})
  <1>1. \A i \in {1, 2, 3} : SplitFiles[i] \in FilesOf(Phase)
    BY SplitNames, PhaseFiles
  <1>2. path(1) # path(2) /\ path(1) # path(3) /\ path(2) # path(3)
    BY SplitNames, ExperimentPaths
  <1>3. \A i \in {1, 2, 3} : path(i)[1] = "predictions"
    BY ExperimentPaths
  <1>4. DirectSplit \o ExactMemoSplit \o CandidateSplit(program) = (a \o b) \o c
    BY SplitNames DEF DirectSplit, ExactMemoSplit, CandidateSplit
  <1>5. a = o \o a
    BY <1>1, OwnedRewritten, OffersNothing
  <1> HIDE DEF none, o
  <1>6. PICK d, A : /\ Leaves(o, d, A)
                    /\ Agree(disk, d, ResultKinds \cup VersionKinds \cup {"manifest"})
    BY LeavesOffer DEF o
  <1>7. \A i \in {1, 2, 3} : Exists(path(i)) <=> path(i) \in DOMAIN d
    <2> HIDE DEF path
    <2> QED BY <1>3, <1>6 DEF Agree, ResultKinds, Exists
  <1>8. PICK d1, A1 : /\ Leaves(o \o a, d1, A1)
                      /\ Shown(d1, x, SplitFiles[1], Run(SplitFiles[1]), none)
                      /\ \A q : q # path(1) => SameFile(d, d1, q)
    BY <1>1, <1>6, <1>7, LeavesRewritten
  <1>9. Leaves(a, d1, A1)
    BY <1>5, <1>8
  <1>10. Exists(path(2)) <=> path(2) \in DOMAIN d1
    BY <1>2, <1>7, <1>8 DEF SameFile
  <1> HIDE DEF a
  <1>11. PICK d2, A2 : /\ Leaves(a \o b, d2, A2)
                       /\ Shown(d2, x, SplitFiles[2], Run(SplitFiles[2]), none)
                       /\ \A q : q # path(2) => SameFile(d1, d2, q)
    BY <1>1, <1>9, <1>10, LeavesRewritten
  <1>12. Exists(path(3)) <=> path(3) \in DOMAIN d2
    BY <1>2, <1>7, <1>8, <1>11 DEF SameFile
  <1> HIDE DEF b
  <1> DEFINE ab == a \o b
  <1>13. Leaves(ab, d2, A2)
    BY <1>11
  <1> HIDE DEF ab
  <1>14. PICK d3, A3 : /\ Leaves(ab \o c, d3, A3)
                       /\ Shown(d3, x, SplitFiles[3], Run(SplitFiles[3]), program)
                       /\ \A q : q # path(3) => SameFile(d2, d3, q)
    BY <1>1, <1>12, <1>13, LeavesRewritten
  <1>15. Shown(d3, x, SplitFiles[1], Run(SplitFiles[1]), none)
    <2>1. SameFile(d1, d2, path(1)) /\ SameFile(d2, d3, path(1))
      BY <1>2, <1>11, <1>14
    <2> QED BY <1>8, <2>1, ShownStays
  <1>16. Shown(d3, x, SplitFiles[2], Run(SplitFiles[2]), none)
    <2>1. SameFile(d2, d3, path(2))
      BY <1>2, <1>14
    <2> QED BY <1>11, <2>1, ShownStays
  <1>17. SplitsShown(d3, program)
    BY <1>14, <1>15, <1>16 DEF SplitsShown
  <1> QED BY <1>4, <1>14, <1>17 DEF ab

LEMMA SelectKeepsResults ==
  ASSUME Book, PhasesOnce, Results, SelectBase
  PROVE  Results'
  <1>1. job.at = "select" /\ todo = <<>> /\ disk' = disk
    BY DEF SelectBase, At, Unchanged
  <1>2. IsJob(job) /\ HasFields(job)
    BY <1>1, BookTyped DEF ExpPlaces, IsJob
  <1>3. Placed(job)
    BY <1>1, <1>2, JobFacts
  <1>4. PartPhase
    BY <1>2, <1>3, SelectShape
  <1>5. AtWork /\ Phase = "patch_validation"
    BY <1>4, PartAtWork DEF PartPhase
  <1>6. CASE ~(CanSelect /\ IsStraight(disk[ProgramFile(BaseVersion)]))
    <2>1. job' = Idle
      BY <1>6 DEF SelectBase, Fail
    <2>2. job'.at \notin {"gate", "install_semantic"}
      BY <2>1 DEF Idle
    <2> QED BY <1>4, <2>2, PartKeepsResults
  <1>7. CASE CanSelect /\ IsStraight(disk[ProgramFile(BaseVersion)])
    <2> DEFINE patched == Append(disk[ProgramFile(BaseVersion)], SemanticPatch)
               queue == DirectSplit \o ExactMemoSplit \o CandidateSplit(patched)
               k == job'
    <2>1. /\ job' = [job EXCEPT !.at = "gate", !.base = BaseVersion, !.program = patched]
          /\ todo' = queue
      BY <1>7 DEF SelectBase
    <2> HIDE DEF patched
    <2>2. Selected(job, k, BaseVersion, patched)
      BY <1>2, <2>1, JobSelects, Zenon
    <2>3. PICK e, disks : Leaves(queue, e, disks) /\ SplitsShown(e, patched)
      BY <1>5, SplitsLeave
    <2> HIDE DEF k, queue
    <2>4. /\ k.at = "gate" /\ k.exp = job.exp /\ k.manifest = job.manifest
          /\ k.run = job.run /\ k.program = patched
      BY <2>2 DEF Selected, Moved, SameBook
    <2>5. Intact(e)
      BY <2>3 DEF Leaves, Goes
    <2>6. JobResults(e, k)
      BY <2>3, <2>4, <2>5 DEF JobResults, Intact, SplitsShown, SplitShown, Run
    <2>7. ResultsInv(disk, queue, k)
      BY <2>3, <2>6 DEF ResultsInv, Leaves, Intact
    <2> QED BY <1>1, <2>1, <2>7 DEF Results, k
  <1> QED BY <1>6, <1>7

(* One more file of the phase is written.                                  *)
LEMMA PutSame ==
  ASSUME NEW d, NEW path, NEW content, NEW e, e = PutIn(d, path, content)
  PROVE  /\ path \in DOMAIN e /\ e[path] = content
         /\ \A q : q # path => SameFile(d, e, q)
         /\ Follows(d, e, {path}, {})
  BY DEF PutIn, SameFile, Follows

LEMMA LeavesPut ==
  ASSUME AtWork, NEW p, NEW d, NEW A, Leaves(p, d, A),
         NEW path, Owned(path, job.exp, Phase), NEW content
  PROVE  \E B : Leaves(p \o <<Write(path, content)>>, PutIn(d, path, content), B)
  <1> DEFINE t == PutIn(d, path, Torn)
             e == PutIn(d, path, content)
             disks == {d, t, e}
             own == {path}
             queue == <<Write(path, content)>>
  <1>1. Goes(d, queue, e, disks)
    BY GoesWrite
  <1>2. Follows(d, d, own, {}) /\ Follows(d, t, own, {}) /\ Follows(d, e, own, {})
    BY PutSame, FollowsSelf
  <1>3. \A q \in own : Owned(q, job.exp, Phase)
    OBVIOUS
  <1>4. \A x \in disks : Follows(d, x, own, {})
    BY <1>2
  <1> HIDE DEF e, t, disks, own, queue
  <1>5. Ways(d, queue, e, disks, own, {})
    BY <1>1, <1>4 DEF Ways
  <1>6. Leaves(p \o queue, e, A \cup disks)
    BY <1>3, <1>5, LeavesWays
  <1> QED BY <1>6 DEF e, queue

(* What the gate had before it is there after it.                          *)
SplitResults(d, j) ==
  /\ \A i \in {1, 2, 3} : \E program : SplitShown(d, j, i, program)
  /\ SplitShown(d, j, 3, j.program)

LEMMA SplitsStay ==
  ASSUME NEW d, NEW e, NEW j, SplitResults(d, j), \A x, f : SameFile(d, e, Predictions(x, f)),
         NEW k, k.exp = j.exp, k.run = j.run, k.program = j.program
  PROVE  SplitResults(e, k)
  <1>1. ASSUME NEW i, NEW program, SplitShown(d, j, i, program)
        PROVE  SplitShown(e, k, i, program)
    <2> DEFINE x == j.exp
               file == SplitFiles[i]
               run == <<file, j.run>>
    <2>1. SameFile(d, e, Predictions(x, file)) /\ Shown(d, x, file, run, program)
      BY <1>1 DEF SplitShown
    <2>2. k.exp = x /\ run = <<file, k.run>>
      OBVIOUS
    <2> HIDE DEF x, file, run
    <2>3. Shown(e, x, file, run, program)
      BY <2>1, ShownStays
    <2> QED BY <2>2, <2>3 DEF SplitShown, file
  <1> QED BY <1>1 DEF SplitResults

LEMMA GateKeepsResults ==
  ASSUME Book, PhasesOnce, Results, NEW accepted, Gate(accepted)
  PROVE  Results'
  <1>1. job.at = "gate" /\ todo = <<>> /\ disk' = disk
    BY DEF Gate, At
  <1>2. IsJob(job) /\ HasFields(job)
    BY <1>1, BookTyped DEF ExpPlaces, IsJob
  <1>3. Placed(job)
    BY <1>1, <1>2, JobFacts
  <1>4. PartPhase
    BY <1>2, <1>3, GateShape
  <1>5. AtWork /\ Phase = "patch_validation"
    BY <1>4, PartAtWork DEF PartPhase
  <1>6. CASE ~accepted
    <2>1. job' = Idle
      BY <1>6 DEF Gate, Fail
    <2>2. job'.at \notin {"gate", "install_semantic"}
      BY <2>1 DEF Idle
    <2> QED BY <1>4, <2>2, PartKeepsResults
  <1>7. CASE accepted
    <2> DEFINE yes == TRUE
               x == job.exp
               g == GateFile(x)
               queue == <<Write(g, yes)>>
               k == job'
               e == PutIn(disk, g, yes)
               none == <<>>
    <2>1. job' = [job EXCEPT !.at = "install_semantic"] /\ todo' = queue
      BY <1>7 DEF Gate
    <2>2. Moved(job, k, "install_semantic") /\ k.program = job.program
      BY <1>2, <2>1, JobMoves
    <2> HIDE DEF k
    <2>3. /\ k.at = "install_semantic" /\ k.exp = x /\ k.manifest = job.manifest
          /\ k.run = job.run /\ k.program = job.program
      BY <2>2 DEF Moved, SameBook
    <2>4. SplitResults(disk, job)
      BY <1>1, <1>2, <1>5, WorkerKnows DEF JobResults, SplitResults
    <2>5. Owned(g, x, Phase)
      BY <1>5, ExperimentPaths DEF Owned, BookKinds, VersionKinds, IsInstalledRecord
    <2>6. \A y, f : Predictions(y, f) # g
      <3>1. \A y, f : Predictions(y, f)[1] # g[1]
        BY ExperimentPaths
      <3> QED BY <3>1
    <2>7. yes # Torn /\ yes
      BY ExperimentAssumption
    <2> HIDE DEF yes, g, none, e
    <2>8. none \o queue = queue
      BY DEF none
    <2>9. Leaves(none, disk, {disk})
      BY <1>5, LeavesNothing DEF none
    <2>10. PICK B : Leaves(none \o queue, e, B)
      BY <1>5, <2>5, <2>9, LeavesPut DEF e
    <2>11. /\ g \in DOMAIN e /\ e[g] = yes
           /\ \A q : q # g => SameFile(disk, e, q)
      <3> DEFINE there(d, c) == /\ g \in DOMAIN d /\ d[g] = c
                                /\ \A q : q # g => SameFile(disk, d, q)
      <3>1. ASSUME NEW c PROVE there(PutIn(disk, g, c), c)
        BY DEF PutIn, SameFile
      <3> HIDE DEF there
      <3>2. there(PutIn(disk, g, yes), yes)
        BY <3>1
      <3>3. there(e, yes)
        BY <3>2 DEF e
      <3> QED BY <3>3 DEF there
    <2> HIDE DEF queue
    <2>12. Leaves(queue, e, B)
      BY <2>8, <2>10
    <2>13. Intact(e)
      BY <2>12 DEF Leaves, Goes
    <2>14. SplitResults(e, k)
      BY <2>3, <2>4, <2>6, <2>11, SplitsStay
    <2>15. Accepted(e, x)
      BY <2>7, <2>11 DEF Accepted, ReadableIn, g
    <2>16. Has(e, k.exp, k.manifest)
      BY <2>3, <2>13 DEF Intact
    <2> HIDE DEF x
    <2>17. JobResults(e, k)
      BY <2>3, <2>14, <2>15, <2>16 DEF JobResults, SplitResults
    <2>18. ResultsInv(disk, queue, k)
      BY <2>12, <2>17 DEF ResultsInv, Leaves, Intact
    <2> QED BY <1>1, <2>1, <2>18 DEF Results, k
  <1> QED BY <1>6, <1>7

(* The version that is installed holds the program that was evaluated.     *)
LEMMA HeldVersion ==
  ASSUME NEW e, NEW ev, NEW P, NEW m \in Nat, Registered(e, ev, P, m),
         NEW version, NEW program, IsHeld(e, m, version, program)
  PROVE  version \in WholeIn(e) /\ VersionIn(e, version).program = program /\ version # Torn
  <1>1. RegistryOk(e, ev, P, m) /\ version \in 1 .. m /\ e[ProgramFile(version)] = program
    BY DEF Registered, IsHeld
  <1>2. version \in WholeIn(e) /\ ProgramFile(version) \in DOMAIN e
    BY <1>1, WholeVersions DEF RegistryOk, VersionOk
  <1>3. version # Torn
    BY <1>1, ExperimentAssumption
  <1> QED BY <1>1, <1>2, <1>3 DEF VersionIn

LEMMA InstalledFruits ==
  ASSUME NEW e, NEW j, SplitResults(e, j), Accepted(e, j.exp),
         NEW version, version \in WholeIn(e), VersionIn(e, version).program = j.program, version # Torn,
         NEW f, f = PutIn(e, PatchInstallFile(j.exp), version),
         NEW runs, \A i \in {1, 2, 3} : <<SplitFiles[i], j.run>> \in runs
  PROVE  Fruits(f, j.exp, "patch_validation", runs)
  <1> DEFINE x == j.exp
             path == PatchInstallFile(x)
  <1>1. path \in DOMAIN f /\ f[path] = version /\ \A q : q # path => SameFile(e, f, q)
    <2>1. f = PutIn(e, path, version)
      OBVIOUS
    <2> HIDE DEF path
    <2> QED BY <2>1 DEF PutIn, SameFile
  <1>2. /\ \A y, file : Predictions(y, file) # path
        /\ \A q : q[1] \in VersionKinds => q # path
        /\ GateFile(x) # path
    <2>1. /\ \A y, file : Predictions(y, file)[1] # path[1]
          /\ path[1] \notin VersionKinds /\ GateFile(x)[1] # path[1]
      BY ExperimentPaths DEF VersionKinds
    <2> QED BY <2>1
  <1>3. SplitResults(f, j)
    BY <1>1, <1>2, SplitsStay
  <1>4. Accepted(f, x)
    BY <1>1, <1>2 DEF Accepted, SameFile, ReadableIn
  <1>5. Agree(e, f, VersionKinds)
    BY <1>1, <1>2 DEF Agree, SameFile
  <1>6. version \in WholeIn(f) /\ VersionIn(f, version).program = j.program
    BY <1>5, AgreeVersions DEF KeepsVersions
  <1>7. ReadableIn(f, path)
    BY <1>1 DEF ReadableIn
  <1>8. Shown(f, x, CandidateFile, <<SplitFiles[3], j.run>>, j.program)
    BY <1>3, SplitNames DEF SplitResults, SplitShown
  <1>9. Delivered(f, x)
    BY <1>1, <1>4, <1>6, <1>7, <1>8 DEF Delivered
  <1>10. ASSUME NEW file \in Told("patch_validation")
         PROVE  \E run, program : run \in runs /\ Shown(f, x, file, run, program)
    <2>1. PICK i \in {1, 2, 3} : file = SplitFiles[i]
      BY SplitNames
    <2>2. PICK program : Shown(f, x, SplitFiles[i], <<SplitFiles[i], j.run>>, program)
      BY <1>3 DEF SplitResults, SplitShown
    <2> QED BY <2>1, <2>2
  <1> QED BY <1>9, <1>10 DEF Fruits

LEMMA InstallKeepsResults ==
  ASSUME ExperimentInv, PhasesOnce, Results, InstallSemantic
  PROVE  Results'
  <1>1. job.at = "install_semantic" /\ todo = <<>> /\ disk' = disk
    BY DEF InstallSemantic, At, Unchanged
  <1>2. Book /\ Choice /\ Registry(Instr)
    BY DEF ExperimentInv
  <1>3. IsJob(job)
    BY <1>1, <1>2, BookTyped DEF ExpPlaces
  <1>4. Placed(job)
    BY <1>1, <1>2, <1>3, JobFacts
  <1>5. Works /\ Phase = "patch_validation"
    BY <1>3, <1>4, InstallShape DEF InstallPhase
  <1>6. AtWork
    BY <1>2, <1>3, <1>5 DEF AtWork, Works
  <1>7. CASE ~CanSelect
    <2>1. Fail(<<>>)
      BY <1>7 DEF InstallSemantic
    <2> QED BY <1>1, <1>6, <2>1, LeavesNothing, ResultsFail
  <1>8. CASE CanSelect
    <2>1. job'.at \notin Asking
      <3>1. \E ops, runs : Complete(ops, runs)
        BY <1>8 DEF InstallSemantic
      <3>2. IsJob(job')
        BY <1>3, <3>1, CompletedJob
      <3> QED BY <3>2, ExpNotAsking
    <2> DEFINE k == job'
    <2>2. k.at \notin Asking
      BY <2>1
    <2> HIDE DEF k
    <2>3. PICK install, version : /\ SemanticInstalled(install, version)
                                  /\ \E e : \E m \in Nat :
                                       Arrives(Installation(SemanticPatch, BaseVersion, install, version),
                                               e, k, m, version, job.program)
      BY <1>2, <1>3, <1>8, <2>2, SemanticInstalls
    <2> DEFINE a == Installation(SemanticPatch, BaseVersion, install, version)
               path == PatchInstallFile(job.exp)
               b == <<Write(path, version)>>
               runs == job.runs \cup SplitRuns
    <2>4. PICK e : \E m \in Nat : Arrives(a, e, k, m, version, job.program)
      BY <2>3
    <2>5. PICK m \in Nat : Arrives(a, e, k, m, version, job.program)
      BY <2>4
    <2>6. /\ Safe(disk, a, e, k, evaluated, Instr) /\ Registered(e, evaluated, Instr, m)
          /\ IsHeld(e, m, version, job.program)
      BY <2>5 DEF Arrives
    <2>7. Spared(a, QuietKinds)
      <3>1. QuietKinds \cap RegistryKinds = {}
        BY DEF QuietKinds, ResultKinds, RegistryKinds
      <3>2. Spared(install, QuietKinds)
        BY <2>3, <3>1 DEF SemanticInstalled, Modest
      <3> DEFINE p == Record("proposed", SemanticPatch, BaseVersion)
                 q == Record("validated", SemanticPatch, BaseVersion)
                 r == Record("installed", SemanticPatch, version)
      <3>3. Spared(p, QuietKinds) /\ Spared(q, QuietKinds) /\ Spared(r, QuietKinds)
        BY <3>1, RegistrySpares
      <3>4. a = ((p \o q) \o install) \o r
        BY DEF Installation, Recorded2
      <3> HIDE DEF p, q, r
      <3> QED BY <3>2, <3>3, <3>4, SparedJoin
    <2>8. Complete(a \o b, runs)
      BY <2>3 DEF SemanticInstalled
    <2>9. Owned(path, job.exp, Phase)
      BY <1>5, ExperimentPaths DEF Owned, BookKinds, VersionKinds, IsInstalledRecord
    <2> HIDE DEF a
    <2>10. PICK disks : /\ Goes(disk, a, e, disks)
                        /\ \A x \in disks : Agree(disk, x, QuietKinds) /\ KeepsVersions(disk, x)
      BY <2>6, <2>7, SafeGoes
    <2>11. Leaves(a, e, disks)
      <3>1. ResultsOk(disk) /\ Has(disk, job.exp, job.manifest)
        BY <1>6, WorkerKnows DEF Intact
      <3>2. \A x \in disks : Intact(x)
        BY <2>10, <3>1, ResultsAgree DEF QuietKinds, Intact
      <3> QED BY <2>10, <3>2 DEF Leaves
    <2> DEFINE f == PutIn(e, path, version)
    <2>12. PICK B : Leaves(a \o b, f, B)
      BY <1>6, <2>9, <2>11, LeavesPut
    <2>13. Agree(disk, e, QuietKinds)
      BY <2>10 DEF Goes
    <2>14. SplitResults(disk, job) /\ Accepted(disk, job.exp)
      BY <1>1, <1>3, <1>6, WorkerKnows DEF JobResults, SplitResults
    <2>15. SplitResults(e, job)
      <3>1. \A y, file : SameFile(disk, e, Predictions(y, file))
        BY <2>13, ExperimentPaths DEF Agree, QuietKinds, ResultKinds, SameFile
      <3> QED BY <2>14, <3>1, SplitsStay
    <2>16. Accepted(e, job.exp)
      <3>1. GateFile(job.exp)[1] \in QuietKinds
        BY ExperimentPaths DEF QuietKinds, ResultKinds
      <3> QED BY <2>13, <2>14, <3>1 DEF Agree, Accepted, ReadableIn
    <2>17. version \in WholeIn(e) /\ VersionIn(e, version).program = job.program /\ version # Torn
      BY <2>6, HeldVersion
    <2>18. \A i \in {1, 2, 3} : <<SplitFiles[i], job.run>> \in runs
      BY SplitNames DEF SplitRuns, Run
    <2> HIDE DEF runs
    <2>19. Fruits(f, job.exp, "patch_validation", runs)
      BY <2>15, <2>16, <2>17, <2>18, InstalledFruits
    <2> DEFINE ops == a \o b
    <2>20. Leaves(ops, f, B) /\ Complete(ops, runs)
      BY <2>8, <2>12
    <2> HIDE DEF ops, f
    <2> QED BY <1>1, <1>5, <1>6, <2>19, <2>20, ResultsComplete
  <1> QED BY <1>7, <1>8

-----------------------------------------------------------------------------
(* The steps that leave the results alone.                                 *)
LEMMA ResultsSame ==
  ASSUME Results, Registry(Instr)', todo = <<>>, IsJob(job), disk' = disk, Spared(todo', QuietKinds),
         job'.exp = job.exp, job'.manifest = job.manifest, job'.at \notin {"gate", "install_semantic"}
  PROVE  Results'
  <1>1. Has(disk, job.exp, job.manifest)
    BY ResultsDrained DEF Results, JobResults
  <1> QED BY <1>1, ResultsMove

LEMMA NotJobs ==
  /\ ~IsJob(Idle)
  /\ \A k : IsOther(k) => ~IsJob(k)
  BY OtherJobs DEF IsOther, IsJob, ExpPlaces

LEMMA StartKeepsResults ==
  ASSUME Results, Registry(Instr)', NEW x \in Experiments, NEW config, StartExperiment(x, config)
  PROVE  Results'
  <1> DEFINE fresh == ~Exists(ManifestFile(x))
             manifest == ManifestOf(x, fresh)
             completed == manifest.completed
             done == {completed[i] : i \in DOMAIN completed}
             run == ThisStart
             k == job'
  <1>1. /\ disk' = disk /\ todo' = <<Write(LockFile(x), config)>>
        /\ k = Job("estimate", x, config, fresh, manifest, run, {}, done, config.phases, 0, <<>>)
        /\ Exists(ManifestFile(x)) => MayResume(x, config)
    BY DEF StartExperiment, Job
  <1>2. manifest = IF fresh THEN FreshManifest ELSE disk[ManifestFile(x)]
    BY DEF ManifestOf
  <1>3. ~fresh => ReadableIn(disk, ManifestFile(x))
    BY <1>1 DEF MayResume, Readable, Exists, ReadableIn
  <1>4. Has(disk, x, manifest)
    <2>1. CASE fresh
      <3>1. CompletedOf(FreshManifest) = {}
        BY FreshIsManifest DEF CompletedOf
      <3> QED BY <1>2, <2>1, <3>1 DEF Has
    <2>2. CASE ~fresh
      BY <1>2, <1>3, <2>2, ResultsDrained DEF Results, ResultsOk
    <2> QED BY <2>1, <2>2
  <1> HIDE DEF fresh, manifest, done, run, k
  <1>5. k.at = "estimate" /\ k.exp = x /\ k.manifest = manifest
    BY <1>1, JobIs
  <1>6. LockFile(x)[1] \notin QuietKinds
    BY ExperimentPaths DEF QuietKinds, ResultKinds
  <1>7. Spared(todo', QuietKinds)
    BY <1>1, <1>6, SparedWrite
  <1> QED BY <1>1, <1>4, <1>5, <1>7, ResultsMove DEF k

LEMMA EstimateKeepsResults ==
  ASSUME Book, Results, Registry(Instr)', NEW goesOn, Estimate(goesOn)
  PROVE  Results'
  <1>1. /\ job.at = "estimate" /\ todo = <<>> /\ todo' = <<>> /\ disk' = disk
        /\ job' = IF goesOn THEN [job EXCEPT !.at = "workflow"] ELSE Idle
    BY DEF Estimate, At
  <1>2. IsJob(job) /\ HasFields(job)
    BY <1>1, BookTyped DEF ExpPlaces, IsJob
  <1>3. Spared(<<>>, QuietKinds)
    BY SparedNone
  <1>4. CASE goesOn
    <2>1. job' = [job EXCEPT !.at = "workflow"]
      BY <1>1, <1>4
    <2>2. Moved(job, job', "workflow")
      BY <1>2, <2>1, JobMoves
    <2>3. /\ job'.at \notin {"gate", "install_semantic"}
          /\ job'.exp = job.exp /\ job'.manifest = job.manifest
      BY <2>2 DEF Moved, SameBook
    <2> QED BY <1>1, <1>2, <1>3, <2>3, ResultsSame
  <1>5. CASE ~goesOn
    <2>1. ~IsJob(job')
      BY <1>1, <1>5, NotJobs
    <2> QED BY <1>1, <1>3, <2>1, ResultsStop
  <1> QED BY <1>4, <1>5

LEMMA EnsureKeepsResults ==
  ASSUME Book, Results, Registry(Instr)', EnsureWorkflow
  PROVE  Results'
  <1>1. /\ job.at = "workflow" /\ todo = <<>> /\ disk' = disk
        /\ job' = [job EXCEPT !.at = "phase"]
    BY DEF EnsureWorkflow, At
  <1>2. IsJob(job) /\ HasFields(job)
    BY <1>1, BookTyped DEF ExpPlaces, IsJob
  <1>3. Moved(job, job', "phase")
    BY <1>1, <1>2, JobMoves
  <1>4. /\ job'.at \notin {"gate", "install_semantic"}
        /\ job'.exp = job.exp /\ job'.manifest = job.manifest
    BY <1>3 DEF Moved, SameBook
  <1>5. QuietKinds \cap RegistryKinds = {}
    BY DEF QuietKinds, ResultKinds, RegistryKinds
  <1>6. /\ Spared(<<>>, QuietKinds)
        /\ \A m, program, metadata : Spared(WriteVersion(m, program, metadata) \o SetLatest(m), QuietKinds)
        /\ \A m : Spared(SetLatest(m), QuietKinds)
        /\ \A program : Spared(InitWorkflow(program), QuietKinds)
    BY <1>5, SparedNone, RegistrySpares
  <1>7. Spared(todo', QuietKinds)
    <2>1. \/ todo' = <<>>
          \/ todo' = InitWorkflow(Configured)
          \/ todo' = EnsureConfiguredBaseline(Configured)
      BY <1>1 DEF EnsureWorkflow
    <2>2. Spared(EnsureConfiguredBaseline(Configured), QuietKinds)
      BY <1>6 DEF EnsureConfiguredBaseline, InstallVersion
    <2> QED BY <1>6, <2>1, <2>2
  <1> QED BY <1>1, <1>2, <1>4, <1>7, ResultsSame

LEMMA PassKeepsResults ==
  ASSUME Book, Results, Registry(Instr)', PassCompleted
  PROVE  Results'
  <1>1. /\ job.at = "phase" /\ todo = <<>> /\ todo' = <<>> /\ disk' = disk
        /\ job' = [job EXCEPT !.left = Tail(job.left)]
    BY DEF PassCompleted, At
  <1>2. IsJob(job) /\ HasFields(job)
    BY <1>1, BookTyped DEF ExpPlaces, IsJob
  <1> DEFINE left == Tail(job.left)
             k == job'
  <1>3. k = [job EXCEPT !.left = left]
    BY <1>1
  <1> HIDE DEF left, k
  <1>4. Passed(job, k, left, job.manifest) /\ k.at = job.at
    BY <1>2, <1>3, JobPasses
  <1>5. /\ job'.at \notin {"gate", "install_semantic"}
        /\ job'.exp = job.exp /\ job'.manifest = job.manifest
    BY <1>1, <1>4 DEF Passed, k
  <1>6. Spared(todo', QuietKinds)
    BY <1>1, SparedNone
  <1> QED BY <1>1, <1>2, <1>5, <1>6, ResultsSame

LEMMA FinishKeepsResults ==
  ASSUME Results, Registry(Instr)', Finish
  PROVE  Results'
  <1>1. job' = Idle /\ disk' = disk
    BY DEF Finish, Unchanged
  <1>2. ~IsJob(job')
    BY <1>1, NotJobs
  <1>3. /\ ReportJson(job.exp)[1] \notin QuietKinds /\ ReportMarkdown(job.exp)[1] \notin QuietKinds
    BY ExperimentPaths DEF QuietKinds, ResultKinds
  <1> DEFINE a == Write(ReportJson(job.exp), job.manifest.runs)
             b == Write(ReportMarkdown(job.exp), job.manifest.runs)
  <1>4. todo' = <<>> \/ todo' = <<a, b>>
    BY DEF Finish
  <1>5. Spared(<<a>>, QuietKinds) /\ Spared(<<b>>, QuietKinds)
    BY <1>3, SparedWrite
  <1> HIDE DEF a, b
  <1>6. Spared(<<a>> \o <<b>>, QuietKinds)
    BY <1>5, SparedJoin
  <1>7. Spared(<<a, b>>, QuietKinds)
    BY <1>6, JoinTwo
  <1>8. Spared(todo', QuietKinds)
    BY <1>4, <1>7, SparedNone
  <1> QED BY <1>1, <1>2, <1>8, ResultsStop

(* A phase that is skipped changes nothing of what is completed.           *)
LEMMA HasSkipped ==
  ASSUME NEW d, NEW x, NEW m, NEW n, NEW ph, NEW word, Has(d, x, m), Marked(m, n, ph, word, m.completed)
  PROVE  Has(d, x, n)
  <1>1. CompletedOf(n) = CompletedOf(m) /\ m.runs \subseteq n.runs
    BY DEF Marked, Grows, CompletedOf
  <1> QED BY <1>1 DEF Has, OneRun

LEMMA SkipKeepsResults ==
  ASSUME Book, Results, Registry(Instr)', SkipPhase
  PROVE  Results'
  <1> DEFINE ph == Phase
             skipped == job.manifest.skipped \cup {ph}
             manifest == [job.manifest EXCEPT !.skipped = skipped]
             left == Tail(job.left)
             k == job'
             x == job.exp
  <1>1. todo = <<>> /\ ph \notin KnownPhases /\ disk' = disk /\ job.at = "phase"
    BY DEF SkipPhase, At, Unchanged
  <1>2. /\ todo' = IF ph \in job.manifest.skipped THEN <<>>
                   ELSE Recording(x, ph, "skipped", manifest)
        /\ k = [job EXCEPT !.left = left, !.manifest = manifest]
    BY DEF SkipPhase, Recording
  <1>3. IsJob(job)
    BY <1>1, BookTyped DEF ExpPlaces
  <1>4. HasFields(job) /\ IsManifest(job.manifest)
    BY <1>1, <1>3, JobFacts
  <1>5. ResultsOk(disk) /\ Has(disk, x, job.manifest)
    BY <1>1, <1>3, ResultsDrained DEF Results, JobResults
  <1> HIDE DEF ph
  <1>6. Marked(job.manifest, manifest, ph, "skipped", job.manifest.completed)
    BY <1>1, <1>4, ManifestSkips
  <1> HIDE DEF manifest, left, k
  <1>7. Has(disk, x, manifest)
    BY <1>5, <1>6, HasSkipped
  <1>8. Skips(job, k, left, manifest)
    BY <1>2, <1>4, JobSkips, Zenon
  <1>9. Between(k, x, manifest)
    BY <1>1, <1>8 DEF Skips, Passed, Between, IsJob, ExpPlaces
  <1>10. CASE ph \in job.manifest.skipped
    <2>1. todo' = <<>>
      BY <1>2, <1>10
    <2>2. Spared(todo', QuietKinds)
      BY <2>1, SparedNone
    <2>3. /\ Has(disk, job'.exp, job'.manifest)
          /\ job'.at \notin {"gate", "install_semantic"}
      BY <1>7, <1>9 DEF Between, k
    <2> QED BY <1>1, <2>2, <2>3, ResultsMove
  <1>11. CASE ph \notin job.manifest.skipped
    <2> DEFINE word == "skipped"
               queue == Recording(x, ph, word, manifest)
    <2>1. todo' = queue
      BY <1>2, <1>11
    <2> HIDE DEF x, word
    <2>2. ResultsInv(disk, queue, k)
      BY <1>5, <1>7, <1>9, ResultsRecorded
    <2> HIDE DEF queue
    <2> QED BY <1>1, <2>1, <2>2 DEF Results, k
  <1> QED BY <1>10, <1>11

LEMMA InstallerKeepsResults ==
  ASSUME Book, Results, Registry(Instr)', InstallerStep
  PROVE  Results'
  <1>1. QuietKinds \cap RegistryKinds = {}
    BY DEF QuietKinds, ResultKinds, RegistryKinds
  <1>2. IsJob(job) \/ IsOther(job)
    BY BookTyped
  <1>3. CASE FileOperation
    <2>1. FileStep /\ job' = job
      BY <1>3 DEF FileOperation
    <2>2. PICK e, disks : /\ Goes(disk, todo, e, disks)
                          /\ \A x \in disks : ResultsOk(x)
                          /\ JobResults(e, job)
      BY DEF Results, ResultsInv
    <2>3. Goes(disk', todo', e, disks)
      BY <2>1, <2>2, GoesAway
    <2> DEFINE d == disk'
               q == todo'
    <2>4. Goes(d, q, e, disks)
      BY <2>3
    <2> HIDE DEF d, q
    <2>5. ResultsInv(d, q, job)
      BY <2>2, <2>4 DEF ResultsInv
    <2> QED BY <2>1, <2>5 DEF Results, d, q
  <1>4. CASE disk' = disk /\ Spared(todo', QuietKinds) /\ IsOther(job')
    <2>1. ~IsJob(job')
      BY <1>4, NotJobs
    <2> QED BY <1>4, <2>1, ResultsStop
  <1> QED BY <1>1, <1>2, <1>3, <1>4, InstallerQuiet

LEMMA ResultsBegin ==
  ASSUME InstallerInit
  PROVE  Results
  <1> DEFINE d == [path \in {} |-> Torn]
  <1>1. disk = d /\ todo = <<>> /\ job = Idle
    BY DEF InstallerInit
  <1>2. ResultsOk(d)
    BY DEF ResultsOk, ReadableIn
  <1> HIDE DEF d
  <1>3. JobResults(d, Idle)
    BY NotJobs DEF JobResults
  <1>4. ResultsInv(d, <<>>, Idle)
    <2> DEFINE disks == {d}
    <2>1. Goes(d, <<>>, d, disks) /\ \A x \in disks : ResultsOk(x)
      BY <1>2, GoesNowhere
    <2> HIDE DEF disks
    <2> QED BY <1>3, <2>1 DEF ResultsInv
  <1> QED BY <1>1, <1>4 DEF Results

-----------------------------------------------------------------------------
(* The results through all steps.                                          *)
LEMMA ExperimentKeepsResults ==
  ASSUME ExperimentInv, Registry(Instr)', PhasesOnce, Results, ExperimentStep
  PROVE  Results'
  <1>1. Book
    BY DEF ExperimentInv
  <1>2. CASE \E x \in Experiments : \E config \in Configs[x] : StartExperiment(x, config)
    BY <1>2, StartKeepsResults
  <1>3. CASE \/ \E goesOn \in BOOLEAN : Estimate(goesOn)
             \/ EnsureWorkflow \/ PassCompleted \/ SkipPhase \/ Finish
    BY <1>1, <1>3, EstimateKeepsResults, EnsureKeepsResults, PassKeepsResults, SkipKeepsResults,
       FinishKeepsResults
  <1>4. CASE \/ SplitEvents \/ RunDirect \/ RunExactMemo
             \/ \E offered \in Offers : RunProfile(offered) \/ RunUnoptimized(offered) \/ RunInstalled(offered)
             \/ RunNoSemantic \/ ShadowAudit \/ EvaluateQuality \/ Report
             \/ \E plan \in Plans : OptimizePhase(plan)
    <2>1. WholePhase
      BY <1>4, PhaseShapes
    <2> QED BY <1>1, <2>1, WholeKeepsResults
  <1>5. CASE ReuseArtifacts \/ \E plan \in Plans : MakeArtifacts(plan)
    BY <1>1, <1>5, ArtifactsKeepResults
  <1>6. CASE SelectBase
    BY <1>1, <1>6, SelectKeepsResults
  <1>7. CASE \E accepted \in BOOLEAN : Gate(accepted)
    BY <1>1, <1>7, GateKeepsResults
  <1>8. CASE InstallSemantic
    BY <1>8, InstallKeepsResults
  <1> QED BY <1>2, <1>3, <1>4, <1>5, <1>6, <1>7, <1>8 DEF ExperimentStep

ResultsKept == ExperimentInv /\ Results

LEMMA ResultsSteps ==
  ASSUME PhasesOnce, ResultsKept, [ExperimentStep \/ InstallerStep]_vars
  PROVE  ResultsKept'
  <1>1. ExperimentInv /\ Results /\ ExperimentInv' /\ Book /\ Registry(Instr)'
    BY ExperimentInvSteps DEF ResultsKept, ExperimentInv
  <1>2. CASE ExperimentStep
    BY <1>1, <1>2, ExperimentKeepsResults DEF ResultsKept
  <1>3. CASE InstallerStep
    BY <1>1, <1>3, InstallerKeepsResults DEF ResultsKept
  <1>4. CASE UNCHANGED vars
    <2>1. disk' = disk /\ todo' = todo /\ job' = job
      BY <1>4 DEF vars, installerVars
    <2> QED BY <1>1, <2>1 DEF ResultsKept, Results
  <1> QED BY <1>2, <1>3, <1>4

LEMMA ResultsInvariant ==
  ASSUME PhasesOnce
  PROVE  Spec => []ResultsKept
  <1>1. InstallerInit => ResultsKept
    BY ExperimentBegins, ResultsBegin DEF ResultsKept
  <1>2. ResultsKept /\ [ExperimentStep \/ InstallerStep]_vars => ResultsKept'
    BY ResultsSteps
  <1> QED BY <1>1, <1>2, PTL DEF Spec

(* What is recorded as completed.                                          *)
LEMMA RecordedHas ==
  ASSUME Results, NEW x \in Recorded
  PROVE  Has(disk, x, Saved(x)) /\ CompletedOf(Saved(x)) = Completed(x)
  <1>1. x \in Experiments /\ ReadableIn(disk, ManifestFile(x))
    BY DEF Recorded, Readable, Exists, ReadableIn
  <1>2. Has(disk, x, Saved(x))
    BY <1>1, ResultsDrained DEF Results, ResultsOk, Saved
  <1> QED BY <1>2 DEF CompletedOf, Completed

LEMMA CompletedIsTold ==
  ASSUME Results, Events # <<>>
  PROVE  PredictionsComplete
  <1>1. ASSUME NEW x \in Recorded, NEW ph \in Completed(x), NEW file \in Told(ph)
        PROVE  OnePerEvent(x, ph, file)
    <2>1. OneRun(disk, x, ph, file, Saved(x).runs)
      BY <1>1, RecordedHas DEF Has
    <2>2. PICK run, program : <<ph, run>> \in Saved(x).runs /\ Shown(disk, x, file, run, program)
      BY <2>1 DEF OneRun
    <2>3. run \in {r[2] : r \in {q \in Saved(x).runs : q[1] = ph}}
      <3>1. <<ph, run>>[1] = ph /\ <<ph, run>>[2] = run
        OBVIOUS
      <3> QED BY <2>2, <3>1
    <2> DEFINE path == Predictions(x, file)
    <2>4. /\ path \in DOMAIN disk /\ Len(disk[path]) = Len(Events)
          /\ \A i \in DOMAIN Events : disk[path][i] = [event |-> Events[i], run |-> run, program |-> program]
      BY <2>2 DEF Shown
    <2> HIDE DEF path
    <2>5. ASSUME NEW i \in DOMAIN Events
          PROVE  disk[path][i].event = Events[i] /\ disk[path][i].run = run
      <3> DEFINE line == disk[path][i]
      <3>1. line = [event |-> Events[i], run |-> run, program |-> program]
        BY <2>4
      <3> HIDE DEF line
      <3>2. line.event = Events[i] /\ line.run = run
        BY <3>1
      <3> QED BY <3>2 DEF line
    <2> QED BY <2>3, <2>4, <2>5 DEF OnePerEvent, Exists, path
  <1>2. \A ph \in DOMAIN RewrittenFile : RewrittenFile[ph] \in Told(ph)
    BY DEF Told
  <1>3. \A i \in DOMAIN SplitFiles : SplitFiles[i] \in Told("patch_validation")
    BY SplitNames
  <1> QED BY <1>1, <1>2, <1>3 DEF PredictionsComplete

LEMMA CompletedIsInstalled ==
  ASSUME ExperimentInv, Results
  PROVE  InstalledIsEvaluated
  <1> SUFFICES ASSUME NEW x \in Recorded, "patch_validation" \in Completed(x)
               PROVE  /\ Readable(GateFile(x)) /\ disk[GateFile(x)]
                      /\ Readable(PatchInstallFile(x)) /\ disk[PatchInstallFile(x)] \in Whole
                      /\ \A i \in DOMAIN Events :
                           disk[Predictions(x, CandidateFile)][i].program
                             = disk[ProgramFile(disk[PatchInstallFile(x)])]
    BY DEF InstalledIsEvaluated
  <1> DEFINE version == disk[PatchInstallFile(x)]
  <1>1. Delivered(disk, x)
    BY RecordedHas DEF Has
  <1>2. Readable(GateFile(x)) /\ disk[GateFile(x)]
    BY <1>1 DEF Delivered, Accepted, ReadableIn, Readable, Exists
  <1>3. Readable(PatchInstallFile(x)) /\ version \in WholeIn(disk)
    BY <1>1 DEF Delivered, ReadableIn, Readable, Exists
  <1>4. PICK run : Shown(disk, x, CandidateFile, run, VersionIn(disk, version).program)
    BY <1>1 DEF Delivered
  <1> HIDE DEF version
  <1>5. PICK n \in Nat : Registered(disk, evaluated, Instr, n)
    BY UnderWay DEF ExperimentInv, Registry
  <1>6. ProgramFile(version) \in DOMAIN disk
    <2>1. version \in 1 .. n
      BY <1>3, <1>5, WholeVersions DEF Registered
    <2> QED BY <1>5, <2>1 DEF Registered, RegistryOk, VersionOk
  <1>7. VersionIn(disk, version).program = disk[ProgramFile(version)]
    BY <1>6 DEF VersionIn
  <1>8. Whole = WholeIn(disk)
    BY DEF Whole, WholeIn, Listed, ListedIn, Readable, Exists, ReadableIn
  <1>9. ASSUME NEW i \in DOMAIN Events
        PROVE  disk[Predictions(x, CandidateFile)][i].program = disk[ProgramFile(version)]
    <2>1. Events # <<>>
      BY <1>9
    <2> DEFINE line == disk[Predictions(x, CandidateFile)][i]
    <2>2. line = [event |-> Events[i], run |-> run, program |-> VersionIn(disk, version).program]
      BY <1>4, <2>1 DEF Shown
    <2> HIDE DEF line
    <2>3. line.program = VersionIn(disk, version).program
      BY <2>2
    <2> QED BY <1>7, <2>3 DEF line
  <1> QED BY <1>2, <1>3, <1>8, <1>9 DEF version

(* runner.rs 762, 1392, 1611, 1845: the predictions of a completed phase   *)
(* are one per event, in order, and all of one run that the manifest names *)
(* for that phase, however often the phase was cut short and run again, if *)
(* no configuration names a phase twice and there are events.              *)
THEOREM PredictionsAreComplete ==
  PhasesOnce /\ Events # <<>> => (Spec => []PredictionsComplete)
  <1> SUFFICES ASSUME PhasesOnce, Events # <<>>
               PROVE  Spec => []PredictionsComplete
    OBVIOUS
  <1>1. ResultsKept => PredictionsComplete
    BY CompletedIsTold DEF ResultsKept
  <1>2. Spec => []ResultsKept
    BY ResultsInvariant
  <1> QED BY <1>1, <1>2, PTL

(* runner.rs 1802: when patch_validation is recorded its gate accepted,    *)
(* and the version it reports holds, to the instruction, the program every *)
(* candidate prediction was made with, whatever was started, crashed or    *)
(* installed since, if no configuration names a phase twice.               *)
THEOREM EvaluatedIsInstalled == PhasesOnce => (Spec => []InstalledIsEvaluated)
  <1> SUFFICES ASSUME PhasesOnce
               PROVE  Spec => []InstalledIsEvaluated
    OBVIOUS
  <1>1. ResultsKept => InstalledIsEvaluated
    BY CompletedIsInstalled DEF ResultsKept
  <1>2. Spec => []ResultsKept
    BY ResultsInvariant
  <1> QED BY <1>1, <1>2, PTL

-----------------------------------------------------------------------------
(* What patch_validation finds when it asks for the optimizer's artifacts. *)
NeverOptimizes(x) ==
  \A config \in Configs[x] : \A i \in DOMAIN config.phases : config.phases[i] # "optimize"
OptimizesFirst(x) ==
  \A config \in Configs[x] : \A i \in DOMAIN config.phases :
    config.phases[i] = "patch_validation" => \E k \in 1 .. i - 1 : config.phases[k] = "optimize"

(* The configurations of an id agree on who writes the artifacts, which    *)
(* the code does not check before there is a manifest.                     *)
OneOptimizer == \A x \in Experiments : NeverOptimizes(x) \/ OptimizesFirst(x)

Prepared(d, x) ==
  ReadableIn(d, PlanFile(x)) /\ RulesFile(x) \in DOMAIN d /\ MemoFile(x) \in DOMAIN d

(* What tells that they are whole: the memo, which is written last, or     *)
(* that optimize is completed.                                             *)
Due(d, x, completed) ==
  IF NeverOptimizes(x) THEN MemoFile(x) \in DOMAIN d ELSE "optimize" \in completed
DueMet(d, x, completed) == Due(d, x, completed) => Prepared(d, x)

CompletedOn(d, x) ==
  IF ReadableIn(d, ManifestFile(x)) THEN CompletedOf(d[ManifestFile(x)]) ELSE {}
ArtifactsOk(d) == \A x \in Experiments : DueMet(d, x, CompletedOn(d, x))

JobArtifacts(d, j) ==
  IsJob(j) =>
    /\ DueMet(d, j.exp, CompletedOf(j.manifest))
    /\ j.at = "select" => Prepared(d, j.exp)

ArtifactsInv(d, queue, j) ==
  \E e, disks : /\ Goes(d, queue, e, disks)
                /\ \A x \in disks : ArtifactsOk(x)
                /\ JobArtifacts(e, j)

(* The artifacts of x are those that were there.                           *)
Undisturbed(d, e, x) ==
  /\ SameFile(d, e, PlanFile(x)) /\ SameFile(d, e, MemoFile(x))
  /\ RulesFile(x) \in DOMAIN d => RulesFile(x) \in DOMAIN e

LEMMA PreparedStays ==
  ASSUME NEW d, NEW e, NEW x, Undisturbed(d, e, x)
  PROVE  /\ Prepared(d, x) => Prepared(e, x)
         /\ \A completed : DueMet(d, x, completed) => DueMet(e, x, completed)
  <1>1. Prepared(d, x) => Prepared(e, x)
    BY DEF Undisturbed, Prepared, SameFile, ReadableIn
  <1>2. \A completed : Due(e, x, completed) => Due(d, x, completed)
    BY DEF Undisturbed, Due, SameFile
  <1> QED BY <1>1, <1>2 DEF DueMet

LEMMA DueLess ==
  ASSUME NEW d, NEW x, NEW completed, DueMet(d, x, completed),
         NEW less, "optimize" \in less => "optimize" \in completed
  PROVE  DueMet(d, x, less)
  BY DEF DueMet, Due

LEMMA ArtifactsStay ==
  ASSUME NEW d, NEW e, ArtifactsOk(d), SameManifests(d, e), \A x : Undisturbed(d, e, x)
  PROVE  ArtifactsOk(e)
  <1> SUFFICES ASSUME NEW x \in Experiments PROVE DueMet(e, x, CompletedOn(e, x))
    BY DEF ArtifactsOk
  <1>1. CompletedOn(e, x) = CompletedOn(d, x)
    BY DEF SameManifests, CompletedOn
  <1>2. DueMet(d, x, CompletedOn(d, x))
    BY DEF ArtifactsOk
  <1> QED BY <1>1, <1>2, PreparedStays

ArtifactKinds == {"plan", "rules", "memo"}

LEMMA AgreeUndisturbed ==
  ASSUME NEW d, NEW e, Agree(d, e, ArtifactKinds)
  PROVE  \A x : Undisturbed(d, e, x)
  <1> TAKE x
  <1>1. \A p : p[1] \in ArtifactKinds => SameFile(d, e, p)
    BY DEF Agree, SameFile
  <1>2. SameFile(d, e, PlanFile(x)) /\ SameFile(d, e, RulesFile(x)) /\ SameFile(d, e, MemoFile(x))
    BY <1>1, ExperimentPaths DEF ArtifactKinds
  <1> QED BY <1>2 DEF Undisturbed, SameFile

(* The files of a phase that makes no artifacts.                           *)
LEMMA OwnedUndisturbed ==
  ASSUME NEW d, NEW e, NEW paths, NEW removed, Follows(d, e, paths, removed),
         NEW x, NEW ph, ph \notin {"optimize", "patch_validation"},
         \A q \in paths : Owned(q, x, ph), \A q \in removed : Removable(q)
  PROVE  SameManifests(d, e) /\ \A y : Undisturbed(d, e, y)
  <1>1. \A q : q \notin paths => SameFile(d, e, q)
    BY DEF Follows, SameFile
  <1>2. SameManifests(d, e)
    <2>1. \A y : ManifestFile(y) \notin paths
      BY ExperimentPaths DEF Owned, BookKinds
    <2> QED BY <2>1 DEF SameManifests, Follows, ReadableIn
  <1>3. ASSUME NEW y PROVE Undisturbed(d, e, y)
    <2>1. PlanFile(y) \notin paths /\ MemoFile(y) \notin paths
      BY ExperimentPaths DEF Owned
    <2>2. RulesFile(y) \notin removed
      BY ExperimentPaths DEF Removable
    <2> QED BY <1>1, <2>1, <2>2 DEF Undisturbed, Follows
  <1> QED BY <1>2, <1>3

LEMMA ArtifactsDrained ==
  ASSUME NEW d, NEW queue, NEW j, ArtifactsInv(d, queue, j)
  PROVE  ArtifactsOk(d) /\ (queue = <<>> => JobArtifacts(d, j))
  <1>1. PICK e, disks : /\ Goes(d, queue, e, disks)
                        /\ \A x \in disks : ArtifactsOk(x)
                        /\ JobArtifacts(e, j)
    BY DEF ArtifactsInv
  <1>2. d \in disks
    BY <1>1 DEF Goes
  <1>3. queue = <<>> => e = d
    BY <1>1, GoesDrained
  <1> QED BY <1>1, <1>2, <1>3

LEMMA ArtifactsAfter ==
  ASSUME NEW d, NEW e, NEW disks, NEW queue, NEW more, NEW k,
         Goes(d, queue, e, disks), \A x \in disks : ArtifactsOk(x), ArtifactsInv(e, more, k)
  PROVE  ArtifactsInv(d, queue \o more, k)
  <1>1. PICK f, others : /\ Goes(e, more, f, others)
                         /\ \A x \in others : ArtifactsOk(x)
                         /\ JobArtifacts(f, k)
    BY DEF ArtifactsInv
  <1> DEFINE all == disks \cup others
  <1>2. Goes(d, queue \o more, f, all)
    BY <1>1, GoesOn
  <1>3. \A x \in all : ArtifactsOk(x)
    BY <1>1
  <1> HIDE DEF all
  <1> QED BY <1>1, <1>2, <1>3 DEF ArtifactsInv

LEMMA ArtifactsPut ==
  ASSUME NEW d, ArtifactsOk(d), NEW path, path[1] \notin ArtifactKinds \cup {"manifest"},
         NEW content, NEW e, e = PutIn(d, path, content)
  PROVE  ArtifactsOk(e) /\ \A x : Undisturbed(d, e, x)
  <1>1. Agree(d, e, ArtifactKinds) /\ Agree(d, e, {"manifest"})
    BY PutInAgrees
  <1>2. SameManifests(d, e)
    BY <1>1, ExperimentPaths DEF Agree, SameManifests, ReadableIn
  <1> QED BY <1>1, <1>2, AgreeUndisturbed, ArtifactsStay

LEMMA ArtifactsManifest ==
  ASSUME NEW d, ArtifactsOk(d), NEW x, NEW content,
         content # Torn => DueMet(d, x, CompletedOf(content)),
         NEW e, e = PutIn(d, ManifestFile(x), content)
  PROVE  ArtifactsOk(e) /\ \A y : Undisturbed(d, e, y)
  <1>1. ManifestFile(x)[1] \notin ArtifactKinds
    BY ExperimentPaths DEF ArtifactKinds
  <1>2. \A y : Undisturbed(d, e, y)
    BY <1>1, PutInAgrees, AgreeUndisturbed
  <1>3. ASSUME NEW y \in Experiments
        PROVE  DueMet(e, y, CompletedOn(e, y))
    <2>1. DueMet(d, y, CompletedOn(d, y))
      BY DEF ArtifactsOk
    <2>2. CASE y = x /\ content # Torn
      <3>1. CompletedOn(e, y) = CompletedOf(content)
        BY <2>2, PutReads DEF CompletedOn
      <3> QED BY <1>2, <2>2, <3>1, PreparedStays
    <2>3. CASE y = x /\ content = Torn
      <3>1. CompletedOn(e, y) = {}
        BY <2>3, PutReads DEF CompletedOn
      <3>2. DueMet(d, y, {})
        BY <2>1, DueLess
      <3> QED BY <1>2, <3>1, <3>2, PreparedStays
    <2>4. CASE y # x
      <3>1. ManifestFile(y) # ManifestFile(x)
        BY <2>4, BookPathsApart
      <3>2. CompletedOn(e, y) = CompletedOn(d, y)
        BY <3>1, PutReads DEF CompletedOn
      <3> QED BY <1>2, <2>1, <3>2, PreparedStays
    <2> QED BY <2>2, <2>3, <2>4
  <1> QED BY <1>2, <1>3 DEF ArtifactsOk

LEMMA ArtifactsRecorded ==
  ASSUME NEW d, ArtifactsOk(d), NEW x, NEW ph, NEW word, NEW manifest,
         DueMet(d, x, CompletedOf(manifest)), NEW k, Between(k, x, manifest)
  PROVE  ArtifactsInv(d, Recording(x, ph, word, manifest), k)
  <1> DEFINE t2 == PutIn(d, MarkerFile(x, ph), Torn)
             e2 == PutIn(d, MarkerFile(x, ph), word)
             t3 == PutIn(e2, ManifestFile(x), Torn)
             e3 == PutIn(e2, ManifestFile(x), manifest)
             disks == {d, t2, e2} \cup {e2, t3, e3}
             queue == Recording(x, ph, word, manifest)
  <1>1. Goes(d, queue, e3, disks)
    BY GoesTwoWrites DEF Recording
  <1> HIDE DEF t2, e2, t3, e3, queue
  <1>2. MarkerFile(x, ph)[1] \notin ArtifactKinds \cup {"manifest"}
    BY ExperimentPaths DEF ArtifactKinds
  <1>3. ArtifactsOk(t2)
    BY <1>2, ArtifactsPut DEF t2
  <1>4. ArtifactsOk(e2) /\ DueMet(e2, x, CompletedOf(manifest))
    <2>1. ArtifactsOk(e2) /\ Undisturbed(d, e2, x)
      BY <1>2, ArtifactsPut DEF e2
    <2> QED BY <2>1, PreparedStays
  <1>5. ArtifactsOk(t3)
    BY <1>4, ArtifactsManifest DEF t3
  <1>6. ArtifactsOk(e3) /\ DueMet(e3, x, CompletedOf(manifest))
    <2>1. ArtifactsOk(e3) /\ Undisturbed(e2, e3, x)
      BY <1>4, ArtifactsManifest DEF e3
    <2> QED BY <1>4, <2>1, PreparedStays
  <1>7. \A f \in disks : ArtifactsOk(f)
    BY <1>3, <1>4, <1>5, <1>6
  <1>8. JobArtifacts(e3, k)
    BY <1>6 DEF Between, JobArtifacts
  <1> HIDE DEF disks
  <1> QED BY <1>1, <1>7, <1>8 DEF ArtifactsInv, queue

-----------------------------------------------------------------------------
(* The artifacts through the steps.                                        *)
ArtifactsHold == ArtifactsInv(disk, todo, job)

LEMMA JobUndisturbed ==
  ASSUME NEW d, NEW e, \A x : Undisturbed(d, e, x), NEW j, JobArtifacts(d, j)
  PROVE  JobArtifacts(e, j)
  BY PreparedStays DEF JobArtifacts

(* A step that has nothing to do with artifacts.                           *)
LEMMA ArtifactsQuiet ==
  ASSUME NEW d, ArtifactsOk(d), NEW queue, Spared(queue, ArtifactKinds \cup {"manifest"}),
         NEW k, JobArtifacts(d, k)
  PROVE  ArtifactsInv(d, queue, k)
  <1> DEFINE kinds == ArtifactKinds \cup {"manifest"}
  <1>1. PICK e, disks : Goes(d, queue, e, disks) /\ \A x \in disks : Agree(d, x, kinds)
    BY SparedGoes
  <1>2. ASSUME NEW f \in disks PROVE ArtifactsOk(f) /\ \A x : Undisturbed(d, f, x)
    <2>1. Agree(d, f, ArtifactKinds) /\ Agree(d, f, {"manifest"})
      BY <1>1, <1>2 DEF Agree
    <2>2. SameManifests(d, f)
      BY <2>1, ExperimentPaths DEF Agree, SameManifests, ReadableIn
    <2> QED BY <2>1, <2>2, AgreeUndisturbed, ArtifactsStay
  <1>3. JobArtifacts(e, k)
    <2>1. e \in disks
      BY <1>1 DEF Goes
    <2> QED BY <1>2, <2>1, JobUndisturbed
  <1> QED BY <1>1, <1>2, <1>3 DEF ArtifactsInv

LEMMA ArtifactsQuietStep ==
  ASSUME ArtifactsHold, disk' = disk, Spared(todo', ArtifactKinds \cup {"manifest"}),
         JobArtifacts(disk, job')
  PROVE  ArtifactsHold'
  <1> DEFINE k == job'
             q == todo'
  <1>1. ArtifactsOk(disk) /\ Spared(q, ArtifactKinds \cup {"manifest"}) /\ JobArtifacts(disk, k)
    BY ArtifactsDrained DEF ArtifactsHold
  <1> HIDE DEF k, q
  <1>2. ArtifactsInv(disk, q, k)
    BY <1>1, ArtifactsQuiet
  <1> QED BY <1>2 DEF ArtifactsHold, k, q

(* A job that stops, and one that goes on with what it has recorded.       *)
LEMMA ArtifactsStop ==
  ASSUME ArtifactsHold, disk' = disk, Spared(todo', ArtifactKinds \cup {"manifest"}), ~IsJob(job')
  PROVE  ArtifactsHold'
  BY ArtifactsQuietStep DEF JobArtifacts

LEMMA ArtifactsSame ==
  ASSUME ArtifactsHold, todo = <<>>, IsJob(job), disk' = disk,
         Spared(todo', ArtifactKinds \cup {"manifest"}),
         job'.exp = job.exp, job'.manifest = job.manifest, job'.at # "select"
  PROVE  ArtifactsHold'
  <1>1. DueMet(disk, job.exp, CompletedOf(job.manifest))
    BY ArtifactsDrained DEF ArtifactsHold, JobArtifacts
  <1>2. JobArtifacts(disk, job')
    BY <1>1 DEF JobArtifacts
  <1> QED BY <1>2, ArtifactsQuietStep

LEMMA StartKeepsArtifacts ==
  ASSUME ArtifactsHold, NEW x \in Experiments, NEW config, StartExperiment(x, config)
  PROVE  ArtifactsHold'
  <1> DEFINE fresh == ~Exists(ManifestFile(x))
             manifest == ManifestOf(x, fresh)
             completed == manifest.completed
             done == {completed[i] : i \in DOMAIN completed}
             run == ThisStart
             k == job'
  <1>1. /\ disk' = disk /\ todo' = <<Write(LockFile(x), config)>>
        /\ k = Job("estimate", x, config, fresh, manifest, run, {}, done, config.phases, 0, <<>>)
        /\ Exists(ManifestFile(x)) => MayResume(x, config)
    BY DEF StartExperiment, Job
  <1>2. manifest = IF fresh THEN FreshManifest ELSE disk[ManifestFile(x)]
    BY DEF ManifestOf
  <1>3. ~fresh => ReadableIn(disk, ManifestFile(x))
    BY <1>1 DEF MayResume, Readable, Exists, ReadableIn
  <1>4. DueMet(disk, x, CompletedOf(manifest))
    <2>1. DueMet(disk, x, CompletedOn(disk, x))
      BY ArtifactsDrained DEF ArtifactsHold, ArtifactsOk
    <2>2. CASE fresh
      <3>1. CompletedOf(FreshManifest) = {}
        BY FreshIsManifest DEF CompletedOf
      <3> QED BY <1>2, <2>1, <2>2, <3>1, DueLess
    <2>3. CASE ~fresh
      BY <1>2, <1>3, <2>1, <2>3 DEF CompletedOn
    <2> QED BY <2>2, <2>3
  <1> HIDE DEF fresh, manifest, done, run, k
  <1>5. k.at = "estimate" /\ k.exp = x /\ k.manifest = manifest
    BY <1>1, JobIs
  <1>6. LockFile(x)[1] \notin ArtifactKinds \cup {"manifest"}
    BY ExperimentPaths DEF ArtifactKinds
  <1>7. Spared(todo', ArtifactKinds \cup {"manifest"})
    BY <1>1, <1>6, SparedWrite
  <1>8. JobArtifacts(disk, k)
    BY <1>4, <1>5 DEF JobArtifacts
  <1> QED BY <1>1, <1>7, <1>8, ArtifactsQuietStep DEF k

LEMMA EstimateKeepsArtifacts ==
  ASSUME Book, ArtifactsHold, NEW goesOn, Estimate(goesOn)
  PROVE  ArtifactsHold'
  <1>1. /\ job.at = "estimate" /\ todo = <<>> /\ todo' = <<>> /\ disk' = disk
        /\ job' = IF goesOn THEN [job EXCEPT !.at = "workflow"] ELSE Idle
    BY DEF Estimate, At
  <1>2. IsJob(job) /\ HasFields(job)
    BY <1>1, BookTyped DEF ExpPlaces, IsJob
  <1>3. Spared(<<>>, ArtifactKinds \cup {"manifest"})
    BY SparedNone
  <1>4. CASE goesOn
    <2>1. job' = [job EXCEPT !.at = "workflow"]
      BY <1>1, <1>4
    <2>2. Moved(job, job', "workflow")
      BY <1>2, <2>1, JobMoves
    <2>3. job'.at # "select" /\ job'.exp = job.exp /\ job'.manifest = job.manifest
      BY <2>2 DEF Moved, SameBook
    <2> QED BY <1>1, <1>2, <1>3, <2>3, ArtifactsSame
  <1>5. CASE ~goesOn
    <2>1. ~IsJob(job')
      BY <1>1, <1>5, NotJobs
    <2> QED BY <1>1, <1>3, <2>1, ArtifactsStop
  <1> QED BY <1>4, <1>5

LEMMA EnsureKeepsArtifacts ==
  ASSUME Book, ArtifactsHold, EnsureWorkflow
  PROVE  ArtifactsHold'
  <1> DEFINE kinds == ArtifactKinds \cup {"manifest"}
  <1>1. /\ job.at = "workflow" /\ todo = <<>> /\ disk' = disk
        /\ job' = [job EXCEPT !.at = "phase"]
    BY DEF EnsureWorkflow, At
  <1>2. IsJob(job) /\ HasFields(job)
    BY <1>1, BookTyped DEF ExpPlaces, IsJob
  <1>3. Moved(job, job', "phase")
    BY <1>1, <1>2, JobMoves
  <1>4. job'.at # "select" /\ job'.exp = job.exp /\ job'.manifest = job.manifest
    BY <1>3 DEF Moved, SameBook
  <1>5. kinds \cap RegistryKinds = {}
    BY DEF ArtifactKinds, RegistryKinds
  <1> HIDE DEF kinds
  <1>6. /\ Spared(<<>>, kinds)
        /\ \A m, program, metadata : Spared(WriteVersion(m, program, metadata) \o SetLatest(m), kinds)
        /\ \A m : Spared(SetLatest(m), kinds)
        /\ \A program : Spared(InitWorkflow(program), kinds)
    BY <1>5, SparedNone, RegistrySpares
  <1>7. Spared(todo', kinds)
    <2>1. \/ todo' = <<>>
          \/ todo' = InitWorkflow(Configured)
          \/ todo' = EnsureConfiguredBaseline(Configured)
      BY <1>1 DEF EnsureWorkflow
    <2>2. Spared(EnsureConfiguredBaseline(Configured), kinds)
      BY <1>6 DEF EnsureConfiguredBaseline, InstallVersion
    <2> QED BY <1>6, <2>1, <2>2
  <1> QED BY <1>1, <1>2, <1>4, <1>7, ArtifactsSame DEF kinds

LEMMA PassKeepsArtifacts ==
  ASSUME Book, ArtifactsHold, PassCompleted
  PROVE  ArtifactsHold'
  <1>1. /\ job.at = "phase" /\ todo = <<>> /\ todo' = <<>> /\ disk' = disk
        /\ job' = [job EXCEPT !.left = Tail(job.left)]
    BY DEF PassCompleted, At
  <1>2. IsJob(job) /\ HasFields(job)
    BY <1>1, BookTyped DEF ExpPlaces, IsJob
  <1> DEFINE left == Tail(job.left)
             k == job'
  <1>3. k = [job EXCEPT !.left = left]
    BY <1>1
  <1> HIDE DEF left, k
  <1>4. Passed(job, k, left, job.manifest) /\ k.at = job.at
    BY <1>2, <1>3, JobPasses
  <1>5. job'.at # "select" /\ job'.exp = job.exp /\ job'.manifest = job.manifest
    BY <1>1, <1>4 DEF Passed, k
  <1>6. Spared(todo', ArtifactKinds \cup {"manifest"})
    BY <1>1, SparedNone
  <1> QED BY <1>1, <1>2, <1>5, <1>6, ArtifactsSame

LEMMA FinishKeepsArtifacts ==
  ASSUME ArtifactsHold, Finish
  PROVE  ArtifactsHold'
  <1> DEFINE kinds == ArtifactKinds \cup {"manifest"}
             a == Write(ReportJson(job.exp), job.manifest.runs)
             b == Write(ReportMarkdown(job.exp), job.manifest.runs)
  <1>1. job' = Idle /\ disk' = disk
    BY DEF Finish, Unchanged
  <1>2. ~IsJob(job')
    BY <1>1, NotJobs
  <1>3. ReportJson(job.exp)[1] \notin kinds /\ ReportMarkdown(job.exp)[1] \notin kinds
    BY ExperimentPaths DEF ArtifactKinds
  <1> HIDE DEF kinds
  <1>4. todo' = <<>> \/ todo' = <<a, b>>
    BY DEF Finish
  <1>5. Spared(<<a>>, kinds) /\ Spared(<<b>>, kinds)
    BY <1>3, SparedWrite
  <1> HIDE DEF a, b
  <1>6. Spared(<<a>> \o <<b>>, kinds)
    BY <1>5, SparedJoin
  <1>7. Spared(<<a, b>>, kinds)
    BY <1>6, JoinTwo
  <1>8. Spared(todo', kinds)
    BY <1>4, <1>7, SparedNone
  <1> QED BY <1>1, <1>2, <1>8, ArtifactsStop DEF kinds

(* A phase that is skipped is not optimize.                                *)
LEMMA SkipKeepsArtifacts ==
  ASSUME Book, ArtifactsHold, SkipPhase
  PROVE  ArtifactsHold'
  <1> DEFINE ph == Phase
             skipped == job.manifest.skipped \cup {ph}
             manifest == [job.manifest EXCEPT !.skipped = skipped]
             left == Tail(job.left)
             k == job'
             x == job.exp
  <1>1. todo = <<>> /\ ph \notin KnownPhases /\ disk' = disk /\ job.at = "phase"
    BY DEF SkipPhase, At, Unchanged
  <1>2. /\ todo' = IF ph \in job.manifest.skipped THEN <<>>
                   ELSE Recording(x, ph, "skipped", manifest)
        /\ k = [job EXCEPT !.left = left, !.manifest = manifest]
    BY DEF SkipPhase, Recording
  <1>3. IsJob(job)
    BY <1>1, BookTyped DEF ExpPlaces
  <1>4. HasFields(job) /\ IsManifest(job.manifest)
    BY <1>1, <1>3, JobFacts
  <1>5. ArtifactsOk(disk) /\ DueMet(disk, x, CompletedOf(job.manifest))
    BY <1>1, <1>3, ArtifactsDrained DEF ArtifactsHold, JobArtifacts
  <1> HIDE DEF ph
  <1>6. Marked(job.manifest, manifest, ph, "skipped", job.manifest.completed)
    BY <1>1, <1>4, ManifestSkips
  <1> HIDE DEF manifest, left, k
  <1>7. DueMet(disk, x, CompletedOf(manifest))
    BY <1>5, <1>6 DEF Marked, CompletedOf
  <1>8. Skips(job, k, left, manifest)
    BY <1>2, <1>4, JobSkips, Zenon
  <1>9. Between(k, x, manifest)
    BY <1>1, <1>8 DEF Skips, Passed, Between, IsJob, ExpPlaces
  <1>10. CASE ph \in job.manifest.skipped
    <2>1. todo' = <<>>
      BY <1>2, <1>10
    <2>2. Spared(todo', ArtifactKinds \cup {"manifest"})
      BY <2>1, SparedNone
    <2>3. JobArtifacts(disk, k)
      BY <1>7, <1>9 DEF Between, JobArtifacts
    <2> QED BY <1>1, <2>2, <2>3, ArtifactsQuietStep DEF k
  <1>11. CASE ph \notin job.manifest.skipped
    <2> DEFINE word == "skipped"
               queue == Recording(x, ph, word, manifest)
    <2>1. todo' = queue
      BY <1>2, <1>11
    <2> HIDE DEF x, word
    <2>2. ArtifactsInv(disk, queue, k)
      BY <1>5, <1>7, <1>9, ArtifactsRecorded
    <2> HIDE DEF queue
    <2> QED BY <1>1, <2>1, <2>2 DEF ArtifactsHold, k
  <1> QED BY <1>10, <1>11

LEMMA InstallerKeepsArtifacts ==
  ASSUME Book, ArtifactsHold, InstallerStep
  PROVE  ArtifactsHold'
  <1> DEFINE kinds == ArtifactKinds \cup {"manifest"}
  <1>1. kinds \cap RegistryKinds = {}
    BY DEF ArtifactKinds, RegistryKinds
  <1>2. IsJob(job) \/ IsOther(job)
    BY BookTyped
  <1> HIDE DEF kinds
  <1>3. CASE FileOperation
    <2>1. FileStep /\ job' = job
      BY <1>3 DEF FileOperation
    <2>2. PICK e, disks : /\ Goes(disk, todo, e, disks)
                          /\ \A x \in disks : ArtifactsOk(x)
                          /\ JobArtifacts(e, job)
      BY DEF ArtifactsHold, ArtifactsInv
    <2>3. Goes(disk', todo', e, disks)
      BY <2>1, <2>2, GoesAway
    <2> DEFINE d == disk'
               q == todo'
    <2>4. Goes(d, q, e, disks)
      BY <2>3
    <2> HIDE DEF d, q
    <2>5. ArtifactsInv(d, q, job)
      BY <2>2, <2>4 DEF ArtifactsInv
    <2> QED BY <2>1, <2>5 DEF ArtifactsHold, d, q
  <1>4. CASE disk' = disk /\ Spared(todo', kinds) /\ IsOther(job')
    <2>1. ~IsJob(job')
      BY <1>4, NotJobs
    <2> QED BY <1>4, <2>1, ArtifactsStop DEF kinds
  <1> QED BY <1>1, <1>2, <1>3, <1>4, InstallerQuiet

LEMMA ArtifactsBegin ==
  ASSUME InstallerInit
  PROVE  ArtifactsHold
  <1> DEFINE d == [path \in {} |-> Torn]
  <1>1. disk = d /\ todo = <<>> /\ job = Idle
    BY DEF InstallerInit
  <1>2. ArtifactsOk(d)
    BY DEF ArtifactsOk, DueMet, Due, CompletedOn, ReadableIn
  <1> HIDE DEF d
  <1>3. JobArtifacts(d, Idle)
    BY NotJobs DEF JobArtifacts
  <1>4. ArtifactsInv(d, <<>>, Idle)
    <2> DEFINE disks == {d}
    <2>1. Goes(d, <<>>, d, disks) /\ \A x \in disks : ArtifactsOk(x)
      BY <1>2, GoesNowhere
    <2> HIDE DEF disks
    <2> QED BY <1>3, <2>1 DEF ArtifactsInv
  <1> QED BY <1>1, <1>4 DEF ArtifactsHold

(* A phase is complete, and the artifacts are there if it was optimize.    *)
LEMMA ArtifactsComplete ==
  ASSUME IsJob(job), IsManifest(job.manifest), Phase \in KnownPhases, disk' = disk,
         NEW ops, NEW e, NEW disks, Goes(disk, ops, e, disks), \A f \in disks : ArtifactsOk(f),
         NEW runs, Complete(ops, runs),
         DueMet(e, job.exp, CompletedOf(job.manifest) \cup {Phase})
  PROVE  ArtifactsHold'
  <1>1. PICK manifest : /\ todo' = ops \o Recording(job.exp, Phase, "completed", manifest)
                        /\ Between(job', job.exp, manifest)
                        /\ Completes(job.manifest, manifest, Phase, runs)
    BY CompletedManifest
  <1> DEFINE x == job.exp
             ph == Phase
             k == job'
             more == Recording(x, ph, "completed", manifest)
  <1>2. CompletedOf(manifest) = CompletedOf(job.manifest) \cup {ph}
    BY <1>1 DEF Completes
  <1>3. DueMet(e, x, CompletedOf(manifest)) /\ Between(k, x, manifest)
    BY <1>1, <1>2
  <1>4. ArtifactsOk(e)
    BY DEF Goes
  <1>5. todo' = ops \o more
    BY <1>1
  <1> HIDE DEF x, ph, k
  <1>6. ArtifactsInv(e, more, k)
    BY <1>3, <1>4, ArtifactsRecorded DEF more
  <1> HIDE DEF more
  <1>7. ArtifactsInv(disk, ops \o more, k)
    BY <1>6, ArtifactsAfter
  <1> QED BY <1>5, <1>7 DEF ArtifactsHold, k

(* What a queue with other files goes over.                                *)
Untouched(d, f) == ArtifactsOk(f) /\ \A y : Undisturbed(d, f, y)

LEMMA OwnedUntouched ==
  ASSUME NEW d, ArtifactsOk(d), NEW queue, NEW x, NEW ph, OwnedQueue(queue, x, ph),
         ph \notin {"optimize", "patch_validation"}
  PROVE  \E e, disks : Goes(d, queue, e, disks) /\ \A f \in disks : Untouched(d, f)
  <1>1. PICK paths, removed : /\ Within(queue, paths, removed)
                              /\ \A q \in paths : Owned(q, x, ph)
                              /\ \A q \in removed : Removable(q)
    BY DEF OwnedQueue
  <1>2. PICK e, disks : Ways(d, queue, e, disks, paths, removed)
    BY <1>1, WithinGoes
  <1>3. ASSUME NEW f \in disks PROVE Untouched(d, f)
    <2>1. Follows(d, f, paths, removed)
      BY <1>2, <1>3 DEF Ways
    <2>2. SameManifests(d, f) /\ \A y : Undisturbed(d, f, y)
      BY <1>1, <2>1, OwnedUndisturbed
    <2> QED BY <2>2, ArtifactsStay DEF Untouched
  <1> QED BY <1>2, <1>3 DEF Ways

LEMMA SparedUntouched ==
  ASSUME NEW d, ArtifactsOk(d), NEW queue, Spared(queue, ArtifactKinds \cup {"manifest"})
  PROVE  \E e, disks : Goes(d, queue, e, disks) /\ \A f \in disks : Untouched(d, f)
  <1> DEFINE kinds == ArtifactKinds \cup {"manifest"}
  <1>1. PICK e, disks : Goes(d, queue, e, disks) /\ \A x \in disks : Agree(d, x, kinds)
    BY SparedGoes
  <1>2. ASSUME NEW f \in disks PROVE Untouched(d, f)
    <2>1. Agree(d, f, ArtifactKinds) /\ Agree(d, f, {"manifest"})
      BY <1>1, <1>2 DEF Agree
    <2>2. SameManifests(d, f)
      BY <2>1, ExperimentPaths DEF Agree, SameManifests, ReadableIn
    <2> QED BY <2>1, <2>2, AgreeUndisturbed, ArtifactsStay DEF Untouched
  <1> QED BY <1>1, <1>2

(* A phase other than optimize is done, over files that are no artifacts.  *)
LEMMA ArtifactsLeft ==
  ASSUME Book, ArtifactsHold, Works, IsJob(job), NEW ops, NEW e, NEW disks,
         Goes(disk, ops, e, disks), \A f \in disks : Untouched(disk, f), Phase # "optimize"
  PROVE  /\ Fail(ops) => ArtifactsHold'
         /\ \A runs : Complete(ops, runs) => ArtifactsHold'
  <1>1. todo = <<>> /\ disk' = disk /\ Phase \in KnownPhases
    BY DEF Works
  <1>2. IsManifest(job.manifest)
    BY <1>1, JobFacts
  <1>3. DueMet(disk, job.exp, CompletedOf(job.manifest))
    BY <1>1, ArtifactsDrained DEF ArtifactsHold, JobArtifacts
  <1>4. \A f \in disks : ArtifactsOk(f)
    BY DEF Untouched
  <1>5. CASE Fail(ops)
    <2> DEFINE k == job'
    <2>1. todo' = ops /\ ~IsJob(k)
      BY <1>5, NotJobs DEF Fail
    <2> HIDE DEF k
    <2>2. JobArtifacts(e, k)
      BY <2>1 DEF JobArtifacts
    <2>3. ArtifactsInv(disk, ops, k)
      BY <1>4, <2>2 DEF ArtifactsInv
    <2> QED BY <1>1, <2>1, <2>3 DEF ArtifactsHold, k
  <1>6. ASSUME NEW runs, Complete(ops, runs) PROVE ArtifactsHold'
    <2>1. Undisturbed(disk, e, job.exp)
      BY DEF Goes, Untouched
    <2>2. DueMet(e, job.exp, CompletedOf(job.manifest))
      BY <1>3, <2>1, PreparedStays
    <2>3. DueMet(e, job.exp, CompletedOf(job.manifest) \cup {Phase})
      BY <2>2, DueLess
    <2> QED BY <1>1, <1>2, <1>4, <1>6, <2>3, ArtifactsComplete
  <1> QED BY <1>5, <1>6

LEMMA WholeKeepsArtifacts ==
  ASSUME Book, ArtifactsHold, WholePhase, Phase # "optimize"
  PROVE  ArtifactsHold'
  <1>1. PICK ops : PhaseDone(ops)
    BY DEF WholePhase
  <1>2. Works /\ job.at = "phase" /\ todo = <<>> /\ Phase \notin {"optimize", "patch_validation"}
    BY DEF WholePhase, Works
  <1>3. IsJob(job)
    BY <1>2, BookTyped DEF ExpPlaces
  <1>4. ArtifactsOk(disk)
    BY ArtifactsDrained DEF ArtifactsHold
  <1>5. OwnedQueue(ops, job.exp, Phase) /\ (Fail(ops) \/ \E runs : Complete(ops, runs))
    BY <1>1 DEF PhaseDone
  <1>6. PICK e, disks : Goes(disk, ops, e, disks) /\ \A f \in disks : Untouched(disk, f)
    BY <1>2, <1>4, <1>5, OwnedUntouched
  <1>7. /\ Fail(ops) => ArtifactsHold'
        /\ \A runs : Complete(ops, runs) => ArtifactsHold'
    BY <1>2, <1>3, <1>6, ArtifactsLeft
  <1> QED BY <1>5, <1>7

LEMMA InstallKeepsArtifacts ==
  ASSUME Book, ArtifactsHold, InstallSemantic
  PROVE  ArtifactsHold'
  <1>1. job.at = "install_semantic" /\ todo = <<>> /\ disk' = disk
    BY DEF InstallSemantic, At, Unchanged
  <1>2. IsJob(job) /\ Placed(job)
    BY <1>1, BookTyped, JobFacts DEF ExpPlaces
  <1>3. InstallPhase
    BY <1>2, InstallShape
  <1>4. Works /\ Phase # "optimize" /\ ArtifactsOk(disk)
    BY <1>3, ArtifactsDrained DEF InstallPhase, ArtifactsHold
  <1>5. ASSUME NEW ops, Spared(ops, ArtifactKinds \cup {"manifest"}),
               Fail(ops) \/ \E runs : Complete(ops, runs)
        PROVE  ArtifactsHold'
    <2>1. PICK e, disks : Goes(disk, ops, e, disks) /\ \A f \in disks : Untouched(disk, f)
      BY <1>4, <1>5, SparedUntouched
    <2>2. /\ Fail(ops) => ArtifactsHold'
          /\ \A runs : Complete(ops, runs) => ArtifactsHold'
      BY <1>2, <1>4, <2>1, ArtifactsLeft
    <2> QED BY <1>5, <2>2
  <1>6. ArtifactKinds \cup {"manifest"} \subseteq InstallSpares
    BY DEF ArtifactKinds, InstallSpares, BookKinds
  <1>7. CASE Fail(<<>>)
    BY <1>5, <1>7, SparedNone
  <1>8. CASE \E ops, runs : Complete(ops, runs) /\ Spared(ops, InstallSpares)
    BY <1>5, <1>6, <1>8, SparedMore
  <1> QED BY <1>3, <1>7, <1>8 DEF InstallPhase

LEMMA SelectKeepsArtifacts ==
  ASSUME Book, ArtifactsHold, SelectBase
  PROVE  ArtifactsHold'
  <1> DEFINE kinds == ArtifactKinds \cup {"manifest"}
  <1>1. job.at = "select" /\ todo = <<>> /\ disk' = disk
    BY DEF SelectBase, At, Unchanged
  <1>2. IsJob(job) /\ HasFields(job)
    BY <1>1, BookTyped DEF ExpPlaces, IsJob
  <1>3. CASE ~(CanSelect /\ IsStraight(disk[ProgramFile(BaseVersion)]))
    <2>1. todo' = <<>> /\ ~IsJob(job')
      BY <1>3, NotJobs DEF SelectBase, Fail
    <2> QED BY <1>1, <2>1, SparedNone, ArtifactsStop
  <1>4. CASE CanSelect /\ IsStraight(disk[ProgramFile(BaseVersion)])
    <2> DEFINE patched == Append(disk[ProgramFile(BaseVersion)], SemanticPatch)
    <2>1. job' = [job EXCEPT !.at = "gate", !.base = BaseVersion, !.program = patched]
          /\ todo' = DirectSplit \o ExactMemoSplit \o CandidateSplit(patched)
      BY <1>4 DEF SelectBase
    <2> HIDE DEF patched
    <2> DEFINE k == job'
    <2>2. Selected(job, k, BaseVersion, patched)
      BY <1>2, <2>1, JobSelects, Zenon
    <2>3. k.at # "select" /\ k.exp = job.exp /\ k.manifest = job.manifest
      BY <2>2 DEF Selected, Moved, SameBook
    <2> HIDE DEF k
    <2>4. "predictions" \notin kinds
      BY DEF ArtifactKinds
    <2> HIDE DEF kinds
    <2>5. Spared(DirectSplit, kinds) /\ Spared(ExactMemoSplit, kinds)
          /\ Spared(CandidateSplit(patched), kinds)
      BY <2>4, SparedRewritten DEF DirectSplit, ExactMemoSplit, CandidateSplit
    <2>6. Spared(DirectSplit \o ExactMemoSplit, kinds)
      BY <2>5, SparedJoin
    <2>7. Spared(todo', kinds)
      BY <2>1, <2>5, <2>6, SparedJoin
    <2> QED BY <1>1, <1>2, <2>3, <2>7, ArtifactsSame DEF k, kinds
  <1> QED BY <1>3, <1>4

LEMMA GateKeepsArtifacts ==
  ASSUME Book, ArtifactsHold, NEW accepted, Gate(accepted)
  PROVE  ArtifactsHold'
  <1> DEFINE kinds == ArtifactKinds \cup {"manifest"}
  <1>1. job.at = "gate" /\ todo = <<>> /\ disk' = disk
    BY DEF Gate, At
  <1>2. IsJob(job) /\ HasFields(job)
    BY <1>1, BookTyped DEF ExpPlaces, IsJob
  <1>3. "gate" \notin kinds /\ "patch_install" \notin kinds
    BY DEF ArtifactKinds
  <1> HIDE DEF kinds
  <1>4. CASE accepted
    <2> DEFINE yes == TRUE
               k == job'
    <2>1. todo' = <<Write(GateFile(job.exp), yes)>> /\ k = [job EXCEPT !.at = "install_semantic"]
      BY <1>4 DEF Gate
    <2>2. Moved(job, k, "install_semantic")
      BY <1>2, <2>1, JobMoves
    <2> HIDE DEF yes
    <2>3. Spared(todo', kinds)
      BY <1>3, <2>1, PartSpared
    <2>4. job'.at # "select" /\ job'.exp = job.exp /\ job'.manifest = job.manifest
      BY <2>2 DEF Moved, SameBook
    <2> QED BY <1>1, <1>2, <2>3, <2>4, ArtifactsSame DEF kinds
  <1>5. CASE ~accepted
    <2> DEFINE no == FALSE
               none == 0
               a == Write(GateFile(job.exp), no)
               b == Write(PatchInstallFile(job.exp), none)
    <2>1. todo' = <<a, b>> /\ ~IsJob(job')
      BY <1>5, NotJobs DEF Gate, Fail
    <2> HIDE DEF no, none
    <2>2. Spared(<<a>>, kinds) /\ Spared(<<b>>, kinds)
      BY <1>3, PartSpared
    <2> HIDE DEF a, b
    <2>3. <<a, b>> = <<a>> \o <<b>>
      BY JoinTwo
    <2>4. Spared(todo', kinds)
      BY <2>1, <2>2, <2>3, SparedJoin
    <2> QED BY <1>1, <2>1, <2>4, ArtifactsStop DEF kinds
  <1> QED BY <1>4, <1>5

-----------------------------------------------------------------------------
(* The artifacts are written: the plan, the rules and then the memo.       *)
Expected(d, x) == ArtifactsOk(d) /\ ~Due(d, x, CompletedOn(d, x))

IsArtifact(path, x) == path \in {PlanFile(x), RulesFile(x), MemoFile(x)}
Alters(d, e, x, path) ==
  /\ SameManifests(d, e)
  /\ \A y : y # x => Undisturbed(d, e, y)
  /\ \A q : q # path => SameFile(d, e, q)
  /\ \A q \in DOMAIN d : q \in DOMAIN e

LEMMA OthersUndisturbed ==
  ASSUME NEW d, NEW x, NEW path, IsArtifact(path, x), NEW content,
         NEW e, e = PutIn(d, path, content)
  PROVE  Alters(d, e, x, path)
  <1>1. \A q : q # path => SameFile(d, e, q)
    BY DEF PutIn, SameFile
  <1>2. \A q \in DOMAIN d : q \in DOMAIN e
    BY DEF PutIn
  <1>3. \A y : ManifestFile(y) # path
    BY ExperimentPaths DEF IsArtifact
  <1>4. SameManifests(d, e)
    BY <1>1, <1>3 DEF SameManifests, SameFile, ReadableIn
  <1>5. ASSUME NEW y, y # x PROVE Undisturbed(d, e, y)
    <2>1. /\ PlanFile(y)[1] = "plan" /\ PlanFile(y)[2] = y /\ PlanFile(x)[2] = x
          /\ MemoFile(y)[1] = "memo" /\ MemoFile(y)[2] = y /\ MemoFile(x)[2] = x
          /\ PlanFile(x)[1] = "plan" /\ RulesFile(x)[1] = "rules" /\ MemoFile(x)[1] = "memo"
      BY ExperimentPaths
    <2>2. PlanFile(y) # path /\ MemoFile(y) # path
      BY <1>5, <2>1 DEF IsArtifact
    <2> QED BY <1>1, <1>2, <2>2 DEF Undisturbed
  <1> QED BY <1>1, <1>2, <1>4, <1>5 DEF Alters

LEMMA ExpectedStays ==
  ASSUME NEW d, NEW x, Expected(d, x), NEW path \in {PlanFile(x), RulesFile(x)}, NEW content,
         NEW e, e = PutIn(d, path, content)
  PROVE  Expected(e, x)
  <1>0. IsArtifact(path, x)
    BY DEF IsArtifact
  <1>1. /\ SameManifests(d, e)
        /\ \A y : y # x => Undisturbed(d, e, y)
        /\ \A q : q # path => SameFile(d, e, q)
    <2>1. Alters(d, e, x, path)
      BY <1>0, OthersUndisturbed, Zenon
    <2> QED BY <2>1 DEF Alters
  <1>2. SameFile(d, e, MemoFile(x))
    <2>1. MemoFile(x) # path
      BY ExperimentPaths
    <2> QED BY <1>1, <2>1
  <1>3. \A y : CompletedOn(e, y) = CompletedOn(d, y)
    BY <1>1 DEF SameManifests, CompletedOn
  <1>4. ~Due(e, x, CompletedOn(e, x))
    BY <1>2, <1>3 DEF Expected, Due, SameFile
  <1>5. ASSUME NEW y \in Experiments PROVE DueMet(e, y, CompletedOn(e, y))
    <2>1. CASE y = x
      BY <1>4, <2>1 DEF DueMet
    <2>2. CASE y # x
      <3>1. DueMet(d, y, CompletedOn(e, y))
        BY <1>3 DEF Expected, ArtifactsOk
      <3> QED BY <1>1, <2>2, <3>1, PreparedStays
    <2> QED BY <2>1, <2>2
  <1> QED BY <1>4, <1>5 DEF Expected, ArtifactsOk

LEMMA MemoIsLast ==
  ASSUME NEW d, NEW x, ArtifactsOk(d), ReadableIn(d, PlanFile(x)), RulesFile(x) \in DOMAIN d,
         NEW content, NEW e, e = PutIn(d, MemoFile(x), content)
  PROVE  ArtifactsOk(e) /\ Prepared(e, x)
  <1>1. /\ SameManifests(d, e)
        /\ \A y : y # x => Undisturbed(d, e, y)
        /\ \A q : q # MemoFile(x) => SameFile(d, e, q)
        /\ \A q \in DOMAIN d : q \in DOMAIN e
    <2>1. IsArtifact(MemoFile(x), x)
      BY DEF IsArtifact
    <2>2. Alters(d, e, x, MemoFile(x))
      BY <2>1, OthersUndisturbed, Zenon
    <2> QED BY <2>2 DEF Alters
  <1>2. Prepared(e, x)
    <2>1. SameFile(d, e, PlanFile(x))
      BY <1>1, ExperimentPaths
    <2>2. MemoFile(x) \in DOMAIN e
      BY DEF PutIn
    <2> QED BY <1>1, <2>1, <2>2 DEF Prepared, SameFile, ReadableIn
  <1>3. ASSUME NEW y \in Experiments PROVE DueMet(e, y, CompletedOn(e, y))
    <2>1. CASE y = x
      BY <1>2, <2>1 DEF DueMet
    <2>2. CASE y # x
      <3>1. CompletedOn(e, y) = CompletedOn(d, y)
        BY <1>1 DEF SameManifests, CompletedOn
      <3>2. DueMet(d, y, CompletedOn(e, y))
        BY <3>1 DEF ArtifactsOk
      <3> QED BY <1>1, <2>2, <3>2, PreparedStays
    <2> QED BY <2>1, <2>2
  <1> QED BY <1>2, <1>3 DEF ArtifactsOk

LEMMA ArtifactsMade ==
  ASSUME NEW d, Expected(d, job.exp), NEW plan \in Plans
  PROVE  \E e, disks : /\ Goes(d, Artifacts(plan), e, disks)
                       /\ \A f \in disks : ArtifactsOk(f)
                       /\ Prepared(e, job.exp)
  <1> DEFINE x == job.exp
             memo == "memo"
             a == <<Write(PlanFile(x), plan)>>
             b == <<Write(RulesFile(x), plan)>>
             c == <<Write(MemoFile(x), memo)>>
             t1 == PutIn(d, PlanFile(x), Torn)
             e1 == PutIn(d, PlanFile(x), plan)
             t2 == PutIn(e1, RulesFile(x), Torn)
             e2 == PutIn(e1, RulesFile(x), plan)
             t3 == PutIn(e2, MemoFile(x), Torn)
             e3 == PutIn(e2, MemoFile(x), memo)
             first == {d, t1, e1}
             second == {e1, t2, e2}
             third == {e2, t3, e3}
  <1>1. Goes(d, a, e1, first)
    BY GoesWrite
  <1>2. Goes(e1, b, e2, second)
    BY GoesWrite
  <1>3. Goes(e2, c, e3, third)
    BY GoesWrite
  <1>4. Artifacts(plan) = (a \o b) \o c
    <2> DEFINE u == Write(PlanFile(x), plan)
               v == Write(RulesFile(x), plan)
               w == Write(MemoFile(x), memo)
    <2>1. Artifacts(plan) = <<u, v, w>>
      BY DEF Artifacts
    <2> HIDE DEF u, v, w
    <2>2. <<u, v, w>> = (<<u>> \o <<v>>) \o <<w>>
      BY JoinThree
    <2> QED BY <2>1, <2>2 DEF u, v, w
  <1>5. plan # Torn
    BY ExperimentAssumption
  <1> HIDE DEF a, b, c, x, memo, t1, e1, t2, e2, t3, e3
  <1>6. Expected(d, x)
    BY DEF x
  <1>7. Expected(t1, x)
    BY <1>6, ExpectedStays DEF t1
  <1>8. Expected(e1, x)
    BY <1>6, ExpectedStays DEF e1
  <1>9. Expected(t2, x)
    BY <1>8, ExpectedStays DEF t2
  <1>10. Expected(e2, x)
    BY <1>8, ExpectedStays DEF e2
  <1>11. ReadableIn(e2, PlanFile(x)) /\ RulesFile(x) \in DOMAIN e2
    <2>1. ReadableIn(e1, PlanFile(x))
      BY <1>5, PutReads DEF e1
    <2>2. PlanFile(x) # RulesFile(x)
      BY ExperimentPaths
    <2>3. ReadableIn(e2, PlanFile(x))
      BY <2>1, <2>2, PutReads DEF e2
    <2> QED BY <2>3 DEF e2, PutIn
  <1>12. ArtifactsOk(e2)
    BY <1>10 DEF Expected
  <1>13. ArtifactsOk(t3)
    BY <1>11, <1>12, MemoIsLast DEF t3
  <1>14. ArtifactsOk(e3) /\ Prepared(e3, x)
    BY <1>11, <1>12, MemoIsLast DEF e3
  <1> DEFINE ab == a \o b
             ds == first \cup second
             all == ds \cup third
  <1>15. \A f \in all : ArtifactsOk(f)
    BY <1>6, <1>7, <1>8, <1>9, <1>12, <1>13, <1>14 DEF Expected
  <1> HIDE DEF first, second, third
  <1>16. Goes(d, ab, e2, ds)
    BY <1>1, <1>2, GoesOn
  <1> HIDE DEF ab, ds
  <1>17. Goes(d, ab \o c, e3, all)
    BY <1>3, <1>16, GoesOn
  <1>18. Goes(d, Artifacts(plan), e3, all)
    BY <1>4, <1>17 DEF ab
  <1> HIDE DEF all
  <1> QED BY <1>14, <1>15, <1>18 DEF x

(* Where an experiment is in its configuration.                            *)
LEMMA PhasesBefore ==
  ASSUME Book, todo = <<>>, IsJob(job), job.left # <<>>
  PROVE  \E m, n : /\ m \in Nat /\ n = m + 1 /\ n \in DOMAIN job.config.phases
                   /\ Phase = job.config.phases[n]
                   /\ KnownAmong(job.config.phases, m) \subseteq CompletedOf(job.manifest)
  <1> DEFINE phases == job.config.phases
             completed == job.manifest.completed
             left == job.left
             done == job.done
  <1>1. phases \in Seq(STRING) /\ left # <<>> /\ Phase = Head(left)
    BY JobFacts DEF Phase
  <1>2. PICK m, k : Position(phases, left, completed, done, m, k)
    BY JobFacts DEF Reaches
  <1>3. {completed[i] : i \in DOMAIN completed} = KnownAmong(phases, m) \cup done
    BY <1>2 DEF Position
  <1>4. KnownAmong(phases, m) \subseteq CompletedOf(job.manifest)
    BY <1>3 DEF CompletedOf
  <1> HIDE DEF phases, completed, left, done
  <1>5. PICK n : /\ m \in Nat /\ n = m + 1 /\ n \in 1 .. Len(phases) /\ Head(left) = phases[n]
    BY <1>1, <1>2, PositionHead
  <1>6. DOMAIN phases = 1 .. Len(phases)
    BY <1>1
  <1> QED BY <1>1, <1>4, <1>5, <1>6 DEF phases

LEMMA OptimizeIsNew ==
  ASSUME Book, PhasesOnce, ArtifactsHold, todo = <<>>, IsJob(job), job.left # <<>>,
         Phase = "optimize", Phase \notin job.done
  PROVE  Expected(disk, job.exp)
  <1>1. PICK n : n \in DOMAIN job.config.phases /\ Phase = job.config.phases[n]
    BY PhasesBefore
  <1>2. job.config \in Configs[job.exp]
    BY JobFacts
  <1>3. ~NeverOptimizes(job.exp)
    BY <1>1, <1>2 DEF NeverOptimizes
  <1>4. Phase \in KnownPhases \ job.done
    BY PhaseNames
  <1>5. "optimize" \notin CompletedOn(disk, job.exp)
    BY <1>4, PhaseIsNew DEF CompletedOn
  <1>6. ArtifactsOk(disk)
    BY ArtifactsDrained DEF ArtifactsHold
  <1> QED BY <1>3, <1>5, <1>6 DEF Expected, Due

LEMMA ValidationFinds ==
  ASSUME Book, OneOptimizer, ArtifactsHold, todo = <<>>, IsJob(job), job.left # <<>>,
         Phase = "patch_validation"
  PROVE  IF HaveArtifacts THEN Prepared(disk, job.exp) ELSE Expected(disk, job.exp)
  <1> DEFINE x == job.exp
             m == job.manifest
  <1>1. ArtifactsOk(disk) /\ DueMet(disk, x, CompletedOf(m)) /\ x \in Experiments
    BY ArtifactsDrained, JobFacts DEF ArtifactsHold, JobArtifacts
  <1>2. Prepared(disk, x) => HaveArtifacts
    BY DEF Prepared, HaveArtifacts, Exists, ReadableIn
  <1>3. CASE NeverOptimizes(x)
    <2>1. HaveArtifacts => Due(disk, x, CompletedOf(m))
      BY <1>3 DEF HaveArtifacts, Due, Exists
    <2>2. \A completed : Due(disk, x, completed) <=> Due(disk, x, CompletedOf(m))
      BY <1>3 DEF Due
    <2> QED BY <1>1, <1>2, <2>1, <2>2 DEF DueMet, Expected
  <1>4. CASE ~NeverOptimizes(x)
    <2>1. OptimizesFirst(x) /\ job.config \in Configs[x]
      BY <1>1, <1>4, JobFacts DEF OneOptimizer
    <2> DEFINE phases == job.config.phases
    <2>2. PICK before, n : /\ before \in Nat /\ n = before + 1 /\ n \in DOMAIN phases
                           /\ Phase = phases[n]
                           /\ KnownAmong(phases, before) \subseteq CompletedOf(m)
      BY PhasesBefore
    <2>3. PICK k \in 1 .. n - 1 : phases[k] = "optimize"
      BY <2>1, <2>2 DEF OptimizesFirst
    <2>4. "optimize" \in KnownPhases
      BY PhaseNames
    <2> HIDE DEF phases
    <2>5. "optimize" \in KnownAmong(phases, before)
      BY <2>2, <2>3, <2>4 DEF KnownAmong
    <2>6. Prepared(disk, x)
      BY <1>1, <1>4, <2>2, <2>5 DEF DueMet, Due
    <2> QED BY <1>2, <2>6
  <1> QED BY <1>3, <1>4

LEMMA OptimizeKeepsArtifacts ==
  ASSUME Book, PhasesOnce, ArtifactsHold, NEW plan \in Plans, OptimizePhase(plan)
  PROVE  ArtifactsHold'
  <1>1. /\ AtPhase({"optimize"}) /\ Unchanged
        /\ \E runs : Complete(Artifacts(plan), runs)
    BY DEF OptimizePhase
  <1>2. Works /\ job.at = "phase" /\ Phase = "optimize"
    BY <1>1, AtPhaseWorks, PhaseNames
  <1>3. todo = <<>> /\ job.left # <<>> /\ disk' = disk /\ Phase \in KnownPhases \ job.done
    BY <1>2 DEF Works
  <1>4. IsJob(job)
    BY <1>2, BookTyped DEF ExpPlaces
  <1>5. IsManifest(job.manifest)
    BY <1>3, <1>4, JobFacts
  <1>6. Expected(disk, job.exp)
    BY <1>2, <1>3, <1>4, OptimizeIsNew
  <1> DEFINE ops == Artifacts(plan)
  <1>7. PICK e, disks : /\ Goes(disk, ops, e, disks)
                        /\ \A f \in disks : ArtifactsOk(f)
                        /\ Prepared(e, job.exp)
    BY <1>6, ArtifactsMade
  <1>8. PICK runs : Complete(ops, runs)
    BY <1>1
  <1> HIDE DEF ops
  <1>9. DueMet(e, job.exp, CompletedOf(job.manifest) \cup {Phase})
    BY <1>7 DEF DueMet
  <1> QED BY <1>3, <1>4, <1>5, <1>7, <1>8, <1>9, ArtifactsComplete

LEMMA FoundKeepsArtifacts ==
  ASSUME Book, OneOptimizer, ArtifactsHold, NEW plan, ReuseArtifacts \/ (plan \in Plans /\ MakeArtifacts(plan))
  PROVE  ArtifactsHold'
  <1>1. /\ todo = <<>> /\ disk' = disk /\ job.at = "phase" /\ job.left # <<>>
        /\ Phase = "patch_validation"
    BY DEF ReuseArtifacts, MakeArtifacts, AtPhase, At, Unchanged
  <1>2. IsJob(job)
    BY <1>1, BookTyped DEF ExpPlaces
  <1>3. PartPhase /\ job'.at = "select"
    BY <1>2, ArtifactShapes
  <1>4. IF HaveArtifacts THEN Prepared(disk, job.exp) ELSE Expected(disk, job.exp)
    BY <1>1, <1>2, ValidationFinds
  <1>5. ArtifactsOk(disk)
    BY ArtifactsDrained DEF ArtifactsHold
  <1> DEFINE k == job'
  <1>6. IsJob(k) => k.exp = job.exp
    BY <1>3, NotJobs DEF PartPhase, GoesOnAs, SameBook
  <1> HIDE DEF k
  <1>7. ASSUME NEW e, Prepared(e, job.exp) PROVE JobArtifacts(e, k)
    BY <1>6, <1>7 DEF JobArtifacts, DueMet
  <1>8. CASE ReuseArtifacts
    <2>1. HaveArtifacts /\ todo' = <<>>
      BY <1>1, <1>8 DEF ReuseArtifacts
    <2>2. JobArtifacts(disk, k)
      BY <1>4, <1>7, <2>1
    <2> QED BY <1>1, <2>1, <2>2, SparedNone, ArtifactsQuietStep DEF k
  <1>9. CASE plan \in Plans /\ MakeArtifacts(plan)
    <2>1. ~HaveArtifacts /\ todo' = Artifacts(plan)
      BY <1>9 DEF MakeArtifacts
    <2>2. Expected(disk, job.exp)
      BY <1>4, <2>1
    <2>3. PICK e, disks : /\ Goes(disk, Artifacts(plan), e, disks)
                          /\ \A f \in disks : ArtifactsOk(f)
                          /\ Prepared(e, job.exp)
      BY <1>9, <2>2, ArtifactsMade
    <2>4. ArtifactsInv(disk, Artifacts(plan), k)
      BY <1>7, <2>3 DEF ArtifactsInv
    <2> QED BY <1>1, <2>1, <2>4 DEF ArtifactsHold, k
  <1> QED BY <1>8, <1>9

-----------------------------------------------------------------------------
(* The artifacts through all steps.                                        *)
LEMMA WholesAreNoOptimize ==
  /\ SplitEvents => Phase # "optimize"
  /\ RunDirect \/ RunExactMemo => Phase # "optimize"
  /\ \A offered : RunProfile(offered) \/ RunUnoptimized(offered) \/ RunInstalled(offered) => Phase # "optimize"
  /\ RunNoSemantic \/ ShadowAudit \/ EvaluateQuality \/ Report => Phase # "optimize"
  BY PhaseFiles DEF SplitEvents, RunDirect, RunExactMemo, RunProfile, RunUnoptimized, RunInstalled,
     RunNoSemantic, ShadowAudit, EvaluateQuality, Report, AtPhase

LEMMA ExperimentKeepsArtifacts ==
  ASSUME Book, PhasesOnce, OneOptimizer, ArtifactsHold, ExperimentStep
  PROVE  ArtifactsHold'
  <1>1. CASE \E x \in Experiments : \E config \in Configs[x] : StartExperiment(x, config)
    BY <1>1, StartKeepsArtifacts
  <1>2. CASE \/ \E goesOn \in BOOLEAN : Estimate(goesOn)
             \/ EnsureWorkflow \/ PassCompleted \/ SkipPhase \/ Finish
    BY <1>2, EstimateKeepsArtifacts, EnsureKeepsArtifacts, PassKeepsArtifacts, SkipKeepsArtifacts,
       FinishKeepsArtifacts
  <1>3. CASE \/ SplitEvents \/ RunDirect \/ RunExactMemo
             \/ \E offered \in Offers : RunProfile(offered) \/ RunUnoptimized(offered) \/ RunInstalled(offered)
             \/ RunNoSemantic \/ ShadowAudit \/ EvaluateQuality \/ Report
    <2>1. WholePhase
      BY <1>3, PhaseShapes
    <2>2. Phase # "optimize"
      BY <1>3, WholesAreNoOptimize
    <2> QED BY <2>1, <2>2, WholeKeepsArtifacts
  <1>4. CASE \E plan \in Plans : OptimizePhase(plan)
    BY <1>4, OptimizeKeepsArtifacts
  <1>5. CASE ReuseArtifacts
    BY <1>5, FoundKeepsArtifacts
  <1>6. CASE \E plan \in Plans : MakeArtifacts(plan)
    BY <1>6, FoundKeepsArtifacts
  <1>7. CASE SelectBase
    BY <1>7, SelectKeepsArtifacts
  <1>8. CASE \E accepted \in BOOLEAN : Gate(accepted)
    BY <1>8, GateKeepsArtifacts
  <1>9. CASE InstallSemantic
    BY <1>9, InstallKeepsArtifacts
  <1> QED BY <1>1, <1>2, <1>3, <1>4, <1>5, <1>6, <1>7, <1>8, <1>9 DEF ExperimentStep

ArtifactsKept == Book /\ ArtifactsHold

LEMMA ArtifactsSteps ==
  ASSUME PhasesOnce, OneOptimizer, ArtifactsKept, [ExperimentStep \/ InstallerStep]_vars
  PROVE  ArtifactsKept'
  <1>1. Book /\ ArtifactsHold
    BY DEF ArtifactsKept
  <1>2. CASE ExperimentStep
    BY <1>1, <1>2, ExperimentKeepsBook, ExperimentKeepsArtifacts DEF ArtifactsKept
  <1>3. CASE InstallerStep
    BY <1>1, <1>3, InstallerKeepsBook, InstallerKeepsArtifacts DEF ArtifactsKept
  <1>4. CASE UNCHANGED vars
    <2>1. disk' = disk /\ todo' = todo /\ job' = job
      BY <1>4 DEF vars, installerVars
    <2> QED BY <1>1, <2>1 DEF ArtifactsKept, ArtifactsHold, Book
  <1> QED BY <1>2, <1>3, <1>4

LEMMA SelectsPrepared ==
  ASSUME ArtifactsKept
  PROVE  ReusedPlanIsWhole
  <1> SUFFICES ASSUME At("select") PROVE Readable(PlanFile(job.exp))
    BY DEF ReusedPlanIsWhole
  <1>1. job.at = "select" /\ todo = <<>>
    BY DEF At
  <1>2. IsJob(job)
    BY <1>1, BookTyped DEF ExpPlaces, ArtifactsKept
  <1>3. Prepared(disk, job.exp)
    BY <1>1, <1>2, ArtifactsDrained DEF ArtifactsKept, ArtifactsHold, JobArtifacts
  <1> QED BY <1>3 DEF Prepared, Readable, Exists, ReadableIn

(* runner.rs 959: whatever was cut short, patch_validation goes on with a  *)
(* whole plan, its own or the optimizer's, if no configuration names a     *)
(* phase twice and those of an experiment either all leave the artifacts   *)
(* to patch_validation or all put optimize before it.                      *)
THEOREM ReusedPlansAreWhole ==
  PhasesOnce /\ OneOptimizer => (Spec => []ReusedPlanIsWhole)
  <1> SUFFICES ASSUME PhasesOnce, OneOptimizer
               PROVE  Spec => []ReusedPlanIsWhole
    OBVIOUS
  <1>1. InstallerInit => ArtifactsKept
    BY BookStart, ArtifactsBegin DEF ArtifactsKept
  <1>2. ArtifactsKept /\ [ExperimentStep \/ InstallerStep]_vars => ArtifactsKept'
    BY ArtifactsSteps
  <1>3. ArtifactsKept => ReusedPlanIsWhole
    BY SelectsPrepared
  <1> QED BY <1>1, <1>2, <1>3, PTL DEF Spec

=============================================================================
