------------------------- MODULE DirectVariantProofs -------------------------
(***************************************************************************)
(* For any number of events, places, failures and crashes: the pool makes  *)
(* the calls of ModelCalls and nothing else, and what it writes is one     *)
(* prediction per event, in the order of the events.                       *)
(***************************************************************************)
EXTENDS DirectVariant, ModelCallsProofs

allVars == <<vars, poolVars>>
N == Len(Events)

-----------------------------------------------------------------------------
(* Numbers from 1 to n in strictly increasing order are 1, 2, ..., n.      *)
LEMMA IncreasingIsIdentity ==
  ASSUME NEW n \in Nat, NEW f \in [1 .. n -> 1 .. n],
         \A i, j \in 1 .. n : i < j => f[i] < f[j]
  PROVE  \A i \in 1 .. n : f[i] = i
  <1>1. \A i \in 1 .. n : f[i] >= i
    <2> SUFFICES ASSUME NEW h \in 1 .. n, ~(f[h] >= h) PROVE FALSE
      OBVIOUS
    <2> DEFINE T == {i \in 1 .. n : f[i] < i}
    <2>1. PICK m \in T : \A k \in T : m <= k
      <3>1. T \subseteq Nat /\ h \in T
        OBVIOUS
      <3> HIDE DEF T
      <3> QED BY <3>1, LeastOf
    <2>2. m - 1 \in 1 .. n /\ m - 1 \notin T /\ m - 1 < m
      BY <2>1
    <2> QED BY <2>1, <2>2
  <1>2. \A i \in 1 .. n : f[i] <= i
    <2> SUFFICES ASSUME NEW h \in 1 .. n, ~(f[h] <= h) PROVE FALSE
      OBVIOUS
    <2> DEFINE T == {k \in 1 .. n : f[n + 1 - k] > n + 1 - k}
    <2>1. PICK m \in T : \A k \in T : m <= k
      <3>1. T \subseteq Nat /\ n + 1 - h \in T
        <4>1. n + 1 - (n + 1 - h) = h /\ n + 1 - h \in 1 .. n
          OBVIOUS
        <4> QED BY <4>1
      <3> HIDE DEF T
      <3> QED BY <3>1, LeastOf
    <2>2. m \in 1 .. n /\ f[n + 1 - m] > n + 1 - m /\ n + 1 - m \in 1 .. n
      BY <2>1
    <2>3. n + 1 - m < n /\ m - 1 \in 1 .. n /\ m - 1 \notin T
      <3>1. f[n + 1 - m] \in 1 .. n
        BY <2>2
      <3>2. n + 1 - m < n
        BY <2>2, <3>1
      <3>3. m - 1 \in 1 .. n /\ m - 1 < m
        BY <2>2, <3>2
      <3>4. m - 1 \notin T
        <4> HIDE DEF T
        <4> QED BY <2>1, <2>2, <3>3
      <3> QED BY <3>2, <3>3, <3>4
    <2>4. n + 1 - (m - 1) = n + 2 - m /\ n + 2 - m \in 1 .. n
      BY <2>3
    <2>5. f[n + 2 - m] <= n + 2 - m
      BY <2>3, <2>4
    <2>6. f[n + 1 - m] < f[n + 2 - m]
      BY <2>2, <2>4
    <2> QED BY <2>2, <2>4, <2>5, <2>6
  <1> QED BY <1>1, <1>2

(* The joined predictions of all events, sorted.                           *)
LEMMA SortedAll ==
  ASSUME NEW n \in Nat, NEW s \in Seq(1 .. n),
         \A i, j \in DOMAIN s : i # j => s[i] # s[j],
         \A e \in 1 .. n : \E i \in DOMAIN s : s[i] = e
  PROVE  InEventOrder(s) = [i \in 1 .. n |-> i]
  <1> DEFINE D == 1 .. Len(s)
             R == {s[i] : i \in DOMAIN s}
             Increasing(f) == \A i, j \in D : i < j => f[i] < f[j]
  <1>1. DOMAIN s = D /\ Len(s) \in Nat /\ s \in [D -> 1 .. n]
    OBVIOUS
  <1>2. R = 1 .. n
    BY <1>1
  <1>3. Len(s) = n
    <2>1. s \in Bijection(D, 1 .. n)
      BY <1>1 DEF Bijection, Injection, Surjection, IsInjective
    <2>2. ExistsBijection(D, 1 .. n)
      BY <2>1 DEF ExistsBijection
    <2>3. IsFiniteSet(D) /\ Cardinality(D) = Len(s) /\ Cardinality(1 .. n) = n
      <3>1. Cardinality(1 .. Len(s)) = Len(s) /\ IsFiniteSet(1 .. Len(s))
        <4>1. IsFiniteSet(1 .. Len(s)) /\ Cardinality(1 .. Len(s)) = IF 1 > Len(s) THEN 0 ELSE Len(s) - 1 + 1
          BY <1>1, FS_Interval, 1 \in Int, Len(s) \in Int
        <4> QED BY <1>1, <4>1
      <3>2. Cardinality(1 .. n) = n
        BY FS_Interval
      <3> QED BY <3>1, <3>2
    <2> HIDE DEF D
    <2> QED BY <2>2, <2>3, FS_Bijection
  <1> DEFINE id == [i \in 1 .. n |-> i]
  <1>4. id \in [D -> R] /\ Increasing(id)
    BY <1>2, <1>3
  <1>5. \A f \in [D -> R] : Increasing(f) => f = id
    <2> SUFFICES ASSUME NEW f \in [D -> R], Increasing(f) PROVE f = id
      OBVIOUS
    <2>1. f \in [1 .. n -> 1 .. n] /\ \A i, j \in 1 .. n : i < j => f[i] < f[j]
      BY <1>2, <1>3
    <2>2. \A i \in 1 .. n : f[i] = i
      BY <2>1, IncreasingIsIdentity
    <2> QED BY <2>1, <2>2
  <1> HIDE DEF D, R, id
  <1>6. InEventOrder(s) = CHOOSE f \in [D -> R] : Increasing(f)
    BY <1>1 DEF InEventOrder, R
  <1> QED BY <1>4, <1>5, <1>6 DEF id

-----------------------------------------------------------------------------
(* The inductive invariant: while the pool runs, every event the iterator  *)
(* has passed is in one place or joined, and nowhere twice; the loop goes  *)
(* on until there is none left; and what is written is in order.           *)
FreePlaces == {w \in Worker : Free(w)}

PoolTypes ==
  /\ next \in 1 .. N + 1 /\ toSpawn \in Nat
  /\ event \in [Worker -> 0 .. N]
  /\ records \in Seq(1 .. N)

Once ==
  /\ \A v, w \in Worker : event[v] = event[w] /\ event[v] # 0 => v = w
  /\ \A w \in Worker : event[w] < next
  /\ \A i \in DOMAIN records : records[i] < next /\ \A w \in Worker : records[i] # event[w]
  /\ \A i, j \in DOMAIN records : i # j => records[i] # records[j]

AllTaken ==
  \A e \in 1 .. next - 1 :
    (\E w \in Worker : event[w] = e) \/ (\E i \in DOMAIN records : records[i] = e)

RoomToSpawn ==
  /\ toSpawn <= Cardinality(FreePlaces)
  /\ toSpawn = 0 /\ FreePlaces = Worker => next = N + 1

Written ==
  /\ records = [i \in 1 .. N |-> i]
  /\ file \in Seq(Nat) /\ Len(file) <= N /\ \A i \in DOMAIN file : file[i] = i

PoolInv ==
  /\ PoolTypes
  /\ phase \in {"idle", "running", "writing", "done", "stopped"}
  /\ phase = "running" => Once /\ AllTaken /\ RoomToSpawn /\ file = <<>>
  /\ phase = "writing" => Written
  /\ phase = "done" => file = [i \in 1 .. N |-> i]

LEMMA Sizes ==
  /\ N \in Nat /\ DOMAIN Events = 1 .. N
  /\ \A e \in 1 .. N : Events[e] \in Key
  /\ IsFiniteSet(Worker) /\ Cardinality(Worker) \in Nat /\ Cardinality(Worker) # 0
  <1>1. N \in Nat /\ DOMAIN Events = 1 .. N /\ \A e \in 1 .. N : Events[e] \in Key
    BY EventsAssumption DEF EventsAssumption, N
  <1>2. IsFiniteSet(Worker) /\ Worker # {}
    BY MoneyAssumption, EventsAssumption DEF MoneyAssumption, EventsAssumption
  <1> QED BY <1>1, <1>2, FS_CardinalityType, FS_EmptySet

LEMMA FreeFinite == IsFiniteSet(FreePlaces) /\ Cardinality(FreePlaces) \in Nat
  <1>1. FreePlaces \subseteq Worker
    BY DEF FreePlaces
  <1> QED BY <1>1, Sizes, FS_Subset, FS_CardinalityType

LEMMA PoolInit == DirectInit => PoolInv
  BY Sizes DEF DirectInit, PoolInv, PoolTypes

LEMMA StartKeeps == PoolInv /\ StartVariant => PoolInv'
  <1> SUFFICES ASSUME PoolInv, StartVariant PROVE PoolInv'
    OBVIOUS
  <1>1. PoolTypes'
    BY Sizes DEF StartVariant, PoolTypes
  <1>2. FreePlaces' = Worker
    BY DEF StartVariant, FreePlaces, Free
  <1>3. RoomToSpawn'
    BY <1>2, Sizes DEF StartVariant, RoomToSpawn
  <1>4. Once' /\ AllTaken'
    BY DEF StartVariant, Once, AllTaken
  <1> QED BY <1>1, <1>3, <1>4 DEF PoolInv, StartVariant

LEMMA SpawnKeeps == PoolInv /\ SpawnTask => PoolInv'
  <1> SUFFICES ASSUME PoolInv, SpawnTask PROVE PoolInv'
    OBVIOUS
  <1> DEFINE w0 == CHOOSE w \in Worker : Free(w)
  <1>1. /\ PoolTypes /\ Once /\ AllTaken /\ RoomToSpawn /\ file = <<>> /\ phase = "running"
        /\ toSpawn > 0 /\ next <= N
        /\ event' = [event EXCEPT ![w0] = next] /\ next' = next + 1 /\ toSpawn' = toSpawn - 1
        /\ UNCHANGED <<phase, records, file>>
    BY DEF SpawnTask, PoolInv, N
  <1>2. w0 \in Worker /\ Free(w0)
    <2>1. FreePlaces # {}
      <3>1. Cardinality(FreePlaces) # 0
        BY <1>1, FreeFinite DEF RoomToSpawn, PoolTypes
      <3> QED BY <3>1, FS_EmptySet
    <2> QED BY <2>1 DEF FreePlaces
  <1> HIDE DEF w0
  <1>3. PoolTypes'
    BY <1>1, <1>2, Sizes DEF PoolTypes
  <1>4. Once'
    BY <1>1, <1>2, Sizes DEF Once, PoolTypes, Free
  <1>5. AllTaken'
    <2> SUFFICES ASSUME NEW e \in 1 .. next
                 PROVE  (\E w \in Worker : event'[w] = e) \/ (\E i \in DOMAIN records : records[i] = e)
      BY <1>1 DEF AllTaken, PoolTypes
    <2>1. CASE e = next
      BY <1>1, <1>2, <2>1 DEF PoolTypes
    <2>2. CASE e # next
      <3>1. e \in 1 .. next - 1
        BY <1>1, <2>2 DEF PoolTypes
      <3>2. CASE \E w \in Worker : event[w] = e
        <4>1. PICK w \in Worker : event[w] = e
          BY <3>2
        <4>2. w # w0
          BY <1>2, <3>1, <4>1 DEF Free
        <4>3. event'[w] = e
          BY <1>1, <4>1, <4>2 DEF PoolTypes
        <4> QED BY <4>3
      <3> QED BY <1>1, <3>1, <3>2 DEF AllTaken
    <2> QED BY <2>1, <2>2
  <1>6. RoomToSpawn'
    <2>1. FreePlaces' = FreePlaces \ {w0} /\ w0 \in FreePlaces
      BY <1>1, <1>2 DEF FreePlaces, Free, PoolTypes
    <2>2. Cardinality(FreePlaces') = Cardinality(FreePlaces) - 1
      BY <2>1, FreeFinite, FS_RemoveElement
    <2>3. FreePlaces' # Worker
      BY <1>2, <2>1
    <2> QED BY <1>1, <2>2, <2>3, FreeFinite DEF RoomToSpawn, PoolTypes
  <1> QED BY <1>1, <1>3, <1>4, <1>5, <1>6 DEF PoolInv

LEMMA JoinKeeps ==
  ASSUME PoolInv, NEW w0 \in Worker, JoinTask(w0), event[w0] # 0
  PROVE  PoolInv'
  <1>1. /\ PoolTypes /\ Once /\ AllTaken /\ RoomToSpawn /\ file = <<>> /\ phase = "running"
        /\ toSpawn = 0
        /\ records' = Append(records, event[w0]) /\ event' = [event EXCEPT ![w0] = 0]
        /\ toSpawn' = 1 /\ UNCHANGED <<phase, next, file>>
    BY DEF JoinTask, PoolInv
  <1>2. event[w0] \in 1 .. N /\ Len(records) \in Nat /\ DOMAIN records = 1 .. Len(records)
    BY <1>1, Sizes DEF PoolTypes
  <1>3. /\ DOMAIN records' = 1 .. Len(records) + 1
        /\ \A i \in DOMAIN records : records'[i] = records[i]
        /\ records'[Len(records) + 1] = event[w0]
    BY <1>1, <1>2 DEF PoolTypes
  <1>4. PoolTypes'
    BY <1>1, <1>2, Sizes DEF PoolTypes
  <1>5. \A w \in Worker : event'[w] = IF w = w0 THEN 0 ELSE event[w]
    BY <1>1 DEF PoolTypes
  <1>6. Once'
    <2>1. \A v, w \in Worker : event'[v] = event'[w] /\ event'[v] # 0 => v = w
      BY <1>1, <1>5 DEF Once
    <2>2. \A w \in Worker : event'[w] < next'
      BY <1>1, <1>5, Sizes DEF Once, PoolTypes
    <2>3. ASSUME NEW i \in DOMAIN records'
          PROVE  records'[i] < next' /\ \A w \in Worker : records'[i] # event'[w]
      <3>1. CASE i = Len(records) + 1
        BY <1>1, <1>2, <1>3, <1>5, <3>1 DEF Once
      <3>2. CASE i \in DOMAIN records
        <4>1. records[i] # 0
          <5>1. records \in Seq(1 .. N) /\ i \in 1 .. Len(records)
            BY <1>1, <1>2, <3>2 DEF PoolTypes
          <5>2. records[i] \in 1 .. N
            BY <5>1, Sizes
          <5> QED BY <5>2, Sizes
        <4> QED BY <1>1, <1>3, <1>5, <3>2, <4>1 DEF Once
      <3> QED BY <1>2, <1>3, <2>3, <3>1, <3>2
    <2>4. ASSUME NEW i \in DOMAIN records', NEW j \in DOMAIN records', i # j
          PROVE  records'[i] # records'[j]
      <3>1. i \in DOMAIN records \/ i = Len(records) + 1
        BY <1>2, <1>3
      <3>2. j \in DOMAIN records \/ j = Len(records) + 1
        BY <1>2, <1>3
      <3> QED BY <1>1, <1>3, <2>4, <3>1, <3>2 DEF Once
    <2> QED BY <2>1, <2>2, <2>3, <2>4 DEF Once
  <1>7. AllTaken'
    <2> SUFFICES ASSUME NEW e \in 1 .. next - 1
                 PROVE  (\E w \in Worker : event'[w] = e) \/ (\E i \in DOMAIN records' : records'[i] = e)
      BY <1>1 DEF AllTaken
    <2>1. CASE \E i \in DOMAIN records : records[i] = e
      BY <1>2, <1>3, <2>1
    <2>2. CASE \E w \in Worker : event[w] = e
      <3>1. PICK w \in Worker : event[w] = e
        BY <2>2
      <3>2. CASE w = w0
        <4>1. Len(records) + 1 \in DOMAIN records'
          BY <1>2, <1>3
        <4> QED BY <1>3, <3>1, <3>2, <4>1
      <3>3. CASE w # w0
        BY <1>5, <3>1, <3>3
      <3> QED BY <3>2, <3>3
    <2> QED BY <1>1, <2>1, <2>2 DEF AllTaken
  <1>8. RoomToSpawn'
    <2>1. w0 \in FreePlaces'
      BY <1>5 DEF FreePlaces, Free
    <2>2. IsFiniteSet(FreePlaces') /\ Cardinality(FreePlaces') \in Nat
      <3>1. FreePlaces' \subseteq Worker
        BY DEF FreePlaces
      <3> QED BY <3>1, Sizes, FS_Subset, FS_CardinalityType
    <2>3. Cardinality(FreePlaces') # 0
      BY <2>1, <2>2, FS_EmptySet
    <2> QED BY <1>1, <2>2, <2>3 DEF RoomToSpawn
  <1> QED BY <1>1, <1>4, <1>6, <1>7, <1>8 DEF PoolInv

LEMMA AllJoinedKeeps == PoolInv /\ AllJoined => PoolInv'
  <1> SUFFICES ASSUME PoolInv, AllJoined PROVE PoolInv'
    OBVIOUS
  <1>1. /\ PoolTypes /\ Once /\ AllTaken /\ RoomToSpawn /\ file = <<>>
        /\ toSpawn = 0 /\ \A w \in Worker : event[w] = 0
        /\ phase' = "writing" /\ records' = InEventOrder(records)
        /\ UNCHANGED <<next, toSpawn, event, file>>
    BY DEF AllJoined, PoolInv, Free
  <1>2. next = N + 1
    BY <1>1 DEF RoomToSpawn, FreePlaces, Free
  <1>3. \A e \in 1 .. N : \E i \in DOMAIN records : records[i] = e
    BY <1>1, <1>2, Sizes DEF AllTaken
  <1>4. records' = [i \in 1 .. N |-> i]
    BY <1>1, <1>3, Sizes, SortedAll DEF Once, PoolTypes
  <1>5. records' \in Seq(1 .. N)
    BY <1>4, Sizes
  <1> QED BY <1>1, <1>4, <1>5, Sizes DEF PoolInv, PoolTypes, Written

LEMMA WriteKeeps == PoolInv /\ AppendPrediction => PoolInv'
  <1> SUFFICES ASSUME PoolInv, AppendPrediction PROVE PoolInv'
    OBVIOUS
  <1>1. /\ PoolTypes /\ Written /\ Len(records) > Len(file) /\ phase' = "writing"
        /\ file' = Append(file, records[Len(file) + 1])
        /\ UNCHANGED <<next, toSpawn, event, records>>
    BY Sizes DEF AppendPrediction, PoolInv, Left, Written, PoolTypes
  <1>2. Len(records) = N
    BY <1>1, Sizes DEF Written, PoolTypes
  <1>3. records[Len(file) + 1] = Len(file) + 1 /\ Len(file) + 1 <= N
    BY <1>1, <1>2, Sizes DEF Written
  <1>4. Written'
    BY <1>1, <1>3, Sizes DEF Written
  <1> QED BY <1>1, <1>4 DEF PoolInv, PoolTypes

LEMMA DoneKeeps == PoolInv /\ VariantDone => PoolInv'
  <1> SUFFICES ASSUME PoolInv, VariantDone PROVE PoolInv'
    OBVIOUS
  <1>1. PoolTypes /\ Written /\ Len(records) = Len(file)
    BY Sizes DEF VariantDone, PoolInv, Left, Written, PoolTypes
  <1>2. Len(file) = N
    BY <1>1, Sizes DEF Written, PoolTypes
  <1>3. file = [i \in 1 .. N |-> i]
    BY <1>1, <1>2 DEF Written
  <1> QED BY <1>1, <1>3 DEF PoolInv, PoolTypes, VariantDone

(* Only a place with a task is joined.                                     *)
Joinable == \A w \in returned : w \in Worker /\ event[w] # 0

PoolIInv == PoolInv /\ Joinable

LEMMA JoinableKeeps == PoolTypes /\ Joinable /\ [DirectNext]_allVars => Joinable'
  <1> SUFFICES ASSUME PoolTypes, Joinable, [DirectNext]_allVars PROVE Joinable'
    OBVIOUS
  <1>0. event \in [Worker -> 0 .. N] /\ next \in 1 .. N + 1 /\ N \in Nat
    BY Sizes DEF PoolTypes
  <1>1. CASE StartVariant
    BY <1>1 DEF StartVariant, Joinable
  <1>2. CASE SpawnTask
    <2> DEFINE w0 == CHOOSE w \in Worker : Free(w)
    <2>1. event' = [event EXCEPT ![w0] = next] /\ returned' = returned
      BY <1>2 DEF SpawnTask
    <2> HIDE DEF w0
    <2>2. \A w \in Worker : event'[w] = IF w = w0 THEN next ELSE event[w]
      BY <1>0, <2>1
    <2> QED BY <1>0, <2>1, <2>2 DEF Joinable
  <1>3. CASE NoEventLeft
    BY <1>3 DEF NoEventLeft, Joinable
  <1>4. ASSUME NEW w0 \in Worker, JoinTask(w0) PROVE Joinable'
    BY <1>0, <1>4 DEF JoinTask, Joinable
  <1>5. CASE AllJoined
    BY <1>5 DEF AllJoined, Joinable
  <1>6. CASE AppendPrediction
    BY <1>6 DEF AppendPrediction, Joinable
  <1>7. CASE VariantDone
    BY <1>7 DEF VariantDone, Joinable
  <1>8. ASSUME NEW w0 \in Worker, TaskStep(w0) PROVE Joinable'
    <2>1. event[w0] # 0 /\ event' = event /\ returned' \subseteq returned \cup {w0}
      BY <1>8 DEF TaskStep, Free
    <2> QED BY <2>1 DEF Joinable
  <1>9. CASE ProcessDies
    BY <1>9 DEF ProcessDies, Joinable
  <1>10. CASE OperatorResets \/ Ended
    BY <1>10 DEF OperatorResets, Ended, poolVars, Joinable
  <1>11. CASE UNCHANGED allVars
    BY <1>11 DEF allVars, poolVars, Joinable
  <1> QED BY <1>1, <1>2, <1>3, <1>4, <1>5, <1>6, <1>7, <1>8, <1>9, <1>10, <1>11
          DEF DirectNext, PoolStep

(* What changes nothing the invariant speaks of.                           *)
LEMMA SameKeeps ==
  ASSUME PoolInv, UNCHANGED <<phase, next, toSpawn, event, records, file>>
  PROVE  PoolInv'
  <1>1. FreePlaces' = FreePlaces
    BY DEF FreePlaces, Free
  <1> QED BY <1>1 DEF PoolInv, PoolTypes, Once, AllTaken, RoomToSpawn, Written

LEMMA NoneLeftKeeps == PoolInv /\ NoEventLeft => PoolInv'
  <1> SUFFICES ASSUME PoolInv, NoEventLeft PROVE PoolInv'
    OBVIOUS
  <1>1. /\ PoolTypes /\ Once /\ AllTaken /\ RoomToSpawn /\ file = <<>> /\ phase = "running"
        /\ next > N /\ toSpawn' = 0 /\ UNCHANGED <<phase, next, event, records, file>>
    BY DEF NoEventLeft, PoolInv, N
  <1>2. FreePlaces' = FreePlaces /\ next = N + 1
    BY <1>1, Sizes DEF FreePlaces, Free, PoolTypes
  <1>3. RoomToSpawn'
    BY <1>1, <1>2, FreeFinite DEF RoomToSpawn
  <1> QED BY <1>1, <1>3 DEF PoolInv, PoolTypes, Once, AllTaken

LEMMA DeathKeeps == PoolInv /\ ProcessDies => PoolInv'
  <1> SUFFICES ASSUME PoolInv, ProcessDies PROVE PoolInv'
    OBVIOUS
  <1>1. phase' = "stopped" /\ PoolTypes'
    BY Sizes DEF ProcessDies, PoolTypes
  <1> QED BY <1>1 DEF PoolInv

LEMMA PoolKeeps == PoolIInv /\ [DirectNext]_allVars => PoolIInv'
  <1> SUFFICES ASSUME PoolIInv, [DirectNext]_allVars PROVE PoolIInv'
    OBVIOUS
  <1>1. PoolInv /\ Joinable /\ PoolTypes
    BY DEF PoolIInv, PoolInv
  <1>2. Joinable'
    BY <1>1, JoinableKeeps
  <1>3. PoolInv'
    <2>1. ASSUME NEW w0 \in Worker, JoinTask(w0) PROVE PoolInv'
      <3>1. event[w0] # 0
        BY <1>1, <2>1 DEF JoinTask, Joinable
      <3> QED BY <1>1, <2>1, <3>1, JoinKeeps
    <2>2. ASSUME NEW w0 \in Worker, TaskStep(w0) PROVE PoolInv'
      BY <1>1, <2>2, SameKeeps DEF TaskStep
    <2>3. CASE OperatorResets \/ Ended \/ UNCHANGED allVars
      BY <1>1, <2>3, SameKeeps DEF OperatorResets, Ended, allVars, poolVars
    <2> QED BY <1>1, <2>1, <2>2, <2>3, StartKeeps, SpawnKeeps, NoneLeftKeeps, AllJoinedKeeps,
               WriteKeeps, DoneKeeps, DeathKeeps DEF DirectNext, PoolStep
  <1> QED BY <1>2, <1>3 DEF PoolIInv

-----------------------------------------------------------------------------
(* runner.rs 805: for any split, concurrency, order of answers, failures   *)
(* and crashes, what is written is one prediction per event, in order.     *)
THEOREM PredictionsAreOrdered == DirectSpec => []PredictionsInEventOrder
  <1>1. DirectInit => PoolIInv
    BY PoolInit DEF PoolIInv, Joinable, DirectInit
  <1>2. PoolIInv /\ [DirectNext]_allVars => PoolIInv'
    BY PoolKeeps
  <1>3. PoolIInv => PredictionsInEventOrder
    BY Sizes DEF PoolIInv, PoolInv, Written, PredictionsInEventOrder
  <1> QED BY <1>1, <1>2, <1>3, PTL DEF DirectSpec, allVars

(* runner.rs 843: the pool makes the calls of ModelCalls and nothing else  *)
(* of its own touches the logs, the cache or the reservations, so that     *)
(* what is proved of ModelCalls holds of the variant.                      *)
THEOREM PoolMakesModelCalls == DirectSpec => Spec
  <1>1. DirectInit => Init
    BY DEF DirectInit
  <1>2. PoolIInv /\ [DirectNext]_allVars => [Next]_vars
    <2> SUFFICES ASSUME PoolIInv, [DirectNext]_allVars PROVE [Next]_vars
      OBVIOUS
    <2>1. ASSUME NEW w \in Worker, TaskStep(w) PROVE [Next]_vars
      <3>1. event[w] \in 1 .. N
        BY <2>1, Sizes DEF TaskStep, Free, PoolIInv, PoolInv, PoolTypes
      <3>2. Events[event[w]] \in Key /\ Step(w, Events[event[w]])
        BY <2>1, <3>1, Sizes DEF TaskStep
      <3> QED BY <3>2 DEF Next
    <2>2. CASE ProcessDies \/ OperatorResets
      BY <2>2 DEF ProcessDies, OperatorResets, Next
    <2>3. ASSUME NEW w \in Worker, JoinTask(w) PROVE UNCHANGED vars
      BY <2>3 DEF JoinTask
    <2>4. CASE StartVariant \/ SpawnTask \/ NoEventLeft \/ AllJoined \/ AppendPrediction
               \/ VariantDone \/ Ended \/ UNCHANGED allVars
      BY <2>4 DEF StartVariant, SpawnTask, NoEventLeft, AllJoined, AppendPrediction, VariantDone,
                  Ended, allVars
    <2> QED BY <2>1, <2>2, <2>3, <2>4 DEF DirectNext, PoolStep
  <1>3. DirectInit => PoolIInv
    BY PoolInit DEF PoolIInv, Joinable, DirectInit
  <1>4. PoolIInv /\ [DirectNext]_allVars => PoolIInv'
    BY PoolKeeps
  <1> QED BY <1>1, <1>2, <1>3, <1>4, PTL DEF DirectSpec, Spec, allVars

(* budget_store.rs, BudgetReservation: the variant leaks no reservation.   *)
THEOREM VariantReservationsExact == DirectSpec => []ReservationsMatch
  BY PoolMakesModelCalls, ReservationsExact, PTL

(* model_call_store.rs 104: a call log of the variant's that can be read   *)
(* names every call the ledger charges, and one that cannot lacks no more  *)
(* than appends were cut short.                                            *)
THEOREM VariantSpendAttributed == DirectSpec => []SpendIsAttributed
  BY PoolMakesModelCalls, SpendAttributed, PTL

(* record_call: the variant's answered calls reach the ledger, but for so  *)
(* many as disk errors and crashes account for.                            *)
THEOREM VariantLossesAreBounded == DirectSpec => []LossesBounded
  BY PoolMakesModelCalls, LossesAreBounded, PTL

(* record_call: every unit the provider charged the variant is in the      *)
(* ledger, on its way there, or among what is known to be lost, and no     *)
(* call of it is charged twice.                                            *)
THEOREM VariantBilledAccounted == DirectSpec => []BilledIsAccounted
  BY PoolMakesModelCalls, BilledAccounted, PTL

(* check_call_allowed_for_scope: whatever the pool's concurrency and the   *)
(* cost of its answers, but for one call per place the variant is within   *)
(* the hard cap.                                                           *)
THEOREM VariantCapOverrun == DirectSpec => []OverrunBounded
  BY PoolMakesModelCalls, CapOverrun, PTL

(* budget_store.rs 399: behind a torn ledger no place of the pool makes    *)
(* more than the call it was in.                                           *)
THEOREM VariantHiddenCalls == DirectSpec => []HiddenCallsBounded
  BY PoolMakesModelCalls, HiddenCalls, PTL
=============================================================================
