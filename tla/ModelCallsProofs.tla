--------------------------- MODULE ModelCallsProofs ---------------------------
(***************************************************************************)
(* Theorems about ModelCalls for any number of workers, requests, scopes,  *)
(* calls and crashes: spending can be attributed and accounted for, losses *)
(* are bounded by the faults, the reservation table is exact, and only so  *)
(* many calls pass the hard cap or are made behind a torn ledger.          *)
(***************************************************************************)
EXTENDS ModelCallsProperties, FiniteSetTheorems, TLAPS

-----------------------------------------------------------------------------
(* Sums over finite sets.  A fold is a recursive function; that it exists  *)
(* and does not depend on the order of its elements is proved by the least *)
(* counterexample.                                                         *)

(* A non-empty set of natural numbers has a least element.                 *)
LEMMA LeastOf ==
  ASSUME NEW T, T \subseteq Nat, T # {}
  PROVE  \E m \in T : \A k \in T : m <= k
PROOF
  <1> DEFINE R == {ss \in Nat \X Nat : ss[1] < ss[2]}
  <1>0. IsWellFoundedOn(R, Nat)
    BY NatLessThanWellFounded, Zenon DEF OpToRel
  <1>1. PICK m \in T : \A k \in T : ~(<<k, m>> \in R)
    <2> HIDE DEF R
    <2> QED BY <1>0, WFMin
  <1>2. \A k \in T : ~(k < m) /\ k \in Nat /\ m \in Nat
    BY <1>1
  <1> QED BY <1>1, <1>2

(* Among the subsets of a finite set that are in B, one loses B when any   *)
(* of its elements is taken out.                                           *)
LEMMA SmallestSubset ==
  ASSUME NEW S, IsFiniteSet(S), NEW B, B \subseteq SUBSET S, B # {}
  PROVE  \E s \in B : \A x \in s : s \ {x} \notin B
PROOF
  <1> DEFINE Sizes == {Cardinality(s) : s \in B}
  <1>1. \A s \in B : IsFiniteSet(s) /\ Cardinality(s) \in Nat
    BY FS_Subset, FS_CardinalityType
  <1>2. PICK n \in Sizes : \A m \in Sizes : n <= m
    <2>1. Sizes \subseteq Nat /\ Sizes # {}
      BY <1>1
    <2> QED
      BY <2>1, LeastOf
  <1>3. PICK s \in B : Cardinality(s) = n
    BY <1>2
  <1>4. ASSUME NEW x \in s, s \ {x} \in B PROVE FALSE
    <2>1. Cardinality(s \ {x}) = Cardinality(s) - 1
      BY <1>1, FS_RemoveElement
    <2> QED
      BY <1>1, <1>2, <1>3, <1>4, <2>1
  <1> QED
    BY <1>4

(* g adds up f over every subset of S, one chosen element at a time.       *)
Picked(s) == CHOOSE x \in s : TRUE
Adding(f, g, s) == IF s = {} THEN 0 ELSE f[Picked(s)] + g[s \ {Picked(s)}]
AddsUp(f, S, g) == g = [s \in SUBSET S |-> Adding(f, g, s)]

SumOf(f, S) == MapThenSumSet(LAMBDA x : f[x], S)

(* Subsets of one size after the other can be added up.                    *)
LEMMA SumsExist ==
  ASSUME NEW S, IsFiniteSet(S), NEW f
  PROVE  \E g : AddsUp(f, S, g)
PROOF
  <1> DEFINE Small(n) == {s \in SUBSET S : Cardinality(s) <= n}
             OK(n) == \E g : g = [s \in Small(n) |-> Adding(f, g, s)]
  <1>0. \A s \in SUBSET S : IsFiniteSet(s) /\ Cardinality(s) \in Nat
    BY FS_Subset, FS_CardinalityType
  <1>1. \A n \in Nat : OK(n)
    <2> SUFFICES ASSUME NEW m \in Nat, ~ OK(m) PROVE FALSE
      OBVIOUS
    <2> DEFINE T == {n \in Nat : ~ OK(n)}
    <2>1. PICK n \in T : \A k \in T : n <= k
      <3> HIDE DEF OK
      <3> QED BY LeastOf
    <2>2. n # 0
      <3>1. Small(0) = {{}}
        BY <1>0, FS_EmptySet
      <3>2. OK(0)
        BY <3>1 DEF Adding
      <3> QED BY <3>2
    <2>3. PICK g : g = [s \in Small(n - 1) |-> Adding(f, g, s)]
      <3>1. n - 1 \in Nat /\ n - 1 \notin T
        <4> HIDE DEF OK
        <4> QED BY <2>1, <2>2
      <3>2. OK(n - 1)
        <4> HIDE DEF OK
        <4> QED BY <3>1
      <3> QED BY <3>2
    <2> DEFINE h == [s \in Small(n) |-> Adding(f, g, s)]
    <2>4. ASSUME NEW s \in Small(n), s # {} PROVE s \ {Picked(s)} \in Small(n - 1)
      <3>1. Picked(s) \in s BY <2>4 DEF Picked
      <3>2. Cardinality(s \ {Picked(s)}) = Cardinality(s) - 1
        BY <1>0, <3>1, FS_RemoveElement
      <3> QED BY <1>0, <3>2
    <2>5. \A s \in Small(n - 1) : s \in Small(n) /\ h[s] = g[s]
      BY <1>0, <2>3
    <2>6. h = [s \in Small(n) |-> Adding(f, h, s)]
      BY <2>4, <2>5 DEF Adding
    <2>7. OK(n)
      <3> HIDE DEF h
      <3> QED BY <2>6
    <2> QED
      BY <2>7
  <1>2. PICK g : g = [s \in Small(Cardinality(S)) |-> Adding(f, g, s)]
    BY <1>1, FS_CardinalityType
  <1>3. Small(Cardinality(S)) = SUBSET S
    BY FS_Subset
  <1> QED
    BY <1>2, <1>3 DEF AddsUp

(* The fold is one of these functions.                                     *)
LEMMA SumIsOne ==
  ASSUME NEW S, IsFiniteSet(S), NEW f
  PROVE  \E g : AddsUp(f, S, g) /\ SumOf(f, S) = g[S]
PROOF
  <1>1. PICK g : AddsUp(f, S, g)
    BY SumsExist
  <1> QED
    BY <1>1 DEF SumOf, MapThenSumSet, MapThenFoldSet, AddsUp, Adding, Picked

(* What is added up depends on the values at the set's elements only.      *)
LEMMA SumsAgree ==
  ASSUME NEW S, IsFiniteSet(S), NEW T \in SUBSET S, NEW f, NEW h, NEW g, NEW k,
         AddsUp(f, S, g), AddsUp(h, T, k), \A x \in T : f[x] = h[x]
  PROVE  g[T] = k[T]
PROOF
  <1> DEFINE B == {s \in SUBSET T : g[s] # k[s]}
  <1>1. CASE B = {}
    BY <1>1
  <1>2. CASE B # {}
    <2>1. PICK s \in B : \A x \in s : s \ {x} \notin B
      BY <1>2, SmallestSubset
    <2>2. g[s] = Adding(f, g, s) /\ k[s] = Adding(h, k, s)
      BY DEF AddsUp
    <2>3. s # {}
      BY <2>2 DEF Adding
    <2>4. Picked(s) \in s
      BY <2>3 DEF Picked
    <2>5. g[s \ {Picked(s)}] = k[s \ {Picked(s)}]
      BY <2>1, <2>4
    <2> QED
      BY <2>2, <2>4, <2>5 DEF Adding
  <1> QED
    BY <1>1, <1>2

(* A sum of integers is one, and any element may be taken out of it.       *)
LEMMA SumsSplit ==
  ASSUME NEW S, IsFiniteSet(S), NEW f, NEW g, AddsUp(f, S, g), \A x \in S : f[x] \in Int
  PROVE  \A s \in SUBSET S : g[s] \in Int /\ \A x \in s : g[s] = f[x] + g[s \ {x}]
PROOF
  <1>0. \A s \in SUBSET S : s # {} => /\ Picked(s) \in s
                                      /\ g[s] = f[Picked(s)] + g[s \ {Picked(s)}]
    BY DEF AddsUp, Adding, Picked
  <1>1. \A s \in SUBSET S : g[s] \in Int
    <2> DEFINE B == {s \in SUBSET S : g[s] \notin Int}
    <2>1. CASE B # {}
      <3>1. PICK s \in B : \A x \in s : s \ {x} \notin B
        BY <2>1, SmallestSubset
      <3>2. s # {}
        BY DEF AddsUp, Adding
      <3>3. g[s \ {Picked(s)}] \in Int
        BY <1>0, <3>1, <3>2
      <3> QED
        BY <1>0, <3>2, <3>3
    <2> QED
      BY <2>1
  <1>2. \A s \in SUBSET S : \A x \in s : g[s] = f[x] + g[s \ {x}]
    <2> DEFINE B == {s \in SUBSET S : \E x \in s : g[s] # f[x] + g[s \ {x}]}
    <2>1. CASE B # {}
      <3>1. PICK s \in B : \A x \in s : s \ {x} \notin B
        BY <2>1, SmallestSubset
      <3>2. PICK x \in s : g[s] # f[x] + g[s \ {x}]
        BY <3>1
      <3> DEFINE y == Picked(s)
      <3>3. y \in s /\ g[s] = f[y] + g[s \ {y}]
        BY <1>0, <3>2
      <3> HIDE DEF y
      <3>4. x # y
        BY <3>2, <3>3
      <3>5. g[s \ {y}] = f[x] + g[(s \ {y}) \ {x}]
        BY <3>1, <3>3, <3>4
      <3>6. g[s \ {x}] = f[y] + g[(s \ {x}) \ {y}]
        BY <3>1, <3>3, <3>4
      <3>7. (s \ {y}) \ {x} = (s \ {x}) \ {y} /\ (s \ {x}) \ {y} \in SUBSET S
        OBVIOUS
      <3>8. PICK r \in Int : r = g[(s \ {x}) \ {y}]
        BY <1>1, <3>7
      <3>9. f[x] \in Int /\ f[y] \in Int
        BY <3>3
      <3>10. g[s] = f[y] + (f[x] + r) /\ g[s \ {x}] = f[y] + r
        BY <3>3, <3>5, <3>6, <3>7, <3>8, Zenon
      <3>11. f[y] + (f[x] + r) = f[x] + (f[y] + r)
        BY <3>9
      <3> QED
        BY <3>2, <3>10, <3>11, Zenon
    <2> QED
      BY <2>1
  <1> QED
    BY <1>1, <1>2

(* The sum of nothing.                                                     *)
LEMMA SumEmpty ==
  ASSUME NEW f
  PROVE  SumOf(f, {}) = 0
PROOF
  <1>1. PICK g : AddsUp(f, {}, g) /\ SumOf(f, {}) = g[{}]
    BY SumIsOne, FS_EmptySet
  <1> QED
    BY <1>1 DEF AddsUp, Adding

(* The sum of integers.                                                    *)
LEMMA SumInt ==
  ASSUME NEW S, IsFiniteSet(S), NEW f, \A x \in S : f[x] \in Int
  PROVE  SumOf(f, S) \in Int
  BY SumIsOne, SumsSplit

(* The sum of one element more.                                            *)
LEMMA SumAdd ==
  ASSUME NEW S, IsFiniteSet(S), NEW x, x \notin S, NEW f, \A y \in S \cup {x} : f[y] \in Int
  PROVE  SumOf(f, S \cup {x}) = SumOf(f, S) + f[x]
PROOF
  <1>1. IsFiniteSet(S \cup {x})
    BY FS_AddElement
  <1>2. PICK g : AddsUp(f, S \cup {x}, g) /\ SumOf(f, S \cup {x}) = g[S \cup {x}]
    BY <1>1, SumIsOne
  <1>3. PICK k : AddsUp(f, S, k) /\ SumOf(f, S) = k[S]
    BY SumIsOne
  <1>4. g[S] = k[S]
    BY <1>1, <1>2, <1>3, SumsAgree
  <1>5. (S \cup {x}) \ {x} = S /\ S \cup {x} \in SUBSET (S \cup {x}) /\ S \in SUBSET (S \cup {x})
    OBVIOUS
  <1>6. g[S] \in Int /\ g[S \cup {x}] = f[x] + g[S]
    <2> DEFINE U == S \cup {x}
    <2>1. \A s \in SUBSET U : g[s] \in Int /\ \A y \in s : g[s] = f[y] + g[s \ {y}]
      <3>1. IsFiniteSet(U) /\ AddsUp(f, U, g) /\ \A y \in U : f[y] \in Int
        BY <1>1, <1>2
      <3> HIDE DEF U
      <3> QED BY <3>1, SumsSplit
    <2> QED
      BY <1>5, <2>1
  <1> QED
    BY <1>2, <1>3, <1>4, <1>6

(* The sum of the same values.                                             *)
LEMMA SumSame ==
  ASSUME NEW S, IsFiniteSet(S), NEW f, NEW h, \A x \in S : f[x] = h[x]
  PROVE  SumOf(f, S) = SumOf(h, S)
  BY SumIsOne, SumsAgree

(* One value changes.                                                      *)
LEMMA SumChange ==
  ASSUME NEW S, IsFiniteSet(S), NEW w \in S, NEW f, NEW h,
         \A x \in S : f[x] \in Int /\ h[x] \in Int, \A x \in S : x # w => h[x] = f[x]
  PROVE  SumOf(h, S) = SumOf(f, S) - f[w] + h[w]
PROOF
  <1> DEFINE R == S \ {w}
  <1>1. IsFiniteSet(R) /\ w \notin R /\ S = R \cup {w}
    BY FS_RemoveElement
  <1> HIDE DEF R
  <1>2. SumOf(f, S) = SumOf(f, R) + f[w] /\ SumOf(h, S) = SumOf(h, R) + h[w]
    BY <1>1, SumAdd
  <1>3. SumOf(f, R) = SumOf(h, R) /\ SumOf(f, R) \in Int
    BY <1>1, SumSame, SumInt
  <1> QED
    BY <1>2, <1>3

(* A sum over S of values that are at most p, and zero outside A.          *)
LEMMA SumBounded ==
  ASSUME NEW S, IsFiniteSet(S), NEW A \in SUBSET S, NEW p \in Nat, NEW f,
         \A x \in S : f[x] \in 0 .. p, \A x \in S \ A : f[x] = 0
  PROVE  SumOf(f, S) \in 0 .. p * Cardinality(A)
PROOF
  <1> DEFINE Fits(s) == SumOf(f, s) \in 0 .. p * Cardinality(A \cap s)
             B == {s \in SUBSET S : ~ Fits(s)}
  <1>1. CASE B # {}
    <2>1. PICK s \in B : \A x \in s : s \ {x} \notin B
      <3> HIDE DEF Fits
      <3> QED
        BY <1>1, SmallestSubset
    <2>2. s # {}
      <3>1. A \cap {} = {} /\ p * 0 = 0
        OBVIOUS
      <3>2. Fits({})
        BY <3>1, SumEmpty, FS_EmptySet
      <3> QED
        BY <3>2
    <2>3. PICK x \in s : TRUE
      BY <2>2
    <2> DEFINE t == s \ {x}
    <2>4. t \in SUBSET S /\ Fits(t) /\ x \notin t /\ s = t \cup {x}
      BY <2>1
    <2> HIDE DEF t
    <2>5. IsFiniteSet(t)
      BY <2>4, FS_Subset
    <2>6. SumOf(f, s) = SumOf(f, t) + f[x]
      <3>1. \A y \in t \cup {x} : f[y] \in Int
        BY <2>4
      <3> QED
        BY <2>4, <2>5, <3>1, SumAdd
    <2>7. PICK n \in Nat : n = Cardinality(A \cap t)
      BY <2>5, FS_Intersection, FS_CardinalityType
    <2>8. CASE x \in A
      <3>1. A \cap s = (A \cap t) \cup {x} /\ x \notin A \cap t
        BY <2>4, <2>8
      <3>2. Cardinality(A \cap s) = n + 1
        BY <2>5, <2>7, <3>1, FS_Intersection, FS_AddElement
      <3>3. p * (n + 1) = p * n + p /\ p * n \in Int
        OBVIOUS
      <3>4. PICK m \in Int : m = p * n
        BY <3>3
      <3>5. SumOf(f, t) \in 0 .. m /\ f[x] \in 0 .. p
        BY <2>4, <2>7, <3>4
      <3>6. SumOf(f, s) \in 0 .. m + p
        BY <2>6, <3>5
      <3>7. Fits(s)
        BY <3>2, <3>3, <3>4, <3>6, Zenon
      <3> QED
        BY <3>7
    <2>9. CASE x \notin A
      <3>1. A \cap s = A \cap t /\ f[x] = 0
        BY <2>4, <2>9
      <3>2. SumOf(f, s) = SumOf(f, t)
        <4>1. SumOf(f, t) \in Int
          BY <2>4, <2>5, SumInt
        <4> QED BY <2>6, <3>1, <4>1
      <3>3. Fits(s)
        BY <2>4, <3>1, <3>2, Zenon
      <3> QED
        BY <3>3
    <2> QED
      BY <2>8, <2>9
  <1>2. CASE B = {}
    <2>1. Fits(S)
      BY <1>2
    <2>2. A \cap S = A
      OBVIOUS
    <2> QED
      BY <2>1, <2>2, Zenon
  <1> QED
    BY <1>1, <1>2

-----------------------------------------------------------------------------
(* A worker about to append to a log has appended to the ones before it,   *)
(* which hold its record unless a line of them was cut short.              *)
LogsInOrder ==
  /\ callLines = "whole" => \A w \in Worker : pc[w] \in {"log_run", "spend"} => CallId(w) \in callLog
  /\ runLines = "whole" => \A w \in Worker : pc[w] = "spend" => CallId(w) \in runLog

(* No call is charged that a process to come has yet to make.              *)
Dated == crashes \in Nat /\ \A r \in spend : RunOf(r.id) \in Int /\ RunOf(r.id) <= crashes

Steps == {"lookup", "read_ledger", "reserve", "send", "put", "fill", "log", "log_run",
          "spend", "release"}
Located == pc \in [Worker -> Steps] /\ made \in [Worker -> Int]

AttributionInv == Located /\ Dated /\ LogsInOrder /\ LogsTellSpend

(* A step that appends to no log, but may have cut a line short in one,    *)
(* and sends its worker w to a step that needs no entry in a log, keeps    *)
(* them in order.                                                          *)
LEMMA ElsewherePreserves ==
  ASSUME AttributionInv, NEW w \in Worker, NEW step \in Steps \ {"log_run", "spend"},
         Goto(w, step), UNCHANGED <<callLog, runLog, spend, crashes>>,
         callLines' = "whole" => callLines = "whole", runLines' = "whole" => runLines = "whole",
         made' \in [Worker -> Int], \A v \in Worker : v # w => made'[v] = made[v]
  PROVE  AttributionInv'
PROOF
  <1>1. Located' /\ Dated'
    BY DEF AttributionInv, Located, Dated, Goto
  <1>2. \A v \in Worker : pc'[v] \in {"log_run", "spend"} => v # w /\ pc'[v] = pc[v]
    BY DEF AttributionInv, Located, Goto
  <1>3. LogsInOrder'
    BY <1>2 DEF AttributionInv, LogsInOrder, CallId
  <1>4. LogsTellSpend'
    BY DEF AttributionInv, LogsTellSpend, Charged
  <1> QED
    BY <1>1, <1>3, <1>4 DEF AttributionInv

(* The order of the log files is inductive.                                *)
LEMMA AttributionStep == AttributionInv /\ [Next]_vars => AttributionInv'
PROOF
  <1> SUFFICES ASSUME AttributionInv, [Next]_vars PROVE AttributionInv'
    OBVIOUS
  <1>1. made \in [Worker -> Int]
    BY DEF AttributionInv, Located
  <1>2. ASSUME NEW w \in Worker, NEW k \in Key, Step(w, k) PROVE AttributionInv'
    <2>1. CASE LookUp(w, k)
      BY <1>1, <2>1, ElsewherePreserves DEF LookUp, Steps, logs, faults
    <2>2. CASE ReadLedger(w)
      BY <1>1, <2>2, ElsewherePreserves DEF ReadLedger, Steps, logs, faults
    <2>14. CASE LedgerUnreadable(w)
      BY <1>1, <2>14, ElsewherePreserves DEF LedgerUnreadable, Steps, logs, faults
    <2>3. CASE Reserve(w)
      BY <1>1, <2>3, ElsewherePreserves DEF Reserve, Steps, logs, faults
    <2>4. CASE Refuse(w)
      BY <1>1, <2>4, ElsewherePreserves DEF Refuse, Steps, logs, faults
    <2>5. CASE Answer(w)
      BY <1>1, <2>5, ElsewherePreserves DEF Answer, Answered, Steps, logs, faults
    <2>6. CASE NoAnswer(w)
      BY <1>1, <2>6, ElsewherePreserves DEF NoAnswer, Steps, logs, faults
    <2>7. CASE TruncateEntry(w)
      BY <1>1, <2>7, ElsewherePreserves DEF TruncateEntry, Steps, logs, faults
    <2>8. CASE FillEntry(w)
      BY <1>1, <2>8, ElsewherePreserves DEF FillEntry, Steps, logs, faults
    <2>9. CASE AppendCall(w)
      <3>1. /\ callLines' = Behind(callLines) /\ Goto(w, "log_run")
            /\ callLog' = IF OwnLine(callLines) THEN callLog \cup {CallId(w)} ELSE callLog
            /\ UNCHANGED <<made, runLog, runLines, spend, crashes>>
        BY <2>9 DEF AppendCall, LogCall, faults
      <3>2. Located' /\ Dated'
        BY <3>1 DEF AttributionInv, Located, Dated, Goto, Steps
      <3>3. /\ callLog \subseteq callLog'
            /\ callLines' = "whole" => callLines = "whole"
            /\ callLines = "whole" => CallId(w) \in callLog'
        BY <3>1 DEF Behind, OwnLine
      <3>4. LogsInOrder'
        BY <3>1, <3>3 DEF AttributionInv, Located, LogsInOrder, CallId, Goto
      <3>5. LogsTellSpend'
        BY <3>1, <3>3 DEF AttributionInv, LogsTellSpend, Charged
      <3> QED
        BY <3>2, <3>4, <3>5 DEF AttributionInv
    <2>10. CASE AppendRun(w)
      <3>1. /\ runLines' = Behind(runLines) /\ Goto(w, "spend") /\ pc[w] = "log_run"
            /\ runLog' = IF OwnLine(runLines) THEN runLog \cup {CallId(w)} ELSE runLog
            /\ UNCHANGED <<made, callLog, callLines, spend, crashes>>
        BY <2>10 DEF AppendRun, faults
      <3>2. Located' /\ Dated'
        BY <3>1 DEF AttributionInv, Located, Dated, Goto, Steps
      <3>3. /\ runLog \subseteq runLog'
            /\ runLines' = "whole" => runLines = "whole"
            /\ runLines = "whole" => CallId(w) \in runLog'
        BY <3>1 DEF Behind, OwnLine
      <3>4. LogsInOrder'
        BY <3>1, <3>3 DEF AttributionInv, Located, LogsInOrder, CallId, Goto
      <3>5. LogsTellSpend'
        BY <3>1, <3>3 DEF AttributionInv, LogsTellSpend, Charged
      <3> QED
        BY <3>2, <3>4, <3>5 DEF AttributionInv
    <2>11. CASE AppendSpend(w)
      <3>1. /\ Goto(w, "release") /\ pc[w] = "spend"
            /\ UNCHANGED <<made, callLog, callLines, runLog, runLines, crashes>>
        BY <2>11 DEF AppendSpend, faults
      <3>2. \A r \in spend' : r \in spend \/ r.id = CallId(w)
        BY <2>11 DEF AppendSpend
      <3>3. Located'
        BY <3>1 DEF AttributionInv, Located, Goto, Steps
      <3>4. Dated'
        BY <3>1, <3>2 DEF AttributionInv, Dated, CallId, RunOf
      <3>5. LogsInOrder'
        BY <3>1 DEF AttributionInv, Located, LogsInOrder, CallId, Goto
      <3>6. \A id \in Charged' : id \in Charged \/ id = CallId(w)
        BY <3>2 DEF Charged
      <3>7. LogsTellSpend'
        BY <3>1, <3>6 DEF AttributionInv, LogsInOrder, LogsTellSpend
      <3> QED
        BY <3>3, <3>4, <3>5, <3>7 DEF AttributionInv
    <2>12. CASE DiskFails(w)
      <3>1. /\ callLines' = "whole" => callLines = "whole"
            /\ runLines' = "whole" => runLines = "whole"
        BY <2>12 DEF DiskFails, CutShort
      <3> QED
        BY <1>1, <2>12, <3>1, ElsewherePreserves DEF DiskFails, Steps
    <2>13. CASE Release(w)
      <3>1. made' \in [Worker -> Int] /\ \A v \in Worker : v # w => made'[v] = made[v]
        BY <1>1, <2>13 DEF Release
      <3> QED
        BY <2>13, <3>1, ElsewherePreserves DEF Release, Steps, logs, faults
    <2> QED
      BY <1>2, <2>1, <2>2, <2>3, <2>4, <2>5, <2>6, <2>7, <2>8, <2>9, <2>10, <2>11,
         <2>12, <2>13, <2>14 DEF Step
  <1>3. CASE Crash
    <2>1. /\ callLines' = "whole" => callLines = "whole"
          /\ crashes' = crashes + 1 /\ UNCHANGED <<made, callLog, runLog, spend>>
          /\ pc' = [w \in Worker |-> "lookup"]
      BY <1>3 DEF Crash, CutShort
    <2>2. Located' /\ Dated' /\ LogsInOrder'
      BY <2>1 DEF AttributionInv, Located, Dated, LogsInOrder, Steps
    <2>3. \A id \in Charged' : RunOf(id) # crashes'
      BY <2>1 DEF AttributionInv, Dated, Charged
    <2>4. LogsTellSpend'
      BY <2>1, <2>3 DEF AttributionInv, LogsTellSpend, Charged
    <2> QED
      BY <2>2, <2>4 DEF AttributionInv
  <1>4. CASE BudgetReset
    <2>1. spend' = {} /\ UNCHANGED <<pc, made, crashes, callLog, callLines, runLog, runLines>>
      BY <1>4 DEF BudgetReset, workerVars
    <2> QED
      BY <2>1 DEF AttributionInv, Located, Dated, LogsInOrder, LogsTellSpend, Charged, CallId
  <1>5. CASE UNCHANGED vars
    BY <1>5 DEF vars, workerVars, logs, faults, AttributionInv, Located, Dated, LogsInOrder,
                LogsTellSpend, Charged, CallId
  <1> QED
    BY <1>2, <1>3, <1>4, <1>5 DEF Next

(* Nothing is charged at the start.                                        *)
LEMMA AttributionInit == Init => AttributionInv
  BY DEF Init, AttributionInv, Located, Dated, LogsInOrder, LogsTellSpend, Charged, Steps

-----------------------------------------------------------------------------
(* Reservations.                                                           *)
Holders(s) == {w \in Worker : holds[w] /\ ScopeOf[w] = s}

Tabled ==
  /\ pc \in [Worker -> Steps] /\ holds \in [Worker -> BOOLEAN]
  /\ reserved \in [Scope -> Int]

(* A reservation is taken on the way to the provider, not before.          *)
NoneBeforeReserve ==
  \A w \in Worker : pc[w] \in {"lookup", "read_ledger", "reserve"} => ~holds[w]

ReservationInv == Tabled /\ NoneBeforeReserve /\ ReservationsMatch

(* The reservation table, said with the set of the holders.                *)
LEMMA ReservationsAreHeld ==
  ReservationsMatch <=> \A s \in Scope : reserved[s] = Projected * Cardinality(Holders(s))
  BY DEF ReservationsMatch, Holders

(* The holders of a scope can be counted.                                  *)
LEMMA HoldersFinite ==
  ASSUME NEW s
  PROVE  IsFiniteSet(Holders(s)) /\ Cardinality(Holders(s)) \in Nat
PROOF
  <1>1. Holders(s) \subseteq Worker
    BY DEF Holders
  <1>2. IsFiniteSet(Holders(s))
    BY <1>1, FS_Subset, MoneyAssumption, Zenon DEF MoneyAssumption
  <1> QED
    BY <1>2, FS_CardinalityType

(* What one reservation more or less is worth.                             *)
LEMMA OneMore ==
  ASSUME NEW p \in Int, NEW n \in Int
  PROVE  p * (n + 1) = p * n + p /\ p * (n - 1) = p * n - p
  OBVIOUS

(* A step that moves a worker to a later step than "reserve", or keeps a   *)
(* worker that holds nothing before it.                                    *)
LEMMA HoldingPreserves ==
  ASSUME ReservationInv, NEW w \in Worker, NEW step \in Steps, Goto(w, step),
         step \in {"lookup", "read_ledger", "reserve"} => ~holds[w],
         UNCHANGED <<holds, reserved>>
  PROVE  ReservationInv'
PROOF
  <1>1. Tabled'
    BY DEF ReservationInv, Tabled, Goto
  <1>2. NoneBeforeReserve'
    BY DEF ReservationInv, Tabled, NoneBeforeReserve, Goto
  <1>3. ReservationsMatch'
    BY DEF ReservationInv, ReservationsMatch
  <1> QED
    BY <1>1, <1>2, <1>3 DEF ReservationInv

(* Only w starts to hold a reservation, and its scope's count grows.       *)
LEMMA ReserveKeepsMatch ==
  ASSUME ReservationInv, NEW w \in Worker, Reserve(w)
  PROVE  ReservationInv'
PROOF
  <1>1. ~holds[w] /\ ScopeOf[w] \in Scope
    BY MoneyAssumption DEF Reserve, ReservationInv, NoneBeforeReserve, MoneyAssumption
  <1>2. Tabled'
    BY <1>1, MoneyAssumption
    DEF Reserve, ReservationInv, Tabled, Goto, Steps, MoneyAssumption
  <1>3. NoneBeforeReserve'
    BY DEF Reserve, ReservationInv, Tabled, NoneBeforeReserve, Goto
  <1>4. ASSUME NEW s \in Scope
        PROVE  reserved'[s] = Projected * Cardinality(Holders(s)')
    <2>1. reserved[s] = Projected * Cardinality(Holders(s))
      BY ReservationsAreHeld DEF ReservationInv
    <2>2. CASE s = ScopeOf[w]
      <3>1. Holders(s)' = Holders(s) \cup {w} /\ w \notin Holders(s)
        BY <1>1, <2>2 DEF Reserve, ReservationInv, Tabled, Holders
      <3>2. Cardinality(Holders(s)') = Cardinality(Holders(s)) + 1
        BY <3>1, HoldersFinite, FS_AddElement
      <3>3. reserved'[s] = reserved[s] + Projected
        BY <2>2 DEF Reserve, ReservationInv, Tabled
      <3> QED
        BY <2>1, <3>2, <3>3, HoldersFinite, OneMore, MoneyAssumption DEF MoneyAssumption
    <2>3. CASE s # ScopeOf[w]
      <3>1. Holders(s)' = Holders(s)
        BY <2>3 DEF Reserve, ReservationInv, Tabled, Holders
      <3>2. reserved'[s] = reserved[s]
        BY <2>3 DEF Reserve, ReservationInv, Tabled
      <3> QED
        BY <2>1, <3>1, <3>2
    <2> QED
      BY <2>2, <2>3
  <1>5. ReservationsMatch'
    BY <1>4 DEF ReservationsMatch, Holders
  <1> QED
    BY <1>2, <1>3, <1>5 DEF ReservationInv

(* Dropping a reservation that is held gives back exactly that one.        *)
LEMMA ReleaseKeepsMatch ==
  ASSUME ReservationInv, NEW w \in Worker, Release(w)
  PROVE  ReservationInv'
PROOF
  <1>1. ScopeOf[w] \in Scope
    BY MoneyAssumption DEF MoneyAssumption
  <1>2. Tabled'
    BY <1>1, MoneyAssumption
    DEF Release, ReservationInv, Tabled, Goto, Steps, MoneyAssumption
  <1>3. NoneBeforeReserve'
    BY DEF Release, ReservationInv, Tabled, NoneBeforeReserve, Goto
  <1>4. ASSUME NEW s \in Scope
        PROVE  reserved'[s] = Projected * Cardinality(Holders(s)')
    <2>1. reserved[s] = Projected * Cardinality(Holders(s))
      BY ReservationsAreHeld DEF ReservationInv
    <2>2. CASE holds[w] /\ s = ScopeOf[w]
      <3>1. Holders(s)' = Holders(s) \ {w} /\ w \in Holders(s)
        BY <2>2 DEF Release, ReservationInv, Tabled, Holders
      <3>2. Cardinality(Holders(s)') = Cardinality(Holders(s)) - 1
        BY <3>1, HoldersFinite, FS_RemoveElement
      <3>3. reserved'[s] = reserved[s] - Projected
        BY <2>2 DEF Release, ReservationInv, Tabled
      <3> QED
        BY <2>1, <3>2, <3>3, HoldersFinite, OneMore, MoneyAssumption DEF MoneyAssumption
    <2>3. CASE ~(holds[w] /\ s = ScopeOf[w])
      <3>1. Holders(s)' = Holders(s)
        BY <2>3 DEF Release, ReservationInv, Tabled, Holders
      <3>2. reserved'[s] = reserved[s]
        BY <2>3 DEF Release, ReservationInv, Tabled
      <3> QED
        BY <2>1, <3>1, <3>2
    <2> QED
      BY <2>2, <2>3
  <1>5. ReservationsMatch'
    BY <1>4 DEF ReservationsMatch, Holders
  <1> QED
    BY <1>2, <1>3, <1>5 DEF ReservationInv

(* No reservation outlives the process.                                    *)
LEMMA NobodyHolds ==
  ASSUME NEW h, \A w \in Worker : ~h[w], NEW s
  PROVE  Projected * Cardinality({w \in Worker : h[w] /\ ScopeOf[w] = s}) = 0
PROOF
  <1>1. {w \in Worker : h[w] /\ ScopeOf[w] = s} = {}
    OBVIOUS
  <1>2. Cardinality({}) = 0
    BY FS_EmptySet
  <1>3. Projected \in Int
    BY MoneyAssumption DEF MoneyAssumption
  <1> QED
    BY <1>1, <1>2, <1>3

(* The reservation table is inductive.                                     *)
LEMMA ReservationStep == ReservationInv /\ [Next]_vars => ReservationInv'
PROOF
  <1> SUFFICES ASSUME ReservationInv, [Next]_vars PROVE ReservationInv'
    OBVIOUS
  <1>1. ASSUME NEW w \in Worker, NEW k \in Key, Step(w, k) PROVE ReservationInv'
    <2>1. pc[w] \in {"lookup", "read_ledger", "reserve"} => ~holds[w]
      BY DEF ReservationInv, NoneBeforeReserve
    <2>2. CASE LookUp(w, k)
      BY <2>1, <2>2, HoldingPreserves DEF LookUp, Steps
    <2>3. CASE ReadLedger(w)
      BY <2>1, <2>3, HoldingPreserves DEF ReadLedger, Steps
    <2>15. CASE LedgerUnreadable(w)
      BY <2>1, <2>15, HoldingPreserves DEF LedgerUnreadable, Steps
    <2>4. CASE Reserve(w)
      BY <2>4, ReserveKeepsMatch
    <2>5. CASE Refuse(w)
      BY <2>5, HoldingPreserves DEF Refuse, Steps
    <2>6. CASE Answer(w)
      BY <2>6, HoldingPreserves DEF Answer, Answered, Steps
    <2>7. CASE NoAnswer(w)
      BY <2>7, HoldingPreserves DEF NoAnswer, Steps
    <2>8. CASE TruncateEntry(w)
      BY <2>8, HoldingPreserves DEF TruncateEntry, Steps
    <2>9. CASE FillEntry(w)
      BY <2>9, HoldingPreserves DEF FillEntry, Steps
    <2>10. CASE AppendCall(w)
      BY <2>10, HoldingPreserves DEF AppendCall, LogCall, Steps
    <2>11. CASE AppendRun(w)
      BY <2>11, HoldingPreserves DEF AppendRun, Steps
    <2>12. CASE AppendSpend(w)
      BY <2>12, HoldingPreserves DEF AppendSpend, Steps
    <2>13. CASE DiskFails(w)
      BY <2>13, HoldingPreserves DEF DiskFails, Steps
    <2>14. CASE Release(w)
      BY <2>14, ReleaseKeepsMatch
    <2> QED
      BY <1>1, <2>2, <2>3, <2>4, <2>5, <2>6, <2>7, <2>8, <2>9, <2>10, <2>11, <2>12,
         <2>13, <2>14, <2>15 DEF Step
  <1>2. CASE Crash
    <2>1. Tabled' /\ NoneBeforeReserve'
      BY <1>2 DEF Crash, Tabled, NoneBeforeReserve, Steps
    <2>2. \A w \in Worker : ~holds'[w]
      BY <1>2 DEF Crash
    <2>3. ASSUME NEW s \in Scope PROVE reserved'[s] = 0
      BY <1>2 DEF Crash
    <2>4. ReservationsMatch'
      BY <2>2, <2>3, NobodyHolds DEF ReservationsMatch
    <2> QED
      BY <2>1, <2>4 DEF ReservationInv
  <1>3. CASE BudgetReset \/ UNCHANGED vars
    BY <1>3 DEF BudgetReset, vars, workerVars, ReservationInv, Tabled, NoneBeforeReserve,
                ReservationsMatch
  <1> QED
    BY <1>1, <1>2, <1>3 DEF Next

(* Nothing is reserved at the start.                                       *)
LEMMA ReservationInit == Init => ReservationInv
PROOF
  <1> SUFFICES ASSUME Init PROVE ReservationInv
    OBVIOUS
  <1>1. Tabled /\ NoneBeforeReserve
    BY DEF Init, Tabled, NoneBeforeReserve, Steps
  <1>2. \A w \in Worker : ~holds[w]
    BY DEF Init
  <1>3. ASSUME NEW s \in Scope PROVE reserved[s] = 0
    BY DEF Init
  <1>4. ReservationsMatch
    BY <1>2, <1>3, NobodyHolds DEF ReservationsMatch
  <1> QED
    BY <1>1, <1>4 DEF ReservationInv

(* However a call ends, the table neither leaks a reservation nor returns  *)
(* one twice (BudgetReservation and its Drop).                             *)
THEOREM ReservationsExact == Spec => []ReservationsMatch
PROOF
  <1>1. ReservationInv => ReservationsMatch
    BY DEF ReservationInv
  <1> QED
    BY <1>1, ReservationInit, ReservationStep, PTL DEF Spec

-----------------------------------------------------------------------------
(* Money.  A spend record carries the call it is for, so that a call that  *)
(* is still to be recorded is none of those that are.                      *)
SpendRecord == [id : Worker \X Int \X Int, scope : Scope, cost : Nat]

Ledgered ==
  /\ spend \subseteq SpendRecord /\ IsFiniteSet(spend)
  /\ cost \in [Worker -> Nat]
  /\ billed \in Int /\ unrecorded \in Int /\ crashes \in Int

(* A call has a cost from the provider's answer till it is recorded.       *)
Unanswered == {"lookup", "read_ledger", "reserve", "send", "release"}
CostInFlight == \A w \in Worker : pc[w] \in Unanswered => cost[w] = 0

(* The call of a spend record is over, or its worker is about to return.   *)
Past(r) ==
  \/ r.id[3] < crashes
  \/ /\ r.id[3] = crashes
     /\ \/ r.id[2] < made[r.id[1]]
        \/ (r.id[2] = made[r.id[1]] /\ pc[r.id[1]] = "release")
ChargedOnce == \A r \in spend : Past(r)

AccountInv == AttributionInv /\ Ledgered /\ CostInFlight /\ ChargedOnce /\ BilledIsAccounted

(* The total of a finite ledger.                                           *)
LEMMA TotalIsSum ==
  ASSUME NEW R, IsFiniteSet(R), NEW f, \A r \in R : f[r] = r.cost
  PROVE  Total(R) = SumOf(f, R)
PROOF
  <1> DEFINE h == [r \in R |-> r.cost]
  <1>1. PICK g : AddsUp(h, R, g)
    BY SumsExist
  <1> DEFINE IsFold(k) == k = [s \in SUBSET R |-> IF s = {} THEN 0
                                 ELSE (CHOOSE x \in s : TRUE).cost + k[s \ {CHOOSE x \in s : TRUE}]]
  <1>2. \A k : IsFold(k) <=> AddsUp(h, R, k)
    BY DEF AddsUp, Adding, Picked
  <1>3. PICK k : AddsUp(h, R, k) /\ Total(R) = k[R]
    <2> DEFINE c == CHOOSE k : IsFold(k)
    <2>1. Total(R) = c[R]
      BY DEF Total, MapThenSumSet, MapThenFoldSet
    <2>2. IsFold(g)
      BY <1>1, <1>2
    <2>3. IsFold(c)
      <3> HIDE DEF IsFold
      <3> QED BY <2>2
    <2> HIDE DEF c, h
    <2> QED BY <1>2, <2>1, <2>3
  <1>4. PICK j : AddsUp(f, R, j) /\ SumOf(f, R) = j[R]
    BY SumIsOne
  <1>5. R \in SUBSET R /\ \A x \in R : h[x] = f[x]
    OBVIOUS
  <1> HIDE DEF h, IsFold
  <1>6. k[R] = j[R]
    BY <1>3, <1>4, <1>5, SumsAgree
  <1> QED
    BY <1>3, <1>4, <1>6

(* An empty ledger has spent nothing; a record adds its cost.              *)
LEMMA TotalEmpty == Total({}) = 0
PROOF
  <1>1. Total({}) = SumOf([r \in {} |-> 0], {})
    BY TotalIsSum, FS_EmptySet
  <1> QED
    BY <1>1, SumEmpty

LEMMA TotalAdd ==
  ASSUME NEW R, IsFiniteSet(R), NEW r, r \notin R, \A q \in R \cup {r} : q.cost \in Int
  PROVE  Total(R) \in Int /\ Total(R \cup {r}) = Total(R) + r.cost
PROOF
  <1> DEFINE f == [q \in R \cup {r} |-> q.cost]
  <1>1. IsFiniteSet(R \cup {r})
    BY FS_AddElement
  <1>2. \A q \in R \cup {r} : f[q] = q.cost /\ f[q] \in Int
    OBVIOUS
  <1> HIDE DEF f
  <1>3. Total(R \cup {r}) = SumOf(f, R \cup {r}) /\ Total(R) = SumOf(f, R)
    BY <1>1, <1>2, TotalIsSum
  <1>4. SumOf(f, R \cup {r}) = SumOf(f, R) + f[r] /\ SumOf(f, R) \in Int
    BY <1>2, SumAdd, SumInt
  <1> QED
    BY <1>2, <1>3, <1>4

(* What every worker's step does with its call's cost and the two totals   *)
(* decides whether the account still balances.                             *)
LEMMA AccountBalances ==
  ASSUME AccountInv, NEW w \in Worker, cost' \in [Worker -> Nat],
         \A v \in Worker : v # w => cost'[v] = cost[v],
         Total(spend) \in Int, Total(spend)' \in Int, billed' \in Int, unrecorded' \in Int,
         billed' - billed = (Total(spend)' - Total(spend)) + (cost'[w] - cost[w])
                              + (unrecorded' - unrecorded)
  PROVE  BilledIsAccounted'
PROOF
  <1>1. IsFiniteSet(Worker)
    BY MoneyAssumption DEF MoneyAssumption
  <1>2. \A v \in Worker : cost[v] \in Int /\ cost'[v] \in Int
    BY DEF AccountInv, Ledgered
  <1>3. SumOf(cost', Worker) = SumOf(cost, Worker) - cost[w] + cost'[w]
    BY <1>1, <1>2, SumChange
  <1>4. billed = Total(spend) + SumOf(cost, Worker) + unrecorded
    BY DEF AccountInv, BilledIsAccounted, SumOf
  <1>5. SumOf(cost, Worker) \in Int
    BY <1>1, <1>2, SumInt
  <1>6. billed \in Int /\ unrecorded \in Int
    BY DEF AccountInv, Ledgered
  <1>7. billed' = Total(spend)' + SumOf(cost', Worker) + unrecorded'
    BY <1>2, <1>3, <1>4, <1>5, <1>6
  <1> QED
    BY <1>7 DEF BilledIsAccounted, SumOf, MapThenSumSet, MapThenFoldSet

(* A ledger's total is a natural number.                                   *)
LEMMA SumNat ==
  ASSUME NEW S, IsFiniteSet(S), NEW f, \A x \in S : f[x] \in Nat
  PROVE  SumOf(f, S) \in Nat
PROOF
  <1> DEFINE B == {s \in SUBSET S : SumOf(f, s) \notin Nat}
  <1>1. CASE B # {}
    <2>1. PICK s \in B : \A x \in s : s \ {x} \notin B
      BY <1>1, SmallestSubset
    <2>2. PICK x \in s : TRUE
      BY SumEmpty
    <2> DEFINE t == s \ {x}
    <2>3. SumOf(f, t) \in Nat /\ t \in SUBSET S /\ x \notin t /\ x \in S /\ s = t \cup {x}
      BY <2>1
    <2> HIDE DEF t
    <2>4. SumOf(f, s) = SumOf(f, t) + f[x]
      <3>1. IsFiniteSet(t) /\ \A y \in t \cup {x} : f[y] \in Int
        BY <2>3, FS_Subset
      <3> QED
        BY <2>3, <3>1, SumAdd
    <2> QED
      BY <2>3, <2>4
  <1>2. CASE B = {}
    BY <1>2
  <1> QED
    BY <1>1, <1>2

LEMMA TotalNat ==
  ASSUME NEW R, IsFiniteSet(R), \A r \in R : r.cost \in Nat
  PROVE  Total(R) \in Nat
PROOF
  <1> DEFINE f == [r \in R |-> r.cost]
  <1>1. \A r \in R : f[r] = r.cost /\ f[r] \in Nat
    OBVIOUS
  <1> HIDE DEF f
  <1> QED
    BY <1>1, TotalIsSum, SumNat

(* Calls that were over stay over.                                         *)
LEMMA PastStaysPast ==
  ASSUME AccountInv, NEW w \in Worker, NEW step, Goto(w, step), UNCHANGED crashes,
         made' \in [Worker -> Int], \A v \in Worker : v # w => made'[v] = made[v],
         \/ made'[w] = made[w] /\ pc[w] # "release"
         \/ made'[w] = made[w] + 1,
         NEW r \in SpendRecord, Past(r)
  PROVE  Past(r)'
PROOF
  <1>1. /\ r.id[1] \in Worker /\ r.id[2] \in Int /\ r.id[3] \in Int
        /\ crashes \in Int /\ pc \in [Worker -> Steps] /\ made \in [Worker -> Int]
    BY DEF SpendRecord, AccountInv, Ledgered, AttributionInv, Located
  <1>2. CASE r.id[1] = w
    BY <1>1, <1>2 DEF Past, Goto
  <1>3. CASE r.id[1] # w
    BY <1>1, <1>3 DEF Past, Goto
  <1> QED
    BY <1>2, <1>3

(* A step of a worker that does not touch the ledger.                      *)
LEMMA AccountKept ==
  ASSUME AccountInv, AttributionInv', NEW w \in Worker, NEW step \in Steps, Goto(w, step),
         UNCHANGED <<spend, crashes>>,
         \A v \in Worker : v # w => made'[v] = made[v],
         \/ made'[w] = made[w] /\ pc[w] # "release"
         \/ made'[w] = made[w] + 1,
         cost' \in [Worker -> Nat], \A v \in Worker : v # w => cost'[v] = cost[v],
         step \in Unanswered => cost'[w] = 0,
         billed' \in Int, unrecorded' \in Int,
         billed' - billed = (cost'[w] - cost[w]) + (unrecorded' - unrecorded)
  PROVE  AccountInv'
PROOF
  <1>1. Ledgered'
    BY DEF AccountInv, Ledgered
  <1>2. CostInFlight'
    BY DEF AccountInv, AttributionInv, Located, CostInFlight, Goto
  <1>3. ChargedOnce'
    <2>1. made' \in [Worker -> Int]
      BY DEF AttributionInv, Located
    <2> QED
      BY <2>1, PastStaysPast DEF AccountInv, ChargedOnce, Ledgered
  <1>4. BilledIsAccounted'
    <2>1. Total(spend) \in Int /\ Total(spend)' = Total(spend)
      BY TotalNat DEF AccountInv, Ledgered, SpendRecord
    <2>2. cost \in [Worker -> Nat] /\ cost'[w] \in Int /\ cost[w] \in Int
      BY DEF AccountInv, Ledgered
    <2>3. billed' - billed = (Total(spend)' - Total(spend)) + (cost'[w] - cost[w])
                              + (unrecorded' - unrecorded)
      BY <2>1, <2>2 DEF AccountInv, Ledgered
    <2> QED
      BY <2>1, <2>3, AccountBalances
  <1> QED
    BY <1>1, <1>2, <1>3, <1>4 DEF AccountInv

(* A record joins the ledger: it is of no call charged before.             *)
LEMMA AccountRecorded ==
  ASSUME AccountInv, AttributionInv', NEW w \in Worker, AppendSpend(w)
  PROVE  AccountInv'
PROOF
  <1>0. /\ pc \in [Worker -> Steps] /\ made \in [Worker -> Int] /\ cost \in [Worker -> Nat]
        /\ crashes \in Int /\ pc[w] = "spend"
    BY DEF AccountInv, AttributionInv, Located, Ledgered, AppendSpend
  <1>1. PICK r \in SpendRecord : r = [id |-> CallId(w), scope |-> ScopeOf[w], cost |-> cost[w]]
    BY <1>0, MoneyAssumption DEF SpendRecord, CallId, MoneyAssumption
  <1>2. r \notin spend
    BY <1>0, <1>1 DEF AccountInv, ChargedOnce, Past, CallId
  <1>3. cost' = [cost EXCEPT ![w] = 0] /\ billed' = billed /\ crashes' = crashes /\ made' = made
    BY DEF AppendSpend, faults
  <1>4. CASE ledger = "half_line"
    <2>1. /\ unrecorded' = unrecorded + cost[w] /\ UNCHANGED spend /\ Goto(w, "release")
      BY <1>4 DEF AppendSpend, OwnLine
    <2>2. cost' \in [Worker -> Nat] /\ cost'[w] = 0 /\ \A v \in Worker : v # w => cost'[v] = cost[v]
      BY <1>0, <1>3
    <2>3. /\ billed' \in Int /\ unrecorded' \in Int
          /\ billed' - billed = (cost'[w] - cost[w]) + (unrecorded' - unrecorded)
      BY <1>0, <1>3, <2>1, <2>2 DEF AccountInv, Ledgered
    <2> QED
      BY <1>0, <1>3, <2>1, <2>2, <2>3, AccountKept DEF Steps
  <1>5. CASE ledger # "half_line"
    <2>1. spend' = spend \cup {r} /\ UNCHANGED unrecorded /\ Goto(w, "release")
      BY <1>1, <1>5 DEF AppendSpend, OwnLine
    <2>2. Ledgered'
      BY <1>0, <1>1, <1>3, <2>1, FS_AddElement DEF AccountInv, Ledgered
    <2>3. CostInFlight'
      BY <1>0, <1>3, <2>1 DEF AccountInv, AttributionInv, Located, CostInFlight, Goto
    <2>4. ChargedOnce'
      <3>1. ASSUME NEW q \in spend PROVE Past(q)'
        BY <1>0, <1>3, <2>1, PastStaysPast DEF AccountInv, ChargedOnce, Ledgered
      <3>2. Past(r)'
        BY <1>0, <1>1, <1>3, <2>1 DEF Past, CallId, Goto
      <3>3. \A q \in spend' : Past(q)'
        BY <2>1, <3>1, <3>2
      <3> QED
        BY <3>3 DEF ChargedOnce
    <2>5. BilledIsAccounted'
      <3>1. \A q \in spend \cup {r} : q.cost \in Nat
        BY <1>1 DEF AccountInv, Ledgered, SpendRecord
      <3>2. Total(spend) \in Int /\ Total(spend)' = Total(spend) + r.cost
        BY <1>2, <2>1, <3>1, TotalAdd DEF AccountInv, Ledgered
      <3>3. r.cost = cost[w] /\ cost[w] \in Int /\ cost'[w] = 0
        BY <1>0, <1>1, <1>3
      <3>4. /\ Total(spend)' \in Int /\ billed' \in Int /\ unrecorded' \in Int
            /\ billed' - billed = (Total(spend)' - Total(spend)) + (cost'[w] - cost[w])
                                    + (unrecorded' - unrecorded)
        BY <1>3, <2>1, <3>2, <3>3 DEF AccountInv, Ledgered
      <3>5. cost' \in [Worker -> Nat] /\ \A v \in Worker : v # w => cost'[v] = cost[v]
        BY <1>0, <1>3
      <3> QED
        BY <3>2, <3>4, <3>5, AccountBalances
    <2> QED
      BY <2>2, <2>3, <2>4, <2>5 DEF AccountInv
  <1> QED
    BY <1>4, <1>5

(* A crash loses what was in flight: it is billed, and never recorded.     *)
LEMMA CrashAccounted ==
  ASSUME AccountInv, AttributionInv', Crash
  PROVE  AccountInv'
PROOF
  <1>1. PICK bill \in [{w \in Worker : pc[w] = "send"} -> AnswerCosts \cup {0}] :
          LET c == SumOf(bill, DOMAIN bill)
              inFlight == SumOf(cost, Worker)
          IN billed' = billed + c /\ unrecorded' = unrecorded + c + inFlight
    BY DEF Crash, SumOf
  <1>2. PICK c \in Int, i \in Int :
          /\ billed' = billed + c /\ unrecorded' = unrecorded + c + i /\ i = SumOf(cost, Worker)
    <2>1. IsFiniteSet(Worker) /\ IsFiniteSet(DOMAIN bill)
      <3>1. DOMAIN bill \subseteq Worker
        OBVIOUS
      <3> QED BY <3>1, MoneyAssumption, FS_Subset DEF MoneyAssumption
    <2>2. \A w \in DOMAIN bill : bill[w] \in Int
      <3>1. AnswerCosts \cup {0} \subseteq Int
        BY MoneyAssumption DEF MoneyAssumption
      <3> QED
        BY <1>1, <3>1
    <2>3. \A w \in Worker : cost[w] \in Int
      BY DEF AccountInv, Ledgered
    <2>4. SumOf(bill, DOMAIN bill) \in Int /\ SumOf(cost, Worker) \in Int
      BY <2>1, <2>2, <2>3, SumInt
    <2> QED
      BY <1>1, <2>4
  <1>3. /\ spend' = spend /\ made' = made /\ crashes' = crashes + 1
        /\ cost' = [w \in Worker |-> 0]
    BY DEF Crash
  <1>4. Ledgered'
    BY <1>2, <1>3 DEF AccountInv, Ledgered
  <1>5. CostInFlight'
    BY <1>3 DEF CostInFlight
  <1>6. ChargedOnce'
    <2>1. ASSUME NEW r \in spend PROVE Past(r)'
      <3>1. r.id[3] \in Int /\ crashes \in Int /\ (r.id[3] < crashes \/ r.id[3] = crashes)
        BY DEF AccountInv, ChargedOnce, Past, Ledgered, SpendRecord
      <3> QED
        BY <1>3, <3>1 DEF Past
    <2> QED
      BY <1>3, <2>1 DEF ChargedOnce
  <1>7. BilledIsAccounted'
    <2>1. SumOf(cost', Worker) = 0
      <3>1. \A w \in Worker : cost'[w] \in 0 .. 0
        BY <1>3
      <3>2. {} \in SUBSET Worker /\ 0 * 0 = 0 /\ Cardinality({}) = 0 /\ IsFiniteSet(Worker)
        BY FS_EmptySet, MoneyAssumption DEF MoneyAssumption
      <3>3. SumOf(cost', Worker) \in 0 .. 0 * Cardinality({})
        BY <1>3, <3>1, <3>2, SumBounded
      <3> QED
        BY <3>2, <3>3
    <2>2. Total(spend)' = Total(spend) /\ Total(spend) \in Int
      BY <1>3, TotalNat DEF AccountInv, Ledgered, SpendRecord
    <2>3. billed = Total(spend) + i + unrecorded /\ billed \in Int /\ unrecorded \in Int
      BY <1>2 DEF AccountInv, BilledIsAccounted, SumOf, Ledgered
    <2>4. billed' = Total(spend)' + SumOf(cost', Worker) + unrecorded'
      BY <1>2, <2>1, <2>2, <2>3
    <2> QED
      BY <2>4 DEF BilledIsAccounted, SumOf, MapThenSumSet, MapThenFoldSet
  <1> QED
    BY <1>4, <1>5, <1>6, <1>7 DEF AccountInv

(* budget-reset removes the ledger, and what it had recorded is accounted  *)
(* as unrecorded.                                                          *)
LEMMA ResetAccounted ==
  ASSUME AccountInv, AttributionInv', BudgetReset
  PROVE  AccountInv'
PROOF
  <1>1. /\ spend' = {} /\ unrecorded' = unrecorded + Total(spend)
        /\ UNCHANGED <<pc, made, cost, billed, crashes>>
    BY DEF BudgetReset, workerVars
  <1>2. Total(spend) \in Int /\ Total(spend)' = 0
    BY <1>1, TotalNat, TotalEmpty DEF AccountInv, Ledgered, SpendRecord
  <1>3. Ledgered' /\ CostInFlight' /\ ChargedOnce'
    BY <1>1, <1>2, FS_EmptySet DEF AccountInv, Ledgered, CostInFlight, ChargedOnce
  <1>4. BilledIsAccounted'
    <2>1. PICK i \in Int : i = SumOf(cost, Worker)
      BY SumInt, MoneyAssumption DEF AccountInv, Ledgered, MoneyAssumption
    <2>2. billed = Total(spend) + i + unrecorded /\ billed \in Int /\ unrecorded \in Int
      BY <2>1 DEF AccountInv, BilledIsAccounted, SumOf, Ledgered
    <2>3. billed' = Total(spend)' + SumOf(cost', Worker) + unrecorded'
      BY <1>1, <1>2, <2>1, <2>2
    <2> QED
      BY <2>3 DEF BilledIsAccounted, SumOf, MapThenSumSet, MapThenFoldSet
  <1> QED
    BY <1>3, <1>4 DEF AccountInv

(* The account is inductive.                                               *)
LEMMA AccountStep == AccountInv /\ [Next]_vars => AccountInv'
PROOF
  <1> SUFFICES ASSUME AccountInv, [Next]_vars PROVE AccountInv'
    OBVIOUS
  <1>0. AttributionInv'
    BY AttributionStep DEF AccountInv
  <1>1. ASSUME NEW w \in Worker, NEW k \in Key, Step(w, k) PROVE AccountInv'
    <2>1. /\ pc \in [Worker -> Steps] /\ made \in [Worker -> Int] /\ cost \in [Worker -> Nat]
          /\ billed \in Int /\ unrecorded \in Int
          /\ pc[w] \in Unanswered => cost[w] = 0
      BY DEF AccountInv, AttributionInv, Located, Ledgered, CostInFlight
    <2> DEFINE Quiet(step) ==
          /\ Goto(w, step) /\ step \in Steps /\ pc[w] # "release"
          /\ UNCHANGED <<spend, crashes, made, billed, unrecorded>>
          /\ cost' \in [Worker -> Nat] /\ \A v \in Worker : cost'[v] = cost[v]
          /\ step \in Unanswered => cost[w] = 0
    <2>2. ASSUME NEW step, Quiet(step) PROVE AccountInv'
      <3>1. billed' - billed = (cost'[w] - cost[w]) + (unrecorded' - unrecorded)
        BY <2>1, <2>2
      <3> QED
        BY <1>0, <2>1, <2>2, <3>1, AccountKept
    <2>3. CASE LookUp(w, k)
      <3>1. cost' = cost
        BY <2>1, <2>3 DEF LookUp, Unanswered
      <3>2. PICK step \in {"log", "release", "read_ledger"} : Goto(w, step)
        BY <2>3 DEF LookUp
      <3>3. Quiet(step)
        BY <2>1, <2>3, <3>1, <3>2 DEF LookUp, Steps, Unanswered, logs, faults, money
      <3> HIDE DEF Quiet
      <3> QED
        BY <2>2, <3>3
    <2>4. CASE ReadLedger(w)
      <3>1. Quiet("reserve")
        BY <2>1, <2>4 DEF ReadLedger, Steps, Unanswered, logs, faults, money
      <3> HIDE DEF Quiet
      <3> QED BY <2>2, <3>1
    <2>5. CASE LedgerUnreadable(w)
      <3>1. Quiet("log")
        BY <2>1, <2>5 DEF LedgerUnreadable, Steps, Unanswered, logs, faults, money
      <3> HIDE DEF Quiet
      <3> QED BY <2>2, <3>1
    <2>6. CASE Reserve(w)
      <3>1. Quiet("send")
        BY <2>1, <2>6 DEF Reserve, Steps, Unanswered, logs, faults, money
      <3> HIDE DEF Quiet
      <3> QED BY <2>2, <3>1
    <2>7. CASE Refuse(w)
      <3>1. Quiet("log")
        BY <2>1, <2>7 DEF Refuse, Steps, Unanswered, logs, faults, money
      <3> HIDE DEF Quiet
      <3> QED BY <2>2, <3>1
    <2>8. CASE Answer(w)
      <3>1. PICK c \in AnswerCosts : cost' = [cost EXCEPT ![w] = c] /\ billed' = billed + c
        BY <2>8 DEF Answer, Answered
      <3>2. PICK step \in {"put", "log"} : Goto(w, step)
        BY <2>8 DEF Answer, Answered
      <3>3. c \in Nat /\ cost[w] = 0 /\ pc[w] = "send"
        BY <2>1, <2>8, MoneyAssumption DEF Answer, Answered, MoneyAssumption, Unanswered
      <3>4. UNCHANGED <<spend, crashes, made, unrecorded>>
        BY <2>8 DEF Answer, Answered, logs, faults
      <3>5. /\ cost' \in [Worker -> Nat] /\ cost'[w] = c
            /\ \A v \in Worker : v # w => cost'[v] = cost[v]
        BY <2>1, <3>1, <3>3
      <3>6. /\ billed' \in Int /\ unrecorded' \in Int
            /\ billed' - billed = (cost'[w] - cost[w]) + (unrecorded' - unrecorded)
        BY <2>1, <3>1, <3>3, <3>4, <3>5
      <3> QED
        BY <1>0, <3>2, <3>3, <3>4, <3>5, <3>6, AccountKept DEF Steps, Unanswered
    <2>9. CASE NoAnswer(w)
      <3>1. PICK c \in Int : billed' = billed + c /\ unrecorded' = unrecorded + c
        BY <2>9, MoneyAssumption DEF NoAnswer, MoneyAssumption
      <3>2. UNCHANGED <<spend, crashes, made, cost>> /\ Goto(w, "log") /\ pc[w] = "send"
        BY <2>9 DEF NoAnswer, logs, faults
      <3>3. /\ billed' \in Int /\ unrecorded' \in Int /\ cost' \in [Worker -> Nat]
            /\ billed' - billed = (cost'[w] - cost[w]) + (unrecorded' - unrecorded)
        BY <2>1, <3>1, <3>2
      <3> QED
        BY <1>0, <3>2, <3>3, AccountKept DEF Steps, Unanswered
    <2>10. CASE TruncateEntry(w)
      <3>1. Quiet("fill")
        BY <2>1, <2>10 DEF TruncateEntry, Steps, Unanswered, logs, faults, money
      <3> HIDE DEF Quiet
      <3> QED BY <2>2, <3>1
    <2>11. CASE FillEntry(w)
      <3>1. Quiet("log")
        BY <2>1, <2>11 DEF FillEntry, Steps, Unanswered, logs, faults, money
      <3> HIDE DEF Quiet
      <3> QED BY <2>2, <3>1
    <2>12. CASE AppendCall(w)
      <3>1. Quiet("log_run")
        BY <2>1, <2>12 DEF AppendCall, LogCall, Steps, Unanswered, logs, faults, money
      <3> HIDE DEF Quiet
      <3> QED BY <2>2, <3>1
    <2>13. CASE AppendRun(w)
      <3>1. Quiet("spend")
        BY <2>1, <2>13 DEF AppendRun, Steps, Unanswered, logs, faults, money
      <3> HIDE DEF Quiet
      <3> QED BY <2>2, <3>1
    <2>14. CASE AppendSpend(w)
      BY <1>0, <2>14, AccountRecorded
    <2>15. CASE DiskFails(w)
      <3>1. PICK step \in {"log", "release"} : Goto(w, step)
        BY <2>15 DEF DiskFails
      <3>2. /\ UNCHANGED <<spend, crashes, made, billed>> /\ pc[w] # "release"
            /\ unrecorded' = unrecorded + cost[w] /\ cost' = [cost EXCEPT ![w] = 0]
        BY <2>15 DEF DiskFails, UsesDisk
      <3>3. /\ cost' \in [Worker -> Nat] /\ cost'[w] = 0
            /\ \A v \in Worker : v # w => cost'[v] = cost[v]
        BY <2>1, <3>2
      <3>4. /\ billed' \in Int /\ unrecorded' \in Int
            /\ billed' - billed = (cost'[w] - cost[w]) + (unrecorded' - unrecorded)
        BY <2>1, <3>2, <3>3
      <3> QED
        BY <1>0, <3>1, <3>2, <3>3, <3>4, AccountKept DEF Steps
    <2>16. CASE Release(w)
      <3>1. /\ UNCHANGED <<spend, crashes, cost, billed, unrecorded>> /\ Goto(w, "lookup")
            /\ pc[w] = "release" /\ made' = [made EXCEPT ![w] = @ + 1]
        BY <2>16 DEF Release, logs, faults, money
      <3>2. /\ made'[w] = made[w] + 1 /\ \A v \in Worker : v # w => made'[v] = made[v]
            /\ cost'[w] = 0 /\ cost' \in [Worker -> Nat]
        BY <2>1, <3>1 DEF Unanswered
      <3>3. /\ billed' \in Int /\ unrecorded' \in Int
            /\ billed' - billed = (cost'[w] - cost[w]) + (unrecorded' - unrecorded)
        BY <2>1, <3>1
      <3> QED
        BY <1>0, <3>1, <3>2, <3>3, AccountKept DEF Steps
    <2> HIDE DEF Quiet
    <2> QED
      BY <1>1, <2>3, <2>4, <2>5, <2>6, <2>7, <2>8, <2>9, <2>10, <2>11, <2>12, <2>13, <2>14,
         <2>15, <2>16 DEF Step
  <1>2. CASE Crash
    BY <1>0, <1>2, CrashAccounted
  <1>3. CASE BudgetReset
    BY <1>0, <1>3, ResetAccounted
  <1>4. CASE UNCHANGED vars
    <2>1. UNCHANGED <<pc, made, cost, spend, billed, unrecorded, crashes>>
      BY <1>4 DEF vars, workerVars, logs, money, faults
    <2>2. Ledgered' /\ CostInFlight' /\ ChargedOnce'
      BY <2>1 DEF AccountInv, Ledgered, CostInFlight, ChargedOnce, Past
    <2>3. BilledIsAccounted'
      BY <2>1 DEF AccountInv, BilledIsAccounted, Total, MapThenSumSet, MapThenFoldSet
    <2> QED
      BY <1>0, <2>2, <2>3 DEF AccountInv
  <1> QED
    BY <1>1, <1>2, <1>3, <1>4 DEF Next

(* No call has a cost, and no ledger a record, at the start.               *)
LEMMA AccountInit == Init => AccountInv
PROOF
  <1> SUFFICES ASSUME Init PROVE AccountInv
    OBVIOUS
  <1>1. AttributionInv
    BY AttributionInit
  <1>2. Ledgered /\ CostInFlight /\ ChargedOnce
    BY FS_EmptySet DEF Init, Ledgered, CostInFlight, ChargedOnce
  <1>3. BilledIsAccounted
    <2>1. \A w \in Worker : cost[w] \in 0 .. 0 /\ cost[w] = 0
      BY DEF Init
    <2>2. {} \in SUBSET Worker /\ 0 * 0 = 0 /\ Cardinality({}) = 0 /\ IsFiniteSet(Worker)
      BY FS_EmptySet, MoneyAssumption DEF MoneyAssumption
    <2>3. SumOf(cost, Worker) \in 0 .. 0 * Cardinality({})
      BY <2>1, <2>2, SumBounded
    <2>4. Total(spend) = 0
      BY TotalEmpty DEF Init
    <2>5. billed = Total(spend) + SumOf(cost, Worker) + unrecorded
      BY <2>2, <2>3, <2>4 DEF Init
    <2> QED
      BY <2>5 DEF BilledIsAccounted, SumOf
  <1> QED
    BY <1>1, <1>2, <1>3 DEF AccountInv

(* Whatever fails, every unit the provider charged is recorded once, on    *)
(* its way to the ledger, or known to be lost (record_call, BudgetStore).  *)
THEOREM BilledAccounted == Spec => []BilledIsAccounted
PROOF
  <1>1. AccountInv => BilledIsAccounted
    BY DEF AccountInv
  <1> QED
    BY <1>1, AccountInit, AccountStep, PTL DEF Spec

-----------------------------------------------------------------------------
(* Losses.  A line cut short takes one further record with it, and does so *)
(* once: till then it stands for one record that may be missing.           *)
HalfLine(lines) == IF lines = "half_line" THEN 1 ELSE 0
CallsAt(steps) == {CallId(w) : w \in {v \in Worker : pc[v] \in steps}}

MissingCalls == (Charged \cup CallsAt({"log_run", "spend"})) \ callLog
MissingRuns == (Charged \cup CallsAt({"spend"})) \ runLog
LossLimit == 2 * failures + (Cardinality(Worker) + 1) * crashes

LossInv ==
  /\ AccountInv /\ failures \in Nat /\ IsFiniteSet(answered)
  /\ Cardinality(MissingCalls) + HalfLine(callLines) <= failures + crashes
  /\ Cardinality(MissingRuns) + HalfLine(runLines) <= failures
  /\ Cardinality(Lost) + HalfLine(ledger) <= LossLimit

(* What a function makes of a finite set has no more elements.             *)
LEMMA ImageFinite ==
  ASSUME NEW S, IsFiniteSet(S), NEW f, DOMAIN f = S, f = [x \in S |-> f[x]]
  PROVE  IsFiniteSet({f[x] : x \in S}) /\ Cardinality({f[x] : x \in S}) <= Cardinality(S)
PROOF
  <1> DEFINE T == {f[x] : x \in S}
  <1>1. f \in Surjection(S, T)
    BY DEF Surjection
  <1> HIDE DEF T
  <1>2. IsFiniteSet(T) /\ Cardinality(T) <= Cardinality(S)
    BY <1>1, FS_Surjection
  <1> QED
    BY <1>2 DEF T

(* All of these sets are finite.                                           *)
LEMMA LossesFinite ==
  ASSUME AccountInv
  PROVE  /\ IsFiniteSet(Charged) /\ IsFiniteSet(MissingCalls) /\ IsFiniteSet(MissingRuns)
         /\ IsFiniteSet({CallId(w) : w \in Worker})
         /\ Cardinality({CallId(w) : w \in Worker}) <= Cardinality(Worker)
PROOF
  <1>1. IsFiniteSet(Charged)
    <2> DEFINE f == [r \in spend |-> r.id]
    <2>1. IsFiniteSet(spend) /\ DOMAIN f = spend /\ f = [r \in spend |-> f[r]]
      BY DEF AccountInv, Ledgered
    <2>2. Charged = {f[r] : r \in spend}
      BY DEF Charged
    <2> HIDE DEF f
    <2> QED
      BY <2>1, <2>2, ImageFinite
  <1>2. /\ IsFiniteSet({CallId(w) : w \in Worker})
        /\ Cardinality({CallId(w) : w \in Worker}) <= Cardinality(Worker)
    <2> DEFINE f == [w \in Worker |-> CallId(w)]
    <2>1. IsFiniteSet(Worker) /\ DOMAIN f = Worker /\ f = [w \in Worker |-> f[w]]
      BY MoneyAssumption DEF MoneyAssumption
    <2>2. {CallId(w) : w \in Worker} = {f[w] : w \in Worker}
      OBVIOUS
    <2> HIDE DEF f
    <2> QED
      BY <2>1, <2>2, ImageFinite
  <1>3. IsFiniteSet(Charged \cup {CallId(w) : w \in Worker})
    BY <1>1, <1>2, FS_Union
  <1>4. /\ MissingCalls \subseteq Charged \cup {CallId(w) : w \in Worker}
        /\ MissingRuns \subseteq Charged \cup {CallId(w) : w \in Worker}
    BY DEF MissingCalls, MissingRuns, CallsAt
  <1> QED
    BY <1>1, <1>2, <1>3, <1>4, FS_Subset

(* A set that gains no more than what pays for it.                         *)
LEMMA LossGrows ==
  ASSUME NEW S, IsFiniteSet(S), NEW B, IsFiniteSet(B), NEW T \in SUBSET (S \cup B),
         NEW a \in Int, NEW b \in Int, NEW m \in Int, NEW n \in Int,
         Cardinality(S) + a <= m, Cardinality(B) + b - a <= n - m
  PROVE  IsFiniteSet(T) /\ Cardinality(T) + b <= n
PROOF
  <1>1. /\ IsFiniteSet(S \cup B) /\ IsFiniteSet(S \cap B)
        /\ Cardinality(S \cup B) = Cardinality(S) + Cardinality(B) - Cardinality(S \cap B)
    BY FS_Union, FS_Intersection
  <1>2. IsFiniteSet(T) /\ Cardinality(T) <= Cardinality(S \cup B)
    BY <1>1, FS_Subset
  <1>3. /\ Cardinality(S) \in Nat /\ Cardinality(B) \in Nat /\ Cardinality(S \cap B) \in Nat
        /\ Cardinality(T) \in Nat
    BY <1>1, <1>2, FS_CardinalityType
  <1> QED
    BY <1>1, <1>2, <1>3

(* It may gain one element for a half line less, or for a fault more, and  *)
(* none at the same price.                                                 *)
LEMMA LossByOne ==
  ASSUME NEW S, IsFiniteSet(S), NEW x, NEW T, NEW a \in Int, NEW b \in Int, NEW m \in Int,
         NEW n \in Int, Cardinality(S) + a <= m,
         \/ T \subseteq S /\ b - a <= n - m
         \/ T \subseteq S \cup {x} /\ 1 + b - a <= n - m
  PROVE  IsFiniteSet(T) /\ Cardinality(T) + b <= n
PROOF
  <1>1. IsFiniteSet({}) /\ Cardinality({}) = 0 /\ IsFiniteSet({x}) /\ Cardinality({x}) = 1
    BY FS_EmptySet, FS_Singleton
  <1>2. CASE T \subseteq S /\ b - a <= n - m
    <2>1. T \in SUBSET (S \cup {}) /\ Cardinality({}) + b - a <= n - m
      BY <1>1, <1>2
    <2> QED
      BY <1>1, <2>1, LossGrows
  <1>3. CASE T \subseteq S \cup {x} /\ 1 + b - a <= n - m
    <2>1. T \in SUBSET (S \cup {x}) /\ Cardinality({x}) + b - a <= n - m
      BY <1>1, <1>3
    <2> QED
      BY <1>1, <2>1, LossGrows
  <1> QED
    BY <1>2, <1>3

(* The limits are integers, and a half line is one loss.                   *)
LEMMA LossTypes ==
  ASSUME LossInv
  PROVE  /\ failures \in Nat /\ crashes \in Nat /\ LossLimit \in Int
         /\ Cardinality(Worker) \in Nat /\ \A lines : HalfLine(lines) \in {0, 1}
         /\ IsFiniteSet(Lost) /\ IsFiniteSet(MissingCalls) /\ IsFiniteSet(MissingRuns)
PROOF
  <1>1. failures \in Nat /\ crashes \in Nat /\ Cardinality(Worker) \in Nat
    BY MoneyAssumption, FS_CardinalityType
    DEF LossInv, AccountInv, AttributionInv, Dated, MoneyAssumption
  <1>2. 2 * failures + (Cardinality(Worker) + 1) * crashes \in Int
    BY <1>1
  <1>3. IsFiniteSet(Lost)
    <2>1. Lost \in SUBSET answered /\ IsFiniteSet(answered)
      BY DEF LossInv, Lost
    <2> QED
      BY <2>1, FS_Subset
  <1>4. IsFiniteSet(MissingCalls) /\ IsFiniteSet(MissingRuns)
    BY LossesFinite DEF LossInv
  <1> QED
    BY <1>1, <1>2, <1>3, <1>4 DEF LossLimit, HalfLine

(* A step of worker w that appends nothing.                                *)
Quiet(w, step) ==
  /\ Goto(w, step) /\ step \in Steps \ {"log_run", "spend"}
  /\ UNCHANGED <<callLog, callLines, runLog, runLines, spend, ledger, failures, crashes>>
  /\ \A v \in Worker : v # w => made'[v] = made[v]
  /\ pc[w] \in Recording => step \in Recording /\ made'[w] = made[w]
  /\ \/ answered' = answered
     \/ answered' = answered \cup {CallId(w)} /\ step \in Recording /\ made'[w] = made[w]

LEMMA QuietLosesNothing ==
  ASSUME LossInv, AccountInv', NEW w \in Worker, NEW step, Quiet(w, step)
  PROVE  LossInv'
PROOF
  <1>1. pc \in [Worker -> Steps] /\ pc' = [pc EXCEPT ![w] = step] /\ Charged' = Charged
    BY DEF LossInv, AccountInv, AttributionInv, Located, Quiet, Goto, Charged
  <1>2. /\ CallsAt({"log_run", "spend"})' \subseteq CallsAt({"log_run", "spend"})
        /\ CallsAt({"spend"})' \subseteq CallsAt({"spend"})
    BY <1>1 DEF Quiet, CallsAt, CallId
  <1>3. MissingCalls' \subseteq MissingCalls /\ MissingRuns' \subseteq MissingRuns
    BY <1>1, <1>2 DEF MissingCalls, MissingRuns, Quiet
  <1>4. Lost' \subseteq Lost
    <2> SUFFICES ASSUME NEW x \in Lost' PROVE x \in Lost
      OBVIOUS
    <2>1. /\ x \in answered' /\ x \notin Charged
          /\ \A v \in Worker : pc'[v] \in Recording => x # CallId(v)'
      BY <1>1 DEF Lost
    <2>2. \A v \in Worker : pc[v] \in Recording => /\ pc'[v] \in Recording
                                                   /\ CallId(v)' = CallId(v)
      BY <1>1 DEF Quiet, CallId
    <2>3. x \in answered
      BY <1>1, <2>1 DEF Quiet, CallId
    <2> QED
      BY <2>1, <2>2, <2>3 DEF Lost
  <1>5. IsFiniteSet(answered')
    BY FS_AddElement DEF LossInv, Quiet
  <1>6. /\ Cardinality(MissingCalls)' <= Cardinality(MissingCalls)
        /\ Cardinality(MissingRuns)' <= Cardinality(MissingRuns)
        /\ Cardinality(Lost)' <= Cardinality(Lost)
    BY <1>3, <1>4, LossTypes, FS_Subset
  <1>7. /\ Cardinality(MissingCalls)' \in Nat /\ Cardinality(MissingCalls) \in Nat
        /\ Cardinality(MissingRuns)' \in Nat /\ Cardinality(MissingRuns) \in Nat
        /\ Cardinality(Lost)' \in Nat /\ Cardinality(Lost) \in Nat
    BY <1>3, <1>4, LossTypes, FS_Subset, FS_CardinalityType
  <1>8. /\ failures' = failures /\ crashes' = crashes /\ LossLimit' = LossLimit
        /\ HalfLine(callLines)' = HalfLine(callLines) /\ HalfLine(runLines)' = HalfLine(runLines)
        /\ HalfLine(ledger)' = HalfLine(ledger)
    BY DEF Quiet, LossLimit, HalfLine
  <1> QED
    BY <1>5, <1>6, <1>7, <1>8, LossTypes DEF LossInv

(* A record goes to a log, or is lost with the half line before it.        *)
LEMMA CallMayBeMissing ==
  ASSUME LossInv, AccountInv', NEW w \in Worker, AppendCall(w)
  PROVE  LossInv'
PROOF
  <1>1. /\ pc \in [Worker -> Steps] /\ pc[w] = "log" /\ pc' = [pc EXCEPT ![w] = "log_run"]
        /\ callLines' = Behind(callLines)
        /\ callLog' = IF OwnLine(callLines) THEN callLog \cup {CallId(w)} ELSE callLog
        /\ UNCHANGED <<made, runLog, runLines, spend, ledger, answered, failures, crashes>>
    BY DEF AppendCall, LogCall, Goto, money, faults, LossInv, AccountInv, AttributionInv, Located
  <1>2. Charged' = Charged /\ \A v \in Worker : CallId(v)' = CallId(v)
    BY <1>1 DEF Charged, CallId
  <1>3. CallsAt({"log_run", "spend"})' \subseteq CallsAt({"log_run", "spend"}) \cup {CallId(w)}
    BY <1>1, <1>2 DEF CallsAt
  <1>4. MissingRuns' = MissingRuns
    <2>1. CallsAt({"spend"})' = CallsAt({"spend"})
      BY <1>1, <1>2 DEF CallsAt
    <2> QED
      BY <1>1, <1>2, <2>1 DEF MissingRuns
  <1>5. Lost' = Lost
    <2>1. {v \in Worker : pc'[v] \in Recording} = {v \in Worker : pc[v] \in Recording}
      BY <1>1 DEF Recording
    <2>2. {CallId(v)' : v \in {v \in Worker : pc'[v] \in Recording}}
            = {CallId(v) : v \in {v \in Worker : pc[v] \in Recording}}
      BY <1>2, <2>1
    <2> QED
      BY <1>1, <1>2, <2>2 DEF Lost
  <1>6. \/ MissingCalls' \subseteq MissingCalls /\ HalfLine(callLines') - HalfLine(callLines) <= 0
        \/ /\ MissingCalls' \subseteq MissingCalls \cup {CallId(w)}
           /\ 1 + HalfLine(callLines') - HalfLine(callLines) <= 0
    <2>1. CASE callLines = "half_line"
      <3>1. HalfLine(callLines') = 0 /\ HalfLine(callLines) = 1
        BY <1>1, <2>1 DEF HalfLine, Behind
      <3>2. MissingCalls' \subseteq MissingCalls \cup {CallId(w)}
        BY <1>1, <1>2, <1>3, <2>1 DEF MissingCalls, OwnLine
      <3> QED
        BY <3>1, <3>2
    <2>2. CASE callLines # "half_line"
      <3>1. HalfLine(callLines') = 0 /\ HalfLine(callLines) = 0
        BY <1>1, <2>2 DEF HalfLine, Behind
      <3>2. MissingCalls' \subseteq MissingCalls
        BY <1>1, <1>2, <1>3, <2>2 DEF MissingCalls, OwnLine
      <3> QED
        BY <3>1, <3>2
    <2> QED
      BY <2>1, <2>2
  <1>7. Cardinality(MissingCalls') + HalfLine(callLines') <= failures + crashes
    <2>1. /\ HalfLine(callLines) \in Int /\ HalfLine(callLines') \in Int
          /\ failures + crashes \in Int /\ (failures + crashes) - (failures + crashes) = 0
      BY LossTypes
    <2>2. Cardinality(MissingCalls) + HalfLine(callLines) <= failures + crashes
      BY DEF LossInv
    <2> QED
      BY <1>6, <2>1, <2>2, LossTypes, LossByOne
  <1> QED
    BY <1>1, <1>4, <1>5, <1>7 DEF LossInv, LossLimit, HalfLine

LEMMA RunMayBeMissing ==
  ASSUME LossInv, AccountInv', NEW w \in Worker, AppendRun(w)
  PROVE  LossInv'
PROOF
  <1>1. /\ pc \in [Worker -> Steps] /\ pc[w] = "log_run" /\ pc' = [pc EXCEPT ![w] = "spend"]
        /\ runLines' = Behind(runLines)
        /\ runLog' = IF OwnLine(runLines) THEN runLog \cup {CallId(w)} ELSE runLog
        /\ UNCHANGED <<made, callLog, callLines, spend, ledger, answered, failures, crashes>>
    BY DEF AppendRun, Goto, money, faults, LossInv, AccountInv, AttributionInv, Located
  <1>2. Charged' = Charged /\ \A v \in Worker : CallId(v)' = CallId(v)
    BY <1>1 DEF Charged, CallId
  <1>3. CallsAt({"spend"})' \subseteq CallsAt({"spend"}) \cup {CallId(w)}
    BY <1>1, <1>2 DEF CallsAt
  <1>4. MissingCalls' = MissingCalls
    <2>1. CallsAt({"log_run", "spend"})' = CallsAt({"log_run", "spend"})
      BY <1>1, <1>2 DEF CallsAt
    <2> QED
      BY <1>1, <1>2, <2>1 DEF MissingCalls
  <1>5. Lost' = Lost
    <2>1. {v \in Worker : pc'[v] \in Recording} = {v \in Worker : pc[v] \in Recording}
      BY <1>1 DEF Recording
    <2>2. {CallId(v)' : v \in {v \in Worker : pc'[v] \in Recording}}
            = {CallId(v) : v \in {v \in Worker : pc[v] \in Recording}}
      BY <1>2, <2>1
    <2> QED
      BY <1>1, <1>2, <2>2 DEF Lost
  <1>6. \/ MissingRuns' \subseteq MissingRuns /\ HalfLine(runLines') - HalfLine(runLines) <= 0
        \/ /\ MissingRuns' \subseteq MissingRuns \cup {CallId(w)}
           /\ 1 + HalfLine(runLines') - HalfLine(runLines) <= 0
    <2>1. CASE runLines = "half_line"
      <3>1. HalfLine(runLines') = 0 /\ HalfLine(runLines) = 1
        BY <1>1, <2>1 DEF HalfLine, Behind
      <3>2. MissingRuns' \subseteq MissingRuns \cup {CallId(w)}
        BY <1>1, <1>2, <1>3, <2>1 DEF MissingRuns, OwnLine
      <3> QED
        BY <3>1, <3>2
    <2>2. CASE runLines # "half_line"
      <3>1. HalfLine(runLines') = 0 /\ HalfLine(runLines) = 0
        BY <1>1, <2>2 DEF HalfLine, Behind
      <3>2. MissingRuns' \subseteq MissingRuns
        BY <1>1, <1>2, <1>3, <2>2 DEF MissingRuns, OwnLine
      <3> QED
        BY <3>1, <3>2
    <2> QED
      BY <2>1, <2>2
  <1>7. Cardinality(MissingRuns') + HalfLine(runLines') <= failures
    <2>1. /\ HalfLine(runLines) \in Int /\ HalfLine(runLines') \in Int
          /\ failures \in Int /\ failures - failures = 0
      BY LossTypes
    <2>2. Cardinality(MissingRuns) + HalfLine(runLines) <= failures
      BY DEF LossInv
    <2> QED
      BY <1>6, <2>1, <2>2, LossTypes, LossByOne
  <1> QED
    BY <1>1, <1>4, <1>5, <1>7 DEF LossInv, LossLimit, HalfLine

(* So is a charge, whose call is not in flight any more.                   *)
LEMMA ChargeMayBeLost ==
  ASSUME LossInv, AccountInv', NEW w \in Worker, AppendSpend(w)
  PROVE  LossInv'
PROOF
  <1> DEFINE r == [id |-> CallId(w), scope |-> ScopeOf[w], cost |-> cost[w]]
  <1>1. /\ pc \in [Worker -> Steps] /\ pc[w] = "spend" /\ pc' = [pc EXCEPT ![w] = "release"]
        /\ ledger' = Behind(ledger)
        /\ spend' = IF OwnLine(ledger) THEN spend \cup {r} ELSE spend
        /\ UNCHANGED <<made, callLog, callLines, runLog, runLines, answered, failures, crashes>>
    BY DEF AppendSpend, Goto, money, faults, LossInv, AccountInv, AttributionInv, Located
  <1>2. /\ Charged \subseteq Charged' /\ Charged' \subseteq Charged \cup {CallId(w)}
        /\ OwnLine(ledger) => CallId(w) \in Charged'
        /\ \A v \in Worker : CallId(v)' = CallId(v)
    <2>1. Charged' = {q.id : q \in spend'}
      BY DEF Charged
    <2>2. CASE OwnLine(ledger)
      <3>1. spend' = spend \cup {r} /\ r.id = CallId(w)
        BY <1>1, <2>2
      <3> HIDE DEF r
      <3> QED
        BY <1>1, <2>1, <3>1 DEF Charged, CallId
    <2>3. CASE ~OwnLine(ledger)
      BY <1>1, <2>1, <2>3 DEF Charged, CallId
    <2> QED
      BY <2>2, <2>3
  <1> HIDE DEF r
  <1>3. /\ CallsAt({"log_run", "spend"})' \subseteq CallsAt({"log_run", "spend"})
        /\ CallsAt({"spend"})' \subseteq CallsAt({"spend"})
        /\ CallId(w) \in CallsAt({"spend"}) /\ CallId(w) \in CallsAt({"log_run", "spend"})
    BY <1>1, <1>2 DEF CallsAt
  <1>4. MissingCalls' \subseteq MissingCalls /\ MissingRuns' \subseteq MissingRuns
    BY <1>1, <1>2, <1>3 DEF MissingCalls, MissingRuns
  <1>5. /\ Cardinality(MissingCalls') + HalfLine(callLines') <= failures + crashes
        /\ Cardinality(MissingRuns') + HalfLine(runLines') <= failures
    <2>1. /\ HalfLine(callLines) \in Int /\ HalfLine(runLines) \in Int
          /\ failures + crashes \in Int /\ failures \in Int
          /\ HalfLine(callLines) - HalfLine(callLines) <= (failures + crashes) - (failures + crashes)
          /\ HalfLine(runLines) - HalfLine(runLines) <= failures - failures
      BY LossTypes
    <2>2. /\ Cardinality(MissingCalls) + HalfLine(callLines) <= failures + crashes
          /\ Cardinality(MissingRuns) + HalfLine(runLines) <= failures
      BY DEF LossInv
    <2>3. Cardinality(MissingCalls') + HalfLine(callLines) <= failures + crashes
      BY <1>4, <2>1, <2>2, LossTypes, LossByOne
    <2>4. Cardinality(MissingRuns') + HalfLine(runLines) <= failures
      BY <1>4, <2>1, <2>2, LossTypes, LossByOne
    <2> QED
      BY <1>1, <2>3, <2>4
  <1>6. Lost' \subseteq (IF OwnLine(ledger) THEN Lost ELSE Lost \cup {CallId(w)})
    <2> SUFFICES ASSUME NEW x \in Lost'
                 PROVE  x \in Lost \/ (~OwnLine(ledger) /\ x = CallId(w))
      OBVIOUS
    <2>1. /\ x \in answered /\ x \notin Charged'
          /\ \A v \in Worker : pc'[v] \in Recording => x # CallId(v)
      BY <1>1, <1>2 DEF Lost
    <2>2. \A v \in Worker : v # w => pc'[v] = pc[v]
      BY <1>1
    <2> QED
      BY <1>2, <2>1, <2>2 DEF Lost
  <1>7. Cardinality(Lost') + HalfLine(ledger') <= LossLimit
    <2>1. /\ HalfLine(ledger) \in Int /\ HalfLine(ledger') \in Int
          /\ LossLimit \in Int /\ LossLimit - LossLimit = 0
      BY LossTypes
    <2>2. \/ Lost' \subseteq Lost /\ HalfLine(ledger') - HalfLine(ledger) <= 0
          \/ Lost' \subseteq Lost \cup {CallId(w)} /\ 1 + HalfLine(ledger') - HalfLine(ledger) <= 0
      <3>1. CASE OwnLine(ledger)
        <4>1. HalfLine(ledger') = 0 /\ HalfLine(ledger) = 0
          BY <1>1, <3>1 DEF HalfLine, Behind, OwnLine
        <4> QED
          BY <1>6, <3>1, <4>1
      <3>2. CASE ~OwnLine(ledger)
        <4>1. HalfLine(ledger') = 0 /\ HalfLine(ledger) = 1
          BY <1>1, <3>2 DEF HalfLine, Behind, OwnLine
        <4> QED
          BY <1>6, <3>2, <4>1
      <3> QED
        BY <3>1, <3>2
    <2>3. Cardinality(Lost) + HalfLine(ledger) <= LossLimit
      BY DEF LossInv
    <2> QED
      BY <2>1, <2>2, <2>3, LossTypes, LossByOne
  <1> QED
    BY <1>1, <1>5, <1>7 DEF LossInv, LossLimit

(* A disk error loses the call it hits, and may leave one half line.       *)
LEMMA FailureLoses ==
  ASSUME LossInv, AccountInv', NEW w \in Worker, DiskFails(w)
  PROVE  LossInv'
PROOF
  <1>1. /\ pc \in [Worker -> Steps] /\ failures' = failures + 1
        /\ \E step \in {"log", "release"} : pc' = [pc EXCEPT ![w] = step]
        /\ UNCHANGED <<made, callLog, runLog, spend, answered, crashes>>
        /\ callLines' \in {callLines, "half_line"} /\ runLines' \in {runLines, "half_line"}
    BY DEF DiskFails, CutShort, Goto, LossInv, AccountInv, AttributionInv, Located
  <1>2. Charged' = Charged /\ \A v \in Worker : CallId(v)' = CallId(v)
    BY <1>1 DEF Charged, CallId
  <1>3. /\ CallsAt({"log_run", "spend"})' \subseteq CallsAt({"log_run", "spend"})
        /\ CallsAt({"spend"})' \subseteq CallsAt({"spend"})
    BY <1>1, <1>2 DEF CallsAt
  <1>4. MissingCalls' \subseteq MissingCalls /\ MissingRuns' \subseteq MissingRuns
    BY <1>1, <1>2, <1>3 DEF MissingCalls, MissingRuns
  <1>5. Lost' \subseteq Lost \cup {CallId(w)}
    <2> SUFFICES ASSUME NEW x \in Lost', x # CallId(w) PROVE x \in Lost
      OBVIOUS
    <2>1. /\ x \in answered /\ x \notin Charged
          /\ \A v \in Worker : pc'[v] \in Recording => x # CallId(v)
      BY <1>1, <1>2 DEF Lost
    <2>2. \A v \in Worker : v # w => pc'[v] = pc[v]
      BY <1>1
    <2> QED
      BY <2>1, <2>2 DEF Lost
  <1>6. /\ \A l, m : /\ HalfLine(l) - HalfLine(m) <= 1 /\ 1 + HalfLine(l) - HalfLine(m) <= 2
                    /\ HalfLine(l) \in Int
        /\ LossLimit' - LossLimit = 2 /\ LossLimit \in Int /\ LossLimit' \in Int
        /\ failures' - failures = 1 /\ failures \in Int /\ failures' \in Int
        /\ (failures' + crashes) - (failures + crashes) = 1
        /\ failures + crashes \in Int /\ failures' + crashes \in Int
    <2>1. \A l : HalfLine(l) \in {0, 1}
      BY LossTypes
    <2>2. \A l, m : /\ HalfLine(l) - HalfLine(m) <= 1 /\ 1 + HalfLine(l) - HalfLine(m) <= 2
                    /\ HalfLine(l) \in Int
      BY <2>1 DEF HalfLine
    <2>3. PICK c \in Int : c = (Cardinality(Worker) + 1) * crashes
      BY LossTypes
    <2>4. failures \in Nat /\ crashes \in Nat
      BY LossTypes
    <2>5. LossLimit = 2 * failures + c /\ LossLimit' = 2 * (failures + 1) + c
      BY <1>1, <2>3 DEF LossLimit
    <2> QED
      BY <1>1, <2>2, <2>4, <2>5
  <1>7. Cardinality(MissingCalls') + HalfLine(callLines') <= failures' + crashes
    <2>1. Cardinality(MissingCalls) + HalfLine(callLines) <= failures + crashes
      BY DEF LossInv
    <2>2. HalfLine(callLines') - HalfLine(callLines) <= (failures' + crashes) - (failures + crashes)
      BY <1>6
    <2> QED
      BY <1>4, <1>6, <2>1, <2>2, LossTypes, LossByOne
  <1>8. Cardinality(MissingRuns') + HalfLine(runLines') <= failures'
    <2>1. Cardinality(MissingRuns) + HalfLine(runLines) <= failures
      BY DEF LossInv
    <2>2. HalfLine(runLines') - HalfLine(runLines) <= failures' - failures
      BY <1>6
    <2> QED
      BY <1>4, <1>6, <2>1, <2>2, LossTypes, LossByOne
  <1>9. Cardinality(Lost') + HalfLine(ledger') <= LossLimit'
    <2>1. Cardinality(Lost) + HalfLine(ledger) <= LossLimit
      BY DEF LossInv
    <2>2. 1 + HalfLine(ledger') - HalfLine(ledger) <= LossLimit' - LossLimit
      BY <1>6
    <2>3. /\ HalfLine(ledger) \in Int /\ HalfLine(ledger') \in Int
          /\ LossLimit \in Int /\ LossLimit' \in Int
      BY <1>6
    <2> QED
      BY <1>5, <2>1, <2>2, <2>3, LossTypes, LossByOne
  <1>10. failures' \in Nat
    BY <1>1, LossTypes
  <1> QED
    BY <1>1, <1>7, <1>8, <1>9, <1>10 DEF LossInv

(* A crash loses the calls in flight, and may leave a half line in the     *)
(* logs that the run to come shares with the one that died.                *)
LEMMA CrashLoses ==
  ASSUME LossInv, AccountInv', Crash
  PROVE  LossInv'
PROOF
  <1>1. /\ pc' = [w \in Worker |-> "lookup"] /\ crashes' = crashes + 1 /\ runLines' = "whole"
        /\ UNCHANGED <<made, callLog, runLog, spend, answered, failures>>
    BY DEF Crash
  <1>2. Charged' = Charged /\ \A steps : "lookup" \notin steps => CallsAt(steps)' = {}
    BY <1>1 DEF Charged, CallsAt
  <1>3. MissingCalls' \subseteq MissingCalls /\ MissingRuns' \subseteq MissingRuns
    BY <1>1, <1>2 DEF MissingCalls, MissingRuns
  <1>4. Lost' \subseteq Lost \cup {CallId(w) : w \in Worker}
    BY <1>1, <1>2 DEF Lost
  <1>5. /\ \A l, m : /\ HalfLine(l) - HalfLine(m) <= 1 /\ HalfLine(l) \in Int
                    /\ HalfLine("whole") - HalfLine(m) <= 0
        /\ LossLimit' - LossLimit = Cardinality(Worker) + 1
        /\ LossLimit \in Int /\ LossLimit' \in Int /\ Cardinality(Worker) \in Int
        /\ (failures + crashes') - (failures + crashes) = 1
        /\ failures + crashes \in Int /\ failures + crashes' \in Int
        /\ failures \in Int /\ failures - failures = 0
    <2>1. \A l, m : /\ HalfLine(l) - HalfLine(m) <= 1 /\ HalfLine(l) \in Int
                    /\ HalfLine("whole") - HalfLine(m) <= 0
      BY DEF HalfLine
    <2>2. PICK n \in Nat : n = Cardinality(Worker)
      BY LossTypes
    <2>3. failures \in Nat /\ crashes \in Nat
      BY LossTypes
    <2>4. (n + 1) * (crashes + 1) = (n + 1) * crashes + (n + 1) /\ (n + 1) * crashes \in Int
      BY <2>2, <2>3
    <2>5. PICK c \in Int : c = (n + 1) * crashes
      BY <2>4
    <2>6. LossLimit = 2 * failures + c /\ LossLimit' = 2 * failures + (c + (n + 1))
      BY <1>1, <2>2, <2>4, <2>5 DEF LossLimit
    <2> QED
      BY <1>1, <2>1, <2>2, <2>3, <2>6
  <1>6. Cardinality(MissingCalls') + HalfLine(callLines') <= failures + crashes'
    <2>1. Cardinality(MissingCalls) + HalfLine(callLines) <= failures + crashes
      BY DEF LossInv
    <2>2. HalfLine(callLines') - HalfLine(callLines) <= (failures + crashes') - (failures + crashes)
      BY <1>5
    <2> QED
      BY <1>3, <1>5, <2>1, <2>2, LossTypes, LossByOne
  <1>7. Cardinality(MissingRuns') + HalfLine("whole") <= failures
    <2>1. Cardinality(MissingRuns) + HalfLine(runLines) <= failures
      BY DEF LossInv
    <2>2. HalfLine("whole") - HalfLine(runLines) <= failures - failures
      BY <1>5
    <2> QED
      BY <1>3, <1>5, <2>1, <2>2, LossTypes, LossByOne
  <1>8. Cardinality(Lost') + HalfLine(ledger') <= LossLimit'
    <2> DEFINE B == {CallId(w) : w \in Worker}
    <2>1. Cardinality(Lost) + HalfLine(ledger) <= LossLimit
      BY DEF LossInv
    <2>2. IsFiniteSet(B) /\ Cardinality(B) <= Cardinality(Worker) /\ Lost' \in SUBSET (Lost \cup B)
      BY <1>4, LossesFinite DEF LossInv
    <2> HIDE DEF B
    <2>3. Cardinality(B) \in Int
      BY <2>2, FS_CardinalityType
    <2>4. HalfLine(ledger') - HalfLine(ledger) <= 1 /\ HalfLine(ledger) \in Int /\ HalfLine(ledger') \in Int
      BY <1>5
    <2>5. Cardinality(B) + HalfLine(ledger') - HalfLine(ledger) <= LossLimit' - LossLimit
      BY <1>5, <2>2, <2>3, <2>4
    <2>6. LossLimit \in Int /\ LossLimit' \in Int
      BY <1>5
    <2> QED
      BY <2>1, <2>2, <2>4, <2>5, <2>6, LossTypes, LossGrows
  <1> QED
    BY <1>1, <1>6, <1>7, <1>8 DEF LossInv

(* budget-reset takes the charged calls out of every account.              *)
LEMMA ResetLosesNothing ==
  ASSUME LossInv, AccountInv', BudgetReset
  PROVE  LossInv'
PROOF
  <1>1. /\ spend' = {} /\ ledger' = "whole" /\ answered' = answered \ Charged
        /\ UNCHANGED <<pc, made, callLog, callLines, runLog, runLines, failures, crashes>>
    BY DEF BudgetReset, workerVars, Charged
  <1>2. /\ Charged' = {} /\ \A steps : CallsAt(steps)' = CallsAt(steps)
        /\ \A w \in Worker : CallId(w)' = CallId(w)
    BY <1>1 DEF Charged, CallsAt, CallId
  <1>3. MissingCalls' \subseteq MissingCalls /\ MissingRuns' \subseteq MissingRuns
    BY <1>1, <1>2 DEF MissingCalls, MissingRuns
  <1>4. Lost' \subseteq Lost /\ IsFiniteSet(answered')
    <2>1. IsFiniteSet(answered')
      BY <1>1, FS_Subset DEF LossInv
    <2> QED
      BY <1>1, <1>2, <2>1 DEF Lost
  <1>5. /\ Cardinality(MissingCalls') <= Cardinality(MissingCalls)
        /\ Cardinality(MissingRuns') <= Cardinality(MissingRuns)
        /\ Cardinality(Lost') <= Cardinality(Lost)
    BY <1>3, <1>4, LossTypes, FS_Subset
  <1>6. /\ Cardinality(MissingCalls') \in Nat /\ Cardinality(MissingCalls) \in Nat
        /\ Cardinality(MissingRuns') \in Nat /\ Cardinality(MissingRuns) \in Nat
        /\ Cardinality(Lost') \in Nat /\ Cardinality(Lost) \in Nat
    BY <1>3, <1>4, LossTypes, FS_Subset, FS_CardinalityType
  <1>7. /\ LossLimit' = LossLimit /\ HalfLine(ledger)' <= HalfLine(ledger)
        /\ HalfLine(callLines)' = HalfLine(callLines) /\ HalfLine(runLines)' = HalfLine(runLines)
        /\ HalfLine(ledger) \in Int /\ HalfLine(ledger)' \in Int
    BY <1>1 DEF LossLimit, HalfLine
  <1> QED
    BY <1>1, <1>4, <1>5, <1>6, <1>7, LossTypes DEF LossInv

(* The count of losses is inductive.                                       *)
LEMMA LossStep == LossInv /\ [Next]_vars => LossInv'
PROOF
  <1> SUFFICES ASSUME LossInv, [Next]_vars PROVE LossInv'
    OBVIOUS
  <1>0. AccountInv'
    BY AccountStep DEF LossInv
  <1>1. ASSUME NEW w \in Worker, NEW k \in Key, Step(w, k) PROVE LossInv'
    <2>0. made \in [Worker -> Int]
      BY DEF LossInv, AccountInv, AttributionInv, Located
    <2>1. ASSUME NEW step, Quiet(w, step) PROVE LossInv'
      BY <1>0, <2>1, QuietLosesNothing
    <2>2. CASE LookUp(w, k)
      <3>1. PICK step \in {"log", "release", "read_ledger"} : Goto(w, step)
        BY <2>2 DEF LookUp
      <3>2. Quiet(w, step)
        BY <2>2, <3>1 DEF Quiet, LookUp, Steps, Recording, logs, money, faults
      <3> QED
        BY <2>1, <3>2
    <2>3. CASE ReadLedger(w)
      <3>1. Quiet(w, "reserve")
        BY <2>3 DEF Quiet, ReadLedger, Steps, Recording, logs, money, faults
      <3> QED
        BY <2>1, <3>1
    <2>4. CASE LedgerUnreadable(w)
      <3>1. Quiet(w, "log")
        BY <2>4 DEF Quiet, LedgerUnreadable, Steps, Recording, logs, money, faults
      <3> QED
        BY <2>1, <3>1
    <2>5. CASE Reserve(w)
      <3>1. Quiet(w, "send")
        BY <2>5 DEF Quiet, Reserve, Steps, Recording, logs, money, faults
      <3> QED
        BY <2>1, <3>1
    <2>6. CASE Refuse(w)
      <3>1. Quiet(w, "log")
        BY <2>6 DEF Quiet, Refuse, Steps, Recording, logs, money, faults
      <3> QED
        BY <2>1, <3>1
    <2>7. CASE Answer(w)
      <3>1. PICK step \in {"put", "log"} : Goto(w, step)
        BY <2>7 DEF Answer
      <3>2. Quiet(w, step)
        BY <2>7, <3>1 DEF Quiet, Answer, Answered, Steps, Recording, logs, faults
      <3> QED
        BY <2>1, <3>2
    <2>8. CASE NoAnswer(w)
      <3>1. Quiet(w, "log")
        BY <2>8 DEF Quiet, NoAnswer, Steps, Recording, logs, faults
      <3> QED
        BY <2>1, <3>1
    <2>9. CASE TruncateEntry(w)
      <3>1. Quiet(w, "fill")
        BY <2>9 DEF Quiet, TruncateEntry, Steps, Recording, logs, money, faults
      <3> QED
        BY <2>1, <3>1
    <2>10. CASE FillEntry(w)
      <3>1. Quiet(w, "log")
        BY <2>10 DEF Quiet, FillEntry, Steps, Recording, logs, money, faults
      <3> QED
        BY <2>1, <3>1
    <2>11. CASE Release(w)
      <3>1. Quiet(w, "lookup")
        BY <2>0, <2>11 DEF Quiet, Release, Steps, Recording, logs, money, faults
      <3> QED
        BY <2>1, <3>1
    <2> QED
      BY <1>0, <1>1, <2>2, <2>3, <2>4, <2>5, <2>6, <2>7, <2>8, <2>9, <2>10, <2>11,
         CallMayBeMissing, RunMayBeMissing, ChargeMayBeLost, FailureLoses DEF Step
  <1>2. CASE UNCHANGED vars
    <2>1. /\ UNCHANGED <<callLines, runLines, ledger, failures, crashes, answered>>
          /\ Charged' = Charged /\ callLog' = callLog /\ runLog' = runLog
          /\ \A steps : CallsAt(steps)' = CallsAt(steps)
          /\ {CallId(w) : w \in {v \in Worker : pc[v] \in Recording}}'
               = {CallId(w) : w \in {v \in Worker : pc[v] \in Recording}}
      BY <1>2 DEF vars, workerVars, logs, money, faults, Charged, CallsAt, CallId
    <2>2. MissingCalls' = MissingCalls /\ MissingRuns' = MissingRuns /\ Lost' = Lost
      BY <2>1 DEF MissingCalls, MissingRuns, Lost
    <2> QED
      BY <1>0, <2>1, <2>2 DEF LossInv, LossLimit, HalfLine
  <1> QED
    BY <1>0, <1>1, <1>2, CrashLoses, ResetLosesNothing DEF Next

(* Nothing is lost at the start.                                           *)
LEMMA LossInit == Init => LossInv
PROOF
  <1> SUFFICES ASSUME Init PROVE LossInv
    OBVIOUS
  <1>1. /\ pc = [w \in Worker |-> "lookup"] /\ spend = {} /\ answered = {}
        /\ failures = 0 /\ crashes = 0
        /\ callLines = "whole" /\ runLines = "whole" /\ ledger = "whole"
    BY DEF Init
  <1>2. MissingCalls = {} /\ MissingRuns = {} /\ Lost = {}
    BY <1>1 DEF MissingCalls, MissingRuns, Lost, Charged, CallsAt
  <1>3. Cardinality({}) = 0 /\ IsFiniteSet({})
    BY FS_EmptySet
  <1>4. LossLimit = 0
    <2>1. Cardinality(Worker) \in Nat
      BY MoneyAssumption, FS_CardinalityType DEF MoneyAssumption
    <2> QED
      BY <1>1, <2>1 DEF LossLimit
  <1> QED
    BY <1>1, <1>2, <1>3, <1>4, AccountInit DEF LossInv, HalfLine

(* What the invariant says of the logs alone.                              *)
LEMMA LossMeans == LossInv => FewUnattributed /\ LossesBounded
PROOF
  <1> SUFFICES ASSUME LossInv PROVE FewUnattributed /\ LossesBounded
    OBVIOUS
  <1>1. /\ Charged \ callLog \in SUBSET MissingCalls /\ Charged \ runLog \in SUBSET MissingRuns
    BY DEF MissingCalls, MissingRuns
  <1>2. /\ Cardinality(Charged \ callLog) <= Cardinality(MissingCalls)
        /\ Cardinality(Charged \ runLog) <= Cardinality(MissingRuns)
        /\ IsFiniteSet(Charged \ callLog) /\ IsFiniteSet(Charged \ runLog)
    BY <1>1, LossTypes, FS_Subset
  <1>3. /\ Cardinality(Charged \ callLog) \in Nat /\ Cardinality(Charged \ runLog) \in Nat
        /\ Cardinality(MissingCalls) \in Nat /\ Cardinality(MissingRuns) \in Nat
        /\ Cardinality(Lost) \in Nat
    BY <1>2, LossTypes, FS_CardinalityType
  <1>4. /\ HalfLine(callLines) \in {0, 1} /\ HalfLine(runLines) \in {0, 1}
        /\ HalfLine(ledger) \in {0, 1}
    BY DEF HalfLine
  <1>5. FewUnattributed
    BY <1>2, <1>3, <1>4, LossTypes DEF LossInv, FewUnattributed
  <1>6. LossesBounded
    <2>1. Cardinality(Lost) <= LossLimit
      BY <1>3, <1>4, LossTypes DEF LossInv
    <2> QED
      BY <2>1 DEF LossesBounded, LossLimit
  <1> QED
    BY <1>5, <1>6

(* Whatever crashes and disk errors do, a call log that can be read names  *)
(* every call the ledger charges, and however often appends are cut short, *)
(* one that cannot be read lacks no more calls than that (record_call,     *)
(* append_jsonl, read_jsonl).                                              *)
THEOREM SpendAttributed == Spec => []SpendIsAttributed
PROOF
  <1>1. LossInv => SpendIsAttributed
    BY LossMeans DEF SpendIsAttributed, LossInv, AccountInv, AttributionInv
  <1> QED
    BY <1>1, LossInit, LossStep, PTL DEF Spec

(* Every answered call is charged in the end, but for so many as the disk  *)
(* errors and crashes account for (record_call, FileBudgetStore::append).  *)
THEOREM LossesAreBounded == Spec => []LossesBounded
PROOF
  <1>1. LossInv => LossesBounded
    BY LossMeans
  <1> QED
    BY <1>1, LossInit, LossStep, PTL DEF Spec

-----------------------------------------------------------------------------
(* The hard cap.  A call counts from the moment its worker read a ledger   *)
(* that would admit it till it is recorded, whatever it comes to cost.     *)
Exposes(w) == (pc[w] = "reserve" /\ seen[w] + Projected <= HardCap) \/ Ending(w)
Exposed(s) == {w \in Workers(s) : Exposes(w)}
IsLate(s, late) ==
  /\ Cardinality(late) + Cardinality(Exposed(s)) <= Cardinality(Workers(s))
  /\ Total(Records(s) \ late) <= Room
WithinOverrun(s) == \E late \in SUBSET Records(s) : IsLate(s, late)

(* The calls that may still end behind a torn ledger.                      *)
Underway(w) == pc[w] = "reserve" \/ Ending(w)
Concealed ==
  /\ ledger = "whole" => hidden = {}
  /\ \A c \in hidden : c[1] \in Worker /\ ~Underway(c[1])
  /\ HiddenCallsBounded

(* Only a call with a reservation is sent, and only such a one has a cost. *)
Covered ==
  /\ seen \in [Worker -> Int]
  /\ \A w \in Worker : (~holds[w] => cost[w] = 0) /\ (pc[w] = "send" => holds[w])

CapInv ==
  /\ AccountInv /\ ReservationInv /\ Covered /\ Concealed
  /\ \A s \in Scope : WithinOverrun(s)

(* Sets of workers and of records can be counted.                          *)
LEMMA WorkersCounted ==
  ASSUME NEW A \in SUBSET Worker
  PROVE  IsFiniteSet(A) /\ Cardinality(A) \in Nat
  BY MoneyAssumption, FS_Subset, FS_CardinalityType DEF MoneyAssumption

LEMMA RecordsCounted ==
  ASSUME Ledgered, NEW s, NEW R \in SUBSET Records(s)
  PROVE  IsFiniteSet(R) /\ Cardinality(R) \in Nat /\ Total(R) \in Nat /\ \A r \in R : r.cost \in Nat
PROOF
  <1>1. R \in SUBSET spend /\ IsFiniteSet(spend)
    BY DEF Ledgered, Records
  <1>2. IsFiniteSet(R) /\ \A r \in R : r.cost \in Nat
    BY <1>1, FS_Subset DEF Ledgered, SpendRecord
  <1> QED
    BY <1>2, TotalNat, FS_CardinalityType

LEMMA RoomNat == Room \in Nat
  BY MoneyAssumption DEF Room, MoneyAssumption

(* It is late calls that are left over after a step.                       *)
LEMMA LateAfter ==
  ASSUME NEW s, NEW R, R = Records(s)', NEW late \in SUBSET R,
         Cardinality(late) + Cardinality(Exposed(s)') <= Cardinality(Workers(s)),
         Total(R \ late) <= Room
  PROVE  WithinOverrun(s)'
PROOF
  <1>1. Total(Records(s) \ late)' = Total(R \ late)
    <2>1. Total(Records(s) \ late)' = Total(Records(s)' \ late)
      BY DEF Total, MapThenSumSet, MapThenFoldSet
    <2> QED
      BY <2>1
  <1>2. Workers(s)' = Workers(s) /\ Room' = Room
    BY DEF Workers, Room
  <1>3. IsLate(s, late)'
    BY <1>1, <1>2 DEF IsLate
  <1> QED
    BY <1>3 DEF WithinOverrun

(* Nobody is newly exposed, and the scope's records are the same.          *)
LEMMA ExposureShrinks ==
  ASSUME Ledgered, NEW s, WithinOverrun(s), Records(s)' = Records(s), Exposed(s)' \subseteq Exposed(s)
  PROVE  WithinOverrun(s)'
PROOF
  <1>1. PICK late \in SUBSET Records(s) : IsLate(s, late)
    BY DEF WithinOverrun
  <1>2. Cardinality(Exposed(s)') <= Cardinality(Exposed(s))
    <2>1. Exposed(s) \in SUBSET Worker
      BY DEF Exposed, Workers
    <2> QED
      BY <2>1, WorkersCounted, FS_Subset
  <1>3. Cardinality(late) + Cardinality(Exposed(s)) <= Cardinality(Workers(s))
    BY <1>1 DEF IsLate
  <1>4. Total(Records(s) \ late) <= Room
    BY <1>1 DEF IsLate
  <1>5. IsFiniteSet(late) /\ Cardinality(late) \in Int
    BY RecordsCounted
  <1>6. /\ Cardinality(Exposed(s)) \in Int /\ Cardinality(Exposed(s)') \in Int
        /\ Cardinality(Workers(s)) \in Int
    <2>1. /\ Exposed(s) \in SUBSET Worker /\ Exposed(s)' \in SUBSET Worker
          /\ Workers(s) \in SUBSET Worker
      BY DEF Exposed, Workers
    <2> QED
      BY <2>1, WorkersCounted
  <1>7. Cardinality(late) + Cardinality(Exposed(s)') <= Cardinality(Workers(s))
    BY <1>2, <1>3, <1>5, <1>6
  <1> QED
    BY <1>4, <1>7, LateAfter

(* The record of an exposed call, whatever it cost, is late if need be.    *)
LEMMA ExposureRecorded ==
  ASSUME Ledgered, Ledgered', NEW s, WithinOverrun(s), NEW r, r.cost \in Nat,
         Records(s)' = Records(s) \cup {r}, NEW w \in Exposed(s),
         Exposed(s)' \subseteq Exposed(s) \ {w}
  PROVE  WithinOverrun(s)'
PROOF
  <1>1. PICK late \in SUBSET Records(s) :
          /\ Cardinality(late) + Cardinality(Exposed(s)) <= Cardinality(Workers(s))
          /\ Total(Records(s) \ late) <= Room
    BY DEF WithinOverrun, IsLate
  <1>2. IsFiniteSet(late) /\ Cardinality(late) \in Int
    BY RecordsCounted
  <1>3. /\ IsFiniteSet(Exposed(s)) /\ Cardinality(Exposed(s)) \in Int
        /\ Cardinality(Workers(s)) \in Int
        /\ Cardinality(Exposed(s)') \in Int
    <2>1. /\ Exposed(s) \in SUBSET Worker /\ Workers(s) \in SUBSET Worker
          /\ Exposed(s)' \in SUBSET Worker
      BY DEF Exposed, Workers
    <2> QED
      BY <2>1, WorkersCounted
  <1>4. Cardinality(Exposed(s)') <= Cardinality(Exposed(s)) - 1
    <2>1. /\ IsFiniteSet(Exposed(s) \ {w})
          /\ Cardinality(Exposed(s) \ {w}) = Cardinality(Exposed(s)) - 1
      BY <1>3, FS_RemoveElement
    <2>2. Cardinality(Exposed(s)') <= Cardinality(Exposed(s) \ {w})
      BY <2>1, FS_Subset
    <2> QED
      BY <2>1, <2>2
  <1>5. Cardinality(late \cup {r}) \in Int /\ Cardinality(late \cup {r}) <= Cardinality(late) + 1
    BY <1>2, FS_AddElement
  <1>6. Cardinality(late \cup {r}) + Cardinality(Exposed(s)') <= Cardinality(Workers(s))
    BY <1>1, <1>2, <1>3, <1>4, <1>5
  <1>7. PICK R : R = Records(s)' /\ R = Records(s) \cup {r}
    OBVIOUS
  <1>8. Total(R \ (late \cup {r})) <= Room
    <2>1. CASE r \in Records(s) \ late
      <3> DEFINE Q == R \ (late \cup {r})
      <3>1. Records(s) \ late = Q \cup {r} /\ r \notin Q
        BY <1>7, <2>1
      <3>2. Q \in SUBSET Records(s)
        BY <1>7
      <3> HIDE DEF Q
      <3>3. IsFiniteSet(Q) /\ Total(Q) \in Nat /\ \A q \in Q \cup {r} : q.cost \in Int
        <4>1. IsFiniteSet(Q) /\ Total(Q) \in Nat /\ \A q \in Q : q.cost \in Nat
          BY <3>2, RecordsCounted
        <4> QED
          BY <4>1
      <3>4. Total(Q \cup {r}) = Total(Q) + r.cost
        BY <3>1, <3>3, TotalAdd
      <3>5. Total(Q) <= Total(Records(s) \ late) /\ Total(Records(s) \ late) \in Int
        <4>1. Total(Records(s) \ late) = Total(Q) + r.cost
          BY <3>1, <3>4, Zenon
        <4> QED
          BY <3>3, <4>1
      <3>6. Total(Q) <= Room
        BY <1>1, <3>3, <3>5, RoomNat
      <3> QED
        BY <3>6 DEF Q
    <2>2. CASE r \notin Records(s) \ late
      <3>1. R \ (late \cup {r}) = Records(s) \ late
        BY <1>7, <2>2
      <3> QED
        BY <1>1, <3>1
    <2> QED
      BY <2>1, <2>2
  <1>9. late \cup {r} \in SUBSET R
    BY <1>7
  <1> QED
    BY <1>6, <1>7, <1>8, <1>9, LateAfter

(* So is a record of no cost of a call that was refused, or from the cache.*)
LEMMA FreeRecorded ==
  ASSUME Ledgered, NEW s, WithinOverrun(s), NEW r, r.cost = 0,
         Records(s)' = Records(s) \cup {r}, Exposed(s)' \subseteq Exposed(s)
  PROVE  WithinOverrun(s)'
PROOF
  <1>1. CASE r \in Records(s)
    <2>1. Records(s)' = Records(s)
      BY <1>1
    <2> QED
      BY <2>1, ExposureShrinks
  <1>2. CASE r \notin Records(s)
    <2>1. PICK late \in SUBSET Records(s) :
            /\ Cardinality(late) + Cardinality(Exposed(s)) <= Cardinality(Workers(s))
            /\ Total(Records(s) \ late) <= Room
      BY DEF WithinOverrun, IsLate
    <2>2. Cardinality(late) + Cardinality(Exposed(s)') <= Cardinality(Workers(s))
      <3>1. /\ Exposed(s) \in SUBSET Worker /\ Workers(s) \in SUBSET Worker
            /\ Exposed(s)' \in SUBSET Worker
        BY DEF Exposed, Workers
      <3>2. Cardinality(Exposed(s)') <= Cardinality(Exposed(s))
        BY <3>1, WorkersCounted, FS_Subset
      <3>3. /\ Cardinality(Exposed(s)) \in Int /\ Cardinality(Exposed(s)') \in Int
            /\ Cardinality(Workers(s)) \in Int
        BY <3>1, WorkersCounted
      <3>4. IsFiniteSet(late) /\ Cardinality(late) \in Int
        BY RecordsCounted
      <3> QED
        BY <2>1, <3>2, <3>3, <3>4
    <2>3. PICK R : R = Records(s)' /\ R = Records(s) \cup {r}
      OBVIOUS
    <2>4. Total(R \ late) <= Room
      <3> DEFINE Q == Records(s) \ late
      <3>1. R \ late = Q \cup {r} /\ r \notin Q /\ Q \in SUBSET Records(s)
        BY <1>2, <2>1, <2>3
      <3>2. Total(Q) <= Room
        BY <2>1
      <3> HIDE DEF Q
      <3>3. IsFiniteSet(Q) /\ Total(Q) \in Nat /\ \A q \in Q \cup {r} : q.cost \in Int
        <4>1. IsFiniteSet(Q) /\ Total(Q) \in Nat /\ \A q \in Q : q.cost \in Nat
          BY <3>1, RecordsCounted
        <4> QED
          BY <4>1
      <3>4. Total(Q \cup {r}) = Total(Q) + r.cost
        BY <3>1, <3>3, TotalAdd
      <3>5. Total(Q \cup {r}) = Total(Q)
        BY <3>3, <3>4
      <3> QED
        BY <3>1, <3>2, <3>5
    <2>5. late \in SUBSET R
      BY <2>3
    <2> QED
      BY <2>2, <2>3, <2>4, <2>5, LateAfter
  <1> QED
    BY <1>1, <1>2

(* A worker that reads a ledger with room for one more call: till then     *)
(* nobody was late, and from then on each worker of the scope may be.      *)
LEMMA ExposureRead ==
  ASSUME Ledgered', NEW s, NEW n \in Nat, n = Total(Records(s)'), n + Projected <= HardCap
  PROVE  WithinOverrun(s)'
PROOF
  <1>1. PICK R : R = Records(s)'
    OBVIOUS
  <1>2. Projected \in Nat /\ HardCap \in Nat
    BY MoneyAssumption DEF MoneyAssumption
  <1>3. n <= Room
    BY <1>2 DEF Room
  <1>4. Total(R \ {}) <= Room
    <2>1. R \ {} = R
      OBVIOUS
    <2> QED
      BY <1>1, <1>3, <2>1
  <1>5. Cardinality({}) + Cardinality(Exposed(s)') <= Cardinality(Workers(s))
    <2>1. Workers(s) \in SUBSET Worker /\ Exposed(s)' \in SUBSET Workers(s)
      BY DEF Exposed, Workers
    <2>2. IsFiniteSet(Workers(s)) /\ Cardinality(Exposed(s)') <= Cardinality(Workers(s))
      BY <2>1, WorkersCounted, FS_Subset
    <2>3. Cardinality(Exposed(s)') \in Int /\ Cardinality({}) = 0
      BY <2>1, <2>2, FS_Subset, FS_CardinalityType, FS_EmptySet
    <2> QED
      BY <2>2, <2>3
  <1>6. {} \in SUBSET R
    OBVIOUS
  <1> QED
    BY <1>1, <1>4, <1>5, <1>6, LateAfter

(* An empty ledger has room.                                               *)
LEMMA NothingLate ==
  ASSUME NEW s, Records(s)' = {}
  PROVE  WithinOverrun(s)'
PROOF
  <1>1. PICK R : R = Records(s)' /\ R = {}
    OBVIOUS
  <1>2. Total(R \ {}) <= Room
    <2>1. R \ {} = {}
      BY <1>1
    <2> QED
      BY <2>1, TotalEmpty, RoomNat
  <1>3. Cardinality({}) + Cardinality(Exposed(s)') <= Cardinality(Workers(s))
    <2>1. Workers(s) \in SUBSET Worker /\ Exposed(s)' \in SUBSET Workers(s)
      BY DEF Exposed, Workers
    <2>2. IsFiniteSet(Workers(s)) /\ Cardinality(Exposed(s)') <= Cardinality(Workers(s))
      BY <2>1, WorkersCounted, FS_Subset
    <2>3. Cardinality(Exposed(s)') \in Int /\ Cardinality({}) = 0
      BY <2>1, <2>2, FS_Subset, FS_CardinalityType, FS_EmptySet
    <2> QED
      BY <2>2, <2>3
  <1> QED
    BY <1>1, <1>2, <1>3, LateAfter

(* A step of worker w leaves the others where they are.                    *)
Aside(w) ==
  /\ pc' \in [Worker -> Steps] /\ seen' \in [Worker -> Int] /\ holds' \in [Worker -> BOOLEAN]
  /\ \A v \in Worker : v # w => pc'[v] = pc[v] /\ seen'[v] = seen[v] /\ holds'[v] = holds[v]

(* Nobody else becomes exposed, or starts a call, by it.                   *)
LEMMA OthersAsBefore ==
  ASSUME NEW w \in Worker, Aside(w)
  PROVE  /\ \A s : Exposed(s)' \subseteq Exposed(s) \cup {w}
         /\ \A s : (Exposes(w)' => Exposes(w)) => Exposed(s)' \subseteq Exposed(s)
         /\ \A s : ~Exposes(w)' => Exposed(s)' \subseteq Exposed(s) \ {w}
         /\ \A v \in Worker : v # w => (Underway(v)' => Underway(v))
  BY DEF Aside, Exposed, Exposes, Workers, Underway, Ending

(* A step that records nothing, hides nothing and exposes nobody.          *)
LEMMA CapKept ==
  ASSUME CapInv, AccountInv', ReservationInv', Covered', NEW w \in Worker, Aside(w),
         Exposes(w)' => Exposes(w), Underway(w)' => Underway(w),
         UNCHANGED <<spend, ledger, hidden>>
  PROVE  CapInv'
PROOF
  <1>1. ASSUME NEW s \in Scope PROVE WithinOverrun(s)'
    <2>1. Records(s)' = Records(s)
      BY DEF Records
    <2>2. WithinOverrun(s) /\ Ledgered /\ Exposed(s)' \subseteq Exposed(s)
      BY OthersAsBefore DEF CapInv, AccountInv
    <2> QED
      BY <2>1, <2>2, ExposureShrinks
  <1>2. Concealed'
    <2>1. \A v \in Worker : Underway(v)' => Underway(v)
      BY OthersAsBefore
    <2> QED
      BY <2>1 DEF CapInv, Concealed, HiddenCallsBounded
  <1> QED
    BY <1>1, <1>2 DEF CapInv

(* Calls that end are none of those that were hidden before.               *)
LEMMA StaysConcealed ==
  ASSUME CapInv, NEW W \in SUBSET Worker, End(W), ledger' = "whole" => ledger = "whole",
         \A w \in W : ~Underway(w)', \A w \in Worker \ W : Underway(w)' => Underway(w)
  PROVE  Concealed'
PROOF
  <1>1. /\ ledger = "whole" => hidden = {}
        /\ \A c \in hidden : c[1] \in Worker /\ ~Underway(c[1])
        /\ \A c, d \in hidden : c[1] = d[1] => c = d
    BY DEF CapInv, Concealed, HiddenCallsBounded
  <1>2. CASE ledger' = "whole"
    <2>1. hidden' = {}
      BY <1>1, <1>2 DEF End
    <2> QED
      BY <2>1 DEF Concealed, HiddenCallsBounded
  <1>3. CASE ledger' # "whole"
    <2>1. \A c \in hidden' : c \in hidden \/ \E w \in W : Underway(w) /\ c = CallId(w)
      BY <1>3 DEF End, Underway
    <2>2. \A w \in W : CallId(w)[1] = w
      BY DEF CallId
    <2>3. \A c \in hidden' : c[1] \in Worker /\ ~Underway(c[1])'
      BY <1>1, <2>1, <2>2
    <2>4. \A c, d \in hidden' : c[1] = d[1] => c = d
      BY <1>1, <2>1, <2>2
    <2> QED
      BY <1>3, <2>3, <2>4 DEF Concealed, HiddenCallsBounded
  <1> QED
    BY <1>2, <1>3

(* The record of a call is one that it was counted for.                    *)
LEMMA CapRecorded ==
  ASSUME CapInv, AccountInv', ReservationInv', Covered', NEW w \in Worker, Aside(w),
         AppendSpend(w)
  PROVE  CapInv'
PROOF
  <1> DEFINE r == [id |-> CallId(w), scope |-> ScopeOf[w], cost |-> cost[w]]
  <1>1. /\ pc[w] = "spend" /\ pc'[w] = "release" /\ End({w})
        /\ ledger' = "whole" => ledger = "whole"
        /\ spend' = spend \/ spend' = spend \cup {r}
    <2>1. pc \in [Worker -> Steps]
      BY DEF CapInv, ReservationInv, Tabled
    <2> QED
      BY <2>1 DEF AppendSpend, Goto, Behind
  <1>2. ~Underway(w)' /\ ~Exposes(w)'
    BY <1>1 DEF Underway, Exposes, Ending
  <1>3. Concealed'
    <2>1. \A v \in Worker \ {w} : Underway(v)' => Underway(v)
      BY OthersAsBefore
    <2> QED
      BY <1>1, <1>2, <2>1, StaysConcealed
  <1>4. ASSUME NEW s \in Scope PROVE WithinOverrun(s)'
    <2>1. /\ WithinOverrun(s) /\ Ledgered /\ Ledgered'
          /\ cost[w] \in Nat /\ (~holds[w] => cost[w] = 0)
      BY DEF CapInv, AccountInv, Ledgered, Covered
    <2>2. Exposed(s)' \subseteq Exposed(s) \ {w}
      BY <1>2, OthersAsBefore
    <2>3. r.scope = ScopeOf[w] /\ r.cost = cost[w]
      OBVIOUS
    <2> HIDE DEF r
    <2>4. CASE Records(s)' = Records(s)
      BY <2>1, <2>2, <2>4, ExposureShrinks
    <2>5. CASE Records(s)' # Records(s)
      <3>1. Records(s)' = Records(s) \cup {r} /\ ScopeOf[w] = s
        BY <1>1, <2>3, <2>5 DEF Records
      <3>2. CASE holds[w]
        <4>1. w \in Exposed(s)
          BY <1>1, <3>1, <3>2 DEF Exposed, Exposes, Ending, Workers
        <4>2. r.cost \in Nat
          BY <2>1, <2>3
        <4> QED
          BY <2>1, <2>2, <3>1, <4>1, <4>2, ExposureRecorded
      <3>3. CASE ~holds[w]
        <4>1. r.cost = 0 /\ Exposed(s)' \subseteq Exposed(s)
          BY <2>1, <2>2, <2>3, <3>3
        <4> QED
          BY <2>1, <3>1, <4>1, FreeRecorded
      <3> QED
        BY <3>2, <3>3
    <2> QED
      BY <2>4, <2>5
  <1> QED
    BY <1>3, <1>4 DEF CapInv

(* A worker may be admitted on what it has just read.                      *)
LEMMA CapRead ==
  ASSUME CapInv, AccountInv', ReservationInv', Covered', NEW w \in Worker, Aside(w),
         ReadLedger(w)
  PROVE  CapInv'
PROOF
  <1>1. /\ UNCHANGED <<spend, ledger, hidden, holds>> /\ ledger = "whole"
        /\ pc[w] = "read_ledger" /\ pc'[w] = "reserve" /\ ~holds[w]
        /\ seen'[w] = Total(Records(ScopeOf[w]))
    BY DEF ReadLedger, Readable, Spent, Records, logs, money, Goto, CapInv, ReservationInv, Tabled,
           NoneBeforeReserve, Covered
  <1>2. Concealed'
    BY <1>1 DEF CapInv, Concealed, HiddenCallsBounded
  <1>3. ASSUME NEW s \in Scope PROVE WithinOverrun(s)'
    <2>1. WithinOverrun(s) /\ Ledgered /\ Ledgered' /\ Records(s)' = Records(s)
      BY <1>1 DEF CapInv, AccountInv, Records
    <2>2. PICK n \in Nat : n = Total(Records(s))
      BY <2>1, RecordsCounted
    <2>3. CASE ScopeOf[w] = s /\ n + Projected <= HardCap
      <3>1. n = Total(Records(s)')
        BY <2>1, <2>2
      <3> QED
        BY <2>1, <2>3, <3>1, ExposureRead
    <2>4. CASE ~(ScopeOf[w] = s /\ n + Projected <= HardCap)
      <3>1. w \notin Exposed(s)'
        BY <1>1, <2>2, <2>4 DEF Exposed, Exposes, Ending, Workers
      <3>2. Exposed(s)' \subseteq Exposed(s)
        BY <3>1, OthersAsBefore
      <3> QED
        BY <2>1, <3>2, ExposureShrinks
    <2> QED
      BY <2>3, <2>4
  <1> QED
    BY <1>2, <1>3 DEF CapInv

(* A crash takes every exposed call with it.                               *)
LEMMA CapCrashed ==
  ASSUME CapInv, AccountInv', ReservationInv', Covered', Crash
  PROVE  CapInv'
PROOF
  <1>1. /\ spend' = spend /\ \A w \in Worker : pc'[w] = "lookup" /\ ~holds'[w]
        /\ End(Worker)
        /\ ledger' = "whole" => ledger = "whole"
    BY DEF Crash, CutShort
  <1>2. ASSUME NEW s \in Scope PROVE WithinOverrun(s)'
    <2>1. WithinOverrun(s) /\ Ledgered /\ Records(s)' = Records(s) /\ Exposed(s)' = {}
      BY <1>1 DEF CapInv, AccountInv, Records, Exposed, Exposes, Ending, Workers
    <2> QED
      BY <2>1, ExposureShrinks
  <1>3. Concealed'
    <2>1. /\ Worker \in SUBSET Worker /\ \A w \in Worker : ~Underway(w)'
          /\ \A w \in Worker \ Worker : Underway(w)' => Underway(w)
      BY <1>1 DEF Underway, Ending
    <2> QED
      BY <1>1, <2>1, StaysConcealed
  <1> QED
    BY <1>2, <1>3 DEF CapInv

(* Removing the ledger forgets what was spent and what was hidden.         *)
LEMMA CapReset ==
  ASSUME CapInv, AccountInv', ReservationInv', Covered', BudgetReset
  PROVE  CapInv'
PROOF
  <1>1. spend' = {} /\ hidden' = {}
    BY DEF BudgetReset
  <1>2. Concealed'
    BY <1>1 DEF Concealed, HiddenCallsBounded
  <1>3. \A s \in Scope : WithinOverrun(s)'
    BY <1>1, NothingLate DEF Records
  <1> QED
    BY <1>2, <1>3 DEF CapInv

(* What a worker's step does besides the ledger.                           *)
LEMMA StepCovered ==
  ASSUME CapInv, AccountInv', NEW w \in Worker, NEW k \in Key, Step(w, k)
  PROVE  Covered' /\ Aside(w)
PROOF
  <1>1. /\ pc \in [Worker -> Steps] /\ seen \in [Worker -> Int] /\ holds \in [Worker -> BOOLEAN]
        /\ cost \in [Worker -> Nat]
        /\ \A v \in Worker : (~holds[v] => cost[v] = 0) /\ (pc[v] = "send" => holds[v])
        /\ pc[w] \in Unanswered => cost[w] = 0
    BY DEF CapInv, AccountInv, Ledgered, ReservationInv, Tabled, Covered, CostInFlight
  <1>2. pc' \in [Worker -> Steps]
    BY DEF AccountInv, AttributionInv, Located
  <1> DEFINE
    Same(v) == pc'[v] = pc[v] /\ seen'[v] = seen[v] /\ holds'[v] = holds[v] /\ cost'[v] = cost[v]
    Typed == seen' \in [Worker -> Int] /\ holds' \in [Worker -> BOOLEAN]
    Own == (~holds'[w] => cost'[w] = 0) /\ (pc'[w] = "send" => holds'[w])
  <1>3. Typed /\ Own /\ \A v \in Worker : v # w => Same(v)
    <2>1. CASE LookUp(w, k)
      BY <1>1, <2>1 DEF LookUp, Goto, Unanswered
    <2>2. CASE ReadLedger(w)
      <3>1. PICK n \in Int : seen' = [seen EXCEPT ![w] = n]
        <4>1. Total(Records(ScopeOf[w])) \in Int
          <5>1. Ledgered
            BY DEF CapInv, AccountInv
          <5>2. PICK R : R = Records(ScopeOf[w])
            OBVIOUS
          <5>3. Total(R) \in Nat
            BY <5>1, <5>2, RecordsCounted
          <5> QED
            BY <5>2, <5>3
        <4> QED
          BY <2>2, <4>1 DEF ReadLedger, Spent, Records
      <3> QED
        BY <1>1, <2>2, <3>1 DEF ReadLedger, Goto
    <2>3. CASE LedgerUnreadable(w)
      BY <1>1, <2>3 DEF LedgerUnreadable, Goto
    <2>4. CASE Reserve(w)
      BY <1>1, <2>4 DEF Reserve, Goto
    <2>5. CASE Refuse(w)
      BY <1>1, <2>5 DEF Refuse, Goto
    <2>6. CASE Answer(w)
      <3>1. PICK c \in AnswerCosts : cost' = [cost EXCEPT ![w] = c]
        BY <2>6 DEF Answer, Answered
      <3>2. PICK step \in {"put", "log"} : Goto(w, step)
        BY <2>6 DEF Answer
      <3> QED
        BY <1>1, <2>6, <3>1, <3>2 DEF Answer, Answered, Goto
    <2>7. CASE NoAnswer(w)
      BY <1>1, <2>7 DEF NoAnswer, Goto
    <2>8. CASE TruncateEntry(w)
      BY <1>1, <2>8 DEF TruncateEntry, Goto
    <2>9. CASE FillEntry(w)
      BY <1>1, <2>9 DEF FillEntry, Goto
    <2>10. CASE AppendCall(w)
      BY <1>1, <2>10 DEF AppendCall, LogCall, Goto
    <2>11. CASE AppendRun(w)
      BY <1>1, <2>11 DEF AppendRun, Goto
    <2>12. CASE AppendSpend(w)
      BY <1>1, <2>12 DEF AppendSpend, Goto
    <2>13. CASE DiskFails(w)
      BY <1>1, <2>13 DEF DiskFails, Goto
    <2>14. CASE Release(w)
      BY <1>1, <2>14 DEF Release, Goto, Unanswered
    <2> HIDE DEF Typed, Own, Same
    <2> QED
      BY <2>1, <2>2, <2>3, <2>4, <2>5, <2>6, <2>7, <2>8, <2>9, <2>10, <2>11, <2>12, <2>13,
         <2>14 DEF Step
  <1>4. Aside(w)
    BY <1>2, <1>3 DEF Aside
  <1>5. Covered'
    BY <1>1, <1>3 DEF Covered
  <1> QED
    BY <1>4, <1>5

(* The bounds are inductive.                                               *)
LEMMA CapStep == CapInv /\ [Next]_vars => CapInv'
PROOF
  <1> SUFFICES ASSUME CapInv, [Next]_vars PROVE CapInv'
    OBVIOUS
  <1>0. AccountInv' /\ ReservationInv'
    BY AccountStep, ReservationStep DEF CapInv
  <1>1. ASSUME NEW w \in Worker, NEW k \in Key, Step(w, k) PROVE CapInv'
    <2>0. Covered' /\ Aside(w)
      BY <1>0, <1>1, StepCovered
    <2>1. /\ pc \in [Worker -> Steps] /\ holds \in [Worker -> BOOLEAN]
          /\ pc[w] \in {"lookup", "read_ledger", "reserve"} => ~holds[w]
          /\ pc[w] = "send" => holds[w]
      BY DEF CapInv, ReservationInv, Tabled, NoneBeforeReserve, Covered
    <2> DEFINE Still == /\ Exposes(w)' => Exposes(w)
                        /\ Underway(w)' => Underway(w)
                        /\ UNCHANGED <<spend, ledger, hidden>>
    <2>2. ASSUME Still PROVE CapInv'
      BY <1>0, <2>0, <2>2, CapKept
    <2>3. CASE LookUp(w, k)
      <3>1. /\ pc'[w] \in {"log", "release", "read_ledger"} /\ ~holds[w] /\ holds' = holds
            /\ UNCHANGED <<spend, ledger, hidden>>
        BY <2>1, <2>3 DEF LookUp, Goto, logs, money
      <3> QED
        BY <2>2, <3>1 DEF Exposes, Underway, Ending
    <2>4. CASE ReadLedger(w)
      BY <1>0, <2>0, <2>4, CapRead
    <2>5. CASE LedgerUnreadable(w)
      <3>1. pc'[w] = "log" /\ ~holds[w] /\ holds' = holds /\ UNCHANGED <<spend, ledger, hidden>>
        BY <2>1, <2>5 DEF LedgerUnreadable, Goto, logs, money
      <3> QED
        BY <2>2, <3>1 DEF Exposes, Underway, Ending
    <2>6. CASE Reserve(w)
      <3>1. pc[w] = "reserve" /\ ~OverCap(w) /\ UNCHANGED <<spend, ledger, hidden>>
        BY <2>6 DEF Reserve, logs, money
      <3>2. seen[w] + Projected <= HardCap
        <4>1. PICK n \in Nat : n = Cardinality(Holders(ScopeOf[w]))
          BY HoldersFinite
        <4>2. reserved[ScopeOf[w]] = Projected * n
          BY <4>1, ReservationsAreHeld, MoneyAssumption DEF CapInv, ReservationInv, MoneyAssumption
        <4>3. Projected \in Nat /\ HardCap \in Int /\ seen[w] \in Int
          BY MoneyAssumption DEF MoneyAssumption, CapInv, Covered
        <4>4. Projected * n >= 0 /\ Projected * n \in Int
          BY <4>3
        <4> QED
          BY <3>1, <4>2, <4>3, <4>4 DEF OverCap
      <3> QED
        BY <2>2, <3>1, <3>2 DEF Exposes, Underway, Ending
    <2>7. CASE Refuse(w)
      <3>1. pc'[w] = "log" /\ ~holds[w] /\ holds' = holds /\ UNCHANGED <<spend, ledger, hidden>>
        BY <2>1, <2>7 DEF Refuse, Goto, logs, money
      <3> QED
        BY <2>2, <3>1 DEF Exposes, Underway, Ending
    <2>8. CASE Answer(w)
      <3>1. pc[w] = "send" /\ holds[w] /\ UNCHANGED <<spend, ledger, hidden>>
        BY <2>1, <2>8 DEF Answer, Answered, logs
      <3> QED
        BY <2>2, <3>1 DEF Exposes, Underway, Ending
    <2>9. CASE NoAnswer(w)
      <3>1. pc[w] = "send" /\ holds[w] /\ UNCHANGED <<spend, ledger, hidden>>
        BY <2>1, <2>9 DEF NoAnswer, logs
      <3> QED
        BY <2>2, <3>1 DEF Exposes, Underway, Ending
    <2>10. CASE TruncateEntry(w)
      <3>1. /\ pc[w] = "put" /\ pc'[w] = "fill" /\ holds' = holds
            /\ UNCHANGED <<spend, ledger, hidden>>
        BY <2>1, <2>10 DEF TruncateEntry, Goto, logs, money
      <3> QED
        BY <2>2, <3>1 DEF Exposes, Underway, Ending
    <2>11. CASE FillEntry(w)
      <3>1. /\ pc[w] = "fill" /\ pc'[w] = "log" /\ holds' = holds
            /\ UNCHANGED <<spend, ledger, hidden>>
        BY <2>1, <2>11 DEF FillEntry, Goto, logs, money
      <3> QED
        BY <2>2, <3>1 DEF Exposes, Underway, Ending
    <2>12. CASE AppendCall(w)
      <3>1. /\ pc[w] = "log" /\ pc'[w] = "log_run" /\ holds' = holds
            /\ UNCHANGED <<spend, ledger, hidden>>
        BY <2>1, <2>12 DEF AppendCall, LogCall, Goto, money
      <3> QED
        BY <2>2, <3>1 DEF Exposes, Underway, Ending
    <2>13. CASE AppendRun(w)
      <3>1. /\ pc[w] = "log_run" /\ pc'[w] = "spend" /\ holds' = holds
            /\ UNCHANGED <<spend, ledger, hidden>>
        BY <2>1, <2>13 DEF AppendRun, Goto, money
      <3> QED
        BY <2>2, <3>1 DEF Exposes, Underway, Ending
    <2>14. CASE AppendSpend(w)
      BY <1>0, <2>0, <2>14, CapRecorded
    <2>15. CASE DiskFails(w)
      <3>1. /\ pc[w] \in UsesDisk /\ holds' = holds /\ UNCHANGED spend /\ End({w})
            /\ pc'[w] = (IF pc[w] = "read_ledger" THEN "log" ELSE "release")
            /\ ledger' = "whole" => ledger = "whole"
        BY <2>1, <2>15 DEF DiskFails, Goto, CutShort
      <3>2. ~Underway(w)' /\ ~Exposes(w)'
        BY <2>1, <3>1 DEF Underway, Exposes, Ending, UsesDisk
      <3>3. Concealed'
        <4>1. \A v \in Worker \ {w} : Underway(v)' => Underway(v)
          BY <2>0, OthersAsBefore
        <4> QED
          BY <3>1, <3>2, <4>1, StaysConcealed
      <3>4. ASSUME NEW s \in Scope PROVE WithinOverrun(s)'
        <4>1. /\ WithinOverrun(s) /\ Ledgered /\ Records(s)' = Records(s)
              /\ Exposed(s)' \subseteq Exposed(s)
          BY <2>0, <3>1, <3>2, OthersAsBefore DEF CapInv, AccountInv, Records
        <4> QED
          BY <4>1, ExposureShrinks
      <3> QED
        BY <1>0, <2>0, <3>3, <3>4 DEF CapInv
    <2>16. CASE Release(w)
      <3>1. pc'[w] = "lookup" /\ ~holds'[w] /\ UNCHANGED <<spend, ledger, hidden>>
        BY <2>1, <2>16 DEF Release, Goto, logs, money
      <3> QED
        BY <2>2, <3>1 DEF Exposes, Underway, Ending
    <2> HIDE DEF Still
    <2> QED
      BY <1>1, <2>3, <2>4, <2>5, <2>6, <2>7, <2>8, <2>9, <2>10, <2>11, <2>12, <2>13, <2>14,
         <2>15, <2>16 DEF Step
  <1>2. CASE Crash
    <2>1. Covered'
      BY <1>2 DEF Crash, Covered
    <2> QED
      BY <1>0, <1>2, <2>1, CapCrashed
  <1>3. CASE BudgetReset
    <2>1. Covered'
      BY <1>3 DEF BudgetReset, workerVars, CapInv, Covered
    <2> QED
      BY <1>0, <1>3, <2>1, CapReset
  <1>4. CASE UNCHANGED vars
    <2>1. UNCHANGED <<pc, seen, cost, holds, spend, ledger, hidden>>
      BY <1>4 DEF vars, workerVars, logs, money
    <2>2. Covered' /\ Concealed'
      BY <2>1 DEF CapInv, Covered, Concealed, Underway, Ending, HiddenCallsBounded
    <2>3. ASSUME NEW s \in Scope PROVE WithinOverrun(s)'
      <3>1. /\ WithinOverrun(s) /\ Ledgered /\ Records(s)' = Records(s)
            /\ Exposed(s)' = Exposed(s)
        BY <2>1 DEF CapInv, AccountInv, Records, Exposed, Exposes, Ending, Workers
      <3> QED
        BY <3>1, ExposureShrinks
    <2> QED
      BY <1>0, <2>2, <2>3 DEF CapInv
  <1> QED
    BY <1>1, <1>2, <1>3, <1>4 DEF Next

(* Nothing is spent, hidden or exposed at the start.                       *)
LEMMA CapInit == Init => CapInv
PROOF
  <1> SUFFICES ASSUME Init PROVE CapInv
    OBVIOUS
  <1>1. Covered /\ Concealed
    BY DEF Init, Covered, Concealed, HiddenCallsBounded
  <1>2. ASSUME NEW s \in Scope PROVE WithinOverrun(s)
    <2>1. Records(s) = {} /\ Exposed(s) = {}
      BY DEF Init, Records, Exposed, Exposes, Ending, Workers
    <2>2. Cardinality(Workers(s)) \in Nat
      BY WorkersCounted DEF Workers
    <2>3. Total({} \ {}) <= Room
      <3>1. {} \ {} = {}
        OBVIOUS
      <3> QED
        BY <3>1, TotalEmpty, RoomNat
    <2>4. Cardinality({}) + Cardinality({}) <= Cardinality(Workers(s))
      BY <2>2, FS_EmptySet
    <2> QED
      BY <2>1, <2>3, <2>4 DEF WithinOverrun, IsLate
  <1> QED
    BY <1>1, <1>2, AccountInit, ReservationInit DEF CapInv

(* What the invariant says of the ledger alone.                            *)
LEMMA CapMeans == CapInv => OverrunBounded /\ HiddenCallsBounded
PROOF
  <1> SUFFICES ASSUME CapInv PROVE OverrunBounded /\ HiddenCallsBounded
    OBVIOUS
  <1>1. ASSUME NEW s \in Scope
        PROVE  \E late \in SUBSET Records(s) :
                 /\ Cardinality(late) <= Cardinality(Workers(s))
                 /\ Total(Records(s) \ late) <= Room
    <2>1. PICK late \in SUBSET Records(s) :
            /\ Cardinality(late) + Cardinality(Exposed(s)) <= Cardinality(Workers(s))
            /\ Total(Records(s) \ late) <= Room
      BY DEF CapInv, WithinOverrun, IsLate
    <2>2. IsFiniteSet(late) /\ Cardinality(late) \in Nat
      BY RecordsCounted DEF CapInv, AccountInv
    <2>3. Cardinality(Exposed(s)) \in Nat /\ Cardinality(Workers(s)) \in Nat
      BY WorkersCounted DEF Exposed, Workers
    <2>4. Cardinality(late) <= Cardinality(Workers(s))
      BY <2>1, <2>2, <2>3
    <2> QED
      BY <2>1, <2>4
  <1> QED
    BY <1>1 DEF OverrunBounded, CapInv, Concealed

(* However stale the ledgers the workers act on, and whatever answers      *)
(* cost, but for one call per worker of it a scope is within its cap       *)
(* (check_call_allowed_for_scope).                                         *)
THEOREM CapOverrun == Spec => []OverrunBounded
PROOF
  <1>1. CapInv => OverrunBounded
    BY CapMeans
  <1> QED
    BY <1>1, CapInit, CapStep, PTL DEF Spec

(* Behind a torn ledger no worker makes more than the call it was in       *)
(* (read_jsonl refuses the file, and the guard refuses every new call).    *)
THEOREM HiddenCalls == Spec => []HiddenCallsBounded
PROOF
  <1>1. CapInv => HiddenCallsBounded
    BY CapMeans
  <1> QED
    BY <1>1, CapInit, CapStep, PTL DEF Spec
=============================================================================
