---------------------------- MODULE StreamProofs ----------------------------
(***************************************************************************)
(* For any streams, baselines, patches and number of commands, each stopped*)
(* or failing at any file operation: the profile and the metrics are of    *)
(* traces that were stored, and the registry stays what InstallerProofs    *)
(* proves it to be.  StreamSafe says of a queue of file operations that    *)
(* each disk it leads through holds what streams have promised.            *)
(***************************************************************************)
EXTENDS RunStream, InstallerProofs
-----------------------------------------------------------------------------
(* What a stream leaves on a disk, after c commands.                       *)
TraceRecords == [run : Nat, event : Nat, version : Nat, captured : BOOLEAN]
StreamKinds  == {"trace", "profile.json", "profile", "metrics"}

TraceOk(content, run) ==
  /\ content \in Seq(TraceRecords)
  /\ \A k \in DOMAIN content : content[k].run = run /\ content[k].event = k

TracesOk(d, c) ==
  \A q \in DOMAIN d : q[1] = "trace" =>
    \E run \in 1 .. c : q = TraceFile(run) /\ (d[q] # Torn => TraceOk(d[q], run))

TracedIn(d, trace) ==
  LET path == TraceFile(trace.run)
  IN /\ path \in DOMAIN d
     /\ d[path] # Torn => \E k \in DOMAIN d[path] : d[path][k] = trace

CountedOk(d, counted) ==
  /\ counted \in Seq(TraceRecords)
  /\ \A i, j \in DOMAIN counted : counted[i] = counted[j] => i = j
  /\ \A i \in DOMAIN counted : TracedIn(d, counted[i])

ProfileOk(d) ==
  /\ \A kind \in ProfileKinds : SplitFile(kind) \in DOMAIN d => ProfileFile \in DOMAIN d
  /\ ReadableIn(d, ProfileFile) => \A kind \in ProfileKinds : CountedOk(d, d[ProfileFile][kind])

FailuresIn(d) == d[ProfileFile]["failure_fingerprints"]

(* The first k traces of a run are counted.                                *)
AllCounted(d, run, k) ==
  /\ k > 0 => ProfileFile \in DOMAIN d
  /\ ReadableIn(d, ProfileFile) => \A i \in 1 .. k :
       \E j \in DOMAIN FailuresIn(d) : FailuresIn(d)[j] = d[TraceFile(run)][i]

(* There are k traces of a run.                                            *)
Holds(d, run, k) ==
  IF k = 0 THEN TraceFile(run) \notin DOMAIN d
  ELSE ReadableIn(d, TraceFile(run)) /\ Len(d[TraceFile(run)]) = k

MetricsOk(d, c) ==
  \A q \in DOMAIN d : q[1] = "metrics" =>
    \E run \in 1 .. c :
      /\ q = MetricsFile(run)
      /\ d[q] # Torn /\ d[q].mode = "stream" =>
           /\ d[q].events \in Nat
           /\ Holds(d, run, d[q].events) /\ AllCounted(d, run, d[q].events)

StreamOk(d, c) == TracesOk(d, c) /\ ProfileOk(d) /\ MetricsOk(d, c)

(* No more than k traces of the run are counted.                           *)
CountedTo(d, run, k) ==
  ReadableIn(d, ProfileFile) => \A kind \in ProfileKinds :
    \A i \in DOMAIN d[ProfileFile][kind] :
      d[ProfileFile][kind][i].run = run => d[ProfileFile][kind][i].event <= k

Streaming == {"stream", "profile"}

StreamJobOk(d, j, c) ==
  j.at \in Streaming =>
    \E k \in 0 .. MaxEvents :
      /\ j.run = c /\ c >= 1 /\ j.next = k + 1 /\ j.version \in Nat
      /\ MetricsFile(c) \notin DOMAIN d
      /\ AllCounted(d, c, k) /\ CountedTo(d, c, k)
      /\ j.at = "stream" => Holds(d, c, k)
      /\ j.at = "profile" =>
           /\ k + 1 <= MaxEvents
           /\ Holds(d, c, k + 1)
           /\ j.trace = d[TraceFile(c)][k + 1]

StreamSafe(d, queue, e, c) ==
  \E edges : /\ Leads(d, queue, e, edges)
             /\ \A p \in edges : StreamOk(p[1], c)

StreamInv(d, queue, j, c) ==
  /\ c \in Nat
  /\ \E e : StreamSafe(d, queue, e, c) /\ StreamOk(e, c) /\ StreamJobOk(e, j, c)

LEMMA StreamPaths ==
  /\ \A r : TraceFile(r)[1] = "trace" /\ MetricsFile(r)[1] = "metrics"
            /\ TraceFile(r)[2] = r /\ MetricsFile(r)[2] = r
  /\ \A kind : SplitFile(kind)[1] = "profile"
  /\ ProfileFile[1] = "profile.json"
  /\ \A r, s : /\ TraceFile(r) = TraceFile(s) => r = s
               /\ MetricsFile(r) = MetricsFile(s) => r = s
               /\ TraceFile(r) # MetricsFile(s)
               /\ TraceFile(r) # ProfileFile /\ MetricsFile(r) # ProfileFile
               /\ TraceFile(r) # SplitFile(s) /\ MetricsFile(r) # SplitFile(s)
               /\ SplitFile(r) # ProfileFile
  <1>1. \A r : TraceFile(r)[1] = "trace" /\ TraceFile(r)[2] = r
    BY DEF TraceFile
  <1>2. \A r : MetricsFile(r)[1] = "metrics" /\ MetricsFile(r)[2] = r
    BY DEF MetricsFile
  <1>3. \A kind : SplitFile(kind)[1] = "profile"
    BY DEF SplitFile
  <1>4. ProfileFile[1] = "profile.json"
    BY DEF ProfileFile
  <1>5. ASSUME NEW r, NEW s
        PROVE  /\ TraceFile(r) = TraceFile(s) => r = s
               /\ MetricsFile(r) = MetricsFile(s) => r = s
               /\ TraceFile(r) # MetricsFile(s)
               /\ TraceFile(r) # ProfileFile /\ MetricsFile(r) # ProfileFile
               /\ TraceFile(r) # SplitFile(s) /\ MetricsFile(r) # SplitFile(s)
               /\ SplitFile(r) # ProfileFile
    <2>1. TraceFile(r)[2] = r /\ TraceFile(s)[2] = s /\ MetricsFile(r)[2] = r /\ MetricsFile(s)[2] = s
      BY <1>1, <1>2
    <2>2. /\ TraceFile(r)[1] = "trace" /\ MetricsFile(s)[1] = "metrics" /\ MetricsFile(r)[1] = "metrics"
          /\ SplitFile(s)[1] = "profile" /\ SplitFile(r)[1] = "profile"
      BY <1>1, <1>2, <1>3
    <2>3. ProfileFile[1] = "profile.json"
      BY <1>4
    <2> HIDE <1>1, <1>2, <1>3, <1>4
    <2>4. TraceFile(r) = TraceFile(s) => r = s
      BY <2>1, Zenon
    <2>5. MetricsFile(r) = MetricsFile(s) => r = s
      BY <2>1, Zenon
    <2> QED BY <2>2, <2>3, <2>4, <2>5
  <1> QED BY <1>1, <1>2, <1>3, <1>4, <1>5

(* Streams see no other file.                                              *)
LEMMA StreamAgrees ==
  ASSUME NEW d, NEW e, Agree(d, e, StreamKinds), NEW c, StreamOk(d, c)
  PROVE  /\ StreamOk(e, c)
         /\ \A j : StreamJobOk(d, j, c) => StreamJobOk(e, j, c)
  <1>1. /\ \A q \in DOMAIN e : q[1] \in StreamKinds => q \in DOMAIN d /\ e[q] = d[q]
        /\ \A r : TraceFile(r) \in DOMAIN d <=> TraceFile(r) \in DOMAIN e
        /\ \A r : TraceFile(r) \in DOMAIN d => e[TraceFile(r)] = d[TraceFile(r)]
        /\ \A r : MetricsFile(r) \in DOMAIN d <=> MetricsFile(r) \in DOMAIN e
        /\ ProfileFile \in DOMAIN d <=> ProfileFile \in DOMAIN e
        /\ ProfileFile \in DOMAIN d => e[ProfileFile] = d[ProfileFile]
        /\ \A kind : SplitFile(kind) \in DOMAIN d <=> SplitFile(kind) \in DOMAIN e
    BY StreamPaths DEF Agree, StreamKinds
  <1>2. TracesOk(e, c)
    <2> SUFFICES ASSUME NEW q \in DOMAIN e, q[1] = "trace"
                 PROVE  \E run \in 1 .. c : q = TraceFile(run) /\ (e[q] # Torn => TraceOk(e[q], run))
      BY DEF TracesOk
    <2>1. q \in DOMAIN d /\ e[q] = d[q]
      BY <1>1 DEF StreamKinds
    <2> QED BY <2>1 DEF StreamOk, TracesOk
  <1>3. \A trace : TracedIn(d, trace) => TracedIn(e, trace)
    BY <1>1 DEF TracedIn
  <1>4. \A counted : CountedOk(d, counted) => CountedOk(e, counted)
    BY <1>3 DEF CountedOk
  <1>5. ReadableIn(e, ProfileFile) => ReadableIn(d, ProfileFile) /\ e[ProfileFile] = d[ProfileFile]
    BY <1>1 DEF ReadableIn
  <1>6. ProfileOk(e)
    BY <1>1, <1>4, <1>5 DEF StreamOk, ProfileOk
  <1>7. \A r, k : Holds(d, r, k) => Holds(e, r, k)
    BY <1>1 DEF Holds, ReadableIn
  <1>8. ASSUME NEW r, NEW k, AllCounted(d, r, k), k = 0 \/ TraceFile(r) \in DOMAIN d, k \in Nat
        PROVE  AllCounted(e, r, k)
    <2>1. k > 0 => ProfileFile \in DOMAIN e
      BY <1>1, <1>8 DEF AllCounted
    <2>2. ASSUME ReadableIn(e, ProfileFile), NEW i \in 1 .. k
          PROVE  \E j \in DOMAIN FailuresIn(e) : FailuresIn(e)[j] = e[TraceFile(r)][i]
      <3>1. ReadableIn(d, ProfileFile) /\ FailuresIn(e) = FailuresIn(d)
        BY <1>5, <2>2 DEF FailuresIn
      <3>2. e[TraceFile(r)] = d[TraceFile(r)]
        <4>1. k # 0
          BY <1>8
        <4> QED BY <1>1, <1>8, <4>1
      <3> QED BY <1>8, <3>1, <3>2 DEF AllCounted
    <2> QED BY <2>1, <2>2 DEF AllCounted
  <1>9. ASSUME NEW r, NEW k \in Nat, AllCounted(d, r, k), Holds(d, r, k)
        PROVE  AllCounted(e, r, k)
    BY <1>8, <1>9 DEF Holds, ReadableIn
  <1>10. MetricsOk(e, c)
    <2> SUFFICES ASSUME NEW q \in DOMAIN e, q[1] = "metrics"
                 PROVE  \E run \in 1 .. c :
                          /\ q = MetricsFile(run)
                          /\ e[q] # Torn /\ e[q].mode = "stream" =>
                               /\ e[q].events \in Nat
                               /\ Holds(e, run, e[q].events) /\ AllCounted(e, run, e[q].events)
      BY DEF MetricsOk
    <2>1. q \in DOMAIN d /\ e[q] = d[q]
      BY <1>1 DEF StreamKinds
    <2>2. PICK run \in 1 .. c :
                          /\ q = MetricsFile(run)
                          /\ d[q] # Torn /\ d[q].mode = "stream" =>
                               /\ d[q].events \in Nat
                               /\ Holds(d, run, d[q].events) /\ AllCounted(d, run, d[q].events)
      BY <2>1 DEF StreamOk, MetricsOk
    <2> QED BY <1>7, <1>9, <2>1, <2>2
  <1>11. ASSUME NEW j, StreamJobOk(d, j, c), j.at \in Streaming
         PROVE  StreamJobOk(e, j, c)
    <2>1. PICK k \in 0 .. MaxEvents :
            /\ j.run = c /\ c >= 1 /\ j.next = k + 1 /\ j.version \in Nat
            /\ MetricsFile(c) \notin DOMAIN d
            /\ AllCounted(d, c, k) /\ CountedTo(d, c, k)
            /\ j.at = "stream" => Holds(d, c, k)
            /\ j.at = "profile" =>
                 /\ k + 1 <= MaxEvents
                 /\ Holds(d, c, k + 1)
                 /\ j.trace = d[TraceFile(c)][k + 1]
      BY <1>11 DEF StreamJobOk
    <2>2. k = 0 \/ TraceFile(c) \in DOMAIN d
      BY <1>11, <2>1, StreamAssumption DEF Streaming, Holds, ReadableIn
    <2>3. k \in Nat
      BY <2>1, StreamAssumption
    <2>4. AllCounted(e, c, k) /\ CountedTo(e, c, k) /\ MetricsFile(c) \notin DOMAIN e
      BY <1>1, <1>5, <1>8, <2>1, <2>2, <2>3 DEF CountedTo
    <2>5. j.at = "stream" => Holds(e, c, k)
      BY <1>7, <2>1
    <2>6. j.at = "profile" => Holds(e, c, k + 1) /\ j.trace = e[TraceFile(c)][k + 1]
      <3>1. j.at = "profile" => Holds(e, c, k + 1)
        BY <1>7, <2>1
      <3>2. k + 1 # 0
        BY <2>3
      <3>3. j.at = "profile" => e[TraceFile(c)] = d[TraceFile(c)]
        BY <1>1, <2>1, <3>2 DEF Holds, ReadableIn
      <3> QED BY <2>1, <3>1, <3>3
    <2> QED BY <2>1, <2>4, <2>5, <2>6 DEF StreamJobOk
  <1>12. \A j : StreamJobOk(d, j, c) => StreamJobOk(e, j, c)
    BY <1>11 DEF StreamJobOk
  <1> QED BY <1>2, <1>6, <1>10, <1>12 DEF StreamOk

(* The file of the running stream's traces, which has no metrics yet.      *)
LEMMA TracePut ==
  ASSUME NEW d, NEW c \in Nat, c >= 1, StreamOk(d, c), MetricsFile(c) \notin DOMAIN d,
         NEW content, content # Torn => TraceOk(content, c),
         TraceFile(c) \in DOMAIN d =>
           /\ d[TraceFile(c)] # Torn
           /\ content # Torn => \A k \in DOMAIN d[TraceFile(c)] :
                k \in DOMAIN content /\ content[k] = d[TraceFile(c)][k]
  PROVE  StreamOk(PutIn(d, TraceFile(c), content), c)
  <1> DEFINE path == TraceFile(c)
             e == PutIn(d, path, content)
  <1>1. /\ DOMAIN e = DOMAIN d \cup {path} /\ e[path] = content
        /\ \A q \in DOMAIN d : q # path => e[q] = d[q]
    BY DEF PutIn
  <1>2. /\ \A r : MetricsFile(r) # path /\ SplitFile(r) # path
        /\ \A r : r # c => TraceFile(r) # path
        /\ ProfileFile # path /\ path[1] = "trace"
    BY StreamPaths
  <1> HIDE DEF e
  <1>3. TracesOk(e, c)
    <2>1. c \in 1 .. c
      OBVIOUS
    <2> QED BY <1>1, <2>1 DEF StreamOk, TracesOk
  <1>4. ASSUME NEW trace, TracedIn(d, trace) PROVE TracedIn(e, trace)
    <2>1. CASE trace.run = c
      BY <1>1, <1>4, <2>1 DEF TracedIn
    <2>2. CASE trace.run # c
      BY <1>1, <1>2, <1>4, <2>2 DEF TracedIn
    <2> QED BY <2>1, <2>2
  <1>5. /\ ProfileFile \in DOMAIN d <=> ProfileFile \in DOMAIN e
        /\ ReadableIn(e, ProfileFile) => ReadableIn(d, ProfileFile) /\ e[ProfileFile] = d[ProfileFile]
    BY <1>1, <1>2 DEF ReadableIn
  <1>6. ProfileOk(e)
    <2>1. \A counted : CountedOk(d, counted) => CountedOk(e, counted)
      BY <1>4 DEF CountedOk
    <2>2. \A kind : SplitFile(kind) \in DOMAIN e => SplitFile(kind) \in DOMAIN d
      BY <1>1, <1>2
    <2> QED BY <1>5, <2>1, <2>2 DEF StreamOk, ProfileOk
  <1>7. ASSUME NEW r, r # c, NEW k, Holds(d, r, k), AllCounted(d, r, k), k \in Nat
        PROVE  Holds(e, r, k) /\ AllCounted(e, r, k)
    <2>1. TraceFile(r) \in DOMAIN e <=> TraceFile(r) \in DOMAIN d
      BY <1>1, <1>2, <1>7
    <2>2. TraceFile(r) \in DOMAIN d => e[TraceFile(r)] = d[TraceFile(r)]
      BY <1>1, <1>2, <1>7
    <2>3. Holds(e, r, k)
      BY <1>7, <2>1, <2>2 DEF Holds, ReadableIn
    <2>4. k > 0 => TraceFile(r) \in DOMAIN d
      BY <1>7 DEF Holds, ReadableIn
    <2>5. ASSUME ReadableIn(e, ProfileFile), NEW i \in 1 .. k
          PROVE  \E j \in DOMAIN FailuresIn(e) : FailuresIn(e)[j] = e[TraceFile(r)][i]
      <3>1. FailuresIn(e) = FailuresIn(d) /\ ReadableIn(d, ProfileFile)
        BY <1>5, <2>5 DEF FailuresIn
      <3>2. e[TraceFile(r)] = d[TraceFile(r)]
        BY <1>7, <2>2, <2>4
      <3> QED BY <1>7, <3>1, <3>2 DEF AllCounted
    <2>6. AllCounted(e, r, k)
      BY <1>5, <1>7, <2>5 DEF AllCounted
    <2> QED BY <2>3, <2>6
  <1>8. MetricsOk(e, c)
    <2> SUFFICES ASSUME NEW q \in DOMAIN e, q[1] = "metrics"
                 PROVE  \E run \in 1 .. c :
                          /\ q = MetricsFile(run)
                          /\ e[q] # Torn /\ e[q].mode = "stream" =>
                               /\ e[q].events \in Nat
                               /\ Holds(e, run, e[q].events) /\ AllCounted(e, run, e[q].events)
      BY DEF MetricsOk
    <2>1. q \in DOMAIN d /\ e[q] = d[q]
      BY <1>1, <1>2
    <2>2. PICK run \in 1 .. c :
                          /\ q = MetricsFile(run)
                          /\ d[q] # Torn /\ d[q].mode = "stream" =>
                               /\ d[q].events \in Nat
                               /\ Holds(d, run, d[q].events) /\ AllCounted(d, run, d[q].events)
      BY <2>1 DEF StreamOk, MetricsOk
    <2>3. run # c
      BY <2>1, <2>2
    <2> QED BY <1>7, <2>1, <2>2, <2>3
  <1>9. StreamOk(e, c)
    BY <1>3, <1>6, <1>8 DEF StreamOk
  <1> QED BY <1>9 DEF e, path

(* A file that holds no traces.                                            *)
LEMMA TracesKept ==
  ASSUME NEW d, NEW c, StreamOk(d, c), NEW path, NEW content, path[1] # "trace"
  PROVE  LET e == PutIn(d, path, content)
         IN /\ TracesOk(e, c)
            /\ \A trace : TracedIn(d, trace) => TracedIn(e, trace)
            /\ \A counted : CountedOk(d, counted) => CountedOk(e, counted)
            /\ \A r : TraceFile(r) \in DOMAIN e <=> TraceFile(r) \in DOMAIN d
            /\ \A r : TraceFile(r) \in DOMAIN d => e[TraceFile(r)] = d[TraceFile(r)]
            /\ \A r, k : Holds(d, r, k) => Holds(e, r, k)
  <1> DEFINE e == PutIn(d, path, content)
  <1>1. /\ DOMAIN e = DOMAIN d \cup {path}
        /\ \A q \in DOMAIN d : q # path => e[q] = d[q]
    BY DEF PutIn
  <1> HIDE DEF e
  <1>2. \A r : TraceFile(r) # path
    BY StreamPaths
  <1>3. /\ \A r : TraceFile(r) \in DOMAIN e <=> TraceFile(r) \in DOMAIN d
        /\ \A r : TraceFile(r) \in DOMAIN d => e[TraceFile(r)] = d[TraceFile(r)]
    BY <1>1, <1>2
  <1>4. TracesOk(e, c)
    BY <1>1 DEF StreamOk, TracesOk
  <1>5. \A trace : TracedIn(d, trace) => TracedIn(e, trace)
    BY <1>3 DEF TracedIn
  <1>6. \A counted : CountedOk(d, counted) => CountedOk(e, counted)
    BY <1>5 DEF CountedOk
  <1>7. \A r, k : Holds(d, r, k) => Holds(e, r, k)
    BY <1>3 DEF Holds, ReadableIn
  <1>8. /\ TracesOk(e, c)
        /\ \A trace : TracedIn(d, trace) => TracedIn(e, trace)
        /\ \A counted : CountedOk(d, counted) => CountedOk(e, counted)
        /\ \A r : TraceFile(r) \in DOMAIN e <=> TraceFile(r) \in DOMAIN d
        /\ \A r : TraceFile(r) \in DOMAIN d => e[TraceFile(r)] = d[TraceFile(r)]
        /\ \A r, k : Holds(d, r, k) => Holds(e, r, k)
    BY <1>3, <1>4, <1>5, <1>6, <1>7
  <1> QED BY <1>8 DEF e

(* A profile that counts what the one before it counts.                    *)
LEMMA ProfilePut ==
  ASSUME NEW d, NEW c \in Nat, StreamOk(d, c), NEW content,
         content # Torn =>
           /\ \A kind \in ProfileKinds : CountedOk(d, content[kind])
           /\ ProfileFile \in DOMAIN d =>
                /\ d[ProfileFile] # Torn
                /\ \A i \in DOMAIN FailuresIn(d) :
                     /\ i \in DOMAIN content["failure_fingerprints"]
                     /\ content["failure_fingerprints"][i] = FailuresIn(d)[i]
  PROVE  StreamOk(PutIn(d, ProfileFile, content), c)
  <1> DEFINE path == ProfileFile
             e == PutIn(d, path, content)
  <1>0. path[1] = "profile.json"
    BY StreamPaths
  <1>1. /\ DOMAIN e = DOMAIN d \cup {path} /\ e[path] = content
        /\ \A q \in DOMAIN d : q # path => e[q] = d[q]
    BY DEF PutIn
  <1>2. /\ TracesOk(e, c)
        /\ \A counted : CountedOk(d, counted) => CountedOk(e, counted)
        /\ \A r, k : Holds(d, r, k) => Holds(e, r, k)
    BY <1>0, TracesKept
  <1>3. \A r : TraceFile(r) \in DOMAIN d => e[TraceFile(r)] = d[TraceFile(r)]
    BY <1>0, TracesKept
  <1> HIDE DEF e
  <1>4. ProfileOk(e)
    BY <1>1, <1>2 DEF ProfileOk, ReadableIn
  <1>5. ASSUME NEW r, NEW k \in Nat, Holds(d, r, k), AllCounted(d, r, k)
        PROVE  AllCounted(e, r, k)
    <2>1. ASSUME content # Torn, NEW i \in 1 .. k
          PROVE  \E j \in DOMAIN FailuresIn(e) : FailuresIn(e)[j] = e[TraceFile(r)][i]
      <3>1. k > 0
        OBVIOUS
      <3>2. ProfileFile \in DOMAIN d /\ d[ProfileFile] # Torn
        BY <1>5, <2>1, <3>1 DEF AllCounted
      <3>3. TraceFile(r) \in DOMAIN d
        BY <1>5, <3>1 DEF Holds, ReadableIn
      <3>4. PICK j \in DOMAIN FailuresIn(d) : FailuresIn(d)[j] = d[TraceFile(r)][i]
        BY <1>5, <3>2 DEF AllCounted, ReadableIn
      <3>5. FailuresIn(e) = content["failure_fingerprints"]
        BY <1>1 DEF FailuresIn
      <3>6. j \in DOMAIN FailuresIn(e) /\ FailuresIn(e)[j] = FailuresIn(d)[j]
        BY <2>1, <3>2, <3>4, <3>5
      <3> QED BY <1>3, <3>3, <3>4, <3>6
    <2>2. ProfileFile \in DOMAIN e /\ (ReadableIn(e, ProfileFile) => content # Torn)
      BY <1>1 DEF ReadableIn
    <2> QED BY <2>1, <2>2 DEF AllCounted
  <1>6. MetricsOk(e, c)
    <2> SUFFICES ASSUME NEW q \in DOMAIN e, q[1] = "metrics"
                 PROVE  \E run \in 1 .. c :
                          /\ q = MetricsFile(run)
                          /\ e[q] # Torn /\ e[q].mode = "stream" =>
                               /\ e[q].events \in Nat
                               /\ Holds(e, run, e[q].events) /\ AllCounted(e, run, e[q].events)
      BY DEF MetricsOk
    <2>1. q \in DOMAIN d /\ e[q] = d[q]
      BY <1>0, <1>1
    <2>2. PICK run \in 1 .. c :
                          /\ q = MetricsFile(run)
                          /\ d[q] # Torn /\ d[q].mode = "stream" =>
                               /\ d[q].events \in Nat
                               /\ Holds(d, run, d[q].events) /\ AllCounted(d, run, d[q].events)
      BY <2>1 DEF StreamOk, MetricsOk
    <2> QED BY <1>2, <1>5, <2>1, <2>2
  <1>7. StreamOk(e, c)
    BY <1>2, <1>4, <1>6 DEF StreamOk
  <1> QED BY <1>7 DEF e, path

(* A file that is neither of traces nor the profile.                       *)
LEMMA OtherPut ==
  ASSUME NEW d, NEW c \in Nat, StreamOk(d, c), NEW path, NEW content,
         path[1] \notin {"trace", "profile.json"},
         path[1] = "profile" => ProfileFile \in DOMAIN d,
         path[1] = "metrics" =>
           \E run \in 1 .. c :
             /\ path = MetricsFile(run)
             /\ content # Torn /\ content.mode = "stream" =>
                  /\ content.events \in Nat
                  /\ Holds(d, run, content.events) /\ AllCounted(d, run, content.events)
  PROVE  LET e == PutIn(d, path, content)
         IN /\ StreamOk(e, c)
            /\ \A r, k : k \in Nat /\ Holds(d, r, k) => Holds(e, r, k)
            /\ \A r, k : k \in Nat /\ Holds(d, r, k) /\ AllCounted(d, r, k) => AllCounted(e, r, k)
            /\ \A r, k : CountedTo(d, r, k) => CountedTo(e, r, k)
            /\ \A r : TraceFile(r) \in DOMAIN d => e[TraceFile(r)] = d[TraceFile(r)]
  <1> DEFINE e == PutIn(d, path, content)
  <1>1. /\ DOMAIN e = DOMAIN d \cup {path} /\ e[path] = content
        /\ \A q \in DOMAIN d : q # path => e[q] = d[q]
    BY DEF PutIn
  <1>2. /\ TracesOk(e, c)
        /\ \A counted : CountedOk(d, counted) => CountedOk(e, counted)
        /\ \A r, k : Holds(d, r, k) => Holds(e, r, k)
    BY TracesKept
  <1>3. \A r : TraceFile(r) \in DOMAIN d => e[TraceFile(r)] = d[TraceFile(r)]
    BY TracesKept
  <1> HIDE DEF e
  <1>4. /\ ProfileFile \in DOMAIN d <=> ProfileFile \in DOMAIN e
        /\ ReadableIn(e, ProfileFile) <=> ReadableIn(d, ProfileFile)
        /\ ReadableIn(e, ProfileFile) => e[ProfileFile] = d[ProfileFile]
    <2>1. ProfileFile # path
      BY StreamPaths
    <2> QED BY <1>1, <2>1 DEF ReadableIn
  <1>5. ProfileOk(e)
    <2>1. \A kind \in ProfileKinds : SplitFile(kind) \in DOMAIN e => ProfileFile \in DOMAIN e
      BY <1>1, <1>4, StreamPaths DEF StreamOk, ProfileOk
    <2> QED BY <1>2, <1>4, <2>1 DEF StreamOk, ProfileOk
  <1>6. ASSUME NEW r, NEW k \in Nat, Holds(d, r, k), AllCounted(d, r, k)
        PROVE  AllCounted(e, r, k)
    <2>1. ASSUME ReadableIn(e, ProfileFile), NEW i \in 1 .. k
          PROVE  \E j \in DOMAIN FailuresIn(e) : FailuresIn(e)[j] = e[TraceFile(r)][i]
      <3>1. FailuresIn(e) = FailuresIn(d) /\ ReadableIn(d, ProfileFile)
        BY <1>4, <2>1 DEF FailuresIn
      <3>2. k # 0
        OBVIOUS
      <3>3. e[TraceFile(r)] = d[TraceFile(r)]
        BY <1>3, <1>6, <3>2 DEF Holds, ReadableIn
      <3> QED BY <1>6, <3>1, <3>3 DEF AllCounted
    <2> QED BY <1>4, <1>6, <2>1 DEF AllCounted
  <1>7. \A r, k : CountedTo(d, r, k) => CountedTo(e, r, k)
    BY <1>4 DEF CountedTo
  <1>8. MetricsOk(e, c)
    <2> SUFFICES ASSUME NEW q \in DOMAIN e, q[1] = "metrics"
                 PROVE  \E run \in 1 .. c :
                          /\ q = MetricsFile(run)
                          /\ e[q] # Torn /\ e[q].mode = "stream" =>
                               /\ e[q].events \in Nat
                               /\ Holds(e, run, e[q].events) /\ AllCounted(e, run, e[q].events)
      BY DEF MetricsOk
    <2>1. CASE q = path
      <3>1. PICK run \in 1 .. c :
             /\ path = MetricsFile(run)
             /\ content # Torn /\ content.mode = "stream" =>
                  /\ content.events \in Nat
                  /\ Holds(d, run, content.events) /\ AllCounted(d, run, content.events)
        BY <2>1
      <3> QED BY <1>1, <1>2, <1>6, <2>1, <3>1
    <2>2. CASE q # path
      <3>1. q \in DOMAIN d /\ e[q] = d[q]
        BY <1>1, <2>2
      <3>2. PICK run \in 1 .. c :
                          /\ q = MetricsFile(run)
                          /\ d[q] # Torn /\ d[q].mode = "stream" =>
                               /\ d[q].events \in Nat
                               /\ Holds(d, run, d[q].events) /\ AllCounted(d, run, d[q].events)
        BY <3>1 DEF StreamOk, MetricsOk
      <3> QED BY <1>2, <1>6, <3>1, <3>2
    <2> QED BY <2>1, <2>2
  <1>9. StreamOk(e, c)
    BY <1>2, <1>5, <1>8 DEF StreamOk
  <1>10. /\ StreamOk(e, c)
         /\ \A r, k : k \in Nat /\ Holds(d, r, k) => Holds(e, r, k)
         /\ \A r, k : k \in Nat /\ Holds(d, r, k) /\ AllCounted(d, r, k) => AllCounted(e, r, k)
         /\ \A r, k : CountedTo(d, r, k) => CountedTo(e, r, k)
         /\ \A r : TraceFile(r) \in DOMAIN d => e[TraceFile(r)] = d[TraceFile(r)]
    BY <1>2, <1>3, <1>6, <1>7, <1>9
  <1> QED BY <1>10 DEF e

LEMMA StreamSafeNowhere ==
  ASSUME NEW d, NEW c
  PROVE  StreamSafe(d, <<>>, d, c)
  <1>1. Leads(d, <<>>, d, {})
    BY LeadsNowhere
  <1> QED BY <1>1 DEF StreamSafe

LEMMA StreamSafeOn ==
  ASSUME NEW d, NEW p, NEW e, NEW q, NEW f, NEW c, StreamSafe(d, p, e, c), StreamSafe(e, q, f, c)
  PROVE  StreamSafe(d, p \o q, f, c)
  <1>1. PICK a : Leads(d, p, e, a) /\ \A x \in a : StreamOk(x[1], c)
    BY DEF StreamSafe
  <1>2. PICK b : Leads(e, q, f, b) /\ \A x \in b : StreamOk(x[1], c)
    BY DEF StreamSafe
  <1> DEFINE ab == a \cup b
  <1>3. a \subseteq ab /\ b \subseteq ab /\ \A x \in ab : StreamOk(x[1], c)
    BY <1>1, <1>2
  <1> HIDE DEF ab
  <1>4. Leads(d, p, e, ab) /\ Leads(e, q, f, ab)
    BY <1>1, <1>2, <1>3, LeadsMore
  <1>5. Leads(d, p \o q, f, ab)
    BY <1>4, LeadsOn
  <1> QED BY <1>3, <1>5 DEF StreamSafe

LEMMA StreamSafeWrite ==
  ASSUME NEW d, NEW path, NEW content, NEW c, StreamOk(d, c), StreamOk(PutIn(d, path, Torn), c)
  PROVE  StreamSafe(d, <<Write(path, content)>>, PutIn(d, path, content), c)
  <1> DEFINE o == Write(path, content)
             h == PutIn(d, path, Torn)
             e == PutIn(d, path, content)
             edges == {<<d, h>>, <<h, e>>}
  <1>1. o.op = "write" /\ o.path = path /\ o.content = content /\ IsWrite(o)
    BY WriteOperation
  <1>2. Half(d, o) = h /\ Done(d, o) = e
    BY <1>1 DEF Half, Done
  <1> HIDE DEF o, h, e
  <1>3. Performs(d, o, e, edges)
    BY <1>1, <1>2 DEF Performs, Operations
  <1>4. Leads(d, <<o>>, e, edges)
    BY <1>3, LeadsOver
  <1>5. \A p \in edges : StreamOk(p[1], c)
    BY DEF h, e
  <1>6. StreamSafe(d, <<o>>, e, c)
    <2> HIDE DEF edges
    <2> QED BY <1>4, <1>5 DEF StreamSafe
  <1> QED BY <1>6 DEF o, e

(* Operations on other files.                                              *)
LEMMA StreamSafeSparing ==
  ASSUME NEW d, NEW queue, NEW e, NEW edges, Leads(d, queue, e, edges), Spares(queue, StreamKinds),
         NEW c, StreamOk(d, c)
  PROVE  /\ StreamSafe(d, queue, e, c) /\ StreamOk(e, c) /\ Agree(d, e, StreamKinds)
         /\ \A j : StreamJobOk(d, j, c) => StreamJobOk(e, j, c)
  <1> DEFINE kept == {p \in edges : Agree(d, p[1], StreamKinds) /\ Agree(d, p[2], StreamKinds)}
  <1>1. Agree(d, e, StreamKinds) /\ Leads(d, queue, e, kept)
    BY LeadsKeeps
  <1>2. \A p \in kept : StreamOk(p[1], c)
    BY StreamAgrees
  <1> HIDE DEF kept
  <1>3. StreamSafe(d, queue, e, c)
    BY <1>1, <1>2 DEF StreamSafe
  <1> QED BY <1>1, <1>3, StreamAgrees

LEMMA StreamDrained ==
  ASSUME NEW d, NEW j, NEW c, StreamInv(d, <<>>, j, c)
  PROVE  StreamOk(d, c) /\ StreamJobOk(d, j, c)
  <1>1. PICK e : StreamSafe(d, <<>>, e, c) /\ StreamOk(e, c) /\ StreamJobOk(e, j, c)
    BY DEF StreamInv
  <1>2. e = d
    BY <1>1, LeadsFrom DEF StreamSafe
  <1> QED BY <1>1, <1>2

LEMMA StreamUnderWay ==
  ASSUME NEW d, NEW queue, NEW j, NEW c, StreamInv(d, queue, j, c)
  PROVE  StreamOk(d, c)
  <1>1. PICK e : StreamSafe(d, queue, e, c) /\ StreamOk(e, c)
    BY DEF StreamInv
  <1>2. PICK edges : Leads(d, queue, e, edges) /\ \A p \in edges : StreamOk(p[1], c)
    BY <1>1 DEF StreamSafe
  <1>3. CASE queue = <<>>
    BY <1>1, <1>2, <1>3, LeadsFrom
  <1>4. CASE queue # <<>>
    <2>1. PICK f : <<d, f>> \in edges
      BY <1>2, <1>4, LeadsFrom
    <2>2. StreamOk(<<d, f>>[1], c)
      BY <1>2, <2>1
    <2> QED BY <2>2
  <1> QED BY <1>3, <1>4

LEMMA StreamFileStepKeeps ==
  ASSUME NEW j, NEW c, StreamInv(disk, todo, j, c), FileStep
  PROVE  StreamInv(disk', todo', j, c)
  <1>1. PICK e : StreamSafe(disk, todo, e, c) /\ StreamOk(e, c) /\ StreamJobOk(e, j, c)
    BY DEF StreamInv
  <1>2. PICK edges : Leads(disk, todo, e, edges) /\ \A p \in edges : StreamOk(p[1], c)
    BY <1>1 DEF StreamSafe
  <1>3. Leads(disk', todo', e, edges)
    BY <1>2, LeadsAway
  <1> QED BY <1>1, <1>2, <1>3 DEF StreamInv, StreamSafe

(* One command more.                                                       *)
LEMMA StreamOkLater ==
  ASSUME NEW d, NEW c \in Nat, NEW more \in Nat, c <= more, StreamOk(d, c)
  PROVE  StreamOk(d, more)
  <1>1. \A run \in 1 .. c : run \in 1 .. more
    OBVIOUS
  <1>2. TracesOk(d, more)
    BY <1>1 DEF StreamOk, TracesOk
  <1>3. MetricsOk(d, more)
    BY <1>1 DEF StreamOk, MetricsOk
  <1> QED BY <1>2, <1>3 DEF StreamOk

-----------------------------------------------------------------------------
(* The commands that are no streams spare the files of the streams.        *)
Stream == StreamInv(disk, todo, job, commands)

LEMMA SparingQueues ==
  /\ Spares(<<>>, StreamKinds)
  /\ \A s, p, t : Spares(Record(s, p, t), StreamKinds)
  /\ \A program : Spares(InitWorkflow(program), StreamKinds)
  /\ \A m, program, base, patch : Spares(PatchInstalled(m, program, base, patch), StreamKinds)
  <1>1. Spares(<<>>, StreamKinds)
    BY DEF Spares
  <1>2. \A s, p, t : Spares(Record(s, p, t), StreamKinds)
    <2> TAKE s, p, t
    <2> DEFINE content == [patch |-> p, target |-> t]
    <2>1. Record(s, p, t) = <<Write(RecordFile(s, p), content)>>
      BY DEF Record
    <2> HIDE DEF content
    <2>2. Write(RecordFile(s, p), content).path = RecordFile(s, p)
      BY DEF Write
    <2>3. RecordFile(s, p)[1] = "record"
      BY PathsApart
    <2> QED BY <2>1, <2>2, <2>3, SparesOne DEF StreamKinds
  <1>3. \A m, program, metadata : Spares(WriteVersion(m, program, metadata), StreamKinds)
    <2> TAKE m, program, metadata
    <2>1. /\ Write(ProgramFile(m), program).path = ProgramFile(m)
          /\ Write(MetadataFile(m), metadata).path = MetadataFile(m)
      BY DEF Write
    <2>2. ProgramFile(m)[1] = "program" /\ MetadataFile(m)[1] = "metadata"
      BY PathsApart
    <2> QED BY <2>1, <2>2, SparesTwo DEF WriteVersion, StreamKinds
  <1>4. \A m : Spares(SetLatest(m), StreamKinds)
    <2> TAKE m
    <2>1. Write(LatestFile, m).path = LatestFile
      BY DEF Write
    <2> QED BY <2>1, PathsApart, SparesOne DEF SetLatest, StreamKinds
  <1>5. Spares(<<MakeDir(WorkflowDir), Write(WorkflowFile, "metadata")>>, StreamKinds)
    <2>1. MakeDir(WorkflowDir).path = WorkflowDir /\ Write(WorkflowFile, "metadata").path = WorkflowFile
      BY DEF MakeDir, Write
    <2> QED BY <2>1, PathsApart, SparesTwo DEF StreamKinds
  <1>6. ASSUME NEW m, NEW program, NEW metadata
        PROVE  \E S : WriteVersion(m, program, metadata) \in Seq(S) /\ SetLatest(m) \in Seq(S)
    <2> DEFINE a == Write(ProgramFile(m), program)
               b == Write(MetadataFile(m), metadata)
               l == Write(LatestFile, m)
    <2>1. WriteVersion(m, program, metadata) = <<a, b>> /\ SetLatest(m) = <<l>>
      BY DEF WriteVersion, SetLatest
    <2> HIDE DEF a, b, l
    <2>2. <<a, b>> \in Seq({a, b, l}) /\ <<l>> \in Seq({a, b, l})
      OBVIOUS
    <2> QED BY <2>1, <2>2
  <1>7. ASSUME NEW program
        PROVE  Spares(InitWorkflow(program), StreamKinds)
    <2> DEFINE a == <<MakeDir(WorkflowDir), Write(WorkflowFile, "metadata")>>
               b == WriteVersion(1, program, Baseline)
               l == SetLatest(1)
    <2>1. PICK S : b \in Seq(S) /\ l \in Seq(S)
      BY <1>6
    <2>2. \E T : a \in Seq(T)
      <3> DEFINE x == MakeDir(WorkflowDir)
                 y == Write(WorkflowFile, "metadata")
      <3> HIDE DEF x, y
      <3>1. <<x, y>> \in Seq({x, y})
        OBVIOUS
      <3> QED BY <3>1 DEF x, y
    <2>3. PICK T : a \in Seq(T)
      BY <2>2
    <2>4. Spares(a, StreamKinds) /\ Spares(b, StreamKinds) /\ Spares(l, StreamKinds)
      BY <1>3, <1>4, <1>5
    <2>5. InitWorkflow(program) = (a \o b) \o l
      BY DEF InitWorkflow
    <2> HIDE DEF a, b, l
    <2> DEFINE both == S \cup T
    <2>6. a \in Seq(both) /\ b \in Seq(both) /\ l \in Seq(both)
      BY <2>1, <2>3
    <2> HIDE DEF both
    <2>7. Spares(a \o b, StreamKinds) /\ a \o b \in Seq(both)
      BY <2>4, <2>6, SparesJoin
    <2>8. Spares((a \o b) \o l, StreamKinds)
      BY <2>4, <2>6, <2>7, SparesJoin
    <2> QED BY <2>5, <2>8
  <1>8. ASSUME NEW m, NEW program, NEW base, NEW patch
        PROVE  Spares(PatchInstalled(m, program, base, patch), StreamKinds)
    <2> DEFINE a == WriteVersion(m, program, Metadata(base, patch.id))
               b == SetLatest(m)
               l == Record("installed", patch, m)
    <2>1. PICK S : a \in Seq(S) /\ b \in Seq(S)
      BY <1>6
    <2>2. \E T : l \in Seq(T)
      <3> DEFINE x == Write(RecordFile("installed", patch), [patch |-> patch, target |-> m])
      <3>1. l = <<x>>
        BY DEF Record
      <3> HIDE DEF x, l
      <3>2. <<x>> \in Seq({x})
        OBVIOUS
      <3> QED BY <3>1, <3>2
    <2>3. PICK T : l \in Seq(T)
      BY <2>2
    <2>4. Spares(a, StreamKinds) /\ Spares(b, StreamKinds) /\ Spares(l, StreamKinds)
      BY <1>2, <1>3, <1>4
    <2>5. PatchInstalled(m, program, base, patch) = (a \o b) \o l
      BY DEF PatchInstalled, PatchVersion
    <2> HIDE DEF a, b, l
    <2> DEFINE both == S \cup T
    <2>6. a \in Seq(both) /\ b \in Seq(both) /\ l \in Seq(both)
      BY <2>1, <2>3
    <2> HIDE DEF both
    <2>7. Spares(a \o b, StreamKinds) /\ a \o b \in Seq(both)
      BY <2>4, <2>6, SparesJoin
    <2>8. Spares((a \o b) \o l, StreamKinds)
      BY <2>4, <2>6, <2>7, SparesJoin
    <2> QED BY <2>5, <2>8
  <1> QED BY <1>1, <1>2, <1>7, <1>8

LEMMA SparingKeeps ==
  ASSUME NEW P, Registry(P)', Stream, disk' = disk, Spares(todo', StreamKinds),
         commands' \in Nat, commands <= commands', job'.at \notin Streaming
  PROVE  Stream'
  <1>1. commands \in Nat /\ StreamOk(disk, commands)
    BY StreamUnderWay DEF Stream, StreamInv
  <1>2. StreamOk(disk, commands')
    BY <1>1, StreamOkLater
  <1>3. PICK e : Safe(disk', todo', e, job', evaluated', P)
    BY DEF Registry, RegistryInv
  <1>4. PICK edges : Leads(disk, todo', e, edges)
    BY <1>3 DEF Safe
  <1>5. StreamSafe(disk', todo', e, commands') /\ StreamOk(e, commands')
    BY <1>2, <1>4, StreamSafeSparing
  <1>6. StreamJobOk(e, job', commands')
    BY DEF StreamJobOk
  <1> QED BY <1>5, <1>6 DEF Stream, StreamInv

LEMMA InstallerSparesStreams ==
  ASSUME NEW P, Instructions(P), Registry(P), Stream, InstallerStep
  PROVE  Stream'
  <1>0. Registry(P)' /\ commands \in Nat
    BY InstallerKeeps DEF Stream, StreamInv
  <1> DEFINE Quiet == /\ disk' = disk /\ Spares(todo', StreamKinds)
                      /\ commands' \in Nat /\ commands <= commands'
                      /\ job'.at \notin Streaming
  <1>1. Quiet => Stream'
    BY <1>0, SparingKeeps
  <1>2. /\ Idle.at \notin Streaming
        /\ NextAttempt => job'.at \notin Streaming
    BY DEF Idle, NextAttempt, Streaming
  <1>3. commands' = commands \/ commands' = commands + 1
          => commands' \in Nat /\ commands <= commands'
    BY <1>0
  <1>4. ASSUME NEW base \in Bases, InitWorkflowCommand(base) PROVE Quiet
    BY <1>2, <1>3, <1>4, SparingQueues DEF InitWorkflowCommand, Free, Started
  <1>5. ASSUME NEW attempts, Optimize(attempts) PROVE Quiet
    <2>1. job'.at \notin Streaming
      BY <1>5 DEF Optimize, Streaming
    <2> QED BY <1>3, <1>5, <2>1, SparingQueues DEF Optimize, Free, Started
  <1>6. CASE NoPatchReturned \/ EvaluationFails \/ Installed
    BY <1>1, <1>2, <1>3, <1>6, SparingQueues DEF NoPatchReturned, EvaluationFails, Installed, At
  <1>7. ASSUME NEW patch, Propose(patch) PROVE Quiet
    <2>1. job'.at \notin Streaming
      BY <1>7 DEF Propose, Streaming
    <2> QED BY <1>3, <1>7, <2>1, SparingQueues DEF Propose
  <1>8. ASSUME NEW valid, Validate(valid) PROVE Quiet
    <2>1. valid => job'.at \notin Streaming
      <3>1. PICK n : JobOk(disk, job, evaluated, P, n)
        BY <1>8, FromRest DEF Validate, At
      <3>2. job = [at |-> job.at, attempts |-> job.attempts, asked |-> job.asked,
                   patch |-> job.patch, base |-> job.base, program |-> job.program]
        BY <1>8, <3>1 DEF JobOk, Validate, At
      <3>3. valid => job'.at = "evaluate"
        BY <1>8, <3>2 DEF Validate
      <3> QED BY <3>3 DEF Streaming
    <2>2. disk' = disk /\ commands' = commands
      BY <1>8 DEF Validate
    <2>3. CASE valid
      BY <1>3, <1>8, <2>1, <2>2, <2>3, SparingQueues DEF Validate
    <2>4. CASE ~valid
      BY <1>2, <1>3, <1>8, <2>2, <2>4, SparingQueues DEF Validate, RejectPatch
    <2> QED BY <2>3, <2>4
  <1>9. ASSUME NEW accepted, Evaluate(accepted) PROVE Quiet
    <2>1. accepted => job'.at \notin Streaming
      <3>1. PICK n : JobOk(disk, job, evaluated, P, n)
        BY <1>9, FromRest DEF Evaluate, At
      <3>2. job = [at |-> job.at, attempts |-> job.attempts, asked |-> job.asked,
                   patch |-> job.patch, base |-> job.base, program |-> job.program]
        BY <1>9, <3>1 DEF JobOk, Evaluate, At
      <3>3. accepted => job'.at = "install"
        BY <1>9, <3>2 DEF Evaluate
      <3> QED BY <3>3 DEF Streaming
    <2>2. disk' = disk /\ commands' = commands
      BY <1>9 DEF Evaluate
    <2>3. CASE accepted
      BY <1>3, <1>9, <2>1, <2>2, <2>3, SparingQueues DEF Evaluate, At
    <2>4. CASE ~accepted
      BY <1>2, <1>3, <1>9, <2>2, <2>4, SparingQueues DEF Evaluate, RejectPatch
    <2> QED BY <2>3, <2>4
  <1>10. ASSUME Install PROVE Quiet
    <2>1. disk' = disk /\ commands' = commands
      BY <1>10 DEF Install
    <2>2. CASE CanList
      <3>1. todo' = PatchInstalled(NextVersion, job.program, job.base, job.patch)
        BY <1>10, <2>2 DEF Install, InstallAndMark, InstallVersion, PatchInstalled,
               PatchVersion
      <3>2. job'.at \notin Streaming
        BY <1>10, <2>2 DEF Install, Streaming
      <3> QED BY <1>3, <2>1, <3>1, <3>2, SparingQueues
    <2>3. CASE ~CanList
      BY <1>2, <1>3, <1>10, <2>1, <2>3, SparingQueues DEF Install, At
    <2> QED BY <2>2, <2>3
  <1>11. ASSUME AttemptFails PROVE Quiet
    <2>1. job.at = "ask" => job.at \notin Streaming
      BY DEF Streaming
    <2> QED BY <1>2, <1>3, <1>11, <2>1, SparingQueues DEF AttemptFails
  <1>12. ASSUME Stop PROVE Quiet
    BY <1>2, <1>3, <1>12, SparingQueues DEF Stop
  <1>13. CASE FileOperation
    <2>1. job' = job /\ FileStep /\ commands' = commands
      BY <1>13 DEF FileOperation
    <2> QED BY <2>1, StreamFileStepKeeps DEF Stream
  <1> HIDE DEF Quiet
  <1> QED BY <1>1, <1>4, <1>5, <1>6, <1>7, <1>8, <1>9, <1>10, <1>11, <1>12, <1>13 DEF InstallerStep

-----------------------------------------------------------------------------
OffersOf(patches, version) ==
  IF patches = {} THEN <<>>
  ELSE LET patch == CHOOSE p \in patches : TRUE
       IN Record("proposed", patch, version) \o Record("validated", patch, version)

LEMMA OffersWritten ==
  ASSUME NEW d, NEW ev, NEW P, NEW n \in Nat, Registered(d, ev, P, n), NEW j, j.at \notin Asking,
         NEW c, StreamOk(d, c), NEW patches, NEW version
  PROVE  \E e : /\ Safe(d, OffersOf(patches, version), e, j, ev, P) /\ Registered(e, ev, P, n)
                /\ StreamSafe(d, OffersOf(patches, version), e, c) /\ StreamOk(e, c)
                /\ Agree(d, e, StreamKinds)
  <1>0. AskedOk(d, j)
    BY DEF AskedOk
  <1>1. CASE patches = {}
    <2>1. OffersOf(patches, version) = <<>>
      BY <1>1 DEF OffersOf
    <2>2. Agree(d, d, StreamKinds)
      BY DEF Agree
    <2> QED BY <2>1, <2>2, SafeNowhere, StreamSafeNowhere
  <1>2. CASE patches # {}
    <2> DEFINE patch == CHOOSE p \in patches : TRUE
               q == Record("proposed", patch, version)
               r == Record("validated", patch, version)
    <2>1. OffersOf(patches, version) = q \o r
      BY <1>2 DEF OffersOf
    <2> HIDE DEF patch
    <2>2. PICK f : /\ Safe(d, q, f, j, ev, P) /\ Registered(f, ev, P, n) /\ AskedOk(f, j)
      BY <1>0, RecordWritten
    <2>3. PICK e : /\ Safe(f, r, e, j, ev, P) /\ Registered(e, ev, P, n)
      BY <2>2, RecordWritten
    <2>4. Safe(d, q \o r, e, j, ev, P)
      BY <2>2, <2>3, SafeOn
    <2>5. Spares(q, StreamKinds) /\ Spares(r, StreamKinds)
      BY SparingQueues
    <2> HIDE DEF q, r
    <2>6. PICK a : Leads(d, q, f, a)
      BY <2>2 DEF Safe
    <2>7. PICK b : Leads(f, r, e, b)
      BY <2>3 DEF Safe
    <2>8. StreamSafe(d, q, f, c) /\ StreamOk(f, c) /\ Agree(d, f, StreamKinds)
      BY <2>5, <2>6, StreamSafeSparing
    <2>9. StreamSafe(f, r, e, c) /\ StreamOk(e, c) /\ Agree(f, e, StreamKinds)
      BY <2>5, <2>7, <2>8, StreamSafeSparing
    <2>10. StreamSafe(d, q \o r, e, c) /\ Agree(d, e, StreamKinds)
      BY <2>8, <2>9, StreamSafeOn, AgreeFurther
    <2> QED BY <2>1, <2>3, <2>4, <2>9, <2>10
  <1> QED BY <1>1, <1>2

StoredIn(d, run) == IF TraceFile(run) \in DOMAIN d THEN d[TraceFile(run)] ELSE <<>>

(* What the next trace of run c, written as the m-th, leaves.              *)
TracedNext(d, e, c, k, m, trace, content) ==
  /\ StreamSafe(d, <<Write(TraceFile(c), content)>>, e, c) /\ StreamOk(e, c)
  /\ MetricsFile(c) \notin DOMAIN e
  /\ Holds(e, c, m) /\ AllCounted(e, c, k) /\ CountedTo(e, c, k)
  /\ e[TraceFile(c)][m] = trace

LEMMA TraceWritten ==
  ASSUME NEW d, NEW c \in Nat, c >= 1, StreamOk(d, c), MetricsFile(c) \notin DOMAIN d,
         NEW k \in Nat, Holds(d, c, k), AllCounted(d, c, k), CountedTo(d, c, k),
         NEW m, m = k + 1, NEW trace \in TraceRecords, trace.run = c, trace.event = m,
         NEW content, content = Append(StoredIn(d, c), trace)
  PROVE  TracedNext(d, PutIn(d, TraceFile(c), content), c, k, m, trace, content)
  <1> DEFINE path == TraceFile(c)
             stored == StoredIn(d, c)
             e == PutIn(d, path, content)
  <1>1. /\ TraceOk(stored, c) /\ Len(stored) = k
        /\ path \in DOMAIN d => d[path] = stored /\ d[path] # Torn
    <2>1. CASE k = 0
      <3>1. stored = <<>> /\ path \notin DOMAIN d
        BY <2>1 DEF Holds, StoredIn
      <3> QED BY <2>1, <3>1 DEF TraceOk
    <2>2. CASE k # 0
      <3>1. path \in DOMAIN d /\ d[path] # Torn /\ Len(d[path]) = k
        BY <2>2 DEF Holds, ReadableIn
      <3>2. path[1] = "trace" /\ \A run : path = TraceFile(run) => run = c
        BY StreamPaths
      <3>3. TraceOk(d[path], c)
        BY <3>1, <3>2 DEF StreamOk, TracesOk
      <3> QED BY <3>1, <3>3 DEF StoredIn
    <2> QED BY <2>1, <2>2
  <1> HIDE DEF stored
  <1>2. stored \in Seq(TraceRecords)
    BY <1>1 DEF TraceOk
  <1>3. /\ content \in Seq(TraceRecords) /\ Len(content) = k + 1 /\ content[k + 1] = trace
        /\ \A i \in 1 .. k : content[i] = stored[i]
        /\ DOMAIN content = 1 .. k + 1 /\ DOMAIN stored = 1 .. k
    BY <1>1, <1>2 DEF stored
  <1>4. content # Torn
    BY <1>3, StreamAssumption DEF TraceRecords
  <1>5. TraceOk(content, c)
    <2> SUFFICES ASSUME NEW i \in 1 .. k + 1
                 PROVE  content[i].run = c /\ content[i].event = i
      BY <1>3 DEF TraceOk
    <2>1. CASE i = k + 1
      BY <1>3, <2>1
    <2>2. CASE i # k + 1
      <3>1. i \in 1 .. k
        BY <2>2
      <3> QED BY <1>1, <1>3, <3>1 DEF TraceOk
    <2> QED BY <2>1, <2>2
  <1>6. path \in DOMAIN d => \A i \in DOMAIN d[path] : i \in DOMAIN content /\ content[i] = d[path][i]
    BY <1>1, <1>3
  <1>7. StreamOk(e, c) /\ StreamOk(PutIn(d, path, Torn), c)
    <2>1. StreamOk(e, c)
      BY <1>1, <1>5, <1>6, TracePut
    <2>2. StreamOk(PutIn(d, path, Torn), c)
      BY <1>1, TracePut
    <2> QED BY <2>1, <2>2
  <1>8. StreamSafe(d, <<Write(path, content)>>, e, c)
    BY <1>7, StreamSafeWrite
  <1>9. /\ DOMAIN e = DOMAIN d \cup {path} /\ e[path] = content
        /\ \A q \in DOMAIN d : q # path => e[q] = d[q]
    BY DEF PutIn
  <1> HIDE DEF e
  <1>10. MetricsFile(c) # path /\ ProfileFile # path
    BY StreamPaths
  <1>11. Holds(e, c, k + 1)
    BY <1>3, <1>4, <1>9 DEF Holds, ReadableIn
  <1>12. /\ ReadableIn(e, ProfileFile) => ReadableIn(d, ProfileFile) /\ e[ProfileFile] = d[ProfileFile]
         /\ ProfileFile \in DOMAIN d => ProfileFile \in DOMAIN e
    BY <1>9, <1>10 DEF ReadableIn
  <1>13. CountedTo(e, c, k)
    BY <1>12 DEF CountedTo
  <1>14. AllCounted(e, c, k)
    <2> SUFFICES ASSUME ReadableIn(e, ProfileFile), NEW i \in 1 .. k
                 PROVE  \E j \in DOMAIN FailuresIn(e) : FailuresIn(e)[j] = e[TraceFile(c)][i]
      BY <1>12 DEF AllCounted
    <2>1. ReadableIn(d, ProfileFile) /\ FailuresIn(e) = FailuresIn(d)
      BY <1>12 DEF FailuresIn
    <2>2. path \in DOMAIN d
      BY DEF Holds, ReadableIn
    <2>3. e[path][i] = d[path][i]
      BY <1>1, <1>3, <1>9, <2>2
    <2>4. \E j \in DOMAIN FailuresIn(d) : FailuresIn(d)[j] = d[path][i]
      BY <2>1 DEF AllCounted
    <2> QED BY <2>1, <2>3, <2>4
  <1>15. /\ StreamSafe(d, <<Write(path, content)>>, e, c) /\ StreamOk(e, c)
         /\ MetricsFile(c) \notin DOMAIN e
         /\ Holds(e, c, m) /\ AllCounted(e, c, k) /\ CountedTo(e, c, k)
         /\ e[path][m] = trace
    BY <1>3, <1>7, <1>8, <1>9, <1>10, <1>11, <1>13, <1>14
  <1> QED BY <1>15 DEF e, path, TracedNext

LEMMA JoinFour == \A a, b, x, y : <<a, b>> \o <<x, y>> = <<a, b, x, y>>
  <1> TAKE a, b, x, y
  <1> DEFINE p == <<a, b>> \o <<x, y>>
             q == <<a, b, x, y>>
             S == {a, b, x, y}
  <1>1. p \in Seq(S) /\ q \in Seq(S) /\ Len(p) = 4 /\ Len(q) = 4
   OBVIOUS
  <1>2. p[1] = q[1] /\ p[2] = q[2] /\ p[3] = q[3] /\ p[4] = q[4]
   OBVIOUS
  <1> HIDE DEF p, q, S
  <1>3. \A i \in 1 .. 4 : i = 1 \/ i = 2 \/ i = 3 \/ i = 4
    OBVIOUS
  <1>4. \A i \in 1 .. Len(p) : p[i] = q[i]
    BY <1>1, <1>2, <1>3
  <1> QED BY <1>1, <1>4, SeqEqual DEF p, q

(* The three files that nothing reads once there is a profile.             *)
LEMMA SplitWritten ==
  ASSUME NEW d, NEW ev, NEW P, NEW n \in Nat, Registered(d, ev, P, n), NEW j, j.at \notin Asking,
         NEW c \in Nat, StreamOk(d, c), ProfileFile \in DOMAIN d, NEW kind, NEW content
  PROVE  LET e == PutIn(d, SplitFile(kind), content)
         IN /\ Safe(d, <<Write(SplitFile(kind), content)>>, e, j, ev, P) /\ Registered(e, ev, P, n)
            /\ StreamSafe(d, <<Write(SplitFile(kind), content)>>, e, c) /\ StreamOk(e, c)
            /\ Agree(d, e, {"trace", "metrics", "profile.json"})
            /\ ProfileFile \in DOMAIN e
  <1> DEFINE path == SplitFile(kind)
             e == PutIn(d, path, content)
  <1>1. path[1] = "profile"
    BY StreamPaths
  <1> HIDE DEF path
  <1>2. Safe(d, <<Write(path, content)>>, e, j, ev, P) /\ Registered(e, ev, P, n)
    BY <1>1, PlainWritten
  <1>3. StreamOk(e, c)
    BY <1>1, OtherPut
  <1>4. StreamOk(PutIn(d, path, Torn), c)
    BY <1>1, OtherPut
  <1>5. StreamSafe(d, <<Write(path, content)>>, e, c)
    BY <1>4, StreamSafeWrite
  <1>6. ProfileFile \in DOMAIN e
    BY DEF PutIn
  <1> HIDE DEF e
  <1>7. Agree(d, e, {"trace", "metrics", "profile.json"})
    <2> DEFINE kinds == {"trace", "metrics", "profile.json"}
    <2>1. path[1] \notin kinds
      BY <1>1
    <2> HIDE DEF kinds
    <2>2. Agree(d, e, kinds)
      BY <2>1, PutInAgrees DEF e
    <2> QED BY <2>2 DEF kinds
  <1> QED BY <1>2, <1>3, <1>5, <1>6, <1>7 DEF path, e

LEMMA ProfileWritten ==
  ASSUME NEW d, NEW ev, NEW P, NEW n \in Nat, Registered(d, ev, P, n), NEW j, j.at \notin Asking,
         NEW c \in Nat, StreamOk(d, c), NEW profile,
         \A kind \in ProfileKinds : CountedOk(d, profile[kind]),
         ProfileFile \in DOMAIN d =>
           /\ d[ProfileFile] # Torn
           /\ \A i \in DOMAIN FailuresIn(d) :
                /\ i \in DOMAIN profile["failure_fingerprints"]
                /\ profile["failure_fingerprints"][i] = FailuresIn(d)[i]
  PROVE  \E e : /\ Safe(d, WriteProfile(profile), e, j, ev, P) /\ Registered(e, ev, P, n)
                /\ StreamSafe(d, WriteProfile(profile), e, c) /\ StreamOk(e, c)
                /\ Agree(d, e, {"trace", "metrics"})
                /\ ProfileFile \in DOMAIN e /\ e[ProfileFile] = profile
  <1> DEFINE w == PutIn(d, ProfileFile, profile)
             a == Write(ProfileFile, profile)
             K == {"trace", "metrics", "profile.json"}
             L == {"trace", "metrics"}
  <1>1. ProfileFile[1] = "profile.json"
    BY StreamPaths
  <1>2. Safe(d, <<a>>, w, j, ev, P) /\ Registered(w, ev, P, n)
    BY <1>1, PlainWritten
  <1>3. StreamOk(w, c)
    BY ProfilePut
  <1>4. StreamOk(PutIn(d, ProfileFile, Torn), c)
    BY ProfilePut
  <1>5. StreamSafe(d, <<a>>, w, c)
    BY <1>4, StreamSafeWrite
  <1>6. ProfileFile \in DOMAIN w /\ w[ProfileFile] = profile
    BY DEF PutIn
  <1>7. Agree(d, w, L)
    <2>1. ProfileFile[1] \notin L
      BY <1>1
    <2> HIDE DEF L
    <2> QED BY <2>1, PutInAgrees
  <1> HIDE DEF w
  <1> DEFINE b == Write(SplitFile("failure_fingerprints"), profile["failure_fingerprints"])
             x == PutIn(w, SplitFile("failure_fingerprints"), profile["failure_fingerprints"])
  <1>8. /\ Safe(w, <<b>>, x, j, ev, P) /\ Registered(x, ev, P, n)
        /\ StreamSafe(w, <<b>>, x, c) /\ StreamOk(x, c) /\ Agree(w, x, K) /\ ProfileFile \in DOMAIN x
    BY <1>2, <1>3, <1>6, SplitWritten
  <1> HIDE DEF x
  <1> DEFINE f == Write(SplitFile("fast_path_stats"), profile["fast_path_stats"])
             y == PutIn(x, SplitFile("fast_path_stats"), profile["fast_path_stats"])
  <1>9. /\ Safe(x, <<f>>, y, j, ev, P) /\ Registered(y, ev, P, n)
        /\ StreamSafe(x, <<f>>, y, c) /\ StreamOk(y, c) /\ Agree(x, y, K) /\ ProfileFile \in DOMAIN y
    BY <1>8, SplitWritten
  <1> HIDE DEF y
  <1> DEFINE g == Write(SplitFile("effect_stats"), profile["effect_stats"])
             z == PutIn(y, SplitFile("effect_stats"), profile["effect_stats"])
  <1>10. /\ Safe(y, <<g>>, z, j, ev, P) /\ Registered(z, ev, P, n)
         /\ StreamSafe(y, <<g>>, z, c) /\ StreamOk(z, c) /\ Agree(y, z, K) /\ ProfileFile \in DOMAIN z
    BY <1>9, SplitWritten
  <1>11. WriteProfile(profile) = <<a, b, f, g>>
    BY DEF WriteProfile
  <1> HIDE DEF z, a, b, f, g
  <1>12. WriteProfile(profile) = (<<a>> \o <<b>>) \o (<<f>> \o <<g>>)
    <2>1. <<a>> \o <<b>> = <<a, b>> /\ <<f>> \o <<g>> = <<f, g>>
      BY JoinTwo
    <2>2. <<a, b>> \o <<f, g>> = <<a, b, f, g>>
      BY JoinFour
    <2> QED BY <1>11, <2>1, <2>2
  <1>13. Safe(d, (<<a>> \o <<b>>) \o (<<f>> \o <<g>>), z, j, ev, P)
    <2>1. Safe(d, <<a>> \o <<b>>, x, j, ev, P) /\ Safe(x, <<f>> \o <<g>>, z, j, ev, P)
      BY <1>2, <1>8, <1>9, <1>10, SafeOn
    <2> QED BY <2>1, SafeOn
  <1>14. StreamSafe(d, (<<a>> \o <<b>>) \o (<<f>> \o <<g>>), z, c)
    <2>1. StreamSafe(d, <<a>> \o <<b>>, x, c) /\ StreamSafe(x, <<f>> \o <<g>>, z, c)
      BY <1>5, <1>8, <1>9, <1>10, StreamSafeOn
    <2> QED BY <2>1, StreamSafeOn
  <1>15. Agree(w, z, K)
    <2> HIDE DEF K
    <2>1. Agree(w, y, K)
      BY <1>8, <1>9, AgreeFurther
    <2> QED BY <1>10, <2>1, AgreeFurther
  <1>16. Agree(d, z, L)
    <2>1. L \subseteq K
      OBVIOUS
    <2> HIDE DEF K, L
    <2>2. Agree(w, z, L)
      BY <1>15, <2>1, AgreeLess
    <2> QED BY <1>7, <2>2, AgreeFurther
  <1>17. z[ProfileFile] = profile
    BY <1>1, <1>6, <1>15 DEF Agree
  <1> QED BY <1>10, <1>12, <1>13, <1>14, <1>16, <1>17

LEMMA CountMore ==
  ASSUME NEW d, NEW counted, CountedOk(d, counted), NEW trace \in TraceRecords, TracedIn(d, trace),
         \A i \in DOMAIN counted : counted[i] # trace
  PROVE  CountedOk(d, Append(counted, trace))
  <1>1. counted \in Seq(TraceRecords)
    BY DEF CountedOk
  <1>2. PICK n \in Nat : n = Len(counted)
    BY <1>1
  <1> DEFINE more == Append(counted, trace)
  <1>3. /\ more \in Seq(TraceRecords) /\ DOMAIN more = 1 .. n + 1 /\ more[n + 1] = trace
        /\ DOMAIN counted = 1 .. n
        /\ \A i \in 1 .. n : more[i] = counted[i]
    BY <1>1, <1>2
  <1> HIDE DEF more
  <1>4. \A i \in 1 .. n + 1 : i = n + 1 \/ i \in 1 .. n
    BY <1>2
  <1>5. \A i, j \in DOMAIN more : more[i] = more[j] => i = j
    <2>1. \A i \in 1 .. n : more[i] # trace
      BY <1>3
    <2> QED BY <1>3, <1>4, <2>1 DEF CountedOk
  <1>6. \A i \in DOMAIN more : TracedIn(d, more[i])
    BY <1>3, <1>4 DEF CountedOk
  <1>7. CountedOk(d, more)
    BY <1>3, <1>5, <1>6 DEF CountedOk
  <1> QED BY <1>7 DEF more

LEMMA StreamRests ==
  ASSUME Stream, todo = <<>>
  PROVE  commands \in Nat /\ StreamOk(disk, commands) /\ StreamJobOk(disk, job, commands)
  BY StreamDrained DEF Stream, StreamInv

(* A queue that leads both registries and streams to a disk that is whole. *)
LEMMA BothUnderway ==
  ASSUME NEW P, NEW n \in Nat, disk' = disk, evaluated' = evaluated, commands' \in Nat, NEW e,
         Safe(disk, todo', e, job', evaluated, P), Registered(e, evaluated, P, n),
         job'.at \notin Asking,
         StreamSafe(disk, todo', e, commands'), StreamOk(e, commands'),
         StreamJobOk(e, job', commands')
  PROVE  Registry(P)' /\ Stream'
  <1>1. JobOk(e, job', evaluated, P, n)
    BY IdleOk
  <1>2. Registry(P)'
    BY <1>1, Underway
  <1>3. Stream'
    BY DEF Stream, StreamInv
  <1> QED BY <1>2, <1>3

LEMMA StartStreamKeeps ==
  ASSUME NEW P, Registry(P), Stream, StartStream
  PROVE  Registry(P)' /\ Stream'
  <1>1. /\ todo = <<>> /\ todo' = <<>> /\ disk' = disk /\ evaluated' = evaluated
        /\ commands' = commands + 1
        /\ job' = [at |-> "stream", run |-> commands + 1, version |-> disk[LatestFile], next |-> 1]
    BY DEF StartStream, Free, Started, Latest, ThisRun
  <1>2. PICK n \in Nat : Registered(disk, evaluated, P, n)
    BY <1>1, FromRest
  <1>3. commands \in Nat /\ StreamOk(disk, commands)
    BY <1>1, StreamRests
  <1> DEFINE c == commands'
  <1>4. c \in Nat /\ c >= 1 /\ StreamOk(disk, c) /\ c \notin 1 .. commands
    BY <1>1, <1>3, StreamOkLater
  <1>5. disk[LatestFile] \in Nat
    BY <1>2 DEF StartStream, CanLoadLatest, Readable, Exists, Registered, RegistryOk, ReadableIn
  <1>6. TraceFile(c) \notin DOMAIN disk /\ MetricsFile(c) \notin DOMAIN disk
    BY <1>3, <1>4, StreamPaths DEF StreamOk, TracesOk, MetricsOk
  <1> HIDE DEF c
  <1>7. Holds(disk, c, 0) /\ AllCounted(disk, c, 0)
    <2>1. 1 .. 0 = {} /\ ~(0 > 0)
      OBVIOUS
    <2> QED BY <1>6, <2>1 DEF Holds, AllCounted
  <1>8. CountedTo(disk, c, 0)
    <2> SUFFICES ASSUME ReadableIn(disk, ProfileFile), NEW kind \in ProfileKinds,
                        NEW i \in DOMAIN disk[ProfileFile][kind],
                        disk[ProfileFile][kind][i].run = c
                 PROVE  FALSE
      BY DEF CountedTo
    <2>1. TracedIn(disk, disk[ProfileFile][kind][i])
      BY <1>3 DEF StreamOk, ProfileOk, CountedOk
    <2> QED BY <1>6, <2>1 DEF TracedIn
  <1>9. StreamJobOk(disk, job', c)
    <2>1. 0 \in 0 .. MaxEvents /\ 0 + 1 = 1
      BY StreamAssumption
    <2> QED BY <1>1, <1>4, <1>5, <1>6, <1>7, <1>8, <2>1 DEF StreamJobOk, c
  <1>10. job'.at \notin Asking
    BY <1>1 DEF Asking
  <1> QED BY <1>1, <1>2, <1>4, <1>9, <1>10, BothUnderway, SafeNowhere, StreamSafeNowhere DEF c

LEMMA StreamEventKeeps ==
  ASSUME NEW P, Registry(P), Stream, NEW captured \in BOOLEAN, NEW offered,
         StreamEvent(captured, offered)
  PROVE  Registry(P)' /\ Stream'
  <1> DEFINE c == commands
             trace == [run |-> job.run, event |-> job.next, version |-> job.version,
                       captured |-> captured]
             content == Append(StoredIn(disk, job.run), trace)
             version == job.version
  <1>1. /\ job.at = "stream" /\ todo = <<>> /\ disk' = disk /\ evaluated' = evaluated
        /\ commands' = commands /\ job.next <= MaxEvents
        /\ job' = [at |-> "profile", run |-> job.run, version |-> job.version,
                   next |-> job.next, trace |-> trace]
    BY DEF StreamEvent, At
  <1>2. todo' = OffersOf(offered, version) \o <<Write(TraceFile(job.run), content)>>
    BY DEF StreamEvent, OfferPatches, OffersOf, WriteTraces, StoredIn, Exists
  <1>3. PICK n \in Nat : Registered(disk, evaluated, P, n)
    BY <1>1, FromRest
  <1>4. c \in Nat /\ StreamOk(disk, c) /\ StreamJobOk(disk, job, c)
    BY <1>1, StreamRests
  <1>5. PICK k \in 0 .. MaxEvents :
          /\ job.run = c /\ c >= 1 /\ job.next = k + 1 /\ job.version \in Nat
          /\ MetricsFile(c) \notin DOMAIN disk
          /\ AllCounted(disk, c, k) /\ CountedTo(disk, c, k) /\ Holds(disk, c, k)
    BY <1>1, <1>4 DEF StreamJobOk, Streaming
  <1>6. k \in Nat /\ k + 1 <= MaxEvents /\ k + 1 \in Nat
    BY <1>1, <1>5, StreamAssumption
  <1>7. trace \in TraceRecords /\ trace.run = c /\ trace.event = k + 1
    BY <1>4, <1>5, <1>6 DEF TraceRecords
  <1>8. job'.at \notin Asking
    BY <1>1 DEF Asking
  <1> HIDE DEF trace, version, content
  <1> DEFINE j == job'
  <1> HIDE DEF j
  <1>9. PICK e : /\ Safe(disk, OffersOf(offered, version), e, j, evaluated, P)
                 /\ Registered(e, evaluated, P, n)
                 /\ StreamSafe(disk, OffersOf(offered, version), e, c) /\ StreamOk(e, c)
                 /\ Agree(disk, e, StreamKinds)
    BY <1>3, <1>4, <1>8, OffersWritten DEF j
  <1>10. /\ MetricsFile(c) \notin DOMAIN e
         /\ AllCounted(e, c, k) /\ CountedTo(e, c, k) /\ Holds(e, c, k)
         /\ StoredIn(e, c) = StoredIn(disk, c)
    <2>1. /\ TraceFile(c) \in DOMAIN disk <=> TraceFile(c) \in DOMAIN e
          /\ TraceFile(c) \in DOMAIN disk => e[TraceFile(c)] = disk[TraceFile(c)]
          /\ MetricsFile(c) \notin DOMAIN e
          /\ ProfileFile \in DOMAIN disk <=> ProfileFile \in DOMAIN e
          /\ ProfileFile \in DOMAIN disk => e[ProfileFile] = disk[ProfileFile]
      BY <1>5, <1>9, StreamPaths DEF Agree, StreamKinds
    <2>2. Holds(e, c, k) /\ CountedTo(e, c, k) /\ StoredIn(e, c) = StoredIn(disk, c)
      BY <1>5, <2>1 DEF Holds, ReadableIn, CountedTo, StoredIn
    <2>3. AllCounted(e, c, k)
      <3> SUFFICES ASSUME ReadableIn(e, ProfileFile), NEW i \in 1 .. k
                   PROVE  \E x \in DOMAIN FailuresIn(e) : FailuresIn(e)[x] = e[TraceFile(c)][i]
        BY <1>5, <2>1 DEF AllCounted
      <3>1. k # 0
        BY <1>6
      <3>2. TraceFile(c) \in DOMAIN disk
        BY <1>5, <3>1 DEF Holds, ReadableIn
      <3>3. FailuresIn(e) = FailuresIn(disk) /\ ReadableIn(disk, ProfileFile)
        BY <2>1 DEF ReadableIn, FailuresIn
      <3> QED BY <1>5, <2>1, <3>2, <3>3 DEF AllCounted
    <2> QED BY <2>1, <2>2, <2>3
  <1>11. content = Append(StoredIn(e, c), trace)
    BY <1>5, <1>10 DEF content
  <1> DEFINE f == PutIn(e, TraceFile(c), content)
  <1>12. /\ StreamSafe(e, <<Write(TraceFile(c), content)>>, f, c) /\ StreamOk(f, c)
         /\ MetricsFile(c) \notin DOMAIN f
         /\ Holds(f, c, k + 1) /\ AllCounted(f, c, k) /\ CountedTo(f, c, k)
         /\ f[TraceFile(c)][k + 1] = trace
    <2>1. /\ c \in Nat /\ c >= 1 /\ StreamOk(e, c) /\ MetricsFile(c) \notin DOMAIN e
          /\ k \in Nat /\ Holds(e, c, k) /\ AllCounted(e, c, k) /\ CountedTo(e, c, k)
          /\ trace \in TraceRecords /\ trace.run = c /\ trace.event = k + 1
          /\ content = Append(StoredIn(e, c), trace)
      BY <1>4, <1>5, <1>6, <1>7, <1>9, <1>10, <1>11
    <2>2. PICK m : m = k + 1
      OBVIOUS
    <2>3. trace.event = m
      BY <2>1, <2>2
    <2> HIDE DEF c
    <2>4. TracedNext(e, f, c, k, m, trace, content)
      BY <2>1, <2>2, <2>3, TraceWritten
    <2> QED BY <2>2, <2>4 DEF TracedNext
  <1>13. Safe(e, <<Write(TraceFile(c), content)>>, f, j, evaluated, P) /\ Registered(f, evaluated, P, n)
    <2>1. TraceFile(c)[1] = "trace"
      BY StreamPaths
    <2> QED BY <1>8, <1>9, <2>1, PlainWritten DEF j
  <1> HIDE DEF f
  <1>14. Safe(disk, todo', f, job', evaluated, P) /\ StreamSafe(disk, todo', f, commands')
    <2>1. todo' = OffersOf(offered, version) \o <<Write(TraceFile(c), content)>>
      BY <1>2, <1>5
    <2> QED BY <1>1, <1>9, <1>12, <1>13, <2>1, SafeOn, StreamSafeOn DEF j
  <1>15. StreamJobOk(f, job', commands')
    <2>1. /\ job'.at = "profile" /\ job'.run = c /\ job'.next = k + 1 /\ job'.version \in Nat
          /\ job'.trace = f[TraceFile(c)][k + 1] /\ commands' = c
      BY <1>1, <1>5, <1>12
    <2> HIDE DEF c
    <2> QED BY <1>5, <1>6, <1>12, <2>1 DEF StreamJobOk
  <1> QED BY <1>1, <1>4, <1>8, <1>12, <1>13, <1>14, <1>15, BothUnderway

LEMMA UpdateProfileKeeps ==
  ASSUME NEW P, Registry(P), Stream, UpdateProfile
  PROVE  Registry(P)' /\ Stream'
  <1> DEFINE c == commands
  <1>1. /\ job.at = "profile" /\ todo = <<>> /\ disk' = disk /\ evaluated' = evaluated
        /\ commands' = commands
    BY DEF UpdateProfile, At
  <1>2. PICK n \in Nat : Registered(disk, evaluated, P, n)
    BY <1>1, FromRest
  <1>3. c \in Nat /\ StreamOk(disk, c) /\ StreamJobOk(disk, job, c)
    BY <1>1, StreamRests
  <1>4. PICK k \in 0 .. MaxEvents :
          /\ job.run = c /\ c >= 1 /\ job.next = k + 1 /\ job.version \in Nat
          /\ MetricsFile(c) \notin DOMAIN disk
          /\ AllCounted(disk, c, k) /\ CountedTo(disk, c, k)
          /\ k + 1 <= MaxEvents /\ Holds(disk, c, k + 1)
          /\ job.trace = disk[TraceFile(c)][k + 1]
    BY <1>1, <1>3 DEF StreamJobOk, Streaming
  <1>5. k \in Nat /\ k + 1 \in Nat /\ k + 1 # 0 /\ k + 1 \in 0 .. MaxEvents
    BY <1>4, StreamAssumption
  <1>6. CASE ~CanLoadProfile
    <2>1. job' = Idle /\ todo' = <<>>
      BY <1>1, <1>6 DEF UpdateProfile
    <2>2. job'.at \notin Asking /\ job'.at \notin Streaming
      BY <2>1 DEF Idle, Asking, Streaming
    <2>3. StreamJobOk(disk, job', c)
      BY <2>2 DEF StreamJobOk
    <2> QED BY <1>1, <1>2, <1>3, <2>1, <2>2, <2>3, BothUnderway, SafeNowhere, StreamSafeNowhere
  <1>7. CASE CanLoadProfile
    <2> DEFINE trace == job.trace
               loaded == LoadProfile
               profile == [kind \in ProfileKinds |-> Append(loaded[kind], trace)]
               stored == disk[TraceFile(c)]
    <2>1. /\ todo' = WriteProfile(profile)
          /\ job' = [at |-> "stream", run |-> job.run, version |-> job.version, next |-> job.next + 1]
      BY <1>7 DEF UpdateProfile
    <2>2. /\ TraceFile(c) \in DOMAIN disk /\ stored # Torn /\ Len(stored) = k + 1
          /\ stored \in Seq(TraceRecords) /\ DOMAIN stored = 1 .. k + 1
          /\ \A i \in DOMAIN stored : stored[i].run = c /\ stored[i].event = i
      <3>1. TraceFile(c) \in DOMAIN disk /\ stored # Torn /\ Len(stored) = k + 1
        BY <1>4, <1>5 DEF Holds, ReadableIn
      <3>2. TraceFile(c)[1] = "trace" /\ \A run : TraceFile(c) = TraceFile(run) => run = c
        BY StreamPaths
      <3>3. TraceOk(stored, c)
        BY <1>3, <3>1, <3>2 DEF StreamOk, TracesOk
      <3> QED BY <1>5, <3>1, <3>3 DEF TraceOk
    <2>3. /\ k + 1 \in 1 .. k + 1 /\ trace = stored[k + 1]
          /\ trace \in TraceRecords /\ trace.run = c /\ trace.event = k + 1
      BY <1>4, <1>5, <2>2
    <2>4. TracedIn(disk, trace)
      BY <2>2, <2>3 DEF TracedIn
    <2>5. /\ ProfileFile \in DOMAIN disk => disk[ProfileFile] # Torn /\ loaded = disk[ProfileFile]
          /\ ProfileFile \notin DOMAIN disk => \A kind \in ProfileKinds : loaded[kind] = <<>>
      <3>1. ProfileFile \in DOMAIN disk => disk[ProfileFile] # Torn /\ loaded = disk[ProfileFile]
        BY <1>7 DEF CanLoadProfile, LoadProfile, Exists
      <3>2. CASE ProfileFile \notin DOMAIN disk
        <4>1. \A kind \in ProfileKinds : SplitFile(kind) \notin DOMAIN disk
          BY <1>3, <3>2 DEF StreamOk, ProfileOk
        <4>2. loaded = SplitProfile
          BY <1>7, <3>2 DEF CanLoadProfile, LoadProfile, Exists
        <4> HIDE DEF loaded
        <4> QED BY <3>2, <4>1, <4>2 DEF SplitProfile, Exists
      <3> QED BY <3>1, <3>2
    <2> HIDE DEF loaded, trace
    <2>6. ASSUME NEW kind \in ProfileKinds
          PROVE  /\ CountedOk(disk, loaded[kind])
                 /\ \A i \in DOMAIN loaded[kind] :
                      loaded[kind][i].run = c => loaded[kind][i].event <= k
      <3>1. CASE ProfileFile \in DOMAIN disk
        BY <1>3, <1>4, <2>5, <3>1 DEF StreamOk, ProfileOk, ReadableIn, CountedTo
      <3>2. CASE ProfileFile \notin DOMAIN disk
        <4>1. loaded[kind] = <<>> /\ <<>> \in Seq(TraceRecords) /\ DOMAIN <<>> = {}
          BY <2>5, <3>2
        <4> QED BY <4>1 DEF CountedOk
      <3> QED BY <3>1, <3>2
    <2>7. ASSUME NEW kind \in ProfileKinds
          PROVE  /\ profile[kind] = Append(loaded[kind], trace)
                 /\ CountedOk(disk, profile[kind])
                 /\ \E m \in Nat :
                      /\ DOMAIN profile[kind] = 1 .. m + 1 /\ DOMAIN loaded[kind] = 1 .. m
                      /\ profile[kind][m + 1] = trace
                      /\ \A i \in 1 .. m : profile[kind][i] = loaded[kind][i]
      <3> DEFINE old == loaded[kind]
      <3>0. profile[kind] = Append(old, trace)
        OBVIOUS
      <3>1. CountedOk(disk, old) /\ old \in Seq(TraceRecords)
        BY <2>6 DEF CountedOk
      <3>2. \A i \in DOMAIN old : old[i] # trace
        <4> SUFFICES ASSUME NEW i \in DOMAIN old, old[i] = trace PROVE FALSE
          OBVIOUS
        <4>1. k + 1 <= k
          BY <2>3, <2>6
        <4> QED BY <1>5, <4>1
      <3> HIDE DEF old, profile
      <3>3. CountedOk(disk, Append(old, trace))
        BY <2>3, <2>4, <3>1, <3>2, CountMore
      <3>4. PICK m \in Nat : m = Len(old)
        BY <3>1
      <3> DEFINE new == Append(old, trace)
      <3>5. /\ DOMAIN new = 1 .. m + 1 /\ DOMAIN old = 1 .. m /\ new[m + 1] = trace
            /\ \A i \in 1 .. m : new[i] = old[i]
        BY <2>3, <3>1, <3>4
      <3> HIDE DEF new
      <3>6. new = profile[kind] /\ old = loaded[kind]
        BY <3>0 DEF new, old
      <3> QED BY <3>0, <3>3, <3>4, <3>5, <3>6 DEF old
    <2>8. "failure_fingerprints" \in ProfileKinds
      BY DEF ProfileKinds
    <2> DEFINE fails == profile["failure_fingerprints"]
               past == loaded["failure_fingerprints"]
    <2>9. PICK m \in Nat : /\ DOMAIN fails = 1 .. m + 1 /\ DOMAIN past = 1 .. m
                           /\ fails[m + 1] = trace
                           /\ \A i \in 1 .. m : fails[i] = past[i]
      BY <2>7, <2>8
    <2>10. ProfileFile \in DOMAIN disk => past = FailuresIn(disk)
      BY <2>5 DEF FailuresIn
    <2> HIDE DEF profile, fails, past
    <2>11. ProfileFile \in DOMAIN disk =>
             /\ disk[ProfileFile] # Torn
             /\ \A i \in DOMAIN FailuresIn(disk) :
                  /\ i \in DOMAIN profile["failure_fingerprints"]
                  /\ profile["failure_fingerprints"][i] = FailuresIn(disk)[i]
      BY <2>5, <2>9, <2>10 DEF fails
    <2>12. \A kind \in ProfileKinds : CountedOk(disk, profile[kind])
      BY <2>7
    <2>13. job'.at \notin Asking
      BY <2>1 DEF Asking
    <2>14. PICK e : /\ Safe(disk, WriteProfile(profile), e, job', evaluated, P)
                    /\ Registered(e, evaluated, P, n)
                    /\ StreamSafe(disk, WriteProfile(profile), e, c) /\ StreamOk(e, c)
                    /\ Agree(disk, e, {"trace", "metrics"})
                    /\ ProfileFile \in DOMAIN e /\ e[ProfileFile] = profile
      <3> DEFINE j == job'
      <3> HIDE DEF j, c
      <3>1. j.at \notin Asking /\ c \in Nat /\ StreamOk(disk, c)
        BY <1>3, <2>13 DEF j
      <3>2. \E e : /\ Safe(disk, WriteProfile(profile), e, j, evaluated, P)
                    /\ Registered(e, evaluated, P, n)
                    /\ StreamSafe(disk, WriteProfile(profile), e, c) /\ StreamOk(e, c)
                    /\ Agree(disk, e, {"trace", "metrics"})
                    /\ ProfileFile \in DOMAIN e /\ e[ProfileFile] = profile
        BY <1>2, <2>11, <2>12, <3>1, ProfileWritten
      <3> QED BY <3>2 DEF j
    <2>15. /\ TraceFile(c) \in DOMAIN e /\ e[TraceFile(c)] = stored
           /\ MetricsFile(c) \notin DOMAIN e
      BY <1>4, <2>2, <2>14, StreamPaths DEF Agree
    <2>16. Holds(e, c, k + 1)
      BY <1>5, <2>2, <2>15 DEF Holds, ReadableIn
    <2>17. AllCounted(e, c, k + 1)
      <3> SUFFICES ASSUME NEW i \in 1 .. k + 1
                   PROVE  \E x \in DOMAIN fails : fails[x] = stored[i]
        BY <2>14, <2>15 DEF AllCounted, FailuresIn, fails
      <3>1. CASE i = k + 1
        <4>1. m + 1 \in DOMAIN fails
          BY <2>9
        <4> QED BY <2>3, <2>9, <3>1, <4>1
      <3>2. CASE i # k + 1
        <4>1. i \in 1 .. k /\ k > 0
          BY <1>5, <3>2
        <4>2. ProfileFile \in DOMAIN disk /\ ReadableIn(disk, ProfileFile)
          BY <1>4, <2>5, <4>1 DEF AllCounted, ReadableIn
        <4>3. PICK x \in DOMAIN FailuresIn(disk) : FailuresIn(disk)[x] = stored[i]
          BY <1>4, <4>1, <4>2 DEF AllCounted
        <4>4. x \in 1 .. m /\ past[x] = stored[i]
          BY <2>9, <2>10, <4>2, <4>3
        <4> QED BY <2>9, <4>4
      <3> QED BY <3>1, <3>2
    <2>18. CountedTo(e, c, k + 1)
      <3> SUFFICES ASSUME NEW kind \in ProfileKinds, NEW i \in DOMAIN profile[kind],
                          profile[kind][i].run = c
                   PROVE  profile[kind][i].event <= k + 1
        BY <2>14 DEF CountedTo
      <3>1. PICK l \in Nat :
              /\ DOMAIN profile[kind] = 1 .. l + 1 /\ DOMAIN loaded[kind] = 1 .. l
              /\ profile[kind][l + 1] = trace
              /\ \A x \in 1 .. l : profile[kind][x] = loaded[kind][x]
        BY <2>7
      <3>2. CASE i = l + 1
        BY <1>5, <2>3, <3>1, <3>2
      <3>3. CASE i # l + 1
        <4>1. i \in 1 .. l
          BY <3>1, <3>3
        <4>2. i \in DOMAIN loaded[kind] /\ profile[kind][i] = loaded[kind][i]
          BY <3>1, <4>1
        <4>3. profile[kind][i].event <= k
          BY <2>6, <4>2
        <4>4. profile[kind][i].event \in Nat
          <5>1. CountedOk(disk, profile[kind])
            BY <2>7
          <5>2. profile[kind] \in Seq(TraceRecords)
            BY <5>1 DEF CountedOk
          <5>3. profile[kind][i] \in TraceRecords
            BY <5>2
          <5> QED BY <5>3 DEF TraceRecords
        <4> QED BY <1>5, <4>3, <4>4
      <3> QED BY <3>2, <3>3
    <2>19. StreamJobOk(e, job', commands')
      <3>1. /\ job'.at = "stream" /\ job'.run = c /\ job'.next = (k + 1) + 1
            /\ job'.version \in Nat /\ commands' = c
        BY <1>1, <1>4, <2>1
      <3> HIDE DEF c
      <3> QED BY <1>4, <1>5, <2>15, <2>16, <2>17, <2>18, <3>1 DEF StreamJobOk
    <2> QED BY <1>1, <1>3, <2>1, <2>13, <2>14, <2>19, BothUnderway
  <1> QED BY <1>6, <1>7

LEMMA StreamEndsKeeps ==
  ASSUME NEW P, Registry(P), Stream, StreamEnds
  PROVE  Registry(P)' /\ Stream'
  <1> DEFINE c == commands
             path == MetricsFile(c)
             content == [mode |-> "stream", events |-> MaxEvents]
             e == PutIn(disk, path, content)
  <1>1. /\ job.at = "stream" /\ todo = <<>> /\ disk' = disk /\ evaluated' = evaluated
        /\ commands' = commands /\ job.next > MaxEvents /\ job' = Idle
        /\ todo' = <<Write(MetricsFile(job.run), content)>>
    BY DEF StreamEnds, At
  <1>2. PICK n \in Nat : Registered(disk, evaluated, P, n)
    BY <1>1, FromRest
  <1>3. c \in Nat /\ StreamOk(disk, c) /\ StreamJobOk(disk, job, c)
    BY <1>1, StreamRests
  <1>4. PICK k \in 0 .. MaxEvents :
          /\ job.run = c /\ c >= 1 /\ job.next = k + 1
          /\ AllCounted(disk, c, k) /\ Holds(disk, c, k)
    BY <1>1, <1>3 DEF StreamJobOk, Streaming
  <1>5. k = MaxEvents /\ MaxEvents \in Nat
    BY <1>1, <1>4, StreamAssumption
  <1>6. job'.at \notin Asking /\ job'.at \notin Streaming
    BY <1>1 DEF Idle, Asking, Streaming
  <1>7. content.mode = "stream" /\ content.events = MaxEvents
    OBVIOUS
  <1>8. path[1] = "metrics" /\ path = MetricsFile(c) /\ c \in 1 .. c
    BY <1>3, <1>4, StreamPaths
  <1> HIDE DEF content, path
  <1>9. path = MetricsFile(c) /\ content.events \in Nat
        /\ Holds(disk, c, content.events) /\ AllCounted(disk, c, content.events)
    BY <1>4, <1>5, <1>7, <1>8
  <1>10. StreamOk(e, c) /\ StreamOk(PutIn(disk, path, Torn), c)
    <2> HIDE DEF c
    <2>1. StreamOk(e, c)
      BY <1>3, <1>8, <1>9, OtherPut
    <2>2. StreamOk(PutIn(disk, path, Torn), c)
      BY <1>3, <1>8, OtherPut
    <2> QED BY <2>1, <2>2
  <1>11. StreamSafe(disk, <<Write(path, content)>>, e, c)
    BY <1>3, <1>10, StreamSafeWrite
  <1> DEFINE j == job'
  <1>12. j.at \notin Asking
    BY <1>6
  <1> HIDE DEF j
  <1>13. /\ Safe(disk, <<Write(path, content)>>, e, j, evaluated, P)
         /\ Registered(e, evaluated, P, n)
    BY <1>2, <1>8, <1>12, PlainWritten
  <1>14. todo' = <<Write(path, content)>>
    BY <1>1, <1>4, <1>8
  <1> HIDE DEF e
  <1>15. StreamJobOk(e, job', c)
    BY <1>6 DEF StreamJobOk
  <1> QED BY <1>1, <1>3, <1>6, <1>10, <1>11, <1>13, <1>14, <1>15, BothUnderway DEF j

(* The directory that the baseline command may lay out.                    *)
LEMMA LayoutWritten ==
  ASSUME NEW P, NEW n \in Nat, Registered(disk, evaluated, P, n), NEW j, j.at \notin Asking,
         NEW c \in Nat, StreamOk(disk, c)
  PROVE  \E e : /\ Safe(disk, EnsureLayout, e, j, evaluated, P) /\ Registered(e, evaluated, P, n)
                /\ StreamSafe(disk, EnsureLayout, e, c) /\ StreamOk(e, c)
  <1>1. CASE Exists(WorkflowDir)
    <2>1. EnsureLayout = <<>>
      BY <1>1 DEF EnsureLayout
    <2> QED BY <2>1, SafeNowhere, StreamSafeNowhere
  <1>2. CASE ~Exists(WorkflowDir)
    <2> DEFINE e == PutIn(disk, WorkflowDir, "directory")
               o == MakeDir(WorkflowDir)
    <2>1. EnsureLayout = <<o>>
      BY <1>2 DEF EnsureLayout
    <2>2. Registered(e, evaluated, P, n) /\ SameHistory(disk, e)
      <3>1. WorkflowDir[1] \notin {"program", "metadata", "latest"} /\ ~IsInstalledRecord(WorkflowDir)
        BY PathsApart DEF IsInstalledRecord
      <3> QED BY <3>1, PutElsewhere
    <2>3. RegistryEdge(disk, e, j, evaluated, P)
      BY <2>2 DEF RegistryEdge, HistoryEdge, AskedOk
    <2>4. Safe(disk, <<o>>, e, j, evaluated, P)
      BY <2>3, SafeMakeDir
    <2>5. PICK edges : Leads(disk, <<o>>, e, edges)
      BY <2>4 DEF Safe
    <2>6. o.path[1] \notin StreamKinds
      BY DEF MakeDir, WorkflowDir, StreamKinds
    <2> HIDE DEF e, o
    <2>7. Spares(<<o>>, StreamKinds)
      BY <2>6, SparesOne
    <2>8. StreamSafe(disk, <<o>>, e, c) /\ StreamOk(e, c)
      BY <2>5, <2>7, StreamSafeSparing
    <2> QED BY <2>1, <2>2, <2>4, <2>8
  <1> QED BY <1>1, <1>2

LEMMA BaselineKeeps ==
  ASSUME NEW P, Registry(P), Stream, BaselineStrongDirect
  PROVE  Registry(P)' /\ Stream'
  <1> DEFINE c == commands'
             path == MetricsFile(ThisRun)
             content == [mode |-> "strong_direct", events |-> MaxEvents]
  <1>1. /\ todo = <<>> /\ disk' = disk /\ evaluated' = evaluated /\ job' = job /\ job = Idle
        /\ commands' = commands + 1
        /\ todo' = EnsureLayout \o <<Write(path, content)>>
    BY DEF BaselineStrongDirect, Free, Started
  <1>2. PICK n \in Nat : Registered(disk, evaluated, P, n)
    BY <1>1, FromRest
  <1>3. commands \in Nat /\ StreamOk(disk, commands)
    BY <1>1, StreamRests
  <1>4. c \in Nat /\ c \in 1 .. c /\ path = MetricsFile(c) /\ StreamOk(disk, c)
    BY <1>1, <1>3, StreamOkLater DEF ThisRun
  <1>5. job'.at \notin Asking /\ job'.at \notin Streaming
    BY <1>1 DEF Idle, Asking, Streaming
  <1>6. path[1] = "metrics" /\ content.mode # "stream"
    BY StreamPaths
  <1> DEFINE j == job'
  <1>7. j.at \notin Asking
    BY <1>5
  <1> HIDE DEF c, path, content, j
  <1>8. PICK e : /\ Safe(disk, EnsureLayout, e, j, evaluated, P) /\ Registered(e, evaluated, P, n)
                 /\ StreamSafe(disk, EnsureLayout, e, c) /\ StreamOk(e, c)
    BY <1>2, <1>4, <1>7, LayoutWritten
  <1> DEFINE f == PutIn(e, path, content)
             o == Write(path, content)
  <1>9. Safe(e, <<o>>, f, j, evaluated, P) /\ Registered(f, evaluated, P, n)
    BY <1>6, <1>7, <1>8, PlainWritten
  <1>10. StreamOk(f, c) /\ StreamOk(PutIn(e, path, Torn), c)
    <2>1. StreamOk(f, c)
      BY <1>4, <1>6, <1>8, OtherPut
    <2>2. StreamOk(PutIn(e, path, Torn), c)
      BY <1>4, <1>6, <1>8, OtherPut
    <2> QED BY <2>1, <2>2
  <1>11. StreamSafe(e, <<o>>, f, c)
    BY <1>8, <1>10, StreamSafeWrite
  <1> HIDE DEF f, o
  <1>12. Safe(disk, todo', f, job', evaluated, P) /\ StreamSafe(disk, todo', f, c)
    <2>1. todo' = EnsureLayout \o <<o>>
      BY <1>1 DEF o
    <2> DEFINE layout == EnsureLayout
    <2> HIDE DEF layout
    <2>2. Safe(disk, layout \o <<o>>, f, j, evaluated, P) /\ StreamSafe(disk, layout \o <<o>>, f, c)
      BY <1>8, <1>9, <1>11, SafeOn, StreamSafeOn DEF layout
    <2> QED BY <2>1, <2>2 DEF layout, j
  <1>13. StreamJobOk(f, job', c)
    BY <1>5 DEF StreamJobOk
  <1>14. /\ StreamSafe(disk, todo', f, commands') /\ StreamOk(f, commands') /\ commands' \in Nat
         /\ StreamJobOk(f, job', commands')
    BY <1>4, <1>10, <1>12, <1>13 DEF c
  <1> QED BY <1>1, <1>5, <1>9, <1>12, <1>14, BothUnderway

LEMMA StreamStart ==
  ASSUME InstallerInit
  PROVE  Stream
  <1>1. disk = [path \in {} |-> Torn] /\ todo = <<>> /\ job = Idle /\ commands = 0
    BY DEF InstallerInit
  <1>2. DOMAIN disk = {}
    BY <1>1
  <1>3. StreamOk(disk, 0)
    BY <1>2 DEF StreamOk, TracesOk, ProfileOk, MetricsOk, ReadableIn
  <1>4. StreamJobOk(disk, job, 0)
    BY <1>1 DEF StreamJobOk, Streaming, Idle
  <1> QED BY <1>1, <1>3, <1>4, StreamSafeNowhere DEF Stream, StreamInv

(* Every step of the stream's program is one of the installer's or of the  *)
(* streams'.                                                               *)
LEMMA StreamNextKeeps ==
  ASSUME NEW P, Instructions(P), Registry(P), Stream, StreamNext
  PROVE  Registry(P)' /\ Stream' /\ HistoryStep
  <1>1. CASE InstallerStep
    <2>1. Registry(P)' /\ Stream'
      BY <1>1, InstallerKeeps, InstallerSparesStreams
    <2>2. CASE FileOperation
      BY <2>1, <2>2, FileOperationKeeps, EdgeIsStep
    <2>3. CASE ~FileOperation
      <3>1. disk' = disk
        BY <1>1, <2>3 DEF InstallerStep, InitWorkflowCommand, Optimize, NoPatchReturned, Propose,
              Validate, Evaluate, EvaluationFails, Install, Installed, AttemptFails, Stop
      <3> QED BY <2>1, <3>1, EdgeIsStep
    <2> QED BY <2>2, <2>3
  <1>2. ASSUME NEW captured \in BOOLEAN, NEW offered, StreamEvent(captured, offered)
        PROVE  Registry(P)' /\ Stream' /\ HistoryStep
    <2>1. disk' = disk
      BY <1>2 DEF StreamEvent
    <2> QED BY <1>2, <2>1, StreamEventKeeps, EdgeIsStep
  <1>3. CASE StartStream \/ UpdateProfile \/ StreamEnds \/ BaselineStrongDirect
    <2>1. disk' = disk
      BY <1>3 DEF StartStream, UpdateProfile, StreamEnds, BaselineStrongDirect
    <2>2. Registry(P)' /\ Stream'
      BY <1>3, StartStreamKeeps, UpdateProfileKeeps, StreamEndsKeeps, BaselineKeeps
    <2> QED BY <2>1, <2>2, EdgeIsStep
  <1>4. /\ \A attempts : OptimizeFromProfile(attempts) => Optimize(attempts)
        /\ \A accepted : EvaluateOnTraces(accepted) => Evaluate(accepted)
        /\ TracesUnreadable => EvaluationFails
        /\ 1 \in 1 .. MaxAttempts
    BY TornAssumption DEF OptimizeFromProfile, EvaluateOnTraces, TracesUnreadable
  <1>5. \/ InstallerStep
        \/ \E captured \in BOOLEAN, offered \in Offers : StreamEvent(captured, offered)
        \/ StartStream \/ UpdateProfile \/ StreamEnds \/ BaselineStrongDirect
    BY <1>4 DEF StreamNext, InstallerStep
  <1> QED BY <1>1, <1>2, <1>3, <1>5

LEMMA StreamStays ==
  ASSUME Stream, disk' = disk, todo' = todo, job' = job, commands' = commands
  PROVE  Stream'
  BY DEF Stream

LEMMA StreamPromises ==
  ASSUME Stream
  PROVE  ProfileIsTraced /\ MetricsTellRuns
  <1>1. StreamOk(disk, commands) /\ commands \in Nat
    BY StreamUnderWay DEF Stream, StreamInv
  <1>2. ProfileIsTraced
    <2> SUFFICES ASSUME Readable(ProfileFile), NEW kind \in ProfileKinds,
                        NEW i \in DOMAIN disk[ProfileFile][kind]
                 PROVE  LET counted == disk[ProfileFile][kind]
                            run == TraceFile(counted[i].run)
                        IN /\ \A j \in DOMAIN counted : counted[i] = counted[j] => i = j
                           /\ Exists(run)
                           /\ disk[run] # Torn =>
                                \E k \in DOMAIN disk[run] : disk[run][k] = counted[i]
      BY DEF ProfileIsTraced
    <2>1. CountedOk(disk, disk[ProfileFile][kind])
      BY <1>1 DEF StreamOk, ProfileOk, Readable, Exists, ReadableIn
    <2> QED BY <2>1 DEF CountedOk, TracedIn, Exists
  <1>3. MetricsTellRuns
    <2> SUFFICES ASSUME NEW path \in DOMAIN disk, path[1] = "metrics", disk[path] # Torn,
                        disk[path].mode = "stream", disk[path].events > 0
                 PROVE  LET run == TraceFile(path[2])
                        IN /\ Readable(run)
                           /\ Len(disk[run]) = disk[path].events
                           /\ Readable(ProfileFile) => \A i \in DOMAIN disk[run] :
                                \E j \in DOMAIN disk[ProfileFile]["failure_fingerprints"] :
                                  disk[ProfileFile]["failure_fingerprints"][j] = disk[run][i]
      BY DEF MetricsTellRuns
    <2> DEFINE k == disk[path].events
    <2>1. PICK run \in 1 .. commands :
            /\ path = MetricsFile(run) /\ k \in Nat
            /\ Holds(disk, run, k) /\ AllCounted(disk, run, k)
      BY <1>1 DEF StreamOk, MetricsOk
    <2>2. path[2] = run /\ TraceFile(run)[1] = "trace"
      BY <2>1, StreamPaths
    <2>3. Readable(TraceFile(run)) /\ Len(disk[TraceFile(run)]) = k
      BY <2>1 DEF Holds, Readable, Exists, ReadableIn
    <2>4. DOMAIN disk[TraceFile(run)] = 1 .. k
      <3>1. disk[TraceFile(run)] \in Seq(TraceRecords)
        <4>1. PICK r \in 1 .. commands :
                TraceFile(run) = TraceFile(r) /\ TraceOk(disk[TraceFile(run)], r)
          BY <1>1, <2>2, <2>3 DEF StreamOk, TracesOk, Readable, Exists
        <4> QED BY <4>1 DEF TraceOk
      <3> QED BY <2>3, <3>1
    <2>5. Readable(ProfileFile) => \A i \in 1 .. k :
            \E j \in DOMAIN disk[ProfileFile]["failure_fingerprints"] :
              disk[ProfileFile]["failure_fingerprints"][j] = disk[TraceFile(run)][i]
      BY <2>1 DEF AllCounted, FailuresIn, Readable, Exists, ReadableIn
    <2> QED BY <2>2, <2>3, <2>4, <2>5
  <1> QED BY <1>2, <1>3

(* patch_optimizer.rs 37.                                                  *)
LEMMA AskedPromise ==
  ASSUME NEW P, Registry(P)
  PROVE  AskedAboutLatest
  <1> SUFFICES ASSUME At("ask"), Readable(LatestFile)
               PROVE  job.asked = Latest \/ ~InstalledRecordOf(Latest)
    BY DEF AskedAboutLatest
  <1>1. AskedOk(disk, job)
    BY FromRest DEF At, JobOk
  <1>2. InstalledRecordOf(Latest) => RecordedIn(disk, disk[LatestFile])
    BY DEF InstalledRecordOf, RecordedIn, IsInstalledRecord, Latest
  <1> QED BY <1>1, <1>2 DEF AskedOk, At, Asking, Readable, Exists, ReadableIn, Latest

LEMMA StreamStepKeeps ==
  ASSUME Registry(Known), Stream, [StreamNext]_installerVars
  PROVE  Registry(Known)' /\ Stream' /\ HistoryStep
  <1>1. CASE StreamNext
    BY <1>1, KnownInstructions, StreamNextKeeps
  <1>2. CASE UNCHANGED installerVars
    BY <1>2, RegistryStays, StreamStays, EdgeIsStep DEF installerVars
  <1> QED BY <1>1, <1>2

-----------------------------------------------------------------------------
(* The same and what streams promise, with streams and baselines among the *)
(* commands.                                                               *)
THEOREM StreamInvariance == StreamSpec => [](Registry(Known) /\ Stream)
  <1>1. InstallerInit => Registry(Known) /\ Stream
    BY RegistryStart, StreamStart
  <1>2. Registry(Known) /\ Stream /\ [StreamNext]_installerVars => (Registry(Known) /\ Stream)'
    BY StreamStepKeeps
  <1> QED BY <1>1, <1>2, PTL DEF StreamSpec

(* The same when streams and baselines run between the commands.           *)
THEOREM StreamInstallsEvaluated == StreamSpec => []EvaluatedOnParent
  <1>1. Registry(Known) => EvaluatedOnParent
    BY KnownInstructions, RegistryPromises
  <1> QED BY <1>1, StreamInvariance, PTL

(* patch_installer.rs 103: an installed record names a whole version that  *)
(* holds the record's patch, and the records of the steps before it are    *)
(* there, although patches may share an id and a command may stop anywhere.*)
THEOREM RecordsTrue == StreamSpec => []RecordsTellVersions
  <1>1. Registry(Known) => RecordsTellVersions
    BY KnownInstructions, RegistryPromises
  <1> QED BY <1>1, StreamInvariance, PTL

(* patch_optimizer.rs 37: the model is asked about the program that is     *)
(* latest, unless an earlier attempt of the same command installed one and *)
(* could not write its record.                                             *)
THEOREM AskedOfLatest == StreamSpec => []AskedAboutLatest
  <1>1. Registry(Known) => AskedAboutLatest
    BY AskedPromise
  <1> QED BY <1>1, StreamInvariance, PTL

(* run_coordinator.rs 186: the profile counts an event once, and only one  *)
(* whose trace was stored before.                                          *)
THEOREM ProfilesTraced == StreamSpec => []ProfileIsTraced
  <1>1. Stream => ProfileIsTraced
    BY StreamPromises
  <1> QED BY <1>1, StreamInvariance, PTL

(* run_coordinator.rs 195: the metrics of a stream are of a run that has   *)
(* all its traces, and all of them are counted.                            *)
THEOREM MetricsTrue == StreamSpec => []MetricsTellRuns
  <1>1. Stream => MetricsTellRuns
    BY StreamPromises
  <1> QED BY <1>1, StreamInvariance, PTL

(* program_registry.rs 156: the registry stays a history, which streams    *)
(* and baselines leave as it is.                                           *)
THEOREM StreamsKeepHistory == StreamSpec => HistoryKept
  <1>1. InstallerInit => History!Init
    BY HistoryStart
  <1>2. Registry(Known) /\ Stream /\ [StreamNext]_installerVars => HistoryStep
    BY StreamStepKeeps
  <1>3. StreamSpec =>
          [][History!Install \/ History!Move]_<<[v \in 1 .. Cardinality(Whole) |-> Version(v)],
                                                IF Readable(LatestFile) THEN Latest ELSE 0>>
    BY <1>2, StreamInvariance, PTL DEF StreamSpec, HistoryStep
  <1> QED BY <1>1, <1>3, PTL DEF StreamSpec, HistoryKept, History!Spec
=============================================================================
