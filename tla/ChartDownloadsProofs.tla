------------------------ MODULE ChartDownloadsProofs ------------------------
(***************************************************************************)
(* However many jobs write one partial file, are cancelled under it or     *)
(* outlive their cancellation, only whole archives are installed from a    *)
(* server that honours Range, and a chart is shown as downloading only     *)
(* while something downloads it: for any charts, coroutines and lengths.   *)
(***************************************************************************)
EXTENDS ChartDownloads, TLAPS, FiniteSetTheorems, WellFoundedInduction

(* A coroutine in a transfer knows its chart, has a file open exactly      *)
(* while it writes, and between two charts is the set job.                 *)
Consistent(t) ==
    /\ t.pc \notin {"none", "next"} => t.chart \in Chart
    /\ t.pc = "next" => t.kind = "set"
    /\ IF t.pc = "write" THEN t.file \in Inode ELSE t.file = NoInode

Transferring == \A w \in Worker : Consistent(task[w])

(* From the comparison of the digest to the rename the mutex is held, and  *)
(* what is at the path stays whole: transfers under way may still write to *)
(* it, but only chunks of the same chart, and none takes it away.          *)
Verified ==
    \A w \in Worker : task[w].pc = "rename" =>
        /\ lock = w
        /\ path[task[w].chart] \in Inode /\ Whole(path[task[w].chart])

Inv == TypeOK /\ Transferring /\ Verified /\ InstalledIsWhole

-----------------------------------------------------------------------------
(* A file has a last chunk: of what follows each of its chunks, something  *)
(* is smallest.                                                            *)
LEMMA LastChunk == ASSUME NEW S \in SUBSET Chunk, S # {} PROVE Max(S) \in S
<1> DEFINE R == StrictSubsetOrdering(Chunk)
           W == FiniteSubsetsOf(Chunk)
           T == {x..Size : x \in S}
<1>1. IsWellFoundedOn(R, W)
  BY FS_StrictSubsetOrderingWellFounded, FS_Interval, SizeAssumption DEF Chunk
<1>2. T \subseteq W /\ T # {}
  <2>1. \A x \in S : x..Size \subseteq Chunk /\ IsFiniteSet(x..Size)
    BY FS_Interval, SizeAssumption DEF Chunk
  <2> QED
    BY <2>1 DEF FiniteSubsetsOf
<1>3. PICK t \in T : \A y \in T : <<y, t>> \notin R
  <2> HIDE DEF R, T, W
  <2> QED
    BY <1>1, <1>2, WFMin
<1>4. PICK x \in S : t = x..Size
  BY <1>3
<1>5. \A y \in S : x >= y
  <2> SUFFICES ASSUME NEW y \in S, y > x PROVE FALSE
    BY SizeAssumption DEF Chunk
  <2>1. y..Size \in SUBSET Chunk /\ x..Size \in SUBSET Chunk
    BY SizeAssumption DEF Chunk
  <2>2. y..Size \subseteq x..Size /\ y..Size # x..Size
    <3>1. x \in x..Size /\ x \notin y..Size
      BY SizeAssumption DEF Chunk
    <3> QED
      BY <3>1, SizeAssumption DEF Chunk
  <2>3. <<y..Size, x..Size>> \in R
    BY <2>1, <2>2 DEF StrictSubsetOrdering
  <2> QED
    BY <2>3, <1>3, <1>4
<1> QED
  BY <1>4, <1>5 DEF Max

LEMMA LengthType == ASSUME TypeOK, NEW i \in Inode \cup {NoInode} PROVE Length(i) \in 0..Size
<1>1. CASE i = NoInode \/ data[i] = {}
  BY <1>1, SizeAssumption DEF Length
<1>2. CASE i # NoInode /\ data[i] # {}
  <2>1. data[i] \in SUBSET Chunk
    BY <1>2 DEF TypeOK
  <2>2. Max(data[i]) \in Chunk
    BY <1>2, <2>1, LastChunk
  <2> QED
    BY <1>2, <2>2, SizeAssumption DEF Length, Chunk
<1> QED
  BY <1>1, <1>2

LEMMA ImageSize == ASSUME NEW S, IsFiniteSet(S), NEW f
                   PROVE  LET T == {f[x] : x \in S}
                          IN  IsFiniteSet(T) /\ Cardinality(T) <= Cardinality(S)
<1> DEFINE T == {f[x] : x \in S}
           g == [x \in S |-> f[x]]
<1>1. g \in Surjection(S, T)
  BY DEF Surjection
<1> HIDE DEF g
<1> QED
  BY <1>1, FS_Surjection

(* There is an inode for a coroutine that has no file open: every other    *)
(* name or coroutine takes up one at most.                                 *)
LEMMA InodeLeft == ASSUME NEW w \in Worker, task[w].file = NoInode
                   PROVE  NewInode \in Unused /\ NewInode \in Inode
<1> DEFINE C == Cardinality(Chart)
           N == Cardinality(Worker)
           V == Worker \ {w}
           P == {path[c] : c \in Chart}
           B == {blob[c] : c \in Chart}
           files == [v \in V |-> task[v].file]
           F == {files[v] : v \in V}
<1>1. IsFiniteSet(Chart) /\ IsFiniteSet(Worker) /\ C \in Nat /\ N \in Nat
  BY NamesAssumption, FS_CardinalityType
<1>2. IsFiniteSet(V) /\ Cardinality(V) = N - 1
  BY <1>1, FS_RemoveElement
<1>3. IsFiniteSet(P) /\ Cardinality(P) <= C
  BY <1>1, ImageSize
<1>4. IsFiniteSet(B) /\ Cardinality(B) <= C
  BY <1>1, ImageSize
<1>5. IsFiniteSet(F) /\ Cardinality(F) <= N - 1
  <2> HIDE DEF V, files
  <2> QED
    BY <1>2, ImageSize
<1>6. IsFiniteSet((P \cup B) \cup F) /\ Cardinality((P \cup B) \cup F) <= 2 * C + N - 1
  <2> HIDE DEF P, B, F, C, N, V
  <2>1. IsFiniteSet(P \cup B) /\ Cardinality(P \cup B) <= 2 * C
    <3>1. Cardinality(P \cup B) = Cardinality(P) + Cardinality(B) - Cardinality(P \cap B) /\ IsFiniteSet(P \cup B)
      BY <1>3, <1>4, FS_Union
    <3>2. IsFiniteSet(P \cap B)
      BY <1>3, FS_Subset
    <3>3. Cardinality(P) \in Nat /\ Cardinality(B) \in Nat /\ Cardinality(P \cap B) \in Nat
      BY <1>3, <1>4, <3>2, FS_CardinalityType
    <3> QED
      BY <3>1, <3>3, <1>1, <1>3, <1>4
  <2> DEFINE Q == P \cup B
  <2> HIDE DEF Q
  <2>2. IsFiniteSet(Q \cup F) /\ Cardinality(Q \cup F) <= 2 * C + N - 1
    <3>1. IsFiniteSet(Q) /\ Cardinality(Q) <= 2 * C
      BY <2>1 DEF Q
    <3>2. Cardinality(Q \cup F) = Cardinality(Q) + Cardinality(F) - Cardinality(Q \cap F) /\ IsFiniteSet(Q \cup F)
      BY <3>1, <1>5, FS_Union
    <3>3. IsFiniteSet(Q \cap F)
      BY <3>1, FS_Subset
    <3>4. Cardinality(Q) \in Nat /\ Cardinality(F) \in Nat /\ Cardinality(Q \cap F) \in Nat
      BY <3>1, <1>5, <3>3, FS_CardinalityType
    <3> QED
      BY <3>1, <3>2, <3>4, <1>1, <1>5
  <2> QED
    BY <2>2 DEF Q
<1>7. Cardinality(Inode) = 2 * C + N
  <2> DEFINE n == 2 * C + N
  <2>1. n \in Nat /\ Inode = 1..n
    BY <1>1 DEF Inode
  <2> HIDE DEF n
  <2>2. Cardinality(1..n) = n
    BY <2>1, FS_Interval
  <2> QED
    BY <2>1, <2>2 DEF n
<1>8. PICK i \in Inode : i \notin (P \cup B) \cup F
  <2> SUFFICES ASSUME Inode \subseteq (P \cup B) \cup F PROVE FALSE
    OBVIOUS
  <2> HIDE DEF P, B, F, C, N
  <2>1. Cardinality(Inode) <= Cardinality((P \cup B) \cup F)
    BY <1>6, FS_Subset
  <2>2. Cardinality((P \cup B) \cup F) \in Nat
    BY <1>6, FS_CardinalityType
  <2> QED
    BY <2>1, <2>2, <1>1, <1>6, <1>7
<1>9. \A v \in Worker : task[v].file # i
  <2> SUFFICES ASSUME NEW v \in Worker PROVE task[v].file # i
    OBVIOUS
  <2>1. CASE v = w
    BY <2>1, NamesAssumption DEF Inode
  <2>2. CASE v # w
    <3>1. v \in V /\ files[v] = task[v].file
      BY <2>2
    <3> QED
      BY <3>1, <1>8
  <2> QED
    BY <2>1, <2>2
<1>10. i \in Unused
  BY <1>8, <1>9 DEF Unused
<1>11. NewInode \in Unused
  BY <1>10 DEF NewInode
<1> QED
  BY <1>11 DEF Unused

-----------------------------------------------------------------------------
(* Steps of one coroutine. *)
LEMMA ChangeOne ==
    ASSUME TypeOK, Transferring, NEW w \in Worker, NEW t \in Tasks, Consistent(t),
           task' = [task EXCEPT ![w] = t]
    PROVE  task' \in [Worker -> Tasks] /\ Transferring'
<1>1. \A v \in Worker : task'[v] = IF v = w THEN t ELSE task[v]
  BY DEF TypeOK
<1>2. \A v \in Worker : Consistent(task'[v])
  BY <1>1 DEF Transferring
<1>3. task' \in [Worker -> Tasks]
  BY DEF TypeOK
<1> QED
  BY <1>2, <1>3 DEF Transferring, Consistent, Inode

LEMMA NoTaskType == NoTask \in Tasks /\ Consistent(NoTask)
BY SizeAssumption DEF NoTask, Tasks, Consistent

LEMMA WritingType == ASSUME NEW t \in Tasks, NEW i \in Inode, NEW pos \in 0..Size
                     PROVE  LET n == Writing(t, i, pos) IN n \in Tasks /\ n.pc = "write" /\ n.file = i /\ n.chart = t.chart /\ n.kind = t.kind
<1> DEFINE u == [t EXCEPT !.pc = "write", !.held = 0]
           v == [u EXCEPT !.file = i, !.pos = pos]
<1>0. 0 \in 0..Size
  BY SizeAssumption
<1>1. u \in Tasks /\ u.chart = t.chart /\ u.kind = t.kind /\ u.pc = "write"
  BY <1>0 DEF Tasks
<1>2. Writing(t, i, pos) = v
  BY DEF Writing
<1> HIDE DEF u
<1>3. v \in Tasks /\ v.chart = u.chart /\ v.kind = u.kind /\ v.pc = u.pc /\ v.file = i
  BY <1>1 DEF Tasks
<1> HIDE DEF v
<1> QED
  BY <1>1, <1>2, <1>3

LEMMA WrittenType == ASSUME NEW t \in Tasks
                     PROVE  LET n == Written(t) IN n \in Tasks /\ n.pc = "install" /\ n.file = NoInode /\ n.chart = t.chart /\ n.kind = t.kind
<1>0. 0 \in 0..Size
  BY SizeAssumption
<1> QED
  BY <1>0 DEF Written, Tasks

LEMMA FetchingType == ASSUME NEW c \in Chart
                     PROVE  LET n == Fetching(c) IN n \in Tasks /\ n.pc = "measure" /\ n.file = NoInode /\ n.chart = c /\ n.kind = "chart"
<1>0. 0 \in 0..Size
  BY SizeAssumption
<1> QED
  BY <1>0 DEF Fetching, Tasks, NoTask

LEMMA SetOfType == ASSUME NEW left \in SUBSET Chart, NEW cancelled \in BOOLEAN
                     PROVE  LET n == SetOf(left, cancelled) IN n \in Tasks /\ n.pc = "next" /\ n.file = NoInode /\ n.kind = "set"
<1> DEFINE u == [NoTask EXCEPT !.pc = "next", !.kind = "set"]
           v == [u EXCEPT !.left = left, !.cancelled = cancelled]
<1>0. 0 \in 0..Size
  BY SizeAssumption
<1>1. u \in Tasks /\ u.pc = "next" /\ u.kind = "set" /\ u.file = NoInode
  BY <1>0 DEF Tasks, NoTask
<1>2. SetOf(left, cancelled) = v
  BY DEF SetOf
<1> HIDE DEF u
<1>3. v \in Tasks /\ v.chart = u.chart /\ v.kind = u.kind /\ v.pc = u.pc /\ v.file = u.file
  BY <1>1 DEF Tasks
<1> HIDE DEF v
<1> QED
  BY <1>1, <1>2, <1>3

LEMMA EndType == ASSUME TypeOK, Transferring, NEW w \in Worker, End(w)
                 PROVE  task' \in [Worker -> Tasks] /\ Transferring'
BY ChangeOne, NoTaskType DEF End

LEMMA EndChartType == ASSUME TypeOK, Transferring, NEW w \in Worker, EndChart(w)
                      PROVE  task' \in [Worker -> Tasks] /\ Transferring'
<1>1. task[w] \in Tasks
  BY DEF TypeOK
<1> DEFINE n == SetOf(task[w].left, task[w].cancelled)
<1>2. task[w].left \in SUBSET Chart /\ task[w].cancelled \in BOOLEAN
  BY <1>1 DEF Tasks
<1>3. n \in Tasks /\ Consistent(n)
  BY <1>2, SetOfType DEF Consistent
<1>4. task' = [task EXCEPT ![w] = n]
  BY DEF EndChart
<1> QED
  BY <1>3, <1>4, ChangeOne

Screen == progress \in [Chart -> {"none", "running", "failed"}] /\ shown \in {"none", "running", "finished"}

LEMMA ThrowType == ASSUME TypeOK, Transferring, NEW w \in Worker, task[w].pc \notin {"none", "next"}, Throw(w)
                   PROVE  task' \in [Worker -> Tasks] /\ Transferring' /\ Screen'
<1>1. CASE task[w].kind = "chart"
  BY <1>1, EndType DEF Throw, TypeOK, Screen
<1>2. CASE task[w].kind # "chart"
  BY <1>2, EndChartType DEF Throw, TypeOK, Screen
<1> QED
  BY <1>1, <1>2

LEMMA CancelledType == ASSUME TypeOK, Transferring, NEW w \in Worker, Cancelled(w)
                       PROVE  task' \in [Worker -> Tasks] /\ Transferring' /\ Screen'
<1>1. task' \in [Worker -> Tasks] /\ Transferring'
  BY EndType DEF Cancelled
<1>2. Screen'
  BY DEF Cancelled, TypeOK, Screen
<1> QED
  BY <1>1, <1>2

LEMMA HoldType == ASSUME NEW d \in [Inode -> SUBSET Chunk], Hold(d)
                  PROVE  data' \in [Inode -> SUBSET Chunk]
BY DEF Hold

LEMMA HoldKeeps == ASSUME NEW d, Hold(d), NEW i \in Inode, i \notin Unused'
                   PROVE  data'[i] = d[i]
BY DEF Hold

LEMMA InitInv == Init => Inv /\ ProgressHasWorker
<1> SUFFICES ASSUME Init PROVE Inv /\ ProgressHasWorker
  OBVIOUS
<1>1. TypeOK
  BY NoTaskType DEF Init, TypeOK
<1>2. Transferring
  BY NoTaskType DEF Init, Transferring
<1>3. Verified
  BY DEF Init, Verified, NoTask
<1> QED
  BY <1>1, <1>2, <1>3 DEF Init, Inv, InstalledIsWhole, ProgressHasWorker

-----------------------------------------------------------------------------
(* Every step keeps the variables in their types and the coroutines        *)
(* consistent.                                                             *)
LEMMA TypeStep == TypeOK /\ Transferring /\ [Next]_vars => TypeOK' /\ Transferring'
<1> SUFFICES ASSUME TypeOK, Transferring, [Next]_vars PROVE TypeOK' /\ Transferring'
  OBVIOUS
<1> DEFINE Names == {path, blob} \subseteq [Chart -> Inode \cup {NoInode}]
           Coroutines == task \in [Worker -> Tasks] /\ Transferring
           Lock == lock \in Worker \cup {NoWorker}
           Contents == data \in [Inode -> SUBSET Chunk]
<1>t. Names /\ Contents /\ Lock /\ Screen /\ Coroutines
  BY DEF TypeOK, Screen
<1>q. Names' /\ Contents' /\ Lock' /\ Screen' /\ Coroutines' => TypeOK' /\ Transferring'
  BY DEF TypeOK, Screen
<1>h. Hold(data) => Contents'
  BY HoldType, <1>t
<1>n. UNCHANGED names => Names'
  BY <1>t DEF names
<1>1. ASSUME NEW c \in Chart, DownloadChart(c) PROVE TypeOK' /\ Transferring'
  <2>1. PICK w \in Worker : task' = [task EXCEPT ![w] = Fetching(c)]
    BY <1>1 DEF DownloadChart
  <2>2. Fetching(c) \in Tasks /\ Consistent(Fetching(c))
    BY FetchingType DEF Consistent
  <2>3. Coroutines'
    BY <2>1, <2>2, ChangeOne
  <2>4. Screen'
    BY <1>1, <1>t DEF DownloadChart, Screen
  <2> QED
    BY <1>1, <2>3, <2>4, <1>t, <1>q, <1>n DEF DownloadChart
<1>2. ASSUME NEW missing \in SUBSET Chart, DownloadChartSet(missing) PROVE TypeOK' /\ Transferring'
  <2>1. PICK w \in Worker : task' = [task EXCEPT ![w] = SetOf(missing, FALSE)]
    BY <1>2 DEF DownloadChartSet
  <2>2. SetOf(missing, FALSE) \in Tasks /\ Consistent(SetOf(missing, FALSE))
    BY SetOfType DEF Consistent
  <2>3. Coroutines'
    BY <2>1, <2>2, ChangeOne
  <2>4. Screen'
    BY <1>2, <1>t DEF DownloadChartSet, Screen
  <2> QED
    BY <1>2, <2>3, <2>4, <1>t, <1>q, <1>n DEF DownloadChartSet
<1>3. ASSUME NEW w \in Worker, NextChart(w) PROVE TypeOK' /\ Transferring'
  <2>1. Coroutines' /\ Screen'
    <3>1. CASE Cancelled(w)
      BY <3>1, CancelledType
    <3>2. CASE End(w) /\ shown' = "finished" /\ UNCHANGED progress
      BY <3>2, EndType, <1>t DEF Screen
    <3>3. ASSUME NEW c \in task[w].left,
                 task' = [task EXCEPT ![w].pc = "measure", ![w].chart = c, ![w].left = @ \ {c}],
                 UNCHANGED <<progress, shown>>
          PROVE  Coroutines' /\ Screen'
      <4> DEFINE t == [task[w] EXCEPT !.pc = "measure", !.chart = c, !.left = @ \ {c}]
      <4>1. t \in Tasks /\ Consistent(t)
        BY ZenonT(60), <1>3, <1>t DEF NextChart, Transferring, Consistent, Tasks
      <4>2. task' = [task EXCEPT ![w] = t]
        BY <3>3, <1>t
      <4> QED
        BY <4>1, <4>2, <3>3, ChangeOne, <1>t DEF Screen
    <3> QED
      BY <1>3, <3>1, <3>2, <3>3 DEF NextChart
  <2> QED
    BY <1>3, <2>1, <1>t, <1>q, <1>n, <1>h DEF NextChart
<1>4. ASSUME NEW w \in Worker, Measure(w) PROVE TypeOK' /\ Transferring'
  <2>1. Coroutines' /\ Screen'
    <3>1. CASE Cancelled(w)
      BY <3>1, CancelledType
    <3>2. CASE ~Cancelled(w)
      <4> DEFINE n == Length(path[task[w].chart])
                 t == [task[w] EXCEPT !.pc = "respond", !.held = n]
      <4>1. task[w].chart \in Chart
        BY <1>4 DEF Measure, Transferring, Consistent
      <4>2. n \in 0..Size
        BY <4>1, <1>t, LengthType
      <4>3. t \in Tasks /\ Consistent(t)
        <5> HIDE DEF n
        <5> QED
          BY ZenonT(60), <1>4, <1>t, <4>2 DEF Measure, Transferring, Consistent, Tasks
      <4>4. task' = [task EXCEPT ![w] = t] /\ UNCHANGED <<progress, shown>>
        BY <1>4, <3>2, <1>t DEF Measure
      <4> QED
        BY <4>3, <4>4, ChangeOne, <1>t DEF Screen
    <3> QED
      BY <3>1, <3>2
  <2> QED
    BY <1>4, <2>1, <1>t, <1>q, <1>n, <1>h DEF Measure
<1>5. ASSUME NEW w \in Worker, Respond(w) PROVE TypeOK' /\ Transferring'
  <2>1. ASSUME NEW exists \in BOOLEAN, NEW pos \in 0..Size, Open(w, exists, pos),
               exists => path[task[w].chart] # NoInode, UNCHANGED <<progress, shown>>
        PROVE  Coroutines' /\ Screen' /\ path' \in [Chart -> Inode \cup {NoInode}]
    <3> DEFINE c == task[w].chart
               i == IF exists THEN path[c] ELSE NewInode
               t == Writing(task[w], i, pos)
    <3>1. c \in Chart /\ task[w].file = NoInode
      BY <1>5 DEF Respond, Transferring, Consistent
    <3>2. i \in Inode
      BY <3>1, <2>1, <1>t, InodeLeft
    <3> HIDE DEF i
    <3>3. t \in Tasks /\ Consistent(t)
      BY <3>1, <3>2, <1>t, WritingType DEF Consistent
    <3>4. task' = [task EXCEPT ![w] = t] /\ path' = [path EXCEPT ![c] = i]
      BY <2>1, <1>t DEF Open, i
    <3> QED
      BY <3>1, <3>2, <3>3, <3>4, <2>1, ChangeOne, <1>t DEF Screen
  <2>2. Coroutines' /\ Screen' /\ path' \in [Chart -> Inode \cup {NoInode}]
    <3>1. CASE Throw(w) /\ UNCHANGED path
      BY <1>5, <3>1, ThrowType, <1>t DEF Respond
    <3>2. ~(Throw(w) /\ UNCHANGED path) =>
            \E exists \in BOOLEAN, pos \in 0..Size :
              /\ Open(w, exists, pos) /\ UNCHANGED <<progress, shown>>
              /\ exists => path[task[w].chart] # NoInode
      <4> DEFINE e == path[task[w].chart] # NoInode
                 h == task[w].held
      <4>1. 0 \in 0..Size /\ 1..(Size - 1) \subseteq 0..Size /\ e \in BOOLEAN /\ FALSE \in BOOLEAN
        BY SizeAssumption
      <4>2. \/ Open(w, e, 0) /\ UNCHANGED <<progress, shown>>
            \/ Open(w, FALSE, 0) /\ UNCHANGED <<progress, shown>>
            \/ h \in 1..(Size - 1) /\ Open(w, e, h) /\ UNCHANGED <<progress, shown>>
            \/ Throw(w) /\ UNCHANGED path
        BY <1>5, Zenon DEF Respond
      <4> HIDE DEF h
      <4> QED
        BY <4>1, <4>2, Zenon
    <3> QED
      BY <3>1, <3>2, <2>1
  <2>3. Names'
    BY <1>5, <2>2, <1>t DEF Respond
  <2> QED
    BY <1>5, <2>2, <2>3, <1>t, <1>q, <1>h DEF Respond
<1>6. ASSUME NEW w \in Worker, Write(w) PROVE TypeOK' /\ Transferring'
  <2> DEFINE t == [task[w] EXCEPT !.pos = @ + 1]
             d == [data EXCEPT ![task[w].file] = @ \cup {task[w].pos + 1}]
  <2>1. task[w].file \in Inode /\ task[w].chart \in Chart /\ task[w].pos + 1 \in Chunk
    BY <1>6, <1>t, SizeAssumption DEF Write, Transferring, Consistent, Tasks, Chunk
  <2>2. t \in Tasks /\ Consistent(t)
    BY <1>6, <2>1, <1>t, SizeAssumption DEF Write, Consistent, Tasks, Chunk
  <2>3. task' = [task EXCEPT ![w] = t]
    BY <1>6, <1>t DEF Write
  <2>4. Coroutines'
    BY <2>2, <2>3, ChangeOne
  <2>5. Screen'
    BY <1>6, <2>1, <1>t DEF Write, Screen
  <2>6. d \in [Inode -> SUBSET Chunk]
    BY <2>1, <1>t
  <2>7. Contents'
    BY <1>6, <2>6, HoldType DEF Write
  <2> QED
    BY <1>6, <2>4, <2>5, <2>7, <1>t, <1>q, <1>n DEF Write
<1>7. ASSUME NEW w \in Worker, Disconnect(w) PROVE TypeOK' /\ Transferring'
  BY <1>7, ThrowType, <1>t, <1>q, <1>n, <1>h DEF Disconnect
<1>8. ASSUME NEW w \in Worker, WriteEnd(w) PROVE TypeOK' /\ Transferring'
  <2>1. Coroutines' /\ Screen'
    <3>1. CASE Cancelled(w)
      BY <3>1, CancelledType
    <3>2. CASE ~Cancelled(w)
      <4> DEFINE t == Written(task[w])
      <4>1. t \in Tasks /\ Consistent(t)
        BY <1>8, <1>t, WrittenType DEF WriteEnd, Transferring, Consistent
      <4>2. task' = [task EXCEPT ![w] = t] /\ UNCHANGED <<progress, shown>>
        BY <1>8, <3>2, <1>t DEF WriteEnd
      <4> QED
        BY <4>1, <4>2, ChangeOne, <1>t DEF Screen
    <3> QED
      BY <3>1, <3>2
  <2> QED
    BY <1>8, <2>1, <1>t, <1>q, <1>n, <1>h DEF WriteEnd
<1>9. ASSUME NEW w \in Worker, Verify(w) PROVE TypeOK' /\ Transferring'
  <2>1. Coroutines' /\ Screen' /\ Lock'
    <3>1. CASE Cancelled(w) /\ UNCHANGED lock
      BY <3>1, CancelledType, <1>t
    <3>2. CASE Goto(w, "rename") /\ lock' = w /\ UNCHANGED <<progress, shown>>
      <4> DEFINE t == [task[w] EXCEPT !.pc = "rename"]
      <4>1. t \in Tasks /\ Consistent(t)
        BY <1>9, <1>t DEF Verify, Transferring, Consistent, Tasks
      <4>2. task' = [task EXCEPT ![w] = t]
        BY <3>2, <1>t DEF Goto
      <4> QED
        BY <4>1, <4>2, <3>2, ChangeOne, <1>t DEF Screen
    <3>3. CASE Throw(w) /\ UNCHANGED lock
      BY <1>9, <3>3, ThrowType, <1>t DEF Verify
    <3> QED
      BY <1>9, <3>1, <3>2, <3>3 DEF Verify
  <2> QED
    BY <1>9, <2>1, <1>t, <1>q, <1>n, <1>h DEF Verify
<1>10. ASSUME NEW w \in Worker, Rename(w) PROVE TypeOK' /\ Transferring'
  <2>1. task[w].chart \in Chart
    BY <1>10 DEF Rename, Transferring, Consistent
  <2>2. Coroutines' /\ Screen'
    <3>1. CASE Cancelled(w)
      BY <3>1, CancelledType
    <3>2. CASE ~Cancelled(w) /\ task[w].kind = "chart"
      BY <1>10, <3>2, <2>1, EndType, <1>t DEF Rename, Screen
    <3>3. CASE ~Cancelled(w) /\ task[w].kind # "chart"
      BY <1>10, <3>3, <2>1, EndChartType, <1>t DEF Rename, Screen
    <3> QED
      BY <3>1, <3>2, <3>3
  <2>3. Names' /\ Lock' /\ Contents'
    BY <1>10, <2>1, <1>t, <1>h DEF Rename
  <2> QED
    BY <2>2, <2>3, <1>q
<1>11. ASSUME NEW S \in SUBSET Worker,
              task' = [w \in Worker |-> IF w \in S THEN [task[w] EXCEPT !.cancelled = TRUE] ELSE task[w]]
       PROVE  Coroutines'
  <2>1. \A w \in Worker : [task[w] EXCEPT !.cancelled = TRUE] \in Tasks
                          /\ Consistent([task[w] EXCEPT !.cancelled = TRUE])
    BY ZenonT(60), <1>t DEF Transferring, Consistent, Tasks
  <2>2. \A w \in Worker : task'[w] \in Tasks /\ Consistent(task'[w])
    BY <1>11, <2>1, <1>t DEF Transferring
  <2> QED
    BY <1>11, <2>2 DEF Transferring, Consistent, Inode
<1>12. ASSUME NEW c \in Chart, CancelChartDownload(c) PROVE TypeOK' /\ Transferring'
  <2>1. Coroutines'
    BY <1>12, <1>11 DEF CancelChartDownload, ChartJob
  <2>2. Screen'
    BY <1>12, <1>t DEF CancelChartDownload, Screen
  <2> QED
    BY <1>12, <2>1, <2>2, <1>t, <1>q, <1>n DEF CancelChartDownload
<1>13. CASE CancelChartSetDownload
  <2>1. Coroutines'
    BY <1>13, <1>11 DEF CancelChartSetDownload, SetJob
  <2>2. Screen'
    BY <1>13, <1>t DEF CancelChartSetDownload, Screen
  <2> QED
    BY <1>13, <2>1, <2>2, <1>t, <1>q, <1>n DEF CancelChartSetDownload
<1>14. CASE DismissChartSetDownload
  BY <1>14, <1>t, <1>q, <1>n DEF DismissChartSetDownload, Screen, Transferring, Consistent, Inode
<1>15. ASSUME NEW c \in Chart, RemoveChart(c) PROVE TypeOK' /\ Transferring'
  BY <1>15, <1>t, <1>q, <1>h DEF RemoveChart, Screen, Transferring, Consistent, Inode
<1>16. CASE Death
  <2>1. Coroutines'
    BY <1>16, NoTaskType DEF Death, Transferring, Consistent, Inode
  <2>2. Screen' /\ Lock'
    BY <1>16 DEF Death, Screen
  <2> QED
    BY <1>16, <2>1, <2>2, <1>t, <1>q, <1>n, <1>h DEF Death
<1>17. CASE UNCHANGED vars
  BY <1>17, <1>t, <1>q DEF vars, Screen, Transferring, Consistent, Inode
<1> QED
  BY <1>1, <1>2, <1>3, <1>4, <1>5, <1>6, <1>7, <1>8, <1>9, <1>10, <1>12, <1>13, <1>14, <1>15,
     <1>16, <1>17 DEF Next, Step

-----------------------------------------------------------------------------
(* A step of a coroutine leaves the others alone; it comes to the rename   *)
(* by a verification; and when it is the one that downloads a chart it     *)
(* goes on with it, or the chart is not shown as downloading any more.     *)
Downloads(w, c) == Alive(w) /\ task[w].kind = "chart" /\ task[w].chart = c

Shows(v) ==
    \A c \in Chart : progress'[c] = "running" =>
        (progress[c] = "running" /\ ~Downloads(v, c)) \/ Downloads(v, c)'

Alone(v) == \A u \in Worker \ {v} : task'[u] = task[u]

LEMMA EndShows == ASSUME TypeOK, NEW v \in Worker, End(v),
                         progress' = IF task[v].kind = "chart"
                                     THEN [progress EXCEPT ![task[v].chart] = "failed"] ELSE progress
                  PROVE  Shows(v) /\ Alone(v) /\ task'[v].pc = "none"
<1>1. task'[v] = NoTask /\ Alone(v)
  BY DEF End, TypeOK, Alone
<1>2. Shows(v)
  BY DEF Shows, TypeOK, Downloads
<1> QED
  BY <1>1, <1>2 DEF NoTask

LEMMA EndChartShows == ASSUME TypeOK, NEW v \in Worker, EndChart(v), task[v].kind = "set", UNCHANGED progress
                       PROVE  Shows(v) /\ Alone(v) /\ task'[v].pc = "next"
<1>1. Alone(v) /\ task'[v] = SetOf(task[v].left, task[v].cancelled)
  BY DEF EndChart, TypeOK, Alone
<1>2. task[v].left \in SUBSET Chart /\ task[v].cancelled \in BOOLEAN
  BY DEF TypeOK, Tasks
<1>3. task'[v].pc = "next"
  BY <1>1, <1>2, SetOfType
<1>4. Shows(v)
  BY DEF Shows, Downloads
<1> QED
  BY <1>1, <1>3, <1>4

LEMMA ThrowShows == ASSUME TypeOK, NEW v \in Worker, Throw(v)
                    PROVE  Shows(v) /\ Alone(v) /\ task'[v].pc \in {"none", "next"}
<1>1. CASE task[v].kind = "chart"
  BY <1>1, EndShows DEF Throw
<1>2. CASE task[v].kind # "chart"
  <2>1. task[v].kind = "set"
    BY <1>2 DEF TypeOK, Tasks
  <2> QED
    BY <1>2, <2>1, EndChartShows DEF Throw
<1> QED
  BY <1>1, <1>2

LEMMA CancelledShows == ASSUME TypeOK, NEW v \in Worker, Cancelled(v)
                        PROVE  Shows(v) /\ Alone(v) /\ task'[v].pc = "none"
BY EndShows DEF Cancelled

LEMMA OnShows == ASSUME TypeOK, NEW v \in Worker, NEW t, task' = [task EXCEPT ![v] = t],
                        t.pc # "none", t.chart = task[v].chart, t.kind = task[v].kind, UNCHANGED progress
                 PROVE  Shows(v) /\ Alone(v) /\ task'[v] = t
<1>1. Alone(v) /\ task'[v] = t
  BY DEF TypeOK, Alone
<1>2. Shows(v)
  BY <1>1 DEF Shows, Downloads, Alive
<1> QED
  BY <1>1, <1>2

(* What a verification found. *)
Found(v) == /\ task[v].pc = "install" /\ Whole(path[task[v].chart])
            /\ task'[v] = [task[v] EXCEPT !.pc = "rename"]
            /\ lock' = v /\ UNCHANGED names

LEMMA StepShows == ASSUME TypeOK, Transferring, NEW v \in Worker, Step(v)
                   PROVE  Shows(v) /\ Alone(v) /\ (task'[v].pc = "rename" => Found(v))
<1> DEFINE Goal == Shows(v) /\ Alone(v) /\ (task'[v].pc = "rename" => Found(v))
<1>t. task[v] \in Tasks
  BY DEF TypeOK
<1>1. CASE NextChart(v)
  <2>1. CASE Cancelled(v)
    BY <2>1, CancelledShows
  <2>2. CASE End(v) /\ UNCHANGED progress
    <3>1. task[v].kind = "set"
      BY <1>1 DEF NextChart, Transferring, Consistent
    <3> QED
      BY <2>2, <3>1, EndShows
  <2>3. ASSUME NEW c \in task[v].left, UNCHANGED progress,
               task' = [task EXCEPT ![v].pc = "measure", ![v].chart = c, ![v].left = @ \ {c}]
        PROVE  Goal
    <3>1. task'[v].pc = "measure" /\ Alone(v)
      BY <2>3, <1>t DEF TypeOK, Alone, Tasks
    <3>2. task[v].kind = "set"
      BY <1>1 DEF NextChart, Transferring, Consistent
    <3> QED
      BY <2>3, <3>1, <3>2 DEF Shows, Downloads
  <2> QED
    BY <1>1, <2>1, <2>2, <2>3 DEF NextChart
<1>2. CASE Measure(v)
  <2>1. CASE Cancelled(v)
    BY <2>1, CancelledShows
  <2>2. CASE ~Cancelled(v)
    <3> DEFINE t == [task[v] EXCEPT !.pc = "respond", !.held = Length(path[task[v].chart])]
    <3>1. t.pc = "respond" /\ t.chart = task[v].chart /\ t.kind = task[v].kind
      BY <1>t DEF Tasks
    <3>2. task' = [task EXCEPT ![v] = t] /\ UNCHANGED progress
      BY <1>2, <2>2 DEF Measure, TypeOK
    <3> HIDE DEF t
    <3> QED
      BY <3>1, <3>2, OnShows
  <2> QED
    BY <2>1, <2>2
<1>3. CASE Respond(v)
  <2>1. ASSUME NEW exists \in BOOLEAN, NEW pos \in 0..Size, Open(v, exists, pos), UNCHANGED progress,
               exists => path[task[v].chart] # NoInode
        PROVE  Goal
    <3> DEFINE i == IF exists THEN path[task[v].chart] ELSE NewInode
               t == Writing(task[v], i, pos)
    <3>1. i \in Inode
      BY <1>3, <2>1, InodeLeft DEF Respond, Transferring, Consistent, TypeOK
    <3>2. t.pc = "write" /\ t.chart = task[v].chart /\ t.kind = task[v].kind
      BY <3>1, <1>t, WritingType
    <3>3. task' = [task EXCEPT ![v] = t]
      BY <2>1 DEF Open, TypeOK
    <3> HIDE DEF t
    <3> QED
      BY <3>2, <3>3, <2>1, OnShows
  <2>2. CASE Throw(v)
    BY <2>2, ThrowShows
  <2>3. ~Throw(v) => \E exists \in BOOLEAN, pos \in 0..Size :
             /\ Open(v, exists, pos) /\ UNCHANGED progress
             /\ exists => path[task[v].chart] # NoInode
    <3> DEFINE e == path[task[v].chart] # NoInode
               h == task[v].held
    <3>1. 0 \in 0..Size /\ 1..(Size - 1) \subseteq 0..Size /\ e \in BOOLEAN /\ FALSE \in BOOLEAN
      BY SizeAssumption
    <3>2. \/ Open(v, e, 0) /\ UNCHANGED progress
          \/ Open(v, FALSE, 0) /\ UNCHANGED progress
          \/ h \in 1..(Size - 1) /\ Open(v, e, h) /\ UNCHANGED progress
          \/ Throw(v)
      BY <1>3, Zenon DEF Respond
    <3> HIDE DEF h
    <3> QED
      BY <3>1, <3>2, Zenon
  <2> QED
    BY <2>1, <2>2, <2>3
<1>4. CASE Write(v)
  <2>1. task'[v].pc = "write" /\ task'[v].chart = task[v].chart /\ task'[v].kind = task[v].kind /\ Alone(v)
    BY <1>4, <1>t DEF Write, TypeOK, Tasks, Alone
  <2>2. Shows(v)
    BY <1>4, <2>1 DEF Write, Shows, Downloads, Alive, TypeOK
  <2> QED
    BY <2>1, <2>2
<1>5. CASE Disconnect(v)
  BY <1>5, ThrowShows DEF Disconnect
<1>6. CASE WriteEnd(v)
  <2>1. CASE Cancelled(v)
    BY <2>1, CancelledShows
  <2>2. CASE ~Cancelled(v)
    <3>1. Written(task[v]).pc = "install" /\ Written(task[v]).chart = task[v].chart
          /\ Written(task[v]).kind = task[v].kind
      BY <1>t, WrittenType
    <3>2. task' = [task EXCEPT ![v] = Written(task[v])] /\ UNCHANGED progress
      BY <1>6, <2>2 DEF WriteEnd, TypeOK
    <3> QED
      BY <3>1, <3>2, OnShows
  <2> QED
    BY <2>1, <2>2
<1>7. CASE Verify(v)
  <2>1. CASE Cancelled(v)
    BY <2>1, CancelledShows
  <2>2. CASE Throw(v)
    BY <2>2, ThrowShows
  <2>3. CASE Goto(v, "rename") /\ lock' = v /\ UNCHANGED progress /\ Whole(path[task[v].chart])
    <3> DEFINE t == [task[v] EXCEPT !.pc = "rename"]
    <3>1. t.pc = "rename" /\ t.chart = task[v].chart /\ t.kind = task[v].kind
      BY <1>t DEF Tasks
    <3>2. task' = [task EXCEPT ![v] = t]
      BY <2>3 DEF Goto, TypeOK
    <3>3. Shows(v) /\ Alone(v) /\ task'[v] = t
      <4> HIDE DEF t
      <4> QED
        BY <3>1, <3>2, <2>3, OnShows
    <3> QED
      BY <3>3, <1>7, <2>3 DEF Found, Verify
  <2> QED
    BY <1>7, <2>1, <2>2, <2>3 DEF Verify
<1>8. CASE Rename(v)
  <2>1. CASE Cancelled(v)
    BY <2>1, CancelledShows
  <2>2. CASE ~Cancelled(v) /\ task[v].kind = "set"
    BY <1>8, <2>2, EndChartShows DEF Rename
  <2>3. CASE ~Cancelled(v) /\ task[v].kind = "chart"
    <3>1. task'[v] = NoTask /\ Alone(v)
      BY <1>8, <2>3 DEF Rename, End, TypeOK, Alone
    <3>2. progress' = [progress EXCEPT ![task[v].chart] = "none"]
      BY <1>8, <2>3 DEF Rename
    <3>3. Shows(v)
      BY <3>2 DEF Shows, Downloads, TypeOK
    <3> QED
      BY <3>1, <3>3 DEF NoTask
  <2> QED
    BY <1>t, <2>1, <2>2, <2>3 DEF Tasks
<1> QED
  BY <1>1, <1>2, <1>3, <1>4, <1>5, <1>6, <1>7, <1>8 DEF Step

LEMMA ProgressStep == TypeOK /\ Transferring /\ ProgressHasWorker /\ [Next]_vars => ProgressHasWorker'
<1> SUFFICES ASSUME TypeOK, Transferring, ProgressHasWorker, [Next]_vars, NEW c \in Chart,
                    progress'[c] = "running"
             PROVE  \E w \in Worker : Downloads(w, c)'
  BY DEF ProgressHasWorker, Downloads, Alive
<1>w. progress[c] = "running" => \E w \in Worker : Downloads(w, c)
  BY DEF ProgressHasWorker, Downloads
<1>1. ASSUME NEW d \in Chart, DownloadChart(d) PROVE \E w \in Worker : Downloads(w, c)'
  <2>1. PICK v \in Worker : ~Alive(v) /\ task' = [task EXCEPT ![v] = Fetching(d)]
    BY <1>1 DEF DownloadChart
  <2>2. task'[v] = Fetching(d) /\ \A u \in Worker \ {v} : task'[u] = task[u]
    BY <2>1 DEF TypeOK
  <2>3. CASE c = d
    BY <2>2, <2>3, FetchingType DEF Downloads, Alive
  <2>4. CASE c # d
    <3>1. progress[c] = "running"
      BY <1>1, <2>4 DEF DownloadChart, TypeOK
    <3>2. PICK w \in Worker : Downloads(w, c)
      BY <3>1, <1>w
    <3>3. w # v
      BY <2>1, <3>2 DEF Downloads
    <3> QED
      BY <2>2, <3>2, <3>3 DEF Downloads, Alive
  <2> QED
    BY <2>3, <2>4
<1>2. ASSUME NEW missing \in SUBSET Chart, DownloadChartSet(missing)
      PROVE  \E w \in Worker : Downloads(w, c)'
  <2>1. PICK v \in Worker : ~Alive(v) /\ task' = [task EXCEPT ![v] = SetOf(missing, FALSE)]
    BY <1>2 DEF DownloadChartSet
  <2>2. \A u \in Worker \ {v} : task'[u] = task[u]
    BY <2>1 DEF TypeOK
  <2>3. PICK w \in Worker : Downloads(w, c)
    BY <1>2, <1>w DEF DownloadChartSet
  <2>4. w # v
    BY <2>1, <2>3 DEF Downloads
  <2> QED
    BY <2>2, <2>3, <2>4 DEF Downloads, Alive
<1>3. ASSUME NEW v \in Worker, Step(v) PROVE \E w \in Worker : Downloads(w, c)'
  <2>1. Shows(v) /\ Alone(v)
    BY <1>3, StepShows
  <2>2. CASE Downloads(v, c)'
    BY <2>2
  <2>3. CASE progress[c] = "running" /\ ~Downloads(v, c)
    <3>1. PICK w \in Worker : Downloads(w, c)
      BY <2>3, <1>w
    <3>2. w # v
      BY <2>3, <3>1
    <3>3. task'[w] = task[w]
      BY <2>1, <3>2 DEF Alone
    <3> QED
      BY <3>1, <3>3 DEF Downloads, Alive
  <2> QED
    BY <2>1, <2>2, <2>3 DEF Shows
<1>4. ASSUME NEW S \in SUBSET Worker, progress[c] = "running",
             task' = [w \in Worker |-> IF w \in S THEN [task[w] EXCEPT !.cancelled = TRUE] ELSE task[w]]
      PROVE  \E w \in Worker : Downloads(w, c)'
  <2>1. PICK w \in Worker : Downloads(w, c)
    BY <1>4, <1>w
  <2>2. task'[w].pc = task[w].pc /\ task'[w].kind = task[w].kind /\ task'[w].chart = task[w].chart
    <3>1. task[w] \in Tasks
      BY DEF TypeOK
    <3> QED
      BY <1>4, <3>1 DEF Tasks
  <2> QED
    BY <2>1, <2>2 DEF Downloads, Alive
<1>5. ASSUME NEW d \in Chart, CancelChartDownload(d) PROVE \E w \in Worker : Downloads(w, c)'
  <2>1. progress[c] = "running"
    BY <1>5 DEF CancelChartDownload, TypeOK
  <2> QED
    BY <1>5, <2>1, <1>4 DEF CancelChartDownload, ChartJob
<1>6. CASE CancelChartSetDownload
  BY <1>6, <1>4 DEF CancelChartSetDownload, SetJob
<1>7. ASSUME task' = task, progress' = progress PROVE \E w \in Worker : Downloads(w, c)'
  BY <1>7, <1>w DEF Downloads, Alive
<1>8. CASE Death
  BY <1>8 DEF Death
<1> QED
  BY <1>1, <1>2, <1>3, <1>5, <1>6, <1>7, <1>8 DEF Next, DismissChartSetDownload, RemoveChart, vars

-----------------------------------------------------------------------------
(* A file some name still leads to only gains chunks. *)
LEMMA ContentsGrow == ASSUME TypeOK, Transferring, Next, NEW i \in Inode, i \notin Unused'
                      PROVE  data[i] \subseteq data'[i]
<1>1. CASE Hold(data)
  BY <1>1, HoldKeeps
<1>2. CASE UNCHANGED data
  BY <1>2
<1>3. ASSUME NEW w \in Worker, Write(w) PROVE data[i] \subseteq data'[i]
  <2> DEFINE d == [data EXCEPT ![task[w].file] = @ \cup {task[w].pos + 1}]
  <2>1. data'[i] = d[i]
    BY <1>3, HoldKeeps DEF Write
  <2> QED
    BY <2>1 DEF TypeOK
<1> QED
  BY <1>1, <1>2, <1>3 DEF Next, Step, DownloadChart, CancelChartDownload, RemoveChart, DownloadChartSet,
     CancelChartSetDownload, DismissChartSetDownload, NextChart, Measure, Respond, Disconnect, WriteEnd,
     Verify, Rename, Death

LEMMA WholeStays == ASSUME TypeOK, Transferring, TypeOK', Next, NEW i \in Inode, i \notin Unused', Whole(i)
                    PROVE  data'[i] = Chunk
BY ZenonT(60), ContentsGrow DEF TypeOK, Whole

(* A server that honours Range never has a partial file started over, so   *)
(* only the rename takes one away.                                         *)
LEMMA PathKept == ASSUME RangeModes = {TRUE}, TypeOK, Transferring, Next, NEW c \in Chart, path[c] # NoInode
                  PROVE  path'[c] = path[c] \/ \E v \in Worker : Rename(v) /\ task[v].chart = c
<1>1. ASSUME NEW v \in Worker, Respond(v) PROVE path'[c] = path[c]
  <2> DEFINE d == task[v].chart
  <2>1. ASSUME NEW exists \in BOOLEAN, NEW pos, Open(v, exists, pos), exists = (path[d] # NoInode)
        PROVE  path'[c] = path[c]
    <3>1. path' = [path EXCEPT ![d] = IF exists THEN path[d] ELSE NewInode]
      BY <2>1 DEF Open
    <3>2. CASE c = d
      BY <2>1, <3>1, <3>2 DEF TypeOK
    <3>3. CASE c # d
      BY <3>1, <3>3 DEF TypeOK
    <3> QED
      BY <3>2, <3>3
  <2>2. UNCHANGED path \/ \E exists \in BOOLEAN, pos \in {0, task[v].held} :
                            Open(v, exists, pos) /\ exists = (path[d] # NoInode)
    <3> DEFINE e == path[d] # NoInode
    <3>1. e \in BOOLEAN
      OBVIOUS
    <3>2. \/ Open(v, e, 0)
          \/ Open(v, e, task[v].held)
          \/ UNCHANGED path
      BY <1>1, RangeAssumption, Zenon DEF Respond
    <3> QED
      BY <3>1, <3>2, Zenon
  <2> QED
    BY <2>1, <2>2
<1>2. ASSUME NEW v \in Worker, Rename(v), task[v].chart # c PROVE path'[c] = path[c]
  BY <1>2 DEF Rename, TypeOK
<1> QED
  BY <1>1, <1>2 DEF Next, Step, DownloadChart, CancelChartDownload, RemoveChart, DownloadChartSet,
     CancelChartSetDownload, DismissChartSetDownload, NextChart, Measure, Write, Disconnect, WriteEnd,
     Verify, Death, names

(* Who is renaming after a step was renaming before it or has verified.    *)
LEMMA Renaming == ASSUME TypeOK, Transferring, Next, NEW w \in Worker, task'[w].pc = "rename", ~Found(w)
                  PROVE  /\ task[w].pc = "rename" /\ task'[w].chart = task[w].chart /\ ~Rename(w)
                         /\ lock' = lock \/ \E v \in Worker \ {w} : lock = NoWorker \/ task[v].pc = "rename"
<1> DEFINE Goal == /\ task[w].pc = "rename" /\ task'[w].chart = task[w].chart /\ ~Rename(w)
                   /\ lock' = lock \/ \E v \in Worker \ {w} : lock = NoWorker \/ task[v].pc = "rename"
<1>1. ASSUME NEW v \in Worker, Step(v) PROVE Goal
  <2>1. Alone(v) /\ (task'[v].pc = "rename" => Found(v))
    BY <1>1, StepShows
  <2>2. v # w
    BY <2>1
  <2>3. task'[w] = task[w]
    BY <2>1, <2>2 DEF Alone
  <2>4. ~Rename(w)
    <3> SUFFICES ASSUME Rename(w) PROVE FALSE
      OBVIOUS
    <3>1. Step(w)
      BY DEF Step
    <3>2. Found(w)
      BY <3>1, StepShows
    <3> QED
      BY <3>2
  <2>5. lock' = lock \/ lock = NoWorker \/ task[v].pc = "rename"
    BY <1>1 DEF Step, NextChart, Measure, Respond, Write, Disconnect, WriteEnd, Verify, Rename
  <2> QED
    BY <2>2, <2>3, <2>4, <2>5
<1>2. ASSUME task'[w].pc = task[w].pc, task'[w].chart = task[w].chart, lock' = lock PROVE Goal
  <2>1. ~Rename(w)
    <3> SUFFICES ASSUME Rename(w) PROVE FALSE
      OBVIOUS
    <3>1. Step(w)
      BY DEF Step
    <3>2. Found(w)
      BY <3>1, StepShows
    <3> QED
      BY <3>2
  <2> QED
    BY <1>2, <2>1
<1>3. ASSUME NEW c \in Chart, DownloadChart(c) PROVE Goal
  <2>1. PICK v \in Worker : task' = [task EXCEPT ![v] = Fetching(c)]
    BY <1>3 DEF DownloadChart
  <2>2. v # w
    BY <2>1, FetchingType DEF TypeOK
  <2> QED
    BY <1>2, <1>3, <2>1, <2>2 DEF DownloadChart, TypeOK
<1>4. ASSUME NEW missing \in SUBSET Chart, DownloadChartSet(missing) PROVE Goal
  <2>1. PICK v \in Worker : task' = [task EXCEPT ![v] = SetOf(missing, FALSE)]
    BY <1>4 DEF DownloadChartSet
  <2>2. v # w
    BY <2>1, SetOfType DEF TypeOK
  <2> QED
    BY <1>2, <1>4, <2>1, <2>2 DEF DownloadChartSet, TypeOK
<1>5. ASSUME NEW S \in SUBSET Worker, lock' = lock,
             task' = [v \in Worker |-> IF v \in S THEN [task[v] EXCEPT !.cancelled = TRUE] ELSE task[v]]
      PROVE  Goal
  <2>1. task[w] \in Tasks
    BY DEF TypeOK
  <2> QED
    BY <1>2, <1>5, <2>1 DEF Tasks
<1>6. ASSUME NEW c \in Chart, CancelChartDownload(c) PROVE Goal
  BY <1>5, <1>6 DEF CancelChartDownload, ChartJob
<1>7. CASE CancelChartSetDownload
  BY <1>5, <1>7 DEF CancelChartSetDownload, SetJob
<1>8. CASE Death
  BY <1>8 DEF Death, NoTask
<1>9. ASSUME NEW c \in Chart, RemoveChart(c) PROVE Goal
  BY <1>2, <1>9 DEF RemoveChart
<1>10. CASE DismissChartSetDownload
  BY <1>2, <1>10 DEF DismissChartSetDownload
<1> QED
  BY <1>1, <1>3, <1>4, <1>6, <1>7, <1>8, <1>9, <1>10 DEF Next

LEMMA VerifiedStep == RangeModes = {TRUE} /\ Inv /\ TypeOK' /\ [Next]_vars => Verified'
<1> SUFFICES ASSUME RangeModes = {TRUE}, Inv, TypeOK', [Next]_vars PROVE Verified'
  OBVIOUS
<1>i. TypeOK /\ Transferring /\ Verified
  BY DEF Inv
<1>1. CASE UNCHANGED vars
  BY <1>1, <1>i DEF vars, Verified, Whole, Chunk, Inode
<1>2. CASE Next
  <2> SUFFICES ASSUME NEW w \in Worker, task'[w].pc = "rename"
               PROVE  /\ lock' = w /\ path'[task'[w].chart] \in Inode
                      /\ path'[task'[w].chart] # NoInode /\ data'[path'[task'[w].chart]] = Chunk
    BY DEF Verified, Whole, Chunk, Inode
  <2> DEFINE c == task'[w].chart
             p == path[c]
  <2>1. task'[w].chart = task[w].chart /\ c \in Chart /\ p \in Inode /\ Whole(p) /\ path'[c] = p /\ lock' = w
    <3>1. CASE Found(w)
      <4>1. task'[w].chart = task[w].chart /\ task[w].chart \in Chart
        BY <3>1, <1>i DEF Found, TypeOK, Tasks, Transferring, Consistent
      <4> QED
        BY <3>1, <4>1, <1>i DEF Found, Whole, TypeOK, names
    <3>2. CASE ~Found(w)
      <4>1. /\ task[w].pc = "rename" /\ task'[w].chart = task[w].chart /\ ~Rename(w)
            /\ lock' = lock \/ \E v \in Worker \ {w} : lock = NoWorker \/ task[v].pc = "rename"
        BY <1>2, <1>i, <3>2, Renaming
      <4>2. lock = w /\ p \in Inode /\ Whole(p) /\ c \in Chart
        BY <4>1, <1>i DEF Verified, Transferring, Consistent
      <4>3. \A v \in Worker : task[v].pc = "rename" => v = w
        BY <4>2, <1>i DEF Verified
      <4>4. path'[c] = p
        BY <1>2, <1>i, <4>1, <4>2, <4>3, PathKept DEF Whole, Rename
      <4> QED
        BY <4>1, <4>2, <4>3, <4>4, NamesAssumption
    <3> QED
      BY <3>1, <3>2
  <2>2. p \notin Unused'
    BY <2>1 DEF Unused
  <2>3. data'[p] = Chunk
    BY <1>2, <1>i, <2>1, <2>2, WholeStays
  <2> QED
    BY <2>1, <2>3 DEF Whole
<1> QED
  BY <1>1, <1>2

LEMMA InstalledStep == RangeModes = {TRUE} /\ Inv /\ TypeOK' /\ [Next]_vars => InstalledIsWhole'
<1> SUFFICES ASSUME RangeModes = {TRUE}, Inv, TypeOK', [Next]_vars PROVE InstalledIsWhole'
  OBVIOUS
<1>i. TypeOK /\ Transferring /\ Verified /\ InstalledIsWhole
  BY DEF Inv
<1>1. CASE UNCHANGED vars
  BY <1>1, <1>i DEF vars, InstalledIsWhole, Whole, Chunk
<1>2. CASE Next
  <2> SUFFICES ASSUME NEW c \in Chart, blob'[c] # NoInode PROVE data'[blob'[c]] = Chunk
    BY DEF InstalledIsWhole, Whole, Chunk
  <2> DEFINE i == blob'[c]
  <2>1. i \in Inode /\ i \notin Unused'
    BY DEF TypeOK, Unused, Inode
  <2>2. Whole(i)
    <3>1. CASE blob'[c] = blob[c]
      BY <3>1, <1>i DEF InstalledIsWhole
    <3>2. ASSUME NEW v \in Worker, Rename(v), blob'[c] # blob[c] PROVE Whole(i)
      <4>1. blob' = [blob EXCEPT ![task[v].chart] = path[task[v].chart]] /\ task[v].pc = "rename"
        BY <3>2 DEF Rename
      <4>2. c = task[v].chart /\ i = path[task[v].chart]
        BY <3>2, <4>1, <1>i DEF TypeOK
      <4> QED
        BY <4>1, <4>2, <1>i DEF Verified
    <3>3. ASSUME NEW d \in Chart, RemoveChart(d) PROVE blob'[c] = blob[c]
      BY <3>3, <1>i DEF RemoveChart, TypeOK
    <3> QED
      BY <1>2, <3>1, <3>2, <3>3 DEF Next, Step, DownloadChart, CancelChartDownload, DownloadChartSet,
         CancelChartSetDownload, DismissChartSetDownload, NextChart, Measure, Respond, Write, Disconnect,
         WriteEnd, Verify, Death, names
  <2> QED
    BY <1>2, <1>i, <2>1, <2>2, WholeStays
<1> QED
  BY <1>1, <1>2

-----------------------------------------------------------------------------
(* The variables keep their types, a coroutine in a transfer its chart and *)
(* its file (CycleRepository.kt, ApiClient.kt).                            *)
THEOREM TypeCorrect == Spec => [](TypeOK /\ Transferring)
<1>1. Init => TypeOK /\ Transferring
  BY InitInv DEF Inv
<1> QED
  BY <1>1, TypeStep, PTL DEF Spec

(* For any number of charts, coroutines and chunks: a chart the screen     *)
(* shows as downloading is being downloaded, whatever was cancelled while  *)
(* it blocked (CycleRepository.downloadChart, cancelChartDownload).        *)
THEOREM ProgressIsHonest == Spec => []ProgressHasWorker
<1>1. Init => TypeOK /\ Transferring /\ ProgressHasWorker
  BY InitInv DEF Inv
<1>2. TypeOK /\ Transferring /\ ProgressHasWorker /\ [Next]_vars
        => TypeOK' /\ Transferring' /\ ProgressHasWorker'
  BY TypeStep, ProgressStep
<1> QED
  BY <1>1, <1>2, PTL DEF Spec

(* Of a server that honours Range, as the blob endpoint does, no archive   *)
(* is installed but a whole one, though jobs share its partial file and    *)
(* one still writes to it when another has installed it                    *)
(* (charts.rs install_chart, ApiClient.download).                          *)
THEOREM OnlyWholeArchives == RangeModes = {TRUE} => (Spec => []InstalledIsWhole)
<1> SUFFICES ASSUME RangeModes = {TRUE} PROVE Spec => []InstalledIsWhole
  OBVIOUS
<1>1. Init => Inv
  BY InitInv
<1>2. Inv /\ [Next]_vars => Inv'
  <2> SUFFICES ASSUME Inv, [Next]_vars PROVE Inv'
    OBVIOUS
  <2>1. TypeOK' /\ Transferring'
    BY TypeStep DEF Inv
  <2>2. Verified' /\ InstalledIsWhole'
    BY <2>1, VerifiedStep, InstalledStep
  <2> QED
    BY <2>1, <2>2 DEF Inv
<1>3. Inv => InstalledIsWhole
  BY DEF Inv
<1> QED
  BY <1>1, <1>2, <1>3, PTL DEF Spec
=============================================================================
