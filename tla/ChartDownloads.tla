--------------------------- MODULE ChartDownloads ---------------------------
(***************************************************************************)
(* The chart download jobs of the Android app (CycleRepository) over       *)
(* ApiClient.download and the core's install_chart: one job per chart, one *)
(* job for a set of charts, all writing downloads/<chart>.pmtiles.partial. *)
(*                                                                         *)
(* Cancelling a job only marks it: the transfer is blocking I/O, and the   *)
(* mark is looked at when a suspending call starts or returns.  A file is  *)
(* an inode that holds some of the chunks of its chart, so a transfer      *)
(* keeps writing to the file it opened wherever that has been moved.       *)
(***************************************************************************)
EXTENDS Integers, FiniteSets, FiniteSetsExt

CONSTANTS Chart,
          Worker,      \* bound: coroutines alive at once, cancelled or not
          Size,        \* chunks of a chart's archive
          RangeModes,  \* may the server honour a Range header / ignore one?
          NoChart, NoInode, NoWorker

ASSUME NamesAssumption ==
    /\ IsFiniteSet(Chart) /\ IsFiniteSet(Worker)
    /\ NoChart \notin Chart /\ NoInode \notin Int /\ NoWorker \notin Worker
ASSUME SizeAssumption == Size \in Nat \ {0}
ASSUME RangeAssumption == RangeModes \subseteq BOOLEAN /\ RangeModes # {}

VARIABLES path,      \* the partial file of each chart: an inode, or none
          blob,      \* the installed archive of each chart
          data,      \* the chunks each inode holds
          task,      \* the coroutines: see Tasks
          lock,      \* who holds the core's mutex
          progress,  \* chartDownloads: what the screen says of each chart
          shown      \* setDownload: what it says of the set

vars  == <<path, blob, data, task, lock, progress, shown>>
names == <<path, blob>>

Chunk == 1..Size

(* Enough inodes for every path, blob and open file to be a different one. *)
Inode == 1..(2 * Cardinality(Chart) + Cardinality(Worker))

Tasks == [pc : {"none", "next", "measure", "respond", "write", "install", "rename"},
          kind : {"chart", "set"},
          chart : Chart \cup {NoChart},  \* the chart it is transferring
          left : SUBSET Chart,           \* those its set has still to do
          held : 0..Size,                \* the length the partial file had
          file : Inode \cup {NoInode},   \* the file it has open
          pos : 0..Size,                 \* how far it has written
          cancelled : BOOLEAN]

NoTask == [pc |-> "none", kind |-> "chart", chart |-> NoChart, left |-> {},
           held |-> 0, file |-> NoInode, pos |-> 0, cancelled |-> FALSE]

(* A coroutine that begins a chart, one between the charts of its set, one *)
(* with the answer's body to write, and one that has written it.           *)
Fetching(c) == [NoTask EXCEPT !.pc = "measure", !.chart = c]
SetOf(left, cancelled) ==
    [NoTask EXCEPT !.pc = "next", !.kind = "set", !.left = left, !.cancelled = cancelled]
Writing(t, i, pos) == [t EXCEPT !.pc = "write", !.held = 0, !.file = i, !.pos = pos]
Written(t) == [t EXCEPT !.pc = "install", !.file = NoInode, !.pos = 0]

-----------------------------------------------------------------------------
(* A hole in a file counts towards its length. *)
Length(i) == IF i = NoInode \/ data[i] = {} THEN 0 ELSE Max(data[i])

Whole(i) == i # NoInode /\ data[i] = Chunk

Alive(w)  == task[w].pc # "none"
IsActive(w) == Alive(w) /\ ~task[w].cancelled

ChartJob(c) == {w \in Worker : IsActive(w) /\ task[w].kind = "chart"
                                           /\ task[w].chart = c}
SetJob == {w \in Worker : IsActive(w) /\ task[w].kind = "set"}

Unused == {i \in Inode : /\ \A c \in Chart : i \notin {path[c], blob[c]}
                         /\ \A w \in Worker : task[w].file # i}
NewInode == CHOOSE i \in Unused : TRUE

(* What is written, less what no name and no open file refers to any more. *)
Hold(contents) ==
    data' = [i \in Inode |-> IF i \in Unused' THEN {} ELSE contents[i]]

Goto(w, pc) == task' = [task EXCEPT ![w].pc = pc]
End(w)      == task' = [task EXCEPT ![w] = NoTask]
EndChart(w) == task' = [task EXCEPT ![w] = SetOf(@.left, @.cancelled)]

Init ==
    /\ path = [c \in Chart |-> NoInode] /\ blob = [c \in Chart |-> NoInode]
    /\ data = [i \in Inode |-> {}]
    /\ task = [w \in Worker |-> NoTask]
    /\ lock = NoWorker
    /\ progress = [c \in Chart |-> "none"] /\ shown = "none"

-----------------------------------------------------------------------------
(* Whatever a coroutine throws ends the transfer it is in.  A set job notes *)
(* a failure and goes on with its next chart.                               *)
Throw(w) ==
    IF task[w].kind = "chart"
      THEN /\ progress' = [progress EXCEPT ![task[w].chart] = "failed"]
           /\ End(w)
           /\ UNCHANGED shown
      ELSE /\ shown' = IF task[w].left = {} THEN "finished" ELSE "running"
           /\ EndChart(w)
           /\ UNCHANGED progress

(* Mutant: the job of a chart rethrows it too. *)
CancelRethrown(w) == End(w) /\ UNCHANGED <<progress, shown>>

(* CancellationException: the set job rethrows it, the job of a chart      *)
(* takes it for a failure like any other.                                  *)
Cancelled(w) ==
    /\ End(w)
    /\ progress' = IF task[w].kind = "chart"
                     THEN [progress EXCEPT ![task[w].chart] = "failed"]
                     ELSE progress
    /\ UNCHANGED shown

(* downloadChart *)
DownloadChart(c) ==
    /\ ChartJob(c) = {}
    /\ \E w \in Worker :
         /\ ~Alive(w)
         /\ task' = [task EXCEPT ![w] = Fetching(c)]
    /\ progress' = [progress EXCEPT ![c] = "running"]
    /\ UNCHANGED <<names, data, lock, shown>>

(* downloadChartSet of the charts the screen shows as missing, which may   *)
(* be here by now.                                                         *)
DownloadChartSet(missing) ==
    /\ SetJob = {} /\ missing # {}
    /\ \E w \in Worker :
         /\ ~Alive(w)
         /\ task' = [task EXCEPT ![w] = SetOf(missing, FALSE)]
    /\ shown' = "running"
    /\ UNCHANGED <<names, data, lock, progress>>

(* The set job refreshes the screen between two charts, where it notices   *)
(* that it was cancelled, and publishes once more at the end.              *)
NextChart(w) ==
    /\ task[w].pc = "next"
    /\ \/ task[w].cancelled /\ Cancelled(w)
       \/ /\ ~task[w].cancelled /\ task[w].left = {}
          /\ End(w) /\ shown' = "finished"
          /\ UNCHANGED progress
       \/ /\ ~task[w].cancelled
          /\ \E c \in task[w].left :
               task' = [task EXCEPT ![w].pc = "measure", ![w].chart = c,
                                    ![w].left = @ \ {c}]
          /\ UNCHANGED <<progress, shown>>
    /\ UNCHANGED <<names, lock>>
    /\ Hold(data)

(* ApiClient.download: the length of the partial file goes into the Range  *)
(* header ...                                                              *)
Measure(w) ==
    /\ task[w].pc = "measure"
    /\ IF task[w].cancelled
         THEN Cancelled(w)
         ELSE /\ task' = [task EXCEPT ![w].pc = "respond",
                                      ![w].held = Length(path[task[w].chart])]
              /\ UNCHANGED <<progress, shown>>
    /\ UNCHANGED <<names, lock>>
    /\ Hold(data)

(* Opens whatever is at the path now, or creates it, and seeks to pos.     *)
Open(w, exists, pos) ==
    LET c == task[w].chart
        i == IF exists THEN path[c] ELSE NewInode IN
    /\ task' = [task EXCEPT ![w] = Writing(@, i, pos)]
    /\ path' = [path EXCEPT ![c] = i]

(* ... and the answer decides what becomes of it: a 206 is written after   *)
(* what was there, a 200 to a request for a range instead of it, and a     *)
(* request for what is past the end is refused.                            *)
Respond(w) ==
    LET t == task[w]
        exists == path[t.chart] # NoInode IN
    /\ t.pc = "respond"
    /\ \E honoured \in RangeModes :
         \/ t.held = 0 /\ Open(w, exists, 0) /\ UNCHANGED <<progress, shown>>
         \/ /\ t.held > 0 /\ ~honoured
            /\ Open(w, FALSE, 0)
            /\ UNCHANGED <<progress, shown>>
         \/ /\ t.held \in 1..(Size - 1) /\ honoured
            /\ Open(w, exists, t.held)
            /\ UNCHANGED <<progress, shown>>
         \/ /\ t.held = Size /\ honoured
            /\ Throw(w)
            /\ UNCHANGED path
    /\ UNCHANGED <<blob, lock>>
    /\ Hold(data)

(* A chunk of the body, and onProgress, which nothing takes back. *)
Write(w) ==
    LET t == task[w] IN
    /\ t.pc = "write" /\ t.pos < Size
    /\ task' = [task EXCEPT ![w].pos = @ + 1]
    /\ IF t.kind = "chart"
         THEN progress' = [progress EXCEPT ![t.chart] = "running"] /\ UNCHANGED shown
         ELSE shown' = "running" /\ UNCHANGED progress
    /\ UNCHANGED <<names, lock>>
    /\ Hold([data EXCEPT ![t.file] = @ \cup {t.pos + 1}])

(* The connection is lost. *)
Disconnect(w) ==
    /\ task[w].pc \in {"respond", "write"}
    /\ Throw(w)
    /\ UNCHANGED <<names, lock>>
    /\ Hold(data)

WriteEnd(w) ==
    /\ task[w].pc = "write" /\ task[w].pos = Size
    /\ IF task[w].cancelled
         THEN Cancelled(w)
         ELSE /\ task' = [task EXCEPT ![w] = Written(@)]
              /\ UNCHANGED <<progress, shown>>
    /\ UNCHANGED <<names, lock>>
    /\ Hold(data)

(* Mutant: what was transferred is installed unseen. *)
VerifyNothing(w) ==
    /\ task[w].pc = "install" /\ lock = NoWorker
    /\ path[task[w].chart] # NoInode
    /\ Goto(w, "rename") /\ lock' = w
    /\ UNCHANGED <<names, data, progress, shown>>

(* install_chart under the core's mutex: the digest of the file at the     *)
(* path is compared, ...                                                   *)
Verify(w) ==
    /\ task[w].pc = "install" /\ lock = NoWorker
    /\ \/ task[w].cancelled /\ Cancelled(w) /\ UNCHANGED lock
       \/ /\ ~task[w].cancelled /\ Whole(path[task[w].chart])
          /\ Goto(w, "rename") /\ lock' = w
          /\ UNCHANGED <<progress, shown>>
       \/ /\ ~task[w].cancelled /\ ~Whole(path[task[w].chart])
          /\ Throw(w)
          /\ UNCHANGED lock
    /\ UNCHANGED names
    /\ Hold(data)

(* ... and the file at the path is renamed into the blob store.            *)
Rename(w) ==
    LET t == task[w] IN
    /\ t.pc = "rename"
    /\ blob' = [blob EXCEPT ![t.chart] = path[t.chart]]
    /\ path' = [path EXCEPT ![t.chart] = NoInode]
    /\ lock' = NoWorker
    /\ \/ t.cancelled /\ Cancelled(w)
       \/ /\ ~t.cancelled /\ t.kind = "chart"
          /\ progress' = [progress EXCEPT ![t.chart] = "none"]
          /\ End(w)
          /\ UNCHANGED shown
       \/ /\ ~t.cancelled /\ t.kind = "set"
          /\ shown' = IF t.left = {} THEN "finished" ELSE "running"
          /\ EndChart(w)
          /\ UNCHANGED progress
    /\ Hold(data)

-----------------------------------------------------------------------------
CancelChartDownload(c) ==
    /\ task' = [w \in Worker |-> IF w \in ChartJob(c)
                                   THEN [task[w] EXCEPT !.cancelled = TRUE]
                                   ELSE task[w]]
    /\ progress' = [progress EXCEPT ![c] = "none"]
    /\ UNCHANGED <<names, data, lock, shown>>

CancelChartSetDownload ==
    /\ task' = [w \in Worker |-> IF w \in SetJob
                                   THEN [task[w] EXCEPT !.cancelled = TRUE]
                                   ELSE task[w]]
    /\ shown' = "none"
    /\ UNCHANGED <<names, data, lock, progress>>

DismissChartSetDownload ==
    /\ SetJob = {}
    /\ shown' = "none"
    /\ UNCHANGED <<names, data, task, lock, progress>>

RemoveChart(c) ==
    /\ lock = NoWorker
    /\ blob' = [blob EXCEPT ![c] = NoInode]
    /\ UNCHANGED <<path, task, lock, progress, shown>>
    /\ Hold(data)

(* The process dies: the files stay. *)
Death ==
    /\ task' = [w \in Worker |-> NoTask]
    /\ lock' = NoWorker
    /\ progress' = [c \in Chart |-> "none"] /\ shown' = "none"
    /\ UNCHANGED names
    /\ Hold(data)

Step(w) == \/ NextChart(w) \/ Measure(w) \/ Respond(w) \/ Write(w)
           \/ Disconnect(w) \/ WriteEnd(w) \/ Verify(w) \/ Rename(w)

Next ==
    \/ \E c \in Chart : DownloadChart(c) \/ CancelChartDownload(c) \/ RemoveChart(c)
    \/ \E missing \in SUBSET Chart : DownloadChartSet(missing)
    \/ CancelChartSetDownload \/ DismissChartSetDownload
    \/ \E w \in Worker : Step(w)
    \/ Death

Spec == Init /\ [][Next]_vars

-----------------------------------------------------------------------------
TypeOK ==
    /\ {path, blob} \subseteq [Chart -> Inode \cup {NoInode}]
    /\ data \in [Inode -> SUBSET Chunk]
    /\ task \in [Worker -> Tasks]
    /\ lock \in Worker \cup {NoWorker}
    /\ progress \in [Chart -> {"none", "running", "failed"}]
    /\ shown \in {"none", "running", "finished"}

(* A truncated or corrupted download is caught at the install: an archive  *)
(* in the blob store is whole, whoever else has its file open.             *)
InstalledIsWhole == \A c \in Chart : blob[c] # NoInode => Whole(blob[c])

(* A chart is only shown as downloading while something downloads it.      *)
ProgressHasWorker ==
    \A c \in Chart : progress[c] = "running" =>
        \E w \in Worker : Alive(w) /\ task[w].kind = "chart" /\ task[w].chart = c

=============================================================================
