----------------------------- MODULE CycleSync -----------------------------
(***************************************************************************)
(* How a published cycle reaches a device (CycleRepository and ApiClient   *)
(* of the Android app, over ff-sync's apply): the manifest is asked for,   *)
(* the bundle is downloaded into a partial file that survives the process, *)
(* resumed with a Range request, verified and swapped in, and the screen   *)
(* is told.  The network fails, the process dies, the server republishes.  *)
(*                                                                         *)
(* A file is abstracted to how many chunks of it are on disk and which     *)
(* bundles they came from; applying it is one step (see AtomicSwap).       *)
(***************************************************************************)
EXTENDS Integers, FiniteSets

CONSTANTS Bundle,      \* the bundles the pipeline publishes, each at most once
          CycleOf,     \* the cycle id each is published under
          SizeOf,      \* its length in chunks
          NoFile,      \* no bundle
          RangeModes,  \* may the server honour a Range header / ignore one?
          MaxFaults    \* bound: network failures, failed applies, deaths
                       \* of the process, bundles going bad on disk

ASSUME BundleAssumption ==
    /\ CycleOf \in [Bundle -> Nat \ {0}]
    /\ SizeOf \in [Bundle -> Nat \ {0}]
    /\ NoFile \notin Bundle
ASSUME RangeAssumption == RangeModes \subseteq BOOLEAN /\ RangeModes # {}
ASSUME FaultsAssumption == MaxFaults \in Nat

VARIABLES served,     \* bundles/<id>/cycle.sqlite on the server
          latest,     \* the id latest.json names
          published,  \* the bundles published so far
          installed,  \* the device's active bundle
          readable,   \* whether it opens
          partial,    \* downloads/<id>.sqlite.partial
          pc,         \* where syncJob is, "idle" when it is not active
          mode,       \* checkForUpdate or downloadLatestCycle
          want,       \* the bundle the manifest announced
          length,     \* where the response's body ends
          sync,       \* the SyncState on screen
          shown,      \* the CycleInfo on screen: a cycle id, and the bundle
                      \* its effective date and counts were read from
          other,      \* where a refresh() of any other job is
          saw,        \* the CycleInfo that refresh has read so far
          faults      \* faults so far

server == <<served, latest, published>>
device == <<installed, readable, partial>>
job    == <<pc, mode, want, length>>
screen == <<sync, shown>>
vars   == <<served, latest, published, installed, readable, partial, pc, mode,
            want, length, sync, shown, other, saw, faults>>

Cycles   == {CycleOf[b] : b \in Bundle}
NoCycle  == 0
Empty    == [n |-> 0, from |-> {}]
Complete(f, b) == f = [n |-> SizeOf[b], from |-> {b}]

(* current_cycle_id: the file is there, whether or not it opens. *)
InstalledId == IF installed = NoFile THEN NoCycle ELSE CycleOf[installed]

(* Mutant: a device without a cycle has nothing to update. *)
UpdateAvailableInstalled(c) == installed # NoFile /\ c > InstalledId

(* isUpdateAvailable(manifest.cycleId) *)
UpdateAvailable(c) == c > InstalledId

Unreadable == installed # NoFile /\ ~readable

NoInfo == [id |-> NoCycle, data |-> NoFile]

(* What core.currentCycle() makes of the id it read from the marker, once  *)
(* it has the connection: nothing when there was no cycle or it does not   *)
(* open, and otherwise that id over the bundle open now.                   *)
CycleInfo(id) ==
    IF id = NoCycle \/ Unreadable THEN NoInfo
    ELSE [id |-> id, data |-> installed]

-----------------------------------------------------------------------------
Init ==
    /\ served = [c \in Cycles |-> NoFile] /\ latest = NoCycle
    /\ published = {}
    /\ installed = NoFile /\ readable = TRUE
    /\ partial = [c \in Cycles |-> Empty]
    /\ pc = "idle" /\ mode = "check" /\ want = NoFile /\ length = 0
    /\ sync = "idle" /\ shown = NoInfo
    /\ other = "due" /\ saw = NoInfo
    /\ faults = 0

Fault == faults < MaxFaults /\ faults' = faults + 1

Goto(step) == pc' = step /\ UNCHANGED <<mode, want, length>>

(* The pipeline publishes a bundle of the latest or a newer cycle, over    *)
(* the previous one of that id if there is one.                            *)
Publish(b) ==
    /\ CycleOf[b] >= latest
    /\ b \notin published
    /\ served' = [served EXCEPT ![CycleOf[b]] = b]
    /\ latest' = CycleOf[b] /\ published' = published \cup {b}
    /\ UNCHANGED <<device, job, screen, other, saw, faults>>

(* checkForUpdate and downloadLatestCycle return at once while a sync job  *)
(* is active.                                                              *)
Start(m) ==
    /\ pc = "idle"
    /\ pc' = "manifest" /\ mode' = m
    /\ want' = NoFile /\ length' = 0
    /\ sync' = "checking"
    /\ UNCHANGED <<server, device, shown, other, saw, faults>>

(* The job throws: SyncState.Failed, and the partial file stays. *)
Throw ==
    /\ Goto("idle")
    /\ sync' = "failed"
    /\ UNCHANGED <<server, device, shown, other, saw>>

(* GET /cycles/latest is an error (501) until something is published. *)
NoManifest ==
    /\ pc = "manifest" /\ latest = NoCycle
    /\ Throw
    /\ UNCHANGED faults

(* Mutant: the early return leaves SyncState.Checking. *)
ManifestSilent ==
    /\ pc = "manifest" /\ latest # NoCycle
    /\ want' = served[latest]
    /\ IF UpdateAvailable(latest)
         THEN pc' = "request" /\ sync' = "downloading"
         ELSE pc' = "idle" /\ UNCHANGED sync
    /\ UNCHANGED <<server, device, mode, length, shown, other, saw, faults>>

(* The manifest names the latest cycle and the digest of its file.         *)
Manifest ==
    /\ pc = "manifest" /\ latest # NoCycle
    /\ \/ /\ UpdateAvailable(latest) /\ mode = "download"
          /\ pc' = "request" /\ sync' = "downloading"
       \/ /\ UpdateAvailable(latest) /\ mode = "check"
          /\ pc' = "idle" /\ sync' = "updateAvailable"
       \/ /\ ~UpdateAvailable(latest)
          /\ pc' = "idle" /\ sync' = "upToDate"
    /\ want' = served[latest]
    /\ UNCHANGED <<server, device, mode, length, shown, other, saw, faults>>

Cycle == CycleOf[want]
Held  == partial[Cycle].n

(* The partial file's length goes into the Range header; a 206 is appended *)
(* to it, a 200 starts the file over.                                      *)
Request ==
    /\ pc = "request"
    /\ \E honoured \in RangeModes :
         \/ /\ Held = 0 \/ ~honoured
            /\ partial' = [partial EXCEPT ![Cycle] = Empty]
         \/ /\ Held > 0 /\ honoured
            /\ Held < SizeOf[served[Cycle]]
            /\ UNCHANGED partial
    /\ length' = SizeOf[served[Cycle]]
    /\ pc' = "body"
    /\ UNCHANGED <<server, installed, readable, mode, want, screen, other, saw,
                   faults>>

(* Any request, or the body of one, is cut off; or the apply hits an error *)
(* of the file system before it moves anything.                            *)
Interrupted ==
    /\ \/ pc \in {"manifest", "request", "apply"}
       \/ pc = "body" /\ Held < length
    /\ Fault
    /\ Throw

(* There is nothing past the end of the file to serve: 416, not a success. *)
RangeNotSatisfiable ==
    /\ pc = "request"
    /\ TRUE \in RangeModes
    /\ Held > 0 /\ Held >= SizeOf[served[Cycle]]
    /\ Throw
    /\ UNCHANGED faults

(* A chunk of whatever is in the server's file now. *)
Body ==
    /\ pc = "body"
    /\ Held < length /\ Held < SizeOf[served[Cycle]]
    /\ partial' = [partial EXCEPT ![Cycle] =
                     [n |-> @.n + 1, from |-> @.from \cup {served[Cycle]}]]
    /\ UNCHANGED <<server, installed, readable, job, screen, other, saw, faults>>

(* The file shrank under the response. *)
BodyShort ==
    /\ pc = "body"
    /\ Held < length /\ Held >= SizeOf[served[Cycle]]
    /\ Throw
    /\ UNCHANGED faults

BodyEnd ==
    /\ pc = "body" /\ Held = length
    /\ Goto("apply")
    /\ sync' = "applying"
    /\ UNCHANGED <<server, device, shown, other, saw, faults>>

(* Mutant: the file is applied as it is. *)
ApplyUnverified ==
    /\ pc = "apply"
    /\ installed' = want /\ readable' = TRUE
    /\ partial' = [partial EXCEPT ![Cycle] = Empty]
    /\ Goto("refresh")
    /\ UNCHANGED <<server, screen, other, saw, faults>>

(* applyCycle consumes the partial file and swaps the bundle in ... *)
Apply ==
    /\ pc = "apply"
    /\ Complete(partial[Cycle], want)
    /\ installed' = want /\ readable' = TRUE
    /\ partial' = [partial EXCEPT ![Cycle] = Empty]
    /\ Goto("refresh")
    /\ UNCHANGED <<server, screen, other, saw, faults>>

(* ... or refuses it and leaves it where it is ...                         *)
ApplyRefused ==
    /\ pc = "apply"
    /\ ~Complete(partial[Cycle], want)
    /\ Throw
    /\ UNCHANGED faults

(* ... or fails after it was moved and before the swap.                    *)
ApplyFailed ==
    /\ pc = "apply"
    /\ Complete(partial[Cycle], want)
    /\ Fault
    /\ partial' = [partial EXCEPT ![Cycle] = Empty]
    /\ Goto("idle") /\ sync' = "failed"
    /\ UNCHANGED <<server, installed, readable, shown, other, saw>>

(* The job's own refresh(), and then SyncState.UpToDate whatever it found. *)
Refresh ==
    /\ pc = "refresh"
    /\ shown' = CycleInfo(InstalledId)
    /\ Goto("idle")
    /\ sync' = "upToDate"
    /\ UNCHANGED <<server, device, other, saw, faults>>

-----------------------------------------------------------------------------
(* refresh() as every other job calls it, at start, after a chart or a     *)
(* prune, on a thread of its own: currentCycle reads the marker before it  *)
(* takes the core's lock, reads the bundle under it, and what it returns   *)
(* is assigned to the screen's state later still.                          *)
OtherCalls ==
    /\ other = "none"
    /\ other' = "due"
    /\ UNCHANGED <<server, device, job, screen, saw, faults>>

OtherReadsMarker ==
    /\ other = "due"
    /\ other' = "marker"
    /\ saw' = [saw EXCEPT !.id = InstalledId]
    /\ UNCHANGED <<server, device, job, screen, faults>>

OtherReadsBundle ==
    /\ other = "marker"
    /\ other' = IF saw.id # NoCycle /\ Unreadable THEN "error" ELSE "read"
    /\ saw' = CycleInfo(saw.id)
    /\ UNCHANGED <<server, device, job, screen, faults>>

OtherPublishes ==
    /\ other \in {"read", "error"}
    /\ other' = "none" /\ saw' = NoInfo
    /\ shown' = saw
    /\ sync' = IF other = "error" THEN "failed" ELSE sync
    /\ UNCHANGED <<server, device, job, faults>>

-----------------------------------------------------------------------------
(* The process dies; the next start refreshes the screen.                  *)
Death ==
    /\ Fault
    /\ pc' = "idle" /\ mode' = "check" /\ want' = NoFile /\ length' = 0
    /\ sync' = "idle" /\ shown' = NoInfo
    /\ other' = "due" /\ saw' = NoInfo
    /\ UNCHANGED <<server, device>>

(* The active bundle stops opening. *)
BitRot ==
    /\ installed # NoFile /\ readable
    /\ Fault
    /\ readable' = FALSE
    /\ UNCHANGED <<server, installed, partial, job, screen, other, saw>>

-----------------------------------------------------------------------------
JobStep == \/ NoManifest \/ Manifest \/ Request \/ RangeNotSatisfiable
           \/ Body \/ BodyShort \/ BodyEnd \/ Apply \/ ApplyRefused \/ Refresh

OtherStep == OtherReadsMarker \/ OtherReadsBundle \/ OtherPublishes

Next ==
    \/ \E b \in Bundle : Publish(b)
    \/ Start("check") \/ Start("download")
    \/ JobStep
    \/ Interrupted \/ ApplyFailed
    \/ OtherCalls \/ OtherStep
    \/ Death \/ BitRot

Spec == Init /\ [][Next]_vars

(* Coroutines that can go on do, and a pilot who is offered an update, or  *)
(* is told to download again, taps the button again.                       *)
Fairness == /\ WF_vars(JobStep) /\ WF_vars(OtherStep)
            /\ SF_vars(Start("download"))
FairSpec == Spec /\ Fairness

-----------------------------------------------------------------------------
TypeOK ==
    /\ served \in [Cycles -> Bundle \cup {NoFile}]
    /\ latest \in Cycles \cup {NoCycle} /\ published \subseteq Bundle
    /\ installed \in Bundle \cup {NoFile} /\ readable \in BOOLEAN
    /\ partial \in [Cycles -> [n : Nat, from : SUBSET Bundle]]
    /\ pc \in {"idle", "manifest", "request", "body", "apply", "refresh"}
    /\ mode \in {"check", "download"}
    /\ want \in Bundle \cup {NoFile} /\ length \in Nat
    /\ sync \in {"idle", "checking", "upToDate", "updateAvailable",
                 "downloading", "applying", "failed"}
    /\ {shown, saw} \subseteq [id : Cycles \cup {NoCycle}, data : Bundle \cup {NoFile}]
    /\ other \in {"none", "due", "marker", "read", "error"}
    /\ faults \in 0..MaxFaults

(* The UI never implies progress that is not being made (SyncState's doc): *)
(* a busy sync state has an active sync job behind it.                     *)
BusyMeansActive == sync \in {"checking", "downloading", "applying"} => pc # "idle"

(* No bundle pieced together from two publications is ever swapped in, and *)
(* no older one: the file applied is, whole, the one the job's manifest    *)
(* announced, of a cycle that is still newer when the transfer has ended.  *)
WholeBundles ==
    [][installed' # installed =>
         /\ installed' = want /\ partial[Cycle].from = {want}
         /\ InstalledId < InstalledId']_vars

(* Faults are finite and the pilot retries: a published cycle, or a newer  *)
(* one, ends up on the device.                                             *)
Delivered == \A c \in Cycles : latest = c ~> InstalledId >= c

(* A file no attempt gets past: a server that honours Range has nothing    *)
(* left of it to send.                                                     *)
Trapped == latest # NoCycle /\ partial[latest].n >= SizeOf[served[latest]]

(* That trap is the only one: unless the download ends up in it for good,  *)
(* it survives every mix of deaths, failures, republications and answers   *)
(* that ignore the range.                                                  *)
DeliveredOrTrapped == <>[]Trapped \/ Delivered

=============================================================================
