----------------------------- MODULE ChartStore -----------------------------
(***************************************************************************)
(* The chart archives of a device (ff-uniffi, lib.rs and charts.rs; blobs  *)
(* pruned by ff-sync): files named by the hash the active cycle's          *)
(* catalogue gives a chart, and a cache of open archives and of archives   *)
(* that would not open.  Every method holds the mutex of `Freeflight`, so  *)
(* one is one step, except the prune, which fails or dies between files.   *)
(*                                                                         *)
(* A file's content is the key it is the archive of, or Garbage.  Refused  *)
(* calls (no such chart, wrong digest) change nothing and are left out.    *)
(* Nobody writes to a downloaded file while it is installed: that is what  *)
(* ChartDownloads is about.                                                *)
(***************************************************************************)
EXTENDS Integers, FiniteSets

CONSTANTS Cycle,    \* cycle ids, in their order
          Chart,    \* chart ids
          Key,      \* the hashes blobs are named by
          KeyOf,    \* each cycle's catalogue: chart_blob_key of each chart
          Digest,   \* the keys that are a published sha256, not an id's hash
          NoKey,    \* a chart the cycle does not catalogue
          Garbage,  \* a file that is no archive: truncated or corrupt
          NoFile

ASSUME CycleAssumption == Cycle \subseteq Nat \ {0}
ASSUME CatalogueAssumption == KeyOf \in [Cycle -> [Chart -> Key \cup {NoKey}]]
ASSUME KeyAssumption ==
    /\ Digest \subseteq Key
    /\ Key \cap {NoKey, Garbage, NoFile} = {}
    /\ Garbage # NoFile /\ NoKey \notin Chart

VARIABLES active,   \* the active cycle
          blob,     \* charts/blobs/<key>.pmtiles
          staged,   \* downloads/<chart>.pmtiles.partial
          open,     \* ChartCache.open: the file each handle was opened on
          failed,   \* ChartCache.failed
          served,   \* the last tile: the chart asked for, the file it is from
          doomed,   \* what a prune in progress has still to delete
          pruning,  \* whether one is in progress, holding the mutex
          pruned    \* whether the last call was a prune that succeeded

cache == <<open, failed>>
vars  == <<active, blob, staged, open, failed, served, doomed, pruning, pruned>>

NoCycle == 0
File    == Key \cup {Garbage}

(* chart_hash over the active bundle *)
Resolve(ch) == IF active = NoCycle THEN NoKey ELSE KeyOf[active][ch]

(* catalogued_chart_hashes: what pruning must keep *)
Referenced == IF active = NoCycle THEN {}
              ELSE {KeyOf[active][ch] : ch \in Chart} \ {NoKey}

InstalledKeys == {k \in Key : blob[k] # NoFile}

-----------------------------------------------------------------------------
Init ==
    /\ active = NoCycle
    /\ blob = [k \in Key |-> NoFile]
    /\ staged = [ch \in Chart |-> NoFile]
    /\ open = [k \in Key |-> NoFile] /\ failed = {}
    /\ served = [chart |-> NoKey, file |-> NoFile]
    /\ doomed = {} /\ pruning = FALSE /\ pruned = FALSE

(* A method that takes the mutex and is not a prune. *)
Call == ~pruning /\ pruned' = FALSE /\ UNCHANGED <<doomed, pruning>>

Forget(k) == open' = [open EXCEPT ![k] = NoFile] /\ failed' = failed \ {k}

ForgetAll == open' = [k \in Key |-> NoFile] /\ failed' = {}

(* A transfer leaves a file, whole or not; it holds no lock. *)
Download(ch, f) ==
    /\ staged' = [staged EXCEPT ![ch] = f]
    /\ UNCHANGED <<active, blob, cache, served, doomed, pruning, pruned>>

(* Mutant: the swap does not wait for the mutex. *)
ApplyUnlocked(c) ==
    /\ c > active
    /\ active' = c
    /\ ForgetAll
    /\ UNCHANGED <<blob, staged, served, doomed, pruning, pruned>>

(* apply_cycle of a newer bundle, as BundleStore details it, ... *)
ApplyCycle(c) ==
    /\ Call
    /\ c > active
    /\ active' = c
    /\ ForgetAll
    /\ UNCHANGED <<blob, staged, served>>

(* ... or failing, after it dropped the handles. *)
ApplyFails ==
    /\ Call
    /\ ForgetAll
    /\ UNCHANGED <<active, blob, staged, served>>

(* Mutant: the handle on the replaced file is kept. *)
InstallKeepsHandle(ch) ==
    LET k == Resolve(ch) IN
    /\ Call
    /\ k # NoKey /\ staged[ch] # NoFile
    /\ k \in Digest => staged[ch] = k
    /\ blob' = [blob EXCEPT ![k] = staged[ch]]
    /\ staged' = [staged EXCEPT ![ch] = NoFile]
    /\ UNCHANGED <<active, cache, served>>

(* A chart is looked up in the catalogue of the cycle active now, which    *)
(* need not be the one its download was started from.                      *)
InstallChart(ch) ==
    LET k == Resolve(ch) IN
    /\ Call
    /\ k # NoKey /\ staged[ch] # NoFile
    /\ k \in Digest => staged[ch] = k
    /\ Forget(k)
    /\ blob' = [blob EXCEPT ![k] = staged[ch]]
    /\ staged' = [staged EXCEPT ![ch] = NoFile]
    /\ UNCHANGED <<active, served>>

(* fs::rename fails after the handle was dropped. *)
InstallFails(ch) ==
    LET k == Resolve(ch) IN
    /\ Call
    /\ k # NoKey /\ staged[ch] # NoFile
    /\ k \in Digest => staged[ch] = k
    /\ Forget(k)
    /\ UNCHANGED <<active, blob, staged, served>>

RemoveChart(ch) ==
    LET k == Resolve(ch) IN
    /\ Call
    /\ k # NoKey
    /\ Forget(k)
    /\ blob' = [blob EXCEPT ![k] = NoFile]
    /\ UNCHANGED <<active, staged, served>>

(* ChartCache::tile, behind chart_tile's is_file(): an archive that failed *)
(* to open is not tried again, an open one is read through its handle.     *)
ChartTile(ch) ==
    LET k == Resolve(ch) IN
    /\ Call
    /\ k # NoKey /\ blob[k] # NoFile
    /\ \/ /\ k \in failed
          /\ served' = [chart |-> ch, file |-> Garbage]
          /\ UNCHANGED cache
       \/ /\ k \notin failed /\ open[k] # NoFile
          /\ served' = [chart |-> ch, file |-> open[k]]
          /\ UNCHANGED cache
       \/ /\ k \notin failed /\ open[k] = NoFile
          /\ IF blob[k] = Garbage
               THEN failed' = failed \cup {k} /\ UNCHANGED open
               ELSE open' = [open EXCEPT ![k] = blob[k]] /\ UNCHANGED failed
          /\ served' = [chart |-> ch, file |-> blob[k]]
    /\ UNCHANGED <<active, blob, staged>>

-----------------------------------------------------------------------------
(* prune_old_cycles: with no cycle there is no catalogue to keep by, and   *)
(* it stops at the error.                                                  *)
PruneNothing ==
    /\ Call
    /\ active = NoCycle
    /\ ForgetAll
    /\ UNCHANGED <<active, blob, staged, served>>

BeginPrune ==
    /\ ~pruning /\ active # NoCycle
    /\ pruning' = TRUE /\ pruned' = FALSE
    /\ doomed' = InstalledKeys \ Referenced
    /\ ForgetAll
    /\ UNCHANGED <<active, blob, staged, served>>

PruneBlob(k) ==
    /\ pruning /\ k \in doomed
    /\ blob' = [blob EXCEPT ![k] = NoFile]
    /\ doomed' = doomed \ {k}
    /\ UNCHANGED <<active, staged, cache, served, pruning, pruned>>

(* Mutant: it gives up quietly at the first file. *)
EndPruneEarly ==
    /\ pruning
    /\ pruning' = FALSE /\ pruned' = TRUE /\ doomed' = {}
    /\ UNCHANGED <<active, blob, staged, cache, served>>

EndPrune ==
    /\ pruning /\ doomed = {}
    /\ pruning' = FALSE /\ pruned' = TRUE
    /\ UNCHANGED <<active, blob, staged, cache, served, doomed>>

PruneFails ==
    /\ pruning /\ doomed # {}
    /\ pruning' = FALSE /\ doomed' = {}
    /\ UNCHANGED <<active, blob, staged, cache, served, pruned>>

(* The process dies: files stay, handles go. *)
Crash ==
    /\ ForgetAll
    /\ pruning' = FALSE /\ doomed' = {} /\ pruned' = FALSE
    /\ UNCHANGED <<active, blob, staged, served>>

Next ==
    \/ \E ch \in Chart, f \in File : Download(ch, f)
    \/ \E c \in Cycle : ApplyCycle(c)
    \/ ApplyFails
    \/ \E ch \in Chart :
         InstallChart(ch) \/ InstallFails(ch) \/ RemoveChart(ch) \/ ChartTile(ch)
    \/ PruneNothing \/ BeginPrune \/ EndPrune \/ PruneFails
    \/ \E k \in Key : PruneBlob(k)
    \/ Crash

Spec == Init /\ [][Next]_vars

-----------------------------------------------------------------------------
TypeOK ==
    /\ active \in Cycle \cup {NoCycle}
    /\ blob \in [Key -> File \cup {NoFile}]
    /\ staged \in [Chart -> File \cup {NoFile}]
    /\ open \in [Key -> Key \cup {NoFile}]
    /\ failed \in SUBSET Key
    /\ served \in [chart : Chart \cup {NoKey}, file : File \cup {NoFile}]
    /\ doomed \in SUBSET Key
    /\ pruning \in BOOLEAN /\ pruned \in BOOLEAN

(* What is stored under a published digest is what was published, so a     *)
(* chart carried over from an older cycle needs no second look.            *)
DigestsAreHonest == \A k \in Digest : blob[k] \in {k, NoFile}

(* The cache never disagrees with the disk: a handle is on the file stored *)
(* now, and only an archive that is broken now is remembered as broken.    *)
CacheIsDisk ==
    /\ \A k \in Key : open[k] # NoFile => open[k] = blob[k]
    /\ \A k \in failed : blob[k] = Garbage

(* "Charts shared with the active cycle survive": what a prune still has   *)
(* to delete is never anything the active cycle refers to.                 *)
PruneSparesActive == doomed \cap Referenced = {}

(* A prune that succeeded left only archives the active cycle refers to.   *)
PruneReclaims == pruned => InstalledKeys \subseteq Referenced

(* Nobody can tell the cache is there: every tile, and every refusal of    *)
(* one, is what the archive on disk at that moment says.                   *)
CL == INSTANCE ChartLibrary
ImplementsChartLibrary == CL!Spec
=============================================================================
