---------------------------- MODULE BundleStore ----------------------------
(***************************************************************************)
(* The cycle bundles a device keeps on disk (ff-sync, apply.rs): one       *)
(* directory per cycle, the `current` marker that names the active one,    *)
(* the `.incoming-<id>` directory a bundle is assembled in, and the        *)
(* downloads waiting to be applied.  Every file-system call is a step; the *)
(* process can die between any two, and any call can fail.                 *)
(*                                                                         *)
(* Both operations run under the mutex of `Freeflight` (ff-uniffi), so at  *)
(* most one is in progress: pc is the program counter of that one.         *)
(***************************************************************************)
EXTENDS Integers, FiniteSets

CONSTANTS Cycles,    \* cycle ids; their order is the ids' lexicographic order
          Bundle,    \* the bundle files the pipeline publishes
          CycleOf,   \* the cycle id each is published under
          Corrupt,   \* any other file content: truncated, mixed or garbage
          NoFile,    \* a path nothing is at
          EmptyDir,  \* a cycle directory without its cycle.sqlite
          MaxFaults  \* bound: crashes and failed file-system calls

ASSUME CyclesAssumption == Cycles \subseteq Nat \ {0}
ASSUME BundleAssumption == CycleOf \in [Bundle -> Cycles]
ASSUME PathsAssumption ==
    /\ Bundle \cap {Corrupt, NoFile, EmptyDir} = {}
    /\ Corrupt # NoFile /\ Corrupt # EmptyDir /\ NoFile # EmptyDir
ASSUME FaultsAssumption == MaxFaults \in Nat

VARIABLES current,   \* the cycle the `current` marker names
          bundle,    \* cycles/<id>
          incoming,  \* cycles/.incoming-<id>
          staged,    \* downloads/<id>.sqlite.partial, a finished download
          pc,        \* where the operation holding the mutex is
          target,    \* its cycle_id
          expected,  \* the bundle whose digest is its expected_sha256
          doomed,    \* the cycles a prune still has to delete
          outcome,   \* how the last operation ended
          faults     \* crashes and failed calls so far

disk == <<current, bundle, incoming, staged>>
vars == <<current, bundle, incoming, staged, pc, target, expected, doomed,
          outcome, faults>>

NoCycle == 0         \* no marker file, or an empty one
Content == Bundle \cup {Corrupt}
Dir     == Content \cup {NoFile, EmptyDir}

ApplySteps == {"verify", "clearIncoming", "createIncoming", "moveIn",
               "clearFinal", "moveFinal", "moveMarker"}
Steps == ApplySteps \cup {"idle", "prune"}

-----------------------------------------------------------------------------
(* A cycle whose directory holds a bundle file, readable or not. *)
HasBundle(c) == bundle[c] \in Content

(* A marker naming a cycle whose bundle is missing reads as no cycle. *)
CurrentCycleId ==
    IF current # NoCycle /\ HasBundle(current) THEN current ELSE NoCycle

Installed == {c \in Cycles : HasBundle(c)}

(* The bundle a reader that opens the active cycle gets. *)
Active == IF CurrentCycleId = NoCycle THEN NoFile ELSE bundle[CurrentCycleId]

IsNewer(cur, candidate) == cur = NoCycle \/ candidate > cur

-----------------------------------------------------------------------------
Init ==
    /\ current = NoCycle
    /\ bundle   = [c \in Cycles |-> NoFile]
    /\ incoming = [c \in Cycles |-> NoFile]
    /\ staged   = [c \in Cycles |-> NoFile]
    /\ pc = "idle" /\ target = NoCycle /\ expected = NoFile /\ doomed = {}
    /\ outcome = "none" /\ faults = 0

Goto(step) == pc' = step

Finish(result) == pc' = "idle" /\ outcome' = result

(* The downloader finishes a file for cycle c, right or wrong; the single  *)
(* sync job that would apply it is the one downloading it.                 *)
Stage(c, f) ==
    /\ pc \notin ApplySteps
    /\ staged' = [staged EXCEPT ![c] = f]
    /\ UNCHANGED <<current, bundle, incoming, pc, target, expected, doomed,
                   outcome, faults>>

(* apply_downloaded_bundle is called for cycle c with the digest of b. *)
BeginApply(c, b) ==
    /\ pc = "idle"
    /\ CycleOf[b] = c
    /\ staged[c] # NoFile
    /\ Goto("verify")
    /\ target' = c /\ expected' = b
    /\ outcome' = "none"
    /\ UNCHANGED <<disk, doomed, faults>>

(* Mutant: the digest is never compared. *)
VerifyNothing ==
    /\ pc = "verify"
    /\ Goto("clearIncoming")
    /\ UNCHANGED <<disk, target, expected, doomed, outcome, faults>>

(* The checksum is compared before anything is moved. *)
Verify ==
    /\ pc = "verify"
    /\ IF staged[target] = expected
         THEN Goto("clearIncoming") /\ UNCHANGED outcome
         ELSE Finish("refused")
    /\ UNCHANGED <<disk, target, expected, doomed, faults>>

(* remove_dir_all(.incoming-<id>): litter of an interrupted attempt goes. *)
ClearIncoming ==
    /\ pc = "clearIncoming"
    /\ incoming' = [incoming EXCEPT ![target] = NoFile]
    /\ Goto("createIncoming")
    /\ UNCHANGED <<current, bundle, staged, target, expected, doomed, outcome,
                   faults>>

CreateIncoming ==
    /\ pc = "createIncoming"
    /\ incoming' = [incoming EXCEPT ![target] =
                      IF @ = NoFile THEN EmptyDir ELSE @]
    /\ Goto("moveIn")
    /\ UNCHANGED <<current, bundle, staged, target, expected, doomed, outcome,
                   faults>>

MoveIn ==
    /\ pc = "moveIn"
    /\ incoming' = [incoming EXCEPT ![target] = staged[target]]
    /\ staged' = [staged EXCEPT ![target] = NoFile]
    /\ Goto("clearFinal")
    /\ UNCHANGED <<current, bundle, target, expected, doomed, outcome, faults>>

(* Mutant: remove_dir, which refuses a directory that is not empty. *)
ClearFinalEmpty ==
    /\ pc = "clearFinal"
    /\ IF HasBundle(target)
         THEN Finish("failed") /\ UNCHANGED bundle
         ELSE /\ bundle' = [bundle EXCEPT ![target] = NoFile]
              /\ Goto("moveFinal") /\ UNCHANGED outcome
    /\ UNCHANGED <<current, incoming, staged, target, expected, doomed, faults>>

(* remove_dir_all empties the directory before it removes it. *)
ClearFinal ==
    /\ pc = "clearFinal"
    /\ IF HasBundle(target)
         THEN /\ bundle' = [bundle EXCEPT ![target] = EmptyDir]
              /\ Goto("clearFinal")
         ELSE /\ bundle' = [bundle EXCEPT ![target] = NoFile]
              /\ Goto("moveFinal")
    /\ UNCHANGED <<current, incoming, staged, target, expected, doomed,
                   outcome, faults>>

(* A directory cannot be renamed onto one that is not empty. *)
MoveFinal ==
    /\ pc = "moveFinal"
    /\ ~HasBundle(target)
    /\ bundle' = [bundle EXCEPT ![target] = incoming[target]]
    /\ incoming' = [incoming EXCEPT ![target] = NoFile]
    /\ Goto("moveMarker")
    /\ UNCHANGED <<current, staged, target, expected, doomed, outcome, faults>>

(* The swap: current.tmp is renamed onto current. *)
MoveMarker ==
    /\ pc = "moveMarker"
    /\ current' = target
    /\ Finish("applied")
    /\ UNCHANGED <<bundle, incoming, staged, target, expected, doomed, faults>>

-----------------------------------------------------------------------------
(* Mutant: the active cycle counts as superseded. *)
SupersededOrActive == {c \in Installed : c <= CurrentCycleId}

(* Installed cycles older than the active one. *)
Superseded == {c \in Installed : c < CurrentCycleId}

(* prune_superseded_cycles lists its victims once; with no active cycle it *)
(* deletes nothing.                                                        *)
BeginPrune ==
    /\ pc = "idle"
    /\ Goto("prune")
    /\ doomed' = IF CurrentCycleId = NoCycle THEN {} ELSE Superseded
    /\ outcome' = "none"
    /\ UNCHANGED <<disk, target, expected, faults>>

(* Mutant: the loop ends after its first victim. *)
PruneOnlyOne ==
    /\ pc = "prune"
    /\ \E c \in doomed : bundle' = [bundle EXCEPT ![c] = NoFile]
    /\ doomed' = {}
    /\ UNCHANGED <<current, incoming, staged, pc, target, expected, outcome,
                   faults>>

(* The oldest victim's directory is emptied, then removed. *)
PruneOne ==
    /\ pc = "prune"
    /\ \E c \in doomed :
         /\ \A d \in doomed : c <= d
         /\ IF HasBundle(c)
              THEN /\ bundle' = [bundle EXCEPT ![c] = EmptyDir]
                   /\ UNCHANGED doomed
              ELSE /\ bundle' = [bundle EXCEPT ![c] = NoFile]
                   /\ doomed' = doomed \ {c}
    /\ UNCHANGED <<current, incoming, staged, pc, target, expected, outcome,
                   faults>>

EndPrune ==
    /\ pc = "prune" /\ doomed = {}
    /\ Finish("pruned")
    /\ UNCHANGED <<disk, target, expected, doomed, faults>>

-----------------------------------------------------------------------------
(* The next file-system call returns an error and the operation gives up. *)
Fail ==
    /\ pc # "idle" /\ faults < MaxFaults
    /\ faults' = faults + 1
    /\ Finish("failed")
    /\ UNCHANGED <<disk, target, expected, doomed>>

(* The process dies: the disk stays, everything else is gone. *)
Crash ==
    /\ faults < MaxFaults
    /\ faults' = faults + 1
    /\ pc' = "idle" /\ target' = NoCycle /\ expected' = NoFile /\ doomed' = {}
    /\ outcome' = "none"
    /\ UNCHANGED disk

-----------------------------------------------------------------------------
(* One step of the operation in progress. *)
Step == \/ Verify \/ ClearIncoming \/ CreateIncoming \/ MoveIn
        \/ ClearFinal \/ MoveFinal \/ MoveMarker
        \/ PruneOne \/ EndPrune

(* Mutant: the caller applies whatever cycle the server names. *)
UpdateUngated(c, b) == BeginApply(c, b)

(* The app's only caller downloads and applies a cycle after               *)
(* is_update_available said it is newer than the active one.               *)
Update(c, b) == IsNewer(CurrentCycleId, c) /\ BeginApply(c, b)

Environment == \E c \in Cycles, f \in Content : Stage(c, f)

Next ==
    \/ Environment
    \/ \E c \in Cycles, b \in Bundle : Update(c, b)
    \/ BeginPrune
    \/ Step
    \/ Fail
    \/ Crash

Spec == Init /\ [][Next]_vars

(* The thread that holds the mutex keeps running. *)
FairSpec == Spec /\ WF_vars(Step)

-----------------------------------------------------------------------------
TypeOK ==
    /\ current \in Cycles \cup {NoCycle}
    /\ bundle \in [Cycles -> Dir]
    /\ incoming \in [Cycles -> Dir]
    /\ staged \in [Cycles -> Content \cup {NoFile}]
    /\ pc \in Steps
    /\ target \in Cycles \cup {NoCycle}
    /\ expected \in Bundle \cup {NoFile}
    /\ doomed \in SUBSET Cycles
    /\ outcome \in {"none", "applied", "refused", "failed", "pruned"}
    /\ faults \in 0..MaxFaults

(* Whatever crashed or failed before, the marker names a cycle whose       *)
(* directory holds a bundle published under that very id.                  *)
ActiveIsGenuine ==
    current # NoCycle => bundle[current] \in Bundle
                         /\ CycleOf[bundle[current]] = current

(* An apply that reported success left exactly the announced bytes active. *)
AppliedIsActive == outcome = "applied" => Active = expected

(* A prune that reported success left no superseded bundle on disk.        *)
PruneReclaims == outcome = "pruned" => Superseded = {}

(* The store implements the atomic swap: no reader ever finds half of one. *)
AS == INSTANCE AtomicSwap WITH active <- Active
ImplementsAtomicSwap == AS!Spec

(* Once no further call fails, an apply of the right bytes ends with them  *)
(* active, whatever litter the attempts before it left behind.             *)
RetrySucceeds ==
    (pc = "verify" /\ staged[target] = expected /\ faults = MaxFaults)
        ~> (outcome = "applied")
=============================================================================
