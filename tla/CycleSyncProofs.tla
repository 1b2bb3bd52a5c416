--------------------------- MODULE CycleSyncProofs ---------------------------
(***************************************************************************)
(* Whatever the server publishes meanwhile, whatever fails and whenever    *)
(* the process dies, a sync job moves the device onto whole bundles of     *)
(* newer cycles only, and a busy screen has a job behind it: for any       *)
(* bundles, cycles and lengths, and any number of faults.                  *)
(***************************************************************************)
EXTENDS CycleSync, TLAPS

(* A bundle is served under the id it was published as, ... *)
ServedUnderItsId == \A c \in Cycles : served[c] # NoFile => CycleOf[served[c]] = c

(* ... the id the pointer names has one, ... *)
LatestIsServed == latest # NoCycle => served[latest] # NoFile

(* ... and a job that has read the manifest is after a bundle, served by   *)
(* now in some edition, of a cycle newer than the installed one: no other  *)
(* job installs anything while it is on its way.                           *)
JobIsAfterANewerCycle ==
    pc \in {"request", "body", "apply"} =>
        want # NoFile /\ served[Cycle] # NoFile /\ InstalledId < Cycle

Inv == TypeOK /\ ServedUnderItsId /\ LatestIsServed /\ JobIsAfterANewerCycle /\ BusyMeansActive

-----------------------------------------------------------------------------
LEMMA CycleIds == NoCycle \notin Cycles /\ Cycles \subseteq Nat /\ \A b \in Bundle : CycleOf[b] \in Cycles
BY BundleAssumption DEF NoCycle, Cycles

LEMMA InstalledIdType == TypeOK => InstalledId \in Cycles \cup {NoCycle}
BY CycleIds DEF TypeOK, InstalledId

LEMMA CycleType == TypeOK /\ want # NoFile => Cycle \in Cycles
BY CycleIds DEF TypeOK, Cycle

LEMMA InfoType == ASSUME TypeOK, NEW id \in Cycles \cup {NoCycle}
                  PROVE  CycleInfo(id) \in [id : Cycles \cup {NoCycle}, data : Bundle \cup {NoFile}]
BY DEF TypeOK, CycleInfo, NoInfo

LEMMA InitInv == Init => Inv
BY CycleIds, FaultsAssumption
   DEF Init, Inv, TypeOK, ServedUnderItsId, LatestIsServed, JobIsAfterANewerCycle, BusyMeansActive,
       NoInfo, Empty, NoCycle

-----------------------------------------------------------------------------
(* Every step keeps the variables in their types. *)
LEMMA TypeStep == Inv /\ [Next]_vars => TypeOK'
<1> SUFFICES ASSUME Inv, [Next]_vars PROVE TypeOK'
  OBVIOUS
<1> USE DEF server, device, job, screen, Goto, Fault, Throw
<1>typed. TypeOK
  BY DEF Inv
<1>1. ASSUME NEW b \in Bundle, Publish(b) PROVE TypeOK'
  BY <1>1, <1>typed, CycleIds DEF TypeOK, Publish
<1>2. ASSUME NEW m \in {"check", "download"}, Start(m) PROVE TypeOK'
  BY <1>2, <1>typed DEF TypeOK, Start
<1>3. CASE NoManifest
  BY <1>3, <1>typed DEF TypeOK, NoManifest
<1>4. CASE Manifest
  BY <1>4, <1>typed, CycleIds DEF TypeOK, Manifest
<1>5. CASE Request
  <2>1. want # NoFile /\ served[Cycle] \in Bundle /\ Cycle \in Cycles
    BY <1>5, <1>typed, CycleType DEF Request, Inv, JobIsAfterANewerCycle, TypeOK
  <2>2. Empty \in [n : Nat, from : SUBSET Bundle]
    BY DEF Empty
  <2> QED
    BY <1>5, <2>1, <2>2, <1>typed, BundleAssumption DEF TypeOK, Request
<1>6. CASE RangeNotSatisfiable
  BY <1>6, <1>typed DEF TypeOK, RangeNotSatisfiable
<1>7. CASE Body
  <2>1. want # NoFile /\ served[Cycle] \in Bundle /\ Cycle \in Cycles
    BY <1>7, <1>typed, CycleType DEF Body, Inv, JobIsAfterANewerCycle, TypeOK
  <2>2. partial[Cycle].n + 1 \in Nat /\ partial[Cycle].from \cup {served[Cycle]} \in SUBSET Bundle
    BY <2>1, <1>typed DEF TypeOK
  <2>3. partial' \in [Cycles -> [n : Nat, from : SUBSET Bundle]]
    BY <1>7, <2>1, <2>2, <1>typed DEF TypeOK, Body
  <2> QED
    BY <1>7, <2>3, <1>typed DEF TypeOK, Body
<1>8. CASE BodyShort
  BY <1>8, <1>typed DEF TypeOK, BodyShort
<1>9. CASE BodyEnd
  BY <1>9, <1>typed DEF TypeOK, BodyEnd
<1>10. CASE Apply
  <2>1. want # NoFile /\ want \in Bundle
    BY <1>10, <1>typed DEF Apply, Inv, JobIsAfterANewerCycle, TypeOK
  <2>2. partial' \in [Cycles -> [n : Nat, from : SUBSET Bundle]]
    BY <1>10, <1>typed DEF TypeOK, Apply, Empty
  <2> QED
    BY <1>10, <2>1, <2>2, <1>typed DEF TypeOK, Apply
<1>11. CASE ApplyRefused
  BY <1>11, <1>typed DEF TypeOK, ApplyRefused
<1>12. CASE Refresh
  <2>1. shown' \in [id : Cycles \cup {NoCycle}, data : Bundle \cup {NoFile}]
    BY <1>12, <1>typed, InfoType, InstalledIdType DEF Refresh
  <2> QED
    BY <1>12, <2>1, <1>typed DEF TypeOK, Refresh
<1>13. CASE Interrupted
  BY <1>13, <1>typed, FaultsAssumption DEF TypeOK, Interrupted
<1>14. CASE ApplyFailed
  <2>1. partial' \in [Cycles -> [n : Nat, from : SUBSET Bundle]]
    BY <1>14, <1>typed DEF TypeOK, ApplyFailed, Empty
  <2> QED
    BY <1>14, <2>1, <1>typed, FaultsAssumption DEF TypeOK, ApplyFailed
<1>15. CASE OtherCalls
  BY <1>15, <1>typed DEF TypeOK, OtherCalls
<1>16. CASE OtherReadsMarker
  BY <1>16, <1>typed, InstalledIdType DEF TypeOK, OtherReadsMarker
<1>17. CASE OtherReadsBundle
  <2>1. saw' \in [id : Cycles \cup {NoCycle}, data : Bundle \cup {NoFile}]
    <3>1. saw.id \in Cycles \cup {NoCycle}
      BY <1>typed DEF TypeOK
    <3> QED
      BY <1>17, <1>typed, InfoType, <3>1 DEF OtherReadsBundle
  <2> QED
    BY <1>17, <2>1, <1>typed DEF TypeOK, OtherReadsBundle
<1>18. CASE OtherPublishes
  BY <1>18, <1>typed DEF TypeOK, OtherPublishes, NoInfo
<1>19. CASE Death
  BY <1>19, <1>typed, FaultsAssumption DEF TypeOK, Death, NoInfo
<1>20. CASE BitRot
  <2>1. readable' \in BOOLEAN
    BY <1>20 DEF BitRot
  <2>2. faults' \in 0..MaxFaults
    BY <1>20, <1>typed, FaultsAssumption DEF TypeOK, BitRot
  <2>3. UNCHANGED <<server, installed, partial, job, screen, other, saw>>
    BY <1>20 DEF BitRot
  <2> QED
    BY <2>1, <2>2, <2>3, <1>typed DEF TypeOK
<1>21. CASE UNCHANGED vars
  BY <1>21, <1>typed DEF TypeOK, vars
<1> QED
  BY <1>1, <1>2, <1>3, <1>4, <1>5, <1>6, <1>7, <1>8, <1>9, <1>10, <1>11, <1>12, <1>13, <1>14,
     <1>15, <1>16, <1>17, <1>18, <1>19, <1>20, <1>21
     DEF Next, JobStep, OtherStep

(* What the server publishes is found under its own id. *)
LEMMA ServerStep == Inv /\ [Next]_vars => ServedUnderItsId' /\ LatestIsServed'
<1> SUFFICES ASSUME Inv, [Next]_vars PROVE ServedUnderItsId' /\ LatestIsServed'
  OBVIOUS
<1>1. ASSUME NEW b \in Bundle, Publish(b) PROVE ServedUnderItsId' /\ LatestIsServed'
  BY <1>1, CycleIds, BundleAssumption DEF Publish, Inv, TypeOK, ServedUnderItsId, LatestIsServed
<1>2. UNCHANGED <<served, latest>> \/ \E b \in Bundle : Publish(b)
  BY DEF Next, vars, server, Throw, Start, JobStep, NoManifest, Manifest, Request, RangeNotSatisfiable,
         Body, BodyShort, BodyEnd, Apply, ApplyRefused, Refresh, Interrupted, ApplyFailed, OtherCalls,
         OtherStep, OtherReadsMarker, OtherReadsBundle, OtherPublishes, Death, BitRot
<1>3. CASE UNCHANGED <<served, latest>>
  BY <1>3 DEF Inv, ServedUnderItsId, LatestIsServed, Cycles
<1> QED
  BY <1>1, <1>2, <1>3

(* The job stays after a newer cycle until it has installed it. *)
LEMMA JobStepInv == Inv /\ [Next]_vars => JobIsAfterANewerCycle'
<1> SUFFICES ASSUME Inv, [Next]_vars, pc' \in {"request", "body", "apply"}
             PROVE  (want # NoFile /\ served[Cycle] # NoFile /\ InstalledId < Cycle)'
  BY DEF JobIsAfterANewerCycle
<1>1. ASSUME NEW b \in Bundle, Publish(b) PROVE (want # NoFile /\ served[Cycle] # NoFile /\ InstalledId < Cycle)'
  BY <1>1, CycleIds, CycleType, BundleAssumption
     DEF Publish, Inv, TypeOK, JobIsAfterANewerCycle, device, job, InstalledId, Cycle
<1>2. CASE Manifest
  <2>1. want' = served[latest] /\ latest # NoCycle /\ UpdateAvailable(latest)
    BY <1>2 DEF Manifest
  <2>2. latest \in Cycles /\ served[latest] \in Bundle /\ CycleOf[served[latest]] = latest
    BY <2>1 DEF Inv, TypeOK, LatestIsServed, ServedUnderItsId
  <2> QED
    BY <1>2, <2>1, <2>2, BundleAssumption DEF Manifest, UpdateAvailable, server, device, InstalledId, Cycle
<1>3. CASE UNCHANGED <<served, installed, want>> /\ pc \in {"request", "body", "apply"}
  BY <1>3 DEF Inv, JobIsAfterANewerCycle, InstalledId, Cycle
<1>4. \/ \E b \in Bundle : Publish(b)
      \/ Manifest
      \/ UNCHANGED <<served, installed, want>> /\ pc \in {"request", "body", "apply"}
  BY DEF Next, vars, server, device, job, Goto, Throw, Start, JobStep, NoManifest, Request, RangeNotSatisfiable,
         Body, BodyShort, BodyEnd, Apply, ApplyRefused, Refresh, Interrupted, ApplyFailed, OtherCalls,
         OtherStep, OtherReadsMarker, OtherReadsBundle, OtherPublishes, Death, BitRot
<1> QED
  BY <1>1, <1>2, <1>3, <1>4

(* Each way out of a job leaves the screen with a sync state at rest. *)
LEMMA ScreenStep == Inv /\ [Next]_vars => BusyMeansActive'
BY DEF Inv, BusyMeansActive, Next, vars, server, device, job, screen, Goto, Throw, Publish, Start, JobStep,
       NoManifest, Manifest, Request, RangeNotSatisfiable, Body, BodyShort, BodyEnd, Apply, ApplyRefused,
       Refresh, Interrupted, ApplyFailed, OtherCalls, OtherStep, OtherReadsMarker, OtherReadsBundle,
       OtherPublishes, Death, BitRot

LEMMA StepInv == Inv /\ [Next]_vars => Inv'
BY TypeStep, ServerStep, JobStepInv, ScreenStep DEF Inv

(* The only step that installs anything is the apply of a verified file. *)
LEMMA SwapStep ==
    Inv /\ [Next]_vars /\ installed' # installed =>
        /\ installed' = want /\ partial[Cycle].from = {want}
        /\ InstalledId < InstalledId'
<1> SUFFICES ASSUME Inv, [Next]_vars, installed' # installed
             PROVE  /\ installed' = want /\ partial[Cycle].from = {want}
                    /\ InstalledId < InstalledId'
  OBVIOUS
<1>1. Apply
  BY DEF Next, vars, server, device, job, Throw, Publish, Start, JobStep, NoManifest, Manifest, Request,
         RangeNotSatisfiable, Body, BodyShort, BodyEnd, ApplyRefused, Refresh, Interrupted, ApplyFailed,
         OtherCalls, OtherStep, OtherReadsMarker, OtherReadsBundle, OtherPublishes, Death, BitRot
<1>2. installed' = want /\ want # NoFile /\ InstalledId < Cycle /\ partial[Cycle].from = {want}
  BY <1>1 DEF Apply, Inv, JobIsAfterANewerCycle, Complete
<1> QED
  BY <1>2 DEF InstalledId, Cycle

-----------------------------------------------------------------------------
LEMMA Invariance == Spec => []Inv
<1> QED
  BY InitInv, StepInv, PTL DEF Spec

(* Every variable keeps its type, for any bundles and cycles.              *)
THEOREM TypeCorrect == Spec => []TypeOK
<1>1. Inv => TypeOK
  BY DEF Inv
<1> QED
  BY <1>1, Invariance, PTL

(* A busy sync state always has an active job behind it, through deaths,   *)
(* failures and every early return of the job (CycleRepository.kt).        *)
THEOREM BusyScreenIsHonest == Spec => []BusyMeansActive
<1>1. Inv => BusyMeansActive
  BY DEF Inv
<1> QED
  BY <1>1, Invariance, PTL

(* The device moves only forward, and only onto the whole file its job's   *)
(* manifest announced, however often the server republishes under it.      *)
THEOREM OnlyWholeBundles == Spec => WholeBundles
<1>1. Inv /\ [Next]_vars =>
        [installed' # installed =>
           /\ installed' = want /\ partial[Cycle].from = {want}
           /\ InstalledId < InstalledId']_vars
  BY SwapStep DEF vars
<1> QED
  BY <1>1, Invariance, PTL DEF Spec, WholeBundles
=============================================================================
