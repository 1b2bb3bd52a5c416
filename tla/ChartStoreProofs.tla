-------------------------- MODULE ChartStoreProofs --------------------------
(***************************************************************************)
(* The invariants of the chart store, and that no tile tells a cached      *)
(* archive from the one on disk, for every set of cycles, charts and keys. *)
(***************************************************************************)
EXTENDS ChartStore, TLAPS

(* A prune in progress has a catalogue and an empty cache, and what it has *)
(* not got to yet is all there is to delete.                               *)
PruneProgress ==
    /\ pruning => active # NoCycle
    /\ pruning => failed = {} /\ \A k \in Key : open[k] = NoFile
    /\ ~pruning => doomed = {}
    /\ pruned => ~pruning
    /\ pruning => InstalledKeys \subseteq Referenced \cup doomed

Inv == /\ TypeOK
       /\ DigestsAreHonest
       /\ CacheIsDisk
       /\ PruneSparesActive
       /\ PruneReclaims
       /\ PruneProgress

(* The hash a chart resolves to is a key, or none. *)
LEMMA ResolveType ==
    ASSUME TypeOK, NEW ch \in Chart
    PROVE  Resolve(ch) \in Key \cup {NoKey}
BY CatalogueAssumption DEF TypeOK, Resolve

LEMMA InitInv == Init => Inv
<1> SUFFICES ASSUME Init PROVE Inv
  OBVIOUS
<1>1. TypeOK
  BY KeyAssumption DEF Init, TypeOK, NoCycle, File
<1>2. DigestsAreHonest /\ CacheIsDisk
  BY KeyAssumption DEF Init, DigestsAreHonest, CacheIsDisk
<1>3. PruneSparesActive /\ PruneReclaims /\ PruneProgress
  BY DEF Init, PruneSparesActive, PruneReclaims, PruneProgress
<1> QED
  BY <1>1, <1>2, <1>3 DEF Inv


(* Every step keeps the variables in their types. *)
LEMMA TypeStep == TypeOK /\ [Next]_vars => TypeOK'
<1> SUFFICES ASSUME TypeOK, [Next]_vars PROVE TypeOK'
  OBVIOUS
<1> USE ResolveType, KeyAssumption
    DEF TypeOK, File, Call, Forget, ForgetAll, cache
<1>1. ASSUME NEW ch \in Chart, NEW f \in File, Download(ch, f)
      PROVE  TypeOK'
  BY <1>1 DEF Download
<1>2. ASSUME NEW c \in Cycle, ApplyCycle(c) PROVE TypeOK'
  BY <1>2 DEF ApplyCycle
<1>3. CASE ApplyFails
  BY <1>3 DEF ApplyFails
<1>4. ASSUME NEW ch \in Chart, InstallChart(ch) PROVE TypeOK'
  BY <1>4 DEF InstallChart
<1>5. ASSUME NEW ch \in Chart, InstallFails(ch) PROVE TypeOK'
  BY <1>5 DEF InstallFails
<1>6. ASSUME NEW ch \in Chart, RemoveChart(ch) PROVE TypeOK'
  BY <1>6 DEF RemoveChart
<1>7. ASSUME NEW ch \in Chart, ChartTile(ch) PROVE TypeOK'
  <2> DEFINE k == Resolve(ch)
  <2>1. k \in Key /\ blob[k] \in File
    BY <1>7 DEF ChartTile
  <2>2. open' \in [Key -> Key \cup {NoFile}] /\ failed' \in SUBSET Key
    BY <1>7, <2>1 DEF ChartTile
  <2>3. served' \in [chart : Chart \cup {NoKey}, file : File \cup {NoFile}]
    BY <1>7, <2>1 DEF ChartTile
  <2> QED
    BY <1>7, <2>2, <2>3 DEF ChartTile
<1>8. CASE PruneNothing
  BY <1>8 DEF PruneNothing
<1>9. CASE BeginPrune
  BY <1>9 DEF BeginPrune, InstalledKeys
<1>10. CASE EndPrune
  BY <1>10 DEF EndPrune
<1>11. CASE PruneFails
  BY <1>11 DEF PruneFails
<1>12. ASSUME NEW k \in Key, PruneBlob(k) PROVE TypeOK'
  BY <1>12 DEF PruneBlob
<1>13. CASE Crash
  BY <1>13 DEF Crash
<1>14. CASE UNCHANGED vars
  BY <1>14 DEF vars
<1> QED
  BY <1>1, <1>2, <1>3, <1>4, <1>5, <1>6, <1>7, <1>8, <1>9, <1>10, <1>11,
     <1>12, <1>13, <1>14 DEF Next

-----------------------------------------------------------------------------
(* Installing verifies, removing forgets, and a tile is only ever read from *)
(* what is stored: the disk stays honest and the cache stays in step.       *)
LEMMA DiskStep ==
    TypeOK /\ DigestsAreHonest /\ CacheIsDisk /\ PruneProgress /\ [Next]_vars
        => DigestsAreHonest' /\ CacheIsDisk'
<1> SUFFICES ASSUME TypeOK, DigestsAreHonest, CacheIsDisk,
                    PruneProgress, [Next]_vars
             PROVE  DigestsAreHonest' /\ CacheIsDisk'
  OBVIOUS
<1> USE ResolveType, KeyAssumption
    DEF DigestsAreHonest, CacheIsDisk, TypeOK, File, Call, Forget, ForgetAll,
        cache
<1>1. ASSUME NEW ch \in Chart, NEW f \in File, Download(ch, f)
      PROVE  DigestsAreHonest' /\ CacheIsDisk'
  BY <1>1 DEF Download
<1>2. ASSUME NEW c \in Cycle, ApplyCycle(c)
      PROVE  DigestsAreHonest' /\ CacheIsDisk'
  BY <1>2 DEF ApplyCycle
<1>3. CASE ApplyFails
  BY <1>3 DEF ApplyFails
<1>4. ASSUME NEW ch \in Chart, InstallChart(ch)
      PROVE  DigestsAreHonest' /\ CacheIsDisk'
  BY <1>4 DEF InstallChart
<1>5. ASSUME NEW ch \in Chart, InstallFails(ch)
      PROVE  DigestsAreHonest' /\ CacheIsDisk'
  BY <1>5 DEF InstallFails
<1>6. ASSUME NEW ch \in Chart, RemoveChart(ch)
      PROVE  DigestsAreHonest' /\ CacheIsDisk'
  BY <1>6 DEF RemoveChart
<1>7. ASSUME NEW ch \in Chart, ChartTile(ch)
      PROVE  DigestsAreHonest' /\ CacheIsDisk'
  <2> DEFINE k == Resolve(ch)
  <2>1. k \in Key /\ blob[k] \in File /\ blob' = blob
    BY <1>7 DEF ChartTile
  <2>2. CASE UNCHANGED <<open, failed>>
    BY <2>1, <2>2
  <2>3. CASE failed' = failed \cup {k} /\ blob[k] = Garbage /\ UNCHANGED open
    BY <2>1, <2>3
  <2>4. CASE open' = [open EXCEPT ![k] = blob[k]] /\ UNCHANGED failed
    BY <2>1, <2>4
  <2> QED
    BY <1>7, <2>2, <2>3, <2>4 DEF ChartTile
<1>8. CASE PruneNothing
  BY <1>8 DEF PruneNothing
<1>9. CASE BeginPrune
  BY <1>9 DEF BeginPrune
<1>10. CASE EndPrune
  BY <1>10 DEF EndPrune
<1>11. CASE PruneFails
  BY <1>11 DEF PruneFails
<1>12. ASSUME NEW k \in Key, PruneBlob(k)
       PROVE  DigestsAreHonest' /\ CacheIsDisk'
  BY <1>12 DEF PruneBlob, PruneProgress
<1>13. CASE Crash
  BY <1>13 DEF Crash
<1>14. CASE UNCHANGED vars
  BY <1>14 DEF vars
<1> QED
  BY <1>1, <1>2, <1>3, <1>4, <1>5, <1>6, <1>7, <1>8, <1>9, <1>10, <1>11,
     <1>12, <1>13, <1>14 DEF Next

(* The catalogue cannot change under a prune, so its list stays right. *)
LEMMA PruneStep ==
    TypeOK /\ PruneSparesActive /\ PruneReclaims /\ PruneProgress /\ [Next]_vars
        => PruneSparesActive' /\ PruneReclaims' /\ PruneProgress'
<1> DEFINE P == PruneSparesActive /\ PruneReclaims /\ PruneProgress
<1> SUFFICES ASSUME TypeOK, PruneSparesActive, PruneReclaims, PruneProgress,
                    [Next]_vars
             PROVE  P'
  OBVIOUS
<1> USE ResolveType, KeyAssumption
    DEF PruneSparesActive, PruneReclaims, PruneProgress, InstalledKeys,
        Referenced, TypeOK, File, Call, Forget, ForgetAll, cache
<1>1. ASSUME NEW ch \in Chart, NEW f \in File, Download(ch, f) PROVE P'
  BY <1>1 DEF Download
<1>2. ASSUME NEW c \in Cycle, ApplyCycle(c) PROVE P'
  BY <1>2 DEF ApplyCycle
<1>3. CASE ApplyFails
  BY <1>3 DEF ApplyFails
<1>4. ASSUME NEW ch \in Chart, InstallChart(ch) PROVE P'
  BY <1>4 DEF InstallChart
<1>5. ASSUME NEW ch \in Chart, InstallFails(ch) PROVE P'
  BY <1>5 DEF InstallFails
<1>6. ASSUME NEW ch \in Chart, RemoveChart(ch) PROVE P'
  BY <1>6 DEF RemoveChart
<1>7. ASSUME NEW ch \in Chart, ChartTile(ch) PROVE P'
  BY <1>7 DEF ChartTile
<1>8. CASE PruneNothing
  BY <1>8 DEF PruneNothing
<1>9. CASE BeginPrune
  BY <1>9 DEF BeginPrune
<1>10. CASE EndPrune
  BY <1>10 DEF EndPrune
<1>11. CASE PruneFails
  BY <1>11 DEF PruneFails
<1>12. ASSUME NEW k \in Key, PruneBlob(k) PROVE P'
  BY <1>12 DEF PruneBlob
<1>13. CASE Crash
  BY <1>13 DEF Crash
<1>14. CASE UNCHANGED vars
  BY <1>14 DEF vars
<1> QED
  BY <1>1, <1>2, <1>3, <1>4, <1>5, <1>6, <1>7, <1>8, <1>9, <1>10, <1>11,
     <1>12, <1>13, <1>14 DEF Next

LEMMA InvStep == Inv /\ [Next]_vars => Inv'
BY TypeStep, DiskStep, PruneStep DEF Inv

LEMMA SpecInv == Spec => []Inv
BY InitInv, InvStep, PTL DEF Spec

-----------------------------------------------------------------------------
(* The variables of the chart store keep their types. *)
THEOREM TypeCorrect == Spec => []TypeOK
BY SpecInv, PTL DEF Inv

(* Whatever downloads, removals, swaps and prunes interleave, a file named *)
(* by a published digest has that digest.                                  *)
THEOREM BlobsHonest == Spec => []DigestsAreHonest
BY SpecInv, PTL DEF Inv

(* No open archive or remembered failure outlives the file it is about. *)
THEOREM CacheCoherent == Spec => []CacheIsDisk
BY SpecInv, PTL DEF Inv

(* A prune deletes nothing the active cycle refers to, also where swaps    *)
(* come before it and crashes cut it short (prune_superseded_charts).      *)
THEOREM PruneSparing == Spec => []PruneSparesActive
BY SpecInv, PTL DEF Inv

(* A prune that reports success has left no archive that the active cycle  *)
(* does not refer to.                                                      *)
THEOREM PruneReclaimed == Spec => []PruneReclaims
BY SpecInv, PTL DEF Inv

-----------------------------------------------------------------------------
(* Every step of the store is a step of the library without a cache. *)
LEMMA LibraryStep == Inv /\ [Next]_vars => [CL!Next]_CL!vars
<1> SUFFICES ASSUME Inv, [Next]_vars PROVE CL!Next \/ UNCHANGED CL!vars
  OBVIOUS
<1> USE ResolveType, KeyAssumption
    DEF Inv, TypeOK, File, Call, CL!vars, CL!Next, CL!Resolve, CL!Referenced,
        CL!NoCycle, Resolve, Referenced, NoCycle
<1>1. ASSUME NEW ch \in Chart, NEW f \in File, Download(ch, f)
      PROVE  UNCHANGED CL!vars
  BY <1>1 DEF Download
<1>2. ASSUME NEW c \in Cycle, ApplyCycle(c) PROVE CL!Swap
  BY <1>2 DEF ApplyCycle, CL!Swap
<1>3. CASE ApplyFails
  BY <1>3 DEF ApplyFails
<1>4. ASSUME NEW ch \in Chart, InstallChart(ch) PROVE CL!Put
  BY <1>4 DEF InstallChart, CL!Put
<1>5. ASSUME NEW ch \in Chart, InstallFails(ch) PROVE UNCHANGED CL!vars
  BY <1>5 DEF InstallFails
<1>6. ASSUME NEW ch \in Chart, RemoveChart(ch) PROVE CL!Discard
  BY <1>6 DEF RemoveChart, CL!Discard
<1>7. ASSUME NEW ch \in Chart, ChartTile(ch) PROVE CL!Serve
  BY <1>7 DEF ChartTile, CL!Serve, CacheIsDisk
<1>8. CASE PruneNothing
  BY <1>8 DEF PruneNothing
<1>9. CASE BeginPrune
  BY <1>9 DEF BeginPrune
<1>10. CASE EndPrune
  BY <1>10 DEF EndPrune
<1>11. CASE PruneFails
  BY <1>11 DEF PruneFails
<1>12. ASSUME NEW k \in Key, PruneBlob(k) PROVE CL!Discard
  <2>1. k \notin Referenced
    BY <1>12 DEF PruneBlob, PruneSparesActive
  <2> QED
    BY <1>12, <2>1 DEF PruneBlob, CL!Discard, PruneProgress
<1>13. CASE Crash
  BY <1>13 DEF Crash
<1>14. CASE UNCHANGED vars
  BY <1>14 DEF vars
<1> QED
  BY <1>1, <1>2, <1>3, <1>4, <1>5, <1>6, <1>7, <1>8, <1>9, <1>10, <1>11,
     <1>12, <1>13, <1>14 DEF Next

(* The store with its cache, its interrupted prunes and its crashes reads  *)
(* like a library without any of them.                                     *)
THEOREM StoreIsLibrary == Spec => ImplementsChartLibrary
<1>1. Init => CL!Init
  BY DEF Init, CL!Init, NoCycle, CL!NoCycle
<1> QED
  BY <1>1, SpecInv, LibraryStep, PTL DEF Spec, ImplementsChartLibrary, CL!Spec
=============================================================================
