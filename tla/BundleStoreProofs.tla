------------------------- MODULE BundleStoreProofs -------------------------
(***************************************************************************)
(* Proofs about the bundle store, for every set of cycles and bundles and  *)
(* every number of crashes and failed calls: its types, that the active    *)
(* bundle is always a genuine one, that what an operation reports is true, *)
(* and that the store implements AtomicSwap.                               *)
(***************************************************************************)
EXTENDS BundleStore, TLAPS

(* What an apply in progress knows: its arguments agree, its cycle is newer *)
(* than the active one, and the announced bytes are where it last put them. *)
ApplyInv ==
    pc \in ApplySteps =>
      /\ target \in Cycles /\ expected \in Bundle /\ CycleOf[expected] = target
      /\ current = NoCycle \/ target > current
      /\ pc \in {"clearIncoming", "createIncoming", "moveIn"}
           => staged[target] = expected
      /\ pc \in {"clearFinal", "moveFinal"} => incoming[target] = expected
      /\ pc = "moveMarker" => bundle[target] = expected

(* What a prune in progress knows: it deletes older cycles only ...        *)
PruneInv == pc = "prune" => \A d \in doomed : d < current

(* ... and every older one still on disk is on its list.                   *)
PruneListsAll ==
    pc = "prune" => \A c \in Cycles : HasBundle(c) /\ c < current => c \in doomed

(* Success is only reported by an operation that has ended. *)
AtRest == outcome \in {"applied", "pruned"} => pc = "idle"

DiskInv   == TypeOK /\ ActiveIsGenuine /\ ApplyInv /\ PruneInv
ReportInv == PruneListsAll /\ AtRest /\ AppliedIsActive /\ PruneReclaims
Inv       == DiskInv /\ ReportInv

-----------------------------------------------------------------------------
(* While the active bundle is genuine, the marker is what readers see. *)
LEMMA MarkerIsCurrent ==
    ASSUME TypeOK, ActiveIsGenuine
    PROVE  /\ CurrentCycleId = current
           /\ Active = IF current = NoCycle THEN NoFile ELSE bundle[current]
  BY CyclesAssumption DEF TypeOK, ActiveIsGenuine, CurrentCycleId, Active,
     HasBundle, Content, NoCycle

(* Every step of the store keeps the type of its disk and of the operation *)
(* in progress.                                                            *)
LEMMA TypeStep == TypeOK /\ [Next]_vars => TypeOK'
<1> SUFFICES ASSUME TypeOK, [Next]_vars PROVE TypeOK'
  OBVIOUS
<1> USE CyclesAssumption, BundleAssumption, FaultsAssumption
    DEF TypeOK, Dir, Content, Steps, ApplySteps, Goto, Finish, disk
<1>1. ASSUME NEW c \in Cycles, NEW f \in Content, Stage(c, f) PROVE TypeOK'
  BY <1>1 DEF Stage
<1>2. ASSUME NEW c \in Cycles, NEW b \in Bundle, BeginApply(c, b) PROVE TypeOK'
  BY <1>2 DEF BeginApply
<1>3. CASE Verify
  BY <1>3 DEF Verify
<1>4. CASE ClearIncoming
  BY <1>4 DEF ClearIncoming
<1>5. CASE CreateIncoming
  BY <1>5 DEF CreateIncoming
<1>6. CASE MoveIn
  BY <1>6 DEF MoveIn
<1>7. CASE ClearFinal
  BY <1>7 DEF ClearFinal
<1>8. CASE MoveFinal
  BY <1>8 DEF MoveFinal
<1>9. CASE MoveMarker
  BY <1>9 DEF MoveMarker
<1>10. CASE BeginPrune
  BY <1>10 DEF BeginPrune, Superseded, Installed
<1>11. CASE PruneOne
  BY <1>11 DEF PruneOne
<1>12. CASE EndPrune
  BY <1>12 DEF EndPrune
<1>13. CASE Fail
  BY <1>13 DEF Fail
<1>14. CASE Crash
  BY <1>14 DEF Crash
<1>15. CASE UNCHANGED vars
  BY <1>15 DEF vars
<1> QED
  BY <1>1, <1>2, <1>3, <1>4, <1>5, <1>6, <1>7, <1>8, <1>9, <1>10, <1>11,
     <1>12, <1>13, <1>14, <1>15 DEF Next, Step, Update, Environment

(* Every step keeps the active bundle genuine, and what the operation in   *)
(* progress relies on.                                                     *)
LEMMA DiskStep == DiskInv /\ [Next]_vars => DiskInv'
<1> SUFFICES ASSUME DiskInv, [Next]_vars PROVE DiskInv'
  OBVIOUS
<1> USE CyclesAssumption, BundleAssumption, PathsAssumption DEF NoCycle
<1>t. TypeOK /\ TypeOK'
  BY TypeStep DEF DiskInv
<1>m. CurrentCycleId = current
  BY MarkerIsCurrent DEF DiskInv
<1> DEFINE Parts == ActiveIsGenuine /\ ApplyInv /\ PruneInv
<1>p. Parts
  BY DEF DiskInv
<1> SUFFICES Parts'
  BY <1>t DEF DiskInv
<1> USE <1>t, <1>p DEF Goto, Finish, disk, ActiveIsGenuine, ApplyInv, PruneInv,
        ApplySteps, TypeOK
<1>1. ASSUME NEW c \in Cycles, NEW f \in Content, Stage(c, f) PROVE Parts'
  BY <1>1 DEF Stage
<1>2. ASSUME NEW c \in Cycles, NEW b \in Bundle, Update(c, b) PROVE Parts'
  BY <1>2, <1>m DEF Update, IsNewer, BeginApply
<1>3. CASE Verify
  BY <1>3 DEF Verify
<1>4. CASE ClearIncoming
  BY <1>4 DEF ClearIncoming
<1>5. CASE CreateIncoming
  BY <1>5 DEF CreateIncoming
<1>6. CASE MoveIn
  BY <1>6 DEF MoveIn
<1>7. CASE ClearFinal
  BY <1>7 DEF ClearFinal
<1>8. CASE MoveFinal
  BY <1>8 DEF MoveFinal
<1>9. CASE MoveMarker
  BY <1>9 DEF MoveMarker
<1>10. CASE BeginPrune
  BY <1>10, <1>m DEF BeginPrune, Superseded, Installed
<1>11. CASE PruneOne
  BY <1>11 DEF PruneOne
<1>12. CASE EndPrune
  BY <1>12 DEF EndPrune
<1>13. CASE Fail
  BY <1>13 DEF Fail
<1>14. CASE Crash
  BY <1>14 DEF Crash
<1>15. CASE UNCHANGED vars
  BY <1>15 DEF vars
<1> QED
  BY <1>1, <1>2, <1>3, <1>4, <1>5, <1>6, <1>7, <1>8, <1>9, <1>10, <1>11,
     <1>12, <1>13, <1>14, <1>15 DEF Next, Step, Environment

(* Every step keeps what operations report true. *)
LEMMA ReportStep == Inv /\ DiskInv' /\ [Next]_vars => ReportInv'
<1> SUFFICES ASSUME Inv, DiskInv', [Next]_vars PROVE ReportInv'
  OBVIOUS
<1> USE CyclesAssumption, BundleAssumption, PathsAssumption DEF NoCycle
<1>t. TypeOK /\ TypeOK' /\ ActiveIsGenuine /\ ActiveIsGenuine' /\ ApplyInv
  BY DEF Inv, DiskInv
<1>m. /\ CurrentCycleId = current
      /\ Active = IF current = NoCycle THEN NoFile ELSE bundle[current]
  BY MarkerIsCurrent DEF Inv, DiskInv
<1>n. /\ CurrentCycleId' = current'
      /\ Active' = IF current' = NoCycle THEN NoFile ELSE bundle'[current']
  BY <1>t DEF TypeOK, ActiveIsGenuine, CurrentCycleId, Active, HasBundle, Content
<1>s. /\ Superseded = {c \in Cycles : HasBundle(c) /\ c < current}
      /\ Superseded' = {c \in Cycles : HasBundle(c)' /\ c < current'}
  BY <1>m, <1>n DEF Superseded, Installed
<1>p. ReportInv
  BY DEF Inv
<1> HIDE DEF NoCycle
<1> USE <1>t, <1>p, <1>m, <1>n, <1>s DEF ReportInv, PruneListsAll, AtRest,
        AppliedIsActive, PruneReclaims, Goto, Finish, disk, ApplySteps, HasBundle
<1>1. ASSUME NEW c \in Cycles, NEW f \in Content, Stage(c, f) PROVE ReportInv'
  BY <1>1 DEF Stage
<1>2. ASSUME NEW c \in Cycles, NEW b \in Bundle, Update(c, b) PROVE ReportInv'
  BY <1>2 DEF Update, BeginApply
<1>3. CASE Verify
  BY <1>3 DEF Verify
<1>4. CASE ClearIncoming
  BY <1>4 DEF ClearIncoming
<1>5. CASE CreateIncoming
  BY <1>5 DEF CreateIncoming
<1>6. CASE MoveIn
  BY <1>6 DEF MoveIn
<1>7. CASE ClearFinal
  BY <1>7 DEF ClearFinal
<1>8. CASE MoveFinal
  BY <1>8 DEF MoveFinal
<1>9. CASE MoveMarker
  BY <1>9 DEF MoveMarker, ApplyInv, TypeOK, NoCycle
<1>10. CASE BeginPrune
  BY <1>10 DEF BeginPrune, TypeOK, NoCycle
<1>11. CASE PruneOne
  BY <1>11 DEF PruneOne, TypeOK, Content
<1>12. CASE EndPrune
  BY <1>12 DEF EndPrune
<1>13. CASE Fail
  BY <1>13 DEF Fail
<1>14. CASE Crash
  BY <1>14 DEF Crash
<1>15. CASE UNCHANGED vars
  BY <1>15 DEF vars
<1> QED
  BY <1>1, <1>2, <1>3, <1>4, <1>5, <1>6, <1>7, <1>8, <1>9, <1>10, <1>11,
     <1>12, <1>13, <1>14, <1>15 DEF Next, Step, Environment

LEMMA InitInv == Init => Inv
  BY CyclesAssumption, PathsAssumption, FaultsAssumption DEF Init, Inv, DiskInv,
     ReportInv, TypeOK, Dir, Content, Steps, ApplySteps, ActiveIsGenuine,
     ApplyInv, PruneInv, PruneListsAll, AtRest, AppliedIsActive, PruneReclaims,
     NoCycle

LEMMA InvStep == Inv /\ [Next]_vars => Inv'
  BY DiskStep, ReportStep DEF Inv

LEMMA SpecInv == Spec => []Inv
<1>1. Init => Inv
  BY InitInv
<1>2. Inv /\ [Next]_vars => Inv'
  BY InvStep
<1> QED
  BY <1>1, <1>2, PTL DEF Spec

-----------------------------------------------------------------------------
(* The variables keep their types: the disk holds what apply and prune can *)
(* put there, and the operation in progress is one of the two.             *)
THEOREM TypeCorrect == Spec => []TypeOK
  BY SpecInv, PTL DEF Inv, DiskInv

(* Whatever crashes and failed calls interrupt apply_downloaded_bundle and *)
(* prune_superseded_cycles, the marker only ever names a cycle whose       *)
(* directory holds a bundle published under that id.                       *)
THEOREM ActiveAlwaysGenuine == Spec => []ActiveIsGenuine
  BY SpecInv, PTL DEF Inv, DiskInv

(* apply_downloaded_bundle returns Ok only with the announced bytes active.*)
THEOREM AppliedHonest == Spec => []AppliedIsActive
  BY SpecInv, PTL DEF Inv, ReportInv

(* prune_superseded_cycles returns Ok only with no older cycle left.       *)
THEOREM PruneComplete == Spec => []PruneReclaims
  BY SpecInv, PTL DEF Inv, ReportInv

-----------------------------------------------------------------------------
(* Every step is a step of AtomicSwap or leaves its variables alone: only  *)
(* the rename of the marker changes what readers see.                      *)
LEMMA SwapStep == Inv /\ Inv' /\ [Next]_vars => [AS!Next]_AS!vars
<1> SUFFICES ASSUME Inv, Inv', [Next]_vars PROVE [AS!Next]_AS!vars
  OBVIOUS
<1> USE CyclesAssumption, BundleAssumption, PathsAssumption
<1>t. /\ TypeOK /\ TypeOK' /\ ActiveIsGenuine /\ ActiveIsGenuine'
      /\ ApplyInv /\ PruneInv
  BY DEF Inv, DiskInv
<1>m. /\ CurrentCycleId = current
      /\ Active = IF current = NoCycle THEN NoFile ELSE bundle[current]
  BY MarkerIsCurrent DEF Inv, DiskInv
<1>n. Active' = IF current' = NoCycle THEN NoFile ELSE bundle'[current']
  BY <1>t DEF TypeOK, ActiveIsGenuine, CurrentCycleId, Active, HasBundle,
     Content, NoCycle
<1>s. ASSUME UNCHANGED current,
             current # NoCycle => bundle'[current] = bundle[current],
             \/ UNCHANGED outcome
             \/ outcome' \in {"none", "refused", "failed", "pruned"}
      PROVE [AS!Next]_AS!vars
  BY <1>s, <1>m, <1>n DEF AS!Next, AS!Other, AS!vars
<1> USE <1>t, <1>m, <1>n DEF Goto, Finish, disk, ApplySteps, TypeOK
<1>1. ASSUME NEW c \in Cycles, NEW f \in Content, Stage(c, f)
      PROVE [AS!Next]_AS!vars
  BY <1>1, <1>s DEF Stage
<1>2. ASSUME NEW c \in Cycles, NEW b \in Bundle, Update(c, b)
      PROVE [AS!Next]_AS!vars
  BY <1>2, <1>s DEF Update, BeginApply
<1>3. CASE Verify
  BY <1>3, <1>s DEF Verify
<1>4. CASE ClearIncoming
  BY <1>4, <1>s DEF ClearIncoming
<1>5. CASE CreateIncoming
  BY <1>5, <1>s DEF CreateIncoming
<1>6. CASE MoveIn
  BY <1>6, <1>s DEF MoveIn
<1>7. CASE ClearFinal
  <2>1. current # NoCycle => bundle'[current] = bundle[current]
    BY <1>7 DEF ClearFinal, ApplyInv, NoCycle
  <2> QED
    BY <1>7, <1>s, <2>1 DEF ClearFinal
<1>8. CASE MoveFinal
  <2>1. current # NoCycle => bundle'[current] = bundle[current]
    BY <1>8 DEF MoveFinal, ApplyInv, NoCycle
  <2> QED
    BY <1>8, <1>s, <2>1 DEF MoveFinal
<1>9. CASE MoveMarker
  <2>a. /\ target \in Cycles /\ bundle[target] = expected
        /\ expected \in Bundle /\ CycleOf[expected] = target
        /\ current = NoCycle \/ target > current
    BY <1>9 DEF MoveMarker, ApplyInv
  <2>b. Active' = expected
    BY <1>9, <2>a DEF MoveMarker, NoCycle
  <2>c. Active = NoFile \/ (Active \in Bundle /\ CycleOf[expected] > CycleOf[Active])
    BY <2>a DEF ActiveIsGenuine
  <2>1. outcome' = "applied"
    BY <1>9 DEF MoveMarker
  <2>2. AS!Swap(expected)
    BY <2>b, <2>c, <2>1 DEF AS!Swap
  <2> QED
    BY <2>a, <2>2 DEF AS!Next
<1>10. CASE BeginPrune
  BY <1>10, <1>s DEF BeginPrune
<1>11. CASE PruneOne
  <2>1. current # NoCycle => bundle'[current] = bundle[current]
    BY <1>11 DEF PruneOne, PruneInv, NoCycle
  <2> QED
    BY <1>11, <1>s, <2>1 DEF PruneOne
<1>12. CASE EndPrune
  BY <1>12, <1>s DEF EndPrune
<1>13. CASE Fail
  BY <1>13, <1>s DEF Fail
<1>14. CASE Crash
  BY <1>14, <1>s DEF Crash
<1>15. CASE UNCHANGED vars
  BY <1>15, <1>s DEF vars
<1> QED
  BY <1>1, <1>2, <1>3, <1>4, <1>5, <1>6, <1>7, <1>8, <1>9, <1>10, <1>11,
     <1>12, <1>13, <1>14, <1>15 DEF Next, Step, Environment

(* The store implements AtomicSwap: the file-by-file replacement of the    *)
(* active cycle looks like one step, forwards, to everything that reads it.*)
THEOREM StoreRefinesSwap == Spec => ImplementsAtomicSwap
<1>1. Init => AS!Init
  BY DEF Init, AS!Init, Active, CurrentCycleId
<1>2. Inv /\ Inv' /\ [Next]_vars => [AS!Next]_AS!vars
  BY SwapStep
<1> QED
  BY <1>1, <1>2, SpecInv, PTL DEF Spec, ImplementsAtomicSwap, AS!Spec
=============================================================================
