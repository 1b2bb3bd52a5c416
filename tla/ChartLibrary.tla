---------------------------- MODULE ChartLibrary ----------------------------
(***************************************************************************)
(* What the chart store promises: archives named by content, read straight *)
(* from where they are.  There is no cache here, no partial work, and no   *)
(* process to die; ChartStore is shown to implement this.                  *)
(***************************************************************************)
EXTENDS Naturals

CONSTANTS Cycle, Chart, Key, KeyOf, Digest, NoKey, Garbage, NoFile

VARIABLES active, blob, served

vars == <<active, blob, served>>

NoCycle == 0

Resolve(ch) == IF active = NoCycle THEN NoKey ELSE KeyOf[active][ch]

Referenced == IF active = NoCycle THEN {}
              ELSE {KeyOf[active][ch] : ch \in Chart} \ {NoKey}

Init ==
    /\ active = NoCycle
    /\ blob = [k \in Key |-> NoFile]
    /\ served = [chart |-> NoKey, file |-> NoFile]

(* The catalogue is replaced; not one archive is touched by that. *)
Swap == \E c \in Cycle : c > active /\ active' = c /\ UNCHANGED <<blob, served>>

(* An archive arrives under the key of a chart: the one the key is the     *)
(* digest of, or any when the key is not a digest.                         *)
Put == \E ch \in Chart, f \in Key \cup {Garbage} :
         LET k == Resolve(ch) IN
         /\ k # NoKey
         /\ k \in Digest => f = k
         /\ blob' = [blob EXCEPT ![k] = f]
         /\ UNCHANGED <<active, served>>

(* The archive of a chart goes because it is removed, and any archive the  *)
(* active cycle does not refer to may go at any time.                      *)
Discard == \E k \in Key :
             /\ \/ \E ch \in Chart : k = Resolve(ch)
                \/ active # NoCycle /\ k \notin Referenced
             /\ blob' = [blob EXCEPT ![k] = NoFile]
             /\ UNCHANGED <<active, served>>

(* A tile comes out of the archive stored now. *)
Serve == \E ch \in Chart :
           LET k == Resolve(ch) IN
           /\ k # NoKey
           /\ blob[k] # NoFile
           /\ served' = [chart |-> ch, file |-> blob[k]]
           /\ UNCHANGED <<active, blob>>

Next == Swap \/ Put \/ Discard \/ Serve

Spec == Init /\ [][Next]_vars
=============================================================================
