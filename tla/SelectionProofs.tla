-------------------------- MODULE SelectionProofs --------------------------
(***************************************************************************)
(* Proofs about Selection, for any nodes and any number of storages: the   *)
(* types, what makes devices follow the selection, that merges and stops   *)
(* leave the history of what is picked where it is, and whose doing a pick *)
(* or the loss of a device is.                                             *)
(***************************************************************************)
EXTENDS Selection, TLAPS

SavedPresent == {i \in Ids : savedDevice[i] # NoDevice}

\* What is on disk agrees with itself as well, or the next stop would show it.
AllPicked ==
    torn = {} => Present \subseteq selection /\ SavedPresent \subseteq savedSelection

\* Devices under per-node ids come up in a loaded entry only, which writes
\* both: neither the registries nor an older entry can be behind them.
PerNodePicked ==
    "registry" \notin torn =>
        /\ Present \cap PerNode \subseteq selection \cap savedSelection
        /\ SavedPresent \cap PerNode \subseteq savedSelection

\* From the merge on, nothing of a merged name is picked per node.
MergedPicked ==
    phase \in {"setup", "loaded"} /\ "registry" \notin torn =>
        \A n \in merged : Picked(n) = {}

IInv == TypeOK /\ AllPicked /\ PerNodePicked /\ MergedPicked

LEMMA TypeInit == Init => TypeOK
BY DEF Init, TypeOK, PerNode, Ids

\* What a merge renames and drops are devices again.
LEMMA RenamedTyped ==
    ASSUME TypeOK, NEW names, names \subseteq Names, NEW k \in [names -> Nodes],
           NEW done \in SUBSET names
    PROVE  /\ RenamedDevices(done, k) \in [Ids -> Ids \cup {NoDevice}]
           /\ MergedDevices(done, k) \in [Ids -> Ids \cup {NoDevice}]
<1>1. ASSUME NEW i \in Ids, NEW n \in done, i = <<Everywhere, n>>
      PROVE  device[<<k[i[2]], i[2]>>] \in Ids \cup {NoDevice}
    <2>1. i[2] = n /\ k[n] \in Nodes /\ n \in Names
        BY <1>1
    <2> QED BY <2>1 DEF TypeOK, Ids, PerNode
<1>2. RenamedDevices(done, k) \in [Ids -> Ids \cup {NoDevice}]
    BY <1>1 DEF RenamedDevices, TypeOK
<1> QED BY <1>2 DEF MergedDevices

\* Who keeps a device is one node per merging name.
LEMMA KeepersTyped ==
    ASSUME TypeOK, NEW local, NEW k \in Keepers(SharedNames, local)
    PROVE  /\ Merging(SharedNames) \subseteq Names
           /\ k \in [Merging(SharedNames) -> Nodes]
BY DEF Keepers, Merging, SharedNames, TypeOK

LEMMA TypeMerge == TypeOK /\ Merge => TypeOK'
<1> SUFFICES ASSUME TypeOK, Merge PROVE TypeOK'
    OBVIOUS
<1>0. PICK local \in Nodes \cup {Everywhere} :
          \E k \in Keepers(SharedNames, local) :
              /\ selection' = MergedSelection(SharedNames)
              /\ device' = MergedDevices(Merging(SharedNames), k)
    BY DEF Merge
<1>1. PICK k \in Keepers(SharedNames, local) :
          /\ selection' = MergedSelection(SharedNames)
          /\ device' = MergedDevices(Merging(SharedNames), k)
    BY <1>0
<1>2. device' \in [Ids -> Ids \cup {NoDevice}]
    BY <1>1, KeepersTyped, RenamedTyped
<1>3. selection' \subseteq Ids
    BY <1>1, KeepersTyped DEF MergedSelection, Ids, Shared, TypeOK
<1>4. seen' \subseteq Ids /\ merged' \subseteq Names
    BY DEF Merge, Listed, SharedNames, TypeOK, Ids, Shared, PerNode
<1>5. phase' = "setup" /\ UNCHANGED <<clusterVars, savedVars, form, had, torn>>
    BY DEF Merge
<1> QED BY <1>2, <1>3, <1>4, <1>5 DEF TypeOK, clusterVars, savedVars

LEMMA TypeMergeBreaks == TypeOK /\ MergeBreaks => TypeOK'
<1> SUFFICES ASSUME TypeOK, MergeBreaks PROVE TypeOK'
    OBVIOUS
<1>0. PICK local \in Nodes \cup {Everywhere} :
          \E k \in Keepers(SharedNames, local) : \E done \in SUBSET Merging(SharedNames) :
              /\ device' = RenamedDevices(done, k)
              /\ torn' = IF done = {} THEN torn ELSE torn \cup {"entry"}
    BY DEF MergeBreaks
<1>1. PICK k \in Keepers(SharedNames, local) : \E done \in SUBSET Merging(SharedNames) :
          /\ device' = RenamedDevices(done, k)
          /\ torn' = IF done = {} THEN torn ELSE torn \cup {"entry"}
    BY <1>0
<1>2. PICK done \in SUBSET Merging(SharedNames) :
          /\ device' = RenamedDevices(done, k)
          /\ torn' = IF done = {} THEN torn ELSE torn \cup {"entry"}
    BY <1>1
<1>3. device' \in [Ids -> Ids \cup {NoDevice}]
    BY <1>2, KeepersTyped, RenamedTyped
<1>4. /\ phase' = "error"
      /\ UNCHANGED <<clusterVars, selection, savedVars, seen, merged, form, had>>
    BY DEF MergeBreaks
<1> QED BY <1>2, <1>3, <1>4 DEF TypeOK, clusterVars, savedVars

LEMMA TypeLoaded == TypeOK /\ Loaded => TypeOK'
<1> SUFFICES ASSUME TypeOK, Loaded PROVE TypeOK'
    OBVIOUS
<1>1. PICK data \in SUBSET (selection \cap seen) :
          device' = [i \in Ids |-> IF i \in data /\ device[i] = NoDevice
                                   THEN i ELSE device[i]]
    BY DEF Loaded
<1>2. device' \in [Ids -> Ids \cup {NoDevice}]
    BY <1>1 DEF TypeOK
<1>3. had' \in [Names -> SUBSET Ids]
    <2>1. ASSUME NEW n \in Names
          PROVE  (LET found == {device'[i] : i \in selection \cap IdsOf(n)}
                  IN  IF NoDevice \in found THEN {} ELSE found) \in SUBSET Ids
        BY <1>2 DEF TypeOK
    <2> QED BY <2>1 DEF Loaded
<1>4. /\ phase' = "loaded" /\ savedSelection' = selection /\ savedDevice' = device'
      /\ seen' = {} /\ UNCHANGED <<clusterVars, selection, merged, form, torn>>
    BY DEF Loaded
<1> QED BY <1>2, <1>3, <1>4 DEF TypeOK, clusterVars

LEMMA TypeCrash == TypeOK /\ Crash => TypeOK'
BY DEF TypeOK, Crash, Leaves, clusterVars

LEMMA TypeSaveForm == TypeOK /\ SaveForm => TypeOK'
<1> SUFFICES ASSUME TypeOK, SaveForm PROVE TypeOK'
    OBVIOUS
<1>1. PICK picks \in SUBSET form :
          /\ selection' = picks
          /\ device' = DevicesWithout(selection \ picks)
          /\ had' = [n \in Names |->
                        IF ((selection \ picks) \cup (picks \ selection)) \cap IdsOf(n) # {}
                        THEN {} ELSE had[n]]
    BY DEF SaveForm
<1>2. device' \in [Ids -> Ids \cup {NoDevice}] /\ had' \in [Names -> SUBSET Ids]
    BY <1>1 DEF DevicesWithout, TypeOK
<1>3. /\ phase' = "down" /\ seen' = {} /\ merged' = {} /\ form' = {}
      /\ UNCHANGED <<clusterVars, savedVars, torn>>
    BY DEF SaveForm, Leaves
<1> QED BY <1>1, <1>2, <1>3 DEF TypeOK, clusterVars, savedVars

LEMMA TypeStep == TypeOK /\ [Next]_vars => TypeOK'
<1> SUFFICES ASSUME TypeOK, [Next]_vars PROVE TypeOK'
    OBVIOUS
<1> USE DEF clusterVars, entryVars, savedVars, setupVars
<1>1. CASE \E i \in PerNode : RowTurns(i)
    BY <1>1 DEF RowTurns, TypeOK
<1>2. CASE \E n \in Names : SharingTurns(n)
    BY <1>2 DEF SharingTurns, TypeOK
<1>3. CASE GoDown
    BY <1>3 DEF GoDown, Leaves, TypeOK
<1>4. CASE OpenForm
    <2>1. Listed \subseteq Ids
        BY DEF Listed, SharedNames, TypeOK, Ids, Shared, PerNode
    <2> QED BY <1>4, <2>1 DEF OpenForm, TypeOK
<1>5. CASE CloseForm
    BY <1>5 DEF CloseForm, TypeOK
<1>6. CASE UNCHANGED vars
    BY <1>6 DEF vars, TypeOK
<1> QED BY <1>1, <1>2, <1>3, <1>4, <1>5, <1>6, TypeMerge, TypeMergeBreaks,
           TypeLoaded, TypeCrash, TypeSaveForm DEF Next

\* The selection is ids, the devices are ids' and their order of coming up is
\* one of the ids they had: the types of Selection hold throughout.
THEOREM TypeCorrect == Spec => []TypeOK
BY TypeInit, TypeStep, PTL DEF Spec

-----------------------------------------------------------------------------
(* Devices follow the selection.                                           *)

\* A rename gives devices to the shared ids only, and of those that merge.
LEMMA WhatMerges ==
    ASSUME TypeOK, NEW local, NEW k \in Keepers(SharedNames, local),
           NEW done \in SUBSET Merging(SharedNames),
           NEW i \in Ids, RenamedDevices(done, k)[i] # NoDevice
    PROVE  \/ i \in Present
           \/ i \in {Everywhere} \X done
<1>1. RenamedDevices(done, k)[i] =
          IF \E n \in done : i = <<k[n], n>> THEN NoDevice
          ELSE IF \E n \in done : i = <<Everywhere, n>> /\ device[<<k[n], n>>] # NoDevice
               THEN device[<<k[i[2]], i[2]>>]
          ELSE device[i]
    BY DEF RenamedDevices
<1>2. CASE \E n \in done : i = <<Everywhere, n>>
    BY <1>2
<1>3. CASE ~\E n \in done : i = <<Everywhere, n>>
    BY <1>1, <1>3 DEF Present
<1> QED BY <1>2, <1>3

LEMMA InvInit == Init => IInv
BY TypeInit DEF Init, IInv, AllPicked, PerNodePicked, MergedPicked, Present,
    SavedPresent, PerNode, Ids

\* After a merge nothing of a merged name is left per node, and its shared
\* form is picked.
LEMMA InvMerge == IInv /\ Merge => IInv'
<1> SUFFICES ASSUME IInv, Merge PROVE IInv'
    OBVIOUS
<1> DEFINE M == Merging(SharedNames)
<1>1. TypeOK /\ TypeOK'
    BY TypeMerge DEF IInv
<1>2. PICK local \in Nodes \cup {Everywhere} :
          \E k \in Keepers(SharedNames, local) :
              /\ selection' = MergedSelection(SharedNames)
              /\ device' = MergedDevices(M, k)
    BY DEF Merge
<1>3. PICK k \in Keepers(SharedNames, local) :
          /\ selection' = MergedSelection(SharedNames)
          /\ device' = MergedDevices(M, k)
    BY <1>2
<1>4. /\ phase' = "setup" /\ merged' = SharedNames
      /\ UNCHANGED <<savedSelection, savedDevice, torn>>
    BY DEF Merge, savedVars
<1>5. M \subseteq Names /\ SharedNames \subseteq Names
    BY <1>1 DEF Merging, SharedNames, TypeOK
<1>6. \A n \in SharedNames : Picked(n)' = {}
    <2>1. selection' = (selection \ (Nodes \X M)) \cup {Everywhere} \X M
        BY <1>3 DEF MergedSelection
    <2> QED BY <2>1, NamingAssumption DEF Picked, Merging
<1>7. ASSUME NEW i \in Present'
      PROVE  /\ i \in Ids
             /\ i \in Present \/ i \in {Everywhere} \X M
             /\ i \in selection => i \notin Nodes \X M
    <2>1. i \in Ids /\ device'[i] # NoDevice
        BY DEF Present
    <2>2. (\A n \in M : i \notin Picked(n)) /\ RenamedDevices(M, k)[i] # NoDevice
        BY <1>3, <2>1 DEF MergedDevices
    <2>3. i \in Present \/ i \in {Everywhere} \X M
        BY <1>1, <2>1, <2>2, WhatMerges
    <2>4. i \in selection => i \notin Nodes \X M
        BY <2>2 DEF Picked
    <2> QED BY <2>1, <2>3, <2>4
<1>8. selection' = (selection \ (Nodes \X M)) \cup {Everywhere} \X M
    BY <1>3 DEF MergedSelection
<1>9. SavedPresent' = SavedPresent
    BY <1>4 DEF SavedPresent
<1>10. AllPicked'
    <2>1. CASE torn = {}
        <3>1. Present \subseteq selection /\ SavedPresent \subseteq savedSelection
            BY <2>1 DEF IInv, AllPicked
        <3>2. ASSUME NEW i \in Present' PROVE i \in selection'
            BY <3>1, <1>7, <1>8
        <3> QED BY <3>1, <3>2, <1>4, <1>9 DEF AllPicked
    <2>2. CASE torn # {}
        BY <2>2, <1>4 DEF AllPicked
    <2> QED BY <2>1, <2>2
<1>11. PerNodePicked'
    <2>1. CASE "registry" \notin torn
        <3>1. /\ Present \cap PerNode \subseteq selection \cap savedSelection
              /\ SavedPresent \cap PerNode \subseteq savedSelection
            BY <2>1 DEF IInv, PerNodePicked
        <3>2. ASSUME NEW i \in Present', i \in PerNode
              PROVE  i \in selection' /\ i \in savedSelection
            <4>1. i \notin {Everywhere} \X M
                BY <3>2, NamingAssumption DEF PerNode
            <4>2. i \in Present
                BY <4>1, <1>7
            <4> QED BY <3>1, <3>2, <4>2, <1>7, <1>8
        <3> QED BY <3>1, <3>2, <1>4, <1>9 DEF PerNodePicked
    <2>2. CASE "registry" \in torn
        BY <2>2, <1>4 DEF PerNodePicked
    <2> QED BY <2>1, <2>2
<1>12. MergedPicked'
    BY <1>4, <1>6 DEF MergedPicked
<1> QED BY <1>1, <1>10, <1>11, <1>12 DEF IInv

\* What a broken merge renamed is under shared ids, and the entry is behind.
LEMMA InvMergeBreaks == IInv /\ MergeBreaks => IInv'
<1> SUFFICES ASSUME IInv, MergeBreaks PROVE IInv'
    OBVIOUS
<1>1. TypeOK /\ TypeOK'
    BY TypeMergeBreaks DEF IInv
<1>2. PICK local \in Nodes \cup {Everywhere} :
          \E k \in Keepers(SharedNames, local) : \E done \in SUBSET Merging(SharedNames) :
              /\ device' = RenamedDevices(done, k)
              /\ torn' = IF done = {} THEN torn ELSE torn \cup {"entry"}
    BY DEF MergeBreaks
<1>3. PICK k \in Keepers(SharedNames, local) : \E done \in SUBSET Merging(SharedNames) :
          /\ device' = RenamedDevices(done, k)
          /\ torn' = IF done = {} THEN torn ELSE torn \cup {"entry"}
    BY <1>2
<1>4. PICK done \in SUBSET Merging(SharedNames) :
          /\ device' = RenamedDevices(done, k)
          /\ torn' = IF done = {} THEN torn ELSE torn \cup {"entry"}
    BY <1>3
<1>5. phase' = "error" /\ UNCHANGED <<selection, savedSelection, savedDevice>>
    BY DEF MergeBreaks, savedVars
<1>6. ASSUME NEW i \in Present'
      PROVE  i \in Ids /\ (i \in Present \/ i \in {Everywhere} \X done)
    BY <1>1, <1>4, WhatMerges DEF Present
<1>7. SavedPresent' = SavedPresent
    BY <1>5 DEF SavedPresent
<1>8. AllPicked'
    <2>1. CASE torn' = {}
        <3>1. done = {} /\ torn = {}
            BY <2>1, <1>4
        <3>2. Present \subseteq selection /\ SavedPresent \subseteq savedSelection
            BY <3>1 DEF IInv, AllPicked
        <3> QED BY <3>1, <3>2, <1>5, <1>6, <1>7 DEF AllPicked
    <2>2. CASE torn' # {}
        BY <2>2 DEF AllPicked
    <2> QED BY <2>1, <2>2
<1>9. PerNodePicked'
    <2>1. CASE "registry" \notin torn'
        <3>1. "registry" \notin torn
            BY <2>1, <1>4
        <3>2. /\ Present \cap PerNode \subseteq selection \cap savedSelection
              /\ SavedPresent \cap PerNode \subseteq savedSelection
            BY <3>1 DEF IInv, PerNodePicked
        <3>3. Present' \cap PerNode \subseteq Present \cap PerNode
            BY <1>6, NamingAssumption DEF PerNode
        <3> QED BY <3>2, <3>3, <1>5, <1>7 DEF PerNodePicked
    <2>2. CASE "registry" \in torn'
        BY <2>2 DEF PerNodePicked
    <2> QED BY <2>1, <2>2
<1>10. MergedPicked'
    BY <1>5 DEF MergedPicked
<1> QED BY <1>1, <1>8, <1>9, <1>10 DEF IInv

\* What comes up is picked, and both files are written.
LEMMA InvLoaded == IInv /\ Loaded => IInv'
<1> SUFFICES ASSUME IInv, Loaded PROVE IInv'
    OBVIOUS
<1>1. TypeOK /\ TypeOK'
    BY TypeLoaded DEF IInv
<1>2. PICK data \in SUBSET (selection \cap seen) :
          device' = [i \in Ids |-> IF i \in data /\ device[i] = NoDevice
                                   THEN i ELSE device[i]]
    BY DEF Loaded
<1>3. /\ phase = "setup" /\ savedSelection' = selection /\ savedDevice' = device'
      /\ UNCHANGED <<selection, merged, torn>>
    BY DEF Loaded
<1>4. Present' \subseteq Present \cup selection
    BY <1>2 DEF Present
<1>5. SavedPresent' = Present'
    BY <1>3 DEF SavedPresent, Present
<1>6. AllPicked'
    BY <1>3, <1>4, <1>5 DEF IInv, AllPicked
<1>7. PerNodePicked'
    BY <1>3, <1>4, <1>5 DEF IInv, PerNodePicked
<1>8. MergedPicked'
    BY <1>3 DEF IInv, MergedPicked, Picked
<1> QED BY <1>1, <1>6, <1>7, <1>8 DEF IInv

\* Whatever a stop puts together is picked, or marked as behind.
LEMMA InvCrash == IInv /\ Crash => IInv'
<1> SUFFICES ASSUME IInv, Crash PROVE IInv'
    OBVIOUS
<1>1. TypeOK /\ TypeOK'
    BY TypeCrash DEF IInv
<1>2. /\ selection' \in {selection, savedSelection}
      /\ device' \in {device, savedDevice}
      /\ torn = {}
      /\ selection' = savedSelection /\ device' # savedDevice => "entry" \in torn'
      /\ selection' # savedSelection /\ device' = savedDevice => "registry" \in torn'
      /\ savedSelection' = selection' /\ savedDevice' = device' /\ phase' = "down"
    BY DEF Crash, Leaves
<1>3. SavedPresent' = Present'
    BY <1>2 DEF SavedPresent, Present
<1>4. /\ device' = device => Present' = Present
      /\ device' = savedDevice => Present' = SavedPresent
    BY DEF SavedPresent, Present
<1>5. /\ Present \subseteq selection /\ SavedPresent \subseteq savedSelection
      /\ Present \cap PerNode \subseteq savedSelection
    BY <1>2 DEF IInv, AllPicked, PerNodePicked
<1>6. AllPicked'
    BY <1>2, <1>3, <1>4, <1>5 DEF AllPicked
<1>7. PerNodePicked'
    BY <1>2, <1>3, <1>4, <1>5 DEF PerNodePicked
<1>8. MergedPicked'
    BY <1>2 DEF MergedPicked
<1> QED BY <1>1, <1>6, <1>7, <1>8 DEF IInv

\* The form takes a device with what it deselects.
LEMMA InvSaveForm == IInv /\ SaveForm => IInv'
<1> SUFFICES ASSUME IInv, SaveForm PROVE IInv'
    OBVIOUS
<1>1. TypeOK /\ TypeOK'
    BY TypeSaveForm DEF IInv
<1>2. PICK picks \in SUBSET form :
          selection' = picks /\ device' = DevicesWithout(selection \ picks)
    BY DEF SaveForm
<1>3. phase' = "down" /\ UNCHANGED <<savedSelection, savedDevice, torn>>
    BY DEF SaveForm, Leaves, savedVars
<1>4. ASSUME NEW i \in Present'
      PROVE  i \in Present /\ (i \in selection => i \in picks)
    BY <1>2 DEF Present, DevicesWithout
<1>5. SavedPresent' = SavedPresent
    BY <1>3 DEF SavedPresent
<1>6. AllPicked'
    BY <1>2, <1>3, <1>4, <1>5 DEF IInv, AllPicked
<1>7. PerNodePicked'
    BY <1>2, <1>3, <1>4, <1>5 DEF IInv, PerNodePicked
<1>8. MergedPicked'
    BY <1>3 DEF MergedPicked
<1> QED BY <1>1, <1>6, <1>7, <1>8 DEF IInv

\* What touches neither the entry nor the registries.
LEMMA InvElse ==
    ASSUME IInv, TypeOK', UNCHANGED <<entryVars, savedVars, torn>>,
           phase' = "down" \/ UNCHANGED <<phase, merged>>
    PROVE  IInv'
<1>1. Present' = Present /\ SavedPresent' = SavedPresent
    BY DEF Present, SavedPresent, entryVars, savedVars
<1>2. AllPicked' /\ PerNodePicked'
    BY <1>1 DEF IInv, AllPicked, PerNodePicked, entryVars, savedVars
<1>3. MergedPicked'
    BY DEF IInv, MergedPicked, Picked, entryVars
<1> QED BY <1>2, <1>3 DEF IInv

LEMMA InvStep == IInv /\ [Next]_vars => IInv'
<1> SUFFICES ASSUME IInv, [Next]_vars PROVE IInv'
    OBVIOUS
<1>1. TypeOK'
    BY TypeStep DEF IInv
<1>2. CASE \/ \E i \in PerNode : RowTurns(i)
           \/ \E n \in Names : SharingTurns(n)
           \/ GoDown \/ OpenForm \/ CloseForm \/ UNCHANGED vars
    <2>1. UNCHANGED <<entryVars, savedVars, torn>>
        BY <1>2 DEF RowTurns, SharingTurns, GoDown, OpenForm, CloseForm, vars
    <2>2. phase' = "down" \/ UNCHANGED <<phase, merged>>
        BY <1>2 DEF RowTurns, SharingTurns, GoDown, Leaves, OpenForm, CloseForm, vars,
            setupVars
    <2> QED BY <1>1, <2>1, <2>2, InvElse
<1> QED BY <1>2, InvMerge, InvMergeBreaks, InvLoaded, InvCrash, InvSaveForm DEF Next

\* NoOrphans of Selection, for every number of nodes and storages: a loaded
\* entry that no stop or broken merge tore has devices of what is picked alone.
THEOREM DevicesArePicked == Spec => []NoOrphans
<1>1. IInv => NoOrphans
    BY DEF IInv, AllPicked, NoOrphans
<1> QED BY <1>1, InvInit, InvStep, PTL DEF Spec

\* OneDevicePerStorage of Selection, likewise: what setup was told is shared has
\* no per-node device left in a loaded entry, unless the registries are behind.
THEOREM SharedIsOneDevice == Spec => []OneDevicePerStorage
<1>1. ASSUME IInv PROVE OneDevicePerStorage
    <2> SUFFICES ASSUME phase = "loaded", "registry" \notin torn, NEW n \in merged,
                        NEW i \in Present \cap IdsOf(n)
                 PROVE  i = <<Everywhere, n>>
        BY DEF OneDevicePerStorage
    <2>1. n \in Names
        BY <1>1 DEF IInv, TypeOK
    <2>2. i \in (Nodes \cup {Everywhere}) \X {n}
        BY DEF IdsOf
    <2>3. CASE i \in Nodes \X {n}
        <3>1. i \in selection
            BY <1>1, <2>1, <2>3 DEF IInv, PerNodePicked, PerNode
        <3>2. Picked(n) = {}
            BY <1>1 DEF IInv, MergedPicked
        <3> QED BY <2>3, <3>1, <3>2 DEF Picked
    <2> QED BY <2>2, <2>3
<1> QED BY <1>1, InvInit, InvStep, PTL DEF Spec

-----------------------------------------------------------------------------
(* Histories stay with what is picked.                                     *)

\* All that is picked of n has a device, and one of its history.
HadIn(sel, dev, n) ==
    /\ sel \cap IdsOf(n) # {}
    /\ \A i \in sel \cap IdsOf(n) : dev[i] \in had[n]

\* So it is now, or what a tear left has a device of the history under the
\* shared id, which the next merge picks.
HistoryPicked ==
    "registry" \notin torn =>
        \A n \in Names : had[n] # {} =>
            /\ selection \cap IdsOf(n) # {}
            /\ \/ HadIn(selection, device, n)
               \/ torn # {} /\ device[<<Everywhere, n>>] \in had[n]

\* So it is on disk, and only merges came since.
HistorySaved ==
    torn = {} =>
        \A n \in Names : had[n] # {} =>
            /\ HadIn(savedSelection, savedDevice, n)
            /\ selection \cap IdsOf(n) \in {savedSelection \cap IdsOf(n), {<<Everywhere, n>>}}

HInv == IInv /\ HistoryPicked /\ HistorySaved

LEMMA HadAreIds ==
    ASSUME TypeOK, NEW n \in Names
    PROVE  NoDevice \notin had[n] /\ IdsOf(n) \subseteq Ids
BY NamingAssumption DEF TypeOK, IdsOf, Ids, PerNode, Shared

\* The names a step leaves alone keep their history.
LEMMA SameHistory ==
    ASSUME HistoryPicked, HistorySaved, NEW n \in Names,
           UNCHANGED <<savedVars, torn>>, had'[n] # {}, had'[n] = had[n],
           selection' \cap IdsOf(n) = selection \cap IdsOf(n),
           \A i \in IdsOf(n) : device'[i] = device[i]
    PROVE  /\ "registry" \notin torn' =>
                  /\ selection' \cap IdsOf(n) # {}
                  /\ \/ HadIn(selection, device, n)'
                     \/ torn' # {} /\ device'[<<Everywhere, n>>] \in had'[n]
           /\ torn' = {} =>
                  /\ HadIn(savedSelection, savedDevice, n)'
                  /\ (selection \cap IdsOf(n))'
                        \in {savedSelection' \cap IdsOf(n), {<<Everywhere, n>>}}
<1>1. <<Everywhere, n>> \in IdsOf(n)
    BY DEF IdsOf
<1>2. HadIn(selection, device, n) => HadIn(selection, device, n)'
    BY DEF HadIn, IdsOf
<1>3. HadIn(savedSelection, savedDevice, n) => HadIn(savedSelection, savedDevice, n)'
    BY DEF HadIn, IdsOf, savedVars
<1>4. (selection \cap IdsOf(n))' = selection' \cap IdsOf(n)
    BY DEF IdsOf
<1> QED BY <1>1, <1>2, <1>3, <1>4 DEF HistoryPicked, HistorySaved, savedVars

\* What a rename does to the ids of one name.
LEMMA RenamedOf ==
    ASSUME TypeOK, NEW local, NEW k \in Keepers(SharedNames, local),
           NEW done \in SUBSET Merging(SharedNames), NEW n \in Names
    PROVE  /\ n \notin done =>
                  \A i \in IdsOf(n) : RenamedDevices(done, k)[i] = device[i]
           /\ n \in done /\ device[<<k[n], n>>] # NoDevice =>
                  RenamedDevices(done, k)[<<Everywhere, n>>] = device[<<k[n], n>>]
           /\ n \in done /\ device[<<k[n], n>>] = NoDevice =>
                  RenamedDevices(done, k)[<<Everywhere, n>>] = device[<<Everywhere, n>>]
<1>1. /\ \A i \in IdsOf(n) : i[2] = n /\ i \in Ids
      /\ <<Everywhere, n>> \in IdsOf(n)
    BY HadAreIds DEF IdsOf
<1>2. \A m \in done : k[m] \in Nodes /\ k[m] # Everywhere
    BY KeepersTyped, NamingAssumption
<1>3. \A i \in Ids : RenamedDevices(done, k)[i] =
          IF \E m \in done : i = <<k[m], m>> THEN NoDevice
          ELSE IF \E m \in done : i = <<Everywhere, m>> /\ device[<<k[m], m>>] # NoDevice
               THEN device[<<k[i[2]], i[2]>>]
          ELSE device[i]
    BY DEF RenamedDevices
<1>4. ASSUME n \notin done, NEW i \in IdsOf(n)
      PROVE  RenamedDevices(done, k)[i] = device[i]
    <2>1. \A m \in done : i # <<k[m], m>> /\ i # <<Everywhere, m>>
        BY <1>1, <1>4
    <2> QED BY <1>1, <1>3, <2>1
<1>5. ASSUME n \in done
      PROVE  RenamedDevices(done, k)[<<Everywhere, n>>] =
                 IF device[<<k[n], n>>] # NoDevice THEN device[<<k[n], n>>]
                 ELSE device[<<Everywhere, n>>]
    <2> DEFINE i == <<Everywhere, n>>
    <2>1. i \in Ids /\ \A m \in done : i # <<k[m], m>>
        BY <1>1, <1>2
    <2>2. (\E m \in done : i = <<Everywhere, m>> /\ device[<<k[m], m>>] # NoDevice)
              <=> device[<<k[n], n>>] # NoDevice
        BY <1>5
    <2>3. i[2] = n
        OBVIOUS
    <2> HIDE DEF i
    <2>4. RenamedDevices(done, k)[i] =
              IF device[<<k[n], n>>] # NoDevice THEN device[<<k[n], n>>] ELSE device[i]
        BY <1>3, <2>1, <2>2, <2>3
    <2> QED BY <2>4 DEF i
<1> QED BY <1>4, <1>5

\* A name that merges has its keeper's history under the shared id, or had one
\* there before.
LEMMA KeeperKeeps ==
    ASSUME HInv, "registry" \notin torn,
           NEW local, NEW k \in Keepers(SharedNames, local),
           NEW done \in SUBSET Merging(SharedNames), NEW n \in done,
           ~Collides(n, k), had[n] # {}
    PROVE  RenamedDevices(done, k)[<<Everywhere, n>>] \in had[n]
<1>1. TypeOK /\ n \in Names
    BY KeepersTyped DEF HInv, IInv
<1>2. <<k[n], n>> \in selection \cap IdsOf(n)
    <2>1. <<k[n], n>> \in Picked(n)
        BY DEF Keepers
    <2> QED BY <2>1 DEF Picked, IdsOf
<1>3. CASE HadIn(selection, device, n)
    <2>1. device[<<k[n], n>>] \in had[n] /\ device[<<k[n], n>>] # NoDevice
        BY <1>1, <1>2, <1>3, HadAreIds DEF HadIn
    <2> QED BY <1>1, <2>1, RenamedOf
<1>4. CASE device[<<Everywhere, n>>] \in had[n]
    <2>1. device[<<Everywhere, n>>] # NoDevice
        BY <1>1, <1>4, HadAreIds
    <2>2. device[<<k[n], n>>] = NoDevice
        BY <2>1 DEF Collides
    <2> QED BY <1>1, <1>4, <2>2, RenamedOf
<1> QED BY <1>1, <1>3, <1>4 DEF HInv, HistoryPicked

LEMMA HistoryMerge == HInv /\ Merge => HistoryPicked' /\ HistorySaved'
<1> SUFFICES ASSUME HInv, Merge PROVE HistoryPicked' /\ HistorySaved'
    OBVIOUS
<1> DEFINE M == Merging(SharedNames)
<1>1. PICK local \in Nodes \cup {Everywhere} :
          \E k \in Keepers(SharedNames, local) :
              /\ \A n \in M : ~Collides(n, k)
              /\ selection' = MergedSelection(SharedNames)
              /\ device' = MergedDevices(M, k)
    BY DEF Merge
<1>2. PICK k \in Keepers(SharedNames, local) :
          /\ \A n \in M : ~Collides(n, k)
          /\ selection' = MergedSelection(SharedNames)
          /\ device' = MergedDevices(M, k)
    BY <1>1
<1>3. UNCHANGED <<savedVars, torn>> /\ had' = had /\ TypeOK
    BY DEF Merge, HInv, IInv
<1>4. selection' = (selection \ (Nodes \X M)) \cup {Everywhere} \X M
    BY <1>2 DEF MergedSelection
<1>5. \A i \in Ids : device'[i] = IF \E m \in M : i \in Picked(m) THEN NoDevice
                                 ELSE RenamedDevices(M, k)[i]
    BY <1>2 DEF MergedDevices
<1>6. ASSUME NEW n \in Names, had[n] # {}
      PROVE  /\ "registry" \notin torn' =>
                  /\ selection' \cap IdsOf(n) # {}
                  /\ \/ HadIn(selection, device, n)'
                     \/ torn' # {} /\ device'[<<Everywhere, n>>] \in had'[n]
             /\ torn' = {} =>
                  /\ HadIn(savedSelection, savedDevice, n)'
                  /\ (selection \cap IdsOf(n))'
                        \in {savedSelection' \cap IdsOf(n), {<<Everywhere, n>>}}
    <2>1. CASE n \notin M
        <3>1. selection' \cap IdsOf(n) = selection \cap IdsOf(n)
            BY <1>4, <2>1 DEF IdsOf
        <3>2. ASSUME NEW i \in IdsOf(n) PROVE device'[i] = device[i]
            <4>1. i \in Ids /\ \A m \in M : i \notin Picked(m)
                BY <1>3, <2>1, HadAreIds DEF IdsOf, Picked
            <4>2. RenamedDevices(M, k)[i] = device[i]
                BY <1>3, <2>1, RenamedOf
            <4> QED BY <1>5, <4>1, <4>2
        <3> QED BY <1>3, <1>6, <3>1, <3>2, SameHistory DEF HInv
    <2>2. CASE n \in M
        <3>1. IdsOf(n)' = IdsOf(n) /\ <<Everywhere, n>> \in IdsOf(n) /\ <<Everywhere, n>> \in Ids
            BY <1>3, HadAreIds DEF IdsOf
        <3>2. n \in SharedNames /\ Picked(n) # {}
            BY <2>2 DEF Merging
        <3>3. selection' \cap IdsOf(n) = {<<Everywhere, n>>}
            BY <1>4, <2>2, NamingAssumption DEF IdsOf
        <3>4. device'[<<Everywhere, n>>] = RenamedDevices(M, k)[<<Everywhere, n>>]
            <4>1. \A m \in M : <<Everywhere, n>> \notin Picked(m)
                BY NamingAssumption DEF Picked
            <4> QED BY <1>5, <3>1, <4>1
        <3>5. "registry" \notin torn => device'[<<Everywhere, n>>] \in had[n]
            BY <1>2, <1>6, <2>2, <3>4, KeeperKeeps
        <3>6. "registry" \notin torn => HadIn(selection, device, n)'
            BY <1>3, <3>1, <3>3, <3>5 DEF HadIn
        <3>7. torn = {} => HadIn(savedSelection, savedDevice, n)'
            BY <1>3, <1>6, <3>1 DEF HInv, HistorySaved, HadIn, savedVars
        <3> QED BY <1>3, <3>1, <3>3, <3>6, <3>7
    <2> QED BY <2>1, <2>2
<1> QED BY <1>3, <1>6 DEF HistoryPicked, HistorySaved, IdsOf

LEMMA HistoryMergeBreaks == HInv /\ MergeBreaks => HistoryPicked' /\ HistorySaved'
<1> SUFFICES ASSUME HInv, MergeBreaks PROVE HistoryPicked' /\ HistorySaved'
    OBVIOUS
<1>1. PICK local \in Nodes \cup {Everywhere} :
          \E k \in Keepers(SharedNames, local) : \E done \in SUBSET Merging(SharedNames) :
              /\ \A n \in done : ~Collides(n, k)
              /\ device' = RenamedDevices(done, k)
              /\ torn' = IF done = {} THEN torn ELSE torn \cup {"entry"}
    BY DEF MergeBreaks
<1>2. PICK k \in Keepers(SharedNames, local) : \E done \in SUBSET Merging(SharedNames) :
          /\ \A n \in done : ~Collides(n, k)
          /\ device' = RenamedDevices(done, k)
          /\ torn' = IF done = {} THEN torn ELSE torn \cup {"entry"}
    BY <1>1
<1>3. PICK done \in SUBSET Merging(SharedNames) :
          /\ \A n \in done : ~Collides(n, k)
          /\ device' = RenamedDevices(done, k)
          /\ torn' = IF done = {} THEN torn ELSE torn \cup {"entry"}
    BY <1>2
<1>4. UNCHANGED <<selection, savedVars, had>> /\ TypeOK
    BY DEF MergeBreaks, HInv, IInv
<1>5. CASE done = {}
    <2>1. torn' = torn
        BY <1>3, <1>5
    <2>2. \A n \in Names : \A i \in IdsOf(n) : device'[i] = device[i]
        BY <1>3, <1>4, <1>5, RenamedOf
    <2> QED BY <1>4, <2>1, <2>2, SameHistory DEF HInv, HistoryPicked, HistorySaved, IdsOf
<1>6. CASE done # {}
    <2>1. torn' # {} /\ ("registry" \notin torn' => "registry" \notin torn)
        BY <1>3, <1>6
    <2>2. ASSUME "registry" \notin torn', NEW n \in Names, had[n] # {}
          PROVE  /\ selection' \cap IdsOf(n) # {}
                 /\ \/ HadIn(selection, device, n)'
                    \/ device'[<<Everywhere, n>>] \in had'[n]
        <3>1. selection' \cap IdsOf(n) # {}
            BY <1>4, <2>1, <2>2 DEF HInv, HistoryPicked
        <3>2. CASE n \in done
            <4>1. device'[<<Everywhere, n>>] \in had[n]
                BY <1>3, <2>1, <2>2, <3>2, KeeperKeeps
            <4> QED BY <1>4, <3>1, <4>1
        <3>3. CASE n \notin done
            <4>1. \A i \in IdsOf(n) : device'[i] = device[i]
                BY <1>3, <1>4, <3>3, RenamedOf
            <4>2. HadIn(selection, device, n) => HadIn(selection, device, n)'
                BY <1>4, <4>1 DEF HadIn, IdsOf
            <4>3. <<Everywhere, n>> \in IdsOf(n)
                BY DEF IdsOf
            <4> QED BY <1>4, <2>1, <2>2, <3>1, <4>1, <4>2, <4>3 DEF HInv, HistoryPicked
        <3> QED BY <3>2, <3>3
    <2> QED BY <1>4, <2>1, <2>2 DEF HistoryPicked, HistorySaved, IdsOf
<1> QED BY <1>5, <1>6

LEMMA HistoryLoaded == HInv /\ Loaded => HistoryPicked' /\ HistorySaved'
<1> SUFFICES ASSUME HInv, Loaded PROVE HistoryPicked' /\ HistorySaved'
    OBVIOUS
<1>1. /\ savedSelection' = selection' /\ savedDevice' = device' /\ selection' = selection
      /\ had' = [n \in Names |->
                    LET found == {device'[i] : i \in selection \cap IdsOf(n)}
                    IN  IF NoDevice \in found THEN {} ELSE found]
    BY DEF Loaded
<1>2. ASSUME NEW n \in Names, had'[n] # {}
      PROVE  HadIn(selection, device, n)'
    <2>1. had'[n] = {device'[i] : i \in selection \cap IdsOf(n)}
        BY <1>1, <1>2
    <2> QED BY <1>1, <1>2, <2>1 DEF HadIn, IdsOf
<1>3. ASSUME NEW n \in Names, had'[n] # {}
      PROVE  HadIn(savedSelection, savedDevice, n)'
    BY <1>1, <1>2, <1>3 DEF HadIn
<1> QED BY <1>1, <1>2, <1>3 DEF HistoryPicked, HistorySaved, HadIn

LEMMA HistoryCrash == HInv /\ Crash => HistoryPicked' /\ HistorySaved'
<1> SUFFICES ASSUME HInv, Crash PROVE HistoryPicked' /\ HistorySaved'
    OBVIOUS
<1>1. /\ torn = {} /\ had' = had /\ TypeOK
      /\ selection' \in {selection, savedSelection} /\ device' \in {device, savedDevice}
      /\ savedSelection' = selection' /\ savedDevice' = device'
      /\ "registry" \notin torn' => selection' = savedSelection \/ device' # savedDevice
      /\ torn' = {} => selection' # savedSelection \/ device' = savedDevice
    BY DEF Crash, HInv, IInv
<1>2. ASSUME NEW n \in Names, had[n] # {}
      PROVE  /\ HadIn(selection, device, n) /\ HadIn(savedSelection, savedDevice, n)
             /\ selection \cap IdsOf(n) \in {savedSelection \cap IdsOf(n), {<<Everywhere, n>>}}
    BY <1>1, <1>2 DEF HInv, HistoryPicked, HistorySaved
<1>3. ASSUME "registry" \notin torn', NEW n \in Names, had[n] # {}
      PROVE  \/ HadIn(selection', device', n)
             \/ /\ torn' # {} /\ selection' \cap IdsOf(n) # {}
                /\ device'[<<Everywhere, n>>] \in had[n]
    <2>1. CASE selection' = savedSelection /\ device' = savedDevice
        BY <1>2, <1>3, <2>1
    <2>2. CASE selection' = selection /\ device' = device
        BY <1>2, <1>3, <2>2
    <2>3. CASE selection' = savedSelection /\ device' = device /\ device' # savedDevice
        <3>1. torn' # {}
            BY <1>1, <2>3
        <3>2. CASE selection \cap IdsOf(n) = savedSelection \cap IdsOf(n)
            BY <1>2, <1>3, <2>3, <3>2 DEF HadIn
        <3>3. CASE selection \cap IdsOf(n) = {<<Everywhere, n>>}
            BY <1>2, <1>3, <2>3, <3>1, <3>3 DEF HadIn
        <3> QED BY <1>2, <1>3, <3>2, <3>3
    <2> QED BY <1>1, <1>3, <2>1, <2>2, <2>3
<1>4. \A n \in Names : HadIn(selection', device', n) => HadIn(selection, device, n)'
    BY <1>1 DEF HadIn, IdsOf
<1>5. \A n \in Names : HadIn(selection, device, n)' => HadIn(savedSelection, savedDevice, n)'
    BY <1>1 DEF HadIn
<1>6. \A n \in Names : HadIn(selection', device', n) => selection' \cap IdsOf(n) # {}
    BY DEF HadIn
<1> QED BY <1>1, <1>3, <1>4, <1>5, <1>6 DEF HistoryPicked, HistorySaved, IdsOf

LEMMA HistorySaveForm == HInv /\ SaveForm => HistoryPicked' /\ HistorySaved'
<1> SUFFICES ASSUME HInv, SaveForm PROVE HistoryPicked' /\ HistorySaved'
    OBVIOUS
<1>1. PICK picks \in SUBSET form :
          LET gone  == selection \ picks
              turns == gone \cup (picks \ selection)
          IN  /\ selection' = picks
              /\ device' = DevicesWithout(gone)
              /\ had' = [n \in Names |->
                            IF turns \cap IdsOf(n) # {} THEN {} ELSE had[n]]
    BY DEF SaveForm
<1> DEFINE gone == selection \ picks
           turns == gone \cup (picks \ selection)
<1>2. UNCHANGED <<savedVars, torn>> /\ TypeOK
    BY DEF SaveForm, HInv, IInv
<1>3. ASSUME NEW n \in Names, had'[n] # {}
      PROVE  /\ had'[n] = had[n]
             /\ selection' \cap IdsOf(n) = selection \cap IdsOf(n)
             /\ \A i \in IdsOf(n) : device'[i] = device[i]
    <2>1. had'[n] = had[n] /\ turns \cap IdsOf(n) = {}
        BY <1>1, <1>3
    <2>2. selection' \cap IdsOf(n) = selection \cap IdsOf(n)
        BY <1>1, <2>1
    <2>3. \A i \in IdsOf(n) : device'[i] = device[i]
        BY <1>1, <1>2, <2>1, HadAreIds DEF DevicesWithout
    <2> QED BY <2>1, <2>2, <2>3
<1> QED BY <1>2, <1>3, SameHistory DEF HInv, HistoryPicked, HistorySaved, IdsOf

LEMMA HistoryElse ==
    ASSUME HInv, UNCHANGED <<entryVars, savedVars, had, torn>>
    PROVE  HistoryPicked' /\ HistorySaved'
BY DEF HInv, HistoryPicked, HistorySaved, HadIn, IdsOf, entryVars, savedVars

LEMMA HistoryStep == HInv /\ [Next]_vars => HInv'
<1> SUFFICES ASSUME HInv, [Next]_vars PROVE HInv'
    OBVIOUS
<1>1. IInv'
    BY InvStep DEF HInv
<1>2. CASE \/ \E i \in PerNode : RowTurns(i)
           \/ \E n \in Names : SharingTurns(n)
           \/ GoDown \/ OpenForm \/ CloseForm \/ UNCHANGED vars
    <2>1. UNCHANGED <<entryVars, savedVars, had, torn>>
        BY <1>2 DEF RowTurns, SharingTurns, GoDown, OpenForm, CloseForm, vars
    <2> QED BY <1>1, <2>1, HistoryElse DEF HInv
<1> QED BY <1>1, <1>2, HistoryMerge, HistoryMergeBreaks, HistoryLoaded, HistoryCrash,
           HistorySaveForm DEF Next, HInv

LEMMA HistoryInit == Init => HInv
<1>1. Init => HistoryPicked /\ HistorySaved
    BY DEF Init, HistoryPicked, HistorySaved
<1> QED BY <1>1, InvInit DEF HInv

\* HistoryIsKept of Selection, for any nodes and storages: no merge, broken
\* setup or stop parts what is picked of a name from all of its history.
THEOREM HistoriesStay == Spec => HistoryIsKept
<1>1. ASSUME HInv, Loaded, "registry" \notin torn,
             NEW n \in Names, had[n] # {}, n \in merged \/ torn = {}
      PROVE  had[n] \cap {device'[i] : i \in selection' \cap IdsOf(n)} # {}
    <2>1. TypeOK /\ phase = "setup" /\ selection' = selection
        BY <1>1 DEF Loaded, HInv, IInv
    <2>2. \A i \in Ids : device[i] # NoDevice => device'[i] = device[i]
        BY <1>1 DEF Loaded
    <2>3. PICK i \in selection \cap IdsOf(n) : device[i] \in had[n]
        <3>1. CASE HadIn(selection, device, n)
            BY <3>1 DEF HadIn
        <3>2. CASE ~HadIn(selection, device, n)
            <4>1. /\ n \in merged /\ device[<<Everywhere, n>>] \in had[n]
                  /\ selection \cap IdsOf(n) # {}
                BY <1>1, <3>2 DEF HInv, HistoryPicked
            <4>2. Picked(n) = {}
                BY <1>1, <2>1, <4>1 DEF HInv, IInv, MergedPicked
            <4>3. <<Everywhere, n>> \in selection \cap IdsOf(n)
                BY <4>1, <4>2 DEF Picked, IdsOf
            <4> QED BY <4>1, <4>3
        <3> QED BY <3>1, <3>2
    <2>4. device'[i] = device[i]
        BY <2>1, <2>2, <2>3, HadAreIds
    <2> QED BY <2>1, <2>3, <2>4
<1>2. [Next]_vars /\ phase = "setup" /\ phase' = "loaded" => Loaded
    BY DEF Next, RowTurns, SharingTurns, Merge, MergeBreaks, GoDown, Crash, OpenForm,
       CloseForm, SaveForm, Leaves, vars, setupVars
<1>3. HInv /\ [Next]_vars =>
        [phase = "setup" /\ phase' = "loaded" /\ "registry" \notin torn =>
             \A n \in Names :
                 had[n] # {} /\ (n \in merged \/ torn = {}) =>
                     had[n] \cap {device'[i] : i \in selection' \cap IdsOf(n)} # {}]_vars
    BY <1>1, <1>2
<1> QED BY <1>3, HistoryInit, HistoryStep, PTL DEF Spec, HistoryIsKept

-----------------------------------------------------------------------------
(* One form for each storage.                                              *)

\* A storage is listed in one form, in the shared one exactly if setup would
\* merge it: the form and the merge agree on what an id stands for.
THEOREM ListedInOneForm ==
    ASSUME rows \subseteq PerNode, NEW n \in Names
    PROVE  Listed \cap IdsOf(n) =
               IF n \in SharedNames THEN {<<Everywhere, n>>} ELSE rows \cap IdsOf(n)
<1>1. ASSUME n \in SharedNames
      PROVE  Listed \cap IdsOf(n) = {<<Everywhere, n>>}
    BY <1>1, NamingAssumption DEF Listed, IdsOf, SharedNames, PerNode
<1>2. ASSUME n \notin SharedNames
      PROVE  Listed \cap IdsOf(n) = rows \cap IdsOf(n)
    BY <1>2, NamingAssumption DEF Listed, IdsOf, SharedNames, PerNode
<1> QED BY <1>1, <1>2

-----------------------------------------------------------------------------
(* What setups may do to the picks and to the devices.                     *)

\* Whether a name is picked is the user's doing: no setup, merge or change of
\* the cluster picks a storage or drops one.  A merge may bring what is picked
\* of a name to its shared form, and nothing else of it changes.
PicksAreTheUsers ==
    \/ SaveForm \/ Crash
    \/ \A n \in Names :
           /\ selection' \cap IdsOf(n) \in {selection \cap IdsOf(n), {<<Everywhere, n>>}}
           /\ selection' \cap IdsOf(n) = {} <=> selection \cap IdsOf(n) = {}

\* The device of i is in the merge of a shared storage, which gives it to the
\* shared id; one that goes through leaves the others without.
MergesFrom(i) ==
    /\ phase = "down"
    /\ i \in Picked(i[2])
    /\ i[2] \in SharedNames
    /\ device'[<<Everywhere, i[2]>>] = device[i] \/ Merge

\* A device that is there stays under its id, but for a stop, for what the user
\* deselects and for the merge of what is picked per node: a merge that breaks
\* loses none of them.
DevicesOnlyMerge ==
    \A i \in Present :
        \/ device'[i] = device[i]
        \/ SaveForm /\ i \in selection \ selection'
        \/ Crash
        \/ MergesFrom(i)

\* The picks of a name after a merge.
LEMMA MergedPicks ==
    ASSUME TypeOK, NEW n \in Names
    PROVE  MergedSelection(SharedNames) \cap IdsOf(n) =
               IF n \in Merging(SharedNames) THEN {<<Everywhere, n>>}
               ELSE selection \cap IdsOf(n)
<1> DEFINE M == Merging(SharedNames)
<1>1. MergedSelection(SharedNames) = (selection \ (Nodes \X M)) \cup {Everywhere} \X M
    BY DEF MergedSelection
<1>2. selection \cap IdsOf(n) \subseteq (Nodes \X {n}) \cup {<<Everywhere, n>>}
    BY DEF IdsOf
<1>3. CASE n \in M
    BY <1>1, <1>2, <1>3, NamingAssumption DEF IdsOf
<1>4. CASE n \notin M
    BY <1>1, <1>4 DEF IdsOf
<1> QED BY <1>3, <1>4

\* No setup adds a storage to what the user picked, or takes one from it.
THEOREM PicksStayTheUsers == Spec => [][PicksAreTheUsers]_vars
<1>1. ASSUME TypeOK, Merge, NEW n \in Names
      PROVE  /\ selection' \cap IdsOf(n) \in {selection \cap IdsOf(n), {<<Everywhere, n>>}}
             /\ selection' \cap IdsOf(n) = {} <=> selection \cap IdsOf(n) = {}
    <2>1. selection' = MergedSelection(SharedNames)
        BY <1>1 DEF Merge
    <2>2. n \in Merging(SharedNames) => selection \cap IdsOf(n) # {}
        BY DEF Merging, Picked, IdsOf
    <2> QED BY <1>1, <2>1, <2>2, MergedPicks
<1>2. ASSUME [Next]_vars, ~Merge, ~SaveForm, ~Crash
      PROVE  selection' = selection
    BY <1>2 DEF Next, vars, entryVars, RowTurns, SharingTurns, MergeBreaks, Loaded,
        GoDown, OpenForm, CloseForm
<1>3. TypeOK /\ [Next]_vars => [PicksAreTheUsers]_vars
    BY <1>1, <1>2 DEF PicksAreTheUsers
<1> QED BY <1>3, TypeCorrect, PTL DEF Spec

\* What a rename does to a device: it goes under the shared id of its name,
\* where no other was, or stays.
LEMMA RenamedOrStays ==
    ASSUME TypeOK, NEW local, NEW k \in Keepers(SharedNames, local),
           NEW done \in SUBSET Merging(SharedNames),
           \A n \in done : ~Collides(n, k),
           NEW i \in Present
    PROVE  \/ RenamedDevices(done, k)[i] = device[i]
           \/ /\ i \in Picked(i[2])
              /\ i[2] \in SharedNames
              /\ RenamedDevices(done, k)[<<Everywhere, i[2]>>] = device[i]
<1> DEFINE D == RenamedDevices(done, k)
<1>1. \A j \in Ids :
          D[j] = IF \E n \in done : j = <<k[n], n>> THEN NoDevice
                 ELSE IF \E n \in done : j = <<Everywhere, n>> /\ device[<<k[n], n>>] # NoDevice
                      THEN device[<<k[j[2]], j[2]>>]
                 ELSE device[j]
    BY DEF RenamedDevices
<1>2. \A n \in done : /\ n \in Names /\ k[n] \in Nodes
                      /\ n \in SharedNames /\ <<k[n], n>> \in Picked(n)
    BY KeepersTyped DEF Keepers, Merging, TypeOK
<1>3. i \in Ids /\ device[i] # NoDevice
    BY DEF Present
<1>4. CASE \E n \in done : i = <<k[n], n>>
    <2>1. PICK n \in done : i = <<k[n], n>>
        BY <1>4
    <2>2. i[2] = n /\ <<Everywhere, n>> \in Ids /\ n \in Names
        BY <1>2, <2>1 DEF Ids, Shared
    <2>3. \A m \in done : <<Everywhere, n>> # <<k[m], m>>
        BY <1>2, NamingAssumption
    <2>4. device[<<k[n], n>>] # NoDevice
        BY <1>3, <2>1
    <2>5. D[<<Everywhere, n>>] = device[<<k[n], n>>]
        BY <1>1, <2>2, <2>3, <2>4
    <2> QED BY <1>2, <2>1, <2>2, <2>5
<1>5. CASE \E n \in done : i = <<Everywhere, n>> /\ device[<<k[n], n>>] # NoDevice
    BY <1>3, <1>5 DEF Collides
<1>6. CASE /\ ~\E n \in done : i = <<k[n], n>>
           /\ ~\E n \in done : i = <<Everywhere, n>> /\ device[<<k[n], n>>] # NoDevice
    BY <1>1, <1>3, <1>6
<1> QED BY <1>4, <1>5, <1>6

\* No setup loses a device but those a merge that goes through replaces, and a
\* merge that breaks loses none.
THEOREM OnlyMergesTakeDevices == Spec => [][DevicesOnlyMerge]_vars
<1>1. ASSUME TypeOK, Merge, NEW i \in Present
      PROVE  device'[i] = device[i] \/ MergesFrom(i)
    <2> DEFINE M == Merging(SharedNames)
    <2>1. PICK local \in Nodes \cup {Everywhere} :
              \E k \in Keepers(SharedNames, local) :
                  /\ \A n \in M : ~Collides(n, k)
                  /\ device' = MergedDevices(M, k)
        BY <1>1 DEF Merge
    <2>2. PICK k \in Keepers(SharedNames, local) :
              /\ \A n \in M : ~Collides(n, k)
              /\ device' = MergedDevices(M, k)
        BY <2>1
    <2>3. CASE \E n \in M : i \in Picked(n)
        <3>1. i[2] \in M /\ i \in Picked(i[2])
            BY <2>3 DEF Picked
        <3> QED BY <1>1, <3>1 DEF MergesFrom, Merge, Merging
    <2>4. CASE ~\E n \in M : i \in Picked(n)
        <3>1. i \in Ids /\ device'[i] = RenamedDevices(M, k)[i]
            BY <2>2, <2>4 DEF MergedDevices, Present
        <3>2. RenamedDevices(M, k)[i] = device[i] \/ (i \in Picked(i[2]) /\ i[2] \in SharedNames)
            BY <1>1, <2>2, RenamedOrStays
        <3>3. i \in Picked(i[2]) /\ i[2] \in SharedNames => i[2] \in M
            BY DEF Merging
        <3> QED BY <2>4, <3>1, <3>2, <3>3
    <2> QED BY <2>3, <2>4
<1>2. ASSUME TypeOK, MergeBreaks, NEW i \in Present
      PROVE  device'[i] = device[i] \/ MergesFrom(i)
    <2>1. PICK local \in Nodes \cup {Everywhere} :
              \E k \in Keepers(SharedNames, local) :
              \E done \in SUBSET Merging(SharedNames) :
                  /\ \A n \in done : ~Collides(n, k)
                  /\ device' = RenamedDevices(done, k)
        BY <1>2 DEF MergeBreaks
    <2>2. PICK k \in Keepers(SharedNames, local) :
              \E done \in SUBSET Merging(SharedNames) :
                  /\ \A n \in done : ~Collides(n, k)
                  /\ device' = RenamedDevices(done, k)
        BY <2>1
    <2>3. PICK done \in SUBSET Merging(SharedNames) :
              /\ \A n \in done : ~Collides(n, k)
              /\ device' = RenamedDevices(done, k)
        BY <2>2
    <2>4. \/ device'[i] = device[i]
          \/ /\ i \in Picked(i[2]) /\ i[2] \in SharedNames
             /\ device'[<<Everywhere, i[2]>>] = device[i]
        BY <1>2, <2>3, RenamedOrStays
    <2>5. phase = "down"
        BY <1>2 DEF MergeBreaks
    <2> QED BY <2>4, <2>5 DEF MergesFrom
<1>3. ASSUME SaveForm, NEW i \in Present
      PROVE  device'[i] = device[i] \/ i \in selection \ selection'
    BY <1>3 DEF SaveForm, DevicesWithout, Present
<1>4. ASSUME TypeOK, Loaded, NEW i \in Present
      PROVE  device'[i] = device[i]
    BY <1>4 DEF Loaded, Present
<1>5. ASSUME [Next]_vars, ~Merge, ~MergeBreaks, ~Loaded, ~SaveForm, ~Crash
      PROVE  device' = device
    BY <1>5 DEF Next, vars, entryVars, RowTurns, SharingTurns, GoDown, OpenForm, CloseForm
<1>6. TypeOK /\ [Next]_vars => [DevicesOnlyMerge]_vars
    BY <1>1, <1>2, <1>3, <1>4, <1>5 DEF DevicesOnlyMerge
<1> QED BY <1>6, TypeCorrect, PTL DEF Spec
=============================================================================
