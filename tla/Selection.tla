----------------------------- MODULE Selection -----------------------------
(***************************************************************************)
(* What the user picked, and the devices that go with it: the selection    *)
(* form of the options flow (config_flow.py), the ids of storages          *)
(* (storage.py) and the merge of shared ones at setup (__init__.py), with  *)
(* automatic discovery off.                                                *)
(*                                                                         *)
(* A storage is picked per node, <<node, name>>, or once for the cluster,  *)
(* <<Everywhere, name>>, as the cluster has it shared or not.  The merge   *)
(* brings a selection to the shared form and moves a device and its        *)
(* history along.  The cluster changes its mind, a form is submitted long  *)
(* after it was filled, and Home Assistant may stop before it has written  *)
(* its registries and its entries, which are files of their own.           *)
(***************************************************************************)

CONSTANTS
    Nodes,
    Names,          \* names of storages
    Everywhere,     \* the place of a shared storage, and no node
    NoDevice

PerNode == Nodes \X Names
Shared == {Everywhere} \X Names
Ids == PerNode \cup Shared

ASSUME NamingAssumption ==
    /\ Everywhere \notin Nodes
    /\ NoDevice \notin Ids

VARIABLES
    rows,           \* the storages the cluster lists, per node
    shared,         \* the names it marks as shared
    selection,      \* CONF_STORAGE of the entry
    device,         \* by identifier: the id its device was created under
    savedSelection, \* the same two as they are on disk
    savedDevice,
    phase,          \* the entry: down, setup, loaded, or failed for good
    seen,           \* the ids setup was told of
    merged,         \* the names setup was told are shared
    form,           \* the ids an open form offers
    had,            \* history: under which ids the devices of a name were
                    \* created, while all that is picked of it has one
    torn            \* history: what a stop or a broken merge left behind, the
                    \* registry or the entry

clusterVars == <<rows, shared>>
entryVars == <<selection, device>>
savedVars == <<savedSelection, savedDevice>>
setupVars == <<phase, seen, merged>>
vars == <<clusterVars, entryVars, savedVars, setupVars, form, had, torn>>

TypeOK ==
    /\ rows \subseteq PerNode
    /\ shared \subseteq Names
    /\ selection \subseteq Ids
    /\ device \in [Ids -> Ids \cup {NoDevice}]
    /\ savedSelection \subseteq Ids
    /\ savedDevice \in [Ids -> Ids \cup {NoDevice}]
    /\ phase \in {"down", "setup", "loaded", "error"}
    /\ seen \subseteq Ids
    /\ merged \subseteq Names
    /\ form \subseteq Ids
    /\ had \in [Names -> SUBSET Ids]
    /\ torn \subseteq {"registry", "entry"}

\* An entry that was just created: nothing picked, then the user picks.
Init ==
    /\ rows \in SUBSET PerNode
    /\ shared \in SUBSET Names
    /\ selection = {}
    /\ device = [i \in Ids |-> NoDevice]
    /\ savedSelection = selection
    /\ savedDevice = device
    /\ phase = "down"
    /\ seen = {}
    /\ merged = {}
    /\ form = {}
    /\ had = [n \in Names |-> {}]
    /\ torn = {}

-----------------------------------------------------------------------------
(* The cluster.                                                            *)

RowTurns(i) ==
    /\ rows' = IF i \in rows THEN rows \ {i} ELSE rows \cup {i}
    /\ UNCHANGED <<shared, entryVars, savedVars, setupVars, form, had, torn>>

SharingTurns(n) ==
    /\ shared' = IF n \in shared THEN shared \ {n} ELSE shared \cup {n}
    /\ UNCHANGED <<rows, entryVars, savedVars, setupVars, form, had, torn>>

\* shared_storage_names: a name no row carries is not on the list.
SharedNames == {n \in shared : \E w \in Nodes : <<w, n>> \in rows}

IdsOf(n) == (Nodes \cup {Everywhere}) \X {n}

\* tracked_storage_ids
Listed ==
    (rows \ (Nodes \X shared)) \cup ({Everywhere} \X SharedNames)

-----------------------------------------------------------------------------
(* The merge of shared storages.                                           *)

\* The per-node ids of n that are picked.
Picked(n) == selection \cap (Nodes \X {n})

Merging(names) == {n \in names : Picked(n) # {}}

\* Mutant: the names, without the prefix that makes them ids.
NamesOnly(names) == (selection \ (Nodes \X Merging(names))) \cup Merging(names)

\* merge_shared_selection
MergedSelection(names) ==
    (selection \ (Nodes \X Merging(names))) \cup {Everywhere} \X Merging(names)

\* The one on the node of the configured host keeps its device, otherwise the
\* first picked: any, as sets have no first.
Keepers(names, local) ==
    {k \in [Merging(names) -> Nodes] :
        \A n \in Merging(names) :
            /\ <<k[n], n>> \in Picked(n)
            /\ <<local, n>> \in Picked(n) => k[n] = local}

\* Another device has the identifier the keeper's device is to get.
Collides(n, k) ==
    device[<<k[n], n>>] # NoDevice /\ device[<<Everywhere, n>>] # NoDevice

\* Mutant: whoever merges loses its device, the keeper too.
WithoutKeepers(names, k) ==
    [i \in Ids |-> IF \E n \in names : i \in Picked(n) THEN NoDevice ELSE device[i]]

\* The keepers' devices under the shared ids.
RenamedDevices(names, k) ==
    [i \in Ids |->
        IF \E n \in names : i = <<k[n], n>> THEN NoDevice
        ELSE IF \E n \in names : i = <<Everywhere, n>> /\ device[<<k[n], n>>] # NoDevice
             THEN device[<<k[i[2]], i[2]>>]
        ELSE device[i]]

\* And the others' gone.
MergedDevices(names, k) ==
    [i \in Ids |-> IF \E n \in names : i \in Picked(n) THEN NoDevice
                   ELSE RenamedDevices(names, k)[i]]

-----------------------------------------------------------------------------
(* Setup.                                                                  *)

\* The list came, and the selection is brought up to it.
Merge ==
    /\ phase = "down"
    /\ \E local \in Nodes \cup {Everywhere} :
       \E k \in Keepers(SharedNames, local) :
          /\ \A n \in Merging(SharedNames) : ~Collides(n, k)
          /\ selection' = MergedSelection(SharedNames)
          /\ device' = MergedDevices(Merging(SharedNames), k)
    /\ phase' = "setup"
    /\ seen' = Listed
    /\ merged' = SharedNames
    /\ UNCHANGED <<clusterVars, savedVars, form, had, torn>>

\* A device under the shared id is in the way: the exception ends setup, what
\* was renamed before it stays renamed, and Home Assistant does not try again.
MergeBreaks ==
    /\ phase = "down"
    /\ \E local \in Nodes \cup {Everywhere} :
       \E k \in Keepers(SharedNames, local) :
       \E done \in SUBSET Merging(SharedNames) :
          /\ \E n \in Merging(SharedNames) : Collides(n, k)
          /\ \A n \in done : ~Collides(n, k)
          /\ device' = RenamedDevices(done, k)
          /\ torn' = IF done = {} THEN torn ELSE torn \cup {"entry"}
    /\ phase' = "error"
    /\ UNCHANGED <<clusterVars, selection, savedVars, seen, merged, form, had>>

\* The platforms create the devices of what was listed and has data.  Bound:
\* by now all that changed before is on disk; a stop soon after leaves no more
\* apart than one before did.
Loaded ==
    /\ phase = "setup"
    /\ \E data \in SUBSET (selection \cap seen) :
          device' = [i \in Ids |-> IF i \in data /\ device[i] = NoDevice
                                   THEN i ELSE device[i]]
    /\ phase' = "loaded"
    /\ savedSelection' = selection
    /\ savedDevice' = device'
    /\ had' = [n \in Names |->
                  LET found == {device'[i] : i \in selection \cap IdsOf(n)}
                  IN  IF NoDevice \in found THEN {} ELSE found]
    /\ seen' = {}
    /\ UNCHANGED <<clusterVars, selection, merged, form, torn>>

\* What a setup read goes with it.
Leaves == phase' = "down" /\ seen' = {} /\ merged' = {}

\* A setup that is to be tried again, an unload, or an orderly stop.
GoDown ==
    /\ phase # "down"
    /\ Leaves
    /\ UNCHANGED <<clusterVars, entryVars, savedVars, form, had, torn>>

\* Home Assistant is killed: the entry and the registries are as they were
\* last written, each for itself.  Bound: one stop of a history leaves them
\* apart.
Crash ==
    /\ torn = {}
    /\ selection' \in {selection, savedSelection}
    /\ device' \in {device, savedDevice}
    /\ torn' = torn
          \cup (IF selection' = savedSelection /\ device' # savedDevice
                THEN {"entry"} ELSE {})
          \cup (IF selection' # savedSelection /\ device' = savedDevice
                THEN {"registry"} ELSE {})
    /\ savedSelection' = selection'
    /\ savedDevice' = device'
    /\ Leaves
    /\ form' = {}
    /\ UNCHANGED <<clusterVars, had>>

-----------------------------------------------------------------------------
(* The form.                                                               *)

\* It offers what is picked and what the cluster lists.
OpenForm ==
    /\ form = {}
    /\ form' = selection \cup Listed
    /\ UNCHANGED <<clusterVars, entryVars, savedVars, setupVars, had, torn>>

CloseForm ==
    /\ form # {}
    /\ form' = {}
    /\ UNCHANGED <<clusterVars, entryVars, savedVars, setupVars, had, torn>>

\* Mutant: what is deselected keeps its device.
DevicesAsTheyAre(gone) == device

\* async_remove_device
DevicesWithout(gone) == [i \in Ids |-> IF i \in gone THEN NoDevice ELSE device[i]]

\* async_process_selection_changes, the write and the reload.
SaveForm ==
    /\ form # {}
    /\ \E picks \in SUBSET form :
          LET gone  == selection \ picks
              turns == gone \cup (picks \ selection)
          IN  /\ selection' = picks
              /\ device' = DevicesWithout(gone)
              /\ had' = [n \in Names |->
                            IF turns \cap IdsOf(n) # {} THEN {} ELSE had[n]]
    /\ Leaves
    /\ form' = {}
    /\ UNCHANGED <<clusterVars, savedVars, torn>>

-----------------------------------------------------------------------------
Next ==
    \/ \E i \in PerNode : RowTurns(i)
    \/ \E n \in Names : SharingTurns(n)
    \/ Merge \/ MergeBreaks \/ Loaded \/ GoDown \/ Crash
    \/ OpenForm \/ CloseForm \/ SaveForm

Spec == Init /\ [][Next]_vars

-----------------------------------------------------------------------------
(* What the selection and the merge are for.                               *)

Present == {i \in Ids : device[i] # NoDevice}

\* Every device of a loaded entry belongs to something that is picked: what is
\* deselected or merged away took its device with it.  What a stop
\* or a broken merge left behind the other is not made good.
NoOrphans == phase = "loaded" /\ torn = {} => Present \subseteq selection

\* A storage that setup was told is shared is one device, whatever was picked
\* and in which form, and whenever.
OneDevicePerStorage ==
    phase = "loaded" /\ "registry" \notin torn =>
        \A n \in merged : Present \cap IdsOf(n) \subseteq {<<Everywhere, n>>}

\* Only the user takes a storage's history: through merges, broken setups and
\* stops it stays with what is picked of that name, unless the entry was
\* written in its new form and the registries were not.
HistoryIsKept ==
    [][phase = "setup" /\ phase' = "loaded" /\ "registry" \notin torn =>
         \A n \in Names :
             had[n] # {} /\ (n \in merged \/ torn = {}) =>
                 had[n] \cap {device'[i] : i \in selection' \cap IdsOf(n)} # {}]_vars
=============================================================================
