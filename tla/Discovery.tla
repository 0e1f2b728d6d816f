----------------------------- MODULE Discovery -----------------------------
(***************************************************************************)
(* Automatic discovery: `ProxmoxDiscoveryCoordinator` in coordinator.py,   *)
(* the callables __init__.py hands it, and the registry work of            *)
(* discovery.py.  The entry tracks what the cluster lists; a round reads   *)
(* the list, drops what is gone and adds what is new, in place.            *)
(*                                                                         *)
(* A round suspends at every request it makes: at the list, and for each   *)
(* new resource at a listing of its own and at the first refresh of its    *)
(* coordinator.  The cluster changes, other coordinators poll and the      *)
(* entry may be unloaded at each of these.  A node's many coordinators     *)
(* count as one here.                                                      *)
(***************************************************************************)
EXTENDS FiniteSets

CONSTANTS
    Resources,      \* nodes, guests and storages
    Nodes,          \* the nodes among them
    Nobody          \* no resource

ASSUME NodesAssumption == Nodes \subseteq Resources
ASSUME NobodyAssumption == Nobody \notin Resources

VARIABLES
    listed,         \* what the cluster lists to these credentials
    answering,      \* whether the API answers
    phase,          \* the entry: down, setup or loaded
    tracked,        \* TRACKED in the runtime data
    round,          \* discovery: idle, asking for the list, or adding
    adding,         \* what setup or the round has still to add
    refreshing,     \* the resource whose coordinator makes its first refresh
    built,          \* whose coordinator is in the map
    answered,       \* whose coordinator has data
    entities,       \* whose entities exist, and listen to the coordinator
    devices,        \* whose device is in the registry, which is persistent
    flying,         \* whose coordinator has a poll in flight
    orphans         \* whose dropped coordinator still has

clusterVars == <<listed, answering>>
roundVars == <<round, adding, refreshing>>
builtVars == <<built, answered, entities>>
vars == <<clusterVars, phase, tracked, roundVars, builtVars, devices, flying, orphans>>

TypeOK ==
    /\ listed \subseteq Resources
    /\ answering \in BOOLEAN
    /\ phase \in {"down", "setup", "loaded"}
    /\ tracked \subseteq Resources
    /\ round \in {"idle", "asking", "adding"}
    /\ adding \subseteq Resources
    /\ refreshing \in Resources \cup {Nobody}
    /\ built \subseteq Resources
    /\ answered \subseteq Resources
    /\ entities \subseteq Resources
    /\ devices \subseteq Resources
    /\ flying \subseteq Resources
    /\ orphans \subseteq Resources
    /\ round = "adding" <=> phase = "loaded" /\ adding # {}
    /\ refreshing # Nobody => refreshing \in adding

\* The registry may hold devices of an earlier session.
Init ==
    /\ listed \in SUBSET Resources
    /\ answering \in BOOLEAN
    /\ phase = "down"
    /\ tracked = {}
    /\ round = "idle"
    /\ adding = {}
    /\ refreshing = Nobody
    /\ built = {}
    /\ answered = {}
    /\ entities = {}
    /\ devices \in SUBSET Resources
    /\ flying = {}
    /\ orphans = {}

-----------------------------------------------------------------------------
(* The cluster.                                                            *)

ClusterChanges(r) ==
    /\ listed' = IF r \in listed THEN listed \ {r} ELSE listed \cup {r}
    /\ UNCHANGED <<answering, phase, tracked, roundVars, builtVars, devices, flying, orphans>>

ApiTurns ==
    /\ answering' = ~answering
    /\ UNCHANGED <<listed, phase, tracked, roundVars, builtVars, devices, flying, orphans>>

-----------------------------------------------------------------------------
(* Setup and unload.                                                       *)

\* Setup read the list: it tracks what is on it, and the devices of anything
\* else go (remove_stale_devices).
Setup ==
    /\ phase = "down"
    /\ answering
    /\ phase' = "setup"
    /\ tracked' = listed
    /\ adding' = listed
    /\ devices' = devices \cap listed
    /\ UNCHANGED <<clusterVars, round, refreshing, builtVars, flying, orphans>>

\* The platforms build the entities, and those their devices.
Loaded ==
    /\ phase = "setup"
    /\ adding = {}
    /\ phase' = "loaded"
    /\ entities' = answered
    /\ devices' = devices \cup answered
    /\ UNCHANGED <<clusterVars, tracked, roundVars, built, answered, flying, orphans>>

\* The entry is unloaded, setup gives up or Home Assistant stops: what runs
\* is cancelled, and only the registry remains.
GoDown ==
    /\ phase # "down"
    /\ phase' = "down"
    /\ tracked' = {}
    /\ round' = "idle"
    /\ adding' = {}
    /\ refreshing' = Nobody
    /\ built' = {}
    /\ answered' = {}
    /\ entities' = {}
    /\ flying' = {}
    /\ orphans' = {}
    /\ UNCHANGED <<clusterVars, devices>>

-----------------------------------------------------------------------------
(* A round of discovery.                                                   *)

Ask ==
    /\ phase = "loaded"
    /\ round = "idle"
    /\ round' = "asking"
    /\ UNCHANGED <<clusterVars, phase, tracked, adding, refreshing, builtVars, devices,
                   flying, orphans>>

NoAnswer ==
    /\ round = "asking"
    /\ ~answering
    /\ round' = "idle"
    /\ UNCHANGED <<clusterVars, phase, tracked, adding, refreshing, builtVars, devices,
                   flying, orphans>>

\* Mutant: the devices are left to the next setup.
DevicesLeft(gone) == devices

\* remove_resource_devices
DevicesWithout(gone) == devices \ gone

\* The list came: what is on it is tracked from here on, what is not loses
\* coordinator and device at once, the entities with the device, and what is
\* new waits its turn.
Compare ==
    /\ round = "asking"
    /\ answering
    /\ LET gone == tracked \ listed
           new == listed \ tracked
       IN  /\ tracked' = listed
           /\ built' = built \ gone
           /\ answered' = answered \ gone
           /\ devices' = DevicesWithout(gone)
           /\ entities' = entities \cap devices'
           /\ flying' = flying \ gone
           /\ orphans' = orphans \cup (flying \cap gone)
           /\ adding' = new
           /\ round' = IF new = {} THEN "idle" ELSE "adding"
    /\ UNCHANGED <<clusterVars, phase, refreshing>>

\* Nodes come before the guests and storages whose devices hang off them.
Due(r) ==
    /\ refreshing = Nobody
    /\ r \in adding
    /\ r \in Nodes \/ adding \cap Nodes = {}

\* What a round adds is set up by a listing of its own, setup's guests and
\* storages by the list that named them.
IsListed(r) ==
    \/ r \in listed
    \/ phase = "setup" /\ r \notin Nodes

\* r is there to be set up: its coordinator starts its first refresh.
BeginAdding(r) ==
    /\ Due(r)
    /\ phase = "loaded" => answering
    /\ IsListed(r)
    /\ refreshing' = r
    /\ UNCHANGED <<clusterVars, phase, tracked, round, adding, builtVars, devices,
                   flying, orphans>>

\* Mutant: a first refresh ends the round.
AddedLast(r) ==
    /\ adding' = {}
    /\ round' = "idle"

\* Mutant: the round never ends.
AddedOnly(r) ==
    /\ adding' = adding \ {r}
    /\ round' = round

\* With this addition the round, if it is one, may be through.
Added(r) ==
    /\ adding' = adding \ {r}
    /\ round' = IF adding' = {} THEN "idle" ELSE round

\* The listing failed, or r is not on it any more.
GiveUpAdding(r) ==
    /\ Due(r)
    /\ \/ phase = "loaded" /\ ~answering
       \/ ~IsListed(r)
    /\ Added(r)
    /\ UNCHANGED <<clusterVars, phase, tracked, refreshing, builtVars, devices,
                   flying, orphans>>

\* Mutant: an addition shows without the data it needs.
ShownBare(r, data) == IF phase = "loaded" THEN {r} ELSE {}

\* What the platforms show of r with that data: without data nothing, now or
\* later, and during setup nothing yet.
Shown(r, data) == IF phase = "loaded" THEN data ELSE {}

\* The first refresh ended.
EndAdding(r) ==
    /\ refreshing = r
    /\ r # Nobody
    /\ refreshing' = Nobody
    /\ built' = built \cup {r}
    /\ LET data == IF answering /\ r \in listed THEN {r} ELSE {}
       IN  /\ answered' = answered \cup data
           /\ entities' = entities \cup Shown(r, data)
           /\ devices' = devices \cup Shown(r, data)
    /\ Added(r)
    /\ UNCHANGED <<clusterVars, phase, tracked, flying, orphans>>

-----------------------------------------------------------------------------
(* The polls of the coordinators, which entities keep going.               *)

StartPoll(r) ==
    /\ r \in entities \ flying
    /\ flying' = flying \cup {r}
    /\ UNCHANGED <<clusterVars, phase, tracked, roundVars, builtVars, devices, orphans>>

\* Mutant: a device that is not there is created.
DevicesWith(r) == devices \cup {r}

\* update_guest_device: a device that is not there is left alone.
DevicesAfterPoll(r) == devices

\* A poll ends, of a coordinator in the map or of one dropped meanwhile.
EndPoll(r) ==
    /\ \/ r \in flying /\ flying' = flying \ {r} /\ UNCHANGED orphans
       \/ r \in orphans /\ orphans' = orphans \ {r} /\ UNCHANGED flying
    /\ devices' = DevicesAfterPoll(r)
    /\ UNCHANGED <<clusterVars, phase, tracked, roundVars, builtVars>>

-----------------------------------------------------------------------------
(* The user deletes a device, and its entities with it.                    *)

RemoveDevice(r) ==
    /\ phase = "loaded"
    /\ r \in devices
    /\ devices' = devices \ {r}
    /\ entities' = entities \ {r}
    /\ UNCHANGED <<clusterVars, phase, tracked, roundVars, built, answered, flying, orphans>>

-----------------------------------------------------------------------------
Work == \/ Ask \/ NoAnswer \/ Compare
        \/ \E r \in Resources : BeginAdding(r) \/ GiveUpAdding(r) \/ EndAdding(r)

Next ==
    \/ \E r \in Resources : ClusterChanges(r) \/ StartPoll(r) \/ EndPoll(r)
                             \/ RemoveDevice(r)
    \/ ApiTurns
    \/ Setup
    \/ Loaded
    \/ GoDown
    \/ Work

Spec == Init /\ [][Next]_vars

\* Discovery is polled on its interval, and a request ends or times out.
FairSpec == Spec /\ WF_vars(Work)

-----------------------------------------------------------------------------
(* What discovery is for.                                                  *)

\* A running entry holds nothing for a resource it does not track: no
\* coordinator, no entity, no device - not after a drop in the middle of a
\* poll, and not after setup with the registry of an earlier session.
NothingUntracked ==
    phase # "down" =>
        built \cup entities \cup devices \cup adding \subseteq tracked

\* Every entity of a running entry has the coordinator it listens to, and
\* that has data.
EntitiesAreServed == entities \subseteq built \cap answered

\* A resource that is gone for good is dropped for good, device and all.
GoneIsDropped ==
    \A r \in Resources :
        <>[](phase = "loaded" /\ answering /\ r \notin listed)
        => <>[](r \notin tracked \cup built \cup entities \cup devices)

\* A resource that appears while the API answers, and goes on answering, gets
\* its entities.
NewIsPickedUp ==
    \A r \in Resources :
        [](/\ r \notin tracked
           /\ [](phase = "loaded" /\ answering /\ r \in listed)
           => <>(r \in entities))

(***************************************************************************)
(* "A guest that is created is picked up within a minute"                  *)
(* (docs/behaviour.md), taken at its word: a resource that appears and     *)
(* stays gets its entities once the API answers, whatever failed before.   *)
(***************************************************************************)
ListedIsPickedUp ==
    \A r \in Resources :
        [](/\ r \notin tracked
           /\ [](phase = "loaded" /\ r \in listed)
           /\ <>[]answering
           => <>(r \in entities))
=============================================================================
