------------------------------- MODULE Disks -------------------------------
(***************************************************************************)
(* The physical disks of a node and what Home Assistant remembers of them: *)
(* the id of a disk (disk.py), the devices that versions 5 and 6 of an     *)
(* entry move to it (__init__.py), and the entities that every setup moves *)
(* there (sensor.py, binary_sensor.py; one entity stands for all of a      *)
(* disk, and hangs off the device of its id).                              *)
(*                                                                         *)
(* Disks are plugged in and out and take other paths; two may share a WWN. *)
(* The entry and the two registries are files of their own, each written   *)
(* some time after it changes.                                             *)
(***************************************************************************)
EXTENDS Naturals, Sequences, FiniteSets

CONSTANTS
    Drives,
    Wwn, Serial, Link,  \* what each says of itself, or None (a WWN "unknown" is none)
    Paths,
    None,
    MaxUpsets   \* bound: how often a drive is plugged in, out or renamed, or
                \* Home Assistant killed

Own(d) == {Wwn[d], Serial[d], Link[d]} \ {None}
Ids == (UNION {Own(d) : d \in Drives}) \cup Paths

ASSUME BoundAssumption == MaxUpsets \in Nat

\* A WWN may be shared, nothing else is.  A drive need not tell anything.
ASSUME NamingAssumption ==
    /\ None \notin Drives \cup Paths
    /\ \A d \in Drives : Own(d) \cap Paths = {}
    /\ \A d \in Drives : {Serial[d], Link[d]} \cap {Wwn[e] : e \in Drives} \subseteq {None}
    /\ \A d, e \in Drives : d # e =>
          {Serial[d], Link[d]} \cap {Serial[e], Link[e]} \subseteq {None}

\* Of the entry and a path, the oldest form, or of the node and an id.
UniqueIds == ({"entry"} \X Paths) \cup ({"node"} \X Ids)

VARIABLES
    at,         \* the path of a drive, None when it is not plugged in
    version,    \* of the entry
    device,     \* by identifier: the drive the device is of
    entity,     \* by unique id: the drive whose history it has
    saved,      \* the files as they were when all were last written
    phase,      \* of the setup; broken when the platform's failed
    data,       \* by id: what the coordinators of this setup have listed
    waiting,    \* the ids with a step of the setup before them
    known,      \* history: the id each drive had when it was last plugged in,
    astray,     \* whether one changed, or a drive had another's id or path,
    unmoved,    \* and those a migration passed by, or a stop moved back,
    upsets      \* counted for the bound

files == <<version, device, entity>>
setup == <<phase, data, waiting>>
history == <<known, astray, unmoved>>
vars == <<at, files, saved, setup, history, upsets>>

Plugged == {d \in Drives : at[d] # None}

Owners(Keys) == [Keys -> Drives \cup {None}]

\* What the coordinators know is well formed.
DataOK ==
    /\ DOMAIN data \subseteq Ids
    /\ \A i \in DOMAIN data : data[i].disk \in Drives /\ data[i].path \in Paths

\* The files, the registries and the setup are well formed.
TypeOK ==
    /\ at \in [Drives -> Paths \cup {None}]
    /\ version \in 5..7
    /\ device \in Owners(Ids)
    /\ entity \in Owners(UniqueIds)
    /\ saved \in (5..7) \X Owners(Ids) \X Owners(UniqueIds)
    /\ phase \in {"down", "refreshing", "moving", "loaded", "broken"}
    /\ DataOK
    /\ waiting \subseteq Ids
    /\ phase \in {"down", "loaded"} => waiting = {}
    /\ known \in [Drives -> Ids \cup {None}]
    /\ astray \in BOOLEAN
    /\ unmoved \subseteq Drives
    /\ upsets \in 0..MaxUpsets

-----------------------------------------------------------------------------
(* The ids.                                                                *)

\* Mutant: no two disks have the same WWN.
NoneCollide(listed) == {}

\* colliding_disk_wwns
Colliding(listed) ==
    {Wwn[d] : d \in {x \in listed : \E y \in listed \ {x} : Wwn[y] = Wwn[x]}}

\* resolve_disk_id
IdOf(d, listed) ==
    IF Wwn[d] \notin Colliding(listed) \cup {None} THEN Wwn[d]
    ELSE IF Serial[d] # None THEN Serial[d]
    ELSE IF Link[d] # None THEN Link[d]
    ELSE at[d]

\* disk_matches_id
Matches(d, i) == i \in Own(d) \cup {at[d]}

\* What versions 5 and 6 had a disk's device under.
OldId(v, d) ==
    IF v = 5 THEN at[d] ELSE IF Link[d] # None THEN Link[d] ELSE Serial[d]

-----------------------------------------------------------------------------
(* The node.                                                               *)

\* Whether a drive is at a path another is remembered by, or one remembered
\* by its path is at another.
Astray(where, devices, entities) ==
    \E d \in {e \in Drives : where[e] # None}, p \in Paths :
        \E x \in {devices[p], entities[<<"entry", p>>], entities[<<"node", p>>]} \ {None} :
            (x = d) # (where[d] = p)

\* An entry of version 7 starts with nothing, an older one with the drives of
\* its last setup.  A setup that had made the devices of today's ids before
\* the version went on left those of the older ids beside them, empty.
Init ==
    /\ at \in {f \in [Drives -> Paths \cup {None}] :
                  \A d, e \in Drives : f[d] = f[e] /\ d # e => f[d] = None}
    /\ version \in 5..7
    /\ \E form \in [Plugged -> {"entry", "node", "today"}] :
          LET before == IF version = 7 THEN {} ELSE Plugged
              name(d) == IdOf(d, Plugged)
              under(d) == IF form[d] = "today" THEN <<"node", name(d)>> ELSE <<form[d], at[d]>>
          IN  /\ device = [i \in Ids |->
                    IF \E d \in before : i = OldId(version, d) \/ (form[d] = "today" /\ i = name(d))
                    THEN CHOOSE d \in before :
                             i = OldId(version, d) \/ (form[d] = "today" /\ i = name(d))
                    ELSE None]
              /\ entity = [u \in UniqueIds |->
                    IF \E d \in before : u = under(d)
                    THEN CHOOSE d \in before : u = under(d) ELSE None]
    /\ saved = files
    /\ phase = "down"
    /\ data = [i \in {} |-> None]
    /\ waiting = {}
    /\ known = [d \in Drives |-> IF d \in Plugged THEN IdOf(d, Plugged) ELSE None]
    /\ astray = FALSE
    /\ unmoved = {}
    /\ upsets = 0

\* A drive is plugged in, out, or takes another path; while the entities
\* move, nothing looks.
Changes(d) ==
    /\ upsets < MaxUpsets
    /\ phase # "moving"
    /\ \E p \in {None} \cup {q \in Paths : \A e \in Drives : at[e] # q} :
          at[d] # p /\ at' = [at EXCEPT ![d] = p]
    /\ known' = [e \in Drives |-> IF at'[e] # None THEN IdOf(e, Plugged)' ELSE known[e]]
    /\ astray' = (\/ astray
                  \/ \E e \in Drives : known[e] \notin {None, known'[e]}
                  \/ \E e \in Drives \ {d} : known'[e] \in {known'[d], at'[d]} \ {None}
                  \/ Astray(at', device, entity)
                  \/ Astray(at', saved[2], saved[3]))
    /\ upsets' = upsets + 1
    /\ UNCHANGED <<files, saved, setup, unmoved>>

-----------------------------------------------------------------------------
(* Migration.                                                              *)

\* The listed drives whose device is found under their old id.
Moving(v) ==
    {d \in Plugged : /\ OldId(v, d) \notin {None, IdOf(d, Plugged)}
                     /\ device[OldId(v, d)] # None}

\* Those of them that have a device under today's id.
Leftover(v) == {d \in Moving(v) : device[IdOf(d, Plugged)] # None}

\* Mutant: nothing is looked for under the new id, the old device stays.
MovedBeside(v) ==
    [i \in Ids |->
        IF device[i] = None /\ \E d \in Moving(v) : IdOf(d, Plugged) = i
        THEN device[OldId(v, CHOOSE d \in Moving(v) : IdOf(d, Plugged) = i)]
        ELSE IF \E d \in Moving(v) \ Leftover(v) : OldId(v, d) = i THEN None
        ELSE device[i]]

\* _async_rename_disk_devices: the device moves, or goes when it is a leftover.
Moved(v) ==
    [i \in Ids |->
        IF device[i] = None /\ \E d \in Moving(v) : IdOf(d, Plugged) = i
        THEN device[OldId(v, CHOOSE d \in Moving(v) : IdOf(d, Plugged) = i)]
        ELSE IF \E d \in Moving(v) : OldId(v, d) = i THEN None
        ELSE device[i]]

\* An entity hangs off the device of its id, or off that which took the place
\* of the device of its path.
HangsOff(u, i) ==
    \/ u[2] = i
    \/ u[2] \in Paths /\ device[u[2]] = None /\ entity[u] = device[i]

\* A leftover takes the entities along that hang off it.
EntitiesLeft(v) ==
    [u \in UniqueIds |->
        IF \E d \in Leftover(v) : HangsOff(u, OldId(v, d)) THEN None ELSE entity[u]]

\* A step of async_migrate_entry.  It is not made again when the disks could
\* not be listed.
Migrate(answered) ==
    /\ phase = "down"
    /\ version < 7
    /\ version' = version + 1
    /\ device' = IF answered THEN Moved(version) ELSE device
    /\ entity' = IF answered THEN EntitiesLeft(version) ELSE entity
    /\ unmoved' = (IF version = 5 THEN {} ELSE unmoved)
                      \cup (IF answered THEN Drives \ Plugged ELSE Drives)
    /\ UNCHANGED <<at, saved, setup, known, astray, upsets>>

-----------------------------------------------------------------------------
(* Setup.                                                                  *)

\* A coordinator for each disk, or none: the disks are not listed when they
\* are not monitored, when the node is off, or when the read fails.
Build(answered) ==
    /\ phase = "down"
    /\ version = 7
    /\ waiting' = IF answered THEN {IdOf(d, Plugged) : d \in Plugged} ELSE {}
    /\ phase' = "refreshing"
    /\ UNCHANGED <<at, files, saved, data, history, upsets>>

\* What a coordinator has after its first read: the first disk that has its
\* id, or nothing that an entity is made of (the disk is not there, the list
\* fails, or it is refused).
Lists(i) ==
    \/ \E d \in Plugged :
          /\ Matches(d, i)
          /\ data' = [j \in DOMAIN data \cup {i} |->
                        IF j = i THEN [disk |-> d, path |-> at[d]] ELSE data[j]]
    \/ UNCHANGED data

Refresh(i) ==
    /\ phase = "refreshing"
    /\ i \in waiting
    /\ Lists(i)
    /\ waiting' = waiting \ {i}
    /\ UNCHANGED <<at, files, saved, phase, history, upsets>>

\* The platforms' turn, for the coordinators that have data.
AttachPlatforms ==
    /\ phase = "refreshing"
    /\ waiting = {}
    /\ phase' = "moving"
    /\ waiting' = DOMAIN data
    /\ UNCHANGED <<at, files, saved, data, history, upsets>>

\* Mutant: the unique id of the node and the path is forgotten.
FormerIdsOfEntry(i) == <<<<"entry", data[i].path>>>>

\* Mutant: a WWN is taken for a former id even when it is the id.
FormerIdsAndToday(i) ==
    <<<<"entry", data[i].path>>, <<"node", data[i].path>>>>
    \o (IF Wwn[data[i].disk] = None THEN <<>> ELSE <<<<"node", Wwn[data[i].disk]>>>>)

\* The unique ids the entity of a disk may have had, in the order in which
\* they are looked for.
FormerIds(i) ==
    <<<<"entry", data[i].path>>, <<"node", data[i].path>>>>
    \o (IF Wwn[data[i].disk] \in {None, i} THEN <<>> ELSE <<<<"node", Wwn[data[i].disk]>>>>)

\* Those that are in the registry, by their places, and the first of them.
Found(i) == {k \in DOMAIN FormerIds(i) : entity[FormerIds(i)[k]] # None}

FirstFound(i) == FormerIds(i)[CHOOSE k \in Found(i) : \A j \in Found(i) : k <= j]

\* async_migrate_old_unique_ids: the first that is found moves to today's id.
Renamed(i) ==
    IF Found(i) # {} /\ entity[<<"node", i>>] = None
    THEN [entity EXCEPT ![<<"node", i>>] = entity[FirstFound(i)], ![FirstFound(i)] = None]
    ELSE entity

\* The registry refuses an id that is taken, if only by the entity itself, and
\* the platform with it: of a disk that is known by its path, today's id is
\* among the former ones.
Taken(i) ==
    \/ Found(i) # {} /\ entity[<<"node", i>>] # None
    \/ Cardinality(Found(i)) > 1
    \/ Found(i) # {} /\ data[i].path = i

MoveEntity(i) ==
    /\ phase = "moving"
    /\ i \in waiting
    /\ entity' = Renamed(i)
    /\ phase' = IF Taken(i) THEN "broken" ELSE "moving"
    /\ waiting' = waiting \ {i}
    /\ UNCHANGED <<at, version, device, saved, data, history, upsets>>

\* Mutant: the entities appear as soon as the platform is there.
ReadyAtOnce == TRUE

Ready == waiting = {}

\* The entities are added, with the devices they hang off.
Appear ==
    /\ phase = "moving"
    /\ Ready
    /\ phase' = "loaded"
    /\ device' = [i \in Ids |->
                     IF i \in DOMAIN data /\ device[i] = None THEN data[i].disk ELSE device[i]]
    /\ entity' = [u \in UniqueIds |->
                     IF u[1] = "node" /\ u[2] \in DOMAIN data /\ entity[u] = None
                     THEN data[u[2]].disk ELSE entity[u]]
    /\ UNCHANGED <<at, version, saved, data, waiting, history, upsets>>

-----------------------------------------------------------------------------
(* Stops.                                                                  *)

Stopped == /\ phase' = "down"
           /\ data' = [i \in {} |-> None]
           /\ waiting' = {}

\* An unload, or a restart, which writes every file.
Unload ==
    /\ phase \in {"loaded", "broken"}
    /\ Stopped
    /\ saved' \in {saved, files}
    /\ UNCHANGED <<at, files, history, upsets>>

\* Home Assistant is killed, and starts from the files, of which each may have
\* been written since or not.
Crash ==
    /\ upsets < MaxUpsets
    /\ upsets' = upsets + 1
    /\ Stopped
    /\ version' \in {version, saved[1]}
    /\ device' \in {device, saved[2]}
    /\ entity' \in {entity, saved[3]}
    /\ saved' = files'
    /\ unmoved' = IF version' > saved[1] /\ device' # device THEN Drives ELSE unmoved
    /\ UNCHANGED <<at, known, astray>>

Next ==
    \/ \E d \in Drives : Changes(d)
    \/ \E answered \in BOOLEAN : Migrate(answered) \/ Build(answered)
    \/ \E i \in Ids : Refresh(i) \/ MoveEntity(i)
    \/ AttachPlatforms \/ Appear
    \/ Unload \/ Crash

Spec == Init /\ [][Next]_vars

-----------------------------------------------------------------------------
(* Properties.                                                             *)

\* What follows is promised while every drive keeps its id, and none has the
\* id of another, or is at a path that another is remembered by.
TellApart == ~astray

\* The disks of a listing have ids that tell them apart, and a coordinator
\* looking for an id meets the disk that was given it: twins have no common
\* id, and neither is taken for the other (resolve_disk_id against
\* disk_matches_id).
IdsTellApart ==
    \A d, e \in Plugged : Matches(e, IdOf(d, Plugged)) => d = e

\* A disk that is shown has its history under its own id and nowhere else,
\* whichever form it was under, however often the setup was repeated, a
\* migration skipped, or a file lost to a stop.
OneHistoryPerDisk ==
    phase = "loaded" /\ TellApart =>
        \A i \in DOMAIN data : {u \in UniqueIds : entity[u] = data[i].disk} = {<<"node", i>>}

\* A disk that is shown has one device, that of its id, if the migrations
\* listed it: the older device has moved there, or was removed as a leftover
\* (the duplicates _async_rename_disk_devices speaks of).
OneDevicePerDisk ==
    phase = "loaded" /\ TellApart =>
        \A i \in DOMAIN data :
            data[i].disk \notin unmoved => {j \in Ids : device[j] = data[i].disk} = {i}

\* Moving the entities meets no id that is taken, so the platforms are set up,
\* unless a disk is shown that is known by its path alone: from its second setup
\* on it is renamed onto the id it has, which the registry refuses as well.
PlatformsAreSetUp ==
    phase = "broken" /\ TellApart => \E i \in DOMAIN data \cap Paths : data[i].path = i
=============================================================================
