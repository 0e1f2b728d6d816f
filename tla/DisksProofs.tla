---------------------------- MODULE DisksProofs ----------------------------
(***************************************************************************)
(* Proofs about Disks, for any drives that name themselves as assumed: the *)
(* types, that the ids of a listing tell its disks apart, and that history *)
(* and device of a disk end up under its id, whatever the setups, skipped  *)
(* migrations and lost files on the way; and what of them may be lost.     *)
(***************************************************************************)
EXTENDS Disks, TLAPS, FiniteSetTheorems

\* A disk has an id of its own, or its path.
LEMMA IdIsOwn ==
    ASSUME NEW d \in Drives, NEW listed
    PROVE  IdOf(d, listed) \in Own(d) \cup {at[d]}
BY DEF IdOf, Own

\* Where drives are, and that no two are at one path.
AtOK == at \in [Drives -> Paths \cup {None}]

PathsApart == \A d, e \in Plugged : at[d] = at[e] => d = e

\* An id that is a WWN is so of one disk of the listing only.
LEMMA WwnIsAlone ==
    ASSUME AtOK, NEW listed \in SUBSET Drives, NEW d \in listed, NEW e \in listed,
           Wwn[d] # None, Wwn[e] = Wwn[d], IdOf(d, listed) = Wwn[d]
    PROVE  d = e
<1>1. Serial[d] # Wwn[d] /\ Link[d] # Wwn[d]
    BY NamingAssumption
<1>2. at[d] # Wwn[d]
    <2>1. Wwn[d] \in Own(d)
        BY DEF Own
    <2>2. Wwn[d] \notin Paths
        BY <2>1, NamingAssumption
    <2> QED BY <2>2 DEF AtOK
<1>3. CASE Wwn[d] \in Colliding(listed)
    BY <1>1, <1>2, <1>3 DEF IdOf
<1>4. CASE Wwn[d] \notin Colliding(listed)
    BY <1>4 DEF Colliding
<1> QED BY <1>3, <1>4

\* The disks of a listing are told apart by their ids, whichever drives share a
\* WWN (resolve_disk_id against disk_matches_id).
LEMMA TellsApart == TypeOK /\ PathsApart => IdsTellApart
<1> SUFFICES ASSUME TypeOK, PathsApart, NEW d \in Plugged, NEW e \in Plugged,
                    Matches(e, IdOf(d, Plugged))
             PROVE  d = e
    BY DEF IdsTellApart
<1> DEFINE i == IdOf(d, Plugged)
<1>1. d \in Drives /\ e \in Drives /\ Plugged \in SUBSET Drives
    BY DEF Plugged
<1>2. i \in Own(d) \cup {at[d]}
    BY <1>1, IdIsOwn
<1>3. at[e] \in Paths /\ at[d] \in Paths /\ i # None
    BY <1>1, <1>2, NamingAssumption DEF Plugged, TypeOK, Own
<1>4. CASE i = at[d]
    <2>1. i = at[e]
        BY <1>1, <1>3, <1>4, NamingAssumption DEF Matches
    <2> QED BY <1>4, <2>1 DEF PathsApart
<1>5. ASSUME i # at[d] PROVE i \in Own(d) /\ i \in Own(e)
    BY <1>1, <1>2, <1>3, <1>5, NamingAssumption DEF Matches
<1>6. CASE i # at[d] /\ i = Wwn[d]
    <2>1. i = Wwn[e]
        BY <1>1, <1>3, <1>5, <1>6, NamingAssumption DEF Own
    <2>2. AtOK /\ IdOf(d, Plugged) = Wwn[d] /\ Wwn[d] # None
        BY <1>3, <1>6 DEF AtOK, TypeOK
    <2> HIDE DEF i
    <2> QED BY <1>1, <1>6, <2>1, <2>2, WwnIsAlone
<1>7. CASE i # at[d] /\ i \in {Serial[d], Link[d]}
    <2>1. i \in {Serial[e], Link[e]}
        BY <1>1, <1>3, <1>5, <1>7, NamingAssumption DEF Own
    <2> QED BY <1>1, <1>3, <1>7, <2>1, NamingAssumption
<1> QED BY <1>4, <1>5, <1>6, <1>7 DEF Own

-----------------------------------------------------------------------------
(* The types.                                                              *)

LEMMA PluggedDrives == Plugged \subseteq Drives
BY DEF Plugged

LEMMA IdTyped ==
    ASSUME AtOK, NEW d \in Plugged
    PROVE  IdOf(d, Plugged) \in Ids \ {None}
<1>1. d \in Drives /\ at[d] \in Paths
    BY DEF AtOK, Plugged
<1> QED BY <1>1, IdIsOwn, NamingAssumption DEF Ids, Own

NamesOK ==
    AtOK => \A d \in Plugged : /\ IdOf(d, Plugged) \in Ids \ {None}
                               /\ IdOf(d, Plugged) \in Own(d) \cup {at[d]}

\* Whatever is plugged in, now or after a step.
LEMMA NamesTyped == []NamesOK
<1>1. NamesOK
    BY IdTyped, IdIsOwn, PluggedDrives DEF NamesOK
<1> QED BY <1>1, PTL

LEMMA NamesTypedNext == NamesOK'
BY NamesTyped, PTL

LEMMA TypeInit == Init => TypeOK
<1> SUFFICES ASSUME Init PROVE TypeOK
    OBVIOUS
<1>1. at \in [Drives -> Paths \cup {None}] /\ version \in 5..7
    BY DEF Init
<1>2. device \in Owners(Ids) /\ entity \in Owners(UniqueIds)
    <2> DEFINE before == IF version = 7 THEN {} ELSE Plugged
    <2>1. PICK form \in [Plugged -> {"entry", "node", "today"}] :
              /\ device = [i \in Ids |->
                    IF \E d \in before :
                           i = OldId(version, d) \/ (form[d] = "today" /\ i = IdOf(d, Plugged))
                    THEN CHOOSE d \in before :
                           i = OldId(version, d) \/ (form[d] = "today" /\ i = IdOf(d, Plugged))
                    ELSE None]
              /\ entity = [u \in UniqueIds |->
                    IF \E d \in before : u = IF form[d] = "today" THEN <<"node", IdOf(d, Plugged)>>
                                                                 ELSE <<form[d], at[d]>>
                    THEN CHOOSE d \in before : u = IF form[d] = "today"
                                                   THEN <<"node", IdOf(d, Plugged)>>
                                                   ELSE <<form[d], at[d]>>
                    ELSE None]
        BY DEF Init
    <2>2. before \subseteq Drives
        BY PluggedDrives
    <2> HIDE DEF before
    <2>3. device \in Owners(Ids)
        BY <2>1, <2>2 DEF Owners
    <2>4. entity \in Owners(UniqueIds)
        BY <2>1, <2>2 DEF Owners
    <2> QED BY <2>3, <2>4
<1>3. known \in [Drives -> Ids \cup {None}]
    BY <1>1, PluggedDrives, IdTyped DEF Init, AtOK
<1>4. DataOK
    BY DEF Init, DataOK
<1>5. saved = files /\ phase = "down" /\ waiting = {} /\ astray = FALSE /\ unmoved = {} /\ upsets = 0
    BY DEF Init
<1>6. upsets \in 0..MaxUpsets
    BY <1>5, BoundAssumption
<1>7. saved \in (5..7) \X Owners(Ids) \X Owners(UniqueIds)
    BY <1>1, <1>2, <1>5 DEF files
<1>8. /\ phase \in {"down", "refreshing", "moving", "loaded", "broken"}
      /\ waiting \subseteq Ids
      /\ phase \in {"down", "loaded"} => waiting = {}
      /\ astray \in BOOLEAN
      /\ unmoved \subseteq Drives
    BY <1>5
<1> QED
    BY <1>1, <1>2, <1>3, <1>4, <1>6, <1>7, <1>8, ZenonT(60) DEF TypeOK

LEMMA TypeChanges == ASSUME TypeOK, NEW d \in Drives, Changes(d) PROVE TypeOK'
<1>1. at' \in [Drives -> Paths \cup {None}]
    BY DEF Changes, TypeOK
<1>2. \A e \in Drives : at'[e] # None => IdOf(e, Plugged)' \in Ids
    BY <1>1, NamesTypedNext DEF NamesOK, AtOK, Plugged
<1>3. known' \in [Drives -> Ids \cup {None}]
    BY <1>2 DEF Changes, TypeOK
<1>4. astray' \in BOOLEAN /\ upsets' \in 0..MaxUpsets
    BY BoundAssumption DEF Changes, TypeOK
<1> QED BY <1>1, <1>3, <1>4 DEF Changes, TypeOK, DataOK, files, setup

LEMMA TypeMigrate == ASSUME TypeOK, NEW answered \in BOOLEAN, Migrate(answered) PROVE TypeOK'
<1>1. Moved(version) \in Owners(Ids)
    <2>1. ASSUME NEW d \in Moving(version) PROVE device[OldId(version, d)] \in Drives \cup {None}
        <3>1. d \in Drives /\ at[d] \in Paths
            BY PluggedDrives DEF Moving, TypeOK, Plugged
        <3>2. OldId(version, d) \in Ids
            BY <3>1 DEF Moving, OldId, Own, Ids
        <3> QED BY <3>2 DEF TypeOK, Owners
    <2> QED BY <2>1 DEF Moved, TypeOK, Owners
<1>2. EntitiesLeft(version) \in Owners(UniqueIds)
    BY DEF EntitiesLeft, TypeOK, Owners
<1>3. version' \in 5..7
    BY DEF Migrate, TypeOK
<1>4. device' \in Owners(Ids) /\ entity' \in Owners(UniqueIds)
    BY <1>1, <1>2 DEF Migrate, TypeOK
<1>5. unmoved' \subseteq Drives
    BY DEF Migrate, TypeOK
<1> QED BY <1>3, <1>4, <1>5 DEF Migrate, TypeOK, DataOK, setup

LEMMA TypeBuild == ASSUME TypeOK, NEW answered \in BOOLEAN, Build(answered) PROVE TypeOK'
<1>1. waiting' \subseteq Ids
    BY IdTyped DEF Build, TypeOK, AtOK
<1> QED BY <1>1 DEF Build, TypeOK, DataOK, files, history

LEMMA TypeRefresh == ASSUME TypeOK, NEW i \in Ids, Refresh(i) PROVE TypeOK'
<1>1. DataOK'
    <2>1. CASE UNCHANGED data
        BY <2>1 DEF TypeOK, DataOK
    <2>2. CASE ~UNCHANGED data
        <3>1. PICK d \in Plugged :
                  data' = [j \in DOMAIN data \cup {i} |->
                              IF j = i THEN [disk |-> d, path |-> at[d]] ELSE data[j]]
            BY <2>2 DEF Refresh, Lists
        <3>2. d \in Drives /\ at[d] \in Paths
            BY DEF Plugged, TypeOK
        <3> QED BY <3>1, <3>2 DEF DataOK, TypeOK
    <2> QED BY <2>1, <2>2
<1> QED BY <1>1 DEF Refresh, TypeOK, files, history

LEMMA TypeAttach == TypeOK /\ AttachPlatforms => TypeOK'
BY DEF AttachPlatforms, TypeOK, DataOK, files, history

LEMMA TypeMoveEntity == ASSUME TypeOK, NEW i \in Ids, MoveEntity(i), i \in DOMAIN data PROVE TypeOK'
<1>1. entity' \in Owners(UniqueIds)
    <2>1. CASE Found(i) = {}
        BY <2>1 DEF MoveEntity, Renamed, TypeOK
    <2>2. CASE Found(i) # {}
        <3>1. FormerIds(i) \in Seq(UniqueIds)
            <4>1. data[i].disk \in Drives /\ data[i].path \in Paths
                BY DEF TypeOK, DataOK
            <4>2. Wwn[data[i].disk] \in {None, i} \/ Wwn[data[i].disk] \in Ids
                BY <4>1 DEF Own, Ids
            <4> QED BY <4>1, <4>2 DEF FormerIds, UniqueIds, Ids
        <3>2. PICK k \in Found(i) : \A j \in Found(i) : k <= j
            <4>1. Found(i) \subseteq 1..3
                BY DEF Found, FormerIds
            <4> QED BY <2>2, <4>1
        <3>3. FirstFound(i) \in UniqueIds
            BY <3>1, <3>2 DEF FirstFound, Found
        <3> QED BY <3>3 DEF MoveEntity, Renamed, TypeOK, Owners
    <2> QED BY <2>1, <2>2
<1>2. phase' \in {"moving", "broken"} /\ waiting' \subseteq Ids
    BY DEF MoveEntity, TypeOK
<1> QED BY <1>1, <1>2 DEF MoveEntity, TypeOK, DataOK, history

LEMMA TypeAppear == TypeOK /\ Appear => TypeOK'
<1> SUFFICES ASSUME TypeOK, Appear PROVE TypeOK'
    OBVIOUS
<1>1. device' \in Owners(Ids) /\ entity' \in Owners(UniqueIds)
    BY DEF Appear, TypeOK, DataOK, Owners
<1> QED BY <1>1 DEF Appear, Ready, TypeOK, DataOK, history

LEMMA TypeStops == TypeOK /\ (Unload \/ Crash) => TypeOK'
<1> SUFFICES ASSUME TypeOK, Unload \/ Crash PROVE TypeOK'
    OBVIOUS
<1>1. phase' = "down" /\ DataOK' /\ waiting' = {}
    BY DEF Unload, Crash, Stopped, DataOK
<1>2. /\ version' \in 5..7
      /\ device' \in Owners(Ids)
      /\ entity' \in Owners(UniqueIds)
      /\ saved' \in (5..7) \X Owners(Ids) \X Owners(UniqueIds)
    BY DEF Unload, Crash, TypeOK, files
<1>3. UNCHANGED <<at, known, astray>> /\ unmoved' \subseteq Drives /\ upsets' \in 0..MaxUpsets
    BY BoundAssumption DEF Unload, Crash, TypeOK, history
<1> QED BY <1>1, <1>2, <1>3 DEF TypeOK

\* What waits to be moved has data.
WaitingListed == phase = "moving" => waiting \subseteq DOMAIN data

IInv == TypeOK /\ WaitingListed /\ PathsApart

LEMMA PathsApartStep == PathsApart /\ TypeOK /\ [Next]_vars => PathsApart'
<1> SUFFICES ASSUME PathsApart, TypeOK, [Next]_vars PROVE PathsApart'
    OBVIOUS
<1>1. ASSUME NEW d \in Drives, Changes(d) PROVE PathsApart'
    BY <1>1 DEF Changes, PathsApart, Plugged, TypeOK
<1>2. CASE UNCHANGED at
    BY <1>2 DEF PathsApart, Plugged
<1>3. UNCHANGED at \/ \E d \in Drives : Changes(d)
    BY DEF Next, vars, Migrate, Build, Refresh, MoveEntity, AttachPlatforms, Appear, Unload, Crash
<1> QED BY <1>1, <1>2, <1>3

LEMMA IInvInit == Init => IInv
<1>1. Init => PathsApart
    BY DEF Init, PathsApart, Plugged
<1> QED BY <1>1, TypeInit DEF Init, IInv, WaitingListed

LEMMA WaitingStep == TypeOK /\ WaitingListed /\ [Next]_vars => WaitingListed'
<1> SUFFICES ASSUME TypeOK, WaitingListed, [Next]_vars PROVE WaitingListed'
    OBVIOUS
<1>1. CASE \E d \in Drives : Changes(d)
    BY <1>1 DEF Changes, WaitingListed, setup
<1>2. CASE \E answered \in BOOLEAN : Migrate(answered) \/ Build(answered)
    BY <1>2 DEF Migrate, Build, WaitingListed, setup
<1>3. CASE \E i \in Ids : Refresh(i) \/ MoveEntity(i)
    BY <1>3 DEF Refresh, MoveEntity, WaitingListed
<1>4. CASE AttachPlatforms \/ Appear \/ Unload \/ Crash
    BY <1>4 DEF AttachPlatforms, Appear, Unload, Crash, Stopped, WaitingListed
<1>5. CASE UNCHANGED vars
    BY <1>5 DEF vars, setup, WaitingListed
<1> QED BY <1>1, <1>2, <1>3, <1>4, <1>5 DEF Next

LEMMA TypeStep == IInv /\ [Next]_vars => TypeOK'
<1> SUFFICES ASSUME IInv, [Next]_vars PROVE TypeOK'
    OBVIOUS
<1> USE DEF IInv
<1>1. CASE \E d \in Drives : Changes(d)
    BY <1>1, TypeChanges
<1>2. CASE \E answered \in BOOLEAN : Migrate(answered) \/ Build(answered)
    BY <1>2, TypeMigrate, TypeBuild
<1>3. CASE \E i \in Ids : Refresh(i) \/ MoveEntity(i)
    <2>1. ASSUME NEW i \in Ids, MoveEntity(i) PROVE i \in DOMAIN data
        BY <2>1 DEF MoveEntity, WaitingListed
    <2> QED BY <1>3, <2>1, TypeRefresh, TypeMoveEntity
<1>4. CASE AttachPlatforms \/ Appear \/ Unload \/ Crash
    BY <1>4, TypeAttach, TypeAppear, TypeStops
<1>5. CASE UNCHANGED vars
    BY <1>5 DEF vars, files, setup, history, TypeOK, DataOK
<1> QED BY <1>1, <1>2, <1>3, <1>4, <1>5 DEF Next

LEMMA InvAlways == Spec => []IInv
<1>1. IInv /\ [Next]_vars => IInv'
    BY TypeStep, WaitingStep, PathsApartStep DEF IInv
<1> QED BY <1>1, IInvInit, PTL DEF Spec

\* The files, the registries and the setup are well formed, for any drives.
THEOREM TypeCorrect == Spec => []TypeOK
BY InvAlways, PTL DEF IInv

\* A coordinator looking for the id of a disk of the listing meets that disk
\* and no other, however many drives share their WWNs.
THEOREM DisksToldApart == Spec => []IdsTellApart
BY InvAlways, TellsApart, PTL DEF IInv

-----------------------------------------------------------------------------
(* The ids each drive had.                                                 *)

\* An id remembered is one of the drive's own or a path, today's while it is
\* plugged in.
KnownOwn ==
    /\ \A d \in Drives : known[d] \in Own(d) \cup Paths \cup {None}
    /\ \A d \in Plugged : /\ known[d] = IdOf(d, Plugged) /\ known[d] # None
                         /\ known[d] \in Own(d) \cup {at[d]}

\* No drive is at a path that another is known by.
PathsTold == \A d \in Drives, e \in Plugged : known[d] = at[e] => d = e

\* No two drives had one id.
KnownApart == \A d, e \in Drives : known[d] = known[e] /\ known[d] # None => d = e

\* A drive that was not told by its WWN had a twin, and two of them are there
\* still: the last one would have changed its id.
TwinsStay ==
    \A d \in Drives :
        known[d] \notin {None, Wwn[d]} /\ Wwn[d] # None =>
            \E x, y \in Plugged : x # y /\ Wwn[x] = Wwn[d] /\ Wwn[y] = Wwn[d]

\* A drive that was told by its WWN is the only one of that WWN there has been.
NoTwinSeen ==
    \A d, e \in Drives :
        d # e /\ known[d] = Wwn[d] /\ known[d] # None /\ Wwn[e] = Wwn[d] => known[e] = None

\* A drive that goes by another id than its WWN is listed with a twin.
LEMMA OthersCollide ==
    ASSUME NEW listed \in SUBSET Drives, NEW d \in listed,
           Wwn[d] # None, IdOf(d, listed) # Wwn[d]
    PROVE  \E x, y \in listed : x # y /\ Wwn[x] = Wwn[d] /\ Wwn[y] = Wwn[d]
BY DEF IdOf, Colliding

LEMMA SameName ==
    ASSUME NEW d \in Drives, NEW e \in Drives, NEW i, i \in Own(d), i \in Own(e), d # e
    PROVE  i = Wwn[d] /\ i = Wwn[e]
<1>1. i # None
    BY DEF Own
<1> QED BY <1>1, NamingAssumption DEF Own

LEMMA KnownInit ==
    TypeOK /\ Init => KnownOwn /\ KnownApart /\ PathsTold /\ TwinsStay /\ NoTwinSeen
<1> SUFFICES ASSUME TypeOK, Init
             PROVE  KnownOwn /\ KnownApart /\ PathsTold /\ TwinsStay /\ NoTwinSeen
    OBVIOUS
<1>1. known = [d \in Drives |-> IF d \in Plugged THEN IdOf(d, Plugged) ELSE None]
    BY DEF Init
<1>2. \A d \in Plugged :
          /\ d \in Drives /\ at[d] \in Paths /\ IdOf(d, Plugged) # None
          /\ IdOf(d, Plugged) \in Own(d) \cup {at[d]}
    BY PluggedDrives, IdIsOwn, IdTyped DEF TypeOK, AtOK, Plugged
<1>3. KnownOwn
    BY <1>1, <1>2 DEF KnownOwn
<1>4. KnownApart /\ PathsTold
    <2>1. IdsTellApart
        BY IInvInit, TellsApart DEF IInv
    <2> QED BY <1>1, <1>2, <2>1, NamingAssumption
               DEF KnownApart, PathsTold, IdsTellApart, Matches
<1>5. TwinsStay
    BY <1>1, <1>2, PluggedDrives, OthersCollide DEF TwinsStay
<1>6. NoTwinSeen
    BY <1>1, <1>2, PluggedDrives, WwnIsAlone DEF NoTwinSeen, TypeOK, AtOK
<1> QED BY <1>3, <1>4, <1>5, <1>6

LEMMA KnownOwnStep == ASSUME TypeOK, KnownOwn, NEW d \in Drives, Changes(d) PROVE KnownOwn'
<1>1. known' = [e \in Drives |-> IF at'[e] # None THEN IdOf(e, Plugged)' ELSE known[e]]
    BY DEF Changes
<1>2. \A e \in Drives : e \in Plugged' <=> at'[e] # None
    BY DEF Plugged
<1>3. AtOK'
    BY DEF Changes, TypeOK, AtOK
<1>4. \A e \in Plugged' : /\ e \in Drives /\ at'[e] \in Paths
                         /\ IdOf(e, Plugged)' # None
                         /\ IdOf(e, Plugged)' \in Own(e) \cup {at'[e]}
    BY <1>2, <1>3, NamesTypedNext DEF NamesOK, AtOK, Plugged
<1> QED BY <1>1, <1>2, <1>4 DEF KnownOwn, Plugged

\* What holds of any listing holds of the next one.
TwinsListed ==
    AtOK => \A d \in Plugged :
        /\ \A e \in Plugged :
               Wwn[d] # None /\ Wwn[e] = Wwn[d] /\ IdOf(d, Plugged) = Wwn[d] => d = e
        /\ Wwn[d] # None /\ IdOf(d, Plugged) # Wwn[d] =>
               \E x, y \in Plugged : x # y /\ Wwn[x] = Wwn[d] /\ Wwn[y] = Wwn[d]

LEMMA TwinsListedAlways == []TwinsListed
<1>1. TwinsListed
    BY PluggedDrives, WwnIsAlone, OthersCollide DEF TwinsListed
<1> QED BY <1>1, PTL

LEMMA TwinsListedNext == TwinsListed'
BY TwinsListedAlways, PTL

LEMMA AtNext == ASSUME TypeOK, NEW d \in Drives, Changes(d) PROVE AtOK'
BY DEF Changes, TypeOK, AtOK

\* The ids of a step in which none went astray.
LEMMA KnownStep ==
    ASSUME TypeOK, PathsApart', KnownOwn, KnownApart, PathsTold, TwinsStay, NoTwinSeen,
           NEW d \in Drives, Changes(d), ~astray'
    PROVE  KnownApart' /\ PathsTold' /\ TwinsStay' /\ NoTwinSeen'
<1>1. KnownOwn' /\ AtOK'
    BY KnownOwnStep, AtNext
<1>2. /\ \A e \in Drives : known[e] # None => known'[e] = known[e]
      /\ \A e \in Drives : e # d => known'[e] \notin {known'[d], at'[d]} \ {None}
      /\ known'[d] # None
    <2>1. at[d] # None \/ at'[d] # None
        BY DEF Changes, TypeOK
    <2> QED BY <1>1, <2>1 DEF Changes, KnownOwn, Plugged
<1>3. /\ \A e \in Drives : e # d => (e \in Plugged' <=> e \in Plugged)
      /\ Plugged \subseteq Drives /\ Plugged' \subseteq Drives
    BY DEF Changes, Plugged, TypeOK
<1>4. \A e \in Drives : e # d => known'[e] = known[e]
    <2> SUFFICES ASSUME NEW e \in Drives, e # d, known[e] = None PROVE known'[e] = known[e]
        BY <1>2
    <2>1. e \notin Plugged'
        BY <1>3 DEF KnownOwn
    <2> QED BY <2>1 DEF Changes, Plugged
<1>5. \A e \in Plugged' : known'[e] = IdOf(e, Plugged)'
    BY <1>1 DEF KnownOwn
<1>6. KnownApart'
    BY <1>2, <1>4 DEF KnownApart
<1>9. PathsTold'
    <2> SUFFICES ASSUME NEW x \in Drives, NEW y \in Plugged', known'[x] = at'[y]
                 PROVE  x = y
        BY DEF PathsTold
    <2>1. at'[y] \in Paths /\ at'[y] # None /\ y \in Drives
        BY <1>1, <1>3 DEF AtOK, Plugged
    <2>2. CASE y = d
        BY <1>2, <2>1, <2>2
    <2>3. CASE y # d /\ x # d
        BY <1>3, <1>4, <2>1, <2>3 DEF PathsTold, Changes, TypeOK
    <2>4. CASE y # d /\ x = d /\ d \in Plugged'
        <3>1. known'[d] \in Own(d) \cup {at'[d]}
            BY <1>1, <2>4 DEF KnownOwn
        <3>2. at'[d] = at'[y]
            BY <2>1, <2>4, <3>1, NamingAssumption
        <3> QED BY <2>4, <3>2 DEF PathsApart
    <2>5. CASE y # d /\ x = d /\ d \notin Plugged'
        <3>1. known'[d] = known[d]
            BY <2>5 DEF Changes, Plugged
        <3> QED BY <1>3, <2>1, <2>5, <3>1 DEF PathsTold, Changes, TypeOK
    <2> QED BY <2>2, <2>3, <2>4, <2>5
<1>7. TwinsStay'
    <2> SUFFICES ASSUME NEW e \in Drives, known'[e] \notin {None, Wwn[e]}, Wwn[e] # None
                 PROVE  \E x, y \in Plugged' : x # y /\ Wwn[x] = Wwn[e] /\ Wwn[y] = Wwn[e]
        BY DEF TwinsStay
    <2>1. CASE e \in Plugged'
        BY <1>1, <1>5, <2>1, TwinsListedNext DEF TwinsListed
    <2>2. CASE e \notin Plugged'
        <3>1. known'[e] = known[e]
            BY <2>2 DEF Changes, Plugged
        <3>2. PICK x, y \in Plugged : x # y /\ Wwn[x] = Wwn[e] /\ Wwn[y] = Wwn[e]
            BY <3>1 DEF TwinsStay
        <3>3. CASE x \in Plugged' /\ y \in Plugged'
            BY <3>2, <3>3
        \* One of them is gone; the other goes by the id it had.
        <3>4. ASSUME NEW z \in Plugged', z \in Plugged, Wwn[z] = Wwn[e]
              PROVE  known[z] # Wwn[z]
            <4>1. known[e] = None \/ e = z \/ known[z] # Wwn[z]
                BY <1>3, <3>2, <3>4 DEF NoTwinSeen, KnownOwn
            <4> QED BY <2>2, <3>1, <4>1
        <3>5. ASSUME NEW z \in Plugged', z \in Plugged, Wwn[z] = Wwn[e]
              PROVE  \E v, w \in Plugged' : v # w /\ Wwn[v] = Wwn[e] /\ Wwn[w] = Wwn[e]
            <4>1. IdOf(z, Plugged)' # Wwn[z]
                BY <1>2, <1>3, <1>5, <3>4, <3>5 DEF KnownOwn
            <4> QED BY <1>1, <3>5, <4>1, TwinsListedNext DEF TwinsListed
        <3>6. x \in Plugged' \/ y \in Plugged'
            BY <1>3, <3>2
        <3> QED BY <3>2, <3>5, <3>6
    <2> QED BY <2>1, <2>2
<1>8. NoTwinSeen'
    <2> SUFFICES ASSUME NEW e \in Drives, NEW f \in Drives, e # f, Wwn[f] = Wwn[e],
                        known'[e] = Wwn[e], known'[e] # None, known'[f] # None
                 PROVE  FALSE
        BY DEF NoTwinSeen
    <2>1. known'[f] # Wwn[f]
        BY <1>6 DEF KnownApart
    <2>2. PICK x, y \in Plugged' : x # y /\ Wwn[x] = Wwn[e] /\ Wwn[y] = Wwn[e]
        BY <1>7, <2>1 DEF TwinsStay
    <2>3. e \notin Plugged'
        BY <1>1, <1>5, <2>2, TwinsListedNext DEF TwinsListed
    <2>4. known[e] = Wwn[e]
        BY <2>3 DEF Changes, Plugged
    <2>5. x \in Plugged \/ y \in Plugged
        BY <1>3, <2>2
    <2>6. ASSUME NEW z \in Plugged, Wwn[z] = Wwn[e], z \in Plugged' PROVE FALSE
        BY <1>3, <2>3, <2>4, <2>6 DEF NoTwinSeen, KnownOwn
    <2> QED BY <2>2, <2>5, <2>6
<1> QED BY <1>6, <1>7, <1>8, <1>9

-----------------------------------------------------------------------------
(* The history of a disk is under one id, and moves to today's.            *)

ByPath == {"entry", "node"} \X Paths

\* Where the history of a drive may be: at one place, its path or its id.
HistoryAt(E) ==
    \A u \in UniqueIds : E[u] # None =>
        /\ known[E[u]] # None
        /\ u \in ByPath \/ u = <<"node", known[E[u]]>>
        /\ \A v \in UniqueIds : E[v] = E[u] => u = v

\* A drive that is there is at the path it is remembered by, and no other is.
PathsAgree(E) ==
    \A d \in Plugged : \A u \in ByPath : E[u] # None => (E[u] = d <=> at[d] = u[2])

\* What a coordinator lists is what had its id, at the path it is remembered by.
DataIsKnown ==
    \A i \in DOMAIN data :
        /\ known[data[i].disk] = i
        /\ i \in Paths => data[i].path = i
        /\ \A u \in ByPath : entity[u] # None => (entity[u] = data[i].disk <=> data[i].path = u[2])

\* Each setup lists anew, and none of its coordinators has what it lists at a
\* path that another is there for.
DataPaths ==
    /\ phase = "down" => DOMAIN data = {}
    /\ \A i \in DOMAIN data, j \in waiting \cup DOMAIN data : data[i].path = j => i = j

\* A coordinator is there for an id that some drive had.
WaitingIsKnown == phase = "refreshing" => \A i \in waiting : \E d \in Drives : known[d] = i

\* Once it was the turn of a disk, none of its history is under a path, but
\* where that is its id.
MovedOn ==
    phase \in {"moving", "loaded"} =>
        \A i \in DOMAIN data \ waiting : \A u \in ByPath \ {<<"node", i>>} :
            entity[u] # data[i].disk

\* Only a disk that is known by its path is refused its id.
BrokenByPath == phase = "broken" => \E i \in DOMAIN data \cap Paths : data[i].path = i

\* What is shown has its history.
Shown == phase = "loaded" => \A i \in DOMAIN data : entity[<<"node", i>>] = data[i].disk

Kept ==
    /\ KnownApart /\ PathsTold /\ TwinsStay /\ NoTwinSeen
    /\ HistoryAt(entity) /\ HistoryAt(saved[3])
    /\ PathsAgree(entity) /\ PathsAgree(saved[3])
    /\ DataIsKnown /\ DataPaths /\ WaitingIsKnown /\ MovedOn /\ Shown /\ BrokenByPath

KInv == IInv /\ KnownOwn /\ (~astray => Kept)

LEMMA ByPathIds == ByPath \subseteq UniqueIds /\ \A i \in Ids : <<"node", i>> \in UniqueIds
BY DEF ByPath, UniqueIds, Ids

LEMMA KnownIsId ==
    ASSUME KnownOwn, NEW d \in Drives, known[d] # None PROVE known[d] \in Ids
BY DEF KnownOwn, Ids

\* A drive that is there and known by a path is known by its own.
LEMMA KnownByPath ==
    ASSUME KnownOwn, NEW d \in Plugged, known[d] \in Paths PROVE known[d] = at[d]
BY PluggedDrives, NamingAssumption DEF KnownOwn

LEMMA KeptInit == Init => KInv
<1> SUFFICES ASSUME Init PROVE KInv
    OBVIOUS
<1>1. TypeOK /\ IInv
    BY IInvInit DEF IInv
<1>2. KnownOwn /\ KnownApart /\ PathsTold /\ TwinsStay /\ NoTwinSeen
    BY <1>1, KnownInit
<1>3. /\ saved[3] = entity /\ phase = "down" /\ waiting = {} /\ DOMAIN data = {}
      /\ \A d \in Drives : known[d] = IF d \in Plugged THEN IdOf(d, Plugged) ELSE None
    BY DEF Init, files
<1> DEFINE before == IF version = 7 THEN {} ELSE Plugged
<1>4. PICK form \in [Plugged -> {"entry", "node", "today"}] :
          entity = [u \in UniqueIds |->
              IF \E d \in before : u = IF form[d] = "today" THEN <<"node", IdOf(d, Plugged)>>
                                                           ELSE <<form[d], at[d]>>
              THEN CHOOSE d \in before : u = IF form[d] = "today"
                                             THEN <<"node", IdOf(d, Plugged)>>
                                             ELSE <<form[d], at[d]>>
              ELSE None]
    BY DEF Init
<1> DEFINE under(d) == IF form[d] = "today" THEN <<"node", IdOf(d, Plugged)>> ELSE <<form[d], at[d]>>
<1>5. before \subseteq Plugged
    OBVIOUS
<1> HIDE DEF before
<1>6. \A u \in UniqueIds : entity[u] # None => entity[u] \in Plugged /\ u = under(entity[u])
    BY <1>4, <1>5
<1>7. \A d \in Plugged : /\ at[d] \in Paths /\ form[d] \in {"entry", "node", "today"}
                         /\ known[d] = IdOf(d, Plugged) /\ known[d] # None
    BY <1>1, <1>2 DEF Plugged, TypeOK, KnownOwn
<1>8. HistoryAt(entity)
    <2>1. ASSUME NEW u \in UniqueIds, entity[u] # None
          PROVE  u \in ByPath \/ u = <<"node", known[entity[u]]>>
        BY <1>6, <1>7, <2>1 DEF ByPath
    <2>2. ASSUME NEW u \in UniqueIds, entity[u] # None, NEW v \in UniqueIds, entity[v] = entity[u]
          PROVE  u = v
        BY <1>6, <2>2
    <2> QED BY <1>6, <1>7, <2>1, <2>2 DEF HistoryAt
<1>9. PathsAgree(entity)
    <2> SUFFICES ASSUME NEW d \in Plugged, NEW u \in ByPath, entity[u] # None
                 PROVE  entity[u] = d <=> at[d] = u[2]
        BY DEF PathsAgree
    <2>1. entity[u] \in Plugged /\ u = under(entity[u]) /\ u[2] \in Paths
        BY <1>6, ByPathIds DEF ByPath
    <2>3. u[2] = at[entity[u]]
        BY <1>2, <1>7, <2>1, KnownByPath
    <2>4. \A e, f \in Plugged : at[e] = at[f] => e = f
        BY DEF Init, Plugged
    <2> QED BY <2>1, <2>3, <2>4
<1>10. DataIsKnown /\ DataPaths /\ WaitingIsKnown /\ MovedOn /\ Shown /\ BrokenByPath
    BY <1>3 DEF DataIsKnown, DataPaths, WaitingIsKnown, MovedOn, Shown, BrokenByPath
<1> QED BY <1>1, <1>2, <1>3, <1>8, <1>9, <1>10 DEF KInv, Kept

LEMMA NotAstray ==
    ASSUME NEW where, NEW D, NEW E, ~Astray(where, D, E),
           NEW d \in {e \in Drives : where[e] # None}, NEW p \in Paths,
           NEW x \in {D[p], E[<<"entry", p>>], E[<<"node", p>>]} \ {None}
    PROVE  (x = d) = (where[d] = p)
<1> SUFFICES ASSUME ~((x = d) <=> (where[d] = p)) PROVE FALSE
    OBVIOUS
<1>1. (x = d) # (where[d] = p)
    OBVIOUS
<1>2. \E z \in {D[p], E[<<"entry", p>>], E[<<"node", p>>]} \ {None} : (z = d) # (where[d] = p)
    BY <1>1, Zenon
<1>3. Astray(where, D, E)
    BY <1>2, Zenon DEF Astray
<1> QED BY <1>3

\* While nothing goes astray, the ids stay and whatever moves stays where it
\* is remembered.
LEMMA KeptChanges ==
    ASSUME TypeOK, PathsApart', KnownOwn, Kept, NEW d \in Drives, Changes(d), ~astray'
    PROVE  Kept'
<1> USE DEF Kept
<1>1. KnownApart' /\ PathsTold' /\ TwinsStay' /\ NoTwinSeen'
    BY KnownStep
<1>2. /\ UNCHANGED <<device, entity, saved, phase, data, waiting>>
      /\ \A e \in Drives : known[e] # None => known'[e] = known[e]
      /\ ~Astray(at', device, entity) /\ ~Astray(at', saved[2], saved[3])
      /\ phase # "moving"
    BY DEF Changes, files, setup
<1>3. entity \in Owners(UniqueIds) /\ saved[3] \in Owners(UniqueIds) /\ DataOK
    BY DEF TypeOK
<1>4. ASSUME NEW E \in Owners(UniqueIds), HistoryAt(E) PROVE HistoryAt(E)'
    BY <1>2, <1>4 DEF HistoryAt, Owners
<1>5. ASSUME NEW E \in Owners(UniqueIds), NEW D, ~Astray(at', D, E) PROVE PathsAgree(E)'
    <2> SUFFICES ASSUME NEW e \in Plugged', NEW u \in ByPath, E[u] # None
                 PROVE  E[u] = e <=> at'[e] = u[2]
        BY DEF PathsAgree
    <2>1. u[2] \in Paths /\ u \in {<<"entry", u[2]>>, <<"node", u[2]>>}
        BY DEF ByPath
    <2>2. e \in {x \in Drives : at'[x] # None}
        BY DEF Plugged
    <2>3. E[u] \in {D[u[2]], E[<<"entry", u[2]>>], E[<<"node", u[2]>>]} \ {None}
        BY <2>1
    <2>4. (E[u] = e) = (at'[e] = u[2])
        BY <1>5, <2>1, <2>2, <2>3, NotAstray
    <2> QED BY <2>4
<1>6. DataIsKnown' /\ DataPaths'
    BY <1>2, <1>3, NamingAssumption DEF DataIsKnown, DataPaths, DataOK, Ids, Own
<1>7. WaitingIsKnown'
    <2>1. waiting \subseteq Ids /\ None \notin Ids
        BY NamingAssumption DEF TypeOK, Ids, Own
    <2> QED BY <1>2, <2>1 DEF WaitingIsKnown
<1>8. MovedOn' /\ Shown' /\ BrokenByPath'
    BY <1>2 DEF MovedOn, Shown, BrokenByPath
<1> QED BY <1>1, <1>2, <1>3, <1>4, <1>5, <1>6, <1>7, <1>8

\* A coordinator meets the disk that had its id, or none.
LEMMA MeetsItsOwn ==
    ASSUME TypeOK, KnownOwn, KnownApart, PathsTold, NoTwinSeen,
           NEW i \in Ids, NEW d \in Drives, known[d] = i,
           NEW e \in Plugged, Matches(e, i)
    PROVE  d = e
<1>1. e \in Drives /\ known[e] # None /\ i # None
    <2>1. e \in Drives /\ known[e] # None
        BY PluggedDrives DEF KnownOwn
    <2>2. None \notin Ids
        BY NamingAssumption DEF Ids, Own
    <2> QED BY <2>1, <2>2
<1>2. CASE i = at[e]
    BY <1>2 DEF PathsTold
<1>3. CASE i # at[e]
    <2>1. i \in Own(e) /\ i \notin Paths /\ i \in Own(d)
        BY <1>1, <1>3, NamingAssumption DEF KnownOwn, Matches
    <2> SUFFICES ASSUME d # e PROVE FALSE
        OBVIOUS
    <2>2. i = Wwn[d] /\ i = Wwn[e]
        BY <1>1, <2>1, SameName
    <2> QED BY <1>1, <2>2 DEF NoTwinSeen
<1> QED BY <1>2, <1>3

LEMMA KeptRefresh == ASSUME TypeOK, KnownOwn, Kept, NEW i \in Ids, Refresh(i) PROVE Kept'
<1> USE DEF Kept
<1>1. UNCHANGED <<at, device, entity, saved, phase, known, Plugged>> /\ phase = "refreshing"
    BY DEF Refresh, files, history, Plugged
<1>2. DataIsKnown'
    <2>1. CASE UNCHANGED data
        BY <1>1, <2>1 DEF DataIsKnown
    <2>2. CASE ~UNCHANGED data
        <3>1. PICK e \in Plugged :
                  /\ Matches(e, i)
                  /\ data' = [j \in DOMAIN data \cup {i} |->
                                 IF j = i THEN [disk |-> e, path |-> at[e]] ELSE data[j]]
            BY <2>2 DEF Refresh, Lists
        <3>2. PICK d \in Drives : known[d] = i
            BY DEF Refresh, WaitingIsKnown
        <3>3. known[e] = i
            BY <3>1, <3>2, MeetsItsOwn
        <3>4. \A u \in ByPath : entity[u] # None => (entity[u] = e <=> at[e] = u[2])
            BY DEF PathsAgree
        <3>5. i \in Paths => at[e] = i
            BY <3>3, KnownByPath
        <3> QED BY <1>1, <3>1, <3>3, <3>4, <3>5 DEF DataIsKnown
    <2> QED BY <2>1, <2>2
<1>7. DataPaths'
    <2>1. i \in waiting /\ waiting' = waiting \ {i} /\ phase' # "down"
        BY <1>1 DEF Refresh
    <2>2. CASE UNCHANGED data
        BY <2>1, <2>2 DEF DataPaths
    <2>3. CASE ~UNCHANGED data
        <3>1. PICK e \in Plugged :
                  /\ Matches(e, i)
                  /\ data' = [j \in DOMAIN data \cup {i} |->
                                 IF j = i THEN [disk |-> e, path |-> at[e]] ELSE data[j]]
            BY <2>3 DEF Refresh, Lists
        <3>2. PICK d \in Drives : known[d] = i
            BY DEF Refresh, WaitingIsKnown
        <3>3. known[e] = i
            BY <3>1, <3>2, MeetsItsOwn
        <3>4. ASSUME NEW j \in waiting \cup DOMAIN data, at[e] = j PROVE j = i
            <4>1. PICK x \in Drives : known[x] = j
                BY <1>1 DEF WaitingIsKnown, DataIsKnown, TypeOK, DataOK
            <4> QED BY <3>3, <3>4, <4>1 DEF PathsTold
        <3> QED BY <2>1, <3>1, <3>4 DEF DataPaths
    <2> QED BY <2>2, <2>3
<1>3. WaitingIsKnown'
    BY <1>1 DEF Refresh, WaitingIsKnown
<1>4. MovedOn' /\ Shown' /\ BrokenByPath'
    BY <1>1 DEF MovedOn, Shown, BrokenByPath
<1>5. KnownApart' /\ PathsTold' /\ TwinsStay' /\ NoTwinSeen'
    BY <1>1 DEF KnownApart, PathsTold, TwinsStay, NoTwinSeen
<1>6. HistoryAt(entity)' /\ HistoryAt(saved[3])' /\ PathsAgree(entity)' /\ PathsAgree(saved[3])'
    BY <1>1 DEF HistoryAt, PathsAgree
<1> QED BY <1>2, <1>3, <1>4, <1>5, <1>6, <1>7

\* Fewer places hold what they held.
LEMMA FewerPlaces ==
    ASSUME NEW E \in Owners(UniqueIds), NEW F \in Owners(UniqueIds),
           \A u \in UniqueIds : F[u] \in {E[u], None}, HistoryAt(E), PathsAgree(E)
    PROVE  HistoryAt(F) /\ PathsAgree(F)
<1>1. HistoryAt(F)
    BY DEF HistoryAt
<1>2. PathsAgree(F)
    BY ByPathIds DEF PathsAgree
<1> QED BY <1>1, <1>2

LEMMA KeptSetup ==
    ASSUME TypeOK, KnownOwn, Kept,
           \/ \E answered \in BOOLEAN : Build(answered) \/ Migrate(answered)
           \/ AttachPlatforms
    PROVE  Kept'
<1> USE DEF Kept
<1>1. UNCHANGED <<at, saved, data, known, Plugged>>
    BY DEF Build, Migrate, AttachPlatforms, files, history, setup, Plugged
<1>2. KnownApart' /\ PathsTold' /\ TwinsStay' /\ NoTwinSeen'
    BY <1>1 DEF KnownApart, PathsTold, TwinsStay, NoTwinSeen
<1>3. entity' \in Owners(UniqueIds) /\ \A u \in UniqueIds : entity'[u] \in {entity[u], None}
    BY DEF Build, Migrate, AttachPlatforms, files, EntitiesLeft, TypeOK, Owners
<1>4. HistoryAt(entity') /\ PathsAgree(entity')
    BY <1>3, FewerPlaces DEF TypeOK
<1>5. HistoryAt(entity)' /\ HistoryAt(saved[3])' /\ PathsAgree(entity)' /\ PathsAgree(saved[3])'
    BY <1>1, <1>4 DEF HistoryAt, PathsAgree
<1>6. DataIsKnown' /\ DataPaths'
    <2>1. DataPaths'
        BY <1>1 DEF Build, Migrate, AttachPlatforms, setup, DataPaths
    <2> QED BY <1>1, <1>3, <2>1, ByPathIds DEF DataIsKnown
<1>7. WaitingIsKnown'
    <2>1. CASE \E answered \in BOOLEAN : Build(answered)
        <3>1. \A d \in Plugged : d \in Drives /\ known[d] = IdOf(d, Plugged)
            BY PluggedDrives DEF KnownOwn
        <3> QED BY <1>1, <2>1, <3>1 DEF Build, WaitingIsKnown
    <2>2. CASE AttachPlatforms \/ \E answered \in BOOLEAN : Migrate(answered)
        BY <2>2 DEF AttachPlatforms, Migrate, setup, WaitingIsKnown
    <2> QED BY <2>1, <2>2
<1>8. MovedOn' /\ Shown' /\ BrokenByPath'
    BY DEF Build, Migrate, AttachPlatforms, setup, MovedOn, Shown, BrokenByPath
<1> QED BY <1>2, <1>5, <1>6, <1>7, <1>8

LEMMA KeptStops == ASSUME TypeOK, KnownOwn, Kept, Unload \/ Crash PROVE Kept'
<1> USE DEF Kept
<1>1. UNCHANGED <<at, known, Plugged>> /\ phase' = "down" /\ DOMAIN data' = {} /\ waiting' = {}
    BY DEF Unload, Crash, Stopped, history, Plugged
<1>2. KnownApart' /\ PathsTold' /\ TwinsStay' /\ NoTwinSeen'
    BY <1>1 DEF KnownApart, PathsTold, TwinsStay, NoTwinSeen
<1>3. entity' \in {entity, saved[3]} /\ saved[3]' \in {entity, saved[3]}
    BY DEF Unload, Crash, files
<1>4. HistoryAt(entity)' /\ HistoryAt(saved[3])' /\ PathsAgree(entity)' /\ PathsAgree(saved[3])'
    BY <1>1, <1>3 DEF HistoryAt, PathsAgree
<1>5. DataIsKnown' /\ DataPaths' /\ WaitingIsKnown' /\ MovedOn' /\ Shown' /\ BrokenByPath'
    BY <1>1 DEF DataIsKnown, DataPaths, WaitingIsKnown, MovedOn, Shown, BrokenByPath
<1> QED BY <1>2, <1>4, <1>5

\* Only its own history is under the id of a disk that is listed.
LEMMA UnderItsId ==
    ASSUME TypeOK, KnownOwn, Kept, NEW i \in DOMAIN data
    PROVE  /\ data[i].disk \in Drives /\ i \in Ids /\ i # None
           /\ <<"node", i>> \in UniqueIds
           /\ i \notin Paths => <<"node", i>> \notin ByPath
           /\ entity[<<"node", i>>] \in {None, data[i].disk}
<1> DEFINE d == data[i].disk
           n == <<"node", i>>
<1>1. d \in Drives /\ known[d] = i /\ i \in Ids
    BY DEF Kept, DataIsKnown, TypeOK, DataOK
<1>2. i # None
    BY <1>1, NamingAssumption DEF Ids, Own
<1>3. n \in UniqueIds /\ (n \in ByPath <=> i \in Paths) /\ n[2] = i
    BY <1>1 DEF UniqueIds, ByPath
<1>4. ASSUME entity[n] # None, i \in Paths PROVE entity[n] = d
    BY <1>3, <1>4 DEF Kept, DataIsKnown
<1>5. ASSUME entity[n] # None, i \notin Paths PROVE entity[n] = d
    <2>1. known[entity[n]] = i
        BY <1>3, <1>5 DEF Kept, HistoryAt
    <2>2. entity[n] \in Drives
        BY <1>3, <1>5 DEF TypeOK, Owners
    <2> QED BY <1>1, <1>2, <2>1, <2>2 DEF Kept, KnownApart
<1> QED BY <1>1, <1>2, <1>3, <1>4, <1>5

\* No other history is under the WWN of a disk that goes by another id.
LEMMA WwnIsFree ==
    ASSUME TypeOK, KnownOwn, Kept, NEW i \in DOMAIN data, Wwn[data[i].disk] \notin {None, i}
    PROVE  entity[<<"node", Wwn[data[i].disk]>>] = None
<1> DEFINE d == data[i].disk
           e == entity[<<"node", Wwn[d]>>]
<1> SUFFICES ASSUME e # None PROVE FALSE
    OBVIOUS
<1>1. d \in Drives /\ known[d] = i /\ i # None
    BY UnderItsId DEF Kept, DataIsKnown
<1>2. Wwn[d] \in Own(d) /\ Wwn[d] \in Ids \ Paths
    BY <1>1, NamingAssumption DEF Own, Ids
<1>3. <<"node", Wwn[d]>> \in UniqueIds \ ByPath
    BY <1>2 DEF UniqueIds, ByPath
<1>4. e \in Drives /\ known[e] = Wwn[d]
    BY <1>3 DEF Kept, HistoryAt, TypeOK, Owners
<1>5. d # e /\ Wwn[d] \in Own(e)
    BY <1>1, <1>2, <1>4, NamingAssumption DEF KnownOwn, Own
<1>6. Wwn[e] = Wwn[d]
    BY <1>1, <1>2, <1>4, <1>5, SameName
<1> QED BY <1>1, <1>4, <1>5, <1>6 DEF Kept, NoTwinSeen

\* A former id that is found is a path with the history of the disk, and the
\* only place of it.
LEMMA FoundOnce ==
    ASSUME TypeOK, KnownOwn, Kept, NEW i \in DOMAIN data, NEW k \in Found(i)
    PROVE  /\ Found(i) = {k}
           /\ FormerIds(i)[k] \in ByPath
           /\ entity[FormerIds(i)[k]] = data[i].disk
           /\ i \notin Paths => entity[<<"node", i>>] = None
<1> DEFINE d == data[i].disk
           p == data[i].path
<1>1. p \in Paths /\ d \in Drives /\ d # None
    BY NamingAssumption DEF TypeOK, DataOK
<1>2. /\ FormerIds(i)[1] = <<"entry", p>> /\ FormerIds(i)[2] = <<"node", p>>
      /\ DOMAIN FormerIds(i) \subseteq 1..3
      /\ 3 \in DOMAIN FormerIds(i) =>
             Wwn[d] \notin {None, i} /\ FormerIds(i)[3] = <<"node", Wwn[d]>>
    BY DEF FormerIds
<1>3. Found(i) \subseteq {1, 2}
    BY <1>2, WwnIsFree DEF Found
<1>4. \A j \in {1, 2} : FormerIds(i)[j] \in ByPath /\ FormerIds(i)[j][2] = p
    BY <1>1, <1>2 DEF ByPath
<1>5. \A j \in Found(i) : entity[FormerIds(i)[j]] = d
    BY <1>3, <1>4 DEF Found, Kept, DataIsKnown
<1>6. \A u \in UniqueIds : entity[u] = d => u = FormerIds(i)[k]
    BY <1>1, <1>3, <1>4, <1>5, ByPathIds DEF Kept, HistoryAt
<1>7. FormerIds(i)[1] # FormerIds(i)[2]
    BY <1>2
<1>8. Found(i) = {k}
    BY <1>3, <1>4, <1>5, <1>6, <1>7, ByPathIds
<1>9. i \notin Paths => entity[<<"node", i>>] = None
    BY <1>3, <1>4, <1>6, UnderItsId
<1> QED BY <1>3, <1>4, <1>5, <1>8, <1>9

LEMMA NotTaken ==
    ASSUME TypeOK, KnownOwn, Kept, NEW i \in DOMAIN data, i \notin Paths PROVE ~Taken(i)
<1>1. data[i].path # i
    BY DEF TypeOK, DataOK
<1>2. CASE Found(i) = {}
    BY <1>2, FS_EmptySet DEF Taken
<1>3. ASSUME NEW k \in Found(i) PROVE ~Taken(i)
    <2>1. Found(i) = {k} /\ entity[<<"node", i>>] = None
        BY <1>3, FoundOnce
    <2>2. Cardinality(Found(i)) = 1
        BY <2>1, FS_Singleton
    <2> QED BY <1>1, <2>1, <2>2 DEF Taken
<1> QED BY <1>2, <1>3

\* The history of a disk moves to its id, or stays where it is.
LEMMA RenamedIs ==
    ASSUME TypeOK, KnownOwn, Kept, NEW i \in DOMAIN data
    PROVE  /\ \A u \in UniqueIds : u # <<"node", i>> => Renamed(i)[u] \in {entity[u], None}
           /\ Renamed(i)[<<"node", i>>] \in {None, data[i].disk}
           /\ \A u \in ByPath \ {<<"node", i>>} : Renamed(i)[u] # data[i].disk
           /\ HistoryAt(Renamed(i))
<1> DEFINE d == data[i].disk
           n == <<"node", i>>
<1>1. d \in Drives /\ d # None /\ known[d] = i /\ i # None
    BY UnderItsId, NamingAssumption DEF Kept, DataIsKnown
<1>2. n \in UniqueIds /\ entity[n] \in {None, d}
    BY UnderItsId
<1>3. CASE Found(i) = {}
    <2>1. Renamed(i) = entity
        BY <1>3 DEF Renamed
    <2>2. ASSUME NEW u \in ByPath, entity[u] = d PROVE FALSE
        <3>1. u \in {<<"entry", data[i].path>>, <<"node", data[i].path>>}
            BY <1>1, <2>2 DEF Kept, DataIsKnown, ByPath
        <3>2. 1 \in Found(i) \/ 2 \in Found(i)
            BY <1>1, <2>2, <3>1 DEF Found, FormerIds
        <3> QED BY <1>3, <3>2
    <2> QED BY <1>2, <2>1, <2>2 DEF Kept
<1>5. CASE Found(i) # {} /\ entity[n] # None
    <2>1. Renamed(i) = entity /\ entity[n] = d
        BY <1>2, <1>5 DEF Renamed
    <2>2. \A u \in UniqueIds : entity[u] = d => u = n
        BY <1>1, <1>2, <2>1 DEF Kept, HistoryAt
    <2> QED BY <1>2, <2>1, <2>2, ByPathIds DEF Kept
<1>4. ASSUME NEW k \in Found(i), entity[n] = None
      PROVE  /\ \A u \in UniqueIds : u # n => Renamed(i)[u] \in {entity[u], None}
             /\ Renamed(i)[n] \in {None, d}
             /\ \A u \in ByPath \ {n} : Renamed(i)[u] # d
             /\ HistoryAt(Renamed(i))
    <2> DEFINE f == FormerIds(i)[k]
    <2>1. Found(i) = {k} /\ f \in ByPath /\ entity[f] = d /\ entity[n] = None
        BY <1>4, FoundOnce
    <2>2. FirstFound(i) = f
        <3>1. k \in Nat /\ k <= k
            BY <1>4 DEF Found, FormerIds
        <3> QED BY <2>1, <3>1 DEF FirstFound
    <2>3. Renamed(i) = [entity EXCEPT ![n] = entity[f], ![f] = None]
        BY <2>1, <2>2 DEF Renamed
    <2>4. f \in UniqueIds /\ f # n
        BY <1>1, <2>1, ByPathIds
    <2>5. \A u \in UniqueIds :
              Renamed(i)[u] = IF u = f THEN None ELSE IF u = n THEN d ELSE entity[u]
        BY <2>1, <2>3, <2>4 DEF TypeOK, Owners
    <2>6. \A u \in UniqueIds : entity[u] = d => u = f
        BY <1>1, <2>1, <2>4 DEF Kept, HistoryAt
    <2> HIDE DEF f
    <2>7. HistoryAt(Renamed(i))
        <3> SUFFICES ASSUME NEW u \in UniqueIds, Renamed(i)[u] # None
                     PROVE  /\ known[Renamed(i)[u]] # None
                            /\ u \in ByPath \/ u = <<"node", known[Renamed(i)[u]]>>
                            /\ \A v \in UniqueIds : Renamed(i)[v] = Renamed(i)[u] => u = v
            BY DEF HistoryAt
        <3>1. CASE u = n
            BY <1>1, <1>2, <2>5, <2>6, <3>1
        <3>2. CASE u # n
            <4>1. u # f /\ Renamed(i)[u] = entity[u] /\ entity[u] # None /\ entity[u] # d
                BY <2>5, <2>6, <3>2
            <4> QED BY <2>5, <4>1 DEF Kept, HistoryAt
        <3> QED BY <3>1, <3>2
    <2> QED BY <1>2, <2>4, <2>5, <2>6, <2>7, ByPathIds
<1> QED BY <1>3, <1>4, <1>5

LEMMA KeptMove ==
    ASSUME TypeOK, WaitingListed, KnownOwn, Kept, NEW i \in Ids, MoveEntity(i)
    PROVE  Kept'
<1>1. /\ UNCHANGED <<at, saved, data, known, Plugged>>
      /\ phase = "moving" /\ phase' \in {"moving", "broken"} /\ waiting' = waiting \ {i}
      /\ i \in DOMAIN data /\ entity' = Renamed(i)
    BY DEF MoveEntity, WaitingListed, history, Plugged
<1>2. /\ \A u \in UniqueIds : u # <<"node", i>> => entity'[u] \in {entity[u], None}
      /\ entity'[<<"node", i>>] \in {None, data[i].disk}
      /\ \A u \in ByPath \ {<<"node", i>>} : entity'[u] # data[i].disk
      /\ HistoryAt(entity')
    BY <1>1, RenamedIs
<1>3. DataOK /\ \A j \in DOMAIN data : known[data[j].disk] = j
    BY DEF TypeOK, Kept, DataIsKnown
\* What is new under a path is of the disk that is known by it.
<1>4. \A u \in ByPath : \/ entity'[u] \in {entity[u], None}
                       \/ /\ i \in Paths /\ u = <<"node", i>> /\ entity'[u] = data[i].disk
    BY <1>2, ByPathIds DEF ByPath
<1>5. PathsAgree(entity)' /\ DataIsKnown'
    <2>1. ASSUME i \in Paths, NEW e \in Plugged PROVE data[i].disk = e <=> at[e] = i
        <3>1. data[i].disk \in Drives /\ known[data[i].disk] = i
            BY <1>1, <1>3 DEF DataOK
        <3> QED BY <2>1, <3>1, KnownByPath DEF Kept, PathsTold
    <2>2. PathsAgree(entity')
        BY <1>4, <2>1 DEF Kept, PathsAgree
    <2>3. ASSUME i \in Paths, NEW j \in DOMAIN data
          PROVE  data[i].disk = data[j].disk <=> data[j].path = i
        BY <1>1, <1>3, <2>3 DEF Kept, DataIsKnown, DataPaths
    <2>4. DataIsKnown'
        BY <1>1, <1>4, <2>3 DEF Kept, DataIsKnown
    <2> QED BY <1>1, <2>2, <2>4 DEF PathsAgree
<1>6. MovedOn'
    <2> SUFFICES ASSUME NEW j \in DOMAIN data, j \notin waiting',
                        NEW u \in ByPath, u # <<"node", j>>, entity'[u] = data[j].disk
                 PROVE  FALSE
        BY <1>1 DEF MovedOn
    <2>1. j # i
        BY <1>2
    <2>2. j \notin waiting /\ data[j].disk # None /\ data[j].disk # data[i].disk
        BY <1>1, <1>3, <2>1, NamingAssumption DEF DataOK
    <2> QED BY <1>1, <1>4, <2>2 DEF Kept, MovedOn
<1>7. /\ KnownApart' /\ PathsTold' /\ TwinsStay' /\ NoTwinSeen'
      /\ HistoryAt(entity)' /\ HistoryAt(saved[3])' /\ PathsAgree(saved[3])'
    BY <1>1, <1>2 DEF Kept, KnownApart, PathsTold, TwinsStay, NoTwinSeen, HistoryAt, PathsAgree
<1>8. WaitingIsKnown' /\ Shown' /\ DataPaths'
    BY <1>1 DEF Kept, WaitingIsKnown, Shown, DataPaths
<1>9. BrokenByPath'
    <2>1. phase' = "broken" => i \in Paths
        BY <1>1, NotTaken DEF MoveEntity
    <2> QED BY <1>1, <2>1 DEF Kept, DataIsKnown, BrokenByPath
<1> QED BY <1>5, <1>6, <1>7, <1>8, <1>9 DEF Kept

LEMMA KeptAppear == ASSUME TypeOK, KnownOwn, Kept, Appear PROVE Kept'
<1>1. /\ UNCHANGED <<at, saved, data, known, Plugged>>
      /\ phase = "moving" /\ phase' = "loaded" /\ waiting = {} /\ waiting' = {}
      /\ entity' = [u \in UniqueIds |->
                       IF u[1] = "node" /\ u[2] \in DOMAIN data /\ entity[u] = None
                       THEN data[u[2]].disk ELSE entity[u]]
    BY DEF Appear, Ready, history, Plugged
<1>2. \A i \in DOMAIN data :
          /\ <<"node", i>> \in UniqueIds /\ data[i].disk # None
          /\ data[i].disk \in Drives /\ known[data[i].disk] = i
          /\ entity'[<<"node", i>>] = data[i].disk
    BY <1>1, UnderItsId, NamingAssumption DEF Kept, DataIsKnown
\* What is new under a path is of the disk that is known by it.
<1>3. \A u \in ByPath :
          \/ entity'[u] = entity[u]
          \/ /\ u[2] \in DOMAIN data \cap Paths /\ u = <<"node", u[2]>>
             /\ entity'[u] = data[u[2]].disk
    BY <1>1, ByPathIds DEF ByPath
<1>4. HistoryAt(entity')
    <2>1. ASSUME NEW i \in DOMAIN data, NEW u \in UniqueIds, entity[u] = data[i].disk
          PROVE  u = <<"node", i>>
        <3>1. u \notin ByPath \ {<<"node", i>>}
            BY <1>1, <2>1 DEF Kept, MovedOn
        <3>2. entity[u] # None /\ known[entity[u]] = i
            BY <1>2, <2>1 DEF Kept, DataIsKnown
        <3> QED BY <3>1, <3>2 DEF Kept, HistoryAt
    <2>2. ASSUME NEW u \in UniqueIds, entity'[u] # None
          PROVE  \/ entity'[u] = entity[u]
                 \/ u[2] \in DOMAIN data /\ u = <<"node", u[2]>> /\ entity'[u] = data[u[2]].disk
        BY <1>1, <2>2 DEF UniqueIds
    <2>3. ASSUME NEW u \in UniqueIds, NEW i \in DOMAIN data, entity'[u] = data[i].disk
          PROVE  u = <<"node", i>>
        <3>1. CASE entity'[u] = entity[u]
            BY <2>1, <2>3, <3>1
        <3>2. CASE entity'[u] # entity[u]
            <4>1. entity'[u] # None
                BY <1>2, <2>3
            <4>2. u[2] \in DOMAIN data /\ u = <<"node", u[2]>> /\ data[u[2]].disk = data[i].disk
                BY <2>2, <2>3, <3>2, <4>1
            <4>3. u[2] = i
                BY <4>2 DEF Kept, DataIsKnown
            <4> QED BY <4>2, <4>3
        <3> QED BY <3>1, <3>2
    <2> SUFFICES ASSUME NEW u \in UniqueIds, entity'[u] # None
                 PROVE  /\ known[entity'[u]] # None
                        /\ u \in ByPath \/ u = <<"node", known[entity'[u]]>>
                        /\ \A v \in UniqueIds : entity'[v] = entity'[u] => u = v
        BY DEF HistoryAt
    <2>4. CASE \E i \in DOMAIN data : entity'[u] = data[i].disk
        BY <2>3, <2>4, UnderItsId DEF Kept, DataIsKnown
    <2>5. CASE ~\E i \in DOMAIN data : entity'[u] = data[i].disk
        BY <2>2, <2>5 DEF Kept, HistoryAt
    <2> QED BY <2>4, <2>5
<1>5. HistoryAt(entity)' /\ PathsAgree(entity)' /\ DataIsKnown'
    <2>1. ASSUME NEW p \in DOMAIN data \cap Paths, NEW e \in Plugged
          PROVE  data[p].disk = e <=> at[e] = p
        BY <1>2, KnownByPath DEF Kept, PathsTold
    <2>2. PathsAgree(entity')
        BY <1>3, <2>1 DEF Kept, PathsAgree
    <2>3. ASSUME NEW p \in DOMAIN data \cap Paths, NEW j \in DOMAIN data
          PROVE  data[p].disk = data[j].disk <=> data[j].path = p
        BY <1>2 DEF Kept, DataIsKnown, DataPaths
    <2>4. DataIsKnown'
        BY <1>1, <1>3, <2>3 DEF Kept, DataIsKnown
    <2> QED BY <1>1, <1>4, <2>2, <2>4 DEF PathsAgree, HistoryAt
<1>6. MovedOn' /\ Shown'
    <2>1. ASSUME NEW i \in DOMAIN data, NEW u \in ByPath, u # <<"node", i>>,
                 entity'[u] = data[i].disk
          PROVE  FALSE
        <3>1. entity[u] # data[i].disk
            BY <1>1, <2>1 DEF Kept, MovedOn
        <3>2. PICK p \in DOMAIN data : u = <<"node", p>> /\ entity'[u] = data[p].disk
            BY <1>3, <2>1, <3>1
        <3>3. p = i
            BY <1>2, <2>1, <3>2
        <3> QED BY <2>1, <3>2, <3>3
    <2>2. MovedOn'
        BY <1>1, <2>1 DEF MovedOn
    <2> QED BY <1>1, <1>2, <2>2 DEF Shown
<1>7. /\ KnownApart' /\ PathsTold' /\ TwinsStay' /\ NoTwinSeen'
      /\ HistoryAt(saved[3])' /\ PathsAgree(saved[3])'
    BY <1>1 DEF Kept, KnownApart, PathsTold, TwinsStay, NoTwinSeen, HistoryAt, PathsAgree
<1>8. WaitingIsKnown' /\ DataPaths' /\ BrokenByPath'
    BY <1>1 DEF Kept, WaitingIsKnown, DataPaths, BrokenByPath
<1> QED BY <1>5, <1>6, <1>7, <1>8 DEF Kept

LEMMA KeptStep == KInv /\ [Next]_vars => KInv'
<1> SUFFICES ASSUME KInv, [Next]_vars PROVE KInv'
    OBVIOUS
<1>1. IInv' /\ PathsApart' /\ TypeOK /\ WaitingListed /\ KnownOwn
    BY TypeStep, WaitingStep, PathsApartStep DEF KInv, IInv
<1>2. CASE \E d \in Drives : Changes(d)
    <2>1. KnownOwn' /\ (~astray' => ~astray)
        BY <1>1, <1>2, KnownOwnStep DEF Changes
    <2>2. ~astray' => Kept'
        BY <1>1, <1>2, <2>1, KeptChanges DEF KInv
    <2> QED BY <1>1, <2>1, <2>2 DEF KInv
<1>3. ASSUME UNCHANGED <<at, known, astray>>, Kept => Kept' PROVE KInv'
    <2>1. KnownOwn'
        BY <1>1, <1>3 DEF KnownOwn, Plugged, IdOf, Colliding
    <2> QED BY <1>1, <1>3, <2>1 DEF KInv
<1>4. CASE AttachPlatforms \/ \E answered \in BOOLEAN : Build(answered) \/ Migrate(answered)
    <2>1. UNCHANGED <<at, known, astray>>
        BY <1>4 DEF AttachPlatforms, Build, Migrate, history
    <2> QED BY <1>1, <1>3, <1>4, <2>1, KeptSetup
<1>5. ASSUME NEW i \in Ids, Refresh(i) PROVE KInv'
    BY <1>1, <1>3, <1>5, KeptRefresh DEF Refresh, history
<1>6. ASSUME NEW i \in Ids, MoveEntity(i) PROVE KInv'
    BY <1>1, <1>3, <1>6, KeptMove DEF MoveEntity, history
<1>7. CASE Appear
    BY <1>1, <1>3, <1>7, KeptAppear DEF Appear, history
<1>8. CASE Unload \/ Crash
    <2>1. UNCHANGED <<at, known, astray>>
        BY <1>8 DEF Unload, Crash, history
    <2> QED BY <1>1, <1>3, <1>8, <2>1, KeptStops
<1>9. CASE UNCHANGED vars
    <2>1. UNCHANGED <<at, entity, saved, phase, data, waiting, known, astray, Plugged>>
        BY <1>9 DEF vars, files, setup, history, Plugged
    <2>2. Kept => Kept'
        BY <2>1 DEF Kept, KnownApart, PathsTold, TwinsStay, NoTwinSeen, HistoryAt, PathsAgree,
                    DataIsKnown, DataPaths, WaitingIsKnown, MovedOn, Shown, BrokenByPath
    <2> QED BY <1>3, <2>1, <2>2
<1> QED BY <1>2, <1>4, <1>5, <1>6, <1>7, <1>8, <1>9 DEF Next

LEMMA KeptAlways == Spec => []KInv
BY KeptInit, KeptStep, PTL DEF Spec

\* OneHistoryPerDisk of Disks, for any drives, any number of them with one WWN,
\* and any number of changes, repeated setups, skipped migrations and stops.
THEOREM OneHistory == Spec => []OneHistoryPerDisk
<1>1. KInv => OneHistoryPerDisk
    <2> SUFFICES ASSUME KInv, phase = "loaded", ~astray, NEW i \in DOMAIN data
                 PROVE  {u \in UniqueIds : entity[u] = data[i].disk} = {<<"node", i>>}
        BY DEF OneHistoryPerDisk, TellApart
    <2>1. TypeOK /\ KnownOwn /\ Kept
        BY DEF KInv, IInv
    <2>2. <<"node", i>> \in UniqueIds /\ entity[<<"node", i>>] = data[i].disk /\ data[i].disk # None
        BY <2>1, UnderItsId, NamingAssumption DEF Kept, Shown
    <2>3. \A u \in UniqueIds : entity[u] = data[i].disk => u = <<"node", i>>
        BY <2>1, <2>2 DEF Kept, HistoryAt
    <2> QED BY <2>2, <2>3
<1> QED BY KeptAlways, <1>1, PTL

\* PlatformsAreSetUp of Disks: while the drives keep their ids, only a disk
\* that is known by its path is refused the one it has.
THEOREM PlatformsComeUp == Spec => []PlatformsAreSetUp
<1>1. KInv => PlatformsAreSetUp
    BY DEF KInv, Kept, BrokenByPath, PlatformsAreSetUp, TellApart
<1> QED BY KeptAlways, <1>1, PTL

-----------------------------------------------------------------------------
(* The devices.                                                            *)

\* Where the device of a drive may be: under its path, its id, or what version
\* 6 named it by.
DeviceAt(D) ==
    \A j \in Ids : D[j] # None =>
        known[D[j]] # None /\ (j \in Paths \/ j = known[D[j]] \/ j = OldId(6, D[j]))

DevicePathsAgree(D) ==
    \A d \in Plugged : \A p \in Paths : D[p] # None => (D[p] = d <=> at[d] = p)

\* What the migrations up to a version leave of that, of the drives they moved.
MovedTo(v, D) ==
    \A j \in Ids : D[j] \notin unmoved \cup {None} =>
        (v >= 6 => j \notin Paths \/ j = known[D[j]]) /\ (v = 7 => j = known[D[j]])

\* Nor is there another's device under a path that a disk is known by.
DataDevice == \A i \in DOMAIN data \cap Paths : device[i] \in {None, data[i].disk}

DeviceShown == phase = "loaded" => \A i \in DOMAIN data : device[i] = data[i].disk

Placed ==
    /\ DeviceAt(device) /\ DeviceAt(saved[2])
    /\ DevicePathsAgree(device) /\ DevicePathsAgree(saved[2])
    /\ MovedTo(version, device) /\ MovedTo(saved[1], saved[2])
    /\ DataDevice /\ DeviceShown

\* Setup is only begun with the last version, and the files are never newer.
Versions == saved[1] <= version /\ (phase # "down" => version = 7)

PInv == KInv /\ Versions /\ (~astray => Placed)

LEMMA OldIdOwn ==
    ASSUME NEW d \in Drives, NEW i \in Own(d), NEW e \in Drives, i = OldId(6, e)
    PROVE  d = e
<1>1. i # None /\ i \in {Serial[e], Link[e]}
    BY DEF OldId, Own
<1>2. i \in Own(e)
    BY <1>1 DEF Own
<1> QED BY <1>1, <1>2, SameName, NamingAssumption

LEMMA PlacedInit == Init => PInv
<1> SUFFICES ASSUME Init PROVE PInv
    OBVIOUS
<1>1. KInv /\ TypeOK /\ KnownOwn
    BY KeptInit DEF KInv, IInv
<1>2. /\ saved[1] = version /\ saved[2] = device /\ phase = "down" /\ unmoved = {}
      /\ version \in 5..7
    BY DEF Init, files
<1>3. Versions
    BY <1>2 DEF Versions
<1> DEFINE before == IF version = 7 THEN {} ELSE Plugged
<1>4. PICK form \in [Plugged -> {"entry", "node", "today"}] :
          device = [i \in Ids |->
              IF \E d \in before :
                     i = OldId(version, d) \/ (form[d] = "today" /\ i = IdOf(d, Plugged))
              THEN CHOOSE d \in before :
                     i = OldId(version, d) \/ (form[d] = "today" /\ i = IdOf(d, Plugged))
              ELSE None]
    BY DEF Init
<1>5. before \subseteq Plugged /\ (version = 7 => before = {})
    OBVIOUS
<1> HIDE DEF before
<1>6. \A j \in Ids : device[j] # None =>
          /\ version # 7 /\ device[j] \in Plugged
          /\ j \in {OldId(version, device[j]), known[device[j]]}
    BY <1>1, <1>4, <1>5 DEF KnownOwn
<1>7. \A d \in Plugged : /\ d \in Drives /\ at[d] \in Paths /\ known[d] # None
                         /\ known[d] \in Paths => known[d] = at[d]
    BY <1>1, KnownByPath DEF Plugged, TypeOK, KnownOwn
<1>8. \A j \in Ids : device[j] # None =>
          (version = 5 /\ j = at[device[j]]) \/ j = known[device[j]]
          \/ (version = 6 /\ j = OldId(6, device[j]))
    BY <1>2, <1>6 DEF OldId
<1>9. \A d \in Drives : OldId(6, d) \notin Paths
    BY NamingAssumption DEF OldId, Own
<1>10. DeviceAt(device)
    BY <1>6, <1>7, <1>8 DEF DeviceAt
<1>11. DevicePathsAgree(device)
    <2> SUFFICES ASSUME NEW d \in Plugged, NEW p \in Paths, device[p] # None
                 PROVE  device[p] = d <=> at[d] = p
        BY DEF DevicePathsAgree
    <2>1. device[p] \in Plugged /\ p = at[device[p]]
        BY <1>6, <1>7, <1>8, <1>9 DEF Ids
    <2>2. \A e, f \in Plugged : at[e] = at[f] => e = f
        BY DEF Init, Plugged
    <2> QED BY <2>1, <2>2
<1>12. MovedTo(version, device)
    BY <1>2, <1>6, <1>7, <1>8, <1>9 DEF MovedTo
<1>13. DataDevice
    BY DEF Init, DataDevice
<1> QED BY <1>1, <1>2, <1>3, <1>10, <1>11, <1>12, <1>13 DEF PInv, Placed, DeviceShown

LEMMA VersionsStep == TypeOK /\ Versions /\ [Next]_vars => Versions'
<1> SUFFICES ASSUME TypeOK, Versions, [Next]_vars PROVE Versions'
    OBVIOUS
<1>1. version \in 5..7 /\ saved[1] \in 5..7
    BY DEF TypeOK
<1>2. CASE (\E d \in Drives : Changes(d)) \/ (\E i \in Ids : Refresh(i) \/ MoveEntity(i))
    BY <1>2 DEF Changes, Refresh, MoveEntity, Versions, files, setup
<1>3. CASE \E answered \in BOOLEAN : Migrate(answered) \/ Build(answered)
    BY <1>1, <1>3 DEF Migrate, Build, Versions, files, setup
<1>4. CASE AttachPlatforms \/ Appear
    BY <1>4 DEF AttachPlatforms, Appear, Versions, files
<1>5. CASE Unload \/ Crash
    BY <1>1, <1>5 DEF Unload, Crash, Stopped, Versions, files
<1>6. CASE UNCHANGED vars
    BY <1>6 DEF vars, files, setup, Versions
<1> QED BY <1>2, <1>3, <1>4, <1>5, <1>6 DEF Next

LEMMA PlacedChanges ==
    ASSUME TypeOK, KnownOwn, Placed, NEW d \in Drives, Changes(d), ~astray' PROVE Placed'
<1>1. /\ UNCHANGED <<version, device, saved, phase, data, unmoved>>
      /\ \A e \in Drives : known[e] # None => known'[e] = known[e]
      /\ ~Astray(at', device, entity) /\ ~Astray(at', saved[2], saved[3])
    BY DEF Changes, files, setup
<1>2. device \in Owners(Ids) /\ saved[2] \in Owners(Ids)
    BY DEF TypeOK
<1>3. ASSUME NEW D \in Owners(Ids), DeviceAt(D) PROVE DeviceAt(D)'
    BY <1>1, <1>3 DEF DeviceAt, Owners, OldId
<1>4. ASSUME NEW D \in Owners(Ids), NEW v, DeviceAt(D), MovedTo(v, D) PROVE MovedTo(v, D)'
    BY <1>1, <1>4 DEF DeviceAt, MovedTo, Owners
<1>5. ASSUME NEW D, NEW E, ~Astray(at', D, E) PROVE DevicePathsAgree(D)'
    <2> SUFFICES ASSUME NEW e \in Plugged', NEW p \in Paths, D[p] # None
                 PROVE  D[p] = e <=> at'[e] = p
        BY DEF DevicePathsAgree
    <2>1. e \in {x \in Drives : at'[x] # None}
        BY DEF Plugged
    <2>2. D[p] \in {D[p], E[<<"entry", p>>], E[<<"node", p>>]} \ {None}
        OBVIOUS
    <2>3. \A x \in {D[p], E[<<"entry", p>>], E[<<"node", p>>]} \ {None} :
              (x = e) = (at'[e] = p)
        BY <1>5, <2>1, NotAstray
    <2> QED BY <2>2, <2>3
<1>6. DeviceAt(device)' /\ DeviceAt(saved[2])'
    BY <1>1, <1>2, <1>3 DEF Placed
<1>7. MovedTo(version, device)' /\ MovedTo(saved[1], saved[2])'
    BY <1>1, <1>2, <1>4 DEF Placed
<1>8. DevicePathsAgree(device)' /\ DevicePathsAgree(saved[2])'
    BY <1>1, <1>5
<1>9. DeviceShown' /\ DataDevice'
    BY <1>1 DEF Placed, DeviceShown, DataDevice
<1> QED BY <1>6, <1>7, <1>8, <1>9 DEF Placed

\* What is found under the old id of a drive that is there is its own device.
LEMMA MovingOwn ==
    ASSUME TypeOK, KnownOwn, Placed, NEW v \in {5, 6}, NEW d \in Moving(v)
    PROVE  d \in Plugged /\ OldId(v, d) \in Ids /\ device[OldId(v, d)] = d
<1>1. d \in Plugged /\ d \in Drives /\ at[d] \in Paths
    BY DEF Moving, Plugged, TypeOK
<1>2. OldId(v, d) # None /\ device[OldId(v, d)] # None
    BY DEF Moving
<1>3. CASE v = 5
    BY <1>1, <1>2, <1>3 DEF OldId, Placed, DevicePathsAgree, Ids
<1>4. CASE v = 6
    <2> DEFINE j == OldId(6, d)
               e == device[j]
    <2>1. j \in Own(d) /\ j \in Ids /\ j \notin Paths
        BY <1>1, <1>2, <1>4, NamingAssumption DEF OldId, Own, Ids
    <2>2. e \in Drives /\ (j = known[e] \/ j = OldId(6, e))
        BY <1>2, <1>4, <2>1 DEF Placed, DeviceAt, TypeOK, Owners
    <2>3. CASE j = OldId(6, e)
        BY <1>1, <1>4, <2>1, <2>2, <2>3, OldIdOwn
    <2>4. CASE j = known[e]
        <3>1. j \in Own(e) /\ j # None
            BY <1>2, <1>4, <2>1, <2>2, <2>4 DEF KnownOwn
        <3> QED BY <1>1, <1>4, <2>1, <2>2, <3>1, OldIdOwn
    <2> QED BY <1>4, <2>1, <2>2, <2>3, <2>4
<1> QED BY <1>1, <1>3, <1>4

\* A disk that is known by its path has had no other id.
LEMMA MovingTells ==
    ASSUME TypeOK, NEW v \in {5, 6}, NEW d \in Moving(v)
    PROVE  /\ IdOf(d, Plugged) \in Own(d) /\ IdOf(d, Plugged) \in Ids
           /\ IdOf(d, Plugged) \notin Paths
<1>1. d \in Drives /\ at[d] \in Paths
    BY PluggedDrives DEF Moving, Plugged, TypeOK
<1>2. IdOf(d, Plugged) # at[d]
    <2>1. CASE v = 5
        BY <2>1 DEF Moving, OldId
    <2>2. CASE v = 6
        <3>1. Serial[d] # None \/ Link[d] # None
            BY <2>2 DEF Moving, OldId
        <3>2. at[d] \notin Own(d)
            BY <1>1, NamingAssumption
        <3> QED BY <3>1, <3>2 DEF IdOf, Own
    <2> QED BY <2>1, <2>2
<1>3. IdOf(d, Plugged) \in Own(d)
    BY <1>1, <1>2, IdIsOwn
<1> QED BY <1>1, <1>3, NamingAssumption DEF Ids

\* After a step of the migration a device is where it was, or under today's id
\* of its drive, which has none under its old id any more.
LEMMA MovedIs ==
    ASSUME TypeOK, KnownOwn, KnownApart, Placed, NEW v \in {5, 6}, NEW j \in Ids, Moved(v)[j] # None
    PROVE  \/ /\ Moved(v)[j] = device[j]
              /\ ~\E d \in Moving(v) : OldId(v, d) = j
           \/ /\ Moved(v)[j] \in Plugged /\ j = known[Moved(v)[j]] /\ j \notin Paths
<1>1. CASE device[j] = None /\ \E d \in Moving(v) : IdOf(d, Plugged) = j
    <2> DEFINE d == CHOOSE d \in Moving(v) : IdOf(d, Plugged) = j
    <2>1. d \in Moving(v) /\ IdOf(d, Plugged) = j
        BY <1>1
    <2>2. Moved(v)[j] = device[OldId(v, d)]
        BY <1>1 DEF Moved
    <2> HIDE DEF d
    <2>3. Moved(v)[j] = d /\ d \in Plugged
        BY <2>1, <2>2, MovingOwn
    <2>4. known[d] = j /\ known[d] # None /\ d \in Drives
        BY <2>1, <2>3, PluggedDrives DEF KnownOwn
    <2>5. j \notin Paths
        BY <2>1, MovingTells
    <2> QED BY <2>3, <2>4, <2>5
<1>2. CASE ~(device[j] = None /\ \E d \in Moving(v) : IdOf(d, Plugged) = j)
    BY <1>2 DEF Moved
<1> QED BY <1>1, <1>2

LEMMA PlacedMigrate ==
    ASSUME TypeOK, Versions, KnownOwn, Kept, Placed, NEW answered \in BOOLEAN, Migrate(answered)
    PROVE  Placed'
<1>1. /\ UNCHANGED <<at, known, saved, phase, Plugged>> /\ phase = "down"
      /\ version \in {5, 6} /\ version' = version + 1
      /\ device' = IF answered THEN Moved(version) ELSE device
    BY DEF Migrate, setup, TypeOK, Plugged
<1>2. /\ \A d \in Drives : d \notin unmoved' => answered /\ d \in Plugged
      /\ version = 6 => unmoved \subseteq unmoved'
    BY <1>1 DEF Migrate
<1>3. /\ device \in Owners(Ids) /\ device' \in Owners(Ids)
      /\ saved[1] \in 5..7 /\ saved[2] \in Owners(Ids) /\ Paths \subseteq Ids
    BY TypeMigrate DEF TypeOK, Ids
<1>4. ASSUME NEW j \in Ids, device'[j] # None
      PROVE  \/ /\ device'[j] = device[j]
                /\ answered => ~\E d \in Moving(version) : OldId(version, d) = j
             \/ device'[j] \in Plugged /\ j = known[device'[j]] /\ j \notin Paths
    BY <1>1, <1>4, MovedIs DEF Kept
<1>5. DeviceAt(device')
    <2> SUFFICES ASSUME NEW j \in Ids, device'[j] # None
                 PROVE  /\ known[device'[j]] # None
                        /\ j \in Paths \/ j = known[device'[j]] \/ j = OldId(6, device'[j])
        BY DEF DeviceAt
    <2>1. CASE device'[j] = device[j]
        BY <2>1 DEF Placed, DeviceAt
    <2>2. CASE device'[j] \in Plugged /\ j = known[device'[j]]
        BY <2>2 DEF KnownOwn
    <2> QED BY <1>4, <2>1, <2>2
<1>6. DevicePathsAgree(device')
    BY <1>3, <1>4 DEF Placed, DevicePathsAgree
<1>7. ASSUME NEW j \in Ids, device'[j] \notin unmoved' \cup {None}
      PROVE  /\ j \notin Paths \/ j = known[device'[j]]
             /\ version = 6 => j = known[device'[j]]
    <2> DEFINE d == device'[j]
    <2>1. d \in Drives /\ answered /\ d \in Plugged
        BY <1>2, <1>3, <1>7 DEF Owners
    <2>2. CASE j = known[d] /\ j \notin Paths
        BY <2>2
    <2>3. CASE d = device[j] /\ ~\E e \in Moving(version) : OldId(version, e) = j
        <3>1. known[d] = IdOf(d, Plugged) /\ known[d] # None
            BY <2>1 DEF KnownOwn
        <3>2. OldId(version, d) = j => j = IdOf(d, Plugged)
            BY <1>7, <2>1, <2>3, NamingAssumption DEF Moving, Ids, Own
        <3>3. CASE version = 5
            <4>1. j \in Paths => at[d] = j
                BY <1>7, <2>1, <2>3 DEF Placed, DevicePathsAgree
            <4> QED BY <3>1, <3>2, <3>3, <4>1 DEF OldId
        <3>4. CASE version = 6
            <4>1. j \notin Paths \/ j = known[d]
                BY <1>2, <1>7, <2>3, <3>4 DEF Placed, MovedTo
            <4>2. j = known[d] \/ j = OldId(6, d)
                BY <1>7, <2>3, <4>1 DEF Placed, DeviceAt
            <4> QED BY <3>1, <3>2, <3>4, <4>1, <4>2
        <3> QED BY <1>1, <3>3, <3>4
    <2> QED BY <1>4, <1>7, <2>1, <2>2, <2>3
<1>8. MovedTo(version, device)'
    BY <1>1, <1>7 DEF MovedTo
<1>9. MovedTo(saved[1], saved[2])'
    <2>1. saved[1] <= version
        BY DEF Versions
    <2>2. CASE version = 5
        BY <1>1, <1>3, <2>1, <2>2 DEF MovedTo
    <2>3. CASE version = 6
        BY <1>1, <1>2, <2>3 DEF Placed, MovedTo
    <2> QED BY <1>1, <2>2, <2>3
<1>10. DeviceAt(device)' /\ DeviceAt(saved[2])'
    BY <1>1, <1>5 DEF Placed, DeviceAt, OldId
<1>11. DevicePathsAgree(device)' /\ DevicePathsAgree(saved[2])'
    BY <1>1, <1>6 DEF Placed, DevicePathsAgree
<1>12. DeviceShown' /\ DataDevice'
    <2>1. UNCHANGED data /\ DOMAIN data = {}
        BY <1>1 DEF Migrate, setup, Kept, DataPaths
    <2> QED BY <1>1, <2>1 DEF DeviceShown, DataDevice
<1> QED BY <1>8, <1>9, <1>10, <1>11, <1>12 DEF Placed

\* The device of a disk that is listed is the only one under its id.
LEMMA DeviceUnderItsId ==
    ASSUME TypeOK, KnownOwn, Kept, Placed, NEW i \in DOMAIN data
    PROVE  device[i] \in {None, data[i].disk}
<1> DEFINE d == data[i].disk
           e == device[i]
<1> SUFFICES ASSUME e # None PROVE e = d
    OBVIOUS
<1>1. d \in Drives /\ i \in Ids /\ i # None
    BY UnderItsId
<1>2. known[d] = i
    BY DEF Kept, DataIsKnown
<1>3. CASE i \in Paths
    BY <1>3 DEF Placed, DataDevice
<1>4. CASE i \notin Paths
    <2>1. i \in Own(d)
        BY <1>1, <1>2, <1>4 DEF KnownOwn
    <2>2. e \in Drives /\ (i = known[e] \/ i = OldId(6, e))
        BY <1>1, <1>4 DEF Placed, DeviceAt, TypeOK, Owners
    <2> QED BY <1>1, <1>2, <2>1, <2>2, OldIdOwn DEF Kept, KnownApart
<1> QED BY <1>3, <1>4

LEMMA PlacedAppear == ASSUME TypeOK, Versions, KnownOwn, Kept, Placed, Appear PROVE Placed'
<1>1. /\ UNCHANGED <<at, known, saved, data, version, unmoved, Plugged>>
      /\ device' = [i \in Ids |->
                       IF i \in DOMAIN data /\ device[i] = None THEN data[i].disk ELSE device[i]]
    BY DEF Appear, history, Plugged
<1>2. \A i \in DOMAIN data : /\ i \in Ids /\ i # None /\ known[data[i].disk] = i
                             /\ data[i].disk \in Drives
                             /\ device'[i] = data[i].disk /\ data[i].disk # None
    BY <1>1, UnderItsId, DeviceUnderItsId, NamingAssumption DEF Kept, DataIsKnown
<1>3. \A j \in Ids : \/ device'[j] = device[j]
                     \/ /\ device'[j] \in Drives /\ j = known[device'[j]] /\ j # None
    BY <1>1, <1>2
<1>4. DeviceAt(device')
    BY <1>3 DEF Placed, DeviceAt
<1>5. DevicePathsAgree(device')
    <2>1. ASSUME NEW p \in Paths, device'[p] \in Drives, p = known[device'[p]], NEW e \in Plugged
          PROVE  device'[p] = e <=> at[e] = p
        BY <2>1, KnownByPath DEF Kept, PathsTold
    <2> QED BY <1>3, <2>1 DEF Placed, DevicePathsAgree, Ids
<1>6. MovedTo(version, device')
    BY <1>3 DEF Placed, MovedTo
<1>7. DeviceAt(device)' /\ DeviceAt(saved[2])'
    BY <1>1, <1>4 DEF Placed, DeviceAt, OldId
<1>8. DevicePathsAgree(device)' /\ DevicePathsAgree(saved[2])'
    BY <1>1, <1>5 DEF Placed, DevicePathsAgree
<1>9. MovedTo(version, device)' /\ MovedTo(saved[1], saved[2])'
    BY <1>1, <1>6 DEF Placed, MovedTo
<1>10. DeviceShown' /\ DataDevice'
    BY <1>1, <1>2 DEF DeviceShown, DataDevice
<1> QED BY <1>7, <1>8, <1>9, <1>10 DEF Placed

LEMMA PlacedStops == ASSUME TypeOK, Versions, Placed, Unload \/ Crash PROVE Placed'
<1>1. /\ UNCHANGED <<at, known, Plugged>> /\ phase' = "down"
      /\ version' \in {version, saved[1]} /\ device' \in {device, saved[2]}
      /\ saved[2]' \in {device, saved[2]}
    BY DEF Unload, Crash, Stopped, files, history, Plugged
<1>2. /\ version \in 5..7 /\ saved[1] \in 5..7 /\ saved[1] <= version
      /\ device \in Owners(Ids) /\ saved[2] \in Owners(Ids)
    BY DEF TypeOK, Versions
<1>3. DeviceAt(device)' /\ DeviceAt(saved[2])'
    BY <1>1 DEF Placed, DeviceAt, OldId
<1>4. DevicePathsAgree(device)' /\ DevicePathsAgree(saved[2])'
    BY <1>1 DEF Placed, DevicePathsAgree
<1>7. DataDevice'
    BY DEF Unload, Crash, Stopped, DataDevice
<1>5. CASE Unload
    <2>1. MovedTo(version, device)' /\ MovedTo(saved[1], saved[2])'
        BY <1>5 DEF Unload, files, history, Placed, MovedTo
    <2> QED BY <1>1, <1>3, <1>4, <1>7, <2>1 DEF Placed, DeviceShown
<1>6. CASE Crash
    <2>1. MovedTo(version, device)'
        <3>1. CASE unmoved' = Drives
            BY <1>1, <1>2, <3>1 DEF MovedTo, Owners
        \* An older version asks for less.
        <3>2. CASE unmoved' = unmoved /\ device' = device
            BY <1>1, <1>2, <3>2 DEF Placed, MovedTo
        <3>3. CASE unmoved' = unmoved /\ device' = saved[2] /\ version' = saved[1]
            BY <1>1, <3>3 DEF Placed, MovedTo
        <3>4. unmoved' = IF version' > saved[1] /\ device' # device THEN Drives ELSE unmoved
            BY <1>6 DEF Crash
        <3>5. version' > saved[1] \/ version' = saved[1]
            BY <1>1, <1>2
        <3> QED BY <1>1, <3>1, <3>2, <3>3, <3>4, <3>5
    <2>2. MovedTo(version, device)' /\ MovedTo(saved[1], saved[2])'
        BY <1>6, <2>1 DEF Crash, files, MovedTo
    <2> QED BY <1>1, <1>3, <1>4, <1>7, <2>2 DEF Placed, DeviceShown
<1> QED BY <1>5, <1>6

LEMMA PlacedStep == PInv /\ [Next]_vars => PInv'
<1> SUFFICES ASSUME PInv, [Next]_vars PROVE PInv'
    OBVIOUS
<1>1. KInv' /\ Versions' /\ KInv /\ Versions /\ TypeOK /\ KnownOwn
    BY KeptStep, VersionsStep DEF PInv, KInv, IInv
<1>2. CASE \E d \in Drives : Changes(d)
    <2>1. ~astray' => ~astray
        BY <1>2 DEF Changes
    <2> QED BY <1>1, <1>2, <2>1, PlacedChanges DEF PInv
<1>3. ASSUME astray' = astray, Kept /\ Placed => Placed' PROVE PInv'
    BY <1>1, <1>3 DEF PInv, KInv
<1>4. CASE \E answered \in BOOLEAN : Migrate(answered)
    BY <1>1, <1>3, <1>4, PlacedMigrate DEF Migrate
<1>5. ASSUME UNCHANGED <<at, known, astray, unmoved, version, device, saved>>,
             DeviceShown => DeviceShown', Kept /\ Placed => DataDevice'
      PROVE  PInv'
    <2>1. Kept /\ Placed => Placed'
        BY <1>5 DEF Placed, DeviceAt, OldId, DevicePathsAgree, Plugged, MovedTo
    <2> QED BY <1>3, <1>5, <2>1
<1>6. CASE AttachPlatforms \/ \E answered \in BOOLEAN : Build(answered)
    <2>1. /\ UNCHANGED <<at, known, astray, unmoved, version, device, saved>>
          /\ phase' \in {"refreshing", "moving"} /\ UNCHANGED data
        BY <1>6 DEF AttachPlatforms, Build, files, history
    <2> QED BY <1>5, <2>1 DEF DeviceShown, Placed, DataDevice
<1>7. ASSUME NEW i \in Ids, Refresh(i) \/ MoveEntity(i) PROVE PInv'
    <2>1. /\ UNCHANGED <<at, known, astray, unmoved, version, device, saved>>
          /\ phase' \in {"refreshing", "moving", "broken"}
        BY <1>7 DEF Refresh, MoveEntity, files, history
    <2>2. Kept /\ Placed /\ UNCHANGED data => DataDevice'
        BY <2>1 DEF Placed, DataDevice
    <2>3. Kept /\ Placed /\ ~UNCHANGED data => DataDevice'
        <3> SUFFICES ASSUME Kept, Placed, ~UNCHANGED data PROVE DataDevice'
            OBVIOUS
        <3>1. Refresh(i)
            BY <1>7 DEF MoveEntity
        <3>2. PICK e \in Plugged :
                  /\ Matches(e, i)
                  /\ data' = [j \in DOMAIN data \cup {i} |->
                                 IF j = i THEN [disk |-> e, path |-> at[e]] ELSE data[j]]
            BY <3>1 DEF Refresh, Lists
        <3>3. i \in Paths => at[e] = i
            BY <3>2, PluggedDrives, NamingAssumption DEF Matches
        <3> QED BY <2>1, <3>2, <3>3 DEF Placed, DataDevice, DevicePathsAgree
    <2> QED BY <1>5, <2>1, <2>2, <2>3 DEF DeviceShown
<1>8. CASE Appear
    BY <1>1, <1>3, <1>8, PlacedAppear DEF Appear, history
<1>9. CASE Unload \/ Crash
    BY <1>1, <1>3, <1>9, PlacedStops DEF Unload, Crash, history
<1>10. CASE UNCHANGED vars
    <2>1. /\ UNCHANGED <<at, known, astray, unmoved, version, device, saved>>
          /\ UNCHANGED <<phase, data>>
        BY <1>10 DEF vars, files, setup, history
    <2> QED BY <1>5, <2>1 DEF DeviceShown, Placed, DataDevice
<1> QED BY <1>2, <1>4, <1>6, <1>7, <1>8, <1>9, <1>10 DEF Next

\* OneDevicePerDisk of Disks, for any drives and any number of stops: the
\* migrations leave a disk they listed one device.
THEOREM OneDevice == Spec => []OneDevicePerDisk
<1>1. PInv => OneDevicePerDisk
    <2> SUFFICES ASSUME PInv, phase = "loaded", ~astray, NEW i \in DOMAIN data,
                        data[i].disk \notin unmoved
                 PROVE  {j \in Ids : device[j] = data[i].disk} = {i}
        BY DEF OneDevicePerDisk, TellApart
    <2>1. TypeOK /\ KnownOwn /\ Kept /\ Placed /\ version = 7
        BY DEF PInv, KInv, IInv, Versions
    <2>2. i \in Ids /\ device[i] = data[i].disk /\ data[i].disk # None /\ known[data[i].disk] = i
        BY <2>1, UnderItsId, NamingAssumption DEF Placed, DeviceShown, Kept, DataIsKnown
    <2>3. \A j \in Ids : device[j] = data[i].disk => j = i
        BY <2>1, <2>2 DEF Placed, MovedTo
    <2> QED BY <2>2, <2>3
<1> QED BY PlacedInit, PlacedStep, <1>1, PTL DEF Spec

-----------------------------------------------------------------------------
(* What migrations, setups and moves may take away, astray or not.         *)

\* The device of i moves to today's id of the disk that had it under i, or goes
\* because that disk has a device there already.
DeviceMovesFrom(i) ==
    \E d \in Moving(version) :
        /\ version < 7
        /\ OldId(version, d) = i
        /\ d \in Leftover(version) \/ device'[IdOf(d, Plugged)] = device[i]

\* An entity goes with a device that is removed as a leftover.
GoesWithLeftover(u) ==
    \E d \in Leftover(version) : version < 7 /\ HangsOff(u, OldId(version, d))

\* The history under u moves to the id of a disk that had none there.
MovesToItsDisk(u) ==
    \E i \in waiting :
        /\ phase = "moving"
        /\ entity[<<"node", i>>] = None
        /\ entity'[<<"node", i>>] = entity[u]

\* But for a stop, which brings back the files as they were, a device and a
\* history stay, move, or were a leftover's.
OnlyLeftoversGo ==
    \/ Crash
    \/ /\ \A i \in Ids :
              device[i] # None /\ device'[i] # device[i] => DeviceMovesFrom(i)
       /\ \A u \in UniqueIds :
              entity[u] # None /\ entity'[u] # entity[u] =>
                  GoesWithLeftover(u) \/ MovesToItsDisk(u)

\* A migration takes a device from one id for today's id of the same disk.
LEMMA MovesToToday ==
    ASSUME IInv, NEW i \in Ids, device[i] # None, Moved(version)[i] # device[i]
    PROVE  \E d \in Moving(version) :
               /\ OldId(version, d) = i
               /\ d \in Leftover(version) \/ Moved(version)[IdOf(d, Plugged)] = device[i]
<1>1. PICK d \in Moving(version) : OldId(version, d) = i
    BY DEF Moved
<1>2. CASE d \in Leftover(version)
    BY <1>1, <1>2
<1>3. CASE d \notin Leftover(version)
    <2> DEFINE j == IdOf(d, Plugged)
    <2>1. d \in Plugged /\ d \in Drives /\ j \in Ids /\ device[j] = None
        BY <1>3, PluggedDrives, IdTyped DEF Leftover, Moving, IInv, TypeOK, AtOK
    <2>2. ASSUME NEW e \in Moving(version), IdOf(e, Plugged) = j
          PROVE  e = d
        <3>1. e \in Plugged /\ e \in Drives
            BY PluggedDrives DEF Moving
        <3>2. Matches(e, j)
            BY <2>2, <3>1, IdIsOwn, PluggedDrives DEF Matches
        <3>3. IdsTellApart
            BY TellsApart DEF IInv
        <3> QED BY <2>1, <3>1, <3>2, <3>3 DEF IdsTellApart
    <2>3. (CHOOSE e \in Moving(version) : IdOf(e, Plugged) = j) = d
        BY <2>2
    <2>4. Moved(version)[j] = device[OldId(version, CHOOSE e \in Moving(version) : IdOf(e, Plugged) = j)]
        BY <2>1 DEF Moved
    <2>5. Moved(version)[j] = device[i]
        BY <1>1, <2>3, <2>4
    <2> QED BY <1>1, <2>5
<1> QED BY <1>2, <1>3

\* The places of the former ids are few, and the first of those found is one.
LEMMA FirstIsFound ==
    ASSUME TypeOK, NEW i \in DOMAIN data, Found(i) # {}
    PROVE  /\ \E k \in Found(i) : FirstFound(i) = FormerIds(i)[k]
           /\ FirstFound(i) \in UniqueIds
           /\ entity[FirstFound(i)] # None
<1>1. Found(i) \subseteq 1..3 /\ Found(i) \subseteq DOMAIN FormerIds(i)
    BY DEF Found, FormerIds
<1>2. \E k \in Found(i) : \A j \in Found(i) : k <= j
    <2>1. CASE 1 \in Found(i)
        BY <1>1, <2>1
    <2>2. CASE 1 \notin Found(i) /\ 2 \in Found(i)
        BY <1>1, <2>2
    <2>3. CASE 1 \notin Found(i) /\ 2 \notin Found(i)
        BY <1>1, <2>3
    <2> QED BY <2>1, <2>2, <2>3
<1>3. PICK k \in Found(i) : FirstFound(i) = FormerIds(i)[k]
    BY <1>2 DEF FirstFound
<1>4. entity[FormerIds(i)[k]] # None
    BY DEF Found
<1>5. FormerIds(i)[k] \in UniqueIds
    <2>1. data[i].disk \in Drives /\ data[i].path \in Paths
        BY DEF TypeOK, DataOK
    <2>2. Wwn[data[i].disk] \in {None, i} \/ Wwn[data[i].disk] \in Ids
        BY <2>1 DEF Own, Ids
    <2> QED BY <1>1, <2>1, <2>2 DEF FormerIds, UniqueIds, Ids
<1> QED BY <1>3, <1>4, <1>5

\* What moves, moves to an id with no history.
LEMMA RenameMoves ==
    ASSUME TypeOK, NEW i \in DOMAIN data, NEW u \in UniqueIds,
           entity[u] # None, Renamed(i)[u] # entity[u]
    PROVE  entity[<<"node", i>>] = None /\ Renamed(i)[<<"node", i>>] = entity[u]
<1> DEFINE n == <<"node", i>>
           f == FirstFound(i)
<1>1. Found(i) # {} /\ entity[n] = None
      /\ Renamed(i) = [entity EXCEPT ![n] = entity[f], ![f] = None]
    BY DEF Renamed
<1>2. f \in UniqueIds /\ entity[f] # None
    BY <1>1, FirstIsFound
<1>3. n \in UniqueIds /\ DOMAIN entity = UniqueIds
    BY DEF TypeOK, DataOK, UniqueIds, Owners
<1> HIDE DEF n, f
<1>4. \A v \in UniqueIds :
          Renamed(i)[v] = IF v = f THEN None ELSE IF v = n THEN entity[f] ELSE entity[v]
    BY <1>1, <1>3
<1>5. u = f /\ f # n
    BY <1>1, <1>2, <1>4
<1> QED BY <1>1, <1>3, <1>4, <1>5 DEF n

\* Whatever drives are swapped and whatever ids they share, no migration and no
\* setup takes a device or a history but to move it to its disk's id, or with a
\* leftover.  Two disks never get one device: where both would move, their ids
\* tell them apart.
THEOREM OnlyLeftoversAreLost == Spec => [][OnlyLeftoversGo]_vars
<1>1. ASSUME IInv, NEW answered \in BOOLEAN, Migrate(answered)
      PROVE  OnlyLeftoversGo
    <2>1. ASSUME NEW i \in Ids, device[i] # None, device'[i] # device[i]
          PROVE  DeviceMovesFrom(i)
        <3>1. device' = Moved(version) /\ version < 7
            BY <1>1, <2>1 DEF Migrate
        <3>2. \E d \in Moving(version) :
                  /\ OldId(version, d) = i
                  /\ d \in Leftover(version) \/ Moved(version)[IdOf(d, Plugged)] = device[i]
            BY <1>1, <2>1, <3>1, MovesToToday
        <3> QED BY <3>1, <3>2 DEF DeviceMovesFrom
    <2>2. \A u \in UniqueIds :
              entity[u] # None /\ entity'[u] # entity[u] => GoesWithLeftover(u)
        BY <1>1 DEF Migrate, EntitiesLeft, GoesWithLeftover
    <2> QED BY <2>1, <2>2 DEF OnlyLeftoversGo
<1>2. ASSUME IInv, NEW i \in Ids, MoveEntity(i)
      PROVE  OnlyLeftoversGo
    <2>1. i \in DOMAIN data /\ i \in waiting /\ phase = "moving"
          /\ entity' = Renamed(i) /\ device' = device
        BY <1>2 DEF MoveEntity, IInv, WaitingListed
    <2>2. \A u \in UniqueIds :
              entity[u] # None /\ entity'[u] # entity[u] => MovesToItsDisk(u)
        BY <1>2, <2>1, RenameMoves DEF IInv, MovesToItsDisk
    <2> QED BY <2>1, <2>2 DEF OnlyLeftoversGo
<1>3. ASSUME TypeOK, Appear
      PROVE  OnlyLeftoversGo
    BY <1>3 DEF Appear, OnlyLeftoversGo
<1>4. ASSUME UNCHANGED files
      PROVE  OnlyLeftoversGo
    BY <1>4 DEF files, OnlyLeftoversGo
<1>5. ASSUME IInv, Next
      PROVE  OnlyLeftoversGo
    <2>1. CASE \/ \E d \in Drives : Changes(d)
               \/ \E answered \in BOOLEAN : Build(answered)
               \/ \E i \in Ids : Refresh(i)
               \/ AttachPlatforms \/ Unload
        BY <2>1, <1>4 DEF Changes, Build, Refresh, AttachPlatforms, Unload
    <2>2. CASE Crash
        BY <2>2 DEF OnlyLeftoversGo
    <2> QED BY <1>1, <1>2, <1>3, <1>5, <2>1, <2>2 DEF Next, IInv
<1>6. IInv /\ [Next]_vars => [OnlyLeftoversGo]_vars
    BY <1>5
<1>7. Spec => []IInv
    BY InvAlways
<1> QED BY <1>6, <1>7, PTL DEF Spec

\* While the disks are told apart, a disk that had a device has one, and one
\* that had a history has it, unless a migration finds two devices of it and
\* removes the older with its entities.
DisksKeepTheirs ==
    \/ Crash \/ astray
    \/ \A d \in Drives :
           /\ (\E i \in Ids : device[i] = d) => \E i \in Ids : device'[i] = d
           /\ (\E u \in UniqueIds : entity[u] = d) =>
                  \/ \E u \in UniqueIds : entity'[u] = d
                  \/ version < 7 /\ d \in Leftover(version)

\* The device a leftover leaves is of the same disk.
LEMMA LeftoverOwn ==
    ASSUME TypeOK, KnownOwn, KnownApart, Placed, NEW v \in {5, 6}, NEW d \in Leftover(v)
    PROVE  device[IdOf(d, Plugged)] = d
<1> DEFINE j == IdOf(d, Plugged)
           e == device[j]
<1>1. d \in Plugged /\ d \in Drives /\ e # None
    BY PluggedDrives DEF Leftover, Moving
<1>2. j = known[d] /\ j # None /\ j \in Own(d) /\ j \in Ids /\ j \notin Paths
    BY <1>1, MovingTells DEF KnownOwn, Leftover
<1>3. e \in Drives /\ known[e] # None /\ (j = known[e] \/ j = OldId(6, e))
    BY <1>1, <1>2 DEF Placed, DeviceAt, TypeOK, Owners
<1> HIDE DEF j, e
<1>4. j = known[e] => d = e
    BY <1>1, <1>2, <1>3 DEF KnownApart
<1>5. j = OldId(6, e) => d = e
    BY <1>1, <1>2, <1>3, OldIdOwn
<1> QED BY <1>3, <1>4, <1>5 DEF e, j

\* And it stays: no other disk had its device there.
LEMMA LeftoverStays ==
    ASSUME TypeOK, KnownOwn, KnownApart, Placed, NEW v \in {5, 6}, NEW d \in Leftover(v)
    PROVE  Moved(v)[IdOf(d, Plugged)] = d
<1> DEFINE j == IdOf(d, Plugged)
<1>1. d \in Plugged /\ d \in Drives /\ d \in Moving(v) /\ device[j] = d /\ device[j] # None
    BY LeftoverOwn, PluggedDrives DEF Leftover, Moving
<1>2. j = known[d] /\ j # None /\ j \in Own(d) /\ j \in Ids /\ j \notin Paths
    BY <1>1, MovingTells DEF KnownOwn, Leftover
<1>3. ASSUME NEW x \in Moving(v), OldId(v, x) = j PROVE FALSE
    <2>1. x \in Drives /\ at[x] \in Paths
        BY PluggedDrives DEF Moving, Plugged, TypeOK
    <2>2. v = 6 /\ j = OldId(6, x)
        BY <1>2, <1>3, <2>1 DEF OldId
    <2>3. d = x
        BY <1>1, <1>2, <2>1, <2>2, OldIdOwn
    <2> QED BY <1>3, <2>3 DEF Moving
<1>4. Moved(v)[j] = device[j]
    BY <1>1, <1>2, <1>3 DEF Moved
<1> QED BY <1>1, <1>4

\* What goes with a leftover is of its disk.
LEMMA GoesWithItsDisk ==
    ASSUME TypeOK, KnownOwn, Kept, Placed,
           NEW u \in UniqueIds, entity[u] # None, GoesWithLeftover(u)
    PROVE  version < 7 /\ entity[u] \in Leftover(version)
<1>1. PICK e \in Leftover(version) : version < 7 /\ HangsOff(u, OldId(version, e))
    BY DEF GoesWithLeftover
<1>2. e \in Plugged /\ e \in Drives /\ at[e] \in Paths /\ e \in Moving(version)
    BY <1>1, PluggedDrives DEF Leftover, Moving, Plugged, TypeOK
<1>3. version \in {5, 6}
    BY <1>1 DEF TypeOK
<1>4. CASE entity[u] = device[OldId(version, e)]
    <2>1. entity[u] = e
        BY <1>2, <1>3, <1>4, MovingOwn
    <2> QED BY <1>1, <2>1
<1>5. CASE u[2] = OldId(version, e) /\ version = 5
    <2>1. u[2] = at[e]
        BY <1>5 DEF OldId
    <2>2. u = <<u[1], u[2]>> /\ u[1] \in {"entry", "node"}
        BY DEF UniqueIds
    <2>3. u \in ByPath
        BY <1>2, <2>1, <2>2 DEF ByPath
    <2>4. entity[u] = e
        BY <1>2, <2>1, <2>3 DEF Kept, PathsAgree
    <2> QED BY <1>1, <2>4
<1>6. CASE u[2] = OldId(version, e) /\ version = 6
    <2>1. OldId(6, e) = u[2] /\ u[2] # None
        BY <1>2, <1>6 DEF Moving
    <2>2. u[2] \in Own(e)
        BY <1>2, <2>1 DEF OldId, Own
    <2>3. u[2] \notin Paths
        BY <1>2, <2>2, NamingAssumption
    <2>4. u \notin ByPath
        BY <2>3 DEF ByPath
    <2>5. entity[u] \in Drives /\ u = <<"node", known[entity[u]]>> /\ known[entity[u]] # None
        BY <2>4 DEF Kept, HistoryAt, TypeOK, Owners
    <2>6. u[2] = known[entity[u]] /\ u[2] \in Own(entity[u])
        BY <2>1, <2>3, <2>5 DEF KnownOwn
    <2>7. entity[u] = e
        BY <1>2, <2>1, <2>5, <2>6, OldIdOwn
    <2> QED BY <1>1, <2>7
<1> QED BY <1>1, <1>3, <1>4, <1>5, <1>6 DEF HangsOff

\* No disk that can be told from the others is left without its device, and
\* its history goes only where a migration finds two devices of it.
THEOREM DisksAreLeftTheirs == Spec => [][DisksKeepTheirs]_vars
<1>1. ASSUME PInv, OnlyLeftoversGo, [Next]_vars, ~Crash, ~astray, NEW d \in Drives,
             NEW i \in Ids, device[i] = d
      PROVE  \E j \in Ids : device'[j] = d
    <2>1. TypeOK /\ KnownOwn /\ KnownApart /\ Placed /\ d # None
        BY <1>1, NamingAssumption DEF PInv, KInv, IInv, Kept
    <2>2. CASE device'[i] = device[i]
        BY <1>1, <2>2
    <2>3. CASE device'[i] # device[i]
        <3>1. PICK e \in Moving(version) :
                  /\ version < 7
                  /\ OldId(version, e) = i
                  /\ e \in Leftover(version) \/ device'[IdOf(e, Plugged)] = device[i]
            BY <1>1, <2>1, <2>3 DEF OnlyLeftoversGo, DeviceMovesFrom
        <3>2. version \in {5, 6}
            BY <2>1, <3>1 DEF TypeOK
        <3>3. e = d /\ IdOf(d, Plugged) \in Ids
            BY <1>1, <2>1, <3>1, <3>2, MovingOwn, MovingTells
        <3>4. CASE e \in Leftover(version)
            <4>1. \E answered \in BOOLEAN : Migrate(answered)
                BY <1>1, <2>1, <2>3, <3>1, <3>2
                   DEF Next, vars, files, Changes, Build, Refresh, MoveEntity,
                       AttachPlatforms, Appear, Unload
            <4>2. device' = Moved(version)
                BY <2>3, <4>1 DEF Migrate
            <4>3. Moved(version)[IdOf(d, Plugged)] = d
                BY <2>1, <3>2, <3>3, <3>4, LeftoverStays
            <4> QED BY <3>3, <4>2, <4>3
        <3>5. CASE device'[IdOf(e, Plugged)] = device[i]
            BY <1>1, <3>3, <3>5
        <3> QED BY <3>1, <3>4, <3>5
    <2> QED BY <2>2, <2>3
<1>2. ASSUME PInv, OnlyLeftoversGo, ~Crash, ~astray, NEW d \in Drives,
             NEW u \in UniqueIds, entity[u] = d
      PROVE  \/ \E w \in UniqueIds : entity'[w] = d
             \/ version < 7 /\ d \in Leftover(version)
    <2>1. TypeOK /\ KnownOwn /\ Kept /\ Placed /\ d # None
        BY <1>2, NamingAssumption DEF PInv, KInv, IInv
    <2>2. CASE entity'[u] = entity[u]
        BY <1>2, <2>2
    <2>3. CASE GoesWithLeftover(u)
        BY <1>2, <2>1, <2>3, GoesWithItsDisk
    <2>4. CASE MovesToItsDisk(u)
        <3>1. PICK i \in waiting : entity'[<<"node", i>>] = entity[u]
            BY <2>4 DEF MovesToItsDisk
        <3>2. <<"node", i>> \in UniqueIds
            BY <2>1 DEF TypeOK, UniqueIds
        <3> QED BY <1>2, <3>1, <3>2
    <2> QED BY <1>2, <2>1, <2>2, <2>3, <2>4 DEF OnlyLeftoversGo
<1>3. PInv /\ [Next]_vars /\ [OnlyLeftoversGo]_vars => [DisksKeepTheirs]_vars
    BY <1>1, <1>2 DEF DisksKeepTheirs
<1>4. Spec => []PInv
    BY PlacedInit, PlacedStep, PTL DEF Spec
<1> QED BY <1>3, <1>4, OnlyLeftoversAreLost, PTL DEF Spec
=============================================================================
