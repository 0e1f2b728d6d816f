-------------------------- MODULE DiscoveryProofs --------------------------
(***************************************************************************)
(* What discovery keeps true of the entry, for any set of resources.       *)
(*                                                                         *)
(* NothingUntracked is inductive with the types: an addition is of a       *)
(* resource that waits its turn, and what waits is tracked.                *)
(* EntitiesAreServed needs that entities come with devices and data with a *)
(* coordinator, and that the entity of a running entry has a device: a     *)
(* drop takes the entities with their devices.                             *)
(*                                                                         *)
(* From the same invariant follow what a step of a round may never do, and *)
(* that a round always has a step left and comes to an end.                *)
(***************************************************************************)
EXTENDS Discovery, Integers, FiniteSetTheorems, TLAPS

\* Entities come with devices, only a loaded entry has them, and only it runs
\* rounds.
EntitiesHaveDevices ==
    /\ entities \subseteq devices
    /\ phase # "loaded" => entities = {} /\ round = "idle"
    /\ phase = "down" => flying = {} /\ orphans = {} /\ adding = {} /\ built = {}

Inv ==
    /\ TypeOK
    /\ NothingUntracked
    /\ EntitiesHaveDevices
    /\ answered \subseteq built
    /\ EntitiesAreServed

LEMMA InitInv == Init => Inv
  BY NobodyAssumption DEF Init, Inv, TypeOK, NothingUntracked, EntitiesHaveDevices,
     EntitiesAreServed

LEMMA StepInv == Inv /\ [Next]_vars => Inv'
<1> SUFFICES ASSUME Inv, [Next]_vars PROVE Inv'
  OBVIOUS
<1> USE DEF Inv, TypeOK, NothingUntracked, EntitiesHaveDevices, EntitiesAreServed,
            clusterVars, roundVars, builtVars
<1>1. ASSUME NEW r \in Resources, ClusterChanges(r) PROVE Inv'
  BY <1>1 DEF ClusterChanges
<1>2. ASSUME NEW r \in Resources, StartPoll(r) PROVE Inv'
  BY <1>2 DEF StartPoll
<1>3. ASSUME NEW r \in Resources, EndPoll(r) PROVE Inv'
  BY <1>3 DEF EndPoll, DevicesAfterPoll
<1>4. ASSUME NEW r \in Resources, RemoveDevice(r) PROVE Inv'
  BY <1>4 DEF RemoveDevice
<1>5. CASE ApiTurns
  BY <1>5 DEF ApiTurns
<1>6. CASE Setup
  BY <1>6 DEF Setup
<1>7. CASE Loaded
  BY <1>7 DEF Loaded
<1>8. CASE GoDown
  BY <1>8, NobodyAssumption DEF GoDown
<1>9. CASE Ask
  BY <1>9 DEF Ask
<1>10. CASE NoAnswer
  BY <1>10 DEF NoAnswer
<1>11. CASE Compare
  <2> DEFINE gone == tracked \ listed
             new == listed \ tracked
  <2>1. phase = "loaded" /\ adding = {} /\ refreshing = Nobody
    BY <1>11 DEF Compare
  <2>2. /\ UNCHANGED <<clusterVars, phase, refreshing>>
        /\ tracked' = listed /\ adding' = new
        /\ round' = IF new = {} THEN "idle" ELSE "adding"
    BY <1>11 DEF Compare
  <2>3. /\ built' = built \ gone /\ answered' = answered \ gone
        /\ devices' = devices \ gone /\ entities' = entities \cap (devices \ gone)
        /\ flying' = flying \ gone /\ orphans' = orphans \cup (flying \cap gone)
    BY <1>11 DEF Compare, DevicesWithout
  <2>4. TypeOK'
    BY <2>1, <2>2, <2>3
  <2>5. NothingUntracked'
    BY <2>1, <2>2, <2>3
  <2>6. EntitiesHaveDevices' /\ (answered \subseteq built)' /\ EntitiesAreServed'
    BY <2>1, <2>2, <2>3
  <2> QED
    BY <2>4, <2>5, <2>6
<1>12. ASSUME NEW r \in Resources, BeginAdding(r) PROVE Inv'
  BY <1>12 DEF BeginAdding, Due
<1>13. ASSUME NEW r \in Resources, GiveUpAdding(r) PROVE Inv'
  BY <1>13 DEF GiveUpAdding, Due, Added
<1>14. ASSUME NEW r \in Resources, EndAdding(r) PROVE Inv'
  BY <1>14 DEF EndAdding, Shown, Added
<1>15. CASE UNCHANGED vars
  BY <1>15 DEF vars
<1> QED
  BY <1>1, <1>2, <1>3, <1>4, <1>5, <1>6, <1>7, <1>8, <1>9, <1>10, <1>11, <1>12,
     <1>13, <1>14, <1>15 DEF Next, Work

LEMMA InvAlways == Spec => []Inv
  BY InitInv, StepInv, PTL DEF Spec

\* Discovery's state stays well formed: a round adds exactly while something
\* waits, and only what waits is being refreshed.
THEOREM TypeCorrect == Spec => []TypeOK
  BY InvAlways, PTL DEF Inv

\* Whatever polls, drops, unloads and deletions do in whatever order, a
\* running entry holds nothing for a resource it does not track.
THEOREM NothingUntrackedHolds == Spec => []NothingUntracked
  BY InvAlways, PTL DEF Inv

\* No entity is left listening to a coordinator that was dropped, or to one
\* that never had data.
THEOREM EntitiesServed == Spec => []EntitiesAreServed
  BY InvAlways, PTL DEF Inv

-----------------------------------------------------------------------------
(* What a round may do while the entry stays loaded, and why it ends.      *)

StaysLoaded == phase = "loaded" /\ phase' = "loaded"

HoldsNothingOf(r) == r \notin tracked \cup built \cup entities \cup devices \cup adding

\* Of a resource that is not listed nothing is left once a list came, and
\* nothing returns while it stays away.
DropsLast ==
    StaysLoaded => \A r \in Resources \ listed :
                       Compare \/ r \notin tracked => HoldsNothingOf(r)'

\* What is newly tracked waits to be added, and leaves the round with its
\* entities, unless the API failed or it was gone from the list by then.
TakenUp ==
    StaysLoaded =>
        /\ tracked' \ tracked \subseteq adding'
        /\ \A r \in adding \ adding' :
               r \in entities' \cap devices' \/ ~answering \/ r \notin listed

\* Only what a round adds can show: a device the user deleted, or an entity
\* that was never built, does not come back by a poll.
OnlyAdditionsShow ==
    StaysLoaded => (entities' \ entities) \cup (devices' \ devices) \subseteq adding

\* While something waits, one resource is being refreshed or one is due: the
\* order of nodes before guests and storages leaves no round stuck.
RoundHasWork ==
    adding # {} => refreshing # Nobody \/ \E r \in Resources : Due(r)

\* The work left in a round once it has its list: two steps for each resource,
\* of which the one being refreshed has made the first.
WorkLeft == 2 * Cardinality(adding) - (IF refreshing = Nobody THEN 0 ELSE 1)

\* Each step of a round that adds brings it nearer to its end, and no poll,
\* deletion or change of the cluster makes it longer.
RoundShrinks ==
    StaysLoaded /\ round = "adding" =>
        /\ WorkLeft \in Nat
        /\ WorkLeft' <= WorkLeft
        /\ Work => WorkLeft' < WorkLeft
        /\ WorkLeft' = 0 <=> round' = "idle"

\* The resources that can be refreshed next, or are.
LEMMA SomeWorkIsDue ==
    ASSUME Inv
    PROVE  RoundHasWork
<1>1. CASE adding \cap Nodes # {}
  <2>1. PICK r \in adding : r \in Nodes
    BY <1>1
  <2> QED
    BY <2>1 DEF Inv, TypeOK, RoundHasWork, Due
<1>2. CASE adding \cap Nodes = {}
  BY <1>2 DEF Inv, TypeOK, RoundHasWork, Due
<1> QED
  BY <1>1, <1>2

\* No order of nodes, guests and storages leaves a round without a next step.
THEOREM RoundsHaveWork == Spec => []RoundHasWork
  BY SomeWorkIsDue, InvAlways, PTL

\* What the steps of a round leave of the work.
LEMMA AddedOneFewer ==
    ASSUME Inv, NEW r \in adding, adding' = adding \ {r}, IsFiniteSet(Resources)
    PROVE  /\ Cardinality(adding) \in Nat \ {0}
           /\ Cardinality(adding') = Cardinality(adding) - 1
<1>1. IsFiniteSet(adding)
  BY FS_Subset DEF Inv, TypeOK
<1>2. Cardinality(adding') = Cardinality(adding) - 1
  BY <1>1, FS_RemoveElement
<1>3. IsFiniteSet(adding) /\ IsFiniteSet(adding')
  BY <1>1, FS_RemoveElement
<1>4. Cardinality(adding) \in Nat /\ Cardinality(adding') \in Nat
  BY <1>3, FS_CardinalityType
<1> QED
  BY <1>2, <1>4

\* Work is left exactly while something waits.
LEMMA WorkIsCounted ==
    ASSUME Inv, IsFiniteSet(Resources)
    PROVE  /\ WorkLeft \in Nat
           /\ WorkLeft = 0 <=> adding = {}
<1>1. IsFiniteSet(adding)
  BY FS_Subset DEF Inv, TypeOK
<1>2. /\ Cardinality(adding) \in Nat
      /\ Cardinality(adding) = 0 <=> adding = {}
  BY <1>1, FS_CardinalityType, FS_EmptySet
<1>3. refreshing # Nobody => adding # {}
  BY DEF Inv, TypeOK
<1> QED
  BY <1>2, <1>3 DEF WorkLeft

LEMMA OnlyWorkAdds ==
    ASSUME Inv, [Next]_vars, StaysLoaded, ~Work
    PROVE  UNCHANGED roundVars
BY DEF Next, vars, StaysLoaded, ClusterChanges, StartPoll, EndPoll, RemoveDevice,
       ApiTurns, Setup, Loaded, GoDown

\* A round that has its list comes to an end: each of its steps leaves less
\* to do, and nothing else leaves more.
THEOREM RoundsRunOut ==
    ASSUME IsFiniteSet(Resources)
    PROVE  Spec => [][RoundShrinks]_vars
<1>1. ASSUME Inv, Inv', [Next]_vars, StaysLoaded, round = "adding"
      PROVE  /\ WorkLeft \in Nat
             /\ WorkLeft' <= WorkLeft
             /\ Work => WorkLeft' < WorkLeft
             /\ WorkLeft' = 0 <=> round' = "idle"
  <2>1. WorkLeft \in Nat
    BY <1>1, WorkIsCounted
  <2>2. WorkLeft' \in Nat /\ (WorkLeft' = 0 <=> adding' = {})
    <3>1. IsFiniteSet(adding')
      BY <1>1, FS_Subset DEF Inv, TypeOK
    <3>2. /\ Cardinality(adding') \in Nat
          /\ Cardinality(adding') = 0 <=> adding' = {}
      BY <3>1, FS_CardinalityType, FS_EmptySet
    <3>3. refreshing' # Nobody => adding' # {}
      BY <1>1 DEF Inv, TypeOK
    <3> QED
      BY <3>2, <3>3 DEF WorkLeft
  <2>3. ASSUME Work
        PROVE  WorkLeft' < WorkLeft /\ round' \in {"adding", "idle"}
    <3>1. ASSUME NEW r \in Resources, BeginAdding(r)
          PROVE  WorkLeft' < WorkLeft /\ round' = "adding"
      <4>1. adding' = adding /\ refreshing = Nobody /\ refreshing' = r
            /\ r # Nobody /\ round' = round
        BY <3>1, NobodyAssumption DEF BeginAdding, Due
      <4>2. Cardinality(adding) \in Nat
        BY <1>1, FS_Subset, FS_CardinalityType DEF Inv, TypeOK
      <4> QED
        BY <1>1, <4>1, <4>2 DEF WorkLeft
    <3>2. ASSUME NEW r \in Resources, GiveUpAdding(r)
          PROVE  WorkLeft' < WorkLeft /\ round' \in {"adding", "idle"}
      <4>1. r \in adding /\ adding' = adding \ {r} /\ refreshing' = refreshing
            /\ refreshing = Nobody /\ round' \in {"adding", "idle"}
        BY <3>2, <1>1 DEF GiveUpAdding, Due, Added
      <4>2. Cardinality(adding) \in Nat \ {0}
            /\ Cardinality(adding') = Cardinality(adding) - 1
        BY <1>1, <4>1, AddedOneFewer
      <4> QED
        BY <4>1, <4>2 DEF WorkLeft
    <3>3. ASSUME NEW r \in Resources, EndAdding(r)
          PROVE  WorkLeft' < WorkLeft /\ round' \in {"adding", "idle"}
      <4>1. r \in adding /\ adding' = adding \ {r} /\ refreshing' = Nobody
            /\ refreshing # Nobody /\ round' \in {"adding", "idle"}
        BY <3>3, <1>1 DEF EndAdding, Added, Inv, TypeOK
      <4>2. Cardinality(adding) \in Nat \ {0}
            /\ Cardinality(adding') = Cardinality(adding) - 1
        BY <1>1, <4>1, AddedOneFewer
      <4> QED
        BY <4>1, <4>2 DEF WorkLeft
    <3>4. ~Ask /\ ~NoAnswer /\ ~Compare
      BY <1>1 DEF Ask, NoAnswer, Compare
    <3> QED
      BY <2>3, <3>1, <3>2, <3>3, <3>4 DEF Work
  <2>4. ASSUME ~Work
        PROVE  WorkLeft' = WorkLeft /\ round' = "adding"
    BY <1>1, <2>4, OnlyWorkAdds DEF roundVars, WorkLeft
  <2>5. round' = "adding" <=> adding' # {}
    BY <1>1 DEF Inv, TypeOK, StaysLoaded
  <2>6. round' \in {"adding", "idle"}
    BY <2>3, <2>4
  <2> QED
    BY <2>1, <2>2, <2>3, <2>4, <2>5, <2>6
<1>2. Inv /\ Inv' /\ [Next]_vars => [RoundShrinks]_vars
  BY <1>1 DEF RoundShrinks
<1> QED
  BY <1>2, InvAlways, PTL DEF Spec

-----------------------------------------------------------------------------
\* Which steps can change what the entry holds while it stays loaded.
LEMMA LoadedSteps ==
    ASSUME [Next]_vars, StaysLoaded
    PROVE  \/ Compare
           \/ \E r \in Resources : GiveUpAdding(r) \/ EndAdding(r) \/ RemoveDevice(r)
           \/ UNCHANGED <<tracked, adding, builtVars, devices>>
BY DEF Next, Work, vars, roundVars, StaysLoaded, ClusterChanges, StartPoll, EndPoll,
       DevicesAfterPoll, ApiTurns, Setup, Loaded, GoDown, Ask, NoAnswer, BeginAdding

\* What a drop takes away and an addition brings.
LEMMA CompareHolds ==
    ASSUME Inv, Compare
    PROVE  /\ phase = "loaded" /\ adding = {} /\ tracked' = listed
           /\ adding' = listed \ tracked
           /\ built' = built \ (tracked \ listed)
           /\ devices' = devices \ (tracked \ listed)
           /\ entities' = entities \cap (devices \ (tracked \ listed))
  BY DEF Compare, DevicesWithout, Inv, TypeOK, EntitiesHaveDevices

\* A resource that is gone from the list is dropped with the next list that
\* comes, and neither a round, nor a poll, nor a late answer brings any of
\* it back while it stays off the list.
THEOREM DropsAreLasting == Spec => [][DropsLast]_vars
<1>1. ASSUME Inv, Inv', [Next]_vars, StaysLoaded, NEW r \in Resources \ listed,
             Compare \/ r \notin tracked
      PROVE  r \notin tracked'
  BY <1>1, LoadedSteps, CompareHolds
     DEF GiveUpAdding, EndAdding, RemoveDevice
<1>2. ASSUME Inv', StaysLoaded, NEW r \in Resources, r \notin tracked'
      PROVE  HoldsNothingOf(r)'
  BY <1>2 DEF HoldsNothingOf, Inv, NothingUntracked, StaysLoaded
<1>3. Inv /\ Inv' /\ [Next]_vars => [DropsLast]_vars
  BY <1>1, <1>2 DEF DropsLast
<1> QED
  BY <1>3, InvAlways, PTL DEF Spec

\* A round forgets nothing: what it newly tracks it sets up, and gives up
\* only what the API failed for or no longer listed.
THEOREM RoundsForgetNothing == Spec => [][TakenUp]_vars
<1>1. ASSUME Inv, [Next]_vars, StaysLoaded
      PROVE  tracked' \ tracked \subseteq adding'
  BY <1>1, LoadedSteps, CompareHolds DEF GiveUpAdding, EndAdding, RemoveDevice
<1>2. ASSUME Inv, [Next]_vars, StaysLoaded, NEW r \in adding \ adding'
      PROVE  r \in entities' \cap devices' \/ ~answering \/ r \notin listed
  <2>1. CASE Compare
    BY <1>2, <2>1, CompareHolds
  <2>2. ASSUME NEW s \in Resources, GiveUpAdding(s)
        PROVE  ~answering \/ r \notin listed
    BY <1>2, <2>2 DEF GiveUpAdding, Added, IsListed, StaysLoaded
  <2>3. ASSUME NEW s \in Resources, EndAdding(s)
        PROVE  r \in entities' \cap devices' \/ ~answering \/ r \notin listed
    BY <1>2, <2>3 DEF EndAdding, Added, Shown, StaysLoaded
  <2>4. ASSUME NEW s \in Resources, RemoveDevice(s)
        PROVE  FALSE
    BY <1>2, <2>4 DEF RemoveDevice, roundVars
  <2> QED
    BY <1>2, <2>1, <2>2, <2>3, <2>4, LoadedSteps
<1>3. Inv /\ [Next]_vars => [TakenUp]_vars
  BY <1>1, <1>2 DEF TakenUp
<1> QED
  BY <1>3, InvAlways, PTL DEF Spec

\* Nothing shows of a loaded entry but what a round has just added: a device
\* the user deleted stays deleted, whatever polls of it come back.
THEOREM DeletedStaysDeleted == Spec => [][OnlyAdditionsShow]_vars
<1>1. ASSUME Inv, [Next]_vars, StaysLoaded
      PROVE  (entities' \ entities) \cup (devices' \ devices) \subseteq adding
  <2>1. CASE Compare
    BY <1>1, <2>1, CompareHolds
  <2>2. ASSUME NEW s \in Resources, GiveUpAdding(s) \/ RemoveDevice(s)
        PROVE  entities' \subseteq entities /\ devices' \subseteq devices
    BY <2>2 DEF GiveUpAdding, RemoveDevice, builtVars
  <2>3. ASSUME NEW s \in Resources, EndAdding(s)
        PROVE  /\ s \in adding
               /\ entities' \subseteq entities \cup {s}
               /\ devices' \subseteq devices \cup {s}
    BY <1>1, <2>3 DEF EndAdding, Shown, Inv, TypeOK
  <2> QED
    BY <1>1, <2>1, <2>2, <2>3, LoadedSteps DEF builtVars
<1>2. Inv /\ [Next]_vars => [OnlyAdditionsShow]_vars
  BY <1>1 DEF OnlyAdditionsShow
<1> QED
  BY <1>2, InvAlways, PTL DEF Spec
=============================================================================
