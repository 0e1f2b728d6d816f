--------------------------- MODULE ResourceIssues ---------------------------
(***************************************************************************)
(* The repairs an entry raises about its resources (issues.py, and those   *)
(* of the guest agent in coordinator.py), as its coordinators raise and    *)
(* clear them: `poll_api` notes a refused read and takes the note off with *)
(* the next read of the same key that is answered.                         *)
(*                                                                         *)
(* Coordinators run their updates concurrently; a step is one request with *)
(* everything its answer leads to.  Setup and discovery refresh new        *)
(* coordinators one at a time.  Home Assistant polls a coordinator that    *)
(* has a listener, an entity of its own, and not after its credentials     *)
(* were refused; it cancels an entry's polls at its unload, but not an     *)
(* update that a service call awaits; and it drops repairs that are not    *)
(* persistent when it stops.                                               *)
(***************************************************************************)
EXTENDS ApiRead, PollPlans, FiniteSets

CONSTANTS
    Resources,      \* what an entry can track
    Nodes,          \* the nodes among them
    Hub,            \* the entry itself, owner of the cluster-wide coordinators
    Coordinators,
    Owned,          \* the coordinators of each resource, in setup's order
    Plan,           \* what each coordinator reads
    Withheld,       \* the paths a privilege can be missing for
    Met,            \* the answers to a read that is permitted
    Staggered,      \* the coordinators polled often enough to be spread out
    Backups,        \* the coordinators the backup action refreshes
    Askable,        \* bound: the coordinators that service calls refresh
    AutoDiscovery   \* whether the entry follows the cluster

Owners == Resources \cup {Hub}

ReadsOf(c) == {Plan[c][i] : i \in DOMAIN Plan[c]}
Reads == UNION {ReadsOf(c) : c \in Coordinators}

\* Where a read's refusal may be noted; "nonexistent" is for setup.
Kinds == {"forbidden", "nonexistent"} \cup Features

ASSUME HubAssumption == Hub \notin Resources
ASSUME NodesAssumption == Nodes \subseteq Resources
ASSUME OwnedAssumption == Owned \in [Owners -> Seq(Coordinators)]
ASSUME PlanAssumption ==
    /\ \A c \in Coordinators : Plan[c] \in Seq(Reads) /\ Len(Plan[c]) > 0
    /\ \A read \in Reads :
          /\ DOMAIN read = DOMAIN SharedRead
          /\ read.skips \subseteq Nat
          /\ read.noted \in Features \cup {"forbidden", "nowhere"}
\* What a resource's coordinators read is tracked as that resource, or not at all.
ASSUME OwnershipAssumption ==
    /\ Untracked \notin Resources
    /\ \A o \in Owners : \A i \in DOMAIN Owned[o] :
          \A read \in ReadsOf(Owned[o][i]) : read.of \in Resources => read.of = o
ASSUME AnswersAssumption == Met \subseteq Answers \ {"forbidden", "busy"}
ASSUME RefreshedAssumption ==
    Staggered \cup Backups \cup Askable \subseteq Coordinators
ASSUME DiscoveryAssumption == AutoDiscovery \in BOOLEAN

VARIABLES
    api,        \* what a permitted read is answered with at present
    refused,    \* the withheld paths, at present
    up,         \* the nodes that are on, the guests and storages listed
    phase,      \* the entry: unloaded, setup, loaded, broken, or disabled then
    tracked,    \* what this setup tracks
    built,      \* the owners whose coordinators exist
    todo,       \* the owners setup or discovery has still to set up
    first,      \* the coordinators due for their first refresh, in order
    pc,         \* which read of its plan a coordinator has in flight, or 0
    listened,   \* the coordinators with an entity that listens to them
    parked,     \* of these, the ones polled no more
    due,        \* the others, as long as they are due to be staggered
    burst,      \* the outcome SharedResources still shares, or "stale"
    asked,      \* which read an update for a service call has in flight, or 0
    strays,     \* the coordinators it is of an earlier setup of
    lists,      \* the lines of each kind, in hass.data
    repairs,    \* the lines each repair in the registry shows; none, no repair
    late        \* history: of these, the lines that strays brought

envVars == <<api, refused, up>>
entryVars == <<phase, tracked, built, todo, first>>
pollVars == <<pc, listened, parked, due, burst>>
askVars == <<asked, strays>>
issueVars == <<lists, repairs, late>>
vars == <<envVars, entryVars, pollVars, askVars, issueVars>>

-----------------------------------------------------------------------------
(* The lists and the repairs that show them.                               *)

LineOf(read) == [key |-> read.key, wants |-> read.wants, of |-> read.of]

MissingLine(r) == [key |-> <<"missing", r>>, wants |-> <<"any", r>>, of |-> r]

Lines == {LineOf(read) : read \in Reads} \cup {MissingLine(r) : r \in Resources}

NoLines == [k \in Kinds |-> {}]

Off(ls, ks, key) ==
    [k \in Kinds |-> IF k \in ks THEN {line \in ls[k] : line.key # key} ELSE ls[k]]

On(ls, k, line) == [Off(ls, {k}, line.key) EXCEPT ![k] = @ \cup {line}]

Listed(ls) == UNION {ls[k] : k \in Kinds}

\* Mutant: a kind left without lines is not rewritten.
RewriteButEmpty(ls, strayed) ==
    /\ lists' = ls
    /\ late' = (late \cup strayed) \cap Listed(ls)
    /\ repairs' = [k \in Kinds |-> IF ls[k] \notin {{}, lists[k]} THEN ls[k] ELSE repairs[k]]

\* A kind whose lines changed is rewritten: created, replaced or deleted.
Rewrite(ls, strayed) ==
    /\ lists' = ls
    /\ late' = (late \cup strayed) \cap Listed(ls)
    /\ repairs' = [k \in Kinds |-> IF ls[k] # lists[k] THEN ls[k] ELSE repairs[k]]

\* Mutant: the guest agent repairs are left out.
StillTrackedButAgents(ls, ids) ==
    [k \in Kinds |-> IF k \in Features THEN ls[k]
                     ELSE {line \in ls[k] : line.of \in ids \cup {Untracked}}]

\* forget_untracked and forget_untracked_guest_agents
StillTracked(ls, ids) ==
    [k \in Kinds |-> {line \in ls[k] : line.of \in ids \cup {Untracked}}]

-----------------------------------------------------------------------------
TypeOK ==
    /\ api \in Met
    /\ refused \subseteq Withheld
    /\ up \subseteq Resources
    /\ phase \in {"unloaded", "setup", "loaded", "broken", "disabled"}
    /\ tracked \subseteq Resources
    /\ built \subseteq Owners
    /\ todo \subseteq Owners
    /\ first \in Seq(Coordinators)
    /\ pc \in [Coordinators -> Nat]
    /\ \A c \in Coordinators : pc[c] <= Len(Plan[c])
    /\ listened \subseteq Coordinators
    /\ parked \subseteq listened
    /\ due \subseteq Coordinators
    /\ burst \in {"stale", "data", "none", "failed"}
    /\ asked \in [Coordinators -> Nat]
    /\ \A c \in Coordinators : asked[c] <= Len(Plan[c])
    /\ strays \subseteq {c \in Coordinators : asked[c] > 0}
    /\ lists \in [Kinds -> SUBSET Lines]
    /\ repairs \in [Kinds -> SUBSET Lines]
    /\ late \subseteq Listed(lists)

Init ==
    /\ api \in Met
    /\ refused \in SUBSET Withheld
    /\ up \in SUBSET Resources
    /\ phase = "unloaded"
    /\ tracked = {}
    /\ built = {}
    /\ todo = {}
    /\ first = <<>>
    /\ pc = [c \in Coordinators |-> 0]
    /\ listened = {}
    /\ parked = {}
    /\ due = {}
    /\ burst = "stale"
    /\ asked = [c \in Coordinators |-> 0]
    /\ strays = {}
    /\ lists = NoLines
    /\ repairs = NoLines
    /\ late = {}

-----------------------------------------------------------------------------
(* The cluster, the credentials' privileges, and the clock.                *)

ClusterChanges ==
    /\ \/ /\ api' \in Met \ {api}
          /\ UNCHANGED <<refused, up>>
       \/ \E path \in Withheld :
             /\ refused' = IF path \in refused THEN refused \ {path} ELSE refused \cup {path}
             /\ UNCHANGED <<api, up>>
       \/ \E r \in Resources :
             /\ up' = IF r \in up THEN up \ {r} ELSE up \cup {r}
             /\ UNCHANGED <<api, refused>>
    /\ UNCHANGED <<entryVars, pollVars, askVars, issueVars>>

\* RESOURCES_TTL has passed.
BurstEnds ==
    /\ burst # "stale"
    /\ burst' = "stale"
    /\ UNCHANGED <<envVars, entryVars, pc, listened, parked, due, askVars, issueVars>>

-----------------------------------------------------------------------------
(* One update of a coordinator.                                            *)

Flying(c) == pc[c] > 0
Refreshing(c) == first # <<>> /\ c = Head(first)

\* The entry is loaded, c's resource was not dropped, and none of the
\* resource's coordinators is still to be refreshed.
Ready(c) ==
    /\ phase = "loaded"
    /\ \E o \in built :
          /\ \E i \in DOMAIN Owned[o] : Owned[o][i] = c
          /\ \A i \in DOMAIN Owned[o], j \in DOMAIN first : Owned[o][i] # first[j]

\* c hangs on a schedule.
Scheduled(c) == Ready(c) /\ c \in listened \ parked

StartUpdate(c) ==
    /\ ~Flying(c)
    /\ Refreshing(c) \/ Scheduled(c)
    /\ pc' = [pc EXCEPT ![c] = 1]
    /\ UNCHANGED <<envVars, entryVars, listened, parked, due, burst, askVars, issueVars>>

\* async_stagger_polling refreshes c once more.  What is on a schedule is not
\* told apart from a poll.
Stagger(c) ==
    /\ ~Flying(c)
    /\ c \in due
    /\ pc' = [pc EXCEPT ![c] = 1]
    /\ due' = due \ {c}
    /\ UNCHANGED <<envVars, entryVars, listened, parked, burst, askVars, issueVars>>

\* A service call awaits an update of c: homeassistant.update_entity, for an
\* entity of c, or the backup action.  It may overlap a poll.  Bound: one such
\* update of c at a time, over all setups.
Ask(c) ==
    /\ Ready(c)
    /\ c \in Askable \cap (listened \cup Backups)
    /\ asked[c] = 0
    /\ asked' = [asked EXCEPT ![c] = 1]
    /\ UNCHANGED <<envVars, entryVars, pollVars, strays, issueVars>>

AnswerTo(read) ==
    IF read.at \in Resources \ up THEN "noRoute"
    ELSE IF api = "ok" /\ read.path \in refused /\ ~read.listing THEN "forbidden"
    ELSE api

\* Proxmox answers the listing with what the credentials may see of it.
SeesNothing(read) == read.listing /\ read.path \in refused

OutcomeTo(read) == OutcomeOf(AnswerTo(read), read.noted = "forbidden")

\* An update goes on past a read, other than the data leading it elsewhere.
GoesOn(read, outcome) ==
    \/ outcome = "data" /\ (read.listing => ~SeesNothing(read) /\ read.of \in up)
    \/ outcome \in read.goesOn

\* Data enough to make an entity of, at the end of an update.
GivesData(read, outcome) ==
    \/ GoesOn(read, outcome)
    \/ outcome \in read.enough /\ ~SeesNothing(read)

\* Mutant: an update ends one read late.
NextReadTooLate(c, i, skipped) ==
    LET next == i + 1 + skipped IN IF next > Len(Plan[c]) + 1 THEN 0 ELSE next

\* The read after the one in flight and those left out; none ends the update.
NextRead(c, i, skipped) ==
    LET next == i + 1 + skipped IN IF next > Len(Plan[c]) THEN 0 ELSE next

\* Where an update of c may be after its i-th read.
Nexts(c, i, outcome) ==
    IF GoesOn(Plan[c][i], outcome) THEN {NextRead(c, i, s) : s \in Plan[c][i].skips} ELSE {0}

\* An update of c that is over leaves c on the schedule if it has a listener,
\* but not after a refused login.
ParkedAfter(c, outcome) ==
    IF outcome = "auth" /\ c \in listened THEN parked \cup {c} ELSE parked \ {c}

\* c is on to its next read, or through with its update.  Of the first one's
\* data the platforms make entities, which the user may have disabled.
Proceed(c, outcome) ==
    \E next \in Nexts(c, pc[c], outcome) :
        /\ pc' = [pc EXCEPT ![c] = next]
        /\ first' = IF next = 0 /\ Refreshing(c) THEN Tail(first) ELSE first
        /\ parked' = IF next = 0 THEN ParkedAfter(c, outcome) ELSE parked
        /\ \/ listened' = listened
           \/ /\ next = 0 /\ Refreshing(c) /\ GivesData(Plan[c][pc[c]], outcome)
              /\ listened' = listened \cup {c}

\* The same for an update that a service call awaits.
AskProceeds(c, outcome) ==
    \E next \in Nexts(c, asked[c], outcome) :
        /\ asked' = [asked EXCEPT ![c] = next]
        /\ strays' = IF next = 0 THEN strays \ {c} ELSE strays
        /\ parked' = IF next = 0 /\ c \notin strays THEN ParkedAfter(c, outcome) ELSE parked

\* A refusal, or an empty listing that looks like one.
Refuses(read) ==
    \/ OutcomeTo(read) = "none"
    \/ OutcomeTo(read) = "data" /\ read.invisible /\ SeesNothing(read)

\* Mutant: a read that is answered takes nothing off.
NotedForGood(read) ==
    IF Refuses(read) THEN On(lists, "forbidden", LineOf(read)) ELSE lists

\* Mutant: only what is not listed yet is noted, anything else taken off.
NotedInTurns(read) ==
    IF Refuses(read) /\ LineOf(read) \notin lists["forbidden"]
    THEN On(lists, "forbidden", LineOf(read))
    ELSE Off(lists, {"forbidden"}, read.key)

\* What poll_api notes of an answer, and what its caller adds.
Noted(read) ==
    IF Refuses(read) THEN On(lists, "forbidden", LineOf(read))
    ELSE IF OutcomeTo(read) = "data" THEN Off(lists, {"forbidden", read.noted}, read.key)
    ELSE IF AnswerTo(read) = "forbidden" /\ read.noted \in Features
         THEN On(lists, read.noted, LineOf(read))
    ELSE lists

\* A request of c's update is answered.
ReadReturns(c) ==
    /\ Flying(c)
    /\ LET read == Plan[c][pc[c]]
           outcome == OutcomeTo(read)
       IN  /\ Proceed(c, outcome)
           /\ Rewrite(Noted(read), {})
           /\ burst' = IF read.shared /\ outcome # "auth" THEN outcome ELSE burst
    /\ UNCHANGED <<envVars, phase, tracked, built, todo, due, askVars>>

\* The list another coordinator read a moment ago will do: no request, no note.
TakeShared(c) ==
    /\ Flying(c)
    /\ Plan[c][pc[c]].shared
    /\ burst # "stale"
    /\ Proceed(c, burst)
    /\ UNCHANGED <<envVars, phase, tracked, built, todo, due, burst, askVars, issueVars>>

\* A request of an update for a service call is answered.  A stray has the
\* client and the shared list of its own setup.
AskReturns(c) ==
    /\ asked[c] > 0
    /\ LET read == Plan[c][asked[c]]
           outcome == OutcomeTo(read)
       IN  /\ AskProceeds(c, outcome)
           /\ Rewrite(Noted(read), IF c \in strays THEN Listed(Noted(read)) \ Listed(lists) ELSE {})
           /\ burst' = IF read.shared /\ outcome # "auth" /\ c \notin strays THEN outcome ELSE burst
    /\ UNCHANGED <<envVars, entryVars, pc, listened, due>>

\* What a stray's own list still holds is left open.
AskTakesShared(c) ==
    /\ asked[c] > 0
    /\ Plan[c][asked[c]].shared
    /\ \/ c \notin strays /\ burst # "stale" /\ AskProceeds(c, burst)
       \/ c \in strays /\ \E old \in {"data", "none", "failed"} : AskProceeds(c, old)
    /\ UNCHANGED <<envVars, entryVars, pc, listened, due, burst, issueVars>>

-----------------------------------------------------------------------------
(* The entry.                                                              *)

\* Setup has made its own reads and knows what to track: the selection, or
\* all the cluster lists.
Setup(ids) ==
    /\ phase \in {"unloaded", "broken", "disabled"}
    /\ phase' = "setup"
    /\ tracked' = ids
    /\ todo' = ids \cup {Hub}
    /\ built' = {}
    /\ Rewrite(StillTracked(lists, ids), {})
    /\ UNCHANGED <<envVars, first, pollVars, askVars>>

\* Mutant: what the cluster lists again is not taken off the repair.
ExistsSilently(o) == lists

\* _resource_exists_again
ExistsAgain(o) == Off(lists, {"nonexistent"}, <<"missing", o>>)

\* The next owner: its coordinators are built when the cluster lists it.
\* The entry's own come last.  Where setup tracks what the cluster listed, it
\* looks guests and storages up in the same answer, and nodes in another.
SetUpOwner(o) ==
    /\ first = <<>>
    /\ o \in todo
    /\ o = Hub => todo = {Hub}
    /\ todo' = todo \ {o}
    /\ \/ /\ first' = Owned[o]
          /\ built' = built \cup {o}
          /\ Rewrite(ExistsAgain(o), {})
       \/ /\ o \notin up \cup {Hub}
          /\ AutoDiscovery /\ phase = "setup" => o \in Nodes
          /\ Rewrite(On(lists, "nonexistent", MissingLine(o)), {})
          /\ UNCHANGED <<first, built>>
    /\ UNCHANGED <<envVars, phase, tracked, pollVars, askVars>>

\* The platforms attach what entities there are, and what is polled often is
\* spread out, if there is more than one.
SetUp ==
    /\ phase = "setup"
    /\ todo = {}
    /\ first = <<>>
    /\ phase' = "loaded"
    /\ LET spread == {c \in Staggered : \E o \in built : \E i \in DOMAIN Owned[o] : Owned[o][i] = c}
       IN  due' = IF Cardinality(spread) < 2 THEN {} ELSE spread \ listened
    /\ UNCHANGED <<envVars, tracked, built, todo, first, pc, listened, parked, burst, askVars, issueVars>>

\* An exception escapes async_setup_entry after the first owner.  Home
\* Assistant does not unload such an entry, and sets it up again on a reload.
SetupBreaks ==
    /\ phase = "setup"
    /\ \A c \in Coordinators : ~Flying(c)
    /\ phase' = "broken"
    /\ todo' = {}
    /\ first' = <<>>
    /\ built' = {}
    /\ listened' = {}
    /\ parked' = {}
    /\ UNCHANGED <<envVars, tracked, pc, due, burst, askVars, issueVars>>

\* The user disables or removes an entry whose setup failed: no unload either.
Disable ==
    /\ phase = "broken"
    /\ phase' = "disabled"
    /\ UNCHANGED <<envVars, tracked, built, todo, first, pollVars, askVars, issueVars>>

\* Mutant: the repairs stay where their lists go.
ForgottenOnDisk == repairs

\* What an unloaded entry leaves in the registry: forget_entry.
Forgotten == NoLines

\* The entry's tasks, coordinators, lists and repairs are gone.
Gone ==
    /\ phase' = "unloaded"
    /\ built' = {}
    /\ todo' = {}
    /\ first' = <<>>
    /\ pc' = [c \in Coordinators |-> 0]
    /\ listened' = {}
    /\ parked' = {}
    /\ due' = {}
    /\ burst' = "stale"
    /\ lists' = NoLines
    /\ late' = {}
    /\ UNCHANGED <<envVars, tracked>>

\* async_unload_entry and what Home Assistant does after it.  An update that a
\* service call awaits goes on, and what it notes makes new lists.
Unload ==
    /\ phase = "loaded"
    /\ Gone
    /\ repairs' = Forgotten
    /\ strays' = {c \in Coordinators : asked[c] > 0}
    /\ UNCHANGED asked

\* Home Assistant stops, at any time, and starts again: the lists were in
\* memory and the repairs are not persistent.
Restart ==
    /\ Gone
    /\ repairs' = NoLines
    /\ asked' = [c \in Coordinators |-> 0]
    /\ strays' = {}

-----------------------------------------------------------------------------
(* Discovery, as far as the repairs go: one change at a time.              *)

Discovering == AutoDiscovery /\ phase = "loaded" /\ todo = {} /\ first = <<>>

\* A new resource.  Its own read of the listing comes next, and may fail.
\* The coordinators of an earlier resource of that name are through.
Discover(r) ==
    /\ Discovering
    /\ r \notin tracked
    /\ \A i \in DOMAIN Owned[r] : ~Flying(Owned[r][i]) /\ asked[Owned[r][i]] = 0
    /\ tracked' = tracked \cup {r}
    /\ todo' = {r}
    /\ UNCHANGED <<envVars, phase, built, first, pollVars, askVars, issueVars>>

AddFails ==
    /\ phase = "loaded"
    /\ todo # {}
    /\ todo' = {}
    /\ UNCHANGED <<envVars, phase, tracked, built, first, pollVars, askVars, issueVars>>

\* A resource the cluster dropped: no more polls, those in flight finish.
Drop(r) ==
    /\ Discovering
    /\ r \in tracked
    /\ tracked' = tracked \ {r}
    /\ built' = built \ {r}
    /\ LET theirs == {Owned[r][i] : i \in DOMAIN Owned[r]}
       IN  /\ listened' = listened \ theirs
           /\ parked' = parked \ theirs
           /\ due' = due \ theirs
    /\ UNCHANGED <<envVars, phase, todo, first, pc, burst, askVars, issueVars>>

-----------------------------------------------------------------------------
Update(c) == StartUpdate(c) \/ Stagger(c) \/ ReadReturns(c) \/ TakeShared(c)

AskedUpdate(c) == AskReturns(c) \/ AskTakesShared(c)

Next ==
    \/ ClusterChanges
    \/ BurstEnds
    \/ \E c \in Coordinators : Update(c) \/ Ask(c) \/ AskedUpdate(c)
    \/ \E ids \in SUBSET Resources : Setup(ids)
    \/ \E o \in Owners : SetUpOwner(o)
    \/ SetUp
    \/ SetupBreaks
    \/ Disable
    \/ Unload
    \/ Restart
    \/ AddFails
    \/ \E r \in Resources : Discover(r) \/ Drop(r)

Spec == Init /\ [][Next]_vars

(***************************************************************************)
(* Home Assistant polls what is scheduled, and nothing else; a refresh of  *)
(* setup, discovery or the stagger is a task that runs; a request ends     *)
(* within its timeout, and a read is shared for RESOURCES_TTL at the most. *)
(* No service call need ever be made.                                      *)
(***************************************************************************)
Fairness ==
    /\ WF_vars(BurstEnds)
    /\ \A c \in Coordinators : WF_vars(Update(c)) /\ WF_vars(AskedUpdate(c))

FairSpec == Spec /\ Fairness

-----------------------------------------------------------------------------
(* What the repairs promise.                                               *)

\* Every repair shows exactly the lines kept for it, and there is none
\* without a line: neither list nor registry ever runs ahead of the other,
\* whatever is polled, set up, broken off or unloaded in between.
RepairsShowLists == repairs = lists

\* An entry that was loaded and is unloaded leaves no repair behind.  All that
\* can be there afterwards is what an update noted that a service call had
\* asked for, too late.
NothingOutlivesUnload == phase = "unloaded" => \A k \in Kinds : repairs[k] \subseteq late

\* Where the selection is fixed, a repair never names a resource that this
\* setup does not track, unless it was noted too late in the same way.
OnlyTrackedAreListed ==
    phase \in {"setup", "loaded"} =>
        \A k \in Kinds : \A line \in repairs[k] :
            line.of \in Resources => line.of \in tracked \/ line \in late

\* Once an entry with a fixed selection is loaded, a tracked resource either
\* has its coordinators or is on the repair for what does not exist - not
\* both, and not neither.
MissingIsListed ==
    phase = "loaded" /\ todo = {} =>
        \A r \in tracked : r \in built <=> MissingLine(r) \notin repairs["nonexistent"]

AllIsWell ==
    /\ phase = "loaded"
    /\ tracked \subseteq built
    /\ parked = {}
    /\ api = "ok"
    /\ up = Resources

\* The coordinators that are polled and read what the line is about.
Polled(line) ==
    {c \in listened : \E read \in ReadsOf(c) : read.noted = "forbidden" /\ read.key = line.key}

\* Once every privilege is granted for good, the repair for missing ones
\* loses its lines for good.  What waits is what nobody polls: a resource
\* dropped in the meantime, and one whose coordinators had no data to begin
\* with, or are all disabled.
GrantedIsCleared ==
    <>[](AllIsWell /\ refused = {})
    => <>[](\A line \in repairs["forbidden"] :
               line.of \in Resources \ tracked \/ Polled(line) = {})

\* A read no other read answers for: what else has its key is read by the
\* same coordinator, and only once this one was answered.
Speaks(c, i) ==
    /\ Plan[c][i].noted = "forbidden"
    /\ Plan[c][i].goesOn = {}
    /\ \A d \in Coordinators : \A j \in DOMAIN Plan[d] :
          Plan[d][j].key = Plan[c][i].key => d = c /\ j >= i

\* Where one read speaks for a resource that is polled and is refused for good,
\* its line comes and stays: the guest agent and the snapshots, read under the same
\* key, do not take it off in turns.
RefusedStaysListed ==
    \A c \in Coordinators : \A i \in DOMAIN Plan[c] :
        Speaks(c, i) =>
            (<>[](/\ AllIsWell
                  /\ c \in listened
                  /\ refused = {Plan[c][i].path})
             => <>[](LineOf(Plan[c][i]) \in repairs["forbidden"]))
=============================================================================
