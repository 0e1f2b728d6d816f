------------------------------ MODULE Commands ------------------------------
(***************************************************************************)
(* What the user asks Proxmox to do: the proxmoxve.backup action           *)
(* (services.py) and the buttons of guests (button.py, post_api_command in *)
(* api.py), for several config entries, each of a cluster of its own.      *)
(*                                                                         *)
(* A call is planned from what the coordinators hold, then works off its   *)
(* plans one by one; each takes requests, and in between guests move,      *)
(* polls come in and entries are loaded and unloaded.  Bound: a history    *)
(* has calls or presses.  They share nothing but what the polls hold, and  *)
(* no press reads what a call changes of that, nor the other way round.    *)
(***************************************************************************)
EXTENDS Naturals

CONSTANTS
    Entries,        \* the config entries
    Rank,           \* their order of configuration
    Nodes,          \* names of nodes: two clusters may share one
    Guests,         \* vmids: two clusters share them as a rule
    Members,        \* the nodes of each entry's cluster
    Tracked,        \* of these, the ones the entry tracks
    HasStorage,     \* the entries with a storage picked for their backups
    Requests,       \* the calls of the action that are made
    Buttons,        \* <<entry, guest, command>>
    Nowhere, Everything

ASSUME EntriesAssumption ==
    /\ Rank \in [Entries -> Nat]
    /\ \A some \in (SUBSET Entries) \ {{}} :
          \E e \in some : \A f \in some : Rank[e] <= Rank[f]
    /\ Members \in [Entries -> SUBSET Nodes]
    /\ Tracked \in [Entries -> SUBSET Nodes]
    /\ \A e \in Entries : Tracked[e] \subseteq Members[e]
    /\ Nowhere \notin Nodes
    /\ Everything \notin Guests

Devices ==
    [kind : {"cluster"}, entry : Entries]
    \cup [kind : {"node"}, entry : Entries, node : Nodes]
    \cup [kind : {"guest"}, entry : Entries, guest : Guests]

ASSUME RequestsAssumption ==
    /\ Requests \subseteq
          [devices : SUBSET Devices, vmids : SUBSET Guests,
           node : Nodes \cup {Nowhere}, all : BOOLEAN,
           skip : BOOLEAN, notes : BOOLEAN, storage : BOOLEAN]
    /\ \A r \in Requests : \A d \in r.devices :
          d.kind = "node" => d.node \in Members[d.entry]
    /\ Buttons \subseteq Entries \X Guests \X STRING

VARIABLES
    loaded,         \* the entries that are set up
    at,             \* by entry and guest: its node at the last poll
    busy,           \* the nodes whose last poll saw a backup running
    call,           \* the call that is worked off
    stage,          \* where it is with a plan
    pressed,        \* the buttons whose command is under way
    issues,         \* the guests with a repair about a refused command
    told            \* what the user last heard of a button

callVars == <<call, stage>>
buttonVars == <<pressed, issues, told>>
heldVars == <<loaded, at, busy>>
vars == <<heldVars, callVars, buttonVars>>

Plans == [entry : Entries, node : Nodes, vmids : SUBSET Guests, everything : BOOLEAN]

NoCall == [status |-> "none"]
Ended == {"none", "done", "failed", "invalid", "broken"}
Quiet == [at |-> "rest"]

\* status: "failed" is Proxmox's refusal or a silent host, "invalid" a call
\* that makes no sense, "broken" an exception nobody wrote.
Calls ==
    [status : {"working"} \cup (Ended \ {"none"}), request : Requests,
     left : SUBSET Plans, started : SUBSET Plans, runs : SUBSET Plans,
     skipped : SUBSET Plans]

TypeOK ==
    /\ loaded \subseteq Entries
    /\ at \in [Entries \X Guests -> Nodes \cup {Nowhere}]
    /\ busy \subseteq Entries \X Nodes
    /\ call \in Calls \cup {NoCall}
    /\ stage \in [at : {"asked", "refreshing"}, plan : Plans] \cup {Quiet}
    /\ pressed \subseteq Buttons
    /\ issues \subseteq Entries \X Guests
    /\ told \in [button : Buttons, what : {"ok", "error"}] \cup {Quiet}

Init ==
    /\ loaded = Entries
    /\ at \in [Entries \X Guests -> Nodes \cup {Nowhere}]
    /\ \A e \in Entries, g \in Guests : at[<<e, g>>] \in Members[e] \cup {Nowhere}
    /\ busy = {}
    /\ call = NoCall
    /\ stage = Quiet
    /\ pressed = {}
    /\ issues = {}
    /\ told = Quiet

-----------------------------------------------------------------------------
(* The entries and their polls.                                            *)

Load(e) ==
    /\ e \notin loaded
    /\ loaded' = loaded \cup {e}
    /\ UNCHANGED <<at, busy, callVars, buttonVars>>

Unload(e) ==
    /\ e \in loaded
    /\ loaded' = loaded \ {e}
    /\ UNCHANGED <<at, busy, callVars, buttonVars>>

\* The guest moved, went or came back, or its coordinator lost its data.
GuestPolled(e, g) ==
    /\ e \in loaded
    /\ \E n \in (Members[e] \cup {Nowhere}) \ {at[<<e, g>>]} :
          at' = [at EXCEPT ![<<e, g>>] = n]
    /\ UNCHANGED <<loaded, busy, callVars, buttonVars>>

BackupPolled(e, n) ==
    /\ e \in loaded
    /\ n \in Tracked[e]
    /\ busy' = IF <<e, n>> \in busy THEN busy \ {<<e, n>>} ELSE busy \cup {<<e, n>>}
    /\ UNCHANGED <<loaded, at, callVars, buttonVars>>

-----------------------------------------------------------------------------
(* Planning, which asks no one and waits for nothing.                      *)

FirstOf(entries) == CHOOSE e \in entries : \A f \in entries : Rank[e] <= Rank[f]

\* entry_tracking_node
Tracking(n) == {e \in loaded : n \in Tracked[e]}

\* Mutant: a coordinator is enough, data or not.
HostingUnread(g) == loaded

\* entry_hosting_guest
Hosting(g) == {e \in loaded : at[<<e, g>>] # Nowhere}

Hosted(g) == LET e == FirstOf(Hosting(g)) IN <<e, at[<<e, g>>], g>>

AllOf(e) == {e} \X Tracked[e] \X {Everything}

\* resolve_device: the entry of a guest's device is not asked for.
Resolved(d) ==
    CASE d.kind = "cluster" -> AllOf(d.entry)
      [] d.kind = "node"    -> {<<d.entry, d.node, Everything>>}
      [] d.kind = "guest"   -> {Hosted(d.guest)}

Unresolved(d) ==
    \/ d.entry \notin loaded
    \/ d.kind = "guest" /\ Hosting(d.guest) = {}

\* What the fields name next to the targets.
Named(r) ==
    IF r.node # Nowhere
    THEN {FirstOf(Tracking(r.node))} \X {r.node}
             \X (r.vmids \cup (IF r.all THEN {Everything} ELSE {}))
    ELSE {Hosted(g) : g \in r.vmids}
         \cup (IF r.all /\ r.devices = {} THEN (UNION {AllOf(e) : e \in loaded}) ELSE {})

NamesUnknown(r) ==
    IF r.node # Nowhere THEN Tracking(r.node) = {}
    ELSE \E g \in r.vmids : Hosting(g) = {}

Asked(r) == (UNION {Resolved(d) : d \in r.devices}) \cup Named(r)

\* Mutant: a plan for every target.
PlansApart(asked) ==
    {[entry |-> t[1], node |-> t[2],
      vmids |-> {t[3]} \ {Everything}, everything |-> t[3] = Everything] : t \in asked}

\* Mutant: guests that are named narrow down what a node backs up.
PlansNarrowed(asked) ==
    {[entry |-> t[1], node |-> t[2],
      vmids |-> {g \in Guests : <<t[1], t[2], g>> \in asked},
      everything |-> \A g \in Guests : <<t[1], t[2], g>> \notin asked] : t \in asked}

\* plan_backups: one plan for each node of an entry.
Planned(asked) ==
    {[entry |-> t[1], node |-> t[2],
      vmids |-> {g \in Guests : <<t[1], t[2], g>> \in asked},
      everything |-> <<t[1], t[2], Everything>> \in asked] : t \in asked}

Refuses(r) ==
    \/ \E d \in r.devices : Unresolved(d)
    \/ NamesUnknown(r)
    \/ Asked(r) = {}

\* A call of the action, once the one before ended.
Begin(r) ==
    /\ call.status \in Ended
    /\ pressed = {} /\ told = Quiet
    /\ call' = [status  |-> IF Refuses(r) THEN "invalid" ELSE "working",
                request |-> r,
                left    |-> IF Refuses(r) THEN {} ELSE Planned(Asked(r)),
                started |-> {}, runs |-> {}, skipped |-> {}]
    /\ UNCHANGED <<heldVars, stage, buttonVars>>

-----------------------------------------------------------------------------
(* Working it off, in _async_backup and _async_start.                      *)

Takes(p) == call.status = "working" /\ stage = Quiet /\ p \in call.left

\* Mutant: a node with a run is waited for.
NeverSkips(p) == FALSE

\* The node's backup is left to the run it has.
Skips(p) ==
    /\ <<p.entry, p.node>> \in busy
    /\ call' = [call EXCEPT !.left = @ \ {p}, !.skipped = @ \cup {p},
                            !.status = IF call.left = {p} THEN "done" ELSE "working"]
    /\ UNCHANGED stage

LacksStorage(p) ==
    call.request.notes /\ ~call.request.storage /\ p.entry \notin HasStorage

Posts(p) ==
    /\ stage' = [at |-> "asked", plan |-> p]
    /\ UNCHANGED call

\* An entry that was unloaded since has no runtime data to ask.
Take(p) ==
    /\ Takes(p)
    /\ \/ call.request.skip /\ p.entry \in loaded /\ Skips(p)
       \/ /\ call.request.skip /\ p.entry \notin loaded
          /\ call' = [call EXCEPT !.status = "broken"]
          /\ UNCHANGED stage
       \/ /\ call.request.skip => p.entry \in loaded /\ <<p.entry, p.node>> \notin busy
          /\ \/ /\ LacksStorage(p)
                /\ call' = [call EXCEPT !.status = "invalid"]
                /\ UNCHANGED stage
             \/ /\ ~LacksStorage(p) /\ p.entry \notin loaded
                /\ call' = [call EXCEPT !.status = "broken"]
                /\ UNCHANGED stage
             \/ ~LacksStorage(p) /\ p.entry \in loaded /\ Posts(p)
    /\ UNCHANGED <<heldVars, buttonVars>>

\* Proxmox took it; the entry may be gone when its coordinator is looked up.
Accepted ==
    /\ stage.at = "asked"
    /\ LET p == stage.plan
       IN  IF p.entry \in loaded
           THEN /\ call' = [call EXCEPT !.started = @ \cup {p}]
                /\ stage' = [at |-> "refreshing", plan |-> p]
           ELSE /\ call' = [call EXCEPT !.started = @ \cup {p}, !.status = "broken"]
                /\ stage' = Quiet
    /\ UNCHANGED <<heldVars, buttonVars>>

\* Refused, or the request did not arrive: the call is over, whatever ran
\* before.
NotAccepted ==
    /\ stage.at = "asked"
    /\ call' = [call EXCEPT !.status = "failed"]
    /\ stage' = Quiet
    /\ UNCHANGED <<heldVars, buttonVars>>

\* Mutant: a request that timed out is made again.
AskedAgain ==
    /\ stage.at = "asked"
    /\ call' = [call EXCEPT !.started = @ \cup {stage.plan}]
    /\ UNCHANGED <<stage, heldVars, buttonVars>>

\* Proxmox took it and the answer is lost: a timeout, a reset, a proxy that
\* gave up.  To the call that is one failure like another.
AnswerLost ==
    /\ stage.at = "asked"
    /\ call' = [call EXCEPT !.started = @ \cup {stage.plan}, !.status = "failed"]
    /\ stage' = Quiet
    /\ UNCHANGED <<heldVars, buttonVars>>

\* The node's backup coordinator was refreshed, and saw the run or did not.
Refreshed ==
    /\ stage.at = "refreshing"
    /\ LET p == stage.plan
       IN  /\ call' = [call EXCEPT !.left = @ \ {p}, !.runs = @ \cup {p},
                          !.status = IF call.left = {p} THEN "done" ELSE "working"]
           /\ busy' \in {busy, busy \cup ({p.entry} \X ({p.node} \cap Tracked[p.entry]))}
    /\ stage' = Quiet
    /\ UNCHANGED <<loaded, at, buttonVars>>

-----------------------------------------------------------------------------
(* The buttons.                                                            *)

GuestOf(b) == <<b[1], b[2]>>

\* A button is available, and does something, while its guest has data.
Press(b) ==
    /\ call = NoCall
    /\ b \notin pressed
    /\ b[1] \in loaded
    /\ at[GuestOf(b)] # Nowhere
    /\ pressed' = pressed \cup {b}
    /\ UNCHANGED <<heldVars, callVars, issues, told>>

\* Mutant: what is no refusal passes for a success.
AnswerSwallowed(b, answer) ==
    /\ issues' = IF answer = "forbidden" THEN issues \cup {GuestOf(b)}
                 ELSE issues \ {GuestOf(b)}
    /\ told' = [button |-> b, what |-> IF answer = "ok" THEN "ok" ELSE "error"]

\* post_api_command
Answer(b, answer) ==
    /\ issues' = CASE answer = "forbidden" -> issues \cup {GuestOf(b)}
                   [] answer = "ok"        -> issues \ {GuestOf(b)}
                   [] OTHER                -> issues
    /\ told' = [button |-> b, what |-> IF answer = "ok" THEN "ok" ELSE "error"]

Answered(b) ==
    /\ b \in pressed
    /\ pressed' = pressed \ {b}
    /\ \E answer \in {"ok", "forbidden", "error"} : Answer(b, answer)
    /\ UNCHANGED <<heldVars, callVars>>

-----------------------------------------------------------------------------
Work == (\E p \in Plans : Take(p)) \/ Accepted \/ NotAccepted \/ AnswerLost \/ Refreshed

Next ==
    \/ \E e \in Entries : Load(e) \/ Unload(e)
    \/ \E e \in Entries, g \in Guests : GuestPolled(e, g)
    \/ \E e \in Entries, n \in Nodes : BackupPolled(e, n)
    \/ \E r \in Requests : Begin(r)
    \/ Work
    \/ \E b \in Buttons : Press(b) \/ Answered(b)

Spec == Init /\ [][Next]_vars

\* A request is answered or times out, and the task goes on.
FairSpec == Spec /\ WF_vars(Work)

-----------------------------------------------------------------------------
(* What it is for.                                                         *)

Handled == call.runs \cup call.skipped

\* "one vzdump run is started per node" (docs/actions.md): however targets,
\* guests and fields overlap, a call never has two runs on one node, nor a run
\* on a node it left out.
OneRunPerNode ==
    call # NoCall =>
        \A p, q \in call.left \cup call.started \cup call.skipped :
            p.entry = q.entry /\ p.node = q.node => p = q

\* A call that ends well has seen to all it was asked, each where it was when
\* the call began: a node for everything on it, a guest by name or with its node.
NothingForgotten ==
    call.status = "done" =>
        /\ \A d \in call.request.devices :
              d.kind \in {"node", "cluster"} =>
                  \A n \in IF d.kind = "node" THEN {d.node} ELSE Tracked[d.entry] :
                      \E p \in Handled :
                          p.entry = d.entry /\ p.node = n /\ p.everything
        /\ \A g \in call.request.vmids \cup
                    {d.guest : d \in {x \in call.request.devices : x.kind = "guest"}} :
              \E p \in Handled : g \in p.vmids

\* The answer tells the truth: what it lists as a run was accepted, and a call
\* that ends well lists all that was.
ReportIsTrue ==
    call # NoCall =>
        /\ call.runs \subseteq call.started
        /\ call.status = "done" => call.started = call.runs

PlacesOf(plans) == {<<p.entry, p.node>> : p \in plans}

PlacesLeft == IF call = NoCall THEN {} ELSE PlacesOf(call.left)
PlacesTaken == IF call = NoCall THEN {} ELSE PlacesOf(call.started)
PlacesReported == IF call = NoCall THEN {} ELSE PlacesOf(call.runs)
PlacesSpared == IF call = NoCall THEN {} ELSE PlacesOf(call.skipped)

(***************************************************************************)
(* The promise about the places of a call, polls and requests aside: each  *)
(* is seen to once, Proxmox takes at most one backup there, and a call     *)
(* that ends well has reported every run that was taken.  One that fails   *)
(* may have had one more taken than it knows of, where it failed.          *)
(***************************************************************************)
Promise == INSTANCE BackupCall WITH
    Places   <- Entries \X Nodes,
    status   <- call.status,
    left     <- PlacesLeft,
    taken    <- PlacesTaken,
    reported <- PlacesReported,
    spared   <- PlacesSpared

KeepsPromise == Promise!Spec

\* A call ends, with an answer or an error, whatever happens to the entries
\* and the nodes meanwhile.
CallEnds == call.status = "working" ~> call.status # "working"

\* A refused command's repair goes with a success the user was told of, and
\* with nothing else: not with a silent host, nor with an unload.
RepairOutlastsErrors ==
    [][\A r \in issues \ issues' :
           told' \in [button : {b \in pressed : GuestOf(b) = r}, what : {"ok"}]]_vars

\* "A guest device is itself" (the docstring of resolve_device): a call that
\* names devices alone runs a guest's backup in the entry of its device.
GuestDeviceIsItself ==
    call # NoCall =>
        \A p \in call.started : \A g \in p.vmids :
            call.request.vmids = {} =>
                [kind |-> "guest", entry |-> p.entry, guest |-> g] \in call.request.devices
=============================================================================
