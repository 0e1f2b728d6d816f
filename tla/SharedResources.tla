-------------------------- MODULE SharedResources --------------------------
(***************************************************************************)
(* `SharedResources` in coordinator.py: the one read of                    *)
(* `cluster/resources` that an entry's coordinators share, and the gate it *)
(* feeds, by which `poll_api` makes no request to a node the cluster       *)
(* reported as anything but online.                                        *)
(*                                                                         *)
(* Readers are coordinators, tasks of one event loop.  `get` holds an      *)
(* asyncio lock across its request, so other readers run, and time passes, *)
(* between the request and its answer; asyncio serves a lock's waiters in  *)
(* the order they came.  Everything else of `get` runs without a           *)
(* suspension and is one step.                                             *)
(*                                                                         *)
(* `time.monotonic() - self._read_at` is only ever compared with the TTL,  *)
(* so the clock is kept as that difference, held at TTL once it is there.  *)
(***************************************************************************)
EXTENDS ApiRead, Sequences

CONSTANTS
    Readers,    \* the coordinators that read the list
    Fresh,      \* those that pass fresh=True: discovery
    Nodes,      \* the nodes of the cluster
    TTL,        \* RESOURCES_TTL, in ticks
    Met         \* the answers a request may meet, of all there are

ASSUME FreshAssumption == Fresh \subseteq Readers
ASSUME TTLAssumption == TTL \in Nat \ {0}
ASSUME MetAssumption == Met \subseteq Answers

VARIABLES
    off,        \* the nodes that are switched off (the cluster's own state)
    api,        \* what a request is answered with at present
    queue,      \* the readers at the lock, its holder first
    asking,     \* whether the holder's request is in flight
    attempt,    \* which request of the holder's read that is
    age,        \* now - _read_at, held at TTL
    cache,      \* _rows and _failure
    nodesOff,   \* nodes_off
    parked,     \* the readers whose login was refused: not polled any more
    told,       \* the reader `get` came back to last, and with what
    polled,     \* what became of the last node-scoped read, for each node
    since,      \* history: how long ago a read was settled, held at TTL
    last        \* history: the outcome of that read

envVars == <<off, api>>
lockVars == <<queue, asking, attempt>>
keptVars == <<age, cache, nodesOff>>
history == <<since, last>>
vars == <<envVars, lockVars, keptVars, parked, told, polled, history>>

Listings == SUBSET Nodes

Kept == [kind : {"rows"}, listing : Listings] \cup [kind : {"none", "failed"}]

Refused == [kind |-> "auth"]

Nothing == [what |-> [kind |-> "unasked"]]

Waiting == {queue[i] : i \in DOMAIN queue}

TypeOK ==
    /\ off \in Listings
    /\ api \in Met
    /\ queue \in Seq(Readers)
    /\ asking \in BOOLEAN
    /\ attempt \in 1..MaxAttempts
    /\ age \in 0..TTL
    /\ cache \in Kept
    /\ nodesOff \in Listings
    /\ told \in [to : Readers, what : Kept \cup {Refused}] \cup {Nothing}
    /\ polled \in [Nodes -> {"never", "asked", "spared", "parked"}]
    /\ parked \subseteq Readers
    /\ since \in 0..TTL
    /\ last \in Outcomes

(***************************************************************************)
(* A new object has read nothing.  Setup hands it the list it read itself  *)
(* (`note_nodes`) before the first coordinator exists; when that read gave *)
(* no list, the gate starts open.                                          *)
(***************************************************************************)
Init ==
    /\ off \in Listings
    /\ api \in Met
    /\ queue = <<>>
    /\ asking = FALSE
    /\ attempt = 1
    /\ age = TTL
    /\ cache = [kind |-> "none"]
    /\ nodesOff \in {off, {}}
    /\ parked = {}
    /\ told = Nothing
    /\ polled = [n \in Nodes |-> "never"]
    /\ since = TTL
    /\ last = "none"

-----------------------------------------------------------------------------
(* The cluster and the clock.                                              *)

SwitchNode(n) ==
    /\ off' = IF n \in off THEN off \ {n} ELSE off \cup {n}
    /\ UNCHANGED <<api, lockVars, keptVars, parked, told, polled, history>>

ApiTurns(answer) ==
    /\ api # answer
    /\ api' = answer
    /\ UNCHANGED <<off, lockVars, keptVars, parked, told, polled, history>>

Later(t) == IF t < TTL THEN t + 1 ELSE TTL

Tick ==
    /\ age < TTL \/ since < TTL
    /\ age' = Later(age)
    /\ since' = Later(since)
    /\ UNCHANGED <<envVars, lockVars, cache, nodesOff, parked, told, polled, last>>

-----------------------------------------------------------------------------
(* SharedResources.get                                                     *)

\* A coordinator's update starts and comes to the lock.
Call(r) ==
    /\ r \notin Waiting \cup parked
    /\ queue' = Append(queue, r)
    /\ UNCHANGED <<envVars, asking, attempt, keptVars, parked, told, polled, history>>

\* The holder is through: the lock passes to the next in line.
Leave(r, what) ==
    /\ queue' = Tail(queue)
    /\ asking' = FALSE
    /\ attempt' = 1
    /\ told' = [to |-> r, what |-> what]

MustRead(r) == r \in Fresh \/ age >= TTL

Holds(r) == queue # <<>> /\ r = Head(queue)

\* The holder finds nothing recent enough and sends its request.
StartRead(r) ==
    /\ Holds(r)
    /\ ~asking
    /\ MustRead(r)
    /\ asking' = TRUE
    /\ UNCHANGED <<envVars, queue, attempt, keptVars, parked, told, polled, history>>

\* The holder takes what an earlier reader of the burst was answered.
TakeShared(r) ==
    /\ Holds(r)
    /\ ~asking
    /\ ~MustRead(r)
    /\ Leave(r, cache)
    /\ UNCHANGED <<envVars, keptVars, parked, polled, history>>

\* poll_api asks a busy pveproxy once more.
Repeat(r) ==
    /\ Holds(r)
    /\ asking
    /\ AskedAgain(api, attempt)
    /\ attempt' = attempt + 1
    /\ UNCHANGED <<envVars, queue, asking, keptVars, parked, told, polled, history>>

Settled(r) ==
    /\ Holds(r)
    /\ asking
    /\ ~AskedAgain(api, attempt)
    /\ since' = 0
    /\ last' = OutcomeOf(api, TRUE)

\* Mutant: a failed read leaves the rows of the last good one in place.
KeptKeepingRows(answer) ==
    IF answer = "ok" THEN [kind |-> "rows", listing |-> off]
    ELSE IF OutcomeOf(answer, TRUE) = "none" THEN [kind |-> "none"]
    ELSE cache

\* What `_rows` and `_failure` become once poll_api came back.
KeptOf(answer) ==
    IF answer = "ok" THEN [kind |-> "rows", listing |-> off]
    ELSE IF OutcomeOf(answer, TRUE) = "none" THEN [kind |-> "none"]
    ELSE [kind |-> "failed"]

\* Mutant: a node once seen off stays on the gate.
GateAddingUp(answer) ==
    IF answer = "ok" THEN nodesOff \cup off
    ELSE IF OutcomeOf(answer, TRUE) = "failed" THEN nodesOff
    ELSE {}

\* Mutant: a failed read empties the gate along with the rows.
GateOpenedBySilence(answer) == IF answer = "ok" THEN off ELSE {}

\* What `nodes_off` becomes: a failure leaves it, an answer that is no list
\* empties it.
GateAfter(answer) ==
    IF answer = "ok" THEN off
    ELSE IF OutcomeOf(answer, TRUE) = "failed" THEN nodesOff
    ELSE {}

\* Mutant: only an answered read counts as made.
AgeWithoutFailures(answer) == IF OutcomeOf(answer, TRUE) = "failed" THEN age ELSE 0

\* `_read_at` is set whether the read was answered or failed.
AgeAfter(answer) == 0

\* The read came back, with rows, a 403's None or UpdateFailed.
ReadReturns(r) ==
    /\ Settled(r)
    /\ OutcomeOf(api, TRUE) # "auth"
    /\ cache' = KeptOf(api)
    /\ nodesOff' = GateAfter(api)
    /\ age' = AgeAfter(api)
    /\ Leave(r, cache')
    /\ UNCHANGED <<envVars, parked, polled>>

\* Mutant: the lock is not released on this way out.
ReadRefusedHoldingLock(r) ==
    /\ Settled(r)
    /\ OutcomeOf(api, TRUE) = "auth"
    /\ r \notin parked
    /\ told' = [to |-> r, what |-> Refused]
    /\ parked' = parked \cup {r}
    /\ UNCHANGED <<envVars, lockVars, keptVars, polled>>

\* ConfigEntryAuthFailed passes through `get`, which keeps nothing of it.
\* Home Assistant asks for credentials and polls this coordinator no more.
ReadRefused(r) ==
    /\ Settled(r)
    /\ OutcomeOf(api, TRUE) = "auth"
    /\ Leave(r, Refused)
    /\ parked' = parked \cup {r}
    /\ UNCHANGED <<envVars, keptVars, polled>>

-----------------------------------------------------------------------------
(* The gate of poll_api, at a `nodes/<n>/...` read of n's coordinator.     *)

ReadNode(n) ==
    /\ polled[n] # "parked"
    /\ polled' = [polled EXCEPT ![n] =
                     IF n \in nodesOff THEN "spared"
                     ELSE IF OutcomeOf(api, TRUE) = "auth" THEN "parked"
                     ELSE "asked"]
    /\ UNCHANGED <<envVars, lockVars, keptVars, parked, told, history>>

Get(r) == \/ StartRead(r) \/ TakeShared(r) \/ Repeat(r)
          \/ ReadReturns(r) \/ ReadRefused(r)

Next ==
    \/ \E n \in Nodes : SwitchNode(n) \/ ReadNode(n)
    \/ \E answer \in Met : ApiTurns(answer)
    \/ Tick
    \/ \E r \in Readers : Call(r) \/ Get(r)

(***************************************************************************)
(* Time passes, a request is answered or times out (API_TIMEOUT), the      *)
(* event loop runs a task that can run, and Home Assistant polls every     *)
(* coordinator on its interval.  The cluster is not fair.                  *)
(***************************************************************************)
Fairness ==
    /\ WF_vars(Tick)
    /\ \A r \in Readers : WF_vars(Call(r)) /\ WF_vars(Get(r))
    /\ \A n \in Nodes : WF_vars(ReadNode(n))

Spec == Init /\ [][Next]_vars

FairSpec == Spec /\ Fairness

-----------------------------------------------------------------------------
(* What it is for.                                                         *)

(***************************************************************************)
(* The promise to the readers, lock and requests aside: what `get` returns *)
(* is the reader's own read or one younger than the TTL, and discovery is  *)
(* never served an older one.                                              *)
(***************************************************************************)
Burst == INSTANCE BurstRead WITH
    waiting <- Waiting,
    newest <- cache

KeepsPromise == Burst!Spec

(***************************************************************************)
(* The gate and the shared rows are one answer: whenever rows are there to *)
(* be shared, the nodes `poll_api` spares are exactly those the same rows  *)
(* report as off, whatever reads failed, were refused or were still in     *)
(* flight in between.                                                      *)
(***************************************************************************)
GateFollowsRows == cache.kind = "rows" => nodesOff = cache.listing

\* r, holding the lock, sends the first request of a read.
Sends(r) == Holds(r) /\ ~asking /\ asking'

(***************************************************************************)
(* One read serves a burst: a coordinator other than discovery sends no    *)
(* request within the TTL of a read that came back, be it with rows, with  *)
(* a 403 or with a failure.  A refused login alone is not shared, although *)
(* the docstring of SharedResources says that a failure is.                *)
(***************************************************************************)
OneReadPerBurst ==
    [][\A r \in Readers \ Fresh :
           Sends(r) /\ last # "auth" => since >= TTL]_vars

(***************************************************************************)
(* The gate opens on the cluster's word alone: a node stays spared through *)
(* failed reads and refused logins, and is read again only after a request *)
(* was answered by something other than a failure.                         *)
(***************************************************************************)
SilenceOpensNoGate ==
    [][\A n \in nodesOff \ nodesOff' :
           last' \in {"data", "none"} /\ since' = 0]_vars

(***************************************************************************)
(* Nobody is left at the lock: a coordinator that asked is told, however   *)
(* the reads before it ended - a refused login included.                   *)
(***************************************************************************)
EveryReaderIsTold == \A r \in Readers : r \in Waiting ~> r \notin Waiting

(***************************************************************************)
(* A node that is switched on for good is read again, once the API answers *)
(* for good: as long as one coordinator is left to read the list, no       *)
(* failure before that keeps the gate closed forever.                      *)
(***************************************************************************)
NodeIsReadAgain ==
    \A n \in Nodes :
        <>[](/\ n \notin off
             /\ api = "ok"
             /\ polled[n] # "parked"
             /\ parked # Readers)
        => <>[](polled[n] = "asked")
=============================================================================
