----------------------- MODULE SharedResourcesProofs -----------------------
(***************************************************************************)
(* What TLAPS proves of SharedResources, for any number of coordinators    *)
(* and nodes, any TTL and any answers of the API: the types, the gate, the *)
(* promise of BurstRead, and that the lock is never stuck nor unfair.      *)
(***************************************************************************)
EXTENDS SharedResources, TLAPS

\* A reader stands at the lock once.
QueuedOnce == \A i, j \in DOMAIN queue : queue[i] = queue[j] => i = j

\* The last read that was settled is as old as the read that is shared,
\* unless its credentials were refused.
ReadsAgeTogether == last # "auth" => since = age

Inv == TypeOK /\ QueuedOnce /\ ReadsAgeTogether /\ GateFollowsRows

-----------------------------------------------------------------------------
(* The queue at the lock.                                                  *)

\* Joining the end of the queue adds one reader and keeps it duplicate-free.
LEMMA Joining ==
    ASSUME NEW S, NEW q \in Seq(S), NEW r \in S,
           \A i, j \in DOMAIN q : q[i] = q[j] => i = j,
           \A i \in DOMAIN q : q[i] # r
    PROVE  LET p == Append(q, r)
           IN /\ p \in Seq(S)
              /\ {p[i] : i \in DOMAIN p} = {q[i] : i \in DOMAIN q} \cup {r}
              /\ \A i, j \in DOMAIN p : p[i] = p[j] => i = j
<1> DEFINE p == Append(q, r)
<1>1. p \in Seq(S) /\ Len(p) = Len(q) + 1
  OBVIOUS
<1>2. DOMAIN q = 1..Len(q) /\ DOMAIN p = 1..(Len(q) + 1) /\ Len(q) \in Nat
  BY <1>1
<1>3. p[Len(q) + 1] = r /\ \A i \in 1..Len(q) : p[i] = q[i]
  OBVIOUS
<1> HIDE DEF p
<1>4. {p[i] : i \in DOMAIN p} = {q[i] : i \in DOMAIN q} \cup {r}
  BY <1>2, <1>3
<1>5. \A i, j \in DOMAIN p : p[i] = p[j] => i = j
  BY <1>2, <1>3
<1> QED
  BY <1>1, <1>4, <1>5 DEF p

\* The head of a duplicate-free queue leaves it altogether.
LEMMA Leaving ==
    ASSUME NEW S, NEW q \in Seq(S), q # <<>>,
           \A i, j \in DOMAIN q : q[i] = q[j] => i = j
    PROVE  LET p == Tail(q)
           IN /\ p \in Seq(S)
              /\ Head(q) \in {q[i] : i \in DOMAIN q}
              /\ {p[i] : i \in DOMAIN p} = {q[i] : i \in DOMAIN q} \ {Head(q)}
              /\ \A i, j \in DOMAIN p : p[i] = p[j] => i = j
<1> DEFINE p == Tail(q)
<1>1. p \in Seq(S) /\ Len(p) = Len(q) - 1 /\ Len(q) \in Nat \ {0}
  OBVIOUS
<1>2. DOMAIN q = 1..Len(q) /\ DOMAIN p = 1..(Len(q) - 1)
  BY <1>1
<1>3. Head(q) = q[1] /\ \A i \in 1..(Len(q) - 1) : p[i] = q[i + 1]
  OBVIOUS
<1> HIDE DEF p
<1>4. Head(q) \in {q[i] : i \in DOMAIN q}
  BY <1>1, <1>2, <1>3
<1>5. {p[i] : i \in DOMAIN p} = {q[i] : i \in DOMAIN q} \ {Head(q)}
  <2>1. ASSUME NEW i \in DOMAIN p
        PROVE  p[i] \in {q[j] : j \in DOMAIN q} \ {Head(q)}
    BY <1>1, <1>2, <1>3
  <2>2. ASSUME NEW j \in DOMAIN q, q[j] # Head(q)
        PROVE  q[j] \in {p[i] : i \in DOMAIN p}
    <3>1. j - 1 \in DOMAIN p /\ p[j - 1] = q[j]
      BY <2>2, <1>1, <1>2, <1>3
    <3> QED
      BY <3>1
  <2> QED
    BY <2>1, <2>2
<1>6. \A i, j \in DOMAIN p : p[i] = p[j] => i = j
  BY <1>1, <1>2, <1>3
<1> QED
  BY <1>1, <1>4, <1>5, <1>6 DEF p

-----------------------------------------------------------------------------
(* The invariant.                                                          *)

\* What a request may come back with, and what is made of it.
LEMMA Readings ==
    ASSUME TypeOK
    PROVE  /\ OutcomeOf(api, TRUE) \in Outcomes
           /\ KeptOf(api) \in Kept
           /\ GateAfter(api) \in Listings
           /\ KeptOf(api).kind = "rows" => GateAfter(api) = KeptOf(api).listing
<1>1. api \in Answers /\ off \in Listings /\ nodesOff \in Listings
  BY MetAssumption DEF TypeOK
<1>2. OutcomeOf(api, TRUE) \in Outcomes
  BY <1>1 DEF Answers, OutcomeOf, Outcomes, RefusedCredentials
<1>3. KeptOf(api) \in Kept
  BY <1>1 DEF KeptOf, Kept
<1>4. GateAfter(api) \in Listings
  BY <1>1 DEF GateAfter, Listings
<1>5. KeptOf(api).kind = "rows" => GateAfter(api) = KeptOf(api).listing
  BY <1>1 DEF KeptOf, GateAfter
<1> QED
  BY <1>2, <1>3, <1>4, <1>5

LEMMA InitEstablishesInv == Init => Inv
<1> SUFFICES ASSUME Init PROVE Inv
  OBVIOUS
<1>1. off \in Listings /\ nodesOff \in Listings
  BY DEF Init, Listings
<1>2. queue \in Seq(Readers) /\ QueuedOnce
  BY DEF Init, QueuedOnce
<1>3. cache \in Kept /\ GateFollowsRows
  BY DEF Init, Kept, GateFollowsRows
<1>4. age \in 0..TTL /\ since \in 0..TTL /\ ReadsAgeTogether
  BY TTLAssumption DEF Init, ReadsAgeTogether
<1>5. attempt \in 1..MaxAttempts /\ last \in Outcomes
  BY DEF Init, MaxAttempts, Outcomes
<1>6. polled \in [Nodes -> {"never", "asked", "spared", "parked"}]
  BY DEF Init
<1> QED
  BY <1>1, <1>2, <1>3, <1>4, <1>5, <1>6, Zenon DEF Init, Inv, TypeOK

\* The steps that leave the lock and what is kept alone.
LEMMA NoReadNoChange ==
    ASSUME Inv,
           \/ \E n \in Nodes : SwitchNode(n) \/ ReadNode(n)
           \/ \E answer \in Met : ApiTurns(answer)
    PROVE  Inv'
<1>1. ASSUME NEW n \in Nodes, SwitchNode(n)
      PROVE  Inv'
  BY <1>1
     DEF SwitchNode, Inv, TypeOK, QueuedOnce, ReadsAgeTogether, GateFollowsRows,
         Listings, lockVars, keptVars, history
<1>2. ASSUME NEW n \in Nodes, ReadNode(n)
      PROVE  Inv'
  BY <1>2
     DEF ReadNode, Inv, TypeOK, QueuedOnce, ReadsAgeTogether, GateFollowsRows,
         envVars, lockVars, keptVars, history
<1>3. ASSUME NEW answer \in Met, ApiTurns(answer)
      PROVE  Inv'
  BY <1>3
     DEF ApiTurns, Inv, TypeOK, QueuedOnce, ReadsAgeTogether, GateFollowsRows,
         lockVars, keptVars, history
<1> QED
  BY <1>1, <1>2, <1>3

LEMMA TickKeepsInv == ASSUME Inv, Tick PROVE Inv'
<1>1. age' \in 0..TTL /\ since' \in 0..TTL /\ (last # "auth" => since' = age')
  BY TTLAssumption DEF Inv, TypeOK, ReadsAgeTogether, Tick, Later
<1> QED
  BY <1>1
     DEF Tick, Inv, TypeOK, QueuedOnce, ReadsAgeTogether, GateFollowsRows,
         envVars, lockVars

LEMMA CallKeepsInv ==
    ASSUME Inv, NEW r \in Readers, Call(r)
    PROVE  Inv' /\ Waiting' = Waiting \cup {r}
<1>1. queue \in Seq(Readers) /\ queue' = Append(queue, r)
  BY DEF Inv, TypeOK, Call
<1>2. \A i \in DOMAIN queue : queue[i] # r
  BY DEF Call, Waiting
<1>3. queue' \in Seq(Readers) /\ QueuedOnce' /\ Waiting' = Waiting \cup {r}
  BY <1>1, <1>2, Joining DEF Inv, QueuedOnce, Waiting
<1> QED
  BY <1>3
     DEF Call, Inv, TypeOK, ReadsAgeTogether, GateFollowsRows,
         envVars, keptVars, history

\* Whoever leaves the lock was its holder, and is gone from the queue.
LEMMA LeaveKeepsQueue ==
    ASSUME Inv, NEW r \in Readers, Holds(r), NEW what, Leave(r, what)
    PROVE  /\ queue' \in Seq(Readers)
           /\ QueuedOnce'
           /\ r \in Waiting
           /\ Waiting' = Waiting \ {r}
<1>1. queue \in Seq(Readers) /\ queue # <<>> /\ r = Head(queue) /\ queue' = Tail(queue)
  BY DEF Inv, TypeOK, Holds, Leave
<1>2. \A i, j \in DOMAIN queue : queue[i] = queue[j] => i = j
  BY DEF Inv, QueuedOnce
<1>3. /\ Tail(queue) \in Seq(Readers)
      /\ Head(queue) \in {queue[i] : i \in DOMAIN queue}
      /\ {Tail(queue)[i] : i \in DOMAIN Tail(queue)}
           = {queue[i] : i \in DOMAIN queue} \ {Head(queue)}
      /\ \A i, j \in DOMAIN Tail(queue) : Tail(queue)[i] = Tail(queue)[j] => i = j
  BY ONLY <1>1, <1>2, Leaving
<1> QED
  BY <1>1, <1>3 DEF QueuedOnce, Waiting

\* The lock is left as if no request had been made.
LEMMA LeaveResets ==
    ASSUME NEW r, NEW what, Leave(r, what)
    PROVE  attempt' \in 1..MaxAttempts /\ asking' \in BOOLEAN
<1>1. attempt' \in 1..MaxAttempts
  BY DEF Leave, MaxAttempts
<1>2. asking' \in BOOLEAN
  BY Zenon DEF Leave
<1> QED
  BY <1>1, <1>2

LEMMA GetKeepsInv ==
    ASSUME Inv, NEW r \in Readers, Get(r)
    PROVE  Inv'
<1>1. CASE StartRead(r) \/ Repeat(r)
  <2>1. attempt' \in 1..MaxAttempts
    BY <1>1 DEF StartRead, Repeat, AskedAgain, MaxAttempts, Inv, TypeOK
  <2>2. asking' \in BOOLEAN
    BY <1>1, Zenon DEF StartRead, Repeat, Inv, TypeOK
  <2> QED
    BY <1>1, <2>1, <2>2
       DEF StartRead, Repeat, Inv, TypeOK, QueuedOnce, ReadsAgeTogether,
           GateFollowsRows, envVars, keptVars, history
<1>2. CASE TakeShared(r)
  <2>1. queue' \in Seq(Readers) /\ QueuedOnce'
    BY <1>2, LeaveKeepsQueue DEF TakeShared
  <2>2. told' \in [to : Readers, what : Kept \cup {Refused}]
    BY <1>2 DEF TakeShared, Leave, Inv, TypeOK
  <2>3. attempt' \in 1..MaxAttempts /\ asking' \in BOOLEAN
    BY <1>2, LeaveResets DEF TakeShared
  <2> QED
    BY <1>2, <2>1, <2>2, <2>3
       DEF TakeShared, Inv, TypeOK, ReadsAgeTogether, GateFollowsRows,
           envVars, keptVars, history
<1>3. CASE ReadReturns(r)
  <2>1. queue' \in Seq(Readers) /\ QueuedOnce'
    BY <1>3, LeaveKeepsQueue DEF ReadReturns, Settled
  <2>2. /\ cache' \in Kept
        /\ nodesOff' \in Listings
        /\ cache'.kind = "rows" => nodesOff' = cache'.listing
        /\ last' \in Outcomes
    BY <1>3, Readings DEF ReadReturns, Settled, Inv
  <2>3. told' \in [to : Readers, what : Kept \cup {Refused}]
    BY <1>3, <2>2 DEF ReadReturns, Leave
  <2>4. age' = 0 /\ since' = 0 /\ 0 \in 0..TTL
    BY <1>3, TTLAssumption DEF ReadReturns, Settled, AgeAfter
  <2>5. attempt' \in 1..MaxAttempts /\ asking' \in BOOLEAN
    BY <1>3, LeaveResets DEF ReadReturns
  <2> QED
    BY <1>3, <2>1, <2>2, <2>3, <2>4, <2>5
       DEF ReadReturns, Inv, TypeOK, ReadsAgeTogether, GateFollowsRows, envVars
<1>4. CASE ReadRefused(r)
  <2>1. queue' \in Seq(Readers) /\ QueuedOnce'
    BY <1>4, LeaveKeepsQueue DEF ReadRefused, Settled
  <2>2. told' \in [to : Readers, what : Kept \cup {Refused}]
    BY <1>4 DEF ReadRefused, Leave
  <2>3. parked' \subseteq Readers
    BY <1>4 DEF ReadRefused, Inv, TypeOK
  <2>4. last' = "auth" /\ since' \in 0..TTL
    <3>1. last' = "auth" /\ since' = 0
      BY <1>4 DEF ReadRefused, Settled
    <3> QED
      BY <3>1, TTLAssumption
  <2>5. attempt' \in 1..MaxAttempts /\ asking' \in BOOLEAN
    BY <1>4, LeaveResets DEF ReadRefused
  <2> QED
    BY <1>4, <2>1, <2>2, <2>3, <2>4, <2>5
       DEF ReadRefused, Inv, TypeOK, ReadsAgeTogether, GateFollowsRows,
           Outcomes, envVars, keptVars
<1> QED
  BY <1>1, <1>2, <1>3, <1>4 DEF Get

LEMMA NextKeepsInv == Inv /\ [Next]_vars => Inv'
<1> SUFFICES ASSUME Inv, [Next]_vars PROVE Inv'
  OBVIOUS
<1>1. CASE UNCHANGED vars
  BY <1>1
     DEF vars, envVars, lockVars, keptVars, history,
         Inv, TypeOK, QueuedOnce, ReadsAgeTogether, GateFollowsRows
<1>2. CASE Next
  BY <1>2, NoReadNoChange, TickKeepsInv, CallKeepsInv, GetKeepsInv DEF Next
<1> QED
  BY <1>1, <1>2

LEMMA Invariance == Spec => []Inv
BY InitEstablishesInv, NextKeepsInv, PTL DEF Spec

\* Every variable keeps its type: above all, no read takes more than the two
\* requests `poll_api` allows it.
THEOREM TypeCorrect == Spec => []TypeOK
<1>1. Inv => TypeOK
  BY DEF Inv
<1> QED
  BY Invariance, <1>1, PTL

\* The gate of `poll_api` spares exactly the nodes the shared rows report as
\* off, whenever there are rows to share.
THEOREM GateCorrect == Spec => []GateFollowsRows
<1>1. Inv => GateFollowsRows
  BY DEF Inv
<1> QED
  BY Invariance, <1>1, PTL

-----------------------------------------------------------------------------
(* What a step may do.                                                     *)

\* Only StartRead sets a request going.
LEMMA OnlyStartReadSends ==
    ASSUME [Next]_vars, ~asking, asking'
    PROVE  \E s \in Readers : StartRead(s)
BY DEF Next, vars, SwitchNode, ReadNode, ApiTurns, Tick, Call, Get, TakeShared,
       Repeat, ReadReturns, ReadRefused, Settled, Leave, lockVars

\* No coordinator but discovery reads within the TTL of a read that came
\* back.
THEOREM OneReadPerBurstHolds == Spec => OneReadPerBurst
<1>1. ASSUME Inv, [Next]_vars, NEW r \in Readers \ Fresh, Sends(r), last # "auth"
      PROVE  since >= TTL
  <2>1. PICK s \in Readers : StartRead(s)
    BY <1>1, OnlyStartReadSends DEF Sends
  <2>2. s = r
    BY <1>1, <2>1 DEF StartRead, Holds, Sends
  <2>3. age >= TTL
    BY <2>1, <2>2 DEF StartRead, MustRead
  <2> QED
    BY <1>1, <2>3 DEF Inv, ReadsAgeTogether
<1>2. Inv /\ [Next]_vars =>
          [\A r \in Readers \ Fresh :
               Sends(r) /\ last # "auth" => since >= TTL]_vars
  BY <1>1
<1> QED
  BY <1>2, Invariance, PTL DEF Spec, OneReadPerBurst

\* A failed read and a refused login leave the gate as it is.
THEOREM SilenceOpensNoGateHolds == Spec => SilenceOpensNoGate
<1>1. ASSUME Inv, [Next]_vars, NEW n \in nodesOff \ nodesOff'
      PROVE  last' \in {"data", "none"} /\ since' = 0
  <2>1. PICK r \in Readers : ReadReturns(r)
    BY <1>1
       DEF Next, vars, SwitchNode, ReadNode, ApiTurns, Tick, Call, Get, StartRead,
           TakeShared, Repeat, ReadRefused, keptVars
  <2>2. api \in Answers
    BY <1>1, MetAssumption DEF Inv, TypeOK
  <2>3. nodesOff' = GateAfter(api) /\ last' = OutcomeOf(api, TRUE) /\ since' = 0
    BY <2>1 DEF ReadReturns, Settled
  <2>4. OutcomeOf(api, TRUE) \notin {"failed", "auth"}
    BY <1>1, <2>1, <2>3 DEF ReadReturns, GateAfter, OutcomeOf, RefusedCredentials
  <2> QED
    BY <2>3, <2>4, <1>1, Readings DEF Outcomes, Inv
<1>2. Inv /\ [Next]_vars =>
          [\A n \in nodesOff \ nodesOff' :
               last' \in {"data", "none"} /\ since' = 0]_vars
  BY <1>1
<1> QED
  BY <1>2, Invariance, PTL DEF Spec, SilenceOpensNoGate

-----------------------------------------------------------------------------
(* The promise is kept.                                                    *)

LEMMA InitPromises == Init => Burst!Init
BY DEF Init, Waiting, Nothing, Listings, Burst!Init, Burst!Nothing

\* Each step of the lock and its requests is one of the promise's, or none.
LEMMA StepPromises ==
    ASSUME Inv, [Next]_vars
    PROVE  [Burst!Next]_Burst!vars
<1> USE DEF Burst!vars
<1>1. CASE UNCHANGED vars
  BY <1>1 DEF vars, envVars, lockVars, keptVars, Waiting
<1>2. ASSUME NEW n \in Nodes, SwitchNode(n)
      PROVE  Burst!ClusterChanges
  BY <1>2
     DEF SwitchNode, Burst!ClusterChanges, Waiting, lockVars, keptVars, Inv, TypeOK,
         Listings
<1>3. ASSUME \/ \E n \in Nodes : ReadNode(n)
             \/ \E answer \in Met : ApiTurns(answer)
             \/ \E r \in Readers : StartRead(r) \/ Repeat(r)
      PROVE  UNCHANGED Burst!vars
  BY <1>3
     DEF ReadNode, ApiTurns, StartRead, Repeat, Waiting, envVars, lockVars, keptVars
<1>4. ASSUME Tick
      PROVE  Burst!Tick \/ UNCHANGED Burst!vars
  <2>1. UNCHANGED <<off, Waiting, told, cache>>
    BY <1>4 DEF Tick, Waiting, envVars, lockVars
  <2>2. (age < TTL /\ age' = age + 1) \/ age' = age
    BY <1>4, TTLAssumption DEF Tick, Later, Inv, TypeOK
  <2> QED
    BY <2>1, <2>2 DEF Burst!Tick
<1>5. ASSUME NEW r \in Readers, Call(r)
      PROVE  Burst!Ask(r)
  <2>1. Waiting' = Waiting \cup {r}
    BY <1>5, CallKeepsInv
  <2> QED
    BY <1>5, <2>1 DEF Call, Burst!Ask, envVars, keptVars
<1>6. ASSUME NEW r \in Readers, TakeShared(r)
      PROVE  Burst!Share(r)
  <2>1. r \in Waiting /\ Waiting' = Waiting \ {r}
    BY <1>6, LeaveKeepsQueue DEF TakeShared
  <2>2. r \notin Fresh /\ age < TTL
    BY <1>6, TTLAssumption DEF TakeShared, MustRead, Inv, TypeOK
  <2> QED
    BY <1>6, <2>1, <2>2
       DEF TakeShared, Leave, Burst!Share, Burst!Told, envVars, keptVars
<1>7. ASSUME NEW r \in Readers, ReadReturns(r)
      PROVE  Burst!ReadAnswered(r)
  <2>1. r \in Waiting /\ Waiting' = Waiting \ {r}
    BY <1>7, LeaveKeepsQueue DEF ReadReturns, Settled
  <2>2. cache' \in {[kind |-> "rows", listing |-> off],
                    [kind |-> "none"], [kind |-> "failed"]}
    BY <1>7 DEF ReadReturns, KeptOf
  <2> QED
    BY <1>7, <2>1, <2>2
       DEF ReadReturns, Leave, AgeAfter, Burst!ReadAnswered, Burst!Told, envVars
<1>8. ASSUME NEW r \in Readers, ReadRefused(r)
      PROVE  Burst!ReadRefused(r)
  <2>1. r \in Waiting /\ Waiting' = Waiting \ {r}
    BY <1>8, LeaveKeepsQueue DEF ReadRefused, Settled
  <2> QED
    BY <1>8, <2>1
       DEF ReadRefused, Leave, Refused, Burst!ReadRefused, Burst!Told,
           Burst!Refused, envVars, keptVars
<1> QED
  BY <1>1, <1>2, <1>3, <1>4, <1>5, <1>6, <1>7, <1>8 DEF Next, Get, Burst!Next

\* `get`, with its lock, its queue and its requests, keeps the promise of
\* BurstRead.
THEOREM PromiseKept == Spec => KeepsPromise
BY InitPromises, StepPromises, Invariance, PTL DEF Spec, KeepsPromise, Burst!Spec

-----------------------------------------------------------------------------
(* Why nobody is left at the lock, whatever the reads before ended with,   *)
(* and why a node that is on again is not kept out.                        *)

(***************************************************************************)
(* The lock is never held by nobody: a request in flight has a holder      *)
(* whose read no recent one could have spared, an attempt beyond the first *)
(* belongs to a request, and a coordinator that is polled no more does not *)
(* stand in the way of the others.                                         *)
(***************************************************************************)
LockHasHolder ==
    /\ asking => queue # <<>> /\ MustRead(Head(queue))
    /\ attempt > 1 => asking
    /\ Waiting \cap parked = {}

\* What the readers up to place i can still do at the lock before the one at
\* i is through: each may send MaxAttempts requests and leave.
StepsUpTo(i) == (MaxAttempts + 1) * i - (IF asking THEN attempt ELSE 0)

\* The reader at place i is through.
ThroughFrom(i) ==
    /\ i = 1
    /\ queue[i] \notin Waiting'
    /\ told'.to = queue[i]

\* The reader at place i waits on, at place j.
WaitsOnAt(i, j) ==
    /\ queue'[j] = queue[i]
    /\ StepsUpTo(i) \in Nat
    /\ StepsUpTo(j)' <= StepsUpTo(i)
    /\ (\E r \in Readers : Get(r)) => StepsUpTo(j)' < StepsUpTo(i)

\* No reader is overtaken, and whatever the holder does brings it closer.
MovesUp ==
    \A i \in DOMAIN queue :
        ThroughFrom(i) \/ \E j \in DOMAIN queue' : j <= i /\ WaitsOnAt(i, j)

\* Only a list with n off closes n's gate, and the first list with n on
\* opens it.
GateFollowsLists ==
    /\ \A n \in nodesOff' \ nodesOff : n \in off /\ api = "ok" /\ last' = "data"
    /\ (\E r \in Readers : ReadReturns(r)) /\ api = "ok" => nodesOff' \cap (Nodes \ off) = {}

LEMMA InitLockHasHolder == Init => LockHasHolder
BY DEF Init, LockHasHolder

\* A step that leaves the lock, the parked and the age alone.
LEMMA LockUntouched ==
    ASSUME LockHasHolder, UNCHANGED <<lockVars, parked, age>>
    PROVE  LockHasHolder'
BY DEF LockHasHolder, lockVars, Waiting, MustRead

LEMMA TickKeepsHolder ==
    ASSUME Inv, LockHasHolder, Tick
    PROVE  LockHasHolder'
<1>1. age >= TTL => age' >= TTL
  BY TTLAssumption DEF Tick, Later, Inv, TypeOK
<1> QED
  BY <1>1 DEF Tick, LockHasHolder, MustRead, Waiting, lockVars

LEMMA CallKeepsHolder ==
    ASSUME Inv, LockHasHolder, NEW r \in Readers, Call(r)
    PROVE  LockHasHolder'
<1>1. queue \in Seq(Readers) /\ queue' = Append(queue, r)
  BY DEF Inv, TypeOK, Call
<1>2. queue # <<>> => queue' # <<>> /\ Head(queue') = Head(queue)
  BY <1>1
<1>3. Waiting' \cap parked' = {}
  BY CallKeepsInv DEF Call, LockHasHolder
<1>4. UNCHANGED <<asking, attempt, age>>
  BY DEF Call, keptVars
<1> QED
  BY <1>2, <1>3, <1>4 DEF LockHasHolder, MustRead

LEMMA LeavingKeepsHolder ==
    ASSUME Inv, LockHasHolder, NEW r \in Readers, Holds(r), NEW what,
           Leave(r, what), parked' \subseteq parked \cup {r}
    PROVE  LockHasHolder'
<1>1. Waiting' = Waiting \ {r}
  BY LeaveKeepsQueue
<1>2. asking' = FALSE /\ attempt' = 1
  BY DEF Leave
<1> QED
  BY <1>1, <1>2 DEF LockHasHolder

LEMMA GetKeepsHolder ==
    ASSUME Inv, LockHasHolder, NEW r \in Readers, Get(r)
    PROVE  LockHasHolder'
<1>1. CASE StartRead(r)
  BY <1>1
     DEF StartRead, Holds, LockHasHolder, Waiting, MustRead, keptVars
<1>2. CASE Repeat(r)
  BY <1>2
     DEF Repeat, Holds, LockHasHolder, Waiting, MustRead, keptVars
<1>3. CASE TakeShared(r)
  BY <1>3, LeavingKeepsHolder DEF TakeShared
<1>4. CASE ReadReturns(r)
  BY <1>4, LeavingKeepsHolder DEF ReadReturns, Settled
<1>5. CASE ReadRefused(r)
  BY <1>5, LeavingKeepsHolder DEF ReadRefused, Settled
<1> QED
  BY <1>1, <1>2, <1>3, <1>4, <1>5 DEF Get

LEMMA NextKeepsHolder == Inv /\ LockHasHolder /\ [Next]_vars => LockHasHolder'
<1> SUFFICES ASSUME Inv, LockHasHolder, [Next]_vars PROVE LockHasHolder'
  OBVIOUS
<1>1. ASSUME \/ UNCHANGED vars
             \/ \E n \in Nodes : SwitchNode(n) \/ ReadNode(n)
             \/ \E answer \in Met : ApiTurns(answer)
      PROVE  LockHasHolder'
  BY <1>1, LockUntouched DEF vars, SwitchNode, ReadNode, ApiTurns, keptVars
<1> QED
  BY <1>1, TickKeepsHolder, CallKeepsHolder, GetKeepsHolder DEF Next

\* No request is in flight without a holder that had to read, and no
\* coordinator that is polled no more stands at the lock.
THEOREM LockIsNeverStuck == Spec => []LockHasHolder
BY InitLockHasHolder, NextKeepsHolder, Invariance, PTL DEF Spec

\* What is left to do before a reader's turn is a number, and a positive one.
LEMMA StepsAreLeft ==
    ASSUME Inv, NEW i \in DOMAIN queue
    PROVE  StepsUpTo(i) \in Nat \ {0}
<1>1. i \in Nat \ {0}
  BY DEF Inv, TypeOK
<1>2. asking \in BOOLEAN /\ attempt \in 1..2
  BY DEF Inv, TypeOK, MaxAttempts
<1> QED
  BY <1>1, <1>2 DEF StepsUpTo, MaxAttempts

\* A step that leaves the lock alone leaves everybody's place.
LEMMA NobodyMoves ==
    ASSUME Inv, UNCHANGED lockVars, ~ \E r \in Readers : Get(r)
    PROVE  MovesUp
<1>1. ASSUME NEW i \in DOMAIN queue
      PROVE  i \in DOMAIN queue' /\ i <= i /\ WaitsOnAt(i, i)
  <2>1. queue' = queue /\ asking' = asking /\ attempt' = attempt
    BY DEF lockVars
  <2>2. StepsUpTo(i) \in Nat /\ StepsUpTo(i)' = StepsUpTo(i)
    BY <2>1, StepsAreLeft DEF StepsUpTo
  <2>3. i \in Nat
    BY DEF Inv, TypeOK
  <2> QED
    BY <2>1, <2>2, <2>3 DEF WaitsOnAt
<1> QED
  BY <1>1 DEF MovesUp

\* Who joins joins behind the others.
LEMMA JoiningMovesNobody ==
    ASSUME Inv, NEW r \in Readers, Call(r)
    PROVE  MovesUp
<1>1. queue \in Seq(Readers) /\ queue' = Append(queue, r)
      /\ asking' = asking /\ attempt' = attempt
  BY DEF Inv, TypeOK, Call
<1>2. ~ \E s \in Readers : Get(s)
  <2>1. Len(queue') = Len(queue) + 1 /\ Len(queue) \in Nat
    BY <1>1
  <2>2. queue # <<>> => Len(Tail(queue)) = Len(queue) - 1
    BY <1>1
  <2>3. ASSUME NEW s \in Readers, Get(s)
        PROVE  queue' = queue \/ (queue # <<>> /\ queue' = Tail(queue))
    BY <2>3
       DEF Get, StartRead, TakeShared, Repeat, ReadReturns, ReadRefused, Settled,
           Leave, Holds
  <2> QED
    BY <2>1, <2>2, <2>3
<1>3. ASSUME NEW i \in DOMAIN queue
      PROVE  i \in DOMAIN queue' /\ i <= i /\ WaitsOnAt(i, i)
  <2>1. i \in DOMAIN queue' /\ queue'[i] = queue[i] /\ i \in Nat
    BY <1>1
  <2>2. StepsUpTo(i) \in Nat /\ StepsUpTo(i)' = StepsUpTo(i)
    BY <1>1, StepsAreLeft DEF StepsUpTo
  <2> QED
    BY <1>2, <2>1, <2>2 DEF WaitsOnAt
<1> QED
  BY <1>3 DEF MovesUp

\* A request, or its repetition, is a step towards everybody's turn.
LEMMA AskingMovesUp ==
    ASSUME Inv, NEW r \in Readers, StartRead(r) \/ Repeat(r)
    PROVE  MovesUp
<1>1. queue' = queue
  BY DEF StartRead, Repeat
<1>2. /\ asking' = TRUE /\ attempt \in 1..2
      /\ (asking /\ attempt' = attempt + 1) \/ (~asking /\ attempt' = attempt)
  BY DEF StartRead, Repeat, Inv, TypeOK, MaxAttempts
<1>3. ASSUME NEW i \in DOMAIN queue
      PROVE  i \in DOMAIN queue' /\ i <= i /\ WaitsOnAt(i, i)
  <2>1. i \in Nat
    BY DEF Inv, TypeOK
  <2>2. StepsUpTo(i)' < StepsUpTo(i)
    BY <1>2, <2>1 DEF StepsUpTo, MaxAttempts
  <2>3. StepsUpTo(i) \in Nat /\ StepsUpTo(i)' <= StepsUpTo(i)
    BY <1>2, <2>1, <2>2, StepsAreLeft DEF StepsUpTo, MaxAttempts
  <2> QED
    BY <1>1, <2>1, <2>2, <2>3 DEF WaitsOnAt
<1> QED
  BY <1>3 DEF MovesUp

\* When the holder is through, each of the others is one place further on.
LEMMA LeavingMovesUp ==
    ASSUME Inv, NEW r \in Readers, Holds(r), NEW what, Leave(r, what)
    PROVE  MovesUp
<1>1. /\ queue \in Seq(Readers) /\ queue # <<>> /\ r = Head(queue)
      /\ queue' = Tail(queue) /\ asking' = FALSE /\ attempt' = 1
      /\ told'.to = r
  BY DEF Inv, TypeOK, Holds, Leave
<1>2. r \notin Waiting'
  BY LeaveKeepsQueue
<1>3. ASSUME NEW i \in DOMAIN queue, i = 1
      PROVE  ThroughFrom(i)
  BY <1>1, <1>2, <1>3 DEF ThroughFrom
<1>4. ASSUME NEW i \in DOMAIN queue, i # 1
      PROVE  i - 1 \in DOMAIN queue' /\ i - 1 <= i /\ WaitsOnAt(i, i - 1)
  <2>1. /\ i \in Nat /\ i - 1 \in DOMAIN queue' /\ i - 1 <= i
        /\ queue'[i - 1] = queue[i]
    BY <1>1, <1>4
  <2>2. asking \in BOOLEAN /\ attempt \in 1..2
    BY DEF Inv, TypeOK, MaxAttempts
  <2>3. StepsUpTo(i - 1)' < StepsUpTo(i)
    BY <1>1, <2>1, <2>2 DEF StepsUpTo, MaxAttempts
  <2>4. StepsUpTo(i) \in Nat /\ StepsUpTo(i - 1)' <= StepsUpTo(i)
    BY <1>1, <2>1, <2>2, <2>3, StepsAreLeft DEF StepsUpTo, MaxAttempts
  <2> QED
    BY <2>1, <2>3, <2>4 DEF WaitsOnAt
<1> QED
  BY <1>3, <1>4 DEF MovesUp

\* Readers are served in the order they came: none is overtaken, and the
\* holder can only do what brings everybody behind it closer to a turn.
THEOREM TurnsComeCloser == Spec => [][MovesUp]_vars
<1>1. ASSUME Inv, NEW r \in Readers, Get(r)
      PROVE  MovesUp
  BY <1>1, AskingMovesUp, LeavingMovesUp
     DEF Get, TakeShared, ReadReturns, ReadRefused, Settled
<1>2. ASSUME Inv, Next
      PROVE  MovesUp
  <2>1. ASSUME ~ \E r \in Readers : Call(r) \/ Get(r)
        PROVE  UNCHANGED lockVars
    BY <1>2, <2>1 DEF Next, SwitchNode, ReadNode, ApiTurns, Tick
  <2> QED
    BY <1>1, <1>2, <2>1, JoiningMovesNobody, NobodyMoves
<1>3. Inv /\ [Next]_vars => [MovesUp]_vars
  BY <1>2
<1> QED
  BY <1>3, Invariance, PTL DEF Spec

\* A node is put behind the gate by a list that shows it off and nothing
\* else, and the first list that shows it on takes it out again.
THEOREM GateFollowsLastList == Spec => [][GateFollowsLists]_vars
<1>1. ASSUME Inv, [Next]_vars, NEW n \in nodesOff' \ nodesOff
      PROVE  n \in off /\ api = "ok" /\ last' = "data"
  <2>1. PICK r \in Readers : ReadReturns(r)
    BY <1>1
       DEF Next, vars, SwitchNode, ReadNode, ApiTurns, Tick, Call, Get, StartRead,
           TakeShared, Repeat, ReadRefused, keptVars
  <2>2. n \in off /\ api = "ok"
    BY <1>1, <2>1 DEF ReadReturns, GateAfter
  <2> QED
    BY <2>1, <2>2 DEF ReadReturns, Settled, OutcomeOf
<1>2. ASSUME NEW r \in Readers, ReadReturns(r), api = "ok"
      PROVE  nodesOff' \cap (Nodes \ off) = {}
  BY <1>2 DEF ReadReturns, GateAfter
<1>3. Inv /\ [Next]_vars => [GateFollowsLists]_vars
  BY <1>1, <1>2 DEF GateFollowsLists
<1> QED
  BY <1>3, Invariance, PTL DEF Spec
=============================================================================
