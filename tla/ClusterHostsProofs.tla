-------------------------- MODULE ClusterHostsProofs --------------------------
(***************************************************************************)
(* What TLAPS proves of ClusterHosts, for any hosts, any clusters they are *)
(* in and any credentials: which host an entry is on, when it asks for     *)
(* credentials, what it remembers, and that each step of a setup that can  *)
(* recover brings it closer to being loaded.                               *)
(***************************************************************************)
EXTENDS ClusterHosts, Naturals, TLAPS

\* What `steady` stands for while there is a host in use.
SteadyHostAnswers == phase \in Connected /\ steady => ~Silent(host)

\* Nothing is remembered of a host before there is an entry.
NothingKnownYet == phase \in {"absent", "selecting"} => fallbacks = {}

Inv == TypeOK /\ NothingKnownYet /\ SteadyHostAnswers /\ ConfiguredHostFirst

\* The steps that change neither a host, the entry nor what is remembered:
\* what they do to the phase and the host in use is all there is to them.
Moves ==
    \/ BeginSetup \/ LoginPasses \/ LoginMoves \/ LoginRefused \/ LoginFails
    \/ ResourcesRead \/ ResourcesFail \/ RequestMoves \/ GoDown

-----------------------------------------------------------------------------
\* Types, and the host in use among the known ones exactly while connected.
LEMMA InitInv == Init => Inv
BY HostsAssumption DEF Init, Inv, TypeOK, NothingKnownYet, SteadyHostAnswers,
                       ConfiguredHostFirst, Connected, InSetup

LEMMA WorldInv == Inv /\ World => Inv'
<1> SUFFICES ASSUME Inv, World PROVE Inv'
  OBVIOUS
<1>1. ASSUME NEW h \in Hosts, HealthTurns(h) PROVE Inv'
  BY <1>1 DEF HealthTurns, Health, Inv, TypeOK, NothingKnownYet, SteadyHostAnswers,
              ConfiguredHostFirst, Silent, Connected, InSetup, entryVars
<1>2. ASSUME NEW h \in Hosts, Regroups(h) PROVE Inv'
  BY <1>2 DEF Regroups, Inv, TypeOK, NothingKnownYet, SteadyHostAnswers,
              ConfiguredHostFirst, Silent, Connected, InSetup, entryVars
<1>3. ASSUME NEW c \in Clusters, SecretTurns(c) PROVE Inv'
  BY <1>3 DEF SecretTurns, Inv, TypeOK, NothingKnownYet, SteadyHostAnswers,
              ConfiguredHostFirst, Silent, Connected, InSetup, entryVars
<1> QED
  BY <1>1, <1>2, <1>3 DEF World

\* A host that was steady is never left: only a silent one is.
LEMMA MovesInv == Inv /\ Moves => Inv'
<1> SUFFICES ASSUME Inv, Moves PROVE Inv'
  OBVIOUS
<1> USE DEF Inv, TypeOK, NothingKnownYet, SteadyHostAnswers, ConfiguredHostFirst,
            Connected, InSetup, Silent, worldVars, entryVars
<1>1. CASE BeginSetup
  BY <1>1, HostsAssumption DEF BeginSetup, First
<1>2. CASE LoginPasses
  BY <1>2, HostsAssumption DEF LoginPasses
<1>3. CASE LoginMoves
  BY <1>3, HostsAssumption DEF LoginMoves, MovesOn, Peers
<1>4. CASE LoginRefused
  BY <1>4, HostsAssumption DEF LoginRefused, GivesUp
<1>5. CASE LoginFails
  BY <1>5, HostsAssumption DEF LoginFails, GivesUp
<1>6. CASE ResourcesRead
  BY <1>6, HostsAssumption DEF ResourcesRead
<1>7. CASE ResourcesFail
  BY <1>7, HostsAssumption DEF ResourcesFail, GivesUp
<1>8. CASE RequestMoves
  BY <1>8, HostsAssumption DEF RequestMoves, MovesOn, Peers
<1>9. CASE GoDown
  BY <1>9, HostsAssumption DEF GoDown, GivesUp
<1> QED
  BY <1>1, <1>2, <1>3, <1>4, <1>5, <1>6, <1>7, <1>8, <1>9 DEF Moves

\* A membership list keeps the host in use among the known ones.
LEMMA ReadsInv == Inv /\ (MembersRead \/ MembersUnread) => Inv'
<1> SUFFICES ASSUME Inv, MembersRead \/ MembersUnread PROVE Inv'
  OBVIOUS
<1> USE DEF Inv, TypeOK, NothingKnownYet, SteadyHostAnswers, ConfiguredHostFirst,
            Connected, InSetup, Silent, worldVars
<1>1. Remembered \subseteq Hosts \ {host} /\ current \in Remembered \cup {host}
  <2>1. current \in Hosts
    BY DEF MembersRead, MembersUnread
  <2> QED
    BY <2>1 DEF Remembered, Members
<1>2. CASE MembersRead
  BY <1>1, <1>2, HostsAssumption DEF MembersRead, FallbacksUnread
<1>3. CASE MembersUnread
  BY <1>3, HostsAssumption DEF MembersUnread, FallbacksUnread
<1> QED
  BY <1>2, <1>3

LEMMA FlowsInv == Inv /\ Flows => Inv'
<1> SUFFICES ASSUME Inv, Flows PROVE Inv'
  OBVIOUS
<1> USE DEF Inv, TypeOK, NothingKnownYet, SteadyHostAnswers, ConfiguredHostFirst,
            Connected, InSetup, Silent, worldVars, entryVars, GivesUp
<1>1. CASE CreateEntry
  BY <1>1, HostsAssumption DEF CreateEntry
<1>2. ASSUME NEW s \in Secrets, Reauth(s) \/ HostAuth(s) PROVE Inv'
  <2>1. NewSecret(s)
    BY <1>2 DEF Reauth, HostAuth
  <2> QED
    BY <2>1, HostsAssumption DEF NewSecret
<1>3. ASSUME NEW h \in Hosts, NEW s \in Secrets, EnterHost(h, s) PROVE Inv'
  BY <1>3, HostsAssumption DEF EnterHost
<1>4. ASSUME NEW h \in Hosts, NEW s \in Secrets, Reconfigure(h, s) PROVE Inv'
  BY <1>4, HostsAssumption DEF Reconfigure
<1> QED
  BY <1>1, <1>2, <1>3, <1>4 DEF Flows

LEMMA NextInv == Inv /\ [Next]_vars => Inv'
<1> SUFFICES ASSUME Inv, [Next]_vars PROVE Inv'
  OBVIOUS
<1>1. CASE UNCHANGED vars
  BY <1>1 DEF vars, worldVars, entryVars, Inv, TypeOK, NothingKnownYet, SteadyHostAnswers,
              ConfiguredHostFirst, Silent, Connected, InSetup
<1> QED
  BY <1>1, WorldInv, MovesInv, ReadsInv, FlowsInv DEF Next, Moves

\* The invariant of every behaviour, from which the rest follows.
THEOREM Invariant == Spec => []Inv
BY InitInv, NextInv, PTL DEF Spec

\* Every variable keeps its type; a connected entry uses a host it knows.
THEOREM TypeCorrect == Spec => []TypeOK
<1>1. Inv => TypeOK
  BY DEF Inv
<1> QED
  BY <1>1, Invariant, PTL

\* An entry leaves its configured host only over that host's silence.
THEOREM StartsAtTheConfiguredHost == Spec => []ConfiguredHostFirst
<1>1. Inv => ConfiguredHostFirst
  BY DEF Inv
<1> QED
  BY <1>1, Invariant, PTL
-----------------------------------------------------------------------------
(* What a step may never do.                                               *)

\* A refusal comes from the host in use, which is one the entry knows: while
\* these are all in the configured host's cluster, it is that cluster's word.
THEOREM RefusalsAreTheClusters == Spec => RefusalIsTheClusters
<1>1. ASSUME Inv, [Next]_vars, phase # "reauth", phase' = "reauth", KnownAreMembers
      PROVE  secret[cluster[host]] # cred
  <2>1. LoginRefused \/ ResourcesFail
    BY <1>1 DEF Next, vars, World, HealthTurns, Regroups, SecretTurns, Flows, CreateEntry,
                Reauth, HostAuth, NewSecret, EnterHost, Reconfigure, GivesUp, BeginSetup,
                LoginPasses, LoginMoves, LoginFails, MembersRead, MembersUnread,
                ResourcesRead, RequestMoves, GoDown
  <2>2. phase \in Connected /\ Refuses(current, cred)
    BY <1>1, <2>1 DEF LoginRefused, Refused, ResourcesFail, GivesUp, Connected, InSetup
  <2>3. current \in Members(host)
    BY <1>1, <2>2 DEF KnownAreMembers, Peers, Inv, TypeOK
  <2> QED
    BY <2>2, <2>3 DEF Refuses, Members
<1>2. Inv /\ [Next]_vars
      => (phase # "reauth" /\ phase' = "reauth" /\ KnownAreMembers
          => secret[cluster[host]] # cred)
  BY <1>1
<1> QED
  BY <1>2, Invariant, PTL DEF Spec, RefusalIsTheClusters

\* What is remembered shrinks by a membership list alone.
THEOREM OnlyAListForgets == Spec => PeersAreKept
<1>1. ASSUME Inv, [Next]_vars, host' = host, NEW h \in fallbacks \ fallbacks'
      PROVE  /\ audited
             /\ Serves(current, cred)
             /\ h \notin Members(current) \cup {current}
  <2>1. CASE MembersRead
    BY <1>1, <2>1 DEF MembersRead, FallbacksUnread, Remembered, Inv, TypeOK
  <2>2. CASE \E g \in Hosts, s \in Secrets : Reconfigure(g, s)
    BY <1>1, <2>2 DEF Reconfigure, Inv, TypeOK
  <2> QED
    BY <1>1, <2>1, <2>2
       DEF Next, vars, worldVars, entryVars, World, HealthTurns, Regroups, SecretTurns,
           Flows, CreateEntry, Reauth, HostAuth, NewSecret, EnterHost, BeginSetup,
           LoginPasses, LoginMoves, LoginRefused, LoginFails, MembersUnread,
           FallbacksUnread, ResourcesRead, ResourcesFail, RequestMoves, GoDown
<1>2. Inv /\ [Next]_vars
      => (host' = host =>
            \A h \in fallbacks \ fallbacks' :
                /\ audited
                /\ Serves(current, cred)
                /\ h \notin Members(current) \cup {current})
  BY <1>1
<1> QED
  BY <1>2, Invariant, PTL DEF Spec, PeersAreKept

-----------------------------------------------------------------------------
(* Why a setup recovers and the remembered hosts catch up: the steps behind *)
(* the two liveness properties.                                            *)

\* The user is asked for credentials only when a host the entry knows refuses
\* the ones it has.
AskedAfterARefusal ==
    phase # "reauth" /\ phase' = "reauth" => \E h \in Peers : Refuses(h, cred)

\* Some known host serves the entry, and the others serve it or are silent.
Recoverable ==
    /\ phase \in Connected \cup {"retry"}
    /\ \E h \in Peers : Serves(h, cred)
    /\ \A h \in Peers : Silent(h) \/ Serves(h, cred)

\* A setup that can recover has a next step at every request: the host in use
\* serves it, or there is one to move on to.
NeverStranded ==
    Recoverable /\ phase \in InSetup =>
        \/ Serves(current, cred)
        \/ Silent(current) /\ \E h \in Peers \ {current} : ~Silent(h)

\* How far a setup is from loading.  The one way back is a login repeated on a
\* host that fell silent meanwhile, which costs a new setup.
Distance ==
    CASE phase = "relogin" /\ Silent(current) -> 9
      [] phase = "retry" -> 8
      [] phase = "login" /\ Silent(current) -> 7
      [] phase = "login" /\ ~Silent(current) -> 6
      [] phase = "relogin" /\ ~Silent(current) -> 5
      [] phase = "members" /\ Silent(current) -> 4
      [] phase = "members" /\ ~Silent(current) -> 3
      [] phase = "resources" /\ Silent(current) -> 2
      [] phase = "resources" /\ ~Silent(current) -> 1
      [] OTHER -> 0

\* While no host falls silent or wakes, each step of a setup that can recover
\* brings it closer to loading, and nothing but an unload or a flow takes it
\* away from there.
ComesCloser ==
    Recoverable /\ health' = health /\ phase' \in Connected \cup {"retry", "reauth"} =>
        /\ Distance' <= Distance
        /\ Setup => Distance' < Distance
        /\ Distance' = 0 <=> phase' = "loaded"

\* What is remembered is the configured host's cluster.
KnowsCluster == fallbacks = Members(host) \ {host}

\* Once it is, it stays so while the cluster and the host do not change; and it
\* is after a list read by a setup whose configured host served it all along.
MembershipSettles ==
    /\ KnowsCluster /\ UNCHANGED <<cluster, host>> => KnowsCluster'
    /\ MembersRead /\ audited /\ steady /\ Serves(host, cred) => KnowsCluster'

\* Whoever is asked for credentials had them refused by the host in use.
LEMMA RefusedInUse ==
    ASSUME Inv, [Next]_vars, phase # "reauth", phase' = "reauth"
    PROVE  phase \in InSetup /\ current \in Peers /\ Refuses(current, cred)
<1>1. LoginRefused \/ ResourcesFail
  BY DEF Next, vars, World, HealthTurns, Regroups, SecretTurns, Flows, CreateEntry,
         Reauth, HostAuth, NewSecret, EnterHost, Reconfigure, GivesUp, BeginSetup,
         LoginPasses, LoginMoves, LoginFails, MembersRead, MembersUnread,
         ResourcesRead, RequestMoves, GoDown
<1>2. phase \in InSetup /\ Refuses(current, cred)
  BY <1>1 DEF LoginRefused, Refused, ResourcesFail, GivesUp, InSetup
<1> QED
  BY <1>2 DEF Inv, TypeOK, Peers, Connected

\* No silence, no boot and no host the entry does not know makes it ask for
\* credentials.
THEOREM AskedOnlyAfterARefusal == Spec => [][AskedAfterARefusal]_vars
<1>1. Inv /\ [Next]_vars => [AskedAfterARefusal]_vars
  BY RefusedInUse DEF AskedAfterARefusal
<1> QED
  BY <1>1, Invariant, PTL DEF Spec

LEMMA InUseServesOrMoves ==
    ASSUME Inv
    PROVE  NeverStranded
<1> SUFFICES ASSUME Recoverable, phase \in InSetup
             PROVE  \/ Serves(current, cred)
                    \/ Silent(current) /\ \E h \in Peers \ {current} : ~Silent(h)
  BY DEF NeverStranded
<1>1. current \in Peers
  BY DEF Inv, TypeOK, Peers, Connected
<1>2. PICK h \in Peers : Serves(h, cred)
  BY DEF Recoverable
<1>3. ~Silent(h)
  BY <1>2 DEF Serves, Silent
<1> QED
  BY <1>1, <1>2, <1>3 DEF Recoverable

\* A setup that can recover is never without a host to go on with.
THEOREM SetupsAreNeverStranded == Spec => []NeverStranded
BY InUseServesOrMoves, Invariant, PTL

\* The distance at each stage.
DistanceTable ==
    /\ Distance \in 0..9
    /\ phase = "relogin" => Distance = IF Silent(current) THEN 9 ELSE 5
    /\ phase = "retry" => Distance = 8
    /\ phase = "login" => Distance = IF Silent(current) THEN 7 ELSE 6
    /\ phase = "members" => Distance = IF Silent(current) THEN 4 ELSE 3
    /\ phase = "resources" => Distance = IF Silent(current) THEN 2 ELSE 1
    /\ phase \in {"loaded", "reauth"} => Distance = 0

LEMMA Distances == []DistanceTable
<1>1. DistanceTable
  BY DEF DistanceTable, Distance
<1> QED
  BY <1>1, PTL

\* What each step of a setup does to its stage, while it can recover.
LEMMA SetupSteps ==
    ASSUME Inv, Recoverable, Setup, health' = health
    PROVE  \/ phase = "retry" /\ phase' = "login"
           \/ phase \in {"login", "relogin"} /\ ~Silent(current) /\ phase' = "members"
              /\ current' = current
           \/ phase = "login" /\ Silent(current) /\ phase' = "relogin"
              /\ health'[current'] # "silent"
           \/ phase = "relogin" /\ Silent(current) /\ phase' = "retry"
           \/ phase = "members" /\ phase' = "resources" /\ current' = current
           \/ phase = "resources" /\ phase' = "loaded"
           \/ phase \in {"members", "resources"} /\ Silent(current) /\ phase' = phase
              /\ health'[current'] # "silent"
<1>1. phase \in InSetup =>
          \/ Serves(current, cred)
          \/ Silent(current) /\ \E h \in Peers \ {current} : ~Silent(h)
  BY InUseServesOrMoves DEF NeverStranded
<1>2. CASE phase = "retry" /\ BeginSetup
  BY <1>2 DEF BeginSetup
<1>3. CASE LoginPasses
  BY <1>3 DEF LoginPasses, Serves, Silent
<1>4. CASE LoginMoves
  BY <1>4 DEF LoginMoves, MovesOn, Silent
<1>5. CASE LoginRefused
  BY <1>1, <1>5 DEF LoginRefused, Refused, Refuses, Serves, Silent, InSetup
<1>6. CASE LoginFails
  BY <1>1, <1>6 DEF LoginFails, GivesUp, NowhereToGo, Serves, Silent, InSetup
<1>7. CASE MembersRead \/ MembersUnread
  BY <1>7 DEF MembersRead, MembersUnread
<1>8. CASE ResourcesRead
  BY <1>8 DEF ResourcesRead
<1>9. CASE ResourcesFail
  BY <1>1, <1>9 DEF ResourcesFail, NowhereToGo, Refuses, Serves, Silent, InSetup
<1>10. CASE phase # "loaded" /\ RequestMoves
  BY <1>10 DEF RequestMoves, MovesOn, Silent
<1> QED
  BY <1>2, <1>3, <1>4, <1>5, <1>6, <1>7, <1>8, <1>9, <1>10 DEF Setup

\* The steps that are not a setup's leave it where it is, or end it.
LEMMA OtherSteps ==
    ASSUME Inv, [Next]_vars, ~Setup, phase \in Connected \cup {"retry"},
           phase' \in Connected \cup {"retry", "reauth"}
    PROVE  \/ phase' = phase /\ current' = current
           \/ phase = "loaded" /\ phase' = "loaded"
BY DEF Next, vars, Setup, World, HealthTurns, Regroups, SecretTurns, Flows, CreateEntry,
       Reauth, HostAuth, NewSecret, EnterHost, Reconfigure, GivesUp, BeginSetup,
       RequestMoves, GoDown, Connected, InSetup

\* With the hosts as they are, a setup that can recover is brought to its end
\* by its own steps: no sequence of silences already there turns it round.
THEOREM SetupsComeCloser == Spec => [][ComesCloser]_vars
<1>1. ASSUME Inv, DistanceTable, DistanceTable', [Next]_vars, Recoverable,
             health' = health, phase' \in Connected \cup {"retry", "reauth"}
      PROVE  /\ Distance' <= Distance
             /\ Setup => Distance' < Distance
             /\ Distance' = 0 <=> phase' = "loaded"
  <2>1. phase' # "reauth"
    BY <1>1, RefusedInUse DEF Recoverable, Refuses, Serves, Silent, Connected, InSetup
  <2>2. Distance' = 0 <=> phase' = "loaded"
    BY <1>1, <2>1 DEF DistanceTable, Connected, InSetup
  <2>3. ASSUME Setup
        PROVE  Distance' < Distance
    BY <1>1, <2>3, SetupSteps DEF DistanceTable, Silent
  <2>4. ASSUME ~Setup
        PROVE  Distance' <= Distance
    <3>1. CASE phase' = phase /\ current' = current
      <4>1. phase \in {"relogin", "retry", "login", "members", "resources", "loaded"}
        BY <1>1 DEF Recoverable, Connected, InSetup
      <4>2. Distance' = Distance
        BY <1>1, <3>1, <4>1 DEF DistanceTable, Silent
      <4> QED
        BY <1>1, <4>2 DEF DistanceTable
    <3>2. CASE phase = "loaded" /\ phase' = "loaded"
      BY <1>1, <3>2 DEF DistanceTable
    <3> QED
      BY <1>1, <2>4, <3>1, <3>2, OtherSteps DEF Recoverable
  <2>5. Distance \in 0..9 /\ Distance' \in 0..9
    BY <1>1 DEF DistanceTable
  <2> QED
    BY <2>2, <2>3, <2>4, <2>5
<1>2. Inv /\ DistanceTable /\ DistanceTable' /\ [Next]_vars => [ComesCloser]_vars
  BY <1>1 DEF ComesCloser
<1> QED
  BY <1>2, Invariant, Distances, PTL DEF Spec

\* What is remembered is right for good once it is right, and is right after
\* a start the configured host served.
THEOREM MembershipSettlesHolds == Spec => [][MembershipSettles]_vars
<1>1. ASSUME Inv, [Next]_vars, KnowsCluster, UNCHANGED <<cluster, host>>
      PROVE  KnowsCluster'
  <2>1. CASE MembersRead
    <3>1. current \in Members(host)
      BY <1>1, <2>1 DEF MembersRead, KnowsCluster, Inv, TypeOK, Connected, InSetup,
                        Members
    <3>2. Remembered = Members(host) \ {host}
      BY <3>1 DEF Remembered, Members
    <3> QED
      BY <1>1, <2>1, <3>2 DEF MembersRead, FallbacksUnread, KnowsCluster, Members
  <2>2. CASE \E g \in Hosts, s \in Secrets : Reconfigure(g, s)
    BY <1>1, <2>2 DEF Reconfigure, KnowsCluster, Members
  <2>3. CASE UNCHANGED fallbacks
    BY <1>1, <2>3 DEF KnowsCluster, Members
  <2> QED
    BY <1>1, <2>1, <2>2, <2>3
       DEF Next, vars, worldVars, entryVars, World, HealthTurns, Regroups, SecretTurns,
           Flows, CreateEntry, Reauth, HostAuth, NewSecret, EnterHost, BeginSetup,
           LoginPasses, LoginMoves, LoginRefused, LoginFails, MembersUnread,
           FallbacksUnread, ResourcesRead, ResourcesFail, RequestMoves, GoDown
<1>2. ASSUME Inv, MembersRead, audited, steady, Serves(host, cred)
      PROVE  KnowsCluster'
  <2>1. current = host
    BY <1>2 DEF Inv, ConfiguredHostFirst, MembersRead, Connected, InSetup
  <2>2. host \in Hosts
    BY <1>2 DEF Inv, TypeOK
  <2> QED
    BY <1>2, <2>1, <2>2 DEF MembersRead, Remembered, KnowsCluster, Members, worldVars
<1>3. Inv /\ [Next]_vars => [MembershipSettles]_vars
  BY <1>1, <1>2 DEF MembershipSettles
<1> QED
  BY <1>3, Invariant, PTL DEF Spec
=============================================================================
