---------------------------- MODULE ClusterHosts ----------------------------
(***************************************************************************)
(* Which host of a cluster an entry talks to: `ProxmoxClient` of api.py,   *)
(* the login and the membership read of `async_setup_entry`, the addresses *)
(* the entry remembers for its next start, and the flows of config_flow.py *)
(* that change the host or the credentials.                                *)
(*                                                                         *)
(* A setup suspends at each of its requests: the login, `cluster/status`   *)
(* and `cluster/resources`.  Hosts fall silent and come back, leave one    *)
(* cluster for another and change their passwords at any of these.  The    *)
(* library `aioproxmox` keeps the host in use and moves on from a silent   *)
(* one; which of the others it takes is left open.  A host whose           *)
(* certificate is refused counts as silent: both are connection errors.    *)
(***************************************************************************)

CONSTANTS
    Hosts,          \* addresses
    Clusters,
    Secrets,        \* credentials
    Booting,        \* the hosts seen while their API is up and not ready
    NoHost

ASSUME HostsAssumption == Booting \subseteq Hosts /\ NoHost \notin Hosts

VARIABLES
    health,         \* of a host: silent, starting (answers, serves nothing), serving
    cluster,        \* the cluster a host is in
    secret,         \* the credentials a cluster accepts
    audited,        \* whether these may read cluster/status, there and complete
    host,           \* CONF_HOST of the entry
    cred,           \* its credentials
    fallbacks,      \* its CONF_CLUSTER_HOSTS
    phase,          \* of the flow that creates the entry, then of the entry
    current,        \* the host in use
    steady          \* history: CONF_HOST was never silent since setup began

worldVars == <<health, cluster, secret, audited>>
entryVars == <<host, cred, fallbacks>>
vars == <<worldVars, entryVars, phase, current, steady>>

InSetup == {"login", "relogin", "members", "resources"}
Connected == InSetup \cup {"loaded"}

Health(h) == {"silent", "serving"} \cup (IF h \in Booting THEN {"starting"} ELSE {})

TypeOK ==
    /\ health \in [Hosts -> {"silent", "starting", "serving"}]
    /\ cluster \in [Hosts -> Clusters]
    /\ secret \in [Clusters -> Secrets]
    /\ audited \in BOOLEAN
    /\ host \in Hosts
    /\ cred \in Secrets
    /\ fallbacks \subseteq Hosts \ {host}
    /\ phase \in {"absent", "selecting", "down", "retry", "reauth"} \cup Connected
    /\ current \in IF phase \in Connected THEN {host} \cup fallbacks ELSE {NoHost}
    /\ steady \in BOOLEAN

Init ==
    /\ health \in {f \in [Hosts -> {"silent", "starting", "serving"}] :
                       \A h \in Hosts : f[h] \in Health(h)}
    /\ cluster \in [Hosts -> Clusters]
    /\ secret \in [Clusters -> Secrets]
    /\ audited \in BOOLEAN
    /\ host \in Hosts
    /\ cred \in Secrets
    /\ fallbacks = {}
    /\ phase = "absent"
    /\ current = NoHost
    /\ steady = TRUE

-----------------------------------------------------------------------------
(* The cluster.                                                            *)

HealthTurns(h) ==
    /\ \E to \in Health(h) \ {health[h]} : health' = [health EXCEPT ![h] = to]
    /\ steady' = (steady /\ (h = host => health'[h] # "silent"))
    /\ UNCHANGED <<cluster, secret, audited, entryVars, phase, current>>

Regroups(h) ==
    /\ \E c \in Clusters \ {cluster[h]} : cluster' = [cluster EXCEPT ![h] = c]
    /\ UNCHANGED <<health, secret, audited, entryVars, phase, current, steady>>

SecretTurns(c) ==
    /\ \E s \in Secrets \ {secret[c]} : secret' = [secret EXCEPT ![c] = s]
    /\ UNCHANGED <<health, cluster, audited, entryVars, phase, current, steady>>

Members(h) == {m \in Hosts : cluster[m] = cluster[h]}
Silent(h) == health[h] = "silent"
Serves(h, s) == health[h] = "serving" /\ secret[cluster[h]] = s
Refuses(h, s) == health[h] = "serving" /\ secret[cluster[h]] # s

-----------------------------------------------------------------------------
(* The client.                                                             *)

Peers == {host} \cup fallbacks

\* The library leaves a silent host for one that answers.
MovesOn ==
    /\ Silent(current)
    /\ \E h \in Peers \ {current} : ~Silent(h) /\ current' = h

NowhereToGo == Silent(current) /\ \A h \in Peers : Silent(h)

\* What a setup that breaks off leaves.
GivesUp(to) ==
    /\ phase' = to
    /\ current' = NoHost

\* Mutant: a list adds to what is known.
AddedToKnown == fallbacks \cup ((Members(current) \cup {current}) \ {host})

\* Mutant: the configured host is remembered as a fallback of its own.
ListedAsIs == Members(current) \cup {current}

\* The membership list in the client, with the host in use kept whatever the
\* list says, and so in the entry.
Remembered == (Members(current) \cup {current}) \ {host}

-----------------------------------------------------------------------------
(* Setup.                                                                  *)

\* Mutant: a start goes to the host that was learned last.
FirstOther == IF fallbacks = {} THEN host ELSE CHOOSE h \in fallbacks : TRUE

\* Every start goes to the configured host first.
First == host

BeginSetup ==
    /\ phase \in {"down", "retry"}
    /\ phase' = "login"
    /\ current' = First
    /\ steady' = ~Silent(host)
    /\ UNCHANGED <<worldVars, entryVars>>

LoginPasses ==
    /\ phase \in {"login", "relogin"}
    /\ Serves(current, cred)
    /\ phase' = "members"
    /\ UNCHANGED <<worldVars, entryVars, current, steady>>

\* Mutant: a login never moves on.
LoginStays == FALSE

\* The login itself does not fail over: it is made once more on another host.
LoginMoves ==
    /\ phase = "login"
    /\ MovesOn
    /\ phase' = "relogin"
    /\ UNCHANGED <<worldVars, entryVars, steady>>

\* Mutant: any answer to a login but a ticket is a refusal.
RefusedAtAll == ~Silent(current) /\ ~Serves(current, cred)

\* Only a 401 says anything about the credentials.
Refused == Refuses(current, cred)

LoginRefused ==
    /\ phase \in {"login", "relogin"}
    /\ Refused
    /\ GivesUp("reauth")
    /\ UNCHANGED <<worldVars, entryVars, steady>>

\* The API is not ready, or nothing answered: setup is tried again.
LoginFails ==
    /\ \/ phase \in {"login", "relogin"} /\ health[current] = "starting"
       \/ phase = "login" /\ NowhereToGo
       \/ phase = "relogin" /\ Silent(current)
    /\ GivesUp("retry")
    /\ UNCHANGED <<worldVars, entryVars, steady>>

\* Mutant: a read that says nothing empties what was remembered.
FallbacksEmptied == {}

\* A read that says nothing leaves what was remembered.
FallbacksUnread == fallbacks

\* _learn_cluster_hosts
MembersRead ==
    /\ phase = "members"
    /\ ~Silent(current)
    /\ fallbacks' = IF audited /\ Serves(current, cred)
                    THEN Remembered ELSE FallbacksUnread
    /\ phase' = "resources"
    /\ UNCHANGED <<worldVars, host, cred, current, steady>>

MembersUnread ==
    /\ phase = "members"
    /\ NowhereToGo
    /\ fallbacks' = FallbacksUnread
    /\ phase' = "resources"
    /\ UNCHANGED <<worldVars, host, cred, current, steady>>

ResourcesRead ==
    /\ phase = "resources"
    /\ Serves(current, cred)
    /\ phase' = "loaded"
    /\ UNCHANGED <<worldVars, entryVars, current, steady>>

\* _get_api_or_retry_setup
ResourcesFail ==
    /\ phase = "resources"
    /\ \/ Refuses(current, cred) /\ GivesUp("reauth")
       \/ health[current] = "starting" /\ GivesUp("retry")
       \/ NowhereToGo /\ GivesUp("retry")
    /\ UNCHANGED <<worldVars, entryVars, steady>>

\* A request of setup after the login, or of a poll, meets a silent host.
RequestMoves ==
    /\ phase \in {"members", "resources", "loaded"}
    /\ MovesOn
    /\ UNCHANGED <<worldVars, entryVars, phase, steady>>

\* An unload, or Home Assistant stops.
GoDown ==
    /\ phase \notin {"absent", "selecting", "down"}
    /\ GivesUp("down")
    /\ UNCHANGED <<worldVars, entryVars, steady>>

-----------------------------------------------------------------------------
(* The flows.  A flow builds a client of its own, with no other host, and  *)
(* writes at once when that login passes; the entry is then reloaded.      *)

\* async_step_host, up to the form with the resources.
EnterHost(h, s) ==
    /\ phase = "absent"
    /\ Serves(h, s)
    /\ host' = h
    /\ cred' = s
    /\ phase' = "selecting"
    /\ UNCHANGED <<worldVars, fallbacks, current, steady>>

\* async_step_expose
CreateEntry ==
    /\ phase = "selecting"
    /\ phase' = "down"
    /\ UNCHANGED <<worldVars, entryVars, current, steady>>

\* What reauth and the host step of the options write.
NewSecret(s) ==
    /\ phase \notin {"absent", "selecting"}
    /\ Serves(host, s)
    /\ cred' = s
    /\ GivesUp("down")
    /\ UNCHANGED <<worldVars, host, fallbacks, steady>>

\* Asked for by a setup or a poll that was refused.
Reauth(s) ==
    /\ phase = "reauth" \/ (phase = "loaded" /\ Refuses(current, cred))
    /\ NewSecret(s)

HostAuth(s) == NewSecret(s)

\* The addresses remembered of the old host stay; where the new one is among
\* them, it counts once.
Reconfigure(h, s) ==
    /\ phase \notin {"absent", "selecting"}
    /\ Serves(h, s)
    /\ host' = h
    /\ cred' = s
    /\ fallbacks' = fallbacks \ {h}
    /\ GivesUp("down")
    /\ UNCHANGED <<worldVars, steady>>

-----------------------------------------------------------------------------
World ==
    \/ \E h \in Hosts : HealthTurns(h) \/ Regroups(h)
    \/ \E c \in Clusters : SecretTurns(c)

Flows ==
    \/ CreateEntry
    \/ \E s \in Secrets : Reauth(s) \/ HostAuth(s)
    \/ \E h \in Hosts, s \in Secrets : EnterHost(h, s) \/ Reconfigure(h, s)

\* What setup does by itself, its retries included.
Setup ==
    \/ phase = "retry" /\ BeginSetup
    \/ LoginPasses \/ LoginMoves \/ LoginRefused \/ LoginFails
    \/ MembersRead \/ MembersUnread \/ ResourcesRead \/ ResourcesFail
    \/ phase # "loaded" /\ RequestMoves

Next ==
    \/ World
    \/ Flows
    \/ BeginSetup
    \/ LoginPasses \/ LoginMoves \/ LoginRefused \/ LoginFails
    \/ MembersRead \/ MembersUnread \/ ResourcesRead \/ ResourcesFail
    \/ RequestMoves
    \/ GoDown

Spec == Init /\ [][Next]_vars

\* The requests of a setup end or time out, and Home Assistant repeats one
\* that was not ready.
FairSpec == Spec /\ WF_vars(Setup)

-----------------------------------------------------------------------------
(* What failing over is for.                                               *)

\* An entry is on another host than the configured one only if that one fell
\* silent since setup began: a busy, refusing or forwarding host is kept, and
\* every start goes to the configured host again.
ConfiguredHostFirst == phase \in Connected /\ steady => current = host

KnownAreMembers == Peers \subseteq Members(host)

\* While every address the entry knows is in the configured host's cluster,
\* the user is asked for credentials only when that cluster refuses them.
RefusalIsTheClusters ==
    [][phase # "reauth" /\ phase' = "reauth" /\ KnownAreMembers
       => secret[cluster[host]] # cred]_vars

\* An address is forgotten only on the word of a host that serves the entry
\* and lists its cluster without it; the host in use stays.
PeersAreKept ==
    [][host' = host =>
         \A h \in fallbacks \ fallbacks' :
             /\ audited
             /\ Serves(current, cred)
             /\ h \notin Members(current) \cup {current}]_vars

\* A setup that is left alone loads once a known host serves it and no known
\* host refuses it, whether or not the configured one is up.
SetupRecovers ==
    /\ <>[](/\ phase \in Connected \cup {"retry"}
            /\ \E h \in Peers : Serves(h, cred)
            /\ \A h \in Peers : Silent(h) \/ Serves(h, cred))
    /\ <>[][UNCHANGED health]_vars
    => <>[](phase = "loaded")

\* Restarts bring what is remembered up to the cluster, retired hosts and new
\* ones, while the configured host serves the entry.
MembershipCatchesUp ==
    /\ <>[](audited /\ Serves(host, cred))
    /\ <>[][UNCHANGED <<cluster, host>>]_vars
    /\ []<>(phase = "down")
    /\ []<>(phase = "loaded")
    => <>[](fallbacks = Members(host) \ {host})

(***************************************************************************)
(* "that the credentials are then refused is the login's answer, and the   *)
(* same answer on every node" (api.py, build_client): the user is asked    *)
(* for credentials by a login only when the configured host's cluster      *)
(* refuses them.                                                           *)
(***************************************************************************)
SameAnswerOnEveryNode ==
    [][(phase \in {"login", "relogin"} /\ phase' = "reauth")
       => secret[cluster[host]] # cred]_vars
=============================================================================
