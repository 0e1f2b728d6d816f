\* Three hosts of two clusters, with hosts that fall silent, boot, change
\* their cluster and their passwords at any request.
CONSTANTS
    h1 = h1
    h2 = h2
    h3 = h3
    a = a
    b = b
    s1 = s1
    s2 = s2
    NoHost = NoHost
    Hosts <- MCHosts
    Clusters <- MCClusters
    Secrets <- MCSecrets
    Booting <- MCBooting
SPECIFICATION FairSpec
INVARIANTS
    TypeOK
    ConfiguredHostFirst
PROPERTIES
    RefusalIsTheClusters
    PeersAreKept
    SetupRecovers
    MembershipCatchesUp
