\* The comment about a refused login, against an entry moved to another cluster.
CONSTANTS
    h1 = h1
    h2 = h2
    h3 = h3
    a = a
    b = b
    s1 = s1
    s2 = s2
    NoHost = NoHost
    Hosts <- MCHosts
    Clusters <- MCClusters
    Secrets <- MCSecrets
    Booting <- MCBooting
SPECIFICATION Spec
PROPERTY
    SameAnswerOnEveryNode
