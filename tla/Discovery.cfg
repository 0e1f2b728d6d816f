\* A node and two guests that come and go, with an API that fails at any request.
CONSTANTS
    n1 = n1
    g1 = g1
    g2 = g2
    Nobody = Nobody
    Resources <- MCResources
    Nodes <- MCNodes
SPECIFICATION FairSpec
INVARIANTS
    TypeOK
    NothingUntracked
    EntitiesAreServed
PROPERTIES
    GoneIsDropped
    NewIsPickedUp
