\* A guest that is created while the API fails now and then.
CONSTANTS
    n1 = n1
    g1 = g1
    g2 = g2
    Nobody = Nobody
    Resources <- MCGuest
    Nodes <- MCNoNode
SPECIFICATION FairSpec
PROPERTY
    ListedIsPickedUp
