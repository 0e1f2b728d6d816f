\* A coordinator and discovery at one lock: what a step may do and what must
\* happen.
CONSTANTS
    guest = guest
    discovery = discovery
    n1 = n1
    Readers <- MCReaders
    Fresh <- MCFresh
    Nodes <- MCNodes
    Met <- MCMet
    TTL = 2
SPECIFICATION FairSpec
INVARIANTS
    TypeOK
    GateFollowsRows
PROPERTIES
    KeepsPromise
    OneReadPerBurst
    SilenceOpensNoGate
    EveryReaderIsTold
    NodeIsReadAgain
