\* A fixed selection of a node and a VM, their repairs through every setup; of the
\* VM an update that a service call awaits.
CONSTANTS
    n1 = n1
    g1 = g1
    node = node
    certificate = certificate
    disk = disk
    qemu = qemu
    summary = summary
    Hub <- MCHub
    Resources <- MCBoth
    Nodes <- MCNode
    Coordinators <- MCRepairCoordinators
    Owned <- MCOwned
    Plan <- MCPlan
    Withheld <- MCRepairPaths
    Met <- MCRepairMet
    Staggered <- MCRepairCoordinators
    Backups = {}
    Askable <- MCGuestCoordinators
    AutoDiscovery = FALSE
SPECIFICATION Spec
INVARIANTS
    TypeOK
    RepairsShowLists
    NothingOutlivesUnload
    OnlyTrackedAreListed
    MissingIsListed
