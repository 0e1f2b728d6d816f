\* A VM the cluster drops while its read is refused.
CONSTANTS
    n1 = n1
    g1 = g1
    node = node
    certificate = certificate
    disk = disk
    qemu = qemu
    summary = summary
    Hub <- MCHub
    Resources <- MCGuest
    Nodes <- MCNoNode
    Coordinators <- MCGuestCoordinators
    Owned <- MCOwned
    Plan <- MCPlan
    Withheld <- MCGuestPaths
    Met <- MCMet
    Staggered <- MCGuestCoordinators
    Backups = {}
    Askable = {}
    AutoDiscovery = TRUE
SPECIFICATION Spec
INVARIANT
    OnlyTrackedAreListed
