\* Calls over two clusters that look alike, while guests move, entries come and
\* go and buttons are pressed.
CONSTANTS
    home = home
    lab = lab
    pve = pve
    pve2 = pve2
    vm = vm
    Nowhere = Nowhere
    Everything = Everything
    Entries <- MCEntries
    Rank <- MCRank
    Nodes <- MCNodes
    Guests <- MCGuests
    Members <- MCMembers
    Tracked <- MCMembers
    HasStorage <- MCHasStorage
    Requests <- MCRequests
    Buttons <- MCButtons
SPECIFICATION FairSpec
INVARIANTS
    TypeOK
    OneRunPerNode
    NothingForgotten
PROPERTIES
    KeepsPromise
    CallEnds
    RepairOutlastsErrors
