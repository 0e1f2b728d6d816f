\* A guest of one cluster is asked for, and another cluster has its vmid.
CONSTANTS
    home = home
    lab = lab
    pve = pve
    pve2 = pve2
    vm = vm
    Nowhere = Nowhere
    Everything = Everything
    Entries <- MCEntries
    Rank <- MCRank
    Nodes <- MCNodes
    Guests <- MCGuests
    Members <- MCMembers
    Tracked <- MCMembers
    HasStorage <- MCHasStorage
    Requests <- MCRequests
    Buttons <- MCButtons
SPECIFICATION Spec
INVARIANT
    GuestDeviceIsItself
