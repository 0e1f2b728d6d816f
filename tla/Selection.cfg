\* A storage on two nodes that is shared or not, picked in either form and
\* merged, with forms left open and stops between two writes.
CONSTANTS
    n1 = n1
    n2 = n2
    nfs = nfs
    Everywhere = Everywhere
    NoDevice = NoDevice
    Nodes <- MCNodes
    Names <- MCNames
SYMMETRY Symmetry
SPECIFICATION Spec
INVARIANTS
    TypeOK
    NoOrphans
    OneDevicePerStorage
PROPERTIES
    HistoryIsKept
