\* Three drives on two paths, with files that are lost at any point.
CONSTANTS
    twin1 = twin1
    twin2 = twin2
    mute = mute
    Drives <- MCDrives
    Paths <- MCPaths
    None <- MCNone
    Wwn <- MCWwn
    Serial <- MCSerial
    Link <- MCLink
    MaxUpsets = 2
SPECIFICATION Spec
INVARIANTS
    TypeOK
    IdsTellApart
    OneHistoryPerDisk
    OneDevicePerDisk
    PlatformsAreSetUp
