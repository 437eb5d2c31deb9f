SPECIFICATION Spec
CONSTANTS
    Manager = 0
    Ids = {1, 2}
    Patches = {1, 2}
    NumSlots = 2
    Files = {"old", "new"}
    HostFiles <- MCHostFiles
    InitialDrives <- MCInitialDrives
    Geometries <- MCGeometries
    MemorySize = 2
    Values = {0, 1}
    Zero = 0
    None = None
    MaxPieces = 2
    MaxAccesses = 3
CHECK_DEADLOCK FALSE
INVARIANTS
    TypeOK
    DrivesExact
    ClearMeansDone
PROPERTIES
    DiskSpec
    TransactionEnds
