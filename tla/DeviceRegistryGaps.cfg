SPECIFICATION Spec
CONSTANTS
    MaxNumDevices = 6
    DataSize = 8
    Boot <- MCBoot
    DriveSize = 2
    DriveCanWrite <- MCDriveCanWrite
    MaxDrives = 3
    AccessSize = {1, 2}
    Null = Null
    NoThread = NoThread
    Manager = Manager
INVARIANTS
    FailsOnlyWhenFull
