SPECIFICATION Spec
CONSTANTS
    NumManagers = 2
    NumDevices = 3
    ManagerOf <- MCManagerOf
    Motherboard = 0
    DriveManager = 1
    Drives = {2}
    Spurious = {2}
PROPERTIES
    EveryCommandServed
