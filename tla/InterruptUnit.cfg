SPECIFICATION Spec
CONSTANTS
    d1 = d1
    d2 = d2
    CPU = CPU
    NoThread = NoThread
    None = None
    NoTable = NoTable
    MemoryViolation = MemoryViolation
    key = key
    divisionByZero = divisionByZero
    a1 = a1
    a2 = a2
    QueueSize = 3
    Thread <- MCThread
    DeviceInterrupt <- MCDeviceInterrupt
    TriggerInterrupt <- MCTriggerInterrupt
    CpuFault <- MCCpuFault
    criticalInterruptIDs <- MCCritical
    Address <- MCAddress
    TableLocation <- MCTableLocation
INVARIANTS
    TypeOK
    MutexInv
    FaultsFirst
PROPERTIES
    HandlerUndisturbed
    CriticalAtOnce
    ControllerSpec
    CriticalDelivered
