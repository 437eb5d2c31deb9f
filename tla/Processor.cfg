SPECIFICATION Spec
CONSTANTS
    ByteBits = 4
    RomEnd = 16383
    DregStart = 24576
    DdatStart = 24832
    DdatEnd = 32767
    Threshold = 8
    MaxSteps = 3
    Isolated = TRUE
    Selected <- MCSelected
    Words <- MCWords
    Halves <- MCHalves
    Bytes <- MCBytes
    Codes <- MCCodes
    Targets <- MCTargets
    Starts <- MCStarts
INVARIANTS
    TypeOK
    FlagsExact
    StackWarning
PROPERTIES
    CallsReturn
    MemoryExact
CHECK_DEADLOCK FALSE
