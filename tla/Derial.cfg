SPECIFICATION Spec
CONSTANTS
    BufferSize = 2
    None = None
    Derial = Derial
    Dboard = Dboard
    MaxAccesses = 3
    MaxTyped = 2
INVARIANTS
    TypeOK
    OutboundExact
    StatusTruthful
    InputAccounted
PROPERTIES
    FlushHappens
CHECK_DEADLOCK FALSE
