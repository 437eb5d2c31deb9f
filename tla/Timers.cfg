SPECIFICATION Spec
CONSTANTS
    MaxDuration = 2
    MaxAccesses = 2
    MaxLag = 3
INVARIANTS
    TypeOK
    RegisterShowsTimer
    UptimeFollows
PROPERTIES
    TimerCompletes
    TeardownEnds
CHECK_DEADLOCK FALSE
