SPECIFICATION CSpec
CONSTANTS
    Msg <- MCMsg
    CycleTime <- MCCycleTime
    StepSize <- RegularSteps
    Checksum = {0, 5}
    TickMod = 1000000
    MaxTime = 20000
INVARIANTS
    TypeOK
    AlarmArmed
    FiredIsUnsummed
    AlarmInPhase
    NeverBehind
    NeverAhead
PROPERTY PeriodicFlags
\* the run ends at MaxTime
CHECK_DEADLOCK FALSE
