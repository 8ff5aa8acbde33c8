SPECIFICATION CSpec
CONSTANTS
    Msg <- MCMsg
    CycleTime <- MCCycleTime
    StepSize <- MixedSteps
    Checksum = {0, 5}
    TickMod = 5
    MaxTime = 6000
INVARIANTS
    AlarmInPhase
PROPERTY PeriodicFlags
\* the run ends at MaxTime
CHECK_DEADLOCK FALSE
