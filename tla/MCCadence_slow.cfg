SPECIFICATION CSpec
CONSTANTS
    Msg <- MCMsg
    CycleTime <- MCCycleTime
    StepSize <- SlowSteps
    Checksum = {0, 5}
    TickMod = 1000
    MaxTime = 7000
INVARIANT NeverBehind
\* the run ends at MaxTime
CHECK_DEADLOCK FALSE
