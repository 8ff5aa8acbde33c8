SPECIFICATION CSpec
CONSTANTS
    Msg <- MCMsg
    CycleTime <- MCCycleTime
    StepSize <- FastSteps
    Checksum = {0, 5}
    TickMod = 1000
    MaxTime = 400000
INVARIANT NeverAhead
\* the run ends at MaxTime
CHECK_DEADLOCK FALSE
