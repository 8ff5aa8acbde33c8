SPECIFICATION VehicleSpec
CHECK_DEADLOCK FALSE
CONSTANTS
    Position = {0, 1}
    Counter = {0, 1}
    StepSize = 20
    TickMod = 10000
    Steps = 24
INVARIANTS
    BrakeTypeOK
    ForceFollowsPedal
    FaultTimely
    LampShowsFault
    PulsesOnBus
