SPECIFICATION VehicleSpec
\* The bound on the steps ends the simulation.
CHECK_DEADLOCK FALSE
CONSTANTS
    Position = {0}
    Counter = {0, 1}
    StepSize = 10
    TickMod = 10000
    Steps = 14
INVARIANT PulsesOnBus
