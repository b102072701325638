SPECIFICATION Spec
CONSTANTS
    s1 = s1
    s2 = s2
    Site <- MCSite
    Steps = 2
    Schedule <- MCSchedule
    Capacity <- MCCapacity
    Voltage <- MCVoltage
    Config <- MCConfig
    MaxIterations = 2
    InverterIterations = 1
    MaxRestarts = 0
INVARIANTS
    FlagIsTheSolvers
