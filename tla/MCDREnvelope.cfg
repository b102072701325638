SPECIFICATION Spec
CONSTANTS
    s1 = s1
    s2 = s2
    Site <- MCSite
    Steps = 2
    Schedule <- MCSchedule
    Capacity <- MCCapacity
    Voltage = {1000, 1060}
    Config <- MCConfig
    MaxIterations = 2
    InverterIterations = 1
    MaxRestarts = 0
INVARIANTS
    EnvelopeKept
