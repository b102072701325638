SPECIFICATION FairSpec
CONSTANTS
    s1 = s1
    s2 = s2
    Site <- MCPair
    Steps = 1
    Schedule <- MCPairSchedule
    Capacity <- MCPairCapacity
    Voltage = {925, 1100}
    Config <- MCPairConfig
    MaxIterations = 3
    InverterIterations = 3
    MaxRestarts = 1
PROPERTIES
    RunEnds
