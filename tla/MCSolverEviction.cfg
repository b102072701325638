\* The same two runs: does an evicted run's command always end in an error?
CONSTANTS
    r1 = r1
    r2 = r2
    Client = {r1, r2}
    None = None
    Budget <- MCBudget
    MaxBatch = 1
    Resetters = {r2}
SPECIFICATION Spec
PROPERTIES
    OldSessionErrors
