\* Two overlapping runs; one update batch each.
CONSTANTS
    r1 = r1
    r2 = r2
    Client = {r1, r2}
    None = None
    Budget <- MCBudget
    MaxBatch = 1
    Resetters = {r2}
SPECIFICATION FairSpec
INVARIANTS
    TypeOK
    SlotCoherent
    BuildExclusive
    CleanReadIsExact
    ClosedStaysClosed
PROPERTIES
    TeardownSparesOthers
    ImplementsSlot
    RunsFinish
    LockReleased
