SPECIFICATION Spec
CONSTANTS
    Absent = Absent
    Text = Text
    Slugs = {"north", "south"}
    Threads = {t1, t2}
    FileOrder <- MCFileOrder
    Uploads <- MCUploads
    DropIns <- MCDropIns
    Cases <- MCCases
    Writings <- MCWritings
    ImportIds = {"south"}
    Gone = Gone
    Preferred = "south"
    Sites = {"s1", "s2"}
    Rows = {"volt", "flow"}
    Branches = {"flow"}
    SearchSteps = 3
    VLower = 94
    VUpper = 106
    ThermalLimit = 100
    StepsPerDay = 4
    Emissions = 6
    Requests <- MCRequests
    Solvers = {"opendss", "sincal"}
    Allocations = {"equal", "prorata", "max_total"}
    Strategies = {"dr_only", "dr_p2p", "pv_curtail_only"}
    Tariffs <- MCTariffs
    Plants <- MCPlants
    Results <- MCResults
    MaxStudies = 1
SYMMETRY Symmetry
INVARIANT RawxSaysWhatRawSays
CHECK_DEADLOCK FALSE
