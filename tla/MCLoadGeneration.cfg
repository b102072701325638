SPECIFICATION Spec
CONSTANTS
    Names = {"day"}
    Uploaders = {u1, u2}
    Kinds <- MCKinds
    Uploads <- MCUploads
    MinSoc = 10
    MaxSoc = 95
    OneWay = 95
    CycleFade = 2
    CalendarFade = 5
    StepHours = 6
    Steps = 4
    Ticks = 2
    Archetypes <- MCArchetypes
    ArchetypeDays <- MCArchetypeDays
    SolarDays <- MCSolarDays
    Shifts <- MCShifts
    EvSessions <- MCEvSessions
    HeatPumpDays <- MCHeatPumpDays
    WeatherFile <- MCWeatherFile
    MaxHouseholds = 2
    MaxEvs = 2
    HouseholdKw = 4
    NamedRate = 7
    NamedBattery <- Battery0
    Requests <- MCRequests
SYMMETRY Symmetry
INVARIANTS
    TypeOK
    CompleteUnlessDisturbed
    ShapesAreTheirKind
    EnergyInRange
    DispatchNeverOvershoots
    EvDrawsWhatFits
    PayloadCarriesEverything
    PenetrationIsMet
    SummaryMatchesSeries
