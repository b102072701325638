--------------------------- MODULE LoadGeneration ---------------------------
(***************************************************************************)
(* The load engine's generate command: run_generation (main.py),           *)
(* ProfileGenerator and the payload (profiles/generator.py), the device    *)
(* plugins in their order (der_plugins.py), one battery timestep at a      *)
(* time, and the choice of weather (weather.py).  Other handlers save and  *)
(* delete custom profiles meanwhile (ProfileStore), and a day's shape is   *)
(* read from its file when the plugin of that bus and day runs.            *)
(*                                                                         *)
(* Random draws (noise, clouds, arrivals, which buses get a device) are    *)
(* free choices; shapes are percentages; kW are kWh per timestep.          *)
(***************************************************************************)
EXTENDS ProfileStore, Battery, EvCharging, SequencesExt

CONSTANTS
    Requests,      \* the generate commands that may arrive
    Archetypes,    \* sequence of built-in classes
    ArchetypeDays, \* the day shapes a built-in class can draw
    SolarDays,     \* the synthetic PV days
    Shifts,        \* timesteps a household's day may be shifted by
    EvSessions,    \* the charging sessions a vehicle can draw
    HeatPumpDays,  \* what a drop-in plugin contributes, <<>> for nothing
    WeatherFile,   \* rows of the weather file: irradiance percent, -1 for none
    MaxHouseholds, MaxEvs, HouseholdKw, NamedRate, NamedBattery

VARIABLES
    request, buses, irradiance,  \* of the command being served
    bus, day, todo,              \* position, and plugins still to run
    series, sessions,            \* contributed series of the bus and day
    step, energy, soh, cycled,   \* the battery: timestep, energy, health, discharge
    days,                        \* finished days of the bus
    horizon,                     \* finished buses
    read,                        \* shapes read from the store by this command
    stage

jobVars == <<request, buses, irradiance, bus, day, todo, series, sessions, step,
             energy, soh, cycled, days, horizon, read, stage>>
vars == <<storeVars, jobVars>>

DaySteps == 1..Steps

\* What the request's schema lets through: a bus with its ratings, and at
\* least one day; a bus without a load profile of its own takes a built-in one.
IsList(seq) == Len(seq) \in Nat /\ seq = [i \in 1..Len(seq) |-> seq[i]]
IsBusConfig(b) ==
    /\ {b.load, b.pv, b.capacity, b.charge, b.discharge, b.evRate} \subseteq Nat
    /\ b.custom => b.class \in Names
ASSUME RequestAssumption ==
    \A r \in Requests :
       /\ r.days \in Nat \ {0}
       /\ IF r.explicit THEN IsList(r.buses) /\ \A i \in DOMAIN r.buses : IsBusConfig(r.buses[i])
          ELSE /\ IsFiniteSet(DOMAIN r.network) /\ DOMAIN r.network \subseteq Int
               /\ \A b \in DOMAIN r.network : r.network[b] \in Nat
               /\ IsList(r.pvBuses) /\ r.penetration \in Nat
       /\ r.pvProfile \subseteq Names /\ \A m, n \in r.pvProfile : m = n
       /\ r.evProfile \subseteq Names /\ \A m, n \in r.evProfile : m = n

\* The installed devices and built-in days: a battery starts half charged, in
\* its usable range, and a session is one of the named charger.
ASSUME DeviceAssumption ==
    /\ NamedBattery.capacity \in Nat \ {0} /\ NamedBattery.charge \in Nat /\ NamedBattery.discharge \in Nat
    /\ MinSoc <= 50 /\ 50 <= MaxSoc
    /\ {HouseholdKw, MaxHouseholds, MaxEvs} \subseteq Nat \ {0} /\ NamedRate \in Nat
    /\ ArchetypeDays \subseteq [DaySteps -> Nat] /\ SolarDays \subseteq [DaySteps -> Int] /\ Shifts \subseteq Int
    /\ HeatPumpDays \subseteq {<<>>} \union [DaySteps -> Int]
    /\ IsList(WeatherFile) /\ \A i \in DOMAIN WeatherFile : WeatherFile[i] \in Int
    /\ \A s \in EvSessions : /\ {s.planned, s.arrival, s.departure, s.offpeak} \subseteq Int
                             /\ s.need \in Nat /\ s.rate = NamedRate

Zeros == [i \in DaySteps |-> 0]
Scaled(kw, shape) == [i \in DaySteps |-> (kw * shape[i]) \div 100]

-----------------------------------------------------------------------------
(* Which device goes where: build_bus_data.                                *)

\* A share in tenths of n, rounded as Python rounds: halves go to the even.
RoundedShare(share, n) ==
    LET q == (share * n) \div 10
        rest == (share * n) % 10
    IN IF rest > 5 \/ (rest = 5 /\ q % 2 = 1) THEN q + 1 ELSE q

Total(kw, on) == SumFunctionOnSet(kw, on)
LoadBuses(r) == {b \in DOMAIN r.network : r.network[b] > 0}   \* the source has none

\* The places of the request's list that name a load bus: the list is taken as
\* it comes, and a bus it names twice has two places.
PvPlaces(r) == {k \in DOMAIN r.pvBuses : r.pvBuses[k] \in LoadBuses(r)}
PvBuses(r) == {r.pvBuses[k] : k \in PvPlaces(r)}
PvLoad(r) == Total([k \in PvPlaces(r) |-> r.network[r.pvBuses[k]]], PvPlaces(r))

\* Mutant: the PV of a bus is its share of the whole load.
PvCapacityOfAll(r, b) ==
    IF b \notin PvBuses(r) THEN 0 ELSE (r.network[b] * r.penetration) \div 100
PvCapacity(r, b) ==
    IF b \notin PvBuses(r) THEN 0
    ELSE (Total(r.network, LoadBuses(r)) * r.penetration * r.network[b]) \div (100 * PvLoad(r))

InOrder(S) ==
    CHOOSE seq \in [1..Cardinality(S) -> S] : \A i, j \in DOMAIN seq : i < j => seq[i] < seq[j]

AssignedBus(r, b, ordinal, bess, ev) ==
    [id |-> b, custom |-> FALSE, class |-> Archetypes[((ordinal - 1) % Len(Archetypes)) + 1],
     load |-> IF b \in LoadBuses(r) THEN r.network[b] ELSE 0,
     pv |-> PvCapacity(r, b), bess |-> IF b \in bess THEN "named" ELSE "none", capacity |-> 0, charge |-> 0, discharge |-> 0,
     ev |-> IF b \in ev THEN "named" ELSE "none", evRate |-> IF b \in ev THEN NamedRate ELSE 0]

\* Every assignment the two draws can give; none when PV is asked for and
\* no bus may have it (ValueError).
Assignments(r) ==
    IF r.penetration > 0 /\ PvBuses(r) = {} THEN {}
    ELSE LET order == InOrder(DOMAIN r.network)
             Some(n, S) == {T \in SUBSET S : Cardinality(T) = n}
         IN {[i \in 1..Len(order) |-> AssignedBus(r, order[i], i, bess, ev)] :
               bess \in {{r.pvBuses[k] : k \in T} :
                            T \in Some(RoundedShare(r.bessShare, Cardinality(PvPlaces(r))), PvPlaces(r))},
               ev \in Some(RoundedShare(r.evShare, Cardinality(LoadBuses(r))), LoadBuses(r))}

\* _resolve_bus_data: an explicit list wins over the assignment.
BusData(r) == IF r.explicit THEN {r.buses} ELSE Assignments(r)

-----------------------------------------------------------------------------
(* weather_traces: measured irradiance for every day of the horizon, or    *)
(* for none; the file is read in consecutive days and wraps.               *)

WeatherRow(d, i) == WeatherFile[(((d - 1) * Steps + i - 1) % Len(WeatherFile)) + 1]
Irradiance(r) ==
    IF /\ r.weather = "file" /\ Len(WeatherFile) >= Steps
       /\ \A d \in 1..r.days, i \in DaySteps : WeatherRow(d, i) >= 0
    THEN [d \in 1..r.days |-> [i \in DaySteps |-> WeatherRow(d, i)]]
    ELSE <<>>

-----------------------------------------------------------------------------
(* One bus and day: the plugins, in ascending order.                       *)

Bus == buses[bus]
Req == request[1]

\* Mutant: the battery runs before the vehicles it has to serve.
PluginsByName == <<"load", "pv", "bess", "ev", "extra">>
Plugins == <<"load", "pv", "ev", "extra", "bess">>

Contributed(key) == IF key \in DOMAIN series THEN series[key] ELSE Zeros
With(s, key, kw) == [k \in DOMAIN s \union {key} |-> IF k = key THEN kw ELSE s[k]]
Contribute(key, kw) == series' = With(series, key, kw)

AppliesTo(plugin) ==
    CASE plugin = "load" -> Bus.load > 0
      [] plugin = "pv" -> Bus.pv > 0
      [] plugin = "ev" -> Bus.ev # "none"
      [] plugin = "extra" -> HeatPumpDays # {<<>>}
      [] plugin = "bess" -> Bus.bess # "none"

Idle ==
    /\ request = <<>> /\ buses = <<>> /\ irradiance = <<>> /\ bus = 1 /\ day = 1 /\ todo = <<>>
    /\ series = <<>> /\ sessions = <<>> /\ step = 0 /\ energy = 0 /\ soh = 100 /\ cycled = 0
    /\ days = <<>> /\ horizon = <<>> /\ read = {} /\ stage = "idle"

Nameplate(b) == IF b.capacity > 0 THEN b.capacity ELSE NamedBattery.capacity
Rated(kw, named) == IF kw > 0 THEN kw ELSE named
BatteryOf(b, health) ==
    [capacity |-> Aged(Nameplate(b), health),
     charge |-> Rated(b.charge, NamedBattery.charge),
     discharge |-> Rated(b.discharge, NamedBattery.discharge)]

\* A bus starts at half charge and full health.
StartBus(b) ==
    /\ day' = 1 /\ todo' = Plugins /\ series' = <<>> /\ days' = <<>>
    /\ energy' = 50 * Nameplate(b) /\ soh' = 100

\* An empty list of buses is answered at once.
Receive(r) ==
    /\ stage = "idle"
    /\ \E assigned \in BusData(r) : buses' = assigned
    /\ request' = <<r>> /\ irradiance' = Irradiance(r)
    /\ IF buses' = <<>> THEN stage' = "answered" /\ UNCHANGED <<bus, day, todo, series, days, energy, soh>>
       ELSE stage' = "plugin" /\ bus' = 1 /\ StartBus(buses'[1])
    /\ UNCHANGED <<storeVars, sessions, step, cycled, horizon, read>>

\* An error event; the command leaves nothing behind.
Answer ==
    /\ request' = <<>> /\ buses' = <<>> /\ irradiance' = <<>> /\ bus' = 1 /\ day' = 1 /\ todo' = <<>>
    /\ series' = <<>> /\ sessions' = <<>> /\ step' = 0 /\ energy' = 0 /\ soh' = 100 /\ cycled' = 0
    /\ days' = <<>> /\ horizon' = <<>> /\ read' = {} /\ stage' = "idle"
Fail == Answer /\ UNCHANGED storeVars

Turn(plugin) == stage = "plugin" /\ todo # <<>> /\ Head(todo) = plugin
Ran == todo' = Tail(todo) /\ UNCHANGED <<storeVars, request, buses, irradiance, bus, day, step,
                                          energy, soh, cycled, days, horizon, stage>>
Skip ==
    /\ stage = "plugin" /\ todo # <<>> /\ ~AppliesTo(Head(todo))
    /\ Ran /\ UNCHANGED <<series, sessions, read>>

\* The shapes a stored profile can give: its own, or none when it is unusable.
FromStore(n, kind) == IF Usable(n, kind) THEN {Shape(n, Steps)} ELSE {}
Reads(n, kind) == read' = read \union {[asked |-> kind, kind |-> file[n].kind, whole |-> file[n].whole]}

Households(kw) ==
    Clip((2 * kw + HouseholdKw) \div (2 * HouseholdKw), 1, MaxHouseholds)

\* diversified_shape: the households' shifted days together, at unit peak.
Diversified(shape, n) ==
    LET Together(shift) ==
          [i \in DaySteps |-> SumFunction([h \in 1..n |-> shape[((i - 1 - shift[h]) % Steps) + 1]])]
        Peaked(total) ==
          LET peak == Max({total[i] : i \in DaySteps})
          IN [i \in DaySteps |-> IF peak > 0 THEN (100 * total[i]) \div peak ELSE 0]
    IN {Peaked(Together(shift)) : shift \in [1..n -> Shifts]}

LoadShapes ==
    IF Bus.custom THEN FromStore(Bus.class, "load")
    ELSE IF Bus.class \in Range(Archetypes) THEN ArchetypeDays ELSE {}
LoadPlugin ==
    /\ Turn("load") /\ Bus.load > 0
    /\ \E template \in LoadShapes : \E shape \in Diversified(template, Households(Bus.load)) :
         Contribute("load", Scaled(Bus.load, shape))
    /\ IF Bus.custom THEN Reads(Bus.class, "load") ELSE UNCHANGED read
    /\ Ran /\ UNCHANGED sessions

\* An uploaded day, the measured irradiance of this day, or a drawn one.
SolarShapes ==
    IF Req.pvProfile # {} THEN UNION {FromStore(n, "pv") : n \in Req.pvProfile}
    ELSE IF irradiance # <<>> THEN {irradiance[day]} ELSE SolarDays
PvPlugin ==
    /\ Turn("pv") /\ Bus.pv > 0
    /\ \E shape \in SolarShapes :
         Contribute("pv", [i \in DaySteps |-> Clip((Bus.pv * shape[i]) \div 100, 0, Bus.pv)])
    /\ \/ \E n \in Req.pvProfile : Reads(n, "pv")
       \/ Req.pvProfile = {} /\ UNCHANGED read
    /\ Ran /\ UNCHANGED sessions

\* Mutant: one charger per bus.
ChargerKw(b) == IF b.ev = "none" THEN 0 ELSE Rated(b.evRate, IF b.ev = "named" THEN NamedRate ELSE 0)
FleetKw(b) ==
    IF b.ev = "none" THEN 0
    ELSE Households(b.load) * Rated(b.evRate, IF b.ev = "named" THEN NamedRate ELSE 0)

\* The mean of a sample of vehicles, scaled to the fleet.
FleetDemand(fleet, drawn) ==
    LET profile == [v \in DOMAIN drawn |-> ChargeProfile(drawn[v])]
    IN [i \in DaySteps |-> (fleet * SumFunction([v \in DOMAIN drawn |-> profile[v][i - 1]]))
                                \div Cardinality(DOMAIN drawn)]
EvPlugin ==
    /\ Turn("ev") /\ Bus.ev # "none"
    /\ LET fleet == Households(Bus.load) IN
       \/ /\ Req.evProfile = {} /\ Bus.ev = "named"
          /\ \E drawn \in [1..Smaller(fleet, MaxEvs) -> EvSessions] :
               Contribute("ev", FleetDemand(fleet, drawn)) /\ sessions' = drawn
          /\ UNCHANGED read
       \/ /\ \E n \in Req.evProfile : \E shape \in FromStore(n, "ev") :
               Contribute("ev", Scaled(FleetKw(Bus), shape)) /\ Reads(n, "ev")
          /\ UNCHANGED sessions
    /\ Ran

\* A drop-in plugin: its shape feeds the net load with a plus.
ExtraPlugin ==
    /\ Turn("extra")
    /\ \E shape \in HeatPumpDays : series' = IF shape = <<>> THEN series ELSE With(series, "extra", shape)
    /\ Ran /\ UNCHANGED <<sessions, read>>

-----------------------------------------------------------------------------
(* The battery: created for the day, then dispatched timestep by timestep. *)

BatteryNow == BatteryOf(Bus, soh)
NetOfBattery(s, i) ==
    LET at(key) == IF key \in DOMAIN s THEN s[key][i] ELSE 0
    IN at("load") + at("ev") - at("pv")

BatteryPlugin ==
    /\ Turn("bess") /\ Bus.bess = "named" /\ BatteryNow.capacity > 0
    /\ series' = With(With(series, "soc", Zeros), "bess", Zeros)
    /\ step' = 1 /\ cycled' = 0 /\ stage' = "battery"
    /\ UNCHANGED <<storeVars, request, buses, irradiance, bus, day, todo, sessions, energy, soh,
                   days, horizon, read>>

Requested ==
    LET demand == Contributed("load")[step] + Contributed("ev")[step] IN
    IF Req.timeOfUse
    THEN TimeOfUse(BatteryNow, energy, demand, ((step - 1) * StepHours) % 24, Req.charging, Req.discharging)
    ELSE SelfConsumption(demand, Contributed("pv")[step])

BatteryStep ==
    /\ stage = "battery"
    /\ LET power == Delivered(BatteryNow, energy, Requested) IN
       /\ energy' = Stored(BatteryNow, energy, power)
       /\ series' = [series EXCEPT !["bess"][step] = power, !["soc"][step] = energy']
       /\ cycled' = cycled + NonNegative(power)
    /\ IF step < Steps THEN step' = step + 1 /\ UNCHANGED <<todo, stage>>
                       ELSE step' = 0 /\ todo' = Tail(todo) /\ stage' = "plugin"
    /\ UNCHANGED <<storeVars, request, buses, irradiance, bus, day, sessions, soh, days, horizon, read>>

-----------------------------------------------------------------------------
(* A day ends; a bus ends; the command is answered.                        *)

Sign(plugin) == IF plugin \in {"pv", "bess"} THEN -1 ELSE 1
NetLoad == [i \in DaySteps |->
              SumFunction([p \in Range(Plugins) |-> Sign(p) * Contributed(p)[i]])]
BuiltIn == {"load", "pv", "bess", "soc", "ev"}
DayResult == With([key \in BuiltIn \union DOMAIN series |-> Contributed(key)], "net", NetLoad)

AgedTonight == IF Bus.bess = "none" THEN soh ELSE Health(soh, cycled, Nameplate(Bus))

\* Mutant: a day without the series adds nothing to it.
JoinedPresent(results, key) ==
    FlattenSeq([d \in DOMAIN results |-> IF key \in DOMAIN results[d] THEN results[d][key] ELSE <<>>])
\* The days one after another; a day without the series counts as zeros.
Joined(results, key) ==
    FlattenSeq([d \in DOMAIN results |-> IF key \in DOMAIN results[d] THEN results[d][key] ELSE Zeros])
Merged(results) ==
    [key \in UNION {DOMAIN results[d] : d \in DOMAIN results} |-> Joined(results, key)]

EndOfDay ==
    /\ stage = "plugin" /\ todo = <<>> /\ day < Req.days
    /\ days' = Append(days, DayResult) /\ day' = day + 1
    /\ soh' = AgedTonight
    /\ energy' = IF Aged(Nameplate(Bus), soh') = 0 THEN 0
                 ELSE Rescaled(energy, BatteryNow.capacity, Aged(Nameplate(Bus), soh'))
    /\ todo' = Plugins /\ series' = <<>> /\ sessions' = <<>>
    /\ UNCHANGED <<storeVars, request, buses, irradiance, bus, step, cycled, horizon, read, stage>>

\* The finished buses are kept by id: a bus whose id was there takes its place.
Recorded(rows, row) ==
    IF \E b \in DOMAIN rows : rows[b].id = row.id
    THEN [b \in DOMAIN rows |-> IF rows[b].id = row.id THEN row ELSE rows[b]]
    ELSE Append(rows, row)

EndOfBus ==
    /\ stage = "plugin" /\ todo = <<>> /\ day = Req.days
    /\ horizon' = Recorded(horizon,
                     [id |-> Bus.id, of |-> bus,
                      series |-> Merged(Append(days, DayResult)), soh |-> AgedTonight,
                      capacity |-> IF Bus.bess = "none" THEN Bus.capacity ELSE Nameplate(Bus),
                      fleet |-> FleetKw(Bus)])
    /\ IF bus < Len(buses)
       THEN bus' = bus + 1 /\ StartBus(buses[bus + 1]) /\ UNCHANGED stage
       ELSE /\ stage' = "answered" /\ days' = <<>> /\ series' = <<>>
            /\ UNCHANGED <<bus, day, todo, energy, soh>>
    /\ sessions' = <<>>
    /\ UNCHANGED <<storeVars, request, buses, irradiance, step, cycled, read>>

\* A profile that cannot be used, an unknown class or configuration, or a
\* battery without capacity raises; the command is answered with the error.
PluginFails ==
    /\ stage = "plugin" /\ todo # <<>> /\ AppliesTo(Head(todo))
    /\ \/ Head(todo) = "load" /\ LoadShapes = {}
       \/ Head(todo) = "pv" /\ SolarShapes = {}
       \/ Head(todo) = "ev" /\ Req.evProfile = {} /\ Bus.ev # "named"
       \/ Head(todo) = "ev" /\ \E n \in Req.evProfile : ~Usable(n, "ev")
       \/ Head(todo) = "bess" /\ (Bus.bess # "named" \/ BatteryNow.capacity = 0)
    /\ Fail

\* get_summary: totals over the buses, then their extremes.
FeederTotal(key) ==
    [i \in 1..(Req.days * Steps) |-> SumFunction([b \in DOMAIN horizon |-> horizon[b].series[key][i]])]
Summary ==
    [buses |-> Len(horizon),
     withPv |-> Cardinality({b \in DOMAIN horizon : Max(Range(horizon[b].series["pv"])) > 0}),
     withBattery |-> Cardinality({b \in DOMAIN horizon : horizon[b].capacity > 0}),
     withEv |-> Cardinality({b \in DOMAIN horizon : Max(Range(horizon[b].series["ev"])) > 0}),
     fleet |-> SumFunction([b \in DOMAIN horizon |-> horizon[b].fleet]),
     peak |-> Max(Range(FeederTotal("load"))),
     sumOfPeaks |-> SumFunction([b \in DOMAIN horizon |-> Max(Range(horizon[b].series["load"]))]),
     least |-> Min(Range(FeederTotal("net")))]

\* build_profiles_payload: a row goes with the last configuration of its id,
\* and what the built-in series leave of the net load as one series of its own.
BusLookup(id) == Max({i \in DOMAIN buses : buses[i].id = id})
OtherDer(s, i) == s["net"][i] - (s["load"][i] - s["pv"][i] + s["ev"][i] - s["bess"][i])
Payload(h) ==
    [i \in DOMAIN h.series["net"] |->
        With([key \in DOMAIN h.series |-> h.series[key][i]], "other", OtherDer(h.series, i))]

Reply == stage = "answered" /\ Answer /\ UNCHANGED storeVars

Restart == StoreRestart /\ Answer

Init == StoreInit /\ Idle

Generate ==
    \/ \E r \in Requests : Receive(r)
    \/ Skip \/ LoadPlugin \/ PvPlugin \/ EvPlugin \/ ExtraPlugin \/ BatteryPlugin \/ BatteryStep
    \/ EndOfDay \/ EndOfBus \/ PluginFails \/ Reply

Next == Generate \/ (StoreNext /\ UNCHANGED jobVars) \/ Restart

Spec == Init /\ [][Next]_vars

-----------------------------------------------------------------------------
(* Properties.                                                             *)

Stages == {"idle", "plugin", "battery", "answered"}

\* Types: files, writers and the position of the command being served.
TypeOK ==
    /\ \A n \in Names : file[n].whole => file[n].there /\ file[n].kind \in Kinds
    /\ \A u \in Uploaders : writing[u].busy => writing[u].name \in Names /\ Valid(writing[u].up)
    /\ disturbed \subseteq Names
    /\ stage \in Stages /\ soh \in 0..100 /\ step \in 0..Steps
    /\ stage \in {"plugin", "battery"} => bus \in 1..Len(buses) /\ day \in 1..Req.days
    /\ stage = "battery" => step >= 1 /\ Head(todo) = "bess"

\* A profile nobody is writing is complete, unless two saves of its name
\* overlapped or a restart cut one short (custom.py:112-144).
CompleteUnlessDisturbed ==
    \A n \in Names \ disturbed : file[n].there /\ WritersOf(n) = {} => file[n].whole

\* Whatever is saved and deleted while a horizon is generated, every shape
\* that went into it was a complete profile of the kind it was used as, with
\* the requested number of points, in per-unit of its peak: the limits of the
\* unit take nothing from it (custom.py:90-110).
ShapesAreTheirKind ==
    /\ \A s \in read : s.whole /\ s.kind = s.asked
    /\ \A n \in Classes : Usable(n, "load")
    /\ \A n \in Listed : \A i \in DaySteps :
         Shape(n, Steps)[i] = Resampled(file[n].values, Steps)[i]

\* The stored energy stays in the usable range of the battery as aged so far,
\* within a day and across the nights (bess_model.py:96-101, generator.py:186-190).
EnergyInRange ==
    stage \in {"plugin", "battery"} /\ Bus.bess = "named"
        => Floor(BatteryNow) <= energy /\ energy <= Ceiling(BatteryNow)

\* Self-consumption moves the net load it can see towards zero and never past
\* it; time of use never discharges more than the demand; neither exceeds the
\* rating (bess_model.py:224-329, der_plugins.py:198-240).
DispatchNeverOvershoots ==
    stage = "answered" =>
        \A b \in DOMAIN horizon : \A i \in DOMAIN horizon[b].series["net"] :
            LET s == horizon[b].series
                before == NetOfBattery(s, i)
                power == s["bess"][i]
                rated == BatteryOf(buses[horizon[b].of], 100)
            IN /\ -rated.charge <= power /\ power <= rated.discharge
               /\ IF Req.timeOfUse THEN power > 0 => power <= s["load"][i] + s["ev"][i]
                  ELSE IF before >= 0 THEN 0 <= power /\ power <= before
                  ELSE before <= power /\ power <= 0

\* A vehicle draws only while it is plugged in, never above its charger's rate,
\* and over the day its whole need, or all the charger gives in the timesteps it
\* is plugged in.  A smart one never draws faster than its need spread over its
\* stay, and at home overnight misses that energy by less than one timestep at
\* the spread rate (and the unit per timestep its division drops): the timesteps
\* it is plugged in can be one fewer than its stay is long, so the target its
\* docstring promises by departure is not always reached (ev_model.py:53-121).
EvDrawsWhatFits ==
    \A v \in DOMAIN sessions :
        LET s == sessions[v]
            profile == ChargeProfile(s)
            drawn == SumFunction(profile)
            plugged == {i \in StepsOfDay : PluggedIn(s, i)}
            fits == Smaller(s.need, Cardinality(plugged) * s.rate)
            spread == (s.need * Ticks) \div WindowTicks(s)
            overnight == s.departure < s.planned /\ s.arrival < s.departure + DayTicks
        IN /\ \A i \in StepsOfDay : profile[i] # 0 => i \in plugged /\ profile[i] \in 1..s.rate
           /\ IF s.mode # "smart" THEN drawn = fits
              ELSE /\ \A i \in StepsOfDay : profile[i] <= spread
                   /\ drawn <= fits
                   /\ overnight => (fits - drawn) * Ticks < spread * Ticks + WindowTicks(s)

\* The answer has one row for every bus id of the request, generated from the
\* configuration it is sent with (the last of that id), over the whole horizon,
\* and its net load is the four built-in devices plus exactly what drop-in
\* plugins contributed on the days they did (generator.py:192-208, 425-480).
PayloadCarriesEverything ==
    stage = "answered" =>
        /\ {horizon[b].id : b \in DOMAIN horizon} = {buses[i].id : i \in DOMAIN buses}
        /\ \A a, b \in DOMAIN horizon : horizon[a].id = horizon[b].id => a = b
        /\ \A b \in DOMAIN horizon :
             LET h == horizon[b].series
                 extra(i) == IF "extra" \in DOMAIN h THEN h["extra"][i] ELSE 0
             IN /\ horizon[b].of = BusLookup(horizon[b].id)
                /\ \A key \in DOMAIN h : Len(h[key]) = Req.days * Steps
                /\ Len(Payload(horizon[b])) = Req.days * Steps
                /\ \A i \in 1..(Req.days * Steps) : Payload(horizon[b])[i]["other"] = extra(i)

\* The assigned PV never exceeds the penetration asked of the whole load, and
\* reaches it up to rounding when the request names no PV bus twice (a bus named
\* twice counts twice in what the rest is shared by); devices go only where they
\* may: PV and batteries to the buses picked for PV, none to a bus without load
\* (generator.py:334-393).
PenetrationIsMet ==
    stage # "idle" /\ ~Req.explicit =>
        LET pv == SumFunction([i \in DOMAIN buses |-> buses[i].pv])
            load == SumFunction([i \in DOMAIN buses |-> buses[i].load])
        IN /\ 100 * pv <= load * Req.penetration
           /\ IsInjective(Req.pvBuses) => 100 * (pv + Len(buses)) >= load * Req.penetration
           /\ \A i \in DOMAIN buses :
                /\ buses[i].bess # "none" \/ buses[i].pv > 0 => buses[i].id \in Range(Req.pvBuses)
                /\ buses[i].load = 0 => buses[i].pv = 0 /\ buses[i].ev = "none" /\ buses[i].bess = "none"

\* The summary fits the series it is sent with: the reported EV capacity
\* covers the fleet's demand at every timestep unless a bus sets a lower rate
\* than the charger's, which the sessions do not know of; the feeder peaks at most when all buses do, and its minimum
\* counts every device (generator.py:213-277, der_plugins.py:150-195).
SummaryMatchesSeries ==
    stage = "answered" =>
        LET ticks == 1..(Req.days * Steps)
            At(key, i) == SumFunction([b \in DOMAIN horizon |-> horizon[b].series[key][i]])
            other(i) == SumFunction([b \in DOMAIN horizon |-> Payload(horizon[b])[i]["other"]])
        IN /\ (\A b \in DOMAIN buses : Rated(buses[b].evRate, NamedRate) >= NamedRate) =>
                 \A i \in ticks : At("ev", i) <= Summary.fleet
           /\ Summary.peak <= Summary.sumOfPeaks
           /\ \A i \in ticks :
                 Summary.least <= At("load", i) - At("pv", i) + At("ev", i) - At("bess", i) + other(i)
=============================================================================
