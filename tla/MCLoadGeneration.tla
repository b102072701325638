-------------------------- MODULE MCLoadGeneration --------------------------
(* A day of four six-hour timesteps, two ticks each; up to three buses, two *)
(* days and two vehicles.                                                   *)
EXTENDS LoadGeneration, TLC

MCKinds == {"load", "pv", "ev"}
MCUploads == {[kind |-> "load", values |-> <<2, 4>>],
              [kind |-> "pv", values |-> <<0, 3, 6, 0>>],
              [kind |-> "load", values |-> <<0, 0>>]}
MCArchetypes == <<"home", "flat">>
MCArchetypeDays == {<<20, 40, 40, 100>>}
MCSolarDays == {<<0, 90, 60, 0>>}
MCShifts == {0, 1}
Session(planned, arrival, departure, need, mode) ==
    [planned |-> planned, arrival |-> arrival, departure |-> departure,
     need |-> need, rate |-> 7, mode |-> mode, offpeak |-> 7]
MCEvSessions == {Session(6, 5, 2, 12, "offpeak"), Session(6, 5, 2, 14, "smart"), Session(6, 7, 2, 20, "smart"),
                 Session(2, 3, 7, 20, "uncontrolled")}
MCHeatPumpDays == {<<>>, <<0, 3, 0, 2>>}
MCWeatherFile == <<0, 70, 40, 0, 0>>

Battery0 == [capacity |-> 10, charge |-> 5, discharge |-> 5]

House(load, pv, bess, ev) ==
    [id |-> 1, custom |-> FALSE, class |-> "home", load |-> load, pv |-> pv, bess |-> bess,
     capacity |-> 0, charge |-> 3, discharge |-> 0, ev |-> ev, evRate |-> 0]
Uploaded(b) == [b EXCEPT !.custom = TRUE, !.class = "day"]

Base == [explicit |-> TRUE, buses |-> <<House(5, 0, "none", "none")>>, network |-> <<>>,
         pvBuses |-> <<>>, penetration |-> 0, bessShare |-> 0, evShare |-> 0, days |-> 1,
         weather |-> "none", pvProfile |-> {}, evProfile |-> {},
         timeOfUse |-> FALSE, charging |-> <<1, 6>>, discharging |-> <<17, 21>>]

MCRequests ==
    {\* every device over two days, with a battery that ages
     [Base EXCEPT !.buses = <<House(5, 12, "named", "named")>>, !.days = 2],
     \* uploaded days
     [Base EXCEPT !.buses = <<Uploaded(House(5, 12, "named", "none"))>>],
     [Base EXCEPT !.buses = <<House(5, 12, "none", "named")>>, !.pvProfile = {"day"}, !.days = 2],
     [Base EXCEPT !.buses = <<House(5, 0, "none", "named")>>, !.evProfile = {"day"}],
     \* time of use under measured irradiance, and two commands that fail
     [Base EXCEPT !.buses = <<House(9, 12, "named", "none")>>, !.days = 2, !.weather = "file",
                  !.timeOfUse = TRUE, !.charging = <<23, 7>>, !.discharging = <<12, 22>>],
     [Base EXCEPT !.buses = <<House(5, 0, "unknown", "none")>>],
     [Base EXCEPT !.buses = <<House(5, 0, "none", "unknown")>>],
     \* nothing to generate for, and a charger slower than the sessions are
     [Base EXCEPT !.buses = <<>>],
     [Base EXCEPT !.buses = <<[House(5, 0, "none", "named") EXCEPT !.evRate = 3]>>],
     \* an assigned network: bus 1 is the source
     [Base EXCEPT !.explicit = FALSE, !.network = (1 :> 0 @@ 2 :> 6 @@ 3 :> 9),
                  !.pvBuses = <<2>>, !.penetration = 80, !.bessShare = 5, !.evShare = 5],
     \* a PV bus named twice, beside the source and another
     [Base EXCEPT !.explicit = FALSE, !.network = (1 :> 0 @@ 2 :> 6 @@ 3 :> 9),
                  !.pvBuses = <<2, 1, 3, 2>>, !.penetration = 40, !.bessShare = 3],
     \* two configurations of one bus, another bus between them
     [Base EXCEPT !.buses = <<House(5, 0, "none", "none"), [House(2, 0, "none", "none") EXCEPT !.id = 2],
                              House(3, 12, "none", "none")>>]}

Symmetry == Permutations(Uploaders)
=============================================================================
