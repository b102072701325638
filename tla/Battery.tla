------------------------------ MODULE Battery ------------------------------
(***************************************************************************)
(* The load engine's battery (bess_model.py): one energy balance per       *)
(* timestep, its two dispatch strategies and its ageing.                   *)
(*                                                                         *)
(* Units: power is kW, and kWh per timestep, so the duration disappears;   *)
(* stored energy is kWh/100, so that a state of charge in percent times a  *)
(* capacity is exact; state of health is in percent.  Divisions round down.*)
(***************************************************************************)
EXTENDS Integers

CONSTANTS MinSoc, MaxSoc,   \* percent of the capacity
          OneWay,           \* percent kept by one leg of the round trip
          CycleFade,        \* health lost by a full equivalent cycle
          CalendarFade,     \* health lost by a day
          StepHours         \* hours of a timestep

ASSUME BatteryAssumption ==
    /\ MinSoc \in 0..100 /\ MaxSoc \in 0..100 /\ MinSoc < MaxSoc
    /\ OneWay \in 1..100
    /\ CycleFade \in Nat /\ CalendarFade \in Nat
    /\ StepHours \in 1..24

\* A battery is [capacity, charge, discharge]: kWh, and the rated powers.
Smaller(a, b) == IF a < b THEN a ELSE b
Bigger(a, b) == IF a > b THEN a ELSE b
NonNegative(a) == Bigger(a, 0)

Floor(b) == MinSoc * b.capacity
Ceiling(b) == MaxSoc * b.capacity
Clip(x, lo, hi) == Smaller(Bigger(x, lo), hi)

AvailableCharge(b, energy) ==
    Smaller(b.charge, NonNegative((Ceiling(b) - energy) \div 100))
AvailableDischarge(b, energy) ==
    Smaller(b.discharge, NonNegative((energy - Floor(b)) \div 100))

\* What a request (positive: discharge) really delivers or absorbs.
Delivered(b, energy, request) ==
    IF request > 0 THEN Smaller(request, AvailableDischarge(b, energy))
                   ELSE Bigger(request, -AvailableCharge(b, energy))

\* Mutant: the energy is not limited after the step.
StoredUnclipped(b, energy, power) ==
    IF power > 0 THEN energy - (power * 10000) \div OneWay
                 ELSE energy - power * OneWay

\* The energy after a step, limited to the usable range.
Stored(b, energy, power) ==
    Clip(IF power > 0 THEN energy - (power * 10000) \div OneWay
                      ELSE energy - power * OneWay,
         Floor(b), Ceiling(b))

\* Hour-of-day in [start, end), wrapping past midnight.
InHours(hour, window) ==
    IF window[1] <= window[2] THEN window[1] <= hour /\ hour < window[2]
                              ELSE hour >= window[1] \/ hour < window[2]

SelfConsumption(demand, pv) == demand - pv

TimeOfUse(b, energy, demand, hour, charging, discharging) ==
    IF InHours(hour, charging) THEN -AvailableCharge(b, energy)
    ELSE IF InHours(hour, discharging)
    THEN Smaller(AvailableDischarge(b, energy), NonNegative(demand))
    ELSE 0

\* The usable capacity is the nameplate scaled by the state of health; the
\* state of charge is a fraction, so stored energy shrinks with the capacity.
Aged(nameplate, soh) == (nameplate * soh) \div 100
Rescaled(energy, from, to) == (energy * to) \div from

Health(soh, discharged, nameplate) ==
    NonNegative(soh - ((CycleFade * discharged) \div nameplate + CalendarFade))
=============================================================================
