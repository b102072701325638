----------------------------- MODULE EvCharging -----------------------------
(***************************************************************************)
(* One electric vehicle's charging over a day (ev_model.py).  The day has  *)
(* Steps timesteps of Ticks ticks each: vehicles arrive between timesteps. *)
(* A session is [planned, arrival, departure, need, rate, mode, offpeak]:  *)
(* planned and actual arrival, departure and timer start in ticks, the     *)
(* energy to the 90 % target, and the charger's energy per timestep.       *)
(***************************************************************************)
EXTENDS Integers

CONSTANTS Steps, Ticks   \* timesteps of a day, ticks of a timestep

ASSUME DayAssumption == Steps \in Nat \ {0} /\ Ticks \in Nat \ {0}

StepsOfDay == 0..(Steps - 1)
DayTicks == Steps * Ticks

PluggedIn(s, i) ==
    IF s.departure < s.planned THEN i * Ticks >= s.arrival \/ i * Ticks < s.departure
                               ELSE s.arrival <= i * Ticks /\ i * Ticks < s.departure

\* Arrival to departure past midnight; a whole day when they coincide.
WindowTicks(s) ==
    LET d == (s.departure - s.arrival) % DayTicks IN IF d = 0 THEN DayTicks ELSE d

\* "smart" spreads the energy over the window, the other modes use the rate.
ChargePower(s) ==
    IF s.mode = "smart" /\ (s.need * Ticks) \div WindowTicks(s) < s.rate
    THEN (s.need * Ticks) \div WindowTicks(s) ELSE s.rate

StartTick(s) == IF s.mode = "offpeak" THEN s.offpeak ELSE s.arrival
StartStep(s) == (StartTick(s) \div Ticks) % Steps

\* The k-th timestep of the walk that starts where charging starts.
Visited(s, k) == (StartStep(s) + k) % Steps
\* Mutant: the last timestep draws a full step's energy.
DrawnWhole(s, k, left) ==
    IF ~PluggedIn(s, Visited(s, k)) \/ left = 0 THEN 0 ELSE ChargePower(s)

Drawn(s, k, left) ==
    IF ~PluggedIn(s, Visited(s, k)) THEN 0
    ELSE IF ChargePower(s) < left THEN ChargePower(s) ELSE left

\* The energy still missing before each timestep of the walk.
Missing(s) ==
    LET missing[k \in 0..Steps] ==
          IF k = 0 THEN s.need ELSE missing[k - 1] - Drawn(s, k - 1, missing[k - 1])
    IN missing

ChargeProfile(s) ==
    LET missing == Missing(s) IN
    [i \in StepsOfDay |->
        LET k == (i - StartStep(s)) % Steps IN missing[k] - missing[k + 1]]
=============================================================================
