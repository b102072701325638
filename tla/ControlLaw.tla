----------------------------- MODULE ControlLaw -----------------------------
(***************************************************************************)
(* The control laws a timestep applies to one site, as functions: the      *)
(* envelope cap of the QSTS loop, the autonomous inverter curves and the   *)
(* DR controller's plugins.                                                *)
(*                                                                         *)
(* Integers stand for the code's floats: voltages in thousandths of a per  *)
(* unit, droop signals, curve factors and states of charge in percent,     *)
(* power in kW, reactive power in units of 0.0001 kvar (so that 44% of a   *)
(* rating times a percentage is exact), energy in kWh.  Division rounds    *)
(* down, where the code rounds the message fields to three decimals.       *)
(***************************************************************************)
EXTENDS Integers

\* The settings every service starts with.
VUpper == 1050
VLower == 950
Droop  == 50
MaxSoc == 95
MinSoc == 10
StepsPerHour == 4   \* 15 minute resolution

NoLimit == -1       \* a status without exportLimit_kW

Greater(a, b) == IF a > b THEN a ELSE b
Lesser(a, b)  == IF a < b THEN a ELSE b
Positive(a)   == Greater(a, 0)

-----------------------------------------------------------------------------
(* The QSTS loop's export cap (autonomous envelope compliance).            *)

\* A site's schedule s: pv, ev and load (which carries other_der_kw), battery
\* power bess (positive: discharging).
Export(pv, bess, load, ev) == pv + Positive(bess) - (load + ev)

\* Battery discharge yields first, PV curtails the remainder.
EnvelopeCap(s, limit) ==
    LET excess == Export(s.pv, s.bess, s.load, s.ev) - limit
        cut    == Lesser(Positive(s.bess), excess) IN
    IF excess > 0 THEN [pv |-> Positive(s.pv - (excess - cut)), bess |-> s.bess - cut]
                  ELSE [pv |-> s.pv, bess |-> s.bess]

-----------------------------------------------------------------------------
(* The autonomous inverter curves (AS/NZS 4777.2 defaults).                *)

\* VoltVarCurve.factor, in percent: inject at low voltage, absorb at high.
VoltVarFactor(v) ==
    IF v <= 920 THEN 100
    ELSE IF v < 980 THEN ((980 - v) * 100) \div 60
    ELSE IF v <= 1020 THEN 0
    ELSE IF v < 1080 THEN -(((v - 1020) * 100) \div 60)
    ELSE -100

VoltVarKvar(v, rating) == 44 * rating * VoltVarFactor(v)

\* VoltWattCurve.factor, in percent.
VoltWattFactor(v) ==
    IF v <= 1090 THEN 100
    ELSE IF v >= 1100 THEN 20
    ELSE 100 - (80 * (v - 1090)) \div 10

Reduced(kw, percent) == (kw * percent) \div 100

-----------------------------------------------------------------------------
(* The DR controller: droop signals and plugins, in registry order.        *)

Clip(percent) == Lesser(Positive(percent), 100)
OverSignal(v)  == IF v > VUpper THEN Clip(((v - VUpper) * 100) \div Droop) ELSE 0
UnderSignal(v) == IF v < VLower THEN Clip(((VLower - v) * 100) \div Droop) ELSE 0

\* The readings r of a site's status: voltage v, pv, ev, load, soc, the battery
\* capacity cap, the inverter rating, and the export limit if one is published.
Headroom(r)  == (Positive(MaxSoc - r.soc) * r.cap * StepsPerHour) \div 100
Available(r) == (Positive(r.soc - MinSoc) * r.cap * StepsPerHour) \div 100

\* BessAbsorbPlugin: charge from the PV excess first.
Absorb(r, mode) ==
    IF mode = "dr_p2p" /\ OverSignal(r.v) > 0 /\ r.pv > 0 /\ r.cap > 0
      THEN Lesser(Reduced(r.pv, OverSignal(r.v)), Headroom(r))
      ELSE 0

\* BessSupportPlugin: discharge on under-voltage.
Support(r) == Reduced(Available(r), UnderSignal(r.v))

\* PvCurtailPlugin: curtail what storage did not absorb.
Curtail(r, mode) == Positive(Reduced(r.pv, OverSignal(r.v)) - Absorb(r, mode))

\* PvReactivePlugin: inject on under-voltage, absorb on over-voltage.
Reactive(r) == 44 * r.rating * (UnderSignal(r.v) - OverSignal(r.v))

\* EnvelopeExportPlugin: the excess over a published limit, stored first within
\* the headroom the absorb plugin left, the remainder curtailed.
Excess(r) == IF r.limit = NoLimit THEN 0
             ELSE Positive(r.pv - (r.load + r.ev) - r.limit)
EnvelopeStore(r, mode) ==
    IF r.cap > 0 THEN Lesser(Excess(r), Positive(Headroom(r) - Absorb(r, mode))) ELSE 0

\* EvDeferPlugin.
Defer(r, controlEv) == IF controlEv THEN Reduced(r.ev, UnderSignal(r.v)) ELSE 0

\* The registered strategies: DRController's mode and control_ev.
Strategy == {"dr_only", "dr_p2p", "pv_curtail_only"}
ModeOf(strategy)     == IF strategy = "dr_p2p" THEN "dr_p2p" ELSE "dr_only"
ControlsEv(strategy) == strategy # "pv_curtail_only"

\* Mutant: the envelope plugin forgets what the absorb plugin committed.
ControlOverCommits(r, strategy) ==
    LET mode == ModeOf(strategy)
        store == IF r.cap > 0 THEN Lesser(Excess(r), Headroom(r)) ELSE 0 IN
    [ pv  |-> Greater(Curtail(r, mode), Excess(r) - store),
      ev  |-> Defer(r, ControlsEv(strategy)),
      chg |-> Absorb(r, mode) + store,
      sup |-> Support(r),
      q   |-> Reactive(r) ]

\* Mutant: the envelope's curtailment yields to the voltage response's.
ControlPrefersVoltage(r, strategy) ==
    LET mode == ModeOf(strategy) IN
    [ pv  |-> IF Curtail(r, mode) > 0 THEN Curtail(r, mode)
                                      ELSE Excess(r) - EnvelopeStore(r, mode),
      ev  |-> Defer(r, ControlsEv(strategy)),
      chg |-> Absorb(r, mode) + EnvelopeStore(r, mode),
      sup |-> Support(r),
      q   |-> Reactive(r) ]

\* control_for: one site's setpoints.
ControlFor(r, strategy) ==
    LET mode == ModeOf(strategy) IN
    [ pv  |-> Greater(Curtail(r, mode), Excess(r) - EnvelopeStore(r, mode)),
      ev  |-> Defer(r, ControlsEv(strategy)),
      chg |-> Absorb(r, mode) + EnvelopeStore(r, mode),
      sup |-> Support(r),
      q   |-> Reactive(r) ]
=============================================================================
