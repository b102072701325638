------------------------ MODULE DRCoordination_proofs ------------------------
(***************************************************************************)
(* What the control laws guarantee for every reading: the battery is never *)
(* charged beyond its headroom, a published limit's excess is always met,  *)
(* the voltage response is kept, and a capped schedule meets its limit.    *)
(* On them rest, for every set of sites, schedule, configuration and       *)
(* number of iterations, the type correctness of a run and the bound on    *)
(* its charge commands. Then: what fails a run and what it leaves open,    *)
(* that layers which lower PV never undo each other, and that the twins'   *)
(* book is complete and tells what the feeder ran.                         *)
(***************************************************************************)
EXTENDS DRCoordination, TLAPS

-----------------------------------------------------------------------------
(* The control laws.                                                       *)

\* Readings whose fields are in range; the voltage may be any.
IsReading(r) ==
    /\ r.v \in Nat /\ r.pv \in Nat /\ r.ev \in Nat /\ r.load \in Nat
    /\ r.soc \in Int /\ r.cap \in Nat /\ r.limit \in Int

-----------------------------------------------------------------------------
\* A product of naturals, divided, is a natural.
LEMMA DivNat ==
    ASSUME NEW a \in Nat, NEW b \in Nat
    PROVE  (a * b) \div 100 \in Nat
<1>1. a * b \in Nat
  OBVIOUS
<1> DEFINE n == a * b
<1>2. n \div 100 \in Nat
  <2> HIDE DEF n
  <2>1. n \in Nat
    BY <1>1 DEF n
  <2> QED
    BY <2>1
<1> QED
  BY <1>2

\* Percentages of a power are powers.
LEMMA ReducedNat ==
    ASSUME NEW kw \in Nat, NEW p \in Nat
    PROVE  Reduced(kw, p) \in Nat
BY DivNat DEF Reduced

LEMMA OverNat ==
    ASSUME NEW v \in Nat
    PROVE  OverSignal(v) \in Nat /\ OverSignal(v) <= 100
<1>1. CASE v > VUpper
  <2>1. ((v - VUpper) * 100) \div Droop \in Int
    BY DEF VUpper, Droop
  <2> QED
    BY <1>1, <2>1 DEF OverSignal, Clip, Lesser, Positive, Greater
<1>2. CASE ~(v > VUpper)
  BY <1>2 DEF OverSignal
<1> QED
  BY <1>1, <1>2

\* The battery's headroom is a power.
LEMMA HeadroomNat ==
    ASSUME NEW r, IsReading(r)
    PROVE  Headroom(r) \in Nat
<1> DEFINE p == Positive(MaxSoc - r.soc)
<1>1. p \in Nat
  BY DEF IsReading, Positive, Greater, MaxSoc
<1>2. p * r.cap \in Nat
  <2> HIDE DEF p
  <2> QED
    BY <1>1 DEF IsReading
<1>3. ((p * r.cap) * StepsPerHour) \div 100 \in Nat
  <2> HIDE DEF p
  <2> QED
    BY <1>2, DivNat DEF StepsPerHour
<1> QED
  BY <1>3 DEF Headroom

LEMMA AbsorbBounds ==
    ASSUME NEW r, NEW mode, IsReading(r)
    PROVE  Absorb(r, mode) \in 0..Headroom(r)
<1>1. Headroom(r) \in Nat
  BY HeadroomNat
<1>2. Reduced(r.pv, OverSignal(r.v)) \in Nat
  <2>1. r.v \in Nat /\ r.pv \in Nat
    BY DEF IsReading
  <2>2. OverSignal(r.v) \in Nat
    BY <2>1, OverNat
  <2> QED
    BY <2>1, <2>2, ReducedNat
<1> QED
  BY <1>1, <1>2 DEF Absorb, Lesser

LEMMA ExcessNat ==
    ASSUME NEW r, IsReading(r)
    PROVE  Excess(r) \in Nat
BY DEF Excess, IsReading, Positive, Greater, NoLimit

LEMMA StoreBounds ==
    ASSUME NEW r, NEW mode, IsReading(r)
    PROVE  /\ EnvelopeStore(r, mode) \in Nat
           /\ EnvelopeStore(r, mode) <= Excess(r)
           /\ Absorb(r, mode) + EnvelopeStore(r, mode) <= Headroom(r)
<1>1. Headroom(r) \in Nat /\ Absorb(r, mode) \in 0..Headroom(r) /\ Excess(r) \in Nat
  BY HeadroomNat, AbsorbBounds, ExcessNat
<1> QED
  BY <1>1 DEF EnvelopeStore, Lesser, Positive, Greater

LEMMA UnderNat ==
    ASSUME NEW v \in Nat
    PROVE  UnderSignal(v) \in Nat /\ UnderSignal(v) <= 100
<1>1. CASE v < VLower
  <2>1. ((VLower - v) * 100) \div Droop \in Int
    BY DEF VLower, Droop
  <2> QED
    BY <1>1, <2>1 DEF UnderSignal, Clip, Lesser, Positive, Greater
<1>2. CASE ~(v < VLower)
  BY <1>2 DEF UnderSignal
<1> QED
  BY <1>1, <1>2

LEMMA AvailableNat ==
    ASSUME NEW r, IsReading(r)
    PROVE  Available(r) \in Nat
<1> DEFINE p == Positive(r.soc - MinSoc)
<1>1. p \in Nat
  BY DEF IsReading, Positive, Greater, MinSoc
<1>2. p * r.cap \in Nat
  <2> HIDE DEF p
  <2> QED
    BY <1>1 DEF IsReading
<1>3. ((p * r.cap) * StepsPerHour) \div 100 \in Nat
  <2> HIDE DEF p
  <2> QED
    BY <1>2, DivNat DEF StepsPerHour
<1> QED
  BY <1>3 DEF Available

\* Every channel of an answer is a power, and the reactive one a signed number.
LEMMA ControlType ==
    ASSUME NEW r, NEW strategy, IsReading(r), r.rating \in Nat
    PROVE  ControlFor(r, strategy) \in
              [pv : Nat, ev : Nat, chg : Nat, sup : Nat, q : Int]
<1> DEFINE mode == ModeOf(strategy)
<1>1. OverSignal(r.v) \in Nat /\ UnderSignal(r.v) \in Nat
  <2>1. r.v \in Nat
    BY DEF IsReading
  <2> QED
    BY <2>1, OverNat, UnderNat
<1>2. /\ Headroom(r) \in Nat /\ Absorb(r, mode) \in 0..Headroom(r)
      /\ EnvelopeStore(r, mode) \in Nat /\ Excess(r) \in Nat
  BY HeadroomNat, AbsorbBounds, StoreBounds, ExcessNat
<1>3. Absorb(r, mode) + EnvelopeStore(r, mode) \in Nat
  BY <1>2
<1>4. Curtail(r, mode) \in Nat
  <2>1. Reduced(r.pv, OverSignal(r.v)) \in Nat
    BY <1>1, ReducedNat DEF IsReading
  <2> QED
    BY <2>1, <1>2 DEF Curtail, Positive, Greater
<1>5. Greater(Curtail(r, mode), Excess(r) - EnvelopeStore(r, mode)) \in Nat
  BY <1>2, <1>4 DEF Greater
<1>6. Defer(r, ControlsEv(strategy)) \in Nat
  <2>1. Reduced(r.ev, UnderSignal(r.v)) \in Nat
    BY <1>1, ReducedNat DEF IsReading
  <2> QED
    BY <2>1 DEF Defer
<1>7. Support(r) \in Nat
  BY <1>1, AvailableNat, ReducedNat DEF Support
<1>8. Reactive(r) \in Int
  BY <1>1 DEF Reactive
<1> QED
  BY <1>3, <1>5, <1>6, <1>7, <1>8 DEF ControlFor

\* The Volt-Watt factor is a percentage, the Volt-VAr setpoint a signed number.
LEMMA CurveTypes ==
    ASSUME NEW v \in Nat, NEW rating \in Nat
    PROVE  VoltWattFactor(v) \in Nat /\ VoltWattFactor(v) <= 100
           /\ VoltVarKvar(v, rating) \in Int
<1>1. VoltWattFactor(v) \in Nat /\ VoltWattFactor(v) <= 100
  <2>1. CASE v > 1090 /\ v < 1100
    <3>1. (80 * (v - 1090)) \div 10 \in 0..80
      BY <2>1
    <3> QED
      BY <2>1, <3>1 DEF VoltWattFactor
  <2>2. CASE ~(v > 1090 /\ v < 1100)
    BY <2>2 DEF VoltWattFactor
  <2> QED
    BY <2>1, <2>2
<1>2. VoltVarFactor(v) \in Int
  BY DEF VoltVarFactor
<1>3. 44 * rating * VoltVarFactor(v) \in Int
  BY <1>2
<1> QED
  BY <1>1, <1>3 DEF VoltVarKvar

-----------------------------------------------------------------------------
\* The charge command never exceeds the battery's headroom, although the absorb
\* and the envelope plugin both charge it (control_plugins.py:77-83, 174-183).
THEOREM ChargeBounded ==
    ASSUME NEW r, NEW strategy, IsReading(r)
    PROVE  /\ ControlFor(r, strategy).chg \in Nat
           /\ ControlFor(r, strategy).chg <= Headroom(r)
<1> DEFINE mode == ModeOf(strategy)
<1>1. Headroom(r) \in Nat /\ Absorb(r, mode) \in 0..Headroom(r)
  BY HeadroomNat, AbsorbBounds
<1>2. EnvelopeStore(r, mode) \in Nat
        /\ Absorb(r, mode) + EnvelopeStore(r, mode) <= Headroom(r)
  BY StoreBounds
<1>3. ControlFor(r, strategy).chg = Absorb(r, mode) + EnvelopeStore(r, mode)
  BY DEF ControlFor
<1> QED
  BY <1>1, <1>2, <1>3

\* Whatever of the published limit's excess is not stored is curtailed, and the
\* voltage response is not weakened by it (control_plugins.py:112-123, 184-188).
THEOREM ExcessCovered ==
    ASSUME NEW r, NEW strategy, IsReading(r)
    PROVE  /\ Excess(r) <= ControlFor(r, strategy).pv + ControlFor(r, strategy).chg
           /\ Curtail(r, ModeOf(strategy)) <= ControlFor(r, strategy).pv
<1> DEFINE mode == ModeOf(strategy)
<1>1. Headroom(r) \in Nat /\ Absorb(r, mode) \in 0..Headroom(r) /\ Excess(r) \in Nat
  BY HeadroomNat, AbsorbBounds, ExcessNat
<1>2. EnvelopeStore(r, mode) \in Nat
  BY StoreBounds
<1>3. Reduced(r.pv, OverSignal(r.v)) \in Nat
  <2>1. r.v \in Nat /\ r.pv \in Nat
    BY DEF IsReading
  <2>2. OverSignal(r.v) \in Nat
    BY <2>1, OverNat
  <2> QED
    BY <2>1, <2>2, ReducedNat
<1>4. Curtail(r, mode) \in Nat
  BY <1>1, <1>3 DEF Curtail, Positive, Greater
<1>5. /\ ControlFor(r, strategy).chg = Absorb(r, mode) + EnvelopeStore(r, mode)
      /\ ControlFor(r, strategy).pv = Greater(Curtail(r, mode),
                                              Excess(r) - EnvelopeStore(r, mode))
  BY DEF ControlFor
<1> QED
  <2> HIDE DEF mode
  <2>1. Curtail(r, ModeOf(strategy)) = Curtail(r, mode)
    BY DEF mode
  <2> QED
    BY <1>1, <1>2, <1>4, <1>5, <2>1 DEF Greater

\* A capped schedule meets its limit: battery discharge yields first, and what
\* remains fits within the PV output (qsts.py:257-266).
THEOREM CapMeetsLimit ==
    ASSUME NEW s, s.pv \in Nat, s.bess \in Int, s.load \in Nat, s.ev \in Nat,
           NEW limit \in Nat
    PROVE  LET c == EnvelopeCap(s, limit) IN
           /\ Export(c.pv, c.bess, s.load, s.ev) <= limit
           /\ c.pv \in 0..s.pv
           /\ c.bess <= s.bess
<1> DEFINE excess == Export(s.pv, s.bess, s.load, s.ev) - limit
           cut    == Lesser(Positive(s.bess), excess)
           c      == EnvelopeCap(s, limit)
<1>1. CASE excess > 0
  <2>1. c.pv = Positive(s.pv - (excess - cut)) /\ c.bess = s.bess - cut
    BY <1>1 DEF EnvelopeCap
  <2> QED
    BY <1>1, <2>1 DEF Export, Positive, Greater, Lesser
<1>2. CASE ~(excess > 0)
  <2>1. c.pv = s.pv /\ c.bess = s.bess
    BY <1>2 DEF EnvelopeCap
  <2> QED
    BY <1>2, <2>1 DEF Export, Positive, Greater
<1> QED
  BY <1>1, <1>2

-----------------------------------------------------------------------------
(* The run.                                                                *)

\* The stages of a timestep, and those that come before the first one.
InStep  == {"drive", "inverter", "status", "control", "record"}
Before  == {"configure", "start"}

\* Counters are below their bounds where a step may still raise them, and only a
\* stage that is a request waits for an answer.
CountersInOrder ==
    /\ pc \in InStep \union Before => t <= Steps
    /\ pc = "inverter" => iter < InverterIterations
    /\ pc \in {"status", "control"} => iter < MaxIterations
    /\ out # "none" => pc \in Request

\* The inductive invariant.
IInv == TypeOK /\ CountersInOrder /\ ChargeWithinHeadroom

-----------------------------------------------------------------------------
(* The schedule's and the setpoints' types.                                *)

LEMMA NowType ==
    ASSUME TypeOK, t <= Steps, NEW s \in Site
    PROVE  Now(s) \in [load : Nat, pv : Nat, ev : Nat, bess : Int, soc : 0..100,
                       limit : Nat \union {NoLimit}]
<1>1. t \in 1..Steps
  BY ScheduleAssumption DEF TypeOK
<1> QED
  BY <1>1, ScheduleAssumption DEF Now

LEMMA CapType ==
    ASSUME NEW s, NEW limit \in Nat, s.pv \in Nat, s.bess \in Int, s.load \in Nat,
           s.ev \in Nat
    PROVE  EnvelopeCap(s, limit).pv \in Nat /\ EnvelopeCap(s, limit).bess \in Int
BY DEF EnvelopeCap, Export, Positive, Greater, Lesser

LEMMA DrivenType ==
    ASSUME TypeOK, t <= Steps, NEW s \in Site
    PROVE  Driven(s).pv \in Nat /\ Driven(s).bess \in Int
<1>1. /\ Now(s).pv \in Nat /\ Now(s).bess \in Int /\ Now(s).load \in Nat
      /\ Now(s).ev \in Nat /\ Now(s).limit \in Nat \union {NoLimit}
  BY NowType
<1>2. CASE cfg.doe = "auto" /\ Now(s).limit # NoLimit
  <2>1. Now(s).limit \in Nat
    BY <1>1, <1>2
  <2>2. Driven(s) = EnvelopeCap(Now(s), Now(s).limit)
    BY <1>2 DEF Driven
  <2> QED
    BY <1>1, <2>1, <2>2, CapType
<1>3. CASE ~(cfg.doe = "auto" /\ Now(s).limit # NoLimit)
  BY <1>1, <1>3 DEF Driven
<1> QED
  BY <1>2, <1>3

LEMMA ReadingsType ==
    ASSUME TypeOK, t <= Steps, NEW s \in Site
    PROVE  IsReading(Readings(s)) /\ Readings(s).rating \in Nat
<1>1. /\ Now(s).pv \in Nat /\ Now(s).load \in Nat /\ Now(s).soc \in Int
      /\ Now(s).ev \in Nat /\ Now(s).limit \in Int
  BY NowType DEF NoLimit
<1>2. Capacity[s].cap \in Nat /\ Capacity[s].rating \in Nat
  BY ScheduleAssumption
<1>3. solved.volts[s] \in Nat
  BY DEF TypeOK
<1> QED
  BY <1>1, <1>2, <1>3 DEF Readings, IsReading, NoLimit

\* A site's headroom depends on the timestep alone.
HeadroomAt(s, i) ==
    (Positive(MaxSoc - Schedule[s][i].soc) * Capacity[s].cap * StepsPerHour) \div 100

LEMMA HeadroomOfReadings ==
    ASSUME NEW s PROVE Headroom(Readings(s)) = HeadroomAt(s, t)
BY DEF Headroom, Readings, HeadroomAt, Now

LEMMA SettledType ==
    ASSUME IInv, t <= Steps
    PROVE  /\ Settled \in [Site -> Setpoint]
           /\ \A s \in Site : Settled[s].chg <= HeadroomAt(s, t)
<1> SUFFICES ASSUME NEW s \in Site
             PROVE  Settled[s] \in Setpoint /\ Settled[s].chg <= HeadroomAt(s, t)
  BY DEF Settled
<1>1. applied[s] \in Setpoint /\ applied[s].chg <= HeadroomAt(s, t)
  BY HeadroomOfReadings DEF IInv, TypeOK, ChargeWithinHeadroom
<1>2. /\ Answer(s) \in [pv : Nat, ev : Nat, chg : Nat, sup : Nat, q : Int]
      /\ Answer(s).chg <= HeadroomAt(s, t)
  <2>1. IsReading(Readings(s)) /\ Readings(s).rating \in Nat
    BY ReadingsType DEF IInv
  <2>2. Answer(s) \in [pv : Nat, ev : Nat, chg : Nat, sup : Nat, q : Int]
    BY <2>1, ControlType DEF Answer
  <2>3. Answer(s).chg <= Headroom(Readings(s))
    BY <2>1, ChargeBounded DEF Answer
  <2> QED
    BY <2>2, <2>3, HeadroomOfReadings
<1>3. /\ Accumulate(applied[s], Answer(s)) \in Setpoint
      /\ Accumulate(applied[s], Answer(s)).chg <= HeadroomAt(s, t)
  BY <1>1, <1>2 DEF Accumulate, Setpoint, Greater
<1> QED
  BY <1>1, <1>3 DEF Settled

LEMMA CommandedType ==
    ASSUME IInv, t <= Steps, NEW s \in Site, NEW a \in Setpoint
    PROVE  Commanded(s, a) \in Element
<1>1. Driven(s).pv \in Nat /\ elem[s] \in Element
  BY DrivenType DEF IInv, TypeOK
<1>2. Now(s).ev \in Nat /\ Now(s).bess \in Int
  BY NowType DEF IInv
<1> DEFINE f == IF cfg.vw THEN VoltWattFactor(solved.volts[s]) ELSE 100
<1>3. f \in Nat
  <2>1. solved.volts[s] \in Nat /\ Capacity[s].rating \in Nat
    BY ScheduleAssumption DEF IInv, TypeOK
  <2> QED
    BY <2>1, CurveTypes
<1>4. Reduced(Driven(s).pv, f) \in Nat
  <2> HIDE DEF f
  <2> QED
    BY <1>1, <1>3, ReducedNat
<1>5. Positive(Reduced(Driven(s).pv, f) - a.pv) \in Nat
  <2> HIDE DEF f
  <2> QED
    BY <1>4 DEF Setpoint, Positive, Greater
<1>6. Positive(Now(s).ev - a.ev) \in Nat /\ Now(s).bess - a.chg + a.sup \in Int
  BY <1>2 DEF Setpoint, Positive, Greater
<1> QED
  BY <1>1, <1>5, <1>6 DEF Commanded, Element, Setpoint

-----------------------------------------------------------------------------
(* The invariant is inductive.                                             *)

\* What a step leaves of the setpoints keeps their bound: they stay and so does
\* the timestep, or they are dropped.
LEMMA ChargeKept ==
    ASSUME ChargeWithinHeadroom, UNCHANGED <<t, applied>>
    PROVE  ChargeWithinHeadroom'
BY HeadroomOfReadings DEF ChargeWithinHeadroom, HeadroomAt, Headroom, Readings, Now

LEMMA InitEstablishes ==
    ASSUME Init PROVE IInv
<1>1. CountersInOrder
  BY ScheduleAssumption, BoundsAssumption DEF Init, CountersInOrder, InStep, Before
<1>2. t = 1 /\ 1 <= Steps
  BY ScheduleAssumption DEF Init
<1>3. TypeOK
  <2>1. pc \in Stage /\ out \in Waiting
    BY DEF Init, Stage, Request, Waiting
  <2>2. applied \in [Site -> Setpoint] /\ elem \in [Site -> Element]
    BY DEF Init, Unset, NoSetpoint, Setpoint, Idle, Element
  <2>3. solved \in [volts : [Site -> Nat], ok : BOOLEAN]
    <3>1. solved \in [volts : [Site -> {1000}], ok : {TRUE}]
      BY DEF Init
    <3>2. solved = [volts |-> solved.volts, ok |-> solved.ok]
          /\ solved.volts \in [Site -> {1000}] /\ solved.ok \in BOOLEAN
      BY <3>1
    <3>3. solved.volts \in [Site -> Nat]
      BY <3>2
    <3> QED
      BY <3>2, <3>3
  <2>4. results \in Seq(ResultType)
    BY DEF Init
  <2>5. twins \in [open : BOOLEAN, log : Seq([t : 1..Steps, set : [Site -> Setpoint]])]
    <3> DEFINE Entry == [t : 1..Steps, set : [Site -> Setpoint]]
    <3>1. << >> \in Seq(Entry)
      OBVIOUS
    <3> QED
      BY <3>1 DEF Init, Closed
  <2>6. iter \in 0..Greater(MaxIterations, InverterIterations)
    BY BoundsAssumption DEF Init, Greater
  <2> QED
    <3>1. t \in 1..(Steps + 1) /\ restarts \in 0..MaxRestarts
      BY <1>2, BoundsAssumption, ScheduleAssumption DEF Init
    <3>2. /\ cfg \in Config /\ conv \in BOOLEAN /\ failed \in BOOLEAN /\ fault \in BOOLEAN
          /\ ctl \in BOOLEAN /\ late \subseteq CommandType
      BY DEF Init
    <3> QED
      BY <2>1, <2>2, <2>3, <2>4, <2>5, <2>6, <3>1, <3>2 DEF TypeOK
<1>4. ChargeWithinHeadroom
  <2> SUFFICES ASSUME NEW s \in Site
               PROVE  applied[s].chg <= HeadroomAt(s, t)
    BY HeadroomOfReadings DEF ChargeWithinHeadroom
  <2>1. IsReading(Readings(s))
    BY <1>2, <1>3, ReadingsType
  <2>2. Headroom(Readings(s)) \in Nat
    BY <2>1, HeadroomNat
  <2>3. applied[s].chg = 0
    BY DEF Init, Unset, NoSetpoint
  <2> QED
    BY <2>2, <2>3, HeadroomOfReadings
<1> QED
  BY <1>1, <1>3, <1>4 DEF IInv

\* A solve leaves typed elements and voltages behind.
LEMMA SolveType ==
    ASSUME NEW e \in [Site -> Element], SolveWith(e)
    PROVE  elem' \in [Site -> Element]
           /\ solved' \in [volts : [Site -> Nat], ok : BOOLEAN]
BY BoundsAssumption DEF SolveWith

LEMMA DriveKeeps ==
    ASSUME IInv, Drive PROVE IInv'
<1>1. t <= Steps
  BY DEF IInv, CountersInOrder, InStep, Drive
<1> DEFINE e == [s \in Site |-> [pv |-> Driven(s).pv, bess |-> Driven(s).bess,
                                 ev |-> Now(s).ev, q |-> elem[s].q]]
<1>2. e \in [Site -> Element]
  <2> SUFFICES ASSUME NEW s \in Site
               PROVE  [pv |-> Driven(s).pv, bess |-> Driven(s).bess,
                       ev |-> Now(s).ev, q |-> elem[s].q] \in Element
    OBVIOUS
  <2>1. Driven(s).pv \in Nat /\ Driven(s).bess \in Int
    BY <1>1, DrivenType DEF IInv
  <2>2. Now(s).ev \in Nat
    BY <1>1, NowType DEF IInv
  <2>3. elem[s].q \in Int
    BY DEF IInv, TypeOK, Element
  <2> QED
    BY <2>1, <2>2, <2>3 DEF Element
<1>3. /\ elem' \in [Site -> Element]
      /\ solved' \in [volts : [Site -> Nat], ok : BOOLEAN]
  <2> HIDE DEF e
  <2>1. SolveWith(e)
    BY DEF Drive, e
  <2> QED
    BY <1>2, <2>1, SolveType
<1>4. pc' \in {"inverter", "status", "record"} /\ conv' \in BOOLEAN /\ iter' = 0
  BY <1>3 DEF Drive, AfterInverters, FlagAfter
<1>5. TypeOK'
  BY <1>3, <1>4, BoundsAssumption DEF IInv, TypeOK, Drive, Stage, Request, peerVars, Greater
<1>6. CountersInOrder'
  BY <1>1, <1>4, BoundsAssumption
     DEF IInv, TypeOK, CountersInOrder, Drive, InStep, Before, Request
<1>7. ChargeWithinHeadroom'
  BY ChargeKept DEF IInv, Drive
<1> QED
  BY <1>5, <1>6, <1>7 DEF IInv

LEMMA InverterKeeps ==
    ASSUME IInv, Inverter PROVE IInv'
<1>1. t <= Steps /\ iter < InverterIterations
  BY DEF IInv, CountersInOrder, InStep, Inverter
<1> DEFINE q(s)  == IF cfg.vv THEN VoltVarKvar(solved.volts[s], Capacity[s].rating)
                              ELSE elem[s].q
           pv(s) == IF cfg.vw THEN Reduced(Driven(s).pv, VoltWattFactor(solved.volts[s]))
                              ELSE elem[s].pv
           e == [s \in Site |-> IF s \in Inverters
                   THEN [elem[s] EXCEPT !.q = q(s), !.pv = pv(s)] ELSE elem[s]]
<1>2. e \in [Site -> Element]
  <2> SUFFICES ASSUME NEW s \in Site
               PROVE  [elem[s] EXCEPT !.q = q(s), !.pv = pv(s)] \in Element
                      /\ elem[s] \in Element
    OBVIOUS
  <2>1. elem[s] \in Element
    BY DEF IInv, TypeOK
  <2>2. solved.volts[s] \in Nat /\ Capacity[s].rating \in Nat
    BY ScheduleAssumption DEF IInv, TypeOK
  <2>3. q(s) \in Int
    BY <2>1, <2>2, CurveTypes DEF Element
  <2>4. pv(s) \in Nat
    <3>1. Driven(s).pv \in Nat
      BY <1>1, DrivenType DEF IInv
    <3>2. VoltWattFactor(solved.volts[s]) \in Nat
      BY <2>2, CurveTypes
    <3>3. Reduced(Driven(s).pv, VoltWattFactor(solved.volts[s])) \in Nat
      BY <3>1, <3>2, ReducedNat
    <3> QED
      BY <2>1, <3>3 DEF Element
  <2> HIDE DEF q, pv
  <2> QED
    BY <2>1, <2>3, <2>4 DEF Element
<1>3. /\ elem' \in [Site -> Element]
      /\ solved' \in [volts : [Site -> Nat], ok : BOOLEAN]
  <2>1. SolveWith(e)
    BY DEF Inverter
  <2> HIDE DEF e
  <2> QED
    BY <1>2, <2>1, SolveType
<1>4. /\ \/ pc' \in {"status", "record"} /\ iter' = 0
         \/ pc' = "inverter" /\ iter' = iter + 1 /\ iter + 1 # InverterIterations
      /\ conv' \in BOOLEAN
  BY <1>3 DEF Inverter, AfterInverters, FlagAfter
<1>5. iter' \in 0..Greater(MaxIterations, InverterIterations)
  BY <1>1, <1>4, BoundsAssumption DEF IInv, TypeOK, Greater
<1>6. UNCHANGED <<cfg, out, t, applied, results, failed, peerVars, restarts, fault>>
  BY DEF Inverter
<1>7. TypeOK'
  BY <1>3, <1>4, <1>5, <1>6 DEF IInv, TypeOK, Stage, Request, peerVars
<1>8. CountersInOrder'
  <2>1. out = "none"
    BY DEF IInv, CountersInOrder, Inverter, Request
  <2>2. pc' = "inverter" => iter' < InverterIterations
    BY <1>1, <1>4, BoundsAssumption DEF IInv, TypeOK
  <2>3. pc' = "status" => iter' < MaxIterations
    BY <1>4, BoundsAssumption
  <2> QED
    BY <1>1, <1>4, <1>6, <2>1, <2>2, <2>3 DEF CountersInOrder
<1>9. ChargeWithinHeadroom'
  BY <1>6, ChargeKept DEF IInv
<1> QED
  BY <1>7, <1>8, <1>9 DEF IInv

\* What an action that neither moves time nor changes a site or a peer keeps.
LEMMA MoveKeeps ==
    ASSUME IInv, UNCHANGED <<cfg, t, applied, results, elem, solved, twins, ctl, restarts>>,
           pc' \in Stage, out' \in Waiting, iter' \in 0..Greater(MaxIterations, InverterIterations),
           conv' \in BOOLEAN, failed' \in BOOLEAN, fault' \in BOOLEAN,
           late' \subseteq CommandType, CountersInOrder'
    PROVE  IInv'
<1>1. TypeOK'
  BY DEF IInv, TypeOK
<1>2. ChargeWithinHeadroom'
  BY ChargeKept DEF IInv
<1> QED
  BY <1>1, <1>2 DEF IInv

LEMMA CommandIsTyped ==
    ASSUME IInv, out = "sent" PROVE Command \in CommandType
<1>1. pc \in Request /\ t \in 1..(Steps + 1) /\ 1 \in 1..Steps
  BY ScheduleAssumption DEF IInv, TypeOK, CountersInOrder
<1>2. Unset \in [Site -> Setpoint]
  BY DEF Unset, NoSetpoint, Setpoint
<1>3. pc = "record" => t \in 1..Steps
  BY <1>1, ScheduleAssumption DEF IInv, CountersInOrder, InStep
<1> QED
  BY <1>1, <1>2, <1>3 DEF Command, CommandType, IInv, TypeOK

LEMMA RaiseStage ==
    ASSUME Raise
    PROVE  pc' \in {"ended", "stopTwins"} /\ failed' = TRUE
BY DEF Raise, Closing

LEMMA SolverFailsKeeps ==
    ASSUME IInv, SolverFails PROVE IInv'
<1>1. pc' \in {"ended", "stopTwins"} /\ failed' = TRUE
  BY RaiseStage DEF SolverFails
<1>2. CountersInOrder'
  BY <1>1 DEF SolverFails, CountersInOrder, InStep, Before
<1> QED
  BY <1>1, <1>2, MoveKeeps
     DEF SolverFails, solverVars, peerVars, Stage, Request, Waiting, IInv, TypeOK

LEMMA SendKeeps ==
    ASSUME IInv, Send PROVE IInv'
<1>1. CountersInOrder'
  BY DEF IInv, Send, CountersInOrder
<1> QED
  BY <1>1, MoveKeeps DEF Send, solverVars, peerVars, Waiting, IInv, TypeOK

LEMMA GiveUpKeeps ==
    ASSUME IInv, GiveUp PROVE IInv'
<1>1. pc' \in {"ended", "stopTwins", "stopCtl"} /\ failed' \in BOOLEAN
  BY RaiseStage DEF GiveUp, AfterStop, IInv, TypeOK
<1>2. CountersInOrder'
  BY <1>1 DEF GiveUp, CountersInOrder, InStep, Before
<1>3. late' \subseteq CommandType
  BY CommandIsTyped DEF GiveUp, IInv, TypeOK
<1> QED
  BY <1>1, <1>2, <1>3, MoveKeeps
     DEF GiveUp, solverVars, Stage, Request, Waiting, IInv, TypeOK

LEMMA ProceedKeeps ==
    ASSUME IInv, Proceed PROVE IInv'
<1>1. pc \in {"configure", "start", "status", "stopTwins", "stopCtl"}
  BY DEF IInv, CountersInOrder, Proceed, Request
<1>2. \/ pc = "configure" /\ pc' = "start"
      \/ pc = "start" /\ pc' = "drive"
      \/ pc = "status" /\ pc' = "control"
      \/ pc' \in {"stopCtl", "ended"}
  BY <1>1 DEF Proceed, AfterStop
<1>3. CountersInOrder'
  BY <1>2 DEF IInv, CountersInOrder, Proceed, InStep, Before
<1> QED
  BY <1>2, <1>3, MoveKeeps
     DEF Proceed, solverVars, peerVars, Stage, Request, Waiting, IInv, TypeOK

LEMMA SettleKeeps ==
    ASSUME IInv, Settle PROVE IInv'
<1>1. CountersInOrder'
  BY DEF IInv, CountersInOrder, Settle, InStep
<1> QED
  BY <1>1, MoveKeeps DEF Settle, solverVars, peerVars, Stage, Request, Waiting, IInv, TypeOK

LEMMA ApplyKeeps ==
    ASSUME IInv, Apply PROVE IInv'
<1>1. t <= Steps /\ iter < MaxIterations
  BY DEF IInv, CountersInOrder, InStep, Apply
<1>2. Settled \in [Site -> Setpoint] /\ \A s \in Site : Settled[s].chg <= HeadroomAt(s, t)
  BY <1>1, SettledType
<1> DEFINE e == [s \in Site |-> Commanded(s, Settled[s])]
<1>3. e \in [Site -> Element]
  BY <1>1, <1>2, CommandedType
<1>4. /\ elem' \in [Site -> Element]
      /\ solved' \in [volts : [Site -> Nat], ok : BOOLEAN]
  <2>1. SolveWith(e)
    BY DEF Apply
  <2> HIDE DEF e
  <2> QED
    BY <1>3, <2>1, SolveType
<1>5. /\ iter' = iter + 1 /\ iter' \in 0..MaxIterations
      /\ pc' = IF iter' = MaxIterations THEN "record" ELSE "status"
  BY <1>1, BoundsAssumption DEF Apply, NextIteration, IInv, TypeOK
<1>6. applied' = Settled /\ out' = "none" /\ conv' \in BOOLEAN
      /\ UNCHANGED <<cfg, t, results, failed, peerVars, restarts, fault>>
  BY <1>4 DEF Apply
<1>7. iter' \in 0..Greater(MaxIterations, InverterIterations)
  BY <1>5, BoundsAssumption DEF Greater
<1>8. TypeOK'
  BY <1>2, <1>4, <1>5, <1>6, <1>7 DEF IInv, TypeOK, Stage, Request, Waiting, peerVars
<1>9. CountersInOrder'
  <2>1. pc' = "status" => iter' < MaxIterations
    BY <1>5, BoundsAssumption
  <2> QED
    BY <1>1, <1>5, <1>6, <2>1 DEF CountersInOrder
<1>10. ChargeWithinHeadroom'
  <2> SUFFICES ASSUME NEW s \in Site
               PROVE  applied'[s].chg <= Headroom(Readings(s)')
    BY DEF ChargeWithinHeadroom, Headroom, Readings, Now
  <2>1. Headroom(Readings(s)') = HeadroomAt(s, t)
    BY <1>6 DEF Headroom, Readings, Now, HeadroomAt
  <2> QED
    BY <1>2, <1>6, <2>1
<1> QED
  BY <1>8, <1>9, <1>10 DEF IInv

\* A recorded timestep: the setpoints are dropped, time moves on.
LEMMA ReportKeeps ==
    ASSUME IInv, Report, pc = "record", out' = "none",
           UNCHANGED <<cfg, iter, conv, failed, solverVars, peerVars, restarts, fault>>
    PROVE  IInv'
<1>1. t \in 1..Steps
  BY ScheduleAssumption DEF IInv, TypeOK, CountersInOrder, InStep
<1>2. t' = t + 1 /\ t' \in 1..(Steps + 1)
  BY <1>1, ScheduleAssumption DEF Report
<1>3. pc' \in {"stopTwins", "ended", "drive"} /\ (pc' = "drive" => t' <= Steps)
  BY <1>1, <1>2, ScheduleAssumption DEF Report, Closing
<1>4. Unset \in [Site -> Setpoint]
  BY DEF Unset, NoSetpoint, Setpoint
<1>5. results' \in Seq(ResultType)
  <2> DEFINE r == [converged |-> conv, physical |-> solved.ok, elem |-> elem,
                   set |-> applied]
  <2>1. r \in ResultType
    BY DEF IInv, TypeOK, ResultType
  <2>2. results \in Seq(ResultType) /\ results' = Append(results, r)
    BY DEF IInv, TypeOK, Report
  <2> HIDE DEF r
  <2> QED
    BY <2>1, <2>2
<1>6. TypeOK'
  BY <1>2, <1>3, <1>4, <1>5
     DEF IInv, TypeOK, Report, Stage, Request, Waiting, solverVars, peerVars
<1>7. CountersInOrder'
  BY <1>3 DEF CountersInOrder, InStep, Before
<1>8. ChargeWithinHeadroom'
  <2> SUFFICES ASSUME NEW s \in Site, t' <= Steps
               PROVE  applied'[s].chg <= Headroom(Readings(s)')
    BY DEF ChargeWithinHeadroom, Headroom, Readings, Now
  <2>1. IsReading([Readings(s)' EXCEPT !.v = 0])
    <3>1. t' \in 1..Steps
      BY <1>2
    <3>2. /\ Schedule[s][t'].pv \in Nat /\ Schedule[s][t'].load \in Nat
          /\ Schedule[s][t'].ev \in Nat /\ Schedule[s][t'].soc \in Int
          /\ Schedule[s][t'].limit \in Int
      <4>1. Schedule[s][t'] \in [load : Nat, pv : Nat, ev : Nat, bess : Int, soc : 0..100,
                                 limit : Nat \union {NoLimit}]
        BY <3>1, ScheduleAssumption
      <4> QED
        BY <4>1 DEF NoLimit
    <3>3. Capacity[s].cap \in Nat /\ Capacity[s].rating \in Nat
      BY ScheduleAssumption
    <3> QED
      BY <3>2, <3>3 DEF IsReading, Readings, Now, NoLimit
  <2>2. Headroom([Readings(s)' EXCEPT !.v = 0]) \in Nat
    BY <2>1, HeadroomNat
  <2>3. Headroom([Readings(s)' EXCEPT !.v = 0]) = Headroom(Readings(s)')
    BY DEF Headroom, Readings, Now
  <2>4. applied'[s].chg = 0
    BY DEF Report, Unset, NoSetpoint
  <2> QED
    BY <2>2, <2>3, <2>4
<1> QED
  BY <1>6, <1>7, <1>8 DEF IInv

\* What a handler leaves of the services' sessions is typed.
LEMMA ServeType ==
    ASSUME IInv, NEW c \in CommandType, Serve(c)
    PROVE  /\ twins' \in [open : BOOLEAN, log : Seq([t : 1..Steps, set : [Site -> Setpoint]])]
           /\ ctl' \in BOOLEAN
<1> DEFINE Entry == [t : 1..Steps, set : [Site -> Setpoint]]
           T == [open : BOOLEAN, log : Seq(Entry)]
<1>1. twins \in T /\ ctl \in BOOLEAN
  BY DEF IInv, TypeOK
<1>2. Opened \in T /\ Closed \in T
  <2>1. << >> \in Seq(Entry)
    OBVIOUS
  <2> HIDE DEF Entry
  <2> QED
    BY <2>1 DEF Opened, Closed
<1>3. [twins EXCEPT !.log = Append(twins.log, [t |-> c.t, set |-> c.set])] \in T
  <2>1. [t |-> c.t, set |-> c.set] \in Entry
    BY DEF CommandType
  <2>2. twins.log \in Seq(Entry) /\ twins.open \in BOOLEAN
    BY <1>1
  <2> DEFINE n == [t |-> c.t, set |-> c.set]
  <2>3. Append(twins.log, n) \in Seq(Entry)
    <3> HIDE DEF n, Entry
    <3>1. n \in Entry
      BY <2>1 DEF n
    <3> QED
      BY <2>2, <3>1
  <2> HIDE DEF n, Entry
  <2>4. [twins EXCEPT !.log = Append(twins.log, n)] \in T
    BY <1>1, <2>3
  <2> QED
    BY <2>4 DEF n
<1> HIDE DEF T
<1>4. twins' \in T
  BY <1>1, <1>2, <1>3 DEF Serve
<1>5. ctl' \in BOOLEAN
  BY <1>1 DEF Serve
<1> QED
  BY <1>4, <1>5 DEF T

LEMMA HandleKeeps ==
    ASSUME IInv, Handle PROVE IInv'
<1>1. Command \in CommandType
  BY CommandIsTyped DEF Handle
<1>2. /\ twins' \in [open : BOOLEAN, log : Seq([t : 1..Steps, set : [Site -> Setpoint]])]
      /\ ctl' \in BOOLEAN
  BY <1>1, ServeType DEF Handle
<1>3. out' \in Waiting /\ fault' \in BOOLEAN /\ out # "none"
  BY DEF Handle, Waiting, IInv, TypeOK
<1>4. UNCHANGED <<cfg, pc, t, iter, conv, applied, results, failed, elem, solved, late, restarts>>
  BY DEF Handle, solverVars
<1>5. TypeOK'
  BY <1>2, <1>3, <1>4 DEF IInv, TypeOK
<1>6. CountersInOrder'
  BY <1>3, <1>4 DEF IInv, CountersInOrder
<1>7. ChargeWithinHeadroom'
  BY <1>4, ChargeKept DEF IInv
<1> QED
  BY <1>5, <1>6, <1>7 DEF IInv

LEMMA LateKeeps ==
    ASSUME IInv, NEW c \in late, HandleLate(c) PROVE IInv'
<1>1. c \in CommandType
  BY DEF IInv, TypeOK
<1>2. /\ twins' \in [open : BOOLEAN, log : Seq([t : 1..Steps, set : [Site -> Setpoint]])]
      /\ ctl' \in BOOLEAN
  BY <1>1, ServeType DEF HandleLate
<1>3. UNCHANGED <<cfg, pc, out, t, iter, conv, applied, results, failed, elem, solved,
                  restarts, fault>>
      /\ late' \subseteq late
  BY DEF HandleLate, runVars, solverVars
<1>4. TypeOK'
  BY <1>2, <1>3 DEF IInv, TypeOK
<1>5. CountersInOrder'
  BY <1>3 DEF IInv, CountersInOrder
<1>6. ChargeWithinHeadroom'
  BY <1>3, ChargeKept DEF IInv
<1> QED
  BY <1>4, <1>5, <1>6 DEF IInv

LEMMA RestartKeeps ==
    ASSUME IInv, Restart PROVE IInv'
<1>1. twins' = twins \/ twins' = Closed
  BY DEF Restart
<1>2. twins' \in [open : BOOLEAN, log : Seq([t : 1..Steps, set : [Site -> Setpoint]])]
  <2> DEFINE Entry == [t : 1..Steps, set : [Site -> Setpoint]]
  <2>1. << >> \in Seq(Entry)
    OBVIOUS
  <2> HIDE DEF Entry
  <2>2. Closed \in [open : BOOLEAN, log : Seq(Entry)]
    BY <2>1 DEF Closed
  <2>3. twins \in [open : BOOLEAN, log : Seq(Entry)]
    BY DEF IInv, TypeOK, Entry
  <2>4. twins' \in [open : BOOLEAN, log : Seq(Entry)]
    BY <1>1, <2>2, <2>3
  <2> QED
    BY <2>4 DEF Entry
<1>3. ctl' \in BOOLEAN /\ fault' \in BOOLEAN /\ restarts' \in 0..MaxRestarts
  <2>1. ctl' \in BOOLEAN /\ fault' \in BOOLEAN
    BY DEF Restart, IInv, TypeOK
  <2>2. restarts \in 0..MaxRestarts /\ restarts < MaxRestarts /\ restarts' = restarts + 1
    BY DEF Restart, IInv, TypeOK
  <2> QED
    BY <2>1, <2>2, BoundsAssumption
<1>4. UNCHANGED <<cfg, pc, out, t, iter, conv, applied, results, failed, elem, solved, late>>
  BY DEF Restart, runVars, solverVars
<1>5. TypeOK'
  BY <1>2, <1>3, <1>4 DEF IInv, TypeOK
<1>6. CountersInOrder'
  BY <1>4 DEF IInv, CountersInOrder
<1>7. ChargeWithinHeadroom'
  BY <1>4, ChargeKept DEF IInv
<1> QED
  BY <1>5, <1>6, <1>7 DEF IInv

LEMMA NextKeeps ==
    ASSUME IInv, [Next]_vars PROVE IInv'
<1>1. CASE Drive
  BY <1>1, DriveKeeps
<1>2. CASE Inverter
  BY <1>2, InverterKeeps
<1>3. CASE Finish
  <2>1. pc = "record" /\ out' = "none" /\ Report
    BY <1>3 DEF Finish
  <2> QED
    BY <1>3, <2>1, ReportKeeps DEF Finish
<1>4. CASE Send
  BY <1>4, SendKeeps
<1>5. CASE Proceed
  BY <1>5, ProceedKeeps
<1>6. CASE Apply
  BY <1>6, ApplyKeeps
<1>7. CASE Settle
  BY <1>7, SettleKeeps
<1>8. CASE Recorded
  BY <1>8, ReportKeeps DEF Recorded
<1>9. CASE GiveUp
  BY <1>9, GiveUpKeeps
<1>10. CASE SolverFails
  BY <1>10, SolverFailsKeeps
<1>11. CASE Handle
  BY <1>11, HandleKeeps
<1>12. CASE Restart
  BY <1>12, RestartKeeps
<1>13. CASE \E c \in late : HandleLate(c)
  BY <1>13, LateKeeps
<1>14. CASE UNCHANGED vars
  <2>1. UNCHANGED <<cfg, pc, out, t, iter, conv, applied, results, failed, elem, solved,
                    twins, ctl, late, restarts, fault>>
    BY <1>14 DEF vars, runVars, solverVars, peerVars
  <2>2. TypeOK' /\ CountersInOrder'
    BY <2>1 DEF IInv, TypeOK, CountersInOrder
  <2>3. ChargeWithinHeadroom'
    BY <2>1, ChargeKept DEF IInv
  <2> QED
    BY <2>2, <2>3 DEF IInv
<1> QED
  BY <1>1, <1>2, <1>3, <1>4, <1>5, <1>6, <1>7, <1>8, <1>9, <1>10, <1>11, <1>12, <1>13,
     <1>14 DEF Next, RunStep, Ended

-----------------------------------------------------------------------------
\* The run's invariant holds whatever the sites, schedules and voltages are.
THEOREM RunInvariant == Spec => []IInv
<1>1. Init => IInv
  BY InitEstablishes
<1>2. IInv /\ [Next]_vars => IInv'
  BY NextKeeps
<1> QED
  BY <1>1, <1>2, PTL DEF Spec

\* Every variable keeps its type: the fixed point stays within its iterations and
\* no command, late or awaited, carries a setpoint that is not a power.
THEOREM RunTypeCorrect == Spec => []TypeOK
<1>1. IInv => TypeOK
  BY DEF IInv
<1> QED
  BY <1>1, RunInvariant, PTL

\* No sequence of answers, late handlers and restarts makes the running maximum
\* of the charge commands exceed the battery's headroom.
THEOREM ChargeStaysWithinHeadroom == Spec => []ChargeWithinHeadroom
<1>1. IInv => ChargeWithinHeadroom
  BY DEF IInv
<1> QED
  BY <1>1, RunInvariant, PTL

-----------------------------------------------------------------------------
(* Sessions and failures.                                                  *)

\* Without a fault the twins hold the session from start to stop, the stops
\* close what was opened, and no handler of an expired command is left to open
\* it again.
SessionsInStep ==
    /\ twins.open => Coordinated /\ pc # "configure"
    /\ ctl => Coordinated
    /\ Coordinated /\ pc \in InStep => twins.open
    /\ pc = "start" /\ out = "ok" => twins.open
    /\ pc = "stopTwins" /\ out = "ok" => ~twins.open
    /\ pc \in {"stopCtl", "ended"} => ~twins.open
    /\ pc = "stopCtl" /\ out = "ok" => ~ctl
    /\ pc = "ended" => ~ctl

FaultInv ==
    /\ out # "none" => pc \in Request /\ Coordinated
    /\ out \in Waiting
    /\ pc \in Stage
    /\ failed => fault
    /\ ~fault => out # "err" /\ late = {} /\ SessionsInStep

LEMMA FaultEstablished == Init => FaultInv
BY DEF Init, FaultInv, SessionsInStep, Closed, Coordinated, Waiting, Stage, Request, InStep

LEMMA FaultKept == IInv /\ FaultInv /\ [Next]_vars => FaultInv'
<1> SUFFICES ASSUME IInv, FaultInv, [Next]_vars
             PROVE  FaultInv'
  OBVIOUS
<1> USE DEF FaultInv, SessionsInStep, Coordinated, Waiting, Stage, Request, InStep
<1>1. CASE Drive
  BY <1>1 DEF Drive, SolveWith, AfterInverters, peerVars
<1>2. CASE Inverter
  BY <1>2 DEF Inverter, SolveWith, AfterInverters, peerVars
<1>3. CASE Finish
  BY <1>3 DEF Finish, Report, Closing, peerVars
<1>4. CASE Send
  BY <1>4 DEF Send, peerVars
<1>5. CASE Proceed
  BY <1>5 DEF Proceed, AfterStop, peerVars
<1>6. CASE Apply
  BY <1>6 DEF Apply, SolveWith, NextIteration, peerVars
<1>7. CASE Settle
  BY <1>7 DEF Settle, peerVars
<1>8. CASE Recorded
  BY <1>8 DEF Recorded, Report, Closing, peerVars
<1>9. CASE GiveUp
  BY <1>9 DEF GiveUp, AfterStop, Raise, Closing
<1>10. CASE SolverFails
  BY <1>10 DEF SolverFails, Raise, Closing, peerVars
<1>11. CASE Handle
  <2>1. /\ pc \in Request /\ Coordinated /\ Command.op = pc
        /\ UNCHANGED <<cfg, pc, failed, late>>
        /\ fault' = (fault \/ (Servable(Command) /\ out' = "err"))
        /\ out' \in {"ok", "err"} /\ (~Servable(Command) => out' = "err")
    BY <1>11 DEF Handle, Command
  <2>2. SUFFICES ASSUME ~fault'
                 PROVE  out' # "err" /\ SessionsInStep'
    BY <2>1
  <2>3. ~fault /\ SessionsInStep
    BY <2>1, <2>2
  <2>4. pc \in {"status", "record"} => twins.open
    BY <2>1, <2>3
  <2>5. Servable(Command)
    BY <2>1, <2>4 DEF Servable
  <2>6. out' = "ok"
    BY <2>1, <2>2, <2>5
  <2>7. /\ twins'.open = CASE pc = "start" -> TRUE
                          [] pc = "stopTwins" -> FALSE
                          [] OTHER -> twins.open
        /\ ctl' = CASE pc \in {"configure", "control"} -> TRUE
                    [] pc = "stopCtl" -> FALSE
                    [] OTHER -> ctl
    <3>1. /\ twins' = CASE pc = "start" -> Opened
                        [] pc = "record" -> [twins EXCEPT !.log = Append(@, [t |-> Command.t, set |-> Command.set])]
                        [] pc = "stopTwins" -> Closed
                        [] OTHER -> twins
          /\ ctl' = CASE pc \in {"configure", "control"} -> TRUE
                      [] pc = "stopCtl" -> FALSE
                      [] OTHER -> ctl
      BY <1>11, <2>1, <2>5 DEF Handle, Serve
    <3>2. DOMAIN twins = {"open", "log"}
      BY DEF IInv, TypeOK
    <3> QED
      BY <3>1, <3>2 DEF Opened, Closed
  <2> QED
    BY <2>1, <2>3, <2>6, <2>7
<1>12. CASE Restart
  BY <1>12 DEF Restart, runVars, Closed
<1>13. CASE \E c \in late : HandleLate(c)
  BY <1>13 DEF HandleLate, runVars
<1>14. CASE UNCHANGED vars
  BY <1>14 DEF vars, runVars, peerVars
<1> QED
  BY <1>1, <1>2, <1>3, <1>4, <1>5, <1>6, <1>7, <1>8, <1>9, <1>10, <1>11, <1>12, <1>13,
     <1>14 DEF Next, RunStep, Ended

(* Restarts of the controller alone fail no run: a run that failed lost a  *)
(* request, was refused an event, met a solver error or a restart of the   *)
(* twins.                                                                  *)
THEOREM OnlyFaultsFailRuns == Spec => []ControllerRestartHarmless
<1>1. FaultInv => ControllerRestartHarmless
  BY DEF FaultInv, ControllerRestartHarmless
<1> QED
  BY <1>1, FaultEstablished, FaultKept, RunInvariant, PTL DEF Spec

(* A run that met no fault leaves no session behind, neither at the twins  *)
(* nor at the controller.                                                  *)
THEOREM SessionsAreClosed == Spec => []NoLeak
<1>1. FaultInv => NoLeak
  BY DEF FaultInv, SessionsInStep, NoLeak
<1> QED
  BY <1>1, FaultEstablished, FaultKept, RunInvariant, PTL DEF Spec

-----------------------------------------------------------------------------
(* The layers of a timestep.                                               *)

AfterDrive == {"inverter", "status", "control", "record"}

\* What PV and EV powers the setpoints a leave of a site.
LoweredTo(s, a) ==
    /\ elem[s].pv <= Positive(Driven(s).pv - a.pv)
    /\ ~cfg.vw => elem[s].pv = Positive(Driven(s).pv - a.pv)
    /\ elem[s].ev = Positive(Now(s).ev - a.ev)

\* PV output pv with charge command chg is within a managed site's limit.
WithinLimit(s, i, pv, chg) ==
    (Qualifies(s) /\ Schedule[s][i].limit # NoLimit) =>
       pv - chg <= Schedule[s][i].limit + Schedule[s][i].load + Schedule[s][i].ev

\* Setpoints start at none; the circuit has them in force throughout the
\* exchange; and when a managed exchange is over its sites are within limits.
LayerInv ==
    /\ pc \in {"configure", "start", "drive", "inverter"} => applied = Unset
    /\ pc \in AfterDrive => \A s \in Site : LoweredTo(s, applied[s])
    /\ (cfg.doe = "managed" /\ pc = "record") =>
          \A s \in Site : WithinLimit(s, t, elem[s].pv, applied[s].chg)
    /\ Len(results) = t - 1
    /\ ManagedPvWithinLimit

LEMMA ReducedLowers ==
    ASSUME NEW kw \in Nat, NEW p \in Nat, p <= 100
    PROVE  Reduced(kw, p) \in Nat /\ Reduced(kw, p) <= kw /\ (p = 100 => Reduced(kw, p) = kw)
<1>1. kw * p \in Nat /\ kw * p <= kw * 100
  OBVIOUS
<1>2. Reduced(kw, p) = (kw * p) \div 100
  BY DEF Reduced
<1> DEFINE n == kw * p
<1>3. n \in Nat /\ n <= kw * 100 /\ (p = 100 => n = kw * 100)
  BY <1>1
<1> HIDE DEF n
<1>4. n \div 100 \in Nat /\ n \div 100 <= kw /\ (p = 100 => n \div 100 = kw)
  BY <1>3
<1> QED
  BY <1>2, <1>4 DEF n

LEMMA WattFactor ==
    ASSUME IInv, NEW s \in Site
    PROVE  VoltWattFactor(solved.volts[s]) \in Nat /\ VoltWattFactor(solved.volts[s]) <= 100
<1>1. solved.volts[s] \in Nat /\ Capacity[s].rating \in Nat
  BY ScheduleAssumption DEF IInv, TypeOK
<1> QED
  BY <1>1, CurveTypes

\* The setpoints only grow, and cover the controller's latest answer.
LEMMA SettledGrows ==
    ASSUME IInv, t <= Steps, NEW s \in Site
    PROVE  /\ applied[s] \in Setpoint /\ Settled[s] \in Setpoint
           /\ applied[s].pv <= Settled[s].pv /\ applied[s].ev <= Settled[s].ev
           /\ Qualifies(s) => Answer(s).pv <= Settled[s].pv /\ Answer(s).chg <= Settled[s].chg
<1>1. applied[s] \in Setpoint /\ Settled[s] \in Setpoint
  BY SettledType DEF IInv, TypeOK
<1>2. Answer(s) \in [pv : Nat, ev : Nat, chg : Nat, sup : Nat, q : Int]
  <2>1. IsReading(Readings(s)) /\ Readings(s).rating \in Nat
    BY ReadingsType DEF IInv
  <2> QED
    BY <2>1, ControlType DEF Answer
<1>3. Settled[s] = IF Qualifies(s) THEN Accumulate(applied[s], Answer(s)) ELSE applied[s]
  BY DEF Settled
<1> QED
  BY <1>1, <1>2, <1>3 DEF Accumulate, Setpoint, Greater

\* Applying the setpoints leaves a site with what they leave of its schedule.
LEMMA CommandLowers ==
    ASSUME IInv, t <= Steps, NEW s \in Site, LoweredTo(s, applied[s]),
           NEW e, e = Commanded(s, Settled[s])
    PROVE  /\ e.pv <= Positive(Driven(s).pv - Settled[s].pv)
           /\ ~cfg.vw => e.pv = Positive(Driven(s).pv - Settled[s].pv)
           /\ e.ev = Positive(Now(s).ev - Settled[s].ev)
<1> DEFINE d == Driven(s).pv
           n == Now(s).ev
           f == IF cfg.vw THEN VoltWattFactor(solved.volts[s]) ELSE 100
           r == Reduced(d, f)
<1>1. d \in Nat /\ n \in Nat
  BY DrivenType, NowType DEF IInv
<1>2. f \in Nat /\ f <= 100 /\ (~cfg.vw => f = 100)
  BY WattFactor
<1> HIDE DEF d, f, n
<1>3. r \in Nat /\ r <= d /\ (~cfg.vw => r = d)
  BY <1>1, <1>2, ReducedLowers
<1> HIDE DEF r
<1>4. /\ applied[s].pv \in Nat /\ Settled[s].pv \in Nat /\ applied[s].pv <= Settled[s].pv
      /\ applied[s].ev \in Nat /\ Settled[s].ev \in Nat /\ applied[s].ev <= Settled[s].ev
  BY SettledGrows DEF Setpoint
<1>5. /\ e.pv = IF Settled[s].pv > 0 THEN Positive(r - Settled[s].pv) ELSE elem[s].pv
      /\ e.ev = IF Settled[s].ev > 0 THEN Positive(n - Settled[s].ev) ELSE elem[s].ev
  BY DEF Commanded, r, d, f, n
<1>6. /\ elem[s].pv <= Positive(d - applied[s].pv)
      /\ ~cfg.vw => elem[s].pv = Positive(d - applied[s].pv)
      /\ elem[s].ev = Positive(n - applied[s].ev)
  BY DEF LoweredTo, d, n
<1>7. elem[s].pv \in Nat
  BY DEF IInv, TypeOK, Element
<1>8. /\ e.pv <= Positive(d - Settled[s].pv)
      /\ ~cfg.vw => e.pv = Positive(d - Settled[s].pv)
      /\ e.ev = Positive(n - Settled[s].ev)
  <2>1. /\ e.pv <= Positive(d - Settled[s].pv)
        /\ ~cfg.vw => e.pv = Positive(d - Settled[s].pv)
    <3>1. CASE Settled[s].pv > 0
      <4>1. e.pv = Positive(r - Settled[s].pv)
        BY <1>5, <3>1
      <4>2. Positive(r - Settled[s].pv) <= Positive(d - Settled[s].pv)
        BY <1>1, <1>3, <1>4 DEF Positive, Greater
      <4> QED
        BY <4>1, <4>2, <1>3
    <3>2. CASE ~(Settled[s].pv > 0)
      <4>1. Settled[s].pv = applied[s].pv
        BY <1>4, <3>2
      <4> QED
        BY <4>1, <1>5, <1>6, <3>2
    <3> QED
      BY <3>1, <3>2
  <2>2. e.ev = Positive(n - Settled[s].ev)
    <3>1. CASE Settled[s].ev > 0
      BY <1>5, <3>1
    <3>2. CASE ~(Settled[s].ev > 0)
      <4>1. Settled[s].ev = applied[s].ev
        BY <1>4, <3>2
      <4> QED
        BY <4>1, <1>5, <1>6, <3>2
    <3> QED
      BY <3>1, <3>2
  <2> QED
    BY <2>1, <2>2
<1> QED
  BY <1>8 DEF d, n

\* What the setpoints leave of a managed site is within its limit: they cover
\* the controller's answer, and that covers the excess.
LEMMA SettledCovers ==
    ASSUME IInv, t <= Steps, cfg.doe = "managed", NEW s \in Site, NEW pv \in Nat,
           pv <= Positive(Driven(s).pv - Settled[s].pv)
    PROVE  WithinLimit(s, t, pv, Settled[s].chg)
<1> SUFFICES ASSUME Qualifies(s), Now(s).limit # NoLimit
             PROVE  pv - Settled[s].chg <= Now(s).limit + Now(s).load + Now(s).ev
  BY DEF WithinLimit, Now
<1>1. /\ Now(s).pv \in Nat /\ Now(s).load \in Nat /\ Now(s).ev \in Nat /\ Now(s).limit \in Nat
  BY NowType DEF IInv
<1>2. Driven(s).pv = Now(s).pv
  BY DEF Driven
<1>3. IsReading(Readings(s)) /\ Readings(s).rating \in Nat
  BY ReadingsType DEF IInv
<1>4. Excess(Readings(s)) <= Answer(s).pv + Answer(s).chg
  BY <1>3, ExcessCovered DEF Answer
<1>5. Excess(Readings(s)) = Positive(Now(s).pv - (Now(s).load + Now(s).ev) - Now(s).limit)
  BY DEF Excess, Readings
<1>6. Answer(s).pv \in Nat /\ Answer(s).chg \in Nat
  BY <1>3, ControlType DEF Answer
<1>7. /\ Settled[s].pv \in Nat /\ Settled[s].chg \in Nat
      /\ Answer(s).pv <= Settled[s].pv /\ Answer(s).chg <= Settled[s].chg
  BY SettledGrows DEF Setpoint
<1> QED
  BY <1>1, <1>2, <1>4, <1>5, <1>6, <1>7 DEF Positive, Greater

\* Steps that change no layer keep the invariant, unless they end an exchange.
LEMMA LayersStay ==
    ASSUME LayerInv, UNCHANGED <<cfg, t, applied, elem, results>>,
           pc' \in AfterDrive => pc \in AfterDrive,
           pc' = "record" => pc = "record",
           pc' \in {"configure", "start", "drive", "inverter"} =>
              pc \in {"configure", "start", "drive", "inverter"}
    PROVE  LayerInv'
BY DEF LayerInv, LoweredTo, WithinLimit, ManagedPvWithinLimit, Driven, Now

LEMMA LayersEstablished == Init => LayerInv
<1> SUFFICES ASSUME Init PROVE LayerInv
  OBVIOUS
<1>1. results = <<>> /\ t = 1 /\ applied = Unset /\ pc \in {"configure", "drive"}
  BY DEF Init
<1>2. Len(results) = 0
  BY <1>1
<1> QED
  BY <1>1, <1>2 DEF LayerInv, AfterDrive, ManagedPvWithinLimit

LEMMA UnsetIsNone == \A s \in Site : Unset[s].pv = 0 /\ Unset[s].ev = 0 /\ Unset[s].chg = 0
BY DEF Unset, NoSetpoint

\* Driving a timestep: the schedule, capped, and no setpoints.
LEMMA DriveLayers ==
    ASSUME IInv, LayerInv, Drive PROVE LayerInv'
<1>1. t <= Steps
  BY DEF IInv, CountersInOrder, InStep, Drive
<1>2. applied' = Unset /\ UNCHANGED <<cfg, t, results>>
  BY DEF LayerInv, Drive
<1>3. /\ pc' \in {"inverter", "status", "record"}
      /\ cfg.doe = "managed" => pc' # "record"
  BY ConfigAssumption DEF Drive, AfterInverters, Coordinated, IInv, TypeOK
<1>4. ASSUME NEW s \in Site PROVE LoweredTo(s, applied[s])'
  <2>1. elem'[s].pv = Driven(s).pv /\ elem'[s].ev = Now(s).ev
    BY DEF Drive, SolveWith
  <2>2. Driven(s)' = Driven(s) /\ Now(s)' = Now(s)
    BY <1>2 DEF Driven, Now
  <2>3. Driven(s).pv \in Nat /\ Now(s).ev \in Nat
    BY <1>1, DrivenType, NowType DEF IInv
  <2>4. /\ Positive(Driven(s).pv - 0) = Driven(s).pv
        /\ Positive(Now(s).ev - 0) = Now(s).ev
        /\ Driven(s).pv <= Driven(s).pv
    BY <2>3 DEF Positive, Greater
  <2> QED
    BY <1>2, <2>1, <2>2, <2>4, UnsetIsNone DEF LoweredTo
<1>5. ManagedPvWithinLimit'
  BY <1>2 DEF LayerInv, ManagedPvWithinLimit
<1> QED
  BY <1>2, <1>3, <1>4, <1>5 DEF LayerInv

\* Volt-Watt lowers the PV output further, from the capped schedule.
LEMMA InverterLayers ==
    ASSUME IInv, LayerInv, Inverter PROVE LayerInv'
<1>1. t <= Steps
  BY DEF IInv, CountersInOrder, InStep, Inverter
<1>2. applied = Unset /\ UNCHANGED <<cfg, t, applied, results>>
  BY DEF LayerInv, Inverter
<1>3. /\ pc' \in {"inverter", "status", "record"}
      /\ cfg.doe = "managed" => pc' # "record"
  BY ConfigAssumption DEF Inverter, AfterInverters, Coordinated, IInv, TypeOK
<1>4. ASSUME NEW s \in Site PROVE LoweredTo(s, applied[s])'
  <2>1. LoweredTo(s, applied[s]) /\ applied[s].pv = 0
    BY <1>2, UnsetIsNone DEF LayerInv, Inverter, AfterDrive
  <2>2. elem[s] \in Element
    BY DEF IInv, TypeOK
  <2>3. /\ elem'[s].ev = elem[s].ev
        /\ \/ elem'[s].pv = elem[s].pv
           \/ cfg.vw /\ elem'[s].pv = Reduced(Driven(s).pv, VoltWattFactor(solved.volts[s]))
    <3>1. elem'[s] = IF s \in Inverters
            THEN [elem[s] EXCEPT
                    !.q  = IF cfg.vv THEN VoltVarKvar(solved.volts[s], Capacity[s].rating) ELSE @,
                    !.pv = IF cfg.vw THEN Reduced(Driven(s).pv, VoltWattFactor(solved.volts[s])) ELSE @]
            ELSE elem[s]
      BY DEF Inverter, SolveWith
    <3>2. CASE s \in Inverters
      BY <2>2, <3>1, <3>2 DEF Element
    <3>3. CASE s \notin Inverters
      BY <3>1, <3>3
    <3> QED
      BY <3>2, <3>3
  <2>3a. Driven(s).pv \in Nat
    BY <1>1, DrivenType DEF IInv
  <2>4. Reduced(Driven(s).pv, VoltWattFactor(solved.volts[s])) <= Driven(s).pv
    BY <2>3a, WattFactor, ReducedLowers
  <2>5. Driven(s)' = Driven(s) /\ Now(s)' = Now(s)
    BY <1>2 DEF Driven, Now
  <2>6. Positive(Driven(s).pv - 0) = Driven(s).pv
    BY <2>3a DEF Positive, Greater
  <2> QED
    BY <1>2, <2>1, <2>3, <2>4, <2>5, <2>6 DEF LoweredTo
<1>5. ManagedPvWithinLimit'
  BY <1>2 DEF LayerInv, ManagedPvWithinLimit
<1> QED
  BY <1>2, <1>3, <1>4, <1>5 DEF LayerInv

LEMMA ApplyLayers ==
    ASSUME IInv, LayerInv, Apply PROVE LayerInv'
<1>1. t <= Steps /\ pc = "control"
  BY DEF IInv, CountersInOrder, InStep, Apply
<1>2. applied' = Settled /\ UNCHANGED <<cfg, t, results>> /\ pc' \in {"record", "status"}
  BY DEF Apply, NextIteration
<1>3. \A s \in Site : LoweredTo(s, applied[s])
  BY <1>1 DEF LayerInv, AfterDrive
<1>4. \A s \in Site : elem'[s] = Commanded(s, Settled[s])
  BY DEF Apply, SolveWith
<1>5. \A s \in Site : /\ elem'[s].pv <= Positive(Driven(s).pv - Settled[s].pv)
                      /\ ~cfg.vw => elem'[s].pv = Positive(Driven(s).pv - Settled[s].pv)
                      /\ elem'[s].ev = Positive(Now(s).ev - Settled[s].ev)
  BY <1>1, <1>3, <1>4, CommandLowers
<1>6. \A s \in Site : Driven(s)' = Driven(s) /\ Now(s)' = Now(s)
  BY <1>2 DEF Driven, Now
<1>7. \A s \in Site : LoweredTo(s, applied[s])'
  BY <1>2, <1>5, <1>6 DEF LoweredTo
<1>8. ASSUME cfg.doe = "managed", NEW s \in Site
      PROVE  WithinLimit(s, t, elem[s].pv, applied[s].chg)'
  <2>1. elem'[s].pv \in Nat
    BY <1>4, <1>1, SettledGrows, CommandedType DEF Element
  <2>2. WithinLimit(s, t, elem'[s].pv, Settled[s].chg)
    BY <1>1, <1>5, <1>8, <2>1, SettledCovers
  <2> QED
    BY <1>2, <2>2 DEF WithinLimit
<1>9. ManagedPvWithinLimit'
  BY <1>2 DEF LayerInv, ManagedPvWithinLimit
<1> QED
  BY <1>2, <1>7, <1>8, <1>9 DEF LayerInv

\* An exchange that settles leaves its sites within limits.
LEMMA SettleLayers ==
    ASSUME IInv, LayerInv, Settle PROVE LayerInv'
<1>1. t <= Steps /\ pc = "control"
  BY DEF IInv, CountersInOrder, InStep, Settle
<1>2. Settled = applied /\ pc' = "record" /\ UNCHANGED <<cfg, t, applied, elem, results>>
  BY DEF Settle, solverVars
<1>3. \A s \in Site : LoweredTo(s, applied[s])
  BY <1>1 DEF LayerInv, AfterDrive
<1>4. \A s \in Site : LoweredTo(s, applied[s])'
  BY <1>2, <1>3 DEF LoweredTo, Driven, Now
<1>5. ASSUME cfg.doe = "managed", NEW s \in Site
      PROVE  WithinLimit(s, t, elem[s].pv, applied[s].chg)'
  <2>1. elem[s].pv \in Nat
    BY DEF IInv, TypeOK, Element
  <2>2. elem[s].pv <= Positive(Driven(s).pv - Settled[s].pv)
    BY <1>2, <1>3 DEF LoweredTo
  <2>3. WithinLimit(s, t, elem[s].pv, Settled[s].chg)
    BY <1>1, <1>5, <2>1, <2>2, SettledCovers
  <2> QED
    BY <1>2, <2>3 DEF WithinLimit
<1>6. ManagedPvWithinLimit'
  BY <1>2 DEF LayerInv, ManagedPvWithinLimit
<1> QED
  BY <1>2, <1>4, <1>5, <1>6 DEF LayerInv

\* A reported timestep joins the results; the next one starts without setpoints.
LEMMA ReportLayers ==
    ASSUME IInv, LayerInv, Report, pc = "record", UNCHANGED cfg
    PROVE  LayerInv'
<1> DEFINE r == [converged |-> conv, physical |-> solved.ok, elem |-> elem, set |-> applied]
<1>1. results \in Seq(ResultType) /\ results' = Append(results, r) /\ t \in Nat /\ t' = t + 1
  BY ScheduleAssumption DEF IInv, TypeOK, Report
<1>2. /\ Len(results) = t - 1 /\ Len(results') = t
      /\ \A i \in 1..(t - 1) : results'[i] = results[i]
      /\ results'[t] = r
  <2>1. Len(results) = t - 1
    BY DEF LayerInv
  <2> HIDE DEF r
  <2> QED
    BY <1>1, <2>1
<1>3. ASSUME cfg.doe = "managed", NEW i \in 1..t, NEW s \in Site
      PROVE  WithinLimit(s, i, results'[i].elem[s].pv, results'[i].set[s].chg)
  <2>1. CASE i = t
    BY <1>2, <1>3, <2>1 DEF LayerInv
  <2>2. CASE i # t
    <3>1. i \in 1..(t - 1)
      BY <1>1, <2>2
    <3> QED
      BY <1>2, <1>3, <3>1 DEF LayerInv, ManagedPvWithinLimit, WithinLimit
  <2> QED
    BY <2>1, <2>2
<1>4. ManagedPvWithinLimit'
  BY <1>2, <1>3 DEF ManagedPvWithinLimit, WithinLimit
<1>5. pc' \in {"drive", "stopTwins", "ended"} /\ applied' = Unset
  BY DEF Report, Closing
<1>6. Len(results') = t' - 1
  BY <1>1, <1>2
<1> QED
  BY <1>4, <1>5, <1>6 DEF LayerInv, AfterDrive

LEMMA LayersKept == IInv /\ LayerInv /\ [Next]_vars => LayerInv'
<1> SUFFICES ASSUME IInv, LayerInv, [Next]_vars
             PROVE  LayerInv'
  OBVIOUS
<1> USE DEF AfterDrive
<1>1. CASE Drive
  BY <1>1, DriveLayers
<1>2. CASE Inverter
  BY <1>2, InverterLayers
<1>3. CASE Finish
  BY <1>3, ReportLayers DEF Finish
<1>4. CASE Send
  BY <1>4, LayersStay DEF Send, solverVars
<1>5. CASE Proceed
  BY <1>5, LayersStay DEF Proceed, AfterStop, solverVars, IInv, CountersInOrder, Request
<1>6. CASE Apply
  BY <1>6, ApplyLayers
<1>7. CASE Settle
  BY <1>7, SettleLayers
<1>8. CASE Recorded
  BY <1>8, ReportLayers DEF Recorded
<1>9. CASE GiveUp
  BY <1>9, LayersStay DEF GiveUp, AfterStop, Raise, Closing, solverVars
<1>10. CASE SolverFails
  BY <1>10, LayersStay DEF SolverFails, Raise, Closing, solverVars
<1>11. CASE Handle
  BY <1>11, LayersStay DEF Handle, solverVars
<1>12. CASE Restart
  BY <1>12, LayersStay DEF Restart, runVars, solverVars
<1>13. CASE \E c \in late : HandleLate(c)
  BY <1>13, LayersStay DEF HandleLate, runVars, solverVars
<1>14. CASE UNCHANGED vars
  BY <1>14, LayersStay DEF vars, runVars, solverVars
<1> QED
  BY <1>1, <1>2, <1>3, <1>4, <1>5, <1>6, <1>7, <1>8, <1>9, <1>10, <1>11, <1>12, <1>13,
     <1>14 DEF Next, RunStep, Ended

LEMMA LayersHold == Spec => [](IInv /\ LayerInv)
BY LayersEstablished, LayersKept, RunInvariant, PTL DEF Spec

(* What the envelope cap left of a site's PV output, neither the inverters *)
(* nor any number of exchanged setpoints exceed within that timestep.      *)
THEOREM CapIsKept == Spec => []PvStaysCapped
<1>1. IInv /\ LayerInv => PvStaysCapped
  <2> SUFFICES ASSUME IInv, LayerInv, pc \in AfterDrive, NEW s \in Site
               PROVE  elem[s].pv <= Driven(s).pv
    BY DEF PvStaysCapped, AfterDrive
  <2>1. t <= Steps
    BY DEF AfterDrive, InStep, IInv, CountersInOrder
  <2>2. Driven(s).pv \in Nat /\ applied[s].pv \in Nat /\ elem[s].pv \in Nat
    BY <2>1, DrivenType DEF IInv, TypeOK, Setpoint, Element
  <2>3. elem[s].pv <= Positive(Driven(s).pv - applied[s].pv)
    BY DEF LayerInv, LoweredTo
  <2> QED
    BY <2>2, <2>3 DEF Positive, Greater
<1> QED
  BY <1>1, LayersHold, PTL

(* Managed envelopes hold the PV output: whichever voltage response was    *)
(* combined with the envelope's, and wherever the exchange was cut off, a  *)
(* recorded timestep's PV less demand and charge command is in the limit.  *)
THEOREM ManagedPvIsHeld == Spec => []ManagedPvWithinLimit
<1>1. LayerInv => ManagedPvWithinLimit
  BY DEF LayerInv
<1> QED
  BY <1>1, LayersHold, PTL

(* The exchange cannot swing: with Volt-Watt off no step of it raises the  *)
(* PV or EV power of any site.                                             *)
THEOREM ExchangeOnlyLowers == Spec => CurtailmentRatchets
<1> DEFINE Ratchet == (t' = t /\ pc = "control" /\ ~cfg.vw) =>
                         \A s \in Site : elem'[s].pv <= elem[s].pv /\ elem'[s].ev <= elem[s].ev
<1>1. IInv /\ LayerInv /\ [Next]_vars => [Ratchet]_vars
  <2> SUFFICES ASSUME IInv, LayerInv, [Next]_vars, pc = "control", ~cfg.vw, NEW s \in Site
               PROVE  elem'[s].pv <= elem[s].pv /\ elem'[s].ev <= elem[s].ev
    OBVIOUS
  <2>1. t <= Steps /\ LoweredTo(s, applied[s])
    BY DEF IInv, CountersInOrder, InStep, LayerInv, AfterDrive
  <2>2. elem[s].pv \in Nat /\ elem[s].ev \in Nat
    BY DEF IInv, TypeOK, Element
  <2>3. CASE elem' = elem
    BY <2>2, <2>3
  <2>4. CASE Apply
    <3>1. elem'[s] = Commanded(s, Settled[s])
      BY <2>4 DEF Apply, SolveWith
    <3>2. /\ elem'[s].pv = Positive(Driven(s).pv - Settled[s].pv)
          /\ elem'[s].ev = Positive(Now(s).ev - Settled[s].ev)
      BY <2>1, <3>1, CommandLowers
    <3>3. /\ elem[s].pv = Positive(Driven(s).pv - applied[s].pv)
          /\ elem[s].ev = Positive(Now(s).ev - applied[s].ev)
      BY <2>1 DEF LoweredTo
    <3>4. Driven(s).pv \in Nat /\ Now(s).ev \in Nat
      BY <2>1, DrivenType, NowType DEF IInv
    <3>5. /\ applied[s].pv \in Nat /\ Settled[s].pv \in Nat /\ applied[s].pv <= Settled[s].pv
          /\ applied[s].ev \in Nat /\ Settled[s].ev \in Nat /\ applied[s].ev <= Settled[s].ev
      BY <2>1, SettledGrows DEF Setpoint
    <3> QED
      BY <3>2, <3>3, <3>4, <3>5 DEF Positive, Greater
  <2>5. Apply \/ elem' = elem
    BY DEF Next, RunStep, Drive, Inverter, Finish, Send, Proceed, Settle, Recorded, GiveUp,
           SolverFails, Handle, Restart, HandleLate, Ended, vars, runVars, solverVars
  <2> QED
    BY <2>3, <2>4, <2>5
<1> QED
  BY <1>1, LayersHold, PTL DEF Spec, CurtailmentRatchets

-----------------------------------------------------------------------------
(* The twins' book of a run: an entry per timestep, in order, whatever    *)
(* expires, is handled late or restarts, each what the feeder ran.         *)

Stops == {"stopTwins", "stopCtl", "ended"}

\* How far the book of an open session is while the run is in a timestep.
Written == IF pc = "record" /\ out \in {"ok", "err"} THEN t ELSE t - 1

\* An expired record is the only one, belongs to the timestep the run failed in
\* and is still to be written; an expired start ended the run before it.
LateInOrder ==
    /\ \A c \in late : c.op = "record" =>
          /\ pc \in Stops /\ c.t = t
          /\ twins.open => Len(twins.log) = t - 1
          /\ \A d \in late : d.op = "record" => d = c
    /\ \A c \in late : c.op = "start" => pc = "ended" /\ \A d \in late : d.op # "record"

BookInv ==
    /\ ~twins.open => twins.log = <<>>
    /\ ~Coordinated => ~twins.open /\ late = {}
    /\ \A i \in 1..Len(twins.log) : twins.log[i].t = i
    /\ pc \in Before => t = 1 /\ twins.log = <<>>
    /\ twins.open /\ pc \in InStep => Len(twins.log) = Written
    /\ pc \in Stops => Len(twins.log) \in {0, t - 1, t}
    /\ pc = "stopTwins" /\ ~failed => t = Steps + 1
    /\ pc = "stopTwins" /\ ~failed /\ ~fault /\ out \in {"none", "sent"} => Len(twins.log) = t - 1
    /\ LateInOrder

LEMMA EmptyBook == Len(<<>>) = 0
OBVIOUS

LEMMA BookEstablished == Init => BookInv
BY EmptyBook DEF Init, BookInv, LateInOrder, Closed, Coordinated, Stops, Before, InStep

\* Where a request or a solver that fails leads.
LEMMA WayOut == Raise => pc' \in {"stopTwins", "ended"} /\ failed' /\ (pc = "start" => pc' = "ended")
BY DEF Raise, Closing

\* A step that leaves the twins, the clock and the expired commands alone.
LEMMA BookStays ==
    ASSUME IInv, BookInv, UNCHANGED <<cfg, t, twins, late>>, fault => fault', failed => failed',
           \/ pc' = pc /\ (pc = "record" => (out' \in {"ok", "err"} <=> out \in {"ok", "err"}))
              /\ (out' \in {"none", "sent"} => out \in {"none", "sent"})
           \/ pc \in InStep /\ pc' \in InStep /\ pc # "record" /\ out' = "none"
           \/ pc \in Before /\ pc' \in Before
           \/ pc = "start" /\ pc' = "drive" /\ out' = "none"
           \/ pc' \in Stops /\ pc # "ended" /\ (pc' = "stopTwins" => failed')
    PROVE  BookInv'
<1>1. Len(twins.log) \in Nat /\ t \in Nat
  BY ScheduleAssumption DEF IInv, TypeOK
<1>2. LateInOrder'
  BY DEF BookInv, LateInOrder, Stops, InStep, Before
<1>3. twins.open /\ pc' \in InStep => Len(twins.log) = Written'
  BY <1>1, EmptyBook DEF BookInv, Written, Stops, InStep, Before
<1>4. pc' \in Stops => Len(twins.log) \in {0, t - 1, t}
  BY <1>1, EmptyBook DEF BookInv, Written, Stops, InStep, Before, IInv, TypeOK, Stage, Request
<1>5. pc' \in Before => t = 1 /\ twins.log = <<>>
  BY DEF BookInv, Stops, InStep, Before
<1>6. /\ pc' = "stopTwins" /\ ~failed' => t = Steps + 1
      /\ pc' = "stopTwins" /\ ~failed' /\ ~fault' /\ out' \in {"none", "sent"} => Len(twins.log) = t - 1
  BY DEF BookInv, Stops, InStep, Before
<1> QED
  BY <1>2, <1>3, <1>4, <1>5, <1>6 DEF BookInv, Coordinated

\* An entry for the timestep after the last one.
LEMMA EntryAppended ==
    ASSUME IInv, NEW c \in CommandType, \A i \in 1..Len(twins.log) : twins.log[i].t = i,
           Len(twins.log) = t - 1, c.t = t,
           twins' = [twins EXCEPT !.log = Append(@, [t |-> c.t, set |-> c.set])]
    PROVE  /\ twins'.open = twins.open /\ Len(twins'.log) = t
           /\ \A i \in 1..Len(twins'.log) : twins'.log[i].t = i
           /\ \A i \in 1..(t - 1) : twins'.log[i] = twins.log[i]
           /\ twins'.log[t].set = c.set
<1> DEFINE Entry == [t : 1..Steps, set : [Site -> Setpoint]]
           n == [t |-> c.t, set |-> c.set]
<1>1. twins \in [open : BOOLEAN, log : Seq(Entry)] /\ t \in Nat
  BY ScheduleAssumption DEF IInv, TypeOK
<1>2. n \in Entry /\ n.t = t /\ n.set = c.set
  BY DEF CommandType
<1>3. twins'.open = twins.open /\ twins'.log = Append(twins.log, n)
  BY <1>1
<1> HIDE DEF n, Entry
<1>4. /\ Len(twins'.log) = t /\ twins'.log[t] = n
      /\ \A i \in 1..(t - 1) : twins'.log[i] = twins.log[i]
  BY <1>1, <1>2, <1>3
<1>5. \A i \in 1..t : twins'.log[i].t = i
  <2> SUFFICES ASSUME NEW i \in 1..t PROVE twins'.log[i].t = i
    OBVIOUS
  <2>1. CASE i = t
    BY <1>2, <1>4, <2>1
  <2>2. CASE i # t
    <3>1. i \in 1..(t - 1) /\ i \in 1..Len(twins.log)
      BY <1>1, <2>2
    <3> QED
      BY <1>4, <3>1
  <2> QED
    BY <2>1, <2>2
<1> QED
  BY <1>2, <1>3, <1>4, <1>5

\* The awaited record is entered; the others open, close or leave the book.
LEMMA HandleBook ==
    ASSUME IInv, FaultInv, BookInv, Handle PROVE BookInv'
<1>1. /\ pc \in Request /\ Coordinated /\ out = "sent" /\ out' \in {"ok", "err"}
      /\ Command \in CommandType /\ Command.op = pc /\ (pc = "record" => Command.t = t)
      /\ UNCHANGED <<cfg, pc, t, failed, late>>
      /\ (fault => fault')
  BY CommandIsTyped DEF Handle, Command, FaultInv
<1>2. twins' = IF ~Servable(Command) THEN twins
               ELSE CASE pc = "start" -> Opened
                 [] pc = "record" -> [twins EXCEPT !.log = Append(@, [t |-> Command.t, set |-> Command.set])]
                 [] pc = "stopTwins" -> Closed
                 [] OTHER -> twins
  BY <1>1 DEF Handle, Serve
<1>3. Servable(Command) <=> (pc \in {"status", "record"} => twins.open)
  BY <1>1 DEF Servable
<1>4. CASE pc = "record" /\ twins.open
  <2>1. Len(twins.log) = t - 1
    BY <1>1, <1>4 DEF BookInv, Written, InStep
  <2>2. twins' = [twins EXCEPT !.log = Append(@, [t |-> Command.t, set |-> Command.set])]
    BY <1>2, <1>3, <1>4
  <2>3. /\ twins'.open /\ Len(twins'.log) = t
        /\ \A i \in 1..Len(twins'.log) : twins'.log[i].t = i
    BY <1>1, <1>4, <2>1, <2>2, EntryAppended DEF BookInv
  <2> QED
    BY <1>1, <1>4, <2>3 DEF BookInv, LateInOrder, Written, Coordinated, Stops, Before, InStep
<1>5. CASE pc = "start"
  BY <1>1, <1>2, <1>3, <1>5, EmptyBook
     DEF BookInv, LateInOrder, Coordinated, Stops, Before, InStep, Opened
<1>6. CASE pc = "stopTwins"
  BY <1>1, <1>2, <1>3, <1>6, EmptyBook
     DEF BookInv, LateInOrder, Coordinated, Stops, Before, InStep, Closed
<1>7. CASE pc \notin {"start", "stopTwins"} /\ ~(pc = "record" /\ twins.open)
  <2>1. twins' = twins
    <3>1. CASE ~Servable(Command)
      BY <1>2, <3>1
    <3>2. CASE Servable(Command)
      <4>1. pc \notin {"start", "stopTwins", "record"}
        BY <1>3, <1>7, <3>2
      <4> QED
        BY <1>2, <3>2, <4>1
    <3> QED
      BY <3>1, <3>2
  <2> QED
    BY <1>1, <1>7, <2>1 DEF BookInv, LateInOrder, Coordinated, Stops, Before, InStep, Written
<1> QED
  BY <1>4, <1>5, <1>6, <1>7

\* Late handlers find the book where the run left it.
LEMMA LateBook ==
    ASSUME IInv, FaultInv, BookInv, NEW c \in late, HandleLate(c) PROVE BookInv'
<1>1. /\ c \in CommandType /\ UNCHANGED <<cfg, pc, out, t, failed, fault>>
      /\ late' = late \ {c} /\ fault /\ Coordinated
  BY DEF HandleLate, runVars, IInv, TypeOK, FaultInv, BookInv
<1>2. twins' = IF ~Servable(c) THEN twins
               ELSE CASE c.op = "start" -> Opened
                 [] c.op = "record" -> [twins EXCEPT !.log = Append(@, [t |-> c.t, set |-> c.set])]
                 [] c.op = "stopTwins" -> Closed
                 [] OTHER -> twins
  BY DEF HandleLate, Serve
<1>3. Servable(c) <=> (c.op \in {"status", "record"} => twins.open)
  BY DEF Servable
<1>4. CASE c.op = "record" /\ twins.open
  <2>1. /\ pc \in Stops /\ c.t = t /\ Len(twins.log) = t - 1
        /\ \A d \in late : d.op = "record" => d = c
    BY <1>4 DEF BookInv, LateInOrder
  <2>2. twins' = [twins EXCEPT !.log = Append(@, [t |-> c.t, set |-> c.set])]
    BY <1>2, <1>3, <1>4
  <2>3. /\ twins'.open /\ Len(twins'.log) = t
        /\ \A i \in 1..Len(twins'.log) : twins'.log[i].t = i
    BY <1>1, <1>4, <2>1, <2>2, EntryAppended DEF BookInv
  <2>4. LateInOrder'
    BY <1>1, <2>1 DEF BookInv, LateInOrder
  <2> QED
    BY <1>1, <2>1, <2>3, <2>4 DEF BookInv, Coordinated, Stops, Before, InStep
<1>5. CASE c.op = "start"
  <2>1. pc = "ended" /\ \A d \in late : d.op # "record"
    BY <1>5 DEF BookInv, LateInOrder
  <2>2. twins'.open /\ twins'.log = <<>>
    BY <1>2, <1>3, <1>5 DEF Opened
  <2>3. LateInOrder'
    BY <1>1, <2>1 DEF BookInv, LateInOrder
  <2> QED
    BY <1>1, <2>1, <2>2, <2>3, EmptyBook DEF BookInv, Coordinated, Stops, Before, InStep
<1>6. CASE twins' = Closed
  <2>1. ~twins'.open /\ twins'.log = <<>>
    BY <1>6 DEF Closed
  <2>2. LateInOrder'
    BY <1>1, <2>1 DEF BookInv, LateInOrder
  <2> QED
    BY <1>1, <2>1, <2>2, EmptyBook DEF BookInv, Coordinated, Stops, Before, InStep
<1>7. CASE twins' = twins
  BY <1>1, <1>7 DEF BookInv, LateInOrder, Coordinated, Written
<1>8. CASE ~Servable(c)
  BY <1>2, <1>7, <1>8
<1>9. CASE Servable(c) /\ c.op \notin {"start", "record"}
  <2>1. twins' = Closed \/ twins' = twins
    BY <1>2, <1>9
  <2> QED
    BY <1>6, <1>7, <2>1
<1> QED
  BY <1>3, <1>4, <1>5, <1>8, <1>9

\* A reported timestep: the clock catches up with the book.
LEMMA ReportBook ==
    ASSUME IInv, FaultInv, BookInv, Report, pc = "record", out' = "none",
           (Coordinated /\ out = "ok") \/ ~Coordinated,
           UNCHANGED <<cfg, failed, twins, late, fault>>
    PROVE  BookInv'
<1>1. t \in 1..Steps /\ t' = t + 1 /\ Len(twins.log) \in Nat
  BY ScheduleAssumption DEF IInv, TypeOK, CountersInOrder, InStep, Report
<1>2. pc' = IF t = Steps THEN Closing ELSE "drive"
  BY DEF Report
<1>3. pc' \in {"drive", "stopTwins", "ended"} /\ (pc' = "stopTwins" => Coordinated /\ t = Steps)
  BY <1>2 DEF Closing
<1>4. \/ twins.open /\ Coordinated /\ Len(twins.log) = t
      \/ ~twins.open /\ Len(twins.log) = 0
  BY EmptyBook DEF BookInv, Written, InStep
<1>5. ~fault /\ Coordinated => twins.open
  BY DEF FaultInv, SessionsInStep, InStep
<1>6. LateInOrder'
  BY DEF BookInv, LateInOrder, Stops
<1> QED
  BY <1>1, <1>3, <1>4, <1>5, <1>6, ScheduleAssumption
     DEF BookInv, Written, Coordinated, Stops, Before, InStep

\* The request of this stage expires: its command is handled late, if ever.
LEMMA ExpiryBook ==
    ASSUME IInv, FaultInv, BookInv, GiveUp, out = "sent" PROVE BookInv'
<1>1. /\ UNCHANGED <<cfg, t, twins>> /\ late' = late \union {Command} /\ out' = "none" /\ fault'
      /\ pc \in Request /\ Coordinated /\ Command.op = pc /\ (pc = "record" => Command.t = t)
  BY DEF GiveUp, Command, FaultInv
<1>1a. t \in Nat /\ Len(twins.log) \in Nat
  BY ScheduleAssumption DEF IInv, TypeOK
<1>2. IF pc \in {"stopTwins", "stopCtl"} THEN pc' \in {"stopCtl", "ended"}
      ELSE pc' \in {"stopTwins", "ended"} /\ failed' /\ (pc = "start" => pc' = "ended")
  BY WayOut DEF GiveUp, AfterStop
<1>3. pc' \in Stops /\ (pc' = "stopTwins" => failed')
  BY <1>2 DEF Stops
<1>4. pc # "ended"
  BY <1>1 DEF Request
<1>5. Len(twins.log) \in {0, t - 1, t} /\ (pc = "record" /\ twins.open => Len(twins.log) = t - 1)
  BY <1>1, <1>1a, <1>4, EmptyBook
     DEF BookInv, Written, Stops, InStep, Before, Request
<1>6. LateInOrder'
  <2>1. pc = "record" => \A d \in late : d.op # "record"
    BY DEF BookInv, LateInOrder, Stops
  <2>2. \A d \in late : d.op # "start"
    BY <1>4 DEF BookInv, LateInOrder
  <2>3. pc = "start" => \A d \in late : d.op # "record"
    BY DEF BookInv, LateInOrder, Stops
  <2>4. ASSUME NEW c \in late', c.op = "record"
        PROVE  /\ pc' \in Stops /\ c.t = t'
               /\ twins'.open => Len(twins'.log) = t' - 1
               /\ \A d \in late' : d.op = "record" => d = c
    <3>1. CASE c \in late
      BY <1>1, <1>3, <2>1, <2>4, <3>1 DEF BookInv, LateInOrder
    <3>2. CASE c = Command
      BY <1>1, <1>3, <1>5, <2>1, <2>4, <3>2
    <3> QED
      BY <1>1, <3>1, <3>2
  <2>5. ASSUME NEW c \in late', c.op = "start"
        PROVE  pc' = "ended" /\ \A d \in late' : d.op # "record"
    <3>1. c = Command /\ pc = "start"
      BY <1>1, <2>2, <2>5
    <3> QED
      BY <1>1, <1>2, <2>3, <3>1
  <2> QED
    BY <2>4, <2>5 DEF LateInOrder
<1> QED
  BY <1>1, <1>1a, <1>3, <1>5, <1>6 DEF BookInv, Coordinated, Stops, Before, InStep

\* A restart of the twins loses the session and its book; the controller keeps none.
LEMMA RestartBook ==
    ASSUME BookInv, Restart PROVE BookInv'
<1>1. UNCHANGED <<cfg, pc, out, t, failed, late>>
  BY DEF Restart, runVars
<1>2. CASE twins' = Closed /\ fault'
  BY <1>1, <1>2, EmptyBook
     DEF BookInv, LateInOrder, Closed, Coordinated, Stops, Before, InStep
<1>3. CASE UNCHANGED <<twins, fault>>
  BY <1>1, <1>3 DEF BookInv, LateInOrder, Coordinated, Written
<1> QED
  BY <1>2, <1>3 DEF Restart

LEMMA BookKept == IInv /\ FaultInv /\ BookInv /\ [Next]_vars => BookInv'
<1> SUFFICES ASSUME IInv, FaultInv, BookInv, [Next]_vars
             PROVE  BookInv'
  OBVIOUS
<1>1. CASE Drive
  <2>1. UNCHANGED <<cfg, out, t, twins, late, fault, failed>> /\ pc = "drive"
        /\ pc' \in {"inverter", "status", "record"}
    BY <1>1 DEF Drive, AfterInverters, peerVars
  <2>2. out' = "none"
    BY <2>1 DEF FaultInv, Request
  <2> QED
    BY <2>1, <2>2, BookStays DEF InStep
<1>2. CASE Inverter
  <2>1. UNCHANGED <<cfg, out, t, twins, late, fault, failed>> /\ pc = "inverter"
        /\ pc' \in {"inverter", "status", "record"}
    BY <1>2 DEF Inverter, AfterInverters, peerVars
  <2>2. out' = "none"
    BY <2>1 DEF FaultInv, Request
  <2> QED
    BY <2>1, <2>2, BookStays DEF InStep
<1>3. CASE Finish
  BY <1>3, ReportBook DEF Finish, peerVars
<1>4. CASE Send
  BY <1>4, BookStays DEF Send, peerVars
<1>5. CASE Proceed
  BY <1>5, BookStays DEF Proceed, AfterStop, peerVars, InStep, Before, Stops, FaultInv, Request
<1>6. CASE Apply
  BY <1>6, BookStays DEF Apply, NextIteration, peerVars, InStep
<1>7. CASE Settle
  BY <1>7, BookStays DEF Settle, peerVars, InStep
<1>8. CASE Recorded
  BY <1>8, ReportBook DEF Recorded, peerVars, FaultInv
<1>9. CASE GiveUp
  <2>1. CASE out = "sent"
    BY <1>9, <2>1, ExpiryBook
  <2>2. CASE out = "err"
    <3>1. UNCHANGED <<cfg, t, twins, late>> /\ (fault => fault') /\ (failed => failed') /\ pc \in Request
      BY <1>9, <2>2 DEF GiveUp, Raise, FaultInv
    <3>2. pc' \in Stops /\ (pc' = "stopTwins" => failed')
      BY <1>9, WayOut DEF GiveUp, AfterStop, Stops
    <3> QED
      BY <3>1, <3>2, BookStays DEF Request
  <2> QED
    BY <1>9, <2>1, <2>2 DEF GiveUp
<1>10. CASE SolverFails
  <2>1. UNCHANGED <<cfg, t, twins, late>> /\ fault' /\ pc # "ended"
    BY <1>10 DEF SolverFails, peerVars
  <2>2. pc' \in Stops /\ failed'
    BY <1>10, WayOut DEF SolverFails, Stops
  <2> QED
    BY <2>1, <2>2, BookStays
<1>11. CASE Handle
  BY <1>11, HandleBook
<1>12. CASE Restart
  BY <1>12, RestartBook
<1>13. CASE \E c \in late : HandleLate(c)
  BY <1>13, LateBook
<1>14. CASE UNCHANGED vars
  BY <1>14, BookStays DEF vars, runVars, peerVars
<1> QED
  BY <1>1, <1>2, <1>3, <1>4, <1>5, <1>6, <1>7, <1>8, <1>9, <1>10, <1>11, <1>12, <1>13, <1>14
     DEF Next, RunStep, Ended

(* The twins' books follow the run, whatever fails: entries in order, at    *)
(* most one ahead of the results, and a complete book when all went well.   *)
THEOREM BookIsInStep == Spec => []LogInStep
<1>1. IInv /\ LayerInv /\ BookInv => LogInStep
  <2> SUFFICES ASSUME IInv, LayerInv, BookInv PROVE LogInStep
    OBVIOUS
  <2>1. Len(results) = t - 1 /\ t \in Nat /\ Steps \in Nat /\ Len(twins.log) \in Nat
    BY ScheduleAssumption DEF IInv, TypeOK, LayerInv
  <2>2. Len(twins.log) \in {0, t - 1, t}
    <3>1. pc \in Stops \/ pc \in Before \/ pc \in InStep
      BY DEF IInv, TypeOK, Stage, Request, Stops, Before, InStep
    <3>2. ~twins.open => Len(twins.log) = 0
      BY EmptyBook DEF BookInv
    <3> QED
      BY <2>1, <3>1, <3>2, EmptyBook DEF BookInv, Written
  <2>3. pc = "stopTwins" /\ ~failed /\ ~fault /\ out = "none" => Len(twins.log) = Steps
    BY <2>1 DEF BookInv
  <2> QED
    BY <2>1, <2>2, <2>3 DEF BookInv, LogInStep
<1> QED
  BY <1>1, BookEstablished, BookKept, FaultEstablished, FaultKept, LayersEstablished, LayersHold,
     RunInvariant, PTL DEF Spec

-----------------------------------------------------------------------------
(* What the entries say.                                                   *)

\* The entries hold the setpoints of the results; the one of the timestep under
\* way holds those in force.
SetsMatch ==
    /\ \A i \in 1..Len(twins.log) : i <= Len(results) => twins.log[i].set = results[i].set
    /\ pc = "record" /\ out = "ok" /\ twins.open => twins.log[t].set = applied

LEMMA SetsEstablished == Init => SetsMatch
BY EmptyBook DEF Init, SetsMatch, Closed

LEMMA SetsStay ==
    ASSUME SetsMatch, UNCHANGED <<t, results, twins>>,
           pc' = "record" /\ out' = "ok" => pc = "record" /\ out = "ok" /\ applied' = applied
    PROVE  SetsMatch'
BY DEF SetsMatch

\* An empty book matches, whoever opened or closed it.
LEMMA EmptyMatches ==
    ASSUME twins' \in {Opened, Closed}, pc' = "record" /\ out' = "ok" => twins' = Closed
    PROVE  SetsMatch'
BY EmptyBook DEF SetsMatch, Opened, Closed

LEMMA HandleSets ==
    ASSUME IInv, FaultInv, LayerInv, BookInv, SetsMatch, Handle PROVE SetsMatch'
<1>1. /\ pc \in Request /\ Coordinated /\ Command \in CommandType /\ Command.op = pc
      /\ (pc = "record" => Command.t = t /\ Command.set = applied)
      /\ UNCHANGED <<pc, t, applied, results>> /\ out = "sent"
      /\ (~Servable(Command) => out' # "ok")
  BY CommandIsTyped DEF Handle, Command, FaultInv
<1>2. twins' = IF ~Servable(Command) THEN twins
               ELSE CASE pc = "start" -> Opened
                 [] pc = "record" -> [twins EXCEPT !.log = Append(@, [t |-> Command.t, set |-> Command.set])]
                 [] pc = "stopTwins" -> Closed
                 [] OTHER -> twins
  BY <1>1 DEF Handle, Serve
<1>3. Servable(Command) <=> (pc \in {"status", "record"} => twins.open)
  BY <1>1 DEF Servable
<1>4. CASE pc = "record" /\ twins.open
  <2>1. Len(twins.log) = t - 1 /\ Len(results) = t - 1 /\ t \in Nat
    BY <1>1, <1>4, ScheduleAssumption DEF BookInv, Written, InStep, LayerInv, IInv, TypeOK
  <2>2. twins' = [twins EXCEPT !.log = Append(@, [t |-> Command.t, set |-> Command.set])]
    BY <1>2, <1>3, <1>4
  <2>3. /\ Len(twins'.log) = t
        /\ \A i \in 1..(t - 1) : twins'.log[i] = twins.log[i]
        /\ twins'.log[t].set = Command.set
    BY <1>1, <1>4, <2>1, <2>2, EntryAppended DEF BookInv
  <2>4. ASSUME NEW i \in 1..t, i <= t - 1 PROVE twins'.log[i].set = results[i].set
    <3>1. i \in 1..(t - 1)
      BY <2>1, <2>4
    <3> QED
      BY <2>1, <2>3, <3>1 DEF SetsMatch
  <2> QED
    BY <1>1, <1>4, <2>1, <2>3, <2>4 DEF SetsMatch
<1>5. CASE pc = "record" /\ ~twins.open
  BY <1>1, <1>2, <1>3, <1>5, SetsStay
<1>6. CASE pc \in {"start", "stopTwins"}
  <2>1. twins' \in {Opened, Closed}
    BY <1>2, <1>3, <1>6
  <2> QED
    BY <1>1, <1>6, <2>1, EmptyMatches
<1>7. CASE pc \notin {"record", "start", "stopTwins"}
  <2>1. twins' = twins
    BY <1>2, <1>7
  <2> QED
    BY <1>1, <1>7, <2>1, SetsStay
<1> QED
  BY <1>4, <1>5, <1>6, <1>7

LEMMA LateSets ==
    ASSUME IInv, LayerInv, BookInv, SetsMatch, NEW c \in late, HandleLate(c)
    PROVE  SetsMatch'
<1>1. c \in CommandType /\ UNCHANGED <<pc, out, t, applied, results>>
  BY DEF HandleLate, runVars, IInv, TypeOK
<1>2. twins' = IF ~Servable(c) THEN twins
               ELSE CASE c.op = "start" -> Opened
                 [] c.op = "record" -> [twins EXCEPT !.log = Append(@, [t |-> c.t, set |-> c.set])]
                 [] c.op = "stopTwins" -> Closed
                 [] OTHER -> twins
  BY DEF HandleLate, Serve
<1>3. Servable(c) <=> (c.op \in {"status", "record"} => twins.open)
  BY DEF Servable
<1>4. CASE c.op = "record" /\ twins.open
  <2>1. /\ pc \in Stops /\ c.t = t /\ Len(twins.log) = t - 1 /\ Len(results) = t - 1 /\ t \in Nat
    BY <1>4, ScheduleAssumption DEF BookInv, LateInOrder, LayerInv, IInv, TypeOK
  <2>2. twins' = [twins EXCEPT !.log = Append(@, [t |-> c.t, set |-> c.set])]
    BY <1>2, <1>3, <1>4
  <2>3. Len(twins'.log) = t /\ \A i \in 1..(t - 1) : twins'.log[i] = twins.log[i]
    BY <1>1, <1>4, <2>1, <2>2, EntryAppended DEF BookInv
  <2>4. ASSUME NEW i \in 1..t, i <= t - 1 PROVE twins'.log[i].set = results[i].set
    <3>1. i \in 1..(t - 1)
      BY <2>1, <2>4
    <3> QED
      BY <2>1, <2>3, <3>1 DEF SetsMatch
  <2> QED
    BY <1>1, <2>1, <2>3, <2>4 DEF SetsMatch, Stops
<1>5. CASE c.op = "start"
  <2>1. pc = "ended" /\ twins' = Opened
    BY <1>2, <1>3, <1>5 DEF BookInv, LateInOrder
  <2> QED
    BY <1>1, <2>1, EmptyMatches
<1>6. CASE twins' = Closed
  BY <1>6, EmptyMatches
<1>7. CASE twins' = twins
  BY <1>1, <1>7, SetsStay
<1>8. CASE ~Servable(c)
  BY <1>2, <1>7, <1>8
<1>9. CASE Servable(c) /\ c.op \notin {"start", "record"}
  <2>1. twins' = Closed \/ twins' = twins
    BY <1>2, <1>9
  <2> QED
    BY <1>6, <1>7, <2>1
<1> QED
  BY <1>3, <1>4, <1>5, <1>8, <1>9

\* The results after a report: the timestep's joins the others.
LEMMA ResultsAfter ==
    ASSUME IInv, LayerInv, Report
    PROVE  /\ t \in Nat /\ Len(results) = t - 1 /\ Len(results') = t
           /\ \A i \in 1..(t - 1) : results'[i] = results[i]
           /\ results'[t].elem = elem /\ results'[t].set = applied
<1> DEFINE r == [converged |-> conv, physical |-> solved.ok, elem |-> elem, set |-> applied]
<1>1. results \in Seq(ResultType) /\ results' = Append(results, r) /\ t \in Nat
  BY ScheduleAssumption DEF IInv, TypeOK, Report
<1>2. Len(results) = t - 1
  BY DEF LayerInv
<1>3. r.elem = elem /\ r.set = applied
  OBVIOUS
<1> HIDE DEF r
<1> QED
  BY <1>1, <1>2, <1>3

LEMMA ReportSets ==
    ASSUME IInv, LayerInv, BookInv, SetsMatch, Report, pc = "record", out' = "none",
           (Coordinated /\ out = "ok") \/ ~Coordinated, UNCHANGED <<cfg, twins>>
    PROVE  SetsMatch'
<1>1. \/ twins.open /\ out = "ok" /\ Len(twins.log) = t
      \/ Len(twins.log) = 0
  BY EmptyBook DEF BookInv, Written, InStep
<1>2. ASSUME NEW i \in 1..Len(twins.log), i <= t PROVE twins.log[i].set = results'[i].set
  <2>1. twins.open /\ out = "ok" /\ Len(twins.log) = t /\ t \in Nat
    BY <1>1, <1>2, ResultsAfter
  <2>2. CASE i = t
    BY <2>1, <2>2, ResultsAfter DEF SetsMatch
  <2>3. CASE i # t
    <3>1. i \in 1..(t - 1)
      BY <2>1, <2>3
    <3> QED
      BY <2>1, <3>1, ResultsAfter DEF SetsMatch
  <2> QED
    BY <2>2, <2>3
<1> QED
  BY <1>2, ResultsAfter DEF SetsMatch

LEMMA SetsKept ==
    IInv /\ FaultInv /\ LayerInv /\ BookInv /\ SetsMatch /\ [Next]_vars => SetsMatch'
<1> SUFFICES ASSUME IInv, FaultInv, LayerInv, BookInv, SetsMatch, [Next]_vars
             PROVE  SetsMatch'
  OBVIOUS
<1>1. CASE Drive
  BY <1>1, SetsStay DEF Drive, peerVars, FaultInv, Request
<1>2. CASE Inverter
  BY <1>2, SetsStay DEF Inverter, peerVars, FaultInv, Request
<1>3. CASE Finish
  BY <1>3, ReportSets DEF Finish, peerVars
<1>4. CASE Send
  BY <1>4, SetsStay DEF Send, peerVars
<1>5. CASE Proceed
  BY <1>5, SetsStay DEF Proceed, peerVars
<1>6. CASE Apply
  BY <1>6, SetsStay DEF Apply, peerVars
<1>7. CASE Settle
  BY <1>7, SetsStay DEF Settle, peerVars
<1>8. CASE Recorded
  BY <1>8, ReportSets DEF Recorded, peerVars, FaultInv
<1>9. CASE GiveUp
  BY <1>9, SetsStay DEF GiveUp
<1>10. CASE SolverFails
  BY <1>10, SetsStay DEF SolverFails, peerVars
<1>11. CASE Handle
  BY <1>11, HandleSets
<1>12. CASE Restart
  <2>1. CASE twins' = Closed
    BY <2>1, EmptyMatches
  <2>2. CASE UNCHANGED twins
    BY <1>12, <2>2, SetsStay DEF Restart, runVars
  <2> QED
    BY <1>12, <2>1, <2>2 DEF Restart
<1>13. CASE \E c \in late : HandleLate(c)
  BY <1>13, LateSets
<1>14. CASE UNCHANGED vars
  BY <1>14, SetsStay DEF vars, runVars, peerVars
<1> QED
  BY <1>1, <1>2, <1>3, <1>4, <1>5, <1>6, <1>7, <1>8, <1>9, <1>10, <1>11, <1>12, <1>13, <1>14
     DEF Next, RunStep, Ended

-----------------------------------------------------------------------------
(* What the feeder ran.                                                    *)

Planned == cfg.doe # "auto" /\ ~cfg.vw

\* Site s ran its schedule of timestep i less setpoints a.
RanAs(s, i, ran, a) ==
    /\ ran.pv = Positive(Schedule[s][i].pv - a.pv)
    /\ ran.ev = Positive(Schedule[s][i].ev - a.ev)
    /\ ran.bess = Schedule[s][i].bess - a.chg + a.sup

RanInv ==
    /\ cfg.doe # "auto" /\ pc \in AfterDrive =>
          \A s \in Site : elem[s].bess = Now(s).bess - applied[s].chg + applied[s].sup
    /\ Planned => \A i \in 1..Len(results) : \A s \in Site :
          RanAs(s, i, results[i].elem[s], results[i].set[s])

LEMMA RanEstablished == Init => RanInv
BY EmptyBook DEF Init, RanInv, AfterDrive

LEMMA RanStays ==
    ASSUME RanInv, UNCHANGED <<cfg, t, applied, elem, results>>,
           pc' \in AfterDrive => pc \in AfterDrive
    PROVE  RanInv'
BY DEF RanInv, Planned, RanAs, Now

LEMMA DriveRan == ASSUME IInv, LayerInv, RanInv, Drive PROVE RanInv'
<1>1. t <= Steps /\ applied' = Unset /\ UNCHANGED <<cfg, t, results>>
  BY DEF IInv, CountersInOrder, InStep, LayerInv, Drive
<1>2. ASSUME cfg.doe # "auto", NEW s \in Site
      PROVE  elem'[s].bess = Now(s).bess - applied'[s].chg + applied'[s].sup
  <2>1. elem'[s].bess = Now(s).bess
    BY <1>2 DEF Drive, SolveWith, Driven
  <2>2. Now(s).bess \in Int
    BY <1>1, NowType DEF IInv
  <2>3. applied'[s].chg = 0 /\ applied'[s].sup = 0
    BY <1>1 DEF Unset, NoSetpoint
  <2> QED
    BY <2>1, <2>2, <2>3
<1> QED
  BY <1>1, <1>2 DEF RanInv, Planned, RanAs, Now

LEMMA InverterRan == ASSUME IInv, RanInv, Inverter PROVE RanInv'
<1>1. UNCHANGED <<cfg, t, applied, results>> /\ pc \in AfterDrive
  BY DEF Inverter, AfterDrive
<1>2. ASSUME NEW s \in Site PROVE elem'[s].bess = elem[s].bess
  <2>1. elem[s] \in Element
    BY DEF IInv, TypeOK
  <2>2. elem'[s] = IF s \in Inverters
          THEN [elem[s] EXCEPT
                  !.q  = IF cfg.vv THEN VoltVarKvar(solved.volts[s], Capacity[s].rating) ELSE @,
                  !.pv = IF cfg.vw THEN Reduced(Driven(s).pv, VoltWattFactor(solved.volts[s])) ELSE @]
          ELSE elem[s]
    BY DEF Inverter, SolveWith
  <2>3. CASE s \in Inverters
    BY <2>1, <2>2, <2>3 DEF Element
  <2>4. CASE s \notin Inverters
    BY <2>2, <2>4
  <2> QED
    BY <2>3, <2>4
<1> QED
  BY <1>1, <1>2 DEF RanInv, Planned, RanAs, Now

LEMMA ApplyRan == ASSUME IInv, RanInv, Apply PROVE RanInv'
<1>1. t <= Steps /\ pc = "control" /\ applied' = Settled /\ UNCHANGED <<cfg, t, results>>
  BY DEF IInv, CountersInOrder, InStep, Apply
<1>2. ASSUME cfg.doe # "auto", NEW s \in Site
      PROVE  elem'[s].bess = Now(s).bess - Settled[s].chg + Settled[s].sup
  <2>1. elem'[s].bess = IF Settled[s].chg > 0 \/ Settled[s].sup > 0
                          THEN Now(s).bess - Settled[s].chg + Settled[s].sup
                          ELSE elem[s].bess
    BY DEF Apply, SolveWith, Commanded
  <2>2. elem[s].bess = Now(s).bess - applied[s].chg + applied[s].sup
    BY <1>1, <1>2 DEF RanInv, AfterDrive
  <2>3. /\ applied[s] \in Setpoint /\ Settled[s] \in Setpoint
        /\ applied[s].chg <= Settled[s].chg /\ applied[s].sup <= Settled[s].sup
    <3>1. Settled[s] = IF Qualifies(s) THEN Accumulate(applied[s], Answer(s)) ELSE applied[s]
      BY DEF Settled
    <3>2. Answer(s) \in [pv : Nat, ev : Nat, chg : Nat, sup : Nat, q : Int]
      <4>1. IsReading(Readings(s)) /\ Readings(s).rating \in Nat
        BY <1>1, ReadingsType DEF IInv
      <4> QED
        BY <4>1, ControlType DEF Answer
    <3>3. applied[s] \in Setpoint /\ Settled[s] \in Setpoint
      BY <1>1, SettledGrows
    <3> QED
      BY <3>1, <3>2, <3>3 DEF Accumulate, Setpoint, Greater
  <2>4. ~(Settled[s].chg > 0 \/ Settled[s].sup > 0) =>
           Settled[s].chg = applied[s].chg /\ Settled[s].sup = applied[s].sup
    BY <2>3 DEF Setpoint
  <2> QED
    BY <2>1, <2>2, <2>4
<1> QED
  BY <1>1, <1>2 DEF RanInv, Planned, RanAs, Now

LEMMA ReportRan ==
    ASSUME IInv, LayerInv, RanInv, Report, pc = "record", UNCHANGED cfg PROVE RanInv'
<1>1. ASSUME Planned, NEW s \in Site PROVE RanAs(s, t, elem[s], applied[s])
  BY <1>1 DEF RanInv, LayerInv, LoweredTo, RanAs, Planned, Driven, Now, AfterDrive
<1>2. ASSUME Planned, NEW i \in 1..t, NEW s \in Site
      PROVE  RanAs(s, i, results'[i].elem[s], results'[i].set[s])
  <2>1. CASE i = t
    BY <1>1, <1>2, <2>1, ResultsAfter
  <2>2. CASE i # t
    <3>1. i \in 1..(t - 1)
      BY <2>2, ResultsAfter
    <3> QED
      BY <1>2, <3>1, ResultsAfter DEF RanInv
  <2> QED
    BY <2>1, <2>2
<1>3. pc' \notin AfterDrive
  BY DEF Report, Closing, AfterDrive
<1> QED
  BY <1>2, <1>3, ResultsAfter DEF RanInv, Planned, RanAs

LEMMA RanKept == IInv /\ LayerInv /\ RanInv /\ [Next]_vars => RanInv'
<1> SUFFICES ASSUME IInv, LayerInv, RanInv, [Next]_vars
             PROVE  RanInv'
  OBVIOUS
<1> USE DEF AfterDrive
<1>1. CASE Drive
  BY <1>1, DriveRan
<1>2. CASE Inverter
  BY <1>2, InverterRan
<1>3. CASE Finish
  BY <1>3, ReportRan DEF Finish
<1>4. CASE Send
  BY <1>4, RanStays DEF Send, solverVars
<1>5. CASE Proceed
  BY <1>5, RanStays DEF Proceed, AfterStop, solverVars, IInv, CountersInOrder, Request
<1>6. CASE Apply
  BY <1>6, ApplyRan
<1>7. CASE Settle
  BY <1>7, RanStays DEF Settle, solverVars
<1>8. CASE Recorded
  BY <1>8, ReportRan DEF Recorded
<1>9. CASE GiveUp
  BY <1>9, RanStays DEF GiveUp, AfterStop, Raise, Closing, solverVars
<1>10. CASE SolverFails
  BY <1>10, RanStays DEF SolverFails, Raise, Closing, solverVars
<1>11. CASE Handle
  BY <1>11, RanStays DEF Handle, solverVars
<1>12. CASE Restart
  BY <1>12, RanStays DEF Restart, runVars, solverVars
<1>13. CASE \E c \in late : HandleLate(c)
  BY <1>13, RanStays DEF HandleLate, runVars, solverVars
<1>14. CASE UNCHANGED vars
  BY <1>14, RanStays DEF vars, runVars, solverVars
<1> QED
  BY <1>1, <1>2, <1>3, <1>4, <1>5, <1>6, <1>7, <1>8, <1>9, <1>10, <1>11, <1>12, <1>13,
     <1>14 DEF Next, RunStep, Ended

(* What the twins recorded of a timestep is what the feeder ran, even of    *)
(* the timestep a run failed in and of records that were handled late.     *)
THEOREM BookTellsWhatRan == Spec => []TwinsRecordWhatRan
<1>1. SetsMatch /\ RanInv => TwinsRecordWhatRan
  <2> SUFFICES ASSUME SetsMatch, RanInv, Planned,
                      NEW i \in 1..Lesser(Len(twins.log), Len(results)), NEW s \in Site
               PROVE  RanAs(s, i, results[i].elem[s], twins.log[i].set[s])
    BY DEF TwinsRecordWhatRan, Planned, RanAs
  <2>1. i \in 1..Len(twins.log) /\ i \in 1..Len(results) /\ i <= Len(results)
    BY DEF Lesser
  <2> QED
    BY <2>1 DEF SetsMatch, RanInv
<1> QED
  BY <1>1, SetsEstablished, SetsKept, RanEstablished, RanKept, BookEstablished, BookKept,
     FaultEstablished, FaultKept, LayersEstablished, LayersHold, RunInvariant, PTL DEF Spec

=============================================================================
