----------------------- MODULE LoadGeneration_proofs -----------------------
(***************************************************************************)
(* The load engine for any requests, devices, profiles and interleavings:  *)
(* its files, the energy of its batteries, what its devices draw and what  *)
(* a horizon and its summary add up to.                                    *)
(***************************************************************************)
EXTENDS LoadGeneration, DataInduction

-----------------------------------------------------------------------------
(* The profile store.                                                      *)

IsSave(w) == w.busy => w.name \in Names /\ w.up \in Uploads

\* A file that an undisturbed writer holds open has that writer alone and is
\* empty, so what it writes is complete.
StoreInv ==
    /\ DOMAIN file = Names
    /\ DOMAIN writing = Uploaders
    /\ \A u \in Uploaders : IsSave(writing[u])
    /\ \A n \in Names \ disturbed : \A u \in WritersOf(n) :
          WritersOf(n) = {u} /\ file[n] = Truncated
    /\ CompleteUnlessDisturbed

LEMMA StoreEstablished == StoreInit => StoreInv
BY DEF StoreInit, StoreInv, IsSave, Nobody, NoFile, WritersOf, CompleteUnlessDisturbed

\* Opening truncates: a first writer starts on an empty file, a second one
\* marks the name.
LEMMA OpenKeepsStore ==
    ASSUME StoreInv, NEW u \in Uploaders, NEW n \in Names, NEW up \in Uploads, OpenFile(u, n, up)
    PROVE  StoreInv'
<1>1. DOMAIN file' = Names /\ DOMAIN writing' = Uploaders
  BY DEF StoreInv, OpenFile
<1>2. /\ writing'[u] = [busy |-> TRUE, name |-> n, up |-> up]
      /\ \A v \in Uploaders \ {u} : writing'[v] = writing[v]
      /\ file'[n] = Truncated
      /\ \A k \in Names \ {n} : file'[k] = file[k]
  BY DEF StoreInv, OpenFile
<1>3. \A v \in Uploaders : IsSave(writing'[v])
  BY <1>2 DEF StoreInv, IsSave
<1>4. WritersOf(n)' = WritersOf(n) \union {u}
  BY <1>2, ~writing[u].busy DEF WritersOf, OpenFile
<1>5. \A k \in Names \ {n} : WritersOf(k)' = WritersOf(k)
  BY <1>2, ~writing[u].busy DEF WritersOf, OpenFile
<1>6. ASSUME NEW k \in Names \ disturbed', NEW v \in WritersOf(k)'
      PROVE  WritersOf(k)' = {v} /\ file'[k] = Truncated
  <2>1. CASE k = n
    BY <2>1, <1>2, <1>4, <1>6 DEF OpenFile
  <2>2. CASE k # n
    <3>1. k \notin disturbed
      BY <2>2, <1>6 DEF OpenFile
    <3>. QED  BY <3>1, <2>2, <1>2, <1>5, <1>6 DEF StoreInv
  <2>. QED  BY <2>1, <2>2
<1>7. ASSUME NEW k \in Names \ disturbed', file'[k].there, WritersOf(k)' = {}
      PROVE  file'[k].whole
  <2>1. k # n
    BY <1>4, <1>7
  <2>2. k \notin disturbed
    BY <2>1, <1>7 DEF OpenFile
  <2>. QED  BY <2>1, <2>2, <1>2, <1>5, <1>7 DEF StoreInv, CompleteUnlessDisturbed
<1>. QED  BY <1>1, <1>3, <1>6, <1>7 DEF StoreInv, IsSave, CompleteUnlessDisturbed

\* Closing writes the whole content, and over an empty file that is all of it.
LEMMA CloseKeepsStore ==
    ASSUME StoreInv, NEW u \in Uploaders, CloseFile(u)
    PROVE  StoreInv'
<1> DEFINE n == writing[u].name
           up == writing[u].up
<1>1. writing[u].busy /\ n \in Names /\ up \in Uploads
  BY DEF StoreInv, IsSave, CloseFile
<1>2. DOMAIN file' = Names /\ DOMAIN writing' = Uploaders
  BY DEF StoreInv, CloseFile
<1>3. /\ ~writing'[u].busy
      /\ \A v \in Uploaders \ {u} : writing'[v] = writing[v]
      /\ file'[n] = Overlay(file[n], up)
      /\ \A k \in Names \ {n} : file'[k] = file[k]
      /\ disturbed' = disturbed
  BY <1>1 DEF StoreInv, CloseFile, Nobody
<1>4. \A v \in Uploaders : IsSave(writing'[v])
  BY <1>3 DEF StoreInv, IsSave
<1>5. \A k \in Names : WritersOf(k)' = WritersOf(k) \ {u}
  BY <1>3 DEF WritersOf
<1>6. u \in WritersOf(n)
  BY <1>1 DEF WritersOf
<1>7. \A k \in Names \ {n} : u \notin WritersOf(k)
  BY DEF WritersOf
<1>8. ASSUME NEW k \in Names \ disturbed', NEW v \in WritersOf(k)'
      PROVE  WritersOf(k)' = {v} /\ file'[k] = Truncated
  <2>1. k \notin disturbed /\ v \in WritersOf(k) /\ v # u
    BY <1>3, <1>5, <1>8
  <2>2. WritersOf(k) = {v} /\ file[k] = Truncated
    BY <2>1 DEF StoreInv
  <2>3. k # n
    BY <2>1, <2>2, <1>6
  <2>. QED  BY <2>1, <2>2, <2>3, <1>3, <1>5
<1>9. ASSUME NEW k \in Names \ disturbed', file'[k].there, WritersOf(k)' = {}
      PROVE  file'[k].whole
  <2>1. k \notin disturbed
    BY <1>3, <1>9
  <2>2. CASE k = n
    <3>1. file[k] = Truncated
      BY <2>1, <2>2, <1>6 DEF StoreInv
    <3>2. file[k].length = 0
      BY <3>1 DEF Truncated, NoFile
    <3>3. up.values \in Seq(Int)
      BY <1>1, StoreAssumption
    <3>4. Len(up.values) \in Nat
      BY <3>3
    <3>5. Overlay(file[n], up).whole = (Len(up.values) >= file[n].length)
      BY DEF Overlay
    <3>6. Len(up.values) >= file[n].length
      BY <2>2, <3>2, <3>4
    <3>. QED  BY <2>2, <3>5, <3>6, <1>3
  <2>3. CASE k # n
    <3>1. WritersOf(k) = {}
      BY <2>3, <1>5, <1>7, <1>9
    <3>. QED  BY <3>1, <2>1, <2>3, <1>3, <1>9 DEF StoreInv, CompleteUnlessDisturbed
  <2>. QED  BY <2>2, <2>3
<1>. QED  BY <1>2, <1>4, <1>8, <1>9 DEF StoreInv, IsSave, CompleteUnlessDisturbed

\* A deleted file is gone, and nobody was writing it.
LEMMA DeleteKeepsStore ==
    ASSUME StoreInv, NEW n \in Names, Delete(n)
    PROVE  StoreInv'
<1>1. /\ DOMAIN file' = Names
      /\ ~file'[n].there
      /\ \A k \in Names \ {n} : file'[k] = file[k]
  BY DEF StoreInv, Delete, NoFile
<1>2. /\ writing' = writing
      /\ \A k \in Names : WritersOf(k)' = WritersOf(k)
      /\ WritersOf(n) = {}
      /\ \A k \in Names \ {n} : k \notin disturbed' => k \notin disturbed
  BY DEF Delete, WritersOf
<1>3. \A k \in Names \ disturbed' : \A v \in WritersOf(k)' :
         WritersOf(k)' = {v} /\ file'[k] = Truncated
  BY <1>1, <1>2 DEF StoreInv
<1>4. \A k \in Names \ disturbed' : file'[k].there /\ WritersOf(k)' = {} => file'[k].whole
  BY <1>1, <1>2 DEF StoreInv, CompleteUnlessDisturbed
<1>. QED  BY <1>1, <1>2, <1>3, <1>4 DEF StoreInv, IsSave, CompleteUnlessDisturbed

\* A restart cuts every open save, and marks its name.
LEMMA RestartKeepsStore == StoreInv /\ StoreRestart => StoreInv'
<1> SUFFICES ASSUME StoreInv, StoreRestart PROVE StoreInv'
  OBVIOUS
<1>1. /\ file' = file /\ DOMAIN writing' = Uploaders
      /\ \A u \in Uploaders : ~writing'[u].busy
      /\ \A k \in Names : WritersOf(k)' = {}
      /\ \A k \in Names \ disturbed' : k \notin disturbed /\ WritersOf(k) = {}
  BY DEF StoreRestart, WritersOf, Nobody
<1>2. \A k \in Names \ disturbed' : file'[k].there => file'[k].whole
  BY <1>1 DEF StoreInv, CompleteUnlessDisturbed
<1>. QED  BY <1>1, <1>2 DEF StoreInv, IsSave, CompleteUnlessDisturbed

\* Generating profiles reads the store and never writes it.
LEMMA GenerateLeavesStore == Generate => UNCHANGED storeVars
BY DEF Generate, Receive, Skip, LoadPlugin, PvPlugin, EvPlugin, ExtraPlugin, BatteryPlugin,
       BatteryStep, EndOfDay, EndOfBus, PluginFails, Reply, Ran, Fail, Turn

LEMMA StoreKept == StoreInv /\ [Next]_vars => StoreInv'
<1> SUFFICES ASSUME StoreInv, [Next]_vars PROVE StoreInv'
  OBVIOUS
<1>1. CASE UNCHANGED storeVars
  BY <1>1 DEF storeVars, StoreInv, IsSave, WritersOf, CompleteUnlessDisturbed
<1>2. CASE Generate
  BY <1>1, <1>2, GenerateLeavesStore
<1>3. CASE StoreNext
  BY <1>3, OpenKeepsStore, CloseKeepsStore, DeleteKeepsStore DEF StoreNext
<1>4. CASE Restart
  BY <1>4, RestartKeepsStore DEF Restart
<1>5. CASE UNCHANGED vars
  BY <1>1, <1>5 DEF vars
<1>. QED  BY <1>2, <1>3, <1>4, <1>5 DEF Next

(* A profile file nobody is writing is complete unless two saves of its    *)
(* name overlapped or a restart cut one short, however many writers there  *)
(* are and whatever they upload: custom.py truncates before it writes.     *)
THEOREM ProfilesAreComplete == Spec => []CompleteUnlessDisturbed
<1>1. Init => StoreInv
  BY StoreEstablished DEF Init
<1>2. StoreInv => CompleteUnlessDisturbed
  BY DEF StoreInv
<1>. QED  BY <1>1, <1>2, StoreKept, PTL DEF Spec

-----------------------------------------------------------------------------
(* The shapes the store gives.                                             *)

\* A daily shape in per-unit of its peak.
IsShape(v) == Len(v) \in Nat \ {0} /\ DOMAIN v = 1..Len(v) /\ \A i \in DOMAIN v : v[i] \in 0..100
FilesInv ==
    /\ \A n \in Names : file[n].whole => file[n].there /\ file[n].kind \in Kinds /\ IsShape(file[n].values)
    /\ \A u \in Uploaders : writing[u].busy => Valid(writing[u].up)
    /\ disturbed \subseteq Names

LEMMA NormalisedIsShape ==
    ASSUME NEW up \in Uploads, Valid(up)
    PROVE  IsShape(Normalised(up.values))
<1> DEFINE v == up.values
           all == {v[i] : i \in DOMAIN v}
           peak == Max(all)
<1>1. v \in Seq(Int)
  BY StoreAssumption
<1>2. DOMAIN v = 1..Len(v) /\ Len(v) \in Nat /\ Len(v) >= 2 /\ \A i \in DOMAIN v : v[i] \in Nat
  BY <1>1 DEF Valid
<1>3. IsFiniteSet(1..Len(v))
  BY <1>2, FS_Interval
<1>4. IsFiniteSet(all)
  <2>. HIDE DEF v
  <2>1. IsFiniteSet(DOMAIN v)
    BY <1>2, <1>3
  <2>. QED  BY <2>1, ImageIsFinite
<1>5. all \in SUBSET Int /\ all # {}
  <2>. HIDE DEF v
  <2>1. 1 \in DOMAIN v
    BY <1>2
  <2>. QED  BY <1>2, <2>1
<1>6. peak \in all /\ \A y \in all : y <= peak
  <2>. HIDE DEF all
  <2>. QED  BY <1>4, <1>5, GreatestExists
<1>7. PICK k \in DOMAIN v : v[k] > 0
  BY DEF Valid
<1>8. peak \in Nat \ {0}
  <2>1. v[k] <= peak /\ v[k] \in Nat
    BY <1>2, <1>6, <1>7
  <2>2. peak \in Int
    BY <1>5, <1>6
  <2>. HIDE DEF peak, v
  <2>. QED  BY <2>1, <2>2, <1>7
<1>9. ASSUME NEW i \in DOMAIN v PROVE (100 * v[i]) \div peak \in 0..100
  <2>1. v[i] \in Nat /\ v[i] <= peak
    BY <1>2, <1>6
  <2>. DEFINE x == 100 * v[i]
  <2>2. 0 * peak <= x /\ x <= 100 * peak /\ x \in Int
    <3>. HIDE DEF v, peak
    <3>. QED  BY <2>1, <1>8
  <2>. HIDE DEF v, peak, x
  <2>3. x \div peak \in 0..100
    BY <2>2, <1>8, ShareBetween
  <2>. QED  BY <2>3 DEF x
<1>10. Normalised(v) = [i \in 1..Len(v) |-> (100 * v[i]) \div peak]
  BY <1>2 DEF Normalised
<1>. DEFINE n == Len(v)
            w == [i \in 1..n |-> (100 * v[i]) \div peak]
<1>11. \A i \in 1..n : w[i] \in 0..100
  BY <1>2, <1>9
<1>12. n \in Nat \ {0} /\ Normalised(v) = w /\ w = [i \in 1..n |-> w[i]]
  BY <1>2, <1>10
<1>. HIDE DEF n, w, peak, all
<1>15. w \in [1..n -> 0..100]
  BY <1>11, <1>12
<1>13. w \in Seq(0..100) /\ Len(w) = n
  BY <1>12, <1>15, ListsAreSequences
<1>14. IsShape(w)
  BY <1>11, <1>12, <1>13 DEF IsShape
<1>. QED  BY <1>12, <1>14

LEMMA ResampledInRange ==
    ASSUME NEW v, IsShape(v), NEW i \in DaySteps
    PROVE  Resampled(v, Steps)[i] \in 0..100
<1> DEFINE n == Len(v)
           x == (i - 1) * n
           j == x \div Steps
           rest == x % Steps
           next == ((j + 1) % n) + 1
<1>1. Steps \in Nat \ {0} /\ n \in Nat \ {0} /\ i \in 1..Steps
  BY DayAssumption DEF IsShape, DaySteps
<1>2. x \in Nat /\ x <= (Steps - 1) * n
  <2>. HIDE DEF n
  <2>1. i - 1 \in Nat /\ i - 1 <= Steps - 1
    BY <1>1
  <2>2. (i - 1) * n <= (Steps - 1) * n /\ (i - 1) * n \in Nat
    BY <2>1, <1>1
  <2>. QED  BY <2>2
<1>3. j \in Int /\ rest \in 0..(Steps - 1) /\ x = Steps * j + rest
  <2>. HIDE DEF x
  <2>. QED  BY <1>1, <1>2
<1>4. j + 1 \in 1..n
  <2>. HIDE DEF j, rest, x, n
  <2>1. 0 <= j
    <3>. SUFFICES ASSUME j <= -1 PROVE FALSE
      BY <1>3
    <3>1. Steps * j <= Steps * (-1)
      BY <1>1, <1>3
    <3>. QED  BY <1>1, <1>2, <1>3, <3>1
  <2>2. j < n
    <3>. SUFFICES ASSUME n <= j PROVE FALSE
      BY <1>1, <1>3
    <3>1. Steps * n <= Steps * j
      BY <1>1, <1>3
    <3>2. (Steps - 1) * n = Steps * n - n
      BY <1>1
    <3>. QED  BY <1>1, <1>2, <1>3, <3>1, <3>2
  <2>. QED  BY <2>1, <2>2, <1>1, <1>3
<1>5. next \in 1..n
  <2>. HIDE DEF j, n
  <2>. QED  BY <1>1, <1>4
<1>. DEFINE a == v[j + 1]
            b == v[next]
<1>6. a \in 0..100 /\ b \in 0..100
  BY <1>4, <1>5 DEF IsShape
<1>7. Resampled(v, Steps)[i] = (a * (Steps - rest) + b * rest) \div Steps
  BY <1>1 DEF Resampled
<1>. HIDE DEF a, b, rest, next, j, x
<1> DEFINE left == Steps - rest
<1>8. left \in Nat /\ rest \in Nat /\ left + rest = Steps
  BY <1>1, <1>3
<1>. HIDE DEF left
<1>9. /\ 0 <= a * left /\ a * left <= 100 * left /\ a * left \in Int
      /\ 0 <= b * rest /\ b * rest <= 100 * rest /\ b * rest \in Int
  BY <1>6, <1>8
<1> DEFINE y == a * left + b * rest
<1>10. 0 * Steps <= y /\ y <= 100 * Steps /\ y \in Int
  BY SMTT(30), <1>1, <1>8, <1>9
<1>. HIDE DEF y
<1>11. y \div Steps \in 0..100
  BY <1>1, <1>10, ShareBetween
<1>. QED  BY <1>7, <1>11 DEF left, y

LEMMA ShapeInRange ==
    ASSUME FilesInv, NEW n \in Listed
    PROVE  /\ Shape(n, Steps) \in [DaySteps -> 0..100]
           /\ \A i \in DaySteps : Shape(n, Steps)[i] = Resampled(file[n].values, Steps)[i]
<1> DEFINE v == file[n].values
<1>1. IsShape(v)
  BY DEF FilesInv, Listed
<1>. HIDE DEF v
<1>2. \A i \in DaySteps : Resampled(v, Steps)[i] \in 0..100
  BY <1>1, ResampledInRange
<1>3. Shape(n, Steps) = [i \in DaySteps |-> WithinUnit(Resampled(v, Steps)[i])]
  BY DEF Shape, DaySteps, v
<1>4. \A x \in 0..100 : WithinUnit(x) = x
  BY DEF WithinUnit
<1>. QED  BY <1>2, <1>3, <1>4 DEF v

-----------------------------------------------------------------------------
(* The battery.                                                            *)

IsBattery(b) == b.capacity \in Nat /\ b.charge \in Nat /\ b.discharge \in Nat
InRange(b, e) == Floor(b) <= e /\ e <= Ceiling(b)

LEMMA RangeIsProper ==
    ASSUME NEW c \in Nat
    PROVE  MinSoc * c \in Int /\ MaxSoc * c \in Int /\ MinSoc * c <= MaxSoc * c
<1>1. MinSoc \in Nat /\ MaxSoc \in Nat /\ MinSoc <= MaxSoc
  BY BatteryAssumption
<1>. QED  BY <1>1

LEMMA ClipStaysBetween ==
    ASSUME NEW x \in Int, NEW lo \in Int, NEW hi \in Int, lo <= hi
    PROVE  Clip(x, lo, hi) \in lo..hi
BY DEF Clip, Smaller, Bigger

\* Whatever a step moves, the stored energy ends in the usable range.
LEMMA StoredInRange ==
    ASSUME NEW b, b.capacity \in Nat, NEW e \in Int, NEW power \in Int
    PROVE  Stored(b, e, power) \in Int /\ InRange(b, Stored(b, e, power))
<1>1. OneWay \in Nat \ {0}
  BY BatteryAssumption
<1>2. (power * 10000) \div OneWay \in Int
  BY <1>1, QuotientIsInteger
<1>3. power * OneWay \in Int
  BY <1>1
<1>4. Floor(b) \in Int /\ Ceiling(b) \in Int /\ Floor(b) <= Ceiling(b)
  BY RangeIsProper DEF Floor, Ceiling
<1> DEFINE raw == IF power > 0 THEN e - (power * 10000) \div OneWay ELSE e - power * OneWay
<1>5. raw \in Int
  BY <1>2, <1>3
<1>6. Stored(b, e, power) = Clip(raw, Floor(b), Ceiling(b))
  BY DEF Stored
<1>. HIDE DEF raw
<1>. QED  BY <1>4, <1>5, <1>6, ClipStaysBetween DEF InRange

LEMMA AvailableIsBounded ==
    ASSUME NEW b, IsBattery(b), NEW e \in Int
    PROVE  /\ AvailableCharge(b, e) \in 0..b.charge
           /\ AvailableDischarge(b, e) \in 0..b.discharge
<1>1. Floor(b) \in Int /\ Ceiling(b) \in Int
  BY RangeIsProper DEF Floor, Ceiling, IsBattery
<1>2. (Ceiling(b) - e) \div 100 \in Int /\ (e - Floor(b)) \div 100 \in Int
  BY <1>1
<1>. QED  BY <1>2 DEF AvailableCharge, AvailableDischarge, IsBattery, Smaller, Bigger, NonNegative

(* Whatever is asked of a battery, in whatever state, it answers within    *)
(* its ratings, in the direction asked and never with more than was asked  *)
(* (bess_model.py, step).                                                  *)
THEOREM DeliveryIsBounded ==
    ASSUME NEW b, IsBattery(b), NEW e \in Int, NEW asked \in Int
    PROVE  LET power == Delivered(b, e, asked)
           IN /\ -b.charge <= power /\ power <= b.discharge
              /\ asked >= 0 => 0 <= power /\ power <= asked
              /\ asked <= 0 => asked <= power /\ power <= 0
<1>1. /\ AvailableCharge(b, e) \in 0..b.charge
      /\ AvailableDischarge(b, e) \in 0..b.discharge
  BY AvailableIsBounded
<1>. QED  BY <1>1 DEF Delivered, Smaller, Bigger, IsBattery

(* A charge never reaches the limit of the range from below: what the     *)
(* battery accepts fits above what it holds, losses included, so clipping  *)
(* takes nothing from it.  (A discharge near the floor does reach it.)     *)
THEOREM ChargeIsStoredWhole ==
    ASSUME NEW b, IsBattery(b), NEW e \in Int, InRange(b, e), NEW asked \in Int, asked <= 0
    PROVE  LET power == Delivered(b, e, asked)
           IN Stored(b, e, power) = e - power * OneWay
<1> DEFINE power == Delivered(b, e, asked)
           room == (Ceiling(b) - e) \div 100
<1>1. OneWay \in 1..100
  BY BatteryAssumption
<1>2. Floor(b) \in Int /\ Ceiling(b) \in Int /\ Floor(b) <= Ceiling(b)
  BY RangeIsProper DEF Floor, Ceiling, IsBattery
<1>3. room \in Nat /\ 100 * room <= Ceiling(b) - e
  BY <1>2 DEF InRange
<1>4. AvailableCharge(b, e) \in Nat /\ AvailableCharge(b, e) <= room
  BY <1>3, AvailableIsBounded DEF AvailableCharge, Smaller, Bigger, NonNegative, IsBattery
<1>5. power \in Int /\ power <= 0 /\ -power <= room
  <2>. HIDE DEF room
  <2>. QED  BY <1>3, <1>4 DEF Delivered, Bigger
<1>. HIDE DEF power, room
<1>6. \E p \in Nat : p = -power /\ p <= room
  BY <1>3, <1>5
<1>7. PICK p \in Nat : p = -power /\ p <= room
  BY <1>6
<1>8. p * OneWay <= p * 100 /\ p * OneWay \in Nat
  BY <1>1
<1>9. e - power * OneWay = e + p * OneWay
  BY <1>1, <1>5, <1>7
<1>10. e + p * OneWay <= Ceiling(b) /\ Floor(b) <= e + p * OneWay
  BY <1>2, <1>3, <1>7, <1>8 DEF InRange
<1>11. Stored(b, e, power) = Clip(e - power * OneWay, Floor(b), Ceiling(b))
  BY <1>5 DEF Stored
<1>12. Stored(b, e, power) = e - power * OneWay
  BY <1>2, <1>8, <1>9, <1>10, <1>11 DEF Clip, Smaller, Bigger
<1>. QED  BY <1>12 DEF power

(* A dispatched timestep keeps the stored energy in the range of the       *)
(* battery as it is that day, whatever the strategy asks for.              *)
THEOREM StepKeepsEnergy ==
    ASSUME BatteryStep, BatteryNow.capacity \in Nat, energy \in Int,
           Delivered(BatteryNow, energy, Requested) \in Int
    PROVE  EnergyInRange'
<1> DEFINE power == Delivered(BatteryNow, energy, Requested)
<1>1. energy' = Stored(BatteryNow, energy, power)
  BY DEF BatteryStep
<1>2. BatteryNow' = BatteryNow
  BY DEF BatteryStep, BatteryNow, Bus, BatteryOf, Nameplate, Rated
<1>. HIDE DEF power
<1>3. InRange(BatteryNow, energy')
  BY <1>1, StoredInRange DEF power
<1>4. Floor(BatteryNow) <= energy' /\ energy' <= Ceiling(BatteryNow)
  BY <1>3 DEF InRange
<1>5. Floor(BatteryNow') = Floor(BatteryNow) /\ Ceiling(BatteryNow') = Ceiling(BatteryNow)
  BY <1>2
<1>. QED  BY <1>4, <1>5 DEF EnergyInRange

(* A night that ages the battery keeps its energy in the range of the      *)
(* smaller battery it has become: the charge is carried over as a fraction *)
(* of the capacity and not in kWh (generator.py, bess_model.py).           *)
THEOREM NightKeepsEnergy ==
    ASSUME EndOfDay, EnergyInRange, energy \in Int, Nameplate(Bus) \in Nat, soh' \in Nat,
           BatteryNow.capacity \in Nat \ {0}
    PROVE  EnergyInRange'
<1> DEFINE from == BatteryNow.capacity
           to == Aged(Nameplate(Bus), soh')
<1>1. Bus' = Bus /\ Nameplate(Bus)' = Nameplate(Bus)
  BY DEF EndOfDay, Bus, Nameplate
<1>2. BatteryNow'.capacity = to
  BY <1>1 DEF BatteryNow, BatteryOf
<1>3. Nameplate(Bus) * soh' \in Nat
  OBVIOUS
<1>4. to \in Nat
  BY <1>3 DEF Aged
<1>5. energy' = IF to = 0 THEN 0 ELSE Rescaled(energy, from, to)
  BY DEF EndOfDay
<1>6. SUFFICES ASSUME Bus.bess = "named"
               PROVE  MinSoc * to <= energy' /\ energy' <= MaxSoc * to
  BY <1>1, <1>2 DEF EnergyInRange, Floor, Ceiling
<1>7. from \in Nat \ {0} /\ MinSoc \in Nat /\ MaxSoc \in Nat
  BY BatteryAssumption
<1>8. MinSoc * from <= energy /\ energy <= MaxSoc * from
  BY <1>6 DEF EnergyInRange, EndOfDay, Floor, Ceiling
<1>. HIDE DEF from, to
<1>9. CASE to = 0
  BY <1>5, <1>7, <1>9
<1>10. CASE to # 0
  <2>1. energy' = (energy * to) \div from
    BY <1>5, <1>10 DEF Rescaled
  <2>2. (MinSoc * from) * to <= energy * to /\ energy * to <= (MaxSoc * from) * to
    BY <1>4, <1>7, <1>8
  <2>3. /\ (MinSoc * from) * to = (MinSoc * to) * from
        /\ (MaxSoc * from) * to = (MaxSoc * to) * from
    BY <1>4, <1>7
  <2>4. energy * to \in Int /\ MinSoc * to \in Int /\ MaxSoc * to \in Int
    BY <1>4, <1>7
  <2>. QED  BY <2>1, <2>2, <2>3, <2>4, <1>7, QuotientBetween
<1>. QED  BY <1>9, <1>10

-----------------------------------------------------------------------------
(* The buses a command is served with.                                     *)

LEMMA InOrderIsBijection ==
    ASSUME NEW S, IsFiniteSet(S), S \subseteq Int
    PROVE  InOrder(S) \in Bijection(1..Cardinality(S), S)
<1> DEFINE n == Cardinality(S)
           seq == InOrder(S)
<1>1. \E s \in [1..n -> S] : \A i, j \in DOMAIN s : i < j => s[i] < s[j]
  BY OrderExists DEF Increasing
<1>2. seq \in [1..n -> S] /\ \A i, j \in DOMAIN seq : i < j => seq[i] < seq[j]
  BY <1>1 DEF InOrder
<1>3. n \in Nat /\ IsFiniteSet(1..n) /\ Cardinality(1..n) = n
  BY FS_CardinalityType, FS_Interval
<1>. HIDE DEF seq, n
<1>4. seq \in Injection(1..n, S)
  <2>1. ASSUME NEW i \in 1..n, NEW j \in 1..n, seq[i] = seq[j] PROVE i = j
    <3>1. seq[i] \in Int /\ DOMAIN seq = 1..n
      BY <1>2
    <3>2. ~(i < j) /\ ~(j < i)
      BY <3>1, <2>1, <1>2
    <3>. QED  BY <1>3, <3>2
  <2>. QED  BY <2>1, <1>2 DEF Injection, IsInjective
<1>5. seq \in Surjection(1..n, S)
  BY <1>3, <1>4, FS_Injection DEF n
<1>. QED  BY <1>4, <1>5 DEF Bijection, seq, n

LEMMA LoadBusesAreFinite ==
    ASSUME NEW r \in Requests, ~r.explicit
    PROVE  /\ IsFiniteSet(LoadBuses(r)) /\ IsFiniteSet(PvBuses(r)) /\ IsFiniteSet(PvPlaces(r))
           /\ PvBuses(r) \subseteq LoadBuses(r) /\ LoadBuses(r) \subseteq DOMAIN r.network
           /\ \A b \in LoadBuses(r) : r.network[b] \in Nat \ {0}
           /\ r.penetration \in Nat
<1>1. /\ IsFiniteSet(DOMAIN r.network) /\ r.penetration \in Nat /\ \A b \in DOMAIN r.network : r.network[b] \in Nat
      /\ IsList(r.pvBuses)
  BY RequestAssumption
<1>2. PvBuses(r) \subseteq LoadBuses(r) /\ LoadBuses(r) \subseteq DOMAIN r.network
  BY DEF PvBuses, PvPlaces, LoadBuses
<1>3. \A b \in LoadBuses(r) : r.network[b] \in Nat \ {0}
  BY <1>1 DEF LoadBuses
<1>4. IsFiniteSet(PvPlaces(r))
  <2>1. DOMAIN r.pvBuses = 1..Len(r.pvBuses) /\ Len(r.pvBuses) \in Nat
    BY <1>1 DEF IsList
  <2>2. IsFiniteSet(DOMAIN r.pvBuses) /\ PvPlaces(r) \subseteq DOMAIN r.pvBuses
    BY <2>1, FS_Interval DEF PvPlaces
  <2>. QED  BY <2>2, FS_Subset
<1>. QED  BY <1>1, <1>2, <1>3, <1>4, FS_Subset

\* The load the PV is shared by counts every place of the list.
LEMMA PvLoadCounts ==
    ASSUME NEW r \in Requests, ~r.explicit
    PROVE  /\ PvLoad(r) \in Nat
           /\ \A k \in PvPlaces(r) : r.network[r.pvBuses[k]] \in Nat /\ r.network[r.pvBuses[k]] <= PvLoad(r)
           /\ PvBuses(r) # {} => PvLoad(r) # 0
<1> DEFINE w == [k \in PvPlaces(r) |-> r.network[r.pvBuses[k]]]
<1>1. \A k \in PvPlaces(r) : r.pvBuses[k] \in LoadBuses(r)
  BY DEF PvPlaces
<1>2. \A k \in PvPlaces(r) : w[k] \in Nat /\ w[k] # 0 /\ w[k] = r.network[r.pvBuses[k]]
  BY <1>1, LoadBusesAreFinite
<1>3. PvLoad(r) = SumFunctionOnSet(w, PvPlaces(r))
  BY DEF PvLoad, Total
<1>. HIDE DEF w
<1>4. PvLoad(r) \in Nat
  BY <1>2, <1>3, LoadBusesAreFinite, SumIsNat
<1>5. \A k \in PvPlaces(r) : w[k] <= PvLoad(r)
  BY <1>2, <1>3, LoadBusesAreFinite, SumCoversEach
<1>6. ASSUME PvBuses(r) # {} PROVE PvLoad(r) # 0
  <2>1. PICK k \in PvPlaces(r) : TRUE
    BY <1>6 DEF PvBuses
  <2>. QED  BY <1>2, <1>4, <1>5, <2>1
<1>. QED  BY <1>2, <1>4, <1>5, <1>6

LEMMA PvCapacityIsNat ==
    ASSUME NEW r \in Requests, ~r.explicit, NEW b
    PROVE  PvCapacity(r, b) \in Nat
<1>1. CASE b \in PvBuses(r)
  <2> DEFINE all == Total(r.network, LoadBuses(r))
             some == PvLoad(r)
             x == all * r.penetration * r.network[b]
  <2>1. \A a \in LoadBuses(r) : r.network[a] \in Nat
    BY LoadBusesAreFinite
  <2>2. all \in Nat
    BY <2>1, LoadBusesAreFinite, SumIsNat DEF Total
  <2>3. some \in Nat \ {0} /\ r.network[b] \in Nat
    BY <1>1, <2>1, LoadBusesAreFinite, PvLoadCounts
  <2>4. r.penetration \in Nat
    BY LoadBusesAreFinite
  <2>5. PvCapacity(r, b) = x \div (100 * some)
    BY <1>1 DEF PvCapacity
  <2>. HIDE DEF all, some
  <2>6. x \in Nat
    <3>1. all * r.penetration \in Nat
      BY <2>2, <2>4
    <3>. QED  BY <2>3, <3>1
  <2>7. 100 * some \in Nat \ {0}
    BY <2>3
  <2> DEFINE d == 100 * some
  <2>. HIDE DEF x, d
  <2>8. x \div d \in Nat
    BY <2>6, <2>7 DEF d
  <2>. QED  BY <2>5, <2>8 DEF d
<1>2. CASE b \notin PvBuses(r)
  BY <1>2 DEF PvCapacity
<1>. QED  BY <1>1, <1>2

LEMMA AssignedBusIsConfig ==
    ASSUME NEW r \in Requests, ~r.explicit, NEW b, NEW ordinal, NEW bess, NEW ev
    PROVE  IsBusConfig(AssignedBus(r, b, ordinal, bess, ev))
<1>1. PvCapacity(r, b) \in Nat
  BY PvCapacityIsNat
<1>2. (IF b \in LoadBuses(r) THEN r.network[b] ELSE 0) \in Nat
  BY LoadBusesAreFinite
<1>3. (IF b \in ev THEN NamedRate ELSE 0) \in Nat
  BY DeviceAssumption
<1>. QED  BY <1>1, <1>2, <1>3 DEF IsBusConfig, AssignedBus

IsBusList(seq) == IsList(seq) /\ \A i \in DOMAIN seq : IsBusConfig(seq[i])

LEMMA AssignedBuses ==
    ASSUME NEW r \in Requests, ~r.explicit, NEW assigned \in Assignments(r)
    PROVE  \E bess \in SUBSET PvBuses(r), ev \in SUBSET LoadBuses(r) :
             assigned = [i \in 1..Cardinality(DOMAIN r.network) |->
                           AssignedBus(r, InOrder(DOMAIN r.network)[i], i, bess, ev)]
<1> DEFINE order == InOrder(DOMAIN r.network)
           n == Cardinality(DOMAIN r.network)
<1>1. IsFiniteSet(DOMAIN r.network) /\ DOMAIN r.network \subseteq Int
  BY RequestAssumption
<1>2. order \in [1..n -> DOMAIN r.network] /\ n \in Nat
  BY <1>1, InOrderIsBijection, FS_CardinalityType DEF Bijection, Injection
<1>3. Len(order) = n
  BY <1>2, ListsAreSequences
<1>4. \E bess \in SUBSET PvBuses(r), ev \in SUBSET LoadBuses(r) :
         assigned = [i \in 1..Len(order) |-> AssignedBus(r, order[i], i, bess, ev)]
  <2> DEFINE Some(k, S) == {T \in SUBSET S : Cardinality(T) = k}
             Assigned(bess, ev) == [i \in 1..Len(order) |-> AssignedBus(r, order[i], i, bess, ev)]
             B == {{r.pvBuses[k] : k \in T} : T \in Some(RoundedShare(r.bessShare, Cardinality(PvPlaces(r))), PvPlaces(r))}
             E == Some(RoundedShare(r.evShare, Cardinality(LoadBuses(r))), LoadBuses(r))
  <2>1. Assignments(r) = IF r.penetration > 0 /\ PvBuses(r) = {} THEN {}
                         ELSE {Assigned(bess, ev) : bess \in B, ev \in E}
    BY DEF Assignments
  <2>2. B \subseteq SUBSET PvBuses(r) /\ E \subseteq SUBSET LoadBuses(r)
    BY DEF PvBuses
  <2>. HIDE DEF order, Assigned, B, E
  <2>3. \E bess \in B, ev \in E : assigned = Assigned(bess, ev)
    BY <2>1
  <2>. QED  BY <2>2, <2>3 DEF Assigned
<1>. QED  BY <1>3, <1>4

LEMMA BusDataIsList ==
    ASSUME NEW r \in Requests, NEW assigned \in BusData(r)
    PROVE  IsBusList(assigned)
<1>1. CASE r.explicit
  BY <1>1, RequestAssumption DEF BusData, IsBusList
<1>2. CASE ~r.explicit
  <2>1. PICK bess \in SUBSET PvBuses(r), ev \in SUBSET LoadBuses(r) :
           assigned = [i \in 1..Cardinality(DOMAIN r.network) |->
                         AssignedBus(r, InOrder(DOMAIN r.network)[i], i, bess, ev)]
    BY <1>2, AssignedBuses DEF BusData
  <2> DEFINE n == Cardinality(DOMAIN r.network)
  <2>2. n \in Nat
    BY <1>2, RequestAssumption, FS_CardinalityType
  <2>3. \A i \in 1..n : IsBusConfig(assigned[i])
    BY <1>2, <2>1, AssignedBusIsConfig
  <2>4. DOMAIN assigned = 1..n /\ assigned = [i \in 1..n |-> assigned[i]]
    BY <2>1
  <2>. HIDE DEF n
  <2>5. IsList(assigned)
    <3>1. assigned \in [1..n -> {assigned[i] : i \in 1..n}]
      BY <2>4
    <3>. QED  BY <2>2, <2>4, <3>1, ListsAreSequences DEF IsList
  <2>. QED  BY <2>3, <2>4, <2>5 DEF IsBusList
<1>. QED  BY <1>1, <1>2

-----------------------------------------------------------------------------
(* One vehicle's charging.                                                 *)

IsSession(s) == {s.planned, s.arrival, s.departure, s.offpeak} \subseteq Int /\ s.need \in Nat /\ s.rate \in Nat

\* The stay is a part of a day, or all of it, and the time to the departure.
LEMMA StayIsPartOfADay ==
    ASSUME NEW s, IsSession(s)
    PROVE  /\ DayTicks \in Nat \ {0} /\ DayTicks = Steps * Ticks
           /\ WindowTicks(s) \in 1..DayTicks
           /\ s.departure < s.arrival /\ s.arrival < s.departure + DayTicks =>
                 WindowTicks(s) = DayTicks - (s.arrival - s.departure)
<1>1. Steps \in Nat \ {0} /\ Ticks \in Nat \ {0} /\ s.departure \in Int /\ s.arrival \in Int
  BY DayAssumption DEF IsSession
<1> DEFINE d == DayTicks
           x == s.departure - s.arrival
<1>2. d \in Nat \ {0}
  BY <1>1 DEF DayTicks
<1>3. x \in Int
  BY <1>1
<1>4. WindowTicks(s) = IF x % d = 0 THEN d ELSE x % d
  BY DEF WindowTicks
<1>. HIDE DEF d, x
<1>5. x % d \in 0..(d - 1)
  BY <1>2, <1>3
<1>6. ASSUME x < 0, -d < x PROVE x % d = x + d
  <2>1. x = d * (-1) + (x + d) /\ x + d \in 0..(d - 1)
    BY <1>2, <1>3, <1>6
  <2>. QED  BY <1>2, <1>3, <2>1, RemainderIs
<1>7. WindowTicks(s) \in 1..d
  BY <1>2, <1>4, <1>5
<1>8. ASSUME s.departure < s.arrival, s.arrival < s.departure + d PROVE WindowTicks(s) = d - (s.arrival - s.departure)
  <2>1. x < 0 /\ -d < x /\ x + d = d - (s.arrival - s.departure)
    BY <1>1, <1>2, <1>8 DEF x
  <2>. QED  BY <1>2, <1>3, <1>4, <1>6, <2>1
<1>. QED  BY <1>2, <1>7, <1>8 DEF d, DayTicks

LEMMA ChargePowerIsBounded ==
    ASSUME NEW s, IsSession(s)
    PROVE  ChargePower(s) \in 0..s.rate
<1>1. Steps \in Nat \ {0} /\ Ticks \in Nat \ {0}
  BY DayAssumption
<1>2. DayTicks \in Nat \ {0}
  BY <1>1 DEF DayTicks
<1>3. s.departure \in Int /\ s.arrival \in Int /\ s.need \in Nat /\ s.rate \in Nat
  BY DEF IsSession
<1> DEFINE d == DayTicks
           w == WindowTicks(s)
           x == s.need * Ticks
<1>4. w \in Nat \ {0}
  <2>1. (s.departure - s.arrival) % d \in 0..(d - 1)
    <3>. HIDE DEF d
    <3>. QED  BY <1>2, <1>3 DEF d
  <2>. HIDE DEF d
  <2>. QED  BY <2>1, <1>2 DEF WindowTicks, d
<1>5. x \in Nat
  BY <1>1, <1>3
<1>. HIDE DEF w, x
<1>6. x \div w \in Nat
  BY <1>4, <1>5
<1>. QED  BY <1>3, <1>6 DEF ChargePower, w, x

LEMMA DrawnIsBounded ==
    ASSUME NEW s, IsSession(s), NEW k, NEW left \in Nat
    PROVE  Drawn(s, k, left) \in Nat /\ Drawn(s, k, left) <= left /\ Drawn(s, k, left) <= ChargePower(s)
<1>1. ChargePower(s) \in Nat
  BY ChargePowerIsBounded DEF IsSession
<1>. QED  BY <1>1 DEF Drawn

\* What is missing before each timestep: a recursion over the timesteps.
IsMissing(m, s) ==
    m = [k \in 0..Steps |-> IF k = 0 THEN s.need ELSE m[k - 1] - Drawn(s, k - 1, m[k - 1])]

LEMMA MissingExists ==
    ASSUME NEW s, IsSession(s)
    PROVE  IsMissing(Missing(s), s)
<1> DEFINE F == [n \in Nat |-> [m \in Nat |-> m - Drawn(s, n, m)]]
<1>1. StaysIn(F, Nat)
  <2>1. ASSUME NEW n \in Nat, NEW m \in Nat PROVE m - Drawn(s, n, m) \in Nat
    BY DrawnIsBounded
  <2>. QED  BY <2>1 DEF StaysIn
<1>2. s.need \in Nat /\ Steps \in Nat
  BY DayAssumption DEF IsSession
<1>3. \A n \in Nat, m \in Nat : F[n][m] = m - Drawn(s, n, m)
  OBVIOUS
<1>. HIDE DEF F
<1>4. PICK g \in [Nat -> Nat] : Recursion(g, s.need, F)
  BY <1>1, <1>2, RecursionExists
<1> DEFINE h == [k \in 0..Steps |-> g[k]]
<1>5. ASSUME NEW k \in 0..Steps
      PROVE  g[k] = IF k = 0 THEN s.need ELSE h[k - 1] - Drawn(s, k - 1, h[k - 1])
  <2>1. CASE k = 0
    BY <1>4, <2>1 DEF Recursion
  <2>2. CASE k # 0
    <3>1. k - 1 \in Nat /\ k - 1 \in 0..Steps /\ (k - 1) + 1 = k
      BY <1>2, <2>2
    <3>2. g[(k - 1) + 1] = F[k - 1][g[k - 1]]
      BY <3>1, <1>4 DEF Recursion
    <3>. QED  BY <3>1, <3>2, <1>3, <2>2
  <2>. QED  BY <2>1, <2>2
<1>6. IsMissing(h, s)
  <2>1. h = [k \in 0..Steps |-> IF k = 0 THEN s.need ELSE h[k - 1] - Drawn(s, k - 1, h[k - 1])]
    <3> DEFINE e == h
    <3>1. \A k \in 0..Steps : g[k] = IF k = 0 THEN s.need ELSE e[k - 1] - Drawn(s, k - 1, e[k - 1])
      BY <1>5
    <3>2. h = [k \in 0..Steps |-> IF k = 0 THEN s.need ELSE e[k - 1] - Drawn(s, k - 1, e[k - 1])]
      <4>. HIDE DEF e
      <4>. QED  BY <3>1
    <3>. QED  BY <3>2
  <2>. HIDE DEF h
  <2>. QED  BY <2>1 DEF IsMissing
<1>7. \E m : m = [k \in 0..Steps |-> IF k = 0 THEN s.need ELSE m[k - 1] - Drawn(s, k - 1, m[k - 1])]
  <2>. HIDE DEF h
  <2>. QED  BY <1>6 DEF IsMissing
<1>. QED  BY <1>7 DEF Missing, IsMissing

LEMMA MissingFalls ==
    ASSUME NEW s, IsSession(s)
    PROVE  /\ Missing(s)[0] = s.need
           /\ \A k \in 0..Steps : Missing(s)[k] \in Nat
           /\ \A k \in StepsOfDay : Missing(s)[k + 1] = Missing(s)[k] - Drawn(s, k, Missing(s)[k])
<1> DEFINE m == Missing(s)
<1>1. m = [k \in 0..Steps |-> IF k = 0 THEN s.need ELSE m[k - 1] - Drawn(s, k - 1, m[k - 1])]
  BY MissingExists DEF IsMissing
<1>2. Steps \in Nat \ {0} /\ s.need \in Nat
  BY DayAssumption DEF IsSession
<1>. HIDE DEF m
<1>3. m[0] = s.need
  BY <1>1, <1>2
<1>4. ASSUME NEW k \in StepsOfDay PROVE m[k + 1] = m[k] - Drawn(s, k, m[k])
  <2>1. k + 1 \in 0..Steps /\ k + 1 # 0 /\ (k + 1) - 1 = k
    BY <1>2 DEF StepsOfDay
  <2>. QED  BY <2>1, <1>1
<1> DEFINE T == {k \in Nat : k <= Steps => m[k] \in Nat}
<1>5. 0 \in T
  BY <1>2, <1>3
<1>6. ASSUME NEW k \in Nat, k \in T PROVE k + 1 \in T
  <2>. SUFFICES ASSUME k + 1 <= Steps PROVE m[k + 1] \in Nat
    OBVIOUS
  <2>1. m[k] \in Nat /\ k \in StepsOfDay
    BY <1>2, <1>6 DEF StepsOfDay
  <2>. QED  BY <2>1, <1>4, DrawnIsBounded
<1>. HIDE DEF T
<1>7. Nat \subseteq T
  BY <1>5, <1>6, NatIsBuiltUp
<1>8. \A k \in 0..Steps : m[k] \in Nat
  BY <1>7, <1>2 DEF T
<1>. QED  BY <1>3, <1>4, <1>8 DEF m

\* The timestep i of the day is the After(s, i)-th of the walk.
After(s, i) == (i - StartStep(s)) % Steps

LEMMA WalkCoversTheDay ==
    ASSUME NEW s, IsSession(s)
    PROVE  /\ \A i \in StepsOfDay : After(s, i) \in StepsOfDay /\ Visited(s, After(s, i)) = i
           /\ \A k \in StepsOfDay : Visited(s, k) \in StepsOfDay /\ After(s, Visited(s, k)) = k
<1>1. Steps \in Nat \ {0} /\ Ticks \in Nat \ {0}
  BY DayAssumption
<1>2. StartTick(s) \in Int
  BY DEF StartTick, IsSession
<1>3. StartTick(s) \div Ticks \in Int
  BY <1>1, <1>2, QuotientIsInteger
<1> DEFINE x == StartTick(s) \div Ticks
<1>. HIDE DEF x
<1>4. x % Steps \in 0..(Steps - 1)
  BY <1>1, <1>3 DEF x
<1>5. StartStep(s) \in 0..(Steps - 1)
  BY <1>4 DEF StartStep, x
<1>6. ASSUME NEW i \in StepsOfDay PROVE After(s, i) \in StepsOfDay /\ Visited(s, After(s, i)) = i
  <2>1. i \in 0..(Steps - 1)
    BY DEF StepsOfDay
  <2>2. (i - StartStep(s)) % Steps \in 0..(Steps - 1) /\ (StartStep(s) + ((i - StartStep(s)) % Steps)) % Steps = i
    BY <2>1, <1>1, <1>5, AroundTheDay, ZenonT(40)
  <2>. QED  BY <2>2, Zenon DEF After, Visited, StepsOfDay
<1>7. ASSUME NEW k \in StepsOfDay PROVE Visited(s, k) \in StepsOfDay /\ After(s, Visited(s, k)) = k
  <2>1. k \in 0..(Steps - 1)
    BY DEF StepsOfDay
  <2>2. (StartStep(s) + k) % Steps \in 0..(Steps - 1) /\ (((StartStep(s) + k) % Steps) - StartStep(s)) % Steps = k
    BY <2>1, <1>1, <1>5, AroundTheDay, Zenon
  <2>. QED  BY <2>2, Zenon DEF After, Visited, StepsOfDay
<1>. QED  BY <1>6, <1>7

LEMMA ProfileIsDrawn ==
    ASSUME NEW s, IsSession(s), NEW i \in StepsOfDay
    PROVE  /\ ChargeProfile(s)[i] = Drawn(s, After(s, i), Missing(s)[After(s, i)])
           /\ ChargeProfile(s)[i] \in Int /\ 0 <= ChargeProfile(s)[i] /\ ChargeProfile(s)[i] <= s.rate
           /\ ChargeProfile(s)[i] # 0 => PluggedIn(s, i)
<1> DEFINE k == After(s, i)
           m == Missing(s)
<1>1. k \in StepsOfDay /\ Visited(s, k) = i
  BY WalkCoversTheDay
<1>2. ChargeProfile(s)[i] = m[k] - m[k + 1]
  BY DEF ChargeProfile, After
<1>3. k \in 0..Steps
  BY <1>1, DayAssumption DEF StepsOfDay
<1>4. m[k] \in Nat /\ m[k + 1] = m[k] - Drawn(s, k, m[k])
  BY <1>1, <1>3, MissingFalls
<1>5. Drawn(s, k, m[k]) \in Nat /\ Drawn(s, k, m[k]) <= ChargePower(s)
  BY <1>4, DrawnIsBounded
<1>6. ChargePower(s) \in 0..s.rate /\ s.rate \in Nat
  BY ChargePowerIsBounded DEF IsSession
<1>. HIDE DEF m, k
<1>7. ChargeProfile(s)[i] = Drawn(s, k, m[k])
  BY <1>2, <1>4, <1>5
<1>8. Drawn(s, k, m[k]) # 0 => PluggedIn(s, i)
  BY <1>1 DEF Drawn
<1>. QED  BY <1>5, <1>6, <1>7, <1>8 DEF m, k

Reached(s, n) == {i \in StepsOfDay : After(s, i) < n}
Plugged(s) == {i \in StepsOfDay : PluggedIn(s, i)}

LEMMA WalkGrows ==
    ASSUME NEW s, IsSession(s), NEW n \in StepsOfDay
    PROVE  /\ Reached(s, n + 1) = Reached(s, n) \union {Visited(s, n)}
           /\ Visited(s, n) \in StepsOfDay \ Reached(s, n)
<1>1. Steps \in Nat \ {0} /\ n \in Int /\ \A k \in StepsOfDay : k \in Int
  BY DayAssumption DEF StepsOfDay
<1>2. Visited(s, n) \in StepsOfDay /\ After(s, Visited(s, n)) = n
  BY WalkCoversTheDay
<1>3. ASSUME NEW i \in StepsOfDay PROVE After(s, i) < n + 1 <=> After(s, i) < n \/ i = Visited(s, n)
  <2>1. After(s, i) \in Int /\ Visited(s, After(s, i)) = i
    BY <1>1, WalkCoversTheDay
  <2>. QED  BY <1>1, <1>2, <2>1
<1>4. ~(After(s, Visited(s, n)) < n)
  BY <1>1, <1>2
<1>. QED  BY <1>2, <1>3, <1>4, Zenon DEF Reached

(* What a vehicle draws over the day is its need, or all that its power    *)
(* gives in the timesteps it is plugged in, whichever is smaller.          *)
LEMMA SessionDrawsWhatFits ==
    ASSUME NEW s, IsSession(s)
    PROVE  SumFunction(ChargeProfile(s)) = Smaller(s.need, Cardinality(Plugged(s)) * ChargePower(s))
<1> DEFINE w == ChargeProfile(s)
           m == Missing(s)
           P == ChargePower(s)
           c(n) == Cardinality(Plugged(s) \intersect Reached(s, n))
           drawn(n) == SumFunctionOnSet(w, Reached(s, n))
           Holds(n) == drawn(n) = s.need - m[n] /\ m[n] = Bigger(0, s.need - c(n) * P)
           T == {n \in Nat : n <= Steps => Holds(n)}
<1>1. Steps \in Nat \ {0} /\ s.need \in Nat /\ P \in Nat
  BY DayAssumption, ChargePowerIsBounded DEF IsSession
<1>2. IsFiniteSet(StepsOfDay) /\ Ints(w, StepsOfDay)
  <2>1. IsFiniteSet(StepsOfDay)
    BY <1>1, FS_Interval DEF StepsOfDay
  <2>. QED  BY <2>1, ProfileIsDrawn DEF Ints
<1>3. \A n : IsFiniteSet(Reached(s, n)) /\ Ints(w, Reached(s, n)) /\ drawn(n) \in Int
  <2>1. ASSUME NEW n PROVE IsFiniteSet(Reached(s, n)) /\ Ints(w, Reached(s, n))
    <3>1. Reached(s, n) \subseteq StepsOfDay
      BY DEF Reached
    <3>. QED  BY <3>1, <1>2, FS_Subset DEF Ints
  <2>. QED  BY <2>1, SumIsInt
<1>4. \A n : IsFiniteSet(Plugged(s) \intersect Reached(s, n)) /\ c(n) \in Nat
  BY <1>3, FS_Intersection, FS_CardinalityType
<1>5. 0 \in T
  <2>1. Reached(s, 0) = {}
    <3>1. \A i \in StepsOfDay : After(s, i) \in Nat
      BY WalkCoversTheDay, <1>1 DEF StepsOfDay
    <3>. QED  BY <3>1 DEF Reached
  <2>2. drawn(0) = 0 /\ c(0) = 0
    <3>1. Plugged(s) \intersect {} = {}
      OBVIOUS
    <3>. QED  BY <2>1, <3>1, SumOfNone, FS_EmptySet
  <2>3. m[0] = s.need
    BY MissingFalls
  <2>. HIDE DEF m, P, drawn, c
  <2>. QED  BY <1>1, <2>2, <2>3 DEF Bigger
<1>6. ASSUME NEW n \in Nat, n \in T PROVE n + 1 \in T
  <2>. SUFFICES ASSUME n + 1 <= Steps PROVE Holds(n + 1)
    OBVIOUS
  <2> DEFINE j == Visited(s, n)
             draw == Drawn(s, n, m[n])
  <2>1. n \in StepsOfDay /\ n <= Steps /\ n \in 0..Steps
    BY <1>1 DEF StepsOfDay
  <2>2. Holds(n)
    BY <1>6, <2>1
  <2>3. m[n] \in Nat /\ m[n + 1] = m[n] - draw
    BY <2>1, MissingFalls
  <2>4. Reached(s, n + 1) = Reached(s, n) \union {j} /\ j \notin Reached(s, n) /\ j \in StepsOfDay
    BY <2>1, WalkGrows
  <2>5. After(s, j) = n
    BY <2>1, WalkCoversTheDay
  <2>6. w[j] = draw
    BY <2>4, <2>5, ProfileIsDrawn
  <2>7. w[j] \in Int
    BY <1>2, <2>4 DEF Ints
  <2>8. drawn(n + 1) = w[j] + drawn(n)
    BY <1>3, <2>4, <2>7, SumWith
  <2>9. draw = IF ~PluggedIn(s, j) THEN 0 ELSE IF P < m[n] THEN P ELSE m[n]
    BY DEF Drawn
  <2>10. c(n + 1) = IF PluggedIn(s, j) THEN c(n) + 1 ELSE c(n)
    <3>1. CASE PluggedIn(s, j)
      <4>1. Plugged(s) \intersect Reached(s, n + 1) = (Plugged(s) \intersect Reached(s, n)) \union {j}
        BY <2>4, <3>1 DEF Plugged
      <4>2. j \notin Plugged(s) \intersect Reached(s, n)
        BY <2>4
      <4>. QED  BY <3>1, <4>1, <4>2, <1>4, FS_AddElement
    <3>2. CASE ~PluggedIn(s, j)
      <4>1. Plugged(s) \intersect Reached(s, n + 1) = Plugged(s) \intersect Reached(s, n)
        BY <2>4, <3>2 DEF Plugged
      <4>. QED  BY <3>2, <4>1
    <3>. QED  BY <3>1, <3>2
  <2> DEFINE a == c(n)
             b == c(n + 1)
             u == m[n]
             v == m[n + 1]
             x == drawn(n)
             y == drawn(n + 1)
  <2>11. /\ a \in Nat /\ u \in Nat /\ v = u - draw /\ x \in Int /\ y = draw + x
         /\ x = s.need - u /\ u = Bigger(0, s.need - a * P)
         /\ b = IF PluggedIn(s, j) THEN a + 1 ELSE a
         /\ draw = IF ~PluggedIn(s, j) THEN 0 ELSE IF P < u THEN P ELSE u
    BY <1>3, <1>4, <2>2, <2>3, <2>6, <2>8, <2>9, <2>10
  <2>12. Holds(n + 1) = (y = s.need - v /\ v = Bigger(0, s.need - b * P))
    OBVIOUS
  <2>. HIDE DEF a, b, u, v, x, y, m, P, draw, j, c, drawn, Holds
  <2>13. (a + 1) * P = a * P + P /\ a * P \in Nat
    BY <1>1, <2>11
  <2> DEFINE aP == a * P
  <2>. HIDE DEF aP
  <2>14. aP \in Nat /\ b * P = IF PluggedIn(s, j) THEN aP + P ELSE aP
    BY <2>11, <2>13 DEF aP
  <2>15. u = Bigger(0, s.need - aP)
    BY <2>11 DEF aP
  <2>16. y = s.need - v /\ v = Bigger(0, s.need - b * P)
    BY <1>1, <2>11, <2>14, <2>15 DEF Bigger
  <2>. QED  BY <2>12, <2>16
<1>7. Nat \subseteq T
  <2>. HIDE DEF T
  <2>. QED  BY <1>5, <1>6, NatIsBuiltUp
<1>8. Holds(Steps)
  BY <1>1, <1>7
<1>9. Reached(s, Steps) = StepsOfDay
  <2>1. \A i \in StepsOfDay : After(s, i) < Steps
    BY <1>1, WalkCoversTheDay DEF StepsOfDay
  <2>. QED  BY <2>1 DEF Reached
<1>10. Plugged(s) \intersect StepsOfDay = Plugged(s)
  BY DEF Plugged
<1>11. DOMAIN w = StepsOfDay /\ SumFunction(w) = SumFunctionOnSet(w, DOMAIN w)
  BY DEF ChargeProfile, SumFunction, SumFunctionOnSet, FoldFunction
<1> DEFINE C == Cardinality(Plugged(s))
<1>12. C \in Nat /\ SumFunction(w) = s.need - Bigger(0, s.need - C * P)
  BY <1>4, <1>8, <1>9, <1>10, <1>11
<1>. HIDE DEF C, P, w
<1>13. C * P \in Nat
  BY <1>1, <1>12
<1>14. SumFunction(w) = Smaller(s.need, C * P)
  BY <1>1, <1>12, <1>13 DEF Smaller, Bigger
<1>. QED  BY <1>14 DEF C, P, w

\* The timesteps a vehicle is plugged in overnight are at most one fewer than its
\* stay is long.
LEMMA OvernightIsPlugged ==
    ASSUME NEW s, IsSession(s), s.departure < s.planned, s.arrival < s.departure + DayTicks
    PROVE  Cardinality(Plugged(s)) \in Nat /\ Cardinality(Plugged(s)) * Ticks > WindowTicks(s) - Ticks
<1> DEFINE U == {i \in StepsOfDay : s.departure <= i * Ticks /\ i * Ticks < s.arrival}
           gap == s.arrival - s.departure
           c == Cardinality(Plugged(s))
           u == Cardinality(U)
           W == WindowTicks(s)
<1>1. Steps \in Nat \ {0} /\ Ticks \in Nat \ {0} /\ s.departure \in Int /\ s.arrival \in Int /\ s.planned \in Int
  BY DayAssumption DEF IsSession
<1>2. StepsOfDay \subseteq Nat /\ IsFiniteSet(StepsOfDay) /\ Cardinality(StepsOfDay) = Steps
  BY <1>1, FS_Interval DEF StepsOfDay
<1>3. Plugged(s) = StepsOfDay \ U /\ U \subseteq StepsOfDay
  <2>1. ASSUME NEW i \in StepsOfDay PROVE PluggedIn(s, i) <=> i \notin U
    <3>1. i * Ticks \in Int
      BY <1>1, <1>2
    <3> DEFINE at == i * Ticks
    <3>. HIDE DEF at
    <3>2. PluggedIn(s, i) <=> at >= s.arrival \/ at < s.departure
      BY DEF PluggedIn, at
    <3>3. i \in U <=> s.departure <= at /\ at < s.arrival
      BY DEF at
    <3>. QED  BY <1>1, <3>1, <3>2, <3>3 DEF at
  <2>. QED  BY <2>1 DEF Plugged
<1>4. IsFiniteSet(U) /\ u \in Nat /\ c \in Nat /\ c = Steps - u
  <2>1. IsFiniteSet(U) /\ StepsOfDay \intersect U = U
    BY <1>2, <1>3, FS_Subset
  <2>2. Cardinality(StepsOfDay \ U) = Cardinality(StepsOfDay) - Cardinality(StepsOfDay \intersect U)
    BY <1>2, <2>1, FS_Difference
  <2>3. IsFiniteSet(StepsOfDay \ U)
    BY <1>2, FS_Difference
  <2>. QED  BY <1>2, <1>3, <2>1, <2>2, <2>3, FS_CardinalityType
<1>5. /\ W \in Int /\ 1 <= W /\ W <= Steps * Ticks /\ Steps * Ticks \in Nat
      /\ 0 < gap => W = Steps * Ticks - gap
  <2>1. 0 < gap => s.departure < s.arrival
    BY <1>1
  <2>. QED  BY <1>1, <2>1, StayIsPartOfADay
<1>6. CASE U = {}
  <2>1. u = 0
    BY <1>6, FS_EmptySet
  <2>2. c = Steps
    BY <1>1, <1>4, <2>1
  <2>. HIDE DEF c, W
  <2>. QED  BY <1>1, <1>4, <1>5, <2>2 DEF c, W
<1>7. CASE U # {}
  <2> DEFINE lo == Min(U)
             hi == Max(U)
  <2>1. U \in SUBSET Int
    <3>. HIDE DEF U
    <3>. QED  BY <1>2, <1>3
  <2>2. lo \in U /\ hi \in U /\ \A i \in U : lo <= i /\ i <= hi
    BY <1>4, <1>7, <2>1, LeastExists, GreatestExists
  <2>3. lo \in Nat /\ hi \in Nat /\ s.departure <= lo * Ticks /\ hi * Ticks < s.arrival
    BY <1>2, <1>3, <2>2
  <2>. HIDE DEF lo, hi
  <2>4. u <= hi - lo + 1
    <3>1. U \subseteq lo..hi /\ lo <= hi
      <4>. HIDE DEF U
      <4>1. \A i \in U : i \in Int
        BY <2>1
      <4>2. \A i \in U : i \in lo..hi
        BY <2>2, <2>3, <4>1
      <4>. QED  BY <2>2, <4>2
    <3>2. IsFiniteSet(lo..hi) /\ Cardinality(lo..hi) = hi - lo + 1
      BY <2>3, <3>1, FS_Interval
    <3>. QED  BY <3>1, <3>2, FS_Subset
  <2>. HIDE DEF u, U, c, W
  <2>5. u * Ticks <= (hi - lo + 1) * Ticks
    BY <1>1, <1>4, <2>3, <2>4
  <2>6. (hi - lo + 1) * Ticks = hi * Ticks - lo * Ticks + Ticks
    BY <1>1, <2>3
  <2>7. lo * Ticks \in Int /\ hi * Ticks \in Int /\ u * Ticks \in Int /\ c * Ticks \in Int
    BY <1>1, <1>4, <2>3
  <2>8. u * Ticks < gap + Ticks
    BY <1>1, <2>3, <2>5, <2>6, <2>7
  <2>9. 0 < gap
    <3>1. lo * Ticks <= hi * Ticks
      <4>1. lo <= hi
        BY <2>2, <2>3
      <4>. QED  BY <1>1, <2>3, <4>1
    <3>. QED  BY <1>1, <2>3, <2>7, <3>1
  <2>10. c * Ticks = Steps * Ticks - u * Ticks
    <3>1. (Steps - u) * Ticks = Steps * Ticks - u * Ticks
      BY <1>1, <1>4
    <3>. QED  BY <1>4, <3>1
  <2>11. gap \in Int
    BY <1>1
  <2>. HIDE DEF gap
  <2>12. c * Ticks > W - Ticks
    BY <1>1, <1>5, <2>7, <2>8, <2>9, <2>10, <2>11
  <2>. QED  BY <1>4, <2>12 DEF c, W
<1>. QED  BY <1>6, <1>7

(* A smart vehicle never draws faster than its need spread over its stay,  *)
(* and overnight misses what it could have drawn by less than a timestep   *)
(* at that rate and the unit per timestep its division drops.              *)
LEMMA SmartMissesLittle ==
    ASSUME NEW s, IsSession(s), s.mode = "smart"
    PROVE  LET drawn == SumFunction(ChargeProfile(s))
               fits == Smaller(s.need, Cardinality(Plugged(s)) * s.rate)
               spread == (s.need * Ticks) \div WindowTicks(s)
           IN /\ \A i \in StepsOfDay : ChargeProfile(s)[i] <= spread
              /\ drawn <= fits
              /\ s.departure < s.planned /\ s.arrival < s.departure + DayTicks =>
                    (fits - drawn) * Ticks < spread * Ticks + WindowTicks(s)
<1> DEFINE c == Cardinality(Plugged(s))
           P == ChargePower(s)
           W == WindowTicks(s)
           x == s.need * Ticks
           spread == x \div W
           drawn == Smaller(s.need, c * P)
           fits == Smaller(s.need, c * s.rate)
<1>1. Steps \in Nat \ {0} /\ Ticks \in Nat \ {0} /\ s.need \in Nat /\ s.rate \in Nat
  BY DayAssumption DEF IsSession
<1>2. W \in Nat \ {0}
  BY StayIsPartOfADay
<1>3. x \in Nat
  BY <1>1
<1>4. P \in Nat /\ P <= s.rate
  BY <1>1, ChargePowerIsBounded
<1>5. c \in Nat
  <2>1. IsFiniteSet(StepsOfDay) /\ Plugged(s) \subseteq StepsOfDay
    BY <1>1, FS_Interval DEF StepsOfDay, Plugged
  <2>. QED  BY <2>1, FS_Subset, FS_CardinalityType
<1>6. P = IF spread < s.rate THEN spread ELSE s.rate
  BY DEF ChargePower
<1>7. spread \in Nat /\ x < (spread + 1) * W
  <2> DEFINE rest == x % W
  <2>. HIDE DEF x, W
  <2>1. x \in Int
    BY <1>3
  <2>2. spread \in Int /\ rest \in 0..(W - 1) /\ x = W * spread + rest
    BY <1>2, <2>1
  <2>3. spread \in Nat
    BY <1>2, <1>3
  <2>. HIDE DEF spread, rest
  <2>4. (spread + 1) * W = W * spread + W /\ W * spread \in Nat
    BY <1>2, <2>3
  <2> DEFINE y == W * spread
  <2>5. (spread + 1) * W = y + W /\ y \in Nat /\ x = y + rest
    BY <2>2, <2>4
  <2>. HIDE DEF y
  <2>. QED  BY <1>2, <2>2, <2>3, <2>5
<1>8. P <= spread
  BY <1>1, <1>6, <1>7
<1>9. SumFunction(ChargeProfile(s)) = drawn
  BY SessionDrawsWhatFits
<1>10. ASSUME NEW i \in StepsOfDay PROVE ChargeProfile(s)[i] <= spread
  <2>1. After(s, i) \in 0..Steps
    BY <1>1, WalkCoversTheDay DEF StepsOfDay
  <2>2. Missing(s)[After(s, i)] \in Nat
    BY <2>1, MissingFalls
  <2>3. ChargeProfile(s)[i] \in Int /\ ChargeProfile(s)[i] <= P
    BY <2>2, ProfileIsDrawn, DrawnIsBounded
  <2>. HIDE DEF P, spread
  <2>. QED  BY <1>4, <1>7, <1>8, <2>3
<1>. HIDE DEF c, P, W, x
<1>11. c * P \in Nat /\ c * s.rate \in Nat /\ c * P <= c * s.rate
  BY <1>1, <1>4, <1>5
<1> DEFINE cP == c * P
           cR == c * s.rate
<1>. HIDE DEF cP, cR, spread
<1>12. drawn = Smaller(s.need, cP) /\ fits = Smaller(s.need, cR) /\ cP \in Nat /\ cR \in Nat /\ cP <= cR
  BY <1>11 DEF cP, cR
<1>13. drawn <= fits /\ drawn \in Nat /\ fits \in Nat
  BY <1>1, <1>12 DEF Smaller
<1>14. ASSUME s.departure < s.planned, s.arrival < s.departure + DayTicks
       PROVE  (fits - drawn) * Ticks < spread * Ticks + W
  <2>1. c * Ticks > W - Ticks
    BY <1>14, OvernightIsPlugged DEF c, W
  <2>2. spread * Ticks \in Nat
    BY <1>1, <1>7
  <2>3. CASE ~(spread < s.rate)
    <3>1. P = s.rate
      BY <1>6, <2>3 DEF P, spread, x, W
    <3>2. fits - drawn = 0
      <4>1. cP = cR
        BY <3>1 DEF cP, cR
      <4>2. fits = drawn
        BY <1>12, <4>1
      <4>. HIDE DEF fits, drawn
      <4>. QED  BY <1>13, <4>2
    <3>3. (fits - drawn) * Ticks = 0
      BY <1>1, <3>2
    <3>. HIDE DEF fits, drawn
    <3>. QED  BY <1>2, <2>2, <3>3
  <2>4. CASE spread < s.rate
    <3>1. P = spread
      BY <1>6, <2>4 DEF P, spread, x, W
    <3>2. CASE s.need <= cP
      <4>1. fits - drawn = 0
        BY <1>1, <1>12, <3>2 DEF Smaller
      <4>2. (fits - drawn) * Ticks = 0
        BY <1>1, <4>1
      <4>. HIDE DEF fits, drawn
      <4>. QED  BY <1>2, <2>2, <4>2
    <3>3. CASE ~(s.need <= cP)
      <4>1. drawn = cP /\ fits <= s.need
        BY <1>1, <1>12, <3>3 DEF Smaller
      <4>. HIDE DEF fits, drawn
      <4>2. fits - drawn <= s.need - cP
        BY <1>1, <1>12, <1>13, <4>1
      <4>3. (fits - drawn) * Ticks <= (s.need - cP) * Ticks
        <5> DEFINE y == fits - drawn
                   z == s.need - cP
        <5>1. y \in Int /\ z \in Int /\ y <= z
          BY <1>1, <1>12, <1>13, <4>2
        <5>. HIDE DEF y, z
        <5>2. y * Ticks <= z * Ticks
          BY <1>1, <5>1
        <5>. QED  BY <5>2 DEF y, z
      <4>4. (s.need - cP) * Ticks = x - cP * Ticks
        BY <1>1, <1>12 DEF x
      <4>5. cP * Ticks = spread * (c * Ticks)
        BY <1>1, <1>5, <1>7, <3>1 DEF cP
      <4> DEFINE cT == c * Ticks
      <4>6. cT \in Int /\ cT >= W - Ticks + 1
        BY <1>1, <1>2, <1>5, <2>1
      <4>. HIDE DEF cT
      <4>7. spread * cT >= spread * (W - Ticks + 1)
        BY <1>1, <1>2, <1>7, <4>6
      <4>8. spread * (W - Ticks + 1) = spread * W - spread * Ticks + spread
        BY <1>1, <1>2, <1>7
      <4>9. (spread + 1) * W = spread * W + W /\ spread * W \in Nat /\ spread * cT \in Int
        BY <1>2, <1>7, <4>6
      <4>10. cP * Ticks = spread * cT
        BY <4>5 DEF cT
      <4>11. x - cP * Ticks < spread * Ticks + W
        BY <1>2, <1>3, <1>7, <2>2, <4>7, <4>8, <4>9, <4>10
      <4>12. (fits - drawn) * Ticks \in Int /\ x - cP * Ticks \in Int
        BY <1>1, <1>3, <1>12, <1>13
      <4>. QED  BY <1>2, <2>2, <4>3, <4>4, <4>11, <4>12
    <3>. QED  BY <3>2, <3>3
  <2>. QED  BY <2>3, <2>4
<1>. QED  BY <1>9, <1>10, <1>13, <1>14 DEF c, W, x, spread

-----------------------------------------------------------------------------
(* What the plugins can contribute.                                        *)

Day(T) == [DaySteps -> T]

LEMMA HouseholdsInRange ==
    ASSUME NEW kw \in Nat
    PROVE  Households(kw) \in 1..MaxHouseholds
<1>1. HouseholdKw \in Nat \ {0} /\ MaxHouseholds \in Nat \ {0}
  BY DeviceAssumption
<1> DEFINE x == 2 * kw + HouseholdKw
           d == 2 * HouseholdKw
<1>2. x \in Int /\ d \in Nat \ {0}
  BY <1>1
<1>. HIDE DEF x, d
<1>3. x \div d \in Int
  BY <1>2, QuotientIsInteger
<1>. QED  BY <1>1, <1>3, ClipStaysBetween DEF Households, x, d

LEMMA StoredShape ==
    ASSUME FilesInv, NEW n \in Names, NEW kind, NEW shape \in FromStore(n, kind)
    PROVE  shape \in Day(0..100)
<1>1. n \in Listed /\ shape = Shape(n, Steps)
  BY DEF FromStore, Usable, Listed
<1>. QED  BY <1>1, ShapeInRange DEF Day

LEMMA ScaledIsTrace ==
    ASSUME NEW kw \in Nat, NEW shape \in Day(Int)
    PROVE  Scaled(kw, shape) \in Day(Int)
<1>1. ASSUME NEW i \in DaySteps PROVE (kw * shape[i]) \div 100 \in Int
  <2>1. shape[i] \in Int
    BY DEF Day
  <2>. QED  BY <2>1
<1>. QED  BY <1>1 DEF Scaled, Day

LEMMA ScaledIsBounded ==
    ASSUME NEW kw \in Nat, NEW shape \in Day(0..100), NEW i \in DaySteps
    PROVE  Scaled(kw, shape)[i] \in 0..kw
<1>1. shape[i] \in 0..100
  BY DEF Day
<1> DEFINE x == kw * shape[i]
<1>2. 0 * 100 <= x /\ x <= kw * 100 /\ x \in Int
  BY <1>1
<1>. HIDE DEF x
<1>3. x \div 100 \in 0..kw
  BY <1>2, ShareBetween
<1>. QED  BY <1>3 DEF Scaled, x

LEMMA DayIsFinite == IsFiniteSet(DaySteps) /\ DaySteps # {} /\ 1 \in DaySteps
<1>1. Steps \in Nat \ {0}
  BY DayAssumption
<1>2. IsFiniteSet(1..Steps)
  BY <1>1, FS_Interval
<1>. QED  BY <1>1, <1>2 DEF DaySteps

LEMMA DiversifiedIsTrace ==
    ASSUME NEW template \in Day(Int), NEW n \in Nat, NEW shape \in Diversified(template, n)
    PROVE  shape \in Day(Int)
<1> DEFINE Together(shift) ==
             [i \in DaySteps |-> SumFunction([h \in 1..n |-> template[((i - 1 - shift[h]) % Steps) + 1]])]
           Peaked(total) ==
             LET peak == Max({total[i] : i \in DaySteps})
             IN [i \in DaySteps |-> IF peak > 0 THEN (100 * total[i]) \div peak ELSE 0]
<1>1. ASSUME NEW shift \in [1..n -> Shifts] PROVE Together(shift) \in Day(Int)
  <2>1. ASSUME NEW i \in DaySteps
        PROVE  SumFunction([h \in 1..n |-> template[((i - 1 - shift[h]) % Steps) + 1]]) \in Int
    <3> DEFINE w == [h \in 1..n |-> template[((i - 1 - shift[h]) % Steps) + 1]]
    <3>1. ASSUME NEW h \in 1..n PROVE w[h] \in Int
      <4>1. shift[h] \in Int /\ i \in Int
        <5>1. Shifts \subseteq Int
          BY DeviceAssumption
        <5>2. shift[h] \in Shifts
          OBVIOUS
        <5>3. i \in Int
          BY DEF DaySteps
        <5>. QED  BY <5>1, <5>2, <5>3
      <4> DEFINE x == i - 1 - shift[h]
      <4>2. x \in Int
        BY <4>1
      <4>. HIDE DEF x
      <4>3. (x % Steps) + 1 \in DaySteps
        BY <4>2, DayAssumption DEF DaySteps
      <4>4. template[(x % Steps) + 1] \in Int
        BY <4>3 DEF Day
      <4>. QED  BY <4>4 DEF x
    <3>2. DOMAIN w = 1..n
      OBVIOUS
    <3>. HIDE DEF w
    <3>3. IsFiniteSet(1..n) /\ Ints(w, 1..n)
      BY <3>1, FS_Interval DEF Ints
    <3>4. SumFunction(w) = SumFunctionOnSet(w, 1..n)
      BY <3>2 DEF SumFunction, SumFunctionOnSet, FoldFunction
    <3>5. SumFunction(w) \in Int
      BY <3>3, <3>4, SumIsInt
    <3>. QED  BY <3>5 DEF w
  <2>. QED  BY <2>1 DEF Day
<1>2. ASSUME NEW total \in Day(Int) PROVE Peaked(total) \in Day(Int)
  <2> DEFINE all == {total[i] : i \in DaySteps}
             peak == Max(all)
  <2>1. all \in SUBSET Int /\ all # {} /\ IsFiniteSet(all)
    <3>1. all \in SUBSET Int /\ all # {}
      BY DayIsFinite DEF Day
    <3>2. IsFiniteSet(all)
      BY DayIsFinite, ImageIsFinite
    <3>. QED  BY <3>1, <3>2
  <2>2. peak \in Int
    <3>. HIDE DEF all
    <3>. QED  BY <2>1, GreatestExists
  <2>. HIDE DEF peak, all
  <2>3. ASSUME NEW i \in DaySteps PROVE (IF peak > 0 THEN (100 * total[i]) \div peak ELSE 0) \in Int
    <3>1. total[i] \in Int
      BY DEF Day
    <3>2. CASE peak > 0
      <4>1. peak \in Nat \ {0} /\ 100 * total[i] \in Int
        BY <2>2, <3>1, <3>2
      <4>2. (100 * total[i]) \div peak \in Int
        BY <4>1, QuotientIsInteger
      <4>. QED  BY <3>2, <4>2
    <3>3. CASE ~(peak > 0)
      BY <3>3
    <3>. QED  BY <3>2, <3>3
  <2>4. [i \in DaySteps |-> IF peak > 0 THEN (100 * total[i]) \div peak ELSE 0] \in Day(Int)
    BY <2>3 DEF Day
  <2>. QED  BY <2>4 DEF peak, all
<1>3. Diversified(template, n) = {Peaked(Together(shift)) : shift \in [1..n -> Shifts]}
  BY DEF Diversified
<1>. HIDE DEF Peaked, Together
<1>. QED  BY <1>1, <1>2, <1>3

LEMMA IrradianceIsTraces ==
    ASSUME NEW r \in Requests, Irradiance(r) # <<>>, NEW d \in 1..r.days
    PROVE  Irradiance(r)[d] \in Day(Int)
<1>1. /\ Len(WeatherFile) >= Steps
      /\ Irradiance(r) = [e \in 1..r.days |-> [i \in DaySteps |-> WeatherRow(e, i)]]
  BY DEF Irradiance
<1>2. Steps \in Nat \ {0} /\ d \in Int /\ r.days \in Nat
  BY DayAssumption, RequestAssumption
<1> DEFINE n == Len(WeatherFile)
<1>3. n \in Nat \ {0} /\ DOMAIN WeatherFile = 1..n /\ \A i \in 1..n : WeatherFile[i] \in Int
  BY <1>1, <1>2, DeviceAssumption DEF IsList
<1>4. ASSUME NEW i \in DaySteps PROVE WeatherRow(d, i) \in Int
  <2> DEFINE x == (d - 1) * Steps + i - 1
  <2>1. x \in Int
    <3>1. i \in Int /\ (d - 1) * Steps \in Int
      BY <1>2 DEF DaySteps
    <3>. QED  BY <3>1
  <2>. HIDE DEF x, n
  <2>2. (x % n) + 1 \in 1..n
    BY <1>3, <2>1
  <2>3. WeatherFile[(x % n) + 1] \in Int
    BY <1>3, <2>2
  <2>. QED  BY <2>3 DEF WeatherRow, x, n
<1>. QED  BY <1>1, <1>4 DEF Day

\* The fleet's demand is never more than all its chargers at the named rate.
LEMMA FleetDemandIsBounded ==
    ASSUME NEW fleet \in Nat, NEW n \in Nat \ {0}, NEW drawn \in [1..n -> EvSessions], NEW i \in DaySteps
    PROVE  FleetDemand(fleet, drawn)[i] \in 0..(fleet * NamedRate)
<1>1. i - 1 \in StepsOfDay
  BY DayAssumption DEF DaySteps, StepsOfDay
<1>2. \A v \in 1..n : IsSession(drawn[v]) /\ drawn[v].rate = NamedRate
  BY DeviceAssumption DEF IsSession
<1>3. NamedRate \in Nat
  BY DeviceAssumption
<1> DEFINE w == [v \in 1..n |-> ChargeProfile(drawn[v])[i - 1]]
           c == [v \in 1..n |-> NamedRate]
<1>4. \A v \in 1..n : w[v] \in Nat /\ w[v] <= NamedRate
  BY <1>1, <1>2, ProfileIsDrawn
<1>5. IsFiniteSet(1..n) /\ Cardinality(1..n) = n
  BY FS_Interval
<1>6. DOMAIN w = 1..n /\ \A v \in 1..n : c[v] = NamedRate
  OBVIOUS
<1>7. FleetDemand(fleet, drawn)[i] = (fleet * SumFunction(w)) \div n
  <2>1. DOMAIN drawn = 1..n
    OBVIOUS
  <2>2. [v \in 1..n |-> [u \in 1..n |-> ChargeProfile(drawn[u])][v][i - 1]] = w
    OBVIOUS
  <2>. HIDE DEF w
  <2>. QED  BY <1>5, <2>1, <2>2 DEF FleetDemand
<1>. HIDE DEF w, c
<1>8. SumFunction(w) = SumFunctionOnSet(w, 1..n)
  BY <1>6 DEF SumFunction, SumFunctionOnSet, FoldFunction
<1> DEFINE s == SumFunctionOnSet(w, 1..n)
<1>9. s \in Nat /\ s <= NamedRate * n
  <2>1. Ints(w, 1..n) /\ Ints(c, 1..n) /\ \A v \in 1..n : w[v] <= c[v]
    BY <1>3, <1>4, <1>6 DEF Ints
  <2>2. s <= SumFunctionOnSet(c, 1..n)
    BY <1>5, <2>1, SumIsMonotone
  <2>3. SumFunctionOnSet(c, 1..n) = NamedRate * n
    <3>1. SumFunctionOnSet(c, 1..n) = NamedRate * Cardinality(1..n)
      <4>1. NamedRate \in Int
        BY <1>3
      <4>. QED  BY <1>5, <1>6, <4>1, SumOfConstant
    <3>. QED  BY <3>1, <1>5
  <2>4. s \in Nat
    BY <1>4, <1>5, SumIsNat
  <2>. QED  BY <2>2, <2>3, <2>4
<1>. HIDE DEF s
<1>10. 0 * n <= fleet * s /\ fleet * s <= (fleet * NamedRate) * n /\ fleet * s \in Int
  <2>1. fleet * s <= fleet * (NamedRate * n) /\ fleet * s \in Nat
    BY <1>3, <1>9
  <2>2. fleet * (NamedRate * n) = (fleet * NamedRate) * n
    BY <1>3
  <2>. QED  BY <2>1, <2>2
<1> DEFINE x == fleet * s
           hi == fleet * NamedRate
<1>11. hi \in Nat
  BY <1>3
<1>12. x \div n \in 0..hi
  <2>. HIDE DEF x, hi
  <2>1. 0 * n <= x /\ x <= hi * n /\ x \in Int
    BY <1>10 DEF x, hi
  <2>. QED  BY <1>11, <2>1, ShareBetween
<1>. QED  BY <1>7, <1>8, <1>12 DEF s

LEMMA FilesKept == StoreInv /\ FilesInv /\ [Next]_vars => FilesInv'
<1> SUFFICES ASSUME StoreInv, FilesInv, [Next]_vars PROVE FilesInv'
  OBVIOUS
<1>1. CASE UNCHANGED storeVars
  BY <1>1 DEF storeVars, FilesInv
<1>2. CASE Generate
  BY <1>1, <1>2, GenerateLeavesStore
<1>3. ASSUME NEW u \in Uploaders, NEW n \in Names, NEW up \in Uploads, OpenFile(u, n, up) PROVE FilesInv'
  <2>1. /\ writing'[u] = [busy |-> TRUE, name |-> n, up |-> up]
        /\ \A v \in Uploaders \ {u} : writing'[v] = writing[v]
        /\ ~file'[n].whole
        /\ \A k \in Names \ {n} : file'[k] = file[k]
        /\ disturbed' \subseteq disturbed \union {n} /\ Valid(up)
    BY <1>3 DEF StoreInv, OpenFile, Truncated, NoFile
  <2>. QED  BY <2>1 DEF FilesInv
<1>4. ASSUME NEW u \in Uploaders, CloseFile(u) PROVE FilesInv'
  <2> DEFINE n == writing[u].name
             up == writing[u].up
  <2>1. writing[u].busy /\ n \in Names /\ up \in Uploads /\ Valid(up)
    BY <1>4 DEF StoreInv, IsSave, CloseFile, FilesInv
  <2>2. /\ ~writing'[u].busy
        /\ \A v \in Uploaders \ {u} : writing'[v] = writing[v]
        /\ file'[n] = Overlay(file[n], up)
        /\ \A k \in Names \ {n} : file'[k] = file[k]
        /\ disturbed' = disturbed
    BY <1>4, <2>1 DEF StoreInv, CloseFile, Nobody
  <2>3. up.kind \in Kinds
    BY <2>1, StoreAssumption
  <2>4. IsShape(Normalised(up.values))
    BY <2>1, NormalisedIsShape
  <2>. HIDE DEF n, up
  <2>5. file'[n].there /\ file'[n].kind \in Kinds /\ IsShape(file'[n].values)
    BY <2>2, <2>3, <2>4 DEF Overlay
  <2>. QED  BY <2>2, <2>5 DEF FilesInv
<1>5. ASSUME NEW n \in Names, Delete(n) PROVE FilesInv'
  BY <1>5 DEF Delete, StoreInv, FilesInv, NoFile
<1>6. CASE StoreNext
  BY <1>3, <1>4, <1>5, <1>6 DEF StoreNext
<1>7. CASE Restart
  <2>1. StoreRestart
    BY <1>7 DEF Restart
  <2>2. file' = file /\ disturbed' \subseteq disturbed \union Names /\ \A u \in Uploaders : ~writing'[u].busy
    BY <2>1 DEF StoreRestart, Nobody
  <2>. QED  BY <2>2 DEF FilesInv
<1>8. CASE UNCHANGED vars
  BY <1>1, <1>8 DEF vars
<1>. QED  BY <1>2, <1>6, <1>7, <1>8 DEF Next

-----------------------------------------------------------------------------
(* The command being served: its position, and its battery.                *)

Before == {<<"load", "pv", "ev", "extra", "bess">>, <<"pv", "ev", "extra", "bess">>, <<"ev", "extra", "bess">>,
           <<"extra", "bess">>, <<"bess">>, <<>>}
InService == stage \in {"plugin", "battery"}
Keys == {"load", "pv", "ev", "extra", "bess", "soc", "net"}
Traced(s, n) == DOMAIN s \subseteq Keys /\ \A k \in DOMAIN s : s[k] \in [1..n -> Int]

Serving ==
    /\ stage \in Stages
    /\ stage # "idle" => \E r \in Requests : request = <<r>> /\ buses \in BusData(r) /\ irradiance = Irradiance(r)
    /\ InService => bus \in 1..Len(buses) /\ day \in 1..Req.days
    /\ stage = "plugin" => todo \in Before
    /\ stage = "battery" => todo = <<"bess">> /\ step \in DaySteps

\* What the plugins have contributed so far.
Tracing ==
    /\ InService => Traced(series, Steps) /\ "net" \notin DOMAIN series
    /\ stage = "battery" => {"bess", "soc"} \subseteq DOMAIN series

\* The battery of the day.  It ages only where there is one, and once its
\* turn is over it is one that was created.
Powered ==
    /\ soh \in 0..100 /\ step \in 0..Steps /\ energy \in Int /\ cycled \in Nat
    /\ InService /\ Bus.bess = "none" => soh = 100
    /\ stage = "battery" \/ (stage = "plugin" /\ todo = <<>> /\ Bus.bess # "none") =>
          Bus.bess = "named" /\ BatteryNow.capacity # 0
    /\ EnergyInRange

LEMMA ServedCommand ==
    ASSUME Serving, stage # "idle"
    PROVE  /\ Req \in Requests /\ request = <<Req>> /\ buses \in BusData(Req) /\ irradiance = Irradiance(Req)
           /\ IsBusList(buses) /\ Req.days \in Nat \ {0}
<1>1. PICK r \in Requests : request = <<r>> /\ buses \in BusData(r) /\ irradiance = Irradiance(r)
  BY DEF Serving
<1>2. Req = r
  BY <1>1 DEF Req
<1>3. IsBusList(buses) /\ r.days \in Nat \ {0}
  BY <1>1, BusDataIsList, RequestAssumption
<1>. QED  BY <1>1, <1>2, <1>3

LEMMA ServedBus ==
    ASSUME Serving, InService
    PROVE  /\ Len(buses) \in Nat /\ DOMAIN buses = 1..Len(buses) /\ bus \in 1..Len(buses) /\ day \in 1..Req.days
           /\ IsBusConfig(Bus)
<1>1. stage # "idle" /\ bus \in 1..Len(buses) /\ day \in 1..Req.days
  BY DEF Serving, InService
<1>2. IsBusList(buses)
  BY <1>1, ServedCommand
<1>3. Len(buses) \in Nat /\ DOMAIN buses = 1..Len(buses)
  BY <1>2 DEF IsBusList, IsList
<1>. QED  BY <1>1, <1>2, <1>3 DEF IsBusList, Bus

LEMMA TodoShrinks ==
    ASSUME NEW t \in Before, t # <<>>
    PROVE  Tail(t) \in Before /\ (Tail(t) = <<>> => Head(t) = "bess") /\ (Head(t) = "bess" => t = <<"bess">>)
<1>1. CASE t = <<"load", "pv", "ev", "extra", "bess">>
  BY <1>1 DEF Before
<1>2. CASE t = <<"pv", "ev", "extra", "bess">>
  BY <1>2 DEF Before
<1>3. CASE t = <<"ev", "extra", "bess">>
  BY <1>3 DEF Before
<1>4. CASE t = <<"extra", "bess">>
  BY <1>4 DEF Before
<1>5. CASE t = <<"bess">>
  BY <1>5 DEF Before
<1>. QED  BY <1>1, <1>2, <1>3, <1>4, <1>5 DEF Before

LEMMA BatteryIsProper ==
    ASSUME NEW b, IsBusConfig(b), NEW h \in 0..100
    PROVE  Nameplate(b) \in Nat \ {0} /\ IsBattery(BatteryOf(b, h)) /\ (h = 100 => BatteryOf(b, h).capacity = Nameplate(b))
<1>1. Nameplate(b) \in Nat \ {0}
  BY DeviceAssumption DEF IsBusConfig, Nameplate
<1>2. Rated(b.charge, NamedBattery.charge) \in Nat /\ Rated(b.discharge, NamedBattery.discharge) \in Nat
  BY DeviceAssumption DEF IsBusConfig, Rated
<1> DEFINE n == Nameplate(b)
<1>. HIDE DEF n
<1>3. (n * h) \div 100 \in Nat /\ (n * 100) \div 100 = n
  <2>1. n \in Nat /\ n * h \in Nat
    BY <1>1 DEF n
  <2>. QED  BY <2>1
<1>4. Aged(n, h) \in Nat /\ (h = 100 => Aged(n, h) = n)
  BY <1>3 DEF Aged
<1>. QED  BY <1>1, <1>2, <1>4 DEF IsBattery, BatteryOf, n

\* A new bus: a full day ahead, a battery half charged.
LEMMA StartIsPowered ==
    ASSUME StartBus(buses'[bus']), IsBusList(buses'), bus' \in DOMAIN buses', stage' = "plugin"
    PROVE  /\ day' = 1 /\ todo' = Plugins /\ soh' = 100 /\ energy' \in Int /\ series' = <<>> /\ EnergyInRange'
<1> DEFINE b == buses'[bus']
           n == Nameplate(b)
<1>1. IsBusConfig(b)
  BY DEF IsBusList
<1>2. n \in Nat \ {0} /\ soh' = 100 /\ energy' = 50 * n
  BY <1>1, BatteryIsProper DEF StartBus
<1>3. BatteryOf(b, 100).capacity = n
  BY <1>1, BatteryIsProper
<1>4. BatteryNow' = BatteryOf(b, 100)
  BY <1>2 DEF BatteryNow, Bus
<1>. HIDE DEF n, b
<1>5. MinSoc * n <= energy' /\ energy' <= MaxSoc * n /\ energy' \in Int
  <2>1. MinSoc \in Nat /\ MaxSoc \in Nat /\ MinSoc <= 50 /\ 50 <= MaxSoc
    BY BatteryAssumption, DeviceAssumption
  <2>. QED  BY <1>2, <2>1
<1>6. EnergyInRange'
  BY <1>3, <1>4, <1>5 DEF EnergyInRange, Floor, Ceiling
<1>. QED  BY <1>2, <1>5, <1>6 DEF StartBus

JobInv == Serving /\ Tracing /\ Powered

LEMMA IdleJob ==
    ASSUME stage = "idle", soh = 100, step = 0, energy = 0, cycled = 0
    PROVE  JobInv
BY DayAssumption DEF JobInv, Serving, Stages, InService, Tracing, Powered, EnergyInRange

LEMMA AnswerKeepsJob == Answer => JobInv'
BY DayAssumption DEF Answer, JobInv, Serving, Stages, InService, Tracing, Powered, EnergyInRange

LEMMA ReceiveKeepsJob ==
    ASSUME JobInv, NEW r \in Requests, Receive(r)
    PROVE  JobInv'
<1>1. request' = <<r>> /\ buses' \in BusData(r) /\ irradiance' = Irradiance(r) /\ step' = step /\ cycled' = cycled
  BY DEF Receive
<1>2. step \in 0..Steps /\ cycled \in Nat /\ soh \in 0..100 /\ energy \in Int /\ stage = "idle"
  BY DEF JobInv, Powered, Receive
<1>3. IsBusList(buses')
  BY <1>1, BusDataIsList
<1>4. CASE buses' = <<>>
  <2>1. stage' = "answered" /\ soh' = soh /\ energy' = energy
    BY <1>4 DEF Receive
  <2>. QED  BY <2>1, <1>1, <1>2 DEF JobInv, Serving, Stages, InService, Tracing, Powered, EnergyInRange
<1>5. CASE buses' # <<>>
  <2>1. stage' = "plugin" /\ bus' = 1 /\ StartBus(buses'[1])
    BY <1>5 DEF Receive
  <2>2. bus' \in 1..Len(buses') /\ DOMAIN buses' = 1..Len(buses')
    BY <1>3, <1>5, <2>1 DEF IsBusList, IsList
  <2>3. day' = 1 /\ todo' = Plugins /\ soh' = 100 /\ energy' \in Int /\ series' = <<>> /\ EnergyInRange'
    BY <1>3, <2>1, <2>2, StartIsPowered
  <2>4. Req' = r /\ r.days \in Nat \ {0}
    BY <1>1, RequestAssumption DEF Req
  <2>5. todo' \in Before /\ todo' # <<>>
    BY <2>3 DEF Before, Plugins
  <2>6. Serving'
    BY <1>1, <2>1, <2>2, <2>3, <2>4, <2>5 DEF Serving, Stages, InService
  <2>7. Tracing'
    BY <2>1, <2>3 DEF Tracing, Traced
  <2>8. Powered'
    BY <1>1, <1>2, <2>1, <2>3, <2>5 DEF Powered
  <2>. QED  BY <2>6, <2>7, <2>8 DEF JobInv
<1>. QED  BY <1>4, <1>5

\* A plugin that is done leaves the position and the battery as they were.
LEMMA RanKeepsJob ==
    ASSUME JobInv, stage = "plugin", todo # <<>>, Ran,
           Head(todo) = "bess" => Bus.bess = "none",
           Traced(series', Steps), "net" \notin DOMAIN series'
    PROVE  JobInv'
<1>1. /\ request' = request /\ buses' = buses /\ irradiance' = irradiance /\ bus' = bus /\ day' = day
      /\ step' = step /\ energy' = energy /\ soh' = soh /\ cycled' = cycled /\ stage' = stage
      /\ todo' = Tail(todo)
  BY DEF Ran
<1>2. todo \in Before
  BY DEF JobInv, Serving
<1>3. todo' \in Before /\ (todo' = <<>> => Bus.bess = "none")
  BY <1>1, <1>2, TodoShrinks
<1>4. Bus' = Bus /\ BatteryNow' = BatteryNow /\ Req' = Req
  BY <1>1 DEF Bus, BatteryNow, Req
<1>5. Serving'
  BY <1>1, <1>3, <1>4 DEF JobInv, Serving, Stages, InService
<1>6. Powered'
  BY <1>1, <1>3, <1>4 DEF JobInv, Powered, EnergyInRange, InService
<1>7. Tracing'
  BY <1>1 DEF Tracing, InService
<1>. QED  BY <1>5, <1>6, <1>7 DEF JobInv

LEMMA WithIsTraced ==
    ASSUME NEW s, NEW n, Traced(s, n), NEW key \in Keys, NEW kw \in [1..n -> Int]
    PROVE  Traced(With(s, key, kw), n) /\ DOMAIN With(s, key, kw) = DOMAIN s \union {key}
BY DEF Traced, With

LEMMA PluginsKeepJob ==
    ASSUME JobInv, FilesInv, Skip \/ LoadPlugin \/ PvPlugin \/ EvPlugin \/ ExtraPlugin
    PROVE  JobInv'
<1>1. stage = "plugin" /\ todo # <<>> /\ Ran
  BY DEF Skip, LoadPlugin, PvPlugin, EvPlugin, ExtraPlugin, Turn
<1>2. Head(todo) = "bess" => Bus.bess = "none"
  BY DEF Skip, LoadPlugin, PvPlugin, EvPlugin, ExtraPlugin, Turn, AppliesTo
<1>3. Traced(series, Steps) /\ "net" \notin DOMAIN series
  BY <1>1 DEF JobInv, Tracing, InService
<1>4. IsBusConfig(Bus) /\ Req \in Requests /\ irradiance = Irradiance(Req) /\ day \in 1..Req.days
  BY <1>1, ServedBus, ServedCommand DEF JobInv, InService
<1>5. Bus.load \in Nat /\ Bus.pv \in Nat /\ (Bus.custom => Bus.class \in Names)
  BY <1>4 DEF IsBusConfig
<1>6. Traced(series', Steps) /\ "net" \notin DOMAIN series'
  <2>1. SUFFICES series' = series \/ \E key \in {"load", "pv", "ev", "extra"}, kw \in Day(Int) : series' = With(series, key, kw)
    <3>1. ASSUME NEW key \in {"load", "pv", "ev", "extra"}, NEW kw \in Day(Int), series' = With(series, key, kw)
          PROVE  Traced(series', Steps) /\ "net" \notin DOMAIN series'
      <4>1. key \in Keys /\ key # "net" /\ kw \in [1..Steps -> Int]
        BY DEF Keys, Day, DaySteps
      <4>2. Traced(With(series, key, kw), Steps) /\ DOMAIN With(series, key, kw) = DOMAIN series \union {key}
        BY <1>3, <4>1, WithIsTraced
      <4>. QED  BY <1>3, <3>1, <4>1, <4>2, Zenon
    <3>. QED  BY <1>3, <2>1, <3>1
  <2>2. CASE Skip
    BY <2>2 DEF Skip
  <2>3. CASE LoadPlugin
    <3>0. PICK template \in LoadShapes : \E shape \in Diversified(template, Households(Bus.load)) :
             series' = With(series, "load", Scaled(Bus.load, shape))
      BY <2>3, Zenon DEF LoadPlugin, Contribute
    <3>1. PICK shape \in Diversified(template, Households(Bus.load)) :
             series' = With(series, "load", Scaled(Bus.load, shape))
      BY <3>0
    <3>2. template \in Day(Int)
      <4>1. CASE Bus.custom
        <5>1. template \in Day(0..100)
          BY <4>1, <3>0, <1>5, StoredShape DEF LoadShapes
        <5>. QED  BY <5>1 DEF Day
      <4>2. CASE ~Bus.custom
        BY <4>2, <3>0, DeviceAssumption DEF LoadShapes, Day
      <4>. QED  BY <4>1, <4>2
    <3>3. Households(Bus.load) \in Nat
      BY <1>5, HouseholdsInRange
    <3>4. Scaled(Bus.load, shape) \in Day(Int)
      BY <1>5, <3>1, <3>2, <3>3, DiversifiedIsTrace, ScaledIsTrace
    <3>. QED  BY <3>1, <3>4
  <2>4. CASE PvPlugin
    <3>1. PICK shape \in SolarShapes :
             series' = With(series, "pv", [i \in DaySteps |-> Clip((Bus.pv * shape[i]) \div 100, 0, Bus.pv)])
      BY <2>4 DEF PvPlugin, Contribute
    <3>2. shape \in Day(Int)
      <4>1. CASE Req.pvProfile # {}
        <5>1. PICK n \in Req.pvProfile : shape \in FromStore(n, "pv")
          BY <4>1, <3>1 DEF SolarShapes
        <5>2. n \in Names
          BY <1>4, RequestAssumption
        <5>3. shape \in Day(0..100)
          BY <5>1, <5>2, StoredShape
        <5>. QED  BY <5>3 DEF Day
      <4>2. CASE Req.pvProfile = {} /\ irradiance # <<>>
        BY <4>2, <3>1, <1>4, IrradianceIsTraces DEF SolarShapes
      <4>3. CASE Req.pvProfile = {} /\ irradiance = <<>>
        BY <4>3, <3>1, DeviceAssumption DEF SolarShapes, Day
      <4>. QED  BY <4>1, <4>2, <4>3
    <3>3. ASSUME NEW i \in DaySteps PROVE Clip((Bus.pv * shape[i]) \div 100, 0, Bus.pv) \in Int
      <4> DEFINE x == Bus.pv * shape[i]
      <4>1. x \in Int
        BY <1>5, <3>2 DEF Day
      <4>. HIDE DEF x
      <4>2. x \div 100 \in Int
        BY <4>1
      <4> DEFINE q == x \div 100
      <4>3. q \in Int /\ 0 <= Bus.pv
        BY <4>2, <1>5
      <4>. HIDE DEF q
      <4>4. Clip(q, 0, Bus.pv) \in 0..Bus.pv
        <5> DEFINE p == Bus.pv
        <5>1. p \in Int /\ 0 <= p
          BY <1>5
        <5>. HIDE DEF p
        <5>2. Clip(q, 0, p) \in 0..p
          BY <4>3, <5>1, ClipStaysBetween
        <5>. QED  BY <5>2 DEF p
      <4>. QED  BY <4>4, <1>5 DEF x, q
    <3>4. [i \in DaySteps |-> Clip((Bus.pv * shape[i]) \div 100, 0, Bus.pv)] \in Day(Int)
      BY <3>3 DEF Day
    <3>. QED  BY <3>1, <3>4
  <2>5. CASE EvPlugin
    <3> DEFINE fleet == Households(Bus.load)
    <3>0. fleet \in 1..MaxHouseholds /\ MaxEvs \in Nat \ {0}
      BY <1>5, HouseholdsInRange, DeviceAssumption
    <3>1. CASE \E drawn \in [1..Smaller(fleet, MaxEvs) -> EvSessions] : series' = With(series, "ev", FleetDemand(fleet, drawn))
      <4>1. PICK drawn \in [1..Smaller(fleet, MaxEvs) -> EvSessions] : series' = With(series, "ev", FleetDemand(fleet, drawn))
        BY <3>1
      <4>. HIDE DEF fleet
      <4>2. fleet \in Nat /\ Smaller(fleet, MaxEvs) \in Nat \ {0}
        BY <3>0 DEF Smaller
      <4> DEFINE n == Smaller(fleet, MaxEvs)
      <4>. HIDE DEF n
      <4>3. \A i \in DaySteps : FleetDemand(fleet, drawn)[i] \in 0..(fleet * NamedRate)
        BY <4>2, FleetDemandIsBounded DEF n
      <4>4. FleetDemand(fleet, drawn) = [i \in DaySteps |-> FleetDemand(fleet, drawn)[i]]
        BY DEF FleetDemand
      <4>5. FleetDemand(fleet, drawn) \in Day(Int)
        BY <4>3, <4>4 DEF Day
      <4>. QED  BY <4>1, <4>5
    <3>2. CASE \E n \in Req.evProfile : \E shape \in FromStore(n, "ev") : series' = With(series, "ev", Scaled(FleetKw(Bus), shape))
      <4>0. PICK n \in Req.evProfile : \E shape \in FromStore(n, "ev") : series' = With(series, "ev", Scaled(FleetKw(Bus), shape))
        BY <3>2
      <4>1. PICK shape \in FromStore(n, "ev") : series' = With(series, "ev", Scaled(FleetKw(Bus), shape))
        BY <4>0
      <4>2. n \in Names
        BY <1>4, RequestAssumption
      <4>3. shape \in Day(Int)
        <5>1. shape \in Day(0..100)
          BY <4>1, <4>2, StoredShape
        <5>. QED  BY <5>1 DEF Day
      <4>4. FleetKw(Bus) \in Nat
        <5>1. Rated(Bus.evRate, IF Bus.ev = "named" THEN NamedRate ELSE 0) \in Nat
          BY <1>4, DeviceAssumption DEF Rated, IsBusConfig
        <5>2. fleet \in Nat
          BY <3>0
        <5>. HIDE DEF fleet
        <5>3. fleet * Rated(Bus.evRate, IF Bus.ev = "named" THEN NamedRate ELSE 0) \in Nat
          BY <5>1, <5>2
        <5>. QED  BY <5>3 DEF FleetKw, fleet
      <4>. QED  BY <4>1, <4>3, <4>4, ScaledIsTrace
    <3>. HIDE DEF fleet
    <3>. QED  BY <2>5, <3>1, <3>2 DEF EvPlugin, Contribute, fleet
  <2>6. CASE ExtraPlugin
    BY <2>6, DeviceAssumption DEF ExtraPlugin, Day
  <2>. QED  BY <2>2, <2>3, <2>4, <2>5, <2>6
<1>. QED  BY <1>1, <1>2, <1>6, RanKeepsJob

LEMMA BatteryPluginKeepsJob ==
    ASSUME JobInv, BatteryPlugin
    PROVE  JobInv'
<1>1. /\ request' = request /\ buses' = buses /\ irradiance' = irradiance /\ bus' = bus /\ day' = day /\ todo' = todo
      /\ energy' = energy /\ soh' = soh /\ cycled' = 0 /\ stage' = "battery" /\ step' = 1
      /\ series' = With(With(series, "soc", Zeros), "bess", Zeros)
      /\ stage = "plugin" /\ todo # <<>> /\ Head(todo) = "bess" /\ Bus.bess = "named" /\ BatteryNow.capacity > 0
  BY DEF BatteryPlugin, Turn
<1>2. todo = <<"bess">>
  BY <1>1, TodoShrinks DEF JobInv, Serving
<1>3. Bus' = Bus /\ BatteryNow' = BatteryNow /\ Req' = Req
  BY <1>1 DEF Bus, BatteryNow, Req
<1>4. 1 \in DaySteps /\ 1 \in 0..Steps
  BY DayAssumption DEF DaySteps
<1>5. Serving'
  BY <1>1, <1>2, <1>3, <1>4 DEF JobInv, Serving, Stages, InService
<1>6. BatteryNow.capacity # 0
  <2>1. ~(0 > 0)
    OBVIOUS
  <2>. QED  BY <1>1, <2>1
<1>7. Powered'
  BY <1>1, <1>3, <1>4, <1>6 DEF JobInv, Powered, EnergyInRange, InService
<1>8. Tracing'
  <2>1. Zeros \in [1..Steps -> Int]
    BY DEF Zeros, DaySteps
  <2>2. Traced(series, Steps) /\ "net" \notin DOMAIN series
    BY <1>1 DEF JobInv, Tracing, InService
  <2> DEFINE s == With(series, "soc", Zeros)
  <2>3. Traced(s, Steps) /\ DOMAIN s = DOMAIN series \union {"soc"}
    BY <2>1, <2>2, WithIsTraced DEF Keys
  <2>. HIDE DEF s
  <2>4. Traced(With(s, "bess", Zeros), Steps) /\ DOMAIN With(s, "bess", Zeros) = DOMAIN s \union {"bess"}
    BY <2>1, <2>3, WithIsTraced DEF Keys
  <2>5. series' = With(s, "bess", Zeros)
    BY <1>1 DEF s
  <2>. QED  BY <1>1, <2>2, <2>3, <2>4, <2>5 DEF Tracing
<1>. QED  BY <1>5, <1>7, <1>8 DEF JobInv

\* What the battery sees and is asked for, and what it answers.
LEMMA BatteryAnswers ==
    ASSUME JobInv, stage = "battery"
    PROVE  /\ IsBattery(BatteryNow) /\ step \in DaySteps /\ energy \in Int
           /\ \A key : Contributed(key)[step] \in Int
           /\ Requested \in Int /\ Delivered(BatteryNow, energy, Requested) \in Int
<1>1. IsBusConfig(Bus) /\ soh \in 0..100 /\ energy \in Int /\ step \in DaySteps
  BY ServedBus DEF JobInv, InService, Powered, Serving
<1>2. IsBattery(BatteryNow)
  BY <1>1, BatteryIsProper DEF BatteryNow
<1>3. ASSUME NEW key PROVE Contributed(key)[step] \in Int
  <2>1. CASE key \in DOMAIN series
    <3>1. series[key] \in [1..Steps -> Int]
      BY <2>1 DEF JobInv, Tracing, Traced, InService
    <3>. QED  BY <2>1, <3>1, <1>1 DEF Contributed, DaySteps
  <2>2. CASE key \notin DOMAIN series
    BY <2>2, <1>1 DEF Contributed, Zeros
  <2>. QED  BY <2>1, <2>2
<1>4. AvailableCharge(BatteryNow, energy) \in Nat /\ AvailableDischarge(BatteryNow, energy) \in Nat
  BY <1>1, <1>2, AvailableIsBounded DEF IsBattery
<1> DEFINE load == Contributed("load")[step]
           ev == Contributed("ev")[step]
           pv == Contributed("pv")[step]
<1>5. load \in Int /\ ev \in Int /\ pv \in Int
  BY <1>3
<1>. HIDE DEF load, ev, pv
<1>6. Requested \in Int
  BY <1>4, <1>5 DEF Requested, TimeOfUse, SelfConsumption, Smaller, NonNegative, Bigger, load, ev, pv
<1>7. Delivered(BatteryNow, energy, Requested) \in Int
  <2> DEFINE asked == Requested
  <2>1. asked \in Int
    BY <1>6
  <2>. HIDE DEF asked
  <2>2. Delivered(BatteryNow, energy, asked) \in Int
    BY <1>4, <2>1 DEF Delivered, Smaller, Bigger
  <2>. QED  BY <2>2 DEF asked
<1>. QED  BY <1>1, <1>2, <1>3, <1>6, <1>7

LEMMA BatteryStepKeepsJob ==
    ASSUME JobInv, BatteryStep
    PROVE  JobInv'
<1> DEFINE power == Delivered(BatteryNow, energy, Requested)
           trace == [series EXCEPT !["bess"][step] = power, !["soc"][step] = energy']
<1>1. /\ request' = request /\ buses' = buses /\ irradiance' = irradiance /\ bus' = bus /\ day' = day
      /\ soh' = soh /\ cycled' = cycled + NonNegative(power)
      /\ energy' = Stored(BatteryNow, energy, power) /\ series' = trace /\ stage = "battery"
  BY DEF BatteryStep
<1>2. /\ step < Steps => step' = step + 1 /\ todo' = todo /\ stage' = stage
      /\ ~(step < Steps) => step' = 0 /\ todo' = Tail(todo) /\ stage' = "plugin"
  BY DEF BatteryStep
<1>3. IsBattery(BatteryNow) /\ step \in DaySteps /\ energy \in Int /\ power \in Int
  BY <1>1, BatteryAnswers
<1>4. energy' \in Int
  BY <1>1, <1>3, StoredInRange DEF IsBattery
<1>. HIDE DEF power
<1>5. cycled' \in Nat
  BY <1>1, <1>3 DEF JobInv, Powered, NonNegative, Bigger
<1>6. step' \in 0..Steps /\ (step < Steps => step' \in DaySteps)
  BY <1>2, <1>3, DayAssumption DEF DaySteps
<1>7. todo = <<"bess">>
  BY <1>1 DEF JobInv, Serving
<1>8. Tail(todo) = <<>>
  BY <1>7
<1>9. Bus' = Bus /\ BatteryNow' = BatteryNow /\ Req' = Req
  BY <1>1 DEF Bus, BatteryNow, Req
<1>10. EnergyInRange'
  <2>1. BatteryNow.capacity \in Nat
    BY <1>3 DEF IsBattery
  <2>. QED  BY <1>3, <2>1, StepKeepsEnergy DEF power
<1>11. Serving'
  BY <1>1, <1>2, <1>6, <1>7, <1>8, <1>9 DEF JobInv, Serving, Stages, InService, Before
<1>12. Powered'
  BY <1>1, <1>2, <1>4, <1>5, <1>6, <1>9, <1>10 DEF JobInv, Powered, InService
<1>13. Tracing'
  <2>1. Traced(series, Steps) /\ "net" \notin DOMAIN series /\ {"bess", "soc"} \subseteq DOMAIN series
    BY <1>1 DEF JobInv, Tracing, InService
  <2>2. DOMAIN trace = DOMAIN series
    OBVIOUS
  <2>3. ASSUME NEW k \in DOMAIN series PROVE trace[k] \in [1..Steps -> Int]
    <3>1. series[k] \in [1..Steps -> Int] /\ step \in 1..Steps
      BY <2>1, <1>3 DEF Traced, DaySteps
    <3>2. CASE k = "bess"
      <4>1. trace[k] = [series[k] EXCEPT ![step] = power]
        BY <2>1, <3>2
      <4>. QED  BY <1>3, <3>1, <4>1
    <3>3. CASE k = "soc"
      <4>1. trace[k] = [series[k] EXCEPT ![step] = energy']
        BY <2>1, <3>3
      <4>. QED  BY <1>4, <3>1, <4>1
    <3>4. CASE k \notin {"bess", "soc"}
      BY <3>1, <3>4
    <3>. QED  BY <3>2, <3>3, <3>4
  <2>. HIDE DEF trace
  <2>4. Traced(series', Steps) /\ DOMAIN series' = DOMAIN series
    BY <1>1, <2>1, <2>2, <2>3 DEF Traced
  <2>. QED  BY <2>1, <2>4 DEF Tracing
<1>. QED  BY <1>11, <1>12, <1>13 DEF JobInv

\* The night: a battery ages by what it cycled, the others do not.
LEMMA AgeingIsBounded ==
    ASSUME JobInv, stage = "plugin"
    PROVE  AgedTonight \in 0..100 /\ (Bus.bess = "none" => AgedTonight = 100)
<1>1. soh \in 0..100 /\ cycled \in Nat /\ (Bus.bess = "none" => soh = 100) /\ Nameplate(Bus) \in Nat \ {0}
  BY ServedBus, BatteryIsProper DEF JobInv, Powered, InService
<1> DEFINE n == Nameplate(Bus)
           x == CycleFade * cycled
<1>2. x \in Nat /\ CalendarFade \in Nat /\ n \in Nat \ {0}
  BY <1>1, BatteryAssumption
<1>. HIDE DEF x, n
<1>3. x \div n \in Nat
  BY <1>2
<1> DEFINE q == x \div n
<1>. HIDE DEF q
<1>4. NonNegative(soh - (q + CalendarFade)) \in 0..100
  BY <1>1, <1>2, <1>3 DEF NonNegative, Bigger, q
<1>. QED  BY <1>1, <1>4 DEF AgedTonight, Health, x, n, q

LEMMA EndOfDayKeepsJob ==
    ASSUME JobInv, EndOfDay
    PROVE  JobInv'
<1>1. /\ request' = request /\ buses' = buses /\ irradiance' = irradiance /\ bus' = bus /\ day' = day + 1
      /\ soh' = AgedTonight /\ cycled' = cycled /\ step' = step /\ stage' = stage
      /\ todo' = Plugins /\ series' = <<>> /\ stage = "plugin" /\ todo = <<>> /\ day < Req.days
      /\ energy' = IF Aged(Nameplate(Bus), soh') = 0 THEN 0
                   ELSE Rescaled(energy, BatteryNow.capacity, Aged(Nameplate(Bus), soh'))
  BY DEF EndOfDay
<1>2. soh' \in 0..100 /\ (Bus.bess = "none" => soh' = 100)
  BY <1>1, AgeingIsBounded
<1>3. Bus' = Bus /\ Req' = Req
  BY <1>1 DEF Bus, Req
<1>4. IsBusConfig(Bus) /\ day \in 1..Req.days /\ Req.days \in Nat \ {0} /\ soh \in 0..100 /\ energy \in Int
  BY <1>1, ServedBus, ServedCommand DEF JobInv, InService, Powered
<1>5. Nameplate(Bus) \in Nat \ {0} /\ IsBattery(BatteryNow) /\ IsBattery(BatteryOf(Bus, soh'))
  BY <1>2, <1>4, BatteryIsProper DEF BatteryNow
<1>6. BatteryNow.capacity \in Nat \ {0}
  <2>1. CASE Bus.bess = "none"
    <3>1. soh = 100
      BY <1>1, <2>1 DEF JobInv, Powered, InService
    <3>. QED  BY <1>4, <3>1, BatteryIsProper DEF BatteryNow
  <2>2. CASE Bus.bess # "none"
    <3>1. BatteryNow.capacity # 0
      BY <1>1, <2>2 DEF JobInv, Powered
    <3>. QED  BY <1>5, <3>1 DEF IsBattery
  <2>. QED  BY <2>1, <2>2
<1>7. energy' \in Int
  <2> DEFINE to == Aged(Nameplate(Bus), soh')
             from == BatteryNow.capacity
  <2>1. to \in Nat
    BY <1>5 DEF IsBattery, BatteryOf
  <2>2. from \in Nat \ {0}
    BY <1>6
  <2>3. energy' = IF to = 0 THEN 0 ELSE (energy * to) \div from
    BY <1>1 DEF Rescaled
  <2>. HIDE DEF to, from
  <2>4. energy * to \in Int
    BY <2>1, <1>4
  <2>5. (energy * to) \div from \in Int
    BY <2>2, <2>4, QuotientIsInteger
  <2>. QED  BY <2>3, <2>5
<1>8. EnergyInRange'
  <2>1. soh' \in Nat /\ Nameplate(Bus) \in Nat
    BY <1>2, <1>5
  <2>2. EnergyInRange
    BY DEF JobInv, Powered
  <2>. QED  BY <1>4, <1>6, <2>1, <2>2, NightKeepsEnergy
<1>9. todo' \in Before /\ todo' # <<>>
  BY <1>1 DEF Before, Plugins
<1>10. Serving'
  <2>1. day' \in 1..Req'.days
    BY <1>1, <1>3, <1>4
  <2>. QED  BY <1>1, <1>3, <1>9, <2>1 DEF JobInv, Serving, Stages, InService
<1>11. Powered'
  BY <1>1, <1>2, <1>3, <1>7, <1>8, <1>9 DEF JobInv, Powered, InService
<1>12. Tracing'
  BY <1>1 DEF Tracing, Traced
<1>. QED  BY <1>10, <1>11, <1>12 DEF JobInv

LEMMA EndOfBusKeepsJob ==
    ASSUME JobInv, EndOfBus
    PROVE  JobInv'
<1>1. /\ request' = request /\ buses' = buses /\ irradiance' = irradiance /\ step' = step /\ cycled' = cycled
      /\ stage = "plugin"
      /\ bus < Len(buses) => bus' = bus + 1 /\ StartBus(buses[bus + 1]) /\ stage' = stage
      /\ ~(bus < Len(buses)) => stage' = "answered" /\ energy' = energy /\ soh' = soh
  BY DEF EndOfBus
<1>2. stage # "idle" /\ InService /\ Req' = Req
  BY <1>1 DEF InService, Req
<1>3. Len(buses) \in Nat /\ DOMAIN buses = 1..Len(buses) /\ bus \in 1..Len(buses) /\ IsBusList(buses) /\ Req.days \in Nat \ {0}
  BY <1>2, ServedBus, ServedCommand DEF JobInv
<1>4. CASE bus < Len(buses)
  <2>1. bus' \in DOMAIN buses' /\ bus' \in 1..Len(buses') /\ IsBusList(buses') /\ StartBus(buses'[bus']) /\ stage' = "plugin"
    BY <1>1, <1>3, <1>4
  <2>2. day' = 1 /\ todo' = Plugins /\ soh' = 100 /\ energy' \in Int /\ series' = <<>> /\ EnergyInRange'
    BY <2>1, StartIsPowered
  <2>3. todo' \in Before /\ todo' # <<>> /\ day' \in 1..Req'.days
    BY <1>2, <1>3, <2>2 DEF Before, Plugins
  <2>4. Serving'
    BY <1>1, <1>2, <2>1, <2>2, <2>3 DEF JobInv, Serving, Stages, InService
  <2>5. Powered'
    BY <1>1, <2>1, <2>2, <2>3 DEF JobInv, Powered
  <2>6. Tracing'
    BY <2>1, <2>2 DEF Tracing, Traced
  <2>. QED  BY <2>4, <2>5, <2>6 DEF JobInv
<1>5. CASE ~(bus < Len(buses))
  BY <1>1, <1>2, <1>5 DEF JobInv, Serving, Stages, InService, Tracing, Powered, EnergyInRange
<1>. QED  BY <1>4, <1>5

LEMMA JobKept == FilesInv /\ JobInv /\ [Next]_vars => JobInv'
<1> SUFFICES ASSUME FilesInv, JobInv, [Next]_vars PROVE JobInv'
  OBVIOUS
<1>1. CASE UNCHANGED jobVars
  BY <1>1 DEF jobVars, JobInv, Serving, InService, Req, Bus, Tracing, Powered, EnergyInRange, BatteryNow
<1>2. ASSUME NEW r \in Requests, Receive(r) PROVE JobInv'
  BY <1>2, ReceiveKeepsJob
<1>3. CASE Skip \/ LoadPlugin \/ PvPlugin \/ EvPlugin \/ ExtraPlugin
  BY <1>3, PluginsKeepJob
<1>4. CASE BatteryPlugin
  BY <1>4, BatteryPluginKeepsJob
<1>5. CASE BatteryStep
  BY <1>5, BatteryStepKeepsJob
<1>6. CASE EndOfDay
  BY <1>6, EndOfDayKeepsJob
<1>7. CASE EndOfBus
  BY <1>7, EndOfBusKeepsJob
<1>8. CASE PluginFails \/ Reply \/ Restart
  BY <1>8, AnswerKeepsJob DEF PluginFails, Fail, Reply, Restart
<1>9. CASE StoreNext /\ UNCHANGED jobVars
  BY <1>1, <1>9
<1>10. CASE UNCHANGED vars
  BY <1>1, <1>10 DEF vars
<1>. QED  BY <1>2, <1>3, <1>4, <1>5, <1>6, <1>7, <1>8, <1>9, <1>10 DEF Next, Generate

LEMMA InitJob == Init => StoreInv /\ FilesInv /\ JobInv
<1> SUFFICES ASSUME Init PROVE StoreInv /\ FilesInv /\ JobInv
  OBVIOUS
<1>1. StoreInv
  BY StoreEstablished DEF Init
<1>2. FilesInv
  BY DEF Init, StoreInit, FilesInv, NoFile, Nobody
<1>3. JobInv
  BY IdleJob DEF Init, Idle
<1>. QED  BY <1>1, <1>2, <1>3

LEMMA Generating == Spec => [](StoreInv /\ FilesInv /\ JobInv)
<1>1. StoreInv /\ FilesInv /\ JobInv /\ [Next]_vars => (StoreInv /\ FilesInv /\ JobInv)'
  BY StoreKept, FilesKept, JobKept
<1>. QED  BY InitJob, <1>1, PTL DEF Spec

(* The position in the command is one the command has, and the files and   *)
(* writers are what the upload handlers make of them.                      *)
THEOREM GenerationTypes == Spec => []TypeOK
<1>1. StoreInv /\ FilesInv /\ JobInv => TypeOK
  <2> SUFFICES ASSUME StoreInv, FilesInv, JobInv PROVE TypeOK
    OBVIOUS
  <2>1. \A u \in Uploaders : writing[u].busy => writing[u].name \in Names /\ Valid(writing[u].up)
    BY DEF StoreInv, IsSave, FilesInv
  <2>2. stage = "battery" => step >= 1 /\ Head(todo) = "bess"
    <3>1. Head(<<"bess">>) = "bess"
      OBVIOUS
    <3>. QED  BY <3>1, DayAssumption DEF JobInv, Serving, DaySteps
  <2>. QED  BY <2>1, <2>2 DEF JobInv, Serving, Powered, FilesInv, TypeOK, InService
<1>. QED  BY <1>1, Generating, PTL

(* Whatever a command asks for, whatever its buses have installed and      *)
(* however long its horizon, the stored energy stays in the usable range   *)
(* of the battery as aged so far, within a day and across the nights.      *)
THEOREM EnergyStaysInRange == Spec => []EnergyInRange
<1>1. JobInv => EnergyInRange
  BY DEF JobInv, Powered
<1>. QED  BY <1>1, Generating, PTL

ReadInv == \A s \in read : s.whole /\ s.kind = s.asked

LEMMA ReadsKeepKind ==
    ASSUME ReadInv, NEW n, NEW kind, Usable(n, kind), Reads(n, kind)
    PROVE  ReadInv'
<1> DEFINE s == [asked |-> kind, kind |-> file[n].kind, whole |-> file[n].whole]
<1>1. read' = read \union {s}
  BY DEF Reads
<1>2. s.whole /\ s.kind = s.asked
  BY DEF Usable
<1>. HIDE DEF s
<1>. QED  BY <1>1, <1>2 DEF ReadInv

LEMMA ReadKept == JobInv /\ ReadInv /\ [Next]_vars => ReadInv'
<1> SUFFICES ASSUME JobInv, ReadInv, [Next]_vars PROVE ReadInv'
  OBVIOUS
<1>1. CASE UNCHANGED read
  BY <1>1 DEF ReadInv
<1>2. CASE LoadPlugin
  <2>1. CASE Bus.custom
    <3>1. PICK template \in LoadShapes : TRUE
      BY <1>2 DEF LoadPlugin
    <3>2. Usable(Bus.class, "load")
      BY <2>1, <3>1 DEF LoadShapes, FromStore
    <3>. QED  BY <1>2, <2>1, <3>2, ReadsKeepKind DEF LoadPlugin
  <2>2. CASE ~Bus.custom
    BY <1>1, <1>2, <2>2 DEF LoadPlugin
  <2>. QED  BY <2>1, <2>2
<1>3. CASE PvPlugin
  <2>1. CASE Req.pvProfile = {}
    BY <1>1, <1>3, <2>1 DEF PvPlugin
  <2>2. CASE Req.pvProfile # {}
    <3>1. PICK n \in Req.pvProfile : Reads(n, "pv")
      BY <1>3, <2>2 DEF PvPlugin
    <3>2. PICK shape \in SolarShapes : TRUE
      BY <1>3 DEF PvPlugin
    <3>3. PICK m \in Req.pvProfile : FromStore(m, "pv") # {}
      BY <2>2, <3>2 DEF SolarShapes
    <3>4. Req \in Requests
      BY <1>3, ServedCommand DEF JobInv, PvPlugin, Turn
    <3>5. m = n
      BY <3>1, <3>3, <3>4, RequestAssumption
    <3>6. Usable(n, "pv")
      BY <3>3, <3>5 DEF FromStore
    <3>. QED  BY <3>1, <3>6, ReadsKeepKind
  <2>. QED  BY <2>1, <2>2
<1>4. CASE EvPlugin
  <2>1. CASE UNCHANGED read
    BY <1>1, <2>1
  <2>2. CASE \E n \in Req.evProfile : \E shape \in FromStore(n, "ev") : Reads(n, "ev")
    <3>1. PICK n \in Req.evProfile : FromStore(n, "ev") # {} /\ Reads(n, "ev")
      BY <2>2
    <3>2. Usable(n, "ev")
      BY <3>1 DEF FromStore
    <3>. QED  BY <3>1, <3>2, ReadsKeepKind
  <2>. QED  BY <1>4, <2>1, <2>2 DEF EvPlugin
<1>5. ASSUME NEW r \in Requests, Receive(r) PROVE ReadInv'
  BY <1>1, <1>5 DEF Receive
<1>6. CASE Skip \/ ExtraPlugin \/ BatteryPlugin \/ BatteryStep \/ EndOfDay \/ EndOfBus
  BY <1>1, <1>6 DEF Skip, ExtraPlugin, BatteryPlugin, BatteryStep, EndOfDay, EndOfBus
<1>7. CASE PluginFails \/ Reply \/ Restart
  BY <1>7 DEF PluginFails, Fail, Reply, Restart, Answer, ReadInv
<1>8. CASE StoreNext /\ UNCHANGED jobVars
  BY <1>1, <1>8 DEF jobVars
<1>9. CASE UNCHANGED vars
  BY <1>1, <1>9 DEF vars, jobVars
<1>. QED  BY <1>2, <1>3, <1>4, <1>5, <1>6, <1>7, <1>8, <1>9 DEF Next, Generate

(* Whatever is saved and deleted while a horizon is generated, every shape *)
(* that went into it was a complete profile of the kind it was used as, in *)
(* per-unit of its peak at every timestep, whatever the upload's length.   *)
THEOREM ShapesAreProper == Spec => []ShapesAreTheirKind
<1>1. Init => ReadInv
  BY DEF Init, Idle, ReadInv
<1>2. FilesInv /\ ReadInv => ShapesAreTheirKind
  <2> SUFFICES ASSUME FilesInv, ReadInv PROVE ShapesAreTheirKind
    OBVIOUS
  <2>1. \A n \in Classes : Usable(n, "load")
    BY DEF Classes, Listed, Usable
  <2>. QED  BY <2>1, ShapeInRange DEF ShapesAreTheirKind, ReadInv
<1>. QED  BY <1>1, <1>2, ReadKept, Generating, PTL DEF Spec

-----------------------------------------------------------------------------
(* The sessions a fleet's demand was drawn from.                           *)

SessionsInv == \A v \in DOMAIN sessions : sessions[v] \in EvSessions

LEMMA SessionsKept == SessionsInv /\ [Next]_vars => SessionsInv'
<1> SUFFICES ASSUME SessionsInv, [Next]_vars PROVE SessionsInv'
  OBVIOUS
<1>1. CASE UNCHANGED sessions
  BY <1>1 DEF SessionsInv
<1>2. CASE sessions' = <<>>
  BY <1>2 DEF SessionsInv
<1>3. CASE EvPlugin
  <2>1. CASE \E n : \E drawn \in [1..n -> EvSessions] : sessions' = drawn
    BY <2>1 DEF SessionsInv
  <2>. QED  BY <1>1, <1>3, <2>1, Zenon DEF EvPlugin
<1>4. ASSUME NEW r \in Requests, Receive(r) PROVE SessionsInv'
  BY <1>1, <1>4 DEF Receive
<1>5. CASE Skip \/ LoadPlugin \/ PvPlugin \/ ExtraPlugin \/ BatteryPlugin \/ BatteryStep
  BY <1>1, <1>5 DEF Skip, LoadPlugin, PvPlugin, ExtraPlugin, BatteryPlugin, BatteryStep
<1>6. CASE EndOfDay \/ EndOfBus
  BY <1>2, <1>6 DEF EndOfDay, EndOfBus
<1>7. CASE PluginFails \/ Reply \/ Restart
  BY <1>2, <1>7 DEF PluginFails, Fail, Reply, Restart, Answer
<1>8. CASE StoreNext /\ UNCHANGED jobVars
  BY <1>1, <1>8 DEF jobVars
<1>9. CASE UNCHANGED vars
  BY <1>1, <1>9 DEF vars, jobVars
<1>. QED  BY <1>3, <1>4, <1>5, <1>6, <1>7, <1>8, <1>9 DEF Next, Generate

(* A vehicle draws only while it is plugged in, never above its charger's  *)
(* rate, and over the day its whole need or all the charger gives in the   *)
(* timesteps it is plugged in; a smart one misses that overnight by less   *)
(* than a timestep at its even rate: for every session and timestep length.*)
THEOREM SessionsDrawWhatFits == Spec => []EvDrawsWhatFits
<1>1. Init => SessionsInv
  BY DEF Init, Idle, SessionsInv
<1>2. SessionsInv => EvDrawsWhatFits
  <2> SUFFICES ASSUME SessionsInv, NEW v \in DOMAIN sessions
               PROVE  LET s == sessions[v]
                          profile == ChargeProfile(s)
                          drawn == SumFunction(profile)
                          plugged == {i \in StepsOfDay : PluggedIn(s, i)}
                          fits == Smaller(s.need, Cardinality(plugged) * s.rate)
                          spread == (s.need * Ticks) \div WindowTicks(s)
                          overnight == s.departure < s.planned /\ s.arrival < s.departure + DayTicks
                      IN /\ \A i \in StepsOfDay : profile[i] # 0 => i \in plugged /\ profile[i] \in 1..s.rate
                         /\ IF s.mode # "smart" THEN drawn = fits
                            ELSE /\ \A i \in StepsOfDay : profile[i] <= spread
                                 /\ drawn <= fits
                                 /\ overnight => (fits - drawn) * Ticks < spread * Ticks + WindowTicks(s)
    BY Zenon DEF EvDrawsWhatFits
  <2> DEFINE s == sessions[v]
  <2>1. s \in EvSessions
    BY DEF SessionsInv
  <2>2. IsSession(s)
    BY <2>1, DeviceAssumption DEF IsSession
  <2>. HIDE DEF s
  <2>3. ASSUME NEW i \in StepsOfDay, ChargeProfile(s)[i] # 0
        PROVE  i \in Plugged(s) /\ ChargeProfile(s)[i] \in 1..s.rate
    BY <2>2, <2>3, ProfileIsDrawn DEF IsSession, Plugged
  <2>4. CASE s.mode # "smart"
    <3>1. ChargePower(s) = s.rate
      BY <2>4 DEF ChargePower
    <3>2. SumFunction(ChargeProfile(s)) = Smaller(s.need, Cardinality(Plugged(s)) * s.rate)
      BY <2>2, <3>1, SessionDrawsWhatFits
    <3>. QED  BY <2>3, <2>4, <3>2, Zenon DEF s, Plugged
  <2>5. CASE s.mode = "smart"
    <3>1. LET drawn == SumFunction(ChargeProfile(s))
              fits == Smaller(s.need, Cardinality(Plugged(s)) * s.rate)
              spread == (s.need * Ticks) \div WindowTicks(s)
          IN /\ \A i \in StepsOfDay : ChargeProfile(s)[i] <= spread
             /\ drawn <= fits
             /\ s.departure < s.planned /\ s.arrival < s.departure + DayTicks =>
                   (fits - drawn) * Ticks < spread * Ticks + WindowTicks(s)
      BY <2>2, <2>5, SmartMissesLittle, Zenon
    <3>. QED  BY <2>3, <2>5, <3>1, Zenon DEF s, Plugged
  <2>. QED  BY <2>4, <2>5
<1>. QED  BY <1>1, <1>2, SessionsKept, PTL DEF Spec

-----------------------------------------------------------------------------
(* Where devices go.                                                       *)

LEMMA AssignmentMeetsPenetration ==
    ASSUME NEW r \in Requests, ~r.explicit, NEW assigned \in Assignments(r)
    PROVE  LET pv == SumFunction([i \in DOMAIN assigned |-> assigned[i].pv])
               load == SumFunction([i \in DOMAIN assigned |-> assigned[i].load])
           IN /\ 100 * pv <= load * r.penetration
              /\ IsInjective(r.pvBuses) => 100 * (pv + Len(assigned)) >= load * r.penetration
<1> DEFINE D == DOMAIN r.network
           n == Cardinality(D)
           order == InOrder(D)
           pvs == [i \in 1..n |-> assigned[i].pv]
           loads == [i \in 1..n |-> assigned[i].load]
           capacity == [b \in D |-> PvCapacity(r, b)]
           demand == [b \in D |-> IF b \in LoadBuses(r) THEN r.network[b] ELSE 0]
           L == Total(r.network, LoadBuses(r))
           Q == SumFunctionOnSet(capacity, PvBuses(r))
<1>1. IsFiniteSet(D) /\ D \subseteq Int /\ r.penetration \in Nat /\ \A b \in D : r.network[b] \in Nat
  BY RequestAssumption
<1>2. n \in Nat /\ order \in Bijection(1..n, D) /\ IsFiniteSet(1..n)
  <2>1. n \in Nat /\ order \in Bijection(1..n, D)
    BY <1>1, InOrderIsBijection, FS_CardinalityType
  <2>. HIDE DEF n, order, D
  <2>2. IsFiniteSet(1..n)
    BY <2>1, FS_Interval
  <2>. QED  BY <2>1, <2>2
<1>3. PICK bess \in SUBSET PvBuses(r), ev \in SUBSET LoadBuses(r) :
         assigned = [i \in 1..n |-> AssignedBus(r, order[i], i, bess, ev)]
  BY AssignedBuses
<1>4. DOMAIN assigned = 1..n /\ Len(assigned) = n
  <2>1. DOMAIN assigned = 1..n /\ assigned \in [1..n -> {assigned[i] : i \in 1..n}]
    BY <1>3
  <2>. HIDE DEF n
  <2>. QED  BY <1>2, <2>1, ListsAreSequences
<1>5. PvBuses(r) \subseteq LoadBuses(r) /\ LoadBuses(r) \subseteq D /\ IsFiniteSet(LoadBuses(r)) /\ IsFiniteSet(PvBuses(r))
  BY LoadBusesAreFinite
<1>6. \A i \in 1..n : order[i] \in D
  BY <1>2 DEF Bijection, Injection
<1>7. Ints(capacity, D) /\ Ints(demand, D)
  BY <1>1, PvCapacityIsNat DEF Ints
<1>8. SumFunction([i \in DOMAIN assigned |-> assigned[i].pv]) = Q
  <2>1. \A i \in 1..n : pvs[i] = capacity[order[i]]
    <3>1. ASSUME NEW i \in 1..n PROVE assigned[i].pv = PvCapacity(r, order[i])
      BY <1>3 DEF AssignedBus
    <3>. QED  BY <3>1, <1>6
  <2>2. \A b \in D \ PvBuses(r) : capacity[b] = 0
    BY DEF PvCapacity
  <2>3. SumFunction([i \in DOMAIN assigned |-> assigned[i].pv]) = SumFunctionOnSet(pvs, 1..n)
    BY <1>4 DEF SumFunction, SumFunctionOnSet, FoldFunction
  <2>. HIDE DEF pvs, capacity, order, n, D
  <2>4. SumFunctionOnSet(pvs, 1..n) = SumFunctionOnSet(capacity, D)
    BY <1>2, <1>7, <2>1, SumOverBijection
  <2>5. SumFunctionOnSet(capacity, D) = SumFunctionOnSet(capacity, PvBuses(r))
    BY <1>1, <1>5, <1>7, <2>2, SumOfSupport
  <2>. QED  BY <2>3, <2>4, <2>5
<1>9. SumFunction([i \in DOMAIN assigned |-> assigned[i].load]) = L
  <2>1. \A i \in 1..n : loads[i] = demand[order[i]]
    <3>1. ASSUME NEW i \in 1..n PROVE assigned[i].load = IF order[i] \in LoadBuses(r) THEN r.network[order[i]] ELSE 0
      BY <1>3 DEF AssignedBus
    <3>. QED  BY <3>1, <1>6
  <2>2. /\ \A b \in D \ LoadBuses(r) : demand[b] = 0
        /\ \A b \in LoadBuses(r) : demand[b] = r.network[b]
    BY <1>5
  <2>3. SumFunction([i \in DOMAIN assigned |-> assigned[i].load]) = SumFunctionOnSet(loads, 1..n)
    BY <1>4 DEF SumFunction, SumFunctionOnSet, FoldFunction
  <2>a. Ints(demand, LoadBuses(r))
    BY <1>5, <1>7 DEF Ints
  <2>. HIDE DEF loads, demand, order, n, D
  <2>4. SumFunctionOnSet(loads, 1..n) = SumFunctionOnSet(demand, D)
    BY <1>2, <1>7, <2>1, SumOverBijection
  <2>5. SumFunctionOnSet(demand, D) = SumFunctionOnSet(demand, LoadBuses(r))
    BY <1>1, <1>5, <1>7, <2>2, SumOfSupport
  <2>6. SumFunctionOnSet(demand, LoadBuses(r)) = SumFunctionOnSet(r.network, LoadBuses(r))
    BY <1>5, <2>2, <2>a, SumIsLocal
  <2>. QED  BY <2>3, <2>4, <2>5, <2>6 DEF Total
<1>10. L \in Nat
  <2>1. \A b \in LoadBuses(r) : r.network[b] \in Nat
    BY <1>1, <1>5
  <2>. QED  BY <1>5, <2>1, SumIsNat DEF Total
<1>11. /\ 100 * Q <= L * r.penetration /\ Q \in Int
       /\ IsInjective(r.pvBuses) => L * r.penetration <= 100 * (Q + n)
  <2>1. CASE PvBuses(r) = {}
    <3>1. ~(r.penetration > 0)
      BY <2>1 DEF Assignments
    <3>2. r.penetration = 0
      BY <3>1, <1>1
    <3>3. Q = 0
      BY <2>1, SumOfNone
    <3>. HIDE DEF Q, L, n
    <3>. QED  BY <1>2, <1>10, <3>2, <3>3
  <2>2. CASE PvBuses(r) # {}
    <3> DEFINE K == PvPlaces(r)
               f == r.pvBuses
               at == [k \in K |-> r.network[f[k]]]
               each == [k \in K |-> capacity[f[k]]]
               P == PvLoad(r)
               x == L * r.penetration
               c == Cardinality(K)
               E == SumFunctionOnSet(each, K)
    <3>1. /\ IsFiniteSet(K) /\ P \in Nat \ {0} /\ \A k \in K : f[k] \in PvBuses(r) /\ r.network[f[k]] \in Nat
          /\ PvBuses(r) = {f[k] : k \in K}
      BY <2>2, LoadBusesAreFinite, PvLoadCounts DEF PvBuses
    <3>2. P = SumFunctionOnSet(at, K) /\ \A k \in K : at[k] \in Nat
      BY <3>1 DEF PvLoad, Total
    <3>3. x \in Nat
      <4>. HIDE DEF L
      <4>. QED  BY <1>1, <1>10
    <3>4. ASSUME NEW k \in K PROVE each[k] = (x * at[k]) \div (100 * P)
      <4>1. capacity[f[k]] = PvCapacity(r, f[k])
        BY <1>5, <3>1
      <4>. QED  BY <3>1, <4>1 DEF PvCapacity
    <3>5. \A k \in K : capacity[f[k]] \in Nat /\ each[k] = capacity[f[k]]
      BY <1>5, <3>1, PvCapacityIsNat
    <3>. HIDE DEF x, P, L, capacity, n, D, at, each, K, f
    <3>6. 100 * E <= x /\ x <= 100 * (E + c)
      BY <3>1, <3>2, <3>3, <3>4, SharesAddUp
    <3>7. Q <= E
      BY <3>1, <3>5, SumOverImage
    <3>8. Q \in Int /\ E \in Int
      <4>1. Ints(each, K)
        BY <3>5 DEF Ints
      <4>2. Ints(capacity, PvBuses(r))
        BY <1>5, <1>7 DEF Ints
      <4>. QED  BY <1>5, <3>1, <4>1, <4>2, SumIsInt
    <3>9. ASSUME IsInjective(f) PROVE E = Q /\ c <= n /\ c \in Nat
      <4> DEFINE g == [k \in K |-> f[k]]
      <4>1. g \in Bijection(K, PvBuses(r))
        <5>1. \A a \in K, b \in K : f[a] = f[b] => a = b
          BY <3>9 DEF IsInjective, K, f, PvPlaces
        <5>. QED  BY <3>1, <5>1 DEF Bijection, Injection, Surjection, IsInjective
      <4>2. Ints(capacity, PvBuses(r)) /\ \A k \in K : each[k] = capacity[g[k]]
        BY <1>5, <1>7, <3>5 DEF Ints
      <4>. HIDE DEF g
      <4>3. E = Q
        BY <3>1, <4>1, <4>2, SumOverBijection
      <4>4. Cardinality(K) = Cardinality(PvBuses(r))
        <5>1. g \in Injection(K, PvBuses(r)) /\ g \in Surjection(K, PvBuses(r))
          BY <4>1 DEF Bijection
        <5>. QED  BY <1>5, <5>1, FS_Injection
      <4>5. PvBuses(r) \subseteq D
        BY <1>5
      <4>6. Cardinality(PvBuses(r)) <= Cardinality(D) /\ Cardinality(PvBuses(r)) \in Nat
        BY <4>5, <1>1, FS_Subset, FS_CardinalityType
      <4>. QED  BY <4>3, <4>4, <4>6 DEF n
    <3>. HIDE DEF c, E, Q
    <3>10. c \in Nat
      BY <3>1, FS_CardinalityType DEF c
    <3>11. 100 * Q <= x /\ (IsInjective(f) => x <= 100 * (Q + n))
      BY <1>2, <3>3, <3>6, <3>7, <3>8, <3>9, <3>10
    <3>. QED  BY <3>8, <3>11 DEF x, f
  <2>. QED  BY <2>1, <2>2
<1>. HIDE DEF Q, L, n
<1>. QED  BY <1>2, <1>4, <1>8, <1>9, <1>10, <1>11, <1>1

LEMMA AssignmentPlacesDevices ==
    ASSUME NEW r \in Requests, ~r.explicit, NEW assigned \in Assignments(r), NEW i \in DOMAIN assigned
    PROVE  /\ assigned[i].bess # "none" \/ assigned[i].pv > 0 => assigned[i].id \in Range(r.pvBuses)
           /\ assigned[i].load = 0 => assigned[i].pv = 0 /\ assigned[i].ev = "none" /\ assigned[i].bess = "none"
<1>1. PICK bess \in SUBSET PvBuses(r), ev \in SUBSET LoadBuses(r) :
         assigned = [k \in 1..Cardinality(DOMAIN r.network) |-> AssignedBus(r, InOrder(DOMAIN r.network)[k], k, bess, ev)]
  BY AssignedBuses
<1> DEFINE b == InOrder(DOMAIN r.network)[i]
<1>2. assigned[i] = AssignedBus(r, b, i, bess, ev)
  BY <1>1
<1>. HIDE DEF b
<1>3. /\ assigned[i].id = b
      /\ assigned[i].pv = PvCapacity(r, b)
      /\ assigned[i].load = IF b \in LoadBuses(r) THEN r.network[b] ELSE 0
      /\ assigned[i].bess = IF b \in bess THEN "named" ELSE "none"
      /\ assigned[i].ev = IF b \in ev THEN "named" ELSE "none"
  BY <1>2 DEF AssignedBus
<1>4. b \notin PvBuses(r) => PvCapacity(r, b) = 0
  BY DEF PvCapacity
<1>5. PvBuses(r) \subseteq Range(r.pvBuses) /\ PvBuses(r) \subseteq LoadBuses(r)
  BY DEF PvBuses, PvPlaces, Range
<1>6. b \in LoadBuses(r) => r.network[b] # 0
  BY LoadBusesAreFinite
<1>7. ~(0 > 0)
  OBVIOUS
<1>8. assigned[i].bess # "none" \/ assigned[i].pv > 0 => assigned[i].id \in Range(r.pvBuses)
  BY <1>3, <1>4, <1>5, <1>7
<1>9. assigned[i].load = 0 => b \notin LoadBuses(r)
  BY <1>3, <1>6
<1>10. assigned[i].load = 0 => assigned[i].pv = 0 /\ assigned[i].ev = "none" /\ assigned[i].bess = "none"
  BY <1>3, <1>4, <1>5, <1>9
<1>. QED  BY <1>8, <1>10

(* The assigned PV never exceeds the penetration asked of the whole load,  *)
(* and reaches it, up to one unit of rounding for each bus, when no PV bus *)
(* is named twice; devices go only where they may: whatever the network    *)
(* and the draws.                                                          *)
THEOREM PenetrationIsReached == Spec => []PenetrationIsMet
<1>1. JobInv => PenetrationIsMet
  <2> SUFFICES ASSUME JobInv, stage # "idle", ~Req.explicit PROVE PenetrationIsMet
    BY DEF PenetrationIsMet
  <2>1. Req \in Requests /\ buses \in Assignments(Req)
    BY ServedCommand DEF JobInv, BusData
  <2> DEFINE pv == SumFunction([i \in DOMAIN buses |-> buses[i].pv])
             load == SumFunction([i \in DOMAIN buses |-> buses[i].load])
  <2>2. /\ 100 * pv <= load * Req.penetration
        /\ IsInjective(Req.pvBuses) => 100 * (pv + Len(buses)) >= load * Req.penetration
    BY <2>1, AssignmentMeetsPenetration
  <2>3. ASSUME NEW i \in DOMAIN buses
        PROVE  /\ buses[i].bess # "none" \/ buses[i].pv > 0 => buses[i].id \in Range(Req.pvBuses)
               /\ buses[i].load = 0 => buses[i].pv = 0 /\ buses[i].ev = "none" /\ buses[i].bess = "none"
    BY <2>1, AssignmentPlacesDevices
  <2>. QED  BY <2>2, <2>3 DEF PenetrationIsMet
<1>. QED  BY <1>1, Generating, PTL

-----------------------------------------------------------------------------
(* What a schedule does each day                                           *)

-----------------------------------------------------------------------------
(* The series of the day: what the fleet draws, how the battery answers.   *)

Of(s, key, i) == IF key \in DOMAIN s THEN s[key][i] ELSE 0
Same(s, i, t, j) == \A key \in {"load", "pv", "ev", "bess"} : Of(s, key, i) = Of(t, key, j)

Dispatched(r, b, s, i) ==
    LET power == Of(s, "bess", i)
        demand == Of(s, "load", i) + Of(s, "ev", i)
        before == demand - Of(s, "pv", i)
        rated == BatteryOf(b, 100)
    IN /\ -rated.charge <= power /\ power <= rated.discharge
       /\ IF r.timeOfUse THEN power > 0 => power <= demand
          ELSE IF before >= 0 THEN 0 <= power /\ power <= before ELSE before <= power /\ power <= 0
Covered(b, s, i) == Rated(b.evRate, NamedRate) >= NamedRate => Of(s, "ev", i) <= FleetKw(b)

FleetInv == InService => \A i \in DaySteps : Covered(Bus, series, i)
DispatchInv ==
    /\ stage = "plugin" /\ todo # <<>> => "bess" \notin DOMAIN series
    /\ stage = "plugin" /\ todo = <<>> => \A i \in DaySteps : Dispatched(Req, Bus, series, i)
    /\ stage = "battery" => \A i \in DaySteps : i < step => Dispatched(Req, Bus, series, i)

LEMMA SameIsDispatched ==
    ASSUME NEW r, NEW b, NEW s, NEW i, NEW t, NEW j, Same(s, i, t, j), Dispatched(r, b, s, i)
    PROVE  Dispatched(r, b, t, j)
<1>1. /\ Of(s, "bess", i) = Of(t, "bess", j) /\ Of(s, "load", i) = Of(t, "load", j)
      /\ Of(s, "ev", i) = Of(t, "ev", j) /\ Of(s, "pv", i) = Of(t, "pv", j)
  BY DEF Same
<1>. QED  BY <1>1, Zenon DEF Dispatched

LEMMA SameIsCovered ==
    ASSUME NEW b, NEW s, NEW i, NEW t, NEW j, Same(s, i, t, j), Covered(b, s, i)
    PROVE  Covered(b, t, j)
<1>1. Of(s, "ev", i) = Of(t, "ev", j)
  BY DEF Same
<1>. QED  BY <1>1, Zenon DEF Covered

LEMMA TracedIsInt ==
    ASSUME NEW s, NEW n, Traced(s, n), NEW key, NEW i \in 1..n
    PROVE  Of(s, key, i) \in Int
<1>1. CASE key \in DOMAIN s
  <2>1. s[key] \in [1..n -> Int]
    BY <1>1 DEF Traced
  <2>. QED  BY <1>1, <2>1 DEF Of
<1>2. CASE key \notin DOMAIN s
  BY <1>2 DEF Of
<1>. QED  BY <1>1, <1>2

LEMMA SeriesOfTheDay ==
    ASSUME JobInv, InService, NEW key
    PROVE  /\ Contributed(key) \in [1..Steps -> Int]
           /\ \A i \in DaySteps : Contributed(key)[i] = Of(series, key, i) /\ Of(series, key, i) \in Int
<1>1. Traced(series, Steps)
  BY DEF JobInv, Tracing
<1>2. CASE key \in DOMAIN series
  BY <1>1, <1>2 DEF Traced, Contributed, Of, DaySteps
<1>3. CASE key \notin DOMAIN series
  BY <1>3 DEF Contributed, Of, Zeros, DaySteps
<1>. QED  BY <1>2, <1>3

LEMMA FleetIsNat ==
    ASSUME NEW b, IsBusConfig(b)
    PROVE  FleetKw(b) \in Nat /\ (b.ev = "named" => FleetKw(b) = Households(b.load) * Rated(b.evRate, NamedRate))
<1>1. Rated(b.evRate, IF b.ev = "named" THEN NamedRate ELSE 0) \in Nat
  BY DeviceAssumption DEF Rated, IsBusConfig
<1> DEFINE fleet == Households(b.load)
<1>2. fleet \in Nat
  BY HouseholdsInRange DEF IsBusConfig
<1>. HIDE DEF fleet
<1>3. fleet * Rated(b.evRate, IF b.ev = "named" THEN NamedRate ELSE 0) \in Nat
  BY <1>1, <1>2
<1>. QED  BY <1>3 DEF FleetKw, fleet

LEMMA EmptyIsCovered ==
    ASSUME NEW b, IsBusConfig(b), NEW s, DOMAIN s = {}, NEW i
    PROVE  Covered(b, s, i)
<1>1. Of(s, "ev", i) = 0 /\ FleetKw(b) \in Nat
  BY FleetIsNat DEF Of
<1>. QED  BY <1>1 DEF Covered

LEMMA WithOthers ==
    ASSUME NEW s, NEW key, NEW kw, NEW other, other # key, NEW i
    PROVE  Of(With(s, key, kw), other, i) = Of(s, other, i)
BY DEF Of, With

LEMMA WithIts ==
    ASSUME NEW s, NEW key, NEW kw, NEW i
    PROVE  Of(With(s, key, kw), key, i) = kw[i]
BY DEF Of, With

\* What EvPlugin contributes is within the fleet's chargers.
LEMMA FleetIsCovered ==
    ASSUME JobInv, FilesInv, EvPlugin, NEW i \in DaySteps
    PROVE  Covered(Bus, series', i)
<1>1. InService /\ stage # "idle"
  BY DEF EvPlugin, Turn, InService
<1>2. IsBusConfig(Bus) /\ Req \in Requests
  BY <1>1, ServedBus, ServedCommand DEF JobInv
<1> DEFINE fleet == Households(Bus.load)
<1>3. fleet \in 1..MaxHouseholds /\ MaxEvs \in Nat \ {0} /\ FleetKw(Bus) \in Nat /\ NamedRate \in Nat
  BY <1>2, HouseholdsInRange, FleetIsNat, DeviceAssumption DEF IsBusConfig
<1>4. CASE Bus.ev = "named" /\ \E drawn \in [1..Smaller(fleet, MaxEvs) -> EvSessions] : series' = With(series, "ev", FleetDemand(fleet, drawn))
  <2>1. PICK drawn \in [1..Smaller(fleet, MaxEvs) -> EvSessions] : series' = With(series, "ev", FleetDemand(fleet, drawn))
    BY <1>4
  <2> DEFINE n == Smaller(fleet, MaxEvs)
             rate == Rated(Bus.evRate, NamedRate)
  <2>2. FleetKw(Bus) = fleet * rate /\ rate \in Nat
    BY <1>2, <1>3, <1>4, FleetIsNat DEF Rated, IsBusConfig
  <2>. HIDE DEF fleet, rate
  <2>3. fleet \in Nat /\ n \in Nat \ {0}
    BY <1>3 DEF Smaller
  <2>. HIDE DEF n
  <2>4. FleetDemand(fleet, drawn)[i] \in 0..(fleet * NamedRate)
    BY <2>3, FleetDemandIsBounded DEF n
  <2>5. rate >= NamedRate => fleet * NamedRate <= fleet * rate
    BY <1>3, <2>2, <2>3
  <2>6. fleet * NamedRate \in Nat /\ fleet * rate \in Nat
    BY <1>3, <2>2, <2>3
  <2>7. rate >= NamedRate => FleetDemand(fleet, drawn)[i] <= FleetKw(Bus)
    BY <2>2, <2>4, <2>5, <2>6
  <2>8. Of(series', "ev", i) = FleetDemand(fleet, drawn)[i]
    BY <2>1, WithIts
  <2>. QED  BY <2>7, <2>8 DEF Covered, rate
<1>5. CASE \E n \in Req.evProfile : \E shape \in FromStore(n, "ev") : series' = With(series, "ev", Scaled(FleetKw(Bus), shape))
  <2>1. PICK n \in Req.evProfile : \E shape \in FromStore(n, "ev") : series' = With(series, "ev", Scaled(FleetKw(Bus), shape))
    BY <1>5
  <2>2. PICK shape \in FromStore(n, "ev") : series' = With(series, "ev", Scaled(FleetKw(Bus), shape))
    BY <2>1
  <2>3. n \in Names
    BY <1>2, RequestAssumption
  <2>4. shape \in Day(0..100)
    BY <2>3, StoredShape
  <2>5. Scaled(FleetKw(Bus), shape)[i] \in 0..FleetKw(Bus)
    BY <1>3, <2>4, ScaledIsBounded
  <2>6. Of(series', "ev", i) = Scaled(FleetKw(Bus), shape)[i]
    BY <2>2, WithIts
  <2>. QED  BY <1>3, <2>5, <2>6 DEF Covered
<1>. HIDE DEF fleet
<1>. QED  BY <1>4, <1>5 DEF EvPlugin, Contribute, fleet

\* Buses and days start without series.
LEMMA FreshSeries ==
    ASSUME IsBusConfig(Bus'), series' = <<>>
    PROVE  FleetInv'
<1>1. \A i \in DaySteps : Covered(Bus', series', i)
  BY EmptyIsCovered
<1>. QED  BY <1>1 DEF FleetInv

\* What a timestep of the battery leaves in the series.
LEMMA BatteryTrace ==
    ASSUME JobInv, BatteryStep
    PROVE  /\ DOMAIN series' = DOMAIN series
           /\ \A i \in DaySteps : /\ \A key \in {"load", "pv", "ev", "extra"} : Of(series', key, i) = Of(series, key, i)
                                  /\ i # step => Of(series', "bess", i) = Of(series, "bess", i)
           /\ Of(series', "bess", step) = Delivered(BatteryNow, energy, Requested)
<1> DEFINE power == Delivered(BatteryNow, energy, Requested)
<1>1. series' = [series EXCEPT !["bess"][step] = power, !["soc"][step] = energy'] /\ stage = "battery"
  BY DEF BatteryStep
<1>2. Traced(series, Steps) /\ {"bess", "soc"} \subseteq DOMAIN series /\ step \in DaySteps
  BY <1>1 DEF JobInv, Tracing, InService, Serving
<1>. HIDE DEF power
<1>3. DOMAIN series' = DOMAIN series
  BY <1>1
<1>4. \A key \in DOMAIN series : key # "bess" /\ key # "soc" => series'[key] = series[key]
  BY <1>1
<1>5. series'["bess"] = [series["bess"] EXCEPT ![step] = power]
  BY <1>1, <1>2
<1>6. series["bess"] \in [1..Steps -> Int]
  BY <1>2 DEF Traced
<1>7. series'["bess"][step] = power /\ \A i \in DaySteps : i # step => series'["bess"][i] = series["bess"][i]
  BY <1>2, <1>5, <1>6 DEF DaySteps
<1>8. \A key \in {"load", "pv", "ev", "extra"}, i \in DaySteps : Of(series', key, i) = Of(series, key, i)
  BY <1>3, <1>4 DEF Of
<1>. QED  BY <1>2, <1>3, <1>7, <1>8 DEF Of, power

\* The answer of the battery is one its strategy allows.
LEMMA StepIsDispatched ==
    ASSUME JobInv, BatteryStep
    PROVE  Dispatched(Req, Bus, series', step)
<1> DEFINE rated == BatteryOf(Bus, 100)
           power == Delivered(BatteryNow, energy, Requested)
           load == Of(series, "load", step)
           ev == Of(series, "ev", step)
           pv == Of(series, "pv", step)
           demand == load + ev
<1>1. stage = "battery"
  BY DEF BatteryStep
<1>2. /\ IsBattery(BatteryNow) /\ step \in DaySteps /\ energy \in Int /\ Requested \in Int /\ power \in Int
  BY <1>1, BatteryAnswers
<1>3. /\ Contributed("load")[step] = load /\ Contributed("ev")[step] = ev /\ Contributed("pv")[step] = pv
      /\ load \in Int /\ ev \in Int /\ pv \in Int
  BY <1>1, <1>2, SeriesOfTheDay DEF InService
<1>4. rated.charge = BatteryNow.charge /\ rated.discharge = BatteryNow.discharge
  BY DEF BatteryNow, BatteryOf
<1>5. /\ -BatteryNow.charge <= power /\ power <= BatteryNow.discharge
      /\ Requested >= 0 => 0 <= power /\ power <= Requested
      /\ Requested <= 0 => Requested <= power /\ power <= 0
  BY <1>2, DeliveryIsBounded
<1>6. /\ Of(series', "bess", step) = power /\ Of(series', "load", step) = load
      /\ Of(series', "ev", step) = ev /\ Of(series', "pv", step) = pv
  BY <1>2, BatteryTrace
<1>7. AvailableCharge(BatteryNow, energy) \in Nat /\ AvailableDischarge(BatteryNow, energy) \in Nat
  BY <1>2, AvailableIsBounded DEF IsBattery
<1>8. /\ Req.timeOfUse => Requested = TimeOfUse(BatteryNow, energy, load + ev, ((step - 1) * StepHours) % 24, Req.charging, Req.discharging)
      /\ ~Req.timeOfUse => Requested = SelfConsumption(load + ev, pv)
  BY <1>3 DEF Requested
<1>. HIDE DEF load, ev, pv, power
<1>9. demand \in Int
  BY <1>3
<1>. HIDE DEF demand
<1>10. CASE Req.timeOfUse
  <2>1. Requested <= 0 \/ (0 <= Requested /\ Requested <= NonNegative(demand))
    <3> DEFINE c == AvailableCharge(BatteryNow, energy)
               a == AvailableDischarge(BatteryNow, energy)
    <3>1. Requested \in {-c, Smaller(a, NonNegative(demand)), 0}
      BY <1>8, <1>10 DEF TimeOfUse, demand
    <3>2. c \in Nat /\ a \in Nat
      BY <1>7
    <3>. HIDE DEF c, a
    <3>. QED  BY <1>9, <3>1, <3>2 DEF Smaller, NonNegative, Bigger
  <2>2. power > 0 => power <= demand
    BY <1>2, <1>5, <1>9, <2>1 DEF NonNegative, Bigger
  <2>. QED  BY <1>4, <1>5, <1>6, <1>10, <2>2 DEF Dispatched, demand
<1>11. CASE ~Req.timeOfUse
  <2>1. Requested = demand - pv
    BY <1>8, <1>11 DEF SelfConsumption, demand
  <2>2. IF demand - pv >= 0 THEN 0 <= power /\ power <= demand - pv ELSE demand - pv <= power /\ power <= 0
    BY <1>2, <1>3, <1>5, <1>9, <2>1
  <2>. QED  BY <1>4, <1>5, <1>6, <1>11, <2>2 DEF Dispatched, demand
<1>. QED  BY <1>10, <1>11

LEMMA IdleBatteryIsDispatched ==
    ASSUME NEW r, NEW b, IsBusConfig(b), NEW s, "bess" \notin DOMAIN s, NEW n, Traced(s, n), NEW i \in 1..n
    PROVE  Dispatched(r, b, s, i)
<1>1. IsBattery(BatteryOf(b, 100))
  BY BatteryIsProper
<1>2. Of(s, "bess", i) = 0
  BY DEF Of
<1>3. Of(s, "load", i) \in Int /\ Of(s, "ev", i) \in Int /\ Of(s, "pv", i) \in Int
  BY TracedIsInt
<1>. QED  BY <1>1, <1>2, <1>3 DEF Dispatched, IsBattery

LEMMA FreshDispatch ==
    ASSUME stage' = "plugin", todo' # <<>>, series' = <<>>
    PROVE  DispatchInv'
BY DEF DispatchInv

\* The plugins before the battery contribute one series each, or nothing.
LEMMA PluginsContribute ==
    ASSUME Skip \/ LoadPlugin \/ PvPlugin \/ EvPlugin \/ ExtraPlugin
    PROVE  /\ stage = "plugin" /\ todo # <<>> /\ Ran
           /\ \/ series' = series /\ (Head(todo) = "bess" => Bus.bess = "none")
              \/ Head(todo) # "bess" /\ EvPlugin
              \/ Head(todo) # "bess" /\ \E key \in {"load", "pv", "extra"} : \E kw : series' = With(series, key, kw)
<1>1. CASE Skip
  BY <1>1 DEF Skip, AppliesTo
<1>2. CASE LoadPlugin
  BY <1>2 DEF LoadPlugin, Turn, Contribute
<1>3. CASE PvPlugin
  <2>1. stage = "plugin" /\ todo # <<>> /\ Ran /\ Head(todo) # "bess"
    BY <1>3 DEF PvPlugin, Turn
  <2>2. \E kw : series' = With(series, "pv", kw)
    BY <1>3 DEF PvPlugin, Contribute
  <2>. QED  BY <2>1, <2>2
<1>4. CASE EvPlugin
  BY <1>4 DEF EvPlugin, Turn
<1>5. CASE ExtraPlugin
  <2>1. stage = "plugin" /\ todo # <<>> /\ Ran /\ Head(todo) # "bess"
    BY <1>5 DEF ExtraPlugin, Turn
  <2>2. PICK shape \in HeatPumpDays : series' = IF shape = <<>> THEN series ELSE With(series, "extra", shape)
    BY <1>5 DEF ExtraPlugin
  <2>. QED  BY <2>1, <2>2
<1>. QED  BY <1>1, <1>2, <1>3, <1>4, <1>5

LEMMA PluginsKeepFleet ==
    ASSUME JobInv, FilesInv, FleetInv, Skip \/ LoadPlugin \/ PvPlugin \/ EvPlugin \/ ExtraPlugin
    PROVE  FleetInv'
<1>1. stage = "plugin" /\ stage' = stage /\ Bus' = Bus
  BY PluginsContribute DEF Ran, Bus
<1>2. SUFFICES ASSUME NEW i \in DaySteps PROVE Covered(Bus, series', i)
  BY <1>1 DEF FleetInv
<1>3. Covered(Bus, series, i)
  BY <1>1 DEF FleetInv, InService
<1>4. CASE series' = series
  BY <1>3, <1>4
<1>5. CASE EvPlugin
  BY <1>5, FleetIsCovered
<1>6. CASE \E key \in {"load", "pv", "extra"} : \E kw : series' = With(series, key, kw)
  <2>1. PICK key \in {"load", "pv", "extra"} : \E kw : series' = With(series, key, kw)
    BY <1>6
  <2>2. PICK kw : series' = With(series, key, kw)
    BY <2>1
  <2>3. Of(series', "ev", i) = Of(series, "ev", i)
    <3>1. key # "ev"
      OBVIOUS
    <3>. QED  BY <2>2, <3>1, WithOthers
  <2>. QED  BY <1>3, <2>3 DEF Covered
<1>. QED  BY <1>4, <1>5, <1>6, PluginsContribute

LEMMA PluginsKeepDispatch ==
    ASSUME JobInv, FilesInv, DispatchInv, Skip \/ LoadPlugin \/ PvPlugin \/ EvPlugin \/ ExtraPlugin
    PROVE  DispatchInv'
<1>1. /\ stage = "plugin" /\ todo # <<>> /\ stage' = stage /\ Bus' = Bus /\ Req' = Req /\ todo' = Tail(todo)
  BY PluginsContribute DEF Ran, Bus, Req
<1>2. todo \in Before /\ "bess" \notin DOMAIN series
  BY <1>1 DEF JobInv, Serving, DispatchInv
<1>3. IsBusConfig(Bus) /\ Traced(series, Steps)
  BY <1>1, ServedBus DEF JobInv, InService, Tracing
<1>4. "bess" \notin DOMAIN series'
  <2>1. CASE series' = series
    BY <1>2, <2>1
  <2>2. CASE EvPlugin
    BY <1>2, <2>2 DEF EvPlugin, Contribute, With
  <2>3. CASE \E key \in {"load", "pv", "extra"} : \E kw : series' = With(series, key, kw)
    BY <1>2, <2>3 DEF With
  <2>. QED  BY <2>1, <2>2, <2>3, PluginsContribute
<1>5. JobInv'
  BY PluginsKeepJob
<1>6. Traced(series', Steps)
  BY <1>1, <1>5 DEF JobInv, Tracing, InService
<1>7. \A i \in DaySteps : Dispatched(Req, Bus, series', i)
  BY <1>3, <1>4, <1>6, IdleBatteryIsDispatched DEF DaySteps
<1>. QED  BY <1>1, <1>4, <1>7 DEF DispatchInv

LEMMA BatteryKeepsSeries ==
    ASSUME JobInv, FleetInv, DispatchInv, BatteryPlugin
    PROVE  FleetInv' /\ DispatchInv'
<1>1. /\ stage = "plugin" /\ stage' = "battery" /\ Bus' = Bus /\ step' = 1
      /\ series' = With(With(series, "soc", Zeros), "bess", Zeros)
  BY DEF BatteryPlugin, Turn, Bus
<1>2. ASSUME NEW i \in DaySteps PROVE Covered(Bus, series', i)
  <2>1. Of(series', "ev", i) = Of(With(series, "soc", Zeros), "ev", i)
    BY <1>1, WithOthers
  <2>2. Of(With(series, "soc", Zeros), "ev", i) = Of(series, "ev", i)
    BY WithOthers
  <2>3. Covered(Bus, series, i)
    BY <1>1 DEF FleetInv, InService
  <2>. QED  BY <2>1, <2>2, <2>3 DEF Covered
<1>3. \A i \in DaySteps : ~(i < step')
  BY <1>1 DEF DaySteps
<1>. QED  BY <1>1, <1>2, <1>3 DEF FleetInv, DispatchInv

LEMMA BatteryStepKeepsSeries ==
    ASSUME JobInv, FleetInv, DispatchInv, BatteryStep
    PROVE  FleetInv' /\ DispatchInv'
<1>1. /\ stage = "battery" /\ Bus' = Bus /\ Req' = Req /\ stage' \in {"plugin", "battery"}
      /\ (step < Steps => step' = step + 1 /\ stage' = "battery")
      /\ (~(step < Steps) => stage' = "plugin" /\ todo' = Tail(todo))
  BY DEF BatteryStep, Bus, Req
<1>2. todo = <<"bess">> /\ step \in DaySteps
  BY <1>1 DEF JobInv, Serving
<1>3. Tail(todo) = <<>>
  BY <1>2
<1>4. ASSUME NEW i \in DaySteps PROVE Covered(Bus, series', i)
  <2>1. Of(series', "ev", i) = Of(series, "ev", i)
    BY BatteryTrace
  <2>2. Covered(Bus, series, i)
    BY <1>1 DEF FleetInv, InService
  <2>. QED  BY <2>1, <2>2 DEF Covered
<1>5. ASSUME NEW i \in DaySteps, i <= step PROVE Dispatched(Req, Bus, series', i)
  <2>1. CASE i = step
    BY <2>1, StepIsDispatched
  <2>2. CASE i # step
    <3>1. i < step
      BY <1>2, <1>5, <2>2 DEF DaySteps
    <3>2. Dispatched(Req, Bus, series, i)
      BY <1>1, <3>1 DEF DispatchInv
    <3>3. Same(series, i, series', i)
      BY <2>2, BatteryTrace DEF Same
    <3>. QED  BY <3>2, <3>3, SameIsDispatched
  <2>. QED  BY <2>1, <2>2
<1>6. DispatchInv'
  <2>1. CASE step < Steps
    <3>1. \A i \in DaySteps : i < step' => i <= step
      BY <1>1, <1>2, <2>1, DayAssumption DEF DaySteps
    <3>. QED  BY <1>1, <1>5, <2>1, <3>1 DEF DispatchInv
  <2>2. CASE ~(step < Steps)
    <3>1. \A i \in DaySteps : i <= step
      BY <1>2, <2>2, DayAssumption DEF DaySteps
    <3>. QED  BY <1>1, <1>3, <1>5, <2>2, <3>1 DEF DispatchInv
  <2>. QED  BY <2>1, <2>2
<1>. QED  BY <1>1, <1>4, <1>6 DEF FleetInv

\* A day or a bus that starts has no series yet.
LEMMA StartKeepsSeries ==
    ASSUME JobInv, JobInv', stage' # "battery", series' = <<>>, stage' = "plugin" => todo' # <<>>
    PROVE  FleetInv' /\ DispatchInv'
<1>1. FleetInv'
  <2>1. CASE stage' = "plugin"
    <3>1. IsBusList(buses') /\ bus' \in 1..Len(buses') /\ stage' # "idle"
      <4>1. \E r \in Requests : buses' \in BusData(r)
        BY <2>1 DEF JobInv, Serving
      <4>. QED  BY <2>1, <4>1, BusDataIsList DEF JobInv, Serving, InService
    <3>2. IsBusConfig(Bus')
      BY <3>1 DEF IsBusList, IsList, Bus
    <3>. QED  BY <3>2, FreshSeries
  <2>2. CASE stage' # "plugin"
    BY <2>2 DEF FleetInv, InService
  <2>. QED  BY <2>1, <2>2
<1>2. DispatchInv'
  BY DEF DispatchInv
<1>. QED  BY <1>1, <1>2

LEMMA SeriesKept == FilesInv /\ JobInv /\ FleetInv /\ DispatchInv /\ [Next]_vars => (FleetInv /\ DispatchInv)'
<1> SUFFICES ASSUME FilesInv, JobInv, FleetInv, DispatchInv, [Next]_vars PROVE FleetInv' /\ DispatchInv'
  OBVIOUS
<1>1. JobInv'
  BY JobKept
<1>2. CASE stage' \notin {"plugin", "battery"}
  BY <1>2 DEF FleetInv, DispatchInv, InService
<1>3. CASE UNCHANGED jobVars
  BY <1>3 DEF jobVars, FleetInv, DispatchInv, InService, Req, Bus
<1>4. ASSUME NEW r \in Requests, Receive(r), stage' \in {"plugin", "battery"} PROVE FleetInv' /\ DispatchInv'
  <2>1. series' = <<>> /\ stage' = "plugin" /\ todo' = Plugins
    BY <1>4 DEF Receive, StartBus
  <2>2. todo' # <<>>
    BY <2>1 DEF Plugins
  <2>. QED  BY <1>1, <2>1, <2>2, StartKeepsSeries
<1>5. CASE Skip \/ LoadPlugin \/ PvPlugin \/ EvPlugin \/ ExtraPlugin
  BY <1>5, PluginsKeepFleet, PluginsKeepDispatch
<1>6. CASE BatteryPlugin
  BY <1>6, BatteryKeepsSeries
<1>7. CASE BatteryStep
  BY <1>7, BatteryStepKeepsSeries
<1>8. CASE EndOfDay
  <2>1. series' = <<>> /\ stage' = "plugin" /\ todo' = Plugins
    BY <1>8 DEF EndOfDay
  <2>2. todo' # <<>>
    BY <2>1 DEF Plugins
  <2>. QED  BY <1>1, <2>1, <2>2, StartKeepsSeries
<1>9. ASSUME EndOfBus, stage' \in {"plugin", "battery"} PROVE FleetInv' /\ DispatchInv'
  <2>1. series' = <<>> /\ stage' = "plugin" /\ todo' = Plugins
    BY <1>9 DEF EndOfBus, StartBus
  <2>2. todo' # <<>>
    BY <2>1 DEF Plugins
  <2>. QED  BY <1>1, <2>1, <2>2, StartKeepsSeries
<1>10. CASE PluginFails \/ Reply \/ Restart
  BY <1>2, <1>10 DEF PluginFails, Fail, Reply, Restart, Answer
<1>11. CASE StoreNext /\ UNCHANGED jobVars
  BY <1>3, <1>11
<1>12. CASE UNCHANGED vars
  BY <1>3, <1>12 DEF vars
<1>. QED  BY <1>2, <1>4, <1>5, <1>6, <1>7, <1>8, <1>9, <1>10, <1>11, <1>12 DEF Next, Generate

-----------------------------------------------------------------------------
(* The results of a day, and of a horizon.                                 *)

Balanced(s, i) ==
    Of(s, "net", i) = Of(s, "load", i) - Of(s, "pv", i) + Of(s, "ev", i) + Of(s, "extra", i) - Of(s, "bess", i)
Sound(r, b, s, i) == Dispatched(r, b, s, i) /\ Covered(b, s, i) /\ Balanced(s, i)
\* n timesteps of results for bus b.
Complete(r, b, s, n) ==
    /\ Traced(s, n) /\ {"net"} \union BuiltIn \subseteq DOMAIN s
    /\ \A i \in 1..n : Sound(r, b, s, i)

SamePlusNet(s, i, t, j) == \A key \in Keys : Of(s, key, i) = Of(t, key, j)

LEMMA SameIsSound ==
    ASSUME NEW r, NEW b, NEW s, NEW i, NEW t, NEW j, SamePlusNet(s, i, t, j), Sound(r, b, s, i)
    PROVE  Sound(r, b, t, j)
<1>1. Same(s, i, t, j)
  BY DEF SamePlusNet, Same, Keys
<1>2. /\ Of(s, "net", i) = Of(t, "net", j) /\ Of(s, "extra", i) = Of(t, "extra", j)
      /\ Of(s, "bess", i) = Of(t, "bess", j) /\ Of(s, "load", i) = Of(t, "load", j)
      /\ Of(s, "ev", i) = Of(t, "ev", j) /\ Of(s, "pv", i) = Of(t, "pv", j)
  BY DEF SamePlusNet, Keys
<1>3. Balanced(t, j)
  BY <1>2 DEF Sound, Balanced
<1>. QED  BY <1>1, <1>3, SameIsDispatched, SameIsCovered DEF Sound

\* The net load of a day: the five devices with their signs.
LEMMA NetLoadAddsUp ==
    ASSUME JobInv, InService, NEW i \in DaySteps
    PROVE  /\ NetLoad \in [DaySteps -> Int]
           /\ NetLoad[i] = Of(series, "load", i) - Of(series, "pv", i) + Of(series, "ev", i)
                              + Of(series, "extra", i) - Of(series, "bess", i)
<1> DEFINE P == {"load", "pv", "ev", "extra", "bess"}
           w(t) == [p \in P |-> Sign(p) * Contributed(p)[t]]
<1>1. Range(Plugins) = P
  BY DEF Range, Plugins
<1>2. NetLoad = [t \in DaySteps |-> SumFunctionOnSet(w(t), P)]
  BY <1>1 DEF NetLoad, SumFunction
<1>3. IsFiniteSet({}) /\ IsFiniteSet({"load"}) /\ IsFiniteSet({"load", "pv"}) /\ IsFiniteSet({"load", "pv", "ev"})
      /\ IsFiniteSet({"load", "pv", "ev", "extra"}) /\ IsFiniteSet(P)
  <2>1. IsFiniteSet({}) /\ IsFiniteSet({"load"})
    BY FS_EmptySet, FS_Singleton
  <2>2. IsFiniteSet({"load"} \union {"pv"}) /\ {"load"} \union {"pv"} = {"load", "pv"}
    BY <2>1, FS_AddElement
  <2>3. IsFiniteSet({"load", "pv"} \union {"ev"}) /\ {"load", "pv"} \union {"ev"} = {"load", "pv", "ev"}
    BY <2>2, FS_AddElement
  <2>4. IsFiniteSet({"load", "pv", "ev"} \union {"extra"}) /\ {"load", "pv", "ev"} \union {"extra"} = {"load", "pv", "ev", "extra"}
    BY <2>3, FS_AddElement
  <2>5. IsFiniteSet({"load", "pv", "ev", "extra"} \union {"bess"}) /\ {"load", "pv", "ev", "extra"} \union {"bess"} = P
    BY <2>4, FS_AddElement
  <2>. QED  BY <2>1, <2>2, <2>3, <2>4, <2>5
<1>4. ASSUME NEW t \in DaySteps
      PROVE  /\ \A p \in P : w(t)[p] = Sign(p) * Of(series, p, t) /\ w(t)[p] \in Int
             /\ \A p \in P : Of(series, p, t) \in Int
  <2>1. ASSUME NEW p \in P PROVE Contributed(p)[t] = Of(series, p, t) /\ Of(series, p, t) \in Int
    BY SeriesOfTheDay
  <2>2. \A p \in P : Sign(p) \in Int
    BY DEF Sign
  <2>. QED  BY <2>1, <2>2
<1>5. ASSUME NEW t \in DaySteps PROVE SumFunctionOnSet(w(t), P) \in Int
  BY <1>3, <1>4, SumIsInt DEF Ints
<1>6. NetLoad \in [DaySteps -> Int]
  BY <1>2, <1>5
<1> DEFINE v == w(i)
<1>7. NetLoad[i] = SumFunctionOnSet(v, P)
  BY <1>2
<1>8. /\ v["load"] = Of(series, "load", i) /\ v["pv"] = -Of(series, "pv", i) /\ v["ev"] = Of(series, "ev", i)
      /\ v["extra"] = Of(series, "extra", i) /\ v["bess"] = -Of(series, "bess", i)
  BY <1>4 DEF Sign
<1>9. \A p \in P : v[p] \in Int
  BY <1>4
<1>10. \A p \in P : Of(series, p, i) \in Int
  BY <1>4
<1>. HIDE DEF v, w
<1>11. SumFunctionOnSet(v, {}) = 0
  BY SumOfNone
<1>12. SumFunctionOnSet(v, {"load"}) = v["load"]
  <2>1. {"load"} = {} \union {"load"} /\ "load" \notin {} /\ Ints(v, {})
    BY DEF Ints
  <2>2. SumFunctionOnSet(v, {} \union {"load"}) = v["load"] + SumFunctionOnSet(v, {})
    BY <1>3, <1>9, <2>1, SumWith
  <2>. QED  BY <1>9, <1>11, <2>1, <2>2
<1>13. SumFunctionOnSet(v, {"load", "pv"}) = v["load"] + v["pv"]
  <2>1. {"load", "pv"} = {"load"} \union {"pv"} /\ "pv" \notin {"load"} /\ Ints(v, {"load"})
    BY <1>9 DEF Ints
  <2>2. SumFunctionOnSet(v, {"load"} \union {"pv"}) = v["pv"] + SumFunctionOnSet(v, {"load"})
    BY <1>3, <1>9, <2>1, SumWith
  <2>. QED  BY <1>9, <1>12, <2>1, <2>2
<1>14. SumFunctionOnSet(v, {"load", "pv", "ev"}) = v["load"] + v["pv"] + v["ev"]
  <2>1. {"load", "pv", "ev"} = {"load", "pv"} \union {"ev"} /\ "ev" \notin {"load", "pv"} /\ Ints(v, {"load", "pv"})
    BY <1>9 DEF Ints
  <2>2. SumFunctionOnSet(v, {"load", "pv"} \union {"ev"}) = v["ev"] + SumFunctionOnSet(v, {"load", "pv"})
    BY <1>3, <1>9, <2>1, SumWith
  <2>. QED  BY <1>9, <1>13, <2>1, <2>2
<1>15. SumFunctionOnSet(v, {"load", "pv", "ev", "extra"}) = v["load"] + v["pv"] + v["ev"] + v["extra"]
  <2>1. {"load", "pv", "ev", "extra"} = {"load", "pv", "ev"} \union {"extra"} /\ "extra" \notin {"load", "pv", "ev"} /\ Ints(v, {"load", "pv", "ev"})
    BY <1>9 DEF Ints
  <2>2. SumFunctionOnSet(v, {"load", "pv", "ev"} \union {"extra"}) = v["extra"] + SumFunctionOnSet(v, {"load", "pv", "ev"})
    BY <1>3, <1>9, <2>1, SumWith
  <2>. QED  BY <1>9, <1>14, <2>1, <2>2
<1>16. SumFunctionOnSet(v, P) = v["load"] + v["pv"] + v["ev"] + v["extra"] + v["bess"]
  <2>1. P = {"load", "pv", "ev", "extra"} \union {"bess"} /\ "bess" \notin {"load", "pv", "ev", "extra"} /\ Ints(v, {"load", "pv", "ev", "extra"})
    BY <1>9 DEF Ints
  <2>2. SumFunctionOnSet(v, {"load", "pv", "ev", "extra"} \union {"bess"}) = v["bess"] + SumFunctionOnSet(v, {"load", "pv", "ev", "extra"})
    BY <1>3, <1>9, <2>1, SumWith
  <2>. QED  BY <1>9, <1>15, <2>1, <2>2
<1>. QED  BY <1>6, <1>7, <1>8, <1>10, <1>16

LEMMA EmptyIsList == IsList(<<>>) /\ Len(<<>>) = 0 /\ DOMAIN <<>> = {}
BY DEF IsList

Longer(t, s, x) ==
    /\ IsList(t) /\ Len(t) = Len(s) + 1
    /\ t[Len(s) + 1] = x /\ \A i \in 1..Len(s) : t[i] = s[i]

LEMMA AppendToList ==
    ASSUME NEW s, IsList(s), NEW x
    PROVE  Longer(Append(s, x), s, x)
<1> DEFINE S == {s[i] : i \in 1..Len(s)} \union {x}
           n == Len(s)
           t == Append(s, x)
<1>1. n \in Nat /\ s = [i \in 1..n |-> s[i]]
  BY DEF IsList
<1>2. [i \in 1..n |-> s[i]] \in [1..n -> S]
  OBVIOUS
<1>3. s \in [1..n -> S]
  BY <1>1, <1>2
<1>. HIDE DEF S, n
<1>4. s \in Seq(S) /\ Len(s) = n
  BY <1>1, <1>3, ListsAreSequences
<1>5. x \in S
  BY DEF S
<1>6. t \in Seq(S) /\ Len(t) = n + 1 /\ t[n + 1] = x /\ \A i \in 1..n : t[i] = s[i]
  BY <1>1, <1>4, <1>5
<1>7. t \in [1..(n + 1) -> S]
  BY <1>6, SequencesAreLists
<1>8. t = [i \in 1..(n + 1) |-> t[i]]
  BY <1>7
<1>9. n + 1 \in Nat
  BY <1>1
<1>. QED  BY <1>6, <1>7, <1>8, <1>9 DEF IsList, Longer, n

LEMMA DayIsComplete ==
    ASSUME JobInv, FleetInv, DispatchInv, stage = "plugin", todo = <<>>
    PROVE  Complete(Req, Bus, DayResult, Steps)
<1> DEFINE base == [key \in BuiltIn \union DOMAIN series |-> Contributed(key)]
<1>1. InService
  BY DEF InService
<1>2. Traced(series, Steps) /\ "net" \notin DOMAIN series
  BY <1>1 DEF JobInv, Tracing
<1>3. Traced(base, Steps) /\ DOMAIN base = BuiltIn \union DOMAIN series
  <2>1. BuiltIn \subseteq Keys
    BY DEF BuiltIn, Keys
  <2>2. \A key \in DOMAIN base : base[key] \in [1..Steps -> Int]
    BY <1>1, SeriesOfTheDay
  <2>. QED  BY <1>2, <2>1, <2>2 DEF Traced
<1>4. ASSUME NEW key, NEW i \in DaySteps PROVE Of(base, key, i) = Of(series, key, i)
  <2>1. Contributed(key)[i] = Of(series, key, i)
    BY <1>1, SeriesOfTheDay
  <2>2. CASE key \in DOMAIN base
    BY <2>1, <2>2 DEF Of
  <2>3. CASE key \notin DOMAIN base
    BY <1>3, <2>3 DEF Of
  <2>. QED  BY <2>2, <2>3
<1>5. DayResult = With(base, "net", NetLoad)
  BY DEF DayResult
<1>6. DaySteps # {} /\ 1 \in DaySteps
  BY DayIsFinite
<1>7. NetLoad \in [DaySteps -> Int]
  BY <1>1, <1>6, NetLoadAddsUp
<1>. HIDE DEF base
<1>8. Traced(DayResult, Steps) /\ DOMAIN DayResult = DOMAIN base \union {"net"}
  <2>1. "net" \in Keys /\ NetLoad \in [1..Steps -> Int]
    BY <1>7 DEF Keys, DaySteps
  <2>2. Traced(With(base, "net", NetLoad), Steps) /\ DOMAIN With(base, "net", NetLoad) = DOMAIN base \union {"net"}
    BY <1>3, <2>1, WithIsTraced DEF Keys
  <2>. QED  BY <1>5, <2>2
<1>9. ASSUME NEW i \in DaySteps PROVE Sound(Req, Bus, DayResult, i)
  <2>1. ASSUME NEW key, key # "net" PROVE Of(DayResult, key, i) = Of(series, key, i)
    BY <1>4, <1>5, <2>1, WithOthers
  <2>2. Of(DayResult, "net", i) = NetLoad[i]
    BY <1>5, WithIts
  <2>3. Balanced(DayResult, i)
    <3>1. /\ Of(DayResult, "load", i) = Of(series, "load", i) /\ Of(DayResult, "pv", i) = Of(series, "pv", i)
          /\ Of(DayResult, "ev", i) = Of(series, "ev", i) /\ Of(DayResult, "extra", i) = Of(series, "extra", i)
          /\ Of(DayResult, "bess", i) = Of(series, "bess", i)
      BY <2>1
    <3>. QED  BY <1>1, <2>2, <3>1, NetLoadAddsUp DEF Balanced
  <2>4. Same(series, i, DayResult, i)
    BY <2>1 DEF Same
  <2>5. Dispatched(Req, Bus, series, i) /\ Covered(Bus, series, i)
    BY <1>1 DEF DispatchInv, FleetInv
  <2>. QED  BY <2>3, <2>4, <2>5, SameIsDispatched, SameIsCovered DEF Sound
<1>. QED  BY <1>3, <1>8, <1>9 DEF Complete, DaySteps

\* Complete days make a complete horizon.
LEMMA DaysAreComplete ==
    ASSUME NEW r, NEW b, NEW n \in Nat \ {0}, NEW results, IsList(results), Len(results) = n,
           \A d \in 1..n : Complete(r, b, results[d], Steps)
    PROVE  Complete(r, b, Merged(results), n * Steps)
<1> DEFINE merged == Merged(results)
<1>1. DOMAIN results = 1..n
  BY DEF IsList
<1>2. DOMAIN merged = UNION {DOMAIN results[d] : d \in 1..n} /\ Steps \in Nat
  BY <1>1, DayAssumption DEF Merged
<1>3. ASSUME NEW key \in DOMAIN merged
      PROVE  /\ merged[key] \in [1..(n * Steps) -> Int]
             /\ \A d \in 1..n, k \in 1..Steps : merged[key][(d - 1) * Steps + k] = Of(results[d], key, k)
  <2> DEFINE lists == [d \in DOMAIN results |-> IF key \in DOMAIN results[d] THEN results[d][key] ELSE Zeros]
  <2>1. merged[key] = FlattenSeq(lists)
    BY DEF Merged, Joined
  <2>2. lists \in [1..n -> [1..Steps -> Int]]
    <3>1. Zeros \in [1..Steps -> Int]
      BY DEF Zeros, DaySteps
    <3>2. ASSUME NEW d \in 1..n, key \in DOMAIN results[d] PROVE results[d][key] \in [1..Steps -> Int]
      BY <3>2 DEF Complete, Traced
    <3>. QED  BY <1>1, <3>1, <3>2
  <2>3. \A d \in 1..n, k \in 1..Steps : lists[d][k] = Of(results[d], key, k)
    BY <1>1 DEF Of, Zeros, DaySteps
  <2>. HIDE DEF lists, merged
  <2>4. /\ FlattenSeq(lists) \in [1..(n * Steps) -> Int]
        /\ \A d \in 1..n, k \in 1..Steps : FlattenSeq(lists)[(d - 1) * Steps + k] = lists[d][k]
    <3>1. Steps \in Nat /\ n \in Nat \ {0}
      BY <1>2
    <3>. QED  BY <2>2, <3>1, FlattenOfEqualLists, ZenonT(40)
  <2>. QED  BY <2>1, <2>3, <2>4
<1>. HIDE DEF merged
<1>4. Traced(merged, n * Steps)
  <2>1. DOMAIN merged \subseteq Keys
    BY <1>2 DEF Complete, Traced
  <2>. QED  BY <1>3, <2>1 DEF Traced
<1>5. {"net"} \union BuiltIn \subseteq DOMAIN merged
  <2>1. 1 \in 1..n
    OBVIOUS
  <2>. QED  BY <1>2, <2>1 DEF Complete
<1>6. ASSUME NEW i \in 1..(n * Steps) PROVE Sound(r, b, merged, i)
  <2>1. \E d \in 1..n, k \in 1..Steps : i = (d - 1) * Steps + k
    BY ZenonT(40), <1>2, PositionInLists
  <2>2. PICK d \in 1..n, k \in 1..Steps : i = (d - 1) * Steps + k
    BY <2>1
  <2>3. ASSUME NEW key PROVE Of(results[d], key, k) = Of(merged, key, i)
    <3>1. CASE key \in DOMAIN merged
      BY <1>3, <2>2, <3>1 DEF Of
    <3>2. CASE key \notin DOMAIN merged
      BY <1>2, <3>2 DEF Of
    <3>. QED  BY <3>1, <3>2
  <2>4. SamePlusNet(results[d], k, merged, i)
    BY <2>3 DEF SamePlusNet
  <2>5. Sound(r, b, results[d], k)
    BY DEF Complete
  <2>. QED  BY <2>4, <2>5, SameIsSound
<1>. QED  BY <1>4, <1>5, <1>6 DEF Complete, merged

\* What the command has finished: the days of the bus, and the buses.
DaysInv ==
    InService =>
        /\ IsList(days) /\ Len(days) = day - 1
        /\ \A d \in 1..(day - 1) : Complete(Req, Bus, days[d], Steps)
Finished == IF InService THEN bus - 1 ELSE Len(buses)

\* A row is of the last finished bus of its id; every finished bus has one.
IsRow(row, done) ==
    /\ row.of \in 1..done /\ row.id = buses[row.of].id
    /\ Complete(Req, buses[row.of], row.series, Req.days * Steps)
    /\ row.fleet = FleetKw(buses[row.of])
    /\ \A i \in 1..done : buses[i].id = row.id => i <= row.of
Rows(rows, done) ==
    /\ IsList(rows)
    /\ \A b \in DOMAIN rows : IsRow(rows[b], done)
    /\ \A i \in 1..done : \E b \in DOMAIN rows : rows[b].id = buses[i].id
    /\ \A a, b \in DOMAIN rows : rows[a].id = rows[b].id => a = b
HorizonInv ==
    /\ stage = "idle" => horizon = <<>>
    /\ stage # "idle" => Rows(horizon, Finished)

\* Recording a bus keeps the rows as they should be.
LEMMA RecordedKeepsRows ==
    ASSUME NEW rows, NEW done \in Nat, Rows(rows, done),
           NEW row, IsRow(row, done + 1), row.of = done + 1
    PROVE  Rows(Recorded(rows, row), done + 1)
<1> DEFINE t == Recorded(rows, row)
           n == Len(rows)
           one == done + 1
<1>1. n \in Nat /\ DOMAIN rows = 1..n /\ rows = [b \in 1..n |-> rows[b]]
  BY DEF Rows, IsList
<1>2. row.id = buses[one].id
  BY DEF IsRow
<1>3. \A i \in 1..one : i \in 1..done \/ i = one
  OBVIOUS
<1>4. ASSUME NEW b \in DOMAIN rows, rows[b].id # row.id PROVE IsRow(rows[b], one)
  <2>1. IsRow(rows[b], done)
    BY DEF Rows
  <2>2. rows[b].of \in 1..one
    BY <2>1 DEF IsRow
  <2>3. ASSUME NEW i \in 1..one, buses[i].id = rows[b].id PROVE i <= rows[b].of
    <3>1. i # one
      BY <1>2, <1>4, <2>3
    <3>. QED  BY <1>3, <2>1, <2>3, <3>1 DEF IsRow
  <2>. HIDE DEF one
  <2>. QED  BY <2>1, <2>2, <2>3 DEF IsRow
<1>5. CASE \E b \in DOMAIN rows : rows[b].id = row.id
  <2>1. t = [b \in 1..n |-> IF rows[b].id = row.id THEN row ELSE rows[b]]
    BY <1>1, <1>5 DEF Recorded
  <2>. HIDE DEF t, n
  <2>2. DOMAIN t = 1..n /\ t = [b \in 1..n |-> t[b]]
    BY <2>1
  <2>3. IsList(t)
    <3>1. t \in [1..n -> {t[b] : b \in 1..n}]
      BY <2>2
    <3>2. Len(t) = n
      BY <1>1, <3>1, ListsAreSequences
    <3>. QED  BY <1>1, <2>2, <3>2 DEF IsList
  <2>4. ASSUME NEW b \in 1..n PROVE t[b].id = rows[b].id /\ IsRow(t[b], one)
    <3>. HIDE DEF one
    <3>1. CASE rows[b].id = row.id
      BY <2>1, <3>1 DEF one
    <3>2. CASE rows[b].id # row.id
      BY <1>1, <1>4, <2>1, <3>2
    <3>. QED  BY <3>1, <3>2
  <2>5. ASSUME NEW i \in 1..one PROVE \E b \in 1..n : t[b].id = buses[i].id
    <3>1. CASE i \in 1..done
      <4>1. PICK b \in DOMAIN rows : rows[b].id = buses[i].id
        BY <3>1 DEF Rows
      <4>. QED  BY <1>1, <2>4, <4>1
    <3>2. CASE i = one
      <4>1. PICK b \in DOMAIN rows : rows[b].id = row.id
        BY <1>5
      <4>. QED  BY <1>1, <1>2, <2>4, <3>2, <4>1
    <3>. QED  BY <1>3, <3>1, <3>2
  <2>6. \A a, b \in 1..n : t[a].id = t[b].id => a = b
    BY <1>1, <2>4 DEF Rows
  <2>. HIDE DEF one
  <2>7. Rows(t, one)
    BY <2>2, <2>3, <2>4, <2>5, <2>6 DEF Rows
  <2>. QED  BY SMTT(30), <2>7 DEF t, one
<1>6. CASE ~ \E b \in DOMAIN rows : rows[b].id = row.id
  <2>1. t = Append(rows, row)
    BY <1>6 DEF Recorded
  <2>2. IsList(t) /\ Len(t) = n + 1 /\ t[n + 1] = row /\ \A b \in 1..n : t[b] = rows[b]
    BY <2>1, AppendToList DEF Longer, Rows
  <2>. HIDE DEF t, n
  <2>3. DOMAIN t = 1..(n + 1) /\ \A b \in 1..(n + 1) : b \in 1..n \/ b = n + 1
    BY <1>1, <2>2 DEF IsList
  <2>4. ASSUME NEW b \in DOMAIN t PROVE IsRow(t[b], one)
    <3>1. CASE b \in 1..n
      <4>1. t[b] = rows[b] /\ rows[b].id # row.id
        BY <1>1, <1>6, <2>2, <3>1
      <4>. QED  BY <1>1, <1>4, <3>1, <4>1
    <3>2. CASE b = n + 1
      BY <2>2, <3>2
    <3>. QED  BY <2>3, <3>1, <3>2
  <2>5. ASSUME NEW i \in 1..one PROVE \E b \in DOMAIN t : t[b].id = buses[i].id
    <3>1. CASE i \in 1..done
      <4>1. PICK b \in DOMAIN rows : rows[b].id = buses[i].id
        BY <3>1 DEF Rows
      <4>2. b \in 1..n /\ b \in 1..(n + 1)
        BY <1>1, <4>1
      <4>. QED  BY <2>2, <2>3, <4>1, <4>2
    <3>2. CASE i = one
      <4>1. n + 1 \in 1..(n + 1)
        BY <1>1
      <4>. QED  BY <1>2, <2>2, <2>3, <3>2, <4>1
    <3>. QED  BY <1>3, <3>1, <3>2
  <2>6. ASSUME NEW a \in DOMAIN t, NEW b \in DOMAIN t, t[a].id = t[b].id PROVE a = b
    <3>1. CASE a \in 1..n /\ b \in 1..n
      <4>1. rows[a].id = rows[b].id /\ a \in DOMAIN rows /\ b \in DOMAIN rows
        BY <1>1, <2>2, <2>6, <3>1
      <4>. QED  BY <4>1 DEF Rows
    <3>2. CASE a \in 1..n /\ b = n + 1
      BY <1>1, <1>6, <2>2, <2>6, <3>2
    <3>3. CASE a = n + 1 /\ b \in 1..n
      BY <1>1, <1>6, <2>2, <2>6, <3>3
    <3>. QED  BY <2>3, <3>1, <3>2, <3>3
  <2>. HIDE DEF one
  <2>7. Rows(t, one)
    BY <2>2, <2>4, <2>5, <2>6 DEF Rows
  <2>. QED  BY <2>7 DEF t, one
<1>. QED  BY <1>5, <1>6

LEMMA ReceiveKeepsResults ==
    ASSUME JobInv, HorizonInv, NEW r \in Requests, Receive(r)
    PROVE  DaysInv' /\ HorizonInv'
<1>1. horizon' = horizon /\ horizon = <<>>
  BY DEF Receive, HorizonInv
<1>2. CASE buses' = <<>>
  <2>1. stage' = "answered" /\ Len(buses') = 0
    BY <1>2 DEF Receive
  <2>2. Finished' = 0
    BY <2>1 DEF Finished, InService
  <2>. QED  BY <1>1, <2>1, <2>2, EmptyIsList DEF DaysInv, HorizonInv, Rows, InService
<1>3. CASE buses' # <<>>
  <2>1. stage' = "plugin" /\ bus' = 1 /\ day' = 1 /\ days' = <<>>
    BY <1>3 DEF Receive, StartBus
  <2>2. Finished' = 0 /\ day' - 1 = 0
    BY <2>1 DEF Finished, InService
  <2>. QED  BY <1>1, <2>1, <2>2, EmptyIsList DEF DaysInv, HorizonInv, Rows
<1>. QED  BY <1>2, <1>3

LEMMA EndOfDayKeepsResults ==
    ASSUME JobInv, FleetInv, DispatchInv, DaysInv, HorizonInv, EndOfDay
    PROVE  DaysInv' /\ HorizonInv'
<1>1. /\ request' = request /\ buses' = buses /\ bus' = bus /\ day' = day + 1 /\ horizon' = horizon /\ stage' = stage
      /\ stage = "plugin" /\ todo = <<>> /\ days' = Append(days, DayResult)
  BY DEF EndOfDay
<1>2. InService /\ Req' = Req /\ Bus' = Bus /\ InService' /\ Finished' = Finished
  BY <1>1 DEF InService, Req, Bus, Finished
<1>3. IsList(days) /\ Len(days) = day - 1 /\ \A d \in 1..(day - 1) : Complete(Req, Bus, days[d], Steps)
  BY <1>2 DEF DaysInv
<1>4. day \in Nat \ {0}
  <2>1. Req.days \in Nat \ {0} /\ day \in 1..Req.days
    BY <1>1, <1>2, ServedBus, ServedCommand DEF JobInv
  <2>. QED  BY <2>1
<1>5. Complete(Req, Bus, DayResult, Steps)
  BY <1>1, DayIsComplete
<1>6. /\ IsList(days') /\ Len(days') = Len(days) + 1
      /\ days'[Len(days) + 1] = DayResult /\ \A i \in 1..Len(days) : days'[i] = days[i]
  <2>1. Longer(Append(days, DayResult), days, DayResult)
    BY <1>3, AppendToList
  <2>. QED  BY <1>1, <2>1 DEF Longer
<1>7. Len(days) + 1 = day /\ day' - 1 = day
  BY <1>1, <1>3, <1>4
<1>8. ASSUME NEW d \in 1..day PROVE Complete(Req, Bus, days'[d], Steps)
  <2>1. CASE d = day
    BY <1>5, <1>6, <1>7, <2>1
  <2>2. CASE d # day
    <3>1. d \in 1..(day - 1)
      BY <1>4, <2>2
    <3>. QED  BY <1>3, <1>6, <3>1
  <2>. QED  BY <2>1, <2>2
<1>9. DaysInv'
  BY <1>2, <1>3, <1>6, <1>7, <1>8 DEF DaysInv
<1>10. HorizonInv'
  BY <1>1, <1>2 DEF HorizonInv, Rows, IsRow
<1>. QED  BY <1>9, <1>10

LEMMA EndOfBusKeepsResults ==
    ASSUME JobInv, FleetInv, DispatchInv, DaysInv, HorizonInv, EndOfBus
    PROVE  DaysInv' /\ HorizonInv'
<1> DEFINE all == Append(days, DayResult)
           row == [id |-> Bus.id, of |-> bus, series |-> Merged(all), soh |-> AgedTonight,
                   capacity |-> IF Bus.bess = "none" THEN Bus.capacity ELSE Nameplate(Bus), fleet |-> FleetKw(Bus)]
<1>1. /\ request' = request /\ buses' = buses /\ horizon' = Recorded(horizon, row)
      /\ stage = "plugin" /\ todo = <<>> /\ day = Req.days
  BY DEF EndOfBus
<1>2. InService /\ Req' = Req /\ stage # "idle"
  BY <1>1 DEF InService, Req
<1>3. IsList(days) /\ Len(days) = day - 1 /\ \A d \in 1..(day - 1) : Complete(Req, Bus, days[d], Steps)
  BY <1>2 DEF DaysInv
<1>4. Req.days \in Nat \ {0} /\ Len(buses) \in Nat /\ bus \in 1..Len(buses)
  BY <1>2, ServedBus, ServedCommand DEF JobInv
<1>5. Complete(Req, Bus, DayResult, Steps)
  BY <1>1, DayIsComplete
<1>6. /\ IsList(all) /\ Len(all) = Len(days) + 1
      /\ all[Len(days) + 1] = DayResult /\ \A i \in 1..Len(days) : all[i] = days[i]
  <2>1. Longer(all, days, DayResult)
    BY <1>3, AppendToList
  <2>. QED  BY <2>1 DEF Longer
<1>. HIDE DEF all
<1>7. Len(days) + 1 = Req.days
  BY <1>1, <1>3, <1>4
<1>8. ASSUME NEW d \in 1..Req.days PROVE Complete(Req, Bus, all[d], Steps)
  <2>1. CASE d = Req.days
    BY <1>5, <1>6, <1>7, <2>1
  <2>2. CASE d # Req.days
    <3>1. d \in 1..(day - 1) /\ d \in 1..Len(days)
      BY <1>1, <1>3, <1>4, <2>2
    <3>. QED  BY <1>3, <1>6, <3>1
  <2>. QED  BY <2>1, <2>2
<1>9. Complete(Req, Bus, Merged(all), Req.days * Steps)
  <2>1. Len(all) = Req.days
    BY <1>6, <1>7
  <2>. QED  BY <1>4, <1>6, <1>8, <2>1, DaysAreComplete
<1>10. row.series = Merged(all) /\ row.fleet = FleetKw(Bus) /\ row.of = bus /\ row.id = Bus.id
  OBVIOUS
<1>. HIDE DEF row
<1>11. Rows(horizon, bus - 1) /\ bus - 1 \in Nat /\ (bus - 1) + 1 = bus
  BY <1>2, <1>4 DEF HorizonInv, Finished
<1>12. IsRow(row, bus)
  BY <1>4, <1>9, <1>10 DEF IsRow, Bus
<1>13. Rows(horizon', bus)
  <2> DEFINE done == bus - 1
  <2>. HIDE DEF done
  <2>1. Rows(horizon, done) /\ done \in Nat /\ done + 1 = bus
    BY <1>11 DEF done
  <2>2. Rows(Recorded(horizon, row), done + 1)
    BY <1>10, <1>12, <2>1, RecordedKeepsRows
  <2>. QED  BY <1>1, <2>1, <2>2
<1>14. CASE bus < Len(buses)
  <2>1. bus' = bus + 1 /\ stage' = "plugin" /\ day' = 1 /\ days' = <<>>
    BY <1>1, <1>14 DEF EndOfBus, StartBus
  <2>2. Finished' = bus /\ day' - 1 = 0 /\ stage' # "idle"
    BY <1>4, <2>1 DEF Finished, InService
  <2>3. DaysInv'
    BY <2>1, <2>2, EmptyIsList DEF DaysInv
  <2>4. HorizonInv'
    BY <1>1, <1>2, <1>13, <2>2 DEF HorizonInv, Rows, IsRow
  <2>. QED  BY <2>3, <2>4
<1>15. CASE ~(bus < Len(buses))
  <2>1. stage' = "answered"
    BY <1>15 DEF EndOfBus
  <2>2. Finished' = bus
    BY <1>1, <1>4, <1>15, <2>1 DEF Finished, InService
  <2>3. HorizonInv'
    BY <1>1, <1>2, <1>13, <2>1, <2>2 DEF HorizonInv, Rows, IsRow
  <2>. QED  BY <2>1, <2>3 DEF DaysInv, InService
<1>. QED  BY <1>14, <1>15

LEMMA ResultsKept ==
    FilesInv /\ JobInv /\ FleetInv /\ DispatchInv /\ DaysInv /\ HorizonInv /\ [Next]_vars => (DaysInv /\ HorizonInv)'
<1> SUFFICES ASSUME FilesInv, JobInv, FleetInv, DispatchInv, DaysInv, HorizonInv, [Next]_vars PROVE DaysInv' /\ HorizonInv'
  OBVIOUS
<1>1. ASSUME UNCHANGED <<request, buses, bus, day, days, horizon>>,
             stage' = stage \/ (InService /\ InService') PROVE DaysInv' /\ HorizonInv'
  <2>1. Req' = Req /\ Bus' = Bus /\ InService' = InService /\ (stage' = "idle" <=> stage = "idle")
    BY <1>1 DEF Req, Bus, InService
  <2>2. Finished' = Finished
    BY <1>1, <2>1 DEF Finished
  <2>. QED  BY <1>1, <2>1, <2>2 DEF DaysInv, HorizonInv, Rows, IsRow
<1>2. CASE UNCHANGED jobVars
  BY <1>1, <1>2 DEF jobVars
<1>3. ASSUME NEW r \in Requests, Receive(r) PROVE DaysInv' /\ HorizonInv'
  BY <1>3, ReceiveKeepsResults
<1>4. CASE Skip \/ LoadPlugin \/ PvPlugin \/ EvPlugin \/ ExtraPlugin
  BY <1>1, <1>4, PluginsContribute DEF Ran
<1>5. CASE BatteryPlugin
  <2>1. InService /\ InService'
    BY <1>5 DEF BatteryPlugin, Turn, InService
  <2>. QED  BY <1>1, <1>5, <2>1 DEF BatteryPlugin
<1>6. CASE BatteryStep
  <2>1. InService /\ InService'
    BY <1>6 DEF BatteryStep, InService
  <2>. QED  BY <1>1, <1>6, <2>1 DEF BatteryStep
<1>7. CASE EndOfDay
  BY <1>7, EndOfDayKeepsResults
<1>8. CASE EndOfBus
  BY <1>8, EndOfBusKeepsResults
<1>9. CASE PluginFails \/ Reply \/ Restart
  BY <1>9 DEF PluginFails, Fail, Reply, Restart, Answer, DaysInv, HorizonInv, InService
<1>10. CASE StoreNext /\ UNCHANGED jobVars
  BY <1>2, <1>10
<1>11. CASE UNCHANGED vars
  BY <1>2, <1>11 DEF vars
<1>. QED  BY <1>3, <1>4, <1>5, <1>6, <1>7, <1>8, <1>9, <1>10, <1>11 DEF Next, Generate

ResultsInv == StoreInv /\ FilesInv /\ JobInv /\ FleetInv /\ DispatchInv /\ DaysInv /\ HorizonInv

LEMMA GeneratingResults == Spec => []ResultsInv
<1>1. Init => ResultsInv
  <2>1. Init => FleetInv /\ DispatchInv /\ DaysInv /\ HorizonInv
    BY DEF Init, Idle, FleetInv, DispatchInv, DaysInv, HorizonInv, InService
  <2>. QED  BY <2>1, InitJob DEF ResultsInv
<1>2. ResultsInv /\ [Next]_vars => ResultsInv'
  BY StoreKept, FilesKept, JobKept, SeriesKept, ResultsKept DEF ResultsInv
<1>. QED  BY <1>1, <1>2, PTL DEF Spec

-----------------------------------------------------------------------------
(* The answer.                                                             *)

\* What is known of an answer that is about to leave.
LEMMA AnswerIsComplete ==
    ASSUME ResultsInv, stage = "answered"
    PROVE  /\ Len(horizon) \in Nat /\ DOMAIN horizon = 1..Len(horizon)
           /\ Len(buses) \in Nat /\ DOMAIN buses = 1..Len(buses)
           /\ Rows(horizon, Len(buses))
           /\ Req.days * Steps \in Nat \ {0}
           /\ \A b \in DOMAIN horizon :
                 /\ horizon[b].of \in DOMAIN buses
                 /\ IsBusConfig(buses[horizon[b].of]) /\ horizon[b].fleet = FleetKw(buses[horizon[b].of])
                 /\ Complete(Req, buses[horizon[b].of], horizon[b].series, Req.days * Steps)
<1>1. stage # "idle" /\ Finished = Len(buses)
  BY DEF Finished, InService
<1>2. IsBusList(buses) /\ Req.days \in Nat \ {0}
  BY <1>1, ServedCommand DEF ResultsInv, JobInv
<1>3. Len(buses) \in Nat /\ DOMAIN buses = 1..Len(buses) /\ \A b \in 1..Len(buses) : IsBusConfig(buses[b])
  BY <1>2 DEF IsBusList, IsList
<1>4. Rows(horizon, Len(buses))
  BY <1>1 DEF ResultsInv, HorizonInv
<1>5. Len(horizon) \in Nat /\ DOMAIN horizon = 1..Len(horizon)
  BY <1>4 DEF Rows, IsList
<1>6. \A b \in DOMAIN horizon : IsRow(horizon[b], Len(buses))
  BY <1>4 DEF Rows
<1>7. Req.days * Steps \in Nat \ {0}
  <2> DEFINE n == Req.days
  <2>1. n \in Nat \ {0} /\ Steps \in Nat \ {0}
    BY <1>2, DayAssumption
  <2>. HIDE DEF n
  <2>2. n * Steps \in Nat \ {0}
    BY <2>1
  <2>. QED  BY <2>2 DEF n
<1>. QED  BY <1>3, <1>4, <1>5, <1>6, <1>7 DEF IsRow

LEMMA CompleteSeries ==
    ASSUME NEW r, NEW b, NEW s, NEW n, Complete(r, b, s, n), NEW key \in {"load", "pv", "ev", "bess", "net"}
    PROVE  key \in DOMAIN s /\ s[key] \in [1..n -> Int] /\ \A i \in 1..n : s[key][i] = Of(s, key, i)
<1>1. key \in DOMAIN s
  BY DEF Complete, BuiltIn
<1>. QED  BY <1>1 DEF Complete, Traced, Of

(* Self-consumption moves the net load it can see towards zero and never   *)
(* past it, time of use never discharges more than the demand, and neither *)
(* exceeds the rating: in every timestep of every answer, whatever the     *)
(* devices, the profiles and the length of the horizon.                    *)
THEOREM DispatchIsBounded == Spec => []DispatchNeverOvershoots
<1>1. ResultsInv => DispatchNeverOvershoots
  <2> SUFFICES ASSUME ResultsInv, stage = "answered", NEW b \in DOMAIN horizon,
                      NEW i \in DOMAIN horizon[b].series["net"]
               PROVE  LET s == horizon[b].series
                          before == NetOfBattery(s, i)
                          power == s["bess"][i]
                          rated == BatteryOf(buses[horizon[b].of], 100)
                      IN /\ -rated.charge <= power /\ power <= rated.discharge
                         /\ IF Req.timeOfUse THEN power > 0 => power <= s["load"][i] + s["ev"][i]
                            ELSE IF before >= 0 THEN 0 <= power /\ power <= before
                            ELSE before <= power /\ power <= 0
    BY DEF DispatchNeverOvershoots
  <2> DEFINE s == horizon[b].series
             n == Req.days * Steps
  <2>1. Complete(Req, buses[horizon[b].of], s, n)
    BY AnswerIsComplete
  <2>. HIDE DEF s, n
  <2>2. i \in 1..n
    <3>1. s["net"] \in [1..n -> Int]
      BY <2>1, CompleteSeries
    <3>. QED  BY <3>1 DEF s
  <2>3. /\ s["load"][i] = Of(s, "load", i) /\ s["ev"][i] = Of(s, "ev", i)
        /\ s["pv"][i] = Of(s, "pv", i) /\ s["bess"][i] = Of(s, "bess", i)
        /\ {"load", "ev", "pv"} \subseteq DOMAIN s
    BY <2>1, <2>2, CompleteSeries
  <2>4. NetOfBattery(s, i) = Of(s, "load", i) + Of(s, "ev", i) - Of(s, "pv", i)
    BY DEF NetOfBattery, Of
  <2>5. Dispatched(Req, buses[horizon[b].of], s, i)
    BY <2>1, <2>2 DEF Complete, Sound
  <2> DEFINE power == Of(s, "bess", i)
             demand == Of(s, "load", i) + Of(s, "ev", i)
             before == demand - Of(s, "pv", i)
             rated == BatteryOf(buses[horizon[b].of], 100)
  <2>6. /\ -rated.charge <= power /\ power <= rated.discharge
        /\ IF Req.timeOfUse THEN power > 0 => power <= demand
           ELSE IF before >= 0 THEN 0 <= power /\ power <= before ELSE before <= power /\ power <= 0
    BY <2>5, Zenon DEF Dispatched
  <2>7. s["bess"][i] = power /\ NetOfBattery(s, i) = before /\ s["load"][i] + s["ev"][i] = demand
    <3>1. NetOfBattery(s, i) = before
      <4>1. Of(s, "load", i) \in Int /\ Of(s, "ev", i) \in Int /\ Of(s, "pv", i) \in Int
        BY <2>1, <2>2, TracedIsInt DEF Complete
      <4>. QED  BY <2>4, <4>1
    <3>2. s["bess"][i] = power
      BY <2>3, Zenon
    <3>3. s["load"][i] + s["ev"][i] = demand
      BY <2>3, Zenon
    <3>. QED  BY <3>1, <3>2, <3>3
  <2>. HIDE DEF power, demand, before, rated
  <2>8. LET bf == NetOfBattery(s, i)
            pw == s["bess"][i]
        IN /\ -rated.charge <= pw /\ pw <= rated.discharge
           /\ IF Req.timeOfUse THEN pw > 0 => pw <= s["load"][i] + s["ev"][i]
              ELSE IF bf >= 0 THEN 0 <= pw /\ pw <= bf ELSE bf <= pw /\ pw <= 0
    BY <2>6, <2>7, Zenon
  <2>. QED  BY <2>8, Zenon DEF s, rated
<1>. QED  BY <1>1, GeneratingResults, PTL

LEMMA OtherIsExtra ==
    ASSUME NEW h, NEW r, NEW b, NEW n \in Nat, Complete(r, b, h.series, n)
    PROVE  /\ Payload(h) = [i \in 1..n |-> Payload(h)[i]]
           /\ \A i \in 1..n : /\ Payload(h)[i]["other"] = Of(h.series, "extra", i)
                              /\ Of(h.series, "extra", i) \in Int
<1> DEFINE s == h.series
<1>1. DOMAIN s["net"] = 1..n
  <2>1. s["net"] \in [1..n -> Int]
    BY CompleteSeries
  <2>. QED  BY <2>1
<1>2. Payload(h) = [i \in 1..n |-> With([key \in DOMAIN s |-> s[key][i]], "other", OtherDer(s, i))]
  BY <1>1 DEF Payload
<1>3. ASSUME NEW i \in 1..n PROVE OtherDer(s, i) = Of(s, "extra", i) /\ Of(s, "extra", i) \in Int
  <2>1. /\ s["load"][i] = Of(s, "load", i) /\ s["ev"][i] = Of(s, "ev", i) /\ s["net"][i] = Of(s, "net", i)
        /\ s["pv"][i] = Of(s, "pv", i) /\ s["bess"][i] = Of(s, "bess", i)
    BY CompleteSeries
  <2>2. \A key \in Keys : Of(s, key, i) \in Int
    BY TracedIsInt DEF Complete
  <2>3. /\ Of(s, "load", i) \in Int /\ Of(s, "ev", i) \in Int /\ Of(s, "extra", i) \in Int
        /\ Of(s, "pv", i) \in Int /\ Of(s, "bess", i) \in Int
    BY <2>2 DEF Keys
  <2>4. Balanced(s, i)
    BY DEF Complete, Sound
  <2>5. Of(s, "net", i) = Of(s, "load", i) - Of(s, "pv", i) + Of(s, "ev", i) + Of(s, "extra", i) - Of(s, "bess", i)
    BY <2>4 DEF Balanced
  <2>6. OtherDer(s, i) = Of(s, "net", i) - (Of(s, "load", i) - Of(s, "pv", i) + Of(s, "ev", i) - Of(s, "bess", i))
    BY <2>1 DEF OtherDer
  <2>. QED  BY <2>3, <2>5, <2>6
<1>4. \A i \in 1..n : Payload(h)[i]["other"] = OtherDer(s, i)
  BY <1>2 DEF With
<1>. QED  BY <1>2, <1>3, <1>4

(* The answer has one row for every bus id, generated from the last        *)
(* configuration of that id, over the whole horizon, and its net load is   *)
(* the four built-in devices plus exactly what drop-in plugins contributed *)
(* on the days they did.                                                   *)
THEOREM AnswerCarriesEverything == Spec => []PayloadCarriesEverything
<1>1. ResultsInv => PayloadCarriesEverything
  <2> SUFFICES ASSUME ResultsInv, stage = "answered" PROVE PayloadCarriesEverything
    BY DEF PayloadCarriesEverything
  <2> DEFINE n == Req.days * Steps
  <2>1. /\ n \in Nat /\ Rows(horizon, Len(buses)) /\ DOMAIN buses = 1..Len(buses) /\ Len(buses) \in Nat
        /\ \A b \in DOMAIN horizon : Complete(Req, buses[horizon[b].of], horizon[b].series, n)
    BY AnswerIsComplete
  <2>. HIDE DEF n
  <2>2. ASSUME NEW b \in DOMAIN horizon
        PROVE  LET h == horizon[b].series
                   extra(i) == IF "extra" \in DOMAIN h THEN h["extra"][i] ELSE 0
               IN /\ \A key \in DOMAIN h : Len(h[key]) = n
                  /\ Len(Payload(horizon[b])) = n
                  /\ \A i \in 1..n : Payload(horizon[b])[i]["other"] = extra(i)
    <3> DEFINE h == horizon[b].series
               p == Payload(horizon[b])
    <3>1. Complete(Req, buses[horizon[b].of], h, n)
      BY <2>1
    <3>2. ASSUME NEW key \in DOMAIN h PROVE Len(h[key]) = n
      <4>1. h[key] \in [1..n -> Int]
        BY <3>1 DEF Complete, Traced
      <4>. QED  BY <2>1, <4>1, ListsAreSequences
    <3>3. p = [i \in 1..n |-> p[i]] /\ \A i \in 1..n : p[i]["other"] = Of(h, "extra", i)
      BY <2>1, <3>1, OtherIsExtra
    <3>4. Len(p) = n
      BY <2>1, <3>3
    <3>. QED  BY <3>2, <3>3, <3>4 DEF Of
  <2>3. \A b \in DOMAIN horizon : IsRow(horizon[b], Len(buses))
    BY <2>1 DEF Rows
  <2>4. ASSUME NEW b \in DOMAIN horizon PROVE horizon[b].of = BusLookup(horizon[b].id)
    <3> DEFINE row == horizon[b]
               S == {i \in DOMAIN buses : buses[i].id = row.id}
    <3>1. IsRow(row, Len(buses))
      BY <2>3
    <3>2. row.of \in S /\ \A i \in S : i <= row.of
      BY <2>1, <3>1 DEF IsRow
    <3>3. S \in SUBSET Int
      BY <2>1
    <3>. HIDE DEF S
    <3>4. Max(S) = row.of
      BY <3>2, <3>3, GreatestIs
    <3>. QED  BY <3>4 DEF BusLookup, S
  <2>5. {horizon[b].id : b \in DOMAIN horizon} = {buses[i].id : i \in DOMAIN buses}
    <3>1. \A b \in DOMAIN horizon : \E i \in DOMAIN buses : horizon[b].id = buses[i].id
      BY <2>1, <2>3 DEF IsRow
    <3>2. \A i \in DOMAIN buses : \E b \in DOMAIN horizon : horizon[b].id = buses[i].id
      BY <2>1 DEF Rows
    <3>. QED  BY <3>1, <3>2
  <2>6. \A a, b \in DOMAIN horizon : horizon[a].id = horizon[b].id => a = b
    BY <2>1 DEF Rows
  <2>. QED  BY <2>2, <2>4, <2>5, <2>6 DEF PayloadCarriesEverything, n
<1>. QED  BY <1>1, GeneratingResults, PTL

LEMMA RangeHasExtremes ==
    ASSUME NEW n \in Nat \ {0}, NEW f \in [1..n -> Int]
    PROVE  /\ Max(Range(f)) \in Int /\ \E i \in 1..n : Max(Range(f)) = f[i]
           /\ Min(Range(f)) \in Int
           /\ \A i \in 1..n : f[i] <= Max(Range(f)) /\ Min(Range(f)) <= f[i]
<1>1. Range(f) = {f[i] : i \in 1..n} /\ Range(f) \in SUBSET Int
  BY DEF Range
<1>2. IsFiniteSet(1..n)
  BY FS_Interval
<1>3. IsFiniteSet(Range(f))
  BY <1>1, <1>2, ImageIsFinite
<1>4. f[1] \in Range(f)
  BY <1>1
<1>5. Max(Range(f)) \in Range(f) /\ \A y \in Range(f) : y <= Max(Range(f))
  BY <1>1, <1>3, <1>4, GreatestExists
<1>6. Min(Range(f)) \in Range(f) /\ \A y \in Range(f) : Min(Range(f)) <= y
  BY <1>1, <1>3, <1>4, LeastExists
<1>. QED  BY <1>1, <1>5, <1>6

\* The net load summed over the buses is the sum of its parts.
LEMMA SumOfParts ==
    ASSUME NEW S, IsFiniteSet(S), NEW net, NEW load, NEW pv, NEW ev, NEW bess, NEW other,
           Ints(load, S), Ints(pv, S), Ints(ev, S), Ints(bess, S), Ints(other, S),
           \A b \in S : net[b] = (load[b] - pv[b]) + ev[b] + other[b] - bess[b]
    PROVE  SumFunctionOnSet(net, S) =
               SumFunctionOnSet(load, S) - SumFunctionOnSet(pv, S) + SumFunctionOnSet(ev, S)
                   - SumFunctionOnSet(bess, S) + SumFunctionOnSet(other, S)
<1> DEFINE u1 == [b \in S |-> load[b] - pv[b]]
           u2 == [b \in S |-> u1[b] + ev[b]]
           u3 == [b \in S |-> u2[b] + other[b]]
<1>1. Combines(u1, 1, load, -1, pv, S) /\ Ints(u1, S)
  BY DEF Combines, Ints
<1>. HIDE DEF u1
<1>2. Combines(u2, 1, u1, 1, ev, S) /\ Ints(u2, S)
  BY <1>1 DEF Combines, Ints
<1>. HIDE DEF u2
<1>3. Combines(u3, 1, u2, 1, other, S) /\ Ints(u3, S)
  BY <1>2 DEF Combines, Ints
<1>. HIDE DEF u3
<1>4. Combines(net, 1, u3, -1, bess, S)
  <2>1. ASSUME NEW b \in S PROVE net[b] = u3[b] - bess[b] /\ u3[b] \in Int /\ bess[b] \in Int
    <3>1. u1[b] = load[b] - pv[b] /\ u2[b] = u1[b] + ev[b] /\ u3[b] = u2[b] + other[b]
      BY DEF u1, u2, u3
    <3>2. load[b] \in Int /\ pv[b] \in Int /\ ev[b] \in Int /\ other[b] \in Int /\ bess[b] \in Int
      BY DEF Ints
    <3>. QED  BY <3>1, <3>2
  <2>. QED  BY <2>1 DEF Combines
<1>5. 1 \in Int /\ -1 \in Int
  OBVIOUS
<1> DEFINE Sum(f) == SumFunctionOnSet(f, S)
<1>6. /\ Sum(load) \in Int /\ Sum(pv) \in Int /\ Sum(ev) \in Int /\ Sum(other) \in Int /\ Sum(bess) \in Int
      /\ Sum(u1) \in Int /\ Sum(u2) \in Int /\ Sum(u3) \in Int
  BY <1>1, <1>2, <1>3, SumIsInt
<1>7. Sum(u1) = 1 * Sum(load) + (-1) * Sum(pv)
  BY <1>1, <1>5, SumIsLinear
<1>8. Sum(u2) = 1 * Sum(u1) + 1 * Sum(ev)
  BY <1>1, <1>2, <1>5, SumIsLinear
<1>9. Sum(u3) = 1 * Sum(u2) + 1 * Sum(other)
  BY <1>2, <1>3, <1>5, SumIsLinear
<1>10. Sum(net) = 1 * Sum(u3) + (-1) * Sum(bess)
  BY <1>3, <1>4, <1>5, SumIsLinear
<1>. HIDE DEF Sum
<1>11. Sum(net) = Sum(load) - Sum(pv) + Sum(ev) - Sum(bess) + Sum(other)
  BY <1>6, <1>7, <1>8, <1>9, <1>10
<1>. QED  BY <1>11 DEF Sum

\* One device of every bus in one timestep.
Devices == {"load", "pv", "ev", "bess", "net"}
Slice(key, i) == [b \in DOMAIN horizon |-> horizon[b].series[key][i]]
Others(i) == [b \in DOMAIN horizon |-> Payload(horizon[b])[i]["other"]]

LEMMA SlicesAreInts ==
    ASSUME ResultsInv, stage = "answered", NEW n, n = Req.days * Steps
    PROVE  /\ IsFiniteSet(DOMAIN horizon)
           /\ \A key \in Devices, i \in 1..n :
                 /\ Ints(Slice(key, i), DOMAIN horizon)
                 /\ SumFunction(Slice(key, i)) \in Int
           /\ \A i \in 1..n : Ints(Others(i), DOMAIN horizon)
           /\ \A key \in Devices : FeederTotal(key) \in [1..n -> Int]
                                   /\ \A i \in 1..n : FeederTotal(key)[i] = SumFunction(Slice(key, i))
<1>1. /\ n \in Nat \ {0} /\ DOMAIN horizon = 1..Len(horizon) /\ Len(horizon) \in Nat
      /\ \A b \in DOMAIN horizon : Complete(Req, buses[horizon[b].of], horizon[b].series, n)
  BY AnswerIsComplete
<1>2. IsFiniteSet(DOMAIN horizon)
  BY <1>1, FS_Interval
<1>3. ASSUME NEW key \in Devices, NEW i \in 1..n
      PROVE  Ints(Slice(key, i), DOMAIN horizon) /\ SumFunction(Slice(key, i)) \in Int
  <2>1. ASSUME NEW b \in DOMAIN horizon PROVE horizon[b].series[key] \in [1..n -> Int]
    BY <1>1, CompleteSeries DEF Devices
  <2>2. Ints(Slice(key, i), DOMAIN horizon) /\ DOMAIN Slice(key, i) = DOMAIN horizon
    BY <2>1 DEF Ints, Slice
  <2>. QED  BY <1>2, <2>2, SumIsInt DEF SumFunction
<1>4. ASSUME NEW i \in 1..n PROVE Ints(Others(i), DOMAIN horizon)
  <2>1. ASSUME NEW b \in DOMAIN horizon PROVE Payload(horizon[b])[i]["other"] \in Int
    <3>1. Payload(horizon[b])[i]["other"] = Of(horizon[b].series, "extra", i) /\ Of(horizon[b].series, "extra", i) \in Int
      BY <1>1, OtherIsExtra
    <3>. QED  BY <3>1
  <2>. QED  BY <2>1 DEF Ints, Others
<1>5. ASSUME NEW key \in Devices
      PROVE  FeederTotal(key) \in [1..n -> Int] /\ \A i \in 1..n : FeederTotal(key)[i] = SumFunction(Slice(key, i))
  <2>1. FeederTotal(key) = [i \in 1..n |-> SumFunction(Slice(key, i))]
    BY DEF FeederTotal, Slice
  <2>. QED  BY <1>3, <2>1
<1>. QED  BY <1>2, <1>3, <1>4, <1>5

\* The reported EV capacity covers what the fleets draw.
LEMMA FleetCoversDemand ==
    ASSUME ResultsInv, stage = "answered", NEW n, n = Req.days * Steps, NEW i \in 1..n,
           \A b \in DOMAIN buses : Rated(buses[b].evRate, NamedRate) >= NamedRate
    PROVE  SumFunction(Slice("ev", i)) <= Summary.fleet
<1> DEFINE S == DOMAIN horizon
           fleets == [b \in S |-> horizon[b].fleet]
<1>1. \A b \in S : /\ horizon[b].of \in DOMAIN buses
                   /\ IsBusConfig(buses[horizon[b].of]) /\ horizon[b].fleet = FleetKw(buses[horizon[b].of])
                   /\ Complete(Req, buses[horizon[b].of], horizon[b].series, n)
  BY AnswerIsComplete
<1>2. IsFiniteSet(S) /\ Ints(Slice("ev", i), S)
  BY SlicesAreInts DEF Devices
<1>3. ASSUME NEW b \in S PROVE fleets[b] \in Int /\ Slice("ev", i)[b] <= fleets[b]
  <2> DEFINE c == buses[horizon[b].of]
  <2>1. fleets[b] = FleetKw(c) /\ FleetKw(c) \in Nat
    BY <1>1, FleetIsNat
  <2>2. Covered(c, horizon[b].series, i)
    BY <1>1 DEF Complete, Sound
  <2>3. Of(horizon[b].series, "ev", i) <= FleetKw(c)
    BY <1>1, <2>2 DEF Covered
  <2>4. Slice("ev", i)[b] = Of(horizon[b].series, "ev", i)
    BY <1>1, CompleteSeries DEF Slice
  <2>. QED  BY <2>1, <2>3, <2>4
<1>4. DOMAIN Slice("ev", i) = S /\ DOMAIN fleets = S
  BY DEF Slice
<1>5. Summary.fleet = SumFunctionOnSet(fleets, S)
  BY DEF Summary, SumFunction
<1>. HIDE DEF S, fleets
<1>6. SumFunctionOnSet(Slice("ev", i), S) <= SumFunctionOnSet(fleets, S)
  BY <1>2, <1>3, SumIsMonotone DEF Ints
<1>. QED  BY <1>4, <1>5, <1>6 DEF SumFunction

\* The feeder peaks at most as high as all its buses together.
LEMMA PeakIsBounded ==
    ASSUME ResultsInv, stage = "answered"
    PROVE  Summary.peak <= Summary.sumOfPeaks
<1> DEFINE S == DOMAIN horizon
           n == Req.days * Steps
           peaks == [b \in S |-> Max(Range(horizon[b].series["load"]))]
<1>1. n \in Nat \ {0} /\ \A b \in S : Complete(Req, buses[horizon[b].of], horizon[b].series, n)
  BY AnswerIsComplete
<1>2. /\ IsFiniteSet(S) /\ FeederTotal("load") \in [1..n -> Int]
      /\ \A i \in 1..n : Ints(Slice("load", i), S) /\ FeederTotal("load")[i] = SumFunction(Slice("load", i))
  BY SlicesAreInts DEF Devices
<1>3. Summary.peak = Max(Range(FeederTotal("load"))) /\ Summary.sumOfPeaks = SumFunctionOnSet(peaks, S)
  BY DEF Summary, SumFunction
<1>. HIDE DEF n
<1>4. PICK i \in 1..n : Max(Range(FeederTotal("load"))) = FeederTotal("load")[i]
  BY <1>1, <1>2, RangeHasExtremes
<1>5. ASSUME NEW b \in S PROVE peaks[b] \in Int /\ Slice("load", i)[b] <= peaks[b]
  <2>1. horizon[b].series["load"] \in [1..n -> Int]
    BY <1>1, CompleteSeries
  <2>. QED  BY <1>1, <2>1, RangeHasExtremes DEF Slice
<1>6. DOMAIN Slice("load", i) = S
  BY DEF Slice
<1>. HIDE DEF S, peaks
<1>7. SumFunctionOnSet(Slice("load", i), S) <= SumFunctionOnSet(peaks, S)
  BY <1>2, <1>5, SumIsMonotone DEF Ints
<1>. QED  BY <1>2, <1>3, <1>4, <1>6, <1>7 DEF SumFunction

\* The reported minimum counts every device.
LEMMA LeastCountsAll ==
    ASSUME ResultsInv, stage = "answered", NEW n, n = Req.days * Steps, NEW i \in 1..n
    PROVE  Summary.least <= SumFunction(Slice("load", i)) - SumFunction(Slice("pv", i)) + SumFunction(Slice("ev", i))
                               - SumFunction(Slice("bess", i)) + SumFunction(Others(i))
<1> DEFINE S == DOMAIN horizon
           net == Slice("net", i)
           load == Slice("load", i)
           pv == Slice("pv", i)
           ev == Slice("ev", i)
           bess == Slice("bess", i)
           other == Others(i)
<1>1. n \in Nat \ {0} /\ \A b \in S : Complete(Req, buses[horizon[b].of], horizon[b].series, n)
  BY AnswerIsComplete
<1>2. /\ IsFiniteSet(S) /\ FeederTotal("net") \in [1..n -> Int] /\ FeederTotal("net")[i] = SumFunction(net)
      /\ Ints(load, S) /\ Ints(pv, S) /\ Ints(ev, S) /\ Ints(bess, S) /\ Ints(other, S)
  BY SlicesAreInts DEF Devices
<1>3. Summary.least = Min(Range(FeederTotal("net")))
  BY DEF Summary
<1>4. Summary.least <= SumFunction(net)
  BY <1>1, <1>2, <1>3, RangeHasExtremes
<1>5. ASSUME NEW b \in S PROVE net[b] = (load[b] - pv[b]) + ev[b] + other[b] - bess[b]
  <2> DEFINE s == horizon[b].series
  <2>1. Complete(Req, buses[horizon[b].of], s, n)
    BY <1>1
  <2>2. /\ s["load"][i] = Of(s, "load", i) /\ s["ev"][i] = Of(s, "ev", i) /\ s["net"][i] = Of(s, "net", i)
        /\ s["pv"][i] = Of(s, "pv", i) /\ s["bess"][i] = Of(s, "bess", i)
    BY <2>1, CompleteSeries
  <2>3. /\ net[b] = Of(s, "net", i) /\ load[b] = Of(s, "load", i) /\ pv[b] = Of(s, "pv", i)
        /\ ev[b] = Of(s, "ev", i) /\ bess[b] = Of(s, "bess", i)
    BY <2>2 DEF Slice
  <2>4. other[b] = Of(s, "extra", i)
    BY <1>1, <2>1, OtherIsExtra DEF Others
  <2>5. Balanced(s, i)
    BY <2>1 DEF Complete, Sound
  <2>6. \A key : Of(s, key, i) \in Int
    BY <2>1, TracedIsInt DEF Complete
  <2>. QED  BY <2>3, <2>4, <2>5, <2>6 DEF Balanced
<1>6. DOMAIN net = S /\ DOMAIN load = S /\ DOMAIN pv = S /\ DOMAIN ev = S /\ DOMAIN bess = S /\ DOMAIN other = S
  BY DEF Slice, Others
<1>. HIDE DEF S, net, load, pv, ev, bess, other
<1>7. SumFunctionOnSet(net, S) =
          SumFunctionOnSet(load, S) - SumFunctionOnSet(pv, S) + SumFunctionOnSet(ev, S)
              - SumFunctionOnSet(bess, S) + SumFunctionOnSet(other, S)
  BY <1>2, <1>5, SumOfParts
<1>8. /\ SumFunction(net) = SumFunctionOnSet(net, S) /\ SumFunction(load) = SumFunctionOnSet(load, S)
      /\ SumFunction(pv) = SumFunctionOnSet(pv, S) /\ SumFunction(ev) = SumFunctionOnSet(ev, S)
      /\ SumFunction(bess) = SumFunctionOnSet(bess, S) /\ SumFunction(other) = SumFunctionOnSet(other, S)
  BY <1>6 DEF SumFunction
<1>9. Summary.least <= SumFunction(load) - SumFunction(pv) + SumFunction(ev) - SumFunction(bess) + SumFunction(other)
  BY <1>4, <1>7, <1>8
<1>. QED  BY <1>9 DEF load, pv, ev, bess, other

(* The summary fits the series it is sent with: the reported EV capacity   *)
(* covers the fleet's demand unless a bus sets a lower rate than the       *)
(* charger's, the feeder peaks at most when all buses do, and its minimum  *)
(* counts every device.                                                    *)
THEOREM SummaryFitsSeries == Spec => []SummaryMatchesSeries
<1>1. ResultsInv => SummaryMatchesSeries
  <2> SUFFICES ASSUME ResultsInv, stage = "answered" PROVE SummaryMatchesSeries
    BY DEF SummaryMatchesSeries
  <2>. QED  BY FleetCoversDemand, PeakIsBounded, LeastCountsAll DEF SummaryMatchesSeries, Slice, Others
<1>. QED  BY <1>1, GeneratingResults, PTL
=============================================================================
