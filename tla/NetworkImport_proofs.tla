------------------------ MODULE NetworkImport_proofs ------------------------
(***************************************************************************)
(* The CIM reader gives back the network a file describes, for any case;   *)
(* and the dispatcher, from which every import goes to its reader.         *)
(***************************************************************************)
EXTENDS ImportCases_proofs

-----------------------------------------------------------------------------
(* CIM: terminals and the buses they are at.                               *)

\* The loads in service, by their places among the loads.
OnPlaces(c) == {k \in DOMAIN c.loads : c.loads[k].on}
OnCount(c) == Cardinality(OnPlaces(c))

LEMMA OnLoadsAre ==
    ASSUME NEW c, IsCase(c)
    PROVE  /\ OnCount(c) \in Nat /\ IsSeq(OnLoads(c)) /\ Len(OnLoads(c)) = OnCount(c)
           /\ DOMAIN OnLoads(c) = 1..OnCount(c)
           /\ \A k \in 1..OnCount(c) : /\ Nth(OnPlaces(c), k) \in OnPlaces(c)
                                       /\ OnLoads(c)[k] = c.loads[Nth(OnPlaces(c), k)]
                                       /\ OnLoads(c)[k].bus \in DOMAIN c.volts /\ OnLoads(c)[k].watts \in Nat
<1> DEFINE at == OnPlaces(c)
<1>1. at \in SUBSET Int /\ IsFiniteSet(at) /\ at \in SUBSET DOMAIN c.loads
  <2>1. DOMAIN c.loads = 1..Len(c.loads) /\ Len(c.loads) \in Nat
    BY CaseShape
  <2>2. IsFiniteSet(DOMAIN c.loads) /\ DOMAIN c.loads \in SUBSET Int
    BY <2>1, FS_Interval
  <2>3. at \in SUBSET DOMAIN c.loads
    BY DEF OnPlaces
  <2>. HIDE DEF at
  <2>. QED  BY <2>2, <2>3, FS_Subset
<1>2. OnLoads(c) = Picked(c.loads, at)
  BY DEF OnLoads, OnPlaces
<1>3. OnCount(c) = Cardinality(at)
  BY DEF OnCount
<1>. HIDE DEF at
<1>4. /\ IsSeq(Picked(c.loads, at)) /\ Len(Picked(c.loads, at)) = Cardinality(at)
      /\ DOMAIN Picked(c.loads, at) = 1..Cardinality(at)
      /\ \A k \in 1..Cardinality(at) : Nth(at, k) \in at /\ Picked(c.loads, at)[k] = c.loads[Nth(at, k)]
  BY <1>1, PickedElements
<1>5. Cardinality(at) \in Nat
  BY <1>1, Enumerated
<1>6. \A k \in DOMAIN c.loads : c.loads[k].bus \in DOMAIN c.volts /\ c.loads[k].watts \in Nat
  BY CaseShape
<1>. QED  BY <1>1, <1>2, <1>3, <1>4, <1>5, <1>6 DEF at

\* Branch e is at terminals e and n + e, load k at 2n + k, the grid at the last.
TerminalsAre(c, t, n, K) ==
    /\ n \in Nat /\ K \in Nat /\ DOMAIN t = 1..(2 * n + K + 1)
    /\ \A j \in DOMAIN t : t[j].id = j /\ t[j].phases = {}
    /\ \A e \in 1..n : /\ t[e].node = BranchAt(c, e).from /\ t[e].equip = e
                       /\ t[n + e].node = BranchAt(c, e).to /\ t[n + e].equip = e
    /\ \A k \in 1..K : t[2 * n + k].node = OnLoads(c)[k].bus /\ t[2 * n + k].equip = n + k
    /\ t[2 * n + K + 1].node = 1 /\ t[2 * n + K + 1].equip = 0

LEMMA CimTerminalsAre ==
    ASSUME NEW c, IsCase(c)
    PROVE  TerminalsAre(c, CimTerminals(c), Many(c), OnCount(c))
<1> DEFINE n == Many(c)
           K == OnCount(c)
           t == CimTerminals(c)
           terminal(j, node, equip) == [id |-> j, node |-> node, equip |-> equip, phases |-> {}]
<1>1. n \in Nat /\ K \in Nat /\ Len(OnLoads(c)) = K
  BY BranchesAreMany, OnLoadsAre
<1>2. t = [j \in 1..(2 * n + K + 1) |->
             IF j <= n THEN terminal(j, BranchAt(c, j).from, j)
             ELSE IF j <= 2 * n THEN terminal(j, BranchAt(c, j - n).to, j - n)
             ELSE IF j <= 2 * n + K THEN terminal(j, OnLoads(c)[j - 2 * n].bus, j - n)
             ELSE terminal(j, 1, 0)]
  BY <1>1 DEF CimTerminals, Many
<1>. HIDE DEF n, K, t
<1>3. DOMAIN t = 1..(2 * n + K + 1)
  BY <1>2
<1>4. \A j \in 1..(2 * n + K + 1) : t[j].id = j /\ t[j].phases = {}
  BY <1>2
<1>5. ASSUME NEW e \in 1..n PROVE t[e].node = BranchAt(c, e).from /\ t[e].equip = e
  <2>1. e \in 1..(2 * n + K + 1) /\ e <= n
    BY <1>1
  <2>. QED  BY <1>2, <2>1
<1>6. ASSUME NEW e \in 1..n PROVE t[n + e].node = BranchAt(c, e).to /\ t[n + e].equip = e
  <2>1. n + e \in 1..(2 * n + K + 1) /\ ~(n + e <= n) /\ n + e <= 2 * n /\ (n + e) - n = e
    BY <1>1
  <2>2. t[n + e] = terminal(n + e, BranchAt(c, (n + e) - n).to, (n + e) - n)
    BY <1>2, <2>1
  <2>. QED  BY <2>1, <2>2
<1>7. ASSUME NEW k \in 1..K PROVE t[2 * n + k].node = OnLoads(c)[k].bus /\ t[2 * n + k].equip = n + k
  <2> DEFINE j == 2 * n + k
  <2>1. /\ j \in 1..(2 * n + K + 1) /\ ~(j <= n) /\ ~(j <= 2 * n) /\ j <= 2 * n + K /\ j - 2 * n = k
        /\ j - n = n + k
    BY <1>1
  <2>. HIDE DEF j
  <2>2. t[j] = terminal(j, OnLoads(c)[j - 2 * n].bus, j - n)
    BY <1>2, <2>1
  <2>. QED  BY <2>1, <2>2 DEF j
<1>8. t[2 * n + K + 1].node = 1 /\ t[2 * n + K + 1].equip = 0
  <2> DEFINE j == 2 * n + K + 1
  <2>1. j \in 1..(2 * n + K + 1) /\ ~(j <= n) /\ ~(j <= 2 * n) /\ ~(j <= 2 * n + K)
    BY <1>1
  <2>. HIDE DEF j
  <2>2. t[j] = terminal(j, 1, 0)
    BY <1>2, <2>1
  <2>. QED  BY <2>2 DEF j
<1>9. TerminalsAre(c, t, n, K)
  BY <1>1, <1>3, <1>4, <1>5, <1>6, <1>7, <1>8 DEF TerminalsAre
<1>. QED  BY <1>9 DEF n, K, t

\* There are no others.
LEMMA TerminalKinds ==
    ASSUME NEW n \in Nat, NEW K \in Nat, NEW j \in 1..(2 * n + K + 1)
    PROVE  \/ j \in 1..n \/ \E e \in 1..n : j = n + e
           \/ \E k \in 1..K : j = 2 * n + k
           \/ j = 2 * n + K + 1
<1>1. CASE j > n /\ j <= 2 * n
  <2>1. j - n \in 1..n /\ j = n + (j - n)
    BY <1>1
  <2>. QED  BY <2>1
<1>2. CASE j > 2 * n /\ j <= 2 * n + K
  <2>1. j - 2 * n \in 1..K /\ j = 2 * n + (j - 2 * n)
    BY <1>2
  <2>. QED  BY <2>1
<1>. QED  BY <1>1, <1>2

\* Node b is bus b.
NodesAre(c, nodes) ==
    /\ Len(nodes) = Len(c.volts) /\ DOMAIN nodes = DOMAIN c.volts
    /\ \A b \in DOMAIN c.volts : nodes[b].id = b /\ nodes[b].level = IF b = 1 THEN c.volts[1] ELSE Absent

LEMMA NodeBusIs ==
    ASSUME NEW c, IsCase(c), NEW f, NodesAre(c, f.nodes), NEW b \in DOMAIN c.volts
    PROVE  NodeBus(f, b) = b /\ b # 0
<1> DEFINE at == {i \in DOMAIN f.nodes : f.nodes[i].id = b}
<1>1. DOMAIN c.volts = 1..Len(c.volts) /\ Len(c.volts) \in Nat
  BY CaseShape
<1>2. at = {b} /\ b \in Nat /\ b # 0
  BY <1>1 DEF NodesAre
<1>3. at \in SUBSET Int /\ b \in at /\ (\A y \in at : y <= b) /\ at # {}
  BY <1>2
<1>4. NodeBus(f, b) = Max(at)
  BY <1>3 DEF NodeBus
<1>. HIDE DEF at
<1>. QED  BY <1>2, <1>3, <1>4, GreatestIs

-----------------------------------------------------------------------------
(* CIM: what is in a file.                                                 *)

Levels(c) == {c.volts[b] : b \in DOMAIN c.volts}
FileVolts(si, v) == IF si THEN v * 1000 ELSE v
FileWatts(si, w) == IF si THEN w * 1000 ELSE w \div 1000
RatedVolts(c, changer, i) ==
    (c.volts[c.transformers[i].to] * (IF changer THEN 1000 ELSE c.transformers[i].tap)) \div 1000

\* The winding of transformer i on the low side, and the one on the high side.
IsLowEnd(c, si, changer, i, e) ==
    LET br == c.transformers[i]
        L == Len(c.lines)
        T == Len(c.transformers)
    IN /\ e.id = -i /\ e.pt = L + i /\ e.number = 2
       /\ e.terminal = (IF i = 1 THEN 2 * L + T + 1 ELSE Absent)
       /\ e.ratedU = FileVolts(si, RatedVolts(c, changer, i)) /\ e.base = c.volts[br.to]
       /\ e.ratio = (IF changer THEN br.tap ELSE 1000) /\ e.delta = FALSE /\ e.ratedS = 0 /\ e.z = 0
IsHighEnd(c, si, changer, i, e) ==
    LET br == c.transformers[i]
        L == Len(c.lines)
        T == Len(c.transformers)
    IN /\ e.id = -(T + i) /\ e.pt = L + i /\ e.number = 1
       /\ e.terminal = (IF i = 1 THEN L + 1 ELSE Absent)
       /\ e.ratedU = FileVolts(si, c.volts[br.from]) /\ e.base = c.volts[br.from]
       /\ e.ratio = 1000 /\ e.delta = br.delta /\ e.ratedS = br.rate /\ e.z = CaseOhms(c, L + i)
EndsAre(c, si, changer, ends) ==
    /\ DOMAIN ends = 1..(2 * Len(c.transformers))
    /\ \A i \in 1..Len(c.transformers) : /\ IsLowEnd(c, si, changer, i, ends[i])
                                         /\ IsHighEnd(c, si, changer, i, ends[Len(c.transformers) + i])

LEMMA CimEndsAre ==
    ASSUME NEW c, IsCase(c), NEW si, NEW changer
    PROVE  EndsAre(c, si, changer, CimEnds(c, si, changer))
<1> DEFINE L == Len(c.lines)
           T == Len(c.transformers)
           volts(v) == IF si THEN v * 1000 ELSE v
           winding(j, i, number, bus, tap, terminal) ==
             [id |-> -j, pt |-> L + i,
              terminal |-> IF i = 1 THEN terminal ELSE Absent, number |-> number,
              ratedU |-> volts((c.volts[bus] * (IF changer THEN 1000 ELSE tap)) \div 1000),
              base |-> c.volts[bus], own |-> Absent, level |-> Absent,
              ratio |-> IF changer THEN tap ELSE 1000,
              delta |-> number = 1 /\ c.transformers[i].delta,
              ratedS |-> IF number = 1 THEN c.transformers[i].rate ELSE 0,
              z |-> IF number = 1 THEN CaseOhms(c, L + i) ELSE 0]
           low(i) == winding(i, i, 2, c.transformers[i].to, c.transformers[i].tap, 2 * L + T + 1)
           high(i) == winding(T + i, i, 1, c.transformers[i].from, 1000, L + 1)
           e == CimEnds(c, si, changer)
<1>1. L \in Nat /\ T \in Nat
  BY CaseShape
<1>2. e = [j \in 1..(2 * T) |-> IF j <= T THEN low(j) ELSE high(j - T)]
  BY DEF CimEnds
<1>3. ASSUME NEW i \in 1..T PROVE IsLowEnd(c, si, changer, i, low(i))
  <2>1. low(i).ratedS = 0 /\ low(i).z = 0
    OBVIOUS
  <2>4. low(i).delta = FALSE
    <3>1. low(i).delta = (2 = 1 /\ c.transformers[i].delta)
      OBVIOUS
    <3>2. (2 = 1 /\ c.transformers[i].delta) = FALSE
      OBVIOUS
    <3>. HIDE DEF low
    <3>. QED  BY <3>1, <3>2
  <2>2. low(i).ratedU = FileVolts(si, RatedVolts(c, changer, i))
    BY DEF FileVolts, RatedVolts
  <2>3. /\ low(i).id = -i /\ low(i).pt = L + i /\ low(i).number = 2 /\ low(i).base = c.volts[c.transformers[i].to]
        /\ low(i).terminal = (IF i = 1 THEN 2 * L + T + 1 ELSE Absent)
        /\ low(i).ratio = (IF changer THEN c.transformers[i].tap ELSE 1000)
    OBVIOUS
  <2>. HIDE DEF low
  <2>. QED  BY <2>1, <2>2, <2>3, <2>4 DEF IsLowEnd
<1>4. ASSUME NEW i \in 1..T PROVE IsHighEnd(c, si, changer, i, high(i))
  <2>1. c.transformers[i].delta \in BOOLEAN /\ c.volts[c.transformers[i].from] \in Nat
    BY TransformerIs, CaseShape
  <2>2. high(i).delta = c.transformers[i].delta
    BY <2>1
  <2>3. high(i).ratedU = FileVolts(si, c.volts[c.transformers[i].from])
    <3>1. (c.volts[c.transformers[i].from] * 1000) \div 1000 = c.volts[c.transformers[i].from]
      BY <2>1
    <3>2. high(i).ratedU = volts((c.volts[c.transformers[i].from] * 1000) \div 1000)
      OBVIOUS
    <3>. QED  BY <3>1, <3>2 DEF FileVolts
  <2>4. /\ high(i).id = -(T + i) /\ high(i).pt = L + i /\ high(i).number = 1
        /\ high(i).base = c.volts[c.transformers[i].from]
        /\ high(i).terminal = (IF i = 1 THEN L + 1 ELSE Absent)
        /\ high(i).ratedS = c.transformers[i].rate /\ high(i).z = CaseOhms(c, L + i)
    OBVIOUS
  <2>5. high(i).ratio = 1000
    OBVIOUS
  <2>. HIDE DEF high
  <2>. QED  BY <2>2, <2>3, <2>4, <2>5 DEF IsHighEnd
<1>. HIDE DEF low, high, e, L, T
<1>5. DOMAIN e = 1..(2 * T)
  BY <1>2
<1>6. ASSUME NEW i \in 1..T PROVE e[i] = low(i) /\ e[T + i] = high(i)
  <2>1. i \in 1..(2 * T) /\ i <= T /\ T + i \in 1..(2 * T) /\ ~(T + i <= T) /\ (T + i) - T = i
    BY <1>1
  <2> DEFINE j == T + i
  <2>. HIDE DEF j
  <2>2. e[i] = low(i)
    BY <1>2, <2>1
  <2>3. e[j] = high(j - T)
    BY <1>2, <2>1 DEF j
  <2>. QED  BY <2>1, <2>2, <2>3 DEF j
<1>7. \A i \in 1..T : IsLowEnd(c, si, changer, i, e[i]) /\ IsHighEnd(c, si, changer, i, e[T + i])
  BY <1>3, <1>4, <1>6
<1>. QED  BY <1>5, <1>7 DEF EndsAre, e, T

-----------------------------------------------------------------------------

Current(c, i) == (c.lines[i].rate * 1000) \div c.volts[c.lines[i].from]
LimitsAre(c, limits) ==
    LET L == Len(c.lines)
        is(x, amps, continuous, value) == x.amps = amps /\ x.continuous = continuous /\ x.value = value
    IN /\ DOMAIN limits = 1..(3 * L)
       /\ \A i \in 1..L : /\ limits[i].terminal = i /\ limits[L + i].terminal = i /\ limits[2 * L + i].terminal = i
                          /\ is(limits[2 * L + i], TRUE, TRUE, Current(c, i) + 1)
                          /\ i % 2 = 1 => /\ is(limits[i], FALSE, TRUE, c.lines[i].rate)
                                          /\ is(limits[L + i], FALSE, FALSE, 1)
                          /\ i % 2 # 1 => /\ is(limits[i], TRUE, FALSE, 1)
                                          /\ is(limits[L + i], TRUE, TRUE, Current(c, i))

LEMMA CimLimitsAre ==
    ASSUME NEW c, IsCase(c)
    PROVE  LimitsAre(c, CimLimits(c))
<1> DEFINE L == Len(c.lines)
           limit(i, amps, continuous, value) ==
             [terminal |-> i, equip |-> Absent, amps |-> amps, continuous |-> continuous, value |-> value]
           current(i) == (c.lines[i].rate * 1000) \div c.volts[c.lines[i].from]
           first(i) == IF i % 2 = 1 THEN limit(i, FALSE, TRUE, c.lines[i].rate) ELSE limit(i, TRUE, FALSE, 1)
           second(i) == IF i % 2 = 1 THEN limit(i, FALSE, FALSE, 1) ELSE limit(i, TRUE, TRUE, current(i))
           third(i) == limit(i, TRUE, TRUE, current(i) + 1)
           x == CimLimits(c)
<1>1. L \in Nat
  BY CaseShape
<1>2. x = [j \in 1..(3 * L) |-> IF j <= L THEN first(j) ELSE IF j <= 2 * L THEN second(j - L) ELSE third(j - 2 * L)]
  BY DEF CimLimits
<1>3. \A i : /\ first(i).terminal = i /\ second(i).terminal = i /\ third(i).terminal = i
             /\ third(i).amps = TRUE /\ third(i).continuous = TRUE /\ third(i).value = Current(c, i) + 1
  BY DEF Current
<1>4. \A i : i % 2 = 1 => /\ first(i).amps = FALSE /\ first(i).continuous = TRUE /\ first(i).value = c.lines[i].rate
                          /\ second(i).amps = FALSE /\ second(i).continuous = FALSE /\ second(i).value = 1
  OBVIOUS
<1>5. \A i : i % 2 # 1 => /\ first(i).amps = TRUE /\ first(i).continuous = FALSE /\ first(i).value = 1
                          /\ second(i).amps = TRUE /\ second(i).continuous = TRUE /\ second(i).value = Current(c, i)
  BY DEF Current
<1>. HIDE DEF first, second, third, x, L
<1>6. DOMAIN x = 1..(3 * L)
  BY <1>2
<1>7. ASSUME NEW i \in 1..L PROVE x[i] = first(i) /\ x[L + i] = second(i) /\ x[2 * L + i] = third(i)
  <2> DEFINE j == L + i
             k == 2 * L + i
  <2>1. /\ i \in 1..(3 * L) /\ i <= L /\ j \in 1..(3 * L) /\ ~(j <= L) /\ j <= 2 * L /\ j - L = i
        /\ k \in 1..(3 * L) /\ ~(k <= L) /\ ~(k <= 2 * L) /\ k - 2 * L = i
    BY <1>1
  <2>. HIDE DEF j, k
  <2>2. x[i] = first(i)
    BY <1>2, <2>1
  <2>3. x[j] = second(j - L)
    BY <1>2, <2>1
  <2>4. x[k] = third(k - 2 * L)
    BY <1>2, <2>1
  <2>. QED  BY <2>1, <2>2, <2>3, <2>4 DEF j, k
<1>. QED  BY <1>3, <1>4, <1>5, <1>6, <1>7 DEF LimitsAre, x, L

LinesAre(c, lines) ==
    /\ IsSeq(lines) /\ Len(lines) = Len(c.lines)
    /\ \A i \in 1..Len(c.lines) : /\ lines[i].id = i /\ lines[i].base = Absent /\ lines[i].level = Absent
                                  /\ lines[i].z = CaseOhms(c, i) /\ lines[i].z0 = Absent
ConsumersAre(c, si, consumers) ==
    /\ DOMAIN consumers = 1..OnCount(c)
    /\ \A k \in 1..OnCount(c) : /\ consumers[k].id = Many(c) + k /\ consumers[k].phases = {}
                                /\ consumers[k].p = FileWatts(si, OnLoads(c)[k].watts)
CimIs(c, si, changer, f) ==
    /\ f.base = [v \in Levels(c) |-> FileVolts(si, v)] /\ f.level = [v \in Levels(c) |-> v]
    /\ NodesAre(c, f.nodes) /\ f.nodes = [b \in DOMAIN c.volts |-> f.nodes[b]]
    /\ TerminalsAre(c, f.terminals, Many(c), OnCount(c)) /\ LinesAre(c, f.lines)
    /\ EndsAre(c, si, changer, f.ends) /\ LimitsAre(c, f.limits) /\ ConsumersAre(c, si, f.consumers)
    /\ f.injections = <<0>>

LEMMA CimFile ==
    ASSUME NEW c, IsCase(c), NEW si, NEW changer
    PROVE  CimIs(c, si, changer, Cim(c, si, changer))
<1> DEFINE f == Cim(c, si, changer)
           on == OnLoads(c)
           K == OnCount(c)
           L == Len(c.lines)
           B == Len(c.volts)
           nodes == [b \in DOMAIN c.volts |-> [id |-> b, level |-> IF b = 1 THEN c.volts[1] ELSE Absent]]
           lines == [i \in DOMAIN c.lines |->
                       [id |-> i, base |-> Absent, level |-> Absent, z |-> CaseOhms(c, i), z0 |-> Absent]]
           consumers == [k \in DOMAIN on |-> [id |-> Many(c) + k, p |-> FileWatts(si, on[k].watts), phases |-> {}]]
<1>1. L \in Nat /\ DOMAIN c.lines = 1..L /\ B \in Nat /\ DOMAIN c.volts = 1..B /\ DOMAIN on = 1..K
  BY CaseShape, OnLoadsAre
<1>2. /\ f.base = [v \in Levels(c) |-> FileVolts(si, v)] /\ f.level = [v \in Levels(c) |-> v]
      /\ f.nodes = nodes /\ f.terminals = CimTerminals(c) /\ f.lines = lines
      /\ f.ends = CimEnds(c, si, changer) /\ f.limits = CimLimits(c) /\ f.injections = <<0>>
  BY DEF Cim, Levels, FileVolts
<1>3. f.consumers = consumers
  BY DEF Cim, FileWatts, Many
<1>4. NodesAre(c, nodes) /\ nodes = [b \in DOMAIN c.volts |-> nodes[b]]
  <2>1. nodes = [b \in 1..B |-> nodes[b]]
    BY <1>1
  <2>2. \A b \in DOMAIN c.volts : nodes[b].id = b /\ nodes[b].level = IF b = 1 THEN c.volts[1] ELSE Absent
    OBVIOUS
  <2>. HIDE DEF nodes
  <2>3. Len(nodes) = B /\ DOMAIN nodes = 1..B
    BY <1>1, <2>1, Tabulated
  <2>. QED  BY <1>1, <2>1, <2>2, <2>3 DEF NodesAre
<1>5. LinesAre(c, lines)
  <2>1. lines = [i \in 1..L |-> lines[i]]
    BY <1>1
  <2>2. \A i \in 1..L : /\ lines[i].id = i /\ lines[i].base = Absent /\ lines[i].level = Absent
                        /\ lines[i].z = CaseOhms(c, i) /\ lines[i].z0 = Absent
    BY <1>1
  <2>. HIDE DEF lines
  <2>3. Len(lines) = L /\ IsSeq(lines)
    BY <1>1, <2>1, Tabulated
  <2>. QED  BY <2>2, <2>3 DEF LinesAre
<1>6. ConsumersAre(c, si, consumers)
  <2>1. DOMAIN consumers = 1..K
    BY <1>1
  <2>2. \A k \in 1..K : /\ consumers[k].id = Many(c) + k /\ consumers[k].phases = {}
                        /\ consumers[k].p = FileWatts(si, on[k].watts)
    BY <1>1
  <2>. HIDE DEF consumers
  <2>. QED  BY <2>1, <2>2 DEF ConsumersAre
<1>. HIDE DEF f, nodes, lines, consumers
<1>7. TerminalsAre(c, f.terminals, Many(c), OnCount(c))
  BY <1>2, CimTerminalsAre
<1>8. EndsAre(c, si, changer, f.ends) /\ LimitsAre(c, f.limits)
  BY <1>2, CimEndsAre, CimLimitsAre
<1>. QED  BY <1>2, <1>3, <1>4, <1>5, <1>6, <1>7, <1>8 DEF CimIs, f

-----------------------------------------------------------------------------
(* Units.                                                                  *)

\* The files that say which units they are in.
CimCase(c, si, changer) == IsCase(c) /\ Absent \notin Int /\ si \in BOOLEAN /\ changer \in BOOLEAN
                         /\ WritableInCim(c, si, changer)

SaysVolts(c) == \E b \in DOMAIN c.volts : c.volts[b] >= 1000
SaysWatts(c) == OnPlaces(c) = {} \/ \E k \in OnPlaces(c) : c.loads[k].watts >= 1000
SaysUnits(c, si) == si => SaysVolts(c) /\ SaysWatts(c)

LEMMA CimWritable ==
    ASSUME NEW c, NEW si, NEW changer, CimCase(c, si, changer)
    PROVE  /\ \A i \in DOMAIN c.transformers :
                 /\ RatedVolts(c, changer, i) \in Nat \ {0}
                 /\ RatedVolts(c, changer, i) <= c.volts[c.transformers[i].from]
                 /\ changer => RatedVolts(c, changer, i) = c.volts[c.transformers[i].to]
                 /\ ~changer => 1000 * RatedVolts(c, changer, i)
                                  = c.volts[c.transformers[i].to] * c.transformers[i].tap
                 /\ ~si => RatedVolts(c, changer, i) < 1000 * 1000
           /\ \A i \in DOMAIN c.lines : i % 2 = 1 \/ (c.lines[i].rate * 1000) % c.volts[c.lines[i].from] = 0
           /\ SaysUnits(c, si)
           /\ ~si => \A b \in DOMAIN c.volts : c.volts[b] < 1000 * 1000
           /\ ~si => \A k \in OnPlaces(c) : Whole1000(c.loads[k].watts) /\ c.loads[k].watts < 1000 * 1000 * 1000
<1> DEFINE ratedOf(br) == IF changer THEN c.volts[br.to] ELSE (c.volts[br.to] * br.tap) \div 1000
           rated == {ratedOf(c.transformers[i]) : i \in DOMAIN c.transformers}
           watts == {c.loads[k].watts : k \in {j \in DOMAIN c.loads : c.loads[j].on}}
<1>0. si \in BOOLEAN /\ changer \in BOOLEAN /\ IsCase(c)
  BY DEF CimCase
<1>1. /\ changer \/ TappedWhole(c)
      /\ \A i \in DOMAIN c.lines : i % 2 = 1 \/ (c.lines[i].rate * 1000) % c.volts[c.lines[i].from] = 0
      /\ \A i \in DOMAIN c.transformers : ratedOf(c.transformers[i]) <= c.volts[c.transformers[i].from]
      /\ si => (\E v \in Levels(c) : v >= 1000) /\ (watts = {} \/ \E w \in watts : w >= 1000)
      /\ ~si => /\ \A v \in Levels(c) \union rated : v < 1000 * 1000
                /\ \A w \in watts : Whole1000(w) /\ w < 1000 * 1000 * 1000
  <2>1. WritableInCim(c, si, changer)
    BY DEF CimCase
  <2>2. changer \/ TappedWhole(c)
    BY <2>1 DEF WritableInCim
  <2>3. \A i \in DOMAIN c.lines : i % 2 = 1 \/ (c.lines[i].rate * 1000) % c.volts[c.lines[i].from] = 0
    BY <2>1 DEF WritableInCim
  <2>4. \A i \in DOMAIN c.transformers : ratedOf(c.transformers[i]) <= c.volts[c.transformers[i].from]
    BY <2>1 DEF WritableInCim
  <2>5. IF si THEN (\E v \in Levels(c) : v >= 1000) /\ (watts = {} \/ \E w \in watts : w >= 1000)
        ELSE /\ \A v \in Levels(c) \union rated : v < 1000 * 1000
             /\ \A w \in watts : Whole1000(w) /\ w < 1000 * 1000 * 1000
    BY <2>1, Zenon DEF WritableInCim, Levels
  <2>. HIDE DEF rated, watts, ratedOf
  <2>6. si => (\E v \in Levels(c) : v >= 1000) /\ (watts = {} \/ \E w \in watts : w >= 1000)
    BY <2>5
  <2>7. ~si => /\ \A v \in Levels(c) \union rated : v < 1000 * 1000
               /\ \A w \in watts : Whole1000(w) /\ w < 1000 * 1000 * 1000
    BY <2>5
  <2>. QED  BY <2>2, <2>3, <2>4, <2>6, <2>7
<1>2. watts = {c.loads[k].watts : k \in OnPlaces(c)}
  BY DEF OnPlaces
<1>3. ASSUME NEW i \in DOMAIN c.transformers
      PROVE /\ RatedVolts(c, changer, i) = ratedOf(c.transformers[i])
            /\ RatedVolts(c, changer, i) \in Nat \ {0}
            /\ changer => RatedVolts(c, changer, i) = c.volts[c.transformers[i].to]
            /\ ~changer => 1000 * RatedVolts(c, changer, i) = c.volts[c.transformers[i].to] * c.transformers[i].tap
  <2> DEFINE v == c.volts[c.transformers[i].to]
             t == c.transformers[i].tap
  <2>1. v \in Nat \ {0} /\ t \in Nat \ {0}
    BY <1>0, TransformerIs, CaseShape
  <2>2. CASE changer
    <3>1. RatedVolts(c, changer, i) = (v * 1000) \div 1000
      BY <2>2 DEF RatedVolts
    <3>2. ratedOf(c.transformers[i]) = v
      BY <2>2
    <3>. HIDE DEF v, t, ratedOf
    <3>3. (v * 1000) \div 1000 = v
      BY <2>1
    <3>4. RatedVolts(c, changer, i) = v /\ ratedOf(c.transformers[i]) = v
      BY <3>1, <3>2, <3>3
    <3>. QED  BY <2>1, <2>2, <3>4, Zenon DEF v
  <2>3. CASE ~changer
    <3>1. RatedVolts(c, changer, i) = (v * t) \div 1000
      BY <2>3 DEF RatedVolts
    <3>2. ratedOf(c.transformers[i]) = (v * t) \div 1000
      BY <2>3
    <3>3. Whole1000(v * t)
      BY <1>1, <2>3 DEF TappedWhole
    <3>. HIDE DEF v, t, ratedOf
    <3>4. v * t \in Nat \ {0}
      BY <2>1
    <3>5. 1000 * ((v * t) \div 1000) = v * t
      BY <3>3, <3>4, WholeMany
    <3>6. (v * t) \div 1000 \in Nat \ {0}
      <4> DEFINE p == v * t
      <4>. HIDE DEF p
      <4>1. p \in Nat \ {0} /\ 1000 * (p \div 1000) = p
        BY <3>4, <3>5 DEF p
      <4>2. p \div 1000 \in Nat \ {0}
        BY <4>1
      <4>. QED  BY <4>2 DEF p
    <3>. QED  BY <2>3, <3>1, <3>2, <3>5, <3>6 DEF v, t
  <2>. QED  BY <1>0, <2>2, <2>3
<1>4. \A i \in DOMAIN c.transformers : ~si => ratedOf(c.transformers[i]) < 1000 * 1000
  BY <1>1
<1>5. si => \E b \in DOMAIN c.volts : c.volts[b] >= 1000
  BY <1>1 DEF Levels
<1>6. ~si => \A b \in DOMAIN c.volts : c.volts[b] < 1000 * 1000
  BY <1>1 DEF Levels
<1> DEFINE on == OnPlaces(c)
<1>11. watts = {c.loads[k].watts : k \in on}
  BY <1>2
<1>. HIDE DEF watts, on, ratedOf, rated
<1>7. si => (on = {} \/ \E k \in on : c.loads[k].watts >= 1000)
  <2>. SUFFICES ASSUME si PROVE on = {} \/ \E k \in on : c.loads[k].watts >= 1000
    OBVIOUS
  <2>1. watts = {} \/ \E w \in watts : w >= 1000
    BY <1>1
  <2>2. CASE watts = {}
    <3>1. \A k \in on : c.loads[k].watts \in watts
      BY <1>11
    <3>. QED  BY <2>2, <3>1
  <2>3. CASE \E w \in watts : w >= 1000
    BY <1>11, <2>3
  <2>. QED  BY <2>1, <2>2, <2>3
<1>8. ~si => \A k \in on : Whole1000(c.loads[k].watts) /\ c.loads[k].watts < 1000 * 1000 * 1000
  <2>1. ~si => \A w \in watts : Whole1000(w) /\ w < 1000 * 1000 * 1000
    BY <1>1
  <2>. SUFFICES ASSUME ~si, NEW k \in on
                PROVE  Whole1000(c.loads[k].watts) /\ c.loads[k].watts < 1000 * 1000 * 1000
    OBVIOUS
  <2>2. c.loads[k].watts \in watts
    BY <1>11
  <2>. QED  BY <2>1, <2>2
<1>9. \A i \in DOMAIN c.transformers : ratedOf(c.transformers[i]) <= c.volts[c.transformers[i].from]
  BY <1>1
<1>10. \A i \in DOMAIN c.lines : i % 2 = 1 \/ (c.lines[i].rate * 1000) % c.volts[c.lines[i].from] = 0
  BY <1>1
<1>12. SaysUnits(c, si)
  BY <1>5, <1>7 DEF on, SaysVolts, SaysWatts, SaysUnits
<1>. QED  BY <1>3, <1>4, <1>6, <1>8, <1>9, <1>10, <1>12 DEF on

\* The ratings a file gives its windings.
SmallEnough(si, r) == ~si => r < 1000 * 1000

LEMMA EndRated ==
    ASSUME NEW c, NEW si, NEW changer, CimCase(c, si, changer), NEW f, CimIs(c, si, changer, f), NEW j \in DOMAIN f.ends
    PROVE  \E r \in Nat : f.ends[j].ratedU = FileVolts(si, r) /\ SmallEnough(si, r)
<1> DEFINE T == Len(c.transformers)
<1>1. IsCase(c) /\ si \in BOOLEAN
  BY DEF CimCase
<1>2. T \in Nat /\ DOMAIN c.transformers = 1..T
  BY <1>1, CaseShape
<1>3. EndsAre(c, si, changer, f.ends)
  BY DEF CimIs
<1>4. DOMAIN f.ends = 1..(2 * T)
  BY <1>3 DEF EndsAre
<1>5. \A i \in 1..T : /\ IsLowEnd(c, si, changer, i, f.ends[i])
                      /\ IsHighEnd(c, si, changer, i, f.ends[T + i])
  BY <1>3 DEF EndsAre
<1>6. CASE j \in 1..T
  <2>1. f.ends[j].ratedU = FileVolts(si, RatedVolts(c, changer, j))
    BY <1>5, <1>6, Zenon DEF IsLowEnd
  <2>2. RatedVolts(c, changer, j) \in Nat /\ SmallEnough(si, RatedVolts(c, changer, j))
    BY <1>2, <1>6, CimWritable DEF SmallEnough
  <2>. QED  BY <2>1, <2>2
<1>7. CASE j \notin 1..T
  <2>1. j - T \in 1..T /\ T + (j - T) = j
    BY <1>2, <1>4, <1>7
  <2> DEFINE i == j - T
             v == c.volts[c.transformers[i].from]
  <2>2. IsHighEnd(c, si, changer, i, f.ends[T + i])
    BY <1>5, <2>1
  <2>3. f.ends[j].ratedU = FileVolts(si, v)
    BY <2>1, <2>2 DEF IsHighEnd
  <2>4. c.transformers[i].from \in DOMAIN c.volts
    BY <1>1, <1>2, <2>1, TransformerIs
  <2>5. v \in Nat /\ SmallEnough(si, v)
    BY <1>1, <2>4, CaseShape, CimWritable DEF SmallEnough
  <2>. QED  BY <2>3, <2>5
<1>. QED  BY <1>6, <1>7

LEMMA UnitOfVolts ==
    ASSUME NEW c, NEW si, NEW changer, CimCase(c, si, changer), NEW f, CimIs(c, si, changer, f)
    PROVE  /\ InVolts(f) <=> si
           /\ \A v \in Nat : ToVolts(f, FileVolts(si, v)) = v
<1> DEFINE given == {f.base[b] : b \in DOMAIN f.base}
           rated == {f.ends[i].ratedU : i \in DOMAIN f.ends}
<1>1. IsCase(c) /\ si \in BOOLEAN
  BY DEF CimCase
<1>2. given = {FileVolts(si, v) : v \in Levels(c)}
  <2>1. f.base = [v \in Levels(c) |-> FileVolts(si, v)]
    BY DEF CimIs
  <2>. QED  BY <2>1
<1>3. \A v \in Levels(c) : v \in Nat /\ (~si => v < 1000 * 1000)
  BY <1>1, CaseShape, CimWritable DEF Levels
<1>4. InVolts(f) <=> \E x \in given \union rated : Magnitude(x) >= 1000 * 1000
  BY DEF InVolts, Big
<1>9. SaysUnits(c, si)
  BY CimWritable
<1>10. \A i \in DOMAIN f.ends : \E r \in Nat : f.ends[i].ratedU = FileVolts(si, r) /\ SmallEnough(si, r)
  BY EndRated
<1>5. ASSUME si PROVE InVolts(f)
  <2>1. PICK v \in Levels(c) : v >= 1000
    <3>1. PICK b \in DOMAIN c.volts : c.volts[b] >= 1000
      BY <1>5, <1>9 DEF SaysUnits, SaysVolts
    <3>. QED  BY <3>1 DEF Levels
  <2>2. FileVolts(si, v) = v * 1000
    BY <1>5 DEF FileVolts
  <2>3. v * 1000 \in given
    BY <1>2, <2>2
  <2>4. Magnitude(v * 1000) >= 1000 * 1000
    BY <1>3, <2>1 DEF Magnitude
  <2>5. v * 1000 \in given \union rated
    BY <2>3
  <2>. HIDE DEF given, rated
  <2>. QED  BY <1>4, <2>4, <2>5
<1>6. ASSUME ~si PROVE ~InVolts(f)
  <2>1. ASSUME NEW x \in given PROVE ~(Magnitude(x) >= 1000 * 1000)
    <3>1. PICK v \in Levels(c) : x = FileVolts(si, v)
      BY <1>2
    <3>2. x = v /\ v \in Nat /\ v < 1000 * 1000
      BY <1>3, <1>6, <3>1 DEF FileVolts
    <3>. QED  BY <3>2 DEF Magnitude
  <2>2. ASSUME NEW x \in rated PROVE ~(Magnitude(x) >= 1000 * 1000)
    <3>1. PICK i \in DOMAIN f.ends : x = f.ends[i].ratedU
      OBVIOUS
    <3>2. PICK r \in Nat : f.ends[i].ratedU = FileVolts(si, r) /\ SmallEnough(si, r)
      BY <1>10
    <3>3. x = r /\ r < 1000 * 1000
      BY <1>6, <3>1, <3>2 DEF FileVolts, SmallEnough
    <3>. QED  BY <3>3 DEF Magnitude
  <2>. HIDE DEF given, rated
  <2>. QED  BY <1>4, <2>1, <2>2
<1>7. InVolts(f) <=> si
  BY <1>1, <1>5, <1>6
<1>8. ASSUME NEW v \in Nat PROVE ToVolts(f, FileVolts(si, v)) = v
  <2>1. (v * 1000) \div 1000 = v
    OBVIOUS
  <2>2. CASE si
    BY <1>7, <2>1, <2>2 DEF ToVolts, FileVolts
  <2>3. CASE ~si
    BY <1>7, <2>3 DEF ToVolts, FileVolts
  <2>. QED  BY <2>2, <2>3
<1>. QED  BY <1>7, <1>8

LEMMA UnitOfWatts ==
    ASSUME NEW c, NEW si, NEW changer, CimCase(c, si, changer), NEW f, CimIs(c, si, changer, f), NEW k \in 1..OnCount(c)
    PROVE  ToWatts(f, f.consumers[k].p) = OnLoads(c)[k].watts
<1> DEFINE K == OnCount(c)
           watts(j) == OnLoads(c)[j].watts
<1>1. IsCase(c) /\ si \in BOOLEAN
  BY DEF CimCase
<1>2. DOMAIN f.consumers = 1..K /\ \A j \in 1..K : f.consumers[j].p = FileWatts(si, watts(j))
  BY DEF CimIs, ConsumersAre
<1>3. \A j \in 1..K : /\ Nth(OnPlaces(c), j) \in OnPlaces(c) /\ watts(j) = c.loads[Nth(OnPlaces(c), j)].watts
                      /\ watts(j) \in Nat
  BY <1>1, OnLoadsAre
<1>4. InWatts(f) <=> \E j \in 1..K : Magnitude(f.consumers[j].p) >= 1000 * 1000
  BY <1>2 DEF InWatts, Big
<1>9. SaysUnits(c, si)
  BY CimWritable
<1>10. ~si => \A p \in OnPlaces(c) : Whole1000(c.loads[p].watts) /\ c.loads[p].watts < 1000 * 1000 * 1000
  BY CimWritable
<1>5. CASE si
  <2>1. OnPlaces(c) # {}
    BY <1>3
  <2>2. PICK p \in OnPlaces(c) : c.loads[p].watts >= 1000
    BY <1>5, <1>9, <2>1 DEF SaysUnits, SaysWatts
  <2>3. PICK j \in 1..K : Nth(OnPlaces(c), j) = p
    <3>1. OnPlaces(c) \in SUBSET Int /\ IsFiniteSet(OnPlaces(c))
      <4>1. DOMAIN c.loads = 1..Len(c.loads) /\ Len(c.loads) \in Nat
        BY <1>1, CaseShape
      <4>2. IsFiniteSet(DOMAIN c.loads) /\ DOMAIN c.loads \in SUBSET Int /\ OnPlaces(c) \in SUBSET DOMAIN c.loads
        BY <4>1, FS_Interval DEF OnPlaces
      <4>. QED  BY <4>2, FS_Subset
    <3>. QED  BY <3>1, Enumerated DEF OnCount
  <2>4. f.consumers[j].p = watts(j) * 1000 /\ watts(j) >= 1000 /\ watts(j) \in Nat
    BY <1>2, <1>3, <1>5, <2>2, <2>3 DEF FileWatts
  <2>5. Magnitude(f.consumers[j].p) >= 1000 * 1000
    BY <2>4 DEF Magnitude
  <2>6. InWatts(f)
    BY <1>4, <2>5
  <2>7. f.consumers[k].p = watts(k) * 1000
    BY <1>2, <1>5 DEF FileWatts
  <2>8. (watts(k) * 1000) \div 1000 = watts(k)
    BY <1>3
  <2>. QED  BY <2>6, <2>7, <2>8 DEF ToWatts
<1>6. CASE ~si
  <2>1. ASSUME NEW j \in 1..K
        PROVE  /\ f.consumers[j].p = watts(j) \div 1000 /\ 1000 * (watts(j) \div 1000) = watts(j)
               /\ watts(j) < 1000 * 1000 * 1000
    <3>1. Whole1000(watts(j)) /\ watts(j) < 1000 * 1000 * 1000
      BY <1>3, <1>6, <1>10
    <3>2. 1000 * (watts(j) \div 1000) = watts(j)
      BY <1>3, <3>1, WholeMany
    <3>. QED  BY <1>2, <1>6, <3>1, <3>2 DEF FileWatts
  <2>2. ASSUME NEW j \in 1..K PROVE ~(Magnitude(f.consumers[j].p) >= 1000 * 1000)
    <3> DEFINE p == f.consumers[j].p
               w == watts(j)
    <3>1. p = w \div 1000 /\ 1000 * p = w /\ w \in Nat /\ w < 1000 * 1000 * 1000
      BY <1>3, <2>1
    <3>. HIDE DEF p, w
    <3>2. p \in Nat /\ p < 1000 * 1000
      BY <3>1
    <3>. QED  BY <3>2 DEF Magnitude, p
  <2>3. ~InWatts(f)
    BY <1>4, <2>2
  <2>. QED  BY <2>1, <2>3 DEF ToWatts
<1>. QED  BY <1>1, <1>5, <1>6

LEMMA LevelsRead ==
    ASSUME NEW c, NEW si, NEW changer, CimCase(c, si, changer), NEW f, CimIs(c, si, changer, f)
    PROVE  /\ \A b \in DOMAIN c.volts : /\ BaseVolts(f, c.volts[b]) = c.volts[b]
                                        /\ c.volts[b] \in DOMAIN f.base /\ f.base[c.volts[b]] = FileVolts(si, c.volts[b])
           /\ \A b \in DOMAIN c.volts : LevelVolts(f, f.nodes[b].level) = IF b = 1 THEN c.volts[1] ELSE 0
           /\ \A i \in 1..Len(c.lines) : EquipVolts(f, f.lines[i]) = 0
<1>1. /\ f.base = [v \in Levels(c) |-> FileVolts(si, v)] /\ f.level = [v \in Levels(c) |-> v]
  BY DEF CimIs
<1>2. IsCase(c) /\ Absent \notin Int
  BY DEF CimCase
<1>3. \A b \in DOMAIN c.volts : c.volts[b] \in Nat \ {0} /\ c.volts[b] \in Levels(c)
  BY <1>2, CaseShape DEF Levels
<1>4. Absent \notin Levels(c)
  BY <1>2, <1>3 DEF Levels
<1>5. ASSUME NEW b \in DOMAIN c.volts
      PROVE  /\ BaseVolts(f, c.volts[b]) = c.volts[b] /\ LevelVolts(f, c.volts[b]) = c.volts[b]
             /\ c.volts[b] \in DOMAIN f.base /\ f.base[c.volts[b]] = FileVolts(si, c.volts[b])
  <2> DEFINE v == c.volts[b]
  <2>1. v \in Nat /\ v \in Levels(c)
    BY <1>3
  <2>. HIDE DEF v
  <2>2. v \in DOMAIN f.base /\ f.base[v] = FileVolts(si, v) /\ v \in DOMAIN f.level /\ f.level[v] = v
    BY <1>1, <2>1
  <2>3. ToVolts(f, FileVolts(si, v)) = v
    BY <2>1, UnitOfVolts
  <2>4. BaseVolts(f, v) = v
    BY <2>2, <2>3 DEF BaseVolts
  <2>5. LevelVolts(f, v) = v
    BY <2>2, <2>4 DEF LevelVolts
  <2>. QED  BY <2>2, <2>4, <2>5 DEF v
<1>6. BaseVolts(f, Absent) = 0 /\ LevelVolts(f, Absent) = 0
  <2>1. Absent \notin DOMAIN f.base /\ Absent \notin DOMAIN f.level
    BY <1>1, <1>4
  <2>. QED  BY <2>1 DEF BaseVolts, LevelVolts
<1>7. \A b \in DOMAIN c.volts : f.nodes[b].level = IF b = 1 THEN c.volts[1] ELSE Absent
  BY DEF CimIs, NodesAre
<1>8. \A i \in 1..Len(c.lines) : f.lines[i].base = Absent /\ f.lines[i].level = Absent
  BY DEF CimIs, LinesAre
<1>9. \A i \in 1..Len(c.lines) : EquipVolts(f, f.lines[i]) = 0
  BY <1>6, <1>8 DEF EquipVolts, Or
<1>. QED  BY <1>5, <1>6, <1>7, <1>9

LEMMA NthOfPair ==
    ASSUME NEW a \in Int, NEW b \in Int, a < b, NEW S, S = {a, b}
    PROVE  IsFiniteSet(S) /\ Cardinality(S) = 2 /\ Nth(S, 1) = a /\ Nth(S, 2) = b
<1> DEFINE g == [k \in 1..2 |-> IF k = 1 THEN a ELSE b]
<1>1. g \in [1..2 -> Int] /\ g[1] = a /\ g[2] = b /\ DOMAIN g = 1..2
  OBVIOUS
<1>2. \A i, j \in 1..2 : i < j => g[i] < g[j]
  <2>1. \A i, j \in 1..2 : i < j => i = 1 /\ j = 2
    OBVIOUS
  <2>. HIDE DEF g
  <2>. QED  BY <1>1, <2>1
<1>3. S = {g[k] : k \in 1..2}
  <2>1. \A k \in 1..2 : k = 1 \/ k = 2
    OBVIOUS
  <2>. HIDE DEF g
  <2>. QED  BY <1>1, <2>1
<1>. HIDE DEF g
<1>4. Ascends(g, 2, S)
  BY <1>1, <1>2, <1>3 DEF Ascends, Increasing
<1>5. IsFiniteSet(S) /\ Cardinality(S) = 2 /\ \A k \in 1..2 : Nth(S, k) = g[k]
  BY <1>4, Ranked
<1>. QED  BY <1>1, <1>5

LEMMA NthOfOne ==
    ASSUME NEW a \in Int, NEW S, S = {a}
    PROVE  IsFiniteSet(S) /\ Cardinality(S) = 1 /\ Nth(S, 1) = a
<1> DEFINE g == [k \in 1..1 |-> a]
<1>1. g \in [1..1 -> Int] /\ g[1] = a /\ DOMAIN g = 1..1
  OBVIOUS
<1>2. \A i, j \in 1..1 : i < j => g[i] < g[j]
  OBVIOUS
<1>3. S = {g[k] : k \in 1..1}
  <2>1. \A k \in 1..1 : k = 1
    OBVIOUS
  <2>2. 1 \in 1..1
    OBVIOUS
  <2>. HIDE DEF g
  <2>. QED  BY <1>1, <2>1, <2>2
<1>. HIDE DEF g
<1>4. Ascends(g, 1, S)
  BY <1>1, <1>2, <1>3 DEF Ascends, Increasing
<1>5. IsFiniteSet(S) /\ Cardinality(S) = 1 /\ \A k \in 1..1 : Nth(S, k) = g[k]
  BY <1>4, Ranked
<1>. QED  BY <1>1, <1>5

-----------------------------------------------------------------------------
(* Which equipment is at which bus.                                        *)

\* All terminals are at buses of the case.
LEMMA TerminalNodes ==
    ASSUME NEW c, IsCase(c), Len(c.volts) >= 1, NEW t, NEW n, n = Many(c), NEW K, K = OnCount(c), TerminalsAre(c, t, n, K)
    PROVE  \A j \in DOMAIN t : t[j].node \in DOMAIN c.volts /\ t[j].id = j
<1>1. n \in Nat /\ K \in Nat /\ DOMAIN t = 1..(2 * n + K + 1)
  BY DEF TerminalsAre
<1>2. BranchIds(c) = 1..n
  BY BranchesAreMany
<1>3. \A e \in 1..n : t[e].node \in DOMAIN c.volts /\ t[n + e].node \in DOMAIN c.volts
  <2>1. \A e \in 1..n : BranchAt(c, e).from \in DOMAIN c.volts /\ BranchAt(c, e).to \in DOMAIN c.volts
    BY <1>2, BranchShape
  <2>2. \A e \in 1..n : t[e].node = BranchAt(c, e).from /\ t[n + e].node = BranchAt(c, e).to
    BY DEF TerminalsAre
  <2>. QED  BY <2>1, <2>2
<1>4. \A k \in 1..K : t[2 * n + k].node \in DOMAIN c.volts
  <2>1. \A k \in 1..K : OnLoads(c)[k].bus \in DOMAIN c.volts
    BY OnLoadsAre
  <2>. QED  BY <2>1 DEF TerminalsAre
<1>5. t[2 * n + K + 1].node \in DOMAIN c.volts
  <2>1. 1 \in DOMAIN c.volts
    BY CaseShape
  <2>. QED  BY <2>1 DEF TerminalsAre
<1>6. ASSUME NEW j \in 1..(2 * n + K + 1) PROVE t[j].node \in DOMAIN c.volts
  <2>1. n \in Nat /\ K \in Nat /\ j \in 1..(2 * n + K + 1)
    BY <1>1
  <2>2. \/ j \in 1..n \/ \E e \in 1..n : j = n + e
        \/ \E k \in 1..K : j = 2 * n + k
        \/ j = 2 * n + K + 1
    BY ONLY <2>1, TerminalKinds
  <2>. QED  BY <1>3, <1>4, <1>5, <2>2
<1>7. \A j \in DOMAIN t : t[j].id = j
  BY DEF TerminalsAre
<1>. QED  BY <1>1, <1>6, <1>7

LEMMA TerminalBuses ==
    ASSUME NEW c, IsCase(c), Len(c.volts) >= 1, Absent \notin Int, NEW si, NEW changer, NEW f, CimIs(c, si, changer, f)
    PROVE  /\ \A j \in DOMAIN f.terminals : /\ TerminalBus(f, j) = f.terminals[j].node
                                            /\ NodeBus(f, f.terminals[j].node) = f.terminals[j].node
                                            /\ f.terminals[j].node \in DOMAIN c.volts /\ f.terminals[j].node # 0
           /\ TerminalBus(f, Absent) = 0
<1> DEFINE t == f.terminals
<1>1. TerminalsAre(c, t, Many(c), OnCount(c)) /\ NodesAre(c, f.nodes)
  BY DEF CimIs
<1>2. \A j \in DOMAIN t : t[j].node \in DOMAIN c.volts /\ t[j].id = j
  BY <1>1, TerminalNodes
<1>3. DOMAIN t \in SUBSET Int
  BY <1>1 DEF TerminalsAre
<1>4. \A b \in DOMAIN c.volts : NodeBus(f, b) = b /\ b # 0 /\ b \in Int
  <2>1. DOMAIN c.volts = 1..Len(c.volts) /\ Len(c.volts) \in Nat
    BY CaseShape
  <2>. QED  BY <1>1, <2>1, NodeBusIs
<1>5. ASSUME NEW j \in DOMAIN t PROVE TerminalBus(f, j) = t[j].node
  <2> DEFINE at == {i \in DOMAIN t : t[i].id = j /\ t[i].node # Absent}
  <2>1. at = {j} /\ j \in Int
    BY <1>2, <1>3, <1>4
  <2>2. at \in SUBSET Int /\ j \in at /\ (\A y \in at : y <= j) /\ at # {}
    BY <2>1
  <2>3. TerminalBus(f, j) = NodeBus(f, t[Max(at)].node)
    BY <2>2 DEF TerminalBus
  <2>. HIDE DEF at
  <2>4. Max(at) = j
    BY <2>2, GreatestIs
  <2>. QED  BY <1>2, <1>4, <2>3, <2>4
<1>6. TerminalBus(f, Absent) = 0
  <2>1. {i \in DOMAIN t : t[i].id = Absent /\ t[i].node # Absent} = {}
    BY <1>2, <1>3
  <2>. QED  BY <2>1 DEF TerminalBus
<1>. QED  BY <1>2, <1>4, <1>5, <1>6

LEMMA EquipBuses ==
    ASSUME NEW c, IsCase(c), Len(c.volts) >= 1, Absent \notin Int, NEW si, NEW changer, NEW f, CimIs(c, si, changer, f)
    PROVE  /\ \A e \in BranchIds(c) : EquipBus(f, e, 1) = BranchAt(c, e).from /\ EquipBus(f, e, 2) = BranchAt(c, e).to
           /\ \A k \in 1..OnCount(c) : EquipBus(f, Many(c) + k, 1) = OnLoads(c)[k].bus
           /\ EquipBus(f, 0, 1) = 1
<1> DEFINE t == f.terminals
           n == Many(c)
           K == OnCount(c)
           own(e) == {i \in DOMAIN t : t[i].equip = e /\ NodeBus(f, t[i].node) # 0}
           at(e) == {i \in DOMAIN t : t[i].equip = e}
<1>1. TerminalsAre(c, t, n, K)
  BY DEF CimIs
<1>2. n \in Nat /\ K \in Nat /\ DOMAIN t = 1..(2 * n + K + 1) /\ BranchIds(c) = 1..n
  BY <1>1, BranchesAreMany DEF TerminalsAre
<1>3. \A j \in DOMAIN t : NodeBus(f, t[j].node) = t[j].node /\ t[j].node # 0
  BY TerminalBuses
<1>4. \A e : own(e) = at(e)
  BY <1>3
<1>5. \A e, k : EquipBus(f, e, k) = IF Cardinality(own(e)) < k THEN 0 ELSE NodeBus(f, t[Nth(own(e), k)].node)
  BY DEF EquipBus
<1>6. /\ \A e \in 1..n : /\ t[e].node = BranchAt(c, e).from /\ t[e].equip = e
                         /\ t[n + e].node = BranchAt(c, e).to /\ t[n + e].equip = e
      /\ \A k \in 1..K : t[2 * n + k].node = OnLoads(c)[k].bus /\ t[2 * n + k].equip = n + k
      /\ t[2 * n + K + 1].node = 1 /\ t[2 * n + K + 1].equip = 0
  BY <1>1 DEF TerminalsAre
<1>. HIDE DEF t, n, K
<1>7. \A j \in 1..(2 * n + K + 1) : \/ j \in 1..n \/ \E e \in 1..n : j = n + e
                                    \/ \E k \in 1..K : j = 2 * n + k
                                    \/ j = 2 * n + K + 1
  BY <1>2, TerminalKinds
<1>8. ASSUME NEW e \in 1..n PROVE at(e) = {e, n + e}
  <2>1. ASSUME NEW j \in at(e) PROVE j \in {e, n + e}
    <3>1. j \in 1..(2 * n + K + 1) /\ t[j].equip = e
      BY <1>2
    <3>2. CASE j \in 1..n
      BY <1>6, <3>1, <3>2
    <3>3. CASE \E d \in 1..n : j = n + d
      BY <1>6, <3>1, <3>3
    <3>4. CASE \E k \in 1..K : j = 2 * n + k
      <4>1. PICK k \in 1..K : j = 2 * n + k
        BY <3>4
      <4>2. n + k = e
        BY <1>6, <3>1, <4>1
      <4>. QED  BY <1>2, <4>2
    <3>5. CASE j = 2 * n + K + 1
      BY <1>6, <3>1, <3>5
    <3>. QED  BY <1>7, <3>1, <3>2, <3>3, <3>4, <3>5
  <2>2. e \in 1..(2 * n + K + 1) /\ n + e \in 1..(2 * n + K + 1)
    BY <1>2
  <2>3. e \in at(e) /\ n + e \in at(e)
    BY <1>2, <1>6, <2>2
  <2>. HIDE DEF at
  <2>. QED  BY <2>1, <2>3
<1>9. ASSUME NEW k \in 1..K PROVE at(n + k) = {2 * n + k}
  <2>1. ASSUME NEW j \in at(n + k) PROVE j = 2 * n + k
    <3>1. j \in 1..(2 * n + K + 1) /\ t[j].equip = n + k
      BY <1>2
    <3>2. CASE j \in 1..n
      <4>1. j = n + k
        BY <1>6, <3>1, <3>2
      <4>. QED  BY <1>2, <3>2, <4>1
    <3>3. CASE \E d \in 1..n : j = n + d
      <4>1. PICK d \in 1..n : j = n + d
        BY <3>3
      <4>2. d = n + k
        BY <1>6, <3>1, <4>1
      <4>. QED  BY <1>2, <4>2
    <3>4. CASE \E l \in 1..K : j = 2 * n + l
      <4>1. PICK l \in 1..K : j = 2 * n + l
        BY <3>4
      <4>2. n + l = n + k
        BY <1>6, <3>1, <4>1
      <4>. QED  BY <1>2, <4>1, <4>2
    <3>5. CASE j = 2 * n + K + 1
      <4>1. 0 = n + k
        BY <1>6, <3>1, <3>5
      <4>. QED  BY <1>2, <4>1
    <3>. QED  BY <1>7, <3>1, <3>2, <3>3, <3>4, <3>5
  <2>2. 2 * n + k \in 1..(2 * n + K + 1)
    BY <1>2
  <2>3. 2 * n + k \in at(n + k)
    BY <1>2, <1>6, <2>2
  <2>. HIDE DEF at
  <2>. QED  BY <2>1, <2>3
<1>10. at(0) = {2 * n + K + 1}
  <2>1. ASSUME NEW j \in at(0) PROVE j = 2 * n + K + 1
    <3>1. j \in 1..(2 * n + K + 1) /\ t[j].equip = 0
      BY <1>2
    <3>2. CASE j \in 1..n
      BY <1>6, <3>1, <3>2
    <3>3. CASE \E d \in 1..n : j = n + d
      BY <1>6, <3>1, <3>3
    <3>4. CASE \E l \in 1..K : j = 2 * n + l
      <4>1. PICK l \in 1..K : j = 2 * n + l
        BY <3>4
      <4>2. n + l = 0
        BY <1>6, <3>1, <4>1
      <4>. QED  BY <1>2, <4>2
    <3>. QED  BY <1>7, <3>1, <3>2, <3>3, <3>4
  <2>2. 2 * n + K + 1 \in 1..(2 * n + K + 1)
    BY <1>2
  <2>3. 2 * n + K + 1 \in at(0)
    BY <1>2, <1>6, <2>2
  <2>. HIDE DEF at
  <2>. QED  BY <2>1, <2>3
<1>. HIDE DEF own, at
<1>11. ASSUME NEW e \in 1..n PROVE EquipBus(f, e, 1) = BranchAt(c, e).from /\ EquipBus(f, e, 2) = BranchAt(c, e).to
  <2> DEFINE S == own(e)
  <2>1. S = {e, n + e} /\ e \in Int /\ n + e \in Int /\ e < n + e /\ e \in DOMAIN t /\ n + e \in DOMAIN t
    BY <1>2, <1>4, <1>8
  <2>. HIDE DEF S
  <2>2. Cardinality(S) = 2 /\ Nth(S, 1) = e /\ Nth(S, 2) = n + e
    BY <2>1, NthOfPair
  <2>3. EquipBus(f, e, 1) = NodeBus(f, t[e].node) /\ EquipBus(f, e, 2) = NodeBus(f, t[n + e].node)
    BY <1>5, <2>2 DEF S
  <2>. QED  BY <1>3, <1>6, <2>1, <2>3
<1>12. ASSUME NEW k \in 1..K PROVE EquipBus(f, n + k, 1) = OnLoads(c)[k].bus
  <2> DEFINE S == own(n + k)
             j == 2 * n + k
  <2>4. own(n + k) = at(n + k) /\ at(n + k) = {j}
    BY <1>4, <1>9
  <2>1. S = {j} /\ j \in Int /\ j \in DOMAIN t
    BY <1>2, <2>4
  <2>. HIDE DEF S, j
  <2>2. Cardinality(S) = 1 /\ Nth(S, 1) = j
    BY <2>1, NthOfOne
  <2>3. EquipBus(f, n + k, 1) = NodeBus(f, t[j].node)
    BY <1>5, <2>2 DEF S
  <2>. QED  BY <1>3, <1>6, <2>1, <2>3 DEF j
<1>13. EquipBus(f, 0, 1) = 1
  <2> DEFINE S == own(0)
             j == 2 * n + K + 1
  <2>1. S = {j} /\ j \in Int /\ j \in DOMAIN t
    BY <1>2, <1>4, <1>10
  <2>. HIDE DEF S, j
  <2>2. Cardinality(S) = 1 /\ Nth(S, 1) = j
    BY <2>1, NthOfOne
  <2>3. EquipBus(f, 0, 1) = NodeBus(f, t[j].node)
    BY <1>5, <2>2 DEF S
  <2>. QED  BY <1>3, <1>6, <2>1, <2>3 DEF j
<1>. QED  BY <1>2, <1>11, <1>12, <1>13 DEF n, K

-----------------------------------------------------------------------------
(* Limits.                                                                 *)

LEMMA LimitKinds ==
    ASSUME NEW L \in Nat, NEW j \in 1..(3 * L)
    PROVE  \/ j \in 1..L \/ \E i \in 1..L : j = L + i
           \/ \E i \in 1..L : j = 2 * L + i
<1>1. CASE j > L /\ j <= 2 * L
  <2>1. j - L \in 1..L /\ j = L + (j - L)
    BY <1>1
  <2>. QED  BY <2>1
<1>2. CASE j > 2 * L
  <2>1. j - 2 * L \in 1..L /\ j = 2 * L + (j - 2 * L)
    BY <1>2
  <2>. QED  BY <2>1
<1>. QED  BY <1>1, <1>2

LEMMA LimitEquipIs ==
    ASSUME NEW c, IsCase(c), Len(c.volts) >= 1, Absent \notin Int, NEW si, NEW changer, NEW f, CimIs(c, si, changer, f),
           NEW limit, limit.terminal \in 1..Len(c.lines)
    PROVE  LimitEquip(f, limit) = limit.terminal
<1> DEFINE t == f.terminals
           i == limit.terminal
           at == {j \in DOMAIN t : t[j].id = i /\ t[j].equip # Absent}
           n == Many(c)
           K == OnCount(c)
<1>1. TerminalsAre(c, t, n, K)
  BY DEF CimIs
<1>2. Len(c.lines) \in Nat /\ Len(c.transformers) \in Nat
  BY CaseShape
<1>3. n \in Nat /\ K \in Nat /\ DOMAIN t = 1..(2 * n + K + 1)
  BY <1>1 DEF TerminalsAre
<1>4. i \in 1..n /\ i \in DOMAIN t
  <2> DEFINE L == Len(c.lines)
             T == Len(c.transformers)
  <2>1. n = L + T /\ L \in Nat /\ T \in Nat /\ i \in 1..L
    BY <1>2 DEF Many
  <2>. HIDE DEF n, K, t, i, L, T
  <2>2. i \in 1..n
    BY <2>1
  <2>3. i \in 1..(2 * n + K + 1)
    BY <1>3, <2>2
  <2>. QED  BY <1>3, <2>2, <2>3
<1>5. (\A j \in DOMAIN t : t[j].id = j) /\ t[i].equip = i
  BY <1>1, <1>4 DEF TerminalsAre
<1>6. at = {i}
  BY <1>3, <1>4, <1>5
<1>7. at \in SUBSET Int /\ i \in at /\ (\A y \in at : y <= i) /\ at # {}
  BY <1>4, <1>6
<1>8. LimitEquip(f, limit) = t[Max(at)].equip
  BY <1>7 DEF LimitEquip
<1>. HIDE DEF at, t
<1>9. Max(at) = i
  BY <1>7, GreatestIs
<1>. QED  BY <1>5, <1>8, <1>9

\* What a limit counts for, when it does.
Counts(x, amps) == x.continuous /\ x.amps = amps /\ x.value > 0
CountedValues(x, amps) == IF Counts(x, amps) THEN {x.value} ELSE {}

LEMMA LimitsOfNone ==
    ASSUME NEW c, IsCase(c), Len(c.volts) >= 1, Absent \notin Int, NEW si, NEW changer, NEW f, CimIs(c, si, changer, f),
           NEW e, e \notin 1..Len(c.lines), NEW amps
    PROVE  LimitsOf(f, e, amps) = {} /\ MvaLimit(f, e) = 0
<1> DEFINE L == Len(c.lines)
<1>1. L \in Nat /\ LimitsAre(c, f.limits)
  BY CaseShape DEF CimIs
<1>2. ASSUME NEW j \in DOMAIN f.limits PROVE f.limits[j].terminal \in 1..L
  <2>1. j \in 1..(3 * L)
    BY <1>1 DEF LimitsAre
  <2>2. \A i \in 1..L : f.limits[i].terminal = i /\ f.limits[L + i].terminal = i /\ f.limits[2 * L + i].terminal = i
    BY <1>1 DEF LimitsAre
  <2>3. \/ j \in 1..L \/ \E i \in 1..L : j = L + i
        \/ \E i \in 1..L : j = 2 * L + i
    BY <1>1, <2>1, LimitKinds
  <2>. QED  BY <2>2, <2>3
<1>3. \A j \in DOMAIN f.limits : LimitEquip(f, f.limits[j]) \in 1..L
  <2>. SUFFICES ASSUME NEW j \in DOMAIN f.limits PROVE LimitEquip(f, f.limits[j]) \in 1..L
    OBVIOUS
  <2>1. f.limits[j].terminal \in 1..Len(c.lines)
    BY <1>2
  <2>. QED  BY <2>1, LimitEquipIs
<1>4. \A a : LimitsOf(f, e, a) = {}
  BY <1>3 DEF LimitsOf
<1>. QED  BY <1>4 DEF MvaLimit

LEMMA LimitsOfLine ==
    ASSUME NEW c, IsCase(c), Len(c.volts) >= 1, Absent \notin Int, NEW si, NEW changer, NEW f, CimIs(c, si, changer, f),
           NEW e \in 1..Len(c.lines), NEW amps
    PROVE  LimitsOf(f, e, amps) = CountedValues(f.limits[e], amps)
               \union CountedValues(f.limits[Len(c.lines) + e], amps)
               \union CountedValues(f.limits[2 * Len(c.lines) + e], amps)
<1> DEFINE L == Len(c.lines)
           x == f.limits
<1>1. L \in Nat /\ LimitsAre(c, x)
  BY CaseShape DEF CimIs
<1>2. DOMAIN x = 1..(3 * L)
      /\ \A i \in 1..L : x[i].terminal = i /\ x[L + i].terminal = i /\ x[2 * L + i].terminal = i
  BY <1>1 DEF LimitsAre
<1>. HIDE DEF L
<1>3. \A i \in 1..L : i \in DOMAIN x /\ L + i \in DOMAIN x /\ 2 * L + i \in DOMAIN x
  BY <1>1, <1>2
<1>4. ASSUME NEW j \in DOMAIN x PROVE LimitEquip(f, x[j]) = x[j].terminal
  <2>1. \/ j \in 1..L \/ \E i \in 1..L : j = L + i
        \/ \E i \in 1..L : j = 2 * L + i
    BY <1>1, <1>2, LimitKinds
  <2>2. x[j].terminal \in 1..L
    <3>1. CASE j \in 1..L
      BY <1>2, <3>1
    <3>2. CASE \E i \in 1..L : j = L + i
      BY <1>2, <3>2
    <3>3. CASE \E i \in 1..L : j = 2 * L + i
      BY <1>2, <3>3
    <3>. QED  BY <2>1, <3>1, <3>2, <3>3
  <2>. QED  BY <2>2, LimitEquipIs DEF L
<1>5. ASSUME NEW j \in DOMAIN x PROVE x[j].terminal = e <=> j \in {e, L + e, 2 * L + e}
  <2>1. \/ j \in 1..L \/ \E i \in 1..L : j = L + i
        \/ \E i \in 1..L : j = 2 * L + i
    BY <1>1, <1>2, LimitKinds
  <2>2. e \in 1..L
    BY DEF L
  <2>3. CASE j \in 1..L
    BY <1>1, <1>2, <2>2, <2>3
  <2>4. CASE \E i \in 1..L : j = L + i
    <3>1. PICK i \in 1..L : j = L + i
      BY <2>4
    <3>2. x[j].terminal = i
      BY <1>2, <3>1
    <3>. QED  BY <1>1, <2>2, <3>1, <3>2
  <2>5. CASE \E i \in 1..L : j = 2 * L + i
    <3>1. PICK i \in 1..L : j = 2 * L + i
      BY <2>5
    <3>2. x[j].terminal = i
      BY <1>2, <3>1
    <3>. QED  BY <1>1, <2>2, <3>1, <3>2
  <2>. QED  BY <2>1, <2>3, <2>4, <2>5
<1> DEFINE sel == {j \in DOMAIN x : /\ x[j].continuous /\ x[j].amps = amps /\ x[j].value > 0 /\ LimitEquip(f, x[j]) = e}
<1>6. LimitsOf(f, e, amps) = {x[j].value : j \in sel}
  BY DEF LimitsOf
<1>7. sel = {j \in {e, L + e, 2 * L + e} : Counts(x[j], amps)}
  <2>1. \A j \in DOMAIN x : LimitEquip(f, x[j]) = e <=> j \in {e, L + e, 2 * L + e}
    BY <1>4, <1>5
  <2>2. e \in DOMAIN x /\ L + e \in DOMAIN x /\ 2 * L + e \in DOMAIN x
    BY <1>3 DEF L
  <2>3. \A j \in {e, L + e, 2 * L + e} : j \in DOMAIN x
    BY <2>2
  <2>. HIDE DEF x
  <2>. QED  BY <2>1, <2>3 DEF Counts
<1>. HIDE DEF x, sel
<1>8. {x[j].value : j \in sel} = CountedValues(x[e], amps) \union CountedValues(x[L + e], amps)
                                 \union CountedValues(x[2 * L + e], amps)
  BY <1>7 DEF CountedValues
<1>. QED  BY <1>6, <1>8 DEF x, L

\* Every other line has a limit in megavolt-amperes.
Mva(c, i) == IF i % 2 = 1 THEN c.lines[i].rate ELSE 0
Amps(c, i) == IF i % 2 = 1 THEN {Current(c, i) + 1} ELSE {Current(c, i), Current(c, i) + 1}

LEMMA LineLimits ==
    ASSUME NEW c, NEW si, NEW changer, CimCase(c, si, changer), Len(c.volts) >= 1, NEW f, CimIs(c, si, changer, f),
           NEW i \in 1..Len(c.lines)
    PROVE  MvaLimit(f, i) = Mva(c, i) /\ LimitsOf(f, i, TRUE) = Amps(c, i)
<1> DEFINE L == Len(c.lines)
           x == f.limits
           y == Current(c, i)
           r == c.lines[i].rate
           v == c.volts[c.lines[i].from]
<1>1. IsCase(c) /\ Absent \notin Int
  BY DEF CimCase
<1>2. i \in DOMAIN c.lines /\ r \in Nat \ {0} /\ v \in Nat \ {0}
  <2>1. DOMAIN c.lines = 1..L /\ c.lines[i] \in LineOf(DOMAIN c.volts)
    BY <1>1, CaseShape
  <2>2. \A b \in DOMAIN c.volts : c.volts[b] \in Nat \ {0}
    BY <1>1, CaseShape
  <2>. QED  BY <2>1, <2>2 DEF LineOf, AboveZero
<1>3. i % 2 = 1 \/ (r * 1000) % v = 0
  BY <1>2, CimWritable
<1>4. y = (r * 1000) \div v
  BY DEF Current
<1>. HIDE DEF r, v, y
<1>5. y \in Nat /\ (i % 2 # 1 => y > 0)
  <2>1. r * 1000 \in Nat \ {0}
    BY <1>2
  <2> DEFINE p == r * 1000
  <2>. HIDE DEF p
  <2>2. p \in Nat \ {0} /\ y = p \div v /\ (i % 2 = 1 \/ p % v = 0)
    BY <1>3, <1>4, <2>1 DEF p
  <2>3. p \div v \in Nat
    BY <1>2, <2>2
  <2>4. p % v = 0 => p = v * (p \div v)
    BY <1>2, <2>2
  <2>5. p % v = 0 => p \div v # 0
    BY <1>2, <2>2, <2>4
  <2>. QED  BY <2>2, <2>3, <2>5
<1>6. LimitsAre(c, x)
  BY DEF CimIs
<1>7. \A amps : LimitsOf(f, i, amps) = CountedValues(x[i], amps) \union CountedValues(x[L + i], amps)
                                       \union CountedValues(x[2 * L + i], amps)
  BY <1>1, LimitsOfLine
<1>8. x[2 * L + i].amps = TRUE /\ x[2 * L + i].continuous = TRUE /\ x[2 * L + i].value = y + 1
  BY <1>6 DEF LimitsAre, y
<1>9. CountedValues(x[2 * L + i], TRUE) = {y + 1} /\ CountedValues(x[2 * L + i], FALSE) = {}
  <2> DEFINE z == x[2 * L + i]
  <2>. HIDE DEF z
  <2>1. z.amps = TRUE /\ z.continuous = TRUE /\ z.value = y + 1 /\ y + 1 > 0
    BY <1>5, <1>8 DEF z
  <2>2. Counts(z, TRUE) /\ ~Counts(z, FALSE)
    BY <2>1 DEF Counts
  <2>3. CountedValues(z, TRUE) = {y + 1} /\ CountedValues(z, FALSE) = {}
    BY <2>1, <2>2 DEF CountedValues
  <2>. QED  BY <2>3 DEF z
<1>10. CASE i % 2 = 1
  <2>1. /\ x[i].amps = FALSE /\ x[i].continuous = TRUE /\ x[i].value = r
        /\ x[L + i].amps = FALSE /\ x[L + i].continuous = FALSE /\ x[L + i].value = 1
    BY <1>6, <1>10 DEF LimitsAre, r
  <2> DEFINE z == x[i]
             u == x[L + i]
  <2>2. z.amps = FALSE /\ z.continuous = TRUE /\ z.value = r /\ r > 0 /\ u.continuous = FALSE
    BY <1>2, <2>1
  <2>. HIDE DEF z, u, x
  <2>3. Counts(z, FALSE) /\ ~Counts(z, TRUE) /\ ~Counts(u, TRUE) /\ ~Counts(u, FALSE)
    BY <2>2 DEF Counts
  <2>4. /\ CountedValues(z, FALSE) = {r} /\ CountedValues(z, TRUE) = {}
        /\ CountedValues(u, TRUE) = {} /\ CountedValues(u, FALSE) = {}
    BY <2>2, <2>3 DEF CountedValues
  <2>5. LimitsOf(f, i, TRUE) = {y + 1}
    BY <1>7, <1>9, <2>4 DEF z, u
  <2>6. LimitsOf(f, i, FALSE) = {r}
    BY <1>7, <1>9, <2>4 DEF z, u
  <2>7. Min({r}) = r
    <3> DEFINE S == {r}
    <3>1. S \in SUBSET Int /\ r \in S /\ \A s \in S : r <= s
      BY <1>2
    <3>. HIDE DEF S
    <3>2. Min(S) = r
      BY <3>1, LeastIs
    <3>. QED  BY <3>2 DEF S
  <2>8. MvaLimit(f, i) = r
    BY <2>6, <2>7 DEF MvaLimit
  <2>. QED  BY <1>10, <2>5, <2>8 DEF r, y, Mva, Amps
<1>11. CASE i % 2 # 1
  <2>1. /\ x[i].amps = TRUE /\ x[i].continuous = FALSE /\ x[i].value = 1
        /\ x[L + i].amps = TRUE /\ x[L + i].continuous = TRUE /\ x[L + i].value = y
    BY <1>6, <1>11 DEF LimitsAre, y
  <2> DEFINE z == x[i]
             u == x[L + i]
  <2>2. z.continuous = FALSE /\ u.amps = TRUE /\ u.continuous = TRUE /\ u.value = y /\ y > 0
    BY <1>5, <1>11, <2>1
  <2>. HIDE DEF z, u, x
  <2>3. ~Counts(z, FALSE) /\ ~Counts(z, TRUE) /\ Counts(u, TRUE) /\ ~Counts(u, FALSE)
    BY <2>2 DEF Counts
  <2>4. /\ CountedValues(z, FALSE) = {} /\ CountedValues(z, TRUE) = {}
        /\ CountedValues(u, TRUE) = {y} /\ CountedValues(u, FALSE) = {}
    BY <2>2, <2>3 DEF CountedValues
  <2>5. LimitsOf(f, i, TRUE) = {y, y + 1}
    BY <1>7, <1>9, <2>4 DEF z, u
  <2>6. LimitsOf(f, i, FALSE) = {}
    BY <1>7, <1>9, <2>4 DEF z, u
  <2>8. MvaLimit(f, i) = 0
    BY <2>6 DEF MvaLimit
  <2>. QED  BY <1>11, <2>5, <2>8 DEF y, Mva, Amps
<1>. QED  BY <1>10, <1>11

\* A file that is as it should be, of a case that is accepted.
CimOf(c, si, changer, f) == Accepted(c) /\ CimCase(c, si, changer) /\ CimIs(c, si, changer, f)

LEMMA CimOfHas ==
    ASSUME NEW c, NEW si, NEW changer, NEW f, CimOf(c, si, changer, f)
    PROVE  /\ IsCase(c) /\ Absent \notin Int /\ Accepted(c) /\ CimCase(c, si, changer) /\ CimIs(c, si, changer, f)
           /\ Len(c.volts) >= 1 /\ Len(c.volts) \in Nat /\ DOMAIN c.volts = 1..Len(c.volts)
           /\ Len(c.lines) \in Nat /\ DOMAIN c.lines = 1..Len(c.lines)
           /\ Len(c.transformers) \in Nat /\ DOMAIN c.transformers = 1..Len(c.transformers)
<1>1. Accepted(c) /\ CimCase(c, si, changer) /\ CimIs(c, si, changer, f)
  BY DEF CimOf
<1>2. IsCase(c) /\ Absent \notin Int
  BY <1>1 DEF CimCase
<1>3. Len(c.volts) >= 2
  BY <1>1, CaseAccepted
<1>4. Len(c.volts) \in Nat /\ DOMAIN c.volts = 1..Len(c.volts) /\ Len(c.lines) \in Nat /\ DOMAIN c.lines = 1..Len(c.lines)
      /\ Len(c.transformers) \in Nat /\ DOMAIN c.transformers = 1..Len(c.transformers)
  BY <1>2, CaseShape
<1>5. Len(c.volts) >= 1
  BY <1>3, <1>4
<1>. QED  BY <1>1, <1>2, <1>4, <1>5

-----------------------------------------------------------------------------
(* Lines.                                                                  *)

\* A line as it is read, with the limit it has in megavolt-amperes.
IsLineItem(c, i, item) ==
    LET br == c.lines[i] IN
    /\ item.equip = i /\ item.facts = <<Fact(br.from, 0), Fact(br.to, 0)>>
    /\ item.branch = Line(br.from, br.to, CaseOhms(c, i), Mva(c, i))

LEMMA SameZ0 ==
    ASSUME NEW a, NEW b, NEW z, NEW r
    PROVE  [Line(a, b, z, r) EXCEPT !.z0 = Absent] = Line(a, b, z, r)
<1> DEFINE rec(x1, x2, x3, x4, x5, x6, x7, x8) ==
               [from |-> x1, to |-> x2, z |-> x3, z0 |-> x4, rate |-> x5,
                transformer |-> x6, tap |-> x7, connection |-> x8]
<1>1. ASSUME NEW x1, NEW x2, NEW x3, NEW x4, NEW x5, NEW x6, NEW x7, NEW x8
      PROVE  [rec(x1, x2, x3, x4, x5, x6, x7, x8) EXCEPT !.z0 = x4] = rec(x1, x2, x3, x4, x5, x6, x7, x8)
  OBVIOUS
<1>2. PICK no : no = FALSE
  OBVIOUS
<1>3. Line(a, b, z, r) = rec(a, b, z, Absent, r, no, Absent, Absent)
  BY <1>2 DEF Line
<1>. HIDE DEF rec
<1>. QED  BY <1>1, <1>3

LEMMA CimLinesRead ==
    ASSUME NEW c, NEW si, NEW changer, NEW f, CimOf(c, si, changer, f)
    PROVE  /\ IsSeq(CimLines(f)) /\ Len(CimLines(f)) = Len(c.lines)
           /\ \A i \in 1..Len(c.lines) : IsLineItem(c, i, CimLines(f)[i])
<1> DEFINE L == Len(c.lines)
           ls == f.lines
           at == {i \in DOMAIN ls : EquipBus(f, ls[i].id, 2) # 0}
           spanned == Picked(ls, at)
<1>1. /\ IsCase(c) /\ Absent \notin Int /\ CimCase(c, si, changer) /\ CimIs(c, si, changer, f) /\ L \in Nat
      /\ Len(c.volts) >= 1 /\ DOMAIN c.volts = 1..Len(c.volts) /\ Len(c.volts) \in Nat /\ DOMAIN c.lines = 1..L
  BY CimOfHas
<1>2. LinesAre(c, ls)
  BY <1>1 DEF CimIs
<1>3. IsSeq(ls) /\ Len(ls) = L /\ DOMAIN ls = 1..L
  BY <1>2, SeqsAre DEF LinesAre
<1>4. \A i \in 1..L : /\ ls[i].id = i /\ ls[i].z = CaseOhms(c, i) /\ ls[i].z0 = Absent
  BY <1>2 DEF LinesAre
<1>5. ASSUME NEW i \in 1..L
      PROVE  /\ EquipBus(f, i, 1) = c.lines[i].from /\ EquipBus(f, i, 2) = c.lines[i].to
             /\ c.lines[i].to # 0
  <2>1. i \in BranchIds(c) /\ ~Wound(c, i)
    <3> DEFINE T == Len(c.transformers)
    <3>1. BranchIds(c) = 1..(L + T) /\ T \in Nat /\ (Wound(c, i) <=> i > L)
      BY <1>1, CaseShape DEF BranchIds, Wound
    <3>. HIDE DEF L, T
    <3>. QED  BY <1>1, <3>1
  <2>2. BranchAt(c, i) = c.lines[i] /\ BranchAt(c, i).to \in DOMAIN c.volts
    BY <1>1, <2>1, BranchShape
  <2>3. EquipBus(f, i, 1) = BranchAt(c, i).from /\ EquipBus(f, i, 2) = BranchAt(c, i).to
    BY <1>1, <2>1, EquipBuses
  <2>. QED  BY <1>1, <2>2, <2>3
<1>6. at = DOMAIN ls
  BY <1>3, <1>4, <1>5
<1>7. spanned = ls
  <2>. HIDE DEF at, ls
  <2>. QED  BY <1>3, <1>6, PickedAll
<1>8. CimLines(f) = [k \in DOMAIN spanned |-> CimLine(f, spanned[k])]
  BY DEF CimLines
<1>9. ASSUME NEW i \in 1..L PROVE IsLineItem(c, i, CimLine(f, ls[i]))
  <2>1. EquipVolts(f, ls[i]) = 0
    BY <1>1, LevelsRead
  <2>2. MvaLimit(f, i) = Mva(c, i)
    BY <1>1, LineLimits
  <2> DEFINE br == c.lines[i]
             line == Line(br.from, br.to, CaseOhms(c, i), Mva(c, i))
  <2>3. CimLine(f, ls[i]) = [equip |-> i, facts |-> <<Fact(br.from, 0), Fact(br.to, 0)>>,
                             branch |-> [line EXCEPT !.z0 = Absent]]
    BY <1>4, <1>5, <2>1, <2>2 DEF CimLine
  <2>4. [line EXCEPT !.z0 = Absent] = line
    BY SameZ0
  <2>. HIDE DEF line
  <2>5. IsLineItem(c, i, [equip |-> i, facts |-> <<Fact(br.from, 0), Fact(br.to, 0)>>, branch |-> line])
    BY DEF IsLineItem, line
  <2>. QED  BY <2>3, <2>4, <2>5
<1> DEFINE items == CimLines(f)
<1>. HIDE DEF spanned, ls, items
<1>10. items = [k \in 1..L |-> CimLine(f, ls[k])]
  BY <1>3, <1>7, <1>8 DEF items
<1>11. items = [k \in 1..L |-> items[k]] /\ \A k \in 1..L : items[k] = CimLine(f, ls[k])
  BY <1>10
<1>12. IsSeq(items) /\ Len(items) = L
  BY <1>1, <1>11, Tabulated
<1>. QED  BY <1>9, <1>11, <1>12 DEF items

-----------------------------------------------------------------------------
(* Windings.                                                               *)

LEMMA EndKinds ==
    ASSUME NEW T \in Nat, NEW j \in 1..(2 * T)
    PROVE  j \in 1..T \/ \E i \in 1..T : j = T + i
<1>1. CASE j > T
  <2>1. j - T \in 1..T /\ j = T + (j - T)
    BY <1>1
  <2>. QED  BY <2>1
<1>. QED  BY <1>1

HighAt(c, i) == Len(c.transformers) + i
EndPair(c, i) == {i, HighAt(c, i)}

\* Transformer i's windings are the i-th from the start and from the middle.
LEMMA EndsOf ==
    ASSUME NEW c, NEW si, NEW changer, NEW f, CimOf(c, si, changer, f), NEW i \in DOMAIN c.transformers
    PROVE  /\ Ends(f, Len(c.lines) + i) = EndPair(c, i)
           /\ i \in Nat \ {0} /\ HighAt(c, i) \in Nat \ {0} /\ i < HighAt(c, i)
           /\ i \in DOMAIN f.ends /\ HighAt(c, i) \in DOMAIN f.ends
           /\ IsLowEnd(c, si, changer, i, f.ends[i]) /\ IsHighEnd(c, si, changer, i, f.ends[HighAt(c, i)])
           /\ f.ends[i].pt = Len(c.lines) + i /\ f.ends[HighAt(c, i)].pt = Len(c.lines) + i
           /\ Len(c.lines) + i \in BranchIds(c) /\ BranchAt(c, Len(c.lines) + i) = c.transformers[i]
<1> DEFINE L == Len(c.lines)
           T == Len(c.transformers)
           e == f.ends
<1>1. IsCase(c) /\ L \in Nat /\ T \in Nat /\ DOMAIN c.transformers = 1..T /\ CimIs(c, si, changer, f)
  BY CimOfHas
<1>2. EndsAre(c, si, changer, e)
  BY <1>1 DEF CimIs
<1>3. DOMAIN e = 1..(2 * T)
      /\ \A k \in 1..T : IsLowEnd(c, si, changer, k, e[k]) /\ IsHighEnd(c, si, changer, k, e[T + k])
  BY <1>2 DEF EndsAre
<1>4. \A k \in 1..T : e[k].pt = L + k /\ e[T + k].pt = L + k
  <2>. SUFFICES ASSUME NEW k \in 1..T PROVE e[k].pt = L + k /\ e[T + k].pt = L + k
    OBVIOUS
  <2>1. IsLowEnd(c, si, changer, k, e[k])
    BY <1>3
  <2>2. IsHighEnd(c, si, changer, k, e[T + k])
    BY <1>3
  <2>3. e[k].pt = L + k
    BY <2>1 DEF IsLowEnd
  <2>4. e[T + k].pt = L + k
    BY <2>2 DEF IsHighEnd
  <2>. QED  BY <2>3, <2>4
<1>5. L + i \in BranchIds(c) /\ BranchAt(c, L + i) = c.transformers[i]
  BY <1>1, BranchesAreMany
<1>6. Ends(f, L + i) = {j \in DOMAIN e : e[j].pt = L + i}
  BY DEF Ends
<1>7. i \in 1..T
  BY <1>1
<1>. HIDE DEF L, T, e
<1>8. \A j \in 1..(2 * T) : j \in 1..T \/ \E k \in 1..T : j = T + k
  BY <1>1, EndKinds
<1>9. i \in Nat \ {0} /\ T + i \in Nat \ {0} /\ i < T + i /\ i \in DOMAIN e /\ T + i \in DOMAIN e
  BY <1>1, <1>3, <1>7
<1>10. ASSUME NEW j \in DOMAIN e, e[j].pt = L + i PROVE j \in {i, T + i}
  <2>1. CASE j \in 1..T
    <3>1. L + j = L + i
      BY <1>4, <1>10, <2>1
    <3>. QED  BY <1>1, <1>7, <2>1, <3>1
  <2>2. CASE \E k \in 1..T : j = T + k
    <3>1. PICK k \in 1..T : j = T + k
      BY <2>2
    <3>2. L + k = L + i
      BY <1>4, <1>10, <3>1
    <3>3. k = i
      BY <1>1, <1>7, <3>2
    <3>. QED  BY <3>1, <3>3
  <2>. QED  BY <1>3, <1>8, <2>1, <2>2
<1>11. Ends(f, L + i) = {i, T + i}
  <2>1. {j \in DOMAIN e : e[j].pt = L + i} = {i, T + i}
    BY <1>4, <1>7, <1>9, <1>10
  <2>. QED  BY <1>6, <2>1
<1>. QED  BY <1>3, <1>4, <1>5, <1>7, <1>9, <1>11 DEF L, T, e, HighAt, EndPair

\* What is at the ends of a transformer.
LEMMA WoundAre ==
    ASSUME NEW c, Accepted(c), NEW i \in DOMAIN c.transformers
    PROVE  LET br == c.transformers[i] IN
           /\ br.from \in DOMAIN c.volts /\ br.to \in DOMAIN c.volts /\ br.from # br.to
           /\ br.from # 0 /\ br.to # 0 /\ br.from \in Int /\ br.to \in Int
           /\ c.volts[br.from] \in Nat \ {0} /\ c.volts[br.to] \in Nat \ {0}
           /\ br.tap \in Nat \ {0} /\ br.rate \in Nat \ {0} /\ br.delta \in BOOLEAN
           /\ CaseOhms(c, Len(c.lines) + i) \in Nat
<1> DEFINE br == c.transformers[i]
<1>1. IsCase(c)
  BY DEF Accepted
<1>2. br.from \in DOMAIN c.volts /\ br.to \in DOMAIN c.volts /\ br.tap \in Nat \ {0} /\ br.rate \in Nat \ {0}
      /\ br.delta \in BOOLEAN
  BY <1>1, TransformerIs
<1>3. Len(c.lines) + i \in BranchIds(c) /\ BranchAt(c, Len(c.lines) + i) = br
  BY <1>1, BranchesAreMany
<1>4. br.from # br.to
  <2>1. \A k \in BranchIds(c) : BranchAt(c, k).from # BranchAt(c, k).to
    BY CaseAccepted
  <2>. QED  BY <1>3, <2>1
<1>5. DOMAIN c.volts = 1..Len(c.volts) /\ Len(c.volts) \in Nat /\ \A b \in DOMAIN c.volts : c.volts[b] \in Nat \ {0}
  BY <1>1, CaseShape
<1>6. CaseOhms(c, Len(c.lines) + i) \in Nat
  BY <1>1, <1>3, CaseOhmsAre
<1>7. \A b \in DOMAIN c.volts : b # 0 /\ b \in Int
  BY <1>5
<1>. HIDE DEF br
<1>8. br.from # 0 /\ br.to # 0 /\ br.from \in Int /\ br.to \in Int /\ c.volts[br.from] \in Nat \ {0} /\ c.volts[br.to] \in Nat \ {0}
  BY <1>2, <1>5, <1>7
<1>. QED  BY <1>2, <1>4, <1>6, <1>8 DEF br

\* The winding numbered 1 comes before the one numbered 2.
LEMMA EndsNumbered ==
    ASSUME NEW c, NEW si, NEW changer, NEW f, CimOf(c, si, changer, f), NEW i \in DOMAIN c.transformers
    PROVE  /\ NumberedBefore(f, HighAt(c, i), i) /\ ~NumberedBefore(f, i, HighAt(c, i))
           /\ ~NumberedBefore(f, i, i) /\ ~NumberedBefore(f, HighAt(c, i), HighAt(c, i))
<1> DEFINE a == i
           b == HighAt(c, i)
<1>1. f.ends[a].number = 2 /\ f.ends[b].number = 1
  <2>1. IsLowEnd(c, si, changer, i, f.ends[a]) /\ IsHighEnd(c, si, changer, i, f.ends[b])
    BY EndsOf
  <2>2. f.ends[a].number = 2
    BY <2>1 DEF IsLowEnd
  <2>3. f.ends[b].number = 1
    BY <2>1 DEF IsHighEnd
  <2>. QED  BY <2>2, <2>3
<1>2. EndNumber(f, a) = 2 /\ EndNumber(f, b) = 1
  BY <1>1 DEF EndNumber, Or
<1>3. a \in Nat /\ b \in Nat
  BY EndsOf
<1>. QED  BY <1>2, <1>3 DEF NumberedBefore

LEMMA EndsAtBuses ==
    ASSUME NEW c, NEW si, NEW changer, NEW f, CimOf(c, si, changer, f), NEW i \in DOMAIN c.transformers
    PROVE  EndBus(f, i) = c.transformers[i].to /\ EndBus(f, HighAt(c, i)) = c.transformers[i].from
<1> DEFINE a == i
           b == HighAt(c, i)
           L == Len(c.lines)
           T == Len(c.transformers)
           br == c.transformers[i]
           pt == L + i
           own == {TerminalBus(f, f.ends[j].terminal) : j \in {a, b}} \ {0}
           rank(x) == Cardinality({j \in {a, b} : NumberedBefore(f, j, x)}) + 1
<1>1. /\ IsCase(c) /\ Absent \notin Int /\ CimIs(c, si, changer, f) /\ Accepted(c) /\ Len(c.volts) >= 1
      /\ L \in Nat /\ T \in Nat /\ DOMAIN c.transformers = 1..T
  BY CimOfHas
<1>8. Ends(f, pt) = {a, b} /\ f.ends[a].pt = pt /\ f.ends[b].pt = pt /\ a \in Nat /\ b \in Nat /\ a < b
  <2>1. Ends(f, pt) = {a, b}
    <3>1. Ends(f, pt) = EndPair(c, i)
      BY EndsOf
    <3>. QED  BY <3>1 DEF EndPair
  <2>2. f.ends[a].pt = pt /\ f.ends[b].pt = pt
    BY EndsOf
  <2>3. a \in Nat /\ b \in Nat /\ a < b
    BY EndsOf
  <2>. QED  BY <2>1, <2>2, <2>3
<1>9. pt \in BranchIds(c) /\ BranchAt(c, pt) = br
  BY EndsOf
<1>2. Ends(f, pt) = {a, b} /\ f.ends[a].pt = pt /\ f.ends[b].pt = pt /\ a \in Nat /\ b \in Nat /\ a < b
      /\ pt \in BranchIds(c) /\ BranchAt(c, pt) = br
  BY <1>8, <1>9
<1>10. IsLowEnd(c, si, changer, i, f.ends[a]) /\ IsHighEnd(c, si, changer, i, f.ends[b])
  BY EndsOf
<1>11. f.ends[a].terminal = IF i = 1 THEN 2 * L + T + 1 ELSE Absent
  BY <1>10 DEF IsLowEnd
<1>12. f.ends[b].terminal = IF i = 1 THEN L + 1 ELSE Absent
  BY <1>10 DEF IsHighEnd
<1>3. br.from # br.to /\ br.from # 0 /\ br.to # 0
  BY <1>1, WoundAre
<1>4. EquipBus(f, pt, 1) = br.from /\ EquipBus(f, pt, 2) = br.to
  BY <1>1, <1>2, EquipBuses
<1>5. \A x \in {a, b} : EndBus(f, x) = IF Cardinality(own) >= 2 \/ EquipBus(f, pt, 2) = 0 \/ rank(x) > 2
                                         THEN TerminalBus(f, f.ends[x].terminal) ELSE EquipBus(f, pt, rank(x))
  BY <1>2 DEF EndBus
<1>6. CASE i = 1
  <2> DEFINE low == 2 * L + T + 1
             high == L + 1
             n == Many(c)
             t == f.terminals
  <2>1. f.ends[a].terminal = low /\ f.ends[b].terminal = high
    BY <1>6, <1>11, <1>12
  <2>2. TerminalsAre(c, t, n, OnCount(c))
    BY <1>1 DEF CimIs
  <2>3. n = L + T /\ pt \in 1..n /\ high = pt /\ low = n + pt
    <3>1. n = L + T
      BY DEF Many
    <3>2. 1 \in 1..T
      BY <1>1, <1>6
    <3>. HIDE DEF n, L, T
    <3>. QED  BY <1>1, <1>6, <3>1, <3>2
  <2>4. t[pt].node = br.from /\ t[n + pt].node = br.to
    <3>1. \A e \in 1..n : t[e].node = BranchAt(c, e).from /\ t[n + e].node = BranchAt(c, e).to
      BY <2>2 DEF TerminalsAre
    <3>. QED  BY <1>2, <2>3, <3>1
  <2>5. pt \in DOMAIN t /\ n + pt \in DOMAIN t
    <3>1. n \in Nat /\ OnCount(c) \in Nat /\ DOMAIN t = 1..(2 * n + OnCount(c) + 1)
      BY <2>2 DEF TerminalsAre
    <3> DEFINE K == OnCount(c)
    <3>. HIDE DEF n, t, pt, K
    <3>2. n \in Nat /\ K \in Nat /\ DOMAIN t = 1..(2 * n + K + 1) /\ pt \in 1..n
      BY <2>3, <3>1 DEF K
    <3>. QED  BY <3>2
  <2>6. \A j \in DOMAIN t : TerminalBus(f, j) = t[j].node
    BY <1>1, TerminalBuses
  <2>. HIDE DEF low, high, n, t, pt, br
  <2>7. TerminalBus(f, f.ends[a].terminal) = br.to /\ TerminalBus(f, f.ends[b].terminal) = br.from
    BY <2>1, <2>3, <2>4, <2>5, <2>6
  <2>8. own = {br.to, br.from}
    BY <1>3, <2>7
  <2>9. Cardinality(own) = 2
    <3>. HIDE DEF own
    <3>1. IsFiniteSet({br.to}) /\ Cardinality({br.to}) = 1 /\ br.from \notin {br.to}
      BY <1>3, FS_Singleton
    <3>2. Cardinality({br.to} \union {br.from}) = 1 + 1
      BY <3>1, FS_AddElement
    <3>3. own = {br.to} \union {br.from}
      BY <2>8
    <3>. QED  BY <3>2, <3>3
  <2>. HIDE DEF own
  <2>10. EndBus(f, a) = TerminalBus(f, f.ends[a].terminal) /\ EndBus(f, b) = TerminalBus(f, f.ends[b].terminal)
    BY <1>5, <2>9
  <2>. QED  BY <2>7, <2>10 DEF br
<1>7. CASE i # 1
  <2>1. f.ends[a].terminal = Absent /\ f.ends[b].terminal = Absent
    BY <1>7, <1>11, <1>12
  <2>2. TerminalBus(f, Absent) = 0
    BY <1>1, TerminalBuses
  <2>3. own = {}
    BY <2>1, <2>2
  <2>4. ~(Cardinality(own) >= 2)
    <3>. HIDE DEF own
    <3>1. Cardinality(own) = 0
      BY <2>3, FS_EmptySet
    <3>. QED  BY <3>1
  <2>5. rank(a) = 2 /\ rank(b) = 1
    <3>1. NumberedBefore(f, b, a) /\ ~NumberedBefore(f, a, b) /\ ~NumberedBefore(f, a, a) /\ ~NumberedBefore(f, b, b)
      BY EndsNumbered
    <3>2. {j \in {a, b} : NumberedBefore(f, j, a)} = {b} /\ {j \in {a, b} : NumberedBefore(f, j, b)} = {}
      BY <3>1
    <3> DEFINE one == {b}
               none == {}
    <3>3. Cardinality(one) = 1 /\ Cardinality(none) = 0
      BY FS_Singleton, FS_EmptySet
    <3>4. rank(a) = Cardinality(one) + 1 /\ rank(b) = Cardinality(none) + 1
      BY <3>2
    <3>. HIDE DEF one, none, rank
    <3>. QED  BY <3>3, <3>4
  <2>. HIDE DEF own, rank
  <2>6. EndBus(f, a) = EquipBus(f, pt, 2) /\ EndBus(f, b) = EquipBus(f, pt, 1)
    BY <1>3, <1>4, <1>5, <2>4, <2>5
  <2>. QED  BY <1>4, <2>6
<1>. QED  BY <1>6, <1>7

LEMMA EndsAtVolts ==
    ASSUME NEW c, NEW si, NEW changer, NEW f, CimOf(c, si, changer, f), NEW i \in DOMAIN c.transformers
    PROVE  /\ EndVolts(f, i) = c.volts[c.transformers[i].to]
           /\ EndVolts(f, HighAt(c, i)) = c.volts[c.transformers[i].from]
<1> DEFINE br == c.transformers[i]
<1>1. CimCase(c, si, changer) /\ CimIs(c, si, changer, f) /\ Accepted(c)
  BY CimOfHas
<1>2. IsLowEnd(c, si, changer, i, f.ends[i]) /\ IsHighEnd(c, si, changer, i, f.ends[HighAt(c, i)])
  BY EndsOf
<1>3. f.ends[i].base = c.volts[br.to]
  BY <1>2 DEF IsLowEnd
<1>4. f.ends[HighAt(c, i)].base = c.volts[br.from]
  BY <1>2 DEF IsHighEnd
<1>5. br.from \in DOMAIN c.volts /\ br.to \in DOMAIN c.volts /\ c.volts[br.from] \in Nat \ {0} /\ c.volts[br.to] \in Nat \ {0}
  BY <1>1, WoundAre
<1>6. \A b \in DOMAIN c.volts : BaseVolts(f, c.volts[b]) = c.volts[b]
  BY <1>1, LevelsRead
<1>. QED  BY <1>3, <1>4, <1>5, <1>6 DEF EndVolts, Or

\* A rated voltage over a nominal one, in whichever unit.
LEMMA RatioIs ==
    ASSUME NEW r \in Nat \ {0}, NEW v \in Nat \ {0}, NEW p \in Nat, 1000 * r = v * p, NEW si
    PROVE  /\ FileVolts(si, r) # 0 /\ FileVolts(si, v) # 0
           /\ (FileVolts(si, r) * 1000) \div FileVolts(si, v) = p
<1>1. CASE si
  <2>1. FileVolts(si, r) = r * 1000 /\ FileVolts(si, v) = v * 1000
    BY <1>1 DEF FileVolts
  <2> DEFINE d == v * 1000
  <2>2. (r * 1000) * 1000 = d * p
    <3>1. (r * 1000) * 1000 = (1000 * r) * 1000
      OBVIOUS
    <3>2. (v * p) * 1000 = (v * 1000) * p
      OBVIOUS
    <3>. QED  BY <3>1, <3>2
  <2>3. d \in Nat \ {0} /\ r * 1000 # 0
    OBVIOUS
  <2>. HIDE DEF d
  <2>4. (d * p) \div d = p
    BY <2>3, ExactQuotient
  <2>. QED  BY <2>1, <2>2, <2>3, <2>4 DEF d
<1>2. CASE ~si
  <2>1. FileVolts(si, r) = r /\ FileVolts(si, v) = v
    BY <1>2 DEF FileVolts
  <2>2. r * 1000 = v * p
    OBVIOUS
  <2>3. (v * p) \div v = p
    BY ExactQuotient
  <2>. QED  BY <2>1, <2>2, <2>3
<1>. QED  BY <1>1, <1>2

LEMMA EndsAtRatio ==
    ASSUME NEW c, NEW si, NEW changer, NEW f, CimOf(c, si, changer, f), NEW i \in DOMAIN c.transformers
    PROVE  EndRatio(f, i) = c.transformers[i].tap /\ EndRatio(f, HighAt(c, i)) = 1000
<1> DEFINE br == c.transformers[i]
           r == RatedVolts(c, changer, i)
           vl == c.volts[br.to]
           vh == c.volts[br.from]
           x == f.ends[i]
           y == f.ends[HighAt(c, i)]
<1>1. CimCase(c, si, changer) /\ CimIs(c, si, changer, f) /\ Accepted(c)
  BY CimOfHas
<1>2. IsLowEnd(c, si, changer, i, x) /\ IsHighEnd(c, si, changer, i, y)
  BY EndsOf
<1>3. x.base = vl /\ x.ratedU = FileVolts(si, r) /\ x.ratio = IF changer THEN br.tap ELSE 1000
  BY <1>2 DEF IsLowEnd
<1>4. y.base = vh /\ y.ratedU = FileVolts(si, vh) /\ y.ratio = 1000
  BY <1>2 DEF IsHighEnd
<1>5. br.from \in DOMAIN c.volts /\ br.to \in DOMAIN c.volts /\ vh \in Nat \ {0} /\ vl \in Nat \ {0} /\ br.tap \in Nat \ {0}
  BY <1>1, WoundAre
<1>6. \A b \in DOMAIN c.volts : c.volts[b] \in DOMAIN f.base /\ f.base[c.volts[b]] = FileVolts(si, c.volts[b])
  BY <1>1, LevelsRead
<1>7. /\ r \in Nat \ {0}
      /\ changer => r = vl
      /\ ~changer => 1000 * r = vl * br.tap
  BY <1>1, CimWritable
<1>8. vl \in DOMAIN f.base /\ f.base[vl] = FileVolts(si, vl) /\ vh \in DOMAIN f.base /\ f.base[vh] = FileVolts(si, vh)
  BY <1>5, <1>6
<1>9. \A j : EndRatio(f, j) =
               LET e == f.ends[j]
                   nominal == IF e.base \in DOMAIN f.base THEN f.base[e.base] ELSE 0
                   ratio == IF nominal # 0 /\ e.ratedU # 0 THEN (e.ratedU * 1000) \div nominal ELSE 1000
               IN (ratio * e.ratio) \div 1000
  BY DEF EndRatio
<1> DEFINE share(u, v) == (FileVolts(si, u) * 1000) \div FileVolts(si, v)
<1>10. 1000 * vh = vh * 1000
  BY <1>5
<1>11. FileVolts(si, vh) # 0 /\ share(vh, vh) = 1000
  BY <1>5, <1>10, RatioIs
<1>. HIDE DEF share, x, y, r, vl, vh
<1>12. EndRatio(f, HighAt(c, i)) = (share(vh, vh) * 1000) \div 1000
  BY <1>4, <1>8, <1>9, <1>11 DEF share, y
<1>13. CASE changer
  <2>1. r = vl /\ 1000 * vl = vl * 1000 /\ x.ratio = br.tap
    BY <1>3, <1>5, <1>7, <1>13
  <2>5. r \in Nat \ {0} /\ vl \in Nat \ {0} /\ 1000 * r = vl * 1000
    BY <1>5, <2>1
  <2>2. FileVolts(si, r) # 0 /\ FileVolts(si, vl) # 0 /\ share(r, vl) = 1000
    BY <2>5, RatioIs DEF share
  <2>3. EndRatio(f, i) = (share(r, vl) * br.tap) \div 1000
    BY <1>3, <1>8, <1>9, <2>1, <2>2 DEF share, x
  <2>4. (1000 * br.tap) \div 1000 = br.tap
    BY <1>5
  <2>. QED  BY <1>11, <1>12, <2>2, <2>3, <2>4
<1>14. CASE ~changer
  <2>1. 1000 * r = vl * br.tap /\ x.ratio = 1000
    BY <1>3, <1>7, <1>14
  <2>2. FileVolts(si, r) # 0 /\ FileVolts(si, vl) # 0 /\ share(r, vl) = br.tap
    BY <1>5, <1>7, <2>1, RatioIs DEF share
  <2>3. EndRatio(f, i) = (share(r, vl) * 1000) \div 1000
    BY <1>3, <1>8, <1>9, <2>1, <2>2 DEF share, x
  <2>4. (br.tap * 1000) \div 1000 = br.tap
    BY <1>5
  <2>. QED  BY <1>11, <1>12, <2>2, <2>3, <2>4
<1>. QED  BY <1>13, <1>14

\* The winding on the side the case calls the source side is the high one.
LEMMA EndsInOrder ==
    ASSUME NEW c, NEW si, NEW changer, NEW f, CimOf(c, si, changer, f), NEW i \in DOMAIN c.transformers
    PROVE  /\ Windings(f, Len(c.lines) + i) = EndPair(c, i)
           /\ HighEnd(f, Len(c.lines) + i) = HighAt(c, i) /\ LowEnd(f, Len(c.lines) + i) = i
           /\ IsGrouped(f, Len(c.lines) + i)
<1> DEFINE a == i
           b == HighAt(c, i)
           pt == Len(c.lines) + i
           br == c.transformers[i]
           r == RatedVolts(c, changer, i)
           v == c.volts[br.from]
           W == Windings(f, pt)
<1>1. CimCase(c, si, changer) /\ Accepted(c) /\ Absent \notin Int /\ Len(c.lines) \in Nat
  BY CimOfHas
<1>2. Ends(f, pt) = {a, b}
  <2>1. Ends(f, pt) = EndPair(c, i)
    BY EndsOf
  <2>. QED  BY <2>1 DEF EndPair
<1>3. a \in Nat /\ b \in Nat /\ a < b
  BY EndsOf
<1>4. EndBus(f, a) = br.to /\ EndBus(f, b) = br.from
  BY EndsAtBuses
<1>5. br.from # 0 /\ br.to # 0 /\ br.from # br.to /\ v \in Nat
  BY <1>1, WoundAre
<1>6. W = {a, b}
  BY <1>2, <1>4, <1>5 DEF Windings
<1>7. f.ends[a].ratedU = FileVolts(si, r) /\ f.ends[b].ratedU = FileVolts(si, v)
  <2>1. IsLowEnd(c, si, changer, i, f.ends[a]) /\ IsHighEnd(c, si, changer, i, f.ends[b])
    BY EndsOf
  <2>2. f.ends[a].ratedU = FileVolts(si, r)
    BY <2>1 DEF IsLowEnd
  <2>3. f.ends[b].ratedU = FileVolts(si, v)
    BY <2>1 DEF IsHighEnd
  <2>. QED  BY <2>2, <2>3
<1>8. r \in Nat /\ r <= v
  BY <1>1, CimWritable
<1>9. FileVolts(si, r) <= FileVolts(si, v) /\ FileVolts(si, r) \in Nat /\ FileVolts(si, v) \in Nat
  BY <1>5, <1>8 DEF FileVolts
<1>10. NumberedBefore(f, b, a) /\ ~NumberedBefore(f, a, b)
  BY EndsNumbered
<1>11. RatedAbove(f, b, a) /\ ~RatedAbove(f, a, b)
  <2> DEFINE x == f.ends[a].ratedU
             y == f.ends[b].ratedU
  <2>1. x <= y /\ x \in Nat /\ y \in Nat
    BY <1>7, <1>9
  <2>. HIDE DEF a, b
  <2>2. RatedAbove(f, b, a) <=> y > x \/ (y = x /\ NumberedBefore(f, b, a))
    BY DEF RatedAbove
  <2>3. RatedAbove(f, a, b) <=> x > y \/ (x = y /\ NumberedBefore(f, a, b))
    BY DEF RatedAbove
  <2>. HIDE DEF x, y
  <2>. QED  BY <1>10, <2>1, <2>2, <2>3
<1>. HIDE DEF W, a, b, pt
<1>12. HighEnd(f, pt) = b
  <2>1. HighEnd(f, pt) = CHOOSE j \in W : \A k \in W : k # j => RatedAbove(f, j, k)
    BY DEF HighEnd, W
  <2>2. \A j \in W : (\A k \in W : k # j => RatedAbove(f, j, k)) <=> j = b
    BY <1>3, <1>6, <1>11
  <2>. QED  BY <1>6, <2>1, <2>2
<1>13. LowEnd(f, pt) = a
  <2>1. LowEnd(f, pt) = CHOOSE j \in W : \A k \in W : k # j => RatedAbove(f, k, j)
    BY DEF LowEnd, W
  <2>2. \A j \in W : (\A k \in W : k # j => RatedAbove(f, k, j)) <=> j = a
    BY <1>3, <1>6, <1>11
  <2>. QED  BY <1>6, <2>1, <2>2
<1>14. Cardinality({EndBus(f, j) : j \in W}) >= 2
  <2> DEFINE S == {EndBus(f, j) : j \in W}
  <2>1. S = {br.to} \union {br.from}
    BY <1>4, <1>6
  <2>2. IsFiniteSet({br.to}) /\ Cardinality({br.to}) = 1 /\ br.from \notin {br.to}
    BY <1>5, FS_Singleton
  <2>3. Cardinality({br.to} \union {br.from}) = 1 + 1
    BY <2>2, FS_AddElement
  <2>. HIDE DEF S
  <2>4. Cardinality(S) = 2
    BY <2>1, <2>3
  <2>. QED  BY <2>4 DEF S
<1>15. pt # Absent
  BY <1>1, <1>3 DEF pt, a
<1>16. IsGrouped(f, pt)
  BY <1>4, <1>5, <1>12, <1>13, <1>14, <1>15 DEF IsGrouped, W
<1>. QED  BY <1>6, <1>12, <1>13, <1>16 DEF W, a, b, pt, EndPair

\* No winding has a limit.
LEMMA RateOfGroup ==
    ASSUME NEW c, NEW si, NEW changer, NEW f, CimOf(c, si, changer, f), NEW i \in DOMAIN c.transformers
    PROVE  GroupRate(f, Len(c.lines) + i) = c.transformers[i].rate
<1> DEFINE a == i
           b == HighAt(c, i)
           L == Len(c.lines)
           pt == L + i
           rate == c.transformers[i].rate
<1>1. /\ IsCase(c) /\ Absent \notin Int /\ CimIs(c, si, changer, f) /\ Accepted(c) /\ Len(c.volts) >= 1
      /\ L \in Nat
  BY CimOfHas
<1>2. Ends(f, pt) = {a, b}
  <2>1. Ends(f, pt) = EndPair(c, i)
    BY EndsOf
  <2>. QED  BY <2>1 DEF EndPair
<1>3. a \in Nat \ {0} /\ b \in Nat \ {0}
  BY EndsOf
<1>4. f.ends[a].id = -a /\ f.ends[b].id = -b /\ f.ends[a].ratedS = 0 /\ f.ends[b].ratedS = rate
  <2>1. IsLowEnd(c, si, changer, i, f.ends[a]) /\ IsHighEnd(c, si, changer, i, f.ends[b])
    BY EndsOf
  <2>2. f.ends[a].id = -a /\ f.ends[a].ratedS = 0
    BY <2>1 DEF IsLowEnd
  <2>3. f.ends[b].id = -b /\ f.ends[b].ratedS = rate
    BY <2>1 DEF IsHighEnd, HighAt
  <2>. QED  BY <2>2, <2>3
<1>5. -a \notin 1..L /\ -b \notin 1..L /\ pt \notin 1..L
  <2>. HIDE DEF L, b
  <2>. QED  BY <1>1, <1>3
<1>6. MvaLimit(f, pt) = 0 /\ MvaLimit(f, -a) = 0 /\ MvaLimit(f, -b) = 0
  <2>1. \A e : e \notin 1..Len(c.lines) => MvaLimit(f, e) = 0
    BY <1>1, LimitsOfNone
  <2>. QED  BY <1>5, <2>1
<1> DEFINE limited == {j \in Ends(f, pt) : MvaLimit(f, f.ends[j].id) # 0}
           rates == {f.ends[j].ratedS : j \in Ends(f, pt)}
<1>7. limited = {}
  BY <1>2, <1>4, <1>6
<1>8. GroupRate(f, pt) = Max(rates)
  <2>1. GroupRate(f, pt) = IF MvaLimit(f, pt) # 0 THEN MvaLimit(f, pt)
                           ELSE IF limited # {} THEN MvaLimit(f, f.ends[Min(limited)].id) ELSE Max(rates)
    BY DEF GroupRate
  <2>. HIDE DEF limited, rates, pt
  <2>. QED  BY <1>6, <1>7, <2>1
<1>9. rate \in Nat
  BY <1>1, WoundAre
<1>10. rates = {0, rate}
  BY <1>2, <1>4
<1>. HIDE DEF rate, rates, pt
<1>11. rates \in SUBSET Int /\ rate \in rates /\ \A y \in rates : y <= rate
  BY <1>9, <1>10
<1>12. Max(rates) = rate
  BY <1>11, GreatestIs
<1>. QED  BY <1>8, <1>12 DEF rate, pt

LEMMA OhmsOfGroup ==
    ASSUME NEW c, NEW si, NEW changer, NEW f, CimOf(c, si, changer, f), NEW i \in DOMAIN c.transformers
    PROVE  SumFunctionOnSet([j \in DOMAIN f.ends |-> f.ends[j].z], Ends(f, Len(c.lines) + i)) = CaseOhms(c, Len(c.lines) + i)
<1> DEFINE a == i
           b == HighAt(c, i)
           pt == Len(c.lines) + i
           z == CaseOhms(c, pt)
           w == [j \in DOMAIN f.ends |-> f.ends[j].z]
<1>1. Accepted(c)
  BY CimOfHas
<1>2. Ends(f, pt) = {a, b}
  <2>1. Ends(f, pt) = EndPair(c, i)
    BY EndsOf
  <2>. QED  BY <2>1 DEF EndPair
<1>3. a < b /\ a \in Nat /\ b \in Nat /\ a \in DOMAIN f.ends /\ b \in DOMAIN f.ends
  BY EndsOf
<1>4. w[a] = 0 /\ w[b] = z
  <2>1. IsLowEnd(c, si, changer, i, f.ends[a]) /\ IsHighEnd(c, si, changer, i, f.ends[b])
    BY EndsOf
  <2>2. f.ends[a].z = 0
    BY <2>1 DEF IsLowEnd
  <2>3. f.ends[b].z = z
    BY <2>1 DEF IsHighEnd
  <2>. QED  BY <1>3, <2>2, <2>3
<1>5. z \in Nat
  BY <1>1, WoundAre
<1> DEFINE S == {a}
           none == {}
<1>. HIDE DEF w, z, b, a
<1>6. SumFunctionOnSet(w, none) = 0
  BY SumOfNone
<1>7. SumFunctionOnSet(w, none \union {a}) = w[a] + SumFunctionOnSet(w, none)
  <2>1. IsFiniteSet(none) /\ Ints(w, none) /\ a \notin none /\ w[a] \in Int
    BY <1>4, FS_EmptySet DEF Ints
  <2>. HIDE DEF none
  <2>. QED  BY <2>1, SumWith
<1>8. S = none \union {a}
  OBVIOUS
<1>9. SumFunctionOnSet(w, S) = 0
  <2>. HIDE DEF S, none
  <2>. QED  BY <1>4, <1>6, <1>7, <1>8
<1>10. SumFunctionOnSet(w, S \union {b}) = w[b] + SumFunctionOnSet(w, S)
  <2>1. IsFiniteSet(S) /\ Ints(w, S) /\ b \notin S /\ w[b] \in Int
    <3>1. IsFiniteSet(S)
      BY FS_Singleton
    <3>2. Ints(w, S)
      BY <1>4 DEF Ints
    <3>. QED  BY <1>3, <1>4, <1>5, <3>1, <3>2
  <2>. HIDE DEF S
  <2>. QED  BY <2>1, SumWith
<1>11. Ends(f, pt) = S \union {b}
  BY <1>2
<1>. HIDE DEF S, pt
<1>12. SumFunctionOnSet(w, Ends(f, pt)) = z
  BY <1>4, <1>5, <1>9, <1>10, <1>11
<1>. QED  BY <1>12 DEF w, z, pt

-----------------------------------------------------------------------------

IsWoundItem(c, i, item) ==
    LET br == c.transformers[i] IN
    /\ item.equip = Len(c.lines) + i /\ IsSeq(item.facts) /\ Len(item.facts) = 2
    /\ item.facts[1] = Fact(br.to, c.volts[br.to]) /\ item.facts[2] = Fact(br.from, c.volts[br.from])
    /\ item.branch = Transformer(br.from, br.to, CaseOhms(c, Len(c.lines) + i), br.rate, br.tap,
                                 IF br.delta THEN "delta_wye" ELSE "wye_wye")

LEMMA FactsOfGroup ==
    ASSUME NEW c, NEW si, NEW changer, NEW f, CimOf(c, si, changer, f), NEW i \in DOMAIN c.transformers,
           NEW facts, facts = Picked([j \in DOMAIN f.ends |-> Fact(EndBus(f, j), EndVolts(f, j))], Ends(f, Len(c.lines) + i))
    PROVE  /\ IsSeq(facts) /\ Len(facts) = 2
           /\ facts[1] = Fact(c.transformers[i].to, c.volts[c.transformers[i].to])
           /\ facts[2] = Fact(c.transformers[i].from, c.volts[c.transformers[i].from])
<1> DEFINE a == i
           b == HighAt(c, i)
           pt == Len(c.lines) + i
           list == [j \in DOMAIN f.ends |-> Fact(EndBus(f, j), EndVolts(f, j))]
           S == Ends(f, pt)
           br == c.transformers[i]
<1>1. S = {a, b}
  <2>1. Ends(f, pt) = EndPair(c, i)
    BY EndsOf
  <2>. QED  BY <2>1 DEF EndPair
<1>2. a < b /\ a \in Int /\ b \in Int /\ a \in DOMAIN f.ends /\ b \in DOMAIN f.ends
  BY EndsOf
<1>3. EndBus(f, a) = br.to /\ EndBus(f, b) = br.from
  BY EndsAtBuses
<1>4. EndVolts(f, a) = c.volts[br.to] /\ EndVolts(f, b) = c.volts[br.from]
  BY EndsAtVolts
<1>5. list[a] = Fact(br.to, c.volts[br.to]) /\ list[b] = Fact(br.from, c.volts[br.from])
  BY <1>2, <1>3, <1>4
<1>6. facts = Picked(list, S)
  OBVIOUS
<1>. HIDE DEF list, S, a, b
<1>7. IsFiniteSet(S) /\ Cardinality(S) = 2 /\ Nth(S, 1) = a /\ Nth(S, 2) = b
  BY <1>1, <1>2, NthOfPair
<1>8. S \in SUBSET Int
  BY <1>1, <1>2
<1>9. /\ IsSeq(Picked(list, S)) /\ Len(Picked(list, S)) = Cardinality(S)
      /\ \A k \in 1..Cardinality(S) : Picked(list, S)[k] = list[Nth(S, k)]
  BY <1>7, <1>8, PickedElements
<1>10. IsSeq(facts) /\ Len(facts) = 2 /\ facts[1] = list[a] /\ facts[2] = list[b]
  BY <1>6, <1>7, <1>9
<1>. QED  BY <1>5, <1>10

LEMMA GroupRead ==
    ASSUME NEW c, NEW si, NEW changer, NEW f, CimOf(c, si, changer, f), NEW i \in DOMAIN c.transformers,
           NEW pt, pt = Len(c.lines) + i
    PROVE  IsWoundItem(c, i, GroupedTransformer(f, pt))
<1> DEFINE a == i
           b == HighAt(c, i)
           br == c.transformers[i]
           facts == Picked([j \in DOMAIN f.ends |-> Fact(EndBus(f, j), EndVolts(f, j))], Ends(f, pt))
           z == SumFunctionOnSet([j \in DOMAIN f.ends |-> f.ends[j].z], Ends(f, pt))
           item == GroupedTransformer(f, pt)
           group == IF br.delta THEN "delta_wye" ELSE "wye_wye"
<1>1. Accepted(c)
  BY CimOfHas
<1>2. HighEnd(f, pt) = b /\ LowEnd(f, pt) = a
  BY EndsInOrder
<1>3. EndBus(f, a) = br.to /\ EndBus(f, b) = br.from
  BY EndsAtBuses
<1>4. Tap(EndRatio(f, b), EndRatio(f, a)) = br.tap
  <2>1. EndRatio(f, a) = br.tap /\ EndRatio(f, b) = 1000
    BY EndsAtRatio
  <2>2. br.tap \in Nat \ {0}
    BY <1>1, WoundAre
  <2>. QED  BY <2>1, <2>2, TapIs
<1>5. GroupRate(f, pt) = br.rate
  BY RateOfGroup
<1>6. z = CaseOhms(c, pt)
  BY OhmsOfGroup
<1>7. (IF f.ends[b].delta /\ ~f.ends[a].delta THEN "delta_wye" ELSE "wye_wye") = group
  <2>1. IsLowEnd(c, si, changer, i, f.ends[a]) /\ IsHighEnd(c, si, changer, i, f.ends[b])
    BY EndsOf
  <2>2. f.ends[a].delta = FALSE
    BY <2>1 DEF IsLowEnd
  <2>3. f.ends[b].delta = br.delta
    BY <2>1 DEF IsHighEnd
  <2>. QED  BY <2>2, <2>3
<1>8. /\ IsSeq(facts) /\ Len(facts) = 2
      /\ facts[1] = Fact(br.to, c.volts[br.to]) /\ facts[2] = Fact(br.from, c.volts[br.from])
  BY FactsOfGroup
<1>9. item = [equip |-> pt, facts |-> facts,
              branch |-> Transformer(EndBus(f, HighEnd(f, pt)), EndBus(f, LowEnd(f, pt)), z, GroupRate(f, pt),
                             Tap(EndRatio(f, HighEnd(f, pt)), EndRatio(f, LowEnd(f, pt))),
                             IF f.ends[HighEnd(f, pt)].delta /\ ~f.ends[LowEnd(f, pt)].delta
                             THEN "delta_wye" ELSE "wye_wye")]
  BY DEF GroupedTransformer
<1>. HIDE DEF facts, z, a, b, group, item
<1>10. item = [equip |-> pt, facts |-> facts, branch |-> Transformer(br.from, br.to, CaseOhms(c, pt), br.rate, br.tap, group)]
  BY <1>2, <1>3, <1>4, <1>5, <1>6, <1>7, <1>9
<1>11. item.equip = pt /\ item.facts = facts
       /\ item.branch = Transformer(br.from, br.to, CaseOhms(c, pt), br.rate, br.tap, group)
  BY <1>10
<1>12. IsWoundItem(c, i, item)
  BY <1>8, <1>11 DEF IsWoundItem, group
<1>. QED  BY <1>12 DEF item

LEMMA CimTransformersRead ==
    ASSUME NEW c, NEW si, NEW changer, NEW f, CimOf(c, si, changer, f)
    PROVE  /\ IsSeq(CimTransformers(f)) /\ Len(CimTransformers(f)) = Len(c.transformers)
           /\ \A i \in 1..Len(c.transformers) : IsWoundItem(c, i, CimTransformers(f)[i])
<1> DEFINE L == Len(c.lines)
           T == Len(c.transformers)
           e == f.ends
           grouped == {i \in DOMAIN e : IsGrouped(f, e[i].pt)}
           first == {i \in grouped : \A j \in Ends(f, e[i].pt) : i <= j}
           heads == Picked(e, first)
           rest == {i \in DOMAIN e \ grouped : EquipBus(f, e[i].id, 2) # 0}
           alone == Picked(e, rest)
           ts == [k \in DOMAIN heads |-> GroupedTransformer(f, heads[k].pt)]
           ss == [k \in DOMAIN alone |-> SingleTransformer(f, alone[k])]
<1>1. L \in Nat /\ T \in Nat /\ DOMAIN c.transformers = 1..T /\ CimIs(c, si, changer, f)
  BY CimOfHas
<1>2. DOMAIN e = 1..(2 * T)
  <2>1. EndsAre(c, si, changer, e)
    BY <1>1 DEF CimIs
  <2>. QED  BY <2>1 DEF EndsAre
<1>3. ASSUME NEW i \in 1..T
      PROVE  /\ IsGrouped(f, L + i) /\ e[i].pt = L + i /\ e[HighAt(c, i)].pt = L + i
             /\ Ends(f, L + i) = {i, HighAt(c, i)}
             /\ HighAt(c, i) = T + i
  <2>1. i \in DOMAIN c.transformers
    BY <1>1
  <2>2. IsGrouped(f, L + i)
    BY <2>1, EndsInOrder
  <2>3. e[i].pt = L + i /\ e[HighAt(c, i)].pt = L + i
    BY <2>1, EndsOf
  <2>4. Ends(f, L + i) = EndPair(c, i)
    BY <2>1, EndsOf
  <2>5. HighAt(c, i) = T + i
    BY DEF HighAt
  <2>. QED  BY <2>2, <2>3, <2>4, <2>5 DEF EndPair
<1>. HIDE DEF L, T, e
<1>4. \A j \in 1..(2 * T) : j \in 1..T \/ \E i \in 1..T : j = T + i
  BY <1>1, EndKinds
<1>5. grouped = DOMAIN e
  <2>1. ASSUME NEW j \in DOMAIN e PROVE IsGrouped(f, e[j].pt)
    <3>1. CASE j \in 1..T
      BY <1>3, <3>1
    <3>2. CASE \E i \in 1..T : j = T + i
      <4>1. PICK i \in 1..T : j = T + i
        BY <3>2
      <4>. QED  BY <1>3, <4>1
    <3>. QED  BY <1>2, <1>4, <3>1, <3>2
  <2>. QED  BY <2>1
<1>6. first = 1..T
  <2>1. ASSUME NEW i \in 1..T PROVE i \in first
    <3>1. i \in grouped
      BY <1>1, <1>2, <1>5
    <3>2. \A j \in Ends(f, e[i].pt) : i <= j
      BY <1>1, <1>3
    <3>. QED  BY <3>1, <3>2
  <2>2. ASSUME NEW j \in first PROVE j \in 1..T
    <3>1. j \in DOMAIN e /\ \A k \in Ends(f, e[j].pt) : j <= k
      OBVIOUS
    <3>2. ASSUME NEW i \in 1..T, j = T + i PROVE FALSE
      <4>1. e[j].pt = L + i /\ i \in Ends(f, L + i)
        BY <1>3, <3>2
      <4>2. j <= i
        BY <3>1, <4>1
      <4>. QED  BY <1>1, <3>2, <4>2
    <3>. QED  BY <1>2, <1>4, <3>1, <3>2
  <2>. HIDE DEF first
  <2>. QED  BY <2>1, <2>2
<1>7. heads = [k \in 1..T |-> e[k]]
  <2>1. first = (0 + 1)..(0 + T)
    BY <1>1, <1>6
  <2>0. PICK z \in Nat : z = 0
    OBVIOUS
  <2>2. Picked(e, (z + 1)..(z + T)) = [k \in 1..T |-> e[z + k]]
    BY <1>1, PickedRun
  <2>3. \A k \in 1..T : z + k = k
    BY <2>0
  <2>. HIDE DEF first
  <2>4. first = (z + 1)..(z + T)
    BY <2>0, <2>1
  <2>5. heads = [k \in 1..T |-> e[z + k]]
    BY <2>2, <2>4
  <2>. QED  BY <2>3, <2>5
<1>8. rest = {}
  <2>1. DOMAIN e \ grouped = {}
    BY <1>5
  <2>. HIDE DEF grouped
  <2>. QED  BY <2>1
<1>9. DOMAIN alone = 1..0
  <2>1. IsFiniteSet({}) /\ Cardinality({}) = 0 /\ {} \in SUBSET Int
    BY FS_EmptySet
  <2>2. IsFiniteSet(rest) /\ Cardinality(rest) = 0 /\ rest \in SUBSET Int
    BY <1>8, <2>1
  <2>. HIDE DEF rest
  <2>3. DOMAIN Picked(e, rest) = 1..Cardinality(rest)
    BY <2>2, PickedElements
  <2>. QED  BY <2>2, <2>3
<1>10. CimTransformers(f) = ts \o ss
  BY DEF CimTransformers, e
<1>. HIDE DEF heads, alone, first, rest, grouped
<1>11. IsSeq(ss) /\ Len(ss) = 0
  <2>1. ss = [k \in 1..0 |-> ss[k]]
    BY <1>9
  <2>. HIDE DEF ss
  <2>. QED  BY <2>1, Tabulated
<1>12. ts = [k \in 1..T |-> ts[k]] /\ \A k \in 1..T : ts[k] = GroupedTransformer(f, e[k].pt)
  BY <1>7
<1>. HIDE DEF ts, ss
<1>13. IsSeq(ts) /\ Len(ts) = T
  BY <1>1, <1>12, Tabulated
<1>14. IsSeq(ts) /\ IsSeq(ss)
  BY <1>11, <1>13
<1>15. /\ IsSeq(ts \o ss) /\ Len(ts \o ss) = Len(ts) + Len(ss)
       /\ \A i \in 1..Len(ts) : (ts \o ss)[i] = ts[i]
  BY <1>14, EndToEnd
<1>16. ASSUME NEW i \in 1..T PROVE IsWoundItem(c, i, ts[i])
  <2>1. e[i].pt = Len(c.lines) + i
    BY <1>3 DEF L
  <2>2. i \in DOMAIN c.transformers
    BY <1>1
  <2>3. IsWoundItem(c, i, GroupedTransformer(f, e[i].pt))
    BY <2>1, <2>2, GroupRead
  <2>. QED  BY <1>12, <2>3
<1>17. Len(ts \o ss) = T /\ \A i \in 1..T : (ts \o ss)[i] = ts[i]
  BY <1>1, <1>11, <1>13, <1>15
<1>18. \A i \in 1..T : IsWoundItem(c, i, (ts \o ss)[i])
  BY <1>16, <1>17
<1>. QED  BY <1>10, <1>15, <1>17, <1>18 DEF T

-----------------------------------------------------------------------------
(* What was read of a file's branches.                                     *)

CimItems(f) == CimLines(f) \o CimTransformers(f)
\* A branch as it is read, by its number.
ItemsAre(c, items) ==
    /\ IsSeq(items) /\ Len(items) = Many(c)
    /\ \A i \in 1..Len(c.lines) : IsLineItem(c, i, items[i])
    /\ \A i \in 1..Len(c.transformers) : IsWoundItem(c, i, items[Len(c.lines) + i])

LEMMA CimItemsAre ==
    ASSUME NEW c, NEW si, NEW changer, NEW f, CimOf(c, si, changer, f)
    PROVE  ItemsAre(c, CimItems(f))
<1> DEFINE s == CimLines(f)
           t == CimTransformers(f)
           L == Len(c.lines)
           T == Len(c.transformers)
<1>1. IsSeq(s) /\ Len(s) = L /\ \A i \in 1..L : IsLineItem(c, i, s[i])
  BY CimLinesRead
<1>2. IsSeq(t) /\ Len(t) = T /\ \A i \in 1..T : IsWoundItem(c, i, t[i])
  BY CimTransformersRead
<1>. HIDE DEF s, t
<1>3. IsSeq(s) /\ IsSeq(t)
  BY <1>1, <1>2
<1>4. /\ IsSeq(s \o t) /\ Len(s \o t) = Len(s) + Len(t)
      /\ \A i \in 1..Len(s) : (s \o t)[i] = s[i]
      /\ \A i \in 1..Len(t) : (s \o t)[Len(s) + i] = t[i]
  BY <1>3, EndToEnd
<1>5. Len(s \o t) = Many(c)
  BY <1>1, <1>2, <1>4 DEF Many
<1>6. \A i \in 1..L : IsLineItem(c, i, (s \o t)[i])
  BY <1>1, <1>4
<1>7. \A i \in 1..T : (s \o t)[L + i] = t[i]
  BY <1>1, <1>2, <1>4
<1>8. \A i \in 1..T : IsWoundItem(c, i, (s \o t)[L + i])
  BY <1>2, <1>7
<1>9. ItemsAre(c, s \o t)
  BY <1>4, <1>5, <1>6, <1>8 DEF ItemsAre
<1>. QED  BY <1>9 DEF CimItems, s, t

LEMMA ItemBranches ==
    ASSUME NEW c, IsCase(c), NEW items, ItemsAre(c, items)
    PROVE  /\ DOMAIN items = BranchIds(c)
           /\ \A i \in BranchIds(c) : /\ items[i].branch.from = BranchAt(c, i).from
                                      /\ items[i].branch.to = BranchAt(c, i).to
                                      /\ items[i].branch.transformer = Wound(c, i)
<1> DEFINE L == Len(c.lines)
           T == Len(c.transformers)
<1>1. L \in Nat /\ T \in Nat /\ DOMAIN c.lines = 1..L /\ DOMAIN c.transformers = 1..T
  BY CaseShape
<1>2. DOMAIN items = BranchIds(c)
  <2>1. IsSeq(items) /\ Len(items) = Many(c)
    BY DEF ItemsAre
  <2>2. DOMAIN items = 1..Len(items)
    BY <2>1, SeqsAre
  <2>. QED  BY <2>1, <2>2, BranchesAreMany
<1>3. ASSUME NEW i \in BranchIds(c), ~Wound(c, i)
      PROVE  /\ items[i].branch.from = BranchAt(c, i).from /\ items[i].branch.to = BranchAt(c, i).to
             /\ items[i].branch.transformer = Wound(c, i)
  <2>1. i \in DOMAIN c.lines /\ BranchAt(c, i) = c.lines[i]
    BY <1>3, BranchShape
  <2>2. IsLineItem(c, i, items[i])
    BY <1>1, <2>1 DEF ItemsAre
  <2>3. items[i].branch = Line(c.lines[i].from, c.lines[i].to, CaseOhms(c, i), Mva(c, i))
    BY <2>2 DEF IsLineItem
  <2>4. Wound(c, i) = FALSE
    BY <1>3 DEF Wound
  <2> DEFINE br == c.lines[i]
  <2>5. items[i].branch = Line(br.from, br.to, CaseOhms(c, i), Mva(c, i))
    BY <2>3
  <2>. HIDE DEF br
  <2>6. items[i].branch.from = br.from /\ items[i].branch.to = br.to /\ items[i].branch.transformer = FALSE
    BY <2>5 DEF Line
  <2>. QED  BY <2>1, <2>4, <2>6 DEF br
<1>4. ASSUME NEW i \in BranchIds(c), Wound(c, i)
      PROVE  /\ items[i].branch.from = BranchAt(c, i).from /\ items[i].branch.to = BranchAt(c, i).to
             /\ items[i].branch.transformer = Wound(c, i)
  <2> DEFINE k == i - L
  <2>1. k \in DOMAIN c.transformers /\ BranchAt(c, i) = c.transformers[k]
    BY <1>4, BranchShape
  <2>2. L + k = i
    <3>1. BranchIds(c) = 1..(L + T)
      BY DEF BranchIds
    <3>. HIDE DEF L, T
    <3>. QED  BY <1>1, <3>1
  <2>3. IsWoundItem(c, k, items[L + k])
    BY <1>1, <2>1 DEF ItemsAre
  <2>. HIDE DEF k
  <2> DEFINE br == c.transformers[k]
             group == IF br.delta THEN "delta_wye" ELSE "wye_wye"
  <2>4. items[i].branch = Transformer(br.from, br.to, CaseOhms(c, L + k), br.rate, br.tap, group)
    BY <2>2, <2>3 DEF IsWoundItem
  <2>5. Wound(c, i) = TRUE
    BY <1>4 DEF Wound
  <2>. HIDE DEF group, br
  <2>6. items[i].branch.from = br.from /\ items[i].branch.to = br.to /\ items[i].branch.transformer = TRUE
    BY <2>4 DEF Transformer
  <2>. QED  BY <2>1, <2>5, <2>6 DEF br
<1>. QED  BY <1>2, <1>3, <1>4

-----------------------------------------------------------------------------
(* What the parts of a file say of its voltages.                           *)

CimSeeds(f) == [b \in DOMAIN f.nodes |-> Fact(b, LevelVolts(f, f.nodes[b].level))]
FactLists(items) == [i \in DOMAIN items |-> items[i].facts]
CimFacts(f) == CimSeeds(f) \o FlattenSeq(FactLists(CimItems(f)))

\* Nothing, or the voltage the case gives the bus.
Told(c, e) == e.bus \in DOMAIN c.volts /\ (e.volts = 0 \/ e.volts = c.volts[e.bus])
Tells(facts, bus, volts) == \E p \in 1..Len(facts) : facts[p].bus = bus /\ facts[p].volts = volts
AllTold(c, facts) == IsSeq(facts) /\ \A p \in 1..Len(facts) : Told(c, facts[p])

LEMMA FactFields ==
    ASSUME NEW b, NEW v
    PROVE  Fact(b, v).bus = b /\ Fact(b, v).volts = v
BY DEF Fact

LEMMA SeedsAre ==
    ASSUME NEW c, NEW si, NEW changer, NEW f, CimOf(c, si, changer, f)
    PROVE  /\ AllTold(c, CimSeeds(f)) /\ Len(CimSeeds(f)) = Len(c.volts)
           /\ Tells(CimSeeds(f), 1, c.volts[1])
<1> DEFINE B == Len(c.volts)
           s == CimSeeds(f)
<1>1. B \in Nat /\ B >= 1 /\ DOMAIN c.volts = 1..B /\ CimCase(c, si, changer) /\ CimIs(c, si, changer, f)
  BY CimOfHas
<1>2. DOMAIN f.nodes = 1..B
  <2>1. NodesAre(c, f.nodes)
    BY <1>1 DEF CimIs
  <2>. QED  BY <1>1, <2>1 DEF NodesAre
<1>3. \A b \in DOMAIN c.volts : LevelVolts(f, f.nodes[b].level) = IF b = 1 THEN c.volts[1] ELSE 0
  BY <1>1, LevelsRead
<1>. HIDE DEF B
<1>4. s = [b \in 1..B |-> s[b]] /\ \A b \in 1..B : s[b] = Fact(b, LevelVolts(f, f.nodes[b].level))
  BY <1>2 DEF CimSeeds
<1>. HIDE DEF s
<1>5. IsSeq(s) /\ Len(s) = B
  BY <1>1, <1>4, Tabulated
<1>6. \A b \in 1..B : s[b].bus = b /\ s[b].volts = IF b = 1 THEN c.volts[1] ELSE 0
  BY <1>1, <1>3, <1>4, FactFields
<1>7. \A b \in 1..B : Told(c, s[b])
  BY <1>1, <1>6 DEF Told
<1>8. Tells(s, 1, c.volts[1])
  <2>1. 1 \in 1..Len(s)
    BY <1>1, <1>5
  <2>2. s[1].bus = 1 /\ s[1].volts = c.volts[1]
    BY <1>1, <1>6
  <2>. QED  BY <2>1, <2>2 DEF Tells
<1>. QED  BY <1>5, <1>7, <1>8 DEF AllTold, s, B

LEMMA LineItemFacts ==
    ASSUME NEW c, IsCase(c), NEW i \in DOMAIN c.lines, NEW item, IsLineItem(c, i, item)
    PROVE  AllTold(c, item.facts)
<1> DEFINE br == c.lines[i]
           a == Fact(br.from, 0)
           b == Fact(br.to, 0)
           s == item.facts
<1>1. br.from \in DOMAIN c.volts /\ br.to \in DOMAIN c.volts
  <2>1. br \in LineOf(DOMAIN c.volts)
    BY CaseShape
  <2>. QED  BY <2>1 DEF LineOf
<1>2. s = <<a, b>>
  BY DEF IsLineItem
<1>3. Told(c, a) /\ Told(c, b)
  BY <1>1, FactFields DEF Told
<1>. HIDE DEF a, b, s
<1>4. s = [k \in 1..2 |-> s[k]]
  BY <1>2
<1>5. IsSeq(s) /\ Len(s) = 2
  BY <1>4, Tabulated
<1>6. s[1] = a /\ s[2] = b
  BY <1>2
<1>7. \A p \in 1..2 : p = 1 \/ p = 2
  OBVIOUS
<1>8. \A p \in 1..Len(s) : Told(c, s[p])
  BY <1>3, <1>5, <1>6, <1>7
<1>. QED  BY <1>5, <1>8 DEF AllTold, s

LEMMA WoundItemFacts ==
    ASSUME NEW c, IsCase(c), NEW i \in DOMAIN c.transformers, NEW item, IsWoundItem(c, i, item)
    PROVE  /\ AllTold(c, item.facts)
           /\ Tells(item.facts, c.transformers[i].from, c.volts[c.transformers[i].from])
           /\ Tells(item.facts, c.transformers[i].to, c.volts[c.transformers[i].to])
<1> DEFINE br == c.transformers[i]
           s == item.facts
<1>1. br.from \in DOMAIN c.volts /\ br.to \in DOMAIN c.volts
  <2>1. br \in TransformerOf(DOMAIN c.volts)
    BY CaseShape
  <2>. QED  BY <2>1 DEF TransformerOf
<1>2. IsSeq(s) /\ Len(s) = 2 /\ s[1] = Fact(br.to, c.volts[br.to]) /\ s[2] = Fact(br.from, c.volts[br.from])
  BY DEF IsWoundItem
<1>. HIDE DEF br, s
<1>3. /\ s[1].bus = br.to /\ s[1].volts = c.volts[br.to]
      /\ s[2].bus = br.from /\ s[2].volts = c.volts[br.from]
  BY <1>2, FactFields
<1>4. \A p \in 1..Len(s) : Told(c, s[p])
  <2>1. Told(c, s[1]) /\ Told(c, s[2])
    BY <1>1, <1>3 DEF Told
  <2>2. \A p \in 1..Len(s) : p = 1 \/ p = 2
    BY <1>2
  <2>. QED  BY <2>1, <2>2
<1>5. 1 \in 1..Len(s) /\ 2 \in 1..Len(s)
  BY <1>2
<1>6. Tells(s, br.from, c.volts[br.from]) /\ Tells(s, br.to, c.volts[br.to])
  BY <1>3, <1>5 DEF Tells
<1>7. AllTold(c, s)
  BY <1>2, <1>4 DEF AllTold
<1>. QED  BY <1>6, <1>7 DEF s, br

LEMMA FlattenTold ==
    ASSUME NEW c, NEW lists, NEW n, AreSeqs(lists, n), \A k \in 1..n : AllTold(c, lists[k])
    PROVE  /\ AllTold(c, FlattenSeq(lists))
           /\ \A k \in 1..n : \A bus, volts : Tells(lists[k], bus, volts) => Tells(FlattenSeq(lists), bus, volts)
<1> DEFINE flat == FlattenSeq(lists)
<1>1. PICK off : Blocks(flat, lists, off, n)
  BY FlattenBlocks
<1>2. n \in Nat
  BY DEF AreSeqs
<1>. HIDE DEF flat
<1>3. /\ IsSeq(flat) /\ Len(flat) = off[n + 1] /\ Len(flat) \in Nat
      /\ \A k \in 1..n : off[k] \in Nat /\ off[k + 1] \in Nat /\ off[k + 1] = off[k] + Len(lists[k])
      /\ \A k \in 1..n : \A j \in 1..Len(lists[k]) : flat[off[k] + j] = lists[k][j]
      /\ \A p \in 1..Len(flat) : \E k \in 1..n : \E j \in 1..Len(lists[k]) : p = off[k] + j
  BY <1>1 DEF Blocks, IsSeq
<1>4. \A p \in 1..Len(flat) : Told(c, flat[p])
  <2>. SUFFICES ASSUME NEW p \in 1..Len(flat) PROVE Told(c, flat[p])
    OBVIOUS
  <2>1. PICK k \in 1..n : \E j \in 1..Len(lists[k]) : p = off[k] + j
    BY <1>3
  <2>2. PICK j \in 1..Len(lists[k]) : p = off[k] + j
    BY <2>1
  <2>3. flat[p] = lists[k][j]
    BY <1>3, <2>2
  <2>4. Told(c, lists[k][j])
    BY DEF AllTold
  <2>. QED  BY <2>3, <2>4
<1>5. ASSUME NEW k \in 1..n, NEW bus, NEW volts, Tells(lists[k], bus, volts)
      PROVE  Tells(flat, bus, volts)
  <2>1. PICK j \in 1..Len(lists[k]) : lists[k][j].bus = bus /\ lists[k][j].volts = volts
    BY <1>5 DEF Tells
  <2>2. flat[off[k] + j] = lists[k][j]
    BY <1>3
  <2>3. off[k + 1] <= off[n + 1]
    <3>1. \A l \in 1..n : \A m \in 1..(n + 1) : l <= m => off[l] <= off[m]
      BY <1>1, BlocksRise
    <3>2. CASE k = n
      BY <1>3, <3>2
    <3>3. CASE k # n
      <4>1. k + 1 \in 1..n /\ n + 1 \in 1..(n + 1) /\ k + 1 <= n + 1
        BY <1>2, <3>3
      <4>. QED  BY <3>1, <4>1
    <3>. QED  BY <3>2, <3>3
  <2>4. Len(lists[k]) \in Nat /\ off[k] \in Nat /\ off[k + 1] = off[k] + Len(lists[k])
    BY <1>3, SeqsAre DEF AreSeqs
  <2>5. off[k] + j \in 1..Len(flat)
    <3>1. off[k] + j <= Len(flat)
      BY <1>3, <2>3, <2>4
    <3>. QED  BY <1>3, <2>4, <3>1
  <2>. QED  BY <2>1, <2>2, <2>5 DEF Tells
<1>. QED  BY <1>3, <1>4, <1>5 DEF AllTold, flat

LEMMA FactsAreTold ==
    ASSUME NEW c, NEW si, NEW changer, NEW f, CimOf(c, si, changer, f)
    PROVE  /\ AllTold(c, CimFacts(f)) /\ Tells(CimFacts(f), 1, c.volts[1])
           /\ \A i \in DOMAIN c.transformers :
                 /\ Tells(CimFacts(f), c.transformers[i].from, c.volts[c.transformers[i].from])
                 /\ Tells(CimFacts(f), c.transformers[i].to, c.volts[c.transformers[i].to])
<1> DEFINE items == CimItems(f)
           lists == FactLists(items)
           seeds == CimSeeds(f)
           flat == FlattenSeq(lists)
           L == Len(c.lines)
           T == Len(c.transformers)
           n == Many(c)
<1>1. /\ IsCase(c) /\ L \in Nat /\ DOMAIN c.lines = 1..L /\ T \in Nat /\ DOMAIN c.transformers = 1..T
      /\ ItemsAre(c, items)
  BY CimOfHas, CimItemsAre
<1>2. n = L + T
  BY DEF Many
<1>. HIDE DEF items
<1>3. DOMAIN items = 1..n /\ IsSeq(items)
  BY <1>1, SeqsAre DEF ItemsAre
<1>. HIDE DEF L, T, n
<1>4. ASSUME NEW i \in 1..L PROVE AllTold(c, items[i].facts)
  <2>1. IsLineItem(c, i, items[i])
    BY <1>1 DEF ItemsAre, L
  <2>. QED  BY <1>1, <2>1, LineItemFacts
<1>5. ASSUME NEW i \in 1..T
      PROVE  /\ AllTold(c, items[L + i].facts)
             /\ Tells(items[L + i].facts, c.transformers[i].from, c.volts[c.transformers[i].from])
             /\ Tells(items[L + i].facts, c.transformers[i].to, c.volts[c.transformers[i].to])
  <2>1. IsWoundItem(c, i, items[L + i])
    BY <1>1 DEF ItemsAre, L, T
  <2>2. i \in DOMAIN c.transformers
    BY <1>1
  <2>. QED  BY <1>1, <2>1, <2>2, WoundItemFacts
<1>6. \A k \in 1..n : AllTold(c, items[k].facts)
  <2>. SUFFICES ASSUME NEW k \in 1..n PROVE AllTold(c, items[k].facts)
    OBVIOUS
  <2>1. CASE k \in 1..L
    BY <1>4, <2>1
  <2>2. CASE k \notin 1..L
    <3>1. k - L \in 1..T /\ k = L + (k - L)
      BY <1>1, <1>2, <2>2
    <3>2. PICK i \in 1..T : k = L + i
      BY <3>1
    <3>. QED  BY <1>5, <3>2
  <2>. QED  BY <2>1, <2>2
<1>7. n \in Nat /\ lists = [k \in 1..n |-> lists[k]] /\ \A k \in 1..n : lists[k] = items[k].facts
  BY <1>1, <1>2, <1>3 DEF FactLists
<1>. HIDE DEF lists
<1>8. \A k \in 1..n : AllTold(c, lists[k])
  BY <1>6, <1>7
<1>9. AreSeqs(lists, n)
  BY <1>7, <1>8 DEF AreSeqs, AllTold
<1>10. AllTold(c, flat)
  BY <1>8, <1>9, FlattenTold
<1>11. \A k \in 1..n : \A bus, volts : Tells(lists[k], bus, volts) => Tells(flat, bus, volts)
  BY <1>8, <1>9, FlattenTold
<1>12. AllTold(c, seeds) /\ Tells(seeds, 1, c.volts[1])
  BY SeedsAre
<1>. HIDE DEF seeds, flat
<1>13. ASSUME NEW s, NEW t, AllTold(c, s), AllTold(c, t)
       PROVE  /\ AllTold(c, s \o t)
              /\ \A bus, volts : Tells(s, bus, volts) => Tells(s \o t, bus, volts)
              /\ \A bus, volts : Tells(t, bus, volts) => Tells(s \o t, bus, volts)
  <2> DEFINE u == s \o t
  <2>1. IsSeq(s) /\ IsSeq(t) /\ Len(s) \in Nat /\ Len(t) \in Nat
    BY <1>13 DEF AllTold, IsSeq
  <2>2. /\ IsSeq(u) /\ Len(u) = Len(s) + Len(t)
        /\ \A i \in 1..Len(s) : u[i] = s[i]
        /\ \A i \in 1..Len(t) : u[Len(s) + i] = t[i]
    BY <2>1, EndToEnd
  <2>. HIDE DEF u
  <2>3. \A p \in 1..Len(u) : Told(c, u[p])
    <3>. SUFFICES ASSUME NEW p \in 1..Len(u) PROVE Told(c, u[p])
      OBVIOUS
    <3>1. CASE p \in 1..Len(s)
      BY <1>13, <2>2, <3>1 DEF AllTold
    <3>2. CASE p \notin 1..Len(s)
      <4>1. p - Len(s) \in 1..Len(t) /\ p = Len(s) + (p - Len(s))
        BY <2>1, <2>2, <3>2
      <4>2. PICK i \in 1..Len(t) : p = Len(s) + i
        BY <4>1
      <4>. QED  BY <1>13, <2>2, <4>2 DEF AllTold
    <3>. QED  BY <3>1, <3>2
  <2>4. \A i \in 1..Len(s) : i \in 1..Len(u)
    BY <2>1, <2>2
  <2>5. \A i \in 1..Len(t) : Len(s) + i \in 1..Len(u)
    BY <2>1, <2>2
  <2>6. ASSUME NEW bus, NEW volts, Tells(s, bus, volts) PROVE Tells(u, bus, volts)
    BY <2>2, <2>4, <2>6 DEF Tells
  <2>7. ASSUME NEW bus, NEW volts, Tells(t, bus, volts) PROVE Tells(u, bus, volts)
    BY <2>2, <2>5, <2>7 DEF Tells
  <2>. QED  BY <2>2, <2>3, <2>6, <2>7 DEF AllTold, u
<1>14. CimFacts(f) = seeds \o flat
  BY DEF CimFacts, seeds, flat, lists, items
<1>15. ASSUME NEW i \in 1..T
       PROVE  /\ Tells(flat, c.transformers[i].from, c.volts[c.transformers[i].from])
              /\ Tells(flat, c.transformers[i].to, c.volts[c.transformers[i].to])
  <2> DEFINE k == L + i
  <2>1. k \in 1..n
    BY <1>1, <1>2
  <2>2. lists[k] = items[L + i].facts
    BY <1>7, <2>1
  <2>. QED  BY <1>5, <1>11, <2>1, <2>2
<1>. QED  BY <1>1, <1>10, <1>12, <1>13, <1>14, <1>15

\* Buses of their own, each with the voltage the case gives it.
Queue(c, q) ==
    /\ IsSeq(q)
    /\ \A k \in 1..Len(q) : q[k].bus \in DOMAIN c.volts /\ q[k].volts = c.volts[q[k].bus]
    /\ \A j, k \in 1..Len(q) : q[j].bus = q[k].bus => j = k

LEMMA FirstsAre ==
    ASSUME NEW c, IsCase(c), NEW facts, AllTold(c, facts)
    PROVE  /\ Queue(c, Firsts(facts))
           /\ \A b, v : (Tells(facts, b, v) /\ v # 0) => b \in Known(Firsts(facts))
<1> DEFINE n == Len(facts)
           proper == {i \in DOMAIN facts : facts[i].bus # 0 /\ facts[i].volts # 0}
           S == {i \in proper : \A j \in proper : j < i => facts[j].bus # facts[i].bus}
           q == Picked(facts, S)
           m == Cardinality(S)
<1>1. /\ n \in Nat /\ DOMAIN facts = 1..n
      /\ \A p \in 1..n : facts[p].bus \in DOMAIN c.volts /\ (facts[p].volts = 0 \/ facts[p].volts = c.volts[facts[p].bus])
  BY SeqsAre DEF AllTold, Told
<1>2. 0 \notin DOMAIN c.volts
  BY CaseShape
<1>3. q = Firsts(facts)
  BY DEF Firsts
<1>. HIDE DEF n
<1>4. proper \subseteq 1..n /\ S \subseteq 1..n
  BY <1>1
<1>5. S \in SUBSET Int /\ IsFiniteSet(S)
  <2>1. IsFiniteSet(1..n)
    BY <1>1, FS_Interval
  <2>2. S \in SUBSET (1..n)
    BY <1>4
  <2>. HIDE DEF S
  <2>3. IsFiniteSet(S)
    BY <2>1, <2>2, FS_Subset
  <2>. QED  BY <2>2, <2>3
<1>6. \A i, j \in S : facts[i].bus = facts[j].bus => i = j
  BY <1>4
<1>7. \A i \in S : facts[i].bus \in DOMAIN c.volts /\ facts[i].volts = c.volts[facts[i].bus]
  BY <1>1, <1>4
<1>8. \A i \in proper : \E j \in S : facts[j].bus = facts[i].bus
  <2>. SUFFICES ASSUME NEW i \in proper PROVE \E j \in S : facts[j].bus = facts[i].bus
    OBVIOUS
  <2> DEFINE same == {j \in proper : facts[j].bus = facts[i].bus}
  <2>1. same \in SUBSET Int /\ same # {} /\ IsFiniteSet(same)
    <3>1. same \in SUBSET (1..n) /\ same # {}
      BY <1>4
    <3>2. IsFiniteSet(1..n)
      BY <1>1, FS_Interval
    <3>. HIDE DEF same
    <3>3. IsFiniteSet(same)
      BY <3>1, <3>2, FS_Subset
    <3>. QED  BY <3>1, <3>3
  <2>2. PICK j \in same : \A x \in same : j <= x
    <3>1. Min(same) \in same /\ \A x \in same : Min(same) <= x
      <4>. HIDE DEF same
      <4>. QED  BY <2>1, LeastExists
    <3>. QED  BY <3>1
  <2>3. j \in S
    BY <1>4, <2>2
  <2>. QED  BY <2>2, <2>3
<1>9. \A i \in 1..n : (facts[i].volts # 0) => i \in proper
  BY <1>1, <1>2
<1>. HIDE DEF S, proper
<1>10. /\ IsSeq(q) /\ Len(q) = m /\ DOMAIN q = 1..m
       /\ \A k \in 1..m : Nth(S, k) \in S /\ q[k] = facts[Nth(S, k)]
  BY <1>5, PickedElements
<1>11. /\ m \in Nat /\ \A i, j \in 1..m : i < j => Nth(S, i) < Nth(S, j)
       /\ \A x \in S : \E k \in 1..m : Nth(S, k) = x
  BY <1>5, Enumerated
<1>. HIDE DEF m, q, Nth
<1>12. \A j, k \in 1..m : q[j].bus = q[k].bus => j = k
  <2>. SUFFICES ASSUME NEW j \in 1..m, NEW k \in 1..m, q[j].bus = q[k].bus PROVE j = k
    OBVIOUS
  <2>1. Nth(S, j) = Nth(S, k)
    BY <1>6, <1>10
  <2>2. Nth(S, j) \in Int /\ Nth(S, k) \in Int
    BY <1>5, <1>10
  <2>. QED  BY <1>11, <2>1, <2>2
<1>13. Queue(c, q)
  BY <1>7, <1>10, <1>12 DEF Queue
<1>14. ASSUME NEW b, NEW v, Tells(facts, b, v), v # 0 PROVE b \in Known(q)
  <2>1. PICK p \in 1..n : facts[p].bus = b /\ facts[p].volts = v
    BY <1>14 DEF Tells, n
  <2>2. p \in proper
    BY <1>9, <1>14, <2>1
  <2>3. PICK j \in S : facts[j].bus = b
    BY <1>8, <2>1, <2>2
  <2>4. PICK k \in 1..m : Nth(S, k) = j
    BY <1>11
  <2>5. k \in DOMAIN q /\ q[k].bus = b
    BY <1>10, <2>3, <2>4
  <2>. QED  BY <2>5 DEF Known
<1>. QED  BY <1>3, <1>13, <1>14

-----------------------------------------------------------------------------
(* The voltages go along the lines.                                        *)

\* The neighbours along lines of a bus that has been served are in the queue.
Handed(c, q, b) ==
    \A i \in DOMAIN c.lines : /\ c.lines[i].from = b => c.lines[i].to \in Known(q)
                              /\ c.lines[i].to = b => c.lines[i].from \in Known(q)
HandedOut(c, q, n) == Queue(c, q) /\ \A k \in 1..n : k <= Len(q) => Handed(c, q, q[k].bus)

LEMMA QueueEnds ==
    ASSUME NEW c, Accepted(c), NEW items, ItemsAre(c, items), NEW q, Queue(c, q), NEW k \in Nat \ {0}
    PROVE  /\ Queue(c, HandOn(q, k, items)) /\ Len(q) <= Len(HandOn(q, k, items))
           /\ \A i \in 1..Len(q) : HandOn(q, k, items)[i] = q[i]
           /\ k > Len(q) => HandOn(q, k, items) = q
           /\ k <= Len(q) => Handed(c, HandOn(q, k, items), q[k].bus)
<1> DEFINE b == q[k].bus
           beside == {i \in DOMAIN items : /\ ~items[i].branch.transformer
                                           /\ b \in {items[i].branch.from, items[i].branch.to}}
           other(i) == IF items[i].branch.from = b THEN items[i].branch.to ELSE items[i].branch.from
           new == {i \in beside : /\ other(i) \notin Known(q)
                                  /\ \A j \in beside : j < i => other(j) # other(i)}
           m == Cardinality(new)
           more == [x \in 1..m |-> Fact(other(Nth(new, x)), q[k].volts)]
           r == q \o more
<1>1. IsCase(c) /\ Len(q) \in Nat /\ IsSeq(q) /\ DOMAIN q = 1..Len(q)
  BY SeqsAre DEF Accepted, Queue
<1>2. HandOn(q, k, items) = IF k > Len(q) THEN q ELSE r
  BY DEF HandOn
<1>. HIDE DEF r
<1>3. CASE k > Len(q)
  <2>1. HandOn(q, k, items) = q
    BY <1>2, <1>3
  <2>2. ~(k <= Len(q)) /\ Len(q) <= Len(q)
    BY <1>1, <1>3
  <2>. QED  BY <2>1, <2>2
<1>4. CASE k <= Len(q)
  <2>1. HandOn(q, k, items) = r
    BY <1>1, <1>2, <1>4
  <2>2. k \in 1..Len(q) /\ q[k].volts = c.volts[b]
    BY <1>1, <1>4 DEF Queue
  <2>0. IsFiniteSet(BranchIds(c)) /\ BranchIds(c) \subseteq Nat
    <3> DEFINE N == Len(c.lines) + Len(c.transformers)
    <3>1. BranchIds(c) = 1..N /\ N \in Nat
      BY <1>1, BranchShape
    <3>. HIDE DEF N
    <3>2. IsFiniteSet(1..N)
      BY <3>1, FS_Interval
    <3>. QED  BY <3>1, <3>2
  <2>3. /\ DOMAIN items = BranchIds(c)
        /\ \A i \in BranchIds(c) : /\ items[i].branch.from = BranchAt(c, i).from
                                   /\ items[i].branch.to = BranchAt(c, i).to
                                   /\ items[i].branch.transformer = Wound(c, i)
    BY <1>1, ItemBranches
  <2>4. \A i \in BranchIds(c) : ~Wound(c, i) => i \in DOMAIN c.lines /\ BranchAt(c, i) = c.lines[i]
    BY <1>1, BranchShape
  <2>5. \A i \in DOMAIN c.lines : i \in BranchIds(c) /\ ~Wound(c, i) /\ BranchAt(c, i) = c.lines[i]
    <3> DEFINE L == Len(c.lines)
               T == Len(c.transformers)
    <3>1. DOMAIN c.lines = 1..L /\ L \in Nat /\ T \in Nat
      BY <1>1, CaseShape
    <3>2. BranchIds(c) = 1..(L + T) /\ \A i : Wound(c, i) <=> i > L
      BY DEF BranchIds, Wound
    <3>. HIDE DEF L, T
    <3>3. \A i \in 1..L : i \in 1..(L + T) /\ ~(i > L)
      BY <3>1
    <3>4. \A i \in DOMAIN c.lines : i \in BranchIds(c) /\ ~Wound(c, i)
      BY <3>1, <3>2, <3>3
    <3>. QED  BY <3>4 DEF BranchAt
  <2>6. \A i \in DOMAIN c.lines : /\ c.lines[i].from \in DOMAIN c.volts /\ c.lines[i].to \in DOMAIN c.volts
                                  /\ c.volts[c.lines[i].from] = c.volts[c.lines[i].to]
    <3>1. \A i \in DOMAIN c.lines : c.lines[i] \in LineOf(DOMAIN c.volts)
      BY <1>1, CaseShape
    <3>2. \A i \in DOMAIN c.lines : c.volts[c.lines[i].from] = c.volts[c.lines[i].to]
      BY CaseAccepted
    <3>. QED  BY <3>1, <3>2 DEF LineOf
  <2>. HIDE DEF b
  <2>7. \A i \in beside : /\ i \in Nat /\ i \in DOMAIN c.lines
                          /\ c.lines[i].from = b \/ c.lines[i].to = b
                          /\ other(i) = IF c.lines[i].from = b THEN c.lines[i].to ELSE c.lines[i].from
    BY <2>0, <2>3, <2>4
  <2>8. \A i \in DOMAIN c.lines : (c.lines[i].from = b \/ c.lines[i].to = b) => i \in beside
    BY <2>3, <2>5
  <2>9. \A i \in beside : other(i) \in DOMAIN c.volts /\ c.volts[other(i)] = c.volts[b]
    BY <2>6, <2>7
  <2>10. \A i, j \in new : other(i) = other(j) => i = j
    BY <2>7
  <2>11. \A i \in new : i \in beside /\ other(i) \notin Known(q)
    OBVIOUS
  <2>12. \A i \in beside : other(i) \in Known(q) \/ \E j \in new : other(j) = other(i)
    <3>. SUFFICES ASSUME NEW i \in beside, other(i) \notin Known(q) PROVE \E j \in new : other(j) = other(i)
      OBVIOUS
    <3> DEFINE same == {j \in beside : other(j) = other(i)}
    <3>1. same \in SUBSET Int /\ same # {} /\ IsFiniteSet(same)
      <4>1. same \in SUBSET BranchIds(c) /\ same # {}
        BY <2>3
      <4>. HIDE DEF same
      <4>2. IsFiniteSet(same)
        BY <2>0, <4>1, FS_Subset, Zenon
      <4>. QED  BY <2>0, <4>1, <4>2
    <3>2. PICK j \in same : \A x \in same : j <= x
      <4>1. Min(same) \in same /\ \A x \in same : Min(same) <= x
        <5>. HIDE DEF same
        <5>. QED  BY <3>1, LeastExists
      <4>. QED  BY <4>1, Zenon
    <3>3. j \in new
      <4>. HIDE DEF other
      <4>1. j \in beside /\ other(j) = other(i)
        BY <3>2
      <4>2. \A x \in beside : x < j => other(x) # other(j)
        <5>. SUFFICES ASSUME NEW x \in beside, x < j, other(x) = other(j) PROVE FALSE
          OBVIOUS
        <5>1. x \in same
          BY <4>1
        <5>. QED  BY <2>7, <3>2, <4>1, <5>1
      <4>. QED  BY <4>1, <4>2
    <3>. QED  BY <3>2, <3>3
  <2>13. new \in SUBSET Int /\ IsFiniteSet(new)
    <3>1. IsFiniteSet(BranchIds(c)) /\ BranchIds(c) \subseteq Nat
      BY <2>0
    <3>2. beside \in SUBSET BranchIds(c)
      BY <2>3
    <3>3. new \in SUBSET BranchIds(c)
      BY <3>2
    <3>. HIDE DEF new
    <3>. QED  BY <3>1, <3>3, FS_Subset
  <2>. HIDE DEF other, new, beside
  <2>14. /\ m \in Nat /\ \A x \in 1..m : Nth(new, x) \in new
         /\ \A x, y \in 1..m : x < y => Nth(new, x) < Nth(new, y)
         /\ \A i \in new : \E x \in 1..m : Nth(new, x) = i
    BY <2>13, Enumerated
  <2>. HIDE DEF m, Nth
  <2>15. more = [x \in 1..m |-> more[x]] /\ \A x \in 1..m : more[x] = Fact(other(Nth(new, x)), q[k].volts)
    OBVIOUS
  <2>. HIDE DEF more
  <2>16. IsSeq(more) /\ Len(more) = m
    BY <2>14, <2>15, Tabulated
  <2>17. /\ IsSeq(r) /\ Len(r) = Len(q) + m
         /\ \A i \in 1..Len(q) : r[i] = q[i]
         /\ \A x \in 1..m : r[Len(q) + x] = more[x]
    BY <1>1, <2>16, EndToEnd DEF r
  <2>. HIDE DEF r
  <2>18. \A x \in 1..m : /\ r[Len(q) + x].bus = other(Nth(new, x))
                         /\ r[Len(q) + x].volts = c.volts[b]
    BY <2>2, <2>15, <2>17, FactFields
  <2>19. \A x \in 1..m : /\ r[Len(q) + x].bus \in DOMAIN c.volts
                         /\ r[Len(q) + x].volts = c.volts[r[Len(q) + x].bus]
                         /\ r[Len(q) + x].bus \notin Known(q)
    BY <2>9, <2>11, <2>14, <2>18
  <2>20. \A x, y \in 1..m : r[Len(q) + x].bus = r[Len(q) + y].bus => x = y
    <3>. SUFFICES ASSUME NEW x \in 1..m, NEW y \in 1..m, r[Len(q) + x].bus = r[Len(q) + y].bus PROVE x = y
      OBVIOUS
    <3>1. Nth(new, x) = Nth(new, y)
      BY <2>10, <2>14, <2>18
    <3>2. Nth(new, x) \in Int /\ Nth(new, y) \in Int
      BY <2>13, <2>14
    <3>. QED  BY <2>14, <3>1, <3>2
  <2>21. \A i \in 1..Len(r) : i \in 1..Len(q) \/ \E x \in 1..m : i = Len(q) + x
    <3>. SUFFICES ASSUME NEW i \in 1..Len(r), i \notin 1..Len(q) PROVE \E x \in 1..m : i = Len(q) + x
      OBVIOUS
    <3>1. i - Len(q) \in 1..m /\ i = Len(q) + (i - Len(q))
      BY <1>1, <2>14, <2>17
    <3>. QED  BY <3>1
  <2>22. \A i \in 1..Len(q) : /\ r[i].bus \in DOMAIN c.volts /\ r[i].volts = c.volts[r[i].bus]
                              /\ r[i].bus \in Known(q)
    BY <1>1, <2>17 DEF Queue, Known
  <2>23. Queue(c, r)
    <3>1. \A i \in 1..Len(r) : r[i].bus \in DOMAIN c.volts /\ r[i].volts = c.volts[r[i].bus]
      BY <2>19, <2>21, <2>22, ZenonT(30)
    <3>2. \A i, j \in 1..Len(r) : r[i].bus = r[j].bus => i = j
      <4>. SUFFICES ASSUME NEW i \in 1..Len(r), NEW j \in 1..Len(r), r[i].bus = r[j].bus PROVE i = j
        OBVIOUS
      <4>1. CASE i \in 1..Len(q) /\ j \in 1..Len(q)
        BY <2>17, <4>1 DEF Queue
      <4>2. CASE i \notin 1..Len(q) /\ j \notin 1..Len(q)
        <5>1. PICK x \in 1..m : i = Len(q) + x
          BY <2>21, <4>2
        <5>2. PICK y \in 1..m : j = Len(q) + y
          BY <2>21, <4>2
        <5>. QED  BY <2>20, <5>1, <5>2
      <4>3. CASE i \in 1..Len(q) /\ j \notin 1..Len(q)
        <5>1. PICK y \in 1..m : j = Len(q) + y
          BY <2>21, <4>3
        <5>. QED  BY <2>19, <2>22, <4>3, <5>1
      <4>4. CASE i \notin 1..Len(q) /\ j \in 1..Len(q)
        <5>1. PICK x \in 1..m : i = Len(q) + x
          BY <2>21, <4>4
        <5>. QED  BY <2>19, <2>22, <4>4, <5>1
      <4>. QED  BY <4>1, <4>2, <4>3, <4>4
    <3>. QED  BY <2>17, <3>1, <3>2 DEF Queue
  <2>24. DOMAIN r = 1..Len(r)
    BY <2>17, SeqsAre
  <2>25. \A i \in new : other(i) \in Known(r)
    <3>. SUFFICES ASSUME NEW i \in new PROVE other(i) \in Known(r)
      OBVIOUS
    <3>1. PICK x \in 1..m : Nth(new, x) = i
      BY <2>14
    <3>2. Len(q) + x \in 1..Len(r)
      BY <1>1, <2>14, <2>17
    <3>. QED  BY <2>18, <2>24, <3>1, <3>2 DEF Known
  <2>26. Known(q) \subseteq Known(r)
    <3>1. \A i \in 1..Len(q) : i \in 1..Len(r) /\ r[i].bus = q[i].bus
      BY <1>1, <2>14, <2>17
    <3>. QED  BY <1>1, <2>24, <3>1 DEF Known
  <2>27. \A i \in beside : other(i) \in Known(r)
    BY <2>12, <2>25, <2>26
  <2>28. Handed(c, r, b)
    <3>. SUFFICES ASSUME NEW i \in DOMAIN c.lines
                  PROVE  /\ c.lines[i].from = b => c.lines[i].to \in Known(r)
                         /\ c.lines[i].to = b => c.lines[i].from \in Known(r)
      BY DEF Handed
    <3>1. BranchAt(c, i).from # BranchAt(c, i).to
      BY <2>5, CaseAccepted
    <3>2. c.lines[i].from # c.lines[i].to
      BY <2>5, <3>1
    <3>3. ASSUME c.lines[i].from = b \/ c.lines[i].to = b
          PROVE  (IF c.lines[i].from = b THEN c.lines[i].to ELSE c.lines[i].from) \in Known(r)
      <4>1. i \in beside
        BY <2>8, <3>3
      <4>. QED  BY <2>7, <2>27, <4>1
    <3>. QED  BY <3>2, <3>3
  <2>. QED  BY <1>1, <1>4, <2>1, <2>14, <2>17, <2>23, <2>28 DEF b
<1>. QED  BY <1>1, <1>3, <1>4

\* The queue after each bus it serves.
LEMMA SpreadIs ==
    ASSUME NEW known, NEW items, NEW N \in Nat
    PROVE  \E s : /\ s[0] = known /\ Spread(known, items, N) = s[N]
                  /\ \A k \in 1..N : s[k] = HandOn(s[k - 1], k, items)
<1> DEFINE After(s, n) == s = [k \in 0..n |-> IF k = 0 THEN known ELSE HandOn(s[k - 1], k, items)]
           T == {n \in Nat : n <= N => \E s : After(s, n)}
<1>1. N \in Nat
  OBVIOUS
<1>2. 0 \in T
  <2> DEFINE s == [k \in 0..0 |-> known]
  <2>1. After(s, 0)
    OBVIOUS
  <2>. HIDE DEF After
  <2>. QED  BY <2>1
<1>3. ASSUME NEW n \in Nat, n \in T PROVE n + 1 \in T
  <2>. SUFFICES ASSUME n + 1 <= N PROVE \E s : After(s, n + 1)
    <3>. HIDE DEF After
    <3>. QED  OBVIOUS
  <2>1. n <= N
    BY <1>1
  <2>2. PICK s : After(s, n)
    <3>. HIDE DEF After
    <3>. QED  BY <1>3, <2>1
  <2> DEFINE t == [k \in 0..(n + 1) |-> IF k = n + 1 THEN HandOn(s[n], n + 1, items) ELSE s[k]]
  <2>3. \A k \in 0..(n + 1) : t[k] = IF k = 0 THEN known ELSE HandOn(t[k - 1], k, items)
    <3>. SUFFICES ASSUME NEW k \in 0..(n + 1) PROVE t[k] = IF k = 0 THEN known ELSE HandOn(t[k - 1], k, items)
      OBVIOUS
    <3>1. CASE k = 0
      <4>1. 0 \in 0..n /\ 0 # n + 1
        OBVIOUS
      <4>. QED  BY <2>2, <3>1, <4>1
    <3>2. CASE k \in 1..n
      <4>1. k \in 0..n /\ k # 0 /\ k - 1 \in 0..(n + 1) /\ k - 1 # n + 1 /\ k # n + 1
        BY <3>2
      <4>. QED  BY <2>2, <4>1
    <3>3. CASE k = n + 1
      <4>1. k # 0 /\ k - 1 = n /\ n \in 0..(n + 1) /\ n # n + 1
        BY <3>3
      <4>. QED  BY <3>3, <4>1
    <3>. QED  BY <3>1, <3>2, <3>3
  <2>4. After(t, n + 1)
    <3>1. t = [k \in 0..(n + 1) |-> t[k]]
      OBVIOUS
    <3>. HIDE DEF t
    <3>. QED  BY <2>3, <3>1
  <2>. HIDE DEF After
  <2>. QED  BY <2>4
<1>4. \E s : After(s, N)
  <2>1. Nat \subseteq T
    <3>. HIDE DEF T
    <3>. QED  BY <1>2, <1>3, NatIsBuiltUp
  <2>. HIDE DEF After
  <2>. QED  BY <1>1, <2>1
<1> DEFINE w == CHOOSE s : After(s, N)
<1>5. After(w, N)
  <2>. HIDE DEF After
  <2>. QED  BY <1>4
<1>6. Spread(known, items, N) = w[N]
  BY DEF Spread
<1>. HIDE DEF w
<1>7. w[0] = known /\ \A k \in 1..N : w[k] = HandOn(w[k - 1], k, items)
  BY <1>1, <1>5
<1>. QED  BY <1>6, <1>7

LEMMA QueueFits ==
    ASSUME NEW c, IsCase(c), NEW q, Queue(c, q)
    PROVE  Len(q) <= Len(c.volts)
<1> DEFINE n == Len(q)
           B == Len(c.volts)
           f == [k \in 1..n |-> q[k].bus]
<1>1. n \in Nat /\ B \in Nat /\ DOMAIN c.volts = 1..B
  BY CaseShape, SeqsAre DEF Queue
<1>2. f \in Injection(1..n, 1..B)
  <2>1. f \in [1..n -> 1..B]
    BY <1>1 DEF Queue
  <2>2. \A j, k \in 1..n : f[j] = f[k] => j = k
    BY DEF Queue
  <2>. HIDE DEF f, n, B
  <2>. QED  BY <2>1, <2>2 DEF Injection, IsInjective
<1>3. /\ IsFiniteSet(1..n) /\ Cardinality(1..n) = n
      /\ IsFiniteSet(1..B) /\ Cardinality(1..B) = B
  <2>1. \A x \in Nat : IsFiniteSet(1..x)
    BY FS_Interval
  <2>2. \A x \in Nat : Cardinality(1..x) = x
    BY RunHas
  <2>. HIDE DEF n, B
  <2>. QED  BY <1>1, <2>1, <2>2
<1>. HIDE DEF f, n, B
<1>4. Cardinality(1..n) <= Cardinality(1..B)
  BY <1>2, <1>3, FS_Injection
<1>5. n <= B
  BY <1>3, <1>4
<1>. QED  BY <1>5 DEF n, B

LEMMA ServedNext ==
    ASSUME NEW c, Accepted(c), NEW items, ItemsAre(c, items), NEW q, NEW n \in Nat, HandedOut(c, q, n)
    PROVE  /\ HandedOut(c, HandOn(q, n + 1, items), n + 1)
           /\ Known(q) \subseteq Known(HandOn(q, n + 1, items))
<1> DEFINE m == n + 1
           r == HandOn(q, m, items)
<1>1. Queue(c, q) /\ m \in Nat \ {0} /\ \A k \in 1..n : k <= Len(q) => Handed(c, q, q[k].bus)
  BY DEF HandedOut
<1>2. /\ Queue(c, r) /\ Len(q) <= Len(r)
      /\ \A i \in 1..Len(q) : r[i] = q[i]
  BY <1>1, QueueEnds
<1>3. m > Len(q) => r = q
  BY <1>1, QueueEnds
<1>4. m <= Len(q) => Handed(c, r, q[m].bus)
  BY <1>1, QueueEnds
<1>. HIDE DEF r
<1>5. Len(q) \in Nat /\ Len(r) \in Nat /\ DOMAIN q = 1..Len(q) /\ DOMAIN r = 1..Len(r)
  BY <1>1, <1>2, SeqsAre DEF Queue
<1>6. Known(q) \subseteq Known(r)
  <2>1. \A i \in 1..Len(q) : i \in 1..Len(r) /\ r[i].bus = q[i].bus
    BY <1>2, <1>5
  <2>. QED  BY <1>5, <2>1 DEF Known
<1>7. ASSUME NEW k \in 1..m, k <= Len(r) PROVE Handed(c, r, r[k].bus)
  <2>1. CASE m > Len(q)
    <3>1. r = q /\ k \in 1..n
      BY <1>3, <1>5, <1>7, <2>1
    <3>. QED  BY <1>1, <1>7, <3>1
  <2>2. CASE m <= Len(q)
    <3>1. k \in 1..Len(q) /\ r[k] = q[k]
      BY <1>2, <1>5, <2>2
    <3>2. CASE k = m
      BY <1>4, <2>2, <3>1, <3>2
    <3>3. CASE k # m
      <4>1. k \in 1..n /\ k <= Len(q)
        BY <3>1, <3>3
      <4>2. Handed(c, q, q[k].bus)
        BY <1>1, <4>1
      <4>. QED  BY <1>6, <3>1, <4>2 DEF Handed
    <3>. QED  BY <3>2, <3>3
  <2>. QED  BY <1>5, <2>1, <2>2
<1>8. HandedOut(c, r, m)
  BY <1>2, <1>7 DEF HandedOut
<1>. QED  BY <1>6, <1>8 DEF r, m

\* Every bus gets the voltage the case gives it.
LEMMA SpreadsAll ==
    ASSUME NEW c, Accepted(c), NEW items, ItemsAre(c, items), NEW known, Queue(c, known), 1 \in Known(known),
           \A i \in DOMAIN c.transformers : c.transformers[i].from \in Known(known) /\ c.transformers[i].to \in Known(known)
    PROVE  /\ Queue(c, Spread(known, items, Len(c.volts)))
           /\ Known(Spread(known, items, Len(c.volts))) = DOMAIN c.volts
<1> DEFINE B == Len(c.volts)
           q == Spread(known, items, B)
<1>1. IsCase(c) /\ B \in Nat /\ DOMAIN c.volts = 1..B
  BY CaseShape DEF Accepted
<1>2. PICK s : /\ s[0] = known /\ q = s[B]
               /\ \A k \in 1..B : s[k] = HandOn(s[k - 1], k, items)
  <2>. HIDE DEF B
  <2>. QED  BY <1>1, SpreadIs
<1>. HIDE DEF q
<1> DEFINE T == {n \in Nat : n <= B => HandedOut(c, s[n], n) /\ Known(known) \subseteq Known(s[n])}
<1>3. 0 \in T
  BY <1>2 DEF HandedOut
<1>4. ASSUME NEW n \in Nat, n \in T PROVE n + 1 \in T
  <2>. SUFFICES ASSUME n + 1 <= B PROVE HandedOut(c, s[n + 1], n + 1) /\ Known(known) \subseteq Known(s[n + 1])
    OBVIOUS
  <2>1. HandedOut(c, s[n], n) /\ Known(known) \subseteq Known(s[n])
    BY <1>1, <1>4
  <2>2. s[n + 1] = HandOn(s[n], n + 1, items)
    <3>1. n + 1 \in 1..B /\ (n + 1) - 1 = n
      BY <1>1
    <3>. QED  BY <1>2, <3>1
  <2>3. HandedOut(c, HandOn(s[n], n + 1, items), n + 1) /\ Known(s[n]) \subseteq Known(HandOn(s[n], n + 1, items))
    BY <2>1, ServedNext
  <2>. QED  BY <2>1, <2>2, <2>3
<1>5. HandedOut(c, q, B) /\ Known(known) \subseteq Known(q)
  <2>1. Nat \subseteq T
    <3>. HIDE DEF T
    <3>. QED  BY <1>3, <1>4, NatIsBuiltUp
  <2>2. B \in T
    BY <1>1, <2>1
  <2>3. B <= B
    BY <1>1
  <2>. QED  BY <1>2, <2>2, <2>3
<1>. HIDE DEF T
<1>6. Queue(c, q) /\ \A k \in 1..B : k <= Len(q) => Handed(c, q, q[k].bus)
  BY <1>5 DEF HandedOut
<1>7. Len(q) \in Nat /\ DOMAIN q = 1..Len(q) /\ Len(q) <= B
  <2>1. Len(q) <= Len(c.volts)
    BY <1>1, <1>6, QueueFits
  <2>. QED  BY <1>6, <2>1, SeqsAre DEF Queue
<1>8. \A k \in 1..Len(q) : Handed(c, q, q[k].bus)
  BY <1>1, <1>6, <1>7
<1>9. Known(q) \subseteq DOMAIN c.volts
  BY <1>6, <1>7 DEF Queue, Known
<1>10. \A b \in Known(q) : Handed(c, q, b)
  BY <1>7, <1>8 DEF Known
<1>11. \A i \in BranchIds(c) : BranchAt(c, i).from \in Known(q) <=> BranchAt(c, i).to \in Known(q)
  <2>. SUFFICES ASSUME NEW i \in BranchIds(c) PROVE BranchAt(c, i).from \in Known(q) <=> BranchAt(c, i).to \in Known(q)
    OBVIOUS
  <2>1. CASE Wound(c, i)
    <3>1. /\ i - Len(c.lines) \in DOMAIN c.transformers
          /\ BranchAt(c, i) = c.transformers[i - Len(c.lines)]
      BY <1>1, <2>1, BranchShape
    <3>2. PICK k \in DOMAIN c.transformers : BranchAt(c, i) = c.transformers[k]
      BY <3>1
    <3>. QED  BY <1>5, <3>2
  <2>2. CASE ~Wound(c, i)
    <3>1. i \in DOMAIN c.lines /\ BranchAt(c, i) = c.lines[i]
      BY <1>1, <2>2, BranchShape
    <3>. QED  BY <1>10, <3>1 DEF Handed
  <2>. QED  BY <2>1, <2>2
<1>12. 1 \in Known(q)
  BY <1>5
<1>13. Known(q) = DOMAIN c.volts
  <2>1. \A part \in SUBSET DOMAIN c.volts :
           (1 \in part /\ \A i \in BranchIds(c) : BranchAt(c, i).from \in part <=> BranchAt(c, i).to \in part)
           => part = DOMAIN c.volts
    BY CaseAccepted
  <2>2. Known(q) \in SUBSET DOMAIN c.volts
    BY <1>9
  <2>. QED  BY <1>11, <1>12, <2>1, <2>2
<1>. QED  BY <1>6, <1>13 DEF q, B

-----------------------------------------------------------------------------
(* Voltages and ratings.                                                   *)

CimKnown(f) == Spread(Firsts(CimFacts(f)), CimItems(f), Len(f.nodes))
CimVolts(f) == [b \in DOMAIN f.nodes |-> IF b \in Known(CimKnown(f)) THEN At(CimKnown(f), b).volts ELSE 0]

LEMMA QueueAt ==
    ASSUME NEW c, NEW q, Queue(c, q), NEW b \in Known(q)
    PROVE  At(q, b).volts = c.volts[b]
<1>1. DOMAIN q = 1..Len(q)
  BY SeqsAre DEF Queue
<1>2. \E i \in DOMAIN q : q[i].bus = b
  BY DEF Known
<1> DEFINE j == CHOOSE i \in DOMAIN q : q[i].bus = b
<1>3. j \in DOMAIN q /\ q[j].bus = b
  BY <1>2
<1>4. At(q, b) = q[j]
  BY DEF At
<1>. HIDE DEF j
<1>5. q[j].volts = c.volts[q[j].bus]
  BY <1>1, <1>3 DEF Queue
<1>. QED  BY <1>3, <1>4, <1>5

LEMMA VoltsAre ==
    ASSUME NEW c, NEW si, NEW changer, NEW f, CimOf(c, si, changer, f)
    PROVE  CimVolts(f) = c.volts
<1> DEFINE B == Len(c.volts)
           facts == CimFacts(f)
           items == CimItems(f)
           known == Firsts(facts)
           q == Spread(known, items, B)
<1>1. IsCase(c) /\ Accepted(c) /\ B \in Nat /\ B >= 1 /\ DOMAIN c.volts = 1..B /\ CimIs(c, si, changer, f)
  BY CimOfHas
<1>2. \A b \in DOMAIN c.volts : c.volts[b] \in Nat \ {0}
  BY <1>1, CaseShape
<1>3. c.volts = [b \in DOMAIN c.volts |-> c.volts[b]]
  <2>1. IsSeq(c.volts)
    BY <1>1, CaseShape
  <2>2. c.volts = [b \in 1..B |-> c.volts[b]]
    BY <2>1 DEF IsSeq
  <2>. HIDE DEF B
  <2>. QED  BY <1>1, <2>2
<1>4. Len(f.nodes) = B /\ DOMAIN f.nodes = DOMAIN c.volts
  <2>1. NodesAre(c, f.nodes)
    BY <1>1 DEF CimIs
  <2>. QED  BY <2>1 DEF NodesAre
<1>5. ItemsAre(c, items)
  BY CimItemsAre
<1>6. AllTold(c, facts) /\ Tells(facts, 1, c.volts[1])
  BY FactsAreTold
<1>7. \A i \in DOMAIN c.transformers : /\ Tells(facts, c.transformers[i].from, c.volts[c.transformers[i].from])
                                       /\ Tells(facts, c.transformers[i].to, c.volts[c.transformers[i].to])
  BY FactsAreTold
<1>. HIDE DEF facts, items
<1>8. Queue(c, known)
  BY <1>1, <1>6, FirstsAre
<1>9. \A b, v : (Tells(facts, b, v) /\ v # 0) => b \in Known(known)
  BY <1>1, <1>6, FirstsAre
<1>10. 1 \in Known(known)
  <2>1. c.volts[1] # 0
    BY <1>1, <1>2
  <2>. QED  BY <1>6, <1>9, <2>1
<1>11. \A i \in DOMAIN c.transformers : c.transformers[i].from \in Known(known) /\ c.transformers[i].to \in Known(known)
  <2>. SUFFICES ASSUME NEW i \in DOMAIN c.transformers
                PROVE  c.transformers[i].from \in Known(known) /\ c.transformers[i].to \in Known(known)
    OBVIOUS
  <2>1. c.transformers[i].from \in DOMAIN c.volts /\ c.transformers[i].to \in DOMAIN c.volts
    <3>1. c.transformers[i] \in TransformerOf(DOMAIN c.volts)
      BY <1>1, CaseShape
    <3>. QED  BY <3>1 DEF TransformerOf
  <2>2. c.volts[c.transformers[i].from] # 0 /\ c.volts[c.transformers[i].to] # 0
    BY <1>2, <2>1
  <2>. QED  BY <1>7, <1>9, <2>2
<1>. HIDE DEF known
<1>12. Queue(c, q) /\ Known(q) = DOMAIN c.volts
  BY <1>1, <1>5, <1>8, <1>10, <1>11, SpreadsAll
<1>13. CimKnown(f) = q
  BY <1>4 DEF CimKnown, q, known, facts, items
<1>. HIDE DEF q
<1>14. CimVolts(f) = [b \in DOMAIN c.volts |-> IF b \in Known(q) THEN At(q, b).volts ELSE 0]
  BY <1>4, <1>13 DEF CimVolts
<1>15. \A b \in DOMAIN c.volts : (IF b \in Known(q) THEN At(q, b).volts ELSE 0) = c.volts[b]
  BY <1>12, QueueAt
<1>. QED  BY <1>3, <1>14, <1>15

\* The power a current carries, and what makes a current come out whole.
Carried(v, amps) == (v * amps) \div 1000
Amperes(v, r) == (r * 1000) \div v
ComesOut(v, r) == (r * 1000) % v = 0

\* A current that makes up a rating, and the next, at the same voltage.
LEMMA CurrentsMake ==
    ASSUME NEW v \in Nat \ {0}, NEW r \in Nat \ {0}, NEW y, y = Amperes(v, r)
    PROVE  /\ Carried(v, y + 1) \in Int /\ r <= Carried(v, y + 1)
           /\ ComesOut(v, r) => Carried(v, y) = r
<1> DEFINE p == r * 1000
           m == p % v
           k == p \div v
<1>1. p \in Nat
  OBVIOUS
<1>2. y = k /\ (ComesOut(v, r) => m = 0)
  BY DEF ComesOut, Amperes
<1>. HIDE DEF p
<1>3. m \in 0..(v - 1) /\ k \in Int /\ p = v * k + m
  BY <1>1
<1>4. 0 <= k
  <2>1. 0 * v <= p /\ p <= p * v
    BY <1>1
  <2>. QED  BY <1>1, <2>1, QuotientBetween
<1>. HIDE DEF m, k
<1> DEFINE s == v * y
           u == v * (y + 1)
<1>5. s \in Nat /\ u \in Nat /\ u = s + v
  <2>1. \A a, b \in Nat : a * b \in Nat /\ a * (b + 1) = a * b + a
    OBVIOUS
  <2>2. y \in Nat
    BY <1>2, <1>3, <1>4
  <2>3. s \in Nat /\ u = s + v
    BY <2>1, <2>2
  <2>. HIDE DEF s, u
  <2>. QED  BY <2>3
<1>6. p = s + m
  BY <1>2, <1>3
<1>7. Carried(v, y + 1) = u \div 1000 /\ Carried(v, y) = s \div 1000
  BY DEF Carried
<1>. HIDE DEF s, u
<1>8. p <= u
  BY <1>3, <1>5, <1>6
<1> DEFINE d == 1000
<1>9. d \in Nat \ {0} /\ p = r * d
  BY DEF p
<1>10. Carried(v, y + 1) = u \div d /\ Carried(v, y) = s \div d
  BY <1>7
<1>. HIDE DEF d
<1>11. u \div d \in Int
  BY <1>5, <1>9, QuotientIsInteger
<1>12. r <= u \div d
  <2>1. r * d <= u
    BY <1>8, <1>9
  <2>2. u <= u * d
    BY <1>5, <1>9
  <2>. QED  BY <1>5, <1>9, <2>1, <2>2, QuotientBetween
<1>13. m = 0 => s \div d = r
  <2>1. m = 0 => s = d * r
    BY <1>5, <1>6, <1>9
  <2>2. (d * r) \div d = r
    BY <1>9, ExactQuotient
  <2>. QED  BY <2>1, <2>2
<1>. QED  BY <1>2, <1>10, <1>11, <1>12, <1>13

LEMMA SameRate ==
    ASSUME NEW a, NEW b, NEW z, NEW r, NEW s
    PROVE  [Line(a, b, z, s) EXCEPT !.rate = r] = Line(a, b, z, r)
<1> DEFINE rec(x1, x2, x3, x4, x5, x6, x7, x8) ==
               [from |-> x1, to |-> x2, z |-> x3, z0 |-> x4, rate |-> x5,
                transformer |-> x6, tap |-> x7, connection |-> x8]
<1>1. ASSUME NEW x1, NEW x2, NEW x3, NEW x4, NEW x5, NEW x6, NEW x7, NEW x8, NEW y
      PROVE  [rec(x1, x2, x3, x4, x5, x6, x7, x8) EXCEPT !.rate = y] = rec(x1, x2, x3, x4, y, x6, x7, x8)
  OBVIOUS
<1>2. PICK no : no = FALSE
  BY Zenon
<1>3. Line(a, b, z, s) = rec(a, b, z, Absent, s, no, Absent, Absent)
  BY <1>2 DEF Line
<1>4. Line(a, b, z, r) = rec(a, b, z, Absent, r, no, Absent, Absent)
  BY <1>2 DEF Line
<1>. HIDE DEF rec
<1>. QED  BY <1>1, <1>3, <1>4

LEMMA LineLimited ==
    ASSUME NEW c, NEW si, NEW changer, NEW f, CimOf(c, si, changer, f), NEW i \in DOMAIN c.lines,
           NEW item, IsLineItem(c, i, item)
    PROVE  CurrentLimited(f, c.volts, item) = Line(c.lines[i].from, c.lines[i].to, CaseOhms(c, i), c.lines[i].rate)
<1> DEFINE br == c.lines[i]
           r == br.rate
           v == c.volts[br.from]
           y == Current(c, i)
           kv == Or(c.volts[item.branch.from], c.volts[item.branch.to])
           mva == {Carried(kv, amps) : amps \in LimitsOf(f, item.equip, TRUE)}
           S == mva \union ({item.branch.rate} \ {0})
<1>1. /\ IsCase(c) /\ CimCase(c, si, changer) /\ CimIs(c, si, changer, f) /\ Len(c.volts) >= 1
      /\ DOMAIN c.lines = 1..Len(c.lines)
  BY CimOfHas
<1>2. /\ item.equip = i
      /\ item.branch = Line(br.from, br.to, CaseOhms(c, i), Mva(c, i))
  BY DEF IsLineItem
<1>3. r \in Nat \ {0} /\ v \in Nat \ {0}
  <2>1. br \in LineOf(DOMAIN c.volts)
    BY <1>1, CaseShape
  <2>2. \A b \in DOMAIN c.volts : c.volts[b] \in Nat \ {0}
    BY <1>1, CaseShape
  <2>. QED  BY <2>1, <2>2 DEF LineOf, AboveZero
<1>4. LimitsOf(f, i, TRUE) = Amps(c, i)
  <2>1. i \in 1..Len(c.lines)
    BY <1>1
  <2>. QED  BY <1>1, <2>1, LineLimits
<1>5. i % 2 = 1 \/ ComesOut(v, r)
  BY <1>1, CimWritable DEF ComesOut
<1>6. y = Amperes(v, r)
  BY DEF Current, Amperes
<1>. HIDE DEF y
<1>7. CurrentLimited(f, c.volts, item) = IF mva = {} \/ kv = 0 THEN item.branch ELSE [item.branch EXCEPT !.rate = Min(S)]
  BY DEF CurrentLimited, Carried
<1>8. item.branch.from = br.from /\ item.branch.rate = Mva(c, i)
  <2> DEFINE g == Mva(c, i)
             x == br.from
  <2>1. item.branch = Line(x, br.to, CaseOhms(c, i), g)
    BY <1>2
  <2>. HIDE DEF g, x
  <2>2. item.branch.from = x /\ item.branch.rate = g
    BY <2>1 DEF Line
  <2>. QED  BY <2>2 DEF g, x
<1>9. kv = v /\ kv # 0
  BY <1>3, <1>8 DEF Or
<1> DEFINE h == Carried(v, y + 1)
           g == Carried(v, y)
<1>10. h \in Int /\ r <= h /\ (ComesOut(v, r) => g = r)
  <2>. HIDE DEF r, v
  <2>1. /\ Carried(v, y + 1) \in Int /\ r <= Carried(v, y + 1)
        /\ ComesOut(v, r) => Carried(v, y) = r
    BY <1>3, <1>6, CurrentsMake, Zenon
  <2>. QED  BY <2>1, Zenon
<1>11. mva = {Carried(v, amps) : amps \in Amps(c, i)}
  <2>. HIDE DEF v, kv
  <2>. QED  BY <1>2, <1>4, <1>9
<1>12. i % 2 = 1 => mva = {h} /\ S = {h, r}
  <2>. SUFFICES ASSUME i % 2 = 1 PROVE mva = {h} /\ S = {h, r}
    OBVIOUS
  <2>1. Amps(c, i) = {y + 1} /\ Mva(c, i) = r
    BY DEF Amps, Mva, y
  <2>2. mva = {h}
    <3>. HIDE DEF v, mva
    <3>. QED  BY <1>11, <2>1
  <2>. HIDE DEF h, mva, r
  <2>. QED  BY <1>3, <1>8, <2>1, <2>2
<1>13. i % 2 # 1 => mva = {g, h} /\ S = {g, h}
  <2>. SUFFICES ASSUME i % 2 # 1 PROVE mva = {g, h} /\ S = {g, h}
    OBVIOUS
  <2>1. Amps(c, i) = {y, y + 1} /\ Mva(c, i) = 0
    BY DEF Amps, Mva, y
  <2>2. mva = {g, h}
    <3>. HIDE DEF v, mva
    <3>. QED  BY <1>11, <2>1
  <2>. HIDE DEF h, g, mva, r
  <2>. QED  BY <1>8, <2>1, <2>2
<1>14. h \in Int /\ r <= h /\ (i % 2 # 1 => g = r)
  BY <1>5, <1>10
<1>. HIDE DEF h, g, S, mva, kv, r
<1>15. mva # {} /\ S = {r, h}
  BY <1>12, <1>13, <1>14
<1>16. Min(S) = r
  <2>1. S \in SUBSET Int /\ r \in S /\ \A s \in S : r <= s
    BY <1>3, <1>14, <1>15
  <2>. QED  BY <2>1, LeastIs
<1>17. CurrentLimited(f, c.volts, item) = [item.branch EXCEPT !.rate = r]
  BY <1>7, <1>9, <1>15, <1>16
<1>. QED  BY <1>2, <1>17, SameRate DEF r

LEMMA WoundLimited ==
    ASSUME NEW c, NEW si, NEW changer, NEW f, CimOf(c, si, changer, f), NEW i \in DOMAIN c.transformers,
           NEW item, IsWoundItem(c, i, item), NEW volts
    PROVE  CurrentLimited(f, volts, item) = item.branch
<1> DEFINE e == Len(c.lines) + i
           kv == Or(volts[item.branch.from], volts[item.branch.to])
           mva == {(kv * amps) \div 1000 : amps \in LimitsOf(f, item.equip, TRUE)}
<1>1. /\ IsCase(c) /\ Absent \notin Int /\ CimIs(c, si, changer, f) /\ Len(c.volts) >= 1
      /\ Len(c.lines) \in Nat /\ Len(c.transformers) \in Nat /\ DOMAIN c.transformers = 1..Len(c.transformers)
  BY CimOfHas
<1>2. item.equip = e
  BY DEF IsWoundItem
<1>3. e \notin 1..Len(c.lines)
  BY <1>1
<1>. HIDE DEF e
<1>4. \A amps : LimitsOf(f, e, amps) = {}
  BY <1>1, <1>3, LimitsOfNone
<1>5. mva = {}
  BY <1>2, <1>4, Zenon
<1>. HIDE DEF kv
<1>. QED  BY <1>5, Zenon DEF CurrentLimited, kv

Injected(f, b) == \E i \in DOMAIN f.injections : EquipBus(f, f.injections[i], 1) = b

LEMMA CimSlack ==
    ASSUME NEW c, NEW si, NEW changer, NEW f, CimOf(c, si, changer, f), NEW b
    PROVE  Injected(f, b) = (b = 1)
<1>1. IsCase(c) /\ Len(c.volts) >= 1 /\ Absent \notin Int /\ CimIs(c, si, changer, f)
  BY CimOfHas
<1>2. f.injections = <<0>>
  BY <1>1 DEF CimIs
<1>3. DOMAIN f.injections = {1} /\ f.injections[1] = 0
  BY <1>2
<1>4. EquipBus(f, 0, 1) = 1
  BY <1>1, EquipBuses
<1>5. EquipBus(f, f.injections[1], 1) = 1
  BY <1>3, <1>4
<1>. QED  BY <1>3, <1>5 DEF Injected

LEMMA CimLoad ==
    ASSUME NEW c, NEW si, NEW changer, NEW f, CimOf(c, si, changer, f), NEW b
    PROVE  SumFunctionOnSet([k \in DOMAIN f.consumers |-> ToWatts(f, f.consumers[k].p)],
                            {k \in DOMAIN f.consumers : EquipBus(f, f.consumers[k].id, 1) = b}) = Watts(c, b)
<1> DEFINE K == OnCount(c)
           on == OnLoads(c)
           at == OnPlaces(c)
           loads == [k \in 1..K |-> [bus |-> on[k].bus, load |-> on[k].watts]]
           w == [k \in DOMAIN f.consumers |-> ToWatts(f, f.consumers[k].p)]
           fed == {k \in DOMAIN f.consumers : EquipBus(f, f.consumers[k].id, 1) = b}
<1>1. IsCase(c) /\ CimCase(c, si, changer) /\ Len(c.volts) >= 1 /\ Absent \notin Int /\ CimIs(c, si, changer, f)
  BY CimOfHas
<1>2. DOMAIN f.consumers = 1..K /\ \A k \in 1..K : f.consumers[k].id = Many(c) + k
  BY <1>1 DEF CimIs, ConsumersAre
<1>3. \A k \in 1..K : EquipBus(f, Many(c) + k, 1) = on[k].bus
  BY <1>1, EquipBuses
<1>4. \A k \in 1..K : ToWatts(f, f.consumers[k].p) = on[k].watts
  BY <1>1, UnitOfWatts
<1>5. \A k \in 1..K : EquipBus(f, f.consumers[k].id, 1) = on[k].bus
  BY <1>2, <1>3
<1>6. \A k \in 1..K : on[k] = c.loads[Nth(at, k)]
  BY <1>1, OnLoadsAre
<1>. HIDE DEF on
<1>7. DOMAIN loads = 1..K /\ \A k \in 1..K : loads[k].bus = on[k].bus /\ loads[k].load = on[k].watts
  OBVIOUS
<1>8. LoadsAt(c, at, loads)
  <2>1. at \in SUBSET DOMAIN c.loads /\ \A k \in DOMAIN c.loads : c.loads[k].on <=> k \in at
    BY DEF OnPlaces
  <2>. HIDE DEF loads, at
  <2>2. K = Cardinality(at)
    BY DEF OnCount, at
  <2>. HIDE DEF K
  <2>3. DOMAIN loads = 1..Cardinality(at)
    BY <1>7, <2>2
  <2>4. \A k \in 1..Cardinality(at) : /\ loads[k].bus = c.loads[Nth(at, k)].bus
                                      /\ loads[k].load = c.loads[Nth(at, k)].watts
    BY <1>6, <1>7, <2>2
  <2>. QED  BY <2>1, <2>3, <2>4 DEF LoadsAt
<1>. HIDE DEF loads, at
<1>9. LoadAt(loads, b) = Watts(c, b)
  BY <1>1, <1>8, LoadsKept
<1>10. w = [k \in DOMAIN loads |-> loads[k].load]
  BY <1>2, <1>4, <1>7
<1>11. fed = {k \in DOMAIN loads : loads[k].bus = b}
  BY <1>2, <1>5, <1>7
<1>. HIDE DEF w, fed
<1>12. LoadAt(loads, b) = SumFunctionOnSet(w, fed)
  BY <1>10, <1>11 DEF LoadAt
<1>. QED  BY <1>9, <1>12 DEF w, fed

LEMMA CimPhases ==
    ASSUME NEW c, NEW si, NEW changer, NEW f, CimOf(c, si, changer, f), NEW k \in DOMAIN f.consumers
    PROVE  ConsumerPhases(f, f.consumers[k]) = {}
<1>1. CimIs(c, si, changer, f)
  BY CimOfHas
<1>2. f.consumers[k].phases = {}
  BY <1>1 DEF CimIs, ConsumersAre
<1>3. \A j \in DOMAIN f.terminals : f.terminals[j].phases = {}
  BY <1>1 DEF CimIs, TerminalsAre
<1> DEFINE own == {j \in DOMAIN f.terminals : f.terminals[j].equip = f.consumers[k].id}
<1>4. ConsumerPhases(f, f.consumers[k]) = UNION {f.terminals[i].phases : i \in own}
  BY <1>2 DEF ConsumerPhases
<1>5. \A i \in own : f.terminals[i].phases = {}
  BY <1>3
<1>. HIDE DEF own
<1>. QED  BY <1>4, <1>5

LEMMA CimBusIs ==
    ASSUME NEW c, NEW si, NEW changer, NEW f, CimOf(c, si, changer, f), NEW b, NEW v
    PROVE  CimBus(f, b, v) = [bus |-> b, kv |-> v, slack |-> b = 1, load |-> Watts(c, b), phases |-> {}]
<1> DEFINE fed == {k \in DOMAIN f.consumers : EquipBus(f, f.consumers[k].id, 1) = b}
           load == SumFunctionOnSet([k \in DOMAIN f.consumers |-> ToWatts(f, f.consumers[k].p)], fed)
           slack == Injected(f, b)
           phases == UNION {ConsumerPhases(f, f.consumers[k]) \intersect Letters : k \in fed}
<1>1. slack = (b = 1)
  BY CimSlack
<1>2. load = Watts(c, b)
  BY CimLoad
<1>3. phases = {}
  <2>1. \A k \in fed : ConsumerPhases(f, f.consumers[k]) = {}
    BY CimPhases
  <2>. HIDE DEF fed
  <2>. QED  BY <2>1
<1>4. CimBus(f, b, v) = [bus |-> b, kv |-> v, slack |-> slack, load |-> load, phases |-> phases]
  BY DEF CimBus, Injected
<1>. HIDE DEF slack, load, phases
<1>. QED  BY <1>1, <1>2, <1>3, <1>4

LEMMA LineReads ==
    ASSUME NEW x, NEW y, NEW z, NEW r, NEW br, br.from = x, br.to = y, br.rate = r, NEW wound, wound = FALSE
    PROVE  ReadsAs(Line(x, y, z, r), br, z, wound)
<1> DEFINE b == Line(x, y, z, r)
<1>1. /\ b.from = x /\ b.to = y /\ b.z = z /\ b.z0 = Absent /\ b.rate = r /\ b.transformer = FALSE
  BY DEF Line
<1>. HIDE DEF b
<1>2. b.transformer = wound
  BY <1>1
<1>3. ReadsAs(b, br, z, wound)
  BY <1>1, <1>2 DEF ReadsAs
<1>. QED  BY <1>3 DEF b

LEMMA WoundReads ==
    ASSUME NEW x, NEW y, NEW z, NEW r, NEW tap, NEW group, NEW br, br.from = x, br.to = y, br.rate = r,
           br.tap = tap, group = IF br.delta THEN "delta_wye" ELSE "wye_wye", NEW wound, wound = TRUE
    PROVE  ReadsAs(Transformer(x, y, z, r, tap, group), br, z, wound)
<1> DEFINE b == Transformer(x, y, z, r, tap, group)
<1>1. /\ b.from = x /\ b.to = y /\ b.z = z /\ b.z0 = Absent /\ b.rate = r /\ b.transformer = TRUE
      /\ b.tap = tap /\ b.connection = group
  BY DEF Transformer
<1>. HIDE DEF b
<1>2. b.transformer = wound
  BY <1>1
<1>3. ReadsAs(b, br, z, wound)
  BY <1>1, <1>2 DEF ReadsAs
<1>. QED  BY <1>3 DEF b

CimBranches(f) == [i \in DOMAIN CimItems(f) |-> CurrentLimited(f, CimVolts(f), CimItems(f)[i])]

LEMMA CimBranchesAre ==
    ASSUME NEW c, NEW si, NEW changer, NEW f, CimOf(c, si, changer, f)
    PROVE  /\ CimBranches(f) = [i \in BranchIds(c) |-> CimBranches(f)[i]]
           /\ \A i \in BranchIds(c) : ReadsAs(CimBranches(f)[i], BranchAt(c, i), CaseOhms(c, i), Wound(c, i))
<1> DEFINE items == CimItems(f)
           bs == CimBranches(f)
           L == Len(c.lines)
           T == Len(c.transformers)
<1>1. IsCase(c) /\ ItemsAre(c, items)
  BY CimOfHas, CimItemsAre
<1>2. CimVolts(f) = c.volts
  BY VoltsAre
<1>3. DOMAIN items = BranchIds(c)
  BY <1>1, ItemBranches
<1>. HIDE DEF items
<1>4. /\ bs = [i \in BranchIds(c) |-> bs[i]]
      /\ \A i \in BranchIds(c) : bs[i] = CurrentLimited(f, c.volts, items[i])
  BY <1>2, <1>3 DEF CimBranches, items
<1>. HIDE DEF bs
<1>5. L \in Nat /\ T \in Nat /\ DOMAIN c.lines = 1..L /\ DOMAIN c.transformers = 1..T
  BY <1>1, CaseShape
<1>6. ASSUME NEW i \in BranchIds(c), ~Wound(c, i)
      PROVE  ReadsAs(bs[i], BranchAt(c, i), CaseOhms(c, i), Wound(c, i))
  <2>1. i \in DOMAIN c.lines /\ BranchAt(c, i) = c.lines[i]
    BY <1>1, <1>6, BranchShape
  <2>2. IsLineItem(c, i, items[i])
    BY <1>1, <1>5, <2>1 DEF ItemsAre
  <2> DEFINE br == c.lines[i]
             x == br.from
             y == br.to
             r == br.rate
             z == CaseOhms(c, i)
             wound == Wound(c, i)
  <2>3. bs[i] = Line(x, y, z, r)
    BY <1>4, <2>1, <2>2, LineLimited
  <2>4. wound = FALSE
    BY <1>6 DEF Wound
  <2>5. br.from = x /\ br.to = y /\ br.rate = r
    OBVIOUS
  <2>. HIDE DEF br, x, y, r, z, wound
  <2>6. ReadsAs(Line(x, y, z, r), br, z, wound)
    BY <2>4, <2>5, LineReads
  <2>7. ReadsAs(bs[i], br, z, wound)
    BY <2>3, <2>6
  <2>. QED  BY <2>1, <2>7 DEF br, z, wound
<1>7. ASSUME NEW i \in BranchIds(c), Wound(c, i)
      PROVE  ReadsAs(bs[i], BranchAt(c, i), CaseOhms(c, i), Wound(c, i))
  <2> DEFINE k == i - L
  <2>1. k \in DOMAIN c.transformers /\ BranchAt(c, i) = c.transformers[k]
    BY <1>1, <1>7, BranchShape
  <2>2. L + k = i
    <3>1. BranchIds(c) = 1..(L + T)
      BY DEF BranchIds
    <3>. HIDE DEF L, T
    <3>. QED  BY <1>5, <3>1
  <2>3. IsWoundItem(c, k, items[L + k])
    BY <1>1, <1>5, <2>1 DEF ItemsAre
  <2>. HIDE DEF k
  <2> DEFINE br == c.transformers[k]
             x == br.from
             y == br.to
             r == br.rate
             tap == br.tap
             z == CaseOhms(c, i)
             wound == Wound(c, i)
             group == IF br.delta THEN "delta_wye" ELSE "wye_wye"
  <2>4. items[L + k].branch = Transformer(x, y, CaseOhms(c, L + k), r, tap, group)
    BY <2>3 DEF IsWoundItem
  <2>5. items[i].branch = Transformer(x, y, z, r, tap, group)
    BY <2>2, <2>4
  <2>6. bs[i] = items[i].branch
    <3>1. IsWoundItem(c, k, items[i])
      BY <2>2, <2>3
    <3>2. CurrentLimited(f, c.volts, items[i]) = items[i].branch
      BY <2>1, <3>1, WoundLimited
    <3>. QED  BY <1>4, <3>2
  <2>7. wound = TRUE
    BY <1>7 DEF Wound
  <2>8. br.from = x /\ br.to = y /\ br.rate = r /\ br.tap = tap /\ group = IF br.delta THEN "delta_wye" ELSE "wye_wye"
    OBVIOUS
  <2>. HIDE DEF br, x, y, r, z, wound, group, tap
  <2>9. ReadsAs(Transformer(x, y, z, r, tap, group), br, z, wound)
    BY <2>7, <2>8, WoundReads
  <2>10. ReadsAs(bs[i], br, z, wound)
    BY <2>5, <2>6, <2>9
  <2>. QED  BY <2>1, <2>10 DEF br, z, wound
<1>. QED  BY <1>4, <1>6, <1>7 DEF bs

LEMMA CimCaseBranches ==
    ASSUME NEW c, NEW si, NEW changer, NEW f, CimOf(c, si, changer, f), NEW inOhms, inOhms = TRUE
    PROVE  CaseBranches(c, CimBranches(f), inOhms)
<1> DEFINE bs == CimBranches(f)
<1>1. bs = [i \in BranchIds(c) |-> bs[i]]
  BY CimBranchesAre
<1>2. \A i \in BranchIds(c) : ReadsAs(bs[i], BranchAt(c, i), CaseOhms(c, i), Wound(c, i))
  BY CimBranchesAre
<1>. HIDE DEF bs
<1>3. ASSUME NEW i \in BranchIds(c)
      PROVE  LET br == BranchAt(c, i) IN
             /\ bs[i].from = br.from /\ bs[i].to = br.to
             /\ bs[i].z = (IF inOhms THEN CaseOhms(c, i) ELSE br.z)
             /\ bs[i].z0 = Absent /\ bs[i].rate = br.rate
             /\ bs[i].transformer = Wound(c, i)
             /\ Wound(c, i) => /\ bs[i].connection = (IF br.delta THEN "delta_wye" ELSE "wye_wye")
                               /\ bs[i].tap = br.tap
  <2>1. ReadsAs(bs[i], BranchAt(c, i), CaseOhms(c, i), Wound(c, i))
    BY <1>2
  <2>. QED  BY <2>1 DEF ReadsAs
<1>. QED  BY <1>1, <1>3 DEF CaseBranches, bs

(* A CIM file, in volts and watts or in kilovolts and megawatts, with the  *)
(* taps in the rated voltages or in tap changers, is read as the network   *)
(* it describes (importers.py from_cim): the voltages that only the        *)
(* windings give reach every bus, and the tighter limit is each line's     *)
(* rating.                                                                 *)
THEOREM CimAsWritten ==
    ASSUME NEW c, Accepted(c), Absent \notin Int, NEW si \in BOOLEAN, NEW changer \in BOOLEAN,
           WritableInCim(c, si, changer)
    PROVE  FromCim(Cim(c, si, changer)) = Imported(Meaning(c))
<1> DEFINE f == Cim(c, si, changer)
           B == Len(c.volts)
           buses == [b \in DOMAIN f.nodes |-> CimBus(f, b, CimVolts(f)[b])]
<1>1. IsCase(c)
  BY DEF Accepted
<1>2. CimIs(c, si, changer, f)
  BY <1>1, CimFile
<1>. HIDE DEF f
<1>3. CimOf(c, si, changer, f)
  BY <1>1, <1>2 DEF CimOf, CimCase
<1>4. B \in Nat /\ B >= 1 /\ DOMAIN c.volts = 1..B
  BY <1>3, CimOfHas
<1>5. DOMAIN f.nodes = DOMAIN c.volts /\ Len(f.nodes) = B
  <2>1. NodesAre(c, f.nodes)
    BY <1>2 DEF CimIs
  <2>. QED  BY <2>1 DEF NodesAre
<1>6. f.nodes # <<>>
  BY <1>4, <1>5
<1>7. FromCim(f) = Assemble(buses, CimBranches(f), DefaultBase, TRUE)
  <2>1. FromCim(f) = IF f.nodes = <<>> THEN ImportError ELSE Assemble(buses, CimBranches(f), DefaultBase, TRUE)
    BY DEF FromCim, CimBranches, CimVolts, CimKnown, CimFacts, CimSeeds, FactLists, CimItems
  <2>. QED  BY <1>6, <2>1
<1>8. buses = CaseBuses(c)
  <2>1. CimVolts(f) = c.volts
    BY <1>3, VoltsAre
  <2>2. \A b \in DOMAIN c.volts :
           CimBus(f, b, c.volts[b]) = [bus |-> b, kv |-> c.volts[b], slack |-> b = 1, load |-> Watts(c, b), phases |-> {}]
    BY <1>3, CimBusIs
  <2>. QED  BY <1>5, <2>1, <2>2 DEF CaseBuses
<1>9. PICK inOhms \in BOOLEAN : inOhms = TRUE
  OBVIOUS
<1>10. CaseBranches(c, CimBranches(f), inOhms)
  BY <1>3, <1>9, CimCaseBranches
<1>11. Assemble(CaseBuses(c), CimBranches(f), DefaultBase, inOhms) = Imported(Meaning(c))
  <2>1. inOhms \/ DefaultBase = c.sbase
    BY <1>9
  <2>. QED  BY <1>10, <2>1, Assembled
<1>. HIDE DEF buses
<1>. QED  BY <1>7, <1>8, <1>9, <1>11 DEF f

\* The way from an uploaded file to its parser.
Upload(c, way) == [format |-> way.format, quoted |-> way.quoted, content |-> Written(c, way)]

LEMMA WrittenIsRecognised ==
    ASSUME NEW c, NEW way, Writable(c, way), ~Mistaken(way)
    PROVE  way.format \in Formats /\ Resolve(Token(way.asked, way.extension, Upload(c, way))) = way.format
<1> DEFINE file == Upload(c, way)
<1>0. file.format = way.format /\ file.quoted = way.quoted
  BY DEF Upload
<1>1. way.format \in Formats
  BY DEF Writable, Formats
<1>2. way.asked = Absent /\ way.extension = Absent => Sniff(file) = way.format
  <2>. SUFFICES ASSUME way.asked = Absent, way.extension = Absent PROVE Sniff(file) = way.format
    OBVIOUS
  <2>1. (way.format = "rawx" => way.quoted) /\ (way.format = "json" => ~way.quoted)
    BY DEF Mistaken
  <2>. HIDE DEF file
  <2>2. CASE way.format \in {"json", "rawx"}
    <3>1. Sniff(file) = IF file.quoted THEN "rawx" ELSE "json"
      BY <1>0, <2>2 DEF Sniff
    <3>. QED  BY <1>0, <2>1, <2>2, <3>1
  <2>3. CASE way.format \notin {"json", "rawx"}
    BY <1>0, <1>1, <2>3 DEF Sniff, Formats
  <2>. QED  BY <2>2, <2>3
<1>3. /\ way.asked # Absent => way.asked = way.format
      /\ way.extension # Absent => way.extension = way.format \/ (way.format = "cim" /\ way.extension = "xml")
  BY DEF Writable
<1>4. Resolve(way.format) = way.format /\ Resolve("xml") = "cim"
  BY <1>1 DEF Resolve, Formats
<1>5. Resolve(Token(way.asked, way.extension, file)) = way.format
  <2>. HIDE DEF file
  <2>1. CASE way.asked # Absent
    BY <1>3, <1>4, <2>1 DEF Token
  <2>2. CASE way.asked = Absent /\ way.extension # Absent
    BY <1>3, <1>4, <2>2 DEF Token
  <2>3. CASE way.asked = Absent /\ way.extension = Absent
    BY <1>2, <1>4, <2>3 DEF Token
  <2>. QED  BY <2>1, <2>2, <2>3
<1>. QED  BY <1>1, <1>5

LEMMA WrittenIsParsed ==
    ASSUME NEW c, NEW way, Writable(c, way), ~Mistaken(way)
    PROVE  Parse(way.asked, way.extension, Upload(c, way)) =
             CASE way.format = "json" -> Imported(Written(c, way))
               [] way.format = "raw" -> FromRaw(Written(c, way))
               [] way.format = "rawx" -> FromRawx(Written(c, way))
               [] way.format = "cim" -> FromCim(Written(c, way))
               [] way.format = "dss" -> FromDss(Written(c, way))
<1>1. Upload(c, way).format = way.format /\ Upload(c, way).content = Written(c, way)
  BY DEF Upload
<1>. QED  BY <1>1, WrittenIsRecognised DEF Parse

\* What the file says, under the id it is registered with.
SaysIt(way, def, c) ==
    IF way.format = "dss" THEN SameUpToNumbers(def, Meaning(c)) ELSE def = [Meaning(c) EXCEPT !.id = def.id]

LEMMA MeaningNamed ==
    ASSUME NEW c, NEW n
    PROVE  [Meaning(c) EXCEPT !.id = n].id = n
BY DEF Meaning

(* A network that validates, written as ImportCases writes it in any of    *)
(* the formats and dialects, is told by the dispatcher (importers.py       *)
(* parse_network) for the format it is in, and the parser of that format   *)
(* gives back the network the file describes, which validates too.  Left   *)
(* aside are the three cases Misread names: a RAWX load out of service, an *)
(* impedance written as 0 in a v32/33 file, and JSON whose format neither  *)
(* the request nor the name gives and the word "network" gives wrongly.    *)
THEOREM ParsedAsWritten ==
    ASSUME NEW c, NEW way, NEW n, IsCase(c), Text \notin Int, Absent \notin Int,
           Verdict([Meaning(c) EXCEPT !.id = n]) = "ok", Writable(c, way), ~Misread(c, way)
    PROVE  \E net : /\ Parse(way.asked, way.extension, Upload(c, way)) = Imported(net)
                    /\ Verdict([net EXCEPT !.id = n]) = "ok"
                    /\ SaysIt(way, [net EXCEPT !.id = n], c)
<1>1. Accepted(c)
  BY DEF Accepted
<1>0. ~Mistaken(way)
  BY DEF Misread
<1>2. way.format \in Formats
  BY <1>0, WrittenIsRecognised
<1>3. CASE way.format = "dss"
  <2>1. WritableInDss(c, way.names)
    BY <1>3 DEF Writable
  <2>2. Parse(way.asked, way.extension, Upload(c, way)) = FromDss(Dss(c, way.names))
    BY <1>3, <1>0, WrittenIsParsed DEF Written
  <2>3. \E net : /\ FromDss(Dss(c, way.names)) = Imported(net) /\ Verdict([net EXCEPT !.id = n]) = "ok"
                 /\ SameUpToNumbers([net EXCEPT !.id = n], Meaning(c))
    BY <2>1, DssAsWritten
  <2>. QED  BY <1>3, <2>2, <2>3 DEF SaysIt
<1>4. ASSUME way.format # "dss", Parse(way.asked, way.extension, Upload(c, way)) = Imported(Meaning(c))
      PROVE  \E net : /\ Parse(way.asked, way.extension, Upload(c, way)) = Imported(net)
                      /\ Verdict([net EXCEPT !.id = n]) = "ok"
                      /\ SaysIt(way, [net EXCEPT !.id = n], c)
  <2>1. SaysIt(way, [Meaning(c) EXCEPT !.id = n], c)
    BY <1>4, MeaningNamed DEF SaysIt
  <2>. QED  BY <1>4, <2>1
<1>5. CASE way.format = "json"
  <2>1. Parse(way.asked, way.extension, Upload(c, way)) = Imported(Meaning(c))
    BY <1>5, <1>0, WrittenIsParsed DEF Written
  <2>. QED  BY <1>4, <1>5, <2>1
<1>6. CASE way.format = "rawx"
  <2>1. WholeMegawatts(c)
    BY <1>6 DEF Writable
  <2>2. \A k \in DOMAIN c.loads : c.loads[k].on
    BY <1>6 DEF Misread
  <2>3. Parse(way.asked, way.extension, Upload(c, way)) = FromRawx(Rawx(c))
    BY <1>6, <1>0, WrittenIsParsed DEF Written
  <2>4. FromRawx(Rawx(c)) = Imported(Meaning(c))
    BY <1>1, <2>1, <2>2, RawxAsWritten
  <2>. QED  BY <1>4, <1>6, <2>3, <2>4
<1>7. CASE way.format = "cim"
  <2>1. way.si \in BOOLEAN /\ way.changer \in BOOLEAN /\ WritableInCim(c, way.si, way.changer)
    BY <1>7 DEF Writable
  <2>2. Parse(way.asked, way.extension, Upload(c, way)) = FromCim(Cim(c, way.si, way.changer))
    BY <1>7, <1>0, WrittenIsParsed DEF Written
  <2>3. FromCim(Cim(c, way.si, way.changer)) = Imported(Meaning(c))
    BY <1>1, <2>1, CimAsWritten
  <2>. QED  BY <1>4, <1>7, <2>2, <2>3
<1>8. CASE way.format = "raw"
  <2>1. way.cw \in 1..3 /\ way.marked \in BOOLEAN /\ WholeMegawatts(c) /\ (way.cw = 1 \/ TappedWhole(c))
    BY <1>8 DEF Writable
  <2>2. way.marked \/ ZeroFree(c)
    BY <1>8 DEF Misread, ZeroFree
  <2>3. Parse(way.asked, way.extension, Upload(c, way)) =
          FromRaw(IF way.marked THEN Raw34(c, way.cw) ELSE Raw33(c, way.cw))
    BY <1>8, <1>0, WrittenIsParsed DEF Written
  <2>4. CASE way.marked
    <3>1. FromRaw(Raw34(c, way.cw)) = Imported(Meaning(c))
      BY <1>1, <2>1, Raw34AsWritten
    <3>. QED  BY <1>4, <1>8, <2>3, <2>4, <3>1
  <2>5. CASE ~way.marked
    <3>1. FromRaw(Raw33(c, way.cw)) = Imported(Meaning(c))
      BY <1>1, <2>1, <2>2, <2>5, Raw33AsWritten
    <3>. QED  BY <1>4, <1>8, <2>3, <2>5, <3>1
  <2>. QED  BY <2>4, <2>5
<1>. QED  BY <1>2, <1>3, <1>5, <1>6, <1>7, <1>8 DEF Formats

\* Of the files that are uploaded to the registry.
LEMMA ImportsComeOut ==
    ASSUME NEW w \in Writings, NEW n \in ImportIds, ~Misread(Cases[w[1]], w[2])
    PROVE  /\ Import(w, n).ok /\ Import(w, n).content.verdict = "ok"
           /\ SaysIt(w[2], Import(w, n).content.def, Cases[w[1]])
<1> DEFINE c == Cases[w[1]]
           way == w[2]
           parsed == Parse(way.asked, way.extension, Upload(c, way))
<1>1. /\ IsCase(c) /\ Writable(c, way) /\ Text \notin Int /\ Absent \notin Int
      /\ Verdict([Meaning(c) EXCEPT !.id = n]) = "ok"
  BY CaseAssumption
<1>2. PICK net : /\ parsed = Imported(net) /\ Verdict([net EXCEPT !.id = n]) = "ok"
                 /\ SaysIt(way, [net EXCEPT !.id = n], c)
  BY <1>1, ParsedAsWritten
<1>3. Import(w, n) = [of |-> w, ok |-> parsed.ok,
                      content |-> IF parsed.ok THEN Whole([parsed.net EXCEPT !.id = n], w) ELSE NoContent]
  BY DEF Import, Upload
<1>4. parsed.ok /\ parsed.net = net
  BY <1>2 DEF Imported
<1>5. Import(w, n).ok /\ Import(w, n).content = Whole([net EXCEPT !.id = n], w)
  BY <1>3, <1>4
<1>6. Whole([net EXCEPT !.id = n], w).verdict = Verdict([net EXCEPT !.id = n])
      /\ Whole([net EXCEPT !.id = n], w).def = [net EXCEPT !.id = n]
  BY DEF Whole
<1>. QED  BY <1>2, <1>5, <1>6

==============================================================================
