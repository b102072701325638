------------------------------ MODULE CimImport ------------------------------
(***************************************************************************)
(* CIM / CGMES files (importers.py from_cim).  A file c holds              *)
(*   base       base voltage id -> nominal voltage, in the file's unit     *)
(*   level      voltage level id -> base voltage id                        *)
(*   nodes      <<[id, level]>>: node i becomes bus i                      *)
(*   terminals  <<[id, node, equip, phases]>>                              *)
(*   lines      <<[id, base, level, z, z0]>>, in thousandths of an ohm     *)
(*   ends       <<[id, pt, terminal, number, ratedU, base, own, level,     *)
(*                 ratio, delta, ratedS, z]>>: windings; own and level     *)
(*                 are those of any equipment, ratio the tap changer's     *)
(*   limits     <<[terminal, equip, amps, continuous, value]>>             *)
(*   consumers  <<[id, p, phases]>>, injections <<id>>                     *)
(* Numbers are thousandths, references Absent when missing; an ampere is   *)
(* the current that makes a megavolt-ampere of a kilovolt.                 *)
(***************************************************************************)
EXTENDS PsseImport, SequencesExt

\* A file is in volts, or in watts, when its largest value is 1000 or more.
Big(values) == \E v \in values : Magnitude(v) >= 1000 * 1000
InVolts(c) == Big({c.base[b] : b \in DOMAIN c.base} \union {c.ends[i].ratedU : i \in DOMAIN c.ends})
InWatts(c) == Big({c.consumers[i].p : i \in DOMAIN c.consumers})
ToVolts(c, v) == IF InVolts(c) THEN v \div 1000 ELSE v
ToWatts(c, p) == IF InWatts(c) THEN p \div 1000 ELSE 1000 * p

BaseVolts(c, b) == IF b \in DOMAIN c.base THEN ToVolts(c, c.base[b]) ELSE 0
LevelVolts(c, l) == IF l \in DOMAIN c.level THEN BaseVolts(c, c.level[l]) ELSE 0
EquipVolts(c, e) == Or(BaseVolts(c, e.base), LevelVolts(c, e.level))

\* The bus a node, or a terminal, is: 0 for none.
NodeBus(c, n) ==
    LET at == {i \in DOMAIN c.nodes : c.nodes[i].id = n} IN IF at = {} THEN 0 ELSE Max(at)
TerminalBus(c, t) ==
    LET at == {i \in DOMAIN c.terminals : c.terminals[i].id = t /\ c.terminals[i].node # Absent}
    IN IF at = {} THEN 0 ELSE NodeBus(c, c.terminals[Max(at)].node)

\* The bus of an equipment's k-th terminal that is at one.
EquipBus(c, e, k) ==
    LET own == {i \in DOMAIN c.terminals : c.terminals[i].equip = e /\ NodeBus(c, c.terminals[i].node) # 0}
    IN IF Cardinality(own) < k THEN 0 ELSE NodeBus(c, c.terminals[Nth(own, k)].node)

LimitEquip(c, limit) ==
    LET at == {i \in DOMAIN c.terminals : c.terminals[i].id = limit.terminal /\ c.terminals[i].equip # Absent}
    IN IF at = {} THEN limit.equip ELSE c.terminals[Max(at)].equip
LimitsOf(c, e, amps) ==
    {c.limits[i].value : i \in {j \in DOMAIN c.limits :
        /\ c.limits[j].continuous /\ c.limits[j].amps = amps /\ c.limits[j].value > 0
        /\ LimitEquip(c, c.limits[j]) = e}}

\* The lowest continuous apparent-power limit of an equipment, 0 without one.
MvaLimit(c, e) == IF LimitsOf(c, e, FALSE) = {} THEN 0 ELSE Min(LimitsOf(c, e, FALSE))

-----------------------------------------------------------------------------
(* What a file says of its buses' voltages, as a list of [bus, volts].  A  *)
(* branch that was read is [equip, facts, branch].                         *)

Fact(bus, volts) == [bus |-> bus, volts |-> volts]

\* setdefault: the first fact about a bus stays.
Firsts(facts) ==
    LET proper == {i \in DOMAIN facts : facts[i].bus # 0 /\ facts[i].volts # 0}
    IN Picked(facts, {i \in proper : \A j \in proper : j < i => facts[j].bus # facts[i].bus})

CimLine(c, e) ==
    LET from == EquipBus(c, e.id, 1)
        to == EquipBus(c, e.id, 2)
    IN [equip |-> e.id, facts |-> <<Fact(from, EquipVolts(c, e)), Fact(to, EquipVolts(c, e))>>,
        branch |-> [Line(from, to, e.z, MvaLimit(c, e.id)) EXCEPT !.z0 = e.z0]]
CimLines(c) ==
    LET spanned == Picked(c.lines, {i \in DOMAIN c.lines : EquipBus(c, c.lines[i].id, 2) # 0})
    IN [k \in DOMAIN spanned |-> CimLine(c, spanned[k])]

\* Windings, by their places in the file.
Ends(c, pt) == {i \in DOMAIN c.ends : c.ends[i].pt = pt}
EndNumber(c, i) == Or(c.ends[i].number, 99)
NumberedBefore(c, i, j) ==
    EndNumber(c, i) < EndNumber(c, j) \/ (EndNumber(c, i) = EndNumber(c, j) /\ i < j)
RatedAbove(c, i, j) ==
    \/ c.ends[i].ratedU > c.ends[j].ratedU
    \/ c.ends[i].ratedU = c.ends[j].ratedU /\ NumberedBefore(c, i, j)

\* The bus of a winding: its own terminal's, or, when those do not name two
\* buses, the transformer's first two terminals in the order of the numbers.
EndBus(c, i) ==
    LET pt == c.ends[i].pt
        own == {TerminalBus(c, c.ends[j].terminal) : j \in Ends(c, pt)} \ {0}
        rank == Cardinality({j \in Ends(c, pt) : NumberedBefore(c, j, i)}) + 1
    IN IF Cardinality(own) >= 2 \/ EquipBus(c, pt, 2) = 0 \/ rank > 2
       THEN TerminalBus(c, c.ends[i].terminal) ELSE EquipBus(c, pt, rank)

EndVolts(c, i) == Or(BaseVolts(c, c.ends[i].base), ToVolts(c, c.ends[i].ratedU))
\* Rated over nominal voltage, times the tap changer's ratio.
EndRatio(c, i) ==
    LET e == c.ends[i]
        nominal == IF e.base \in DOMAIN c.base THEN c.base[e.base] ELSE 0
        ratio == IF nominal # 0 /\ e.ratedU # 0 THEN (e.ratedU * 1000) \div nominal ELSE 1000
    IN (ratio * e.ratio) \div 1000

\* From the winding of the highest rated voltage to that of the lowest.
Windings(c, pt) == {i \in Ends(c, pt) : EndBus(c, i) # 0}
HighEnd(c, pt) ==
    CHOOSE i \in Windings(c, pt) : \A j \in Windings(c, pt) : j # i => RatedAbove(c, i, j)
LowEnd(c, pt) ==
    CHOOSE i \in Windings(c, pt) : \A j \in Windings(c, pt) : j # i => RatedAbove(c, j, i)
IsGrouped(c, pt) ==
    /\ pt # Absent /\ Cardinality({EndBus(c, i) : i \in Windings(c, pt)}) >= 2
    /\ EndBus(c, HighEnd(c, pt)) # EndBus(c, LowEnd(c, pt))

\* A limit on the transformer, else the first on a winding, else its rating.
GroupRate(c, pt) ==
    LET limited == {i \in Ends(c, pt) : MvaLimit(c, c.ends[i].id) # 0}
    IN IF MvaLimit(c, pt) # 0 THEN MvaLimit(c, pt)
       ELSE IF limited # {} THEN MvaLimit(c, c.ends[Min(limited)].id)
       ELSE Max({c.ends[i].ratedS : i \in Ends(c, pt)})

GroupedTransformer(c, pt) ==
    LET high == HighEnd(c, pt)
        low == LowEnd(c, pt)
        z == SumFunctionOnSet([i \in DOMAIN c.ends |-> c.ends[i].z], Ends(c, pt))
    IN [equip |-> pt,
        facts |-> Picked([i \in DOMAIN c.ends |-> Fact(EndBus(c, i), EndVolts(c, i))], Ends(c, pt)),
        branch |-> Transformer(EndBus(c, high), EndBus(c, low), z, GroupRate(c, pt),
                       Tap(EndRatio(c, high), EndRatio(c, low)),
                       IF c.ends[high].delta /\ ~c.ends[low].delta THEN "delta_wye" ELSE "wye_wye")]

\* A winding with both terminals of its own.
SingleTransformer(c, e) ==
    LET from == EquipBus(c, e.id, 1)
        volts == EquipVolts(c, [base |-> e.own, level |-> e.level])
    IN [equip |-> e.id, facts |-> <<Fact(from, Or(volts, ToVolts(c, e.ratedU)))>>,
        branch |-> Transformer(from, EquipBus(c, e.id, 2), e.z, Or(MvaLimit(c, e.id), e.ratedS), Absent,
                       IF e.delta THEN "delta_wye" ELSE "wye_wye")]

CimTransformers(c) ==
    LET grouped == {i \in DOMAIN c.ends : IsGrouped(c, c.ends[i].pt)}
        heads == Picked(c.ends, {i \in grouped : \A j \in Ends(c, c.ends[i].pt) : i <= j})
        alone == Picked(c.ends, {i \in DOMAIN c.ends \ grouped : EquipBus(c, c.ends[i].id, 2) # 0})
    IN [k \in DOMAIN heads |-> GroupedTransformer(c, heads[k].pt)]
       \o [k \in DOMAIN alone |-> SingleTransformer(c, alone[k])]

\* The k-th of the queue hands its voltage on, along lines, to the neighbours
\* that are not in it yet.
HandOn(queue, k, items) ==
    LET b == queue[k].bus
        beside == {i \in DOMAIN items : /\ ~items[i].branch.transformer
                                        /\ b \in {items[i].branch.from, items[i].branch.to}}
        other(i) == IF items[i].branch.from = b THEN items[i].branch.to ELSE items[i].branch.from
        new == {i \in beside : /\ other(i) \notin Known(queue)
                               /\ \A j \in beside : j < i => other(j) # other(i)}
    IN IF k > Len(queue) THEN queue
       ELSE queue \o [m \in 1..Cardinality(new) |-> Fact(other(Nth(new, m)), queue[k].volts)]

\* Breadth first from every known bus: each of the n buses is queued once.
Spread(known, items, n) ==
    LET queue[k \in 0..n] == IF k = 0 THEN known ELSE HandOn(queue[k - 1], k, items)
    IN queue[n]

-----------------------------------------------------------------------------

\* Current limits wait for the voltages; the tighter limit of the two wins.
CurrentLimited(c, volts, item) ==
    LET kv == Or(volts[item.branch.from], volts[item.branch.to])
        mva == {(kv * amps) \div 1000 : amps \in LimitsOf(c, item.equip, TRUE)}
    IN IF mva = {} \/ kv = 0 THEN item.branch
       ELSE [item.branch EXCEPT !.rate = Min(mva \union ({item.branch.rate} \ {0}))]

\* A consumer's own phases, else those of its terminals; a bus has the union.
ConsumerPhases(c, ec) ==
    IF ec.phases # {} THEN ec.phases
    ELSE UNION {c.terminals[i].phases : i \in {j \in DOMAIN c.terminals : c.terminals[j].equip = ec.id}}
CimBus(c, b, volts) ==
    LET fed == {k \in DOMAIN c.consumers : EquipBus(c, c.consumers[k].id, 1) = b}
    IN [bus |-> b, kv |-> volts,
        slack |-> \E i \in DOMAIN c.injections : EquipBus(c, c.injections[i], 1) = b,
        load |-> SumFunctionOnSet([k \in DOMAIN c.consumers |-> ToWatts(c, c.consumers[k].p)], fed),
        phases |-> UNION {ConsumerPhases(c, c.consumers[k]) \intersect Letters : k \in fed}]

FromCim(c) ==
    LET items == CimLines(c) \o CimTransformers(c)
        seeds == [b \in DOMAIN c.nodes |-> Fact(b, LevelVolts(c, c.nodes[b].level))]
        facts == seeds \o FlattenSeq([i \in DOMAIN items |-> items[i].facts])
        known == Spread(Firsts(facts), items, Len(c.nodes))
        volts == [b \in DOMAIN c.nodes |-> IF b \in Known(known) THEN At(known, b).volts ELSE 0]
    IN IF c.nodes = <<>> THEN ImportError
       ELSE Assemble([b \in DOMAIN c.nodes |-> CimBus(c, b, volts[b])],
                     [i \in DOMAIN items |-> CurrentLimited(c, volts, items[i])], DefaultBase, TRUE)
==============================================================================
