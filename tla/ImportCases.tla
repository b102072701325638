----------------------------- MODULE ImportCases -----------------------------
(***************************************************************************)
(* One network, written in the formats the importers read.  A case is      *)
(*   sbase, volts <<of bus 1, of bus 2, ...>>, loads <<[bus, on, watts]>>, *)
(*   lines <<[from, to, z, rate]>>, z in thousandths of per unit,          *)
(*   transformers <<[from, to, z, rate, tap, delta, zero]>>, from the      *)
(*   high-voltage side; zero says that z is written with the token 0       *)
(* Bus 1 is the source.  Meaning is what the case says; the writers follow *)
(* the formats, as the tests' sample files do.                             *)
(***************************************************************************)
EXTENDS NetworkImport

AboveZero == Nat \ {0}
LineOf(buses) == [from : buses, to : buses, z : Nat, rate : AboveZero]
TransformerOf(buses) ==
    [from : buses, to : buses, z : Nat, rate : AboveZero, tap : AboveZero, delta : BOOLEAN, zero : BOOLEAN]
IsCase(c) ==
    /\ c.sbase \in AboveZero /\ c.volts \in Seq(AboveZero)
    /\ c.loads \in Seq([bus : DOMAIN c.volts, on : BOOLEAN, watts : Nat])
    /\ c.lines \in Seq(LineOf(DOMAIN c.volts)) /\ c.transformers \in Seq(TransformerOf(DOMAIN c.volts))

\* Lines come before transformers.
BranchIds(c) == 1..(Len(c.lines) + Len(c.transformers))
Wound(c, i) == i > Len(c.lines)
BranchAt(c, i) == IF Wound(c, i) THEN c.transformers[i - Len(c.lines)] ELSE c.lines[i]
CaseOhms(c, i) == Ohms(BranchAt(c, i).z, c.volts[BranchAt(c, i).from], c.sbase)

\* The load of a bus, of what is in service there.
Watts(c, b) ==
    SumFunctionOnSet([k \in DOMAIN c.loads |-> c.loads[k].watts],
                     {k \in DOMAIN c.loads : c.loads[k].bus = b /\ c.loads[k].on})

\* The network a case describes, without an id.
Meaning(c) ==
    LET unit(tap) == tap = 1000 \/ tap < 800 \/ tap > 1200
    IN [id |-> Absent, kv |-> c.volts[1], source |-> 1,
        buses |-> [b \in DOMAIN c.volts |->
            [bus |-> b, load |-> Watts(c, b), kv |-> c.volts[b], phases |-> Absent]],
        branches |-> [i \in BranchIds(c) |->
            LET br == BranchAt(c, i) IN
            [id |-> i, from |-> br.from, to |-> br.to, z |-> CaseOhms(c, i), z0 |-> Absent,
             rating |-> br.rate, transformer |-> Wound(c, i), oltc |-> FALSE,
             connection |-> IF ~Wound(c, i) THEN Absent ELSE IF br.delta THEN "delta_wye" ELSE "wye_wye",
             tap |-> IF ~Wound(c, i) THEN Absent ELSE IF unit(br.tap) THEN Absent ELSE br.tap]]]

-----------------------------------------------------------------------------
(* PSS/E RAW, in either dialect, with the ratios in the unit CW says.      *)

Rec(f) == [what |-> "record", words |-> {}, zero |-> FALSE, f |-> f]
Records(seq) == [i \in DOMAIN seq |-> Rec(seq[i])]

BusRecords(c) == Records([b \in DOMAIN c.volts |-> <<b, c.volts[b], IF b = 1 THEN 3 ELSE 1>>])
LoadRecords(c) ==
    Records([k \in DOMAIN c.loads |->
        <<c.loads[k].bus, IF c.loads[k].on THEN 1 ELSE 0, c.loads[k].watts \div 1000>>])
\* v34 writes a name before the ratings; an open metered end is a negative number.
BranchRecords(c, named) ==
    Records([i \in DOMAIN c.lines |->
        LET br == c.lines[i] IN
        IF named THEN <<br.from, -br.to, br.z, Text, br.rate, 0>> ELSE <<br.from, -br.to, br.z, br.rate, 0>>])

\* [WINDV, NOMV].
WindingAs(volts, tap, cw) ==
    CASE cw = 1 -> <<tap, 0>>
      [] cw = 2 -> <<(volts * tap) \div 1000, 0>>
      [] cw = 3 -> <<1000, (volts * tap) \div 1000>>
TransformerRecord(c, br, cw) ==
    LET from == WindingAs(c.volts[br.from], 1000, cw)
    IN <<Rec(<<br.from, br.to, 0, cw>>), [Rec(<<br.z, 100>>) EXCEPT !.zero = br.zero],
         Rec(<<from[1], from[2], IF br.delta THEN -30 ELSE 0, br.rate>>),
         Rec(WindingAs(c.volts[br.to], br.tap, cw))>>
TransformerRecords(c, cw) ==
    FlattenSeq([i \in DOMAIN c.transformers |-> TransformerRecord(c, c.transformers[i], cw)])
\* A three-winding transformer, which has one line more and is left out.
ThreeWinding == Records(<<<<1, 2, 3, 1>>, <<40, 100>>, <<1000, 0, 0, 5>>, <<1000, 0>>, <<1000, 0>>>>)

Heading(c) == <<Rec(<<0, c.sbase>>), Rec(<<Text>>), Rec(<<Text>>)>>
Bare(words) == <<[what |-> "bare", words |-> words, zero |-> TRUE, f |-> <<0>>]>>
Raw33(c, cw) ==
    FlattenSeq(<<Heading(c), BusRecords(c), Bare({"load"}), LoadRecords(c),
                 Bare({"fixed", "shunt"}), Records(<<<<2, 1, 7>>>>),
                 Bare({"branch"}), BranchRecords(c, FALSE),
                 Bare({"transformer"}), ThreeWinding \o TransformerRecords(c, cw),
                 Bare({"area"}), Records(<<<<1, 2, 3>>>>), Bare({})>>)

Mark(what, words) == [what |-> what, words |-> words, zero |-> FALSE, f |-> <<Text>>]
Label == Mark("label", {})
Begin(words) == <<Mark("begin", words), Label>>
End == <<Mark("end", {})>>
Raw34(c, cw) ==
    FlattenSeq(<<<<Label>> \o Heading(c),
                 Begin({"system", "wide"}), Records(<<<<Text>>>>), End,
                 Begin({"bus"}), BusRecords(c), End,
                 Begin({"load"}), LoadRecords(c), End,
                 Begin({"non", "transformer", "branch"}), BranchRecords(c, TRUE), End,
                 Begin({"transformer"}), ThreeWinding \o TransformerRecords(c, cw), End,
                 Begin({"area"}), Records(<<<<1, 2, 3>>>>), End>>)

Rawx(c) ==
    [sbase |-> c.sbase,
     bus |-> [b \in DOMAIN c.volts |-> [bus |-> b, kv |-> c.volts[b], ide |-> IF b = 1 THEN 3 ELSE 1]],
     load |-> [k \in DOMAIN c.loads |->
                 [bus |-> c.loads[k].bus, status |-> IF c.loads[k].on THEN 1 ELSE 0,
                  load |-> c.loads[k].watts \div 1000]],
     acline |-> c.lines,
     transformer |-> [i \in DOMAIN c.transformers |->
                 LET br == c.transformers[i] IN
                 [from |-> br.from, to |-> br.to, k |-> 0, z |-> br.z, rate |-> br.rate, cw |-> 1,
                  windv1 |-> 1000, nomv1 |-> 0, windv2 |-> br.tap, nomv2 |-> 0,
                  angle |-> IF br.delta THEN -30 ELSE 0]]]

-----------------------------------------------------------------------------
(* CIM.  Only the source's voltage level is given; the other voltages are  *)
(* the windings'.  Units are volts and watts, or kV and MW.  The tap is in *)
(* the rated voltage or, by a tap changer, in its ratio.                   *)

\* What is in service.
OnLoads(c) == Picked(c.loads, {k \in DOMAIN c.loads : c.loads[k].on})

\* What is in the file has the numbers 1 to B for branches, B + k for load k, 0
\* for the grid and -j for winding j.  Each branch has two terminals.
CimTerminals(c) ==
    LET n == Len(c.lines) + Len(c.transformers)
        on == OnLoads(c)
        terminal(j, node, equip) == [id |-> j, node |-> node, equip |-> equip, phases |-> {}]
    IN [j \in 1..(2 * n + Len(on) + 1) |->
          IF j <= n THEN terminal(j, BranchAt(c, j).from, j)
          ELSE IF j <= 2 * n THEN terminal(j, BranchAt(c, j - n).to, j - n)
          ELSE IF j <= 2 * n + Len(on) THEN terminal(j, on[j - 2 * n].bus, j - n)
          ELSE terminal(j, 1, 0)]

\* The windings on the low side come first; only those of the first
\* transformer name their terminals.
CimEnds(c, si, changer) ==
    LET n == Len(c.transformers)
        volts(v) == IF si THEN v * 1000 ELSE v
        winding(j, i, number, bus, tap, terminal) ==
            LET br == c.transformers[i] IN
            [id |-> -j, pt |-> Len(c.lines) + i,
             terminal |-> IF i = 1 THEN terminal ELSE Absent, number |-> number,
             ratedU |-> volts((c.volts[bus] * (IF changer THEN 1000 ELSE tap)) \div 1000),
             base |-> c.volts[bus], own |-> Absent, level |-> Absent,
             ratio |-> IF changer THEN tap ELSE 1000,
             delta |-> number = 1 /\ br.delta, ratedS |-> IF number = 1 THEN br.rate ELSE 0,
             z |-> IF number = 1 THEN CaseOhms(c, Len(c.lines) + i) ELSE 0]
        low(i) == winding(i, i, 2, c.transformers[i].to, c.transformers[i].tap, 2 * Len(c.lines) + n + 1)
        high(i) == winding(n + i, i, 1, c.transformers[i].from, 1000, Len(c.lines) + 1)
    IN [j \in 1..(2 * n) |-> IF j <= n THEN low(j) ELSE high(j - n)]

\* Every other line is limited in megavolt-amperes; other limits of it are
\* short-term, or wider.
CimLimits(c) ==
    LET n == Len(c.lines)
        limit(i, amps, continuous, value) ==
            [terminal |-> i, equip |-> Absent, amps |-> amps, continuous |-> continuous, value |-> value]
        current(i) == (c.lines[i].rate * 1000) \div c.volts[c.lines[i].from]
        first(i) == IF i % 2 = 1 THEN limit(i, FALSE, TRUE, c.lines[i].rate) ELSE limit(i, TRUE, FALSE, 1)
        second(i) == IF i % 2 = 1 THEN limit(i, FALSE, FALSE, 1) ELSE limit(i, TRUE, TRUE, current(i))
        third(i) == limit(i, TRUE, TRUE, current(i) + 1)
    IN [j \in 1..(3 * n) |-> IF j <= n THEN first(j) ELSE IF j <= 2 * n THEN second(j - n) ELSE third(j - 2 * n)]

Cim(c, si, changer) ==
    LET volts(v) == IF si THEN v * 1000 ELSE v
        watts(w) == IF si THEN w * 1000 ELSE w \div 1000
        levels == {c.volts[b] : b \in DOMAIN c.volts}
        on == OnLoads(c)
    IN [base |-> [v \in levels |-> volts(v)], level |-> [v \in levels |-> v],
        nodes |-> [b \in DOMAIN c.volts |-> [id |-> b, level |-> IF b = 1 THEN c.volts[1] ELSE Absent]],
        terminals |-> CimTerminals(c),
        lines |-> [i \in DOMAIN c.lines |->
            [id |-> i, base |-> Absent, level |-> Absent, z |-> CaseOhms(c, i), z0 |-> Absent]],
        ends |-> CimEnds(c, si, changer), limits |-> CimLimits(c),
        consumers |-> [k \in DOMAIN on |-> [id |-> Len(c.lines) + Len(c.transformers) + k, p |-> watts(on[k].watts), phases |-> {}]],
        injections |-> <<0>>]

-----------------------------------------------------------------------------
(* OpenDSS, whose subset keeps neither taps nor vector groups.  names[i]   *)
(* is bus i's name, and buses are numbered by their names.                 *)

Dss(c, names) ==
    <<[element |-> "circuit", bus |-> names[1], kv |-> c.volts[1]]>>
    \o [b \in DOMAIN c.volts |-> [element |-> "load", bus |-> names[b], load |-> Watts(c, b)]]
    \o [i \in DOMAIN c.lines |->
          LET br == c.lines[i] IN
          [element |-> "line", bus1 |-> names[br.from], bus2 |-> names[br.to], length |-> 1,
           z |-> CaseOhms(c, i), amps |-> (br.rate * 1000) \div c.volts[1]]]
    \o [i \in DOMAIN c.transformers |->
          LET br == c.transformers[i] IN
          [element |-> "transformer", buses |-> <<names[br.from], names[br.to]>>,
           kvs |-> <<c.volts[br.from], c.volts[br.to]>>, kva |-> br.rate,
           \* on the transformer's own rating
           z |-> (br.z * br.rate) \div c.sbase]]

\* The same network, up to what numbers the buses have: bus i of the file is
\* bus i of the case.
SameUpToNumbers(net, meant) ==
    LET at(b) == CHOOSE i \in DOMAIN net.buses : net.buses[i].bus = b
        volts(i) == IF net.buses[i].kv = Absent THEN net.kv ELSE net.buses[i].kv
    IN /\ Len(net.buses) = Len(meant.buses)
       /\ Cardinality(Known(net.buses)) = Len(meant.buses)
       /\ \A i \in DOMAIN net.buses : /\ net.buses[i].load = meant.buses[i].load
                                      /\ volts(i) = meant.buses[i].kv
       /\ at(net.source) = meant.source
       /\ Len(net.branches) = Len(meant.branches)
       /\ \A i \in DOMAIN net.branches :
             LET br == net.branches[i]
                 m == meant.branches[i]
             IN /\ <<at(br.from), at(br.to)>> = <<m.from, m.to>>
                /\ <<br.z, br.rating, br.transformer>> = <<m.z, m.rating, m.transformer>>

-----------------------------------------------------------------------------
(* What a format can write: the numbers come out whole in its units, and   *)
(* the file is called what it is.                                          *)

Whole1000(n) == n % 1000 = 0
TappedWhole(c) == \A i \in DOMAIN c.transformers : Whole1000(c.volts[c.transformers[i].to] * c.transformers[i].tap)

\* The reader tells volts from kilovolts by the largest of a file, and watts
\* from megawatts: a file in volts has a level of a kilovolt or more, a file in
\* watts a load of a kilowatt or more, and one in kilovolts or megawatts none
\* of a thousand.  The source side of a transformer is rated above its other one.
WritableInCim(c, si, changer) ==
    LET ratedOf(br) == IF changer THEN c.volts[br.to] ELSE (c.volts[br.to] * br.tap) \div 1000
        rated == {ratedOf(c.transformers[i]) : i \in DOMAIN c.transformers}
        levels == {c.volts[b] : b \in DOMAIN c.volts}
        watts == {c.loads[k].watts : k \in {j \in DOMAIN c.loads : c.loads[j].on}}
    IN /\ changer \/ TappedWhole(c)
       /\ \A i \in DOMAIN c.lines : i % 2 = 1 \/ (c.lines[i].rate * 1000) % c.volts[c.lines[i].from] = 0
       /\ \A i \in DOMAIN c.transformers :
             ratedOf(c.transformers[i]) <= c.volts[c.transformers[i].from]
       /\ IF si THEN (\E v \in levels : v >= 1000) /\ (watts = {} \/ \E w \in watts : w >= 1000)
          ELSE /\ \A v \in levels \union rated : v < 1000 * 1000
               /\ \A w \in watts : Whole1000(w) /\ w < 1000 * 1000 * 1000

\* All levels a transformer does not give are the circuit's, and so are the
\* voltages the currents are on.
WritableInDss(c, names) ==
    LET ends == UNION {{c.transformers[i].from, c.transformers[i].to} : i \in DOMAIN c.transformers}
    IN /\ names \in [DOMAIN c.volts -> [text : {names[b].text : b \in DOMAIN names}, number : Nat \union {Absent}]]
       /\ \A a, b \in DOMAIN c.volts : names[a] = names[b] => a = b
       /\ \A b \in DOMAIN c.volts \ ends : c.volts[b] = c.volts[1]
       /\ \A i \in DOMAIN c.lines : (c.lines[i].rate * 1000) % c.volts[1] = 0
       /\ \A i \in DOMAIN c.transformers : (c.transformers[i].z * c.transformers[i].rate) % c.sbase = 0

\* With neither the format nor an extension given, JSON is taken for RAWX when
\* the word "network" stands in it, as in RAWX's outermost object, which may be
\* left out.
Mistaken(way) ==
    /\ way.asked = Absent /\ way.extension = Absent
    /\ \/ way.format = "rawx" /\ ~way.quoted
       \/ way.format = "json" /\ way.quoted

WholeMegawatts(c) == \A k \in DOMAIN c.loads : Whole1000(c.loads[k].watts)
Writable(c, way) ==
    /\ way.quoted \in BOOLEAN
    /\ way.asked \in {Absent, way.format}
    /\ way.extension \in {Absent, way.format} \union (IF way.format = "cim" THEN {"xml"} ELSE {})
    /\ CASE way.format = "raw" -> /\ way.cw \in 1..3 /\ way.marked \in BOOLEAN
                                  /\ WholeMegawatts(c) /\ (way.cw = 1 \/ TappedWhole(c))
         [] way.format = "rawx" -> WholeMegawatts(c)
         [] way.format = "cim" -> /\ way.si \in BOOLEAN /\ way.changer \in BOOLEAN
                                  /\ WritableInCim(c, way.si, way.changer)
         [] way.format = "dss" -> WritableInDss(c, way.names)
         [] way.format = "json" -> TRUE
         [] OTHER -> FALSE
=============================================================================
