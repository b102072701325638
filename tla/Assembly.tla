------------------------------ MODULE Assembly ------------------------------
(***************************************************************************)
(* The last step of the PSS/E and CIM importers (importers.py _assemble):  *)
(* parsed buses and branches become a network definition.  A parsed bus is *)
(*   [bus, kv, slack, load, phases]   with kv 0 when the file gives none,  *)
(* a parsed branch                                                         *)
(*   [from, to, z, z0, rate, transformer, tap, connection]                 *)
(* with rate 0 when there is none.  Buses are a list in the order the file *)
(* introduces them.                                                        *)
(***************************************************************************)
EXTENDS NetworkModel, FiniteSetsExt, Functions

\* The k-th smallest of a set of numbers, and the elements of a list at a set
\* of places, in order.
Nth(S, k) == CHOOSE n \in S : Cardinality({m \in S : m < n}) = k - 1
Picked(list, at) == [k \in 1..Cardinality(at) |-> list[Nth(at, k)]]

\* What a parser answers when it raises NetworkImportError.
ImportError == [ok |-> FALSE, net |-> Absent]
Imported(net) == [ok |-> TRUE, net |-> net]

Known(buses) == {buses[i].bus : i \in DOMAIN buses}
At(buses, b) == buses[CHOOSE i \in DOMAIN buses : buses[i].bus = b]

\* dict assignments: a bus number met again replaces what it had, in place.
Tabled(parsed) ==
    LET firsts == {i \in DOMAIN parsed : \A j \in 1..(i - 1) : parsed[j].bus # parsed[i].bus}
        latest(b) == parsed[Max({i \in DOMAIN parsed : parsed[i].bus = b})]
    IN [k \in 1..Cardinality(firsts) |-> latest(parsed[Nth(firsts, k)].bus)]

\* Loads, each [bus, load], are added to the buses that are there.
LoadAt(loads, b) ==
    SumFunctionOnSet([k \in DOMAIN loads |-> loads[k].load], {k \in DOMAIN loads : loads[k].bus = b})
WithLoads(buses, loads) ==
    [i \in DOMAIN buses |-> [buses[i] EXCEPT !.load = @ + LoadAt(loads, buses[i].bus)]]

\* The first slack bus, else the lowest number.
SourceOf(buses) ==
    LET slack == {i \in DOMAIN buses : buses[i].slack}
    IN IF slack = {} THEN Min(Known(buses)) ELSE buses[Min(slack)].bus

\* Per unit on the from bus's voltage and the case base (MVA) -> ohms; z is
\* in thousandths either way.
Ohms(z, volts, sbase) == (z * (volts \div 100) * (volts \div 100)) \div (100 * sbase)

\* Unity, and what lies outside the band the model accepts, is left out.
TapKept(tap) == IF tap \in 800..1200 /\ tap # 1000 THEN tap ELSE Absent

Or(v, default) == IF v = 0 THEN default ELSE v

BusEntry(b, base) ==
    [bus |-> b.bus, load |-> b.load, kv |-> Or(b.kv, base),
     phases |-> IF b.phases \in {{}, Letters} THEN Absent ELSE b.phases]

BranchEntry(br, i, buses, base, sbase, inOhms) ==
    LET scaled(z) == IF inOhms THEN z ELSE Ohms(z, Or(At(buses, br.from).kv, base), sbase)
        least(z) == IF z < 0 THEN 0 ELSE z
    IN [id |-> i, from |-> br.from, to |-> br.to, z |-> least(scaled(br.z)),
        z0 |-> IF br.z0 = Absent THEN Absent ELSE least(scaled(br.z0)),
        rating |-> Or(br.rate, sbase), transformer |-> br.transformer, oltc |-> FALSE,
        connection |-> IF br.transformer THEN br.connection ELSE Absent,
        tap |-> IF br.transformer /\ br.tap # Absent THEN TapKept(br.tap) ELSE Absent]

\* Branches to unknown buses and loops are dropped, and keep their number.
Assemble(buses, branches, sbase, inOhms) ==
    LET source == SourceOf(buses)
        base == Or(At(buses, source).kv, 1000)
        usable == {i \in DOMAIN branches : /\ branches[i].from # branches[i].to
                                           /\ {branches[i].from, branches[i].to} \subseteq Known(buses)}
    IN IF DOMAIN buses = {} \/ usable = {} THEN ImportError
       ELSE Imported([id |-> Absent, kv |-> base, source |-> source,
                buses |-> [k \in DOMAIN buses |-> BusEntry(At(buses, Nth(Known(buses), k)), base)],
                branches |-> [k \in 1..Cardinality(usable) |->
                    LET i == Nth(usable, k) IN BranchEntry(branches[i], i, buses, base, sbase, inOhms)]])
=============================================================================
