---------------------------- MODULE NetworkModel ----------------------------
(***************************************************************************)
(* What the simulation engine accepts as a network (network/model.py): a   *)
(* definition names its base voltage and source bus, and lists buses       *)
(*   [bus, load, kv, phases]      kv and phases may be Absent              *)
(* and branches                                                            *)
(*   [id, from, to, z, z0, rating, transformer, oltc, connection, tap]     *)
(* One number stands for an R/X or kW/kvar pair, which the code treats     *)
(* alike.  Voltages are in volts, loads in watts, taps in 1/1000 p.u.      *)
(***************************************************************************)
EXTENDS Integers, Sequences, FiniteSetsExt

CONSTANTS
    Absent,  \* a key the definition does not have
    Text,    \* a value float() and int() refuse
    Slugs    \* the ids _ID_RE matches

Letters == {"a", "b", "c"}
BusIds(d) == {d.buses[i].bus : i \in DOMAIN d.buses}
BusOf(d, b) == d.buses[CHOOSE i \in DOMAIN d.buses : d.buses[i].bus = b]
BusKv(d, b) == IF BusOf(d, b).kv = Absent THEN d.kv ELSE BusOf(d, b).kv

Negative(v) == v \in Int /\ v < 0
NotPositive(v) == v = Text \/ (v \in Int /\ v <= 0)
NumbersBefore(seq, i, v) == \E j \in 1..(i - 1) : seq[j] = v

\* The first check that fails decides.
FirstFault(faults) ==
    LET met == {i \in DOMAIN faults : faults[i] # "none"}
    IN IF met = {} THEN "none" ELSE faults[Min(met)]

HeaderFault(d) ==
    IF \/ d.id \notin Slugs \/ NotPositive(d.kv)
       \/ Len(d.buses) < 2 \/ Len(d.branches) < 1
    THEN "invalid" ELSE "none"

\* A load that is no number is not caught: the conversion's own error escapes.
BusFault(d, i) ==
    LET b == d.buses[i] IN
    IF b.bus = Text \/ NumbersBefore([j \in DOMAIN d.buses |-> d.buses[j].bus], i, b.bus)
    THEN "invalid"
    ELSE IF b.load = Text THEN "raises"
    ELSE IF \/ Negative(b.load) \/ NotPositive(b.kv)
            \/ b.phases # Absent /\ b.phases \intersect Letters = {}
    THEN "invalid" ELSE "none"

SourceFault(d) ==
    IF d.source = Text THEN "raises"
    ELSE IF d.source \notin BusIds(d) THEN "invalid" ELSE "none"

OnlyOnTransformers(br) ==
    br.transformer \/ (~br.oltc /\ br.connection = Absent /\ br.tap = Absent)

\* Words are noticed by the conversion that a check begins with.
Check(words, wrong) == IF words THEN "raises" ELSE IF wrong THEN "invalid" ELSE "none"

BranchFault(d, i) ==
    LET br == d.branches[i]
        spans == ~br.transformer /\ BusKv(d, br.from) # BusKv(d, br.to)
        wrongTap == br.tap = Text \/ (br.tap \in Int /\ br.tap \notin 800..1200)
    IN FirstFault(
         <<Check(FALSE, Absent \in {br.id, br.from, br.to, br.z}),
           Check(br.id = Text, NumbersBefore([j \in DOMAIN d.branches |-> d.branches[j].id], i, br.id)),
           Check(Text \in {br.from, br.to}, ~({br.from, br.to} \subseteq BusIds(d)) \/ br.from = br.to),
           Check(br.z = Text, Negative(br.z)),
           Check(br.z0 = Text, Negative(br.z0)),
           Check(br.rating = Text, NotPositive(br.rating)),
           Check(FALSE, spans \/ ~OnlyOnTransformers(br)
                        \/ br.connection \notin {Absent, "wye_wye", "delta_wye"} \/ wrongTap)>>)

\* A part of the network, with the buses one branch further on.
WithNeighbours(d, part) ==
    part \union UNION {IF d.branches[i].from \in part \/ d.branches[i].to \in part
                       THEN {d.branches[i].from, d.branches[i].to} ELSE {} : i \in DOMAIN d.branches}

\* The buses the walk from the source gets to: no path is longer than the list.
Reached(d) ==
    LET within[n \in Nat] == IF n = 0 THEN {d.source} ELSE WithNeighbours(d, within[n - 1])
    IN within[Len(d.buses)]

\* Mutant: the connectivity check starts from every bus.
IslandNever(d) == "none"

IslandFault(d) == IF BusIds(d) \subseteq Reached(d) THEN "none" ELSE "invalid"

\* What is raised: NetworkValidationError, or an error
\* validate_network_dict did not mean to raise.
Verdict(d) ==
    LET fault == FirstFault(<<HeaderFault(d), FirstFault([i \in DOMAIN d.buses |-> BusFault(d, i)]),
                              SourceFault(d), FirstFault([i \in DOMAIN d.branches |-> BranchFault(d, i)]),
                              IslandFault(d)>>)
    IN IF fault = "none" THEN "ok" ELSE fault
=============================================================================
