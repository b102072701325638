-------------------------- MODULE MCSimulationEngine --------------------------
(* Two ids and a dropped-in file; a four-bus case in every format; studies   *)
(* of two buses, two sites and two intervals, one at a time.                 *)
EXTENDS SimulationEngine

-----------------------------------------------------------------------------
(* The registry.                                                             *)

MCFileOrder == <<"dropped", "north", "south">>

Bus(b, load, kv, phases) == [bus |-> b, load |-> load, kv |-> kv, phases |-> phases]
Branch(i, from, to, transformer) ==
    [id |-> i, from |-> from, to |-> to, z |-> 500, z0 |-> Absent, rating |-> 4,
     transformer |-> transformer, oltc |-> FALSE, connection |-> Absent, tap |-> Absent]
Net(id, buses, branches) == [id |-> id, kv |-> 2000, source |-> 1, buses |-> buses, branches |-> branches]

Pair(id) == Net(id, <<Bus(1, 0, Absent, Absent), Bus(2, 3000, 1000, {"a"})>>, <<Branch(1, 1, 2, TRUE)>>)
Island == Net("north", <<Bus(1, 0, Absent, Absent), Bus(2, 0, Absent, Absent), Bus(3, 0, Absent, Absent)>>,
              <<Branch(1, 1, 2, FALSE)>>)
Wordy == [Pair("south") EXCEPT !.source = Text]

MCUploads == {Pair("north"), Island}
MCDropIns == "dropped" :> {Pair("north"), Wordy}

\* A delta-wye transformer with a tap of 1.05 between a 2 and a 1 kV level.
On(bus, watts) == [bus |-> bus, on |-> TRUE, watts |-> watts]
Off(bus, watts) == [bus |-> bus, on |-> FALSE, watts |-> watts]
Cable(from, to, z, rate) == [from |-> from, to |-> to, z |-> z, rate |-> rate]
Trafo == [from |-> 2, to |-> 3, z |-> 60, rate |-> 2, tap |-> 1050, delta |-> TRUE, zero |-> FALSE]
Case(volts, loads, lines, transformers) ==
    [sbase |-> 1, volts |-> volts, loads |-> loads, lines |-> lines, transformers |-> transformers]
Street ==
    Case(<<2000, 2000, 1000, 1000>>, <<On(2, 2000), On(2, 5000), On(3, 1000)>>,
         <<Cable(1, 2, 50, 4), Cable(3, 4, 30, 2)>>, <<Trafo>>)
HalfOff == [Street EXCEPT !.loads[2].on = FALSE]
Lossless == [Street EXCEPT !.transformers[1].zero = TRUE]
\* Without lines on the secondary side, whose voltage the DSS reader does not know.
Stub == Case(<<2000, 2000, 1000>>, <<On(2, 2000), On(3, 1000)>>,
             <<Cable(1, 2, 50, 4)>>, <<[Trafo EXCEPT !.tap = 1000, !.delta = FALSE]>>)
MCCases == ("street" :> Street) @@ ("half off" :> HalfOff) @@ ("lossless" :> Lossless) @@ ("stub" :> Stub)

Quotes(format) == format = "rawx"
Asked(format) == [format |-> format, asked |-> format, extension |-> Absent, quoted |-> Quotes(format)]
Called(format, extension) ==
    [format |-> format, asked |-> Absent, extension |-> extension, quoted |-> Quotes(format)]
Raw(marked, cw) == [marked |-> marked, cw |-> cw] @@ Asked("raw")
Name(text, number) == [text |-> text, number |-> number]
\* The last three: RAWX without its outermost object, asked for and guessed,
\* and JSON with the word.
MCWritings ==
    {<<"half off", Raw(FALSE, 1)>>, <<"street", Raw(TRUE, 2)>>, <<"lossless", Raw(TRUE, 3)>>,
     <<"lossless", Raw(FALSE, 3)>>, <<"street", Called("rawx", Absent)>>, <<"half off", Asked("rawx")>>,
     <<"street", [si |-> TRUE, changer |-> TRUE] @@ Called("cim", "xml")>>,
     <<"half off", [si |-> FALSE, changer |-> FALSE] @@ Called("cim", Absent)>>,
     <<"stub", [names |-> <<Name("sub", Absent), Name("bus", 1), Name("bus", 7)>>] @@ Called("dss", "dss")>>,
     <<"street", [Asked("rawx") EXCEPT !.quoted = FALSE]>>,
     <<"street", [Called("rawx", Absent) EXCEPT !.quoted = FALSE]>>,
     <<"street", [Called("json", Absent) EXCEPT !.quoted = TRUE]>>}

-----------------------------------------------------------------------------
(* Studies.                                                                  *)

\* A feeder bus, and a transformer whose flow turns around under export.
MCPlants ==
    {[load |-> <<5, 2>>, base |-> <<("volt" :> 96) @@ ("flow" :> 2), ("volt" :> 99) @@ ("flow" :> -1)>>,
      limit |-> ("volt" :> 103) @@ ("flow" :> 4),
      slope |-> ("volt" :> ("s1" :> 1 @@ "s2" :> 2)) @@ ("flow" :> ("s1" :> -1 @@ "s2" :> -1))],
     [load |-> <<2, 5>>, base |-> <<("volt" :> 105) @@ ("flow" :> 0), ("volt" :> 98) @@ ("flow" :> -2)>>,
      limit |-> ("volt" :> 103) @@ ("flow" :> 5),
      slope |-> ("volt" :> ("s1" :> 2 @@ "s2" :> -1)) @@ ("flow" :> ("s1" :> -2 @@ "s2" :> -1))]}

Step(at, converged, v2, loading, power, losses) ==
    [at |-> at, converged |-> converged, volts |-> (1 :> 100) @@ (2 :> v2), loading |-> 1 :> loading,
     losses |-> losses, power |-> power, vuf |-> 0]
MCResults ==
    {<<Step(0, TRUE, 96, 110, 5, 1), Step(1, FALSE, 300, 900, 70, 9), Step(2, TRUE, 107, 40, -3, 1)>>,
     <<Step(0, FALSE, 10, 500, 8, 2)>>}

Tariff == [start |-> 2, end |-> 1, peak |-> 4, offpeak |-> 2, feedIn |-> 1]
MCTariffs == "tou" :> Tariff

Profile == [buses |-> {1, 2}, cap |-> ("s1" :> 3) @@ ("s2" :> 4), expected |-> <<4, 2>>]
NoScheme == [mode |-> "off", allocation |-> "equal", method |-> "sensitivity", managed |-> FALSE, fixed |-> 1]
Dynamic(method, allocation) == [NoScheme EXCEPT !.mode = "dynamic", !.method = method, !.allocation = allocation]
Study ==
    [network |-> "north", profile |-> Profile, solver |-> "opendss", coordination |-> "uncoordinated",
     doe |-> NoScheme, tariff |-> "tou"]
MCRequests ==
    {[Study EXCEPT !.coordination = "dr_p2p", !.doe = [Dynamic("sensitivity", "equal") EXCEPT !.managed = TRUE]],
     [Study EXCEPT !.doe = Dynamic("search", "equal")],
     [Study EXCEPT !.doe = Dynamic("sensitivity", "prorata"), !.profile.buses = {1, 2, 3}, !.network = "south",
                    !.tariff = "free"],
     [Study EXCEPT !.doe = Dynamic("sensitivity", "max_total"), !.coordination = "guess"],
     [Study EXCEPT !.coordination = "dr_only"]}

Symmetry == Permutations(Threads)
=============================================================================
