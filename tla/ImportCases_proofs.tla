------------------------- MODULE ImportCases_proofs -------------------------
(***************************************************************************)
(* What the importers make of a file, for any case: validation lets        *)
(* through only what the solver can build; lists, cases and the writers;   *)
(* and the PSS/E RAW, RAWX and OpenDSS readers give back the network a     *)
(* file describes.                                                         *)
(***************************************************************************)
EXTENDS NetworkRegistry, DataInduction

(* What validation lets through, and what scans serve and list.            *)

LEMMA NoFault ==
    ASSUME NEW f, NEW n \in Nat, DOMAIN f = 1..n, FirstFault(f) = "none"
    PROVE  \A i \in 1..n : f[i] = "none"
<1> DEFINE met == {i \in 1..n : f[i] # "none"}
<1>. SUFFICES ASSUME met # {} PROVE FALSE
  OBVIOUS
<1>1. IsFiniteSet(1..n)
  BY FS_Interval
<1>2. met \in SUBSET Int /\ IsFiniteSet(met)
  BY <1>1, FS_Subset
<1>3. Min(met) \in met
  <2>. HIDE DEF met
  <2>. QED  BY <1>2, LeastExists
<1>4. FirstFault(f) = f[Min(met)]
  BY DEF FirstFault
<1>. QED  BY <1>3, <1>4

Faults == {"none", "invalid", "raises"}

LEMMA FaultType ==
    ASSUME NEW f, NEW n \in Nat, DOMAIN f = 1..n, \A i \in 1..n : f[i] \in Faults
    PROVE  FirstFault(f) \in Faults
<1> DEFINE met == {i \in 1..n : f[i] # "none"}
<1>1. CASE met = {}
  BY <1>1 DEF FirstFault, Faults
<1>2. CASE met # {}
  <2>1. IsFiniteSet(1..n)
    BY FS_Interval
  <2>2. met \in SUBSET Int /\ IsFiniteSet(met)
    BY <2>1, FS_Subset
  <2>3. Min(met) \in met
    <3>. HIDE DEF met
    <3>. QED  BY <1>2, <2>2, LeastExists
  <2>4. FirstFault(f) = f[Min(met)]
    BY <1>2 DEF FirstFault
  <2>. QED  BY <2>3, <2>4
<1>. QED  BY <1>1, <1>2

\* What passes a branch is required to be.
BranchPasses(d, i) ==
    LET br == d.branches[i] IN
    /\ Absent \notin {br.id, br.from, br.to, br.z}
    /\ br.id # Text /\ ~NumbersBefore([j \in DOMAIN d.branches |-> d.branches[j].id], i, br.id)
    /\ Text \notin {br.from, br.to} /\ {br.from, br.to} \subseteq BusIds(d) /\ br.from # br.to
    /\ br.z # Text /\ ~Negative(br.z) /\ br.z0 # Text /\ ~Negative(br.z0)
    /\ br.rating # Text /\ ~NotPositive(br.rating)
    /\ br.transformer \/ BusKv(d, br.from) = BusKv(d, br.to)
    /\ OnlyOnTransformers(br)
    /\ br.connection \in {Absent, "wye_wye", "delta_wye"}
    /\ ~(br.tap = Text \/ (br.tap \in Int /\ br.tap \notin 800..1200))

LEMMA CheckOf ==
    \A words, wrong : Check(words, wrong) \in Faults /\ (Check(words, wrong) = "none" <=> ~words /\ ~wrong)
BY DEF Check, Faults

LEMMA BranchFaultIs ==
    ASSUME NEW d, NEW i
    PROVE  BranchFault(d, i) \in Faults /\ (BranchFault(d, i) = "none" <=> BranchPasses(d, i))
<1> DEFINE br == d.branches[i]
           before == NumbersBefore([j \in DOMAIN d.branches |-> d.branches[j].id], i, br.id)
           spans == ~br.transformer /\ BusKv(d, br.from) # BusKv(d, br.to)
           wrongTap == br.tap = Text \/ (br.tap \in Int /\ br.tap \notin 800..1200)
           f1 == Check(FALSE, Absent \in {br.id, br.from, br.to, br.z})
           f2 == Check(br.id = Text, before)
           f3 == Check(Text \in {br.from, br.to}, ~({br.from, br.to} \subseteq BusIds(d)) \/ br.from = br.to)
           f4 == Check(br.z = Text, Negative(br.z))
           f5 == Check(br.z0 = Text, Negative(br.z0))
           f6 == Check(br.rating = Text, NotPositive(br.rating))
           wrongKind == spans \/ ~OnlyOnTransformers(br)
                        \/ br.connection \notin {Absent, "wye_wye", "delta_wye"} \/ wrongTap
           f7 == Check(FALSE, wrongKind)
           faults == <<f1, f2, f3, f4, f5, f6, f7>>
           none == f1 = "none" /\ f2 = "none" /\ f3 = "none" /\ f4 = "none" /\ f5 = "none" /\ f6 = "none" /\ f7 = "none"
<1>1. BranchFault(d, i) = FirstFault(faults)
  BY Zenon DEF BranchFault
<1>2. {f1, f2, f3, f4, f5, f6, f7} \subseteq Faults
  <2>1. f1 \in Faults  BY Zenon, CheckOf
  <2>2. f2 \in Faults  BY Zenon, CheckOf
  <2>3. f3 \in Faults  BY Zenon, CheckOf
  <2>4. f4 \in Faults  BY Zenon, CheckOf
  <2>5. f5 \in Faults  BY Zenon, CheckOf
  <2>6. f6 \in Faults  BY Zenon, CheckOf
  <2>7. f7 \in Faults
    <3>. HIDE DEF wrongKind
    <3>. QED  BY Zenon, CheckOf
  <2>. HIDE DEF f1, f2, f3, f4, f5, f6, f7
  <2>. QED  BY <2>1, <2>2, <2>3, <2>4, <2>5, <2>6, <2>7
<1>3. none <=> BranchPasses(d, i)
  <2>1. f1 = "none" <=> Absent \notin {br.id, br.from, br.to, br.z}
    BY Zenon, CheckOf
  <2>2. f2 = "none" <=> br.id # Text /\ ~before
    BY Zenon, CheckOf
  <2>3. f3 = "none" <=> /\ Text \notin {br.from, br.to} /\ {br.from, br.to} \subseteq BusIds(d)
                       /\ br.from # br.to
    BY Zenon, CheckOf
  <2>4. f4 = "none" <=> br.z # Text /\ ~Negative(br.z)
    BY Zenon, CheckOf
  <2>5. f5 = "none" <=> br.z0 # Text /\ ~Negative(br.z0)
    BY Zenon, CheckOf
  <2>6. f6 = "none" <=> br.rating # Text /\ ~NotPositive(br.rating)
    BY Zenon, CheckOf
  <2>7. f7 = "none" <=> /\ br.transformer \/ BusKv(d, br.from) = BusKv(d, br.to)
                       /\ OnlyOnTransformers(br)
                       /\ br.connection \in {Absent, "wye_wye", "delta_wye"}
                       /\ ~wrongTap
    <3>1. f7 = "none" <=> ~wrongKind
      <4>. HIDE DEF wrongKind
      <4>. QED  BY Zenon, CheckOf
    <3>2. ~spans <=> br.transformer \/ BusKv(d, br.from) = BusKv(d, br.to)
      BY Zenon
    <3>. HIDE DEF f7, spans, wrongTap, br
    <3>. QED  BY Zenon, <3>1, <3>2
  <2>8. BranchPasses(d, i) <=>
          /\ Absent \notin {br.id, br.from, br.to, br.z}
          /\ br.id # Text /\ ~before
          /\ Text \notin {br.from, br.to} /\ {br.from, br.to} \subseteq BusIds(d) /\ br.from # br.to
          /\ br.z # Text /\ ~Negative(br.z) /\ br.z0 # Text /\ ~Negative(br.z0)
          /\ br.rating # Text /\ ~NotPositive(br.rating)
          /\ br.transformer \/ BusKv(d, br.from) = BusKv(d, br.to)
          /\ OnlyOnTransformers(br)
          /\ br.connection \in {Absent, "wye_wye", "delta_wye"}
          /\ ~wrongTap
    BY Zenon DEF BranchPasses
  <2>. HIDE DEF f1, f2, f3, f4, f5, f6, f7, br, before, wrongTap
  <2>. QED  BY Zenon, <2>1, <2>2, <2>3, <2>4, <2>5, <2>6, <2>7, <2>8
<1>. HIDE DEF f1, f2, f3, f4, f5, f6, f7
<1>4. DOMAIN faults = 1..7 /\ \A k \in 1..7 : faults[k] \in Faults
  BY <1>2
<1>5. FirstFault(faults) \in Faults
  <2>. HIDE DEF faults
  <2>. QED  BY <1>4, FaultType
<1>6. FirstFault(faults) = "none" => none
  <2>1. FirstFault(faults) = "none" => \A k \in 1..7 : faults[k] = "none"
    <3>. HIDE DEF faults
    <3>. QED  BY <1>4, NoFault
  <2>. QED  BY <2>1
<1>7. none => FirstFault(faults) = "none"
  <2>1. none => \A k \in DOMAIN faults : faults[k] = "none"
    OBVIOUS
  <2>. HIDE DEF faults, none
  <2>. QED  BY <2>1 DEF FirstFault
<1>. HIDE DEF none
<1>. QED  BY <1>1, <1>3, <1>5, <1>6, <1>7

\* A definition that is accepted passed every one of the five kinds of check.
LEMMA AcceptedPasses ==
    ASSUME NEW d, IsNetwork(d), Verdict(d) = "ok"
    PROVE  /\ HeaderFault(d) = "none" /\ SourceFault(d) = "none" /\ IslandFault(d) = "none"
           /\ \A i \in DOMAIN d.buses : BusFault(d, i) = "none"
           /\ \A i \in DOMAIN d.branches : BranchFault(d, i) = "none"
<1> DEFINE buses == [i \in DOMAIN d.buses |-> BusFault(d, i)]
           branches == [i \in DOMAIN d.branches |-> BranchFault(d, i)]
           faults == <<HeaderFault(d), FirstFault(buses), SourceFault(d), FirstFault(branches), IslandFault(d)>>
<1>2. DOMAIN faults = 1..5
  OBVIOUS
<1>0. /\ Len(d.buses) \in Nat /\ DOMAIN buses = 1..Len(d.buses)
      /\ Len(d.branches) \in Nat /\ DOMAIN branches = 1..Len(d.branches)
  BY DEF IsNetwork, IsList
<1>1. FirstFault(faults) = "none"
  <2>1. \A i \in DOMAIN buses : buses[i] \in Faults
    <3>1. \A i : BusFault(d, i) \in Faults
      BY Zenon DEF BusFault, Faults
    <3>. QED  BY <3>1
  <2>2. \A i \in DOMAIN branches : branches[i] \in Faults
    <3>1. \A i : BranchFault(d, i) \in Faults
      BY BranchFaultIs
    <3>. QED  BY <3>1
  <2>3. FirstFault(buses) \in Faults /\ FirstFault(branches) \in Faults
    <3>. HIDE DEF buses, branches
    <3>. QED  BY <1>0, <2>1, <2>2, FaultType
  <2>4. HeaderFault(d) \in Faults /\ SourceFault(d) \in Faults /\ IslandFault(d) \in Faults
    BY DEF HeaderFault, SourceFault, IslandFault, Faults
  <2>5. \A i \in 1..5 : faults[i] \in Faults
    <3>. HIDE DEF buses, branches
    <3>. QED  BY <2>3, <2>4
  <2>6. FirstFault(faults) \in Faults
    <3>. HIDE DEF faults
    <3>. QED  BY <1>2, <2>5, FaultType
  <2>7. Verdict(d) = IF FirstFault(faults) = "none" THEN "ok" ELSE FirstFault(faults)
    BY DEF Verdict
  <2>. HIDE DEF faults
  <2>. QED  BY <2>6, <2>7 DEF Faults
<1>3. \A i \in 1..5 : faults[i] = "none"
  <2>. HIDE DEF faults
  <2>. QED  BY <1>1, <1>2, NoFault
<1>4. faults[1] = "none" /\ faults[2] = "none" /\ faults[3] = "none" /\ faults[4] = "none" /\ faults[5] = "none"
  BY <1>3
<1>5. /\ HeaderFault(d) = "none" /\ FirstFault(buses) = "none" /\ SourceFault(d) = "none"
      /\ FirstFault(branches) = "none" /\ IslandFault(d) = "none"
  BY <1>4
<1>. HIDE DEF buses, branches
<1>7. /\ \A i \in 1..Len(d.buses) : buses[i] = "none"
      /\ \A i \in 1..Len(d.branches) : branches[i] = "none"
  BY <1>0, <1>5, NoFault
<1>. QED  BY <1>0, <1>5, <1>7 DEF buses, branches

\* A list without repetitions has as many members as places.
LEMMA NumberedApart ==
    ASSUME NEW f, NEW n \in Nat, DOMAIN f = 1..n, \A i \in 1..n : ~NumbersBefore(f, i, f[i])
    PROVE  Cardinality({f[i] : i \in 1..n}) = n
<1> DEFINE S == {f[i] : i \in 1..n}
           g == [i \in 1..n |-> f[i]]
<1>1. ASSUME NEW i \in 1..n, NEW j \in 1..n, f[i] = f[j] PROVE i = j
  <2>1. ASSUME i < j PROVE FALSE
    BY <2>1, <1>1 DEF NumbersBefore
  <2>2. ASSUME j < i PROVE FALSE
    BY <2>2, <1>1 DEF NumbersBefore
  <2>. QED  BY <2>1, <2>2
<1>2. g \in Bijection(1..n, S)
  BY <1>1 DEF Bijection, Injection, Surjection, IsInjective
<1>3. ExistsBijection(1..n, S)
  BY <1>2 DEF ExistsBijection
<1>. QED  BY <1>3, FS_CountingElements

\* The walk from the source, step by step.
LEMMA ReachedSteps ==
    ASSUME NEW d
    PROVE  \E w : /\ Reached(d) = w[Len(d.buses)] /\ w[0] = {d.source}
                  /\ \A n \in Nat : w[n + 1] = WithNeighbours(d, w[n])
<1> DEFINE ends == UNION {{d.branches[i].from, d.branches[i].to} : i \in DOMAIN d.branches}
           D == SUBSET ({d.source} \union ends)
           F == [n \in Nat |-> [s \in D |-> WithNeighbours(d, s)]]
           Walk(w) == w = [n \in Nat |-> IF n = 0 THEN {d.source} ELSE WithNeighbours(d, w[n - 1])]
<1>1. \A s \in D : WithNeighbours(d, s) \in D
  BY DEF WithNeighbours
<1>2. StaysIn(F, D) /\ {d.source} \in D
  BY <1>1 DEF StaysIn
<1>3. \E w : Walk(w)
  <2>1. \E g \in [Nat -> D] : Recursion(g, {d.source}, F)
    <3>. HIDE DEF F, D
    <3>. QED  BY <1>2, RecursionExists
  <2>2. PICK g \in [Nat -> D] : Recursion(g, {d.source}, F)
    BY <2>1
  <2>3. \A n \in Nat : g[n + 1] = WithNeighbours(d, g[n])
    <3>. HIDE DEF D
    <3>. QED  BY <2>2 DEF Recursion
  <2>4. ASSUME NEW n \in Nat PROVE g[n] = IF n = 0 THEN {d.source} ELSE WithNeighbours(d, g[n - 1])
    <3>1. n # 0 => n - 1 \in Nat /\ (n - 1) + 1 = n
      OBVIOUS
    <3>. QED  BY <2>2, <2>3, <3>1 DEF Recursion
  <2>5. g = [n \in Nat |-> g[n]]
    OBVIOUS
  <2>6. Walk(g)
    <3>. HIDE DEF D
    <3>. QED  BY <2>4, <2>5
  <2>. QED  BY <2>6
<1> DEFINE w == CHOOSE v : Walk(v)
<1>4. Walk(w)
  <2>. HIDE DEF Walk
  <2>. QED  BY <1>3
<1>5. Reached(d) = w[Len(d.buses)]
  BY DEF Reached
<1>. HIDE DEF w
<1>6. w[0] = {d.source} /\ \A n \in Nat \ {0} : w[n] = WithNeighbours(d, w[n - 1])
  BY <1>4
<1>7. \A n \in Nat : w[n + 1] = WithNeighbours(d, w[n])
  <2>. SUFFICES ASSUME NEW n \in Nat PROVE w[n + 1] = WithNeighbours(d, w[n])
    OBVIOUS
  <2>1. n + 1 \in Nat \ {0} /\ (n + 1) - 1 = n
    OBVIOUS
  <2>. QED  BY <1>6, <2>1
<1>. QED  BY <1>5, <1>6, <1>7

\* The walk does not leave a part of the network that no branch leaves.
LEMMA ReachedStays ==
    ASSUME NEW d, Len(d.buses) \in Nat, NEW part, d.source \in part,
           \A i \in DOMAIN d.branches : d.branches[i].from \in part <=> d.branches[i].to \in part
    PROVE  Reached(d) \subseteq part
<1>1. PICK w : /\ Reached(d) = w[Len(d.buses)] /\ w[0] = {d.source}
               /\ \A n \in Nat : w[n + 1] = WithNeighbours(d, w[n])
  BY ReachedSteps
<1> DEFINE T == {n \in Nat : w[n] \subseteq part}
<1>2. 0 \in T
  BY <1>1
<1>3. ASSUME NEW n \in Nat, n \in T PROVE n + 1 \in T
  <2>1. w[n + 1] = WithNeighbours(d, w[n])
    BY <1>1
  <2>2. \A s \in SUBSET part : WithNeighbours(d, s) \subseteq part
    BY DEF WithNeighbours
  <2>. QED  BY <2>1, <2>2, <1>3
<1>. HIDE DEF T
<1>4. Nat \subseteq T
  BY <1>2, <1>3, NatIsBuiltUp
<1>. QED  BY <1>1, <1>4 DEF T

LEMMA CardinalityOfEnds ==
    ASSUME NEW a, NEW b, NEW part, a \in part, b \notin part
    PROVE  Cardinality({a, b} \intersect part) = 1
<1>1. {a, b} \intersect part = {a}
  OBVIOUS
<1>. QED  BY <1>1, FS_Singleton

(* The validation is enough for the solver, for every definition:          *)
(* validate_network_dict (model.py:197-337) lets nothing through that has  *)
(* two buses or branches of one number, a part cut off from the source, or *)
(* a line between two voltages.                                            *)
THEOREM AcceptedIsSound ==
    ASSUME NEW d, IsNetwork(d), Verdict(d) = "ok"
    PROVE  Sound(d)
<1> DEFINE n == Len(d.buses)
           m == Len(d.branches)
<1>1. n \in Nat /\ m \in Nat /\ DOMAIN d.buses = 1..n /\ DOMAIN d.branches = 1..m
  BY DEF IsNetwork, IsList
<1>. HIDE DEF n, m
<1>2. /\ IslandFault(d) = "none"
      /\ \A i \in 1..n : BusFault(d, i) = "none"
      /\ \A i \in 1..m : BranchFault(d, i) = "none"
  BY <1>1, AcceptedPasses
<1>3. Cardinality(BusIds(d)) = n
  <2> DEFINE f == [i \in 1..n |-> d.buses[i].bus]
  <2>1. \A i \in 1..n : ~NumbersBefore(f, i, f[i])
    BY <1>1, <1>2 DEF BusFault
  <2>2. BusIds(d) = {f[i] : i \in 1..n}
    BY <1>1 DEF BusIds
  <2>3. DOMAIN f = 1..n
    OBVIOUS
  <2>. HIDE DEF f
  <2>. QED  BY <1>1, <2>1, <2>2, <2>3, NumberedApart
<1>4. Cardinality({d.branches[i].id : i \in DOMAIN d.branches}) = m
  <2> DEFINE f == [i \in 1..m |-> d.branches[i].id]
  <2>1. \A i \in 1..m : ~NumbersBefore(f, i, f[i])
    <3>. SUFFICES ASSUME NEW i \in 1..m
                  PROVE  ~NumbersBefore(f, i, f[i])
      OBVIOUS
    <3>1. i \in DOMAIN d.branches /\ BranchFault(d, i) = "none"
      BY <1>1, <1>2
    <3>2. BranchPasses(d, i)
      BY <3>1, BranchFaultIs
    <3>3. ~NumbersBefore([j \in DOMAIN d.branches |-> d.branches[j].id], i, d.branches[i].id)
      BY <3>2 DEF BranchPasses
    <3>4. f = [j \in DOMAIN d.branches |-> d.branches[j].id] /\ f[i] = d.branches[i].id
      BY <1>1
    <3>. QED  BY <3>3, <3>4, Zenon
  <2>2. {d.branches[i].id : i \in DOMAIN d.branches} = {f[i] : i \in 1..m}
    BY <1>1
  <2>3. DOMAIN f = 1..m
    OBVIOUS
  <2>. HIDE DEF f
  <2>. QED  BY <1>1, <2>1, <2>2, <2>3, NumberedApart
<1>5. ASSUME NEW part \in SUBSET BusIds(d), d.source \in part, part # BusIds(d)
      PROVE  \E i \in DOMAIN d.branches :
                Cardinality({d.branches[i].from, d.branches[i].to} \intersect part) = 1
  <2>1. BusIds(d) \subseteq Reached(d)
    BY <1>2 DEF IslandFault
  <2>2. ~(\A i \in DOMAIN d.branches : d.branches[i].from \in part <=> d.branches[i].to \in part)
    BY <1>1, <1>5, <2>1, ReachedStays DEF n
  <2>3. PICK i \in DOMAIN d.branches : ~(d.branches[i].from \in part <=> d.branches[i].to \in part)
    BY <2>2
  <2>4. {d.branches[i].from, d.branches[i].to} = {d.branches[i].to, d.branches[i].from}
    OBVIOUS
  <2>5. Cardinality({d.branches[i].from, d.branches[i].to} \intersect part) = 1
    <3>1. CASE d.branches[i].from \in part
      BY <2>3, <3>1, CardinalityOfEnds
    <3>2. CASE d.branches[i].to \in part
      <4>1. Cardinality({d.branches[i].to, d.branches[i].from} \intersect part) = 1
        BY <2>3, <3>2, CardinalityOfEnds
      <4>. QED  BY <2>4, <4>1
    <3>. QED  BY <2>3, <3>1, <3>2
  <2>. QED  BY <2>5
<1>6. ASSUME NEW i \in DOMAIN d.branches
      PROVE  d.branches[i].transformer \/ BusKv(d, d.branches[i].from) = BusKv(d, d.branches[i].to)
  <2>1. BranchPasses(d, i)
    BY <1>1, <1>2, BranchFaultIs
  <2>. QED  BY <2>1 DEF BranchPasses
<1>. QED  BY <1>1, <1>3, <1>4, <1>5, <1>6 DEF Sound, n, m

-----------------------------------------------------------------------------
(* Lists, and the elements of a list at a set of places.                   *)

IsSeq(s) == Len(s) \in Nat /\ s = [i \in 1..Len(s) |-> s[i]]

LEMMA Tabulated ==
    ASSUME NEW n \in Nat, NEW s, s = [i \in 1..n |-> s[i]]
    PROVE  Len(s) = n /\ DOMAIN s = 1..n /\ IsSeq(s)
<1> DEFINE S == {s[i] : i \in 1..n}
<1>1. s \in [1..n -> S]
  <2>1. \A i \in 1..n : s[i] \in S
    OBVIOUS
  <2>. HIDE DEF S
  <2>2. [i \in 1..n |-> s[i]] \in [1..n -> S]
    BY <2>1
  <2>. QED  BY <2>2
<1>. HIDE DEF S
<1>2. s \in Seq(S) /\ Len(s) = n
  BY <1>1, ListsAreSequences
<1>3. DOMAIN s = 1..n
  BY <1>1
<1>. QED  BY <1>2, <1>3 DEF IsSeq

LEMMA SeqsAre ==
    ASSUME NEW s, IsSeq(s)
    PROVE  Len(s) \in Nat /\ DOMAIN s = 1..Len(s) /\ s \in Seq({s[i] : i \in 1..Len(s)})
<1> DEFINE S == {s[i] : i \in 1..Len(s)}
           n == Len(s)
<1>0. n \in Nat /\ s = [i \in 1..n |-> s[i]]
  BY DEF IsSeq
<1>. HIDE DEF n
<1>1. s \in [1..n -> {s[i] : i \in 1..n}]
  <2> DEFINE U == {s[i] : i \in 1..n}
  <2>1. \A i \in 1..n : s[i] \in U
    OBVIOUS
  <2>. HIDE DEF U
  <2>2. [i \in 1..n |-> s[i]] \in [1..n -> U]
    BY <2>1
  <2>3. s \in [1..n -> U]
    BY <1>0, <2>2
  <2>. QED  BY <2>3 DEF U
<1>2. s \in Seq({s[i] : i \in 1..n})
  BY <1>0, <1>1, ListsAreSequences
<1>. QED  BY <1>0, <1>1, <1>2 DEF n

\* Of two lists with the same places, those with the same elements are one.
LEMMA SameLists ==
    ASSUME NEW s, NEW t, IsSeq(s), IsSeq(t), Len(s) = Len(t), \A i \in 1..Len(s) : s[i] = t[i]
    PROVE  s = t
<1>1. s = [i \in 1..Len(s) |-> s[i]] /\ t = [i \in 1..Len(s) |-> t[i]]
  BY DEF IsSeq
<1>. QED  BY <1>1

\* One list after another.
LEMMA EndToEnd ==
    ASSUME NEW s, NEW t, IsSeq(s), IsSeq(t)
    PROVE  /\ IsSeq(s \o t) /\ Len(s \o t) = Len(s) + Len(t)
           /\ \A i \in 1..Len(s) : (s \o t)[i] = s[i]
           /\ \A i \in 1..Len(t) : (s \o t)[Len(s) + i] = t[i]
<1> DEFINE S == {s[i] : i \in 1..Len(s)} \union {t[i] : i \in 1..Len(t)}
           a == Len(s)
           b == Len(t)
<1>1. s \in Seq(S) /\ t \in Seq(S)
  <2>1. s \in Seq({s[i] : i \in 1..Len(s)}) /\ t \in Seq({t[i] : i \in 1..Len(t)})
    BY SeqsAre
  <2>. QED  BY <2>1
<1>. HIDE DEF S
<1>2. a \in Nat /\ b \in Nat
  BY <1>1
<1>3. s \o t \in Seq(S) /\ Len(s \o t) = a + b
  BY <1>1
<1>4. s \o t \in [1..(a + b) -> S]
  BY <1>3, SequencesAreLists
<1>5. IsSeq(s \o t)
  <2>1. s \o t = [i \in 1..(a + b) |-> (s \o t)[i]]
    BY <1>4
  <2>. QED  BY <1>2, <1>3, <2>1 DEF IsSeq
<1>6. \A i \in 1..a : (s \o t)[i] = s[i]
  BY <1>1
<1>7. ASSUME NEW i \in 1..b PROVE (s \o t)[a + i] = t[i]
  <2>1. a + i \in 1..(a + b) /\ ~(a + i <= a) /\ (a + i) - a = i
    BY <1>2
  <2>. QED  BY <1>1, <2>1
<1>. QED  BY <1>3, <1>5, <1>6, <1>7

\* g lists the n elements of S in ascending order.
Ascends(g, n, S) == n \in Nat /\ g \in [1..n -> Int] /\ Increasing(g) /\ S = {g[k] : k \in 1..n}

\* The k-th smallest of a set that is listed in ascending order.
LEMMA Ranked ==
    ASSUME NEW n, NEW g, NEW S, Ascends(g, n, S)
    PROVE  /\ IsFiniteSet(S) /\ Cardinality(S) = n /\ S \in SUBSET Int
           /\ \A k \in 1..n : Nth(S, k) = g[k]
<1>. n \in Nat /\ g \in [1..n -> Int] /\ S = {g[k] : k \in 1..n}
  BY DEF Ascends
<1>1. \A i, j \in 1..n : i < j => g[i] < g[j]
  BY DEF Increasing, Ascends
<1>2. \A i, j \in 1..n : g[i] < g[j] => i < j
  <2>. SUFFICES ASSUME NEW i \in 1..n, NEW j \in 1..n, g[i] < g[j], ~(i < j) PROVE FALSE
    OBVIOUS
  <2>1. CASE i = j
    BY <2>1
  <2>2. CASE j < i
    BY <1>1, <2>2
  <2>. QED  BY <2>1, <2>2
<1>3. ASSUME NEW m \in 0..n PROVE IsFiniteSet({g[k] : k \in 1..m}) /\ Cardinality({g[k] : k \in 1..m}) = m
  <2> DEFINE T == {g[k] : k \in 1..m}
             f == [k \in 1..m |-> g[k]]
  <2>1. \A i, j \in 1..m : f[i] = f[j] => i = j
    <3>. SUFFICES ASSUME NEW i \in 1..m, NEW j \in 1..m, f[i] = f[j], i # j PROVE FALSE
      OBVIOUS
    <3>1. i \in 1..n /\ j \in 1..n /\ (i < j \/ j < i)
      OBVIOUS
    <3>. QED  BY <1>1, <3>1
  <2>2. f \in Bijection(1..m, T)
    BY <2>1 DEF Bijection, Injection, Surjection, IsInjective
  <2>3. ExistsBijection(1..m, T)
    BY <2>2 DEF ExistsBijection
  <2>4. IsFiniteSet(1..m) /\ Cardinality(1..m) = m
    BY FS_Interval
  <2>. HIDE DEF T
  <2>5. IsFiniteSet(T) /\ Cardinality(T) = m
    BY <2>3, <2>4, FS_Bijection
  <2>. QED  BY <2>5 DEF T
<1>4. IsFiniteSet(S) /\ Cardinality(S) = n /\ S \in SUBSET Int
  <2>1. n \in 0..n
    OBVIOUS
  <2>. QED  BY <1>3, <2>1
<1>5. ASSUME NEW k \in 1..n PROVE Nth(S, k) = g[k]
  <2>1. ASSUME NEW j \in 1..n PROVE Cardinality({m \in S : m < g[j]}) = j - 1
    <3>1. {m \in S : m < g[j]} = {g[i] : i \in 1..(j - 1)}
      <4>1. \A m \in S : m < g[j] => \E i \in 1..(j - 1) : m = g[i]
        BY <1>2
      <4>2. \A i \in 1..(j - 1) : g[i] \in S /\ g[i] < g[j]
        BY <1>1
      <4>. QED  BY <4>1, <4>2
    <3>2. j - 1 \in 0..n
      OBVIOUS
    <3>. QED  BY <3>1, <3>2, <1>3
  <2>2. g[k] \in S /\ Cardinality({m \in S : m < g[k]}) = k - 1
    BY <2>1
  <2>3. \A x \in S : Cardinality({m \in S : m < x}) = k - 1 => x = g[k]
    <3>. SUFFICES ASSUME NEW j \in 1..n, Cardinality({m \in S : m < g[j]}) = k - 1 PROVE g[j] = g[k]
      OBVIOUS
    <3>1. j - 1 = k - 1
      BY <2>1
    <3>2. j = k
      BY <3>1
    <3>. QED  BY <3>2
  <2>. HIDE DEF Nth
  <2>4. Nth(S, k) = CHOOSE x \in S : Cardinality({m \in S : m < x}) = k - 1
    BY DEF Nth
  <2>. QED  BY <2>2, <2>3, <2>4
<1>. QED  BY <1>4, <1>5

\* Nth lists every finite set of numbers.
LEMMA Enumerated ==
    ASSUME NEW S \in SUBSET Int, IsFiniteSet(S)
    PROVE  /\ Cardinality(S) \in Nat
           /\ \A k \in 1..Cardinality(S) : Nth(S, k) \in S
           /\ \A i, j \in 1..Cardinality(S) : i < j => Nth(S, i) < Nth(S, j)
           /\ \A x \in S : \E k \in 1..Cardinality(S) : Nth(S, k) = x
<1> DEFINE n == Cardinality(S)
<1>1. n \in Nat
  BY FS_CardinalityType
<1>2. PICK g \in [1..n -> S] : Increasing(g)
  BY OrderExists
<1>. HIDE DEF n
<1> DEFINE T == {g[k] : k \in 1..n}
<1>3. g \in [1..n -> Int]
  BY <1>2
<1>4. Cardinality(T) = n /\ \A k \in 1..n : Nth(T, k) = g[k]
  <2>1. Ascends(g, n, T)
    BY <1>1, <1>2, <1>3 DEF Ascends
  <2>. HIDE DEF T
  <2>. QED  BY <2>1, Ranked
<1>5. T \in SUBSET S
  BY <1>2
<1>6. T = S
  <2>. HIDE DEF T
  <2>. QED  BY <1>4, <1>5, FS_Subset DEF n
<1>7. \A k \in 1..n : Nth(S, k) = g[k]
  BY <1>4, <1>6
<1>8. \A i, j \in 1..n : i < j => g[i] < g[j]
  BY <1>2 DEF Increasing
<1>9. \A x \in S : \E k \in 1..n : g[k] = x
  BY <1>6
<1>. QED  BY <1>1, <1>2, <1>7, <1>8, <1>9 DEF n

\* The elements at places listed in ascending order.
LEMMA PickedIs ==
    ASSUME NEW list, NEW n, NEW g, NEW at, Ascends(g, n, at)
    PROVE  Picked(list, at) = [k \in 1..n |-> list[g[k]]]
<1>1. Cardinality(at) = n /\ \A k \in 1..n : Nth(at, k) = g[k]
  BY Ranked
<1>. HIDE DEF Nth
<1>. QED  BY <1>1 DEF Picked

\* ... at a run of places,
LEMMA PickedRun ==
    ASSUME NEW list, NEW a \in Nat, NEW n \in Nat
    PROVE  Picked(list, (a + 1)..(a + n)) = [k \in 1..n |-> list[a + k]]
<1> DEFINE g == [k \in 1..n |-> a + k]
           at == (a + 1)..(a + n)
<1>1. g \in [1..n -> Int] /\ Increasing(g)
  BY DEF Increasing
<1>2. at = {g[k] : k \in 1..n}
  <2>1. \A x \in at : x - a \in 1..n /\ x = a + (x - a)
    OBVIOUS
  <2>. QED  BY <2>1
<1>3. \A k \in 1..n : g[k] = a + k
  OBVIOUS
<1>. HIDE DEF g
<1>5. Ascends(g, n, at)
  BY <1>1, <1>2 DEF Ascends
<1>4. Picked(list, at) = [k \in 1..n |-> list[g[k]]]
  BY <1>5, PickedIs
<1>. QED  BY <1>3, <1>4

\* ... at all places.
LEMMA PickedAll ==
    ASSUME NEW list, IsSeq(list)
    PROVE  Picked(list, DOMAIN list) = list
<1> DEFINE n == Len(list)
           at == 1..n
           g == [k \in 1..n |-> k]
<1>1. n \in Nat /\ DOMAIN list = at /\ list = [i \in 1..n |-> list[i]]
  BY SeqsAre DEF IsSeq
<1>. HIDE DEF n
<1>2. Ascends(g, n, at)
  BY <1>1 DEF Ascends, Increasing
<1>3. \A k \in 1..n : g[k] = k
  OBVIOUS
<1>. HIDE DEF g, at
<1>4. Picked(list, at) = [k \in 1..n |-> list[g[k]]]
  BY <1>2, PickedIs
<1>. QED  BY <1>1, <1>3, <1>4

\* The elements of a list at a set of places, and a sum over them.
LEMMA PickedElements ==
    ASSUME NEW list, NEW at \in SUBSET Int, IsFiniteSet(at)
    PROVE  /\ IsSeq(Picked(list, at)) /\ Len(Picked(list, at)) = Cardinality(at)
           /\ DOMAIN Picked(list, at) = 1..Cardinality(at)
           /\ \A k \in 1..Cardinality(at) : Nth(at, k) \in at /\ Picked(list, at)[k] = list[Nth(at, k)]
<1> DEFINE n == Cardinality(at)
           s == Picked(list, at)
<1>1. n \in Nat /\ \A k \in 1..n : Nth(at, k) \in at
  BY Enumerated
<1>2. s = [k \in 1..n |-> list[Nth(at, k)]]
  BY DEF Picked
<1>. HIDE DEF n, s, Nth
<1>3. s = [k \in 1..n |-> s[k]] /\ \A k \in 1..n : s[k] = list[Nth(at, k)]
  BY <1>2
<1>4. Len(s) = n /\ DOMAIN s = 1..n /\ IsSeq(s)
  BY <1>1, <1>3, Tabulated
<1>. QED  BY <1>1, <1>3, <1>4 DEF n, s

LEMMA SumOfPicked ==
    ASSUME NEW at \in SUBSET Int, IsFiniteSet(at), NEW P \in SUBSET at, NEW w, Ints(w, P),
           NEW u, \A k \in 1..Cardinality(at) : u[k] = w[Nth(at, k)]
    PROVE  SumFunctionOnSet(u, {k \in 1..Cardinality(at) : Nth(at, k) \in P}) = SumFunctionOnSet(w, P)
<1> DEFINE n == Cardinality(at)
           S == {k \in 1..n : Nth(at, k) \in P}
           f == [k \in S |-> Nth(at, k)]
<1>1. /\ n \in Nat /\ \A k \in 1..n : Nth(at, k) \in at
      /\ \A i, j \in 1..n : i < j => Nth(at, i) < Nth(at, j)
      /\ \A x \in at : \E k \in 1..n : Nth(at, k) = x
  BY Enumerated
<1>2. IsFiniteSet(S)
  <2>1. IsFiniteSet(1..n)
    BY <1>1, FS_Interval
  <2>. QED  BY <2>1, FS_Subset
<1>. HIDE DEF Nth, n
<1>3. \A i, j \in 1..n : Nth(at, i) = Nth(at, j) => i = j
  <2>. SUFFICES ASSUME NEW i \in 1..n, NEW j \in 1..n, Nth(at, i) = Nth(at, j), i # j PROVE FALSE
    OBVIOUS
  <2>1. Nth(at, i) \in at /\ Nth(at, j) \in at
    BY <1>1
  <2>2. i < j \/ j < i
    BY <1>1
  <2>0. Nth(at, i) \in Int /\ Nth(at, j) \in Int /\ (i < j \/ j < i)
    BY <2>1, <2>2
  <2>. QED  BY <1>1, <2>0
<1>4. f \in Bijection(S, P)
  <2>1. f \in [S -> P]
    OBVIOUS
  <2>2. \A i, j \in S : f[i] = f[j] => i = j
    BY <1>3
  <2>3. \A x \in P : \E k \in S : f[k] = x
    <3>. SUFFICES ASSUME NEW x \in P PROVE \E k \in S : f[k] = x
      OBVIOUS
    <3>1. PICK k \in 1..n : Nth(at, k) = x
      BY <1>1
    <3>. QED  BY <3>1
  <2>. QED  BY <2>1, <2>2, <2>3 DEF Bijection, Injection, Surjection, IsInjective
<1>5. \A k \in S : u[k] = w[f[k]]
  BY DEF n
<1>. HIDE DEF S, f
<1>6. SumFunctionOnSet(u, S) = SumFunctionOnSet(w, P)
  BY <1>2, <1>4, <1>5, SumOverBijection
<1>. QED  BY <1>6 DEF S, n

-----------------------------------------------------------------------------
(* A list of lists, flattened.                                             *)

AreSeqs(lists, n) == n \in Nat /\ lists = [k \in 1..n |-> lists[k]] /\ \A k \in 1..n : IsSeq(lists[k])

\* f[i] is the first i lists in one.
Grows(f, lists, n) == f[1] = lists[1] /\ \A i \in 1..(n - 1) : f[i + 1] = f[i] \o lists[i + 1]

LEMMA FlattenGrows ==
    ASSUME NEW lists, NEW n, AreSeqs(lists, n), n # 0
    PROVE  \E f : Grows(f, lists, n) /\ FlattenSeq(lists) = f[n]
<1> DEFINE S == UNION {{lists[k][i] : i \in 1..Len(lists[k])} : k \in 1..n}
<1>0. n \in Nat \ {0}
  BY DEF AreSeqs
<1>1. \A k \in 1..n : lists[k] \in Seq(S)
  <2>. SUFFICES ASSUME NEW k \in 1..n PROVE lists[k] \in Seq(S)
    OBVIOUS
  <2>1. lists[k] \in Seq({lists[k][i] : i \in 1..Len(lists[k])})
    BY SeqsAre DEF AreSeqs
  <2>2. {lists[k][i] : i \in 1..Len(lists[k])} \subseteq S
    OBVIOUS
  <2>. QED  BY SMTT(30), <2>1, <2>2
<1>. HIDE DEF S
<1>2. Len(lists) = n
  BY Tabulated DEF AreSeqs
<1> DEFINE f == CHOOSE h : Flattened(h, lists, n)
<1>3. Flattened(f, lists, n)
  BY <1>0, <1>1, FlattenExists
<1>4. FlattenSeq(lists) = f[n]
  <2>1. Len(lists) # 0
    BY <1>2
  <2>. QED  BY <1>2, <2>1 DEF FlattenSeq, Flattened
<1>. HIDE DEF f
<1>5. Grows(f, lists, n)
  <2>1. f = [i \in 1..n |-> IF i = 1 THEN lists[i] ELSE f[i - 1] \o lists[i]]
    BY <1>3 DEF Flattened
  <2>2. f[1] = lists[1]
    BY <1>0, <2>1
  <2>3. ASSUME NEW i \in 1..(n - 1) PROVE f[i + 1] = f[i] \o lists[i + 1]
    <3>1. i + 1 \in 1..n /\ i + 1 # 1 /\ (i + 1) - 1 = i
      BY <1>0
    <3>. QED  BY <2>1, <3>1
  <2>. QED  BY <2>2, <2>3 DEF Grows
<1>. QED  BY <1>4, <1>5

\* off[k] is where the k-th of the first i lists starts in flat, less 1.
Blocks(flat, lists, off, i) ==
    /\ IsSeq(flat) /\ Len(flat) = off[i + 1] /\ off[1] = 0
    /\ \A k \in 1..i : off[k] \in Nat /\ off[k + 1] \in Nat /\ off[k + 1] = off[k] + Len(lists[k])
    /\ \A k \in 1..i : \A j \in 1..Len(lists[k]) : flat[off[k] + j] = lists[k][j]
    /\ \A p \in 1..Len(flat) : \E k \in 1..i : \E j \in 1..Len(lists[k]) : p = off[k] + j

LEMMA OffsetsRise ==
    ASSUME NEW i \in Nat, NEW off, \A k \in 1..i : off[k] \in Nat /\ off[k + 1] \in Nat /\ off[k] <= off[k + 1]
    PROVE  \A k \in 1..i : \A l \in 1..(i + 1) : k <= l => off[k] <= off[l]
<1>. SUFFICES ASSUME NEW k \in 1..i PROVE \A l \in 1..(i + 1) : k <= l => off[k] <= off[l]
  OBVIOUS
<1> DEFINE T == {l \in Nat : k + l <= i + 1 => off[k + l] \in Nat /\ off[k] <= off[k + l]}
<1>1. 0 \in T
  <2>1. k + 0 = k
    OBVIOUS
  <2>. QED  BY <2>1
<1>2. ASSUME NEW l \in Nat, l \in T PROVE l + 1 \in T
  <2>. SUFFICES ASSUME k + (l + 1) <= i + 1 PROVE off[k + (l + 1)] \in Nat /\ off[k] <= off[k + (l + 1)]
    OBVIOUS
  <2> DEFINE m == k + l
  <2>1. m \in 1..i /\ m + 1 = k + (l + 1) /\ m <= i + 1
    OBVIOUS
  <2>2. off[m] \in Nat /\ off[k] <= off[m]
    BY <1>2, <2>1
  <2>. HIDE DEF m
  <2>3. off[m + 1] \in Nat /\ off[k] <= off[m + 1]
    BY <2>1, <2>2
  <2>. QED  BY <2>1, <2>3
<1>. HIDE DEF T
<1>3. Nat \subseteq T
  BY <1>1, <1>2, NatIsBuiltUp
<1>. SUFFICES ASSUME NEW l \in 1..(i + 1), k <= l PROVE off[k] <= off[l]
  OBVIOUS
<1>4. l - k \in T /\ k + (l - k) = l
  BY <1>3
<1>. QED  BY <1>4 DEF T

LEMMA BlocksGrow ==
    ASSUME NEW lists, NEW n, AreSeqs(lists, n), NEW off, NEW i \in 1..(n - 1),
           NEW flat, Blocks(flat, lists, off, i), off[i + 2] = off[i + 1] + Len(lists[i + 1])
    PROVE  Blocks(flat \o lists[i + 1], lists, off, i + 1)
<1> DEFINE t == lists[i + 1]
           all == flat \o t
           a == Len(flat)
           b == Len(t)
<1>0. n \in Nat /\ i + 1 \in 1..n /\ (i + 1) + 1 = i + 2 /\ i \in 1..i
  BY DEF AreSeqs
<1>1. IsSeq(flat) /\ IsSeq(t) /\ a = off[i + 1] /\ off[i + 1] \in Nat /\ b \in Nat /\ off[i + 2] = a + b
  <2>1. IsSeq(flat) /\ a = off[i + 1]
    BY DEF Blocks
  <2>2. IsSeq(t)
    BY <1>0 DEF AreSeqs
  <2>3. a \in Nat /\ b \in Nat
    BY <2>1, <2>2, SeqsAre
  <2>4. off[i + 2] = off[i + 1] + b
    BY <1>0 DEF Blocks
  <2>. QED  BY <2>1, <2>2, <2>3, <2>4
<1>2. /\ IsSeq(all) /\ Len(all) = a + b
      /\ \A j \in 1..a : all[j] = flat[j]
      /\ \A j \in 1..b : all[a + j] = t[j]
  <2>1. IsSeq(flat) /\ IsSeq(t)
    BY <1>1
  <2>. HIDE DEF t
  <2>. QED  BY <2>1, EndToEnd
<1>. HIDE DEF all
<1>3. ASSUME NEW k \in 1..(i + 1)
      PROVE  /\ off[k] \in Nat /\ off[k + 1] \in Nat /\ off[k + 1] = off[k] + Len(lists[k])
             /\ \A j \in 1..Len(lists[k]) : all[off[k] + j] = lists[k][j]
  <2>1. CASE k = i + 1
    BY <1>0, <1>1, <1>2, <2>1
  <2>2. CASE k # i + 1
    <3>1. k \in 1..i /\ k \in 1..n
      BY <1>0, <2>2
    <3>2. /\ off[k] \in Nat /\ off[k + 1] \in Nat /\ off[k + 1] = off[k] + Len(lists[k])
          /\ \A j \in 1..Len(lists[k]) : flat[off[k] + j] = lists[k][j]
      BY <3>1 DEF Blocks
    <3>3. ASSUME NEW j \in 1..Len(lists[k]) PROVE off[k] + j \in 1..a
      <4>1. Len(lists[k]) \in Nat
        BY <3>1, SeqsAre DEF AreSeqs
      <4>2. \A l \in 1..i : off[l] \in Nat /\ off[l + 1] \in Nat /\ off[l] <= off[l + 1]
        <5>. SUFFICES ASSUME NEW l \in 1..i PROVE off[l] \in Nat /\ off[l + 1] \in Nat /\ off[l] <= off[l + 1]
          OBVIOUS
        <5>1. Len(lists[l]) \in Nat
          <6>1. l \in 1..n
            BY <1>0
          <6>. QED  BY <6>1, SeqsAre DEF AreSeqs
        <5>2. off[l] \in Nat /\ off[l + 1] = off[l] + Len(lists[l])
          BY DEF Blocks
        <5>. QED  BY <5>1, <5>2
      <4>3. \A l \in 1..i : \A m \in 1..(i + 1) : l <= m => off[l] <= off[m]
        <5>1. i \in Nat
          BY <1>0
        <5>. HIDE DEF t, a, b
        <5>. QED  BY <4>2, <5>1, OffsetsRise
      <4>4. k + 1 <= i => off[k + 1] <= off[i + 1]
        BY <3>1, <4>3, <1>0
      <4>6. off[k + 1] <= off[i + 1]
        BY <3>1, <4>4, <1>0, <3>2
      <4>7. off[k + 1] <= a /\ a \in Nat
        BY <1>1, <4>6
      <4> DEFINE lo == off[k]
                 len == Len(lists[k])
      <4>8. lo \in Nat /\ len \in Nat /\ lo + len <= a /\ a \in Nat /\ j \in 1..len
        BY <3>2, <4>1, <4>7
      <4>. HIDE DEF a, b, t, lo, len
      <4>9. lo + j \in 1..a
        BY <4>8
      <4>. QED  BY <4>9 DEF lo
    <3>. HIDE DEF a, b, t
    <3>. QED  BY <1>2, <3>2, <3>3
  <2>. QED  BY <2>1, <2>2
<1>4. ASSUME NEW p \in 1..Len(all)
      PROVE  \E k \in 1..(i + 1) : \E j \in 1..Len(lists[k]) : p = off[k] + j
  <2>1. CASE p \in 1..a
    <3>1. \E k \in 1..i : \E j \in 1..Len(lists[k]) : p = off[k] + j
      BY <2>1 DEF Blocks
    <3>2. 1..i \subseteq 1..(i + 1)
      BY <1>0
    <3>. QED  BY <3>1, <3>2
  <2>2. CASE p \notin 1..a
    <3>1. p - a \in 1..b /\ p = off[i + 1] + (p - a) /\ i + 1 \in 1..(i + 1)
      BY <1>0, <1>1, <1>2, <2>2
    <3>. QED  BY <3>1
  <2>. QED  BY <2>1, <2>2
<1>5. IsSeq(all) /\ Len(all) = off[(i + 1) + 1] /\ off[1] = 0
  BY <1>0, <1>1, <1>2 DEF Blocks
<1>. QED  BY <1>3, <1>4, <1>5 DEF Blocks, all

LEMMA FlattenBlocks ==
    ASSUME NEW lists, NEW n, AreSeqs(lists, n)
    PROVE  \E off : Blocks(FlattenSeq(lists), lists, off, n)
<1>0. n \in Nat
  BY DEF AreSeqs
<1>1. CASE n = 0
  <2> DEFINE off == [k \in {1} |-> 0]
  <2>1. Len(lists) = 0 /\ IsSeq(lists)
    BY <1>1, Tabulated DEF AreSeqs
  <2>2. FlattenSeq(lists) = lists
    BY <2>1 DEF FlattenSeq
  <2>3. off[1] = 0 /\ n + 1 = 1 /\ 1..n = {} /\ 1..0 = {}
    BY <1>1
  <2>. HIDE DEF off
  <2>4. Blocks(FlattenSeq(lists), lists, off, n)
    BY <2>1, <2>2, <2>3 DEF Blocks
  <2>. QED  BY <2>4
<1>2. CASE n # 0
  <2>1. PICK f : Grows(f, lists, n) /\ FlattenSeq(lists) = f[n]
    BY <1>2, FlattenGrows
  <2> DEFINE off == [k \in 1..(n + 1) |-> IF k = 1 THEN 0 ELSE Len(f[k - 1])]
             T == {m \in Nat : m + 1 <= n => Blocks(f[m + 1], lists, off, m + 1)}
  <2>2. off[1] = 0 /\ \A k \in 1..n : off[k + 1] = Len(f[k])
    <3>1. \A k \in 1..n : k + 1 \in 1..(n + 1) /\ k + 1 # 1 /\ (k + 1) - 1 = k
      BY <1>0
    <3>2. 1 \in 1..(n + 1)
      BY <1>0
    <3>. QED  BY <3>1, <3>2
  <2>. HIDE DEF off
  <2>3. 0 \in T
    <3>1. 1 \in 1..n /\ 0 + 1 = 1 /\ 1..1 = {1}
      BY <1>0, <1>2
    <3>2. IsSeq(lists[1]) /\ f[1] = lists[1] /\ Len(lists[1]) \in Nat
      BY <2>1, <3>1, SeqsAre DEF AreSeqs, Grows
    <3>3. off[1 + 1] = Len(lists[1]) /\ off[1] = 0
      BY <2>2, <3>1, <3>2
    <3>4. \A j \in 1..Len(lists[1]) : 0 + j = j
      BY <3>2
    <3>5. Blocks(lists[1], lists, off, 1)
      BY <3>1, <3>2, <3>3, <3>4 DEF Blocks
    <3>. QED  BY <3>1, <3>2, <3>5
  <2>4. ASSUME NEW m \in Nat, m \in T PROVE m + 1 \in T
    <3> DEFINE i == m + 1
    <3>. SUFFICES ASSUME i + 1 <= n PROVE Blocks(f[i + 1], lists, off, i + 1)
      OBVIOUS
    <3>1. i \in 1..(n - 1) /\ i \in 1..n /\ i + 1 \in 1..n /\ (i + 1) + 1 = i + 2
      BY <1>0
    <3>2. Blocks(f[i], lists, off, i)
      BY <2>4, <3>1
    <3>. HIDE DEF i
    <3>3. f[i + 1] = f[i] \o lists[i + 1]
      BY <2>1, <3>1 DEF Grows
    <3>4. IsSeq(f[i]) /\ IsSeq(lists[i + 1]) /\ off[i + 1] = Len(f[i]) /\ off[i + 2] = Len(f[i + 1])
      BY <2>2, <3>1, <3>2 DEF Blocks, AreSeqs
    <3>5. off[i + 2] = off[i + 1] + Len(lists[i + 1])
      BY <3>3, <3>4, EndToEnd
    <3>. QED  BY <3>1, <3>2, <3>3, <3>5, BlocksGrow
  <2>. HIDE DEF T
  <2>5. Nat \subseteq T
    BY <2>3, <2>4, NatIsBuiltUp
  <2>6. n - 1 \in T /\ (n - 1) + 1 = n
    BY <1>0, <1>2, <2>5
  <2>7. Blocks(f[n], lists, off, n)
    BY <2>6 DEF T
  <2>. QED  BY <2>1, <2>7
<1>. QED  BY <1>1, <1>2
LEMMA BlocksRise ==
    ASSUME NEW flat, NEW lists, NEW off, NEW n, AreSeqs(lists, n), Blocks(flat, lists, off, n)
    PROVE  \A k \in 1..n : \A l \in 1..(n + 1) : k <= l => off[k] <= off[l]
<1>1. \A l \in 1..n : off[l] \in Nat /\ off[l + 1] \in Nat /\ off[l] <= off[l + 1]
  <2>. SUFFICES ASSUME NEW l \in 1..n PROVE off[l] \in Nat /\ off[l + 1] \in Nat /\ off[l] <= off[l + 1]
    OBVIOUS
  <2>1. Len(lists[l]) \in Nat
    BY SeqsAre DEF AreSeqs
  <2>. QED  BY <2>1 DEF Blocks
<1>. QED  BY <1>1, OffsetsRise DEF AreSeqs

-----------------------------------------------------------------------------
(* The sections of a RAW file.                                             *)

\* A file in blocks: the three lines of the header, lines that turn to another
\* section, alone in their blocks, and blocks of records.
InBlocks(lists, n, turning, marked) ==
    /\ AreSeqs(lists, n) /\ turning \in SUBSET (2..n) /\ n >= 1 /\ Len(lists[1]) = 3
    /\ \A k \in turning : Len(lists[k]) = 1 /\ Turns(lists[k][1], marked)
    /\ \A k \in (1..n) \ turning : \A j \in 1..Len(lists[k]) :
          lists[k][j].what = "record" /\ ~Turns(lists[k][j], marked)

\* Block K is the one section of that name: it is the one right after the only
\* line that turns to it, or the one a v32/33 file begins with.
IsSection(lists, n, turning, marked, K, name) ==
    /\ K \in (2..n) \ turning /\ (K = n \/ K + 1 \in turning) /\ name # "none"
    /\ IF K = 2 THEN ~marked /\ name = "bus"
       ELSE K - 1 \in turning /\ SectionAfter(lists[K - 1][1], marked) = name /\ (marked \/ name # "bus")
    /\ \A k \in turning : k # K - 1 => SectionAfter(lists[k][1], marked) # name

LEMMA SectionOfBlock ==
    ASSUME NEW lists, NEW n, NEW turning, NEW lines, lines = FlattenSeq(lists),
           NEW marked, marked = Marked(lines), marked \in BOOLEAN, InBlocks(lists, n, turning, marked),
           NEW K, NEW name, IsSection(lists, n, turning, marked, K, name)
    PROVE  Section(lines, name) = [j \in 1..Len(lists[K]) |-> lists[K][j].f]
<1>0. AreSeqs(lists, n) /\ n \in Nat /\ n >= 1 /\ K \in 2..n /\ K \in Nat
  BY DEF InBlocks, IsSection, AreSeqs
<1>1. PICK off : Blocks(lines, lists, off, n)
  BY <1>0, FlattenBlocks
<1> DEFINE N == Len(lines)
           p == off[K]
           m == Len(lists[K])
           start == IF marked THEN 2 ELSE 4
           body == start..N
           turns == {i \in body : Turns(lines[i], marked)}
           before(i) == {j \in turns : j < i}
           current(i) == IF before(i) = {} THEN IF marked THEN "none" ELSE "bus"
                         ELSE SectionAfter(lines[Max(before(i))], marked)
           fields == [i \in DOMAIN lines |-> lines[i].f]
           at == {i \in body \ turns : current(i) = name}
<1>2. \A k \in 1..n : \A l \in 1..(n + 1) : k <= l => off[k] <= off[l]
  BY <1>0, <1>1, BlocksRise
<1>3. /\ N \in Nat /\ DOMAIN lines = 1..N /\ N = off[n + 1] /\ off[1] = 0
      /\ \A k \in 1..n : off[k] \in Nat /\ off[k + 1] \in Nat /\ off[k + 1] = off[k] + Len(lists[k])
  BY <1>1, SeqsAre DEF Blocks
<1>4. \A k \in 1..n : \A j \in 1..Len(lists[k]) : lines[off[k] + j] = lists[k][j]
  BY <1>1 DEF Blocks
<1>5. \A i \in 1..N : \E k \in 1..n : \E j \in 1..Len(lists[k]) : i = off[k] + j
  BY <1>1 DEF Blocks
<1>6. /\ \A k \in turning : k \in 2..n /\ Len(lists[k]) = 1 /\ Turns(lists[k][1], marked)
      /\ \A k \in (1..n) \ turning : \A j \in 1..Len(lists[k]) :
            lists[k][j].what = "record" /\ ~Turns(lists[k][j], marked)
  BY DEF InBlocks
<1>7. \A k \in 2..(n + 1) : off[k] \in Nat /\ off[k] >= 3
  <2>. SUFFICES ASSUME NEW k \in 2..(n + 1) PROVE off[k] \in Nat /\ off[k] >= 3
    OBVIOUS
  <2>1. off[2] = 3
    <3>1. 1 \in 1..n /\ Len(lists[1]) = 3
      BY <1>0 DEF InBlocks
    <3>2. off[1 + 1] = off[1] + Len(lists[1]) /\ off[1] = 0
      BY <1>3, <3>1
    <3>3. off[1 + 1] = 3
      BY <3>1, <3>2
    <3>. QED  BY <3>3
  <2>2. k - 1 \in 1..n /\ (k - 1) + 1 = k
    BY <1>0
  <2>3. off[k] \in Nat
    BY <1>3, <2>2
  <2>4. CASE k = 2
    BY <2>1, <2>4
  <2>5. CASE k # 2
    <3>1. 2 \in 1..n /\ k \in 1..(n + 1) /\ 2 <= k
      BY <1>0, <2>5
    <3>2. off[2] <= off[k]
      BY <1>2, <3>1
    <3>. QED  BY <2>1, <2>3, <3>2
  <2>. QED  BY <2>4, <2>5
<1>8. p \in Nat /\ m \in Nat /\ p >= 3 /\ off[K + 1] = p + m /\ p + m <= N
  <2>1. K \in 2..(n + 1) /\ K \in 1..n /\ K + 1 \in 1..(n + 1)
    BY <1>0
  <2>2. m \in Nat
    BY <1>0, <2>1, SeqsAre DEF AreSeqs
  <2>3. off[K + 1] <= off[n + 1]
    <3>1. CASE K = n
      BY <3>1, <1>3, <1>0
    <3>2. CASE K # n
      <4>1. K + 1 \in 1..n /\ n + 1 \in 1..(n + 1) /\ K + 1 <= n + 1
        BY <1>0, <3>2
      <4>. QED  BY <4>1, <1>2
    <3>. QED  BY <3>1, <3>2
  <2>. QED  BY <1>3, <1>7, <2>1, <2>2, <2>3
<1>9. turns = {off[k] + 1 : k \in turning}
  <2>1. ASSUME NEW i \in turns PROVE \E k \in turning : i = off[k] + 1
    <3>1. i \in 1..N
      <4>1. start \in 1..4
        OBVIOUS
      <4>. QED  BY <4>1, <1>3
    <3>6. PICK k \in 1..n : \E j \in 1..Len(lists[k]) : i = off[k] + j
      BY <1>5, <3>1
    <3>2. PICK j \in 1..Len(lists[k]) : i = off[k] + j
      BY <3>6
    <3>3. Turns(lists[k][j], marked)
      BY <1>4, <3>2
    <3>4. k \in turning
      BY <1>6, <3>3
    <3>7. Len(lists[k]) = 1
      BY <1>6, <3>4
    <3>5. j = 1
      BY <3>7
    <3>. QED  BY <3>2, <3>4, <3>5
  <2>2. ASSUME NEW k \in turning PROVE off[k] + 1 \in turns
    <3>1. k \in 2..(n + 1) /\ k \in 1..n /\ Len(lists[k]) = 1 /\ 1 \in 1..1
      BY <1>6, <1>0
    <3>2. off[k] \in Nat /\ off[k] >= 3 /\ off[k + 1] = off[k] + 1 /\ lines[off[k] + 1] = lists[k][1]
      BY <1>3, <1>4, <1>7, <3>1
    <3>3. off[k + 1] <= N
      <4>1. CASE k = n
        BY <4>1, <1>3, <3>2
      <4>2. CASE k # n
        <5>1. k + 1 \in 1..n /\ n + 1 \in 1..(n + 1) /\ k + 1 <= n + 1
          BY <1>0, <3>1, <4>2
        <5>2. off[k + 1] <= off[n + 1]
          BY <5>1, <1>2
        <5>. QED  BY <5>2, <1>3
      <4>. QED  BY <4>1, <4>2
    <3>4. Turns(lines[off[k] + 1], marked)
      BY <1>6, <3>2
    <3>5. off[k] + 1 \in body
      BY <3>2, <3>3, <1>3
    <3>. QED  BY <3>4, <3>5
  <2>. HIDE DEF turns
  <2>. QED  BY <2>1, <2>2
<1>. HIDE DEF N, p, m, start, turns
\* A turning line is at or before the section's start, or right behind it, or later.
<1>10. ASSUME NEW k \in turning
       PROVE  /\ off[k] + 1 \in turns /\ off[k] \in Nat
              /\ lines[off[k] + 1] = lists[k][1]
              /\ k = K - 1 => off[k] + 1 = p
              /\ k < K - 1 => off[k] + 1 < p
              /\ k >= K => off[k] >= p + m
  <2>1. k \in 1..n /\ k \in 2..n /\ Len(lists[k]) = 1 /\ 1 \in 1..1 /\ k \in Nat /\ k # K
    BY <1>6, <1>0 DEF IsSection
  <2>2. off[k] \in Nat /\ off[k + 1] = off[k] + 1 /\ lines[off[k] + 1] = lists[k][1]
    BY <1>3, <1>4, <2>1
  <2>3. k = K - 1 => off[k] + 1 = p
    <3>1. k = K - 1 => k + 1 = K
      BY <1>0
    <3>. QED  BY <2>2, <3>1 DEF p
  <2>4. ASSUME k < K - 1 PROVE off[k] + 1 < p
    <3>1. K - 1 \in 1..n /\ k + 1 \in 1..n /\ k + 1 <= K - 1 /\ K - 1 \in 1..(n + 1) /\ (K - 1) + 1 = K
      BY <1>0, <2>1, <2>4
    <3>2. off[k + 1] <= off[K - 1]
      BY <1>2, <3>1
    <3>3. K # 2
      BY <2>1, <2>4, <1>0
    <3>4. K - 1 \in turning
      BY <3>3 DEF IsSection
    <3>5. off[K] = off[K - 1] + 1 /\ off[K - 1] \in Nat
      BY <1>3, <1>6, <3>1, <3>4
    <3>. QED  BY <2>2, <3>2, <3>5 DEF p
  <2>5. ASSUME k >= K PROVE off[k] >= p + m
    <3>1. K + 1 \in 1..n /\ k \in 1..(n + 1) /\ K + 1 <= k
      BY <1>0, <2>1, <2>5
    <3>2. off[K + 1] <= off[k]
      BY <1>2, <3>1
    <3>. QED  BY <1>8, <2>2, <3>2
  <2>6. off[k] + 1 \in turns
    BY <1>9
  <2>. QED  BY <2>2, <2>3, <2>4, <2>5, <2>6
<1>11. \A i \in turns : \E k \in turning : i = off[k] + 1
  BY <1>9
<1>12. turns \in SUBSET Int /\ IsFiniteSet(turns)
  <2>1. IsFiniteSet(body) /\ body \in SUBSET Int
    <3>1. start \in Int /\ N \in Int
      BY <1>3 DEF start
    <3>. QED  BY <3>1, FS_Interval
  <2>2. turns \in SUBSET body
    BY DEF turns
  <2>. QED  BY <2>1, <2>2, FS_Subset
<1>13. ASSUME NEW i, before(i) # {} PROVE Max(before(i)) \in before(i) /\ \A y \in before(i) : y <= Max(before(i))
  <2>1. before(i) \in SUBSET turns
    OBVIOUS
  <2>2. before(i) \in SUBSET Int /\ IsFiniteSet(before(i))
    BY <1>12, <2>1, FS_Subset
  <2>. HIDE DEF before
  <2>. QED  BY <1>13, <2>2, GreatestExists
\* What is behind the section is behind its end.
<1>14. K # n => K + 1 \in turning /\ off[K + 1] + 1 = p + m + 1
  <2>1. K # n => K + 1 \in turning
    BY DEF IsSection
  <2>. QED  BY <1>8, <2>1
<1>15. ASSUME NEW i \in (p + 1)..(p + m)
       PROVE  i \in body \ turns /\ lines[i].what = "record" /\ current(i) = name
  <2>1. i - p \in 1..m /\ i = p + (i - p) /\ i \in Nat
    BY <1>8
  <2>2. lines[i] = lists[K][i - p]
    BY <1>4, <1>0, <2>1 DEF p, m
  <2>3. K \in (1..n) \ turning
    BY <1>0 DEF IsSection
  <2>4. lines[i].what = "record" /\ ~Turns(lines[i], marked)
    BY <1>6, <2>1, <2>2, <2>3 DEF m
  <2>5. i \in body /\ i \notin turns
    <3>1. i >= 4 /\ i <= N
      BY <1>3, <1>8, <2>1
    <3>. QED  BY <3>1, <2>1, <2>4, <1>3 DEF start, turns
  <2>6. \A j \in before(i) : j <= p /\ \E k \in turning : j = off[k] + 1 /\ k <= K - 1
    <3>. SUFFICES ASSUME NEW j \in before(i) PROVE j <= p /\ \E k \in turning : j = off[k] + 1 /\ k <= K - 1
      OBVIOUS
    <3>1. PICK k \in turning : j = off[k] + 1
      BY <1>11
    <3>2. k \in Nat
      BY <1>6, <1>0
    <3>3. ~(k >= K)
      BY <1>10, <3>1, <1>8
    <3>. QED  BY <1>0, <1>8, <1>10, <3>1, <3>2, <3>3
  <2>7. current(i) = name
    <3>1. CASE K = 2
      <4>1. before(i) = {}
        <5>1. \A k \in turning : k >= 2
          BY <1>6, <1>0
        <5>. HIDE DEF before
        <5>. QED  BY <2>6, <3>1, <5>1, <1>6, <1>0
      <4>2. ~marked /\ name = "bus"
        BY <3>1 DEF IsSection
      <4>. QED  BY <4>1, <4>2
    <3>2. CASE K # 2
      <4>1. K - 1 \in turning /\ SectionAfter(lists[K - 1][1], marked) = name
        BY <3>2 DEF IsSection
      <4>2. p \in before(i) /\ lines[p] = lists[K - 1][1]
        BY <1>10, <4>1, <2>1, <1>8
      <4>3. before(i) # {}
        BY <4>2
      <4>4. Max(before(i)) \in before(i) /\ p <= Max(before(i))
        BY <1>13, <4>2, <4>3
      <4>5. Max(before(i)) = p
        <5> DEFINE x == Max(before(i))
        <5>1. x \in Int
          BY <4>4, <1>12
        <5>2. x <= p /\ p <= x
          BY <2>6, <4>4
        <5>. HIDE DEF x
        <5>3. x = p
          BY <5>1, <5>2, <1>8
        <5>. QED  BY <5>3 DEF x
      <4>. QED  BY <4>1, <4>2, <4>3, <4>5
    <3>. QED  BY <3>1, <3>2
  <2>. QED  BY <2>4, <2>5, <2>7
<1>16. ASSUME NEW i \in body \ turns, current(i) = name
       PROVE  i \in (p + 1)..(p + m)
  <2>0. i \in Int /\ i <= N
    BY <1>3 DEF start
  <2>1. \A k \in turning : off[k] + 1 < i => off[k] + 1 \in before(i)
    BY <1>10
  <2>2. ASSUME p < i PROVE i <= p + m
    <3>1. CASE K = n
      BY <3>1, <1>3, <1>8, <2>0
    <3>2. CASE K # n
      <4>1. K + 1 \in turning /\ off[K + 1] + 1 = p + m + 1
        BY <1>14, <3>2
      <4>. SUFFICES ASSUME i > p + m PROVE FALSE
        BY <2>0, <1>8
      <4>2. p + m + 1 \in turns
        BY <1>10, <4>1
      <4>3. p + m + 1 < i
        <5>1. i # p + m + 1
          BY <4>2
        <5>. QED  BY <5>1, <2>0, <1>8
      <4>4. p + m + 1 \in before(i)
        BY <2>1, <4>1, <4>3
      <4>5. before(i) # {} /\ Max(before(i)) \in before(i) /\ p + m + 1 <= Max(before(i))
        BY <4>4, <1>13
      <4>6. PICK k \in turning : Max(before(i)) = off[k] + 1
        BY <4>5, <1>11
      <4>7. SectionAfter(lists[k][1], marked) = name
        BY <1>10, <1>16, <4>5, <4>6
      <4>8. k = K - 1
        BY <4>7 DEF IsSection
      <4>9. off[k] + 1 = p
        BY <4>8, <1>10
      <4>. QED  BY <4>5, <4>6, <4>9, <1>8
    <3>. QED  BY <3>1, <3>2
  <2>3. p < i
    <3>1. CASE before(i) = {}
      <4>1. ~marked /\ name = "bus"
        BY <3>1, <1>16 DEF IsSection
      <4>2. K = 2
        BY <4>1 DEF IsSection
      <4>3. p = 3
        <5>1. 1 \in 1..n /\ Len(lists[1]) = 3
          BY <1>0 DEF InBlocks
        <5>2. off[1 + 1] = off[1] + Len(lists[1]) /\ off[1] = 0
          BY <1>3, <5>1
        <5>3. off[1 + 1] = 3
          BY <5>1, <5>2
        <5>. QED  BY <4>2, <5>3 DEF p
      <4>. QED  BY <4>1, <4>3, <2>0 DEF start
    <3>2. CASE before(i) # {}
      <4>1. Max(before(i)) \in before(i)
        BY <1>13, <3>2
      <4>2. PICK k \in turning : Max(before(i)) = off[k] + 1
        BY <4>1, <1>11
      <4>3. SectionAfter(lists[k][1], marked) = name
        BY <1>10, <1>16, <3>2, <4>2
      <4>4. k = K - 1
        BY <4>3 DEF IsSection
      <4>5. off[k] + 1 = p /\ off[k] + 1 < i
        BY <4>1, <4>2, <4>4, <1>10
      <4>. QED  BY <4>5
    <3>. QED  BY <3>1, <3>2
  <2>. QED  BY <2>0, <2>2, <2>3, <1>8
<1>17. at = (p + 1)..(p + m)
  <2>1. \A i \in at : i \in (p + 1)..(p + m)
    BY <1>16
  <2>2. \A i \in (p + 1)..(p + m) : i \in at
    BY <1>15
  <2>. HIDE DEF at
  <2>. QED  BY <2>1, <2>2
<1>18. Section(lines, name) = Picked(fields, at)
  BY DEF Section, start, turns, N
<1>. HIDE DEF at, fields
<1>19. Section(lines, name) = [k \in 1..m |-> fields[p + k]]
  BY <1>8, <1>17, <1>18, PickedRun
<1>20. \A k \in 1..m : fields[p + k] = lists[K][k].f
  <2>. SUFFICES ASSUME NEW k \in 1..m PROVE fields[p + k] = lists[K][k].f
    OBVIOUS
  <2>1. p + k \in 1..N
    <3>1. k <= m /\ k >= 1 /\ k \in Int /\ m \in Nat /\ p \in Nat /\ p + m <= N /\ N \in Nat
      BY <1>8, <1>3
    <3>. QED  BY <3>1
  <2>2. lines[p + k] = lists[K][k]
    BY <1>0, <1>4 DEF p, m
  <2>. QED  BY <1>3, <2>1, <2>2 DEF fields
<1>. QED  BY <1>19, <1>20 DEF m

-----------------------------------------------------------------------------
(* What a case is.                                                         *)

LEMMA CaseShape ==
    ASSUME NEW c, IsCase(c)
    PROVE  /\ Len(c.volts) \in Nat /\ DOMAIN c.volts = 1..Len(c.volts) /\ IsSeq(c.volts)
           /\ Len(c.loads) \in Nat /\ DOMAIN c.loads = 1..Len(c.loads) /\ IsSeq(c.loads)
           /\ Len(c.lines) \in Nat /\ DOMAIN c.lines = 1..Len(c.lines) /\ IsSeq(c.lines)
           /\ Len(c.transformers) \in Nat /\ DOMAIN c.transformers = 1..Len(c.transformers)
           /\ IsSeq(c.transformers) /\ c.sbase \in Nat \ {0}
           /\ \A b \in DOMAIN c.volts : c.volts[b] \in Nat \ {0}
           /\ \A k \in DOMAIN c.loads : /\ c.loads[k].bus \in DOMAIN c.volts /\ c.loads[k].on \in BOOLEAN
                                        /\ c.loads[k].watts \in Nat
           /\ \A i \in DOMAIN c.lines : c.lines[i] \in LineOf(DOMAIN c.volts)
           /\ \A i \in DOMAIN c.transformers : c.transformers[i] \in TransformerOf(DOMAIN c.volts)
<1>1. c.volts \in Seq(AboveZero) /\ c.sbase \in Nat \ {0}
  BY DEF IsCase, AboveZero
<1> DEFINE U == [bus : DOMAIN c.volts, on : BOOLEAN, watts : Nat]
<1>2. c.loads \in Seq(U) /\ c.lines \in Seq(LineOf(DOMAIN c.volts))
      /\ c.transformers \in Seq(TransformerOf(DOMAIN c.volts))
  BY DEF IsCase
<1>3. ASSUME NEW S, NEW s \in Seq(S)
      PROVE  Len(s) \in Nat /\ DOMAIN s = 1..Len(s) /\ IsSeq(s) /\ \A i \in DOMAIN s : s[i] \in S
  <2>1. Len(s) \in Nat /\ DOMAIN s = 1..Len(s)
    OBVIOUS
  <2>2. s = [i \in 1..Len(s) |-> s[i]]
    OBVIOUS
  <2>. QED  BY <2>1, <2>2 DEF IsSeq
<1>4. \A k \in DOMAIN c.loads : c.loads[k] \in U
  BY <1>2, <1>3
<1>5. \A k \in DOMAIN c.loads : /\ c.loads[k].bus \in DOMAIN c.volts /\ c.loads[k].on \in BOOLEAN
                                /\ c.loads[k].watts \in Nat
  BY <1>4
<1>. HIDE DEF U
<1>6. Len(c.volts) \in Nat /\ DOMAIN c.volts = 1..Len(c.volts) /\ IsSeq(c.volts)
      /\ \A b \in DOMAIN c.volts : c.volts[b] \in Nat \ {0}
  BY <1>1, <1>3 DEF AboveZero
<1>. QED  BY <1>1, <1>2, <1>3, <1>5, <1>6

LEMMA BranchShape ==
    ASSUME NEW c, IsCase(c)
    PROVE  /\ BranchIds(c) = 1..(Len(c.lines) + Len(c.transformers))
           /\ Len(c.lines) + Len(c.transformers) \in Nat
           /\ \A i \in BranchIds(c) :
                 /\ BranchAt(c, i).from \in DOMAIN c.volts /\ BranchAt(c, i).to \in DOMAIN c.volts
                 /\ BranchAt(c, i).z \in Nat /\ BranchAt(c, i).rate \in Nat \ {0}
                 /\ ~Wound(c, i) => i \in DOMAIN c.lines /\ BranchAt(c, i) = c.lines[i]
                 /\ Wound(c, i) => /\ i - Len(c.lines) \in DOMAIN c.transformers
                                   /\ BranchAt(c, i) = c.transformers[i - Len(c.lines)]
                                   /\ BranchAt(c, i).tap \in Nat \ {0}
                                   /\ BranchAt(c, i).delta \in BOOLEAN
<1> DEFINE L == Len(c.lines)
           T == Len(c.transformers)
<1>1. L \in Nat /\ T \in Nat /\ DOMAIN c.lines = 1..L /\ DOMAIN c.transformers = 1..T
  BY CaseShape
<1>2. \A i \in DOMAIN c.lines : c.lines[i] \in LineOf(DOMAIN c.volts)
  BY CaseShape
<1>3. \A i \in DOMAIN c.transformers : c.transformers[i] \in TransformerOf(DOMAIN c.volts)
  BY CaseShape
<1>0. BranchIds(c) = 1..(L + T) /\ L + T \in Nat /\ \A i : Wound(c, i) <=> i > L
  <2>1. BranchIds(c) = 1..(L + T) /\ \A i : Wound(c, i) <=> i > L
    BY DEF BranchIds, Wound
  <2>. HIDE DEF L, T
  <2>2. L + T \in Nat
    BY <1>1
  <2>. QED  BY <2>1, <2>2
<1>. HIDE DEF L, T
<1>4. ASSUME NEW i \in BranchIds(c), ~Wound(c, i)
      PROVE  i \in DOMAIN c.lines /\ BranchAt(c, i) = c.lines[i]
  <2>1. i \in 1..L
    BY <1>0, <1>1, <1>4
  <2>. QED  BY <1>1, <1>4, <2>1 DEF BranchAt
<1>5. ASSUME NEW i \in BranchIds(c), Wound(c, i)
      PROVE  i - L \in DOMAIN c.transformers /\ BranchAt(c, i) = c.transformers[i - L]
  <2>1. i - L \in 1..T
    BY <1>0, <1>1, <1>5
  <2>. QED  BY <1>1, <1>5, <2>1 DEF BranchAt, L
<1>6. ASSUME NEW i \in BranchIds(c)
      PROVE  /\ BranchAt(c, i).from \in DOMAIN c.volts /\ BranchAt(c, i).to \in DOMAIN c.volts
             /\ BranchAt(c, i).z \in Nat /\ BranchAt(c, i).rate \in Nat \ {0}
             /\ Wound(c, i) => BranchAt(c, i).tap \in Nat \ {0} /\ BranchAt(c, i).delta \in BOOLEAN
  <2>1. CASE Wound(c, i)
    <3>1. BranchAt(c, i) \in TransformerOf(DOMAIN c.volts)
      BY <1>3, <1>5, <2>1
    <3>. QED  BY <3>1 DEF TransformerOf, AboveZero
  <2>2. CASE ~Wound(c, i)
    <3>1. BranchAt(c, i) \in LineOf(DOMAIN c.volts)
      BY <1>2, <1>4, <2>2
    <3>. QED  BY <2>2, <3>1 DEF LineOf, AboveZero
  <2>. QED  BY <2>1, <2>2
<1>. QED  BY <1>0, <1>4, <1>5, <1>6 DEF L, T

LEMMA WattsAre ==
    ASSUME NEW c, IsCase(c), NEW b
    PROVE  Watts(c, b) \in Nat
<1> DEFINE w == [k \in DOMAIN c.loads |-> c.loads[k].watts]
           S == {k \in DOMAIN c.loads : c.loads[k].bus = b /\ c.loads[k].on}
<1>1. DOMAIN c.loads = 1..Len(c.loads) /\ Len(c.loads) \in Nat /\ \A k \in DOMAIN c.loads : c.loads[k].watts \in Nat
  BY CaseShape
<1>2. IsFiniteSet(1..Len(c.loads))
  BY <1>1, FS_Interval
<1>3. IsFiniteSet(S)
  BY <1>1, <1>2, FS_Subset
<1>4. \A k \in S : w[k] \in Nat
  BY <1>1
<1>. HIDE DEF w, S
<1>5. SumFunctionOnSet(w, S) \in Nat
  BY <1>3, <1>4, SumIsNat
<1>. QED  BY <1>5 DEF Watts, w, S

\* Ohms are no less than nothing.
LEMMA OhmsAre ==
    ASSUME NEW z \in Nat, NEW v \in Nat, NEW s \in Nat \ {0}
    PROVE  Ohms(z, v, s) \in Nat
<1> DEFINE q == v \div 100
           x == z * q * q
           d == 100 * s
<1>1. q \in Nat
  <2>1. 0 <= q
    <3>1. 0 * 100 <= v /\ v <= v * 100
      OBVIOUS
    <3>2. 100 \in Nat \ {0} /\ v \in Int /\ 0 \in Int
      OBVIOUS
    <3>. QED  BY <3>1, <3>2, QuotientBetween
  <2>2. q \in Int
    BY QuotientIsInteger
  <2>. QED  BY <2>1, <2>2
<1>. HIDE DEF q
<1>2. x \in Nat /\ d \in Nat \ {0}
  <2>1. z * q \in Nat
    BY <1>1
  <2> DEFINE y == z * q
  <2>. HIDE DEF y
  <2>2. y * q \in Nat
    BY <1>1, <2>1 DEF y
  <2>. QED  BY <2>2 DEF y
<1>. HIDE DEF x, d
<1>3. 0 <= x \div d /\ x \div d \in Int
  <2>1. 0 * d <= x /\ x <= x * d /\ x \in Int
    BY <1>2
  <2>2. 0 <= x \div d
    BY <1>2, <2>1, QuotientBetween
  <2>3. x \div d \in Int
    BY <1>2, <2>1, QuotientIsInteger
  <2>. QED  BY <2>2, <2>3
<1>4. x \div d \in Nat
  BY <1>3
<1>. QED  BY <1>4 DEF Ohms, q, x, d

LEMMA CaseOhmsAre ==
    ASSUME NEW c, IsCase(c), NEW i \in BranchIds(c)
    PROVE  CaseOhms(c, i) \in Nat
<1>1. BranchAt(c, i).z \in Nat /\ BranchAt(c, i).from \in DOMAIN c.volts
  BY BranchShape
<1>2. c.volts[BranchAt(c, i).from] \in Nat /\ c.sbase \in Nat \ {0}
  BY <1>1, CaseShape
<1>. QED  BY <1>1, <1>2, OhmsAre DEF CaseOhms

\* What validation says of the network a case describes.
Accepted(c) == IsCase(c) /\ Text \notin Int /\ Absent \notin Int /\ \E n : Verdict([Meaning(c) EXCEPT !.id = n]) = "ok"

LEMMA MeaningShape ==
    ASSUME NEW c, IsCase(c)
    PROVE  /\ DOMAIN Meaning(c).buses = 1..Len(c.volts) /\ Len(Meaning(c).buses) = Len(c.volts)
           /\ DOMAIN Meaning(c).branches = BranchIds(c)
           /\ Len(Meaning(c).branches) = Len(c.lines) + Len(c.transformers)
           /\ \A b \in 1..Len(c.volts) : Meaning(c).buses[b] = [bus |-> b, load |-> Watts(c, b), kv |-> c.volts[b], phases |-> Absent]
           /\ BusIds(Meaning(c)) = DOMAIN c.volts
           /\ \A b \in DOMAIN c.volts : BusOf(Meaning(c), b) = Meaning(c).buses[b]
<1>1. DOMAIN c.volts = 1..Len(c.volts) /\ Len(c.volts) \in Nat
  BY CaseShape
<1>2. BranchIds(c) = 1..(Len(c.lines) + Len(c.transformers)) /\ Len(c.lines) + Len(c.transformers) \in Nat
  BY BranchShape
<1> DEFINE d == Meaning(c)
           bus(b) == [bus |-> b, load |-> Watts(c, b), kv |-> c.volts[b], phases |-> Absent]
<1>3. d.buses = [b \in DOMAIN c.volts |-> bus(b)]
  BY DEF Meaning
<1>4. DOMAIN d.branches = BranchIds(c) /\ d.branches = [i \in BranchIds(c) |-> d.branches[i]]
  BY DEF Meaning
<1>. HIDE DEF d
<1>5. d.buses = [b \in 1..Len(c.volts) |-> d.buses[b]] /\ \A b \in 1..Len(c.volts) : d.buses[b] = bus(b)
  BY <1>1, <1>3
<1>. HIDE DEF bus
<1>6. Len(d.buses) = Len(c.volts) /\ DOMAIN d.buses = 1..Len(c.volts)
  BY <1>1, <1>5, Tabulated
<1>7. Len(d.branches) = Len(c.lines) + Len(c.transformers)
  BY <1>2, <1>4, Tabulated
<1>8. \A b \in 1..Len(c.volts) : d.buses[b].bus = b
  <2>1. \A b : bus(b).bus = b
    BY DEF bus
  <2>. QED  BY <1>5, <2>1
<1>9. BusIds(d) = DOMAIN c.volts
  BY <1>1, <1>6, <1>8 DEF BusIds
<1>10. ASSUME NEW b \in DOMAIN c.volts PROVE BusOf(d, b) = d.buses[b]
  <2>1. (CHOOSE i \in DOMAIN d.buses : d.buses[i].bus = b) = b
    BY <1>1, <1>6, <1>8
  <2>. QED  BY <2>1 DEF BusOf
<1>. QED  BY <1>4, <1>5, <1>6, <1>7, <1>9, <1>10 DEF d, bus

LEMMA MeantBranch ==
    ASSUME NEW c, NEW i \in BranchIds(c)
    PROVE  /\ Meaning(c).branches[i].id = i
           /\ Meaning(c).branches[i].from = BranchAt(c, i).from /\ Meaning(c).branches[i].to = BranchAt(c, i).to
           /\ Meaning(c).branches[i].transformer = Wound(c, i)
           /\ Meaning(c).branches[i].z = CaseOhms(c, i) /\ Meaning(c).branches[i].rating = BranchAt(c, i).rate
BY DEF Meaning

LEMMA CaseAccepted ==
    ASSUME NEW c, Accepted(c)
    PROVE  /\ Len(c.volts) >= 2 /\ Len(c.lines) + Len(c.transformers) >= 1
           /\ \A i \in BranchIds(c) : BranchAt(c, i).from # BranchAt(c, i).to
           /\ \A i \in DOMAIN c.lines : c.volts[c.lines[i].from] = c.volts[c.lines[i].to]
           /\ \A part \in SUBSET DOMAIN c.volts :
                 (1 \in part /\ \A i \in BranchIds(c) : BranchAt(c, i).from \in part <=> BranchAt(c, i).to \in part)
                 => part = DOMAIN c.volts
<1>1. IsCase(c)
  BY DEF Accepted
<1>2. PICK n : Verdict([Meaning(c) EXCEPT !.id = n]) = "ok"
  BY DEF Accepted
<1> DEFINE d == [Meaning(c) EXCEPT !.id = n]
<1>3. d.buses = Meaning(c).buses /\ d.branches = Meaning(c).branches /\ d.source = 1 /\ d.kv = c.volts[1]
  BY DEF Meaning
<1>. HIDE DEF d
<1>4. Len(c.volts) \in Nat /\ DOMAIN c.volts = 1..Len(c.volts)
  BY <1>1, CaseShape
<1>5. BranchIds(c) = 1..(Len(c.lines) + Len(c.transformers)) /\ Len(c.lines) + Len(c.transformers) \in Nat
  BY <1>1, BranchShape
<1>6. /\ DOMAIN d.buses = 1..Len(c.volts) /\ Len(d.buses) = Len(c.volts)
      /\ DOMAIN d.branches = BranchIds(c) /\ Len(d.branches) = Len(c.lines) + Len(c.transformers)
      /\ BusIds(d) = DOMAIN c.volts
      /\ \A b \in DOMAIN c.volts : BusOf(d, b) = d.buses[b] /\ d.buses[b].kv = c.volts[b]
  <2>1. BusIds(d) = BusIds(Meaning(c)) /\ \A b : BusOf(d, b) = BusOf(Meaning(c), b)
    BY <1>3 DEF BusIds, BusOf
  <2>2. /\ DOMAIN Meaning(c).buses = 1..Len(c.volts) /\ Len(Meaning(c).buses) = Len(c.volts)
        /\ DOMAIN Meaning(c).branches = BranchIds(c)
        /\ Len(Meaning(c).branches) = Len(c.lines) + Len(c.transformers)
        /\ BusIds(Meaning(c)) = DOMAIN c.volts
        /\ \A b \in DOMAIN c.volts : BusOf(Meaning(c), b) = Meaning(c).buses[b]
    BY <1>1, MeaningShape
  <2>3. \A b \in DOMAIN c.volts : Meaning(c).buses[b].kv = c.volts[b]
    BY DEF Meaning
  <2>. QED  BY <1>3, <2>1, <2>2, <2>3
<1>7. IsNetwork(d) /\ Verdict(d) = "ok"
  BY <1>2, <1>4, <1>5, <1>6 DEF IsNetwork, IsList, d
<1>8. /\ HeaderFault(d) = "none" /\ IslandFault(d) = "none"
      /\ \A i \in BranchIds(c) : BranchFault(d, i) = "none"
  BY <1>6, <1>7, AcceptedPasses
<1>9. Len(c.volts) >= 2 /\ Len(c.lines) + Len(c.transformers) >= 1
  <2>1. ~(Len(d.buses) < 2) /\ ~(Len(d.branches) < 1)
    BY <1>8 DEF HeaderFault
  <2> DEFINE x == Len(d.buses)
             y == Len(d.branches)
  <2>2. x \in Nat /\ y \in Nat /\ x = Len(c.volts) /\ y = Len(c.lines) + Len(c.transformers)
    BY <1>4, <1>5, <1>6
  <2>3. ~(x < 2) /\ ~(y < 1)
    BY <2>1
  <2>. HIDE DEF x, y
  <2>4. x \in Nat /\ ~(x < 2)
    BY <2>2, <2>3
  <2>5. y \in Nat /\ ~(y < 1)
    BY <2>2, <2>3
  <2>6. x >= 2
    BY <2>4
  <2>7. y >= 1
    BY <2>5
  <2>. QED  BY <2>2, <2>6, <2>7
<1>10. ASSUME NEW i \in BranchIds(c) PROVE BranchAt(c, i).from # BranchAt(c, i).to
  <2>0. BranchFault(d, i) = "none"
    BY <1>8
  <2>2. BranchPasses(d, i)
    BY <2>0, BranchFaultIs
  <2>1. d.branches[i].from # d.branches[i].to
    BY <2>2 DEF BranchPasses
  <2>. QED  BY <1>3, <2>1, MeantBranch
<1>11. ASSUME NEW i \in DOMAIN c.lines PROVE c.volts[c.lines[i].from] = c.volts[c.lines[i].to]
  <2>1. i \in BranchIds(c) /\ ~Wound(c, i) /\ BranchAt(c, i) = c.lines[i]
    <3>1. i \in 1..Len(c.lines) /\ Len(c.lines) \in Nat /\ Len(c.transformers) \in Nat
      BY <1>1, CaseShape
    <3>2. ~Wound(c, i)
      BY <3>1 DEF Wound
    <3> DEFINE L == Len(c.lines)
               T == Len(c.transformers)
    <3>3. BranchIds(c) = 1..(L + T)
      BY DEF BranchIds
    <3>4. i \in 1..L /\ L \in Nat /\ T \in Nat
      BY <3>1
    <3>. HIDE DEF L, T
    <3>5. i \in BranchIds(c)
      BY <3>3, <3>4
    <3>. QED  BY <3>2, <3>5 DEF BranchAt
  <2>2. d.branches[i].transformer \/ BusKv(d, d.branches[i].from) = BusKv(d, d.branches[i].to)
    <3>1. BranchFault(d, i) = "none"
      BY <1>8, <2>1
    <3>2. BranchPasses(d, i)
      BY <3>1, BranchFaultIs
    <3>. QED  BY Zenon, <3>2 DEF BranchPasses
  <2>3. BusKv(d, c.lines[i].from) = BusKv(d, c.lines[i].to)
    BY <1>3, <2>1, <2>2, MeantBranch
  <2>4. c.lines[i].from \in DOMAIN c.volts /\ c.lines[i].to \in DOMAIN c.volts
    BY <1>1, <2>1, BranchShape
  <2>5. \A b \in DOMAIN c.volts : BusKv(d, b) = c.volts[b]
    <3>1. Absent \notin Int /\ \A b \in DOMAIN c.volts : c.volts[b] \in Int
      BY <1>1, CaseShape DEF Accepted
    <3>. QED  BY <1>6, <3>1 DEF BusKv
  <2>. QED  BY <2>3, <2>4, <2>5
<1>12. ASSUME NEW part \in SUBSET DOMAIN c.volts, 1 \in part,
              \A i \in BranchIds(c) : BranchAt(c, i).from \in part <=> BranchAt(c, i).to \in part
       PROVE  part = DOMAIN c.volts
  <2>1. \A i \in DOMAIN d.branches : d.branches[i].from \in part <=> d.branches[i].to \in part
    BY <1>3, <1>6, <1>12, MeantBranch
  <2>2. Reached(d) \subseteq part
    BY <1>3, <1>4, <1>6, <1>12, <2>1, ReachedStays
  <2>3. BusIds(d) \subseteq Reached(d)
    BY <1>8 DEF IslandFault
  <2>. QED  BY <1>6, <2>2, <2>3
<1>. QED  BY <1>9, <1>10, <1>11, <1>12

LEMMA NthOfRun ==
    ASSUME NEW n \in Nat, NEW k \in 1..n
    PROVE  Nth(1..n, k) = k
<1> DEFINE g == [i \in 1..n |-> i]
           at == 1..n
<1>1. Ascends(g, n, at)
  BY DEF Ascends, Increasing
<1>2. g[k] = k
  OBVIOUS
<1>. HIDE DEF g, at
<1>3. \A i \in 1..n : Nth(at, i) = g[i]
  BY <1>1, Ranked
<1>. QED  BY <1>2, <1>3 DEF at

LEMMA RunHas ==
    ASSUME NEW n \in Nat
    PROVE  Cardinality(1..n) = n
BY FS_Interval

\* A bus that is met once keeps what it was given.
LEMMA TabledApart ==
    ASSUME NEW s, IsSeq(s), \A i, j \in 1..Len(s) : s[i].bus = s[j].bus => i = j
    PROVE  Tabled(s) = s
<1> DEFINE n == Len(s)
           firsts == {i \in DOMAIN s : \A j \in 1..(i - 1) : s[j].bus # s[i].bus}
           latest(b) == s[Max({i \in DOMAIN s : s[i].bus = b})]
<1>1. n \in Nat /\ DOMAIN s = 1..n /\ s = [i \in 1..n |-> s[i]]
  BY SeqsAre DEF IsSeq
<1>. HIDE DEF n
<1>2. firsts = 1..n
  <2>1. ASSUME NEW i \in 1..n, NEW j \in 1..(i - 1) PROVE s[j].bus # s[i].bus
    <3>1. j \in 1..n /\ j # i
      BY <1>1
    <3>. QED  BY <3>1 DEF n
  <2>. QED  BY <1>1, <2>1
<1>3. \A k \in 1..n : Nth(1..n, k) = k
  BY <1>1, NthOfRun
<1>4. ASSUME NEW k \in 1..n PROVE latest(s[k].bus) = s[k]
  <2>1. {i \in DOMAIN s : s[i].bus = s[k].bus} = {k}
    BY <1>1 DEF n
  <2>2. Max({k}) = k
    BY <1>1, GreatestIs
  <2>. QED  BY <2>1, <2>2
<1>5. Cardinality(firsts) = n
  BY <1>1, <1>2, RunHas
<1>6. Tabled(s) = [k \in 1..Cardinality(firsts) |-> latest(s[Nth(firsts, k)].bus)]
  BY DEF Tabled
<1>. HIDE DEF firsts, latest, Nth
<1>7. Tabled(s) = [k \in 1..n |-> latest(s[Nth(1..n, k)].bus)]
  BY <1>2, <1>5, <1>6
<1>. QED  BY <1>1, <1>3, <1>4, <1>7

-----------------------------------------------------------------------------
(* The parsed buses and branches of a case.                                *)

CaseBuses(c) ==
    [b \in DOMAIN c.volts |->
        [bus |-> b, kv |-> c.volts[b], slack |-> b = 1, load |-> Watts(c, b), phases |-> {}]]

CaseBranches(c, branches, inOhms) ==
    /\ branches = [i \in BranchIds(c) |-> branches[i]]
    /\ \A i \in BranchIds(c) :
          LET br == BranchAt(c, i) IN
          /\ branches[i].from = br.from /\ branches[i].to = br.to
          /\ branches[i].z = (IF inOhms THEN CaseOhms(c, i) ELSE br.z)
          /\ branches[i].z0 = Absent /\ branches[i].rate = br.rate
          /\ branches[i].transformer = Wound(c, i)
          /\ Wound(c, i) => /\ branches[i].connection = (IF br.delta THEN "delta_wye" ELSE "wye_wye")
                            /\ branches[i].tap = br.tap

LEMMA CaseSource ==
    ASSUME NEW c, IsCase(c), Len(c.volts) >= 1
    PROVE  /\ SourceOf(CaseBuses(c)) = 1 /\ Known(CaseBuses(c)) = DOMAIN c.volts
           /\ \A b \in DOMAIN c.volts : At(CaseBuses(c), b) = CaseBuses(c)[b]
<1> DEFINE buses == CaseBuses(c)
           slack == {i \in DOMAIN buses : buses[i].slack}
<1>1. DOMAIN c.volts = 1..Len(c.volts) /\ Len(c.volts) \in Nat /\ 1 \in DOMAIN c.volts
  BY CaseShape
<1>2. /\ DOMAIN buses = DOMAIN c.volts
      /\ \A b \in DOMAIN c.volts : buses[b].bus = b /\ buses[b].slack = (b = 1)
  BY DEF CaseBuses
<1>. HIDE DEF buses
<1>3. slack = {1}
  BY <1>1, <1>2
<1>4. Min(slack) = 1
  <2>1. Min({1}) = 1
    <3>1. {1} \in SUBSET Int /\ 1 \in {1} /\ \A y \in {1} : 1 <= y
      OBVIOUS
    <3>. QED  BY <3>1, LeastIs
  <2>. QED  BY <1>3, <2>1
<1>5. SourceOf(buses) = buses[Min(slack)].bus
  BY <1>3 DEF SourceOf
<1>6. Known(buses) = DOMAIN c.volts
  BY <1>2 DEF Known
<1>7. ASSUME NEW b \in DOMAIN c.volts PROVE At(buses, b) = buses[b]
  <2>1. (CHOOSE i \in DOMAIN buses : buses[i].bus = b) = b
    BY <1>2
  <2>. QED  BY <2>1 DEF At
<1>. QED  BY <1>1, <1>2, <1>4, <1>5, <1>6, <1>7 DEF buses

LEMMA AssembledBranch ==
    ASSUME NEW c, Accepted(c), NEW branches, NEW inOhms \in BOOLEAN, CaseBranches(c, branches, inOhms),
           NEW sbase, inOhms \/ sbase = c.sbase, NEW i \in BranchIds(c), NEW base
    PROVE  BranchEntry(branches[i], i, CaseBuses(c), base, sbase, inOhms) = Meaning(c).branches[i]
<1> DEFINE br == BranchAt(c, i)
           b == branches[i]
           v == Or(At(CaseBuses(c), b.from).kv, base)
           scaled == IF inOhms THEN b.z ELSE Ohms(b.z, v, sbase)
           tap == IF b.transformer /\ b.tap # Absent THEN TapKept(b.tap) ELSE Absent
           z == CaseOhms(c, i)
<1>0. IsCase(c) /\ Absent \notin Int /\ Len(c.volts) >= 1
  <2>1. IsCase(c) /\ Absent \notin Int
    BY DEF Accepted
  <2>2. Len(c.volts) >= 2
    BY CaseAccepted
  <2>3. Len(c.volts) \in Nat
    BY <2>1, CaseShape
  <2>. QED  BY <2>1, <2>2, <2>3
<1>1. /\ br.from \in DOMAIN c.volts /\ br.rate \in Nat \ {0} /\ c.volts[br.from] \in Nat \ {0}
      /\ Wound(c, i) => br.tap \in Nat \ {0}
  BY <1>0, BranchShape, CaseShape
<1>2. /\ b.from = br.from /\ b.to = br.to /\ b.z = (IF inOhms THEN z ELSE br.z)
      /\ b.z0 = Absent /\ b.rate = br.rate /\ b.transformer = Wound(c, i)
      /\ Wound(c, i) => b.connection = (IF br.delta THEN "delta_wye" ELSE "wye_wye") /\ b.tap = br.tap
  BY DEF CaseBranches
<1>3. z \in Nat
  BY <1>0, CaseOhmsAre
<1>4. v = c.volts[br.from]
  <2>1. At(CaseBuses(c), br.from).kv = c.volts[br.from]
    BY <1>0, <1>1, CaseSource DEF CaseBuses
  <2>. QED  BY <1>1, <1>2, <2>1 DEF Or
<1>5. scaled = z
  <2>1. CASE inOhms
    BY <1>2, <2>1
  <2>2. CASE ~inOhms
    BY <1>2, <1>4, <2>2 DEF CaseOhms
  <2>. QED  BY <2>1, <2>2
<1>6. tap = IF Wound(c, i) THEN TapKept(br.tap) ELSE Absent
  BY <1>0, <1>1, <1>2
<1>7. Or(b.rate, sbase) = br.rate
  BY <1>1, <1>2 DEF Or
<1>. HIDE DEF b, z, br, scaled, tap, v
<1>8. BranchEntry(b, i, CaseBuses(c), base, sbase, inOhms) =
        [id |-> i, from |-> b.from, to |-> b.to, z |-> IF scaled < 0 THEN 0 ELSE scaled,
         z0 |-> Absent, rating |-> Or(b.rate, sbase), transformer |-> b.transformer, oltc |-> FALSE,
         connection |-> IF b.transformer THEN b.connection ELSE Absent, tap |-> tap]
  BY <1>2 DEF BranchEntry, scaled, tap, v
<1>9. ~(scaled < 0)
  BY <1>3, <1>5
<1> DEFINE unit == br.tap = 1000 \/ br.tap < 800 \/ br.tap > 1200
           entry(taps) ==
             [id |-> i, from |-> br.from, to |-> br.to, z |-> z, z0 |-> Absent,
              rating |-> br.rate, transformer |-> Wound(c, i), oltc |-> FALSE,
              connection |-> IF ~Wound(c, i) THEN Absent ELSE IF br.delta THEN "delta_wye" ELSE "wye_wye",
              tap |-> taps]
<1>10. BranchEntry(b, i, CaseBuses(c), base, sbase, inOhms) = entry(tap)
  BY <1>2, <1>5, <1>7, <1>8, <1>9
<1>11. Meaning(c).branches[i] = entry(IF ~Wound(c, i) THEN Absent ELSE IF unit THEN Absent ELSE br.tap)
  BY DEF Meaning, br, z
<1>12. tap = IF ~Wound(c, i) THEN Absent ELSE IF unit THEN Absent ELSE br.tap
  <2>1. CASE Wound(c, i)
    BY <1>1, <1>6, <2>1 DEF TapKept
  <2>2. CASE ~Wound(c, i)
    BY <1>1, <1>6, <2>2 DEF TapKept
  <2>. QED  BY <2>1, <2>2
<1>. HIDE DEF entry, unit
<1>. QED  BY <1>10, <1>11, <1>12 DEF b

(* The last step of the PSS/E and CIM importers (importers.py:191-247)     *)
(* makes the network a case describes of its buses and branches, whether   *)
(* impedances are per unit of the case base or in ohms.                    *)
LEMMA Assembled ==
    ASSUME NEW c, Accepted(c), NEW branches, NEW inOhms \in BOOLEAN, CaseBranches(c, branches, inOhms),
           NEW sbase, inOhms \/ sbase = c.sbase
    PROVE  Assemble(CaseBuses(c), branches, sbase, inOhms) = Imported(Meaning(c))
<1> DEFINE buses == CaseBuses(c)
           source == SourceOf(buses)
           base == Or(At(buses, source).kv, 1000)
           usable == {i \in DOMAIN branches : /\ branches[i].from # branches[i].to
                                              /\ {branches[i].from, branches[i].to} \subseteq Known(buses)}
           n == Len(c.volts)
           m == Len(c.lines) + Len(c.transformers)
           parts == [k \in 1..Cardinality(usable) |->
                       LET i == Nth(usable, k) IN BranchEntry(branches[i], i, buses, base, sbase, inOhms)]
           entries == [k \in DOMAIN buses |-> BusEntry(At(buses, Nth(Known(buses), k)), base)]
<1>0. IsCase(c) /\ Absent \notin Int /\ n \in Nat /\ DOMAIN c.volts = 1..n /\ n >= 2 /\ m \in Nat /\ m >= 1 /\ BranchIds(c) = 1..m
  BY CaseAccepted, CaseShape, BranchShape DEF Accepted
<1>. HIDE DEF m
<1>1. source = 1 /\ Known(buses) = 1..n /\ DOMAIN buses = 1..n /\ \A b \in 1..n : At(buses, b) = buses[b]
  <2>1. Len(c.volts) >= 1
    BY <1>0
  <2>. QED  BY <1>0, <2>1, CaseSource DEF CaseBuses
<1>2. c.volts[1] \in Nat \ {0} /\ 1 \in 1..n /\ \A b \in 1..n : c.volts[b] \in Nat \ {0}
  BY <1>0, CaseShape
<1>3. base = c.volts[1]
  BY SMTT(30), <1>1, <1>2, <1>0 DEF CaseBuses, Or
<1>4. usable = 1..m
  <2>1. DOMAIN branches = 1..m
    BY <1>0 DEF CaseBranches
  <2>2. ASSUME NEW i \in 1..m
        PROVE  branches[i].from # branches[i].to /\ branches[i].from \in 1..n /\ branches[i].to \in 1..n
    <3>1. branches[i].from = BranchAt(c, i).from /\ branches[i].to = BranchAt(c, i).to
      BY <1>0 DEF CaseBranches
    <3>2. BranchAt(c, i).from # BranchAt(c, i).to
      BY <1>0, CaseAccepted
    <3>3. BranchAt(c, i).from \in DOMAIN c.volts /\ BranchAt(c, i).to \in DOMAIN c.volts
      BY <1>0, BranchShape
    <3>. QED  BY <1>0, <3>1, <3>2, <3>3
  <2>. HIDE DEF buses
  <2>. QED  BY <1>1, <2>1, <2>2
<1>5. entries = Meaning(c).buses
  <2>1. \A k \in 1..n : Nth(Known(buses), k) = k
    BY <1>0, <1>1, NthOfRun
  <2>2. ASSUME NEW k \in 1..n PROVE BusEntry(buses[k], base) = [bus |-> k, load |-> Watts(c, k), kv |-> c.volts[k], phases |-> Absent]
    <3>1. buses[k] = [bus |-> k, kv |-> c.volts[k], slack |-> k = 1, load |-> Watts(c, k), phases |-> {}]
      BY <1>0 DEF CaseBuses
    <3>2. c.volts[k] # 0
      BY <1>2
    <3>. HIDE DEF buses, base
    <3>. QED  BY <3>1, <3>2 DEF BusEntry, Or
  <2>3. Meaning(c).buses = [k \in 1..n |-> [bus |-> k, load |-> Watts(c, k), kv |-> c.volts[k], phases |-> Absent]]
    BY <1>0 DEF Meaning
  <2>4. entries = [k \in 1..n |-> BusEntry(buses[k], base)]
    <3>. HIDE DEF buses, base, Nth
    <3>. QED  BY <1>1, <2>1
  <2>. HIDE DEF entries, buses, base
  <2>. QED  BY <2>2, <2>3, <2>4
<1>6. parts = Meaning(c).branches
  <2>1. Cardinality(usable) = m /\ \A k \in 1..m : Nth(usable, k) = k
    BY <1>0, <1>4, NthOfRun, RunHas
  <2>2. \A k \in 1..m : BranchEntry(branches[k], k, buses, base, sbase, inOhms) = Meaning(c).branches[k]
    <3>. SUFFICES ASSUME NEW k \in BranchIds(c)
                  PROVE  BranchEntry(branches[k], k, buses, base, sbase, inOhms) = Meaning(c).branches[k]
      BY <1>0
    <3>. HIDE DEF base
    <3>. QED  BY AssembledBranch
  <2>3. Meaning(c).branches = [k \in 1..m |-> Meaning(c).branches[k]]
    BY <1>0 DEF Meaning
  <2>. HIDE DEF buses, base, Nth, usable, m
  <2>4. parts = [k \in 1..m |-> BranchEntry(branches[k], k, buses, base, sbase, inOhms)]
    BY <2>1
  <2>. QED  BY <2>2, <2>3, <2>4
<1>7. usable # {} /\ DOMAIN buses # {}
  <2>0. m \in Nat /\ m >= 1
    BY <1>0
  <2>1. 1 \in 1..m
    BY <2>0
  <2>. HIDE DEF usable, buses, m
  <2>. QED  BY <1>1, <1>2, <1>4, <2>1
<1>8. Assemble(buses, branches, sbase, inOhms) =
        Imported([id |-> Absent, kv |-> base, source |-> source, buses |-> entries, branches |-> parts])
  <2>. HIDE DEF buses
  <2>. QED  BY <1>7 DEF Assemble
<1>9. Meaning(c) = [id |-> Absent, kv |-> c.volts[1], source |-> 1, buses |-> Meaning(c).buses, branches |-> Meaning(c).branches]
  BY DEF Meaning
<1>. HIDE DEF buses, base, source, entries, parts
<1>. QED  BY <1>1, <1>3, <1>5, <1>6, <1>8, <1>9 DEF buses

\* Each load that is in service, in the case's order.
LoadsAt(c, at, loads) ==
    /\ at \in SUBSET DOMAIN c.loads /\ \A k \in DOMAIN c.loads : c.loads[k].on <=> k \in at
    /\ DOMAIN loads = 1..Cardinality(at)
    /\ \A k \in 1..Cardinality(at) : /\ loads[k].bus = c.loads[Nth(at, k)].bus
                                      /\ loads[k].load = c.loads[Nth(at, k)].watts

LEMMA LoadsKept ==
    ASSUME NEW c, IsCase(c), NEW at, NEW loads, LoadsAt(c, at, loads), NEW b
    PROVE  LoadAt(loads, b) = Watts(c, b)
<1> DEFINE P == {k \in DOMAIN c.loads : c.loads[k].bus = b /\ c.loads[k].on}
           w == [k \in DOMAIN c.loads |-> c.loads[k].watts]
           u == [k \in DOMAIN loads |-> loads[k].load]
           S == {k \in DOMAIN loads : loads[k].bus = b}
           n == Cardinality(at)
<1>. /\ at \in SUBSET DOMAIN c.loads /\ \A k \in DOMAIN c.loads : c.loads[k].on <=> k \in at
     /\ DOMAIN loads = 1..n
     /\ \A k \in 1..n : loads[k].bus = c.loads[Nth(at, k)].bus /\ loads[k].load = c.loads[Nth(at, k)].watts
  BY DEF LoadsAt
<1>1. DOMAIN c.loads = 1..Len(c.loads) /\ Len(c.loads) \in Nat /\ \A k \in DOMAIN c.loads : c.loads[k].watts \in Nat
  BY CaseShape
<1>2. at \in SUBSET Int /\ IsFiniteSet(at)
  <2>1. IsFiniteSet(DOMAIN c.loads) /\ DOMAIN c.loads \in SUBSET Int
    BY <1>1, FS_Interval
  <2>. QED  BY <2>1, FS_Subset
<1>3. P \in SUBSET at
  OBVIOUS
<1>4. Ints(w, P)
  BY <1>1 DEF Ints
<1>5. n \in Nat /\ \A k \in 1..n : Nth(at, k) \in at
  BY <1>2, Enumerated
<1>. HIDE DEF Nth
<1>6. \A k \in 1..n : u[k] = w[Nth(at, k)]
  BY <1>5
<1>7. S = {k \in 1..n : Nth(at, k) \in P}
  <2>1. \A k \in 1..n : loads[k].bus = b <=> Nth(at, k) \in P
    BY <1>5
  <2>. HIDE DEF P
  <2>. QED  BY <2>1
<1>. HIDE DEF P, w, u, S
<1>8. SumFunctionOnSet(u, {k \in 1..n : Nth(at, k) \in P}) = SumFunctionOnSet(w, P)
  BY <1>2, <1>3, <1>4, <1>6, SumOfPicked
<1>9. LoadAt(loads, b) = SumFunctionOnSet(u, S)
  BY DEF LoadAt, u, S
<1>10. Watts(c, b) = SumFunctionOnSet(w, P)
  BY DEF Watts, w, P
<1>. QED  BY <1>7, <1>8, <1>9, <1>10

LEMMA WholeMany ==
    ASSUME NEW w \in Nat, Whole1000(w)
    PROVE  1000 * (w \div 1000) = w
BY DEF Whole1000

-----------------------------------------------------------------------------
(* PSS/E: the buses as parsed, before loads are added.                     *)

ParsedBuses(c) == [b \in DOMAIN c.volts |-> ParsedBus(b, c.volts[b], b = 1)]

LEMMA ParsedOnce ==
    ASSUME NEW c, IsCase(c)
    PROVE  /\ Tabled(ParsedBuses(c)) = ParsedBuses(c)
           /\ \A b \in DOMAIN c.volts : KvOf(ParsedBuses(c), b) = c.volts[b]
<1> DEFINE buses == ParsedBuses(c)
<1>1. DOMAIN c.volts = 1..Len(c.volts) /\ Len(c.volts) \in Nat
  BY CaseShape
<1>2. DOMAIN buses = DOMAIN c.volts /\ \A b \in DOMAIN c.volts : buses[b].bus = b /\ buses[b].kv = c.volts[b]
  BY DEF ParsedBuses, ParsedBus
<1>3. buses = [b \in 1..Len(c.volts) |-> buses[b]]
  BY <1>1 DEF ParsedBuses
<1>. HIDE DEF buses
<1>4. IsSeq(buses) /\ Len(buses) = Len(c.volts)
  BY <1>1, <1>3, Tabulated
<1>5. \A i, j \in 1..Len(buses) : buses[i].bus = buses[j].bus => i = j
  BY <1>1, <1>2, <1>4
<1>6. Tabled(buses) = buses
  BY <1>4, <1>5, TabledApart
<1>7. ASSUME NEW b \in DOMAIN c.volts PROVE KvOf(buses, b) = c.volts[b]
  <2>1. b \in Known(buses)
    BY <1>2 DEF Known
  <2>2. (CHOOSE i \in DOMAIN buses : buses[i].bus = b) = b
    BY <1>2
  <2>. QED  BY <1>2, <2>1, <2>2 DEF KvOf, At
<1>. QED  BY <1>6, <1>7 DEF buses

LEMMA LoadedBuses ==
    ASSUME NEW c, IsCase(c), NEW loads, \A b \in DOMAIN c.volts : LoadAt(loads, b) = Watts(c, b)
    PROVE  WithLoads(ParsedBuses(c), loads) = CaseBuses(c)
<1>1. ASSUME NEW b \in DOMAIN c.volts
      PROVE  [ParsedBuses(c)[b] EXCEPT !.load = @ + LoadAt(loads, ParsedBuses(c)[b].bus)] = CaseBuses(c)[b]
  <2>1. Watts(c, b) \in Nat
    BY WattsAre
  <2>2. ParsedBuses(c)[b] = [bus |-> b, kv |-> c.volts[b], slack |-> (b = 1), load |-> 0, phases |-> {}]
    BY DEF ParsedBuses, ParsedBus
  <2>3. 0 + Watts(c, b) = Watts(c, b)
    BY <2>1
  <2>4. ParsedBuses(c)[b].bus = b /\ LoadAt(loads, b) = Watts(c, b)
    BY <2>2
  <2>5. CaseBuses(c)[b] = [bus |-> b, kv |-> c.volts[b], slack |-> (b = 1), load |-> Watts(c, b), phases |-> {}]
    BY DEF CaseBuses
  <2>. QED  BY <2>2, <2>3, <2>4, <2>5
<1>2. DOMAIN ParsedBuses(c) = DOMAIN c.volts
  BY DEF ParsedBuses
<1>3. CaseBuses(c) = [b \in DOMAIN c.volts |-> CaseBuses(c)[b]]
  BY DEF CaseBuses
<1>4. WithLoads(ParsedBuses(c), loads) =
        [b \in DOMAIN c.volts |-> [ParsedBuses(c)[b] EXCEPT !.load = @ + LoadAt(loads, ParsedBuses(c)[b].bus)]]
  BY <1>2 DEF WithLoads
<1>. QED  BY <1>1, <1>3, <1>4

\* A branch as read, of one of the case.
ReadsAs(item, br, z, wound) ==
    /\ item.from = br.from /\ item.to = br.to /\ item.z = z /\ item.z0 = Absent /\ item.rate = br.rate
    /\ item.transformer = wound
    /\ wound => item.connection = (IF br.delta THEN "delta_wye" ELSE "wye_wye") /\ item.tap = br.tap

LEMMA BranchesInOrder ==
    ASSUME NEW c, IsCase(c), NEW inOhms \in BOOLEAN, NEW ls, NEW ts,
           IsSeq(ls), Len(ls) = Len(c.lines), IsSeq(ts), Len(ts) = Len(c.transformers),
           \A i \in 1..Len(c.lines) :
              ReadsAs(ls[i], c.lines[i], IF inOhms THEN CaseOhms(c, i) ELSE c.lines[i].z, FALSE),
           \A i \in 1..Len(c.transformers) :
              ReadsAs(ts[i], c.transformers[i],
                      IF inOhms THEN CaseOhms(c, Len(c.lines) + i) ELSE c.transformers[i].z, TRUE)
    PROVE  CaseBranches(c, ls \o ts, inOhms)
<1> DEFINE L == Len(c.lines)
           T == Len(c.transformers)
           all == ls \o ts
<1>1. /\ IsSeq(all) /\ Len(all) = L + T
      /\ \A i \in 1..L : all[i] = ls[i]
      /\ \A i \in 1..T : all[L + i] = ts[i]
  <2>0. IsSeq(ls) /\ IsSeq(ts) /\ Len(ls) = L /\ Len(ts) = T
    OBVIOUS
  <2>. HIDE DEF L, T
  <2>. QED  BY <2>0, EndToEnd
<1>2. BranchIds(c) = 1..(L + T) /\ L \in Nat /\ T \in Nat /\ L + T \in Nat
  BY BranchShape, CaseShape
<1>3. all = [i \in BranchIds(c) |-> all[i]]
  BY <1>1, <1>2 DEF IsSeq
<1>. HIDE DEF all, L, T
<1>4. ASSUME NEW i \in BranchIds(c)
      PROVE  ReadsAs(all[i], BranchAt(c, i), IF inOhms THEN CaseOhms(c, i) ELSE BranchAt(c, i).z, Wound(c, i))
  <2>1. CASE Wound(c, i)
    <3>1. i - L \in 1..T /\ BranchAt(c, i) = c.transformers[i - L]
      BY <2>1, BranchShape, CaseShape, ZenonT(30) DEF L, T
    <3>2. L + (i - L) = i
      BY <1>2
    <3>3. all[i] = ts[i - L]
      BY <1>1, <3>1, <3>2
    <3>4. ReadsAs(ts[i - L], c.transformers[i - L],
                  IF inOhms THEN CaseOhms(c, L + (i - L)) ELSE c.transformers[i - L].z, TRUE)
      BY <3>1 DEF L, T
    <3>. QED  BY <2>1, <3>1, <3>2, <3>3, <3>4 DEF Wound
  <2>2. CASE ~Wound(c, i)
    <3>1. i \in 1..L /\ BranchAt(c, i) = c.lines[i]
      BY <2>2, BranchShape, CaseShape, ZenonT(30) DEF L
    <3>2. ReadsAs(ls[i], c.lines[i], IF inOhms THEN CaseOhms(c, i) ELSE c.lines[i].z, FALSE)
      BY <3>1 DEF L
    <3>3. Wound(c, i) = FALSE
      BY <2>2 DEF Wound
    <3>4. all[i] = ls[i]
      BY <1>1, <3>1
    <3>. QED  BY <3>1, <3>2, <3>3, <3>4
  <2>. QED  BY <2>1, <2>2
<1>. QED  BY <1>3, <1>4 DEF CaseBranches, ReadsAs, all

\* Winding voltages per unit give the tap; a shift of the phases is a delta.
LEMMA TapIs ==
    ASSUME NEW tap \in Nat \ {0}
    PROVE  Tap(1000, tap) = tap
BY DEF Tap

LEMMA GroupIs ==
    ASSUME NEW delta \in BOOLEAN
    PROVE  VectorGroup(IF delta THEN -30 ELSE 0) = IF delta THEN "delta_wye" ELSE "wye_wye"
BY DEF VectorGroup

-----------------------------------------------------------------------------
(* RAWX.                                                                   *)

(* A network written as RAWX, with every column ImportCases writes, is     *)
(* read back as it was (importers.py from_rawx), when every load is in     *)
(* service: from_rawx counts a load whose status is 0 too.                 *)
THEOREM RawxAsWritten ==
    ASSUME NEW c, Accepted(c), WholeMegawatts(c), \A k \in DOMAIN c.loads : c.loads[k].on
    PROVE  FromRawx(Rawx(c)) = Imported(Meaning(c))
<1> DEFINE doc == Rawx(c)
           D == Len(c.loads)
           L == Len(c.lines)
           T == Len(c.transformers)
<1>0. /\ IsCase(c) /\ Absent \notin Int
      /\ DOMAIN c.volts = 1..Len(c.volts) /\ Len(c.volts) \in Nat
      /\ DOMAIN c.loads = 1..D /\ D \in Nat /\ DOMAIN c.lines = 1..L /\ L \in Nat
      /\ DOMAIN c.transformers = 1..T /\ T \in Nat
  BY CaseShape DEF Accepted
<1>1. RawxBuses(doc) = ParsedBuses(c)
  <2> DEFINE rows == [i \in DOMAIN doc.bus |->
                LET row == doc.bus[i] IN
                ParsedBus(row.bus, IF row.kv \in {Absent, 0} THEN 1000 ELSE row.kv, row.ide = 3)]
  <2>1. \A b \in DOMAIN c.volts : c.volts[b] \notin {Absent, 0}
    BY <1>0, CaseShape
  <2>2. doc.bus = [b \in DOMAIN c.volts |-> [bus |-> b, kv |-> c.volts[b], ide |-> IF b = 1 THEN 3 ELSE 1]]
    BY DEF Rawx
  <2>3. rows = ParsedBuses(c)
    <3>1. ASSUME NEW b \in DOMAIN c.volts PROVE rows[b] = ParsedBus(b, c.volts[b], b = 1)
      <4>1. doc.bus[b].bus = b /\ doc.bus[b].kv = c.volts[b] /\ (doc.bus[b].ide = 3) = (b = 1) /\ b \in DOMAIN doc.bus
        BY <2>2
      <4>. HIDE DEF doc
      <4>. QED  BY <2>1, <4>1
    <3>2. DOMAIN rows = DOMAIN c.volts /\ rows = [b \in DOMAIN rows |-> rows[b]]
      BY <2>2
    <3>. HIDE DEF rows
    <3>. QED  BY <3>1, <3>2 DEF ParsedBuses
  <2>4. RawxBuses(doc) = Tabled(rows)
    BY DEF RawxBuses
  <2>. HIDE DEF rows, doc
  <2>. QED  BY <1>0, <2>3, <2>4, ParsedOnce
<1>2. ASSUME NEW b PROVE LoadAt(RawxLoads(doc), b) = Watts(c, b)
  <2> DEFINE at == 1..D
             loads == RawxLoads(doc)
             inService == {i \in DOMAIN doc.load : RowInService(doc.load[i])}
             rows == Picked(doc.load, inService)
  <2>1. doc.load = [k \in 1..D |-> [bus |-> c.loads[k].bus, status |-> IF c.loads[k].on THEN 1 ELSE 0,
                                    load |-> c.loads[k].watts \div 1000]]
    BY <1>0 DEF Rawx
  <2>2. IsSeq(doc.load)
    <3>1. doc.load = [k \in 1..D |-> doc.load[k]]
      BY <2>1
    <3>. HIDE DEF doc
    <3>. QED  BY <1>0, <3>1, Tabulated
  <2>3. inService = DOMAIN doc.load
    BY <2>1 DEF RowInService
  <2>4. rows = doc.load
    <3>. HIDE DEF doc, inService
    <3>. QED  BY <2>2, <2>3, PickedAll
  <2>5. loads = [k \in DOMAIN rows |-> [bus |-> rows[k].bus, load |-> 1000 * rows[k].load]]
    BY DEF RawxLoads
  <2>6. Cardinality(at) = D /\ \A k \in 1..D : Nth(at, k) = k
    BY <1>0, RunHas, NthOfRun
  <2>7. \A k \in 1..D : loads[k].bus = c.loads[k].bus /\ loads[k].load = 1000 * (c.loads[k].watts \div 1000)
    <3>. SUFFICES ASSUME NEW k \in 1..D
                  PROVE  loads[k].bus = c.loads[k].bus /\ loads[k].load = 1000 * (c.loads[k].watts \div 1000)
      OBVIOUS
    <3>1. doc.load[k].bus = c.loads[k].bus /\ doc.load[k].load = c.loads[k].watts \div 1000 /\ k \in DOMAIN doc.load
      <4>. HIDE DEF doc
      <4>. QED  BY <2>1
    <3>. HIDE DEF rows, doc, loads
    <3>. QED  BY <3>1, <2>4, <2>5
  <2>8. DOMAIN loads = 1..D
    <3>. HIDE DEF rows, doc, loads
    <3>. QED  BY <2>1, <2>4, <2>5
  <2>9. \A k \in 1..D : 1000 * (c.loads[k].watts \div 1000) = c.loads[k].watts
    <3>. SUFFICES ASSUME NEW k \in 1..D PROVE 1000 * (c.loads[k].watts \div 1000) = c.loads[k].watts
      OBVIOUS
    <3>1. c.loads[k].watts \in Nat
      BY <1>0, CaseShape
    <3>2. Whole1000(c.loads[k].watts)
      BY <1>0 DEF WholeMegawatts
    <3>. QED  BY <3>1, <3>2, WholeMany
  <2>10. at \in SUBSET DOMAIN c.loads /\ \A k \in DOMAIN c.loads : c.loads[k].on <=> k \in at
    BY <1>0
  <2>. HIDE DEF loads, at, Nth
  <2>11. LoadsAt(c, at, loads)
    BY <1>0, <2>6, <2>7, <2>8, <2>9, <2>10 DEF LoadsAt
  <2>. QED  BY <1>0, <2>11, LoadsKept DEF loads
<1> DEFINE ls == RawxLines(doc)
           ts == RawxTransformers(doc, ParsedBuses(c))
<1>3. IsSeq(ls) /\ Len(ls) = L /\ \A i \in 1..L : ReadsAs(ls[i], c.lines[i], c.lines[i].z, FALSE)
  <2>1. doc.acline = c.lines
    BY DEF Rawx
  <2>2. ls = [i \in 1..L |-> Line(Magnitude(c.lines[i].from), Magnitude(c.lines[i].to), c.lines[i].z, c.lines[i].rate)]
    BY <1>0, <2>1 DEF RawxLines
  <2>3. ASSUME NEW i \in 1..L PROVE ReadsAs(ls[i], c.lines[i], c.lines[i].z, FALSE)
    <3>1. c.lines[i].from \in Nat /\ c.lines[i].to \in Nat
      <4>1. c.lines[i] \in LineOf(DOMAIN c.volts)
        BY <1>0, CaseShape
      <4>. QED  BY <1>0, <4>1 DEF LineOf
    <3>2. Magnitude(c.lines[i].from) = c.lines[i].from /\ Magnitude(c.lines[i].to) = c.lines[i].to
      BY <3>1 DEF Magnitude
    <3>. HIDE DEF ls
    <3>. QED  BY <2>2, <3>2 DEF ReadsAs, Line
  <2>4. ls = [i \in 1..L |-> ls[i]]
    BY <2>2
  <2>. HIDE DEF ls
  <2>. QED  BY <1>0, <2>3, <2>4, Tabulated
<1>4. IsSeq(ts) /\ Len(ts) = T /\ \A i \in 1..T : ReadsAs(ts[i], c.transformers[i], c.transformers[i].z, TRUE)
  <2> DEFINE two == {i \in DOMAIN doc.transformer : doc.transformer[i].k = 0}
             rows == Picked(doc.transformer, two)
             row(i) == [from |-> c.transformers[i].from, to |-> c.transformers[i].to, k |-> 0,
                        z |-> c.transformers[i].z, rate |-> c.transformers[i].rate, cw |-> 1,
                        windv1 |-> 1000, nomv1 |-> 0, windv2 |-> c.transformers[i].tap, nomv2 |-> 0,
                        angle |-> IF c.transformers[i].delta THEN -30 ELSE 0]
  <2>1. doc.transformer = [i \in 1..T |-> row(i)]
    BY <1>0 DEF Rawx
  <2>2. doc.transformer = [i \in 1..T |-> doc.transformer[i]] /\ \A i \in 1..T : doc.transformer[i] = row(i)
    BY <2>1
  <2>3. DOMAIN doc.transformer = 1..T /\ IsSeq(doc.transformer)
    <3>. HIDE DEF doc
    <3>. QED  BY <1>0, <2>2, Tabulated
  <2>4. two = DOMAIN doc.transformer
    <3>1. \A i \in 1..T : doc.transformer[i].k = 0
      <4>1. \A i : row(i).k = 0
        OBVIOUS
      <4>. HIDE DEF row, doc
      <4>. QED  BY <2>2, <4>1
    <3>. HIDE DEF doc
    <3>. QED  BY <2>3, <3>1
  <2>5. rows = doc.transformer
    <3>. HIDE DEF doc, two
    <3>. QED  BY <2>3, <2>4, PickedAll
  <2> DEFINE read(r) == Transformer(Magnitude(r.from), Magnitude(r.to), r.z, r.rate,
                  Tap(WindvPu(r.windv1, r.nomv1, r.cw, KvOf(ParsedBuses(c), Magnitude(r.from))),
                      WindvPu(r.windv2, r.nomv2, r.cw, KvOf(ParsedBuses(c), Magnitude(r.to)))),
                  VectorGroup(r.angle))
  <2>6. ts = [k \in DOMAIN rows |-> read(rows[k])]
    BY DEF RawxTransformers
  <2>7. ts = [k \in 1..T |-> read(row(k))]
    <3>. HIDE DEF doc, rows, read, row, ts
    <3>. QED  BY <2>2, <2>3, <2>5, <2>6
  <2>8. ASSUME NEW i \in 1..T PROVE ReadsAs(read(row(i)), c.transformers[i], c.transformers[i].z, TRUE)
    <3> DEFINE br == c.transformers[i]
    <3>1. br.from \in Nat /\ br.to \in Nat /\ br.tap \in Nat \ {0} /\ br.delta \in BOOLEAN
      <4>1. br \in TransformerOf(DOMAIN c.volts)
        BY <1>0, CaseShape
      <4>. QED  BY <1>0, <4>1 DEF TransformerOf, AboveZero
    <3>2. Magnitude(br.from) = br.from /\ Magnitude(br.to) = br.to
      BY <3>1 DEF Magnitude
    <3>. HIDE DEF br
    <3>3. \A kv : WindvPu(1000, 0, 1, kv) = 1000 /\ WindvPu(br.tap, 0, 1, kv) = br.tap
      BY <3>1 DEF WindvPu
    <3>4. Tap(1000, br.tap) = br.tap
      BY <3>1, TapIs
    <3>5. VectorGroup(IF br.delta THEN -30 ELSE 0) = IF br.delta THEN "delta_wye" ELSE "wye_wye"
      BY <3>1, GroupIs
    <3>6. /\ row(i).from = br.from /\ row(i).to = br.to /\ row(i).z = br.z /\ row(i).rate = br.rate /\ row(i).cw = 1
          /\ row(i).windv1 = 1000 /\ row(i).nomv1 = 0 /\ row(i).windv2 = br.tap /\ row(i).nomv2 = 0
          /\ row(i).angle = (IF br.delta THEN -30 ELSE 0)
      BY DEF br
    <3>. HIDE DEF row
    <3>7. read(row(i)) = Transformer(br.from, br.to, br.z, br.rate, br.tap, IF br.delta THEN "delta_wye" ELSE "wye_wye")
      BY <3>2, <3>3, <3>4, <3>5, <3>6
    <3>. HIDE DEF read
    <3>8. ReadsAs(read(row(i)), br, br.z, TRUE)
      BY <3>7 DEF ReadsAs, Transformer
    <3>. QED  BY <3>8 DEF br
  <2>. HIDE DEF read, row, ts
  <2>9. ts = [k \in 1..T |-> ts[k]] /\ \A k \in 1..T : ts[k] = read(row(k))
    BY <2>7
  <2>. QED  BY <1>0, <2>8, <2>9, Tabulated
<1>5. CaseBranches(c, ls \o ts, FALSE)
  <2>. HIDE DEF ls, ts
  <2>. QED  BY <1>0, <1>3, <1>4, BranchesInOrder
<1>6. WithLoads(ParsedBuses(c), RawxLoads(doc)) = CaseBuses(c)
  <2>. HIDE DEF doc
  <2>. QED  BY <1>0, <1>2, LoadedBuses
<1>7. FromRawx(doc) = Assemble(WithLoads(ParsedBuses(c), RawxLoads(doc)), ls \o ts, c.sbase, FALSE)
  <2>1. doc.sbase = c.sbase
    BY DEF Rawx
  <2>. HIDE DEF doc
  <2>. QED  BY <1>1, <2>1 DEF FromRawx
<1>. HIDE DEF ls, ts, doc
<1>8. Assemble(CaseBuses(c), ls \o ts, c.sbase, FALSE) = Imported(Meaning(c))
  BY <1>5, Assembled
<1>. QED  BY <1>6, <1>7, <1>8 DEF doc

-----------------------------------------------------------------------------
(* RAW: labels are left out of a file block by block.                      *)

Lines(s) == {i \in DOMAIN s : s[i].what # "label"}

\* g lists the lines of s that are no labels.
LEMMA LinesListed ==
    ASSUME NEW s, IsSeq(s)
    PROVE  \E n, g : Ascends(g, n, Lines(s)) /\ n \in Nat /\ \A k \in 1..n : g[k] \in 1..Len(s)
<1> DEFINE at == Lines(s)
           n == Cardinality(at)
<1>1. DOMAIN s = 1..Len(s) /\ Len(s) \in Nat
  BY SeqsAre
<1>2. at \in SUBSET (1..Len(s)) /\ at \subseteq Int
  BY <1>1 DEF Lines
<1>3. IsFiniteSet(at)
  <2>1. IsFiniteSet(1..Len(s))
    BY <1>1, FS_Interval
  <2>. HIDE DEF at
  <2>. QED  BY <1>2, <2>1, FS_Subset
<1>. HIDE DEF at
<1>4. n \in Nat
  BY <1>3, FS_CardinalityType
<1>5. PICK g \in [1..n -> at] : Increasing(g)
  BY <1>2, <1>3, OrderExists
<1>6. \A x \in at : \E k \in 1..n : Nth(at, k) = x
  BY <1>2, <1>3, Enumerated
<1> DEFINE S == {g[k] : k \in 1..n}
<1>7. Ascends(g, n, S)
  BY <1>2, <1>4, <1>5 DEF Ascends
<1>8. S \subseteq at /\ Cardinality(S) = n /\ IsFiniteSet(S)
  BY <1>5, <1>7, Ranked
<1>9. S = at
  BY <1>3, <1>8, FS_Subset
<1>10. Ascends(g, n, at) /\ \A k \in 1..n : g[k] \in 1..Len(s)
  BY <1>2, <1>5, <1>7, <1>9
<1>. QED  BY <1>4, <1>10 DEF at

LEMMA ContentOfTwo ==
    ASSUME NEW s, NEW t, IsSeq(s), IsSeq(t)
    PROVE  /\ Content(s \o t) = Content(s) \o Content(t)
           /\ IsSeq(Content(s)) /\ IsSeq(Content(t))
<1> DEFINE a == Len(s)
           b == Len(t)
           u == s \o t
<1>1. a \in Nat /\ b \in Nat
  BY SeqsAre
<1>2. IsSeq(u) /\ Len(u) = a + b /\ (\A i \in 1..a : u[i] = s[i]) /\ (\A i \in 1..b : u[a + i] = t[i])
  BY EndToEnd
<1>3. DOMAIN s = 1..a /\ DOMAIN t = 1..b /\ DOMAIN u = 1..(a + b)
  BY <1>2, SeqsAre
<1>4. PICK n, g : Ascends(g, n, Lines(s)) /\ n \in Nat /\ \A k \in 1..n : g[k] \in 1..a
  BY LinesListed
<1>5. PICK m, h : Ascends(h, m, Lines(t)) /\ m \in Nat /\ \A k \in 1..m : h[k] \in 1..b
  BY LinesListed
<1>. HIDE DEF u, a, b
<1>6. /\ g \in [1..n -> Int] /\ Lines(s) = {g[k] : k \in 1..n} /\ \A i, j \in 1..n : i < j => g[i] < g[j]
  BY <1>4 DEF Ascends, Increasing
<1>7. /\ h \in [1..m -> Int] /\ Lines(t) = {h[k] : k \in 1..m} /\ \A i, j \in 1..m : i < j => h[i] < h[j]
  BY <1>5 DEF Ascends, Increasing
<1> DEFINE f == [k \in 1..(n + m) |-> IF k <= n THEN g[k] ELSE a + h[k - n]]
<1>8. \A k \in 1..(n + m) : (k <= n => k \in 1..n) /\ (~(k <= n) => k - n \in 1..m)
  BY <1>4, <1>5
<1>9. f \in [1..(n + m) -> Int] /\ n + m \in Nat
  <2>1. \A k \in 1..(n + m) : (IF k <= n THEN g[k] ELSE a + h[k - n]) \in Int
    BY <1>1, <1>6, <1>7, <1>8
  <2>. QED  BY <1>4, <1>5, <2>1
<1>10. (\A k \in 1..n : k \in 1..(n + m) /\ f[k] = g[k]) /\ (\A k \in 1..m : n + k \in 1..(n + m) /\ f[n + k] = a + h[k])
  <2>1. \A k \in 1..n : k \in 1..(n + m) /\ k <= n
    BY <1>4, <1>5
  <2>2. \A k \in 1..m : n + k \in 1..(n + m) /\ ~(n + k <= n) /\ (n + k) - n = k
    BY <1>4, <1>5
  <2>. QED  BY <2>1, <2>2
<1>. HIDE DEF f
<1>11. ASSUME NEW i \in 1..(n + m), NEW j \in 1..(n + m), i < j PROVE f[i] < f[j]
  <2>1. CASE i <= n /\ j <= n
    BY <1>6, <1>8, <1>10, <1>11, <2>1
  <2>2. CASE i <= n /\ ~(j <= n)
    <3>1. i \in 1..n /\ j - n \in 1..m /\ n + (j - n) = j
      BY <1>4, <1>8, <2>2
    <3>2. f[i] = g[i] /\ f[n + (j - n)] = a + h[j - n]
      BY <1>10, <3>1
    <3>3. g[i] \in 1..a /\ h[j - n] \in 1..b
      BY <1>4, <1>5, <3>1
    <3>. QED  BY <1>1, <3>1, <3>2, <3>3
  <2>3. CASE ~(i <= n)
    <3>1. i - n \in 1..m /\ j - n \in 1..m /\ n + (i - n) = i /\ n + (j - n) = j /\ i - n < j - n
      BY <1>4, <1>5, <1>8, <1>11, <2>3
    <3>2. f[n + (i - n)] = a + h[i - n] /\ f[n + (j - n)] = a + h[j - n]
      BY <1>10, <3>1
    <3>3. h[i - n] \in 1..b /\ h[j - n] \in 1..b
      BY <1>5, <3>1
    <3>4. h[i - n] < h[j - n]
      BY <1>7, <3>1
    <3>. QED  BY <1>1, <3>1, <3>2, <3>3, <3>4
  <2>. QED  BY <2>1, <2>2, <2>3
<1>12. Lines(u) = {f[k] : k \in 1..(n + m)}
  <2>1. ASSUME NEW i \in Lines(u) PROVE \E k \in 1..(n + m) : f[k] = i
    <3>1. i \in 1..(a + b) /\ u[i].what # "label"
      BY <1>3 DEF Lines
    <3>2. CASE i <= a
      <4>1. i \in 1..a /\ i \in Lines(s)
        BY <1>1, <1>2, <1>3, <3>1, <3>2 DEF Lines
      <4>2. PICK k \in 1..n : g[k] = i
        BY <1>6, <4>1
      <4>. QED  BY <1>10, <4>2
    <3>3. CASE ~(i <= a)
      <4>1. i - a \in 1..b /\ a + (i - a) = i
        BY <1>1, <3>1, <3>3
      <4>2. i - a \in Lines(t)
        BY <1>2, <1>3, <3>1, <4>1 DEF Lines
      <4>3. PICK k \in 1..m : h[k] = i - a
        BY <1>7, <4>2
      <4>. QED  BY <1>10, <4>1, <4>3
    <3>. QED  BY <3>2, <3>3
  <2>2. ASSUME NEW k \in 1..(n + m) PROVE f[k] \in Lines(u)
    <3>1. CASE k <= n
      <4>1. k \in 1..n /\ f[k] = g[k] /\ g[k] \in Lines(s) /\ g[k] \in 1..a
        BY <1>4, <1>6, <1>8, <1>10, <3>1
      <4>2. u[g[k]] = s[g[k]] /\ g[k] \in 1..(a + b)
        BY <1>1, <1>2, <4>1
      <4>. QED  BY <1>3, <4>1, <4>2 DEF Lines
    <3>2. CASE ~(k <= n)
      <4>1. k - n \in 1..m /\ n + (k - n) = k
        BY <1>4, <1>8, <3>2
      <4>2. f[n + (k - n)] = a + h[k - n] /\ h[k - n] \in Lines(t) /\ h[k - n] \in 1..b
        BY <1>5, <1>7, <1>10, <4>1
      <4>3. u[a + h[k - n]] = t[h[k - n]] /\ a + h[k - n] \in 1..(a + b)
        BY <1>1, <1>2, <4>2
      <4>. QED  BY <1>3, <4>1, <4>2, <4>3 DEF Lines
    <3>. QED  BY <3>1, <3>2
  <2>. QED  BY <2>1, <2>2
<1>13. Ascends(f, n + m, Lines(u))
  BY <1>9, <1>11, <1>12 DEF Ascends, Increasing
<1>14. /\ Content(s) = [k \in 1..n |-> s[g[k]]] /\ Content(t) = [k \in 1..m |-> t[h[k]]]
       /\ Content(u) = [k \in 1..(n + m) |-> u[f[k]]]
  <2>1. Content(s) = Picked(s, Lines(s)) /\ Content(t) = Picked(t, Lines(t)) /\ Content(u) = Picked(u, Lines(u))
    BY DEF Content, Lines
  <2>. QED  BY <1>4, <1>5, <1>13, <2>1, PickedIs
<1>15. IsSeq(Content(s)) /\ Len(Content(s)) = n /\ IsSeq(Content(t)) /\ Len(Content(t)) = m
  BY <1>4, <1>5, <1>14, Tabulated
<1>16. IsSeq(Content(u)) /\ Len(Content(u)) = n + m
  BY <1>9, <1>14, Tabulated
<1> DEFINE both == Content(s) \o Content(t)
<1>17. /\ IsSeq(both) /\ Len(both) = n + m /\ (\A k \in 1..n : both[k] = Content(s)[k])
       /\ (\A k \in 1..m : both[n + k] = Content(t)[k])
  BY <1>15, EndToEnd
<1>. HIDE DEF both
<1>18. ASSUME NEW k \in 1..(n + m) PROVE Content(u)[k] = both[k]
  <2>0. Content(u)[k] = u[f[k]]
    BY <1>14
  <2>1. CASE k <= n
    <3>1. k \in 1..n /\ f[k] = g[k] /\ g[k] \in 1..a
      BY <1>4, <1>8, <1>10, <2>1
    <3>2. both[k] = s[g[k]]
      BY <1>14, <1>17, <3>1
    <3>. QED  BY <1>2, <2>0, <3>1, <3>2
  <2>2. CASE ~(k <= n)
    <3>1. k - n \in 1..m /\ n + (k - n) = k
      BY <1>4, <1>8, <2>2
    <3>2. f[k] = a + h[k - n] /\ h[k - n] \in 1..b
      BY <1>5, <1>10, <3>1
    <3>3. both[k] = t[h[k - n]]
      BY <1>14, <1>17, <3>1
    <3>. QED  BY <1>2, <2>0, <3>2, <3>3
  <2>. QED  BY <2>1, <2>2
<1>19. Content(u) = both
  BY <1>16, <1>17, <1>18, SameLists
<1>. QED  BY <1>15, <1>19 DEF u, both

\* The content of a block, and a file of blocks without their labels.
Contents(lists, n) == [k \in 1..n |-> Content(lists[k])]

LEMMA ContentOfBlocks ==
    ASSUME NEW lists, NEW n, AreSeqs(lists, n), n # 0
    PROVE  Content(FlattenSeq(lists)) = FlattenSeq(Contents(lists, n)) /\ AreSeqs(Contents(lists, n), n)
<1> DEFINE new == Contents(lists, n)
<1>1. n \in Nat /\ 1 \in 1..n /\ \A k \in 1..n : IsSeq(lists[k])
  BY DEF AreSeqs
<1>2. \A k \in 1..n : new[k] = Content(lists[k]) /\ IsSeq(new[k])
  <2>1. \A k \in 1..n : new[k] = Content(lists[k])
    BY DEF Contents
  <2>. HIDE DEF new
  <2>. QED  BY <1>1, <2>1, ContentOfTwo
<1>3. AreSeqs(new, n)
  <2>1. new = [k \in 1..n |-> new[k]]
    BY DEF Contents
  <2>. HIDE DEF new
  <2>. QED  BY <1>1, <1>2, <2>1 DEF AreSeqs
<1>. HIDE DEF new
<1>4. PICK f : Grows(f, lists, n) /\ FlattenSeq(lists) = f[n]
  BY FlattenGrows
<1>5. PICK g : Grows(g, new, n) /\ FlattenSeq(new) = g[n]
  BY <1>3, FlattenGrows
<1> DEFINE T == {k \in Nat : k + 1 <= n => IsSeq(f[k + 1]) /\ Content(f[k + 1]) = g[k + 1]}
<1>6. 0 \in T
  BY <1>1, <1>2, <1>4, <1>5 DEF Grows
<1>7. ASSUME NEW k \in Nat, k \in T PROVE k + 1 \in T
  <2> DEFINE i == k + 1
  <2>. SUFFICES ASSUME i + 1 <= n PROVE IsSeq(f[i + 1]) /\ Content(f[i + 1]) = g[i + 1]
    OBVIOUS
  <2>1. i \in 1..(n - 1) /\ i + 1 \in 1..n /\ i <= n
    BY <1>1
  <2>2. IsSeq(f[i]) /\ Content(f[i]) = g[i]
    BY <1>7, <2>1
  <2>. HIDE DEF i
  <2>3. f[i + 1] = f[i] \o lists[i + 1] /\ g[i + 1] = g[i] \o new[i + 1]
    BY <1>4, <1>5, <2>1 DEF Grows
  <2>4. IsSeq(lists[i + 1]) /\ new[i + 1] = Content(lists[i + 1])
    BY <1>1, <1>2, <2>1
  <2>5. Content(f[i] \o lists[i + 1]) = Content(f[i]) \o Content(lists[i + 1])
    BY <2>2, <2>4, ContentOfTwo
  <2>6. IsSeq(f[i] \o lists[i + 1])
    BY <2>2, <2>4, EndToEnd
  <2>. QED  BY <2>2, <2>3, <2>4, <2>5, <2>6
<1>. HIDE DEF T
<1>8. Nat \subseteq T
  BY <1>6, <1>7, NatIsBuiltUp
<1>9. n - 1 \in T /\ (n - 1) + 1 = n
  BY <1>1, <1>8
<1>10. Content(f[n]) = g[n]
  BY <1>1, <1>9 DEF T
<1>. QED  BY <1>3, <1>4, <1>5, <1>10 DEF new

LEMMA ContentOfLines ==
    ASSUME NEW s, IsSeq(s), \A i \in 1..Len(s) : s[i].what # "label"
    PROVE  Content(s) = s
<1>1. DOMAIN s = 1..Len(s)
  BY SeqsAre
<1>2. {i \in DOMAIN s : s[i].what # "label"} = DOMAIN s
  BY <1>1
<1>. QED  BY <1>2, PickedAll DEF Content

-----------------------------------------------------------------------------
(* RAW: what the records of a section say.                                 *)

Fields(s) == [j \in 1..Len(s) |-> s[j].f]

LEMMA RecordsAre ==
    ASSUME NEW n \in Nat, NEW seq, seq = [i \in 1..n |-> seq[i]]
    PROVE  /\ IsSeq(Records(seq)) /\ Len(Records(seq)) = n /\ Fields(Records(seq)) = seq
           /\ \A i \in 1..n : Records(seq)[i] = Rec(seq[i])
<1> DEFINE rows == Records(seq)
<1>1. Len(seq) = n /\ DOMAIN seq = 1..n
  BY Tabulated
<1>2. rows = [i \in 1..n |-> Rec(seq[i])]
  BY <1>1 DEF Records
<1>3. rows = [i \in 1..n |-> rows[i]] /\ \A i \in 1..n : rows[i] = Rec(seq[i])
  BY <1>2
<1>. HIDE DEF rows
<1>4. IsSeq(rows) /\ Len(rows) = n
  BY <1>3, Tabulated
<1>5. Fields(rows) = [i \in 1..n |-> rows[i].f] /\ \A i \in 1..n : rows[i].f = seq[i]
  BY <1>3, <1>4 DEF Fields, Rec
<1>6. Fields(rows) = seq
  BY <1>5
<1>. QED  BY <1>3, <1>4, <1>6 DEF rows

\* The fields of the records that a case's buses, loads and lines are written as.
BusFields(c) == [b \in DOMAIN c.volts |-> <<b, c.volts[b], IF b = 1 THEN 3 ELSE 1>>]
LoadFields(c) ==
    [k \in DOMAIN c.loads |-> <<c.loads[k].bus, IF c.loads[k].on THEN 1 ELSE 0, c.loads[k].watts \div 1000>>]
LineFields(c, named) ==
    [i \in DOMAIN c.lines |->
        LET br == c.lines[i] IN
        IF named THEN <<br.from, -br.to, br.z, Text, br.rate, 0>> ELSE <<br.from, -br.to, br.z, br.rate, 0>>]

LEMMA RawBusesRead ==
    ASSUME NEW c, Accepted(c), NEW rows, rows = BusFields(c)
    PROVE  RawBuses(rows) = ParsedBuses(c)
<1> DEFINE n == Len(c.volts)
           at == {i \in DOMAIN rows : Len(rows[i]) >= 3 /\ rows[i][1] \in Int}
<1>1. /\ IsCase(c) /\ Absent \notin Int /\ n \in Nat /\ DOMAIN c.volts = 1..n
      /\ \A b \in 1..n : c.volts[b] \in Nat
  BY CaseShape DEF Accepted
<1>2. rows = [b \in 1..n |-> rows[b]]
  BY <1>1 DEF BusFields
<1>3. \A b \in 1..n : /\ Len(rows[b]) = 3 /\ rows[b][1] = b /\ rows[b][2] = c.volts[b]
                      /\ (rows[b][3] = 3) = (b = 1)
  BY <1>1 DEF BusFields
<1>4. IsSeq(rows) /\ DOMAIN rows = 1..n
  BY <1>1, <1>2, Tabulated
<1>5. at = DOMAIN rows
  BY <1>3, <1>4
<1>. HIDE DEF at, n
<1>6. Picked(rows, at) = rows
  BY <1>4, <1>5, PickedAll
<1> DEFINE parsed == [k \in DOMAIN rows |-> ParsedBus(rows[k][1], IF rows[k][2] = Absent THEN 1000 ELSE rows[k][2], rows[k][3] = 3)]
<1>7. parsed = ParsedBuses(c)
  <2>1. ASSUME NEW b \in 1..n PROVE parsed[b] = ParsedBus(b, c.volts[b], b = 1)
    <3>1. rows[b][2] # Absent /\ b \in DOMAIN rows
      BY <1>1, <1>3, <1>4
    <3>. QED  BY <1>3, <3>1
  <2>2. parsed = [b \in 1..n |-> parsed[b]]
    BY <1>4
  <2>. HIDE DEF parsed
  <2>. QED  BY <1>1, <2>1, <2>2 DEF ParsedBuses
<1>8. RawBuses(rows) = Tabled(parsed)
  <2>1. RawBuses(rows) = Tabled([k \in DOMAIN Picked(rows, at) |->
            ParsedBus(Picked(rows, at)[k][1], IF Picked(rows, at)[k][2] = Absent THEN 1000 ELSE Picked(rows, at)[k][2],
                      Picked(rows, at)[k][3] = 3)])
    BY DEF RawBuses, at
  <2>. QED  BY <1>6, <2>1
<1>. HIDE DEF parsed
<1>. QED  BY <1>1, <1>7, <1>8, ParsedOnce

LEMMA RawLoadsRead ==
    ASSUME NEW c, Accepted(c), WholeMegawatts(c), NEW rows, rows = LoadFields(c), NEW b
    PROVE  LoadAt(RawLoads(rows), b) = Watts(c, b)
<1> DEFINE D == Len(c.loads)
           at == {i \in DOMAIN rows : Len(rows[i]) >= 3 /\ rows[i][1] \in Int /\ rows[i][2] \in {Absent, 1}}
           f == Picked(rows, at)
           loads == [k \in DOMAIN f |-> [bus |-> f[k][1], load |-> 1000 * Field(f[k], 3)]]
<1>1. /\ IsCase(c) /\ Absent \notin Int /\ D \in Nat /\ DOMAIN c.loads = 1..D
      /\ DOMAIN c.volts = 1..Len(c.volts) /\ Len(c.volts) \in Nat
  BY CaseShape DEF Accepted
<1>2. ASSUME NEW k \in 1..D
      PROVE  /\ c.loads[k].bus \in Int /\ c.loads[k].on \in BOOLEAN /\ c.loads[k].watts \in Nat
             /\ 1000 * (c.loads[k].watts \div 1000) = c.loads[k].watts /\ c.loads[k].watts \div 1000 \in Int
  <2>1. c.loads[k].bus \in 1..Len(c.volts) /\ c.loads[k].on \in BOOLEAN /\ c.loads[k].watts \in Nat
    BY <1>1, CaseShape
  <2>2. Whole1000(c.loads[k].watts)
    BY <1>1 DEF WholeMegawatts
  <2>3. 1000 * (c.loads[k].watts \div 1000) = c.loads[k].watts
    BY <2>1, <2>2, WholeMany
  <2>4. c.loads[k].watts \div 1000 \in Int
    BY <2>1
  <2>. QED  BY <1>1, <2>1, <2>3, <2>4
<1>3. ASSUME NEW k \in 1..D
      PROVE  /\ Len(rows[k]) = 3 /\ rows[k][1] = c.loads[k].bus /\ rows[k][2] = (IF c.loads[k].on THEN 1 ELSE 0)
             /\ rows[k][3] = c.loads[k].watts \div 1000 /\ Field(rows[k], 3) = c.loads[k].watts \div 1000
  <2> DEFINE p == c.loads[k].watts \div 1000
             s == IF c.loads[k].on THEN 1 ELSE 0
  <2>1. rows[k] = <<c.loads[k].bus, s, p>>
    BY <1>1 DEF LoadFields
  <2>2. p \in Int
    BY <1>2
  <2>. HIDE DEF p, s
  <2>3. Len(rows[k]) = 3 /\ rows[k][1] = c.loads[k].bus /\ rows[k][2] = s /\ rows[k][3] = p /\ 3 \in DOMAIN rows[k]
    BY <2>1
  <2>4. Field(rows[k], 3) = p
    BY <2>2, <2>3 DEF Field
  <2>. QED  BY <2>3, <2>4 DEF p, s
<1>4. DOMAIN rows = 1..D
  BY <1>1 DEF LoadFields
<1>5. at \in SUBSET DOMAIN c.loads /\ \A k \in DOMAIN c.loads : c.loads[k].on <=> k \in at
  <2>1. \A k \in 1..D : k \in at <=> c.loads[k].on
    <3>. SUFFICES ASSUME NEW k \in 1..D PROVE k \in at <=> c.loads[k].on
      OBVIOUS
    <3>0. Len(rows[k]) = 3 /\ rows[k][1] = c.loads[k].bus /\ c.loads[k].bus \in Int
      BY <1>2, <1>3
    <3>1. Len(rows[k]) >= 3 /\ rows[k][1] \in Int
      BY <3>0
    <3>2. rows[k][2] \in {Absent, 1} <=> c.loads[k].on
      <4>1. rows[k][2] = IF c.loads[k].on THEN 1 ELSE 0
        BY <1>3
      <4>2. c.loads[k].on \in BOOLEAN
        BY <1>2
      <4>. QED  BY <1>1, <4>1, <4>2
    <3>. QED  BY <1>4, <3>1, <3>2
  <2>2. at \in SUBSET (1..D)
    BY <1>4
  <2>. HIDE DEF at
  <2>. QED  BY <1>1, <2>1, <2>2
<1>6. at \in SUBSET Int /\ IsFiniteSet(at)
  <2>1. IsFiniteSet(1..D) /\ 1..D \subseteq Int
    BY <1>1, FS_Interval
  <2>. HIDE DEF at
  <2>. QED  BY <1>1, <1>5, <2>1, FS_Subset
<1>. HIDE DEF at, D
<1> DEFINE n == Cardinality(at)
<1>7. DOMAIN f = 1..n /\ \A k \in 1..n : Nth(at, k) \in at /\ f[k] = rows[Nth(at, k)]
  BY <1>6, PickedElements
<1>. HIDE DEF f, Nth
<1>8. DOMAIN loads = 1..n
  BY <1>7
<1>9. ASSUME NEW k \in 1..n
      PROVE  loads[k].bus = c.loads[Nth(at, k)].bus /\ loads[k].load = c.loads[Nth(at, k)].watts
  <2>1. Nth(at, k) \in 1..D /\ f[k] = rows[Nth(at, k)]
    <3>1. Nth(at, k) \in at /\ f[k] = rows[Nth(at, k)]
      BY <1>7
    <3>2. at \in SUBSET (1..D)
      BY <1>1, <1>5
    <3>. QED  BY <3>1, <3>2
  <2>2. loads[k] = [bus |-> f[k][1], load |-> 1000 * Field(f[k], 3)]
    BY <1>7
  <2>3. f[k][1] = c.loads[Nth(at, k)].bus /\ Field(f[k], 3) = c.loads[Nth(at, k)].watts \div 1000
    BY <1>3, <2>1
  <2>4. 1000 * (c.loads[Nth(at, k)].watts \div 1000) = c.loads[Nth(at, k)].watts
    BY <1>2, <2>1
  <2>. QED  BY <2>2, <2>3, <2>4
<1>10. RawLoads(rows) = loads
  BY DEF RawLoads, f, at
<1>. HIDE DEF loads, n
<1>11. LoadsAt(c, at, loads)
  BY <1>5, <1>8, <1>9 DEF LoadsAt, n
<1>. QED  BY <1>1, <1>10, <1>11, LoadsKept

\* The first positive number of those where the ratings are.
LEMMA RatingIs ==
    ASSUME Text \notin Int, NEW a, NEW b, NEW z, NEW rate \in Nat \ {0}
    PROVE  Rating(<<a, b, z, Text, rate, 0>>) = rate /\ Rating(<<a, b, z, rate, 0>>) = rate
<1>1. ASSUME NEW f, NEW p \in {4, 5}, f[p] = rate, p \in DOMAIN f,
             \A i \in 4..6 : i # p => i \notin DOMAIN f \/ f[i] \notin Int \/ f[i] = 0
      PROVE  Rating(f) = rate
  <2>1. {i \in 4..6 : Field(f, i) > 0} = {p}
    <3>1. Field(f, p) = rate
      BY <1>1 DEF Field
    <3>2. \A i \in 4..6 : i # p => Field(f, i) = 0
      BY <1>1 DEF Field
    <3>. QED  BY <3>1, <3>2
  <2>2. {p} \in SUBSET Int /\ p \in {p} /\ \A y \in {p} : p <= y
    OBVIOUS
  <2>3. Min({p}) = p
    BY <2>2, LeastIs
  <2>4. {p} # {} /\ Field(f, p) = rate
    BY <1>1 DEF Field
  <2>. QED  BY <2>1, <2>3, <2>4 DEF Rating
<1> DEFINE f == <<a, b, z, Text, rate, 0>>
           g == <<a, b, z, rate, 0>>
<1>2. DOMAIN f = 1..6 /\ f[4] = Text /\ f[5] = rate /\ f[6] = 0 /\ DOMAIN g = 1..5 /\ g[4] = rate /\ g[5] = 0
  OBVIOUS
<1>. HIDE DEF f, g
<1>3. 4..6 = {4, 5, 6} /\ 5 \in 1..6 /\ 4 \in 1..5 /\ 6 \notin 1..5
  OBVIOUS
<1>4. Rating(f) = rate
  BY <1>1, <1>2, <1>3
<1>5. Rating(g) = rate
  BY <1>1, <1>2, <1>3
<1>. QED  BY <1>4, <1>5 DEF f, g

LEMMA RawBranchesRead ==
    ASSUME NEW c, Accepted(c), NEW named \in BOOLEAN, NEW rows, rows = LineFields(c, named)
    PROVE  /\ IsSeq(RawBranches(rows)) /\ Len(RawBranches(rows)) = Len(c.lines)
           /\ \A i \in 1..Len(c.lines) : ReadsAs(RawBranches(rows)[i], c.lines[i], c.lines[i].z, FALSE)
<1> DEFINE L == Len(c.lines)
           at == {i \in DOMAIN rows : Len(rows[i]) >= 3 /\ {rows[i][1], rows[i][2]} \subseteq Int}
           read(f) == Line(Magnitude(f[1]), Magnitude(f[2]), Field(f, 3), Rating(f))
<1>1. /\ IsCase(c) /\ Absent \notin Int /\ Text \notin Int /\ L \in Nat /\ DOMAIN c.lines = 1..L
      /\ DOMAIN c.volts = 1..Len(c.volts) /\ Len(c.volts) \in Nat
  BY CaseShape DEF Accepted
<1>2. ASSUME NEW i \in 1..L
      PROVE  c.lines[i].from \in Nat /\ c.lines[i].to \in Nat /\ c.lines[i].z \in Nat /\ c.lines[i].rate \in Nat \ {0}
  <2>1. c.lines[i] \in LineOf(DOMAIN c.volts)
    BY <1>1, CaseShape
  <2>. QED  BY <1>1, <2>1 DEF LineOf, AboveZero
<1>3. ASSUME NEW i \in 1..L
      PROVE  /\ Len(rows[i]) >= 3 /\ rows[i][1] = c.lines[i].from /\ rows[i][2] = -c.lines[i].to
             /\ Field(rows[i], 3) = c.lines[i].z /\ Rating(rows[i]) = c.lines[i].rate
  <2> DEFINE br == c.lines[i]
             to == -br.to
             f == rows[i]
  <2>1. f = IF named THEN <<br.from, to, br.z, Text, br.rate, 0>> ELSE <<br.from, to, br.z, br.rate, 0>>
    BY <1>1 DEF LineFields
  <2>2. br.z \in Int /\ br.rate \in Nat \ {0}
    BY <1>2
  <2>. HIDE DEF br, to, f
  <2>3. Rating(f) = br.rate
    <3>1. Rating(<<br.from, to, br.z, Text, br.rate, 0>>) = br.rate /\ Rating(<<br.from, to, br.z, br.rate, 0>>) = br.rate
      BY <1>1, <2>2, RatingIs
    <3>. QED  BY <2>1, <3>1
  <2>4. Len(f) >= 3 /\ f[1] = br.from /\ f[2] = to /\ f[3] = br.z /\ 3 \in DOMAIN f
    <3>1. CASE named
      BY <2>1, <3>1
    <3>2. CASE ~named
      BY <2>1, <3>2
    <3>. QED  BY <3>1, <3>2
  <2>5. Field(f, 3) = br.z
    BY <2>2, <2>4 DEF Field
  <2>. QED  BY <2>3, <2>4, <2>5 DEF f, br, to
<1>4. rows = [i \in 1..L |-> rows[i]] /\ DOMAIN rows = 1..L
  BY <1>1 DEF LineFields
<1>5. IsSeq(rows)
  <2>. HIDE DEF L
  <2>. QED  BY <1>1, <1>4, Tabulated
<1>6. at = DOMAIN rows
  <2>1. ASSUME NEW i \in 1..L PROVE {rows[i][1], rows[i][2]} \subseteq Int
    <3>1. rows[i][1] = c.lines[i].from /\ rows[i][2] = -c.lines[i].to
      BY <1>3
    <3>2. c.lines[i].from \in Int /\ -c.lines[i].to \in Int
      BY <1>2
    <3>. QED  BY <3>1, <3>2
  <2>. QED  BY <1>3, <1>4, <2>1
<1>. HIDE DEF at, L
<1>7. Picked(rows, at) = rows
  BY <1>5, <1>6, PickedAll
<1>8. RawBranches(rows) = [i \in 1..L |-> read(rows[i])]
  <2>1. RawBranches(rows) = [k \in DOMAIN Picked(rows, at) |-> read(Picked(rows, at)[k])]
    BY DEF RawBranches, at
  <2>. HIDE DEF read
  <2>. QED  BY <1>4, <1>7, <2>1
<1>9. ASSUME NEW i \in 1..L PROVE ReadsAs(read(rows[i]), c.lines[i], c.lines[i].z, FALSE)
  <2>1. Magnitude(rows[i][1]) = c.lines[i].from /\ Magnitude(rows[i][2]) = c.lines[i].to
    <3>1. rows[i][1] = c.lines[i].from /\ rows[i][2] = -c.lines[i].to
      BY <1>3
    <3>2. \A v \in Nat : Magnitude(v) = v /\ Magnitude(-v) = v
      BY DEF Magnitude
    <3>. QED  BY <1>2, <3>1, <3>2
  <2>2. read(rows[i]) = Line(c.lines[i].from, c.lines[i].to, c.lines[i].z, c.lines[i].rate)
    BY <1>3, <2>1
  <2>. HIDE DEF read
  <2>. QED  BY <2>2 DEF ReadsAs, Line
<1>. HIDE DEF read
<1> DEFINE ls == RawBranches(rows)
<1>10. ls = [i \in 1..L |-> ls[i]] /\ \A i \in 1..L : ls[i] = read(rows[i])
  BY <1>8
<1>. HIDE DEF ls
<1>11. IsSeq(ls) /\ Len(ls) = L
  BY <1>1, <1>10, Tabulated
<1>. QED  BY <1>9, <1>10, <1>11 DEF ls, L

-----------------------------------------------------------------------------
(* RAW: the transformers, which have four lines each after a skipped one.  *)

LEMMA ExactQuotient ==
    ASSUME NEW d \in Nat \ {0}, NEW q \in Nat
    PROVE  (d * q) \div d = q
<1>1. d * q \in Int /\ q * d <= d * q /\ d * q <= q * d
  OBVIOUS
<1>2. (d * q) \div d \in Int /\ q <= (d * q) \div d /\ (d * q) \div d <= q
  BY <1>1, QuotientIsInteger, QuotientBetween
<1>. QED  BY <1>2

\* A winding's ratio, in whichever unit it was written.
LEMMA WindingRead ==
    ASSUME NEW v \in Nat \ {0}, NEW tap \in Nat \ {0}, NEW cw \in 1..3, cw = 1 \/ Whole1000(v * tap)
    PROVE  /\ WindingAs(v, tap, cw)[1] \in Int /\ WindingAs(v, tap, cw)[2] \in Int
           /\ WindvPu(WindingAs(v, tap, cw)[1], WindingAs(v, tap, cw)[2], cw, v) = tap
<1> DEFINE w == (v * tap) \div 1000
<1>1. v * tap \in Nat /\ v * tap > 0
  OBVIOUS
<1>2. w \in Int
  BY <1>1
<1>3. CASE cw = 1
  BY <1>3 DEF WindingAs, WindvPu
<1>4. CASE cw # 1
  <2>1. 1000 * w = v * tap
    BY <1>1, <1>4, WholeMany
  <2>2. w > 0
    BY <1>1, <1>2, <2>1
  <2>3. (w * 1000) \div v = tap
    <3>1. w * 1000 = v * tap
      BY <1>2, <2>1
    <3>. QED  BY <3>1, ExactQuotient
  <2>4. (1000 * w) \div 1000 = w
    BY <1>2, <2>2, ExactQuotient
  <2>. HIDE DEF w
  <2>5. CASE cw = 2
    <3>1. WindingAs(v, tap, cw) = <<w, 0>>
      BY <2>5 DEF WindingAs, w
    <3>2. WindvPu(w, 0, 2, v) = (w * 1000) \div v
      BY <1>2, <2>2 DEF WindvPu
    <3>. QED  BY <1>2, <2>3, <2>5, <3>1, <3>2
  <2>6. CASE cw = 3
    <3>1. WindingAs(v, tap, cw) = <<1000, w>>
      BY <2>6 DEF WindingAs, w
    <3>2. WindvPu(1000, w, 3, v) = (w * 1000) \div v
      BY <1>2, <2>2, <2>4 DEF WindvPu
    <3>. QED  BY <1>2, <2>3, <2>6, <3>1, <3>2
  <2>. QED  BY <1>4, <2>5, <2>6
<1>. QED  BY <1>3, <1>4

LEMMA TransformerIs ==
    ASSUME NEW c, IsCase(c), NEW i \in DOMAIN c.transformers
    PROVE  LET br == c.transformers[i] IN
           /\ br.from \in DOMAIN c.volts /\ br.to \in DOMAIN c.volts /\ br.z \in Nat /\ br.rate \in Nat \ {0}
           /\ br.tap \in Nat \ {0} /\ br.delta \in BOOLEAN /\ br.zero \in BOOLEAN
<1>1. c.transformers[i] \in TransformerOf(DOMAIN c.volts)
  BY CaseShape
<1>. QED  BY <1>1 DEF TransformerOf, AboveZero

\* The four lines of transformer i are at j.
WrittenAt(c, cw, i, rows, j) ==
    LET br == c.transformers[i]
        from == WindingAs(c.volts[br.from], 1000, cw)
    IN /\ rows[j] = <<br.from, br.to, 0, cw>> /\ rows[j + 1] = <<br.z, 100>>
       /\ rows[j + 2] = <<from[1], from[2], IF br.delta THEN -30 ELSE 0, br.rate>>
       /\ rows[j + 3] = WindingAs(c.volts[br.to], br.tap, cw)

LEMMA RawTransformerRead ==
    ASSUME NEW c, Accepted(c), NEW cw \in 1..3, cw = 1 \/ TappedWhole(c), NEW i \in DOMAIN c.transformers,
           NEW rows, NEW j \in Nat, WrittenAt(c, cw, i, rows, j)
    PROVE  ReadsAs(RawTransformer(rows, j, ParsedBuses(c)), c.transformers[i], c.transformers[i].z, TRUE)
<1> DEFINE br == c.transformers[i]
           from == WindingAs(c.volts[br.from], 1000, cw)
           to == WindingAs(c.volts[br.to], br.tap, cw)
           shift == IF br.delta THEN -30 ELSE 0
           kv(b) == KvOf(ParsedBuses(c), b)
<1>1. /\ IsCase(c) /\ Absent \notin Int /\ DOMAIN c.volts \in SUBSET Nat
      /\ \A b \in DOMAIN c.volts : c.volts[b] \in Nat \ {0}
  BY CaseShape DEF Accepted
<1>2. /\ br.from \in DOMAIN c.volts /\ br.to \in DOMAIN c.volts /\ br.z \in Nat /\ br.rate \in Nat \ {0}
      /\ br.tap \in Nat \ {0} /\ br.delta \in BOOLEAN /\ br.from \in Nat /\ br.to \in Nat
  <2>1. /\ br.from \in DOMAIN c.volts /\ br.to \in DOMAIN c.volts /\ br.z \in Nat /\ br.rate \in Nat \ {0}
        /\ br.tap \in Nat \ {0} /\ br.delta \in BOOLEAN
    BY <1>1, TransformerIs
  <2>. QED  BY <1>1, <2>1
<1>3. /\ from[1] \in Int /\ from[2] \in Int /\ WindvPu(from[1], from[2], cw, c.volts[br.from]) = 1000
  <2>1. Whole1000(c.volts[br.from] * 1000)
    BY <1>1, <1>2 DEF Whole1000
  <2>2. c.volts[br.from] \in Nat \ {0} /\ 1000 \in Nat \ {0}
    BY <1>1, <1>2
  <2> DEFINE v == c.volts[br.from]
  <2>3. v \in Nat \ {0} /\ 1000 \in Nat \ {0} /\ Whole1000(v * 1000)
    BY <2>1, <2>2
  <2>. HIDE DEF v
  <2>4. /\ WindingAs(v, 1000, cw)[1] \in Int /\ WindingAs(v, 1000, cw)[2] \in Int
        /\ WindvPu(WindingAs(v, 1000, cw)[1], WindingAs(v, 1000, cw)[2], cw, v) = 1000
    BY <2>3, WindingRead
  <2>. QED  BY <2>4 DEF v
<1>4. /\ to[1] \in Int /\ to[2] \in Int /\ WindvPu(to[1], to[2], cw, c.volts[br.to]) = br.tap
  <2> DEFINE v == c.volts[br.to]
             tap == br.tap
  <2>1. cw = 1 \/ Whole1000(v * tap)
    BY DEF TappedWhole
  <2>2. v \in Nat \ {0} /\ tap \in Nat \ {0}
    BY <1>1, <1>2
  <2>. HIDE DEF v, tap
  <2>3. /\ WindingAs(v, tap, cw)[1] \in Int /\ WindingAs(v, tap, cw)[2] \in Int
        /\ WindvPu(WindingAs(v, tap, cw)[1], WindingAs(v, tap, cw)[2], cw, v) = tap
    BY <2>1, <2>2, WindingRead
  <2>. QED  BY <2>3 DEF v, tap
<1>5. kv(br.from) = c.volts[br.from] /\ kv(br.to) = c.volts[br.to]
  BY <1>1, <1>2, ParsedOnce
<1>6. DOMAIN to = 1..2
  BY DEF WindingAs
<1>7. /\ rows[j] = <<br.from, br.to, 0, cw>> /\ rows[j + 1] = <<br.z, 100>>
      /\ rows[j + 2] = <<from[1], from[2], shift, br.rate>> /\ rows[j + 3] = to
  BY DEF WrittenAt
<1>8. shift \in Int
  OBVIOUS
<1>9. VectorGroup(shift) = IF br.delta THEN "delta_wye" ELSE "wye_wye"
  BY <1>2, GroupIs
<1>10. Tap(1000, br.tap) = br.tap
  BY <1>2, TapIs
<1>11. Magnitude(br.from) = br.from /\ Magnitude(br.to) = br.to
  BY <1>2 DEF Magnitude
<1>. HIDE DEF br, from, to, shift, kv
<1>12. /\ rows[j][1] = br.from /\ rows[j][2] = br.to /\ rows[j][4] = cw /\ 4 \in DOMAIN rows[j] /\ cw # Absent
  BY <1>1, <1>7
<1>13. Field(rows[j + 1], 1) = br.z
  BY <1>2, <1>7 DEF Field
<1>14. /\ Field(rows[j + 2], 1) = from[1] /\ Field(rows[j + 2], 2) = from[2]
       /\ Field(rows[j + 2], 3) = shift /\ Field(rows[j + 2], 4) = br.rate
  BY <1>2, <1>3, <1>7, <1>8 DEF Field
<1>15. Field(rows[j + 3], 1) = to[1] /\ Field(rows[j + 3], 2) = to[2]
  BY <1>4, <1>6, <1>7 DEF Field
<1>16. RawTransformer(rows, j, ParsedBuses(c)) =
          Transformer(br.from, br.to, br.z, br.rate, br.tap, IF br.delta THEN "delta_wye" ELSE "wye_wye")
  <2>1. RawTransformer(rows, j, ParsedBuses(c)) =
          Transformer(br.from, br.to, Field(rows[j + 1], 1), Field(rows[j + 2], 4),
             Tap(WindvPu(Field(rows[j + 2], 1), Field(rows[j + 2], 2), cw, kv(br.from)),
                 WindvPu(Field(rows[j + 3], 1), Field(rows[j + 3], 2), cw, kv(br.to))),
             VectorGroup(Field(rows[j + 2], 3)))
    BY <1>11, <1>12 DEF RawTransformer, kv
  <2>. QED  BY <1>3, <1>4, <1>5, <1>9, <1>10, <1>13, <1>14, <1>15, <2>1
<1>17. ReadsAs(RawTransformer(rows, j, ParsedBuses(c)), br, br.z, TRUE)
  BY <1>16 DEF ReadsAs, Transformer
<1>. QED  BY <1>17 DEF br

\* A skipped transformer of five lines, and T of four.
WrittenAfterOne(c, cw, rows) ==
    LET T == Len(c.transformers) IN
    /\ DOMAIN rows = 1..(5 + 4 * T) /\ Len(rows) = 5 + 4 * T /\ Field(rows[1], 3) # 0
    /\ \A i \in 1..T : WrittenAt(c, cw, i, rows, 2 + 4 * i)

LEMMA RawTransformersRead ==
    ASSUME NEW c, Accepted(c), NEW cw \in 1..3, cw = 1 \/ TappedWhole(c), NEW rows, WrittenAfterOne(c, cw, rows),
           NEW ts, ts = RawTransformers(rows, ParsedBuses(c))
    PROVE  /\ IsSeq(ts) /\ Len(ts) = Len(c.transformers)
           /\ \A i \in 1..Len(c.transformers) : ReadsAs(ts[i], c.transformers[i], c.transformers[i].z, TRUE)
<1> DEFINE T == Len(c.transformers)
           N == 5 + 4 * T
           third(j) == j \in DOMAIN rows /\ Field(rows[j], 3) # 0
           next(j) == j + (IF third(j) THEN 5 ELSE 4)
           Walk(w) == w = [k \in Nat |-> IF k = 0 THEN 1 ELSE LET j == w[k - 1] IN j + (IF third(j) THEN 5 ELSE 4)]
           F == [n \in Nat |-> [j \in Nat |-> next(j)]]
           w == CHOOSE v : Walk(v)
           whole == {j \in DOMAIN rows : (\E k \in 0..Len(rows) : w[k] = j) /\ ~third(j) /\ j + 3 <= Len(rows)}
<1>1. T \in Nat /\ DOMAIN c.transformers = 1..T
  BY CaseShape DEF Accepted
<1>2. DOMAIN rows = 1..N /\ Len(rows) = N /\ Field(rows[1], 3) # 0 /\ N \in Nat
  BY <1>1 DEF WrittenAfterOne
<1>3. \A i \in 1..T : WrittenAt(c, cw, i, rows, 2 + 4 * i)
  BY DEF WrittenAfterOne
<1>4. \E v : Walk(v)
  <2>1. StaysIn(F, Nat)
    <3>1. \A j \in Nat : next(j) \in Nat
      OBVIOUS
    <3>. HIDE DEF next
    <3>. QED  BY <3>1 DEF StaysIn
  <2>2. \E g \in [Nat -> Nat] : Recursion(g, 1, F)
    <3>. HIDE DEF F
    <3>. QED  BY <2>1, RecursionExists
  <2>3. PICK g \in [Nat -> Nat] : Recursion(g, 1, F)
    BY <2>2
  <2>4. g[0] = 1 /\ \A n \in Nat : g[n + 1] = next(g[n])
    <3>. HIDE DEF next
    <3>. QED  BY <2>3 DEF Recursion
  <2>. HIDE DEF F, third
  <2>5. ASSUME NEW k \in Nat PROVE g[k] = IF k = 0 THEN 1 ELSE LET j == g[k - 1] IN j + (IF third(j) THEN 5 ELSE 4)
    <3>1. k # 0 => k - 1 \in Nat /\ (k - 1) + 1 = k
      OBVIOUS
    <3>. QED  BY <2>4, <3>1
  <2>6. g = [k \in Nat |-> g[k]]
    OBVIOUS
  <2>. QED  BY <2>5, <2>6
<1>5. Walk(w)
  <2>. HIDE DEF Walk
  <2>. QED  BY <1>4
<1>6. RawTransformers(rows, ParsedBuses(c)) = [k \in 1..Cardinality(whole) |-> RawTransformer(rows, Nth(whole, k), ParsedBuses(c))]
  BY DEF RawTransformers
<1>. HIDE DEF w, N, F
<1>7. w[0] = 1 /\ \A k \in Nat \ {0} : w[k] = next(w[k - 1])
  <2>. HIDE DEF third
  <2>. QED  BY <1>5
<1>. HIDE DEF Walk
<1>8. third(1)
  BY <1>1, <1>2 DEF N
<1>9. \A k \in Nat \ {0} : ~third(2 + 4 * k)
  <2>. SUFFICES ASSUME NEW k \in Nat \ {0} PROVE ~third(2 + 4 * k)
    OBVIOUS
  <2>1. CASE k <= T
    <3>1. rows[2 + 4 * k] = <<c.transformers[k].from, c.transformers[k].to, 0, cw>>
      BY <1>1, <1>3, <2>1 DEF WrittenAt
    <3>2. Field(rows[2 + 4 * k], 3) = 0
      BY <3>1 DEF Field
    <3>. QED  BY <3>2
  <2>2. CASE ~(k <= T)
    BY <1>1, <1>2, <2>2 DEF N
  <2>. QED  BY <2>1, <2>2
<1>10. \A k \in Nat \ {0} : w[k] = 2 + 4 * k
  <2> DEFINE P == {k \in Nat : w[k + 1] = 2 + 4 * (k + 1)}
  <2>1. 0 \in P
    <3>1. w[1] = next(1)
      BY <1>7
    <3>2. next(1) = 6
      <4>. HIDE DEF third
      <4>. QED  BY <1>8
    <3>. QED  BY <3>1, <3>2
  <2>2. ASSUME NEW k \in Nat, k \in P PROVE k + 1 \in P
    <3>1. w[(k + 1) + 1] = next(w[k + 1]) /\ w[k + 1] = 2 + 4 * (k + 1)
      BY <1>7, <2>2
    <3>2. ~third(2 + 4 * (k + 1))
      <4>1. k + 1 \in Nat \ {0}
        OBVIOUS
      <4>. HIDE DEF third
      <4>. QED  BY <1>9, <4>1
    <3>3. next(2 + 4 * (k + 1)) = 2 + 4 * ((k + 1) + 1)
      <4>. HIDE DEF third
      <4>. QED  BY <3>2
    <3>. QED  BY <3>1, <3>3
  <2>. HIDE DEF P
  <2>3. Nat \subseteq P
    BY <2>1, <2>2, NatIsBuiltUp
  <2>. SUFFICES ASSUME NEW k \in Nat \ {0} PROVE w[k] = 2 + 4 * k
    OBVIOUS
  <2>4. k - 1 \in P /\ (k - 1) + 1 = k
    BY <2>3
  <2>. QED  BY <2>4 DEF P
<1> DEFINE g == [i \in 1..T |-> 2 + 4 * i]
<1>11. whole = {g[i] : i \in 1..T}
  <2>1. ASSUME NEW j \in whole PROVE \E i \in 1..T : g[i] = j
    <3>1. PICK k \in 0..Len(rows) : w[k] = j
      OBVIOUS
    <3>2. k # 0
      BY <1>7, <1>8, <3>1
    <3>3. j = 2 + 4 * k /\ j + 3 <= N /\ k \in Nat
      <4>1. k \in Nat \ {0}
        BY <1>2, <3>2
      <4>2. w[k] = 2 + 4 * k
        BY <1>10, <4>1
      <4>3. j + 3 <= N
        <5>. HIDE DEF third
        <5>. QED  BY <1>2
      <4>. QED  BY <3>1, <4>1, <4>2, <4>3
    <3>4. k \in 1..T
      BY <1>1, <3>2, <3>3 DEF N
    <3>. QED  BY <3>3, <3>4
  <2>2. ASSUME NEW i \in 1..T PROVE g[i] \in whole
    <3>1. i \in Nat \ {0} /\ i \in 0..N /\ g[i] = 2 + 4 * i /\ 2 + 4 * i \in 1..N /\ (2 + 4 * i) + 3 <= N
      BY <1>1 DEF N
    <3>2. w[i] = 2 + 4 * i /\ ~third(2 + 4 * i)
      BY <1>9, <1>10, <3>1
    <3>. HIDE DEF third, g
    <3>. QED  BY <1>2, <3>1, <3>2
  <2>. HIDE DEF whole, g
  <2>3. {g[i] : i \in 1..T} \subseteq whole
    BY <2>2
  <2>. QED  BY <2>1, <2>3
<1>12. Ascends(g, T, whole)
  <2>1. g \in [1..T -> Int] /\ \A i, k \in 1..T : i < k => g[i] < g[k]
    BY <1>1
  <2>. HIDE DEF g, whole
  <2>. QED  BY <1>1, <1>11, <2>1 DEF Ascends, Increasing
<1>. HIDE DEF whole
<1>13. Cardinality(whole) = T /\ \A i \in 1..T : Nth(whole, i) = 2 + 4 * i
  <2>1. Cardinality(whole) = T /\ \A i \in 1..T : Nth(whole, i) = g[i]
    BY <1>12, Ranked
  <2>. QED  BY <2>1
<1>14. ts = [i \in 1..T |-> ts[i]] /\ \A i \in 1..T : ts[i] = RawTransformer(rows, 2 + 4 * i, ParsedBuses(c))
  <2>. HIDE DEF Nth, T, g
  <2>. QED  BY <1>6, <1>13
<1>15. IsSeq(ts) /\ Len(ts) = T
  <2>. HIDE DEF T
  <2>. QED  BY <1>1, <1>14, Tabulated
<1>16. ASSUME NEW i \in 1..T PROVE ReadsAs(ts[i], c.transformers[i], c.transformers[i].z, TRUE)
  <2>1. i \in DOMAIN c.transformers /\ 2 + 4 * i \in Nat /\ WrittenAt(c, cw, i, rows, 2 + 4 * i)
    BY <1>1, <1>3
  <2>2. ReadsAs(RawTransformer(rows, 2 + 4 * i, ParsedBuses(c)), c.transformers[i], c.transformers[i].z, TRUE)
    BY <2>1, RawTransformerRead
  <2>. QED  BY <1>14, <2>2
<1>. QED  BY <1>15, <1>16

-----------------------------------------------------------------------------
(* RAW: the blocks of the two dialects.                                    *)

LEMMA OneLine ==
    ASSUME NEW x
    PROVE  IsSeq(<<x>>) /\ Len(<<x>>) = 1 /\ <<x>>[1] = x
<1>1. <<x>> \in Seq({x}) /\ Len(<<x>>) = 1
  OBVIOUS
<1>2. <<x>> \in [1..1 -> {x}]
  BY <1>1, SequencesAreLists
<1>. QED  BY <1>1, <1>2 DEF IsSeq

LEMMA FourLines ==
    ASSUME NEW x, NEW y, NEW z, NEW u, NEW s, s = <<x, y, z, u>>
    PROVE  IsSeq(s) /\ Len(s) = 4 /\ s[1] = x /\ s[2] = y /\ s[3] = z /\ s[4] = u
<1>1. s \in Seq({x, y, z, u}) /\ Len(s) = 4
  OBVIOUS
<1>2. s \in [1..4 -> {x, y, z, u}]
  BY <1>1, SequencesAreLists
<1>. QED  BY <1>1, <1>2 DEF IsSeq

\* Records that, in a v32/33 file, do not look like the end of a section.
AreRecords(s, unmarked) ==
    IsSeq(s) /\ \A j \in 1..Len(s) : s[j].what = "record" /\ (unmarked => ~s[j].zero)

LEMMA RecordsAreRecords ==
    ASSUME NEW n \in Nat, NEW seq, seq = [i \in 1..n |-> seq[i]], NEW unmarked
    PROVE  AreRecords(Records(seq), unmarked)
<1>1. IsSeq(Records(seq)) /\ Len(Records(seq)) = n /\ \A i \in 1..n : Records(seq)[i] = Rec(seq[i])
  BY RecordsAre
<1>2. \A f : Rec(f).what = "record" /\ ~Rec(f).zero
  BY DEF Rec
<1>. QED  BY <1>1, <1>2 DEF AreRecords

LEMMA RecordsTogether ==
    ASSUME NEW s, NEW t, NEW unmarked, AreRecords(s, unmarked), AreRecords(t, unmarked)
    PROVE  AreRecords(s \o t, unmarked)
<1> DEFINE a == Len(s)
           b == Len(t)
           all == s \o t
<1>1. IsSeq(s) /\ IsSeq(t) /\ a \in Nat /\ b \in Nat
  BY SeqsAre DEF AreRecords
<1>2. /\ IsSeq(all) /\ Len(all) = a + b /\ (\A i \in 1..a : all[i] = s[i])
      /\ (\A i \in 1..b : all[a + i] = t[i])
  BY <1>1, EndToEnd
<1>3. /\ \A j \in 1..a : s[j].what = "record" /\ (unmarked => ~s[j].zero)
      /\ \A j \in 1..b : t[j].what = "record" /\ (unmarked => ~t[j].zero)
  BY DEF AreRecords
<1>. HIDE DEF all, a, b
<1>4. ASSUME NEW j \in 1..(a + b) PROVE all[j].what = "record" /\ (unmarked => ~all[j].zero)
  <2>1. CASE j <= a
    <3>1. j \in 1..a
      BY <1>1, <2>1
    <3>. QED  BY <1>2, <1>3, <3>1
  <2>2. CASE ~(j <= a)
    <3>1. j - a \in 1..b /\ a + (j - a) = j
      BY <1>1, <2>2
    <3>. QED  BY <1>2, <1>3, <3>1
  <2>. QED  BY <2>1, <2>2
<1>5. AreRecords(all, unmarked)
  BY <1>2, <1>4 DEF AreRecords
<1>. QED  BY <1>5 DEF all

OfFours(lists, n) == n \in Nat /\ \A k \in 1..n : Len(lists[k]) = 4
LEMMA FoursInOrder ==
    ASSUME NEW lists, NEW n, OfFours(lists, n), NEW flat, NEW off, Blocks(flat, lists, off, n)
    PROVE  \A k \in 1..(n + 1) : off[k] = 4 * (k - 1)
<1> DEFINE P == {k \in Nat : k <= n => off[k + 1] = 4 * k}
<1>0. n \in Nat
  BY DEF OfFours
<1>1. off[1] = 0 /\ \A k \in 1..n : off[k + 1] = off[k] + 4
  BY DEF Blocks, OfFours
<1>2. 0 \in P
  BY <1>1
<1>3. ASSUME NEW k \in Nat, k \in P PROVE k + 1 \in P
  <2>. SUFFICES ASSUME k + 1 <= n PROVE off[(k + 1) + 1] = 4 * (k + 1)
    OBVIOUS
  <2>1. off[k + 1] = 4 * k /\ k + 1 \in 1..n
    BY <1>0, <1>3
  <2>2. off[(k + 1) + 1] = off[k + 1] + 4
    BY <1>1, <2>1
  <2>. QED  BY <2>1, <2>2
<1>. HIDE DEF P
<1>4. Nat \subseteq P
  BY <1>2, <1>3, NatIsBuiltUp
<1>. SUFFICES ASSUME NEW k \in 1..(n + 1) PROVE off[k] = 4 * (k - 1)
  OBVIOUS
<1>5. k - 1 \in P /\ k - 1 <= n /\ (k - 1) + 1 = k
  BY <1>0, <1>4
<1>. QED  BY <1>5 DEF P

\* The transformers' section.
TransformerBlock(c, cw) == ThreeWinding \o TransformerRecords(c, cw)
ZeroFree(c) == \A i \in DOMAIN c.transformers : ~c.transformers[i].zero

\* s is how br is written.
IsRecordOf(s, c, br, cw) ==
    LET from == WindingAs(c.volts[br.from], 1000, cw) IN
    /\ s[1].f = <<br.from, br.to, 0, cw>> /\ s[2].f = <<br.z, 100>>
    /\ s[3].f = <<from[1], from[2], IF br.delta THEN -30 ELSE 0, br.rate>>
    /\ s[4].f = WindingAs(c.volts[br.to], br.tap, cw)

LEMMA TransformerRecordIs ==
    ASSUME NEW c, NEW cw, NEW br, NEW unmarked, unmarked => ~br.zero, NEW s, s = TransformerRecord(c, br, cw)
    PROVE  Len(s) = 4 /\ AreRecords(s, unmarked) /\ IsRecordOf(s, c, br, cw)
<1> DEFINE from == WindingAs(c.volts[br.from], 1000, cw)
           x == Rec(<<br.from, br.to, 0, cw>>)
           y == [Rec(<<br.z, 100>>) EXCEPT !.zero = br.zero]
           z == Rec(<<from[1], from[2], IF br.delta THEN -30 ELSE 0, br.rate>>)
           u == Rec(WindingAs(c.volts[br.to], br.tap, cw))
<1>1. \A f : Rec(f).what = "record" /\ ~Rec(f).zero /\ Rec(f).f = f
  BY DEF Rec
<1>2. y.what = "record" /\ y.zero = br.zero /\ y.f = <<br.z, 100>>
  BY DEF Rec
<1>3. s = <<x, y, z, u>>
  BY DEF TransformerRecord
<1>4. /\ x.what = "record" /\ ~x.zero /\ z.what = "record" /\ ~z.zero /\ u.what = "record" /\ ~u.zero
      /\ x.f = <<br.from, br.to, 0, cw>> /\ z.f = <<from[1], from[2], IF br.delta THEN -30 ELSE 0, br.rate>>
      /\ u.f = WindingAs(c.volts[br.to], br.tap, cw)
  BY <1>1
<1>. HIDE DEF x, y, z, u
<1>5. IsSeq(s) /\ Len(s) = 4 /\ s[1] = x /\ s[2] = y /\ s[3] = z /\ s[4] = u
  BY <1>3, FourLines
<1>6. AreRecords(s, unmarked)
  <2>1. \A j \in 1..4 : j = 1 \/ j = 2 \/ j = 3 \/ j = 4
    OBVIOUS
  <2>. QED  BY <1>2, <1>4, <1>5, <2>1 DEF AreRecords
<1>7. IsRecordOf(s, c, br, cw)
  BY <1>2, <1>4, <1>5 DEF IsRecordOf
<1>. QED  BY <1>5, <1>6, <1>7

LEMMA TransformerBlockIs ==
    ASSUME NEW c, IsCase(c), NEW cw, NEW unmarked, unmarked => ZeroFree(c)
    PROVE  AreRecords(TransformerBlock(c, cw), unmarked) /\ WrittenAfterOne(c, cw, Fields(TransformerBlock(c, cw)))
<1> DEFINE T == Len(c.transformers)
           lists == [i \in DOMAIN c.transformers |-> TransformerRecord(c, c.transformers[i], cw)]
           flat == FlattenSeq(lists)
           all == ThreeWinding \o flat
           rows == Fields(all)
<1>1. T \in Nat /\ DOMAIN c.transformers = 1..T
  BY CaseShape
<1>2. \A i \in 1..T : lists[i] = TransformerRecord(c, c.transformers[i], cw)
  BY <1>1
<1>3. lists = [i \in 1..T |-> lists[i]]
  BY <1>1
<1>. HIDE DEF lists
<1>4. \A i \in 1..T : /\ Len(lists[i]) = 4 /\ AreRecords(lists[i], unmarked)
                      /\ IsRecordOf(lists[i], c, c.transformers[i], cw)
  <2>. SUFFICES ASSUME NEW i \in 1..T
                PROVE  /\ Len(lists[i]) = 4 /\ AreRecords(lists[i], unmarked)
                       /\ IsRecordOf(lists[i], c, c.transformers[i], cw)
    OBVIOUS
  <2>1. unmarked => ~c.transformers[i].zero
    BY <1>1 DEF ZeroFree
  <2>2. lists[i] = TransformerRecord(c, c.transformers[i], cw)
    BY <1>2
  <2>. QED  BY <2>1, <2>2, TransformerRecordIs
<1>5. AreSeqs(lists, T)
  BY <1>1, <1>3, <1>4 DEF AreSeqs, AreRecords
<1>. HIDE DEF T
<1>6. PICK off : Blocks(flat, lists, off, T)
  BY <1>5, FlattenBlocks
<1>. HIDE DEF flat
<1>7. \A k \in 1..(T + 1) : off[k] = 4 * (k - 1)
  <2>1. OfFours(lists, T)
    BY <1>1, <1>4 DEF OfFours
  <2>. QED  BY <1>6, <2>1, FoursInOrder
<1>8. IsSeq(flat) /\ Len(flat) = 4 * T
  <2>1. T + 1 \in 1..(T + 1) /\ (T + 1) - 1 = T
    BY <1>1
  <2>2. IsSeq(flat) /\ Len(flat) = off[T + 1]
    BY <1>6 DEF Blocks
  <2>. QED  BY <1>7, <2>1, <2>2
<1>9. \A k \in 1..T : \A j \in 1..4 : flat[4 * (k - 1) + j] = lists[k][j]
  <2>. SUFFICES ASSUME NEW k \in 1..T, NEW j \in 1..4 PROVE flat[4 * (k - 1) + j] = lists[k][j]
    OBVIOUS
  <2>1. k \in 1..(T + 1) /\ Len(lists[k]) = 4
    BY <1>1, <1>4
  <2>2. off[k] = 4 * (k - 1)
    BY <1>7, <2>1
  <2>3. flat[off[k] + j] = lists[k][j]
    BY <1>6, <2>1 DEF Blocks
  <2>. QED  BY <2>2, <2>3
<1>10. AreRecords(flat, unmarked)
  <2>1. ASSUME NEW p \in 1..Len(flat) PROVE flat[p].what = "record" /\ (unmarked => ~flat[p].zero)
    <3>1. PICK k \in 1..T : \E j \in 1..Len(lists[k]) : p = off[k] + j
      BY <1>6 DEF Blocks
    <3>2. PICK j \in 1..Len(lists[k]) : p = off[k] + j
      BY <3>1
    <3>3. flat[p] = lists[k][j]
      BY <1>6, <3>2 DEF Blocks
    <3>4. AreRecords(lists[k], unmarked)
      BY <1>4
    <3>. QED  BY <3>3, <3>4 DEF AreRecords
  <2>. QED  BY <1>8, <2>1 DEF AreRecords
<1> DEFINE five == <<<<1, 2, 3, 1>>, <<40, 100>>, <<1000, 0, 0, 5>>, <<1000, 0>>, <<1000, 0>>>>
<1>11. five = [i \in 1..5 |-> five[i]] /\ five[1] = <<1, 2, 3, 1>>
  <2>1. five \in Seq(Seq(Int)) /\ Len(five) = 5
    OBVIOUS
  <2>. HIDE DEF five
  <2>2. five \in [1..5 -> Seq(Int)]
    BY <2>1, SequencesAreLists
  <2>3. five[1] = <<1, 2, 3, 1>>
    BY DEF five
  <2>. QED  BY <2>2, <2>3
<1>12. ThreeWinding = Records(five)
  BY DEF ThreeWinding
<1>. HIDE DEF five
<1>13. /\ IsSeq(ThreeWinding) /\ Len(ThreeWinding) = 5 /\ ThreeWinding[1] = Rec(<<1, 2, 3, 1>>)
       /\ AreRecords(ThreeWinding, unmarked)
  <2>1. 5 \in Nat /\ 1 \in 1..5
    OBVIOUS
  <2>2. /\ IsSeq(Records(five)) /\ Len(Records(five)) = 5 /\ \A i \in 1..5 : Records(five)[i] = Rec(five[i])
    BY <1>11, <2>1, RecordsAre
  <2>3. AreRecords(Records(five), unmarked)
    BY <1>11, <2>1, RecordsAreRecords
  <2>. QED  BY <1>11, <1>12, <2>1, <2>2, <2>3
<1>14. AreRecords(all, unmarked)
  BY <1>10, <1>13, RecordsTogether
<1>15. /\ IsSeq(all) /\ Len(all) = 5 + 4 * T /\ (\A i \in 1..5 : all[i] = ThreeWinding[i])
       /\ (\A i \in 1..(4 * T) : all[5 + i] = flat[i])
  <2>1. IsSeq(ThreeWinding) /\ IsSeq(flat) /\ Len(ThreeWinding) = 5 /\ Len(flat) = 4 * T
    BY <1>8, <1>13
  <2>. HIDE DEF all, rows
  <2>2. ASSUME NEW s, IsSeq(s), Len(s) = 5
        PROVE  /\ IsSeq(s \o flat) /\ Len(s \o flat) = 5 + 4 * T
               /\ \A i \in 1..5 : (s \o flat)[i] = s[i]
               /\ \A i \in 1..(4 * T) : (s \o flat)[5 + i] = flat[i]
    <3>1. /\ IsSeq(s \o flat) /\ Len(s \o flat) = Len(s) + Len(flat)
          /\ \A i \in 1..Len(s) : (s \o flat)[i] = s[i]
          /\ \A i \in 1..Len(flat) : (s \o flat)[Len(s) + i] = flat[i]
      <4>1. IsSeq(s) /\ IsSeq(flat)
        BY <2>1, <2>2
      <4>2. IsSeq(s \o flat)
        BY <4>1, EndToEnd
      <4>3. Len(s \o flat) = Len(s) + Len(flat)
        BY <4>1, EndToEnd
      <4>4. \A i \in 1..Len(s) : (s \o flat)[i] = s[i]
        BY <4>1, EndToEnd
      <4>5. \A i \in 1..Len(flat) : (s \o flat)[Len(s) + i] = flat[i]
        BY <4>1, EndToEnd
      <4>. QED BY <4>2, <4>3, <4>4, <4>5
    <3>. QED  BY <2>1, <2>2, <3>1
  <2>3. all = ThreeWinding \o flat
    BY DEF all
  <2>. QED  BY <2>1, <2>2, <2>3
<1>. HIDE DEF all
<1>16. rows = [i \in 1..(5 + 4 * T) |-> all[i].f] /\ DOMAIN rows = 1..(5 + 4 * T) /\ Len(rows) = 5 + 4 * T
  <2>1. rows = [i \in 1..(5 + 4 * T) |-> all[i].f]
    BY <1>15 DEF Fields
  <2>2. 5 + 4 * T \in Nat /\ rows = [i \in 1..(5 + 4 * T) |-> rows[i]]
    BY <1>1, <2>1
  <2>. HIDE DEF rows
  <2>. QED  BY <2>1, <2>2, Tabulated
<1>. HIDE DEF rows
<1>17. Field(rows[1], 3) # 0
  <2>1. rows[1] = <<1, 2, 3, 1>>
    <3>1. 1 \in 1..(5 + 4 * T) /\ 1 \in 1..5
      BY <1>1
    <3>. QED  BY <1>13, <1>15, <1>16, <3>1 DEF Rec
  <2>. QED  BY <2>1 DEF Field
<1>18. \A k \in 1..T : \A j \in 1..4 : rows[(2 + 4 * k) + (j - 1)] = lists[k][j].f
  <2>. SUFFICES ASSUME NEW k \in 1..T, NEW j \in 1..4 PROVE rows[(2 + 4 * k) + (j - 1)] = lists[k][j].f
    OBVIOUS
  <2> DEFINE i == 4 * (k - 1) + j
  <2>1. i \in 1..(4 * T) /\ (2 + 4 * k) + (j - 1) = 5 + i /\ 5 + i \in 1..(5 + 4 * T)
    BY <1>1
  <2>2. flat[i] = lists[k][j]
    BY <1>9
  <2>. HIDE DEF i
  <2>. QED  BY <1>15, <1>16, <2>1, <2>2
<1>19. ASSUME NEW k \in 1..T PROVE WrittenAt(c, cw, k, rows, 2 + 4 * k)
  <2> DEFINE j == 2 + 4 * k
  <2>1. j + 0 = j /\ 1 - 1 = 0 /\ 2 - 1 = 1 /\ 3 - 1 = 2 /\ 4 - 1 = 3
    BY <1>1
  <2>. HIDE DEF j
  <2>2. \A i \in 1..4 : rows[j + (i - 1)] = lists[k][i].f
    BY <1>18 DEF j
  <2>3. rows[j] = lists[k][1].f /\ rows[j + 1] = lists[k][2].f /\ rows[j + 2] = lists[k][3].f /\ rows[j + 3] = lists[k][4].f
    BY <2>1, <2>2
  <2>4. WrittenAt(c, cw, k, rows, j)
    BY <1>4, <2>3 DEF WrittenAt, IsRecordOf
  <2>. QED  BY <2>4 DEF j
<1>20. WrittenAfterOne(c, cw, rows)
  BY <1>16, <1>17, <1>19 DEF WrittenAfterOne, T
<1>21. all = TransformerBlock(c, cw)
  BY DEF TransformerBlock, TransformerRecords, all, flat, lists
<1>. QED  BY <1>14, <1>20, <1>21 DEF rows

LEMMA RawRead ==
    ASSUME NEW c, Accepted(c), WholeMegawatts(c), NEW cw \in 1..3, cw = 1 \/ TappedWhole(c), NEW named \in BOOLEAN,
           NEW file, NEW lines, lines = Content(file), ~(Len(lines) < 4), Field(lines[1].f, 2) = c.sbase,
           Section(lines, "bus") = BusFields(c), Section(lines, "load") = LoadFields(c),
           Section(lines, "branch") = LineFields(c, named),
           WrittenAfterOne(c, cw, Section(lines, "transformer"))
    PROVE  FromRaw(file) = Imported(Meaning(c))
<1> DEFINE ls == RawBranches(LineFields(c, named))
           ts == RawTransformers(Section(lines, "transformer"), ParsedBuses(c))
           loads == RawLoads(LoadFields(c))
<1>1. IsCase(c) /\ c.sbase \in Nat \ {0}
  BY CaseShape DEF Accepted
<1>2. RawBuses(BusFields(c)) = ParsedBuses(c)
  BY RawBusesRead
<1>3. \A b \in DOMAIN c.volts : LoadAt(loads, b) = Watts(c, b)
  BY RawLoadsRead
<1>4. /\ IsSeq(ls) /\ Len(ls) = Len(c.lines)
      /\ \A i \in 1..Len(c.lines) : ReadsAs(ls[i], c.lines[i], c.lines[i].z, FALSE)
  BY RawBranchesRead
<1>5. /\ IsSeq(ts) /\ Len(ts) = Len(c.transformers)
      /\ \A i \in 1..Len(c.transformers) : ReadsAs(ts[i], c.transformers[i], c.transformers[i].z, TRUE)
  BY RawTransformersRead
<1>. HIDE DEF ls, ts, loads
<1>6. WithLoads(ParsedBuses(c), loads) = CaseBuses(c)
  BY <1>1, <1>3, LoadedBuses
<1>7. CaseBranches(c, ls \o ts, FALSE)
  BY <1>1, <1>4, <1>5, BranchesInOrder
<1>8. Assemble(CaseBuses(c), ls \o ts, c.sbase, FALSE) = Imported(Meaning(c))
  BY <1>7, Assembled
<1>9. Or(Field(lines[1].f, 2), DefaultBase) = c.sbase
  BY <1>1 DEF Or
<1>10. FromRaw(file) =
         Assemble(WithLoads(ParsedBuses(c), loads), ls \o ts, Or(Field(lines[1].f, 2), DefaultBase), FALSE)
  BY <1>2 DEF FromRaw, ls, ts, loads
<1>. QED  BY <1>6, <1>8, <1>9, <1>10

-----------------------------------------------------------------------------

LEMMA MarkedIs ==
    ASSUME NEW lists, NEW n, AreSeqs(lists, n)
    PROVE  Marked(FlattenSeq(lists)) <=> \E k \in 1..n : \E j \in 1..Len(lists[k]) : lists[k][j].what = "begin"
<1>1. PICK off : Blocks(FlattenSeq(lists), lists, off, n)
  BY FlattenBlocks
<1> DEFINE flat == FlattenSeq(lists)
<1>. HIDE DEF flat
<1>2. Blocks(flat, lists, off, n)
  BY <1>1 DEF flat
<1>3. IsSeq(flat) /\ DOMAIN flat = 1..Len(flat)
  BY <1>2, SeqsAre DEF Blocks
<1>4. ASSUME NEW i \in DOMAIN flat, flat[i].what = "begin"
      PROVE  \E k \in 1..n : \E j \in 1..Len(lists[k]) : lists[k][j].what = "begin"
  <2>1. PICK k \in 1..n : \E j \in 1..Len(lists[k]) : i = off[k] + j
    BY <1>2, <1>3 DEF Blocks
  <2>2. PICK j \in 1..Len(lists[k]) : i = off[k] + j
    BY <2>1
  <2>3. flat[i] = lists[k][j]
    BY <1>2, <2>2 DEF Blocks
  <2>. QED  BY <1>4, <2>3
<1>5. ASSUME NEW k \in 1..n, NEW j \in 1..Len(lists[k]), lists[k][j].what = "begin"
      PROVE  \E i \in DOMAIN flat : flat[i].what = "begin"
  <2>1. flat[off[k] + j] = lists[k][j]
    BY <1>2 DEF Blocks
  <2>2. off[k] + j \in 1..Len(flat)
    <3>1. n \in Nat
      BY DEF AreSeqs
    <3>2. k \in 1..n /\ n + 1 \in 1..(n + 1) /\ k + 1 \in 1..(n + 1) /\ k + 1 <= n + 1
      BY <3>1
    <3>3. \A l \in 1..n : \A m \in 1..(n + 1) : l <= m => off[l] <= off[m]
      BY <1>2, BlocksRise
    <3>4. off[k + 1] <= off[n + 1] /\ off[k] \in Nat /\ off[k + 1] = off[k] + Len(lists[k])
      <4>1. off[k] \in Nat /\ off[k + 1] \in Nat /\ off[k + 1] = off[k] + Len(lists[k])
        BY <1>2 DEF Blocks
      <4>2. CASE k = n
        BY <4>1, <4>2
      <4>3. CASE k # n
        <5>1. k + 1 \in 1..n
          BY <3>1, <4>3
        <5>. QED  BY <3>2, <3>3, <4>1, <5>1
      <4>. QED  BY <4>2, <4>3
    <3>5. Len(flat) = off[n + 1] /\ Len(flat) \in Nat
      BY <1>2 DEF Blocks, IsSeq
    <3>6. Len(lists[k]) \in Nat
      BY SeqsAre DEF AreSeqs
    <3>. QED  BY <3>4, <3>5, <3>6
  <2>. QED  BY <1>3, <1>5, <2>1, <2>2
<1>. QED  BY <1>4, <1>5 DEF Marked, flat

\* A file in blocks that begins with the header and goes on.
LEMMA HeaderIs ==
    ASSUME NEW lists, NEW n, AreSeqs(lists, n), n >= 3, Len(lists[1]) = 3, NEW K \in 2..(n - 1), Len(lists[K]) = 1
    PROVE  ~(Len(FlattenSeq(lists)) < 4) /\ FlattenSeq(lists)[1] = lists[1][1]
<1>0. n \in Nat
  BY DEF AreSeqs
<1>1. PICK off : Blocks(FlattenSeq(lists), lists, off, n)
  BY FlattenBlocks
<1> DEFINE flat == FlattenSeq(lists)
<1>. HIDE DEF flat
<1>2. Blocks(flat, lists, off, n)
  BY <1>1 DEF flat
<1>3. \A l \in 1..n : \A m \in 1..(n + 1) : l <= m => off[l] <= off[m]
  BY <1>2, BlocksRise
<1>4. /\ off[1] = 0 /\ off[2] \in Nat /\ off[2] = off[1] + Len(lists[1]) /\ Len(flat) = off[n + 1]
      /\ off[K] \in Nat /\ off[K + 1] \in Nat /\ off[K + 1] = off[K] + Len(lists[K])
  <2>1. 1 \in 1..n /\ 1 + 1 = 2 /\ K \in 1..n
    BY <1>0
  <2>2. \A k \in 1..n : off[k] \in Nat /\ off[k + 1] \in Nat /\ off[k + 1] = off[k] + Len(lists[k])
    BY <1>2 DEF Blocks
  <2>3. off[1] = 0 /\ Len(flat) = off[n + 1]
    BY <1>2 DEF Blocks
  <2>4. off[1 + 1] \in Nat /\ off[1 + 1] = off[1] + Len(lists[1])
    BY <2>1, <2>2
  <2>. QED  BY <2>1, <2>2, <2>3, <2>4
<1>5. off[2] <= off[K] /\ off[K + 1] <= off[n + 1]
  <2>1. 2 \in 1..n /\ K \in 1..(n + 1) /\ K + 1 \in 1..n /\ n + 1 \in 1..(n + 1) /\ 2 <= K /\ K + 1 <= n + 1
    BY <1>0
  <2>. QED  BY <1>3, <2>1
<1>6. off[n + 1] \in Nat
  BY <1>2 DEF Blocks, IsSeq
<1>7. ~(Len(flat) < 4)
  BY <1>4, <1>5, <1>6
<1>8. flat[1] = lists[1][1]
  <2>1. 1 \in 1..n /\ 1 \in 1..Len(lists[1]) /\ 0 + 1 = 1
    BY <1>0
  <2>2. flat[off[1] + 1] = lists[1][1]
    BY <1>2, <2>1 DEF Blocks
  <2>. QED  BY <1>4, <2>1, <2>2
<1>. QED  BY <1>7, <1>8 DEF flat

\* The section a label names.
LEMMA CanonIs ==
    /\ Canon({"load"}) = "load" /\ Canon({"bus"}) = "bus" /\ Canon({"branch"}) = "branch"
    /\ Canon({"transformer"}) = "transformer" /\ Canon({"non", "transformer", "branch"}) = "branch"
    /\ Canon({"fixed", "shunt"}) = "none" /\ Canon({"area"}) = "none" /\ Canon({"system", "wide"}) = "none"
    /\ Canon({}) = "none"
<1> DEFINE names == <<"substation", "transformer", "branch", "load", "bus">>
<1>1. /\ DOMAIN names = {1, 2, 3, 4, 5} /\ names[1] = "substation" /\ names[2] = "transformer" /\ names[3] = "branch"
      /\ names[4] = "load" /\ names[5] = "bus"
  <2>1. DOMAIN names = 1..5 /\ 1..5 = {1, 2, 3, 4, 5}
    OBVIOUS
  <2>. QED  BY <2>1
<1>. HIDE DEF names
<1>2. ASSUME NEW words, NEW i \in DOMAIN names, {j \in DOMAIN names : names[j] \in words} = {i}
      PROVE  FirstNamed(names, words) = names[i]
  <2>1. {i} \in SUBSET Int /\ i \in {i} /\ \A y \in {i} : i <= y
    BY <1>1
  <2>2. Min({i}) = i
    BY <2>1, LeastIs
  <2>. QED  BY <1>2, <2>2 DEF FirstNamed
<1>3. ASSUME NEW words, {j \in DOMAIN names : names[j] \in words} = {} PROVE FirstNamed(names, words) = "none"
  BY <1>3 DEF FirstNamed
<1>4. \A words : Canon(words) = IF "substation" \notin words /\ {"non", "transformer"} \subseteq words
                                THEN "branch" ELSE FirstNamed(names, words)
  BY DEF Canon, names
<1>5. Canon({"load"}) = "load"
  <2>1. {j \in DOMAIN names : names[j] \in {"load"}} = {4}
    BY <1>1
  <2>. QED  BY <1>1, <1>2, <1>4, <2>1
<1>6. Canon({"bus"}) = "bus"
  <2>1. {j \in DOMAIN names : names[j] \in {"bus"}} = {5}
    BY <1>1
  <2>. QED  BY <1>1, <1>2, <1>4, <2>1
<1>7. Canon({"branch"}) = "branch"
  <2>1. {j \in DOMAIN names : names[j] \in {"branch"}} = {3}
    BY <1>1
  <2>. QED  BY <1>1, <1>2, <1>4, <2>1
<1>8. Canon({"transformer"}) = "transformer"
  <2>1. {j \in DOMAIN names : names[j] \in {"transformer"}} = {2}
    BY <1>1
  <2>. QED  BY <1>1, <1>2, <1>4, <2>1
<1>9. Canon({"non", "transformer", "branch"}) = "branch"
  BY <1>4
<1>10. Canon({"fixed", "shunt"}) = "none"
  <2>1. {j \in DOMAIN names : names[j] \in {"fixed", "shunt"}} = {}
    BY <1>1
  <2>. QED  BY <1>3, <1>4, <2>1
<1>11. Canon({"area"}) = "none"
  <2>1. {j \in DOMAIN names : names[j] \in {"area"}} = {}
    BY <1>1
  <2>. QED  BY <1>3, <1>4, <2>1
<1>12. Canon({"system", "wide"}) = "none"
  <2>1. {j \in DOMAIN names : names[j] \in {"system", "wide"}} = {}
    BY <1>1
  <2>. QED  BY <1>3, <1>4, <2>1
<1>13. Canon({}) = "none"
  <2>1. {j \in DOMAIN names : names[j] \in {}} = {}
    OBVIOUS
  <2>. QED  BY <1>3, <1>4, <2>1
<1>. QED  BY <1>5, <1>6, <1>7, <1>8, <1>9, <1>10, <1>11, <1>12, <1>13

\* A line that turns to a section.
IsTurn(s, marked, name) ==
    IsSeq(s) /\ Len(s) = 1 /\ Turns(s[1], marked) /\ SectionAfter(s[1], marked) = name

LEMMA RecordsDoNotTurn ==
    ASSUME NEW s, NEW marked \in BOOLEAN, AreRecords(s, ~marked)
    PROVE  \A j \in 1..Len(s) : s[j].what = "record" /\ ~Turns(s[j], marked)
BY DEF AreRecords, Turns

LEMMA BareIs ==
    ASSUME NEW words
    PROVE  IsTurn(Bare(words), FALSE, Canon(words)) /\ Bare(words)[1].what = "bare"
<1> DEFINE line == [what |-> "bare", words |-> words, zero |-> TRUE, f |-> <<0>>]
<1>1. line.what = "bare" /\ line.words = words /\ line.zero = TRUE
  OBVIOUS
<1>2. Bare(words) = <<line>>
  BY DEF Bare
<1>. HIDE DEF line
<1>3. IsSeq(Bare(words)) /\ Len(Bare(words)) = 1 /\ Bare(words)[1] = line
  BY <1>2, OneLine
<1>. QED  BY <1>1, <1>3 DEF IsTurn, Turns, SectionAfter

LEMMA HeadingIs ==
    ASSUME NEW c, NEW unmarked
    PROVE  AreRecords(Heading(c), unmarked) /\ Len(Heading(c)) = 3 /\ Heading(c)[1].f = <<0, c.sbase>>
<1> DEFINE x == Rec(<<0, c.sbase>>)
           y == Rec(<<Text>>)
<1>1. x.what = "record" /\ ~x.zero /\ x.f = <<0, c.sbase>> /\ y.what = "record" /\ ~y.zero
  BY DEF Rec
<1>2. Heading(c) = <<x, y, y>>
  BY DEF Heading
<1>. HIDE DEF x, y
<1>3. Heading(c) \in Seq({x, y}) /\ Len(Heading(c)) = 3 /\ Heading(c)[1] = x
  BY <1>2
<1>4. Heading(c) \in [1..3 -> {x, y}]
  BY <1>3, SequencesAreLists
<1>5. IsSeq(Heading(c))
  BY <1>3, <1>4 DEF IsSeq
<1>6. \A j \in 1..3 : Heading(c)[j] = x \/ Heading(c)[j] = y
  BY <1>4
<1>. QED  BY <1>1, <1>3, <1>5, <1>6 DEF AreRecords

\* The sections of a case that are read.
LEMMA CaseRecordsAre ==
    ASSUME NEW c, IsCase(c), NEW named, NEW unmarked
    PROVE  /\ AreRecords(BusRecords(c), unmarked) /\ Fields(BusRecords(c)) = BusFields(c)
           /\ AreRecords(LoadRecords(c), unmarked) /\ Fields(LoadRecords(c)) = LoadFields(c)
           /\ AreRecords(BranchRecords(c, named), unmarked) /\ Fields(BranchRecords(c, named)) = LineFields(c, named)
<1>1. /\ DOMAIN c.volts = 1..Len(c.volts) /\ Len(c.volts) \in Nat
      /\ DOMAIN c.loads = 1..Len(c.loads) /\ Len(c.loads) \in Nat
      /\ DOMAIN c.lines = 1..Len(c.lines) /\ Len(c.lines) \in Nat
  BY CaseShape
<1>2. AreRecords(BusRecords(c), unmarked) /\ Fields(BusRecords(c)) = BusFields(c)
  <2>1. BusFields(c) = [b \in 1..Len(c.volts) |-> BusFields(c)[b]]
    BY <1>1 DEF BusFields
  <2>2. BusRecords(c) = Records(BusFields(c))
    BY DEF BusRecords, BusFields
  <2>. QED  BY <1>1, <2>1, <2>2, RecordsAre, RecordsAreRecords
<1>3. AreRecords(LoadRecords(c), unmarked) /\ Fields(LoadRecords(c)) = LoadFields(c)
  <2>1. LoadFields(c) = [k \in 1..Len(c.loads) |-> LoadFields(c)[k]]
    BY <1>1 DEF LoadFields
  <2>2. LoadRecords(c) = Records(LoadFields(c))
    BY DEF LoadRecords, LoadFields
  <2>. QED  BY <1>1, <2>1, <2>2, RecordsAre, RecordsAreRecords
<1>4. AreRecords(BranchRecords(c, named), unmarked) /\ Fields(BranchRecords(c, named)) = LineFields(c, named)
  <2>1. LineFields(c, named) = [i \in 1..Len(c.lines) |-> LineFields(c, named)[i]]
    BY <1>1 DEF LineFields
  <2>2. BranchRecords(c, named) = Records(LineFields(c, named))
    BY DEF BranchRecords, LineFields
  <2>. QED  BY <1>1, <2>1, <2>2, RecordsAre, RecordsAreRecords
<1>. QED  BY <1>2, <1>3, <1>4

LEMMA OneRecord ==
    ASSUME NEW f, NEW unmarked
    PROVE  AreRecords(Records(<<f>>), unmarked)
<1>1. 1 \in Nat /\ <<f>> = [i \in 1..1 |-> <<f>>[i]]
  BY OneLine DEF IsSeq
<1>. QED  BY <1>1, RecordsAreRecords

\* Blocks of records, with lines that turn to a section between them.
Turning(lists, n, turning, marked, to) ==
    /\ n \in Nat /\ n >= 3 /\ lists = [k \in 1..n |-> lists[k]] /\ turning \in SUBSET (2..n) /\ Len(lists[1]) = 3
    /\ \A k \in turning : IsTurn(lists[k], marked, to[k])
    /\ \A k \in (1..n) \ turning : AreRecords(lists[k], ~marked)

\* Block K is the section called name.
Turned(n, turning, marked, to, K, name) ==
    /\ K \in (2..n) \ turning /\ (K = n \/ K + 1 \in turning) /\ name # "none"
    /\ IF K = 2 THEN ~marked /\ name = "bus"
       ELSE K - 1 \in turning /\ to[K - 1] = name /\ (marked \/ name # "bus")
    /\ \A k \in turning : k # K - 1 => to[k] # name

LEMMA TurningBlocks ==
    ASSUME NEW lists, NEW n, NEW turning, NEW marked \in BOOLEAN, NEW to, Turning(lists, n, turning, marked, to)
    PROVE  AreSeqs(lists, n) /\ InBlocks(lists, n, turning, marked)
<1>1. /\ n \in Nat /\ n >= 3 /\ lists = [k \in 1..n |-> lists[k]] /\ turning \in SUBSET (2..n) /\ Len(lists[1]) = 3
      /\ \A k \in turning : IsTurn(lists[k], marked, to[k])
      /\ \A k \in (1..n) \ turning : AreRecords(lists[k], ~marked)
  BY DEF Turning
<1>2. \A k \in 1..n : IsSeq(lists[k])
  <2>. SUFFICES ASSUME NEW k \in 1..n PROVE IsSeq(lists[k])
    OBVIOUS
  <2>1. CASE k \in turning
    BY <1>1, <2>1 DEF IsTurn
  <2>2. CASE k \notin turning
    <3>1. AreRecords(lists[k], ~marked)
      BY <1>1, <2>2
    <3>. QED  BY <3>1 DEF AreRecords
  <2>. QED  BY <2>1, <2>2
<1>3. AreSeqs(lists, n)
  BY <1>1, <1>2 DEF AreSeqs
<1>4. \A k \in turning : Len(lists[k]) = 1 /\ Turns(lists[k][1], marked)
  BY <1>1 DEF IsTurn
<1>5. \A k \in (1..n) \ turning : \A j \in 1..Len(lists[k]) : lists[k][j].what = "record" /\ ~Turns(lists[k][j], marked)
  <2>. SUFFICES ASSUME NEW k \in (1..n) \ turning
                PROVE  \A j \in 1..Len(lists[k]) : lists[k][j].what = "record" /\ ~Turns(lists[k][j], marked)
    OBVIOUS
  <2>1. AreRecords(lists[k], ~marked)
    BY <1>1
  <2>. QED  BY <2>1, RecordsDoNotTurn
<1>6. n >= 1
  BY <1>1
<1>. QED  BY <1>1, <1>3, <1>4, <1>5, <1>6 DEF InBlocks

LEMMA TurnedSection ==
    ASSUME NEW lists, NEW n, NEW turning, NEW marked \in BOOLEAN, NEW to, Turning(lists, n, turning, marked, to),
           NEW lines, lines = FlattenSeq(lists), marked = Marked(lines),
           NEW K, NEW name, Turned(n, turning, marked, to, K, name)
    PROVE  Section(lines, name) = Fields(lists[K])
<1>1. \A k \in turning : SectionAfter(lists[k][1], marked) = to[k]
  BY DEF Turning, IsTurn
<1>2. InBlocks(lists, n, turning, marked)
  BY TurningBlocks
<1>3. IsSection(lists, n, turning, marked, K, name)
  <2>1. /\ K \in (2..n) \ turning /\ (K = n \/ K + 1 \in turning) /\ name # "none"
        /\ IF K = 2 THEN ~marked /\ name = "bus"
           ELSE K - 1 \in turning /\ to[K - 1] = name /\ (marked \/ name # "bus")
        /\ \A k \in turning : k # K - 1 => to[k] # name
    BY DEF Turned
  <2>2. IF K = 2 THEN ~marked /\ name = "bus"
        ELSE K - 1 \in turning /\ SectionAfter(lists[K - 1][1], marked) = name /\ (marked \/ name # "bus")
    BY <1>1, <2>1
  <2>3. \A k \in turning : k # K - 1 => SectionAfter(lists[k][1], marked) # name
    BY <1>1, <2>1
  <2>. QED  BY <2>1, <2>2, <2>3 DEF IsSection
<1>4. Section(lines, name) = [j \in 1..Len(lists[K]) |-> lists[K][j].f]
  BY <1>2, <1>3, SectionOfBlock
<1>. QED  BY <1>4 DEF Fields

(* A network written as a RAW file of version 33, whose sections only the  *)
(* comments behind their closing 0 name, is read back as it was, in each   *)
(* unit of its windings (importers.py _raw_sections, from_raw). A zero     *)
(* impedance is left aside: its record starts with 0, as the end of a      *)
(* section does.                                                           *)
THEOREM Raw33AsWritten ==
    ASSUME NEW c, Accepted(c), WholeMegawatts(c), NEW cw \in 1..3, cw = 1 \/ TappedWhole(c), ZeroFree(c)
    PROVE  FromRaw(Raw33(c, cw)) = Imported(Meaning(c))
<1> DEFINE lists ==
             <<Heading(c), BusRecords(c), Bare({"load"}), LoadRecords(c),
               Bare({"fixed", "shunt"}), Records(<<<<2, 1, 7>>>>),
               Bare({"branch"}), BranchRecords(c, FALSE),
               Bare({"transformer"}), TransformerBlock(c, cw),
               Bare({"area"}), Records(<<<<1, 2, 3>>>>), Bare({})>>
           turning == {3, 5, 7, 9, 11, 13}
           to == [k \in turning |-> IF k = 3 THEN "load" ELSE IF k = 7 THEN "branch"
                                    ELSE IF k = 9 THEN "transformer" ELSE "none"]
           lines == FlattenSeq(lists)
<1>1. /\ lists = [k \in 1..13 |-> lists[k]]
      /\ lists[1] = Heading(c) /\ lists[2] = BusRecords(c) /\ lists[3] = Bare({"load"}) /\ lists[4] = LoadRecords(c)
      /\ lists[5] = Bare({"fixed", "shunt"}) /\ lists[6] = Records(<<<<2, 1, 7>>>>) /\ lists[7] = Bare({"branch"})
      /\ lists[8] = BranchRecords(c, FALSE) /\ lists[9] = Bare({"transformer"})
      /\ lists[10] = TransformerBlock(c, cw) /\ lists[11] = Bare({"area"})
      /\ lists[12] = Records(<<<<1, 2, 3>>>>) /\ lists[13] = Bare({})
  OBVIOUS
<1>2. Raw33(c, cw) = lines
  BY DEF Raw33, TransformerBlock
<1>3. IsCase(c)
  BY DEF Accepted
<1>. HIDE DEF lists
<1>4. /\ IsTurn(lists[3], FALSE, "load") /\ IsTurn(lists[5], FALSE, "none") /\ IsTurn(lists[7], FALSE, "branch")
      /\ IsTurn(lists[9], FALSE, "transformer") /\ IsTurn(lists[11], FALSE, "none") /\ IsTurn(lists[13], FALSE, "none")
      /\ lists[3][1].what = "bare" /\ lists[5][1].what = "bare" /\ lists[7][1].what = "bare"
      /\ lists[9][1].what = "bare" /\ lists[11][1].what = "bare" /\ lists[13][1].what = "bare"
  <2>1. /\ Canon({"load"}) = "load" /\ Canon({"branch"}) = "branch" /\ Canon({"transformer"}) = "transformer"
        /\ Canon({"fixed", "shunt"}) = "none" /\ Canon({"area"}) = "none" /\ Canon({}) = "none"
    BY CanonIs
  <2>2. IsTurn(lists[3], FALSE, "load") /\ lists[3][1].what = "bare"
    BY <1>1, <2>1, BareIs, ZenonT(30)
  <2>3. IsTurn(lists[5], FALSE, "none") /\ lists[5][1].what = "bare"
    BY <1>1, <2>1, BareIs, ZenonT(30)
  <2>4. IsTurn(lists[7], FALSE, "branch") /\ lists[7][1].what = "bare"
    BY <1>1, <2>1, BareIs, ZenonT(30)
  <2>5. IsTurn(lists[9], FALSE, "transformer") /\ lists[9][1].what = "bare"
    BY <1>1, <2>1, BareIs, ZenonT(30)
  <2>6. IsTurn(lists[11], FALSE, "none") /\ lists[11][1].what = "bare"
    BY <1>1, <2>1, BareIs, ZenonT(30)
  <2>7. IsTurn(lists[13], FALSE, "none") /\ lists[13][1].what = "bare"
    BY <1>1, <2>1, BareIs, ZenonT(30)
  <2>. QED  BY <2>2, <2>3, <2>4, <2>5, <2>6, <2>7
<1>5. /\ AreRecords(lists[1], TRUE) /\ Len(lists[1]) = 3 /\ lists[1][1].f = <<0, c.sbase>>
      /\ AreRecords(lists[2], TRUE) /\ AreRecords(lists[4], TRUE) /\ AreRecords(lists[6], TRUE)
      /\ AreRecords(lists[8], TRUE) /\ AreRecords(lists[10], TRUE) /\ AreRecords(lists[12], TRUE)
      /\ Fields(lists[2]) = BusFields(c) /\ Fields(lists[4]) = LoadFields(c)
      /\ Fields(lists[8]) = LineFields(c, FALSE)
  <2>1. AreRecords(lists[1], TRUE) /\ Len(lists[1]) = 3 /\ lists[1][1].f = <<0, c.sbase>>
    BY <1>1, HeadingIs
  <2>2. /\ AreRecords(lists[2], TRUE) /\ AreRecords(lists[4], TRUE) /\ AreRecords(lists[8], TRUE)
        /\ Fields(lists[2]) = BusFields(c) /\ Fields(lists[4]) = LoadFields(c)
        /\ Fields(lists[8]) = LineFields(c, FALSE)
    <3> DEFINE yes == TRUE
               no == FALSE
    <3>. HIDE DEF yes, no
    <3>1. AreRecords(BusRecords(c), yes) /\ AreRecords(LoadRecords(c), yes) /\ AreRecords(BranchRecords(c, no), yes)
      BY <1>3, CaseRecordsAre
    <3>2. /\ Fields(BusRecords(c)) = BusFields(c) /\ Fields(LoadRecords(c)) = LoadFields(c)
          /\ Fields(BranchRecords(c, no)) = LineFields(c, no)
      BY <1>3, CaseRecordsAre
    <3>. QED  BY <1>1, <3>1, <3>2 DEF yes, no
  <2>3. AreRecords(lists[6], TRUE) /\ AreRecords(lists[12], TRUE)
    BY <1>1, OneRecord
  <2>4. AreRecords(lists[10], TRUE)
    <3> DEFINE yes == TRUE
    <3>. HIDE DEF yes
    <3>1. AreRecords(TransformerBlock(c, cw), yes)
      BY <1>3, TransformerBlockIs
    <3>. QED  BY <1>1, <3>1 DEF yes
  <2>. QED  BY <2>1, <2>2, <2>3, <2>4
<1>6. WrittenAfterOne(c, cw, Fields(lists[10]))
  BY <1>1, <1>3, TransformerBlockIs
<1>7. Turning(lists, 13, turning, FALSE, to)
  <2>1. /\ to[3] = "load" /\ to[5] = "none" /\ to[7] = "branch" /\ to[9] = "transformer" /\ to[11] = "none"
        /\ to[13] = "none" /\ ~FALSE = TRUE
    OBVIOUS
  <2>2. \A k \in turning : IsTurn(lists[k], FALSE, to[k])
    <3>. HIDE DEF to
    <3>. QED  BY <1>4, <2>1
  <2>3. \A k \in (1..13) \ turning : AreRecords(lists[k], TRUE)
    <3>1. \A k \in (1..13) \ turning : k \in {1, 2, 4, 6, 8, 10, 12}
      OBVIOUS
    <3>. QED  BY <1>5, <3>1
  <2>4. turning \in SUBSET (2..13) /\ 13 \in Nat /\ 13 >= 3
    OBVIOUS
  <2>. HIDE DEF turning, to
  <2>. QED  BY <1>1, <1>5, <2>1, <2>2, <2>3, <2>4 DEF Turning
<1>8. /\ Turned(13, turning, FALSE, to, 2, "bus") /\ Turned(13, turning, FALSE, to, 4, "load")
      /\ Turned(13, turning, FALSE, to, 8, "branch") /\ Turned(13, turning, FALSE, to, 10, "transformer")
  <2>1. Turned(13, turning, FALSE, to, 2, "bus")
    BY DEF Turned
  <2>2. Turned(13, turning, FALSE, to, 4, "load")
    BY DEF Turned
  <2>3. Turned(13, turning, FALSE, to, 8, "branch")
    BY DEF Turned
  <2>4. Turned(13, turning, FALSE, to, 10, "transformer")
    BY DEF Turned
  <2>. QED  BY <2>1, <2>2, <2>3, <2>4
<1>9. AreSeqs(lists, 13)
  BY <1>7, TurningBlocks
<1>10. ASSUME NEW k \in 1..13, NEW j \in 1..Len(lists[k])
       PROVE  lists[k][j].what # "begin" /\ lists[k][j].what # "label"
  <2>1. CASE k \in turning
    <3>1. Len(lists[k]) = 1 /\ lists[k][1].what = "bare"
      BY <1>4, <2>1 DEF IsTurn
    <3>2. j = 1
      BY <3>1
    <3>. QED  BY <3>1, <3>2
  <2>2. CASE k \notin turning
    <3>1. AreRecords(lists[k], TRUE)
      <4>1. k \in {1, 2, 4, 6, 8, 10, 12}
        BY <2>2
      <4>. QED  BY <1>5, <4>1
    <3>. QED  BY <3>1 DEF AreRecords
  <2>. QED  BY <2>1, <2>2
<1>. HIDE DEF turning, to, lines
<1>11. Content(lines) = lines
  <2> DEFINE new == Contents(lists, 13)
  <2>1. Content(lines) = FlattenSeq(new)
    BY <1>9, ContentOfBlocks DEF lines
  <2>2. \A k \in 1..13 : Content(lists[k]) = lists[k]
    <3>. SUFFICES ASSUME NEW k \in 1..13 PROVE Content(lists[k]) = lists[k]
      OBVIOUS
    <3>1. IsSeq(lists[k]) /\ \A j \in 1..Len(lists[k]) : lists[k][j].what # "label"
      BY <1>9, <1>10 DEF AreSeqs
    <3>. QED  BY <3>1, ContentOfLines
  <2>3. new = lists
    <3>1. new = [k \in 1..13 |-> Content(lists[k])]
      BY DEF Contents
    <3>. HIDE DEF new
    <3>. QED  BY <1>1, <2>2, <3>1
  <2>. QED  BY <2>1, <2>3 DEF lines
<1>12. Marked(lines) = FALSE
  <2>1. ~Marked(lines)
    BY <1>9, <1>10, MarkedIs DEF lines
  <2>2. Marked(lines) \in BOOLEAN
    BY DEF Marked
  <2>. QED  BY <2>1, <2>2
<1>13. ~(Len(lines) < 4) /\ lines[1] = lists[1][1]
  <2>1. 3 \in 2..(13 - 1) /\ Len(lists[3]) = 1 /\ 13 >= 3
    BY <1>4 DEF IsTurn
  <2>. QED  BY <1>5, <1>9, <2>1, HeaderIs DEF lines
<1>14. ASSUME NEW K, NEW name, Turned(13, turning, FALSE, to, K, name) PROVE Section(lines, name) = Fields(lists[K])
  <2> DEFINE marked == Marked(lines)
  <2>1. marked = FALSE /\ marked \in BOOLEAN
    BY <1>12
  <2>. HIDE DEF marked
  <2>2. Turning(lists, 13, turning, marked, to) /\ Turned(13, turning, marked, to, K, name)
    BY <1>7, <1>14, <2>1
  <2>3. marked = Marked(lines) /\ lines = FlattenSeq(lists)
    BY DEF lines, marked
  <2>. QED  BY <2>1, <2>2, <2>3, TurnedSection
<1>15. /\ Section(lines, "bus") = BusFields(c) /\ Section(lines, "load") = LoadFields(c)
       /\ Section(lines, "branch") = LineFields(c, FALSE)
  BY <1>5, <1>8, <1>14
<1>16. WrittenAfterOne(c, cw, Section(lines, "transformer"))
  BY <1>6, <1>8, <1>14
<1>17. Field(lines[1].f, 2) = c.sbase
  <2>1. lines[1].f = <<0, c.sbase>> /\ c.sbase \in Int
    BY <1>3, <1>5, <1>13, CaseShape
  <2>. QED  BY <2>1 DEF Field
<1>18. FromRaw(lines) = Imported(Meaning(c))
  <2>1. FALSE \in BOOLEAN
    OBVIOUS
  <2>2. lines = Content(lines)
    BY <1>11
  <2>. QED  BY <1>13, <1>15, <1>16, <1>17, <2>1, <2>2, RawRead
<1>. QED  BY <1>2, <1>18

\* A section marker of v34 without its label.
LEMMA MarkIs ==
    ASSUME NEW words, NEW what \in {"begin", "end"}, NEW s, s = <<Mark(what, words)>>
    PROVE  /\ IsTurn(s, TRUE, IF what = "begin" THEN Canon(words) ELSE "none")
           /\ s[1].what = what /\ Len(s) = 1
<1> DEFINE line == Mark(what, words)
<1>1. line.what = what /\ line.words = words
  BY DEF Mark
<1>. HIDE DEF line
<1>2. IsSeq(s) /\ Len(s) = 1 /\ s[1] = line
  BY OneLine DEF line
<1>3. Turns(line, TRUE)
  BY <1>1 DEF Turns
<1>4. SectionAfter(line, TRUE) = IF what = "begin" THEN Canon(words) ELSE "none"
  BY <1>1 DEF SectionAfter
<1>. QED  BY <1>1, <1>2, <1>3, <1>4 DEF IsTurn

LEMMA LabelIsNone ==
    IsSeq(<<Label>>) /\ Content(<<Label>>) = <<>>
<1>1. Label.what = "label"
  BY DEF Label, Mark
<1>2. IsSeq(<<Label>>) /\ Len(<<Label>>) = 1 /\ <<Label>>[1] = Label
  BY OneLine
<1> DEFINE s == <<Label>>
           g == [k \in 1..0 |-> 0]
<1>3. DOMAIN s = 1..1
  OBVIOUS
<1>. HIDE DEF s
<1>4. s[1] = Label
  BY <1>2 DEF s
<1>5. {i \in DOMAIN s : s[i].what # "label"} = {}
  BY <1>1, <1>3, <1>4
<1>6. Ascends(g, 0, {})
  <2>1. 1..0 = {} /\ 0 \in Nat
    OBVIOUS
  <2>2. g \in [1..0 -> Int] /\ {} = {g[k] : k \in 1..0} /\ DOMAIN g = {}
    BY <2>1
  <2>. HIDE DEF g
  <2>. QED  BY <2>1, <2>2 DEF Ascends, Increasing
<1>7. Picked(s, {}) = [k \in 1..0 |-> s[g[k]]]
  <2>. HIDE DEF g
  <2>. QED  BY <1>6, PickedIs
<1>8. [k \in 1..0 |-> s[g[k]]] = <<>>
  OBVIOUS
<1>. QED  BY <1>2, <1>5, <1>7, <1>8 DEF Content, s

LEMMA LabelsLeftOut ==
    /\ \A words : Content(Begin(words)) = <<Mark("begin", words)>> /\ IsSeq(Begin(words))
    /\ Content(End) = End /\ IsSeq(End)
    /\ \A s : AreRecords(s, FALSE) => Content(<<Label>> \o s) = s /\ IsSeq(<<Label>> \o s) /\ Content(s) = s
<1>1. ASSUME NEW what \in {"begin", "end"}, NEW words
      PROVE  IsSeq(<<Mark(what, words)>>) /\ Content(<<Mark(what, words)>>) = <<Mark(what, words)>>
  <2> DEFINE line == Mark(what, words)
             s == <<line>>
  <2>1. line.what # "label"
    BY DEF Mark
  <2>. HIDE DEF line
  <2>2. IsSeq(s) /\ Len(s) = 1 /\ s[1] = line
    BY OneLine
  <2>. HIDE DEF s
  <2>3. \A i \in 1..Len(s) : s[i].what # "label"
    BY <2>1, <2>2
  <2>4. Content(s) = s
    BY <2>2, <2>3, ContentOfLines
  <2>. QED  BY <2>2, <2>4 DEF s, line
<1>2. ASSUME NEW words PROVE Content(Begin(words)) = <<Mark("begin", words)>> /\ IsSeq(Begin(words))
  <2> DEFINE s == <<Mark("begin", words)>>
             t == <<Label>>
  <2>1. Begin(words) = s \o t
    BY DEF Begin
  <2>2. IsSeq(s) /\ Content(s) = s /\ IsSeq(t) /\ Content(t) = <<>>
    BY <1>1, LabelIsNone
  <2>3. s \o <<>> = s
    <3>1. s \in Seq({Mark("begin", words)})
      OBVIOUS
    <3>. HIDE DEF s
    <3>. QED  BY <3>1
  <2>. HIDE DEF s, t
  <2>4. Content(s \o t) = Content(s) \o Content(t)
    BY <2>2, ContentOfTwo
  <2>5. IsSeq(s \o t)
    BY <2>2, EndToEnd
  <2>6. Content(Begin(words)) = s /\ IsSeq(Begin(words))
    BY <2>1, <2>2, <2>3, <2>4, <2>5
  <2>. QED  BY <2>6 DEF s
<1>3. Content(End) = End /\ IsSeq(End)
  BY <1>1 DEF End
<1>4. ASSUME NEW s, AreRecords(s, FALSE)
      PROVE  Content(<<Label>> \o s) = s /\ IsSeq(<<Label>> \o s) /\ Content(s) = s
  <2> DEFINE t == <<Label>>
  <2>1. IsSeq(s) /\ \A j \in 1..Len(s) : s[j].what = "record"
    BY <1>4 DEF AreRecords
  <2>2. Content(s) = s
    BY <2>1, ContentOfLines
  <2>3. IsSeq(t) /\ Content(t) = <<>>
    BY LabelIsNone
  <2>. HIDE DEF t
  <2>4. Content(t \o s) = Content(t) \o Content(s)
    BY <2>1, <2>3, ContentOfTwo
  <2>5. IsSeq(t \o s)
    BY <2>1, <2>3, EndToEnd
  <2>6. <<>> \o s = s
    <3>1. s \in Seq({s[i] : i \in 1..Len(s)})
      BY <2>1, SeqsAre
    <3>. QED  BY <3>1
  <2>7. Content(t \o s) = s
    BY <2>2, <2>3, <2>4, <2>6
  <2>. QED  BY <2>2, <2>5, <2>7 DEF t
<1>. QED  BY <1>2, <1>3, <1>4

(* A network written as a RAW file with section headers and named columns  *)
(* is read back as it was, in each unit of its windings, records that      *)
(* start with 0 included (importers.py _raw_sections, from_raw).           *)
THEOREM Raw34AsWritten ==
    ASSUME NEW c, Accepted(c), WholeMegawatts(c), NEW cw \in 1..3, cw = 1 \/ TappedWhole(c)
    PROVE  FromRaw(Raw34(c, cw)) = Imported(Meaning(c))
<1> DEFINE lists ==
             <<<<Label>> \o Heading(c),
               Begin({"system", "wide"}), Records(<<<<Text>>>>), End,
               Begin({"bus"}), BusRecords(c), End,
               Begin({"load"}), LoadRecords(c), End,
               Begin({"non", "transformer", "branch"}), BranchRecords(c, TRUE), End,
               Begin({"transformer"}), TransformerBlock(c, cw), End,
               Begin({"area"}), Records(<<<<1, 2, 3>>>>), End>>
           turning == {2, 4, 5, 7, 8, 10, 11, 13, 14, 16, 17, 19}
           others == {1, 3, 6, 9, 12, 15, 18}
           to == [k \in turning |-> IF k = 5 THEN "bus" ELSE IF k = 8 THEN "load" ELSE IF k = 11 THEN "branch"
                                    ELSE IF k = 14 THEN "transformer" ELSE "none"]
           new == Contents(lists, 19)
           lines == FlattenSeq(new)
           yes == TRUE
           no == FALSE
<1>1. /\ lists = [k \in 1..19 |-> lists[k]]
      /\ lists[1] = <<Label>> \o Heading(c) /\ lists[2] = Begin({"system", "wide"})
      /\ lists[3] = Records(<<<<Text>>>>) /\ lists[4] = End /\ lists[5] = Begin({"bus"})
      /\ lists[6] = BusRecords(c) /\ lists[7] = End /\ lists[8] = Begin({"load"})
      /\ lists[9] = LoadRecords(c) /\ lists[10] = End /\ lists[11] = Begin({"non", "transformer", "branch"})
      /\ lists[12] = BranchRecords(c, TRUE) /\ lists[13] = End /\ lists[14] = Begin({"transformer"})
      /\ lists[15] = TransformerBlock(c, cw) /\ lists[16] = End /\ lists[17] = Begin({"area"})
      /\ lists[18] = Records(<<<<1, 2, 3>>>>) /\ lists[19] = End
  OBVIOUS
<1>2. Raw34(c, cw) = FlattenSeq(lists)
  BY DEF Raw34, TransformerBlock
<1>3. IsCase(c)
  BY DEF Accepted
<1>4. \A k \in 1..19 : k \in turning \/ k \in others
  OBVIOUS
<1>5. turning \in SUBSET (2..19) /\ turning \intersect others = {}
  OBVIOUS
<1>. HIDE DEF lists, new, lines, yes, no
<1>6. /\ AreRecords(Heading(c), FALSE) /\ Len(Heading(c)) = 3 /\ Heading(c)[1].f = <<0, c.sbase>>
  <2>1. AreRecords(Heading(c), no) /\ Len(Heading(c)) = 3 /\ Heading(c)[1].f = <<0, c.sbase>>
    BY HeadingIs
  <2>. QED  BY <2>1 DEF no
<1>7. AreRecords(lists[3], FALSE) /\ AreRecords(lists[18], FALSE)
  <2>1. \A f : AreRecords(Records(<<f>>), no)
    BY OneRecord
  <2>. QED  BY <1>1, <2>1 DEF no
<1>8. /\ AreRecords(lists[6], FALSE) /\ AreRecords(lists[9], FALSE) /\ AreRecords(lists[12], FALSE)
      /\ Fields(lists[6]) = BusFields(c) /\ Fields(lists[9]) = LoadFields(c) /\ Fields(lists[12]) = LineFields(c, TRUE)
  <2>1. AreRecords(BusRecords(c), no) /\ AreRecords(LoadRecords(c), no) /\ AreRecords(BranchRecords(c, yes), no)
    BY <1>3, CaseRecordsAre
  <2>2. /\ Fields(BusRecords(c)) = BusFields(c) /\ Fields(LoadRecords(c)) = LoadFields(c)
        /\ Fields(BranchRecords(c, yes)) = LineFields(c, yes)
    BY <1>3, CaseRecordsAre
  <2>. QED  BY <1>1, <2>1, <2>2 DEF yes, no
<1>9. AreRecords(lists[15], FALSE) /\ WrittenAfterOne(c, cw, Fields(lists[15]))
  <2>1. no => ZeroFree(c)
    BY DEF no
  <2>2. AreRecords(TransformerBlock(c, cw), no) /\ WrittenAfterOne(c, cw, Fields(TransformerBlock(c, cw)))
    BY <1>3, <2>1, TransformerBlockIs
  <2>. QED  BY <1>1, <2>2 DEF no
<1>10. /\ new = [k \in 1..19 |-> new[k]] /\ new = [k \in 1..19 |-> Content(lists[k])]
       /\ \A k \in 1..19 : new[k] = Content(lists[k])
  <2>1. new = [k \in 1..19 |-> Content(lists[k])]
    BY DEF new, Contents
  <2>. QED  BY <2>1
<1>11. /\ new[1] = Heading(c) /\ new[3] = lists[3] /\ new[6] = lists[6] /\ new[9] = lists[9] /\ new[12] = lists[12]
       /\ new[15] = lists[15] /\ new[18] = lists[18]
  <2>1. 1 \in 1..19 /\ 3 \in 1..19 /\ 6 \in 1..19 /\ 9 \in 1..19 /\ 12 \in 1..19 /\ 15 \in 1..19 /\ 18 \in 1..19
    OBVIOUS
  <2>2. \A s : AreRecords(s, FALSE) => Content(<<Label>> \o s) = s /\ Content(s) = s
    BY LabelsLeftOut
  <2>3. new[1] = Content(<<Label>> \o Heading(c))
    BY <1>1, <1>10, <2>1
  <2>4. new[1] = Heading(c)
    BY <1>6, <2>2, <2>3
  <2>5. new[3] = lists[3] /\ new[18] = lists[18]
    BY <1>7, <1>10, <2>1, <2>2
  <2>6. new[6] = lists[6] /\ new[9] = lists[9] /\ new[12] = lists[12]
    BY <1>8, <1>10, <2>1, <2>2
  <2>7. new[15] = lists[15]
    BY <1>9, <1>10, <2>1, <2>2
  <2>. QED  BY <2>4, <2>5, <2>6, <2>7
<1>12. \A k \in others : AreRecords(new[k], FALSE)
  BY <1>6, <1>7, <1>8, <1>9, <1>11
<1>13. /\ \A k \in {4, 7, 10, 13, 16, 19} : new[k] = <<Mark("end", {})>>
       /\ new[2] = <<Mark("begin", {"system", "wide"})>> /\ new[5] = <<Mark("begin", {"bus"})>>
       /\ new[8] = <<Mark("begin", {"load"})>> /\ new[11] = <<Mark("begin", {"non", "transformer", "branch"})>>
       /\ new[14] = <<Mark("begin", {"transformer"})>> /\ new[17] = <<Mark("begin", {"area"})>>
  <2>1. \A k \in {2, 4, 5, 7, 8, 10, 11, 13, 14, 16, 17, 19} : new[k] = Content(lists[k])
    <3>1. \A k \in {2, 4, 5, 7, 8, 10, 11, 13, 14, 16, 17, 19} : k \in 1..19
      OBVIOUS
    <3>. QED  BY <1>10, <3>1
  <2>2. (\A words : Content(Begin(words)) = <<Mark("begin", words)>>) /\ Content(End) = <<Mark("end", {})>>
    BY LabelsLeftOut DEF End
  <2>3. \A k \in {4, 7, 10, 13, 16, 19} : new[k] = <<Mark("end", {})>>
    BY <1>1, <2>1, <2>2
  <2>4. new[2] = <<Mark("begin", {"system", "wide"})>> /\ new[5] = <<Mark("begin", {"bus"})>>
    BY <1>1, <2>1, <2>2
  <2>5. new[8] = <<Mark("begin", {"load"})>> /\ new[11] = <<Mark("begin", {"non", "transformer", "branch"})>>
    BY <1>1, <2>1, <2>2
  <2>6. new[14] = <<Mark("begin", {"transformer"})>> /\ new[17] = <<Mark("begin", {"area"})>>
    BY <1>1, <2>1, <2>2
  <2>. QED  BY <2>3, <2>4, <2>5, <2>6
<1>14. \A k \in turning : IsTurn(new[k], TRUE, to[k])
  <2>1. /\ to[2] = "none" /\ to[4] = "none" /\ to[5] = "bus" /\ to[7] = "none" /\ to[8] = "load" /\ to[10] = "none"
        /\ to[11] = "branch" /\ to[13] = "none" /\ to[14] = "transformer" /\ to[16] = "none" /\ to[17] = "none"
        /\ to[19] = "none"
    OBVIOUS
  <2>. HIDE DEF to
  <2>2. /\ Canon({"load"}) = "load" /\ Canon({"bus"}) = "bus" /\ Canon({"transformer"}) = "transformer"
        /\ Canon({"non", "transformer", "branch"}) = "branch" /\ Canon({"area"}) = "none"
        /\ Canon({"system", "wide"}) = "none"
    BY CanonIs
  <2>3. \A words : IsTurn(<<Mark("begin", words)>>, TRUE, Canon(words))
    <3>. SUFFICES ASSUME NEW words PROVE IsTurn(<<Mark("begin", words)>>, TRUE, Canon(words))
      OBVIOUS
    <3>1. IsTurn(<<Mark("begin", words)>>, TRUE, IF "begin" = "begin" THEN Canon(words) ELSE "none")
      BY MarkIs
    <3>. QED  BY <3>1
  <2>4. IsTurn(<<Mark("end", {})>>, TRUE, "none")
    <3>1. IsTurn(<<Mark("end", {})>>, TRUE, IF "end" = "begin" THEN Canon({}) ELSE "none")
      BY MarkIs
    <3>. QED  BY <3>1
  <2>5. \A k \in {4, 7, 10, 13, 16, 19} : IsTurn(new[k], TRUE, to[k])
    BY <1>13, <2>1, <2>4, ZenonT(30)
  <2>6. IsTurn(new[2], TRUE, to[2]) /\ IsTurn(new[5], TRUE, to[5])
    <3>1. IsTurn(<<Mark("begin", {"system", "wide"})>>, TRUE, "none")
      BY <2>2, <2>3, ZenonT(30)
    <3>2. IsTurn(<<Mark("begin", {"bus"})>>, TRUE, "bus")
      BY <2>2, <2>3, ZenonT(30)
    <3>3. to[2] = "none" /\ to[5] = "bus" /\ new[2] = <<Mark("begin", {"system", "wide"})>> /\ new[5] = <<Mark("begin", {"bus"})>>
      BY <1>13, <2>1
    <3>. QED  BY <3>1, <3>2, <3>3
  <2>7. IsTurn(new[8], TRUE, to[8]) /\ IsTurn(new[11], TRUE, to[11])
    <3>1. IsTurn(<<Mark("begin", {"load"})>>, TRUE, "load")
      BY <2>2, <2>3, ZenonT(30)
    <3>2. IsTurn(<<Mark("begin", {"non", "transformer", "branch"})>>, TRUE, "branch")
      BY <2>2, <2>3, ZenonT(30)
    <3>3. to[8] = "load" /\ to[11] = "branch" /\ new[8] = <<Mark("begin", {"load"})>> /\ new[11] = <<Mark("begin", {"non", "transformer", "branch"})>>
      BY <1>13, <2>1
    <3>. QED  BY <3>1, <3>2, <3>3
  <2>8. IsTurn(new[14], TRUE, to[14]) /\ IsTurn(new[17], TRUE, to[17])
    <3>1. IsTurn(<<Mark("begin", {"transformer"})>>, TRUE, "transformer")
      BY <2>2, <2>3, ZenonT(30)
    <3>2. IsTurn(<<Mark("begin", {"area"})>>, TRUE, "none")
      BY <2>2, <2>3, ZenonT(30)
    <3>3. to[14] = "transformer" /\ to[17] = "none" /\ new[14] = <<Mark("begin", {"transformer"})>> /\ new[17] = <<Mark("begin", {"area"})>>
      BY <1>13, <2>1
    <3>. QED  BY <3>1, <3>2, <3>3
  <2>. QED  BY <2>5, <2>6, <2>7, <2>8
<1>15. Turning(new, 19, turning, TRUE, to)
  <2>1. \A k \in (1..19) \ turning : AreRecords(new[k], ~TRUE)
    <3>1. (~TRUE) = FALSE
      OBVIOUS
    <3>2. \A k \in (1..19) \ turning : AreRecords(new[k], FALSE)
      BY <1>4, <1>12
    <3>. QED  BY <3>1, <3>2
  <2>2. Len(new[1]) = 3 /\ 19 \in Nat /\ 19 >= 3
    BY <1>6, <1>11
  <2>. HIDE DEF turning, to
  <2>. QED  BY <1>5, <1>10, <1>14, <2>1, <2>2 DEF Turning
<1>16. Turned(19, turning, TRUE, to, 6, "bus")
  BY DEF Turned
<1>17. Turned(19, turning, TRUE, to, 9, "load")
  BY DEF Turned
<1>18. Turned(19, turning, TRUE, to, 12, "branch")
  BY DEF Turned
<1>19. Turned(19, turning, TRUE, to, 15, "transformer")
  BY DEF Turned
<1>20. AreSeqs(lists, 19)
  <2>1. \A k \in {4, 7, 10, 13, 16, 19} : IsSeq(lists[k])
    BY <1>1, LabelsLeftOut
  <2>2. \A k \in {2, 5, 8, 11, 14, 17} : IsSeq(lists[k])
    BY <1>1, LabelsLeftOut
  <2>3. \A k \in {3, 6, 9, 12, 15, 18} : IsSeq(lists[k])
    BY <1>7, <1>8, <1>9 DEF AreRecords
  <2>4. IsSeq(lists[1])
    BY <1>1, <1>6, LabelsLeftOut
  <2>5. \A k \in 1..19 : \/ k \in {4, 7, 10, 13, 16, 19} \/ k \in {2, 5, 8, 11, 14, 17}
                         \/ k \in {3, 6, 9, 12, 15, 18} \/ k = 1
    OBVIOUS
  <2>6. 19 \in Nat
    OBVIOUS
  <2>. QED  BY <1>1, <2>1, <2>2, <2>3, <2>4, <2>5, <2>6 DEF AreSeqs
<1>21. Content(Raw34(c, cw)) = lines
  <2>1. 19 # 0
    OBVIOUS
  <2>. QED  BY <1>2, <1>20, <2>1, ContentOfBlocks DEF lines, new
<1>. HIDE DEF turning, to
<1>22. AreSeqs(new, 19)
  <2>1. Turning(new, 19, turning, yes, to) /\ yes \in BOOLEAN
    BY <1>15 DEF yes
  <2>. QED  BY <2>1, TurningBlocks
<1>23. Marked(lines) = TRUE
  <2>1. 5 \in 1..19 /\ 1 \in 1..Len(new[5]) /\ new[5][1].what = "begin"
    <3>1. new[5][1].what = "begin" /\ Len(new[5]) = 1
      <4> DEFINE words == {"bus"}
      <4>. HIDE DEF words
      <4>1. <<Mark("begin", words)>>[1].what = "begin" /\ Len(<<Mark("begin", words)>>) = 1
        BY MarkIs
      <4>. QED  BY <1>13, <4>1 DEF words
    <3>. QED  BY <3>1
  <2>2. Marked(lines)
    BY <1>22, <2>1, MarkedIs DEF lines
  <2>3. Marked(lines) \in BOOLEAN
    BY DEF Marked
  <2>. QED  BY <2>2, <2>3
<1>24. ~(Len(lines) < 4) /\ lines[1] = new[1][1]
  <2>1. 2 \in 2..(19 - 1) /\ Len(new[2]) = 1 /\ 19 >= 3 /\ Len(new[1]) = 3
    <3>1. Len(new[2]) = 1
      BY <1>13, MarkIs
    <3>. QED  BY <1>6, <1>11, <3>1
  <2>. QED  BY <1>22, <2>1, HeaderIs DEF lines
<1>25. ASSUME NEW K, NEW name, Turned(19, turning, TRUE, to, K, name) PROVE Section(lines, name) = Fields(new[K])
  <2> DEFINE marked == Marked(lines)
  <2>1. marked = TRUE /\ marked \in BOOLEAN
    BY <1>23
  <2>. HIDE DEF marked
  <2>2. Turning(new, 19, turning, marked, to) /\ Turned(19, turning, marked, to, K, name)
    BY <1>15, <1>25, <2>1
  <2>3. marked = Marked(lines) /\ lines = FlattenSeq(new)
    BY DEF lines, marked
  <2> DEFINE n == 19
  <2>. HIDE DEF n
  <2>4. Turning(new, n, turning, marked, to) /\ Turned(n, turning, marked, to, K, name)
    BY <2>2 DEF n
  <2>5. marked \in BOOLEAN
    BY <2>1
  <2>. QED  BY <2>3, <2>4, <2>5, TurnedSection
<1>26. /\ Section(lines, "bus") = BusFields(c) /\ Section(lines, "load") = LoadFields(c)
       /\ Section(lines, "branch") = LineFields(c, TRUE)
  BY <1>8, <1>11, <1>16, <1>17, <1>18, <1>25
<1>27. WrittenAfterOne(c, cw, Section(lines, "transformer"))
  BY <1>9, <1>11, <1>19, <1>25
<1>28. Field(lines[1].f, 2) = c.sbase
  <2>1. lines[1].f = <<0, c.sbase>> /\ c.sbase \in Int
    BY <1>3, <1>6, <1>11, <1>24, CaseShape
  <2>. QED  BY <2>1 DEF Field
<1>29. Section(lines, "branch") = LineFields(c, yes) /\ yes \in BOOLEAN
  BY <1>26 DEF yes
<1>. QED  BY <1>21, <1>24, <1>26, <1>27, <1>28, <1>29, RawRead

-----------------------------------------------------------------------------
(* OpenDSS.                                                                *)

\* One more at the end of a list.
LEMMA Appended ==
    ASSUME NEW s, IsSeq(s), NEW e
    PROVE  /\ IsSeq(Append(s, e)) /\ Len(Append(s, e)) = Len(s) + 1 /\ Append(s, e)[Len(s) + 1] = e
           /\ \A i \in 1..Len(s) : Append(s, e)[i] = s[i]
<1> DEFINE n == Len(s)
           S == {s[i] : i \in 1..n} \union {e}
           t == Append(s, e)
<1>1. n \in Nat /\ s = [i \in 1..n |-> s[i]]
  BY DEF IsSeq
<1>2. s \in [1..n -> S]
  BY <1>1
<1>3. s \in Seq(S) /\ e \in S
  <2>1. e \in S
    OBVIOUS
  <2>. HIDE DEF S
  <2>. QED  BY <1>1, <1>2, <2>1, ListsAreSequences
<1>. HIDE DEF S
<1>4. t \in Seq(S) /\ Len(t) = n + 1 /\ t[n + 1] = e /\ \A i \in 1..n : t[i] = s[i]
  BY <1>3
<1>5. t \in [1..(n + 1) -> S]
  BY <1>1, <1>4, SequencesAreLists
<1>6. t = [i \in 1..(n + 1) |-> t[i]]
  BY <1>5
<1>. QED  BY <1>1, <1>4, <1>6 DEF IsSeq

\* A number that is given is one that no bus has yet.
LEMMA NumberIsNew ==
    ASSUME Absent \notin Int, NEW taken \in SUBSET Nat, IsFiniteSet(taken), NEW number \in Nat \union {Absent}
    PROVE  NumberFor(number, taken) \in Nat /\ NumberFor(number, taken) \notin taken
<1> DEFINE S == taken \union {0}
<1>1. S \in SUBSET Int /\ S \in SUBSET Nat /\ IsFiniteSet(S) /\ S # {}
  BY FS_AddElement
<1>2. Max(S) \in S /\ \A y \in S : y <= Max(S)
  <2>. HIDE DEF S
  <2>. QED  BY <1>1, GreatestExists
<1>3. Max(S) \in Nat /\ \A y \in taken : y <= Max(S)
  BY <1>1, <1>2
<1>4. Max(S) + 1 \in Nat /\ Max(S) + 1 \notin taken
  BY <1>3
<1>5. CASE number = Absent \/ number \in taken
  BY <1>4, <1>5 DEF NumberFor
<1>6. CASE ~(number = Absent \/ number \in taken)
  BY <1>6 DEF NumberFor
<1>. QED  BY <1>5, <1>6

\* The buses of a file have names of their own, and what they end in.
NamesApart(names, n) ==
    \A a \in 1..n : names[a].number \in Nat \union {Absent} /\ \A b \in 1..n : names[a] = names[b] => a = b
\* The first m of them have been read.
NamedFirst(names, list, m) ==
    /\ IsSeq(list) /\ Len(list) = m /\ \A i \in 1..m : list[i].name = names[i] /\ list[i].id \in Nat
    /\ \A i, j \in 1..m : list[i].id = list[j].id => i = j

LEMMA NamedAgain ==
    ASSUME NEW n \in Nat, NEW names, NamesApart(names, n), NEW m \in Nat, m <= n, NEW list, NamedFirst(names, list, m),
           NEW b \in 1..m
    PROVE  Named(list, names[b]) = list /\ IdOf(list, names[b]) = list[b].id
<1>1. DOMAIN list = 1..m /\ b \in 1..n /\ \A i \in 1..m : i \in 1..n /\ list[i].name = names[i]
  BY DEF NamedFirst, IsSeq
<1>2. Named(list, names[b]) = list
  BY <1>1 DEF Named
<1>3. (CHOOSE i \in DOMAIN list : list[i].name = names[b]) = b
  <2>1. \A i \in DOMAIN list : list[i].name = names[b] => i = b
    BY <1>1 DEF NamesApart
  <2>. QED  BY <1>1, <2>1
<1>. QED  BY <1>2, <1>3 DEF IdOf

LEMMA NamedNext ==
    ASSUME Absent \notin Int, NEW n \in Nat, NEW names, NamesApart(names, n), NEW m \in Nat, m + 1 <= n,
           NEW list, NamedFirst(names, list, m)
    PROVE  /\ NamedFirst(names, Named(list, names[m + 1]), m + 1)
           /\ \A i \in 1..m : Named(list, names[m + 1])[i] = list[i]
<1> DEFINE b == m + 1
           taken == Numbers(list)
           new == [name |-> names[b], id |-> NumberFor(names[b].number, taken)]
           more == Append(list, new)
<1>1. /\ DOMAIN list = 1..m /\ Len(list) = m /\ b \in 1..n /\ IsSeq(list)
      /\ \A i \in 1..m : i \in 1..n /\ list[i].name = names[i] /\ list[i].id \in Nat /\ i # b
  BY DEF NamedFirst, IsSeq
<1>2. \A i \in 1..m : list[i].name # names[b]
  BY <1>1 DEF NamesApart
<1>3. Named(list, names[b]) = more
  BY <1>1, <1>2 DEF Named
<1>4. new.id \in Nat /\ new.id \notin taken
  <2>1. names[b].number \in Nat \union {Absent}
    BY <1>1 DEF NamesApart
  <2> DEFINE f == [i \in 1..m |-> list[i].id]
  <2>2. IsFiniteSet({f[x] : x \in 1..m})
    <3>1. IsFiniteSet(1..m)
      BY FS_Interval
    <3>. HIDE DEF f
    <3>. QED  BY <3>1, ImageIsFinite
  <2>3. taken = {f[x] : x \in 1..m} /\ taken \in SUBSET Nat
    BY <1>1 DEF Numbers
  <2>. HIDE DEF taken
  <2>. QED  BY <2>1, <2>2, <2>3, NumberIsNew
<1>5. \A i \in 1..m : list[i].id \in taken
  BY <1>1 DEF Numbers
<1>6. IsSeq(more) /\ Len(more) = b /\ more[b] = new /\ \A i \in 1..m : more[i] = list[i]
  <2>. HIDE DEF new
  <2>. QED  BY <1>1, Appended
<1>. HIDE DEF more, taken
<1>8. \A i \in 1..b : more[i].name = names[i] /\ more[i].id \in Nat
  <2>1. \A i \in 1..b : i \in 1..m \/ i = b
    OBVIOUS
  <2>2. more[b].name = names[b] /\ more[b].id \in Nat
    BY <1>4, <1>6
  <2>3. \A i \in 1..m : more[i].name = names[i] /\ more[i].id \in Nat
    BY <1>1, <1>6
  <2>. QED  BY <2>1, <2>2, <2>3
<1>9. \A i, j \in 1..b : more[i].id = more[j].id => i = j
  <2>1. \A i \in 1..b : i \in 1..m \/ i = b
    OBVIOUS
  <2>2. more[b].id \notin taken /\ \A i \in 1..m : more[i].id \in taken
    BY <1>4, <1>5, <1>6
  <2>3. \A i, j \in 1..m : more[i].id = more[j].id => i = j
    BY <1>6 DEF NamedFirst
  <2>. QED  BY <2>1, <2>2, <2>3
<1>10. NamedFirst(names, more, b)
  BY <1>6, <1>8, <1>9 DEF NamedFirst
<1>. QED  BY <1>3, <1>6, <1>10

\* The statements are read one after another.
LEMMA AllReadIs ==
    ASSUME NEW file, IsSeq(file)
    PROVE  \E s : /\ s[0] = DssStart /\ AllRead(file) = s[Len(file)]
                  /\ \A k \in 1..Len(file) : s[k] = Read(s[k - 1], file[k])
<1> DEFINE N == Len(file)
           After(s, n) == s = [k \in 0..n |-> IF k = 0 THEN DssStart ELSE Read(s[k - 1], file[k])]
           T == {n \in Nat : n <= N => \E s : After(s, n)}
<1>1. N \in Nat
  BY DEF IsSeq
<1>2. 0 \in T
  <2> DEFINE s == [k \in 0..0 |-> DssStart]
  <2>1. After(s, 0)
    OBVIOUS
  <2>. HIDE DEF After
  <2>. QED  BY <2>1
<1>3. ASSUME NEW n \in Nat, n \in T PROVE n + 1 \in T
  <2>. SUFFICES ASSUME n + 1 <= N PROVE \E s : After(s, n + 1)
    <3>. HIDE DEF After
    <3>. QED  OBVIOUS
  <2>1. n <= N
    BY <1>1
  <2>2. PICK s : After(s, n)
    <3>. HIDE DEF After
    <3>. QED  BY <1>3, <2>1
  <2> DEFINE t == [k \in 0..(n + 1) |-> IF k = n + 1 THEN Read(s[n], file[n + 1]) ELSE s[k]]
  <2>3. \A k \in 0..(n + 1) : t[k] = IF k = 0 THEN DssStart ELSE Read(t[k - 1], file[k])
    <3>. SUFFICES ASSUME NEW k \in 0..(n + 1) PROVE t[k] = IF k = 0 THEN DssStart ELSE Read(t[k - 1], file[k])
      OBVIOUS
    <3>1. CASE k = 0
      <4>1. 0 \in 0..n /\ 0 # n + 1
        OBVIOUS
      <4>. QED  BY <2>2, <3>1, <4>1
    <3>2. CASE k \in 1..n
      <4>1. k \in 0..n /\ k # 0 /\ k - 1 \in 0..(n + 1) /\ k - 1 # n + 1 /\ k # n + 1
        BY <3>2
      <4>. QED  BY <2>2, <4>1
    <3>3. CASE k = n + 1
      <4>1. k # 0 /\ k - 1 = n /\ n \in 0..(n + 1) /\ n # n + 1
        BY <3>3
      <4>. QED  BY <3>3, <4>1
    <3>. QED  BY <3>1, <3>2, <3>3
  <2>4. After(t, n + 1)
    <3>1. t = [k \in 0..(n + 1) |-> t[k]]
      OBVIOUS
    <3>. HIDE DEF t
    <3>. QED  BY <2>3, <3>1
  <2>. HIDE DEF After
  <2>. QED  BY <2>4
<1>4. \E s : After(s, N)
  <2>1. Nat \subseteq T
    <3>. HIDE DEF T
    <3>. QED  BY <1>2, <1>3, NatIsBuiltUp
  <2>. HIDE DEF After
  <2>. QED  BY <1>1, <2>1
<1> DEFINE w == CHOOSE s : After(s, N)
<1>5. After(w, N)
  <2>. HIDE DEF After
  <2>. QED  BY <1>4
<1>6. AllRead(file) = w[N]
  BY DEF AllRead
<1>. HIDE DEF w
<1>7. w[0] = DssStart /\ \A k \in 1..N : w[k] = Read(w[k - 1], file[k])
  BY <1>1, <1>5
<1>. QED  BY <1>6, <1>7

\* The statements of a file.
LoadStatement(c, names, b) == [element |-> "load", bus |-> names[b], load |-> Watts(c, b)]
BranchStatement(c, names, i) ==
    LET br == BranchAt(c, i) IN
    IF Wound(c, i)
    THEN [element |-> "transformer", buses |-> <<names[br.from], names[br.to]>>,
          kvs |-> <<c.volts[br.from], c.volts[br.to]>>, kva |-> br.rate, z |-> (br.z * br.rate) \div c.sbase]
    ELSE [element |-> "line", bus1 |-> names[br.from], bus2 |-> names[br.to], length |-> 1,
          z |-> CaseOhms(c, i), amps |-> (br.rate * 1000) \div c.volts[1]]

Many(c) == Len(c.lines) + Len(c.transformers)

DssFileIs(c, names, file, B, m) ==
    /\ IsSeq(file) /\ Len(file) = 1 + B + m
    /\ file[1] = [element |-> "circuit", bus |-> names[1], kv |-> c.volts[1]]
    /\ \A b \in 1..B : file[1 + b] = LoadStatement(c, names, b)
    /\ \A i \in 1..m : file[1 + B + i] = BranchStatement(c, names, i)

LEMMA DssFile ==
    ASSUME NEW c, IsCase(c), NEW names, NEW file, file = Dss(c, names)
    PROVE  DssFileIs(c, names, file, Len(c.volts), Many(c))
<1> DEFINE B == Len(c.volts)
           m == Many(c)
           L == Len(c.lines)
           T == Len(c.transformers)
           first == <<[element |-> "circuit", bus |-> names[1], kv |-> c.volts[1]]>>
           loads == [b \in DOMAIN c.volts |-> [element |-> "load", bus |-> names[b], load |-> Watts(c, b)]]
           lines == [i \in DOMAIN c.lines |->
              LET br == c.lines[i] IN
              [element |-> "line", bus1 |-> names[br.from], bus2 |-> names[br.to], length |-> 1,
               z |-> CaseOhms(c, i), amps |-> (br.rate * 1000) \div c.volts[1]]]
           wound == [i \in DOMAIN c.transformers |->
              LET br == c.transformers[i] IN
              [element |-> "transformer", buses |-> <<names[br.from], names[br.to]>>,
               kvs |-> <<c.volts[br.from], c.volts[br.to]>>, kva |-> br.rate,
               z |-> (br.z * br.rate) \div c.sbase]]
<1>1. /\ B \in Nat /\ L \in Nat /\ T \in Nat /\ m = L + T /\ DOMAIN c.volts = 1..B /\ DOMAIN c.lines = 1..L
      /\ DOMAIN c.transformers = 1..T
  BY CaseShape DEF Many
<1>2. file = ((first \o loads) \o lines) \o wound
  BY Zenon DEF Dss
<1>3. \A b \in 1..B : loads[b] = LoadStatement(c, names, b)
  BY <1>1 DEF LoadStatement
<1>4. \A i \in 1..L : lines[i] = BranchStatement(c, names, i)
  <2>. SUFFICES ASSUME NEW i \in 1..L PROVE lines[i] = BranchStatement(c, names, i)
    BY Zenon
  <2>1. ~Wound(c, i) /\ BranchAt(c, i) = c.lines[i]
    BY <1>1 DEF Wound, BranchAt
  <2>2. i \in DOMAIN c.lines
    BY <1>1
  <2>. HIDE DEF L, T
  <2>. QED  BY <2>1, <2>2 DEF BranchStatement
<1>5. \A i \in 1..T : wound[i] = BranchStatement(c, names, L + i)
  <2>. SUFFICES ASSUME NEW i \in 1..T PROVE wound[i] = BranchStatement(c, names, L + i)
    OBVIOUS
  <2>1. Wound(c, L + i) /\ BranchAt(c, L + i) = c.transformers[i]
    BY <1>1 DEF Wound, BranchAt
  <2>2. i \in DOMAIN c.transformers
    BY <1>1
  <2>. HIDE DEF L, T
  <2>. QED  BY <2>1, <2>2, SMTT(30) DEF BranchStatement
<1>6. IsSeq(first) /\ Len(first) = 1 /\ first[1] = [element |-> "circuit", bus |-> names[1], kv |-> c.volts[1]]
  BY DEF IsSeq
<1>7. IsSeq(loads) /\ Len(loads) = B
  <2>1. loads = [i \in 1..B |-> loads[i]]
    BY <1>1
  <2>. HIDE DEF loads
  <2>. QED  BY <1>1, <2>1, Tabulated
<1>8. IsSeq(lines) /\ Len(lines) = L
  <2>1. lines = [i \in 1..L |-> lines[i]]
    BY <1>1
  <2>. HIDE DEF lines
  <2>. QED  BY <1>1, <2>1, Tabulated
<1>9. IsSeq(wound) /\ Len(wound) = T
  <2>1. wound = [i \in 1..T |-> wound[i]]
    BY <1>1
  <2>. HIDE DEF wound
  <2>. QED  BY <1>1, <2>1, Tabulated
<1>. HIDE DEF first, loads, lines, wound, L, T, B, m
<1>19. B \in Nat /\ L \in Nat /\ T \in Nat /\ m = L + T
  BY <1>1
<1> DEFINE one == first \o loads
           two == one \o lines
<1>10. /\ IsSeq(one) /\ Len(one) = 1 + B /\ one[1] = first[1]
       /\ \A b \in 1..B : one[1 + b] = loads[b]
  <2>1. /\ IsSeq(one) /\ Len(one) = Len(first) + Len(loads)
        /\ \A i \in 1..Len(first) : one[i] = first[i]
        /\ \A i \in 1..Len(loads) : one[Len(first) + i] = loads[i]
    <3>1. IsSeq(first) /\ IsSeq(loads)
      BY <1>6, <1>7
    <3>. QED  BY <3>1, EndToEnd
  <2>. HIDE DEF one
  <2>2. Len(first) = 1 /\ Len(loads) = B
    BY <1>6, <1>7
  <2>. QED  BY <1>19, <2>1, <2>2
<1>. HIDE DEF one
<1>11. /\ IsSeq(two) /\ Len(two) = 1 + B + L /\ \A i \in 1..L : two[1 + B + i] = lines[i]
       /\ \A i \in 1..(1 + B) : two[i] = one[i]
  <2>1. /\ IsSeq(two) /\ Len(two) = Len(one) + Len(lines)
        /\ \A i \in 1..Len(one) : two[i] = one[i]
        /\ \A i \in 1..Len(lines) : two[Len(one) + i] = lines[i]
    <3>1. IsSeq(one) /\ IsSeq(lines)
      BY <1>8, <1>10
    <3>. QED  BY <3>1, EndToEnd
  <2>. HIDE DEF two
  <2>2. Len(one) = 1 + B /\ Len(lines) = L
    BY <1>8, <1>10
  <2>. QED  BY <1>19, <2>1, <2>2
<1>. HIDE DEF two
<1>12. /\ IsSeq(file) /\ Len(file) = 1 + B + L + T /\ \A i \in 1..T : file[1 + B + L + i] = wound[i]
       /\ \A i \in 1..(1 + B + L) : file[i] = two[i]
  <2>1. file = two \o wound
    BY <1>2 DEF one, two
  <2>2. /\ IsSeq(file) /\ Len(file) = Len(two) + Len(wound)
        /\ \A i \in 1..Len(two) : file[i] = two[i]
        /\ \A i \in 1..Len(wound) : file[Len(two) + i] = wound[i]
    <3>1. IsSeq(two) /\ IsSeq(wound)
      BY <1>9, <1>11
    <3>. QED  BY <2>1, <3>1, EndToEnd
  <2>3. Len(two) = 1 + B + L /\ Len(wound) = T
    BY <1>9, <1>11
  <2>. QED  BY <1>19, <2>2, <2>3
<1>13. file[1] = first[1]
  BY <1>19, <1>10, <1>11, <1>12
<1>14. \A b \in 1..B : file[1 + b] = loads[b]
  <2>. SUFFICES ASSUME NEW b \in 1..B PROVE file[1 + b] = loads[b]
    OBVIOUS
  <2>1. 1 + b \in 1..(1 + B) /\ 1 + b \in 1..(1 + B + L)
    BY <1>19
  <2>. QED  BY <1>10, <1>11, <1>12, <2>1
<1>15. \A i \in 1..L : file[1 + B + i] = lines[i]
  <2>. SUFFICES ASSUME NEW i \in 1..L PROVE file[1 + B + i] = lines[i]
    OBVIOUS
  <2>1. 1 + B + i \in 1..(1 + B + L)
    BY <1>19
  <2>. QED  BY <1>11, <1>12, <2>1
<1>16. \A i \in 1..m : file[1 + B + i] = BranchStatement(c, names, i)
  <2>. SUFFICES ASSUME NEW i \in 1..m PROVE file[1 + B + i] = BranchStatement(c, names, i)
    OBVIOUS
  <2>1. CASE i \in 1..L
    BY <1>4, <1>15, <2>1
  <2>2. CASE i \notin 1..L
    <3>1. i - L \in 1..T /\ L + (i - L) = i /\ 1 + B + L + (i - L) = 1 + B + i
      BY <1>19, <2>2
    <3>. QED  BY <1>5, <1>12, <3>1
  <2>. QED  BY <2>1, <2>2
<1>17. Len(file) = 1 + B + m
  BY <1>19, <1>12
<1>18. \A b \in 1..B : file[1 + b] = LoadStatement(c, names, b)
  BY <1>3, <1>14
<1>20. DssFileIs(c, names, file, B, m)
  BY <1>6, <1>12, <1>13, <1>16, <1>17, <1>18 DEF DssFileIs
<1>. QED  BY <1>20 DEF B, m

\* What the branches of a file are, and what the windings say of voltages.
DssMeant(c, list, i, br) ==
    LET m == BranchAt(c, i) IN
    /\ br.id = i /\ br.from = list[m.from].id /\ br.to = list[m.to].id /\ br.z = CaseOhms(c, i) /\ br.z0 = Absent
    /\ br.rating = m.rate /\ br.transformer = Wound(c, i) /\ br.oltc = FALSE /\ br.connection = Absent
    /\ br.tap = Absent
KvsTrue(c, list, kvs) ==
    \A j \in 1..Len(kvs) : \E b \in 1..Len(c.volts) : kvs[j].bus = list[b].id /\ kvs[j].kv = c.volts[b]
KvsGiven(c, list, kvs, i) ==
    \A k \in 1..i : Wound(c, k) => /\ \E j \in 1..Len(kvs) : kvs[j].bus = list[BranchAt(c, k).from].id
                                   /\ \E j \in 1..Len(kvs) : kvs[j].bus = list[BranchAt(c, k).to].id

\* m buses have names, b loads and i branches are there.
DssHas(c, names, s, m, b, i) ==
    /\ s = [names |-> s.names, kv |-> s.kv, source |-> s.source, loads |-> s.loads, kvs |-> s.kvs,
            branches |-> s.branches]
    /\ NamedFirst(names, s.names, m) /\ s.kv = c.volts[1] /\ s.source = names[1]
    /\ IsSeq(s.loads) /\ Len(s.loads) = b
    /\ \A k \in 1..b : s.loads[k].bus = s.names[k].id /\ s.loads[k].load = Watts(c, k)
    /\ IsSeq(s.branches) /\ Len(s.branches) = i /\ \A k \in 1..i : DssMeant(c, s.names, k, s.branches[k])
    /\ IsSeq(s.kvs) /\ KvsTrue(c, s.names, s.kvs) /\ KvsGiven(c, s.names, s.kvs, i)
    /\ i = 0 => s.kvs = <<>>

LEMMA CircuitRead ==
    ASSUME NEW c, IsCase(c), Absent \notin Int, NEW n \in Nat, n >= 1, NEW names, NamesApart(names, n)
    PROVE  DssHas(c, names, Read(DssStart, [element |-> "circuit", bus |-> names[1], kv |-> c.volts[1]]), 1, 0, 0)
<1> DEFINE st == [element |-> "circuit", bus |-> names[1], kv |-> c.volts[1]]
           list == Named(<<>>, names[1])
           s == [names |-> list, kv |-> c.volts[1], source |-> names[1], loads |-> <<>>, kvs |-> <<>>,
                 branches |-> <<>>]
<1>1. Read(DssStart, st) = s
  <2>1. Read(DssStart, st) = Circuit(DssStart, st)
    BY DEF Read
  <2>. HIDE DEF list
  <2>2. DssStart.names = <<>> /\ st.bus = names[1] /\ st.kv = c.volts[1]
    BY DEF DssStart
  <2>3. Circuit(DssStart, st) = [DssStart EXCEPT !.names = list, !.kv = st.kv, !.source = st.bus]
    BY <2>2 DEF Circuit, list
  <2>4. Circuit(DssStart, st) = s
    BY <2>2, <2>3 DEF DssStart
  <2>. QED  BY <2>1, <2>4
<1>2. NamedFirst(names, list, 1)
  <2>1. NamedFirst(names, <<>>, 0)
    BY DEF NamedFirst, IsSeq
  <2>2. 0 \in Nat /\ 0 + 1 <= n /\ 0 + 1 = 1
    OBVIOUS
  <2>. HIDE DEF list
  <2>3. NamedFirst(names, Named(<<>>, names[0 + 1]), 0 + 1)
    BY <2>1, <2>2, NamedNext
  <2>. QED  BY <2>2, <2>3 DEF list
<1>. HIDE DEF list
<1>3. IsSeq(<<>>) /\ Len(<<>>) = 0
  BY DEF IsSeq
<1>. QED  BY <1>1, <1>2, <1>3 DEF DssHas, KvsTrue, KvsGiven

\* What has been read, with one part or another replaced.
DssState(n, v, f, l, k, b) == [names |-> n, kv |-> v, source |-> f, loads |-> l, kvs |-> k, branches |-> b]

NamesPut(s, x) == [s EXCEPT !.names = x]
LoadsPut(s, x) == [s EXCEPT !.loads = x]
KvsPut(s, x) == [s EXCEPT !.kvs = x]
BranchesPut(s, x) == [s EXCEPT !.branches = x]

LEMMA PutInState ==
    ASSUME NEW n, NEW v, NEW f, NEW l, NEW k, NEW b, NEW x
    PROVE  /\ NamesPut(DssState(n, v, f, l, k, b), x) = DssState(x, v, f, l, k, b)
           /\ LoadsPut(DssState(n, v, f, l, k, b), x) = DssState(n, v, f, x, k, b)
           /\ KvsPut(DssState(n, v, f, l, k, b), x) = DssState(n, v, f, l, x, b)
           /\ BranchesPut(DssState(n, v, f, l, k, b), x) = DssState(n, v, f, l, k, x)
<1>1. NamesPut(DssState(n, v, f, l, k, b), x) = DssState(x, v, f, l, k, b)
  BY DEF DssState, NamesPut
<1>2. LoadsPut(DssState(n, v, f, l, k, b), x) = DssState(n, v, f, x, k, b)
  BY DEF DssState, LoadsPut
<1>3. KvsPut(DssState(n, v, f, l, k, b), x) = DssState(n, v, f, l, x, b)
  BY DEF DssState, KvsPut
<1>4. BranchesPut(DssState(n, v, f, l, k, b), x) = DssState(n, v, f, l, k, x)
  BY DEF DssState, BranchesPut
<1>. QED  BY <1>1, <1>2, <1>3, <1>4

LEMMA DssLoadRead ==
    ASSUME NEW c, IsCase(c), Absent \notin Int, NEW names, NamesApart(names, Len(c.volts)),
           NEW b \in 1..Len(c.volts), NEW s, DssHas(c, names, s, IF b = 1 THEN 1 ELSE b - 1, b - 1, 0)
    PROVE  DssHas(c, names, Read(s, LoadStatement(c, names, b)), b, b, 0)
<1> DEFINE st == LoadStatement(c, names, b)
           n == Len(c.volts)
           list == Named(s.names, names[b])
           new == [bus |-> IdOf(list, names[b]), load |-> Watts(c, b)]
           loads == Append(s.loads, new)
           t == Read(s, st)
<1>1. n \in Nat /\ b \in Nat /\ b >= 1 /\ b <= n
  BY CaseShape
<1>2. NamedFirst(names, list, b) /\ \A i \in 1..(b - 1) : list[i] = s.names[i]
  <2>1. CASE b = 1
    <3>1. NamedFirst(names, s.names, 1)
      BY <2>1 DEF DssHas
    <3>2. 1 \in Nat /\ 1 <= n /\ 1 \in 1..1
      BY <1>1, <2>1
    <3>3. Named(s.names, names[1]) = s.names
      <4>. HIDE DEF n
      <4>. QED  BY <1>1, <3>1, <3>2, NamedAgain DEF n
    <3>. QED  BY <2>1, <3>1, <3>3
  <2>2. CASE b # 1
    <3> DEFINE m == b - 1
    <3>1. m \in Nat /\ m + 1 = b /\ m + 1 <= n
      BY <1>1, <2>2
    <3>2. NamedFirst(names, s.names, m)
      BY <2>2 DEF DssHas
    <3>. HIDE DEF m
    <3>3. /\ NamedFirst(names, Named(s.names, names[m + 1]), m + 1)
          /\ \A i \in 1..m : Named(s.names, names[m + 1])[i] = s.names[i]
      <4>. HIDE DEF n
      <4>. QED  BY <1>1, <3>1, <3>2, NamedNext DEF n
    <3>. QED  BY <3>1, <3>3 DEF m
  <2>. QED  BY <2>1, <2>2
<1>3. new.bus = list[b].id /\ new.load = Watts(c, b)
  <2>1. b \in 1..b
    BY <1>1
  <2>. HIDE DEF list, n
  <2>2. IdOf(list, names[b]) = list[b].id
    BY <1>1, <1>2, <2>1, NamedAgain DEF n
  <2>. QED  BY <2>2
<1>4. t = [names |-> list, kv |-> s.kv, source |-> s.source, loads |-> loads, kvs |-> s.kvs, branches |-> s.branches]
  <2>1. st.element = "load" /\ st.bus = names[b] /\ st.load = Watts(c, b)
    BY DEF LoadStatement
  <2>2. t = DssLoad(s, st)
    BY <2>1 DEF Read
  <2>. HIDE DEF st, t
  <2>3. DssLoad(s, st) = [s EXCEPT !.names = list, !.loads = loads]
    BY <2>1 DEF DssLoad
  <2>. HIDE DEF list, loads
  <2>4. s = DssState(s.names, s.kv, s.source, s.loads, s.kvs, s.branches)
    BY DEF DssHas, DssState
  <2>5. LoadsPut(NamesPut(s, list), loads) = DssState(list, s.kv, s.source, loads, s.kvs, s.branches)
    BY <2>4, PutInState
  <2>6. [s EXCEPT !.names = list, !.loads = loads] = LoadsPut(NamesPut(s, list), loads)
    BY DEF LoadsPut, NamesPut
  <2>. QED  BY <2>2, <2>3, <2>5, <2>6 DEF DssState
<1>. HIDE DEF t, list, new
<1>5. IsSeq(s.loads) /\ Len(s.loads) = b - 1
  BY DEF DssHas
<1>6. IsSeq(loads) /\ Len(loads) = b /\ loads[b] = new /\ \A k \in 1..(b - 1) : loads[k] = s.loads[k]
  BY <1>1, <1>5, Appended
<1>. HIDE DEF loads
<1>7. \A k \in 1..b : loads[k].bus = list[k].id /\ loads[k].load = Watts(c, k)
  <2>. SUFFICES ASSUME NEW k \in 1..b PROVE loads[k].bus = list[k].id /\ loads[k].load = Watts(c, k)
    OBVIOUS
  <2>1. CASE k = b
    BY <1>3, <1>6, <2>1
  <2>2. CASE k # b
    <3>1. k \in 1..(b - 1)
      BY <1>1, <2>2
    <3>2. s.loads[k].bus = s.names[k].id /\ s.loads[k].load = Watts(c, k)
      BY <3>1 DEF DssHas
    <3>. QED  BY <1>2, <1>6, <3>1, <3>2
  <2>. QED  BY <2>1, <2>2
<1>8. /\ t.names = list /\ t.kv = s.kv /\ t.source = s.source /\ t.loads = loads /\ t.kvs = s.kvs
      /\ t.branches = s.branches
      /\ t = [names |-> t.names, kv |-> t.kv, source |-> t.source, loads |-> t.loads, kvs |-> t.kvs,
              branches |-> t.branches]
  BY <1>4
<1>9. s.kv = c.volts[1] /\ s.source = names[1] /\ s.kvs = <<>> /\ IsSeq(s.branches) /\ Len(s.branches) = 0
  BY DEF DssHas
<1>10. IsSeq(<<>>) /\ Len(<<>>) = 0
  BY DEF IsSeq
<1>. QED  BY <1>2, <1>6, <1>7, <1>8, <1>9, <1>10 DEF DssHas, KvsTrue, KvsGiven, t

\* The same quotient of the same proportion.
LEMMA SameProportion ==
    ASSUME NEW x \in Nat, NEW d \in Nat \ {0}, NEW y \in Nat, NEW e \in Nat \ {0}, x * e = y * d
    PROVE  x \div d = y \div e
<1> DEFINE q == x \div d
<1>1. q \in Int /\ q * d <= x /\ x < (q + 1) * d
  OBVIOUS
<1>. HIDE DEF q
<1>2. q * e <= y
  <2>. SUFFICES ASSUME y < q * e PROVE FALSE
    BY <1>1
  <2>1. y * d < (q * e) * d
    BY <1>1
  <2>2. (q * d) * e <= x * e
    BY <1>1
  <2>3. (q * d) * e = (q * e) * d
    BY <1>1
  <2>. QED  BY <1>1, <2>1, <2>2, <2>3
<1>3. y < (q + 1) * e
  <2>. SUFFICES ASSUME (q + 1) * e <= y PROVE FALSE
    BY <1>1
  <2>1. ((q + 1) * e) * d <= y * d
    BY <1>1
  <2>2. x * e < ((q + 1) * d) * e
    BY <1>1
  <2>3. ((q + 1) * d) * e = ((q + 1) * e) * d
    BY <1>1
  <2>. QED  BY <1>1, <2>1, <2>2, <2>3
<1>4. y \div e = q
  <2>1. q * e <= y /\ y < (q + 1) * e /\ y \in Int /\ q \in Int
    BY <1>1, <1>2, <1>3
  <2>. QED  BY <2>1
<1>. QED  BY <1>4 DEF q

\* An impedance on a transformer's own rating is that on the case's.
LEMMA OwnRating ==
    ASSUME NEW z \in Nat, NEW v \in Nat, NEW rate \in Nat \ {0}, NEW sbase \in Nat \ {0}, (z * rate) % sbase = 0
    PROVE  Ohms((z * rate) \div sbase, v, rate) = Ohms(z, v, sbase)
<1> DEFINE own == (z * rate) \div sbase
           a == v \div 100
<1>1. own \in Nat /\ own * sbase = z * rate
  <2>1. z * rate \in Nat
    OBVIOUS
  <2>. QED  BY <2>1
<1>2. a \in Nat
  OBVIOUS
<1>3. Ohms(own, v, rate) = (own * a * a) \div (100 * rate) /\ Ohms(z, v, sbase) = (z * a * a) \div (100 * sbase)
  BY DEF Ohms
<1>. HIDE DEF own, a
<1>4. /\ own * a * a \in Nat /\ z * a * a \in Nat /\ 100 * rate \in Nat \ {0} /\ 100 * sbase \in Nat \ {0}
  BY <1>1, <1>2
<1>5. (own * a * a) * (100 * sbase) = (z * a * a) * (100 * rate)
  <2>1. (own * a * a) * (100 * sbase) = 100 * (a * a) * (own * sbase)
    BY <1>1, <1>2
  <2>2. (z * a * a) * (100 * rate) = 100 * (a * a) * (z * rate)
    BY <1>2
  <2>. QED  BY <1>1, <2>1, <2>2
<1>6. (own * a * a) \div (100 * rate) = (z * a * a) \div (100 * sbase)
  <2> DEFINE x == own * a * a
             y == z * a * a
             d == 100 * rate
             e == 100 * sbase
  <2>1. x \in Nat /\ y \in Nat /\ d \in Nat \ {0} /\ e \in Nat \ {0} /\ x * e = y * d
    BY <1>4, <1>5
  <2>. HIDE DEF x, y, d, e
  <2>2. x \div d = y \div e
    BY <2>1, SameProportion
  <2>. QED  BY <2>2 DEF x, y, d, e
<1>. QED  BY <1>3, <1>6 DEF own

LEMMA BranchesAreMany ==
    ASSUME NEW c, IsCase(c)
    PROVE  /\ Many(c) \in Nat /\ BranchIds(c) = 1..Many(c) /\ \A i \in BranchIds(c) : i \in Nat \ {0}
           /\ \A j \in DOMAIN c.transformers : /\ Len(c.lines) + j \in BranchIds(c) /\ Wound(c, Len(c.lines) + j)
                                               /\ BranchAt(c, Len(c.lines) + j) = c.transformers[j]
<1> DEFINE L == Len(c.lines)
           T == Len(c.transformers)
<1>1. L \in Nat /\ T \in Nat /\ DOMAIN c.transformers = 1..T
  BY CaseShape
<1>2. Many(c) = L + T /\ BranchIds(c) = 1..(L + T)
  BY DEF Many, BranchIds
<1>3. \A i : Wound(c, i) <=> i > L
  BY DEF Wound
<1>4. \A i : Wound(c, i) => BranchAt(c, i) = c.transformers[i - L]
  BY DEF BranchAt
<1>. HIDE DEF L, T
<1>5. L + T \in Nat /\ \A i \in 1..(L + T) : i \in Nat \ {0}
  BY <1>1
<1>6. ASSUME NEW j \in DOMAIN c.transformers
      PROVE  L + j \in BranchIds(c) /\ Wound(c, L + j) /\ BranchAt(c, L + j) = c.transformers[j]
  <2>1. j \in 1..T
    BY <1>1
  <2>2. L + j \in 1..(L + T) /\ L + j > L /\ (L + j) - L = j
    BY <1>1, <2>1
  <2>. QED  BY <1>2, <1>3, <1>4, <2>2
<1>. QED  BY <1>2, <1>5, <1>6 DEF L

\* What writing a case in the subset asks of it.
DssHolds(c, names) ==
    /\ NamesApart(names, Len(c.volts))
    /\ \A i \in BranchIds(c) :
          IF Wound(c, i) THEN (BranchAt(c, i).z * BranchAt(c, i).rate) % c.sbase = 0
          ELSE (BranchAt(c, i).rate * 1000) % c.volts[1] = 0
    /\ \A b \in DOMAIN c.volts :
          \/ c.volts[b] = c.volts[1]
          \/ \E i \in BranchIds(c) : Wound(c, i) /\ (b = BranchAt(c, i).from \/ b = BranchAt(c, i).to)

LEMMA DssWritable ==
    ASSUME NEW c, IsCase(c), NEW names, WritableInDss(c, names)
    PROVE  DssHolds(c, names)
<1> DEFINE ends == UNION {{c.transformers[i].from, c.transformers[i].to} : i \in DOMAIN c.transformers}
           texts == {names[b].text : b \in DOMAIN names}
<1>1. /\ names \in [DOMAIN c.volts -> [text : texts, number : Nat \union {Absent}]]
      /\ \A a, b \in DOMAIN c.volts : names[a] = names[b] => a = b
      /\ \A b \in DOMAIN c.volts \ ends : c.volts[b] = c.volts[1]
      /\ \A i \in DOMAIN c.lines : (c.lines[i].rate * 1000) % c.volts[1] = 0
      /\ \A i \in DOMAIN c.transformers : (c.transformers[i].z * c.transformers[i].rate) % c.sbase = 0
  BY DEF WritableInDss
<1>2. /\ DOMAIN c.volts = 1..Len(c.volts) /\ DOMAIN c.transformers = 1..Len(c.transformers)
      /\ DOMAIN c.lines = 1..Len(c.lines) /\ Len(c.lines) \in Nat /\ Len(c.transformers) \in Nat
  BY CaseShape
<1>3. NamesApart(names, Len(c.volts))
  <2>1. \A b \in DOMAIN c.volts : names[b].number \in Nat \union {Absent}
    <3>. HIDE DEF texts
    <3>. QED  BY <1>1
  <2>. QED  BY <1>1, <1>2, <2>1 DEF NamesApart
<1>4. ASSUME NEW i \in BranchIds(c)
      PROVE  IF Wound(c, i) THEN (BranchAt(c, i).z * BranchAt(c, i).rate) % c.sbase = 0
             ELSE (BranchAt(c, i).rate * 1000) % c.volts[1] = 0
  <2>1. CASE Wound(c, i)
    <3> DEFINE j == i - Len(c.lines)
    <3>1. j \in DOMAIN c.transformers /\ BranchAt(c, i) = c.transformers[j]
      BY <2>1, BranchShape
    <3>. HIDE DEF j
    <3>2. (c.transformers[j].z * c.transformers[j].rate) % c.sbase = 0
      BY <1>1, <3>1
    <3>. QED  BY <2>1, <3>1, <3>2
  <2>2. CASE ~Wound(c, i)
    <3>1. i \in DOMAIN c.lines /\ BranchAt(c, i) = c.lines[i]
      BY <2>2, BranchShape
    <3>2. (c.lines[i].rate * 1000) % c.volts[1] = 0
      BY <1>1, <3>1
    <3>. QED  BY <2>2, <3>1, <3>2
  <2>. QED  BY <2>1, <2>2
<1>5. ASSUME NEW b \in DOMAIN c.volts, c.volts[b] # c.volts[1]
      PROVE  \E i \in BranchIds(c) : Wound(c, i) /\ (b = BranchAt(c, i).from \/ b = BranchAt(c, i).to)
  <2>1. b \in ends
    BY <1>1, <1>5
  <2>2. PICK j \in DOMAIN c.transformers : b = c.transformers[j].from \/ b = c.transformers[j].to
    BY <2>1
  <2> DEFINE i == Len(c.lines) + j
  <2>3. i \in BranchIds(c) /\ Wound(c, i) /\ BranchAt(c, i) = c.transformers[j]
    BY BranchesAreMany
  <2>. HIDE DEF i
  <2>. QED  BY <2>2, <2>3
<1>. QED  BY <1>3, <1>4, <1>5 DEF DssHolds

\* One branch more.
LEMMA DssBranchMore ==
    ASSUME NEW c, NEW names, NEW B, NEW i \in Nat \ {0}, NEW s, DssHas(c, names, s, B, B, i - 1),
           NEW kvs, IsSeq(kvs), KvsTrue(c, s.names, kvs), KvsGiven(c, s.names, kvs, i),
           NEW br, DssMeant(c, s.names, i, br),
           NEW t, t = DssState(s.names, s.kv, s.source, s.loads, kvs, Append(s.branches, br))
    PROVE  DssHas(c, names, t, B, B, i)
<1> DEFINE more == Append(s.branches, br)
<1>1. IsSeq(s.branches) /\ Len(s.branches) = i - 1 /\ \A k \in 1..(i - 1) : DssMeant(c, s.names, k, s.branches[k])
  BY DEF DssHas
<1>2. IsSeq(more) /\ Len(more) = i /\ more[i] = br /\ \A k \in 1..(i - 1) : more[k] = s.branches[k]
  BY <1>1, Appended
<1>. HIDE DEF more
<1>3. \A k \in 1..i : DssMeant(c, s.names, k, more[k])
  <2>1. \A k \in 1..i : k = i \/ k \in 1..(i - 1)
    OBVIOUS
  <2>. QED  BY <1>1, <1>2, <2>1
<1>4. /\ t.names = s.names /\ t.kv = s.kv /\ t.source = s.source /\ t.loads = s.loads /\ t.kvs = kvs
      /\ t.branches = more
      /\ t = [names |-> t.names, kv |-> t.kv, source |-> t.source, loads |-> t.loads, kvs |-> t.kvs,
              branches |-> t.branches]
  BY DEF DssState, more
<1>5. /\ NamedFirst(names, s.names, B) /\ s.kv = c.volts[1] /\ s.source = names[1]
      /\ IsSeq(s.loads) /\ Len(s.loads) = B
      /\ \A k \in 1..B : s.loads[k].bus = s.names[k].id /\ s.loads[k].load = Watts(c, k)
  BY DEF DssHas
<1>6. i # 0
  OBVIOUS
<1>. HIDE DEF more
<1>. QED  BY <1>2, <1>3, <1>4, <1>5, <1>6 DEF DssHas

LEMMA DssLineRead ==
    ASSUME NEW c, IsCase(c), Absent \notin Int, NEW names, DssHolds(c, names), NEW i \in BranchIds(c), ~Wound(c, i),
           NEW s, DssHas(c, names, s, Len(c.volts), Len(c.volts), i - 1)
    PROVE  DssHas(c, names, Read(s, BranchStatement(c, names, i)), Len(c.volts), Len(c.volts), i)
<1> DEFINE st == BranchStatement(c, names, i)
           m == BranchAt(c, i)
           B == Len(c.volts)
           v == c.volts[1]
           br == DssBranch(s, s.names[m.from].id, s.names[m.to].id, st.z * st.length, m.rate, FALSE)
<1>1. /\ m.from \in DOMAIN c.volts /\ m.to \in DOMAIN c.volts /\ m.z \in Nat /\ m.rate \in Nat \ {0}
  BY BranchShape
<1>2. B \in Nat /\ DOMAIN c.volts = 1..B /\ \A b \in DOMAIN c.volts : c.volts[b] \in Nat \ {0}
  BY CaseShape
<1>3. CaseOhms(c, i) \in Nat
  BY CaseOhmsAre
<1>4. /\ st.element = "line" /\ st.bus1 = names[m.from] /\ st.bus2 = names[m.to] /\ st.length = 1
      /\ st.z = CaseOhms(c, i) /\ st.amps = (m.rate * 1000) \div v
  BY DEF BranchStatement
<1>5. NamedFirst(names, s.names, B) /\ s.kv = v /\ Len(s.branches) = i - 1
  BY DEF DssHas
<1>6. NamesApart(names, B) /\ (m.rate * 1000) % v = 0
  BY DEF DssHolds
<1>7. v \in Nat \ {0}
  BY <1>1, <1>2
<1>. HIDE DEF st, B, v
<1>8. \A b \in DOMAIN c.volts : Named(s.names, names[b]) = s.names /\ IdOf(s.names, names[b]) = s.names[b].id
  BY <1>2, <1>5, <1>6, NamedAgain
<1>9. /\ Named(Named(s.names, st.bus1), st.bus2) = s.names
      /\ IdOf(s.names, st.bus1) = s.names[m.from].id /\ IdOf(s.names, st.bus2) = s.names[m.to].id
  BY <1>1, <1>4, <1>8
<1>10. st.amps \in Nat /\ (st.amps * s.kv) \div 1000 = m.rate
  <2> DEFINE r == m.rate
             q == (r * 1000) \div v
  <2>. r \in Nat
    BY <1>1
  <2>. HIDE DEF r
  <2>1. q \in Nat /\ q * v = r * 1000
    <3>1. r * 1000 \in Nat /\ (r * 1000) % v = 0
      BY <1>6 DEF r
    <3>. QED  BY <1>7, <3>1
  <2>2. 1000 * r = r * 1000 /\ (1000 * r) \div 1000 = r
    BY ExactQuotient
  <2>3. st.amps = q /\ s.kv = v
    BY SMTT(30), <1>4, <1>5 DEF r
  <2>. HIDE DEF q
  <2>. QED  BY <2>1, <2>2, <2>3 DEF r
<1>11. Read(s, st) = DssState(s.names, s.kv, s.source, s.loads, s.kvs, Append(s.branches, br))
  <2> DEFINE more == Append(s.branches, br)
  <2>1. Read(s, st) = DssLine(s, st)
    BY <1>4 DEF Read
  <2>2. st.z # Absent /\ st.amps # Absent /\ s.kv \notin {Absent, 0}
    BY <1>3, <1>4, <1>5, <1>7, <1>10
  <2>3. DssLine(s, st) = [s EXCEPT !.names = s.names, !.branches = more]
    <3> DEFINE rating == IF st.amps = Absent \/ s.kv \in {Absent, 0} THEN Absent ELSE (st.amps * s.kv) \div 1000
               list == Named(Named(s.names, st.bus1), st.bus2)
    <3>1. rating = m.rate
      BY <1>10, <2>2
    <3>. HIDE DEF rating
    <3>2. DssLine(s, st) = [s EXCEPT !.names = list,
              !.branches = Append(@, DssBranch(s, IdOf(list, st.bus1), IdOf(list, st.bus2), st.z * st.length,
                                               rating, FALSE))]
      BY <2>2 DEF DssLine, rating
    <3>. HIDE DEF list
    <3>3. list = s.names
      BY <1>9 DEF list
    <3>4. DssLine(s, st) = [s EXCEPT !.names = s.names,
              !.branches = Append(@, DssBranch(s, IdOf(s.names, st.bus1), IdOf(s.names, st.bus2), st.z * st.length,
                                               m.rate, FALSE))]
      BY <3>1, <3>2, <3>3
    <3>. QED  BY <1>9, <3>4
  <2>. HIDE DEF more
  <2>4. s = DssState(s.names, s.kv, s.source, s.loads, s.kvs, s.branches)
    BY DEF DssHas, DssState
  <2>5. BranchesPut(NamesPut(s, s.names), more) = DssState(s.names, s.kv, s.source, s.loads, s.kvs, more)
    BY <2>4, PutInState
  <2>6. [s EXCEPT !.names = s.names, !.branches = more] = BranchesPut(NamesPut(s, s.names), more)
    BY DEF BranchesPut, NamesPut
  <2>. QED  BY <2>1, <2>3, <2>5, <2>6 DEF more
<1>12. i \in Nat \ {0}
  BY BranchesAreMany
<1>13. DssMeant(c, s.names, i, br)
  <2>1. st.z * st.length = CaseOhms(c, i)
    BY <1>3, <1>4
  <2>2. Len(s.branches) + 1 = i
    BY <1>5, <1>12
  <2>3. Wound(c, i) = FALSE
    BY DEF Wound
  <2>4. /\ br.id = i /\ br.from = s.names[m.from].id /\ br.to = s.names[m.to].id /\ br.z = CaseOhms(c, i)
        /\ br.z0 = Absent /\ br.rating = m.rate /\ br.transformer = FALSE /\ br.oltc = FALSE
        /\ br.connection = Absent /\ br.tap = Absent
    BY <2>1, <2>2 DEF DssBranch
  <2>. HIDE DEF br
  <2>. QED  BY <2>3, <2>4 DEF DssMeant
<1>14. IsSeq(s.kvs) /\ KvsTrue(c, s.names, s.kvs) /\ KvsGiven(c, s.names, s.kvs, i)
  <2>1. IsSeq(s.kvs) /\ KvsTrue(c, s.names, s.kvs) /\ KvsGiven(c, s.names, s.kvs, i - 1)
    BY DEF DssHas
  <2>2. \A k \in 1..i : k = i \/ k \in 1..(i - 1)
    BY <1>12
  <2>. QED  BY <2>1, <2>2 DEF KvsGiven
<1>. HIDE DEF br
<1>. QED  BY <1>11, <1>12, <1>13, <1>14, DssBranchMore DEF B, st

LEMMA DssTransformerRead ==
    ASSUME NEW c, IsCase(c), Absent \notin Int, NEW names, DssHolds(c, names), NEW i \in BranchIds(c), Wound(c, i),
           NEW s, DssHas(c, names, s, Len(c.volts), Len(c.volts), i - 1)
    PROVE  DssHas(c, names, Read(s, BranchStatement(c, names, i)), Len(c.volts), Len(c.volts), i)
<1> DEFINE st == BranchStatement(c, names, i)
           m == BranchAt(c, i)
           B == Len(c.volts)
           ohms == Ohms(st.z, st.kvs[1], st.kva)
           br == DssBranch(s, s.names[m.from].id, s.names[m.to].id, ohms, m.rate, TRUE)
           two == <<[bus |-> s.names[m.from].id, kv |-> c.volts[m.from]],
                    [bus |-> s.names[m.to].id, kv |-> c.volts[m.to]]>>
           kvs == s.kvs \o two
<1>1. /\ m.from \in DOMAIN c.volts /\ m.to \in DOMAIN c.volts /\ m.z \in Nat /\ m.rate \in Nat \ {0}
  BY BranchShape
<1>2. /\ B \in Nat /\ DOMAIN c.volts = 1..B /\ c.sbase \in Nat \ {0}
      /\ \A b \in DOMAIN c.volts : c.volts[b] \in Nat \ {0}
  BY CaseShape
<1>4. /\ st.element = "transformer" /\ st.buses[1] = names[m.from] /\ st.buses[2] = names[m.to]
      /\ Len(st.buses) = 2 /\ Len(st.kvs) = 2 /\ st.kvs[1] = c.volts[m.from] /\ st.kvs[2] = c.volts[m.to]
      /\ st.kva = m.rate /\ st.z = (m.z * m.rate) \div c.sbase
  BY DEF BranchStatement
<1>5. NamedFirst(names, s.names, B) /\ Len(s.branches) = i - 1 /\ IsSeq(s.kvs)
  BY DEF DssHas
<1>6. NamesApart(names, B) /\ (m.z * m.rate) % c.sbase = 0
  BY DEF DssHolds
<1>7. ohms = CaseOhms(c, i)
  <2>1. c.volts[m.from] \in Nat
    BY <1>1, <1>2
  <2>2. Ohms((m.z * m.rate) \div c.sbase, c.volts[m.from], m.rate) = Ohms(m.z, c.volts[m.from], c.sbase)
    <3> DEFINE z == m.z
               r == m.rate
               v == c.volts[m.from]
               b == c.sbase
    <3>1. z \in Nat /\ r \in Nat \ {0} /\ v \in Nat /\ b \in Nat \ {0} /\ (z * r) % b = 0
      BY <1>1, <1>2, <1>6, <2>1
    <3>. HIDE DEF z, r, v, b
    <3>2. Ohms((z * r) \div b, v, r) = Ohms(z, v, b)
      BY <3>1, OwnRating
    <3>. QED  BY <3>2 DEF z, r, v, b
  <2>3. CaseOhms(c, i) = Ohms(m.z, c.volts[m.from], c.sbase)
    BY DEF CaseOhms
  <2>. HIDE DEF st
  <2>. QED  BY <1>4, <2>2, <2>3
<1>. HIDE DEF st, B, ohms
<1>8. \A b \in DOMAIN c.volts : Named(s.names, names[b]) = s.names /\ IdOf(s.names, names[b]) = s.names[b].id
  BY <1>2, <1>5, <1>6, NamedAgain
<1>9. /\ Named(Named(s.names, st.buses[1]), st.buses[2]) = s.names
      /\ IdOf(s.names, st.buses[1]) = s.names[m.from].id /\ IdOf(s.names, st.buses[2]) = s.names[m.to].id
  BY <1>1, <1>4, <1>8
<1>11. Read(s, st) = DssState(s.names, s.kv, s.source, s.loads, kvs, Append(s.branches, br))
  <2> DEFINE more == Append(s.branches, br)
  <2>1. Read(s, st) = DssTransformer(s, st)
    BY <1>4 DEF Read
  <2>3. DssTransformer(s, st) = [s EXCEPT !.names = s.names, !.kvs = kvs, !.branches = more]
    <3> DEFINE list == Named(Named(s.names, st.buses[1]), st.buses[2])
    <3>1. DssTransformer(s, st) = [s EXCEPT !.names = list,
              !.kvs = @ \o <<[bus |-> IdOf(list, st.buses[1]), kv |-> st.kvs[1]],
                             [bus |-> IdOf(list, st.buses[2]), kv |-> st.kvs[2]]>>,
              !.branches = Append(@, DssBranch(s, IdOf(list, st.buses[1]), IdOf(list, st.buses[2]), ohms, st.kva, TRUE))]
      BY <1>4 DEF DssTransformer, ohms
    <3>. HIDE DEF list
    <3>2. list = s.names
      BY <1>9 DEF list
    <3>3. DssTransformer(s, st) = [s EXCEPT !.names = s.names,
              !.kvs = @ \o <<[bus |-> s.names[m.from].id, kv |-> c.volts[m.from]],
                             [bus |-> s.names[m.to].id, kv |-> c.volts[m.to]]>>,
              !.branches = Append(@, DssBranch(s, s.names[m.from].id, s.names[m.to].id, ohms, m.rate, TRUE))]
      BY <1>4, <1>9, <3>1, <3>2
    <3>. QED  BY <3>3
  <2>. HIDE DEF more, kvs
  <2>4. s = DssState(s.names, s.kv, s.source, s.loads, s.kvs, s.branches)
    BY DEF DssHas, DssState
  <2>5. BranchesPut(KvsPut(NamesPut(s, s.names), kvs), more) = DssState(s.names, s.kv, s.source, s.loads, kvs, more)
    BY <2>4, PutInState
  <2>6. [s EXCEPT !.names = s.names, !.kvs = kvs, !.branches = more]
        = BranchesPut(KvsPut(NamesPut(s, s.names), kvs), more)
    BY DEF BranchesPut, NamesPut, KvsPut
  <2>. QED  BY <2>1, <2>3, <2>5, <2>6 DEF more
<1>12. i \in Nat \ {0}
  BY BranchesAreMany
<1>13. DssMeant(c, s.names, i, br)
  <2>2. Len(s.branches) + 1 = i
    BY <1>5, <1>12
  <2>3. Wound(c, i) = TRUE
    BY DEF Wound
  <2>4. /\ br.id = i /\ br.from = s.names[m.from].id /\ br.to = s.names[m.to].id /\ br.z = CaseOhms(c, i)
        /\ br.z0 = Absent /\ br.rating = m.rate /\ br.transformer = TRUE /\ br.oltc = FALSE
        /\ br.connection = Absent /\ br.tap = Absent
    BY <1>7, <2>2 DEF DssBranch
  <2>. HIDE DEF br
  <2>. QED  BY <2>3, <2>4 DEF DssMeant
<1>14. /\ IsSeq(two) /\ Len(two) = 2 /\ two[1].bus = s.names[m.from].id /\ two[1].kv = c.volts[m.from]
       /\ two[2].bus = s.names[m.to].id /\ two[2].kv = c.volts[m.to]
  BY DEF IsSeq
<1>. HIDE DEF two
<1> DEFINE n == Len(s.kvs)
<1>15. /\ IsSeq(kvs) /\ Len(kvs) = n + 2 /\ \A j \in 1..n : kvs[j] = s.kvs[j]
       /\ kvs[n + 1] = two[1] /\ kvs[n + 2] = two[2]
  <2>1. /\ IsSeq(s.kvs \o two) /\ Len(s.kvs \o two) = n + Len(two)
        /\ \A j \in 1..n : (s.kvs \o two)[j] = s.kvs[j]
        /\ \A j \in 1..Len(two) : (s.kvs \o two)[n + j] = two[j]
    <3>1. IsSeq(s.kvs) /\ IsSeq(two)
      BY <1>5, <1>14
    <3>. QED  BY <3>1, EndToEnd
  <2>2. 1 \in 1..Len(two) /\ 2 \in 1..Len(two)
    BY <1>14
  <2>. QED  BY <1>14, <2>1, <2>2
<1>16. n \in Nat
  BY <1>5 DEF IsSeq
<1>. HIDE DEF kvs, n
<1>17. \A j \in 1..Len(kvs) : j \in 1..n \/ j = n + 1 \/ j = n + 2
  BY <1>15, <1>16
<1>18. /\ \A j \in 1..n : j \in 1..Len(kvs)
       /\ n + 1 \in 1..Len(kvs) /\ n + 2 \in 1..Len(kvs)
  BY <1>15, <1>16
<1>19. KvsTrue(c, s.names, kvs)
  <2>1. \A j \in 1..n : \E b \in 1..B : kvs[j].bus = s.names[b].id /\ kvs[j].kv = c.volts[b]
    <3>1. KvsTrue(c, s.names, s.kvs)
      BY DEF DssHas
    <3>2. \A j \in 1..n : \E b \in 1..B : s.kvs[j].bus = s.names[b].id /\ s.kvs[j].kv = c.volts[b]
      BY <3>1 DEF KvsTrue, n, B
    <3>3. \A j \in 1..n : kvs[j] = s.kvs[j]
      BY <1>15
    <3>. QED  BY <3>2, <3>3
  <2>2. /\ kvs[n + 1].bus = s.names[m.from].id /\ kvs[n + 1].kv = c.volts[m.from]
        /\ kvs[n + 2].bus = s.names[m.to].id /\ kvs[n + 2].kv = c.volts[m.to]
        /\ m.from \in 1..B /\ m.to \in 1..B
    BY <1>1, <1>2, <1>14, <1>15
  <2>3. \A j \in 1..Len(kvs) : \E b \in 1..B : kvs[j].bus = s.names[b].id /\ kvs[j].kv = c.volts[b]
    BY <1>17, <2>1, <2>2
  <2>. QED  BY <2>3 DEF KvsTrue, B
<1>20. KvsGiven(c, s.names, kvs, i)
  <2>1. KvsGiven(c, s.names, s.kvs, i - 1)
    BY DEF DssHas
  <2>2. KvsGiven(c, s.names, kvs, i - 1)
    <3>1. \A j \in 1..n : j \in 1..Len(kvs) /\ kvs[j] = s.kvs[j]
      BY <1>15, <1>18
    <3>2. \A x : (\E j \in 1..Len(s.kvs) : s.kvs[j].bus = x) => \E j \in 1..Len(kvs) : kvs[j].bus = x
      BY <3>1 DEF n
    <3>. QED  BY <2>1, <3>2 DEF KvsGiven
  <2>3. \A k \in 1..i : k = i \/ k \in 1..(i - 1)
    BY <1>12
  <2>4. kvs[n + 1].bus = s.names[m.from].id /\ kvs[n + 2].bus = s.names[m.to].id
    BY <1>14, <1>15
  <2>5. ASSUME NEW k \in 1..i, Wound(c, k)
        PROVE  /\ \E j \in 1..Len(kvs) : kvs[j].bus = s.names[BranchAt(c, k).from].id
               /\ \E j \in 1..Len(kvs) : kvs[j].bus = s.names[BranchAt(c, k).to].id
    <3>1. CASE k = i
      BY <1>18, <2>4, <3>1
    <3>2. CASE k \in 1..(i - 1)
      BY <2>2, <2>5, <3>2 DEF KvsGiven
    <3>. QED  BY <2>3, <3>1, <3>2
  <2>. QED  BY <2>5 DEF KvsGiven
<1>. HIDE DEF br
<1>21. IsSeq(kvs)
  BY <1>15
<1>. QED  BY <1>11, <1>12, <1>13, <1>19, <1>20, <1>21, DssBranchMore DEF B, st

\* Everything has been read.
LEMMA DssRead ==
    ASSUME NEW c, IsCase(c), Absent \notin Int, Len(c.volts) >= 1, NEW names, DssHolds(c, names)
    PROVE  DssHas(c, names, AllRead(Dss(c, names)), Len(c.volts), Len(c.volts), Many(c))
<1> DEFINE B == Len(c.volts)
           m == Many(c)
           file == Dss(c, names)
<1>1. B \in Nat /\ m \in Nat /\ B >= 1 /\ BranchIds(c) = 1..m
  BY CaseShape, BranchesAreMany
<1>2. DssFileIs(c, names, file, B, m)
  BY DssFile
<1>. HIDE DEF file, B, m
<1>3. /\ IsSeq(file) /\ Len(file) = 1 + B + m
      /\ file[1] = [element |-> "circuit", bus |-> names[1], kv |-> c.volts[1]]
      /\ \A b \in 1..B : file[1 + b] = LoadStatement(c, names, b)
      /\ \A i \in 1..m : file[1 + B + i] = BranchStatement(c, names, i)
  BY <1>2 DEF DssFileIs
<1>4. PICK s : /\ s[0] = DssStart /\ AllRead(file) = s[Len(file)]
               /\ \A k \in 1..Len(file) : s[k] = Read(s[k - 1], file[k])
  BY <1>3, AllReadIs
<1>5. DssHas(c, names, s[1], 1, 0, 0)
  <2>1. 1 \in 1..Len(file) /\ 1 - 1 = 0
    BY <1>1, <1>3
  <2>2. s[1] = Read(DssStart, [element |-> "circuit", bus |-> names[1], kv |-> c.volts[1]])
    BY <1>3, <1>4, <2>1
  <2>3. NamesApart(names, B)
    BY DEF DssHolds, B
  <2>. QED  BY <1>1, <2>2, <2>3, CircuitRead
<1> DEFINE T == {b \in Nat : (b >= 1 /\ b <= B) => DssHas(c, names, s[1 + b], b, b, 0)}
<1>6. \A b \in Nat : (b >= 1 /\ b <= B) => DssHas(c, names, s[1 + b], b, b, 0)
  <2>1. 0 \in T
    OBVIOUS
  <2>2. ASSUME NEW a \in Nat, a \in T PROVE a + 1 \in T
    <3> DEFINE b == a + 1
    <3>. SUFFICES ASSUME b <= B PROVE DssHas(c, names, s[1 + b], b, b, 0)
      OBVIOUS
    <3>1. b \in 1..B /\ b - 1 = a /\ 1 + b \in 1..Len(file) /\ (1 + b) - 1 = 1 + a
      BY <1>1, <1>3
    <3>2. s[1 + b] = Read(s[1 + a], LoadStatement(c, names, b))
      BY <1>3, <1>4, <3>1
    <3>3. DssHas(c, names, s[1 + a], IF b = 1 THEN 1 ELSE b - 1, b - 1, 0)
      <4>1. CASE b = 1
        BY <1>5, <3>1, <4>1
      <4>2. CASE b # 1
        <5>1. a >= 1 /\ a <= B
          BY <1>1, <3>1, <4>2
        <5>. QED  BY <2>2, <3>1, <4>2, <5>1
      <4>. QED  BY <4>1, <4>2
    <3>4. NamesApart(names, B)
      BY DEF DssHolds, B
    <3>. HIDE DEF b
    <3>5. DssHas(c, names, Read(s[1 + a], LoadStatement(c, names, b)), b, b, 0)
      BY <3>1, <3>3, <3>4, DssLoadRead DEF B
    <3>. QED  BY <3>2, <3>5
  <2>. HIDE DEF T
  <2>3. Nat \subseteq T
    BY <2>1, <2>2, NatIsBuiltUp
  <2>. QED  BY <2>3 DEF T
<1>7. DssHas(c, names, s[1 + B + 0], B, B, 0)
  BY <1>1, <1>6
<1> DEFINE U == {i \in Nat : i <= m => DssHas(c, names, s[1 + B + i], B, B, i)}
<1>8. \A i \in Nat : i <= m => DssHas(c, names, s[1 + B + i], B, B, i)
  <2>1. 0 \in U
    BY <1>7
  <2>2. ASSUME NEW a \in Nat, a \in U PROVE a + 1 \in U
    <3> DEFINE i == a + 1
    <3>. SUFFICES ASSUME i <= m PROVE DssHas(c, names, s[1 + B + i], B, B, i)
      OBVIOUS
    <3>1. i \in 1..m /\ i - 1 = a /\ 1 + B + i \in 1..Len(file) /\ (1 + B + i) - 1 = 1 + B + a /\ a <= m
      BY <1>1, <1>3
    <3>2. s[1 + B + i] = Read(s[1 + B + a], BranchStatement(c, names, i))
      BY <1>3, <1>4, <3>1
    <3>3. DssHas(c, names, s[1 + B + a], B, B, i - 1)
      BY <2>2, <3>1
    <3>4. i \in BranchIds(c)
      BY <1>1, <3>1
    <3>. HIDE DEF i
    <3>5. DssHas(c, names, Read(s[1 + B + a], BranchStatement(c, names, i)), B, B, i)
      <4>1. CASE Wound(c, i)
        BY <3>3, <3>4, <4>1, DssTransformerRead DEF B
      <4>2. CASE ~Wound(c, i)
        BY <3>3, <3>4, <4>2, DssLineRead DEF B
      <4>. QED  BY <4>1, <4>2
    <3>. QED  BY <3>2, <3>5
  <2>. HIDE DEF U
  <2>3. Nat \subseteq U
    BY <2>1, <2>2, NatIsBuiltUp
  <2>. QED  BY <2>3 DEF U
<1>9. DssHas(c, names, s[1 + B + m], B, B, m)
  BY <1>1, <1>8
<1>10. AllRead(file) = s[1 + B + m]
  BY <1>3, <1>4
<1>. QED  BY <1>9, <1>10 DEF file, B, m

\* The network a file is: that of the case, with numbers num.
Renumbered(c, num, net) ==
    /\ net = [id |-> net.id, kv |-> net.kv, source |-> net.source, buses |-> net.buses, branches |-> net.branches]
    /\ net.kv = c.volts[1] /\ net.source = num[1]
    /\ \A a, b \in DOMAIN c.volts : num[a] \in Nat /\ (num[a] = num[b] => a = b)
    /\ IsSeq(net.buses) /\ Len(net.buses) = Len(c.volts)
    /\ \A b \in DOMAIN c.volts :
          /\ net.buses[b].bus = num[b] /\ net.buses[b].load = Watts(c, b) /\ net.buses[b].phases = Absent
          /\ net.buses[b].kv = IF c.volts[b] = c.volts[1] THEN Absent ELSE c.volts[b]
    /\ IsSeq(net.branches) /\ Len(net.branches) = Many(c)
    /\ \A i \in BranchIds(c) :
          LET m == BranchAt(c, i)
              br == net.branches[i]
          IN /\ br.id = i /\ br.from = num[m.from] /\ br.to = num[m.to] /\ br.z = CaseOhms(c, i) /\ br.z0 = Absent
             /\ br.rating = m.rate /\ br.transformer = Wound(c, i) /\ br.oltc = FALSE /\ br.connection = Absent
             /\ br.tap = Absent

\* A voltage is the last winding's, or the circuit's.
LEMMA DssVoltsAre ==
    ASSUME NEW c, IsCase(c), NEW names, DssHolds(c, names), NEW s,
           DssHas(c, names, s, Len(c.volts), Len(c.volts), Many(c)), NEW b \in DOMAIN c.volts
    PROVE  DssVolts(s, s.names[b].id) = c.volts[b]
<1> DEFINE B == Len(c.volts)
           id == s.names[b].id
           at == {i \in DOMAIN s.kvs : s.kvs[i].bus = id}
<1>1. B \in Nat /\ DOMAIN c.volts = 1..B /\ BranchIds(c) = 1..Many(c)
  BY CaseShape, BranchesAreMany
<1>2. /\ NamedFirst(names, s.names, B) /\ s.kv = c.volts[1] /\ IsSeq(s.kvs) /\ KvsTrue(c, s.names, s.kvs)
      /\ KvsGiven(c, s.names, s.kvs, Many(c))
  BY DEF DssHas
<1>3. DOMAIN s.kvs = 1..Len(s.kvs) /\ Len(s.kvs) \in Nat
  BY <1>2, SeqsAre
<1>4. CASE at = {}
  <2>1. ~\E i \in BranchIds(c) : Wound(c, i) /\ (b = BranchAt(c, i).from \/ b = BranchAt(c, i).to)
    BY <1>1, <1>2, <1>3, <1>4 DEF KvsGiven
  <2>2. c.volts[b] = c.volts[1]
    BY <2>1 DEF DssHolds
  <2>. QED  BY <1>2, <1>4, <2>2 DEF DssVolts
<1>5. CASE at # {}
  <2>1. at \in SUBSET Int /\ IsFiniteSet(at)
    <3>1. IsFiniteSet(1..Len(s.kvs))
      BY <1>3, FS_Interval
    <3>2. at \subseteq 1..Len(s.kvs)
      BY <1>3
    <3>. HIDE DEF at
    <3>. QED  BY <1>3, <3>1, <3>2, FS_Subset
  <2>2. Max(at) \in at
    <3>. HIDE DEF at
    <3>. QED  BY <1>5, <2>1, GreatestExists
  <2> DEFINE j == Max(at)
  <2>3. j \in 1..Len(s.kvs) /\ s.kvs[j].bus = id
    BY <1>3, <2>2
  <2>. HIDE DEF j
  <2>4. PICK a \in 1..B : s.kvs[j].bus = s.names[a].id /\ s.kvs[j].kv = c.volts[a]
    BY <1>2, <2>3 DEF KvsTrue
  <2>5. a = b
    BY <1>1, <1>2, <2>3, <2>4 DEF NamedFirst
  <2>. QED  BY <1>5, <2>4, <2>5 DEF DssVolts, j
<1>. QED  BY <1>4, <1>5

\* The load of a bus is the one statement that names it.
LEMMA OneLoadEach ==
    ASSUME NEW n \in Nat, NEW loads, IsSeq(loads), Len(loads) = n, NEW id, NEW w,
           \A k \in 1..n : loads[k].bus = id[k] /\ loads[k].load = w[k] /\ w[k] \in Nat,
           \A a, b \in 1..n : id[a] = id[b] => a = b, NEW b \in 1..n
    PROVE  LoadAt(loads, id[b]) = w[b]
<1> DEFINE u == [k \in DOMAIN loads |-> loads[k].load]
           S == {k \in DOMAIN loads : loads[k].bus = id[b]}
<1>1. DOMAIN loads = 1..n
  BY SeqsAre
<1>2. S = {b}
  BY <1>1
<1>3. Ints(u, S) /\ IsFiniteSet(S) /\ u[b] = w[b]
  <2>1. IsFiniteSet({b})
    BY FS_Singleton
  <2>2. Ints(u, {b}) /\ u[b] = w[b]
    BY <1>1 DEF Ints
  <2>. HIDE DEF S
  <2>. QED  BY <1>2, <2>1, <2>2
<1>4. LoadAt(loads, id[b]) = SumFunctionOnSet(u, S)
  BY DEF LoadAt
<1>. HIDE DEF u, S
<1>5. b \in S /\ S \ {b} = {}
  BY <1>2
<1>6. SumFunctionOnSet(u, S) = u[b] + SumFunctionOnSet(u, S \ {b})
  BY <1>3, <1>5, SumWithout
<1>7. SumFunctionOnSet(u, S \ {b}) = 0
  BY <1>5, SumOfNone
<1>8. w[b] \in Nat
  OBVIOUS
<1>. QED  BY <1>3, <1>4, <1>6, <1>7, <1>8

LEMMA DssNetwork ==
    ASSUME NEW c, Accepted(c), NEW names, WritableInDss(c, names)
    PROVE  \E net, num : FromDss(Dss(c, names)) = Imported(net) /\ Renumbered(c, num, net)
<1> DEFINE B == Len(c.volts)
           s == AllRead(Dss(c, names))
           num == [b \in 1..B |-> s.names[b].id]
           buses == [i \in DOMAIN s.names |->
                       LET b == s.names[i].id IN
                       [bus |-> b, load |-> LoadAt(s.loads, b), phases |-> Absent,
                        kv |-> IF DssVolts(s, b) = s.kv THEN Absent ELSE DssVolts(s, b)]]
           net == [id |-> Absent, kv |-> s.kv, source |-> IdOf(s.names, s.source), buses |-> buses,
                   branches |-> s.branches]
<1>1. IsCase(c) /\ Absent \notin Int
  BY DEF Accepted
<1>2. /\ B \in Nat /\ B >= 1 /\ DOMAIN c.volts = 1..B /\ \A b \in DOMAIN c.volts : c.volts[b] \in Nat \ {0}
  <2>1. Len(c.volts) >= 2
    BY CaseAccepted
  <2>. QED  BY <1>1, <2>1, CaseShape
<1>3. Many(c) \in Nat /\ Many(c) >= 1 /\ BranchIds(c) = 1..Many(c)
  BY <1>1, BranchesAreMany, CaseAccepted DEF Many
<1>4. DssHolds(c, names)
  BY <1>1, DssWritable
<1>5. DssHas(c, names, s, B, B, Many(c))
  BY <1>1, <1>2, <1>4, DssRead
<1>6. \A b \in DOMAIN c.volts : DssVolts(s, s.names[b].id) = c.volts[b]
  <2>. HIDE DEF s
  <2>. QED  BY <1>1, <1>4, <1>5, DssVoltsAre DEF B
<1>7. FromDss(Dss(c, names)) = IF s.kv = Absent \/ s.branches = <<>> THEN ImportError ELSE Imported(net)
  BY DEF FromDss
<1>. HIDE DEF s, B
<1>8. /\ NamedFirst(names, s.names, B) /\ s.kv = c.volts[1] /\ s.source = names[1]
      /\ IsSeq(s.loads) /\ Len(s.loads) = B
      /\ \A k \in 1..B : s.loads[k].bus = s.names[k].id /\ s.loads[k].load = Watts(c, k)
      /\ IsSeq(s.branches) /\ Len(s.branches) = Many(c)
      /\ \A k \in 1..Many(c) : DssMeant(c, s.names, k, s.branches[k])
  BY <1>5 DEF DssHas
<1>9. FromDss(Dss(c, names)) = Imported(net)
  <2>1. s.kv # Absent
    BY <1>1, <1>2, <1>8
  <2>2. s.branches # <<>>
    BY <1>3, <1>8
  <2>. HIDE DEF net
  <2>. QED  BY <1>7, <2>1, <2>2
<1>10. /\ DOMAIN s.names = 1..B /\ IsSeq(s.names) /\ \A b \in 1..B : num[b] = s.names[b].id /\ num[b] \in Nat
       /\ \A a, b \in 1..B : num[a] = num[b] => a = b
  <2>1. IsSeq(s.names) /\ Len(s.names) = B
    BY <1>8 DEF NamedFirst
  <2>2. DOMAIN s.names = 1..B
    BY <2>1, SeqsAre
  <2>. QED  BY <1>8, <2>1, <2>2 DEF NamedFirst
<1>11. IdOf(s.names, s.source) = num[1]
  <2>1. NamesApart(names, B) /\ 1 \in 1..B
    BY <1>2, <1>4 DEF DssHolds, B
  <2>. QED  BY <1>2, <1>8, <1>10, <2>1, NamedAgain
<1>12. \A b \in 1..B : LoadAt(s.loads, num[b]) = Watts(c, b)
  <2>. SUFFICES ASSUME NEW b \in 1..B PROVE LoadAt(s.loads, num[b]) = Watts(c, b)
    OBVIOUS
  <2> DEFINE w == [k \in 1..B |-> Watts(c, k)]
  <2>1. \A k \in 1..B : s.loads[k].bus = num[k] /\ s.loads[k].load = w[k] /\ w[k] \in Nat
    BY <1>1, <1>8, WattsAre
  <2>2. w[b] = Watts(c, b)
    OBVIOUS
  <2>. HIDE DEF num, w
  <2>3. LoadAt(s.loads, num[b]) = w[b]
    <3>1. B \in Nat /\ IsSeq(s.loads) /\ Len(s.loads) = B
      BY <1>2, <1>8
    <3>2. \A x, y \in 1..B : num[x] = num[y] => x = y
      BY <1>10
    <3> DEFINE loads == s.loads
    <3>3. IsSeq(loads) /\ Len(loads) = B /\ \A k \in 1..B : loads[k].bus = num[k] /\ loads[k].load = w[k] /\ w[k] \in Nat
      BY <2>1, <3>1
    <3>. HIDE DEF loads
    <3>4. LoadAt(loads, num[b]) = w[b]
      BY <3>1, <3>2, <3>3, OneLoadEach
    <3>. QED  BY <3>4 DEF loads
  <2>. QED  BY <2>2, <2>3
<1>13. \A b \in 1..B : /\ buses[b].bus = num[b] /\ buses[b].load = Watts(c, b) /\ buses[b].phases = Absent
                       /\ buses[b].kv = IF c.volts[b] = c.volts[1] THEN Absent ELSE c.volts[b]
  <2>. SUFFICES ASSUME NEW b \in 1..B
       PROVE /\ buses[b].bus = num[b] /\ buses[b].load = Watts(c, b) /\ buses[b].phases = Absent
             /\ buses[b].kv = IF c.volts[b] = c.volts[1] THEN Absent ELSE c.volts[b]
    OBVIOUS
  <2>1. s.names[b].id = num[b] /\ LoadAt(s.loads, num[b]) = Watts(c, b) /\ DssVolts(s, num[b]) = c.volts[b]
    BY <1>2, <1>6, <1>10, <1>12
  <2>2. buses[b] = [bus |-> num[b], load |-> LoadAt(s.loads, num[b]), phases |-> Absent,
                    kv |-> IF DssVolts(s, num[b]) = s.kv THEN Absent ELSE DssVolts(s, num[b])]
    <3>. HIDE DEF num
    <3>. QED  BY <1>10, <2>1
  <2>. HIDE DEF buses, num
  <2>. QED  BY <1>8, <2>1, <2>2
<1>14. IsSeq(buses) /\ Len(buses) = B
  <2>1. buses = [i \in 1..B |-> buses[i]]
    BY <1>10
  <2>. HIDE DEF buses
  <2>. QED  BY <1>2, <2>1, Tabulated
<1>15. \A i \in BranchIds(c) :
          LET m == BranchAt(c, i)
              br == s.branches[i]
          IN /\ br.id = i /\ br.from = num[m.from] /\ br.to = num[m.to] /\ br.z = CaseOhms(c, i) /\ br.z0 = Absent
             /\ br.rating = m.rate /\ br.transformer = Wound(c, i) /\ br.oltc = FALSE /\ br.connection = Absent
             /\ br.tap = Absent
  <2>. SUFFICES ASSUME NEW i \in BranchIds(c)
       PROVE  LET m == BranchAt(c, i)
                  br == s.branches[i]
              IN /\ br.id = i /\ br.from = num[m.from] /\ br.to = num[m.to] /\ br.z = CaseOhms(c, i)
                 /\ br.z0 = Absent /\ br.rating = m.rate /\ br.transformer = Wound(c, i) /\ br.oltc = FALSE
                 /\ br.connection = Absent /\ br.tap = Absent
    OBVIOUS
  <2>1. DssMeant(c, s.names, i, s.branches[i])
    BY <1>3, <1>8
  <2>2. BranchAt(c, i).from \in 1..B /\ BranchAt(c, i).to \in 1..B
    BY <1>1, <1>2, BranchShape
  <2>. QED  BY <1>10, <2>1, <2>2 DEF DssMeant
<1>. HIDE DEF num, buses
<1>16. Renumbered(c, num, net)
  BY <1>2, <1>8, <1>10, <1>11, <1>13, <1>14, <1>15 DEF Renumbered, B
<1>. QED  BY <1>9, <1>16

\* Buses and branches of a network that is the case but for its numbers.
LEMMA RenumberedShape ==
    ASSUME NEW c, IsCase(c), Absent \notin Int, NEW num, NEW d, Renumbered(c, num, d)
    PROVE  /\ Len(c.volts) \in Nat /\ DOMAIN c.volts = 1..Len(c.volts)
           /\ DOMAIN d.buses = DOMAIN c.volts /\ Len(d.buses) = Len(c.volts)
           /\ Many(c) \in Nat /\ BranchIds(c) = 1..Many(c)
           /\ DOMAIN d.branches = BranchIds(c) /\ Len(d.branches) = Many(c)
           /\ BusIds(d) = {num[b] : b \in DOMAIN c.volts}
           /\ \A b \in DOMAIN c.volts :
                 /\ (CHOOSE i \in DOMAIN d.buses : d.buses[i].bus = num[b]) = b
                 /\ (IF d.buses[b].kv = Absent THEN d.kv ELSE d.buses[b].kv) = c.volts[b]
                 /\ BusKv(d, num[b]) = c.volts[b]
<1> DEFINE n == Len(c.volts)
<1>1. n \in Nat /\ DOMAIN c.volts = 1..n /\ \A b \in DOMAIN c.volts : c.volts[b] \in Nat \ {0}
  BY CaseShape
<1>2. Many(c) \in Nat /\ BranchIds(c) = 1..Many(c)
  BY BranchesAreMany
<1>3. /\ IsSeq(d.buses) /\ Len(d.buses) = n /\ IsSeq(d.branches) /\ Len(d.branches) = Many(c) /\ d.kv = c.volts[1]
  BY DEF Renumbered
<1>4. \A b \in DOMAIN c.volts :
         /\ d.buses[b].bus = num[b]
         /\ d.buses[b].kv = IF c.volts[b] = c.volts[1] THEN Absent ELSE c.volts[b]
  BY DEF Renumbered
<1>5. \A a, b \in DOMAIN c.volts : num[a] = num[b] => a = b
  BY DEF Renumbered
<1>6. DOMAIN d.buses = DOMAIN c.volts /\ DOMAIN d.branches = BranchIds(c)
  BY <1>1, <1>2, <1>3, SeqsAre
<1>. HIDE DEF n
<1>7. BusIds(d) = {num[b] : b \in DOMAIN c.volts}
  BY <1>4, <1>6 DEF BusIds
<1>8. ASSUME NEW b \in DOMAIN c.volts
      PROVE  /\ (CHOOSE i \in DOMAIN d.buses : d.buses[i].bus = num[b]) = b
             /\ (IF d.buses[b].kv = Absent THEN d.kv ELSE d.buses[b].kv) = c.volts[b]
             /\ BusKv(d, num[b]) = c.volts[b]
  <2>1. (CHOOSE i \in DOMAIN d.buses : d.buses[i].bus = num[b]) = b
    <3>1. \A i \in DOMAIN d.buses : d.buses[i].bus = num[b] => i = b
      BY <1>4, <1>5, <1>6
    <3>2. b \in DOMAIN d.buses /\ d.buses[b].bus = num[b]
      BY <1>4, <1>6
    <3>. QED  BY <3>1, <3>2
  <2>2. (IF d.buses[b].kv = Absent THEN d.kv ELSE d.buses[b].kv) = c.volts[b]
    BY <1>1, <1>3, <1>4
  <2>3. BusOf(d, num[b]) = d.buses[b]
    BY <2>1 DEF BusOf
  <2>. QED  BY <2>1, <2>2, <2>3 DEF BusKv
<1>. QED  BY <1>1, <1>2, <1>3, <1>6, <1>7, <1>8 DEF n

\* It is the same network.
LEMMA RenumberedIsSame ==
    ASSUME NEW c, IsCase(c), Absent \notin Int, Len(c.volts) >= 1, NEW num, NEW d, Renumbered(c, num, d)
    PROVE  SameUpToNumbers(d, Meaning(c))
<1> DEFINE at(b) == CHOOSE i \in DOMAIN d.buses : d.buses[i].bus = b
           volts(i) == IF d.buses[i].kv = Absent THEN d.kv ELSE d.buses[i].kv
           m == Meaning(c)
           B == Len(c.volts)
<1>1. /\ B \in Nat /\ DOMAIN c.volts = 1..B /\ DOMAIN d.buses = DOMAIN c.volts /\ Len(d.buses) = B
      /\ DOMAIN d.branches = BranchIds(c) /\ Len(d.branches) = Many(c)
      /\ \A b \in DOMAIN c.volts : at(num[b]) = b /\ volts(b) = c.volts[b]
  BY RenumberedShape
<1>2. /\ Len(m.buses) = B /\ Len(m.branches) = Many(c) /\ m.source = 1
      /\ \A b \in 1..B : m.buses[b].load = Watts(c, b) /\ m.buses[b].kv = c.volts[b]
  <2>1. /\ Len(m.buses) = B /\ Len(m.branches) = Many(c)
        /\ \A b \in 1..B : m.buses[b] = [bus |-> b, load |-> Watts(c, b), kv |-> c.volts[b], phases |-> Absent]
    BY MeaningShape DEF Many
  <2>2. m.source = 1
    BY DEF Meaning
  <2>3. \A b \in DOMAIN c.volts : m.buses[b].load = Watts(c, b) /\ m.buses[b].kv = c.volts[b]
    BY DEF Meaning
  <2>. QED  BY <1>1, <2>1, <2>2, <2>3
<1>3. Cardinality(Known(d.buses)) = B
  <2> DEFINE f == [i \in 1..B |-> d.buses[i].bus]
  <2>1. \A i \in 1..B : f[i] = num[i]
    BY <1>1 DEF Renumbered
  <2>2. \A i \in 1..B : ~NumbersBefore(f, i, f[i])
    <3>. SUFFICES ASSUME NEW i \in 1..B, NEW j \in 1..(i - 1), f[j] = f[i] PROVE FALSE
      BY DEF NumbersBefore
    <3>1. j \in 1..B /\ j # i
      BY <1>1
    <3>2. num[j] = num[i]
      BY <2>1, <3>1
    <3>. QED  BY <1>1, <3>1, <3>2 DEF Renumbered
  <2>3. Known(d.buses) = {f[i] : i \in 1..B}
    BY <1>1, ZenonT(30) DEF Known
  <2>4. DOMAIN f = 1..B
    OBVIOUS
  <2>. HIDE DEF f, B
  <2>5. Cardinality({f[i] : i \in 1..B}) = B
    BY <1>1, <2>2, <2>4, NumberedApart
  <2>. QED  BY <2>3, <2>5
<1>4. \A i \in DOMAIN d.buses : d.buses[i].load = m.buses[i].load /\ volts(i) = m.buses[i].kv
  <2>1. \A b \in DOMAIN c.volts : d.buses[b].load = Watts(c, b)
    BY DEF Renumbered
  <2>. HIDE DEF volts, m, B
  <2>. QED  BY <1>1, <1>2, <2>1
<1>5. at(d.source) = m.source
  <2>1. 1 \in DOMAIN c.volts /\ d.source = num[1]
    BY <1>1 DEF Renumbered
  <2>. QED  BY <1>1, <1>2, <2>1
<1>6. ASSUME NEW i \in DOMAIN d.branches
      PROVE  /\ <<at(d.branches[i].from), at(d.branches[i].to)>> = <<m.branches[i].from, m.branches[i].to>>
             /\ <<d.branches[i].z, d.branches[i].rating, d.branches[i].transformer>>
                = <<m.branches[i].z, m.branches[i].rating, m.branches[i].transformer>>
  <2>1. i \in BranchIds(c)
    BY <1>1
  <2>2. /\ d.branches[i].from = num[BranchAt(c, i).from] /\ d.branches[i].to = num[BranchAt(c, i).to]
        /\ d.branches[i].z = CaseOhms(c, i) /\ d.branches[i].rating = BranchAt(c, i).rate
        /\ d.branches[i].transformer = Wound(c, i)
    BY <2>1 DEF Renumbered
  <2>3. BranchAt(c, i).from \in DOMAIN c.volts /\ BranchAt(c, i).to \in DOMAIN c.volts
    BY <2>1, BranchShape
  <2>4. /\ m.branches[i].from = BranchAt(c, i).from /\ m.branches[i].to = BranchAt(c, i).to
        /\ m.branches[i].transformer = Wound(c, i) /\ m.branches[i].z = CaseOhms(c, i)
        /\ m.branches[i].rating = BranchAt(c, i).rate
    BY <2>1, MeantBranch
  <2>5. at(d.branches[i].from) = BranchAt(c, i).from /\ at(d.branches[i].to) = BranchAt(c, i).to
    BY SMTT(30), <1>1, <2>2, <2>3
  <2>. HIDE DEF at, m
  <2>. QED  BY <2>2, <2>4, <2>5
<1>7. /\ Len(d.buses) = Len(m.buses) /\ Cardinality(Known(d.buses)) = Len(m.buses)
      /\ Len(d.branches) = Len(m.branches)
  BY <1>1, <1>2, <1>3
<1>. QED  BY <1>4, <1>5, <1>6, <1>7 DEF SameUpToNumbers

\* No check that finds nothing, no fault.
LEMMA AllPass ==
    ASSUME NEW f, \A i \in DOMAIN f : f[i] = "none"
    PROVE  FirstFault(f) = "none"
BY DEF FirstFault

LEMMA PassesIsAccepted ==
    ASSUME NEW d, HeaderFault(d) = "none", SourceFault(d) = "none", IslandFault(d) = "none",
           \A i \in DOMAIN d.buses : BusFault(d, i) = "none",
           \A i \in DOMAIN d.branches : BranchFault(d, i) = "none"
    PROVE  Verdict(d) = "ok"
<1> DEFINE buses == [i \in DOMAIN d.buses |-> BusFault(d, i)]
           branches == [i \in DOMAIN d.branches |-> BranchFault(d, i)]
           faults == <<HeaderFault(d), FirstFault(buses), SourceFault(d), FirstFault(branches), IslandFault(d)>>
<1>1. FirstFault(buses) = "none"
  <2>1. \A i \in DOMAIN buses : buses[i] = "none"
    OBVIOUS
  <2>. HIDE DEF buses
  <2>. QED  BY <2>1, AllPass
<1>2. FirstFault(branches) = "none"
  <2>1. \A i \in DOMAIN branches : branches[i] = "none"
    OBVIOUS
  <2>. HIDE DEF branches
  <2>. QED  BY <2>1, AllPass
<1>3. FirstFault(faults) = "none"
  <2>1. \A i \in DOMAIN faults : faults[i] = "none"
    <3>. HIDE DEF buses, branches
    <3>. QED  BY <1>1, <1>2
  <2>. HIDE DEF faults
  <2>. QED  BY <2>1, AllPass
<1>4. Verdict(d) = IF FirstFault(faults) = "none" THEN "ok" ELSE FirstFault(faults)
  BY DEF Verdict
<1>. HIDE DEF faults
<1>. QED  BY <1>3, <1>4

\* What the acceptance of a case under the id n says beyond its shape.
LEMMA MeaningAccepted ==
    ASSUME NEW c, IsCase(c), Text \notin Int, Absent \notin Int, NEW n, Verdict([Meaning(c) EXCEPT !.id = n]) = "ok"
    PROVE  /\ n \in Slugs /\ Absent # Text
           /\ \E m : /\ DOMAIN c.volts \subseteq Reached(m) /\ Len(m.buses) = Len(c.volts) /\ m.source = 1
                     /\ DOMAIN m.branches = BranchIds(c)
                     /\ \A i \in BranchIds(c) : /\ m.branches[i].from = BranchAt(c, i).from
                                                /\ m.branches[i].to = BranchAt(c, i).to
<1> DEFINE d == [Meaning(c) EXCEPT !.id = n]
<1>1. /\ d.buses = Meaning(c).buses /\ d.branches = Meaning(c).branches /\ d.source = 1 /\ d.kv = c.volts[1]
      /\ d.id = n
  BY DEF Meaning
<1>2. Verdict(d) = "ok"
  OBVIOUS
<1>. HIDE DEF d
<1>3. Len(c.volts) \in Nat /\ Many(c) \in Nat /\ BranchIds(c) = 1..Many(c) /\ DOMAIN c.volts = 1..Len(c.volts)
  BY CaseShape, BranchesAreMany
<1>4. /\ DOMAIN d.buses = 1..Len(c.volts) /\ Len(d.buses) = Len(c.volts)
      /\ DOMAIN d.branches = BranchIds(c) /\ Len(d.branches) = Many(c)
      /\ BusIds(d) = DOMAIN c.volts
  <2>1. BusIds(d) = BusIds(Meaning(c))
    BY <1>1 DEF BusIds
  <2>2. /\ DOMAIN Meaning(c).buses = 1..Len(c.volts) /\ Len(Meaning(c).buses) = Len(c.volts)
        /\ DOMAIN Meaning(c).branches = BranchIds(c)
        /\ Len(Meaning(c).branches) = Many(c)
        /\ BusIds(Meaning(c)) = DOMAIN c.volts
    BY MeaningShape DEF Many
  <2>. QED  BY <1>1, <2>1, <2>2
<1>5. IsNetwork(d)
  BY <1>3, <1>4 DEF IsNetwork, IsList
<1>6. /\ HeaderFault(d) = "none" /\ IslandFault(d) = "none"
      /\ \A i \in BranchIds(c) : BranchFault(d, i) = "none"
  BY <1>2, <1>4, <1>5, AcceptedPasses
<1>7. n \in Slugs /\ ~(Len(d.branches) < 1)
  BY <1>1, <1>6 DEF HeaderFault
<1>8. Absent # Text
  <2>1. 1 \in BranchIds(c)
    <3>1. Len(d.branches) >= 1
      BY <1>3, <1>4, <1>7
    <3>. QED  BY <1>3, <1>4, <3>1
  <2>2. Text \notin {d.branches[1].id, d.branches[1].from, d.branches[1].to, d.branches[1].z, d.branches[1].z0,
                     d.branches[1].rating}
    <3>1. BranchFault(d, 1) = "none"
      BY <1>6, <2>1
    <3>2. BranchPasses(d, 1)
      BY <3>1, BranchFaultIs
    <3>. QED  BY <3>2 DEF BranchPasses
  <2>3. Meaning(c).branches[1].z0 = Absent
    BY <2>1 DEF Meaning
  <2>. QED  BY <1>1, <2>2, <2>3
<1>9. DOMAIN c.volts \subseteq Reached(d)
  BY <1>4, <1>6 DEF IslandFault
<1>10. \A i \in BranchIds(c) : d.branches[i].from = BranchAt(c, i).from /\ d.branches[i].to = BranchAt(c, i).to
  BY <1>1, MeantBranch
<1>. QED  BY <1>1, <1>4, <1>7, <1>8, <1>9, <1>10

\* A walk gets to the same buses, whatever their numbers.
LEMMA RenumberedWalk ==
    ASSUME NEW c, IsCase(c), Absent \notin Int, NEW num, NEW d, Renumbered(c, num, d),
           NEW m, DOMAIN c.volts \subseteq Reached(m), Len(m.buses) = Len(c.volts), m.source = 1,
           DOMAIN m.branches = BranchIds(c),
           \A i \in BranchIds(c) : m.branches[i].from = BranchAt(c, i).from /\ m.branches[i].to = BranchAt(c, i).to
    PROVE  BusIds(d) \subseteq Reached(d)
<1>1. /\ Len(c.volts) \in Nat /\ DOMAIN d.branches = BranchIds(c) /\ Len(d.buses) = Len(c.volts)
      /\ BusIds(d) = {num[b] : b \in DOMAIN c.volts}
  BY RenumberedShape
<1>2. PICK w : /\ Reached(m) = w[Len(m.buses)] /\ w[0] = {m.source}
               /\ \A n \in Nat : w[n + 1] = WithNeighbours(m, w[n])
  BY ReachedSteps
<1>3. PICK v : /\ Reached(d) = v[Len(d.buses)] /\ v[0] = {d.source}
               /\ \A n \in Nat : v[n + 1] = WithNeighbours(d, v[n])
  BY ReachedSteps
<1> DEFINE T == {n \in Nat : \A b \in DOMAIN c.volts : b \in w[n] => num[b] \in v[n]}
<1>4. 0 \in T
  <2>1. d.source = num[1]
    BY DEF Renumbered
  <2>. QED  BY <1>2, <1>3, <2>1
<1>5. ASSUME NEW n \in Nat, n \in T PROVE n + 1 \in T
  <2>. SUFFICES ASSUME NEW b \in DOMAIN c.volts, b \in w[n + 1] PROVE num[b] \in v[n + 1]
    OBVIOUS
  <2>1. b \in WithNeighbours(m, w[n]) /\ v[n + 1] = WithNeighbours(d, v[n])
    BY <1>2, <1>3
  <2>2. CASE b \in w[n]
    BY <1>5, <2>1, <2>2 DEF WithNeighbours
  <2>3. CASE b \notin w[n]
    <3>1. PICK i \in DOMAIN m.branches : /\ m.branches[i].from \in w[n] \/ m.branches[i].to \in w[n]
                                         /\ b = m.branches[i].from \/ b = m.branches[i].to
      BY <2>1, <2>3 DEF WithNeighbours
    <3> DEFINE x == BranchAt(c, i).from
               y == BranchAt(c, i).to
    <3>2. /\ i \in BranchIds(c) /\ x \in DOMAIN c.volts /\ y \in DOMAIN c.volts /\ (x \in w[n] \/ y \in w[n])
          /\ (b = x \/ b = y)
      BY <3>1, BranchShape
    <3>3. i \in DOMAIN d.branches /\ d.branches[i].from = num[x] /\ d.branches[i].to = num[y]
      BY <1>1, <3>2 DEF Renumbered
    <3>. HIDE DEF x, y
    <3>4. num[x] \in v[n] \/ num[y] \in v[n]
      BY <1>5, <3>2
    <3>5. num[b] \in {d.branches[i].from, d.branches[i].to}
      BY <3>2, <3>3
    <3>. QED  BY <2>1, <3>3, <3>4, <3>5 DEF WithNeighbours
  <2>. QED  BY <2>2, <2>3
<1>. HIDE DEF T
<1>6. Nat \subseteq T
  BY <1>4, <1>5, NatIsBuiltUp
<1>7. \A b \in DOMAIN c.volts : num[b] \in v[Len(c.volts)]
  BY <1>1, <1>2, <1>6 DEF T
<1>. QED  BY <1>1, <1>3, <1>7

LEMMA RenumberedIsAccepted ==
    ASSUME NEW c, IsCase(c), Text \notin Int, Absent \notin Int, NEW num, NEW d, Renumbered(c, num, d),
           Verdict([Meaning(c) EXCEPT !.id = d.id]) = "ok"
    PROVE  Verdict(d) = "ok"
<1> DEFINE B == Len(c.volts)
<1>0. Accepted(c)
  BY DEF Accepted
<1>1. d.id \in Slugs /\ Absent # Text
  BY MeaningAccepted
<1>2. /\ B \in Nat /\ DOMAIN c.volts = 1..B /\ DOMAIN d.buses = DOMAIN c.volts /\ Len(d.buses) = B
      /\ Many(c) \in Nat /\ BranchIds(c) = 1..Many(c)
      /\ DOMAIN d.branches = BranchIds(c) /\ Len(d.branches) = Many(c)
      /\ BusIds(d) = {num[b] : b \in DOMAIN c.volts}
      /\ \A b \in DOMAIN c.volts : BusKv(d, num[b]) = c.volts[b]
  BY RenumberedShape
<1>3. /\ B >= 2 /\ Many(c) >= 1
      /\ \A i \in BranchIds(c) : BranchAt(c, i).from # BranchAt(c, i).to
      /\ \A i \in DOMAIN c.lines : c.volts[c.lines[i].from] = c.volts[c.lines[i].to]
  BY <1>0, CaseAccepted DEF Many
<1>4. \A b \in DOMAIN c.volts : c.volts[b] \in Nat \ {0}
  BY CaseShape
<1>. HIDE DEF B
<1>5. /\ d.kv = c.volts[1] /\ d.source = num[1]
      /\ \A a, b \in DOMAIN c.volts : num[a] \in Nat /\ (num[a] = num[b] => a = b)
      /\ \A b \in DOMAIN c.volts :
            /\ d.buses[b].bus = num[b] /\ d.buses[b].load = Watts(c, b) /\ d.buses[b].phases = Absent
            /\ d.buses[b].kv = IF c.volts[b] = c.volts[1] THEN Absent ELSE c.volts[b]
  BY DEF Renumbered
<1>6. HeaderFault(d) = "none"
  <2>1. 1 \in DOMAIN c.volts
    BY <1>2, <1>3
  <2>2. ~NotPositive(d.kv)
    BY <1>4, <1>5, <2>1 DEF NotPositive
  <2>3. ~(Len(d.buses) < 2) /\ ~(Len(d.branches) < 1)
    BY <1>2, <1>3
  <2>. QED  BY <1>1, <2>2, <2>3 DEF HeaderFault
<1>7. \A i \in DOMAIN d.buses : BusFault(d, i) = "none"
  <2>. SUFFICES ASSUME NEW i \in DOMAIN d.buses PROVE BusFault(d, i) = "none"
    OBVIOUS
  <2>1. i \in DOMAIN c.volts /\ i \in 1..B
    BY <1>2
  <2>2. d.buses[i].bus = num[i] /\ num[i] \in Nat /\ d.buses[i].bus # Text
    BY <1>5, <2>1
  <2> DEFINE f == [j \in DOMAIN d.buses |-> d.buses[j].bus]
  <2>3. ~NumbersBefore(f, i, d.buses[i].bus)
    <3>. SUFFICES ASSUME NEW j \in 1..(i - 1), f[j] = d.buses[i].bus PROVE FALSE
      BY DEF NumbersBefore
    <3>1. j \in 1..B /\ j # i
      BY <1>2, <2>1
    <3>2. num[j] = num[i]
      BY <1>2, <1>5, <2>2, <3>1
    <3>. QED  BY <1>2, <1>5, <2>1, <3>1, <3>2
  <2>4. Watts(c, i) \in Nat /\ d.buses[i].load = Watts(c, i)
    BY <1>5, <2>1, WattsAre
  <2>5. d.buses[i].load # Text /\ ~Negative(d.buses[i].load)
    BY <2>4 DEF Negative
  <2>6. ~NotPositive(d.buses[i].kv)
    BY <1>1, <1>4, <1>5, <2>1 DEF NotPositive
  <2>7. d.buses[i].phases = Absent
    BY <1>5, <2>1
  <2>. HIDE DEF f
  <2>8. BusFault(d, i) =
          IF d.buses[i].bus = Text \/ NumbersBefore(f, i, d.buses[i].bus) THEN "invalid"
          ELSE IF d.buses[i].load = Text THEN "raises"
          ELSE IF \/ Negative(d.buses[i].load) \/ NotPositive(d.buses[i].kv)
                  \/ d.buses[i].phases # Absent /\ d.buses[i].phases \intersect Letters = {}
          THEN "invalid" ELSE "none"
    BY Zenon DEF BusFault, f
  <2>. QED  BY <2>2, <2>3, <2>5, <2>6, <2>7, <2>8
<1>8. SourceFault(d) = "none"
  <2>1. 1 \in DOMAIN c.volts
    BY <1>2, <1>3
  <2>2. d.source \in BusIds(d) /\ d.source \in Nat
    BY <1>2, <1>5, <2>1
  <2>. QED  BY <2>2 DEF SourceFault
<1>9. \A i \in DOMAIN d.branches : BranchFault(d, i) = "none"
  <2>. SUFFICES ASSUME NEW i \in DOMAIN d.branches PROVE BranchFault(d, i) = "none"
    OBVIOUS
  <2> DEFINE br == d.branches[i]
             x == BranchAt(c, i).from
             y == BranchAt(c, i).to
             f == [j \in DOMAIN d.branches |-> d.branches[j].id]
             wrongTap == br.tap = Text \/ (br.tap \in Int /\ br.tap \notin 800..1200)
  <2>1. i \in BranchIds(c) /\ i \in Nat
    BY <1>2
  <2>2. /\ br.id = i /\ br.from = num[x] /\ br.to = num[y] /\ br.z = CaseOhms(c, i) /\ br.z0 = Absent
        /\ br.rating = BranchAt(c, i).rate /\ br.transformer = Wound(c, i) /\ br.oltc = FALSE
        /\ br.connection = Absent /\ br.tap = Absent
    BY <2>1 DEF Renumbered
  <2>3. x \in DOMAIN c.volts /\ y \in DOMAIN c.volts /\ BranchAt(c, i).rate \in Nat \ {0} /\ x # y
    BY <1>3, <2>1, BranchShape
  <2>4. CaseOhms(c, i) \in Nat
    BY <2>1, CaseOhmsAre
  <2>5. num[x] \in Nat /\ num[y] \in Nat /\ num[x] # num[y] /\ {num[x], num[y]} \subseteq BusIds(d)
    BY <1>2, <1>5, <2>3
  <2>6. ~Wound(c, i) => c.volts[x] = c.volts[y]
    <3>. SUFFICES ASSUME ~Wound(c, i) PROVE c.volts[x] = c.volts[y]
      OBVIOUS
    <3>1. i \in DOMAIN c.lines /\ BranchAt(c, i) = c.lines[i]
      BY <2>1, BranchShape
    <3>. QED  BY <1>3, <3>1
  <2>7. ~NumbersBefore(f, i, br.id)
    <3>. SUFFICES ASSUME NEW j \in 1..(i - 1), f[j] = br.id PROVE FALSE
      BY DEF NumbersBefore
    <3>1. j \in BranchIds(c) /\ j # i
      BY <1>2, <2>1
    <3>2. d.branches[j].id = j
      BY <3>1 DEF Renumbered
    <3>. QED  BY <1>2, <2>2, <3>1, <3>2
  <2>. HIDE DEF f, x, y, br
  <2>8. Text \notin {br.id, br.from, br.to, br.z, br.z0, br.rating}
    BY <1>1, <2>1, <2>2, <2>3, <2>4, <2>5
  <2>9. /\ {br.from, br.to} \subseteq BusIds(d) /\ br.from # br.to
        /\ ~Negative(br.z) /\ ~Negative(br.z0) /\ ~NotPositive(br.rating)
    <3>1. {br.from, br.to} \subseteq BusIds(d) /\ br.from # br.to
      BY <2>2, <2>5
    <3>2. ~Negative(br.z) /\ ~Negative(br.z0)
      BY <2>2, <2>4 DEF Negative
    <3>3. ~NotPositive(br.rating)
      BY <2>2, <2>3 DEF NotPositive
    <3>. QED  BY <3>1, <3>2, <3>3
  <2>10. br.transformer \/ BusKv(d, br.from) = BusKv(d, br.to)
    <3>1. BusKv(d, num[x]) = c.volts[x] /\ BusKv(d, num[y]) = c.volts[y]
      BY <1>2, <2>3
    <3>. QED  BY <2>2, <2>6, <3>1
  <2>11. OnlyOnTransformers(br)
    BY <2>2 DEF OnlyOnTransformers
  <2>12. br.connection \in {Absent, "wye_wye", "delta_wye"}
    BY <2>2
  <2>13. ~wrongTap
    BY <1>1, <2>2
  <2>. HIDE DEF wrongTap
  <2>14. Absent \notin {br.id, br.from, br.to, br.z}
    BY <1>1, <2>1, <2>2, <2>3, <2>4, <2>5
  <2>15. BranchPasses(d, i) <=>
           /\ Absent \notin {br.id, br.from, br.to, br.z}
           /\ br.id # Text /\ ~NumbersBefore(f, i, br.id)
           /\ Text \notin {br.from, br.to} /\ {br.from, br.to} \subseteq BusIds(d) /\ br.from # br.to
           /\ br.z # Text /\ ~Negative(br.z) /\ br.z0 # Text /\ ~Negative(br.z0)
           /\ br.rating # Text /\ ~NotPositive(br.rating)
           /\ br.transformer \/ BusKv(d, br.from) = BusKv(d, br.to)
           /\ OnlyOnTransformers(br)
           /\ br.connection \in {Absent, "wye_wye", "delta_wye"}
           /\ ~wrongTap
    BY Zenon DEF BranchPasses, br, f, wrongTap
  <2>16. BranchPasses(d, i)
    BY Zenon, <2>7, <2>8, <2>9, <2>10, <2>11, <2>12, <2>13, <2>14, <2>15
  <2>. QED  BY <2>16, BranchFaultIs
<1>10. IslandFault(d) = "none"
  <2>1. PICK m : /\ DOMAIN c.volts \subseteq Reached(m) /\ Len(m.buses) = Len(c.volts) /\ m.source = 1
                 /\ DOMAIN m.branches = BranchIds(c)
                 /\ \A i \in BranchIds(c) : /\ m.branches[i].from = BranchAt(c, i).from
                                            /\ m.branches[i].to = BranchAt(c, i).to
    BY MeaningAccepted
  <2>2. BusIds(d) \subseteq Reached(d)
    BY <2>1, RenumberedWalk
  <2>. QED  BY <2>2 DEF IslandFault
<1>. QED  BY <1>6, <1>7, <1>8, <1>9, <1>10, PassesIsAccepted

(* A network written in the OpenDSS subset is read back as it was, but for *)
(* the numbers of its buses, and accepted (importers.py from_dss): names   *)
(* that end in one number, or in none, each have a number of their own.    *)
THEOREM DssAsWritten ==
    ASSUME NEW c, NEW n, IsCase(c), Text \notin Int, Absent \notin Int,
           Verdict([Meaning(c) EXCEPT !.id = n]) = "ok", NEW names, WritableInDss(c, names)
    PROVE  \E net : /\ FromDss(Dss(c, names)) = Imported(net) /\ Verdict([net EXCEPT !.id = n]) = "ok"
                    /\ SameUpToNumbers([net EXCEPT !.id = n], Meaning(c))
<1>1. Accepted(c)
  BY DEF Accepted
<1>2. PICK net, num : FromDss(Dss(c, names)) = Imported(net) /\ Renumbered(c, num, net)
  BY <1>1, DssNetwork
<1> DEFINE d == [net EXCEPT !.id = n]
<1>3. /\ d = [id |-> d.id, kv |-> d.kv, source |-> d.source, buses |-> d.buses, branches |-> d.branches]
      /\ d.id = n /\ d.kv = net.kv /\ d.source = net.source /\ d.buses = net.buses /\ d.branches = net.branches
  <2>1. net = [id |-> net.id, kv |-> net.kv, source |-> net.source, buses |-> net.buses, branches |-> net.branches]
    BY <1>2 DEF Renumbered
  <2>2. PICK n1, n2, n3, n4, n5 : net = [id |-> n1, kv |-> n2, source |-> n3, buses |-> n4, branches |-> n5]
    BY <2>1
  <2>3. d = [id |-> n, kv |-> n2, source |-> n3, buses |-> n4, branches |-> n5]
    BY <2>2
  <2>. QED  BY <2>2, <2>3
<1>. HIDE DEF d
<1>4. Renumbered(c, num, d)
  BY <1>2, <1>3 DEF Renumbered
<1>5. Verdict(d) = "ok"
  BY <1>3, <1>4, RenumberedIsAccepted
<1>6. SameUpToNumbers(d, Meaning(c))
  <2>1. Len(c.volts) >= 1
    <3>1. Len(c.volts) \in Nat /\ Len(c.volts) >= 2
      BY <1>1, CaseShape, CaseAccepted
    <3>. QED  BY <3>1
  <2>. QED  BY <1>4, <2>1, RenumberedIsSame
<1>. QED  BY <1>2, <1>5, <1>6 DEF d

==============================================================================
