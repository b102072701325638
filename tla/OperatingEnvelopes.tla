------------------------- MODULE OperatingEnvelopes -------------------------
(***************************************************************************)
(* Dynamic operating envelopes (control/envelopes.py).  The network the    *)
(* solver answers for is a set of monitored rows, bus voltages and branch  *)
(* flows, each linear in the export; a branch's loading is the magnitude   *)
(* of its flow:                                                            *)
(*   plant.load[t]           the load of interval t                        *)
(*   plant.base[t][row]      without export                                *)
(*   plant.limit[row]        the voltage or thermal limit                  *)
(*   plant.slope[row][site]  the change per kW of export, of either sign   *)
(* Powers are in 1/Parts kW, Parts being 2 to the number of search steps,  *)
(* so that the halvings are exact.                                         *)
(***************************************************************************)
EXTENDS Integers, Sequences, FiniteSets, FiniteSetsExt, Functions

CONSTANTS
    Sites,
    Rows, Branches,  \* the monitored rows, and those of them that are branches
    SearchSteps

ASSUME EnvelopeAssumption ==
    /\ IsFiniteSet(Sites) /\ IsFiniteSet(Rows) /\ Branches \subseteq Rows
    /\ SearchSteps \in Nat \ {0}

Parts ==
    LET halvings[n \in Nat] == IF n = 0 THEN 1 ELSE 2 * halvings[n - 1]
    IN halvings[SearchSteps]

\* What the solver may answer: a linear network over at least one interval.
IsPlant(plant) ==
    /\ plant.load \in Seq(Int) \ {<<>>}
    /\ DOMAIN plant.base = DOMAIN plant.load
    /\ \A t \in DOMAIN plant.base, row \in Rows : plant.base[t][row] \in Int
    /\ \A row \in Rows : plant.limit[row] \in Int /\ \A s \in Sites : plant.slope[row][s] \in Int

Least(a, b) == IF a < b THEN a ELSE b
Positive(v) == IF v > 0 THEN v ELSE 0
Absolute(v) == IF v < 0 THEN -v ELSE v

\* What the solver reads on a row, times Parts.
Reading(plant, t, export, row) ==
    LET v == Parts * plant.base[t][row] + SumFunction([s \in Sites |-> plant.slope[row][s] * export[s]])
    IN IF row \in Branches THEN Absolute(v) ELSE v
Violates(plant, t, export) ==
    \E row \in Rows : Reading(plant, t, export, row) > Parts * plant.limit[row]

\* A fraction of every site's capability, in 1/Parts.
Fraction(k, cap) == [s \in Sites |-> k * cap[s]]

\* The uniform fraction that violates nothing: a bisection from 0 and 1.
Search(plant, t, cap) ==
    LET range[k \in Nat] ==
            IF k = 0 THEN <<0, Parts>>
            ELSE LET mid == (range[k - 1][1] + range[k - 1][2]) \div 2
                 IN IF Violates(plant, t, Fraction(mid, cap)) THEN <<range[k - 1][1], mid>>
                    ELSE <<mid, range[k - 1][2]>>
    IN range[SearchSteps][1]

NoExport == [s \in Sites |-> 0]
Searched(plant, t, cap) ==
    IF Violates(plant, t, NoExport) THEN NoExport ELSE Fraction(Search(plant, t, cap), cap)

\* The interval with most load, the first of equals.
Reference(plant) ==
    CHOOSE t \in DOMAIN plant.load :
        \A u \in DOMAIN plant.load : plant.load[t] > plant.load[u] \/ (plant.load[t] = plant.load[u] /\ t <= u)

\* One perturbation per site, of 1 kW, in the reference interval: only what
\* makes a row worse counts.
Sensitivity(plant, row, s) ==
    LET t == Reference(plant)
        perturbed == [NoExport EXCEPT ![s] = Parts]
    IN Positive((Reading(plant, t, perturbed, row) - Reading(plant, t, NoExport, row)) \div Parts)

\* Mutant: a row above its limit is taken as headroom below it.
HeadroomMirrored(plant, t, row) ==
    LET h == plant.limit[row] - Reading(plant, t, NoExport, row) \div Parts IN IF h < 0 THEN -h ELSE h
Headroom(plant, t, row) ==
    Positive(plant.limit[row] - Reading(plant, t, NoExport, row) \div Parts)

\* What a share of weight w per site leaves to each: the row that binds first.
\* Without any row that binds the share is 0, not unlimited.
Used(plant, row, x) == SumFunction([s \in Sites |-> Sensitivity(plant, row, s) * x[s]])
Share(plant, t, w) ==
    LET binding == {row \in Rows : Used(plant, row, w) > 0}
    IN [s \in Sites |->
           IF binding = {} THEN 0
           ELSE Min({(Parts * Headroom(plant, t, row) * w[s]) \div Used(plant, row, w) : row \in binding})]

Equal(plant, t, cap) ==
    LET share == Share(plant, t, [s \in Sites |-> 1])
    IN [s \in Sites |-> Least(share[s], Parts * cap[s])]
ProRata(plant, t, cap) ==
    LET share == Share(plant, t, cap) IN [s \in Sites |-> Least(share[s], Parts * cap[s])]

\* The linear program may answer any of its optima; powers are whole here.
Feasible(plant, t, x) == \A row \in Rows : Used(plant, row, x) <= Headroom(plant, t, row)
Optima(plant, t, cap) ==
    LET possible == {x \in [Sites -> UNION {0..cap[s] : s \in Sites}] :
                        (\A s \in Sites : x[s] <= cap[s]) /\ Feasible(plant, t, x)}
    IN {Fraction(Parts, x) : x \in {y \in possible :
                                       \A z \in possible : SumFunction(z) <= SumFunction(y)}}

\* Without scipy: the sites that use least headroom first, equals in any order,
\* each as far as the rows still allow.
Orders(plant) ==
    LET use == [s \in Sites |-> SumFunction([row \in Rows |-> Sensitivity(plant, row, s)])]
    IN {order \in [1..Cardinality(Sites) -> Sites] :
           \A i, j \in DOMAIN order : i < j => order[i] # order[j] /\ use[order[i]] <= use[order[j]]}

Give(plant, cap, acc, s) ==
    LET binding == {row \in Rows : Sensitivity(plant, row, s) > 0}
        room == {acc.left[row] \div Sensitivity(plant, row, s) : row \in binding}
        take == Min(room \union {Parts * cap[s]})
    IN [given |-> [acc.given EXCEPT ![s] = take],
        left |-> [row \in Rows |-> Positive(acc.left[row] - Sensitivity(plant, row, s) * take)]]
Greedy(plant, t, cap, order) ==
    LET acc[k \in 0..Cardinality(Sites)] ==
            IF k = 0 THEN [given |-> NoExport, left |-> [row \in Rows |-> Parts * Headroom(plant, t, row)]]
            ELSE Give(plant, cap, acc[k - 1], order[k])
    IN acc[Cardinality(Sites)].given

\* What one interval may be given under a method and an allocation policy.
Limits(plant, t, cap, method, allocation) ==
    IF method = "search" THEN {Searched(plant, t, cap)}
    ELSE CASE allocation = "equal" -> {Equal(plant, t, cap)}
           [] allocation = "prorata" -> {ProRata(plant, t, cap)}
           [] allocation = "max_total" -> Optima(plant, t, cap) \union {Greedy(plant, t, cap, o) : o \in Orders(plant)}

\* Every interval of the horizon; a static scheme gives each site its fixed limit.
Envelopes(plant, cap, doe) ==
    LET intervals == DOMAIN plant.base IN
    IF doe.mode = "static" THEN {[t \in intervals |-> [s \in Sites |-> Parts * doe.fixed]]}
    ELSE {e \in [intervals -> UNION {Limits(plant, t, cap, doe.method, doe.allocation) : t \in intervals}] :
             \A t \in intervals : e[t] \in Limits(plant, t, cap, doe.method, doe.allocation)}
=============================================================================
