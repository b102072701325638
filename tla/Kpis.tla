-------------------------------- MODULE Kpis --------------------------------
(***************************************************************************)
(* What a study reports of its timesteps (simulation/results.py,           *)
(* metrics/kpi_registry.py, metrics/tariffs.py and main.py's summaries).   *)
(* A timestep is [at, converged, volts, loading, losses, power, vuf] with  *)
(* volts by bus and loading by branch.  Ratios are kept as pairs; the      *)
(* ageing of transformers, a real-valued curve, is left out.               *)
(***************************************************************************)
EXTENDS Integers, Sequences, FiniteSets, FiniteSetsExt, Functions

CONSTANTS VLower, VUpper, ThermalLimit, StepsPerDay, Emissions

\* Steps are a function on their places in the run; a selection keeps places.
Some(steps, places) == [i \in places |-> steps[i]]
ConvergedOf(steps) == {i \in DOMAIN steps : steps[i].converged}

\* Mutant: nothing is left out.
AllSteps(steps) == steps

\* A timestep that did not converge counts only when none did.
ConvergedOrAll(steps) ==
    IF ConvergedOf(steps) = {} THEN steps ELSE Some(steps, ConvergedOf(steps))

Above0(v) == IF v > 0 THEN v ELSE 0
OutOfBand(s) == {b \in DOMAIN s.volts : s.volts[b] < VLower \/ s.volts[b] > VUpper}
Overloaded(s) == {br \in DOMAIN s.loading : s.loading[br] > ThermalLimit}

\* start = end: no peak; otherwise the window may reach past midnight.
ImportRate(tariff, hour) ==
    LET inPeak == IF tariff.start <= tariff.end THEN tariff.start <= hour /\ hour < tariff.end
                  ELSE tariff.start <= hour \/ hour < tariff.end
    IN IF tariff.start # tariff.end /\ inPeak THEN tariff.peak ELSE tariff.offpeak
HourOfDay(s) == s.at % StepsPerDay

EnergyCost(valid, tariff) ==
    SumFunction([i \in DOMAIN valid |-> Above0(valid[i].power) * ImportRate(tariff, HourOfDay(valid[i]))])
ExportRevenue(valid, tariff) ==
    SumFunction([i \in DOMAIN valid |-> Above0(-valid[i].power) * tariff.feedIn])

\* Steps beyond the profile are passed over; <<error, reference>>.
BalanceError(valid, expected) ==
    LET abs(v) == IF v < 0 THEN -v ELSE v
        within == {i \in DOMAIN valid : valid[i].at < Len(expected)}
        net(i) == expected[valid[i].at + 1]
    IN <<SumFunction([i \in within |-> abs(valid[i].power - valid[i].losses - net(i))]),
         SumFunction([i \in within |-> abs(net(i))])>>

\* Every bus or branch that some timestep has a figure of, and what it read.
Seen(families) == UNION {DOMAIN families[i] : i \in DOMAIN families}
Figures(families, key) == {families[i][key] : i \in {j \in DOMAIN families : key \in DOMAIN families[j]}}
Volts(valid) == [i \in DOMAIN valid |-> valid[i].volts]
Loadings(valid) == [i \in DOMAIN valid |-> valid[i].loading]

BusSummary(valid) ==
    [b \in Seen(Volts(valid)) |->
        [min |-> Min(Figures(Volts(valid), b)), max |-> Max(Figures(Volts(valid), b)),
         violations |-> Cardinality({i \in DOMAIN valid : b \in OutOfBand(valid[i])})]]
BranchSummary(valid) ==
    [br \in Seen(Loadings(valid)) |->
        [max |-> Max({0} \union Figures(Loadings(valid), br)),
         violations |-> Cardinality({i \in DOMAIN valid : br \in Overloaded(valid[i])})]]

\* The registered indicators and the summaries of the timesteps that count;
\* transformers are the branches of the solved network that are.
Indicators(valid, converged, tariff, expected, transformers) ==
    LET volts == UNION {{valid[i].volts[b] : b \in DOMAIN valid[i].volts} : i \in DOMAIN valid}
        loadings(brs) == UNION {{valid[i].loading[br] : br \in brs \intersect DOMAIN valid[i].loading} :
                                   i \in DOMAIN valid}
        import == SumFunction([i \in DOMAIN valid |-> Above0(valid[i].power)])
    IN [max_voltage |-> Max(volts), min_voltage |-> Min(volts),
        max_loading |-> Max({0} \union loadings(Seen(Loadings(valid)))),
        max_transformer_loading |-> Max({0} \union loadings(transformers)),
        voltage_violation_rate |->
            <<SumFunction([i \in DOMAIN valid |-> Cardinality(OutOfBand(valid[i]))]),
              SumFunction([i \in DOMAIN valid |-> Cardinality(DOMAIN valid[i].volts)])>>,
        thermal_violations |-> SumFunction([i \in DOMAIN valid |-> Cardinality(Overloaded(valid[i]))]),
        losses |-> SumFunction([i \in DOMAIN valid |-> valid[i].losses]),
        reverse_steps |-> Cardinality({i \in DOMAIN valid : valid[i].power < 0}),
        converged |-> converged,
        cost |-> EnergyCost(valid, tariff) - ExportRevenue(valid, tariff),
        balance |-> BalanceError(valid, expected),
        max_vuf |-> Max({0} \union {valid[i].vuf : i \in DOMAIN valid}),
        emissions |-> import * Emissions,
        buses |-> BusSummary(valid), branches |-> BranchSummary(valid)]

\* The charts show every timestep, converged or not.
Series(steps) ==
    [i \in DOMAIN steps |->
        LET volts == {steps[i].volts[b] : b \in DOMAIN steps[i].volts}
            loadings == {steps[i].loading[br] : br \in DOMAIN steps[i].loading}
        IN [v_min |-> Min(volts), v_max |-> Max(volts), max_loading |-> Max({0} \union loadings)]]

Report(steps, tariff, expected, transformers) ==
    Indicators(ConvergedOrAll(steps), <<Cardinality(ConvergedOf(steps)), Cardinality(DOMAIN steps)>>,
               tariff, expected, transformers)
=============================================================================
