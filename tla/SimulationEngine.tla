-------------------------- MODULE SimulationEngine --------------------------
(***************************************************************************)
(* The simulation engine (main.py): its threads handle the commands of the *)
(* registry and studies side by side.  A study takes one step per call     *)
(* that leaves the engine; the solver session it opens must be released on *)
(* every way out.  What the solver, the controller and the twins do with   *)
(* their messages is modelled in SolverSessions and DRCoordination.        *)
(***************************************************************************)
EXTENDS NetworkRegistry, OperatingEnvelopes, Kpis

CONSTANTS
    Requests,    \* studies that may be asked for
    Solvers, Allocations, Strategies,   \* the registered names
    Tariffs,     \* name -> tariff
    Plants,      \* what the solver may answer for a network
    Results,     \* timesteps a run may end with
    MaxStudies   \* bound: studies in progress at once

\* What a run ends with: a figure or a voltage of some buses and branches per
\* timestep; what the request's schema lets through; the installed policies.
IsResult(steps) ==
    /\ IsFiniteSet(DOMAIN steps)
    /\ \A i \in DOMAIN steps :
          /\ IsFiniteSet(DOMAIN steps[i].volts) /\ DOMAIN steps[i].volts # {}
          /\ \A b \in DOMAIN steps[i].volts : steps[i].volts[b] \in Int
          /\ IsFiniteSet(DOMAIN steps[i].loading)
          /\ \A br \in DOMAIN steps[i].loading : steps[i].loading[br] \in Int
ASSUME StudyAssumption ==
    /\ \A plant \in Plants : IsPlant(plant)
    /\ \A steps \in Results : IsResult(steps)
    /\ \A req \in Requests : /\ req.profile.cap \in [Sites -> Nat]
                              /\ req.doe.method \in {"sensitivity", "search"}
    /\ Allocations \subseteq {"equal", "prorata", "max_total"}

StudySteps == {"opening", "allocating", "coordinating", "running", "stopping", "closing", "reporting"}
Studying == {t \in Threads : job[t].at \in StudySteps}
Moved(t, step) == job' = [job EXCEPT ![t] = [@ EXCEPT !.at = step]]

\* A study that ended.  session: the solver still holds one of it; cut: the
\* solver was not told of the end, or not heard of the beginning.
Failed(session, cut) == [at |-> "idle", answer |-> "study failed", session |-> session, cut |-> cut]
Coordinated(req) == req.coordination # "uncoordinated"

Enveloped(req) == req.doe.mode # "off" /\ ~(req.doe.managed /\ ~Coordinated(req))
                  /\ (req.doe.mode = "dynamic" => req.doe.allocation \in Allocations)
\* The envelopes a request may get from each plant.
Given ==
    UNION {{[req |-> x[2], plant |-> x[1], limits |-> e] : e \in Envelopes(x[1], x[2].profile.cap, x[2].doe)} :
              x \in Plants \X {req \in Requests : Enveloped(req)}}

Transformers(net) == {net.branches[i].id : i \in {j \in DOMAIN net.branches : net.branches[j].transformer}}

\* run_simulation up to the solver: the study works on the definition it was
\* served here, whatever becomes of the file; of it only the transformers
\* matter from here on.  It is refused for a network, bus or solver that is not
\* known, and by an engine that has not stored its participant yet.
ReceiveStudy(t, req) ==
    /\ job[t].at = "idle"
    /\ Cardinality(Studying) < MaxStudies
    /\ \/ /\ ~ScanRaises /\ req.network \in DOMAIN Scan /\ req.solver \in Solvers
          /\ req.profile.buses \subseteq BusIds(Scan[req.network].def)
          /\ job' = [job EXCEPT ![t] =
                        [at |-> "opening", req |-> req, brs |-> Transformers(Scan[req.network].def),
                         given |-> Absent, result |-> Absent, session |-> FALSE]]
       \/ job' = [job EXCEPT ![t] = Failed(FALSE, FALSE)]
    /\ UNCHANGED <<disk, promised>>

\* build: answered, refused by the solver, or not answered in time, when the
\* session may exist all the same.
OpenSession(t) ==
    /\ job[t].at = "opening"
    /\ \E study \in {[job[t] EXCEPT !.at = "allocating", !.session = TRUE], Failed(FALSE, FALSE)}
                    \union {Failed(session, TRUE) : session \in BOOLEAN} :
          job' = [job EXCEPT ![t] = study]
    /\ UNCHANGED <<disk, promised>>

\* Mutant: the session is not yet under the finally that closes it.
AllocateUnguarded(t) ==
    LET req == job[t].req IN
    /\ job[t].at = "allocating"
    /\ \/ req.doe.mode = "off" /\ Moved(t, "coordinating")
       \/ req.doe.mode # "off" /\ job' = [job EXCEPT ![t] = Failed(@.session, FALSE)]
       \/ \E g \in Given : /\ g.req = req
                           /\ job' = [job EXCEPT ![t] = [@ EXCEPT !.at = "coordinating", !.given = g]]
    /\ UNCHANGED <<disk, promised>>

\* An envelope scheme that cannot be followed, or a solver that fails under
\* the computation, ends the study.
Allocate(t) ==
    LET req == job[t].req IN
    /\ job[t].at = "allocating"
    /\ \/ req.doe.mode = "off" /\ Moved(t, "coordinating")
       \/ req.doe.mode # "off" /\ Moved(t, "closing")
       \/ \E g \in Given : /\ g.req = req
                           /\ job' = [job EXCEPT ![t] = [@ EXCEPT !.at = "coordinating", !.given = g]]
    /\ UNCHANGED <<disk, promised>>

\* The limits go into the run.  A strategy that is unknown, or a controller or
\* twins that do not start, leave no coordinator to stop.
Coordinate(t) ==
    LET req == job[t].req IN
    /\ job[t].at = "coordinating"
    /\ \E step \in {"running", "closing"} :
          /\ step = "running" => (~Coordinated(req) \/ req.coordination \in Strategies)
          /\ step = "closing" => Coordinated(req)
          /\ job' = [job EXCEPT ![t] = [@ EXCEPT !.at = step, !.given = Absent]]
    /\ UNCHANGED <<disk, promised>>

\* The run's timesteps, or an error out of it.
RunStudy(t) ==
    LET next == IF Coordinated(job[t].req) THEN "stopping" ELSE "closing" IN
    /\ job[t].at = "running"
    /\ \E result \in Results \union {Absent} :
          job' = [job EXCEPT ![t] = [@ EXCEPT !.at = next, !.result = result]]
    /\ UNCHANGED <<disk, promised>>

\* coordinator.close() swallows what the services answer, not an error of the
\* publish itself: that one passes engine.close() by.
StopCoordinator(t) ==
    /\ job[t].at = "stopping"
    /\ Moved(t, "closing") \/ job' = [job EXCEPT ![t] = Failed(@.session, TRUE)]
    /\ UNCHANGED <<disk, promised>>

\* engine.close(): best effort; a study that failed is reported now.
CloseSession(t) ==
    LET Left(session, cut) ==
            IF job[t].result = Absent THEN Failed(session, cut)
            ELSE [at |-> "reporting", req |-> job[t].req, brs |-> job[t].brs, result |-> job[t].result,
                  session |-> session, cut |-> cut]
    IN /\ job[t].at = "closing"
       /\ \E study \in {Left(FALSE, FALSE), Left(job[t].session, TRUE)} : job' = [job EXCEPT ![t] = study]
       /\ UNCHANGED <<disk, promised>>

\* The summaries, indicators and charts; an unknown tariff is noticed only now.
Answer(t) ==
    LET s == job[t] IN
    /\ s.at = "reporting"
    /\ job' = [job EXCEPT ![t] =
                 IF s.req.tariff \notin DOMAIN Tariffs THEN Failed(s.session, s.cut)
                 ELSE [at |-> "idle", answer |-> "study answered", session |-> s.session, cut |-> s.cut,
                       result |-> s.result, tariff |-> s.req.tariff, expected |-> s.req.profile.expected,
                       brs |-> s.brs, series |-> Series(s.result),
                       report |-> Report(s.result, Tariffs[s.req.tariff], s.req.profile.expected, s.brs)]]
    /\ UNCHANGED <<disk, promised>>

Next ==
    \/ RegistryNext
    \/ \E t \in Threads :
          \/ \E req \in Requests : ReceiveStudy(t, req)
          \/ OpenSession(t) \/ Allocate(t) \/ Coordinate(t) \/ RunStudy(t)
          \/ StopCoordinator(t) \/ CloseSession(t) \/ Answer(t)

Spec == RegistryInit /\ [][Next]_registryVars

-----------------------------------------------------------------------------

\* However a study ends, in any step, for a bad request or a service that
\* fails, the solver holds no session of it any more; except after a message
\* that was lost, a restart, or a stop that could not be published, which
\* skips engine.close().
SessionReleased ==
    \A t \in Threads :
       /\ (job[t].at = "idle" /\ job[t].answer \in {"study failed", "study answered"} /\ ~job[t].cut) => ~job[t].session
       /\ job[t].at \in StudySteps \ {"opening", "reporting"} => job[t].session

\* A branch that export relieves in the reference interval: its sensitivity
\* is 0, or too small for the flow that turns around.
Relieved(plant, row) ==
    /\ row \in Branches
    /\ \E s \in Sites : plant.base[Reference(plant)][row] * plant.slope[row][s] < 0

\* Dynamic limits used in full, by every site at once and in any interval,
\* push no voltage and no loading past its limit, and where one is past it
\* already, not further.  The linearised method does not hold this for a
\* branch whose flow turns around.
EnvelopesNeverWorsen ==
    \A s \in Threads :
       (job[s].at = "coordinating" /\ job[s].given # Absent /\ job[s].req.doe.mode = "dynamic") =>
          LET plant == job[s].given.plant
              limits == job[s].given.limits
          IN \A t \in DOMAIN plant.base : \A row \in Rows :
                \/ job[s].req.doe.method = "sensitivity" /\ Relieved(plant, row)
                \/ Reading(plant, t, limits[t], row) <= Parts * plant.limit[row]
                \/ Reading(plant, t, limits[t], row) <= Reading(plant, t, NoExport, row)

\* The indicators, the run's totals, the two summaries and the charts are
\* computed in five places from the same timesteps, and tell one story: as many
\* violations and the same extremes, those of the charts over the timesteps
\* that count; and a timestep that did not converge changes nothing but the
\* share of those that did and the charts, whatever it reads, unless none
\* converged.
ReportTellsOneStory ==
    \A t \in Threads :
       (job[t].at = "idle" /\ job[t].answer = "study answered") =>
          LET r == job[t].report
              converged == ConvergedOf(job[t].result)
              again == Report(Some(job[t].result, converged), Tariffs[job[t].tariff], job[t].expected, job[t].brs)
              over(f) == SumFunction([k \in DOMAIN f |-> f[k].violations])
              peak(brs) == Max({0} \union {r.branches[br].max : br \in brs})
              chart == job[t].series
              counted == DOMAIN ConvergedOrAll(job[t].result)
          IN /\ r.voltage_violation_rate[1] = over(r.buses) /\ r.thermal_violations = over(r.branches)
             /\ r.max_voltage = Max({r.buses[b].max : b \in DOMAIN r.buses})
             /\ r.min_voltage = Min({r.buses[b].min : b \in DOMAIN r.buses})
             /\ r.max_loading = peak(DOMAIN r.branches)
             /\ r.max_transformer_loading = peak(job[t].brs \intersect DOMAIN r.branches)
             /\ r.max_voltage = Max({chart[i].v_max : i \in counted})
             /\ r.min_voltage = Min({chart[i].v_min : i \in counted})
             /\ r.max_loading = Max({0} \union {chart[i].max_loading : i \in counted})
             /\ converged # {} =>
                   r = [again EXCEPT !.converged = <<Cardinality(converged), Cardinality(DOMAIN job[t].result)>>]
=============================================================================
