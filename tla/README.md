# Verification of the digital twin platform

TLA+ models of the platform: the protocols between its containers, the control
laws they exchange, the stores they keep files in, and the algorithms that turn
uploaded networks and profiles into a study and its report. They are checked
with TLC and, where it is in reach, proved with TLAPS. The numerical parts (the
power flow, the statistical load and weather shapes) are environment: a solve
may return any voltages, converged or not.

## The system

Six containers talk over one NATS bus. A *command* is published on
`openfmb/command/<service>/<action>` and answered by an *event* with the same
correlation id; a requester that sees no event in time gives up, but the
command's handler is not cancelled.

| Component | Source | State | Operations | Hard behaviour |
|---|---|---|---|---|
| Bus participant, NATS transport | `*/bus/participant.py`, `transport.py` | subscriptions, adopted connection, handler thread pool | connect/retry/adopt, subscribe, publish, request, dispatch | late connection attempts; handlers in any order; subscriptions that accumulate; commands and events sharing a pool; an error event after a handler took effect |
| Solver client | `simulation-engine/app/solvers/client.py` | session id, buffered updates, read cache, waiters | build, update, solve, read, reset, close | timeouts against late handlers; stale cache |
| OpenDSS solver | `opendss-solver/dss_solver` | lock, session slot, working directory, process-wide circuit | build, solve, read, reset, teardown | lock-free commands against builds; failed builds |
| SINCAL solver | `sincal-solver/sincal_solver` | as above, COM engine, pending element states | as above | COM thread affinity |
| QSTS loop | `simulation-engine/app/simulation/qsts.py`, `control/volt_var.py` | timestep, results, envelope accounts | drive, cap, inverter fixed point, record | layers that must not undo each other |
| DR coordinator | `simulation-engine/app/control/remote_coordinator.py` | running maxima of setpoints, summary | configure, start, exchange, record, close | bounded fixed point; partial failure of two services |
| DR controller | `dr-controller/app` | sessions | configure, control, stop | auto-configuration after a restart or a stop |
| Prosumer shadow twins | `prosumer-shadow-twins/app` | sessions with per-site books | start, status, record, stop | lost sessions; non-idempotent record |
| Simulation engine | `simulation-engine/app/main.py` | networks, one run per command | simulate, hosting capacity, network commands | releasing sessions on every path |
| Envelopes | `simulation-engine/app/control/envelopes.py` | - | binary search, sensitivities, allocators | boundary cases |
| Load engine | `load-engine/app` | custom profile files; battery SOC/SoH across days | generate, profile commands | energy balance; plugins that feed each other; files written in place |
| Network model, importers | `simulation-engine/app/network` | network files | import, save, resolve, delete, list | files written in place, dropped in and removed by hand; many spellings of one network |
| KPIs, tariffs | `simulation-engine/app/metrics`, `simulation/results.py` | - | pure aggregation | timesteps that did not converge |
| Report tools | `tools/` | - | documents | - |
| UI | `ui/` | pending table, study state | proxy, study runner | connection failure kept for ever; timeouts of different lengths |

What makes each of them correct: the *bus* delivers an answer to the request it
belongs to and adopts one connection; the *solver* holds one session, never acts
on another's circuit and frees what it took; the *run* ends, keeps its layers in
order, books what the feeder ran, and closes what it opened; the *control laws*
stay within the battery and the published limit; the *generator* conserves
energy; the *stores* show whole files.

## Modules

| Module | Role |
|---|---|
| `DataInduction` | facts about data that the proofs share: induction given by sets, recursive functions, extremes, sums |
| `SolverSlot` | abstract: a container holds one session, which takes a free slot and never returns after losing it |
| `SolverSessions` | detailed: any number of runs against one OpenDSS container |
| `SolverSessions_proofs` | its invariant, safety theorems and the implementation of `SolverSlot`; what a run reads is what its last solve asked for |
| `ControlLaw` | the control laws as functions: envelope cap, inverter curves, the six DR plugins |
| `DRCoordination` | one run: QSTS loop, coordinator, controller and twins |
| `DRCoordination_proofs` | what the control laws guarantee for every reading; the run's types, charge bound, failures, sessions, PV layers, ratchet and twins' book |
| `RequestReply` | abstract: a request is asked once and returns once, with an event of its own or nothing |
| `BusConnection` | `NatsTransport.connect`: attempts, windows, adoption |
| `BusRequests` | detailed, extends `BusConnection`: a service's commands, requests, waiters and thread pool |
| `BusRequests_proofs` | its invariant, `OneConnection` and the implementation of `RequestReply` |
| `ProfileStore` | the custom profile files, as steps of concurrent writers |
| `Battery`, `EvCharging` | one battery step, dispatch and ageing; one vehicle's session |
| `LoadGeneration` | extends the three: the generate command from the device draw to the payload |
| `LoadGeneration_proofs` | every invariant of its run: files, energy, devices, answers and summaries |
| `NetworkModel` | what a network definition is and when it is refused |
| `Assembly`, `PsseImport`, `CimImport`, `DssImport`, `NetworkImport` | the parsers, from records and elements to a definition, and the dispatcher |
| `ImportCases` | one network written in every format and dialect, what it means, and what a format can write |
| `ImportCases_proofs` | what the validation lets through; RAW, RAWX and OpenDSS files are read as they were written |
| `NetworkImport_proofs` | the same of CIM files, and of every file by way of the dispatcher |
| `NetworkRegistry` | the network commands over one directory, in threads |
| `OperatingEnvelopes`, `Kpis` | the envelope algorithms; the indicators, tariffs and summaries |
| `SimulationEngine` | extends the registry and both: studies beside the network commands |
| `SimulationEngine_proofs` | every invariant of its run |
| `MCSolverSessions`, `MCDRCoordination`, `MCBus`, `MCLoadGeneration`, `MCSimulationEngine` | instances for TLC |

Definitions named after a bug (`BuildUnlocked`, `AccumulateLatest`, each
commented "Mutant") are single changes of the definition that follows them. They
are not part of the specifications; each breaks one property, which shows that
the property depends on that part of the code.

### SolverSessions

State of a `RemoteSolverEngine` (phase, commands issued, `_pending`,
`_read_cache`), of every command and its handler (`act`, `pc`, `taken`, `seen`),
of the service (`_lock`, `_session_id`, `_engine`, `_workdir`, files on disk), and
of the OpenDSS process (whose circuit is loaded, which update batch it carries
and which one it last solved). One action per client method and per step of a
handler between two points where another thread can act. `build` and `teardown`
change the session's attributes one after another, while other handlers read
them: `BuildLock` or `Teardown` (lock, engine), `DropName`, `DropFiles`, then for
a build `BuildCompile`, `BuildName`, `BuildInstall`, `BuildFile`, or `BuildFail`.
`solve` and `read` check the session, take the engine and then work in pieces
without the lock. `Timeout` leaves the handler running.

Elements and voltages are abstracted to *batches*: a batch of updates is a
number, and what a read returns is the batch the solved circuit carried and the
set of runs that touched it (`by`, a history variable).

* `SlotCoherent`: at every step of a build or teardown, a handler that looks the
  session up finds no engine or that of the named session, with its files and its
  circuit; whoever takes the lock finds session, engine and directory of one run;
* `BuildExclusive`: one build at a time is past the lock;
* `CleanReadIsExact`: a read that only the run itself touched returns the batch
  of its last solve, cache included;
* `ClosedStaysClosed`, `TeardownSparesOthers`: a closed run's session does not
  return, and a teardown - also a late one - frees only its own session;
* `ImplementsSlot`: the container implements `SolverSlot`, with `holder` the
  installed session and `retired` the sessions built and no longer installed;
* `RunsFinish`, `LockReleased`: every run ends and every build frees the lock.

`OldSessionErrors` is what `opendss-solver/README.md` promises of replaced
sessions; run `solver_eviction` shows a command that does not error.

### ControlLaw and DRCoordination

`ControlLaw` works in integers: voltages in 1/1000 pu, signals, curve factors
and SOC in percent, kW, kWh, and 0.0001 kvar; divisions round down. This keeps
the order of the plugins, the droop clipping and every minimum and maximum,
which is what the properties distinguish. `ControlFor` is `compute_setpoints`:
the plugins in registry order (absorb, support, curtail, reactive, envelope, EV).

`DRCoordination` follows one run of `run_simulation`: `configure` and `start`
(the coordinator's constructor), then per timestep `Drive` (profiles, cap,
solve), `Inverter` (one iteration of `apply_inverter_control`), the exchange
`status` - `control` - `Apply` or `Settle`, `record`, and finally the two stops.
Requests are `Send`, `Handle` and either `Proceed`/`Apply`/`Settle`/`Recorded`
or `GiveUp`; an expired command moves to `late` and may be handled at any later
time. `Restart` forgets the sessions of the twins or of the controller (the
compose file restarts containers on failure). `SolverFails` is an exception of a
solver command wherever the code issues one. `fault` is a history variable: a
request was lost or its answer could not be published, a solve raised, or the
twins restarted.

`elem` holds the values last sent to a site's elements; `q` is the reactive
setpoint last sent. Building loads are not part of it: they are driven from the
schedule every timestep and no installed control plugin changes them. The shed
channel of custom control plugins is left out for the same reason. A site
without an entry in the envelopes has `NoLimit`.

* `LogInStep`: the twins' book has an entry per finished timestep, in order, at
  most one ahead, complete when a healthy run reaches its stops;
* `TwinsRecordWhatRan`: booked setpoints are what the circuit ran, also when
  the exchange stops at its iteration cap;
* `PvStaysCapped`: no later layer exceeds the capped PV output;
* `ChargeWithinHeadroom`: running maxima of two plugins' charge commands stay
  within the battery's headroom;
* `ManagedPvWithinLimit`: after a recorded timestep the PV output that neither
  demand nor the charge command takes is within the published limit;
* `NoLeak`: a run without faults leaves no session behind;
* `ControllerRestartHarmless`: controller restarts alone fail no run;
* `CurtailmentRatchets`: within a timestep PV and EV powers only fall (action
  property; Volt-Watt off, since its factor follows the voltage);
* `RunEnds`: every run ends.

Four statements of the documentation or of comments are refuted by runs of their
own: `FlagIsTheSolvers` (`dr_flag`), `EnvelopeKept` (`dr_envelope`),
`ManagedExportHeld` (`dr_managed`) and `ReactiveIsLatest` (`dr_reactive`).

### The bus

`BusConnection` is the 30 s `connect`: the caller starts an attempt in a thread
with an event loop of its own, waits a window, and adopts it or passes it over;
an attempt that connects after its window asks `decided`/`keep` and closes.
`BusRequests` adds one service on the connection: deliveries become tasks of the
loop's default executor (`queue`, and `active` for those that hold a thread), a
command's handler makes `Requests[c]` requests in turn and blocks its thread for
each, and every waiter stays subscribed, so an event of the peer becomes one
task per request made so far. A publish may raise although the message went out;
the peer may answer late, twice, or not at all; the connection may close. A wait
may expire at any moment, also while its answer stands in the queue behind the
threads that wait for it. Three commands are never answered, as in the code: one
whose body cannot be decoded (`Deliver` drops it), one whose action has no
handler (`TakeUnknown`), and one whose error event could not be published
(`unheard`).

One statement about time is built in: the caller rules on an attempt within the
10 s the attempt waits for the ruling.

* `OneConnection`: one loop at most keeps running, the adopted one;
* `ImplementsReply`: the participant implements `RequestReply`, with `asked` the
  requests published and `value` what each returned;
* `CommandsAnswered`: a full pool starves no command for good. Every command that
  reached the pool ends, also when all threads wait for events that only another
  thread could deliver, and is answered but for the two last cases above.

That waiters are never unsubscribed is part of the model; no property bounds them,
since nothing in the code does.

Commands that arrive before `main.py` stores the participant are refused; that
is in `SimulationEngine!ReceiveStudy`.

### The load engine

`LoadGeneration` is `run_generation`: the device draw of `build_bus_data` or an
explicit list, then for every bus and day the plugins in ascending order, the
battery one timestep at a time, the night's ageing, and finally merge, summary
and payload. Other handlers save and delete profiles between any two steps, and
a profile is read when the plugin of that bus and day runs. `ProfileStore` makes
a save of two steps: `open(.., "w")` truncates, closing writes. Random draws are
choices; shapes are percentages; the energy unit is kWh/100 so that a charge in
percent of a capacity is exact. A request with an empty list of buses is answered
at once. The devices the constants may hold are those the engine installs: a
battery that starts half charged between its limits of charge, sessions at their
charger's rate (`DeviceAssumption`), requests of at least one day
(`RequestAssumption`).

* `CompleteUnlessDisturbed`, `ShapesAreTheirKind`: files and what is read of them,
  from which the clip to the unit (`Shape`) takes nothing;
* `EnergyInRange`: the battery keeps its usable range through steps and nights;
* `DispatchNeverOvershoots`: self-consumption moves the net load towards zero and
  not past it, which depends on the plugin order;
* `EvDrawsWhatFits`: at its charger's rate a vehicle draws its need, or what the
  timesteps it is plugged in can give. A smart one may miss part of it, and the
  property bounds the shortfall of a night at home: the docstring's target by
  departure (`ev_model.py:53-62`) is not always reached, because the rate is
  spread over the exact stay while power flows in whole timesteps;
* `PenetrationIsMet`: the PV of the draw never exceeds the penetration and reaches
  it, unless the request names a PV bus twice: the list is not made unique, so the
  bus's load counts twice in what the rest is shared by (`generator.py:336-345`);
* `PayloadCarriesEverything`: one row per bus id, of the configuration it is sent
  with. Results are stored by id (`generator.py:208`), so of a bus configured
  twice the last configuration remains;
* `SummaryMatchesSeries`: the summary is that of the series sent with it.

### The simulation engine

`NetworkRegistry` is the directory of network files: save, import (a sanitised
name, an open, a write), delete, and the scan that every command starts with,
while an operator drops files in. A file is absent, truncated, or a definition
with the verdict of `validate_network_dict`. `promised` records what the last
answer said of an id. The parsers work on records, elements and commands (the
splitting of text into fields is left out); `ImportCases` writes a case in each
format the way the tests' sample files do, and says what it means. A case is any
list of voltages, loads, lines and transformers (`IsCase`). `Writable` says which
dialects can hold it: those in whose units its numbers are whole. `CaseAssumption`
asks that each uploaded case is one, is written in a dialect that can hold it, and
passes the validation.

`SimulationEngine` adds studies: resolve, open a session, compute envelopes,
start the coordinator, run, stop, close, report, with a failure possible at each
call that leaves the engine. Inside it `OperatingEnvelopes` computes limits for a
solver that is linear in the export (`IsPlant`), and `Kpis` the report of any
finite sequence of timesteps (`IsResult`). Sites of equal sensitivity are taken
in any order. The phases that exchange messages are abstract here; their details
are those of `SolverSessions` and `DRCoordination`.

* `DiskAnswersLast`: what was answered about a network stays true, whatever is
  dropped in beside it - except that while a dropped-in file holds words where
  numbers belong every scan raises and nothing is served (`ScanRaises`);
* `DefaultIsListed`: a listing's default is in the list, unless the directory
  changed between the listing's two scans;
* `ServedIsSound`: nothing unconnected is served;
* `ImportedAsWritten`: any format and dialect that `ImportCases` writes, asked for,
  named or guessed, gives the network the case means and is not refused;
* `SessionReleased`: every way out of a study closes its solver session;
* `EnvelopesNeverWorsen`: limits used in full break nothing that was not broken;
* `ReportTellsOneStory`: the places that count agree, the charts included, and steps
  that did not converge change only the share of those that did (the charts show
  every timestep).

`RawxSaysWhatRawSays` is refuted by `rawx_loads`: `importers.py:403` reads the
status as `value or 1`, so a load out of service is served as a load.

`ImportedAsWritten` excludes that case (`Misread`) and two more: in v32/33 files a
record whose first token is `0` ends its section, also when that 0 is an
impedance; and JSON of which neither the request nor the name tells the format is
guessed by the word `"network"` (`importers.py:1005-1016`), which RAWX may leave
out and the platform's own JSON may contain. A further restriction is in `WritableInCim`: `from_cim` tells volts from
kilovolts, and watts from megawatts, by the largest value of a file
(`importers.py:531-544`), so a file in volts needs a level of 1 kV or more and
one in watts a load of 1 kW or more; a network below that is misread by 1000 or
a million, which the comment there rules out as not real. `EnvelopesNeverWorsen` excludes the linearised method on a branch
whose flow export reverses (`Relieved`), although `envelopes.py:28-30` calls the
linearisation conservative. `SessionReleased` excludes lost messages, restarts
and a `coordinator.close()` whose publish raises: it skips `engine.close()`.

### What modelling showed besides

Behaviour that no property refutes, but that a reader of the code may not expect:

* a discharge near the floor delivers energy that the clip gives back, so the
  round trip can be better than `efficiency` (`bess_model.py:38-41` says equal);
* `equal` and `prorata` give no export at all when no row binds, `max_total`
  gives full capability; the search never reaches it (255/256);
* an unknown tariff is noticed after the whole run, an unknown strategy after
  the session was opened;
* the curtailed energy counts timesteps that did not converge;
* a dropped-in file with a value that is not a number breaks every scan
  (`ScanRaises`), although `model.py:373` means to skip invalid files;
* a run answered by an event that never arrives, and a command whose error event
  could not be published, look alike to the requester: both wait out the timeout;
* a bus id given twice keeps its last configuration, while `get_summary` still adds
  up `total_pv_capacity_kw` over both (that figure is not modelled); a PV bus named
  twice lets the draw miss the penetration it was asked for;
* smart charging can leave a vehicle short of its target (see `EvDrawsWhatFits`);
* the DSS reader gives every line's rating at the circuit's voltage and no
  voltage behind a transformer's secondary winding;
* branches that a RAW file marks open are imported closed.

## Runs, bounds and fairness

| Run | Question | Bounds |
|---|---|---|
| `solver_sessions` | is a container shared by two runs safe, and do runs end | 2 runs with 4 and 3 commands (build, solve, read, teardown), 1 update batch, one run that may reset |
| `solver_eviction` | do a replaced session's commands error | same instance, no fairness |
| `dr_coordination` | is a coordinated run in order under faults | 1 site, 2 timesteps (sun with a limit and a discharging battery; evening with an EV), 4 voltages, 4 configurations, 2 DR iterations, 1 inverter iteration, 1 restart |
| `dr_ends` | does every run end | 2 sites, 1 timestep, 2 voltages, 3 and 3 iterations, 1 restart |
| `bus_requests` | does the bus keep its promise, and does a full pool free itself | 2 commands with 1 request each, 2 threads, 2 attempts |
| `load_generation` | does a horizon add up while its profiles change | 12 kinds of request (one without buses, one that names a PV bus twice, one that configures a bus twice), up to 3 buses, 2 days of 4 timesteps, 2 vehicles of 4 kinds (smart ones that spread and that cannot); 1 name, 2 writers, 3 uploads (one invalid) |
| `sim_engine` | do network commands and studies stay right side by side | 2 threads, 2 ids, 1 dropped-in file, 4 cases in 5 formats, 1 study at a time with 2 sites, 2 rows, 2 intervals, 3 search steps |
| `rawx_loads` | does RAWX say what RAW says | as `sim_engine` |
| `dr_flag`, `dr_envelope`, `dr_managed`, `dr_reactive` | does the code keep the quoted statement | as `dr_coordination` without restarts; `dr_envelope` with 2 voltages |

Two runs are the smallest number with an eviction, and four commands let one of
them build, solve, read and close around it; a third run adds no new pair of
handlers, since every interaction goes through the one slot. In the DR runs the
voltages cover under-voltage, nominal, the droop's partial range and the range
above Volt-Watt; two timesteps show what is carried from one to the next; two
iterations reach the cap without settling. The battery (91 %, 10 kWh) is chosen
so that storage takes part of an excess and curtailment the rest.

In `bus_requests` the two commands can take both threads of the pool and starve the
events they wait for, and a second attempt lets a late connection race its retry.
Both commands' waiters hear both events, so a
stale waiter and a doubled event occur with one request each; the theorems cover
any number of requests and attempts. In `load_generation` the requests cover
every plugin, with and without the others, uploaded and measured days, both schedules,
ageing over a night, assignment with halves to round, and plugins that fail; one
profile name is enough because files do not interact. In `sim_engine` the cases
hold a step-down transformer with a tap and a delta winding, loads in and out of
service, and an impedance of 0; the plants hold a row that binds, one that is
violated without export, and one that export relieves until it turns around; the
results include timesteps that did not converge, and none that did. One study at
a time (`MaxStudies`), since studies share nothing but the directory, which a
study reads once. `sim_engine` allows deadlock because an engine with nothing to
do may stop.

`sim_engine` has about 542,000 states and takes three to four minutes, `bus_requests`
714,000, `solver_sessions` 299,000 and `load_generation` 201,000 (one to two minutes
each); the others take a minute or less.

Fairness. `SolverSessions!FairSpec`: a run's thread keeps running and a thread
that started a build continues it (both are ordinary threads; the wait for an
event has a timeout, so a run needs nothing from the bus). Lock acquisition is
not assumed fair. `DRCoordination!FairSpec`: weak fairness of the run's own
steps only. No command is assumed to be delivered or handled.
`BusRequests!FairSpec`: the caller of `connect`, its attempts and the service's
threads keep running, an open connection delivers what it was given, and a wait
ends by its answer or its timeout. Nothing is assumed of the peer or the broker.
In the sessions and on the bus no step can be undone, so every behaviour is finite but
for stuttering and one weak fairness condition over all the fair steps says the
same as one for each of them.
`LoadGeneration` and `SimulationEngine` state safety only: a generate command is
a loop over finite lists, and a study's end is `RunEnds` and `RunsFinish`.

## Proofs

`SolverSessions_proofs` proves for any set of runs and budgets the types, slot
coherence, build exclusion, `ClosedStaysClosed`, `TeardownSparesOthers` and the
implementation of `SolverSlot`. The inductive invariant `IInv` adds to the types
that commands are issued in order (nothing is pending after a later one), the
shape of the slot for every stage of the build or teardown that holds the lock
(`SlotShape`), and that a dropped session has no files: the properties themselves
are not inductive, because what a build installs depends on what it dropped several
steps earlier. `Published` and `Named` tell the builds that have given their
session its name from those whose reply is out, which the abstract slot needs.
The implementation theorem maps every step to `Grant`, `Vacate` or a stutter.

For `CleanReadIsExact` a second invariant follows the command a run
waits for (`Follows`): what batch a circuit nobody else touched carries at
each stage of that command's handler. It rests on `Alone`: until a run fails or
closes, every earlier command of it was answered, so no second handler of it is
left to change the circuit behind its back; and any other run's handler leaves
its mark on the circuit it changes.

`DRCoordination_proofs` begins with the control laws: for every reading charge
commands stay within the headroom (`ChargeBounded`), an excess over the limit is
stored or curtailed without weakening the voltage response (`ExcessCovered`), and
a capped schedule meets its limit (`CapMeetsLimit`). It then proves `TypeOK` and
`ChargeWithinHeadroom` for any sites, schedules, voltages and iteration counts.
`CountersInOrder` is the strengthening: counters are below their bounds in the
stages that may raise them. The charge bound needs the lemma that a site's
headroom depends on the timestep alone.

Two more invariants follow in the same module. `FaultInv` says where, without a fault,
the twins' and the controller's sessions are open at each stage and that no
expired command is left to reopen them: `NoLeak` and `ControllerRestartHarmless`.
`LayerInv` says that the elements are, throughout an exchange, what the setpoints
leave of the capped schedule; since setpoints only grow and cover the
controller's last answer, it gives `PvStaysCapped`, `ManagedPvWithinLimit` and
the ratchet.

It also proves `LogInStep` and `TwinsRecordWhatRan`. `BookInv` ties the book's
length to the stage; its `LateInOrder` is the point: an expired record is the only one, belongs to the timestep the run failed in and finds the book one
short of it, so handled late it appends the right entry, and an expired start
ended its run before any record. `SetsMatch` and `RanInv` then carry the
recorded setpoints to the results and the elements.

`BusRequests_proofs` proves, for any commands, requests, threads and attempts,
the types, `OneConnection` and the implementation of `RequestReply`. Its invariant adds that the
adopted attempt is the one told to keep running; that a command is queued once,
before its handler begins; that requests are asked in turn; and that what a
waiter heard was published.

Most of what the load engine and the simulation engine compute is a sum, a walk or
a recursion over data of any length. `DataInduction` makes these provable. Its
induction principles take the property as the *set* of what has it (`NatIsBuiltUp`,
`FiniteIsBuiltUp`, `FiniteByElements`), so no lemma has an operator as a parameter;
`RecursionExists` gives the values of a recursive function from that; sums over
sets get the laws the proofs need (one element more or less, monotone, linear,
over a bijection), sequences theirs (`Concatenated`, `FlattenExists`), and a table
can be counted by rows or by columns (`CountedBothWays`).

`LoadGeneration_proofs` proves all nine invariants of `load_generation`, for any
requests, devices, profiles, writers and number of days:

* `CompleteUnlessDisturbed`: an undisturbed writer is alone and its file is empty;
  `ShapesAreTheirKind` follows from what the files may then hold (`FilesInv`);
* `TypeOK`, `EnergyInRange`: `JobInv` says that every series so far has integers
  for the whole day and that the battery is the one of this bus. A request is
  answered within the ratings (`DeliveryIsBounded`), a charge is stored whole
  (`ChargeIsStoredWhole`), a timestep and a night keep the usable range;
* `EvDrawsWhatFits`: the charging walk visits every step of the day once, and what
  is still missing only falls; a night's stay covers all of its timesteps but one at
  least, which bounds what the spread rate misses;
* `PenetrationIsMet`: the buses are listed by a bijection and the places of the
  request's list map onto the buses they name (`SumOverImage`), so the capacities
  shared out by load and rounded down add up to the penetration at most, and to all
  of it, less one kW a bus, when the places are as many as the buses;
* `DispatchNeverOvershoots`: `DispatchInv` says which steps the battery has
  answered; the plugins before it leave the load it answers to, those after it
  are none;
* `PayloadCarriesEverything`, `SummaryMatchesSeries`: `DaysInv` and `HorizonInv` say
  that the finished days and buses are complete and that the rows are those of
  the ids so far, each with its last configuration, `FleetInv` that every timestep
  draws no more than its vehicles can (unless the request's charger is slower than
  the sessions'); concatenated days then keep both, and the
  sums and peaks of the summary are those of the series.

`ImportCases_proofs` and `NetworkImport_proofs` prove that a reader gives back
what a writer wrote, for a case of any size:

* `RawxAsWritten`: the tables row by row. Loads are added to their buses one list
  at a time, and what a bus gets is a sum over a set of places (`LoadAt`);
* `Raw33AsWritten`, `Raw34AsWritten`: first that a section's records are found.
  The file is a concatenation of blocks, and `Turned` says at which blocks the
  reader turns to a section; no other block turns to it, because `Canon` tells a
  section of lines from one of transformers. Then the records: a winding's
  voltage in any of three units is the case's tap, and a record of four lines
  starts where the one before ended (the function of starts, by induction);
* `DssAsWritten`: each bus name keeps the number it got when it was met first
  (induction over the statements), numbers are given once (`NumberFor`), so the
  network is the case's up to the renumbering, which also keeps every verdict;
* `CimAsWritten`: the two windings of a transformer are ranked as they were
  written, the queue of `Spread` reaches every bus from those whose voltage a
  level or a winding gives (the network is connected, and lines join one voltage),
  and the tighter of a line's two limits is its rating;
* `ParsedAsWritten`: the dispatcher finds the parser of the file's format.

`SimulationEngine_proofs` proves every invariant of `sim_engine`, for any threads,
networks, files, plants and answers of the other services:

* `SessionReleased`: `JobInv` carries a study's session from step to step;
* `DiskAnswersLast`: `DiskInv` says that nothing is promised of a network while its
  file is open, that a writer which has been alone at a file finds it empty and
  has no other beside it, and that what is promised is what the network's own file
  holds. A scan then finds it because only that file and one dropped in can carry
  the id, and the later of the two is served. It assumes that the names of the
  directory are distinct and that what is stored is named for its file;
* `ServedIsSound`: whatever is in the directory carries the verdict of its own
  content (`ContentInv`), and the validation lets nothing through that repeats a
  number, is cut off from the source or joins two voltages by a line
  (`AcceptedIsSound`, by induction over the closure of the branches);
* `ImportedAsWritten`: `ImportsComeOut` gives `ParsedAsWritten` for every upload.
  An upload that may be refused is therefore one that `Misread` names (`Shaped`),
  and `Checked` says of every file in the directory that was imported that it
  holds the network of its case; a scan serves nothing else;
* `DefaultIsListed`: a listing under way knows the default it has read, until a
  change of the directory is noticed (`ListInv`);
* `EnvelopesNeverWorsen`: the limits a study carries come from a plant and an
  allocator (`CarryInv`). What the limits of `equal`, `prorata` and the greedy
  search for the total use of a row stays within the row's headroom (`Within`), the
  last by induction over the sites it has served; for a row that export does not
  relieve this keeps the row (`WithinIsKept`). The search keeps by its own
  invariant that its lower end violates nothing. `SearchIsTight` says the other
  half: one step of the resolution above the answer a row is violated, also when
  violations are not monotone in the export;
* `ReportTellsOneStory`: the counts per timestep and per bus are the same table
  counted both ways, and the extremes of the report are those of the timesteps
  that converged.

The assumptions are the named `ASSUME`s on the constants, which TLC evaluates on
the instances. Every invariant and action property of the passing runs, and both
implementations, have a theorem. Only model-checked: all liveness (`RunsFinish`,
`LockReleased`, `RunEnds`, `CommandsAnswered`), which is out of the prover's
reach.

## Plan

1. The variants inside the liveness properties: which measure each step of a run
   and of a build lowers, so that only fairness is left to TLC.
2. Files that describe more than a case does: three-winding transformers with
   loads behind them, phases of single consumers, substations.
3. Twin threshold overrides and summary figures; the energy counters of the
   envelopes; the listing commands.

## Not modelled

* The power flow and the generated OpenDSS text; load, solar and weather shapes
  (statistics); the exponential ageing of transformers: floating point without
  control state.
* The SINCAL container: its protocol is the OpenDSS one; the rest is a COM
  interface and a database schema of the vendor, which the repository only calls.
* The splitting of text into fields and the XML lookups of the importers, names
  and positions, the optional sources of built-in networks.
* The UI: forms, charts and a client that forwards one command at a time. Its bus
  client keeps a failed connection until it is restarted, which a model would
  only repeat.
* The report tools: offline documents.
* Twin threshold overrides, summary figures and envelope energy counters of a
  coordinated run; the commands that answer from constants.
