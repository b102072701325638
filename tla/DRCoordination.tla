--------------------------- MODULE DRCoordination ---------------------------
(***************************************************************************)
(* One simulation run: the QSTS loop and its demand-response coordination. *)
(*                                                                         *)
(* Every timestep the Simulation Engine drives the circuit from the        *)
(* profiles, caps exports at the operating envelope, lets the inverters    *)
(* react, and then exchanges messages with two other containers until the  *)
(* setpoints settle: the prosumer shadow twins report status, the DR       *)
(* controller answers with setpoints, the engine applies and re-solves.    *)
(* The outcome is recorded back to the twins.  Requests expire; handlers   *)
(* of expired requests may still run; containers restart and forget their  *)
(* sessions.  The feeder itself is not modelled: a solve may return any    *)
(* voltages, converged or not.                                             *)
(***************************************************************************)
EXTENDS ControlLaw, Sequences, FiniteSets

CONSTANTS
    Site,                \* the buses with profiles
    Steps,               \* timesteps of the run
    Schedule,            \* per site and timestep: load, pv, ev, bess, soc, limit
    Capacity,            \* per site: rating (PV), cap (battery), ev
    Voltage,             \* voltages a solve may return
    Config,              \* run configurations, see ConfigType
    MaxIterations,       \* DRController.max_iterations
    InverterIterations,  \* apply_inverter_control's iterations
    MaxRestarts          \* bound: container restarts per run

ConfigType == [strategy : Strategy \union {"uncoordinated"},
               doe : {"off", "auto", "managed"}, vv : BOOLEAN, vw : BOOLEAN]

ASSUME ScheduleAssumption ==
    /\ Steps \in Nat \ {0}
    /\ Schedule \in [Site -> [1..Steps ->
          [load : Nat, pv : Nat, ev : Nat, bess : Int, soc : 0..100,
           limit : Nat \union {NoLimit}]]]
    /\ Capacity \in [Site -> [rating : Nat, cap : Nat, ev : Nat]]
ASSUME ConfigAssumption ==
    /\ Config \subseteq ConfigType
    /\ \A c \in Config : c.doe = "managed" => c.strategy # "uncoordinated"
ASSUME BoundsAssumption ==
    /\ MaxIterations \in Nat \ {0} /\ InverterIterations \in Nat \ {0}
    /\ MaxRestarts \in Nat /\ Voltage \subseteq Nat

VARIABLES
    \* ---- the run
    cfg,      \* its configuration
    pc,       \* what it does next, see Stage
    out,      \* the request it waits for: none, sent, ok or err (answered)
    t,        \* the timestep
    iter,     \* iterations of the fixed point under way
    conv,     \* the convergence flag the loop carries
    applied,  \* per site: the setpoints in force (applied_pv, ... , applied_q)
    results,  \* per finished timestep: what the run reports
    failed,   \* an exception ended the run
    \* ---- the solver container
    elem,     \* per site: the element values in the circuit
    solved,   \* voltages and convergence of the last power flow
    \* ---- the other containers
    twins,    \* the twins' session: open or not, and what was recorded
    ctl,      \* the controller holds the run's session
    late,     \* commands whose request expired before they were handled
    \* ---- history
    restarts, \* restarts so far
    fault     \* a request was lost or refused, a solve raised, the twins restarted

runVars    == <<cfg, pc, out, t, iter, conv, applied, results, failed>>
solverVars == <<elem, solved>>
peerVars   == <<twins, ctl, late>>
vars == <<runVars, solverVars, peerVars, restarts, fault>>

-----------------------------------------------------------------------------
Request == {"configure", "start", "status", "control", "record",
            "stopTwins", "stopCtl"}
Stage   == Request \union {"drive", "inverter", "ended"}
Waiting == {"none", "sent", "ok", "err"}

\* q is a signed setpoint; qset: applied_q has an entry for the site.
NoSetpoint == [pv |-> 0, ev |-> 0, chg |-> 0, sup |-> 0, q |-> 0, qset |-> FALSE]
Unset  == [s \in Site |-> NoSetpoint]
Idle   == [s \in Site |-> [pv |-> 0, bess |-> 0, ev |-> 0, q |-> 0]]
Closed == [open |-> FALSE, log |-> <<>>]
Opened == [open |-> TRUE, log |-> <<>>]

Coordinated == cfg.strategy # "uncoordinated"
Inverters   == {s \in Site : (cfg.vv \/ cfg.vw) /\ Capacity[s].rating > 0}

\* TwinConfig.qualifies with the default thresholds.
Qualifies(s) == Capacity[s].rating > 0 \/ Capacity[s].cap > 0 \/ Capacity[s].ev > 0

Now(s) == Schedule[s][t]

\* What the loop drives a site with: its schedule, capped when the run enforces
\* the envelope itself.
Driven(s) == IF cfg.doe = "auto" /\ Now(s).limit # NoLimit
               THEN EnvelopeCap(Now(s), Now(s).limit)
               ELSE [pv |-> Now(s).pv, bess |-> Now(s).bess]

-----------------------------------------------------------------------------
Init ==
    /\ cfg \in Config
    /\ pc = IF Coordinated THEN "configure" ELSE "drive"
    /\ out = "none"
    /\ t = 1 /\ iter = 0 /\ conv = TRUE
    /\ applied = Unset
    /\ results = <<>>
    /\ failed = FALSE
    /\ elem = Idle
    /\ solved \in [volts : [Site -> {1000}], ok : {TRUE}]
    /\ twins = Closed /\ ctl = FALSE /\ late = {}
    /\ restarts = 0 /\ fault = FALSE

-----------------------------------------------------------------------------
(* The solver.                                                             *)

\* One power flow over new element values.
SolveWith(e) ==
    /\ elem' = e
    /\ solved' \in [volts : [Site -> Voltage], ok : BOOLEAN]

\* The finally of run_simulation: close the coordinator if there is one.
Closing == IF Coordinated THEN "stopTwins" ELSE "ended"

\* An exception leaves the run for that finally.  Raised by the coordinator's constructor, it leaves no coordinator to close.
Raise ==
    /\ pc' = IF pc \in {"configure", "start"} THEN "ended" ELSE Closing
    /\ failed' = TRUE

\* A solver command raises: driving, solving, or reading voltages.
SolverFails ==
    /\ \/ pc \in {"drive", "inverter"}
       \/ pc \in {"status", "record"} /\ out = "none"
       \/ pc \in {"control", "record"} /\ out = "ok"
    /\ Raise
    /\ fault' = TRUE
    /\ out' = "none"
    /\ UNCHANGED <<cfg, t, iter, conv, applied, results, solverVars, peerVars, restarts>>

-----------------------------------------------------------------------------
(* The QSTS loop.                                                          *)

\* Where a timestep goes after its autonomous part.
AfterInverters == IF Coordinated THEN "status" ELSE "record"

\* coordinate() starts with a flag of its own, whatever the last solve said.
FlagAfter == pc' = "status" \/ solved'.ok

\* Drive the loads and elements from the profiles, cap, and solve.  Reactive
\* setpoints are not part of the schedule: the circuit keeps what it has.
Drive ==
    /\ pc = "drive"
    /\ SolveWith([s \in Site |-> [pv |-> Driven(s).pv, bess |-> Driven(s).bess,
                                  ev |-> Now(s).ev, q |-> elem[s].q]])
    /\ pc' = IF Inverters # {} THEN "inverter" ELSE AfterInverters
    /\ conv' = FlagAfter
    /\ iter' = 0
    /\ UNCHANGED <<cfg, out, t, applied, results, failed, peerVars, restarts, fault>>

\* One iteration of apply_inverter_control.
Inverter ==
    /\ pc = "inverter"
    /\ SolveWith([s \in Site |-> IF s \in Inverters
          THEN [elem[s] EXCEPT
                  !.q  = IF cfg.vv THEN VoltVarKvar(solved.volts[s], Capacity[s].rating)
                                   ELSE @,
                  !.pv = IF cfg.vw THEN Reduced(Driven(s).pv,
                                                VoltWattFactor(solved.volts[s]))
                                   ELSE @]
          ELSE elem[s]])
    /\ IF iter + 1 = InverterIterations
         THEN pc' = AfterInverters /\ iter' = 0
         ELSE iter' = iter + 1 /\ UNCHANGED pc
    /\ conv' = FlagAfter
    /\ UNCHANGED <<cfg, out, t, applied, results, failed, peerVars, restarts, fault>>

\* Record a timestep's result and go on.
Report ==
    /\ results' = Append(results, [converged |-> conv, physical |-> solved.ok,
                                   elem |-> elem, set |-> applied])
    /\ applied' = Unset
    /\ t' = t + 1
    /\ pc' = IF t = Steps THEN Closing ELSE "drive"

\* A timestep without coordination.
Finish ==
    /\ pc = "record" /\ ~Coordinated /\ out = "none"
    /\ Report
    /\ UNCHANGED <<cfg, out, iter, conv, failed, solverVars, peerVars, restarts, fault>>

-----------------------------------------------------------------------------
(* Requests to the twins and the controller, and their handlers.           *)

\* A command carries, for record, its timestep and the setpoints in force.
Command == IF pc = "record" THEN [op |-> pc, t |-> t, set |-> applied]
                            ELSE [op |-> pc, t |-> 1, set |-> Unset]

\* request(): publish the command and wait for its event.
Send ==
    /\ pc \in Request /\ Coordinated
    /\ out = "none"
    /\ out' = "sent"
    /\ UNCHANGED <<cfg, pc, t, iter, conv, applied, results, failed, solverVars, peerVars,
                   restarts, fault>>

\* Mutant: a controller that lost its session refuses control commands.
ServableWithSession(c) ==
    /\ c.op \in {"status", "record"} => twins.open
    /\ c.op = "control" => ctl

\* Mutant: the twins, too, make a session for a command that names none.
ServableAlways(c) == TRUE

\* The twins refuse an unknown session; the controller configures one.
Servable(c) == c.op \in {"status", "record"} => twins.open

\* The effect of a handler on the services' sessions.
Serve(c) ==
    /\ twins' = IF ~Servable(c) THEN twins
                ELSE CASE c.op = "start" -> Opened
                       [] c.op = "record" -> [twins EXCEPT !.log =
                                                 Append(@, [t |-> c.t, set |-> c.set])]
                       [] c.op = "stopTwins" -> Closed
                       [] OTHER -> twins
    /\ ctl' = CASE c.op \in {"configure", "control"} -> TRUE
                [] c.op = "stopCtl" -> FALSE
                [] OTHER -> ctl

\* The awaited command is handled and answered.  When publishing the ok event
\* raises, an error event follows a handler that succeeded.
Handle ==
    /\ out = "sent"
    /\ Serve(Command)
    /\ out' \in IF Servable(Command) THEN {"ok", "err"} ELSE {"err"}
    /\ fault' = (fault \/ (Servable(Command) /\ out' = "err"))
    /\ UNCHANGED <<cfg, pc, t, iter, conv, applied, results, failed, solverVars, late,
                   restarts>>

\* The handler of a command nobody waits for any more.
HandleLate(c) ==
    /\ c \in late
    /\ Serve(c)
    /\ late' = late \ {c}
    /\ UNCHANGED <<runVars, solverVars, restarts, fault>>

\* A container restarts and forgets its sessions.
Restart ==
    /\ restarts < MaxRestarts
    /\ restarts' = restarts + 1
    /\ \/ twins' = Closed /\ fault' = TRUE /\ UNCHANGED ctl
       \/ ctl' = FALSE /\ UNCHANGED <<twins, fault>>
    /\ UNCHANGED <<runVars, solverVars, late>>

-----------------------------------------------------------------------------
(* What the run makes of the answers.                                      *)

\* Mutant: close() stops the twins' session only.
AfterStopForgetsCtl(p) == "ended"

\* close() stops both sessions, whatever they answer.
AfterStop(p) == IF p = "stopTwins" THEN "stopCtl" ELSE "ended"

\* Mutant: a request waits for its event without a timeout.
GiveUpOnErrors ==
    /\ out = "err"
    /\ out' = "none"
    /\ IF pc \in {"stopTwins", "stopCtl"}
         THEN pc' = AfterStop(pc) /\ UNCHANGED failed
         ELSE Raise
    /\ UNCHANGED <<cfg, t, iter, conv, applied, results, solverVars, peerVars, restarts, fault>>

\* The wait expires, or an error event arrives: _request_ok raises, and only
\* close() swallows the exception.  The command may still be handled later.
GiveUp ==
    /\ out \in {"sent", "err"}
    /\ out' = "none"
    /\ late' = IF out = "sent" THEN late \union {Command} ELSE late
    /\ IF pc \in {"stopTwins", "stopCtl"}
         THEN pc' = AfterStop(pc) /\ UNCHANGED failed
         ELSE Raise
    /\ fault' = (fault \/ out = "sent")
    /\ UNCHANGED <<cfg, t, iter, conv, applied, results, solverVars, twins, ctl, restarts>>

\* The ok events that only move the run on.
Proceed ==
    /\ pc \notin {"control", "record"}
    /\ out = "ok" /\ out' = "none"
    /\ pc' = CASE pc = "configure" -> "start"
               [] pc = "start" -> "drive"
               [] pc = "status" -> "control"
               [] pc \in {"stopTwins", "stopCtl"} -> AfterStop(pc)
    /\ UNCHANGED <<cfg, t, iter, conv, applied, results, failed, solverVars, peerVars,
                   restarts, fault>>

\* The readings the twin of a site publishes: its schedule and the voltage the
\* coordinator read, plus the limit of a managed envelope.
Readings(s) ==
    [v |-> solved.volts[s], pv |-> Now(s).pv, ev |-> Now(s).ev, load |-> Now(s).load,
     soc |-> Now(s).soc, cap |-> Capacity[s].cap, rating |-> Capacity[s].rating,
     limit |-> IF cfg.doe = "managed" THEN Now(s).limit ELSE NoLimit]

Answer(s) == ControlFor(Readings(s), cfg.strategy)

\* Mutant: setpoints follow the latest answer instead of the largest.
AccumulateLatest(a, c) ==
    [pv |-> c.pv, ev |-> c.ev, chg |-> c.chg, sup |-> c.sup, q |-> c.q,
     qset |-> a.qset \/ c.q # a.q]

\* _accumulate: the running maximum of a site's setpoints, the latest reactive.
Accumulate(a, c) ==
    [pv  |-> Greater(a.pv, c.pv),   ev  |-> Greater(a.ev, c.ev),
     chg |-> Greater(a.chg, c.chg), sup |-> Greater(a.sup, c.sup),
     q   |-> c.q, qset |-> a.qset \/ c.q # a.q]

Settled == [s \in Site |-> IF Qualifies(s) THEN Accumulate(applied[s], Answer(s))
                                           ELSE applied[s]]

\* Mutant: the commanded curtailment restarts from the scheduled output.
CommandedFromSchedule(s, a) ==
    [ pv   |-> IF a.pv > 0
                 THEN Positive(Reduced(Now(s).pv, IF cfg.vw
                                  THEN VoltWattFactor(solved.volts[s]) ELSE 100) - a.pv)
                 ELSE elem[s].pv,
      ev   |-> IF a.ev > 0 THEN Positive(Now(s).ev - a.ev) ELSE elem[s].ev,
      bess |-> IF a.chg > 0 \/ a.sup > 0 THEN Now(s).bess - a.chg + a.sup ELSE elem[s].bess,
      q    |-> IF a.qset THEN a.q ELSE elem[s].q ]

\* The element values that put setpoints a in force at a site.  PV starts from
\* the capped output and the Volt-Watt factor at the voltage just read; the
\* battery starts from its schedule.
Commanded(s, a) ==
    [ pv   |-> IF a.pv > 0
                 THEN Positive(Reduced(Driven(s).pv, IF cfg.vw
                                  THEN VoltWattFactor(solved.volts[s]) ELSE 100) - a.pv)
                 ELSE elem[s].pv,
      ev   |-> IF a.ev > 0 THEN Positive(Now(s).ev - a.ev) ELSE elem[s].ev,
      bess |-> IF a.chg > 0 \/ a.sup > 0 THEN Now(s).bess - a.chg + a.sup ELSE elem[s].bess,
      q    |-> IF a.qset THEN a.q ELSE elem[s].q ]

\* Mutant: iterate until nothing changes.
NextIterationUncapped(i) == "status"

\* At most max_iterations rounds.
NextIteration(i) == IF i = MaxIterations THEN "record" ELSE "status"

\* Mutant: the last round's setpoints are noted but not applied.
ApplySkipsLast ==
    /\ pc = "control" /\ out = "ok"
    /\ out' = "none"
    /\ Settled # applied
    /\ applied' = Settled
    /\ SolveWith([s \in Site |-> IF iter + 1 = MaxIterations THEN elem[s]
                                 ELSE Commanded(s, Settled[s])])
    /\ conv' = solved'.ok
    /\ iter' = iter + 1
    /\ pc' = NextIteration(iter + 1)
    /\ UNCHANGED <<cfg, t, results, failed, peerVars, restarts, fault>>

\* The controller's answer changes a setpoint: apply all of them and re-solve.
Apply ==
    /\ pc = "control" /\ out = "ok"
    /\ out' = "none"
    /\ Settled # applied
    /\ applied' = Settled
    /\ SolveWith([s \in Site |-> Commanded(s, Settled[s])])
    /\ conv' = solved'.ok
    /\ iter' = iter + 1
    /\ pc' = NextIteration(iter + 1)
    /\ UNCHANGED <<cfg, t, results, failed, peerVars, restarts, fault>>

\* It changes none: the fixed point is reached.
Settle ==
    /\ pc = "control" /\ out = "ok"
    /\ out' = "none"
    /\ Settled = applied
    /\ pc' = "record"
    /\ UNCHANGED <<cfg, t, iter, conv, applied, results, failed, solverVars, peerVars,
                   restarts, fault>>

\* The twins recorded the timestep: coordinate() returns its flag.
Recorded ==
    /\ pc = "record" /\ out = "ok"
    /\ out' = "none"
    /\ Report
    /\ UNCHANGED <<cfg, iter, conv, failed, solverVars, peerVars, restarts, fault>>

-----------------------------------------------------------------------------
RunStep == \/ Drive \/ Inverter \/ Finish \/ Send \/ Proceed
           \/ Apply \/ Settle \/ Recorded \/ GiveUp \/ SolverFails

Ended == pc = "ended" /\ UNCHANGED vars

Next == \/ RunStep \/ Handle \/ Restart \/ Ended
        \/ \E c \in late : HandleLate(c)

Spec == Init /\ [][Next]_vars

\* The run's thread keeps running and its waits expire; no command is assumed
\* to be delivered or handled.
FairSpec == Spec /\ WF_vars(RunStep)

-----------------------------------------------------------------------------
Setpoint == [pv : Nat, ev : Nat, chg : Nat, sup : Nat, q : Int, qset : BOOLEAN]
Element  == [pv : Nat, bess : Int, ev : Nat, q : Int]
CommandType == [op : Request, t : 1..Steps, set : [Site -> Setpoint]]
ResultType  == [converged : BOOLEAN, physical : BOOLEAN,
                elem : [Site -> Element], set : [Site -> Setpoint]]

TypeOK ==
    /\ cfg \in Config
    /\ pc \in Stage /\ out \in Waiting
    /\ t \in 1..(Steps + 1)
    /\ iter \in 0..Greater(MaxIterations, InverterIterations)
    /\ conv \in BOOLEAN /\ failed \in BOOLEAN /\ fault \in BOOLEAN
    /\ applied \in [Site -> Setpoint]
    /\ results \in Seq(ResultType)
    /\ elem \in [Site -> Element]
    /\ solved \in [volts : [Site -> Nat], ok : BOOLEAN]
    /\ twins \in [open : BOOLEAN, log : Seq([t : 1..Steps, set : [Site -> Setpoint]])]
    /\ ctl \in BOOLEAN
    /\ late \subseteq CommandType
    /\ restarts \in 0..MaxRestarts

\* The twins' books follow the run: an entry per finished timestep, in order, and
\* at most one ahead, while its answer is under way.  A run that ends well leaves
\* a complete book behind it until it closes the session.
LogInStep ==
    /\ ~twins.open => twins.log = <<>>
    /\ \A i \in 1..Len(twins.log) : twins.log[i].t = i
    /\ Len(twins.log) \in {0, Len(results), Len(results) + 1}
    /\ (pc = "stopTwins" /\ ~failed /\ ~fault /\ out = "none") =>
          Len(twins.log) = Steps

\* What the twins recorded is what the feeder ran: the sites' elements at the end
\* of a timestep are their schedules less the recorded setpoints.  (Without caps
\* and Volt-Watt, which lower the PV output on their own.)
TwinsRecordWhatRan ==
    (cfg.doe # "auto" /\ ~cfg.vw) =>
       \A i \in 1..Lesser(Len(twins.log), Len(results)) : \A s \in Site :
          LET set  == twins.log[i].set[s]
              ran  == results[i].elem[s]
              plan == Schedule[s][i] IN
          /\ ran.pv = Positive(plan.pv - set.pv)
          /\ ran.ev = Positive(plan.ev - set.ev)
          /\ ran.bess = plan.bess - set.chg + set.sup

\* The layers are ordered: what the envelope left of a site's PV output, neither
\* the inverters nor the commanded setpoints of that timestep exceed.
PvStaysCapped ==
    pc \in {"inverter", "status", "control", "record"} =>
       \A s \in Site : elem[s].pv <= Driven(s).pv

\* The battery is never told to charge faster than its headroom at the start of
\* the timestep, although two plugins and several iterations ask it to.
ChargeWithinHeadroom ==
    \A s \in Site : t <= Steps => applied[s].chg <= Headroom(Readings(s))

\* Managed envelopes: once a timestep is recorded, the PV output that neither the
\* site's demand nor the charge command takes stays within the published limit,
\* whichever voltage response was combined with the envelope's.
ManagedPvWithinLimit ==
    (cfg.doe = "managed") =>
       \A i \in 1..Len(results) : \A s \in Site :
          LET plan == Schedule[s][i] IN
          (Qualifies(s) /\ plan.limit # NoLimit) =>
             results[i].elem[s].pv - results[i].set[s].chg
                <= plan.limit + plan.load + plan.ev

\* No session outlives its run, unless a container failed it.
NoLeak == (pc = "ended" /\ ~fault) => (~twins.open /\ ~ctl)

\* The controller's sessions are expendable: its restarts alone fail no run.
ControllerRestartHarmless == failed => fault

\* Coordination ratchets: within a timestep a commanded site never produces or
\* charges more again, so the exchange cannot swing back and forth.
CurtailmentRatchets ==
    [][(t' = t /\ pc = "control" /\ ~cfg.vw) =>
          \A s \in Site : elem'[s].pv <= elem[s].pv /\ elem'[s].ev <= elem[s].ev]_vars

\* Every run comes to an end, whatever its peers do.
RunEnds == <>(pc = "ended")

-----------------------------------------------------------------------------
(* Statements of the documentation that the code does not keep.            *)

\* README.md:329 - every step is recorded with its convergence flag (and only
\* converged steps enter the statistics).
FlagIsTheSolvers == \A i \in 1..Len(results) : results[i].converged => results[i].physical

\* README.md:315 - envelope cap, Volt-Watt, DR curtailment: no layer undoes
\* another.  Commands that only charge or curtail leave a cap in force.
EnvelopeKept ==
    (cfg.doe = "auto") =>
       \A i \in 1..Len(results) : \A s \in Site :
          LET plan == Schedule[s][i]  ran == results[i].elem[s]  set == results[i].set[s] IN
          (plan.limit # NoLimit /\ set.sup = 0 /\ set.ev = 0) =>
             Export(ran.pv, ran.bess, plan.load, ran.ev) <= plan.limit

\* control_plugins.py:153 - managed envelopes hold site export at the limit.
ManagedExportHeld ==
    (cfg.doe = "managed") =>
       \A i \in 1..Len(results) : \A s \in Site :
          LET plan == Schedule[s][i]  ran == results[i].elem[s]  set == results[i].set[s] IN
          (Qualifies(s) /\ plan.limit # NoLimit /\ set.sup = 0 /\ set.ev = 0) =>
             Export(ran.pv, ran.bess, plan.load, ran.ev) <= plan.limit

\* remote_coordinator.py:271 - reactive power follows the latest setpoint: when
\* an exchange settles, the inverters hold what the controller last asked.
ReactiveIsLatest ==
    [][(Settle /\ ~cfg.vv) => \A s \in Site : Qualifies(s) => elem[s].q = Answer(s).q]_vars
=============================================================================
