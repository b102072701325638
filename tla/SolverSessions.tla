--------------------------- MODULE SolverSessions ---------------------------
(***************************************************************************)
(* Concurrent simulation runs sharing one OpenDSS solver container over    *)
(* the bus.                                                                *)
(*                                                                         *)
(* A run owns a RemoteSolverEngine (simulation-engine/app/solvers/         *)
(* client.py): it issues one command at a time (build, then solves, reads  *)
(* and resets, then teardown), waits for the event with the command's      *)
(* correlation id, and gives up after a timeout.  The container            *)
(* (opendss-solver/dss_solver/service.py) runs every command in a thread   *)
(* of its own, so handlers interleave, start in any order, and outlive the *)
(* request they answer.  OpenDSS itself is one process-wide circuit.       *)
(*                                                                         *)
(* Only build and teardown take the service's lock.  Solve, read and reset *)
(* look the session up and then work on whatever circuit is loaded.        *)
(***************************************************************************)
EXTENDS Naturals

CONSTANTS Client,     \* the runs; each draws one fresh session id
          None,       \* Python's None
          Budget,     \* bound: commands each run issues, its teardown included
          MaxBatch,   \* bound: batches of element updates a run buffers
          Resetters   \* bound: the runs that use reset() (the QSTS does not)

ASSUME ClientAssumption == None \notin Client
ASSUME BoundsAssumption == Budget \in [Client -> Nat \ {0}] /\ MaxBatch \in Nat
                           /\ Resetters \subseteq Client

VARIABLES
    \* ---- RemoteSolverEngine, one per run
    phase,     \* where the run is, see Phase
    ncalls,    \* commands issued; the last one's correlation id
    batch,     \* update batches buffered so far
    pending,   \* _pending holds a batch that no solve has flushed
    flushed,   \* the batch the last solve put in force (0 after a reset)
    cache,     \* _read_cache, NoReading when it is None
    \* ---- commands, their handlers and the events that answer them
    act,       \* the action of each command
    arg,       \* the batch a solve carries (0: no updates)
    pc,        \* how far each command has got, see Stage
    taken,     \* the engine object a handler took from the service
    seen,      \* what a read handler has collected
    \* ---- OpenDSSSolverService and the OpenDSS process
    lock,      \* the build or teardown holding _lock, or NoCall
    session,   \* _session_id
    engine,    \* _engine: the session whose engine object is installed
    workdir,   \* _workdir: the session whose directory will be removed
    files,     \* the sessions with a working directory on disk
    circuit    \* the circuit loaded in OpenDSS

clientVars  == <<phase, ncalls, batch, pending, flushed, cache>>
callVars    == <<act, arg, pc, taken, seen>>
serviceVars == <<lock, session, engine, workdir, files>>
vars == <<clientVars, callVars, serviceVars, circuit>>

-----------------------------------------------------------------------------
(* Types.                                                                  *)

\* A command is named by its run and its correlation id.
Call   == UNION {{c} \X (1..Budget[c]) : c \in Client}
NoCall == <<None, 0>>

Phase  == {"new", "ready", "waiting", "failing", "done"}
Action == {"none", "build", "solve", "read", "reset", "teardown"}

\* "ok": the handler returned and its ok event is being published; "err": it
\* raised, and _on_command publishes the error event.
Answered == {"ok", "err"}
\* Between `with self._lock` and its end: what _drop_session still has to do,
\* then what a build still has to do.
Dropping == {"unname", "remove"}
Building == {"compile", "name", "install", "file"}
Locked   == Dropping \union Building
Stage == {"none", "sent", "checked", "engine", "applied", "volts"}
             \union Locked \union Answered

Batch == 0..MaxBatch

\* The circuit: the session it was compiled for, the runs whose commands
\* built or changed it since that build (auxiliary: provenance), the batch
\* its elements carry and the batch its last power flow solved.
Circuit == [owner : Client \union {None}, by : SUBSET Client,
            set : Batch, solved : Batch]
Fresh(c, who) == [owner |-> c, by |-> who, set |-> 0, solved |-> 0]

\* Getters read the circuit one after another: voltages, then the rest.
Snap      == [by : SUBSET Client, val : Batch]
NoSnap    == [by |-> {}, val |-> 0]
Reading   == [volts : Snap, rest : Snap]
NoReading == [volts |-> NoSnap, rest |-> NoSnap]
Snapshot  == [by |-> circuit.by, val |-> circuit.solved]

-----------------------------------------------------------------------------
Init ==
    /\ phase   = [c \in Client |-> "new"]
    /\ ncalls  = [c \in Client |-> 0]
    /\ batch   = [c \in Client |-> 0]
    /\ pending = [c \in Client |-> FALSE]
    /\ flushed = [c \in Client |-> 0]
    /\ cache   = [c \in Client |-> NoReading]
    /\ act     = [k \in Call |-> "none"]
    /\ arg     = [k \in Call |-> 0]
    /\ pc      = [k \in Call |-> "none"]
    /\ taken   = [k \in Call |-> None]
    /\ seen    = [k \in Call |-> NoReading]
    /\ lock = NoCall
    /\ session = None /\ engine = None /\ workdir = None
    /\ files = {}
    /\ circuit = Fresh(None, {})

-----------------------------------------------------------------------------
(* The run: RemoteSolverEngine and the code that drives it.                *)

\* _call: register a waiter under a fresh correlation id, publish, wait.
Issue(c, a, b) ==
    LET k == <<c, ncalls[c] + 1>> IN
    /\ ncalls[c] < Budget[c]
    /\ ncalls' = [ncalls EXCEPT ![c] = @ + 1]
    /\ phase'  = [phase  EXCEPT ![c] = "waiting"]
    /\ act'    = [act    EXCEPT ![k] = a]
    /\ arg'    = [arg    EXCEPT ![k] = b]
    /\ pc'     = [pc     EXCEPT ![k] = "sent"]
    /\ UNCHANGED <<taken, seen>>

\* Bound: a run keeps its last command for the teardown.
HasCallsLeft(c) == ncalls[c] + 1 < Budget[c]

\* The constructor issues the build.
Open(c) ==
    /\ phase[c] = "new"
    /\ Issue(c, "build", 0)
    /\ UNCHANGED <<batch, pending, flushed, cache, serviceVars, circuit>>

\* update_load, update_pv, ...: buffer the next timestep's updates.
Update(c) ==
    /\ phase[c] = "ready"
    /\ ~pending[c]
    /\ batch[c] < MaxBatch
    /\ batch'   = [batch   EXCEPT ![c] = @ + 1]
    /\ pending' = [pending EXCEPT ![c] = TRUE]
    /\ UNCHANGED <<phase, ncalls, flushed, cache, callVars, serviceVars, circuit>>

\* Mutant: solve() keeps the cached reading of the previous solve.
SolveKeepsCache(c) ==
    /\ phase[c] = "ready"
    /\ HasCallsLeft(c)
    /\ Issue(c, "solve", IF pending[c] THEN batch[c] ELSE 0)
    /\ pending' = [pending EXCEPT ![c] = FALSE]
    /\ flushed' = [flushed EXCEPT ![c] = IF pending[c] THEN batch[c] ELSE @]
    /\ UNCHANGED <<batch, cache, serviceVars, circuit>>

\* solve(): flush the buffer and forget the cached reading.
Solve(c) ==
    /\ phase[c] = "ready"
    /\ HasCallsLeft(c)
    /\ Issue(c, "solve", IF pending[c] THEN batch[c] ELSE 0)
    /\ pending' = [pending EXCEPT ![c] = FALSE]
    /\ flushed' = [flushed EXCEPT ![c] = IF pending[c] THEN batch[c] ELSE @]
    /\ cache'   = [cache   EXCEPT ![c] = NoReading]
    /\ UNCHANGED <<batch, serviceVars, circuit>>

\* _read(): a request only when nothing is cached.
Read(c) ==
    /\ phase[c] = "ready"
    /\ cache[c] = NoReading
    /\ HasCallsLeft(c)
    /\ Issue(c, "read", 0)
    /\ UNCHANGED <<batch, pending, flushed, cache, serviceVars, circuit>>

\* reset(): drop the buffer and the cached reading, recompile.
Reset(c) ==
    /\ c \in Resetters
    /\ phase[c] = "ready"
    /\ HasCallsLeft(c)
    /\ Issue(c, "reset", 0)
    /\ pending' = [pending EXCEPT ![c] = FALSE]
    /\ flushed' = [flushed EXCEPT ![c] = 0]
    /\ cache'   = [cache   EXCEPT ![c] = NoReading]
    /\ UNCHANGED <<batch, serviceVars, circuit>>

\* close(), from the finally of run_simulation: the run ended or failed.  The
\* engine object is garbage from here on; its buffers are forgotten with it.
Close(c) ==
    /\ phase[c] \in {"ready", "failing"}
    /\ Issue(c, "teardown", 0)
    /\ batch'   = [batch   EXCEPT ![c] = 0]
    /\ pending' = [pending EXCEPT ![c] = FALSE]
    /\ flushed' = [flushed EXCEPT ![c] = 0]
    /\ cache'   = [cache   EXCEPT ![c] = NoReading]
    /\ UNCHANGED <<serviceVars, circuit>>

\* The command the run is waiting on: the only correlation id in _waiters.
Current(c) == <<c, ncalls[c]>>
Awaited(k) == phase[k[1]] = "waiting" /\ k = Current(k[1])

\* Mutant: run_simulation also closes an engine whose build failed.
AbortClosingFailedBuild(c) ==
    /\ phase' = [phase EXCEPT ![c] =
                   IF act[Current(c)] = "teardown" THEN "done" ELSE "failing"]
    /\ UNCHANGED cache

\* SolverError or SolverTimeout.  close() swallows it.  Out of the constructor
\* it ends the run with no engine to close: the constructor stands before the
\* try whose finally closes the engine.
Abort(c) ==
    /\ phase' = [phase EXCEPT ![c] =
                   IF act[Current(c)] \in {"build", "teardown"}
                     THEN "done" ELSE "failing"]
    /\ UNCHANGED cache

\* The ok event reached _on_event before the timeout.
Resume(c) ==
    /\ phase' = [phase EXCEPT ![c] =
                   IF act[Current(c)] = "teardown" THEN "done" ELSE "ready"]
    /\ cache' = [cache EXCEPT ![c] =
                   IF act[Current(c)] = "read" THEN seen[Current(c)] ELSE @]

\* An event with the awaited correlation id wakes the run.  An error event can
\* also follow a handler that succeeded: when publishing the ok event raises,
\* _on_command publishes an error event after it, and either may come first.
Accept(c) ==
    /\ phase[c] = "waiting"
    /\ \/ pc[Current(c)] = "ok" /\ Resume(c)
       \/ pc[Current(c)] \in Answered /\ Abort(c)
    /\ seen' = [seen EXCEPT ![Current(c)] = NoReading]
    /\ UNCHANGED <<ncalls, batch, pending, flushed, act, arg, pc, taken,
                   serviceVars, circuit>>

\* Mutant: the wait has no timeout.
NoTimeout(c) == FALSE /\ phase[c] = "waiting" /\ UNCHANGED vars

\* done.wait(timeout) expires; the waiter is removed, so a late event finds
\* none.  The command stays where it is and its handler may still run.
Timeout(c) ==
    /\ phase[c] = "waiting"
    /\ Abort(c)
    /\ seen' = [seen EXCEPT ![Current(c)] = NoReading]
    /\ UNCHANGED <<ncalls, batch, pending, flushed, act, arg, pc, taken,
                   serviceVars, circuit>>

-----------------------------------------------------------------------------
(* The service: one thread per command.                                    *)

\* The command's handler moves to stage s.
Step(k, s) == pc' = [pc EXCEPT ![k] = s]

\* Mutant: build does not wait for the lock.
BuildUnlocked(k) ==
    /\ pc[k] = "sent" /\ act[k] = "build"
    /\ lock' = k
    /\ engine' = None
    /\ Step(k, "unname")
    /\ UNCHANGED <<clientVars, act, arg, taken, seen, session, workdir, files, circuit>>

\* build takes the lock and begins to drop the session it replaces: first the
\* engine.  Each assignment is a step, for solve, read and reset look the
\* attributes up without the lock.
BuildLock(k) ==
    /\ pc[k] = "sent" /\ act[k] = "build"
    /\ lock = NoCall
    /\ lock' = k
    /\ engine' = None
    /\ Step(k, "unname")
    /\ UNCHANGED <<clientVars, act, arg, taken, seen, session, workdir, files, circuit>>

\* Mutant: teardown drops whatever session is active.
TeardownAny(k) ==
    /\ pc[k] = "sent" /\ act[k] = "teardown"
    /\ lock = NoCall
    /\ lock' = k
    /\ engine' = None
    /\ Step(k, "unname")
    /\ UNCHANGED <<clientVars, act, arg, taken, seen, session, workdir, files, circuit>>

\* teardown takes the lock and begins to drop the session if it is still its
\* own; otherwise it gives the lock back at once.
Teardown(k) ==
    /\ pc[k] = "sent" /\ act[k] = "teardown"
    /\ lock = NoCall
    /\ IF session = k[1]
         THEN lock' = k /\ engine' = None /\ Step(k, "unname")
         ELSE UNCHANGED <<lock, engine>> /\ Step(k, "ok")
    /\ UNCHANGED <<clientVars, act, arg, taken, seen, session, workdir, files, circuit>>

\* Mutant: the old session's name stays until the next build's replaces it.
DropNameNot(k) ==
    /\ pc[k] = "unname"
    /\ Step(k, "remove")
    /\ UNCHANGED <<clientVars, act, arg, taken, seen, lock, session, engine, workdir, files, circuit>>

\* _drop_session: then the session's name ...
DropName(k) ==
    /\ pc[k] = "unname"
    /\ session' = None
    /\ Step(k, "remove")
    /\ UNCHANGED <<clientVars, act, arg, taken, seen, lock, engine, workdir, files, circuit>>

\* Mutant: the old session's directory stays on disk.
DropFilesNot(k) ==
    /\ pc[k] = "remove"
    /\ workdir' = None
    /\ IF act[k] = "build" THEN Step(k, "compile") /\ UNCHANGED lock
                           ELSE Step(k, "ok") /\ lock' = NoCall
    /\ UNCHANGED <<clientVars, act, arg, taken, seen, session, engine, files, circuit>>

\* ... and last the directory.  A teardown gives the lock back.
DropFiles(k) ==
    /\ pc[k] = "remove"
    /\ files' = files \ {workdir}
    /\ workdir' = None
    /\ IF act[k] = "build" THEN Step(k, "compile") /\ UNCHANGED lock
                           ELSE Step(k, "ok") /\ lock' = NoCall
    /\ UNCHANGED <<clientVars, act, arg, taken, seen, session, engine, circuit>>

\* generate_master_dss writes the directory, OpenDSSEngine compiles it.
BuildCompile(k) ==
    /\ pc[k] = "compile"
    /\ files' = files \union {k[1]}
    /\ circuit' = Fresh(k[1], {k[1]})
    /\ Step(k, "name")
    /\ UNCHANGED <<clientVars, act, arg, taken, seen, lock, session, engine, workdir>>

\* install_elements returned: the session's name is published ...
BuildName(k) ==
    /\ pc[k] = "name"
    /\ session' = k[1]
    /\ Step(k, "install")
    /\ UNCHANGED <<clientVars, act, arg, taken, seen, lock, engine, workdir, files, circuit>>

\* ... then its engine ...
BuildInstall(k) ==
    /\ pc[k] = "install"
    /\ engine' = k[1]
    /\ Step(k, "file")
    /\ UNCHANGED <<clientVars, act, arg, taken, seen, lock, session, workdir, files, circuit>>

\* ... then its directory, and the lock is released.
BuildFile(k) ==
    /\ pc[k] = "file"
    /\ workdir' = k[1]
    /\ lock' = NoCall
    /\ Step(k, "ok")
    /\ UNCHANGED <<clientVars, act, arg, taken, seen, session, engine, files, circuit>>

\* Mutant: the exception path leaves the lock taken.
BuildFailKeepsLock(k) ==
    /\ pc[k] \in {"compile", "name"}
    /\ files' \in {files, files \union {k[1]}}
    /\ Step(k, "err")
    /\ UNCHANGED <<clientVars, act, arg, taken, seen, lock, session, engine,
                   workdir, circuit>>

\* A bad network, a compile error or a failing element builder raises: `with`
\* releases the lock, no session is held, and a directory already written
\* stays on disk (self._workdir is set last).
BuildFail(k) ==
    /\ pc[k] \in {"compile", "name"}
    /\ files' \in {files, files \union {k[1]}}
    /\ lock' = NoCall
    /\ Step(k, "err")
    /\ UNCHANGED <<clientVars, act, arg, taken, seen, session, engine,
                   workdir, circuit>>

\* _engine_for: is this the active session?  No lock is taken.  (Its two reads
\* are one step: a run's command follows its build, so a name that is still
\* the run's at the second read was so, with its engine, at the first.)  The engine
\* object it returns matters to reset alone (solve and read work on the one
\* OpenDSS circuit, and fail alike when refused and when handed None).
EngineCheck(k) ==
    /\ pc[k] = "sent" /\ act[k] \in {"solve", "read", "reset"}
    /\ Step(k, IF engine = None \/ session # k[1] THEN "err"
               ELSE IF act[k] = "reset" THEN "checked" ELSE "engine")
    /\ UNCHANGED <<clientVars, act, arg, taken, seen, serviceVars, circuit>>

\* `return self._engine` reads the attribute again: by now the engine may be
\* gone (its first use then raises) or be a newer session's.
EngineTake(k) ==
    /\ pc[k] = "checked"
    /\ taken' = [taken EXCEPT ![k] = engine]
    /\ Step(k, IF engine = None THEN "err" ELSE "engine")
    /\ UNCHANGED <<clientVars, act, arg, seen, serviceVars, circuit>>

\* The circuit once the run of command k has put batch b in force.
Applied(k, b) ==
    [circuit EXCEPT !.by = @ \union {k[1]}, !.set = IF b = 0 THEN @ ELSE b]

\* solve: element.apply for every update.
SolveApply(k) ==
    /\ pc[k] = "engine" /\ act[k] = "solve"
    /\ circuit' = Applied(k, arg[k])
    /\ Step(k, "applied")
    /\ UNCHANGED <<clientVars, act, arg, taken, seen, serviceVars>>

\* Mutant: the exception of an update escapes without an error event.
SolveFailSilent(k) ==
    /\ pc[k] = "engine" /\ act[k] = "solve"
    /\ circuit' \in {circuit, Applied(k, arg[k])}
    /\ Step(k, "raised")
    /\ UNCHANGED <<clientVars, act, arg, taken, seen, serviceVars>>

\* An unknown op, or an element the circuit does not have, raises: the
\* updates before it stay applied.
SolveFail(k) ==
    /\ pc[k] = "engine" /\ act[k] = "solve"
    /\ circuit' \in {circuit, Applied(k, arg[k])}
    /\ Step(k, "err")
    /\ UNCHANGED <<clientVars, act, arg, taken, seen, serviceVars>>

\* engine.solve(): one power flow over the elements as they now are.
SolveRun(k) ==
    /\ pc[k] = "applied"
    /\ circuit' = [circuit EXCEPT !.by = @ \union {k[1]}, !.solved = circuit.set]
    /\ Step(k, "ok")
    /\ UNCHANGED <<clientVars, act, arg, taken, seen, serviceVars>>

\* What a read collects is kept only while its run waits for it.
Collect(k, r) == seen' = IF Awaited(k) THEN [seen EXCEPT ![k] = r] ELSE seen

\* read: the bus voltages ...
ReadVolts(k) ==
    /\ pc[k] = "engine" /\ act[k] = "read"
    /\ Collect(k, [volts |-> Snapshot, rest |-> NoSnap])
    /\ Step(k, "volts")
    /\ UNCHANGED <<clientVars, act, arg, taken, serviceVars, circuit>>

\* ... then the branch loadings, the losses, the power and the VUF.
ReadRest(k) ==
    /\ pc[k] = "volts"
    /\ Collect(k, [volts |-> seen[k].volts, rest |-> Snapshot])
    /\ Step(k, "ok")
    /\ UNCHANGED <<clientVars, act, arg, taken, serviceVars, circuit>>

\* reset recompiles the master file of the engine it took; OpenDSS refuses a
\* file that is gone and keeps the circuit it has.
ResetRun(k) ==
    /\ pc[k] = "engine" /\ act[k] = "reset"
    /\ IF taken[k] \in files
         THEN /\ circuit' = Fresh(taken[k], {taken[k], k[1]})
              /\ Step(k, "ok")
         ELSE /\ UNCHANGED circuit
              /\ Step(k, "err")
    /\ taken' = [taken EXCEPT ![k] = None]
    /\ UNCHANGED <<clientVars, act, arg, seen, serviceVars>>

-----------------------------------------------------------------------------
RunStep(c) == Open(c) \/ Update(c) \/ Solve(c) \/ Read(c) \/ Reset(c) \/ Close(c)

\* The steps of a thread that holds the lock.
LockedStep(k) ==
    \/ DropName(k) \/ DropFiles(k)
    \/ BuildCompile(k) \/ BuildName(k) \/ BuildInstall(k) \/ BuildFile(k) \/ BuildFail(k)

Handler(k) ==
    \/ BuildLock(k) \/ Teardown(k) \/ LockedStep(k)
    \/ EngineCheck(k) \/ EngineTake(k)
    \/ SolveApply(k) \/ SolveFail(k) \/ SolveRun(k)
    \/ ReadVolts(k) \/ ReadRest(k)
    \/ ResetRun(k)

\* Every run has ended: what is left are handlers nobody waits for.
Finished == (\A c \in Client : phase[c] = "done") /\ UNCHANGED vars

Next ==
    \/ \E c \in Client : RunStep(c) \/ Accept(c) \/ Timeout(c)
    \/ \E k \in Call : Handler(k)
    \/ Finished

Spec == Init /\ [][Next]_vars

\* A started run keeps issuing commands until it closes, an expired wait
\* returns, and a thread that holds the lock keeps running.  No message is
\* assumed to be delivered and no handler to start.  No step can be undone, so
\* fairness of all these steps together is fairness of each.
Fairness ==
    WF_vars(\/ \E c \in Client : RunStep(c) \/ Timeout(c)
            \/ \E k \in Call : LockedStep(k))

FairSpec == Spec /\ Fairness

-----------------------------------------------------------------------------
(* Properties.                                                             *)

TypeOK ==
    /\ phase   \in [Client -> Phase]
    /\ ncalls  \in [Client -> Nat] /\ \A c \in Client : ncalls[c] <= Budget[c]
    /\ batch   \in [Client -> Batch]
    /\ pending \in [Client -> BOOLEAN]
    /\ flushed \in [Client -> Batch]
    /\ cache   \in [Client -> Reading]
    /\ act     \in [Call -> Action]
    /\ arg     \in [Call -> Batch]
    /\ pc      \in [Call -> Stage]
    /\ taken   \in [Call -> Client \union {None}]
    /\ seen    \in [Call -> Reading]
    /\ lock    \in Call \union {NoCall}
    /\ session \in Client \union {None}
    /\ engine  \in Client \union {None}
    /\ workdir \in Client \union {None}
    /\ files   \in SUBSET Client
    /\ circuit \in Circuit

\* A handler that looks the session up without the lock, at whatever moment of
\* a build or teardown, finds no engine or that of the session the service
\* answers for, with its directory on disk and its circuit loaded, whatever
\* stale handlers of evicted runs are doing: in particular a stale reset never
\* brings an evicted run's circuit back under the new session, because the
\* eviction removed the file it recompiles.  Whoever takes the lock finds
\* session, engine and directory of one run (build, _drop_session, _engine_for).
SlotCoherent ==
    /\ engine # None => session = engine /\ engine \in files /\ circuit.owner = engine
    /\ lock = NoCall => engine = session /\ workdir = session

\* Exactly the lock's owner is inside the critical section, and no session is
\* active while a build compiles.
BuildExclusive ==
    \A k \in Call :
        /\ pc[k] \in Locked <=> lock = k
        /\ pc[k] \in {"compile", "name"} => session = None /\ engine = None

\* The electrical state a run works on is the one its last solve asked for:
\* a cached reading taken from a circuit that only this run's commands
\* touched carries the batch the last solve put in force, never an older one.
CleanReadIsExact ==
    \A c \in Client :
        /\ cache[c].volts.by = {c}
        /\ cache[c].rest.by = {c}
        => cache[c].volts.val = flushed[c] /\ cache[c].rest.val = flushed[c]

\* Once the teardown of a run has been handled, no late command of the run
\* (a build whose reply timed out, say) makes its session active again or
\* leaves its directory on disk.
ClosedStaysClosed ==
    \A k \in Call :
        act[k] = "teardown" /\ pc[k] \in Answered
            => session # k[1] /\ k[1] \notin files

\* Closing an evicted run never takes the solver away from the run that
\* replaced it: a session ends by its own teardown or by a build's eviction.
TeardownSparesOthers ==
    [][ \A c \in Client : session = c /\ session' # c =>
          lock # NoCall /\ (act[lock] = "build" \/ lock[1] = c) ]_vars

\* The build of run c succeeded.
Built(c) == \E n \in 1..Budget[c] : act[<<c, n>>] = "build" /\ pc[<<c, n>>] = "ok"

\* The runs that held the solver and no longer do.
Retired == {c \in Client : session # c /\ Built(c)}

Slot == INSTANCE SolverSlot WITH Session <- Client, holder <- session,
                                 retired <- Retired

\* The service implements the one-session slot.
ImplementsSlot == Slot!SlotSpec

\* Every run that starts ends, whatever is lost, late or refused.
RunsFinish == \A c \in Client : phase[c] # "new" ~> phase[c] = "done"

\* A build or teardown always gives the lock back, so a later build or teardown can run.
LockReleased == lock # NoCall ~> lock = NoCall

\* The solver README: once a newer build replaced a session, "the old
\* session's commands then error cleanly".  (Refuted: a command that passed the
\* session check before the eviction completes with an ok event while the
\* newer session is active, on the newer session's circuit.)
OldSessionErrors ==
    [][ \A k \in Call :
          pc[k] \in {"applied", "volts"} /\ pc'[k] = "ok"
            => session \in {k[1], None} ]_vars
=============================================================================
