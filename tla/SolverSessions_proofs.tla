------------------------ MODULE SolverSessions_proofs ------------------------
(***************************************************************************)
(* Proofs, for any set of runs and any number of commands per run, of the  *)
(* safety properties of SolverSessions and of its refinement of            *)
(* SolverSlot; then of what a run reads: a cached reading of a circuit     *)
(* that only its run touched is of the batch its last solve asked for.     *)
(***************************************************************************)
EXTENDS SolverSessions, TLAPS

USE ClientAssumption, BoundsAssumption

\* The commands that use the circuit, and the stages only they reach.
Uses  == {"solve", "read", "reset"}
Using == {"checked", "engine", "applied", "volts"}

\* A run issues its build first and its other commands only once the build
\* succeeded; a command not issued yet has no handler.
CallsInOrder ==
    /\ \A c \in Client :
         /\ phase[c] = "new" <=> ncalls[c] = 0
         /\ phase[c] \in {"ready", "failing"} => Built(c)
    /\ \A k \in Call :
         /\ k[2] > ncalls[k[1]] <=> act[k] = "none"
         /\ act[k] = "none" => pc[k] = "none"
         /\ act[k] = "build" => k[2] = 1
         /\ act[k] \notin {"none", "build"} => Built(k[1])
         /\ pc[k] \in Building => act[k] = "build"
         /\ pc[k] \in Dropping => act[k] \in {"build", "teardown"}
         /\ pc[k] \in Using => act[k] \in Uses

\* A run's session is published from the moment its name is assigned.
Published(k) == \/ pc[k] \in {"install", "file"}
                \/ act[k] = "build" /\ pc[k] = "ok"
Named(c) == \E k \in Call : k[1] = c /\ Published(k)

\* What the session, its engine, its directory and the circuit are at each
\* stage of the thread that holds the lock, and when nobody does.
SlotShape ==
    /\ engine # None => engine = session
    /\ lock = NoCall => engine = session /\ workdir = session
    /\ \A c \in Client : session = c => Named(c) /\ c \in files /\ circuit.owner = c
    /\ \A k \in Call :
         /\ pc[k] \in Locked <=> lock = k
         /\ pc[k] = "unname" => /\ engine = None /\ workdir = session
                                /\ act[k] = "teardown" => session = k[1]
         /\ pc[k] = "remove" => /\ engine = None /\ session = None
                                /\ act[k] = "teardown" => workdir = k[1]
         /\ pc[k] \in {"compile", "name"} =>
               engine = None /\ session = None /\ workdir = None
         /\ pc[k] = "name" => k[1] \in files /\ circuit.owner = k[1]
         /\ pc[k] \in {"install", "file"} => session = k[1] /\ workdir = None
         /\ pc[k] = "install" => engine = None
         /\ pc[k] = "file" => engine = k[1]

\* A session that was published and dropped has no directory on disk but the
\* one being removed, so the engine object a stale reset still holds has no
\* file to recompile once the next build compiles.
DroppedHasNoFiles ==
    /\ \A c \in Client : Named(c) /\ session # c => c \notin files \ {workdir}
    /\ \A c \in Client : \A k \in Call : taken[k] = c => Named(c)

IInv == TypeOK /\ CallsInOrder /\ SlotShape /\ DroppedHasNoFiles /\ ClosedStaysClosed

-----------------------------------------------------------------------------
(* Commands.                                                               *)

LEMMA CallShape ==
    ASSUME NEW k \in Call
    PROVE  /\ k[1] \in Client
           /\ k[2] \in 1..Budget[k[1]]
           /\ k = <<k[1], k[2]>>
           /\ k # NoCall
BY DEF Call, NoCall

LEMMA CallOf ==
    ASSUME NEW c \in Client, NEW n \in 1..Budget[c]
    PROVE  <<c, n>> \in Call
BY DEF Call

\* A waiting run waits for a command it issued.
LEMMA CurrentCall ==
    ASSUME TypeOK, CallsInOrder, NEW c \in Client, phase[c] = "waiting"
    PROVE  /\ Current(c) \in Call
           /\ act[Current(c)] # "none"
<1>1. ncalls[c] \in 1..Budget[c]
  BY DEF TypeOK, CallsInOrder
<1>2. Current(c) \in Call
  BY <1>1, CallOf DEF Current
<1>. QED
  BY <1>1, <1>2 DEF CallsInOrder, Current, TypeOK

-----------------------------------------------------------------------------
(* Type correctness.                                                       *)

LEMMA InitTypeOK == Init => TypeOK
BY DEF Init, TypeOK, Phase, Batch, Action, Stage, Reading, NoReading, Snap,
       NoSnap, Circuit, Fresh, NoCall

\* Issuing a command keeps the types of what it assigns.
LEMMA IssueType ==
    ASSUME TypeOK, NEW c \in Client, NEW a \in Action, NEW b \in Batch, Issue(c, a, b)
    PROVE  /\ phase' \in [Client -> Phase]
           /\ ncalls' \in [Client -> Nat] /\ \A d \in Client : ncalls'[d] <= Budget[d]
           /\ act' \in [Call -> Action] /\ arg' \in [Call -> Batch]
           /\ pc' \in [Call -> Stage]
           /\ taken' = taken /\ seen' = seen
<1>1. phase' \in [Client -> Phase]
  BY DEF Issue, TypeOK, Phase
<1>2. ncalls' \in [Client -> Nat] /\ \A d \in Client : ncalls'[d] <= Budget[d]
  BY DEF Issue, TypeOK
<1>3. act' \in [Call -> Action] /\ arg' \in [Call -> Batch]
  BY DEF Issue, TypeOK
<1>4. pc' \in [Call -> Stage]
  BY DEF Issue, TypeOK, Stage
<1>. QED
  BY <1>1, <1>2, <1>3, <1>4 DEF Issue

LEMMA SnapshotType ==
    ASSUME TypeOK
    PROVE  Snapshot \in Snap /\ NoSnap \in Snap /\ NoReading \in Reading
BY DEF TypeOK, Snapshot, Snap, Circuit, NoSnap, NoReading, Reading, Batch

LEMMA AppliedType ==
    ASSUME TypeOK, NEW k \in Call, NEW b \in Batch
    PROVE  Applied(k, b) \in Circuit
BY CallShape DEF TypeOK, Applied, Circuit

LEMMA StepType ==
    ASSUME TypeOK, NEW k \in Call, NEW s \in Stage, Step(k, s)
    PROVE  pc' \in [Call -> Stage]
BY DEF TypeOK, Step

\* One step per action of the run.
LEMMA RunTypeStep ==
    ASSUME IInv, NEW c \in Client, RunStep(c) \/ Accept(c) \/ Timeout(c)
    PROVE  TypeOK'
<1>. USE DEF IInv, clientVars, callVars, serviceVars
<1>1. CASE Open(c)
  BY <1>1, IssueType DEF Open, TypeOK, Action, Batch
<1>2. CASE Update(c)
  BY <1>2 DEF Update, TypeOK, Batch
<1>3. CASE Solve(c)
  <2>1. (IF pending[c] THEN batch[c] ELSE 0) \in Batch
    BY DEF TypeOK, Batch
  <2>2. pending' \in [Client -> BOOLEAN] /\ flushed' \in [Client -> Batch]
    BY <1>3, <2>1 DEF Solve, TypeOK
  <2>3. cache' \in [Client -> Reading]
    BY <1>3, SnapshotType DEF Solve, TypeOK
  <2>. QED
    BY <1>3, <2>1, <2>2, <2>3, IssueType DEF Solve, TypeOK, Action
<1>4. CASE Read(c)
  BY <1>4, IssueType DEF Read, TypeOK, Action, Batch
<1>5. CASE Reset(c)
  <2>1. pending' \in [Client -> BOOLEAN] /\ flushed' \in [Client -> Batch]
    BY <1>5 DEF Reset, TypeOK, Batch
  <2>2. cache' \in [Client -> Reading]
    BY <1>5, SnapshotType DEF Reset, TypeOK
  <2>. QED
    BY <1>5, <2>1, <2>2, IssueType DEF Reset, TypeOK, Action, Batch
<1>6. CASE Close(c)
  <2>1. /\ pending' \in [Client -> BOOLEAN]
        /\ batch' \in [Client -> Batch] /\ flushed' \in [Client -> Batch]
    BY <1>6 DEF Close, TypeOK, Batch
  <2>2. cache' \in [Client -> Reading]
    BY <1>6, SnapshotType DEF Close, TypeOK
  <2>. QED
    BY <1>6, <2>1, <2>2, IssueType DEF Close, TypeOK, Action, Batch
<1>7. CASE Accept(c) \/ Timeout(c)
  <2>1. Current(c) \in Call
    BY <1>7, CurrentCall DEF Accept, Timeout
  <2>2. seen' \in [Call -> Reading]
    BY <1>7, <2>1, SnapshotType DEF Accept, Timeout, TypeOK
  <2>3. phase' \in [Client -> Phase]
    BY <1>7 DEF Accept, Timeout, Abort, Resume, TypeOK, Phase
  <2>4. cache' \in [Client -> Reading]
    BY <1>7, <2>1 DEF Accept, Timeout, Abort, Resume, TypeOK
  <2>. QED
    BY <1>7, <2>2, <2>3, <2>4 DEF Accept, Timeout, TypeOK
<1>. QED
  BY <1>1, <1>2, <1>3, <1>4, <1>5, <1>6, <1>7 DEF RunStep

\* One step per action of the service.
LEMMA HandlerTypeStep ==
    ASSUME IInv, NEW k \in Call, Handler(k)
    PROVE  TypeOK'
<1>. USE DEF IInv, clientVars, callVars, serviceVars
<1>. k[1] \in Client
  BY CallShape
<1>1. CASE BuildLock(k) \/ Teardown(k)
  <2>1. PICK s \in {"unname", "ok"} : Step(k, s)
    BY <1>1 DEF BuildLock, Teardown
  <2>2. pc' \in [Call -> Stage]
    BY <2>1, StepType DEF Stage, Locked, Dropping, Answered
  <2>. QED
    BY <1>1, <2>2 DEF BuildLock, Teardown, TypeOK
<1>2. CASE BuildCompile(k)
  <2>1. circuit' \in Circuit
    BY <1>2 DEF BuildCompile, Fresh, Circuit, Batch, TypeOK
  <2>. QED
    BY <1>2, <2>1, StepType DEF BuildCompile, TypeOK, Stage, Locked, Building
<1>3. CASE DropName(k) \/ DropFiles(k)
  <2>1. PICK s \in {"remove", "compile", "ok"} : Step(k, s)
    BY <1>3 DEF DropName, DropFiles
  <2>2. pc' \in [Call -> Stage]
    BY <2>1, StepType DEF Stage, Locked, Dropping, Building, Answered
  <2>. QED
    BY <1>3, <2>2 DEF DropName, DropFiles, TypeOK
<1>14. CASE BuildName(k) \/ BuildInstall(k) \/ BuildFile(k)
  <2>1. PICK s \in {"install", "file", "ok"} : Step(k, s)
    BY <1>14 DEF BuildName, BuildInstall, BuildFile
  <2>2. pc' \in [Call -> Stage]
    BY <2>1, StepType DEF Stage, Locked, Building, Answered
  <2>. QED
    BY <1>14, <2>2 DEF BuildName, BuildInstall, BuildFile, TypeOK
<1>4. CASE BuildFail(k)
  BY <1>4, StepType DEF BuildFail, TypeOK, Stage, Answered
<1>5. CASE EngineCheck(k)
  BY <1>5, StepType DEF EngineCheck, TypeOK, Stage, Answered
<1>6. CASE EngineTake(k)
  BY <1>6, StepType DEF EngineTake, TypeOK, Stage, Answered
<1>7. CASE SolveApply(k)
  BY <1>7, StepType, AppliedType DEF SolveApply, TypeOK, Stage
<1>8. CASE SolveFail(k)
  BY <1>8, StepType, AppliedType DEF SolveFail, TypeOK, Stage, Answered
<1>9. CASE SolveRun(k)
  <2>1. circuit' \in Circuit
    BY <1>9 DEF SolveRun, Circuit, TypeOK
  <2>. QED
    BY <1>9, <2>1, StepType DEF SolveRun, TypeOK, Stage, Answered
<1>10. CASE ReadVolts(k)
  <2>1. [volts |-> Snapshot, rest |-> NoSnap] \in Reading
    BY SnapshotType DEF Reading
  <2>2. seen' \in [Call -> Reading]
    BY <1>10, <2>1 DEF ReadVolts, Collect, TypeOK
  <2>. QED
    BY <1>10, <2>2, StepType DEF ReadVolts, TypeOK, Stage
<1>11. CASE ReadRest(k)
  <2>1. [volts |-> seen[k].volts, rest |-> Snapshot] \in Reading
    BY SnapshotType DEF Reading, TypeOK
  <2>2. seen' \in [Call -> Reading]
    BY <1>11, <2>1 DEF ReadRest, Collect, TypeOK
  <2>. QED
    BY <1>11, <2>2, StepType DEF ReadRest, TypeOK, Stage, Answered
<1>12. CASE ResetRun(k)
  <2>1. circuit' \in Circuit
    BY <1>12 DEF ResetRun, Fresh, Circuit, Batch, TypeOK
  <2>2. pc' \in [Call -> Stage]
    BY <1>12, StepType DEF ResetRun, Stage, Answered
  <2>. QED
    BY <1>12, <2>1, <2>2 DEF ResetRun, TypeOK
<1>. QED
  BY <1>1, <1>2, <1>3, <1>4, <1>5, <1>6, <1>7, <1>8, <1>9, <1>10, <1>11, <1>12,
     <1>14 DEF Handler, LockedStep

-----------------------------------------------------------------------------
(* Which runs have a build that succeeded.                                 *)

\* A finished handler never runs again, so a build that succeeded stays so.
LEMMA BuiltStays ==
    ASSUME TypeOK, NEW k \in Call, NEW s \in Stage, Step(k, s), act' = act,
           pc[k] # "ok", NEW c \in Client, Built(c)
    PROVE  Built(c)'
<1>1. PICK n \in 1..Budget[c] : act[<<c, n>>] = "build" /\ pc[<<c, n>>] = "ok"
  BY DEF Built
<1>2. <<c, n>> \in Call /\ <<c, n>> # k
  BY <1>1, CallOf
<1>3. pc'[<<c, n>>] = "ok"
  BY <1>1, <1>2 DEF Step, TypeOK
<1>. QED
  BY <1>1, <1>3 DEF Built

\* Only the step that answers a build with ok adds its run to those built.
LEMMA BuiltOnlyBy ==
    ASSUME TypeOK, NEW k \in Call, NEW s \in Stage, Step(k, s), act' = act,
           NEW c \in Client, act[k] # "build" \/ s # "ok" \/ c # k[1], Built(c)'
    PROVE  Built(c)
<1>1. PICK n \in 1..Budget[c] : act[<<c, n>>] = "build" /\ pc'[<<c, n>>] = "ok"
  BY DEF Built
<1>2. <<c, n>> \in Call /\ <<c, n>>[1] = c
  BY CallOf
<1>3. CASE <<c, n>> = k
  BY <1>1, <1>2, <1>3 DEF Step, TypeOK
<1>4. CASE <<c, n>> # k
  BY <1>1, <1>2, <1>4 DEF Step, TypeOK, Built
<1>. QED
  BY <1>3, <1>4

LEMMA BuiltUnchanged ==
    ASSUME UNCHANGED <<act, pc>>, NEW c \in Client
    PROVE  Built(c)' <=> Built(c)
BY DEF Built

\* Issuing a command answers none.
LEMMA BuiltIssue ==
    ASSUME TypeOK, CallsInOrder, NEW c \in Client, NEW a \in Action,
           NEW b \in Batch, Issue(c, a, b), NEW d \in Client
    PROVE  Built(d)' <=> Built(d)
<1>. DEFINE k == <<c, ncalls[c] + 1>>
<1>1. k \in Call /\ act[k] = "none" /\ pc[k] = "none"
  <2>1. ncalls[c] + 1 \in 1..Budget[c]
    BY DEF Issue, TypeOK
  <2>2. k \in Call
    BY <2>1, CallOf
  <2>. QED
    BY <2>2 DEF CallsInOrder, TypeOK
<1>2. \A n \in 1..Budget[d] : <<d, n>> \in Call
  BY CallOf
<1>3. act'[k] = a /\ pc'[k] = "sent"
  BY <1>1 DEF Issue, TypeOK
<1>4. \A l \in Call : l # k => act'[l] = act[l] /\ pc'[l] = pc[l]
  BY DEF Issue, TypeOK
<1>. QED
  BY <1>1, <1>2, <1>3, <1>4 DEF Built

\* While a build runs its own run has none that succeeded: a run issues one.
LEMMA BuildingNotBuilt ==
    ASSUME TypeOK, CallsInOrder, NEW k \in Call, pc[k] \in Building
    PROVE  ~Built(k[1])
<1>1. SUFFICES ASSUME NEW n \in 1..Budget[k[1]], act[<<k[1], n>>] = "build",
                      pc[<<k[1], n>>] = "ok"
               PROVE  FALSE
  BY DEF Built
<1>2. <<k[1], n>> \in Call /\ k[1] \in Client /\ k = <<k[1], k[2]>>
  BY <1>1, CallShape, CallOf
<1>3. n = 1 /\ k[2] = 1
  BY <1>1, <1>2 DEF CallsInOrder
<1>. QED
  BY <1>1, <1>2, <1>3 DEF Building

LEMMA BuiltIsNamed ==
    ASSUME NEW c \in Client, Built(c)
    PROVE  Named(c)
<1>1. PICK n \in 1..Budget[c] : act[<<c, n>>] = "build" /\ pc[<<c, n>>] = "ok"
  BY DEF Built
<1>2. <<c, n>> \in Call /\ <<c, n>>[1] = c
  BY CallOf
<1>. QED
  BY <1>1, <1>2 DEF Named, Published

\* Moving one command publishes or hides the session of no other run.
LEMMA NamedMoves ==
    ASSUME NEW k \in Call,
           \A l \in Call : l # k => act'[l] = act[l] /\ pc'[l] = pc[l]
    PROVE  /\ \A c \in Client : c # k[1] => (Named(c)' <=> Named(c))
           /\ (Published(k)' <=> Published(k)) => \A c \in Client : Named(c)' <=> Named(c)
           /\ Published(k)' => Named(k[1])'
<1>1. \A l \in Call : l # k => (Published(l)' <=> Published(l))
  BY DEF Published
<1>. QED
  BY <1>1 DEF Named

\* A command that is issued publishes nothing.
LEMMA NamedIssue ==
    ASSUME NEW k \in Call, pc[k] = "none", pc'[k] = "sent",
           \A l \in Call : l # k => act'[l] = act[l] /\ pc'[l] = pc[l]
    PROVE  \A c \in Client : Named(c)' <=> Named(c)
<1>1. ~Published(k) /\ ~Published(k)'
  BY DEF Published
<1>. QED
  BY <1>1, NamedMoves

\* While a build has not named its session nothing else did.
LEMMA CompilingNotNamed ==
    ASSUME TypeOK, CallsInOrder, SlotShape, NEW k \in Call, pc[k] \in {"compile", "name"}
    PROVE  ~Named(k[1])
<1>1. SUFFICES ASSUME NEW l \in Call, l[1] = k[1], Published(l)
               PROVE  FALSE
  BY DEF Named
<1>2. lock = k
  BY DEF SlotShape, Locked, Building
<1>3. pc[l] \notin {"install", "file"}
  BY <1>2 DEF SlotShape, Locked, Building
<1>4. act[l] = "build" /\ pc[l] = "ok"
  BY <1>1, <1>3 DEF Published
<1>5. l = <<k[1], l[2]>> /\ l[2] \in 1..Budget[k[1]]
  BY <1>1, CallShape
<1>6. act[<<k[1], l[2]>>] = "build" /\ pc[<<k[1], l[2]>>] = "ok"
  BY <1>4, <1>5
<1>7. Built(k[1])
  BY <1>5, <1>6 DEF Built
<1>. QED
  BY <1>7, BuildingNotBuilt DEF Building

-----------------------------------------------------------------------------
(* The steps of a run.                                                     *)

\* A run either issues its next command, in order, or moves on with the
\* answer to the current one; it never touches the service.
LEMMA RunShape ==
    ASSUME IInv, NEW c \in Client, RunStep(c) \/ Accept(c) \/ Timeout(c)
    PROVE  /\ UNCHANGED <<serviceVars, circuit, taken>>
           /\ \/ \E a \in Action \ {"none"}, b \in Batch :
                    /\ Issue(c, a, b)
                    /\ phase[c] \in {"new", "ready", "failing"}
                    /\ a = "build" <=> phase[c] = "new"
              \/ UNCHANGED <<phase, ncalls, act, pc>>
              \/ /\ UNCHANGED <<ncalls, act, pc>>
                 /\ phase[c] = "waiting"
                 /\ \E p \in Phase \ {"new"} :
                       /\ phase' = [phase EXCEPT ![c] = p]
                       /\ p \in {"ready", "failing"} => Built(c)
<1>. USE DEF IInv, clientVars, callVars, serviceVars
<1>1. CASE Open(c)
  <2>1. "build" \in Action \ {"none"} /\ 0 \in Batch
    BY DEF Action, Batch, TypeOK
  <2>. QED
    BY <1>1, <2>1 DEF Open, Issue
<1>2. CASE Update(c)
  BY <1>2 DEF Update
<1>3. CASE Solve(c)
  <2>1. /\ "solve" \in Action \ {"none"}
        /\ (IF pending[c] THEN batch[c] ELSE 0) \in Batch
    BY DEF Action, Batch, TypeOK
  <2>. QED
    BY <1>3, <2>1 DEF Solve, Issue
<1>4. CASE Read(c)
  <2>1. "read" \in Action \ {"none"} /\ 0 \in Batch
    BY DEF Action, Batch, TypeOK
  <2>. QED
    BY <1>4, <2>1 DEF Read, Issue
<1>5. CASE Reset(c)
  <2>1. "reset" \in Action \ {"none"} /\ 0 \in Batch
    BY DEF Action, Batch, TypeOK
  <2>. QED
    BY <1>5, <2>1 DEF Reset, Issue
<1>6. CASE Close(c)
  <2>1. "teardown" \in Action \ {"none"} /\ 0 \in Batch
    BY DEF Action, Batch, TypeOK
  <2>. QED
    BY <1>6, <2>1 DEF Close, Issue
<1>7. CASE Accept(c) \/ Timeout(c)
  <2>1. phase[c] = "waiting" /\ UNCHANGED <<ncalls, act, pc, taken, serviceVars, circuit>>
    BY <1>7 DEF Accept, Timeout
  <2>2. Current(c) \in Call /\ act[Current(c)] # "none"
    BY <2>1, CurrentCall
  <2>3. ncalls[c] \in 1..Budget[c]
    BY <2>1 DEF CallsInOrder, TypeOK
  <2>4. act[Current(c)] # "build" => Built(c)
    BY <2>2, <2>3 DEF CallsInOrder, Current
  <2>5. pc[Current(c)] = "ok" => Built(c)
    BY <2>3, <2>4 DEF Current, Built
  <2>6. CASE Abort(c)
    <3>. DEFINE p == IF act[Current(c)] \in {"build", "teardown"}
                       THEN "done" ELSE "failing"
    <3>1. p \in Phase \ {"new"} /\ (p \in {"ready", "failing"} => Built(c))
      BY <2>4 DEF Phase
    <3>. QED
      BY <2>1, <2>6, <3>1 DEF Abort
  <2>7. CASE pc[Current(c)] = "ok" /\ Resume(c)
    <3>. DEFINE p == IF act[Current(c)] = "teardown" THEN "done" ELSE "ready"
    <3>1. p \in Phase \ {"new"} /\ (p \in {"ready", "failing"} => Built(c))
      BY <2>5, <2>7 DEF Phase
    <3>. QED
      BY <2>1, <2>7, <3>1 DEF Resume
  <2>. QED
    BY <1>7, <2>6, <2>7 DEF Accept, Timeout
<1>. QED
  BY <1>1, <1>2, <1>3, <1>4, <1>5, <1>6, <1>7 DEF RunStep

\* Steps that leave the commands, the service and the runs built alone keep
\* what the invariant says of the service.
LEMMA ServiceUntouched ==
    ASSUME IInv, UNCHANGED <<act, pc, taken, session, engine, workdir, lock, files>>,
           circuit'.owner = circuit.owner
    PROVE  (SlotShape /\ DroppedHasNoFiles /\ ClosedStaysClosed)'
<1>1. \A c \in Client : Named(c)' <=> Named(c)
  BY DEF Named, Published
<1>. QED
  BY <1>1 DEF IInv, SlotShape, DroppedHasNoFiles, ClosedStaysClosed, TypeOK

LEMMA IssueStep ==
    ASSUME IInv, NEW c \in Client, NEW a \in Action \ {"none"}, NEW b \in Batch,
           Issue(c, a, b), phase[c] \in {"new", "ready", "failing"},
           a = "build" <=> phase[c] = "new",
           UNCHANGED <<serviceVars, circuit, taken>>
    PROVE  (CallsInOrder /\ SlotShape /\ DroppedHasNoFiles /\ ClosedStaysClosed)'
<1>. USE DEF IInv
<1>. DEFINE k == <<c, ncalls[c] + 1>>
<1>1. k \in Call /\ act[k] = "none" /\ pc[k] = "none" /\ k[1] = c /\ k[2] = ncalls[c] + 1
  <2>1. ncalls[c] + 1 \in 1..Budget[c]
    BY DEF Issue, TypeOK
  <2>2. k \in Call
    BY <2>1, CallOf
  <2>. QED
    BY <2>2 DEF CallsInOrder, TypeOK
<1>2. act'[k] = a /\ pc'[k] = "sent"
  BY <1>1 DEF Issue, TypeOK
<1>3. \A l \in Call : l # k => act'[l] = act[l] /\ pc'[l] = pc[l]
  BY DEF Issue, TypeOK
<1>4. \A d \in Client : Built(d)' <=> Built(d)
  BY BuiltIssue
<1>5. /\ ncalls'[c] = ncalls[c] + 1 /\ phase'[c] = "waiting" /\ ncalls[c] \in Nat
      /\ \A d \in Client : d # c => ncalls'[d] = ncalls[d] /\ phase'[d] = phase[d]
  BY DEF Issue, TypeOK
<1>6. \A l \in Call : l[1] \in Client /\ l[2] \in Nat /\ l = <<l[1], l[2]>>
  BY CallShape DEF TypeOK
<1>7. \A l \in Call : l # k /\ l[1] = c => l[2] # ncalls[c] + 1
  BY <1>6
<1>8. CallsInOrder'
  <2>1. \A d \in Client : /\ phase'[d] = "new" <=> ncalls'[d] = 0
                          /\ phase'[d] \in {"ready", "failing"} => Built(d)'
    BY <1>4, <1>5 DEF CallsInOrder, TypeOK
  <2>2. \A l \in Call : l[2] > ncalls'[l[1]] <=> act'[l] = "none"
    <3>1. CASE TRUE
      <4> TAKE l \in Call
      <4>1. CASE l = k
        BY <4>1, <1>1, <1>2, <1>5
      <4>2. CASE l # k /\ l[1] = c
        BY <4>2, <1>3, <1>5, <1>6, <1>7 DEF CallsInOrder
      <4>3. CASE l # k /\ l[1] # c
        BY <4>3, <1>3, <1>5, <1>6 DEF CallsInOrder
      <4>. QED
        BY <4>1, <4>2, <4>3
    <3>. QED
      BY <3>1
  <2>3. \A l \in Call :
         /\ act'[l] = "none" => pc'[l] = "none"
         /\ pc'[l] \in Building => act'[l] = "build"
         /\ pc'[l] \in Dropping => act'[l] \in {"build", "teardown"}
         /\ pc'[l] \in Using => act'[l] \in Uses
    BY <1>1, <1>2, <1>3 DEF CallsInOrder, Building, Dropping, Using
  <2>4. \A l \in Call : act'[l] = "build" => l[2] = 1
    BY <1>1, <1>2, <1>3 DEF CallsInOrder
  <2>5. \A l \in Call : act'[l] \notin {"none", "build"} => Built(l[1])'
    BY <1>1, <1>2, <1>3, <1>4, <1>6 DEF CallsInOrder
  <2>. QED
    BY <2>1, <2>2, <2>3, <2>4, <2>5 DEF CallsInOrder
<1>9. (SlotShape /\ DroppedHasNoFiles)'
  <2>2. \A d \in Client : Named(d)' <=> Named(d)
    BY <1>1, <1>2, <1>3, NamedIssue
  <2>3. SlotShape'
    BY <1>1, <1>2, <1>3, <2>2 DEF SlotShape, serviceVars, Locked, Building, Dropping, TypeOK
  <2>. QED
    BY <1>1, <2>2, <2>3 DEF DroppedHasNoFiles, serviceVars, TypeOK
<1>10. ClosedStaysClosed'
  BY <1>1, <1>2, <1>3 DEF ClosedStaysClosed, serviceVars, Answered
<1>. QED
  BY <1>8, <1>9, <1>10

LEMMA RunPreserves ==
    ASSUME IInv, NEW c \in Client, RunStep(c) \/ Accept(c) \/ Timeout(c)
    PROVE  IInv'
<1>. UNCHANGED <<serviceVars, circuit, taken>>
  BY RunShape
<1>1. CASE \E a \in Action \ {"none"}, b \in Batch :
               /\ Issue(c, a, b)
               /\ phase[c] \in {"new", "ready", "failing"}
               /\ a = "build" <=> phase[c] = "new"
  BY <1>1, IssueStep, RunTypeStep DEF IInv
<1>2. CASE UNCHANGED <<phase, ncalls, act, pc>>
  <2>1. CallsInOrder'
    BY <1>2, BuiltUnchanged, CallShape DEF IInv, CallsInOrder
  <2>. QED
    BY <1>2, <2>1, ServiceUntouched, RunTypeStep DEF IInv, serviceVars
<1>3. CASE /\ UNCHANGED <<ncalls, act, pc>>
           /\ phase[c] = "waiting"
           /\ \E p \in Phase \ {"new"} :
                 /\ phase' = [phase EXCEPT ![c] = p]
                 /\ p \in {"ready", "failing"} => Built(c)
  <2>1. CallsInOrder'
    <3>1. \A d \in Client : /\ phase'[d] = "new" <=> ncalls'[d] = 0
                            /\ phase'[d] \in {"ready", "failing"} => Built(d)'
      BY <1>3, BuiltUnchanged DEF IInv, CallsInOrder, TypeOK
    <3>. QED
      BY <1>3, <3>1, BuiltUnchanged, CallShape DEF IInv, CallsInOrder
  <2>. QED
    BY <1>3, <2>1, ServiceUntouched, RunTypeStep DEF IInv, serviceVars
<1>. QED
  BY <1>1, <1>2, <1>3, RunShape

-----------------------------------------------------------------------------
(* The steps of the service.                                               *)

\* What every handler step has in common: it moves its own command on, never
\* from "ok", and leaves the run alone.
LEMMA HandlerShape ==
    ASSUME IInv, NEW k \in Call, Handler(k)
    PROVE  /\ UNCHANGED <<act, ncalls, phase>>
           /\ pc[k] \notin {"none", "ok"}
           /\ \E s \in Stage :
                 /\ Step(k, s)
                 /\ s \in Building => act[k] = "build"
                 /\ s \in Dropping => act[k] \in {"build", "teardown"}
                 /\ s \in Using => act[k] \in Uses
<1>. USE DEF IInv, clientVars
<1>. USE DEF Dropping
<1>1. \A x \in {"sent", "checked", "engine", "applied", "volts", "unname", "remove",
                "compile", "name", "install", "file", "ok", "err"} : x \in Stage
  BY DEF Stage, Locked, Building, Answered
<1>2. CASE BuildLock(k)
  BY <1>1, <1>2 DEF BuildLock, Using, Building
<1>3. CASE LockedStep(k)
  <2>1. CASE DropName(k)
    BY <1>1, <2>1 DEF DropName, Building, Using, CallsInOrder
  <2>2. CASE DropFiles(k)
    BY <1>1, <2>2 DEF DropFiles, Building, Using
  <2>3. CASE BuildCompile(k) \/ BuildName(k) \/ BuildInstall(k) \/ BuildFile(k) \/ BuildFail(k)
    BY <1>1, <2>3 DEF BuildCompile, BuildName, BuildInstall, BuildFile, BuildFail, Building,
                      Using, CallsInOrder
  <2>. QED
    BY <1>3, <2>1, <2>2, <2>3 DEF LockedStep
<1>4. CASE EngineCheck(k)
  <2>. DEFINE s == IF engine = None \/ session # k[1] THEN "err"
                   ELSE IF act[k] = "reset" THEN "checked" ELSE "engine"
  <2>1. s \in {"err", "checked", "engine"} /\ Step(k, s) /\ act[k] \in Uses
    BY <1>4 DEF EngineCheck, Uses
  <2>2. s \in Stage /\ s \notin Building
    BY <1>1, <2>1 DEF Building
  <2>. QED
    BY <1>4, <2>1, <2>2 DEF EngineCheck
<1>5. CASE EngineTake(k)
  <2>. DEFINE s == IF engine = None THEN "err" ELSE "engine"
  <2>1. s \in {"err", "engine"} /\ Step(k, s) /\ act[k] \in Uses
    BY <1>5 DEF EngineTake, CallsInOrder, Using
  <2>2. s \in Stage /\ s \notin Building
    BY <1>1, <2>1 DEF Building
  <2>3. UNCHANGED <<act, ncalls, phase>> /\ pc[k] = "checked"
    BY <1>5 DEF EngineTake
  <2>. QED
    BY <2>1, <2>2, <2>3
<1>6. CASE SolveApply(k) \/ SolveFail(k) \/ SolveRun(k)
  BY <1>1, <1>6 DEF SolveApply, SolveFail, SolveRun, Building, Using, Uses, CallsInOrder
<1>7. CASE ReadVolts(k) \/ ReadRest(k)
  BY <1>1, <1>7 DEF ReadVolts, ReadRest, Building, Using, Uses, CallsInOrder
<1>8. CASE ResetRun(k)
  BY <1>1, <1>8 DEF ResetRun, Building, Using, Uses, CallsInOrder
<1>9. CASE Teardown(k)
  BY <1>1, <1>9 DEF Teardown, Building, Using
<1>. QED
  BY <1>2, <1>3, <1>4, <1>5, <1>6, <1>7, <1>8, <1>9 DEF Handler

LEMMA HandlerOrder ==
    ASSUME IInv, NEW k \in Call, Handler(k)
    PROVE  CallsInOrder'
<1>. USE DEF IInv
<1>1. PICK s \in Stage :
         /\ Step(k, s)
         /\ s \in Building => act[k] = "build"
         /\ s \in Dropping => act[k] \in {"build", "teardown"}
         /\ s \in Using => act[k] \in Uses
  BY HandlerShape
<1>2. UNCHANGED <<act, ncalls, phase>> /\ pc[k] \notin {"none", "ok"}
  BY HandlerShape
<1>3. \A c \in Client : Built(c) => Built(c)'
  BY <1>1, <1>2, BuiltStays
<1>4. pc' = [pc EXCEPT ![k] = s] /\ pc \in [Call -> Stage]
  BY <1>1 DEF Step, TypeOK
<1>5. act[k] # "none"
  BY <1>2 DEF CallsInOrder
<1>6. \A c \in Client : /\ phase'[c] = "new" <=> ncalls'[c] = 0
                        /\ phase'[c] \in {"ready", "failing"} => Built(c)'
  BY <1>2, <1>3 DEF CallsInOrder
<1>7. \A l \in Call :
         /\ l[2] > ncalls'[l[1]] <=> act'[l] = "none"
         /\ act'[l] = "build" => l[2] = 1
  BY <1>2 DEF CallsInOrder
<1>8. \A l \in Call : act'[l] \notin {"none", "build"} => Built(l[1])'
  BY <1>2, <1>3, CallShape DEF CallsInOrder
<1>9. \A l \in Call :
         /\ act'[l] = "none" => pc'[l] = "none"
         /\ pc'[l] \in Building => act'[l] = "build"
         /\ pc'[l] \in Dropping => act'[l] \in {"build", "teardown"}
         /\ pc'[l] \in Using => act'[l] \in Uses
  BY <1>1, <1>2, <1>4, <1>5 DEF CallsInOrder
<1>. QED
  BY <1>6, <1>7, <1>8, <1>9 DEF CallsInOrder

\* Steps of a handler that works on the loaded circuit without changing whose
\* circuit it is.
LEMMA UseStep ==
    ASSUME IInv, NEW k \in Call, NEW s \in Stage, Step(k, s), UNCHANGED <<act, serviceVars>>,
           pc[k] \notin Locked \union Answered, s \notin Locked,
           act[k] \in Uses,
           circuit'.owner = circuit.owner,
           \A l \in Call : taken'[l] = taken[l] \/ taken'[l] \in {engine, None}
    PROVE  (SlotShape /\ DroppedHasNoFiles /\ ClosedStaysClosed)'
<1>. USE DEF IInv, serviceVars
<1>2. pc' = [pc EXCEPT ![k] = s] /\ pc \in [Call -> Stage]
  BY DEF Step, TypeOK
<1>1. \A c \in Client : Named(c)' <=> Named(c)
  <2>1. ~Published(k) /\ ~Published(k)'
    BY <1>2 DEF Published, Locked, Building, Uses
  <2>. QED
    BY <1>2, <2>1, NamedMoves
<1>3. SlotShape'
  BY <1>1, <1>2 DEF SlotShape, Locked, Building, Dropping
<1>4. DroppedHasNoFiles'
  <2>1. \A c \in Client : Named(c)' /\ session' # c => c \notin files' \ {workdir'}
    BY <1>1 DEF DroppedHasNoFiles
  <2>2. \A c \in Client : \A l \in Call : taken'[l] = c => Named(c)'
    BY <1>1 DEF DroppedHasNoFiles, SlotShape
  <2>. QED
    BY <2>1, <2>2 DEF DroppedHasNoFiles
<1>5. ClosedStaysClosed'
  BY <1>2 DEF ClosedStaysClosed, Uses
<1>. QED
  BY <1>3, <1>4, <1>5

\* The handlers that only look the session up and use the circuit.
LEMMA UseSteps ==
    ASSUME IInv, NEW k \in Call,
           \/ EngineCheck(k) \/ EngineTake(k) \/ SolveApply(k) \/ SolveFail(k)
           \/ SolveRun(k) \/ ReadVolts(k) \/ ReadRest(k)
    PROVE  (SlotShape /\ DroppedHasNoFiles /\ ClosedStaysClosed)'
<1>. USE DEF IInv
<1>1. PICK s \in Stage : Step(k, s) /\ s \notin Locked
  <2>1. \A x \in {"checked", "engine", "applied", "volts", "ok", "err"} :
            x \in Stage /\ x \notin Locked
    BY DEF Stage, Locked, Building, Dropping, Answered
  <2>2. CASE EngineCheck(k)
    <3>. DEFINE s == IF engine = None \/ session # k[1] THEN "err"
                     ELSE IF act[k] = "reset" THEN "checked" ELSE "engine"
    <3>1. s \in {"err", "checked", "engine"} /\ Step(k, s)
      BY <2>2 DEF EngineCheck
    <3>. QED
      BY <2>1, <3>1
  <2>3. CASE EngineTake(k)
    <3>. DEFINE s == IF engine = None THEN "err" ELSE "engine"
    <3>1. s \in {"err", "engine"} /\ Step(k, s)
      BY <2>3 DEF EngineTake
    <3>. QED
      BY <2>1, <3>1
  <2>4. CASE SolveApply(k) \/ SolveFail(k) \/ SolveRun(k) \/ ReadVolts(k) \/ ReadRest(k)
    BY <2>1, <2>4 DEF SolveApply, SolveFail, SolveRun, ReadVolts, ReadRest
  <2>. QED
    BY <2>2, <2>3, <2>4
<1>2. UNCHANGED <<act, serviceVars>>
  BY DEF EngineCheck, EngineTake, SolveApply, SolveFail, SolveRun, ReadVolts, ReadRest
<1>3. pc[k] \in {"sent", "checked", "engine", "applied", "volts"}
  BY DEF EngineCheck, EngineTake, SolveApply, SolveFail, SolveRun, ReadVolts, ReadRest
<1>4. act[k] \in Uses
  <2>1. CASE pc[k] \in {"checked", "applied", "volts"}
    BY <2>1 DEF CallsInOrder, Using
  <2>2. CASE pc[k] \notin {"checked", "applied", "volts"}
    BY <2>2 DEF EngineCheck, EngineTake, SolveApply, SolveFail, SolveRun, ReadVolts,
                ReadRest, Uses
  <2>. QED
    BY <2>1, <2>2
<1>5. circuit'.owner = circuit.owner
  <2>1. Applied(k, arg[k]).owner = circuit.owner
    BY DEF Applied, TypeOK, Circuit
  <2>. QED
    BY <2>1 DEF EngineCheck, EngineTake, SolveApply, SolveFail, SolveRun, ReadVolts,
                ReadRest, TypeOK, Circuit
<1>6. \A l \in Call : taken'[l] = taken[l] \/ taken'[l] \in {engine, None}
  BY DEF EngineCheck, EngineTake, SolveApply, SolveFail, SolveRun, ReadVolts,
         ReadRest, TypeOK
<1>7. pc[k] \notin Locked \union Answered
  BY <1>3 DEF Locked, Building, Dropping, Answered
<1>. QED
  BY <1>1, <1>2, <1>4, <1>5, <1>6, <1>7, UseStep

\* reset recompiles the directory of the engine it took.  That session was
\* published, so its directory is on disk only while it is the active one, or
\* is being removed while no session is active and no circuit is compiled.
LEMMA ResetRunStep ==
    ASSUME IInv, NEW k \in Call, ResetRun(k)
    PROVE  (SlotShape /\ DroppedHasNoFiles /\ ClosedStaysClosed)'
<1>. USE DEF IInv
<1>1. /\ UNCHANGED <<act, session, engine, workdir, lock, files>>
      /\ pc[k] = "engine" /\ act[k] \in Uses
  BY DEF ResetRun, serviceVars, Uses
<1>2. PICK s \in {"ok", "err"} : Step(k, s)
  BY DEF ResetRun
<1>3. s \in Stage /\ s \notin Locked
  BY <1>2 DEF Stage, Locked, Building, Dropping, Answered
<1>4. \/ circuit'.owner = circuit.owner
      \/ \E c \in Client : circuit'.owner = c /\ (session = c \/ (session # c /\ workdir = c))
  <2>1. CASE taken[k] \in files
    <3>1. taken[k] \in Client /\ (session = taken[k] \/ workdir = taken[k])
      BY <2>1 DEF DroppedHasNoFiles, TypeOK
    <3>. QED
      BY <2>1, <3>1 DEF ResetRun, Fresh
  <2>2. CASE taken[k] \notin files
    BY <2>2 DEF ResetRun
  <2>. QED
    BY <2>1, <2>2
<1>6. pc' = [pc EXCEPT ![k] = s] /\ pc \in [Call -> Stage]
  BY <1>2 DEF Step, TypeOK
<1>5. \A c \in Client : Named(c)' <=> Named(c)
  <2>1. ~Published(k) /\ ~Published(k)'
    BY <1>1, <1>2, <1>6 DEF Published, Uses
  <2>. QED
    BY <1>1, <1>6, <2>1, NamedMoves
<1>7. SlotShape'
  <2>1. \A l \in Call : pc'[l] \in Locked <=> pc[l] \in Locked
    BY <1>1, <1>3, <1>6 DEF Locked, Building, Dropping
  <2>2. \A l \in Call : pc[l] \in Locked \/ pc'[l] \in Locked => pc'[l] = pc[l]
    BY <1>1, <1>3, <1>6 DEF Locked, Building, Dropping
  <2>3. ASSUME NEW l \in Call, pc[l] = "name"
        PROVE  circuit'.owner = circuit.owner
    BY <1>4, <2>3, ClientAssumption DEF SlotShape
  <2>4. ASSUME NEW c \in Client, session = c
        PROVE  circuit'.owner = c
    <3>1. CASE circuit'.owner = circuit.owner
      BY <2>4, <3>1 DEF SlotShape
    <3>2. CASE workdir # session /\ workdir \in Client
      <4>1. lock \in Call
        BY <3>2 DEF SlotShape, TypeOK
      <4>2. pc[lock] \in Locked
        BY <4>1 DEF SlotShape
      <4>. QED
        BY <2>4, <3>2, <4>1, <4>2 DEF SlotShape, Locked, Building, Dropping
    <3>. QED
      BY <1>4, <2>4, <3>1, <3>2
  <2>5. \A c \in Client :
          session' = c => Named(c)' /\ c \in files' /\ circuit'.owner = c
    BY <1>1, <1>5, <2>4 DEF SlotShape
  <2>. QED
    BY <1>1, <2>1, <2>2, <2>3, <2>5 DEF SlotShape, Locked, Building, Dropping
<1>8. DroppedHasNoFiles'
  <2>1. \A c \in Client : Named(c)' /\ session' # c => c \notin files' \ {workdir'}
    BY <1>1, <1>5 DEF DroppedHasNoFiles
  <2>2. \A l \in Call : taken'[l] = taken[l] \/ taken'[l] = None
    BY DEF ResetRun, TypeOK
  <2>. QED
    BY <1>5, <2>1, <2>2 DEF DroppedHasNoFiles
<1>9. ClosedStaysClosed'
  BY <1>1, <1>2, <1>6 DEF ClosedStaysClosed, Uses
<1>. QED
  BY <1>7, <1>8, <1>9

\* Whoever takes the lock finds session, engine and directory of one run and
\* forgets the engine; a teardown that finds another run's gives it back.
LEMMA LockStep ==
    ASSUME IInv, NEW k \in Call, BuildLock(k) \/ Teardown(k)
    PROVE  (SlotShape /\ DroppedHasNoFiles /\ ClosedStaysClosed)'
<1>. USE DEF IInv
<1>1. /\ UNCHANGED <<act, taken, circuit, session, workdir, files>> /\ pc[k] = "sent"
      /\ lock = NoCall /\ k # NoCall /\ k[1] \in Client
      /\ engine = session /\ workdir = session
      /\ \A l \in Call : pc[l] \notin Locked /\ l # NoCall
  <2>1. /\ UNCHANGED <<act, taken, circuit, session, workdir, files>> /\ pc[k] = "sent"
        /\ lock = NoCall
    BY DEF BuildLock, Teardown
  <2>. QED
    BY <2>1, CallShape DEF SlotShape
<1>2. \/ /\ Step(k, "unname") /\ lock' = k /\ engine' = None
         /\ act[k] = "build" \/ (act[k] = "teardown" /\ session = k[1])
      \/ /\ Step(k, "ok") /\ UNCHANGED <<lock, engine>>
         /\ act[k] = "teardown" /\ session # k[1]
  BY DEF BuildLock, Teardown
<1>3. PICK s \in {"unname", "ok"} :
         pc' = [pc EXCEPT ![k] = s] /\ pc \in [Call -> Stage] /\ pc'[k] = s
  BY <1>2 DEF Step, TypeOK
<1>4. \A c \in Client : Named(c)' <=> Named(c)
  <2>1. ~Published(k) /\ ~Published(k)'
    BY <1>1, <1>2, <1>3 DEF Published, Step
  <2>. QED
    BY <1>1, <1>3, <2>1, NamedMoves
<1>5. \A c \in Client : session' = c => Named(c)' /\ c \in files' /\ circuit'.owner = c
  BY <1>1, <1>4 DEF SlotShape
<1>6. DroppedHasNoFiles'
  BY <1>1, <1>4 DEF DroppedHasNoFiles
<1>7. \A l \in Call : l[1] \in Client /\ (act[l] = "teardown" => Named(l[1]))
  BY CallShape, BuiltIsNamed DEF CallsInOrder
<1>8. CASE s = "unname"
  <2>1. /\ lock' = k /\ engine' = None
        /\ act[k] = "build" \/ (act[k] = "teardown" /\ session = k[1])
    BY <1>2, <1>3, <1>8 DEF Step, TypeOK
  <2>2. SlotShape'
    BY <1>1, <1>3, <1>5, <1>8, <2>1 DEF SlotShape, Locked, Building, Dropping
  <2>3. ClosedStaysClosed'
    BY <1>1, <1>3, <1>8 DEF ClosedStaysClosed, Answered
  <2>. QED
    BY <1>6, <2>2, <2>3
<1>9. CASE s = "ok"
  <2>1. UNCHANGED <<lock, engine>> /\ act[k] = "teardown" /\ session # k[1]
    BY <1>2, <1>3, <1>9 DEF Step, TypeOK
  <2>2. SlotShape'
    BY <1>1, <1>3, <1>5, <1>9, <2>1 DEF SlotShape, Locked, Building, Dropping
  <2>3. k[1] \notin files
    BY <1>1, <1>7, <2>1 DEF DroppedHasNoFiles
  <2>4. ClosedStaysClosed'
    BY <1>1, <1>3, <1>9, <2>1, <2>3 DEF ClosedStaysClosed, Answered
  <2>. QED
    BY <1>6, <2>2, <2>4
<1>. QED
  BY <1>3, <1>8, <1>9

\* Dropping a session: its name, then its directory, while no engine is there
\* for a handler to take.
LEMMA DropSteps ==
    ASSUME IInv, NEW k \in Call, DropName(k) \/ DropFiles(k)
    PROVE  (SlotShape /\ DroppedHasNoFiles /\ ClosedStaysClosed)'
<1>. USE DEF IInv
<1>1. pc[k] \in Dropping /\ pc[k] \in Locked /\ act[k] \in {"build", "teardown"}
  BY DEF DropName, DropFiles, Dropping, Locked, CallsInOrder
<1>2. /\ lock = k /\ k # NoCall /\ k[1] \in Client /\ pc \in [Call -> Stage] /\ engine = None
      /\ \A l \in Call : l # k => pc[l] \notin Locked
  BY <1>1, CallShape DEF SlotShape, TypeOK, Dropping
<1>3. UNCHANGED <<act, taken, engine, circuit>> /\ files' \subseteq files /\ session' = None
  BY DEF DropName, DropFiles, SlotShape
<1>4. PICK s \in {"remove", "compile", "ok"} :
         pc' = [pc EXCEPT ![k] = s] /\ pc'[k] = s /\ (s = "ok" => act[k] = "teardown")
               /\ (s = "compile" => act[k] = "build")
  <2>1. CASE DropName(k)
    BY <1>2, <2>1 DEF DropName, Step
  <2>2. CASE DropFiles(k)
    BY <1>1, <1>2, <2>2 DEF DropFiles, Step
  <2>. QED
    BY <2>1, <2>2
<1>5. \A c \in Client : Named(c)' <=> Named(c)
  <2>1. ~Published(k) /\ ~Published(k)'
    BY <1>1, <1>3, <1>4 DEF Published, Dropping
  <2>. QED
    BY <1>3, <1>4, <2>1, NamedMoves
<1>6. ASSUME NEW l \in Call, act[l] = "teardown", pc[l] \in Answered
      PROVE  session' # l[1] /\ l[1] \notin files'
  BY <1>3, <1>6, CallShape, ClientAssumption DEF ClosedStaysClosed
<1>7. \A c \in Client : session' # c
  BY <1>3, ClientAssumption
<1>8. CASE DropName(k)
  <2>1. /\ pc[k] = "unname" /\ s = "remove" /\ UNCHANGED <<lock, workdir, files>>
        /\ workdir = session
    BY <1>2, <1>4, <1>8 DEF DropName, Step, SlotShape
  <2>2. SlotShape'
    BY <1>2, <1>3, <1>4, <1>7, <2>1 DEF SlotShape, Locked, Building, Dropping
  <2>3. DroppedHasNoFiles'
    BY <1>3, <1>5, <2>1 DEF DroppedHasNoFiles
  <2>4. ClosedStaysClosed'
    BY <1>2, <1>3, <1>4, <1>6, <2>1 DEF ClosedStaysClosed, Answered
  <2>. QED
    BY <2>2, <2>3, <2>4
<1>9. CASE DropFiles(k)
  <2>1. /\ pc[k] = "remove" /\ session = None /\ files' = files \ {workdir} /\ workdir' = None
        /\ act[k] = "teardown" => workdir = k[1]
    BY <1>9 DEF DropFiles, SlotShape
  <2>2. \/ s = "compile" /\ lock' = lock
        \/ s = "ok" /\ lock' = NoCall
    BY <1>2, <1>4, <1>9 DEF DropFiles, Step
  <2>3. \A l \in Call : l # NoCall
    BY CallShape
  <2>4. SlotShape'
    BY <1>2, <1>3, <1>4, <1>7, <2>1, <2>2, <2>3 DEF SlotShape, Locked, Building, Dropping
  <2>5. DroppedHasNoFiles'
    <3>1. \A c \in Client : Named(c)' => c \notin files'
      BY <1>5, <1>7, <1>3, <2>1 DEF DroppedHasNoFiles
    <3>. QED
      BY <1>3, <1>5, <3>1 DEF DroppedHasNoFiles
  <2>6. ClosedStaysClosed'
    <3>1. act[k] = "teardown" => session' # k[1] /\ k[1] \notin files'
      BY <1>2, <1>7, <2>1
    <3>2. \A l \in Call : l # k => pc'[l] = pc[l]
      BY <1>4
    <3>. QED
      BY <1>3, <1>6, <3>1, <3>2 DEF ClosedStaysClosed
  <2>. QED
    BY <2>4, <2>5, <2>6
<1>. QED
  BY <1>8, <1>9

\* A build up to the failure or the naming of its session: its run has no
\* published session yet, so nothing the run closed or lost can come back.
LEMMA CompileSteps ==
    ASSUME IInv, NEW k \in Call, BuildCompile(k) \/ BuildName(k) \/ BuildFail(k)
    PROVE  (SlotShape /\ DroppedHasNoFiles /\ ClosedStaysClosed)'
<1>. USE DEF IInv
<1>1. pc[k] \in {"compile", "name"} /\ pc[k] \in Building /\ pc[k] \in Locked
  BY DEF BuildCompile, BuildName, BuildFail, Building, Locked
<1>2. /\ lock = k /\ k # NoCall /\ session = None /\ engine = None /\ workdir = None
      /\ pc \in [Call -> Stage]
      /\ \A l \in Call : l # k => pc[l] \notin Locked
  BY <1>1, CallShape DEF SlotShape, TypeOK
<1>3. ~Named(k[1]) /\ ~Built(k[1]) /\ k[1] \in Client /\ act[k] = "build"
  BY <1>1, BuildingNotBuilt, CompilingNotNamed, CallShape DEF CallsInOrder
<1>4. /\ UNCHANGED <<act, taken, engine, workdir>> /\ files \subseteq files'
      /\ files' \subseteq files \union {k[1]}
  BY DEF BuildCompile, BuildName, BuildFail
<1>5. \A l \in Call : l[1] \in Client /\ l # NoCall /\ (act[l] = "teardown" => l[1] # k[1])
  BY <1>3, CallShape DEF CallsInOrder
<1>6. PICK s \in {"name", "install", "err"} : pc' = [pc EXCEPT ![k] = s] /\ pc'[k] = s
  BY <1>2 DEF BuildCompile, BuildName, BuildFail, Step
<1>7. \A c \in Client : c # k[1] => (Named(c)' <=> Named(c))
  BY <1>4, <1>6, NamedMoves
<1>8. \A l \in Call : taken'[l] # k[1]
  BY <1>3, <1>4 DEF DroppedHasNoFiles
<1>9. CASE BuildCompile(k) \/ BuildFail(k)
  <2>1. UNCHANGED session /\ s \in {"name", "err"}
    BY <1>2, <1>6, <1>9 DEF BuildCompile, BuildFail, Step
  <2>2. \A c \in Client : Named(c)' <=> Named(c)
    <3>1. ~Published(k) /\ ~Published(k)'
      BY <1>1, <1>6, <2>1 DEF Published
    <3>. QED
      BY <1>4, <1>6, <3>1, NamedMoves
  <2>3. \A c \in Client : session' # c
    BY <1>2, <2>1, ClientAssumption
  <2>4. \/ s = "name" /\ lock' = k /\ k[1] \in files' /\ circuit'.owner = k[1]
        \/ s = "err" /\ lock' = NoCall
    BY <1>2, <1>6, <1>9 DEF BuildCompile, BuildFail, Step, Fresh
  <2>5. SlotShape'
    BY <1>2, <1>4, <1>5, <1>6, <2>1, <2>3, <2>4 DEF SlotShape, Locked, Building, Dropping
  <2>6. DroppedHasNoFiles'
    BY <1>2, <1>3, <1>4, <2>1, <2>2 DEF DroppedHasNoFiles
  <2>7. ClosedStaysClosed'
    BY <1>2, <1>3, <1>4, <1>5, <1>6, <2>1 DEF ClosedStaysClosed
  <2>. QED
    BY <2>5, <2>6, <2>7
<1>10. CASE BuildName(k)
  <2>1. /\ session' = k[1] /\ UNCHANGED <<lock, files, circuit>> /\ s = "install"
        /\ k[1] \in files /\ circuit.owner = k[1]
    BY <1>2, <1>6, <1>10 DEF BuildName, Step, SlotShape
  <2>2. Named(k[1])'
    BY <1>6, <2>1 DEF Named, Published
  <2>3. SlotShape'
    BY <1>2, <1>3, <1>4, <1>5, <1>6, <2>1, <2>2
       DEF SlotShape, Locked, Building, Dropping
  <2>4. DroppedHasNoFiles'
    <3>1. \A c \in Client : Named(c)' /\ session' # c => c \notin files' \ {workdir'}
      BY <1>2, <1>4, <1>7, <2>1, ClientAssumption DEF DroppedHasNoFiles
    <3>2. \A c \in Client : \A l \in Call : taken'[l] = c => Named(c)'
      BY <1>4, <1>7, <2>2 DEF DroppedHasNoFiles
    <3>. QED
      BY <3>1, <3>2 DEF DroppedHasNoFiles
  <2>5. ClosedStaysClosed'
    BY <1>2, <1>4, <1>5, <1>6, <2>1 DEF ClosedStaysClosed, Answered
  <2>. QED
    BY <2>3, <2>4, <2>5
<1>. QED
  BY <1>9, <1>10

\* The end of a build, its session named: engine, then directory.
LEMMA InstallSteps ==
    ASSUME IInv, NEW k \in Call, BuildInstall(k) \/ BuildFile(k)
    PROVE  (SlotShape /\ DroppedHasNoFiles /\ ClosedStaysClosed)'
<1>. USE DEF IInv
<1>1. pc[k] \in {"install", "file"} /\ pc[k] \in Building /\ pc[k] \in Locked
  BY DEF BuildInstall, BuildFile, Building, Locked
<1>2. /\ lock = k /\ k # NoCall /\ session = k[1] /\ workdir = None
      /\ k[1] \in Client /\ act[k] = "build" /\ pc \in [Call -> Stage]
      /\ \A l \in Call : l # k => pc[l] \notin Locked
  BY <1>1, CallShape DEF SlotShape, CallsInOrder, TypeOK
<1>3. UNCHANGED <<act, taken, session, files, circuit>> /\ engine' = k[1]
  BY DEF BuildInstall, BuildFile, SlotShape
<1>4. PICK s \in {"file", "ok"} : pc' = [pc EXCEPT ![k] = s] /\ pc'[k] = s
  BY <1>2 DEF BuildInstall, BuildFile, Step
<1>5. \A c \in Client : Named(c)' <=> Named(c)
  <2>1. Published(k) /\ Published(k)'
    BY <1>1, <1>2, <1>3, <1>4 DEF Published
  <2>. QED
    BY <1>3, <1>4, <2>1, NamedMoves
<1>6. \/ s = "file" /\ UNCHANGED <<lock, workdir>>
      \/ s = "ok" /\ lock' = NoCall /\ workdir' = k[1]
  BY <1>2, <1>4 DEF BuildInstall, BuildFile, Step
<1>7. \A l \in Call : l # NoCall
  BY CallShape
<1>8. SlotShape'
  BY <1>2, <1>3, <1>4, <1>5, <1>6, <1>7 DEF SlotShape, Locked, Building, Dropping
<1>9. DroppedHasNoFiles'
  BY <1>2, <1>3, <1>5, <1>6, ClientAssumption DEF DroppedHasNoFiles
<1>10. ClosedStaysClosed'
  BY <1>2, <1>3, <1>4 DEF ClosedStaysClosed
<1>. QED
  BY <1>8, <1>9, <1>10

LEMMA HandlerPreserves ==
    ASSUME IInv, NEW k \in Call, Handler(k)
    PROVE  IInv'
<1>1. TypeOK' /\ CallsInOrder'
  BY HandlerTypeStep, HandlerOrder
<1>2. (SlotShape /\ DroppedHasNoFiles /\ ClosedStaysClosed)'
  BY UseSteps, ResetRunStep, LockStep, DropSteps, CompileSteps, InstallSteps
     DEF Handler, LockedStep
<1>. QED
  BY <1>1, <1>2 DEF IInv

-----------------------------------------------------------------------------
(* The invariant.                                                          *)

LEMMA InitIInv == Init => IInv
<1>. SUFFICES ASSUME Init PROVE IInv
  OBVIOUS
<1>1. TypeOK
  BY InitTypeOK
<1>2. /\ phase = [c \in Client |-> "new"] /\ ncalls = [c \in Client |-> 0]
      /\ act = [k \in Call |-> "none"] /\ pc = [k \in Call |-> "none"]
      /\ taken = [k \in Call |-> None]
      /\ lock = NoCall /\ session = None /\ engine = None /\ workdir = None
      /\ files = {}
  BY DEF Init
<1>3. CallsInOrder
  BY <1>2, CallShape DEF CallsInOrder, Building, Dropping, Using
<1>4. SlotShape
  BY <1>2, CallShape, ClientAssumption DEF SlotShape, Locked, Building, Dropping
<1>5. DroppedHasNoFiles
  BY <1>2 DEF DroppedHasNoFiles
<1>6. ClosedStaysClosed
  BY <1>2 DEF ClosedStaysClosed
<1>. QED
  BY <1>1, <1>3, <1>4, <1>5, <1>6 DEF IInv

LEMMA StutterPreserves ==
    ASSUME IInv, UNCHANGED vars
    PROVE  IInv'
<1>. USE DEF vars, clientVars, callVars, serviceVars
<1>1. TypeOK'
  BY DEF IInv, TypeOK
<1>2. CallsInOrder'
  BY BuiltUnchanged, CallShape DEF IInv, CallsInOrder
<1>. QED
  BY <1>1, <1>2, ServiceUntouched DEF IInv

LEMMA NextPreserves == IInv /\ [Next]_vars => IInv'
BY RunPreserves, HandlerPreserves, StutterPreserves DEF Next, Finished

\* In every reachable state of any number of runs the inductive invariant
\* holds: commands are issued in order, the slot's parts move together, and a
\* session that was dropped has left no directory behind.
THEOREM InvariantHolds == Spec => []IInv
<1>1. Init => IInv
  BY InitIInv
<1>2. IInv /\ [Next]_vars => IInv'
  BY NextPreserves
<1>. QED
  BY <1>1, <1>2, PTL DEF Spec

\* Every variable keeps its type, whatever the number of runs and commands.
THEOREM TypeCorrect == Spec => []TypeOK
<1>1. IInv => TypeOK
  BY DEF IInv
<1>. QED
  BY <1>1, InvariantHolds, PTL

\* At every moment of every build and teardown, _engine_for returns no engine
\* or the active session's, with its directory on disk and its circuit loaded
\* (a stale reset finds no file to recompile), and outside the lock session,
\* engine and directory belong to one run (_drop_session, the end of build).
THEOREM SlotIsCoherent == Spec => []SlotCoherent
<1>1. IInv => SlotCoherent
  BY DEF IInv, SlotShape, SlotCoherent, TypeOK
<1>. QED
  BY <1>1, InvariantHolds, PTL

\* Exactly the owner of _lock is inside the critical section of build or
\* teardown, and no session answers commands while a build compiles.
THEOREM BuildIsExclusive == Spec => []BuildExclusive
<1>1. IInv => BuildExclusive
  BY DEF IInv, SlotShape, BuildExclusive
<1>. QED
  BY <1>1, InvariantHolds, PTL

\* A run whose teardown was handled stays out of the service for good.
THEOREM ClosedForGood == Spec => []ClosedStaysClosed
<1>1. IInv => ClosedStaysClosed
  BY DEF IInv
<1>. QED
  BY <1>1, InvariantHolds, PTL

-----------------------------------------------------------------------------
(* How the session and the runs built can change in one step.              *)

LEMMA HandlerSession ==
    ASSUME IInv, NEW k \in Call, Handler(k)
    PROVE  \/ /\ session' = session
              /\ \A c \in Client : Named(c)' <=> Named(c)
           \/ /\ session' = None /\ lock = k
              /\ act[k] = "build" \/ (act[k] = "teardown" /\ session = k[1])
              /\ \A c \in Client : Named(c)' <=> Named(c)
           \/ /\ session = None /\ session' = k[1] /\ ~Named(k[1])
              /\ \A c \in Client : c # k[1] => (Named(c)' <=> Named(c))
<1>. USE DEF IInv
<1>1. PICK s \in Stage : Step(k, s)
  BY HandlerShape
<1>2. act' = act /\ pc[k] # "ok" /\ pc \in [Call -> Stage] /\ pc'[k] = s
      /\ \A l \in Call : l # k => pc'[l] = pc[l]
  BY <1>1, HandlerShape DEF Step, TypeOK
<1>3. (Published(k)' <=> Published(k)) => \A c \in Client : Named(c)' <=> Named(c)
  BY <1>2, NamedMoves
<1>4. CASE BuildLock(k) \/ Teardown(k)
  <2>1. session' = session /\ pc[k] = "sent" /\ (pc'[k] = "ok" => act[k] = "teardown")
        /\ pc'[k] \in {"unname", "ok"}
    BY <1>2, <1>4 DEF BuildLock, Teardown, Step
  <2>. QED
    BY <1>2, <1>3, <2>1 DEF Published
<1>5. CASE BuildCompile(k) \/ BuildFail(k)
  <2>1. session' = session /\ pc[k] \in {"compile", "name"} /\ pc'[k] \in {"name", "err"}
    BY <1>2, <1>5 DEF BuildCompile, BuildFail, Step
  <2>. QED
    BY <1>2, <1>3, <2>1 DEF Published
<1>6. CASE BuildName(k)
  <2>1. pc[k] = "name" /\ session' = k[1]
    BY <1>6 DEF BuildName
  <2>2. session = None /\ ~Named(k[1])
    BY <2>1, CompilingNotNamed DEF SlotShape
  <2>3. \A c \in Client : c # k[1] => (Named(c)' <=> Named(c))
    BY <1>2, NamedMoves
  <2>. QED
    BY <2>1, <2>2, <2>3
<1>7. CASE \/ EngineCheck(k) \/ EngineTake(k) \/ SolveApply(k) \/ SolveFail(k)
           \/ SolveRun(k) \/ ReadVolts(k) \/ ReadRest(k) \/ ResetRun(k)
  <2>1. session' = session
    BY <1>7 DEF EngineCheck, EngineTake, SolveApply, SolveFail, SolveRun, ReadVolts,
                ReadRest, ResetRun, serviceVars
  <2>2. act[k] # "build" /\ pc[k] \notin {"install", "file"}
    BY <1>7 DEF EngineCheck, EngineTake, SolveApply, SolveFail, SolveRun, ReadVolts,
                ReadRest, ResetRun, CallsInOrder, Uses, Using
  <2>3. pc'[k] \notin {"install", "file"}
    BY <1>2, <1>7 DEF EngineCheck, EngineTake, SolveApply, SolveFail, SolveRun, ReadVolts,
                ReadRest, ResetRun, Step
  <2>. QED
    BY <1>2, <1>3, <2>1, <2>2, <2>3 DEF Published
<1>8. CASE DropName(k)
  <2>1. /\ pc[k] = "unname" /\ pc'[k] = "remove" /\ session' = None
        /\ act[k] \in {"build", "teardown"} /\ lock = k
        /\ act[k] = "teardown" => session = k[1]
    BY <1>2, <1>8 DEF DropName, Step, CallsInOrder, SlotShape, Dropping, Locked
  <2>. QED
    BY <1>2, <1>3, <2>1 DEF Published
<1>9. CASE DropFiles(k)
  <2>1. /\ pc[k] = "remove" /\ pc'[k] \in {"compile", "ok"} /\ session' = session
        /\ pc'[k] = "ok" => act[k] # "build"
    BY <1>2, <1>9 DEF DropFiles, Step
  <2>. QED
    BY <1>2, <1>3, <2>1 DEF Published
<1>10. CASE BuildInstall(k) \/ BuildFile(k)
  <2>1. /\ pc[k] \in {"install", "file"} /\ pc'[k] \in {"file", "ok"} /\ session' = session
        /\ act[k] = "build"
    BY <1>2, <1>10 DEF BuildInstall, BuildFile, Step, CallsInOrder, Building
  <2>. QED
    BY <1>2, <1>3, <2>1 DEF Published
<1>. QED
  BY <1>4, <1>5, <1>6, <1>7, <1>8, <1>9, <1>10 DEF Handler, LockedStep

LEMMA RunSession ==
    ASSUME IInv, NEW c \in Client, RunStep(c) \/ Accept(c) \/ Timeout(c)
    PROVE  /\ session' = session
           /\ \A d \in Client : Named(d)' <=> Named(d)
<1>1. session' = session
  BY RunShape DEF serviceVars
<1>2. CASE UNCHANGED <<act, pc>>
  BY <1>1, <1>2 DEF Named, Published
<1>3. CASE \E a \in Action \ {"none"}, b \in Batch : Issue(c, a, b)
  <2>. DEFINE k == <<c, ncalls[c] + 1>>
  <2>1. k \in Call /\ pc[k] = "none"
    <3>1. ncalls[c] + 1 \in 1..Budget[c] /\ ncalls[c] \in Nat
      BY <1>3 DEF IInv, TypeOK, Issue
    <3>2. k \in Call /\ k[1] = c /\ k[2] = ncalls[c] + 1
      BY <3>1, CallOf
    <3>. QED
      BY <3>1, <3>2 DEF IInv, CallsInOrder
  <2>2. /\ pc'[k] = "sent"
        /\ \A l \in Call : l # k => act'[l] = act[l] /\ pc'[l] = pc[l]
    BY <1>3, <2>1 DEF Issue, IInv, TypeOK
  <2>. QED
    BY <1>1, <2>1, <2>2, NamedIssue
<1>. QED
  BY <1>2, <1>3, RunShape

-----------------------------------------------------------------------------
(* Action property and refinement.                                         *)

\* A session loses the slot to its own teardown or to a build's eviction,
\* never to the teardown of a run that was evicted before.
THEOREM TeardownSpares == Spec => TeardownSparesOthers
<1>1. IInv /\ [Next]_vars =>
        [ \A c \in Client : session = c /\ session' # c =>
            lock # NoCall /\ (act[lock] = "build" \/ lock[1] = c) ]_vars
  <2>. SUFFICES ASSUME IInv, [Next]_vars,
                       NEW c \in Client, session = c, session' # c
                PROVE  lock # NoCall /\ (act[lock] = "build" \/ lock[1] = c)
    OBVIOUS
  <2>1. CASE \E k \in Call : Handler(k)
    <3>1. PICK k \in Call : Handler(k)
      BY <2>1
    <3>2. k[1] \in Client /\ k # NoCall
      BY CallShape
    <3>. QED
      BY <3>1, <3>2, HandlerSession, ClientAssumption
  <2>2. CASE \E d \in Client : RunStep(d) \/ Accept(d) \/ Timeout(d)
    BY <2>2, RunSession
  <2>3. CASE UNCHANGED vars
    BY <2>3 DEF vars, serviceVars
  <2>. QED
    BY <2>1, <2>2, <2>3 DEF Next, Finished
<1>. QED
  BY <1>1, InvariantHolds, PTL DEF Spec, TeardownSparesOthers

\* The retired runs are those whose session was published and is not active:
\* a build that has still to install its engine holds the slot already.
LEMMA RetiredAreNamed ==
    ASSUME IInv
    PROVE  Retired = {c \in Client : session # c /\ Named(c)}
<1>1. ASSUME NEW c \in Client, session # c, Named(c)
      PROVE  Built(c)
  <2>1. PICK k \in Call : k[1] = c /\ Published(k)
    BY <1>1 DEF Named
  <2>2. act[k] = "build" /\ pc[k] = "ok"
    BY <1>1, <2>1 DEF Published, IInv, SlotShape
  <2>3. k = <<c, k[2]>> /\ k[2] \in 1..Budget[c]
    BY <2>1, CallShape
  <2>4. act[<<c, k[2]>>] = "build" /\ pc[<<c, k[2]>>] = "ok"
    BY <2>2, <2>3
  <2>. QED
    BY <2>3, <2>4 DEF Built
<1>. QED
  BY <1>1, BuiltIsNamed DEF Retired

LEMMA SlotStep ==
    ASSUME IInv, [Next]_vars
    PROVE  [Slot!SlotNext]_(Slot!slotVars)
<1>. USE DEF Slot!SlotNext, Slot!Vacate, Slot!Grant, Slot!slotVars
<1>1. session \in Client \union {None}
  BY DEF IInv, TypeOK
<1>0. /\ Retired = {c \in Client : session # c /\ Named(c)}
      /\ Retired' = {c \in Client : session' # c /\ Named(c)'}
  <2>1. IInv'
    BY NextPreserves
  <2>2. Retired = {c \in Client : session # c /\ Named(c)}
    BY RetiredAreNamed
  <2>3. (Retired = {c \in Client : session # c /\ Named(c)})'
    BY <2>1, RetiredAreNamed, PTL
  <2>. QED
    BY <2>2, <2>3
<1>2. CASE session' = session /\ \A c \in Client : Named(c)' <=> Named(c)
  <2>1. Retired' = Retired
    BY <1>0, <1>2
  <2>. QED
    BY <1>2, <2>1
<1>3. CASE session' = None /\ \A c \in Client : Named(c)' <=> Named(c)
  <2>1. CASE session = None
    BY <1>2, <1>3, <2>1
  <2>2. CASE session \in Client
    <3>1. \A c \in Client : session = c => Named(c)
      BY DEF IInv, SlotShape
    <3>2. Retired' = Retired \union {session}
      BY <1>0, <1>3, <2>2, <3>1, ClientAssumption
    <3>. QED
      BY <1>3, <2>2, <3>2, ClientAssumption
  <2>. QED
    BY <1>1, <2>1, <2>2
<1>4. ASSUME NEW c \in Client, session = None, session' = c, ~Named(c),
             \A d \in Client : d # c => (Named(d)' <=> Named(d))
      PROVE  Slot!SlotNext
  <2>1. Retired' = Retired /\ c \notin Retired
    BY <1>0, <1>4, ClientAssumption
  <2>. QED
    BY <1>4, <2>1
<1>5. CASE \E k \in Call : Handler(k)
  <2>1. PICK k \in Call : Handler(k)
    BY <1>5
  <2>2. k[1] \in Client
    BY CallShape
  <2>. QED
    BY <1>2, <1>3, <1>4, <2>1, <2>2, HandlerSession
<1>6. CASE \E c \in Client : RunStep(c) \/ Accept(c) \/ Timeout(c)
  BY <1>2, <1>6, RunSession
<1>7. CASE UNCHANGED vars
  <2>1. session' = session /\ \A c \in Client : Named(c)' <=> Named(c)
    BY <1>7 DEF vars, serviceVars, callVars, Named, Published
  <2>. QED
    BY <1>2, <2>1
<1>. QED
  BY <1>5, <1>6, <1>7 DEF Next, Finished

\* The service implements the one-session slot of SolverSlot: every handler
\* step grants the slot, vacates it, or leaves it alone.
THEOREM SlotImplemented == Spec => ImplementsSlot
<1>1. Init => Slot!SlotInit
  <2>1. Init => session = None /\ \A c \in Client : ~Built(c)
    BY CallOf DEF Init, Built
  <2>. QED
    BY <2>1 DEF Slot!SlotInit, Retired
<1>2. IInv /\ [Next]_vars => [Slot!SlotNext]_(Slot!slotVars)
  BY SlotStep
<1>. QED
  BY <1>1, <1>2, InvariantHolds, PTL DEF Spec, ImplementsSlot, Slot!SlotSpec

-----------------------------------------------------------------------------
\* Only run c touched the circuit since it was compiled.
Clean(c) == circuit.by \subseteq {c}

\* Run c waits for the answer to a command of kind a.
Doing(c, a) == phase[c] = "waiting" /\ act[Current(c)] = a

\* The circuit of a clean run carries batch b, and a power flow of batch b.
Holds(c, b) == Clean(c) => circuit.set = b /\ circuit.solved = b

\* Reading r of run c: what was taken from a clean circuit is the last solve's.
Good(c, r) ==
    /\ r.volts.by = {c} => r.volts.val = flushed[c]
    /\ r.rest.by = {c} => r.rest.val = flushed[c]

\* The circuit follows the command a run waits for.
Follows(c) ==
    /\ phase[c] = "new" \/ Doing(c, "build") => flushed[c] = 0 /\ Holds(c, 0)
    /\ phase[c] = "ready" \/ Doing(c, "read") => Holds(c, flushed[c])
    /\ Doing(c, "solve") =>
          /\ pc[Current(c)] \in {"sent", "checked", "engine"} /\ Clean(c) =>
                flushed[c] = IF arg[Current(c)] = 0 THEN circuit.set ELSE arg[Current(c)]
          /\ pc[Current(c)] = "applied" /\ Clean(c) => circuit.set = flushed[c]
          /\ pc[Current(c)] = "ok" => Holds(c, flushed[c])
    /\ Doing(c, "reset") => flushed[c] = 0 /\ (pc[Current(c)] = "ok" => Holds(c, 0))
    /\ Doing(c, "read") /\ pc[Current(c)] \in {"volts", "ok"} => Good(c, seen[Current(c)])

\* While a run neither fails nor closes, no handler but that of its current
\* command is left: all the others were answered.
Alone(c) ==
    phase[c] = "ready" \/ (phase[c] = "waiting" /\ act[Current(c)] # "teardown") =>
       \A k \in Call : (k[1] = c /\ (k[2] < ncalls[c] \/ (k[2] = ncalls[c] /\ phase[c] = "ready")))
                          => pc[k] = "ok"

\* A buffered batch has a number; a stage belongs to its kind of command.
Buffered(c) == pending[c] => batch[c] # 0
KindOfStage == \A k \in Call : /\ pc[k] = "applied" => act[k] = "solve"
                               /\ pc[k] = "volts" => act[k] = "read"

ReadInv ==
    /\ KindOfStage
    /\ \A c \in Client : Follows(c) /\ Good(c, cache[c]) /\ Alone(c) /\ Buffered(c)

LEMMA ReadsEstablished == Init => ReadInv
BY DEF Init, ReadInv, KindOfStage, Follows, Holds, Good, Alone, Buffered, Doing, Fresh,
       NoReading, NoSnap

-----------------------------------------------------------------------------
(* The handlers.                                                           *)

LEMMA StageShape ==
    ASSUME IInv, ReadInv, NEW k \in Call, Handler(k)
    PROVE  KindOfStage'
<1>1. UNCHANGED act /\ pc \in [Call -> Stage]
  BY HandlerShape DEF IInv, TypeOK
<1>2. \E s \in Stage : /\ Step(k, s) /\ (s = "applied" => act[k] = "solve")
                       /\ (s = "volts" => act[k] = "read")
  <2>. USE DEF Stage, Locked, Dropping, Building, Answered
  <2>1. CASE BuildLock(k)
    BY <2>1 DEF BuildLock
  <2>2. CASE LockedStep(k)
    BY <2>2 DEF LockedStep, DropName, DropFiles, BuildCompile, BuildName, BuildInstall,
                BuildFile, BuildFail
  <2>3. CASE EngineCheck(k)
    BY <2>3 DEF EngineCheck
  <2>4. CASE EngineTake(k)
    BY <2>4 DEF EngineTake
  <2>5. CASE SolveApply(k) \/ SolveFail(k) \/ SolveRun(k)
    BY <2>5 DEF SolveApply, SolveFail, SolveRun
  <2>6. CASE ReadVolts(k) \/ ReadRest(k)
    BY <2>6 DEF ReadVolts, ReadRest
  <2>7. CASE ResetRun(k)
    BY <2>7 DEF ResetRun
  <2>8. CASE Teardown(k)
    BY <2>8 DEF Teardown
  <2>. QED
    BY <2>1, <2>2, <2>3, <2>4, <2>5, <2>6, <2>7, <2>8 DEF Handler
<1>. QED
  BY <1>1, <1>2 DEF ReadInv, KindOfStage, Step

\* A handler leaves the run's side alone, and marks the circuit it changes.
LEMMA HandlerLeaves ==
    ASSUME IInv, NEW k \in Call, Handler(k)
    PROVE  /\ UNCHANGED <<clientVars, act, arg>>
           /\ \A l \in Call : l # k => pc'[l] = pc[l] /\ seen'[l] = seen[l]
           /\ circuit' = circuit \/ k[1] \in circuit'.by
<1>1. \A l \in Call : l # k => pc'[l] = pc[l]
  BY HandlerShape DEF Step, IInv, TypeOK
<1>2. k[1] \in Client /\ circuit \in Circuit /\ seen \in [Call -> Reading]
  BY CallShape DEF IInv, TypeOK
<1>3. CASE BuildLock(k)
  BY <1>1, <1>3 DEF BuildLock
<1>4. CASE LockedStep(k)
  BY <1>1, <1>4 DEF LockedStep, DropName, DropFiles, BuildCompile, BuildName, BuildInstall,
                    BuildFile, BuildFail, Fresh
<1>5. CASE EngineCheck(k) \/ EngineTake(k)
  BY <1>1, <1>5 DEF EngineCheck, EngineTake
<1>6. CASE SolveApply(k) \/ SolveFail(k) \/ SolveRun(k)
  BY <1>1, <1>2, <1>6 DEF SolveApply, SolveFail, SolveRun, Applied, Circuit
<1>7. CASE ReadVolts(k) \/ ReadRest(k)
  BY <1>1, <1>2, <1>7 DEF ReadVolts, ReadRest, Collect
<1>8. CASE ResetRun(k)
  BY <1>1, <1>8 DEF ResetRun, Fresh
<1>9. CASE Teardown(k)
  BY <1>1, <1>9 DEF Teardown
<1>. QED
  BY <1>3, <1>4, <1>5, <1>6, <1>7, <1>8, <1>9 DEF Handler

\* A step that moves neither the run nor its current command.
LEMMA RunUnmoved ==
    ASSUME NEW c \in Client, Follows(c), Good(c, cache[c]), Buffered(c),
           phase'[c] = phase[c], ncalls'[c] = ncalls[c], flushed'[c] = flushed[c],
           cache'[c] = cache[c], pending'[c] = pending[c], batch'[c] = batch[c],
           phase[c] = "waiting" =>
              /\ act'[Current(c)] = act[Current(c)] /\ arg'[Current(c)] = arg[Current(c)]
              /\ pc'[Current(c)] = pc[Current(c)] /\ seen'[Current(c)] = seen[Current(c)],
           circuit' = circuit \/ ~Clean(c)'
    PROVE  Follows(c)' /\ Good(c, cache[c])' /\ Buffered(c)'
<1>1. Current(c)' = Current(c)
  BY DEF Current
<1>2. Good(c, cache[c])' /\ Buffered(c)'
  BY DEF Good, Buffered
<1>3. CASE phase[c] # "waiting"
  BY <1>2, <1>3 DEF Follows, Holds, Doing, Clean
<1>4. CASE phase[c] = "waiting"
  <2>1. /\ phase'[c] = "waiting"
        /\ act'[Current(c)'] = act[Current(c)] /\ arg'[Current(c)'] = arg[Current(c)]
        /\ pc'[Current(c)'] = pc[Current(c)] /\ seen'[Current(c)'] = seen[Current(c)]
    BY <1>1, <1>4
  <2>2. Good(c, seen[Current(c)])' <=> Good(c, seen[Current(c)])
    BY <2>1 DEF Good
  <2>3. CASE circuit' = circuit
    BY <1>2, <1>4, <2>1, <2>2, <2>3 DEF Follows, Holds, Doing, Clean
  <2>4. CASE ~Clean(c)'
    BY <1>2, <1>4, <2>1, <2>2, <2>4 DEF Follows, Holds, Doing
  <2>. QED
    BY <2>3, <2>4
<1>. QED
  BY <1>2, <1>3, <1>4

\* The handler of the command a run waits for.
LEMMA CurrentHandler ==
    ASSUME IInv, ReadInv, NEW c \in Client, phase[c] = "waiting", Handler(Current(c)),
           act[Current(c)] # "teardown"
    PROVE  Follows(c)'
<1>. DEFINE k == Current(c)
<1>1. /\ k \in Call /\ k[1] = c /\ Awaited(k)
      /\ pc \in [Call -> Stage] /\ seen \in [Call -> Reading] /\ circuit \in Circuit
      /\ flushed[c] \in Nat /\ taken \in [Call -> Client \union {None}]
  BY CurrentCall, CallShape DEF IInv, Current, Awaited, TypeOK, Batch
<1>2. UNCHANGED <<clientVars, act, arg>> /\ Current(c)' = k
  BY <1>1, HandlerLeaves DEF clientVars, Current
<1>2a. k' = k
  BY <1>2
<1>3. \A a : Doing(c, a)' <=> act[k] = a
  BY <1>2 DEF Doing, clientVars
<1>4. \A a : Doing(c, a) <=> act[k] = a
  BY DEF Doing
<1>5. phase'[c] = "waiting" /\ flushed'[c] = flushed[c] /\ arg' = arg
  BY <1>2 DEF clientVars
<1>6. Follows(c) /\ KindOfStage /\ (pc[k] \in Using => act[k] \in Uses)
      /\ (pc[k] \in Building => act[k] = "build")
      /\ (pc[k] \in Dropping => act[k] \in {"build", "teardown"})
  BY <1>1 DEF ReadInv, IInv, CallsInOrder
<1>. HIDE DEF k
<1>7. CASE BuildLock(k)
  BY <1>1, <1>3, <1>4, <1>5, <1>6, <1>7 DEF BuildLock, Follows, Holds, Clean
<1>8. CASE LockedStep(k)
  <2>1. act[k] = "build"
    BY <1>6, <1>8 DEF LockedStep, DropName, DropFiles, BuildCompile, BuildName, BuildInstall,
                      BuildFile, BuildFail, Building, Dropping, k
  <2>2. circuit' = circuit \/ (circuit'.set = 0 /\ circuit'.solved = 0)
    BY <1>8 DEF LockedStep, DropName, DropFiles, BuildCompile, BuildName, BuildInstall,
                BuildFile, BuildFail, Fresh
  <2>. QED
    BY <1>3, <1>4, <1>5, <1>6, <2>1, <2>2 DEF Follows, Holds, Clean
<1>9. CASE EngineCheck(k)
  <2>1. pc[k] = "sent" /\ pc'[k] \in {"err", "checked", "engine"} /\ circuit' = circuit
        /\ act[k] \in Uses
    BY <1>1, <1>9 DEF EngineCheck, Step, Uses
  <2>. QED
    BY <1>2, <1>3, <1>4, <1>5, <1>6, <2>1 DEF Follows, Holds, Clean, Uses, k
<1>10. CASE EngineTake(k)
  <2>1. pc[k] = "checked" /\ pc'[k] \in {"err", "engine"} /\ circuit' = circuit
        /\ act[k] \in Uses
    BY <1>1, <1>6, <1>10 DEF EngineTake, Step, Using
  <2>. QED
    BY <1>2, <1>3, <1>4, <1>5, <1>6, <2>1 DEF Follows, Holds, Clean, Uses, k
<1>11. CASE SolveApply(k)
  <2>1. /\ pc[k] = "engine" /\ pc'[k] = "applied" /\ act[k] = "solve"
        /\ circuit'.by = circuit.by \union {c}
        /\ circuit'.set = IF arg[k] = 0 THEN circuit.set ELSE arg[k]
    BY <1>1, <1>11 DEF SolveApply, Step, Applied, Circuit
  <2>2. Clean(c)' => Clean(c)
    BY <2>1 DEF Clean
  <2>. QED
    BY <1>2, <1>3, <1>4, <1>5, <1>6, <2>1, <2>2 DEF Follows, k
<1>12. CASE SolveFail(k)
  <2>1. pc'[k] = "err" /\ act[k] = "solve"
    BY <1>1, <1>12 DEF SolveFail, Step
  <2>. QED
    BY <1>2, <1>3, <1>5, <2>1 DEF Follows, k
<1>13. CASE SolveRun(k)
  <2>1. /\ pc[k] = "applied" /\ pc'[k] = "ok" /\ act[k] = "solve"
        /\ circuit'.by = circuit.by \union {c}
        /\ circuit'.set = circuit.set /\ circuit'.solved = circuit.set
    BY <1>1, <1>6, <1>13 DEF SolveRun, Step, Circuit, KindOfStage
  <2>2. Clean(c)' => Clean(c)
    BY <2>1 DEF Clean
  <2>. QED
    BY <1>2, <1>3, <1>4, <1>5, <1>6, <2>1, <2>2 DEF Follows, Holds, k
<1>14. CASE ReadVolts(k)
  <2>1. /\ pc'[k] = "volts" /\ act[k] = "read" /\ circuit' = circuit
        /\ seen'[k] = [volts |-> Snapshot, rest |-> NoSnap]
    BY <1>1, <1>14 DEF ReadVolts, Step, Collect
  <2>2. Holds(c, flushed[c])
    BY <1>4, <1>6, <2>1 DEF Follows
  <2>3. Good(c, seen[k])'
    BY <1>2a, <1>5, <2>1, <2>2 DEF Good, Snapshot, NoSnap, Holds, Clean
  <2>. QED
    BY <1>2, <1>3, <1>5, <2>1, <2>2, <2>3 DEF Follows, Holds, Clean, k
<1>15. CASE ReadRest(k)
  <2>1. /\ pc[k] = "volts" /\ pc'[k] = "ok" /\ act[k] = "read" /\ circuit' = circuit
        /\ seen'[k] = [volts |-> seen[k].volts, rest |-> Snapshot]
    BY <1>1, <1>6, <1>15 DEF ReadRest, Step, Collect, KindOfStage
  <2>2. Holds(c, flushed[c]) /\ Good(c, seen[k])
    BY <1>4, <1>6, <2>1 DEF Follows, k
  <2>3. Good(c, seen[k])'
    BY <1>2a, <1>5, <2>1, <2>2 DEF Good, Snapshot, Holds, Clean
  <2>. QED
    BY <1>2, <1>3, <1>5, <2>1, <2>2, <2>3 DEF Follows, Holds, Clean, k
<1>16. CASE ResetRun(k)
  <2>1. act[k] = "reset" /\ pc'[k] \in {"ok", "err"} /\ flushed[c] = 0
    BY <1>1, <1>4, <1>6, <1>16 DEF ResetRun, Step, Follows
  <2>2. pc'[k] = "ok" => circuit'.set = 0 /\ circuit'.solved = 0
    BY <1>1, <1>16 DEF ResetRun, Step, Fresh
  <2>. QED
    BY <1>2, <1>3, <1>5, <2>1, <2>2 DEF Follows, Holds, k
<1>17. CASE Teardown(k)
  BY <1>17 DEF Teardown, k
<1>. QED
  BY <1>7, <1>8, <1>9, <1>10, <1>11, <1>12, <1>13, <1>14, <1>15, <1>16, <1>17 DEF Handler, k

\* A handler of a run that is alone with it is that of its current command.
LEMMA HandlerReads ==
    ASSUME IInv, ReadInv, NEW k \in Call, Handler(k)
    PROVE  ReadInv'
<1>1. /\ UNCHANGED <<clientVars, act, arg>>
      /\ \A l \in Call : l # k => pc'[l] = pc[l] /\ seen'[l] = seen[l]
      /\ circuit' = circuit \/ k[1] \in circuit'.by
  BY HandlerLeaves
<1>2. pc[k] \notin {"none", "ok"} /\ act[k] # "none"
  BY HandlerShape DEF IInv, CallsInOrder
<1>3. ASSUME NEW c \in Client
      PROVE  Follows(c)' /\ Good(c, cache[c])' /\ Alone(c)' /\ Buffered(c)'
  <2>1. Follows(c) /\ Good(c, cache[c]) /\ Alone(c) /\ Buffered(c)
    BY DEF ReadInv
  <2>2. Alone(c)'
    <3>1. \A l \in Call : pc[l] = "ok" => pc'[l] = "ok"
      BY <1>1, <1>2
    <3>. QED
      BY <1>1, <2>1, <3>1 DEF Alone, Current, clientVars
  <2>3. Good(c, cache[c])' /\ Buffered(c)'
    BY <1>1, <2>1 DEF Good, Buffered, clientVars
  <2>4. phase[c] = "waiting" => Current(c) \in Call
    BY CurrentCall DEF IInv
  <2>5. CASE k[1] # c
    <3>1. Current(c) # k
      BY <2>5 DEF Current
    <3>2. circuit' = circuit \/ ~Clean(c)'
      BY <1>1, <2>5 DEF Clean
    <3>. QED
      BY <1>1, <2>1, <2>2, <2>4, <3>1, <3>2, RunUnmoved DEF clientVars
  <2>6. CASE k[1] = c /\ phase[c] = "waiting" /\ act[Current(c)] # "teardown"
    <3>1. k = Current(c)
      <4>1. k = <<k[1], k[2]>> /\ k[2] \in Nat /\ ncalls[c] \in Nat
        BY CallShape DEF IInv, TypeOK
      <4>2. k[2] <= ncalls[c]
        BY <1>2, <2>6, <4>1 DEF IInv, CallsInOrder
      <4>3. ~(k[2] < ncalls[c])
        BY <1>2, <2>1, <2>6 DEF Alone
      <4>. QED
        BY <2>6, <4>1, <4>2, <4>3 DEF Current
    <3>. QED
      BY <2>2, <2>3, <2>6, <3>1, CurrentHandler
  <2>7. CASE k[1] = c /\ phase[c] = "ready"
    <3>1. k[2] \in Nat /\ ncalls[c] \in Nat
      BY CallShape DEF IInv, TypeOK
    <3>2. k[2] <= ncalls[c]
      BY <1>2, <2>7, <3>1 DEF IInv, CallsInOrder
    <3>3. pc[k] = "ok"
      BY <2>1, <2>7, <3>1, <3>2 DEF Alone
    <3>. QED
      BY <1>2, <3>3
  <2>8. CASE k[1] = c /\ phase[c] = "new"
    <3>1. k[2] \in Nat \ {0} /\ ncalls[c] = 0
      BY CallShape, <2>8 DEF IInv, CallsInOrder
    <3>. QED
      BY <1>2, <2>8, <3>1 DEF IInv, CallsInOrder
  <2>9. CASE phase[c] \in {"failing", "done"} \/ (phase[c] = "waiting" /\ act[Current(c)] = "teardown")
    BY <1>1, <2>2, <2>3, <2>9 DEF Follows, Doing, Current, clientVars
  <2>. QED
    BY <2>5, <2>6, <2>7, <2>8, <2>9 DEF IInv, TypeOK, Phase
<1>. QED
  BY <1>3, StageShape DEF ReadInv

-----------------------------------------------------------------------------
(* The steps of a run.                                                     *)

\* A run issues its next command when every earlier one was answered; the
\* commands of the others stay.
LEMMA IssueAlone ==
    ASSUME IInv, ReadInv, NEW c \in Client, NEW a \in Action, NEW b \in Batch, Issue(c, a, b),
           phase[c] \in {"new", "ready"} \/ a = "teardown"
    PROVE  /\ Alone(c)'
           /\ phase'[c] = "waiting" /\ pc'[Current(c)'] = "sent"
           /\ act'[Current(c)'] = a /\ arg'[Current(c)'] = b
<1>. DEFINE n == ncalls[c] + 1
            k == <<c, n>>
<1>1. /\ ncalls[c] \in Nat /\ n \in 1..Budget[c] /\ k \in Call
      /\ pc \in [Call -> Stage] /\ act \in [Call -> Action] /\ arg \in [Call -> Batch]
  <2>1. ncalls[c] \in Nat /\ n \in 1..Budget[c]
    BY DEF IInv, TypeOK, Issue
  <2>. QED
    BY <2>1, CallOf DEF IInv, TypeOK
<1>2. /\ phase'[c] = "waiting" /\ ncalls'[c] = n
      /\ pc' = [pc EXCEPT ![k] = "sent"] /\ act' = [act EXCEPT ![k] = a]
      /\ arg' = [arg EXCEPT ![k] = b]
  BY DEF Issue, IInv, TypeOK
<1>3. Current(c)' = k
  BY <1>2 DEF Current
<1>4. ASSUME NEW l \in Call, l[1] = c, l[2] < n, phase[c] \in {"new", "ready"}
      PROVE  pc'[l] = "ok"
  <2>1. l[2] \in Nat \ {0} /\ l[2] <= ncalls[c] /\ l # k
    BY <1>1, <1>4, CallShape
  <2>2. phase[c] = "ready"
    BY <1>1, <1>4, <2>1 DEF IInv, CallsInOrder
  <2>3. pc[l] = "ok"
    BY <1>1, <1>4, <2>1, <2>2 DEF ReadInv, Alone
  <2>. QED
    BY <1>1, <1>2, <2>1, <2>3
<1>5. Alone(c)'
  BY <1>1, <1>2, <1>3, <1>4 DEF Alone
<1>. QED
  BY <1>1, <1>2, <1>3, <1>5

\* What a run does leaves the others' commands as they are.
LEMMA OthersUnmoved ==
    ASSUME IInv, ReadInv, NEW c \in Client, RunStep(c) \/ Accept(c) \/ Timeout(c),
           NEW d \in Client, d # c
    PROVE  Follows(d)' /\ Good(d, cache[d])' /\ Alone(d)' /\ Buffered(d)'
<1>1. /\ phase'[d] = phase[d] /\ ncalls'[d] = ncalls[d] /\ flushed'[d] = flushed[d]
      /\ cache'[d] = cache[d] /\ pending'[d] = pending[d] /\ batch'[d] = batch[d]
      /\ circuit' = circuit
  BY DEF RunStep, Open, Update, Solve, Read, Reset, Close, Accept, Timeout, Abort, Resume, Issue,
         IInv, TypeOK
<1>2. ASSUME NEW l \in Call, l[1] = d
      PROVE  pc'[l] = pc[l] /\ act'[l] = act[l] /\ arg'[l] = arg[l] /\ seen'[l] = seen[l]
  <2>1. l # <<c, ncalls[c] + 1>> /\ l # Current(c)
    BY <1>2 DEF Current
  <2>. QED
    BY <2>1 DEF RunStep, Open, Update, Solve, Read, Reset, Close, Accept, Timeout, Issue,
         IInv, TypeOK, callVars
<1>3. phase[d] = "waiting" => Current(d) \in Call /\ Current(d)[1] = d
  BY CurrentCall DEF IInv, Current
<1>4. Follows(d) /\ Good(d, cache[d]) /\ Alone(d) /\ Buffered(d)
  BY DEF ReadInv
<1>5. Follows(d)' /\ Good(d, cache[d])' /\ Buffered(d)'
  BY <1>1, <1>2, <1>3, <1>4, RunUnmoved
<1>6. Current(d)' = Current(d)
  BY <1>1 DEF Current
<1>7. Alone(d)'
  BY <1>1, <1>2, <1>3, <1>4, <1>6 DEF Alone
<1>. QED
  BY <1>5, <1>7

\* A command that is issued has reached no stage of a handler.
LEMMA KindsStay ==
    ASSUME IInv, ReadInv, NEW c \in Client, RunStep(c) \/ Accept(c) \/ Timeout(c)
    PROVE  KindOfStage'
<1>1. CASE UNCHANGED <<act, pc>>
  BY <1>1 DEF ReadInv, KindOfStage
<1>2. CASE \E a \in Action \ {"none"}, b \in Batch : Issue(c, a, b)
  BY <1>2 DEF ReadInv, KindOfStage, Issue, IInv, TypeOK
<1>. QED
  BY <1>1, <1>2, RunShape

LEMMA RunReads ==
    ASSUME IInv, ReadInv, NEW c \in Client, RunStep(c) \/ Accept(c) \/ Timeout(c)
    PROVE  Follows(c)' /\ Good(c, cache[c])' /\ Alone(c)' /\ Buffered(c)'
<1>1. Follows(c) /\ Good(c, cache[c]) /\ Alone(c) /\ Buffered(c)
  BY DEF ReadInv
<1>2a. batch[c] \in Nat /\ 0 \in Batch /\ batch[c] \in Batch
  <2>1. batch[c] \in Batch
    BY DEF IInv, TypeOK
  <2>. QED
    BY <2>1 DEF Batch
<1>2. /\ batch[c] \in Nat /\ 0 \in Batch /\ batch[c] \in Batch
      /\ phase \in [Client -> Phase] /\ pending \in [Client -> BOOLEAN]
      /\ batch \in [Client -> Batch] /\ flushed \in [Client -> Batch]
      /\ cache \in [Client -> Reading]
  BY <1>2a DEF IInv, TypeOK
<1>3. {"build", "solve", "read", "reset", "teardown"} \subseteq Action
  BY DEF Action
<1>4. \A r : r = NoReading => Good(c, r)' /\ Good(c, r)
  BY DEF Good, NoReading, NoSnap
<1>5. CASE Open(c)
  <2>1. /\ Issue(c, "build", 0) /\ phase[c] = "new" /\ circuit' = circuit
        /\ UNCHANGED <<batch, pending, flushed, cache>>
    BY <1>5 DEF Open
  <2>2. Alone(c)' /\ phase'[c] = "waiting" /\ act'[Current(c)'] = "build"
    BY <1>2, <1>3, <2>1, IssueAlone
  <2>. QED
    BY <1>1, <2>1, <2>2 DEF Follows, Doing, Holds, Clean, Good, Buffered
<1>6. CASE Update(c)
  <2>1. /\ phase[c] = "ready" /\ UNCHANGED <<phase, ncalls, flushed, cache, callVars, circuit>>
        /\ batch'[c] = batch[c] + 1
    BY <1>2, <1>6 DEF Update
  <2>. QED
    BY <1>1, <1>2, <2>1 DEF Follows, Doing, Holds, Clean, Good, Buffered, Alone, Current, callVars
<1>7. CASE Solve(c)
  <2>. DEFINE b == IF pending[c] THEN batch[c] ELSE 0
  <2>1. /\ Issue(c, "solve", b) /\ phase[c] = "ready" /\ circuit' = circuit
        /\ flushed'[c] = (IF pending[c] THEN batch[c] ELSE flushed[c])
        /\ cache'[c] = NoReading /\ ~pending'[c] /\ b \in Batch
    BY <1>2, <1>7 DEF Solve
  <2>2. /\ Alone(c)' /\ phase'[c] = "waiting" /\ pc'[Current(c)'] = "sent"
        /\ act'[Current(c)'] = "solve" /\ arg'[Current(c)'] = b
    BY <1>3, <2>1, IssueAlone
  <2>3. Clean(c) => circuit.set = flushed[c]
    BY <1>1, <2>1 DEF Follows, Holds
  <2>4. Clean(c)' => flushed'[c] = IF b = 0 THEN circuit.set ELSE b
    BY <1>1, <2>1, <2>3 DEF Buffered, Clean
  <2>5. Follows(c)'
    BY <2>1, <2>2, <2>4 DEF Follows, Doing
  <2>. QED
    BY <1>4, <2>1, <2>2, <2>5 DEF Buffered
<1>8. CASE Read(c)
  <2>1. /\ Issue(c, "read", 0) /\ phase[c] = "ready" /\ circuit' = circuit
        /\ UNCHANGED <<batch, pending, flushed, cache>>
    BY <1>8 DEF Read
  <2>2. /\ Alone(c)' /\ phase'[c] = "waiting" /\ pc'[Current(c)'] = "sent"
        /\ act'[Current(c)'] = "read"
    BY <1>2, <1>3, <2>1, IssueAlone
  <2>. QED
    BY <1>1, <2>1, <2>2 DEF Follows, Doing, Holds, Clean, Good, Buffered
<1>9. CASE Reset(c)
  <2>1. /\ Issue(c, "reset", 0) /\ phase[c] = "ready"
        /\ flushed'[c] = 0 /\ cache'[c] = NoReading /\ ~pending'[c]
    BY <1>2, <1>9 DEF Reset
  <2>2. /\ Alone(c)' /\ phase'[c] = "waiting" /\ pc'[Current(c)'] = "sent"
        /\ act'[Current(c)'] = "reset"
    BY <1>2, <1>3, <2>1, IssueAlone
  <2>. QED
    BY <1>4, <2>1, <2>2 DEF Follows, Doing, Buffered
<1>10. CASE Close(c)
  <2>1. Issue(c, "teardown", 0) /\ cache'[c] = NoReading /\ ~pending'[c]
    BY <1>2, <1>10 DEF Close
  <2>2. Alone(c)' /\ phase'[c] = "waiting" /\ act'[Current(c)'] = "teardown"
    BY <1>2, <1>3, <2>1, IssueAlone
  <2>. QED
    BY <1>4, <2>1, <2>2 DEF Follows, Doing, Buffered
<1>11. CASE phase[c] = "waiting" /\ Abort(c) /\ UNCHANGED <<ncalls, batch, pending, flushed, act, arg, pc, circuit>>
  <2>1. phase'[c] \in {"done", "failing"} /\ cache' = cache
    BY <1>2, <1>11 DEF Abort
  <2>. QED
    BY <1>1, <1>11, <2>1 DEF Follows, Doing, Good, Buffered, Alone
<1>12. CASE /\ phase[c] = "waiting" /\ pc[Current(c)] = "ok" /\ Resume(c)
            /\ UNCHANGED <<ncalls, batch, pending, flushed, act, arg, pc, circuit>>
  <2>1. /\ phase'[c] = IF act[Current(c)] = "teardown" THEN "done" ELSE "ready"
        /\ cache'[c] = IF act[Current(c)] = "read" THEN seen[Current(c)] ELSE cache[c]
    BY <1>2, <1>12 DEF Resume
  <2>2. Good(c, cache[c])'
    BY <1>1, <1>12, <2>1 DEF Follows, Doing, Good
  <2>3. CASE act[Current(c)] = "teardown"
    BY <1>1, <1>12, <2>1, <2>2, <2>3 DEF Follows, Doing, Buffered, Alone
  <2>4. CASE act[Current(c)] # "teardown"
    <3>1. act[Current(c)] \in {"build", "solve", "read", "reset"}
      BY <1>12, <2>4, CurrentCall DEF IInv, TypeOK, Action
    <3>2. Holds(c, flushed[c])
      BY <1>1, <1>12, <3>1 DEF Follows, Doing
    <3>3. Follows(c)'
      BY <1>12, <2>1, <2>4, <3>2 DEF Follows, Doing, Holds, Clean
    <3>4. Alone(c)'
      <4>1. ASSUME NEW l \in Call, l[1] = c, l[2] < ncalls[c] \/ l[2] = ncalls[c]
            PROVE  pc[l] = "ok"
        <5>1. CASE l[2] < ncalls[c]
          BY <1>1, <1>12, <2>4, <4>1, <5>1 DEF Alone
        <5>2. CASE l[2] = ncalls[c]
          BY <1>12, <4>1, <5>2, CallShape DEF Current
        <5>. QED
          BY <4>1, <5>1, <5>2
      <4>. QED
        BY <1>12, <4>1 DEF Alone
    <3>. QED
      BY <1>1, <1>12, <2>2, <3>3, <3>4 DEF Buffered
  <2>. QED
    BY <2>3, <2>4
<1>. QED
  BY <1>5, <1>6, <1>7, <1>8, <1>9, <1>10, <1>11, <1>12 DEF RunStep, Accept, Timeout, serviceVars

LEMMA ReadsKept == IInv /\ ReadInv /\ [Next]_vars => ReadInv'
<1> SUFFICES ASSUME IInv, ReadInv, [Next]_vars
             PROVE  ReadInv'
  OBVIOUS
<1>1. CASE \E c \in Client : RunStep(c) \/ Accept(c) \/ Timeout(c)
  <2>1. PICK c \in Client : RunStep(c) \/ Accept(c) \/ Timeout(c)
    BY <1>1
  <2>2. \A d \in Client : Follows(d)' /\ Good(d, cache[d])' /\ Alone(d)' /\ Buffered(d)'
    BY <2>1, RunReads, OthersUnmoved
  <2>. QED
    BY <2>1, <2>2, KindsStay DEF ReadInv
<1>2. CASE \E k \in Call : Handler(k)
  BY <1>2, HandlerReads
<1>3. CASE UNCHANGED vars
  BY <1>3 DEF ReadInv, KindOfStage, Follows, Holds, Clean, Good, Alone, Buffered, Doing, Current,
              vars, clientVars, callVars
<1>. QED
  BY <1>1, <1>2, <1>3 DEF Next, Finished

(* A run works on the electrical state its last solve asked for: whatever  *)
(* the other runs, evictions, late handlers and resets do, a cached reading *)
(* of a circuit only it touched is never of an older batch.                *)
THEOREM CleanReadsAreExact == Spec => []CleanReadIsExact
<1>1. ReadInv => CleanReadIsExact
  BY DEF ReadInv, Good, CleanReadIsExact
<1>. QED
  BY <1>1, ReadsEstablished, ReadsKept, InvariantHolds, PTL DEF Spec

=============================================================================
