------------------------ MODULE SimulationEngine_proofs ------------------------
(***************************************************************************)
(* The engine's threads, for any number of them and any networks, files,   *)
(* studies and answers of the other services: sessions are released, what  *)
(* a save or delete was answered lasts, nothing unconnected is served, an  *)
(* import is the network its file describes, a listing has its default,    *)
(* the limits of a study worsen no row, and its report agrees with itself. *)
(***************************************************************************)
EXTENDS SimulationEngine, NetworkImport_proofs

USE RegistryAssumption, StoredAssumption

-----------------------------------------------------------------------------
(* The threads' jobs.                                                      *)

InStudy == StudySteps \ {"reporting"}
Changed == [at |-> "listing", default |-> Absent, changed |-> TRUE]

\* An upload that may be refused for how it is written, or was no import.
MisreadOne(of) == of # Absent => Misread(Cases[of[1]], of[2])

Shaped(j) ==
    /\ "at" \in DOMAIN j
    /\ j.at \in {"idle", "writing", "removing", "listing"} \union StudySteps
    /\ j.at = "writing" => {"content", "alone"} \subseteq DOMAIN j /\ j.content \in Stored
    /\ j.at = "removing" => j.id \in Files
    /\ j.at \in InStudy => {"given", "result", "session"} \subseteq DOMAIN j
    /\ j.at = "idle" /\ j.answer = "refused" => MisreadOne(j.of)

\* A study that holds its session, or ended with it released or cut off.
Released(j) ==
    /\ j.at = "idle" /\ j.answer \in {"study failed", "study answered"} /\ ~j.cut => ~j.session
    /\ j.at = "reporting" /\ ~j.cut => ~j.session
    /\ j.at \in InStudy \ {"opening"} => j.session

JobInv == DOMAIN job = Threads /\ \A t \in Threads : Shaped(job[t]) /\ Released(job[t])

\* A job of the registry, or none.
Plain(j) ==
    /\ "at" \in DOMAIN j
    /\ \/ j.at = "idle" /\ j.answer \in {"done", "listed"}
       \/ j.at = "idle" /\ j.answer = "refused" /\ MisreadOne(j.of)
       \/ j.at = "writing" /\ {"content", "alone"} \subseteq DOMAIN j /\ j.content \in Stored
       \/ j.at = "removing" /\ j.id \in Files
       \/ j.at = "listing"

LEMMA PlainIsFine == ASSUME NEW j, Plain(j) PROVE Shaped(j) /\ Released(j)
BY DEF Plain, Shaped, Released, InStudy, StudySteps

LEMMA IdleIsPlain ==
    Plain(Idle("done")) /\ (\A of : MisreadOne(of) => Plain(Refused(of))) /\ Plain(Changed)
BY DEF Plain, Idle, Refused, Changed

\* A change of the directory reaches the listings, and them alone.
LEMMA NoticedJobs ==
    ASSUME NEW threads
    PROVE  /\ DOMAIN Noticed(threads) = Threads
           /\ \A u \in Threads : Noticed(threads)[u] = IF threads[u].at = "listing" THEN Changed ELSE threads[u]
BY DEF Noticed, Changed

\* Steps that give every thread its old job or one of the registry's.
PlainlyMoved == \A u \in Threads : job'[u] = job[u] \/ Plain(job'[u])

LEMMA PlainSteps ==
    ASSUME JobInv, DOMAIN job' = Threads, \A u \in Threads : job'[u] = job[u] \/ Plain(job'[u])
    PROVE  JobInv' /\ PlainlyMoved
BY PlainIsFine DEF JobInv, PlainlyMoved

LEMMA StoredContent ==
    ASSUME NEW c, c.verdict = "ok", c \in Saves \/ \E import \in Imports : c = import.content
    PROVE  c \in Stored
BY DEF Stored

\* The threads after t opened the file for an accepted upload.
Joined(t, c) ==
    /\ DOMAIN job' = Threads
    /\ job'[t] = [at |-> "writing", content |-> c, alone |-> WritersOf(c.def.id) = {}]
    /\ \A u \in WritersOf(c.def.id) \ {t} :
          /\ {"at", "content", "alone"} \subseteq DOMAIN job'[u]
          /\ job'[u].at = "writing" /\ job'[u].content = job[u].content /\ ~job'[u].alone
    /\ \A u \in Threads \ (WritersOf(c.def.id) \union {t}) :
          job'[u] = IF job[u].at = "listing" THEN Changed ELSE job[u]

LEMMA OpenJobs == ASSUME JobInv, NEW t \in Threads, NEW c \in Stored, Open(t, c) PROVE Joined(t, c)
<1>. DEFINE n == c.def.id
            w == [at |-> "writing", content |-> c, alone |-> WritersOf(n) = {}]
            told == [u \in Threads |-> IF u \in WritersOf(n) THEN [job[u] EXCEPT !.alone = FALSE] ELSE job[u]]
            threads == [told EXCEPT ![t] = w]
<1>1. c.verdict = "ok"
  BY DEF Stored
<1>2. /\ disk' = [disk EXCEPT ![n] = Opened] /\ promised' = [promised EXCEPT ![n] = Absent]
      /\ job' = Noticed(threads)
  BY <1>1 DEF Open
<1>3. threads[t] = w /\ \A u \in Threads \ {t} : threads[u] = told[u]
  OBVIOUS
<1>4. w.at = "writing"
  OBVIOUS
<1>. HIDE DEF threads, w
<1>5. job'[t] = w /\ DOMAIN job' = Threads
  BY <1>2, <1>3, <1>4, NoticedJobs
<1>6. ASSUME NEW u \in WritersOf(n) \ {t}
      PROVE  /\ {"at", "content", "alone"} \subseteq DOMAIN job'[u]
             /\ job'[u].at = "writing" /\ job'[u].content = job[u].content /\ ~job'[u].alone
  <2>1. u \in Threads /\ job[u].at = "writing" /\ {"at", "content", "alone"} \subseteq DOMAIN job[u]
    BY DEF WritersOf, JobInv, Shaped
  <2>2. threads[u] = [job[u] EXCEPT !.alone = FALSE]
    BY <1>3, <2>1
  <2>3. /\ DOMAIN threads[u] = DOMAIN job[u] /\ threads[u].at = job[u].at
        /\ threads[u].content = job[u].content /\ threads[u].alone = FALSE
    BY <2>1, <2>2, Zenon
  <2>4. job'[u] = threads[u]
    BY <1>2, <2>1, <2>3, NoticedJobs
  <2>. QED
    BY <2>1, <2>3, <2>4
<1>7. ASSUME NEW u \in Threads \ (WritersOf(n) \union {t})
      PROVE  job'[u] = IF job[u].at = "listing" THEN Changed ELSE job[u]
  <2>1. u \in Threads /\ u # t /\ u \notin WritersOf(n)
    OBVIOUS
  <2>2. told[u] = job[u]
    BY <2>1
  <2>3. threads[u] = job[u]
    BY <1>3, <2>1, <2>2
  <2>4. job'[u] = IF threads[u].at = "listing" THEN Changed ELSE threads[u]
    BY <1>2, <2>1, NoticedJobs
  <2>. QED
    BY <2>3, <2>4
<1>. QED
  BY <1>5, <1>6, <1>7 DEF w, Joined

\* An upload is refused for being no network; an import of one of the cases
\* is not, but for the files that are misread.
LEMMA SavesAreRefused == ASSUME NEW c \in Saves PROVE MisreadOne(c.of)
<1>1. PICK d \in Uploads : c = Whole(d, Absent)
  BY DEF Saves
<1>2. c.of = Absent
  BY <1>1 DEF Whole
<1>. QED
  BY <1>2 DEF MisreadOne

LEMMA ImportsAreRefused ==
    ASSUME NEW i \in Imports
    PROVE  /\ ~i.ok => MisreadOne(i.of)
           /\ i.ok /\ i.content.verdict # "ok" => MisreadOne(i.content.of)
           /\ i.ok => i.content.of = i.of
<1>1. PICK w \in Writings, n \in ImportIds : i = Import(w, n)
  BY DEF Imports
<1>2. Misread(Cases[w[1]], w[2]) \/ (i.ok /\ i.content.verdict = "ok")
  BY <1>1, ImportsComeOut
<1>3. i.of = w /\ (i.ok => \E def : i.content = Whole(def, w))
  BY <1>1 DEF Import
<1>4. i.ok => i.content.of = w
  <2>1. \A def : Whole(def, w).of = w
    BY DEF Whole
  <2>. QED
    BY <1>3, <2>1
<1>5. ~(i.ok /\ i.content.verdict = "ok") => MisreadOne(w)
  BY <1>2 DEF MisreadOne
<1>6. ~i.ok => MisreadOne(i.of)
  BY <1>3, <1>5
<1>7. i.ok /\ i.content.verdict # "ok" => MisreadOne(i.content.of)
  BY <1>4, <1>5
<1>. QED
  BY <1>3, <1>4, <1>6, <1>7

LEMMA OpenKeepsJobs ==
    ASSUME JobInv, NEW t \in Threads, NEW c, Open(t, c),
           c \in Saves \/ \E import \in Imports : import.ok /\ c = import.content
    PROVE  JobInv' /\ PlainlyMoved
<1>1. CASE c.verdict # "ok"
  <2>1. job' = [job EXCEPT ![t] = Refused(c.of)]
    BY <1>1 DEF Open
  <2>2. MisreadOne(c.of)
    BY <1>1, SavesAreRefused, ImportsAreRefused
  <2>. QED
    BY <2>1, <2>2, PlainSteps, IdleIsPlain DEF JobInv
<1>2. CASE c.verdict = "ok"
  <2>. DEFINE w == [at |-> "writing", content |-> c, alone |-> WritersOf(c.def.id) = {}]
  <2>1. c \in Stored
    BY <1>2, StoredContent
  <2>4. /\ DOMAIN job' = Threads /\ job'[t] = w
        /\ \A u \in WritersOf(c.def.id) \ {t} :
              /\ {"at", "content", "alone"} \subseteq DOMAIN job'[u]
              /\ job'[u].at = "writing" /\ job'[u].content = job[u].content /\ ~job'[u].alone
        /\ \A u \in Threads \ (WritersOf(c.def.id) \union {t}) :
              job'[u] = IF job[u].at = "listing" THEN Changed ELSE job[u]
    <3>1. Joined(t, c)
      BY <2>1, OpenJobs
    <3>. QED
      BY <3>1 DEF Joined
  <2>5. Plain(w)
    <3>1. DOMAIN w = {"at", "content", "alone"} /\ w.at = "writing" /\ w.content = c
      OBVIOUS
    <3>. QED
      BY <2>1, <3>1 DEF Plain
  <2>. HIDE DEF w
  <2>2. ASSUME NEW u \in Threads PROVE job'[u] = job[u] \/ Plain(job'[u])
    <3>1. CASE u = t
      BY <2>4, <2>5, <3>1
    <3>2. CASE u \in WritersOf(c.def.id) \ {t}
      <4>1. job[u].content \in Stored
        BY <3>2 DEF WritersOf, JobInv, Shaped
      <4>. QED
        BY <2>4, <3>2, <4>1 DEF Plain
    <3>3. CASE u \notin WritersOf(c.def.id) \union {t}
      BY <2>4, <3>3, IdleIsPlain
    <3>. QED
      BY <3>1, <3>2, <3>3
  <2>. QED
    BY <2>2, <2>4, PlainSteps
<1>. QED
  BY <1>1, <1>2

\* Thread t gets a plain job, and the listings notice it or do not.
LEMMA OneMoves ==
    ASSUME JobInv, NEW t \in Threads, NEW j, Plain(j),
           job' = [job EXCEPT ![t] = j] \/ job' = Noticed([job EXCEPT ![t] = j])
    PROVE  /\ JobInv' /\ PlainlyMoved /\ DOMAIN job' = Threads
           /\ job'[t] = IF job' = [job EXCEPT ![t] = j] THEN j ELSE IF j.at = "listing" THEN Changed ELSE j
           /\ \A u \in Threads \ {t} : job'[u] = job[u] \/ (job[u].at = "listing" /\ job'[u] = Changed)
<1>. DEFINE threads == [job EXCEPT ![t] = j]
<1>1. DOMAIN threads = Threads /\ threads[t] = j /\ \A u \in Threads \ {t} : threads[u] = job[u]
  BY DEF JobInv
<1>. HIDE DEF threads
<1>2. CASE job' = threads
  <2>1. \A u \in Threads : job'[u] = job[u] \/ Plain(job'[u])
    BY <1>1, <1>2
  <2>. QED
    BY <1>1, <1>2, <2>1, PlainSteps DEF threads
<1>3. CASE job' = Noticed(threads) /\ job' # threads
  <2>1. DOMAIN job' = Threads
    BY <1>3, NoticedJobs
  <2>2. \A u \in Threads : job'[u] = IF threads[u].at = "listing" THEN Changed ELSE threads[u]
    BY <1>3, NoticedJobs
  <2>3. \A u \in Threads : job'[u] = job[u] \/ Plain(job'[u])
    BY <1>1, <2>2, IdleIsPlain
  <2>. QED
    BY <1>1, <1>3, <2>1, <2>2, <2>3, PlainSteps DEF threads
<1>. QED
  BY <1>2, <1>3 DEF threads

LEMMA RegistryKeepsJobs == ASSUME JobInv, RegistryNext PROVE JobInv' /\ PlainlyMoved
<1>1. ASSUME NEW t \in Threads, NEW c \in Saves, SaveNetwork(t, c) PROVE JobInv' /\ PlainlyMoved
  BY <1>1, OpenKeepsJobs DEF SaveNetwork
<1>2. ASSUME NEW t \in Threads, NEW i \in Imports, ImportNetwork(t, i) PROVE JobInv' /\ PlainlyMoved
  <2>1. CASE i.ok
    BY <1>2, <2>1, OpenKeepsJobs DEF ImportNetwork
  <2>2. CASE ~i.ok
    <3>1. Plain(Refused(i.of))
      BY <2>2, ImportsAreRefused, IdleIsPlain
    <3>. QED
      BY <1>2, <2>2, <3>1, OneMoves DEF ImportNetwork
  <2>. QED
    BY <2>1, <2>2
<1>3. ASSUME NEW t \in Threads, NEW n \in Files, DeleteNetwork(t, n) PROVE JobInv' /\ PlainlyMoved
  <2>. DEFINE j == IF disk[n].there THEN [at |-> "removing", id |-> n] ELSE Idle("done")
  <2>1. Plain(j)
    BY IdleIsPlain DEF Plain
  <2>. QED
    BY <1>3, <2>1, OneMoves DEF DeleteNetwork
<1>4. ASSUME NEW t \in Threads, Flush(t) PROVE JobInv' /\ PlainlyMoved
  BY <1>4, OneMoves, IdleIsPlain DEF Flush
<1>5. ASSUME NEW t \in Threads, RemoveFile(t) PROVE JobInv' /\ PlainlyMoved
  BY <1>5, OneMoves, IdleIsPlain DEF RemoveFile
<1>6. ASSUME NEW t \in Threads, ListNetworks(t) PROVE JobInv' /\ PlainlyMoved
  <2>. DEFINE j == IF ScanRaises THEN Idle("done")
                   ELSE [at |-> "listing", default |-> DefaultOf(DOMAIN Scan), changed |-> FALSE]
  <2>1. Plain(j)
    BY IdleIsPlain DEF Plain
  <2>. QED
    BY <1>6, <2>1, OneMoves DEF ListNetworks
<1>7. ASSUME NEW t \in Threads, Listed(t) PROVE JobInv' /\ PlainlyMoved
  <2>. DEFINE j == IF ScanRaises \/ job[t].changed THEN Idle("done")
                   ELSE [at |-> "idle", answer |-> "listed", default |-> job[t].default, ids |-> DOMAIN Scan]
  <2>1. Plain(j)
    BY IdleIsPlain DEF Plain
  <2>2. job' = [job EXCEPT ![t] = j]
    BY <1>7 DEF Listed, JobInv
  <2>. QED
    BY <2>1, <2>2, OneMoves
<1>8. ASSUME NEW f \in DOMAIN DropIns, DropIn(f) PROVE JobInv' /\ PlainlyMoved
  <2>1. job' = Noticed(job)
    BY <1>8 DEF DropIn
  <2>. QED
    BY <2>1, NoticedJobs, PlainSteps, IdleIsPlain
<1>9. CASE Restart
  BY <1>9, PlainSteps, IdleIsPlain DEF Restart
<1>. QED
  BY <1>1, <1>2, <1>3, <1>4, <1>5, <1>6, <1>7, <1>8, <1>9 DEF RegistryNext

-----------------------------------------------------------------------------
(* Studies.                                                                *)

\* No listing, unless one that already knows of a change, and none answered.
Silent(j) == (j.at = "listing" => j.changed) /\ (j.at = "idle" => j.answer # "listed")

\* Steps that start no save and no listing: whoever writes was writing before.
NoNewWriter == \A u \in Threads : job'[u].at = "writing" => job'[u] = job[u]
NoNewListing == \A u \in Threads : job'[u] = job[u] \/ Silent(job'[u])
Fine(j) == Shaped(j) /\ Released(j) /\ j.at # "writing" /\ Silent(j)
StudyKept == JobInv' /\ NoNewWriter /\ NoNewListing

\* A step of the study in thread t, which gives it job j.
LEMMA StudyMoves ==
    ASSUME JobInv, NEW t \in Threads, NEW j, job' = [job EXCEPT ![t] = j], Fine(j)
    PROVE  StudyKept
<1>1. DOMAIN job' = Threads /\ job'[t] = j /\ \A u \in Threads \ {t} : job'[u] = job[u]
  BY DEF JobInv
<1>2. JobInv'
  BY <1>1 DEF JobInv, Fine
<1>3. NoNewWriter /\ NoNewListing
  BY <1>1 DEF Fine, NoNewWriter, NoNewListing
<1>. QED
  BY <1>2, <1>3 DEF StudyKept

\* A study that goes on to another of its steps keeps its session.
LEMMA GoesOn ==
    ASSUME NEW j, NEW k, Shaped(j), Released(j), j.at \in InStudy \ {"opening"},
           DOMAIN k = DOMAIN j, k.at \in InStudy \ {"opening"}, k.session = j.session
    PROVE  Fine(k)
BY DEF Fine, Shaped, Released, Silent, InStudy, StudySteps

LEMMA FailedIsFine ==
    ASSUME NEW session, NEW cut, ~cut => ~session
    PROVE  Fine(Failed(session, cut))
BY SMTT(30) DEF Failed, Fine, Shaped, Released, Silent, InStudy, StudySteps

\* [j EXCEPT !.at = step], and with another field.
LEMMA StepTo ==
    ASSUME NEW t \in Threads, JobInv, job[t].at \in InStudy \ {"opening"},
           NEW step \in InStudy \ {"opening"}
    PROVE  /\ Fine([job[t] EXCEPT !.at = step])
           /\ \A g : /\ Fine([job[t] EXCEPT !.at = step, !.given = g])
                     /\ Fine([job[t] EXCEPT !.at = step, !.result = g])
<1>. DEFINE j == job[t]
<1>1. Shaped(j) /\ Released(j) /\ j.at \in InStudy \ {"opening"} /\ {"at", "given", "result", "session"} \subseteq DOMAIN j
  BY DEF JobInv, Shaped
<1>. HIDE DEF j
<1>2. /\ DOMAIN [j EXCEPT !.at = step] = DOMAIN j
      /\ [j EXCEPT !.at = step].at = step /\ [j EXCEPT !.at = step].session = j.session
  BY <1>1, Zenon
<1>3. ASSUME NEW g
      PROVE  /\ DOMAIN [j EXCEPT !.at = step, !.given = g] = DOMAIN j
             /\ [j EXCEPT !.at = step, !.given = g].at = step
             /\ [j EXCEPT !.at = step, !.given = g].session = j.session
  BY <1>1, Zenon
<1>4. ASSUME NEW g
      PROVE  /\ DOMAIN [j EXCEPT !.at = step, !.result = g] = DOMAIN j
             /\ [j EXCEPT !.at = step, !.result = g].at = step
             /\ [j EXCEPT !.at = step, !.result = g].session = j.session
  BY <1>1, Zenon
<1>5. Fine([j EXCEPT !.at = step])
  BY <1>1, <1>2, GoesOn
<1>6. \A g : /\ Fine([j EXCEPT !.at = step, !.given = g])
             /\ Fine([j EXCEPT !.at = step, !.result = g])
  BY <1>1, <1>3, <1>4, GoesOn
<1>. QED
  BY <1>5, <1>6 DEF j

LEMMA ReceiveStep == ASSUME JobInv, NEW t \in Threads, NEW req, ReceiveStudy(t, req) PROVE StudyKept
<1>. DEFINE j == [at |-> "opening", req |-> req, brs |-> Transformers(Scan[req.network].def),
                  given |-> Absent, result |-> Absent, session |-> FALSE]
<1>1. Fine(j)
  BY DEF Fine, Shaped, Released, Silent, InStudy, StudySteps
<1>2. job' = [job EXCEPT ![t] = j] \/ job' = [job EXCEPT ![t] = Failed(FALSE, FALSE)]
  BY DEF ReceiveStudy
<1>. HIDE DEF j
<1>. QED
  BY <1>1, <1>2, FailedIsFine, StudyMoves

LEMMA OpenStep == ASSUME JobInv, NEW t \in Threads, OpenSession(t) PROVE StudyKept
<1>. DEFINE j == job[t]
            k == [job[t] EXCEPT !.at = "allocating", !.session = TRUE]
<1>1. Shaped(j) /\ j.at = "opening" /\ {"at", "given", "result", "session"} \subseteq DOMAIN j
  BY DEF JobInv, Shaped, OpenSession, InStudy, StudySteps
<1>2. DOMAIN k = DOMAIN j /\ k.at = "allocating" /\ k.session = TRUE
  BY <1>1, Zenon
<1>3. \/ job' = [job EXCEPT ![t] = k]
      \/ job' = [job EXCEPT ![t] = Failed(FALSE, FALSE)]
      \/ \E session \in BOOLEAN : job' = [job EXCEPT ![t] = Failed(session, TRUE)]
  BY DEF OpenSession
<1>. HIDE DEF k, j
<1>4. Fine(k)
  BY <1>1, <1>2 DEF Fine, Shaped, Released, Silent, InStudy, StudySteps
<1>. QED
  BY <1>3, <1>4, FailedIsFine, StudyMoves

LEMMA AllocateStep == ASSUME JobInv, NEW t \in Threads, Allocate(t) PROVE StudyKept
<1>1. job[t].at = "allocating" /\ job[t].at \in InStudy \ {"opening"}
  BY DEF Allocate, InStudy, StudySteps
<1>2. {"coordinating", "closing"} \subseteq InStudy \ {"opening"}
  BY DEF InStudy, StudySteps
<1>3. \/ \E step \in {"coordinating", "closing"} : job' = [job EXCEPT ![t] = [job[t] EXCEPT !.at = step]]
      \/ \E g \in Given : job' = [job EXCEPT ![t] = [job[t] EXCEPT !.at = "coordinating", !.given = g]]
  BY DEF Allocate, Moved, JobInv
<1>. QED
  BY <1>1, <1>2, <1>3, StepTo, StudyMoves

LEMMA CoordinateStep == ASSUME JobInv, NEW t \in Threads, Coordinate(t) PROVE StudyKept
<1>1. job[t].at \in InStudy \ {"opening"} /\ {"running", "closing"} \subseteq InStudy \ {"opening"}
  BY DEF Coordinate, InStudy, StudySteps
<1>2. \E step \in {"running", "closing"} :
         job' = [job EXCEPT ![t] = [job[t] EXCEPT !.at = step, !.given = Absent]]
  BY DEF Coordinate, JobInv
<1>. QED
  BY <1>1, <1>2, StepTo, StudyMoves

LEMMA RunStep == ASSUME JobInv, NEW t \in Threads, RunStudy(t) PROVE StudyKept
<1>1. job[t].at \in InStudy \ {"opening"} /\ {"stopping", "closing"} \subseteq InStudy \ {"opening"}
  BY DEF RunStudy, InStudy, StudySteps
<1>2. \E step \in {"stopping", "closing"} : \E result \in Results \union {Absent} :
         job' = [job EXCEPT ![t] = [job[t] EXCEPT !.at = step, !.result = result]]
  BY DEF RunStudy, JobInv
<1>. QED
  BY <1>1, <1>2, StepTo, StudyMoves

LEMMA StopStep == ASSUME JobInv, NEW t \in Threads, StopCoordinator(t) PROVE StudyKept
<1>1. job[t].at \in InStudy \ {"opening"} /\ "closing" \in InStudy \ {"opening"}
  BY DEF StopCoordinator, InStudy, StudySteps
<1>2. \/ job' = [job EXCEPT ![t] = [job[t] EXCEPT !.at = "closing"]]
      \/ job' = [job EXCEPT ![t] = Failed(job[t].session, TRUE)]
  BY DEF StopCoordinator, Moved, JobInv
<1>. QED
  BY <1>1, <1>2, StepTo, FailedIsFine, StudyMoves

LEMMA CloseStep == ASSUME JobInv, NEW t \in Threads, CloseSession(t) PROVE StudyKept
<1>. DEFINE Left(session, cut) ==
              IF job[t].result = Absent THEN Failed(session, cut)
              ELSE [at |-> "reporting", req |-> job[t].req, brs |-> job[t].brs, result |-> job[t].result,
                    session |-> session, cut |-> cut]
<1>1. job' = [job EXCEPT ![t] = Left(FALSE, FALSE)] \/ job' = [job EXCEPT ![t] = Left(job[t].session, TRUE)]
  BY DEF CloseSession
<1>2. ASSUME NEW session, NEW cut, ~cut => ~session
      PROVE  Fine(Left(session, cut))
  <2>. DEFINE j == [at |-> "reporting", req |-> job[t].req, brs |-> job[t].brs, result |-> job[t].result,
                    session |-> session, cut |-> cut]
  <2>1. Fine(j)
    BY <1>2 DEF Fine, Shaped, Released, Silent, InStudy, StudySteps
  <2>. HIDE DEF j
  <2>2. Left(session, cut) = Failed(session, cut) \/ Left(session, cut) = j
    BY DEF j
  <2>. QED
    BY <1>2, <2>1, <2>2, FailedIsFine
<1>. HIDE DEF Left
<1>3. /\ Fine(Left(FALSE, FALSE))
      /\ Fine(Left(job[t].session, TRUE))
  BY <1>2
<1>. QED
  BY <1>1, <1>3, StudyMoves

LEMMA AnswerStep == ASSUME JobInv, NEW t \in Threads, Answer(t) PROVE StudyKept
<1>. DEFINE s == job[t]
            j == [at |-> "idle", answer |-> "study answered", session |-> s.session, cut |-> s.cut,
                  result |-> s.result, tariff |-> s.req.tariff, expected |-> s.req.profile.expected,
                  brs |-> s.brs, series |-> Series(s.result),
                  report |-> Report(s.result, Tariffs[s.req.tariff], s.req.profile.expected, s.brs)]
<1>1. ~s.cut => ~s.session
  BY DEF Answer, JobInv, Released
<1>2. job' = [job EXCEPT ![t] = Failed(s.session, s.cut)] \/ job' = [job EXCEPT ![t] = j]
  BY DEF Answer
<1>3. Fine(j)
  BY <1>1 DEF Fine, Shaped, Released, Silent, InStudy, StudySteps
<1>. HIDE DEF j, s
<1>. QED
  BY <1>1, <1>2, <1>3, FailedIsFine, StudyMoves

LEMMA JobsEstablished == RegistryInit => JobInv
BY IdleIsPlain, PlainIsFine DEF RegistryInit, JobInv

LEMMA JobsKept == JobInv /\ [Next]_registryVars => JobInv'
<1>1. CASE UNCHANGED registryVars
  BY <1>1 DEF JobInv, registryVars
<1>. QED
  BY <1>1, RegistryKeepsJobs, ReceiveStep, OpenStep, AllocateStep, CoordinateStep, RunStep, StopStep,
     CloseStep, AnswerStep DEF Next, StudyKept

LEMMA JobsHold == Spec => []JobInv
BY JobsEstablished, JobsKept, PTL DEF Spec

(* However many studies run beside the registry's commands, and wherever   *)
(* one ends, the solver holds no session of it afterwards, but for a lost  *)
(* message or a stop that could not be published.                          *)
THEOREM StudiesReleaseTheirSession == Spec => []SessionReleased
<1>1. JobInv => SessionReleased
  BY DEF JobInv, Released, SessionReleased, InStudy
<1>. QED
  BY <1>1, JobsHold, PTL

-----------------------------------------------------------------------------
(* The directory.                                                          *)

\* A promise is the state of the network's own file, and files in the place
\* of a network carry its id.
FileOk(n) ==
    /\ disk[n].whole => disk[n].def.id = n
    /\ promised[n] = Gone => ~disk[n].whole
    /\ promised[n] \notin {Gone, Absent} =>
          disk[n].whole /\ disk[n].verdict = "ok" /\ disk[n].def = promised[n]

\* While a file is open nothing is promised of it; the file of one that has
\* been alone at it is empty, and has no other writer.
WriterOk(t) ==
    job[t].at = "writing" =>
       /\ promised[job[t].content.def.id] = Absent
       /\ job[t].alone => /\ disk[job[t].content.def.id] = Opened
                          /\ \A u \in WritersOf(job[t].content.def.id) : u = t

DiskInv ==
    /\ DOMAIN disk = Files /\ DOMAIN promised = Slugs
    /\ \A f \in Files \ (Slugs \union DOMAIN DropIns) : ~disk[f].whole
    /\ \A n \in Slugs : FileOk(n)
    /\ \A t \in Threads : WriterOk(t)

LEMMA OpenedIsEmpty == Opened.size = 0 /\ ~Opened.whole /\ ~NoContent.whole
BY DEF Opened, NoContent

\* A writer whose file is left alone stays as it is.
LEMMA WriterKept ==
    ASSUME NoNewWriter, NEW u \in Threads, WriterOk(u),
           disk'[job[u].content.def.id] = disk[job[u].content.def.id],
           promised'[job[u].content.def.id] = promised[job[u].content.def.id]
    PROVE  WriterOk(u)'
<1>. SUFFICES ASSUME job'[u].at = "writing" PROVE WriterOk(u)'
  BY DEF WriterOk
<1>1. job'[u] = job[u]
  BY DEF NoNewWriter
<1>2. \A v \in WritersOf(job[u].content.def.id)' : v \in WritersOf(job[u].content.def.id)
  BY <1>1 DEF NoNewWriter, WritersOf
<1>. QED
  BY <1>1, <1>2, Zenon DEF WriterOk

LEMMA DiskFrame ==
    ASSUME DiskInv, NoNewWriter, disk' = disk, promised' = promised
    PROVE  DiskInv'
<1>1. \A t \in Threads : WriterOk(t)'
  BY WriterKept DEF DiskInv
<1>. QED
  BY <1>1 DEF DiskInv, FileOk

\* A step on one network's file keeps everything about the others.
LEMMA OneFile ==
    ASSUME DiskInv, NEW n \in Slugs,
           DOMAIN disk' = Files, \A f \in Files \ {n} : disk'[f] = disk[f],
           DOMAIN promised' = Slugs, \A m \in Slugs \ {n} : promised'[m] = promised[m],
           FileOk(n)', \A t \in Threads : WriterOk(t)'
    PROVE  DiskInv'
<1>1. \A m \in Slugs : FileOk(m)'
  BY DEF DiskInv, FileOk
<1>2. \A f \in Files \ (Slugs \union DOMAIN DropIns) : ~disk'[f].whole
  BY DEF DiskInv
<1>. QED
  BY <1>1, <1>2 DEF DiskInv

LEMMA OpenKeepsDisk ==
    ASSUME JobInv, DiskInv, NEW t \in Threads, NEW c, Open(t, c), job[t].at = "idle",
           c \in Saves \/ \E import \in Imports : c = import.content
    PROVE  DiskInv'
<1>1. CASE c.verdict # "ok"
  <2>1. job' = [job EXCEPT ![t] = Refused(c.of)] /\ disk' = disk /\ promised' = promised
    BY <1>1 DEF Open
  <2>2. NoNewWriter
    BY <2>1 DEF NoNewWriter, JobInv, Refused
  <2>. QED
    BY <2>1, <2>2, DiskFrame
<1>2. CASE c.verdict = "ok"
  <2>. DEFINE n == c.def.id
              w == [at |-> "writing", content |-> c, alone |-> WritersOf(n) = {}]
  <2>1. c \in Stored /\ n \in Slugs
    BY <1>2, StoredContent
  <2>0. disk' = [disk EXCEPT ![n] = Opened] /\ promised' = [promised EXCEPT ![n] = Absent]
    BY <1>2 DEF Open
  <2>2. /\ DOMAIN job' = Threads /\ job'[t] = w
        /\ \A u \in WritersOf(n) \ {t} :
              /\ {"at", "content", "alone"} \subseteq DOMAIN job'[u]
              /\ job'[u].at = "writing" /\ job'[u].content = job[u].content /\ ~job'[u].alone
        /\ \A u \in Threads \ (WritersOf(n) \union {t}) :
              job'[u] = IF job[u].at = "listing" THEN Changed ELSE job[u]
    <3>1. Joined(t, c)
      BY <2>1, OpenJobs
    <3>. QED
      BY <3>1 DEF Joined
  <2>3. w.at = "writing" /\ w.content = c /\ w.alone = (WritersOf(n) = {})
    OBVIOUS
  <2>. HIDE DEF w
  <2>4. /\ disk'[n] = Opened /\ promised'[n] = Absent
        /\ DOMAIN disk' = Files /\ \A f \in Files \ {n} : disk'[f] = disk[f]
        /\ DOMAIN promised' = Slugs /\ \A m \in Slugs \ {n} : promised'[m] = promised[m]
    BY <2>0, <2>1 DEF DiskInv
  <2>5. FileOk(n)'
    BY <2>4, OpenedIsEmpty DEF FileOk
  <2>6. Changed.at = "listing"
    BY DEF Changed
  <2>7. ASSUME NEW u \in Threads PROVE WriterOk(u)'
    <3>1. CASE u = t
      <4>1. ASSUME WritersOf(n) = {}, NEW v \in WritersOf(n)' PROVE v = t
        BY <4>1, <2>2, <2>6 DEF WritersOf
      <4>. QED
        BY <3>1, <2>2, <2>3, <2>4, <4>1 DEF WriterOk
    <3>2. CASE u \in WritersOf(n) \ {t}
      <4>1. job[u].content.def.id = n
        BY <3>2 DEF WritersOf
      <4>. QED
        BY <3>2, <2>2, <2>4, <4>1 DEF WriterOk
    <3>3. CASE u \notin WritersOf(n) \union {t}
      <4>1. job'[u].at = "writing" => job'[u] = job[u]
        BY <3>3, <2>2, <2>6
      <4>. SUFFICES ASSUME job'[u].at = "writing" PROVE WriterOk(u)'
        BY DEF WriterOk
      <4>. DEFINE m == job[u].content.def.id
      <4>2. job'[u] = job[u] /\ m \in Slugs /\ m # n
        BY <3>3, <4>1 DEF JobInv, Shaped, WritersOf
      <4>3. disk'[m] = disk[m] /\ promised'[m] = promised[m]
        BY <2>4, <4>2
      <4>4. ASSUME NEW v \in WritersOf(m)' PROVE v \in WritersOf(m)
        BY <4>2, <2>2, <2>3, <2>6 DEF WritersOf
      <4>5. WriterOk(u)
        BY DEF DiskInv
      <4>. QED
        BY <4>2, <4>3, <4>4, <4>5 DEF WriterOk
    <3>. QED
      BY <3>1, <3>2, <3>3
  <2>. QED
    BY <2>1, <2>4, <2>5, <2>7, OneFile
<1>. QED
  BY <1>1, <1>2

\* Thread t leaves its job for one that is no save.
LEMMA Leaves ==
    ASSUME JobInv, NEW t \in Threads, NEW j, Plain(j), j.at # "writing",
           job' = [job EXCEPT ![t] = j] \/ job' = Noticed([job EXCEPT ![t] = j])
    PROVE  NoNewWriter /\ job'[t].at # "writing"
BY OneMoves DEF NoNewWriter, Changed

LEMMA FlushKeepsDisk == ASSUME JobInv, DiskInv, NEW t \in Threads, Flush(t) PROVE DiskInv'
<1>1. PICK c, n : c = job[t].content /\ n = c.def.id
  OBVIOUS
<1>. DEFINE torn == disk[n].size > c.size
            content == IF torn THEN [Opened EXCEPT !.size = disk[n].size] ELSE c
<1>2. job[t].at = "writing" /\ c \in Stored /\ n \in Slugs
  BY <1>1 DEF Flush, JobInv, Shaped
<1>3. c.verdict = "ok" /\ c.whole /\ c.size \in Nat /\ c.def \notin {Gone, Absent}
  BY <1>2 DEF Stored
<1>4. promised[n] = Absent /\ (job[t].alone => disk[n] = Opened /\ \A u \in WritersOf(n) : u = t)
  BY <1>1, <1>2 DEF DiskInv, WriterOk
<1>5. /\ disk' = [disk EXCEPT ![n] = content] /\ job' = Noticed([job EXCEPT ![t] = Idle("done")])
      /\ promised' = IF job[t].alone THEN [promised EXCEPT ![n] = c.def] ELSE promised
  BY <1>1 DEF Flush
<1>6. NoNewWriter /\ job'[t].at # "writing"
  BY <1>5, Leaves, IdleIsPlain DEF Idle
<1>7. (torn => ~content.whole) /\ (~torn => content = c)
  BY DEF Opened, NoContent
<1>8. job[t].alone => ~torn
  BY <1>3, <1>4, OpenedIsEmpty
<1>. HIDE DEF torn, content
<1>9. /\ disk'[n] = content
      /\ DOMAIN disk' = Files /\ \A f \in Files \ {n} : disk'[f] = disk[f]
      /\ DOMAIN promised' = Slugs /\ \A m \in Slugs \ {n} : promised'[m] = promised[m]
  BY <1>2, <1>5 DEF DiskInv
<1>10. (job[t].alone => promised'[n] = c.def) /\ (~job[t].alone => promised'[n] = Absent)
  BY <1>2, <1>4, <1>5 DEF DiskInv
<1>11. FileOk(n)'
  BY <1>1, <1>3, <1>7, <1>8, <1>9, <1>10 DEF FileOk
<1>12. ASSUME NEW u \in Threads PROVE WriterOk(u)'
  <2>. SUFFICES ASSUME job'[u].at = "writing" PROVE WriterOk(u)'
    BY DEF WriterOk
  <2>. DEFINE m == job[u].content.def.id
  <2>1. job'[u] = job[u] /\ u # t /\ m \in Slugs /\ WriterOk(u)
    BY <1>6 DEF NoNewWriter, JobInv, Shaped, DiskInv
  <2>2. CASE m # n
    BY <1>6, <1>9, <2>1, <2>2, WriterKept
  <2>3. CASE m = n
    <3>1. u \in WritersOf(n) /\ t \in WritersOf(n)
      BY <1>1, <1>2, <2>1, <2>3 DEF WritersOf
    <3>2. ~job[t].alone /\ ~job[u].alone
      BY <1>4, <2>1, <2>3, <3>1 DEF WriterOk
    <3>. QED
      BY <1>10, <2>1, <2>3, <3>2 DEF WriterOk
  <2>. QED
    BY <2>2, <2>3
<1>. QED
  BY <1>2, <1>9, <1>11, <1>12, OneFile

LEMMA RemoveKeepsDisk == ASSUME JobInv, DiskInv, NEW t \in Threads, RemoveFile(t) PROVE DiskInv'
<1>1. PICK n : n = job[t].id
  OBVIOUS
<1>. DEFINE removed == disk[n].there /\ WritersOf(n) = {}
<1>2. n \in Files
  BY <1>1 DEF RemoveFile, JobInv, Shaped
<1>3. NoNewWriter
  BY Leaves, IdleIsPlain DEF RemoveFile, Idle
<1>4. CASE ~removed
  BY <1>1, <1>3, <1>4, DiskFrame DEF RemoveFile
<1>5. CASE removed
  <2>1. disk' = [disk EXCEPT ![n] = NoContent]
    BY <1>1, <1>5 DEF RemoveFile
  <2>2. /\ disk'[n] = NoContent
        /\ DOMAIN disk' = Files /\ \A f \in Files \ {n} : disk'[f] = disk[f]
    BY <1>2, <2>1 DEF DiskInv
  <2>3. /\ DOMAIN promised' = Slugs /\ \A m \in Slugs \ {n} : promised'[m] = promised[m]
        /\ n \in Slugs => promised'[n] = Gone
    <3>1. CASE n \in Slugs
      <4>1. promised' = [promised EXCEPT ![n] = Gone]
        BY <1>1, <1>5, <3>1 DEF RemoveFile
      <4>. QED
        BY <3>1, <4>1 DEF DiskInv
    <3>2. CASE n \notin Slugs
      <4>1. promised' = promised
        BY <1>1, <1>5, <3>2 DEF RemoveFile
      <4>. QED
        BY <3>2, <4>1 DEF DiskInv
    <3>. QED
      BY <3>1, <3>2
  <2>4. \A m \in Slugs : FileOk(m)'
    <3>1. n \in Slugs => FileOk(n)'
      BY <2>2, <2>3, OpenedIsEmpty DEF FileOk
    <3>2. \A m \in Slugs \ {n} : FileOk(m)'
      BY <1>2, <2>2, <2>3, RegistryAssumption DEF DiskInv, FileOk
    <3>. QED
      BY <3>1, <3>2
  <2>5. ASSUME NEW u \in Threads PROVE WriterOk(u)'
    <3>. SUFFICES ASSUME job'[u].at = "writing" PROVE WriterOk(u)'
      BY DEF WriterOk
    <3>1. job'[u] = job[u] /\ job[u].content.def.id # n /\ job[u].content.def.id \in Slugs /\ WriterOk(u)
      BY <1>3, <1>5, StoredAssumption DEF NoNewWriter, JobInv, Shaped, DiskInv, WritersOf
    <3>2. job[u].content.def.id \in Files
      BY <3>1, RegistryAssumption
    <3>. QED
      BY <1>3, <2>2, <2>3, <3>1, <3>2, WriterKept
  <2>6. \A f \in Files \ (Slugs \union DOMAIN DropIns) : ~disk'[f].whole
    BY <2>2, OpenedIsEmpty DEF DiskInv
  <2>. QED
    BY <2>2, <2>3, <2>4, <2>5, <2>6 DEF DiskInv
<1>. QED
  BY <1>4, <1>5

LEMMA DropInKeepsDisk ==
    ASSUME JobInv, DiskInv, NEW f \in DOMAIN DropIns, DropIn(f) PROVE DiskInv'
<1>1. PICK content : disk' = [disk EXCEPT ![f] = content] /\ job' = Noticed(job) /\ promised' = promised
  BY DEF DropIn
<1>2. \A m \in Files \ {f} : disk'[m] = disk[m]
  BY <1>1 DEF DiskInv
<1>3. \A m \in Slugs : disk'[m] = disk[m]
  BY <1>2
<1>4. NoNewWriter
  BY <1>1, NoticedJobs DEF NoNewWriter, Changed
<1>5. ASSUME NEW u \in Threads PROVE WriterOk(u)'
  <2>1. CASE job[u].at = "writing"
    BY <1>1, <1>3, <1>4, <2>1, WriterKept DEF DiskInv, JobInv, Shaped
  <2>2. CASE job[u].at # "writing"
    BY <1>4, <2>2 DEF NoNewWriter, WriterOk
  <2>. QED
    BY <2>1, <2>2
<1>6. DOMAIN disk' = Files
  BY <1>1 DEF DiskInv
<1>7. \A m \in Slugs : FileOk(m)'
  BY <1>1, <1>3 DEF DiskInv, FileOk
<1>8. \A g \in Files \ (Slugs \union DOMAIN DropIns) : ~disk'[g].whole
  BY <1>2 DEF DiskInv
<1>. QED
  BY <1>1, <1>5, <1>6, <1>7, <1>8 DEF DiskInv

LEMMA RegistryKeepsDisk == ASSUME JobInv, DiskInv, RegistryNext PROVE DiskInv'
<1>1. ASSUME NEW t \in Threads, NEW c \in Saves, SaveNetwork(t, c) PROVE DiskInv'
  BY <1>1, OpenKeepsDisk DEF SaveNetwork
<1>2. ASSUME NEW t \in Threads, NEW i \in Imports, ImportNetwork(t, i) PROVE DiskInv'
  <2>1. CASE i.ok
    BY <1>2, <2>1, OpenKeepsDisk DEF ImportNetwork
  <2>2. CASE ~i.ok
    <3>0. Plain(Refused(i.of)) /\ Refused(i.of).at # "writing"
      BY <2>2, ImportsAreRefused, IdleIsPlain DEF Refused
    <3>1. NoNewWriter
      BY <1>2, <2>2, <3>0, Leaves DEF ImportNetwork
    <3>. QED
      BY <1>2, <2>2, <3>1, DiskFrame DEF ImportNetwork
  <2>. QED
    BY <2>1, <2>2
<1>3. ASSUME NEW t \in Threads, NEW n \in Files, DeleteNetwork(t, n) PROVE DiskInv'
  <2>. DEFINE j == IF disk[n].there THEN [at |-> "removing", id |-> n] ELSE Idle("done")
  <2>1. Plain(j) /\ j.at # "writing"
    BY IdleIsPlain DEF Plain, Idle
  <2>2. NoNewWriter
    BY <1>3, <2>1, Leaves DEF DeleteNetwork
  <2>. QED
    BY <1>3, <2>2, DiskFrame DEF DeleteNetwork
<1>4. ASSUME NEW t \in Threads, ListNetworks(t) PROVE DiskInv'
  <2>. DEFINE j == IF ScanRaises THEN Idle("done")
                   ELSE [at |-> "listing", default |-> DefaultOf(DOMAIN Scan), changed |-> FALSE]
  <2>1. Plain(j) /\ j.at # "writing"
    BY IdleIsPlain DEF Plain, Idle
  <2>2. NoNewWriter
    BY <1>4, <2>1, Leaves DEF ListNetworks
  <2>. QED
    BY <1>4, <2>2, DiskFrame DEF ListNetworks
<1>5. ASSUME NEW t \in Threads, Listed(t) PROVE DiskInv'
  <2>. DEFINE j == IF ScanRaises \/ job[t].changed THEN Idle("done")
                   ELSE [at |-> "idle", answer |-> "listed", default |-> job[t].default, ids |-> DOMAIN Scan]
  <2>1. Plain(j) /\ j.at # "writing"
    BY IdleIsPlain DEF Plain, Idle
  <2>2. job' = [job EXCEPT ![t] = j]
    BY <1>5 DEF Listed, JobInv
  <2>3. NoNewWriter
    BY <2>1, <2>2, Leaves
  <2>. QED
    BY <1>5, <2>3, DiskFrame DEF Listed
<1>6. CASE Restart
  BY <1>6, DiskFrame DEF Restart, NoNewWriter, Idle
<1>. QED
  BY <1>1, <1>2, <1>3, <1>4, <1>5, <1>6, FlushKeepsDisk, RemoveKeepsDisk, DropInKeepsDisk DEF RegistryNext

\* A study moves from step to step, or ends: it writes nothing.
LEMMA StudyWritesNothing ==
    ASSUME JobInv, NEW t \in Threads,
           \/ \E req \in Requests : ReceiveStudy(t, req)
           \/ OpenSession(t) \/ Allocate(t) \/ Coordinate(t) \/ RunStudy(t)
           \/ StopCoordinator(t) \/ CloseSession(t) \/ Answer(t)
    PROVE  StudyKept /\ disk' = disk /\ promised' = promised
<1>1. disk' = disk /\ promised' = promised
  BY DEF ReceiveStudy, OpenSession, Allocate, Coordinate, RunStudy, StopCoordinator, CloseSession, Answer
<1>. QED
  BY <1>1, ReceiveStep, OpenStep, AllocateStep, CoordinateStep, RunStep, StopStep, CloseStep, AnswerStep

LEMMA DiskEstablished == RegistryInit => DiskInv
BY OpenedIsEmpty DEF RegistryInit, DiskInv, FileOk, WriterOk, Idle

LEMMA DiskKept == JobInv /\ DiskInv /\ [Next]_registryVars => DiskInv'
<1>1. CASE UNCHANGED registryVars
  BY <1>1, DiskFrame DEF registryVars, NoNewWriter
<1>. QED
  BY <1>1, RegistryKeepsDisk, StudyWritesNothing, DiskFrame DEF Next, StudyKept

\* The files a scan takes a network from: its own, or one dropped in.
LEMMA Served ==
    ASSUME DiskInv, NEW i \in DOMAIN FileOrder, Readable(i), NEW n \in Slugs,
           disk[FileOrder[i]].def.id = n
    PROVE  FileOrder[i] = n \/ Dropped(FileOrder[i], n)
<1>1. FileOrder[i] \in Files
  BY DEF Files
<1>. QED
  BY <1>1 DEF Readable, DiskInv, FileOk, Dropped

LEMMA DiskAnswers == DiskInv => DiskAnswersLast
<1>. SUFFICES ASSUME DiskInv, NEW n \in Slugs
              PROVE  /\ (promised[n] = Gone /\ \A f \in Files : ~Dropped(f, n)) => n \notin DOMAIN Scan
                     /\ (/\ promised[n] \notin {Gone, Absent} /\ ~ScanRaises
                         /\ \A f \in Files : ~(Dropped(f, n) /\ Later(f, n))) =>
                           n \in DOMAIN Scan /\ Scan[n].def = promised[n]
  BY DEF DiskAnswersLast
<1>. DEFINE R == {i \in DOMAIN FileOrder : Readable(i)}
            id(i) == disk[FileOrder[i]].def.id
<1>0. ~ScanRaises => Scan = Latest(R)
  BY DEF Scan
<1>1. ~ScanRaises => DOMAIN Scan = {id(i) : i \in R}
  BY <1>0 DEF Latest
<1>2. FileOk(n)
  BY DEF DiskInv
<1>3. \A i \in DOMAIN FileOrder : FileOrder[i] \in Files
  BY DEF Files
<1>4. ASSUME promised[n] = Gone, \A f \in Files : ~Dropped(f, n), n \in DOMAIN Scan PROVE FALSE
  <2>0. ~ScanRaises
    BY <1>4 DEF Scan
  <2>1. PICK i \in R : id(i) = n
    BY <1>1, <1>4, <2>0
  <2>2. FileOrder[i] = n
    BY <1>3, <1>4, <2>1, Served
  <2>. QED
    BY <1>2, <1>4, <2>1, <2>2 DEF Readable, FileOk
<1>5. ASSUME promised[n] \notin {Gone, Absent}, ~ScanRaises, \A f \in Files : ~(Dropped(f, n) /\ Later(f, n))
      PROVE  n \in DOMAIN Scan /\ Scan[n].def = promised[n]
  <2>1. disk[n].whole /\ disk[n].verdict = "ok" /\ disk[n].def = promised[n] /\ disk[n].def.id = n
    BY <1>2, <1>5 DEF FileOk
  <2>2. PICK k \in DOMAIN FileOrder : FileOrder[k] = n
    BY DEF Files, ToSet
  <2>3. k \in R /\ id(k) = n
    BY <2>1, <2>2 DEF Readable
  <2>4. ASSUME NEW j \in R, id(j) = n PROVE j <= k
    <3>1. FileOrder[j] = n \/ Dropped(FileOrder[j], n)
      BY <2>4, Served
    <3>2. FileOrder[j] = n => j = k
      BY <2>2
    <3>3. Dropped(FileOrder[j], n) => ~(k < j)
      BY <1>3, <1>5, <2>2 DEF Later
    <3>4. j \in Nat /\ k \in Nat
      OBVIOUS
    <3>. QED
      BY <3>1, <3>2, <3>3, <3>4
  <2>. DEFINE last == CHOOSE i \in R : id(i) = n /\ \A j \in R : id(j) = n => j <= i
  <2>5. last \in R /\ id(last) = n /\ \A j \in R : id(j) = n => j <= last
    <3>1. \E i \in R : id(i) = n /\ \A j \in R : id(j) = n => j <= i
      BY <2>3, <2>4
    <3>. HIDE DEF id, R
    <3>. QED
      BY <3>1
  <2>6. last = k
    <3>1. last <= k /\ k <= last
      BY <2>3, <2>4, <2>5
    <3>2. last \in Nat /\ k \in Nat
      BY <2>5
    <3>. HIDE DEF last
    <3>. QED
      BY <3>1, <3>2
  <2>7. n \in DOMAIN Scan
    BY <1>1, <1>5, <2>3
  <2>8. Scan[n] = disk[FileOrder[last]]
    <3>1. n \in {id(i) : i \in R}
      BY Zenon, <2>3
    <3>2. Latest(R) = [m \in {id(i) : i \in R} |->
                         disk[FileOrder[CHOOSE i \in R : id(i) = m /\ \A j \in R : id(j) = m => j <= i]]]
      BY Zenon DEF Latest
    <3>3. Latest(R)[n] = disk[FileOrder[last]]
      <4>. HIDE DEF id, R
      <4>. QED  BY Zenon, <3>1, <3>2
    <3>4. Scan = Latest(R)
      BY Zenon, <1>0, <1>5
    <3>. QED  BY Zenon, <3>3, <3>4
  <2>. QED
    BY <2>1, <2>2, <2>6, <2>7, <2>8
<1>. QED
  BY <1>4, <1>5

(* For any files, file names and threads: what a save or a delete was      *)
(* answered stays true of what scans serve, whatever other commands and    *)
(* restarts come between and whatever truncated or invalid file is dropped *)
(* in; but for the dropped-in files the property names, among them one     *)
(* whose words for numbers make every scan raise.                          *)
THEOREM AnswersLast == Spec => []DiskAnswersLast
<1>1. RegistryInit => JobInv /\ DiskInv
  BY JobsEstablished, DiskEstablished
<1>2. JobInv /\ DiskInv /\ [Next]_registryVars => (JobInv /\ DiskInv)'
  BY JobsKept, DiskKept
<1>3. Spec => [](JobInv /\ DiskInv)
  BY <1>1, <1>2, PTL DEF Spec
<1>. QED
  BY <1>3, DiskAnswers, PTL

-----------------------------------------------------------------------------
(* What scans serve and list.                                              *)

\* What the directory holds was validated as what it says,
\* and what was imported is what its file says.
AsFiled(c) ==
    c.of # Absent => Misread(Cases[c.of[1]], c.of[2]) \/ SaysIt(c.of[2], c.def, Cases[c.of[1]])
Checked(c) ==
    c.whole /\ c.verdict = "ok" => c.verdict = Verdict(c.def) /\ IsNetwork(c.def) /\ AsFiled(c)
ContentInv == DOMAIN disk = Files /\ \A f \in Files : Checked(disk[f])

LEMMA WholeIsChecked ==
    ASSUME NEW d, Verdict(d) = "ok" => IsNetwork(d)
    PROVE  Checked(Whole(d, Absent))
BY DEF Checked, Whole, AsFiled

LEMMA StoredIsChecked == ASSUME NEW c \in Stored PROVE Checked(c)
<1>1. c.verdict = "ok" /\ IsNetwork(c.def) /\ (c \in Saves \/ \E i \in Imports : c = i.content)
  BY ListAssumption DEF Stored
<1>2. ASSUME NEW d, NEW of, c = Whole(d, of) PROVE c.verdict = Verdict(c.def)
  BY <1>2 DEF Whole
<1>3. c = NoContent \/ \E d, of : c = Whole(d, of)
  <2>1. CASE c \in Saves
    BY <2>1 DEF Saves
  <2>2. CASE \E i \in Imports : c = i.content
    <3>1. PICK w, n : c = Import(w, n).content
      BY <2>2 DEF Imports
    <3>2. \E parsed : c = IF parsed.ok THEN Whole([parsed.net EXCEPT !.id = n], w) ELSE NoContent
      BY <3>1 DEF Import
    <3>. QED  BY <3>2
  <2>. QED  BY <1>1, <2>1, <2>2
<1>4. c # NoContent
  BY StoredAssumption, OpenedIsEmpty
<1>5. AsFiled(c)
  <2>1. CASE c \in Saves
    <3>1. \E d : c = Whole(d, Absent)
      BY <2>1 DEF Saves
    <3>2. c.of = Absent
      BY <3>1 DEF Whole
    <3>. QED
      BY <3>2 DEF AsFiled
  <2>2. ASSUME NEW i \in Imports, c = i.content PROVE AsFiled(c)
    <3>1. PICK w \in Writings, n \in ImportIds : i = Import(w, n)
      BY DEF Imports
    <3>2. c.of = w
      <4>1. i.ok \/ c = NoContent
        BY <2>2, <3>1 DEF Import
      <4>2. i.of = w
        BY <3>1 DEF Import
      <4>. QED
        BY <1>4, <2>2, <4>1, <4>2, ImportsAreRefused
    <3>3. Misread(Cases[w[1]], w[2]) \/ SaysIt(w[2], c.def, Cases[w[1]])
      BY <2>2, <3>1, ImportsComeOut
    <3>. QED
      BY <3>2, <3>3 DEF AsFiled
  <2>. QED  BY <1>1, <2>1, <2>2
<1>. QED  BY <1>1, <1>2, <1>3, <1>4, <1>5 DEF Checked

LEMMA DropIsChecked ==
    ASSUME NEW f \in DOMAIN DropIns, NEW c \in Drops(f)
    PROVE  Checked(c)
BY ListAssumption, WholeIsChecked, OpenedIsEmpty DEF Drops, Checked

LEMMA UnreadableIsChecked == \A c : ~c.whole => Checked(c)
BY DEF Checked

LEMMA ContentKept ==
    ASSUME JobInv, ContentInv, [Next]_registryVars
    PROVE  ContentInv'
<1>1. ASSUME NEW f \in Files, NEW c, Checked(c), disk' = [disk EXCEPT ![f] = c] PROVE ContentInv'
  BY <1>1 DEF ContentInv
<1>2. ASSUME disk' = disk PROVE ContentInv'
  BY <1>2 DEF ContentInv
<1>3. ASSUME NEW t \in Threads, NEW c, Open(t, c),
             c \in Saves \/ \E import \in Imports : c = import.content
      PROVE  ContentInv'
  <2>1. CASE c.verdict # "ok"
    BY <1>2, <1>3, <2>1 DEF Open
  <2>2. CASE c.verdict = "ok"
    <3>1. c \in Stored
      BY <1>3, <2>2, StoredContent
    <3>2. c.def.id \in Files /\ disk' = [disk EXCEPT ![c.def.id] = Opened]
      BY <1>3, <2>2, <3>1 DEF Open
    <3>3. Checked(Opened)
      BY OpenedIsEmpty, UnreadableIsChecked
    <3>. QED  BY <1>1, <3>2, <3>3
  <2>. QED  BY <2>1, <2>2
<1>4. ASSUME NEW t \in Threads, NEW c \in Saves, SaveNetwork(t, c) PROVE ContentInv'
  BY <1>3, <1>4 DEF SaveNetwork
<1>5. ASSUME NEW t \in Threads, NEW i \in Imports, ImportNetwork(t, i) PROVE ContentInv'
  BY <1>2, <1>3, <1>5 DEF ImportNetwork
<1>6. ASSUME NEW t \in Threads, Flush(t) PROVE ContentInv'
  <2> DEFINE c == job[t].content
             n == c.def.id
             torn == [Opened EXCEPT !.size = disk[n].size]
  <2>1. c \in Stored /\ n \in Files
    BY <1>6 DEF Flush, JobInv, Shaped
  <2>2. Checked(c)
    BY <2>1, StoredIsChecked
  <2>3. Checked(torn)
    <3>1. ~torn.whole
      BY DEF Opened, NoContent
    <3>. QED  BY <3>1, UnreadableIsChecked
  <2>4. disk' = [disk EXCEPT ![n] = torn] \/ disk' = [disk EXCEPT ![n] = c]
    BY <1>6 DEF Flush
  <2>. HIDE DEF torn, c, n
  <2>. QED  BY <1>1, <2>1, <2>2, <2>3, <2>4
<1>7. ASSUME NEW t \in Threads, RemoveFile(t) PROVE ContentInv'
  <2>1. job[t].id \in Files
    BY <1>7 DEF RemoveFile, JobInv, Shaped
  <2>2. disk' = [disk EXCEPT ![job[t].id] = NoContent] \/ disk' = disk
    BY <1>7 DEF RemoveFile
  <2>3. Checked(NoContent)
    BY OpenedIsEmpty, UnreadableIsChecked
  <2>. QED  BY <1>1, <1>2, <2>1, <2>2, <2>3
<1>8. ASSUME NEW f \in DOMAIN DropIns, DropIn(f) PROVE ContentInv'
  <2>1. PICK c \in Drops(f) : disk' = [disk EXCEPT ![f] = c]
    BY <1>8 DEF DropIn
  <2>2. Checked(c) /\ f \in Files
    BY DropIsChecked
  <2>. QED  BY <1>1, <2>1, <2>2
<1>9. ASSUME NEW t \in Threads, ListNetworks(t) \/ Listed(t) \/ \E n \in Files : DeleteNetwork(t, n)
      PROVE  ContentInv'
  BY <1>2, <1>9 DEF ListNetworks, Listed, DeleteNetwork
<1>10. CASE Restart
  BY <1>2, <1>10 DEF Restart
<1>11. CASE UNCHANGED registryVars
  BY <1>2, <1>11 DEF registryVars
<1>12. CASE RegistryNext
  BY <1>4, <1>5, <1>6, <1>7, <1>8, <1>9, <1>10, <1>12 DEF RegistryNext
<1>. QED  BY <1>2, <1>11, <1>12, StudyWritesNothing DEF Next

LEMMA ContentHolds == Spec => []ContentInv
<1>1. RegistryInit => ContentInv
  BY OpenedIsEmpty, UnreadableIsChecked DEF RegistryInit, ContentInv
<1>. QED  BY <1>1, ContentKept, JobsHold, PTL DEF Spec

\* A scan serves contents of readable files, by their own id.
LEMMA ScanServes ==
    ASSUME NEW n \in DOMAIN Scan
    PROVE  \E f \in Files : /\ Scan[n] = disk[f] /\ disk[f].def.id = n
                            /\ disk[f].whole /\ disk[f].verdict = "ok"
<1> DEFINE R == {i \in DOMAIN FileOrder : Readable(i)}
           id(i) == disk[FileOrder[i]].def.id
           Places == {i \in R : id(i) = n}
<1>0. Scan = Latest(R)
  BY DEF Scan
<1>1. DOMAIN Scan = {id(i) : i \in R}
  BY <1>0 DEF Latest
<1>2. DOMAIN FileOrder = 1..Len(FileOrder) /\ Len(FileOrder) \in Nat
  OBVIOUS
<1>3. IsFiniteSet(1..Len(FileOrder))
  BY <1>2, FS_Interval
<1>4. Places # {} /\ Places \in SUBSET Int /\ IsFiniteSet(Places)
  BY <1>1, <1>2, <1>3, FS_Subset
<1>5. Max(Places) \in Places /\ \A j \in Places : j <= Max(Places)
  <2>. HIDE DEF Places
  <2>. QED  BY <1>4, GreatestExists
<1> DEFINE last == CHOOSE i \in R : id(i) = n /\ \A j \in R : id(j) = n => j <= i
<1>6. last \in R /\ id(last) = n
  <2>1. \E i \in R : id(i) = n /\ \A j \in R : id(j) = n => j <= i
    BY <1>5
  <2>. HIDE DEF id, R
  <2>. QED  BY <2>1
<1>7. Scan[n] = disk[FileOrder[last]]
  BY <1>0, <1>1 DEF Latest
<1>. HIDE DEF last
<1>8. FileOrder[last] \in Files
  BY <1>6 DEF Files
<1>. QED  BY <1>6, <1>7, <1>8 DEF Readable

(* Whatever files are saved, imported, torn by a crash or dropped in, and  *)
(* whatever commands run side by side, no network that scans serve is one  *)
(* the solver cannot build.                                                *)
THEOREM ServedNetworksAreSound == Spec => []ServedIsSound
<1>1. ContentInv => ServedIsSound
  <2>. SUFFICES ASSUME ContentInv, NEW n \in DOMAIN Scan PROVE Sound(Scan[n].def)
    BY DEF ServedIsSound
  <2>1. PICK f \in Files : Scan[n] = disk[f] /\ disk[f].whole /\ disk[f].verdict = "ok"
    BY ScanServes
  <2>2. Verdict(disk[f].def) = "ok" /\ IsNetwork(disk[f].def)
    BY <2>1 DEF ContentInv, Checked
  <2>. QED  BY <2>1, <2>2, AcceptedIsSound
<1>. QED  BY <1>1, ContentHolds, PTL

(* For any networks the model can write: in each of the five formats and   *)
(* their dialects, as ImportCases writes them, and whatever other commands *)
(* and crashes come between, what was imported (importers.py) and is       *)
(* served is the network its file describes, and an import refused is one  *)
(* of the exceptions.  Excepted are the three readings of Misread: a RAWX  *)
(* load out of service, a v32/33 impedance written as 0, and a format the  *)
(* sniffing takes for another.                                             *)
THEOREM ImportsAreAsWritten == Spec => []ImportedAsWritten
<1>1. JobInv /\ ContentInv => ImportedAsWritten
  <2>. SUFFICES ASSUME JobInv, ContentInv PROVE ImportedAsWritten
    OBVIOUS
  <2>1. ASSUME NEW n \in DOMAIN Scan, Scan[n].of # Absent
        PROVE  LET case == Cases[Scan[n].of[1]]
                   way == Scan[n].of[2]
               IN \/ Misread(case, way)
                  \/ IF way.format = "dss" THEN SameUpToNumbers(Scan[n].def, Meaning(case))
                     ELSE Scan[n].def = [Meaning(case) EXCEPT !.id = n]
    <3>1. PICK f \in Files : /\ Scan[n] = disk[f] /\ disk[f].def.id = n
                             /\ disk[f].whole /\ disk[f].verdict = "ok"
      BY ScanServes
    <3>2. AsFiled(Scan[n])
      BY <3>1 DEF ContentInv, Checked
    <3>. QED
      BY <2>1, <3>1, <3>2 DEF AsFiled, SaysIt
  <2>2. ASSUME NEW t \in Threads, job[t].at = "idle", job[t].answer = "refused", job[t].of # Absent
        PROVE  Misread(Cases[job[t].of[1]], job[t].of[2])
    BY <2>2 DEF JobInv, Shaped, MisreadOne
  <2>. QED
    BY <2>1, <2>2 DEF ImportedAsWritten
<1>. QED  BY <1>1, JobsHold, ContentHolds, PTL

-----------------------------------------------------------------------------
(* The answers to list-networks.                                           *)

LEMMA ScannedIds == ASSUME ContentInv PROVE DOMAIN Scan \subseteq Slugs
<1>. SUFFICES ASSUME NEW n \in DOMAIN Scan PROVE n \in Slugs
  OBVIOUS
<1>1. PICK f \in Files : disk[f].def.id = n /\ disk[f].whole /\ disk[f].verdict = "ok"
  BY ScanServes
<1>2. Verdict(disk[f].def) = "ok" /\ IsNetwork(disk[f].def)
  BY <1>1 DEF ContentInv, Checked
<1>3. HeaderFault(disk[f].def) = "none"
  BY <1>2, AcceptedPasses
<1>. QED  BY <1>1, <1>3 DEF HeaderFault

IsDefault(default, ids) == IF ids = {} THEN default = Absent ELSE default \in ids

LEMMA DefaultIsMember ==
    ASSUME NEW ids \in SUBSET Slugs
    PROVE  IsDefault(DefaultOf(ids), ids)
<1> DEFINE listed == {i \in DOMAIN FileOrder : FileOrder[i] \in ids}
<1>1. DOMAIN FileOrder = 1..Len(FileOrder) /\ Len(FileOrder) \in Nat
  OBVIOUS
<1>2. CASE ids = {}
  BY <1>2 DEF DefaultOf, FirstOf, IsDefault
<1>3. CASE ids # {}
  <2>1. PICK n \in ids : TRUE
    BY <1>3
  <2>2. PICK i \in DOMAIN FileOrder : FileOrder[i] = n
    BY <2>1 DEF Files, ToSet
  <2>3. listed # {}
    BY <2>2
  <2>4. IsFiniteSet(1..Len(FileOrder))
    BY <1>1, FS_Interval
  <2>5. listed \in SUBSET Int /\ IsFiniteSet(listed)
    BY <1>1, <2>4, FS_Subset
  <2>6. Min(listed) \in listed
    <3>. HIDE DEF listed
    <3>. QED  BY <2>3, <2>5, LeastExists
  <2>7. FirstOf(ids) = FileOrder[Min(listed)]
    BY <2>3 DEF FirstOf
  <2>. QED  BY <1>3, <2>6, <2>7 DEF DefaultOf, IsDefault
<1>. QED  BY <1>2, <1>3

\* What a listing in progress or answered says.
Says(j) ==
    /\ j.at = "listing" /\ ~j.changed => j.default = DefaultOf(DOMAIN Scan)
    /\ j.at = "idle" /\ j.answer = "listed" => IsDefault(j.default, j.ids)
ListInv == \A t \in Threads : Says(job[t])

LEMMA SilentSays == ASSUME NEW j, Silent(j) PROVE Says(j)'
BY DEF Silent, Says

LEMMA SilentJobs ==
    /\ Silent(Idle("done")) /\ Silent(Changed) /\ \A x : Silent(Refused(x))
    /\ \A x, y : Silent(Failed(x, y))
BY DEF Silent, Idle, Changed, Refused, Failed

\* Steps after which every thread has its old job, over the same directory, or
\* one of which there is nothing to say.
LEMMA ListFrame ==
    ASSUME ListInv, \A u \in Threads : (disk' = disk /\ job'[u] = job[u]) \/ Silent(job'[u]) \/ Says(job[u])'
    PROVE  ListInv'
<1>. SUFFICES ASSUME NEW u \in Threads PROVE Says(job[u])'
  BY DEF ListInv
<1>1. CASE disk' = disk /\ job'[u] = job[u]
  <2>1. Scan' = Scan
    BY <1>1 DEF Scan, ScanRaises, Latest, Readable
  <2>2. Says(job[u])
    BY DEF ListInv
  <2>. QED  BY <1>1, <2>1, <2>2 DEF Says
<1>2. CASE Silent(job'[u])
  BY <1>2 DEF Silent, Says
<1>. QED  BY <1>1, <1>2

\* A change of the directory by thread t leaves no listing without a mark.
LEMMA NoticedList ==
    ASSUME JobInv, ListInv, NEW threads, job' = Noticed(threads),
           \A u \in Threads : Silent(threads[u]) \/ threads[u] = job[u]
    PROVE  ListInv'
<1>1. ASSUME NEW u \in Threads PROVE Silent(job'[u]) \/ Says(job[u])'
  <2>1. CASE threads[u].at = "listing"
    BY <2>1, NoticedJobs, SilentJobs
  <2>2. CASE threads[u].at # "listing" /\ Silent(threads[u])
    BY <2>2, NoticedJobs
  <2>3. CASE threads[u].at # "listing" /\ threads[u] = job[u]
    <3>1. job'[u] = job[u] /\ Says(job[u]) /\ job[u].at # "listing"
      BY <2>3, NoticedJobs DEF ListInv
    <3>. QED  BY <3>1 DEF Says
  <2>. QED  BY <2>1, <2>2, <2>3
<1>. QED  BY <1>1, ListFrame

LEMMA OneListed ==
    ASSUME JobInv, ListInv, NEW t \in Threads, NEW j, job' = [job EXCEPT ![t] = j], disk' = disk,
           Silent(j) \/ Says(job[t])'
    PROVE  ListInv'
<1>1. job'[t] = j /\ \A u \in Threads \ {t} : job'[u] = job[u]
  BY DEF JobInv
<1>. QED  BY <1>1, ListFrame

LEMMA ListKept ==
    ASSUME JobInv, ContentInv, ListInv, [Next]_registryVars
    PROVE  ListInv'
<1>1. ASSUME NEW t \in Threads, NEW c, Open(t, c),
             c \in Saves \/ \E import \in Imports : c = import.content
      PROVE  ListInv'
  <2>1. CASE c.verdict # "ok"
    BY <1>1, <2>1, OneListed, SilentJobs DEF Open
  <2>2. CASE c.verdict = "ok"
    <3>1. c \in Stored
      BY <1>1, <2>2, StoredContent
    <3>2. Joined(t, c)
      BY <1>1, <3>1, OpenJobs
    <3>3. ASSUME NEW u \in Threads PROVE Silent(job'[u]) \/ Says(job[u])'
      <4>1. CASE u \in WritersOf(c.def.id) \union {t}
        BY <3>2, <4>1 DEF Joined, Silent
      <4>2. CASE u \notin WritersOf(c.def.id) \union {t} /\ job[u].at = "listing"
        BY <3>2, <4>2, SilentJobs DEF Joined
      <4>3. CASE u \notin WritersOf(c.def.id) \union {t} /\ job[u].at # "listing"
        <5>1. job'[u] = job[u] /\ Says(job[u])
          BY <3>2, <4>3 DEF Joined, ListInv
        <5>. QED  BY <4>3, <5>1 DEF Says
      <4>. QED  BY <4>1, <4>2, <4>3
    <3>. QED  BY <3>3, ListFrame
  <2>. QED  BY <2>1, <2>2
<1>2. ASSUME NEW t \in Threads, NEW c \in Saves, SaveNetwork(t, c) PROVE ListInv'
  BY <1>1, <1>2 DEF SaveNetwork
<1>3. ASSUME NEW t \in Threads, NEW i \in Imports, ImportNetwork(t, i) PROVE ListInv'
  <2>1. CASE i.ok
    BY <1>1, <1>3, <2>1 DEF ImportNetwork
  <2>2. CASE ~i.ok
    BY <1>3, <2>2, OneListed, SilentJobs DEF ImportNetwork
  <2>. QED  BY <2>1, <2>2
<1>4. ASSUME NEW t \in Threads, NEW n \in Files, DeleteNetwork(t, n) PROVE ListInv'
  <2> DEFINE j == IF disk[n].there THEN [at |-> "removing", id |-> n] ELSE Idle("done")
  <2>1. Silent(j)
    BY SilentJobs DEF Silent
  <2>. QED  BY <1>4, <2>1, OneListed DEF DeleteNetwork
<1>5. ASSUME NEW t \in Threads, Flush(t) PROVE ListInv'
  <2>1. job' = Noticed([job EXCEPT ![t] = Idle("done")])
    BY <1>5 DEF Flush
  <2>2. \A u \in Threads : Silent([job EXCEPT ![t] = Idle("done")][u]) \/ [job EXCEPT ![t] = Idle("done")][u] = job[u]
    BY SilentJobs DEF JobInv
  <2>. QED  BY <2>1, <2>2, NoticedList
<1>6. ASSUME NEW t \in Threads, RemoveFile(t) PROVE ListInv'
  <2> DEFINE threads == [job EXCEPT ![t] = Idle("done")]
  <2>1. job' = Noticed(threads) \/ (job' = threads /\ disk' = disk)
    BY <1>6 DEF RemoveFile
  <2>2. \A u \in Threads : Silent(threads[u]) \/ threads[u] = job[u]
    BY SilentJobs DEF JobInv
  <2>3. CASE job' = Noticed(threads)
    <3>. HIDE DEF threads
    <3>. QED  BY <2>2, <2>3, NoticedList
  <2>4. CASE job' = threads /\ disk' = disk
    BY <2>4, OneListed, SilentJobs
  <2>. QED  BY <2>1, <2>3, <2>4
<1>7. ASSUME NEW t \in Threads, ListNetworks(t) PROVE ListInv'
  <2> DEFINE j == IF ScanRaises THEN Idle("done")
                  ELSE [at |-> "listing", default |-> DefaultOf(DOMAIN Scan), changed |-> FALSE]
  <2>1. disk' = disk /\ job' = [job EXCEPT ![t] = j]
    BY <1>7 DEF ListNetworks
  <2>2. Scan' = Scan
    BY <2>1 DEF Scan, ScanRaises, Latest, Readable
  <2>3. CASE ScanRaises
    BY <2>1, <2>3, OneListed, SilentJobs
  <2>4. CASE ~ScanRaises
    <3>1. job'[t].at = "listing" /\ job'[t].default = DefaultOf(DOMAIN Scan)
      BY <2>1, <2>4 DEF JobInv
    <3>2. Says(job[t])'
      BY <2>2, <3>1 DEF Says
    <3>. QED  BY <2>1, <3>2, OneListed
  <2>. QED  BY <2>3, <2>4
<1>8. ASSUME NEW t \in Threads, Listed(t) PROVE ListInv'
  <2> DEFINE j == IF ScanRaises \/ job[t].changed THEN Idle("done")
                  ELSE [at |-> "idle", answer |-> "listed", default |-> job[t].default, ids |-> DOMAIN Scan]
  <2>1. disk' = disk /\ job' = [job EXCEPT ![t] = j] /\ job[t].at = "listing"
    BY <1>8 DEF Listed, JobInv
  <2>2. CASE ScanRaises \/ job[t].changed
    BY <2>1, <2>2, OneListed, SilentJobs
  <2>3. CASE ~(ScanRaises \/ job[t].changed)
    <3>1. job[t].default = DefaultOf(DOMAIN Scan)
      BY <2>1, <2>3 DEF ListInv, Says
    <3>2. IsDefault(job[t].default, DOMAIN Scan)
      BY <3>1, ScannedIds, DefaultIsMember
    <3>3. job'[t].at = "idle" /\ job'[t].default = job[t].default /\ job'[t].ids = DOMAIN Scan
      BY <2>1, <2>3 DEF JobInv
    <3>4. Says(job[t])'
      BY <3>2, <3>3 DEF Says
    <3>. QED  BY <2>1, <3>4, OneListed
  <2>. QED  BY <2>2, <2>3
<1>9. ASSUME NEW f \in DOMAIN DropIns, DropIn(f) PROVE ListInv'
  BY <1>9, NoticedList DEF DropIn
<1>10. CASE Restart
  BY <1>10, ListFrame, SilentJobs DEF Restart
<1>11. CASE UNCHANGED registryVars
  BY <1>11, ListFrame DEF registryVars
<1>12. ASSUME NEW t \in Threads,
              \/ \E req \in Requests : ReceiveStudy(t, req)
              \/ OpenSession(t) \/ Allocate(t) \/ Coordinate(t) \/ RunStudy(t)
              \/ StopCoordinator(t) \/ CloseSession(t) \/ Answer(t)
       PROVE  ListInv'
  <2>1. disk' = disk /\ NoNewListing
    BY <1>12, StudyWritesNothing DEF StudyKept
  <2>. QED  BY <2>1, ListFrame DEF NoNewListing
<1>13. CASE RegistryNext
  BY <1>2, <1>3, <1>4, <1>5, <1>6, <1>7, <1>8, <1>9, <1>10, <1>13 DEF RegistryNext
<1>. QED  BY <1>11, <1>12, <1>13 DEF Next

(* The default that list-networks answers is one of the networks it lists, *)
(* whichever files there are, unless the directory changed between its two *)
(* scans.                                                                  *)
THEOREM ListsTheirDefault == Spec => []DefaultIsListed
<1>1. RegistryInit => ListInv
  BY SilentJobs DEF RegistryInit, ListInv, Silent, Says, Idle
<1>2. ListInv => DefaultIsListed
  BY DEF ListInv, Says, IsDefault, DefaultIsListed
<1>. QED  BY <1>1, <1>2, ListKept, ContentHolds, JobsHold, PTL DEF Spec

HIDE RegistryAssumption
HIDE StoredAssumption

-----------------------------------------------------------------------------
(* What a study carries.                                                   *)

\* The limits a study runs with are some that its request gets from a plant,
\* and what it answers is the report of the result it ran to.
Limited(j) == j.given = Absent \/ (j.given \in Given /\ j.given.req = j.req)
Carries(j) ==
    /\ j.at \in InStudy => "req" \in DOMAIN j /\ Limited(j) /\ (j.result = Absent \/ j.result \in Results)
    /\ j.at = "reporting" => j.result \in Results
    /\ (j.at = "idle" /\ j.answer = "study answered") =>
          /\ j.result \in Results
          /\ j.series = Series(j.result)
          /\ j.report = Report(j.result, Tariffs[j.tariff], j.expected, j.brs)

CarryInv == JobInv /\ \A t \in Threads : Carries(job[t])

LEMMA PlainCarries == ASSUME NEW j, Plain(j) PROVE Carries(j)
BY DEF Plain, Carries, InStudy, StudySteps

LEMMA FailedCarries == ASSUME NEW session, NEW cut PROVE Carries(Failed(session, cut))
BY DEF Failed, Carries, InStudy, StudySteps

LEMMA CarriesOn ==
    ASSUME CarryInv, NEW t \in Threads, NEW j, job' = [job EXCEPT ![t] = j], Carries(j)
    PROVE  \A u \in Threads : Carries(job'[u])
BY DEF CarryInv, JobInv

\* A study that goes on with one of its fields set.
LEMMA FieldsSet ==
    ASSUME CarryInv, NEW t \in Threads, job[t].at \in InStudy, NEW step \in InStudy, NEW x
    PROVE  /\ Carries([job[t] EXCEPT !.at = step])
           /\ Carries([job[t] EXCEPT !.at = step, !.session = x])
           /\ x = Absent \/ (x \in Given /\ x.req = job[t].req) => Carries([job[t] EXCEPT !.at = step, !.given = x])
           /\ x \in Results \union {Absent} => Carries([job[t] EXCEPT !.at = step, !.result = x])
<1>. DEFINE j == job[t]
<1>1. /\ {"at", "given", "result", "session", "req"} \subseteq DOMAIN j
      /\ Limited(j) /\ (j.result = Absent \/ j.result \in Results)
  BY DEF CarryInv, JobInv, Shaped, Carries
<1>2. step # "reporting" /\ step # "idle"
  BY DEF InStudy, StudySteps
<1>. HIDE DEF j
<1>3. ASSUME NEW k, DOMAIN k = DOMAIN j, k.at = step, Limited(k), k.result = Absent \/ k.result \in Results
      PROVE  Carries(k)
  BY <1>1, <1>2, <1>3 DEF Carries
<1>4. Carries([j EXCEPT !.at = step])
  <2>. DEFINE k == [j EXCEPT !.at = step]
  <2>1. DOMAIN k = DOMAIN j /\ k.at = step /\ k.given = j.given /\ k.result = j.result /\ k.req = j.req
    BY <1>1, Zenon
  <2>. HIDE DEF k
  <2>2. Carries(k)
    BY <1>1, <1>3, <2>1 DEF Limited
  <2>. QED  BY <2>2 DEF k
<1>5. Carries([j EXCEPT !.at = step, !.session = x])
  <2>. DEFINE k == [j EXCEPT !.at = step, !.session = x]
  <2>1. DOMAIN k = DOMAIN j /\ k.at = step /\ k.given = j.given /\ k.result = j.result /\ k.req = j.req
    BY <1>1, Zenon
  <2>. HIDE DEF k
  <2>2. Carries(k)
    BY <1>1, <1>3, <2>1 DEF Limited
  <2>. QED  BY <2>2 DEF k
<1>6. ASSUME x = Absent \/ (x \in Given /\ x.req = j.req) PROVE Carries([j EXCEPT !.at = step, !.given = x])
  <2>. DEFINE k == [j EXCEPT !.at = step, !.given = x]
  <2>1. DOMAIN k = DOMAIN j /\ k.at = step /\ k.given = x /\ k.result = j.result /\ k.req = j.req
    BY <1>1, Zenon
  <2>. HIDE DEF k
  <2>2. Carries(k)
    BY <1>1, <1>3, <1>6, <2>1 DEF Limited
  <2>. QED  BY <2>2 DEF k
<1>7. ASSUME x \in Results \union {Absent} PROVE Carries([j EXCEPT !.at = step, !.result = x])
  <2>. DEFINE k == [j EXCEPT !.at = step, !.result = x]
  <2>1. DOMAIN k = DOMAIN j /\ k.at = step /\ k.given = j.given /\ k.result = x /\ k.req = j.req
    BY <1>1, Zenon
  <2>. HIDE DEF k
  <2>2. Carries(k)
    BY <1>1, <1>3, <1>7, <2>1 DEF Limited
  <2>. QED  BY <2>2 DEF k
<1>. QED
  BY <1>4, <1>5, <1>6, <1>7 DEF j

LEMMA CarryEstablished == RegistryInit => CarryInv
BY JobsEstablished, PlainCarries, IdleIsPlain DEF RegistryInit, CarryInv

LEMMA CarryKept == CarryInv /\ [Next]_registryVars => CarryInv'
<1>. SUFFICES ASSUME CarryInv, [Next]_registryVars PROVE \A t \in Threads : Carries(job'[t])
  BY JobsKept DEF CarryInv
<1>. USE DEF CarryInv
<1>1. CASE UNCHANGED registryVars
  BY <1>1 DEF registryVars
<1>2. CASE RegistryNext
  BY <1>2, RegistryKeepsJobs, PlainCarries DEF PlainlyMoved
<1>3. ASSUME NEW t \in Threads, NEW req \in Requests, ReceiveStudy(t, req) PROVE \A u \in Threads : Carries(job'[u])
  <2>. DEFINE j == [at |-> "opening", req |-> req, brs |-> Transformers(Scan[req.network].def),
                    given |-> Absent, result |-> Absent, session |-> FALSE]
  <2>1. Carries(j)
    BY DEF Carries, Limited, InStudy, StudySteps
  <2>2. job' = [job EXCEPT ![t] = j] \/ job' = [job EXCEPT ![t] = Failed(FALSE, FALSE)]
    BY <1>3 DEF ReceiveStudy
  <2>. HIDE DEF j
  <2>. QED  BY <2>1, <2>2, FailedCarries, CarriesOn
<1>4. ASSUME NEW t \in Threads, OpenSession(t) PROVE \A u \in Threads : Carries(job'[u])
  <2>1. job[t].at \in InStudy /\ "allocating" \in InStudy
    BY <1>4 DEF OpenSession, InStudy, StudySteps
  <2>2. \/ job' = [job EXCEPT ![t] = [job[t] EXCEPT !.at = "allocating", !.session = TRUE]]
        \/ job' = [job EXCEPT ![t] = Failed(FALSE, FALSE)]
        \/ \E session \in BOOLEAN : job' = [job EXCEPT ![t] = Failed(session, TRUE)]
    BY <1>4 DEF OpenSession
  <2>. QED  BY ZenonT(40), <2>1, <2>2, FieldsSet, FailedCarries, CarriesOn
<1>5. ASSUME NEW t \in Threads, Allocate(t) PROVE \A u \in Threads : Carries(job'[u])
  <2>1. job[t].at \in InStudy /\ {"coordinating", "closing"} \subseteq InStudy
    BY <1>5 DEF Allocate, InStudy, StudySteps
  <2>2. \/ \E step \in {"coordinating", "closing"} : job' = [job EXCEPT ![t] = [job[t] EXCEPT !.at = step]]
        \/ \E g \in Given : /\ g.req = job[t].req
                            /\ job' = [job EXCEPT ![t] = [job[t] EXCEPT !.at = "coordinating", !.given = g]]
    BY ZenonT(40), <1>5 DEF Allocate, Moved, JobInv
  <2>. QED  BY <2>1, <2>2, FieldsSet, CarriesOn
<1>6. ASSUME NEW t \in Threads, Coordinate(t) PROVE \A u \in Threads : Carries(job'[u])
  <2>1. job[t].at \in InStudy /\ {"running", "closing"} \subseteq InStudy
    BY <1>6 DEF Coordinate, InStudy, StudySteps
  <2>2. \E step \in {"running", "closing"} :
           job' = [job EXCEPT ![t] = [job[t] EXCEPT !.at = step, !.given = Absent]]
    BY <1>6 DEF Coordinate, JobInv
  <2>. QED  BY <2>1, <2>2, FieldsSet, CarriesOn
<1>7. ASSUME NEW t \in Threads, RunStudy(t) PROVE \A u \in Threads : Carries(job'[u])
  <2>1. job[t].at \in InStudy /\ {"stopping", "closing"} \subseteq InStudy
    BY <1>7 DEF RunStudy, InStudy, StudySteps
  <2>2. \E step \in {"stopping", "closing"} : \E result \in Results \union {Absent} :
           job' = [job EXCEPT ![t] = [job[t] EXCEPT !.at = step, !.result = result]]
    BY <1>7 DEF RunStudy, JobInv
  <2>. QED  BY ZenonT(40), <2>1, <2>2, FieldsSet, CarriesOn
<1>8. ASSUME NEW t \in Threads, StopCoordinator(t) PROVE \A u \in Threads : Carries(job'[u])
  <2>1. job[t].at \in InStudy /\ "closing" \in InStudy
    BY <1>8 DEF StopCoordinator, InStudy, StudySteps
  <2>2. \/ job' = [job EXCEPT ![t] = [job[t] EXCEPT !.at = "closing"]]
        \/ job' = [job EXCEPT ![t] = Failed(job[t].session, TRUE)]
    BY <1>8 DEF StopCoordinator, Moved, JobInv
  <2>. QED  BY <2>1, <2>2, FieldsSet, FailedCarries, CarriesOn
<1>9. ASSUME NEW t \in Threads, CloseSession(t) PROVE \A u \in Threads : Carries(job'[u])
  <2>. DEFINE k(session, cut) == [at |-> "reporting", req |-> job[t].req, brs |-> job[t].brs,
                                  result |-> job[t].result, session |-> session, cut |-> cut]
  <2>1. job[t].result = Absent \/ job[t].result \in Results
    BY <1>9 DEF CloseSession, Carries, InStudy, StudySteps
  <2>2. \E session, cut : \/ job' = [job EXCEPT ![t] = Failed(session, cut)]
                          \/ job[t].result # Absent /\ job' = [job EXCEPT ![t] = k(session, cut)]
    BY <1>9 DEF CloseSession
  <2>3. ASSUME job[t].result # Absent, NEW session, NEW cut PROVE Carries(k(session, cut))
    BY <2>1, <2>3 DEF Carries, InStudy, StudySteps
  <2>. HIDE DEF k
  <2>. QED  BY <2>2, <2>3, FailedCarries, CarriesOn
<1>10. ASSUME NEW t \in Threads, Answer(t) PROVE \A u \in Threads : Carries(job'[u])
  <2>. DEFINE s == job[t]
              j == [at |-> "idle", answer |-> "study answered", session |-> s.session, cut |-> s.cut,
                    result |-> s.result, tariff |-> s.req.tariff, expected |-> s.req.profile.expected,
                    brs |-> s.brs, series |-> Series(s.result),
                    report |-> Report(s.result, Tariffs[s.req.tariff], s.req.profile.expected, s.brs)]
  <2>1. s.result \in Results
    BY <1>10 DEF Answer, Carries
  <2>2. job' = [job EXCEPT ![t] = Failed(s.session, s.cut)] \/ job' = [job EXCEPT ![t] = j]
    BY <1>10 DEF Answer
  <2>3. Carries(j)
    BY <2>1 DEF Carries, InStudy, StudySteps
  <2>. HIDE DEF j, s
  <2>. QED  BY <2>2, <2>3, FailedCarries, CarriesOn
<1>. QED
  BY <1>1, <1>2, <1>3, <1>4, <1>5, <1>6, <1>7, <1>8, <1>9, <1>10 DEF Next

LEMMA CarryHolds == Spec => []CarryInv
BY CarryEstablished, CarryKept, PTL DEF Spec

-----------------------------------------------------------------------------
(* The arithmetic of the envelopes.                                        *)

LEMMA SumsOver == ASSUME NEW f PROVE SumFunction(f) = SumFunctionOnSet(f, DOMAIN f)
BY DEF SumFunction, SumFunctionOnSet, FoldFunction

LEMMA SumOfOne ==
    ASSUME NEW S, IsFiniteSet(S), NEW w, Ints(w, S), NEW x \in S, \A y \in S \ {x} : w[y] = 0
    PROVE  SumFunctionOnSet(w, S) = w[x]
<1>1. SumFunctionOnSet(w, S) = SumFunctionOnSet(w, {x})
  BY SumOfSupport
<1>2. w[x] \in Int /\ IsFiniteSet({}) /\ Ints(w, {}) /\ {} \union {x} = {x} /\ x \notin {}
  BY FS_EmptySet DEF Ints
<1>3. SumFunctionOnSet(w, {} \union {x}) = w[x] + SumFunctionOnSet(w, {})
  BY <1>2, SumWith
<1>. QED  BY <1>1, <1>2, <1>3, SumOfNone

\* Parts is 2 to the number of search steps.
LEMMA PartsArePowers ==
    \E h : /\ h[0] = 1 /\ Parts = h[SearchSteps]
           /\ \A n \in Nat : h[n] \in Nat \ {0} /\ h[n + 1] = 2 * h[n]
<1> DEFINE D == Nat \ {0}
           F == [n \in Nat |-> [x \in D |-> 2 * x]]
           Doubles(h) == h = [n \in Nat |-> IF n = 0 THEN 1 ELSE 2 * h[n - 1]]
<1>1. StaysIn(F, D) /\ 1 \in D
  BY DEF StaysIn
<1>2. \E g \in [Nat -> D] : Recursion(g, 1, F)
  <2>. HIDE DEF F, D
  <2>. QED  BY <1>1, RecursionExists
<1>3. PICK g \in [Nat -> D] : Recursion(g, 1, F)
  BY <1>2
<1>4. \A n \in Nat : g[n + 1] = 2 * g[n]
  BY <1>3 DEF Recursion
<1>5. ASSUME NEW n \in Nat PROVE g[n] = IF n = 0 THEN 1 ELSE 2 * g[n - 1]
  <2>1. n # 0 => n - 1 \in Nat /\ (n - 1) + 1 = n
    OBVIOUS
  <2>. QED  BY <1>3, <1>4, <2>1 DEF Recursion
<1>6. Doubles(g)
  <2>1. g = [n \in Nat |-> g[n]]
    OBVIOUS
  <2>. HIDE DEF D
  <2>. QED  BY <1>5, <2>1
<1> DEFINE h == CHOOSE f : Doubles(f)
           T == {n \in Nat : h[n] \in D}
<1>7. Doubles(h)
  <2>. HIDE DEF Doubles
  <2>. QED  BY <1>6
<1>8. Parts = h[SearchSteps]
  BY DEF Parts
<1>. HIDE DEF h
<1>9. 0 \in T
  BY <1>7
<1>10. ASSUME NEW n \in Nat, n \in T PROVE n + 1 \in T
  <2>1. h[n + 1] = 2 * h[n]
    BY <1>7
  <2>. QED  BY <2>1, <1>10
<1>. HIDE DEF T
<1>11. Nat \subseteq T
  BY <1>9, <1>10, NatIsBuiltUp
<1>12. h[0] = 1 /\ \A n \in Nat : h[n] \in D /\ h[n + 1] = 2 * h[n]
  <2>1. \A n \in Nat : h[n + 1] = 2 * h[n]
    BY <1>7
  <2>. QED  BY <1>7, <1>11, <2>1 DEF T
<1>. QED  BY <1>8, <1>12

LEMMA PartsPositive == Parts \in Nat \ {0}
BY PartsArePowers, EnvelopeAssumption

\* What a row reads is its base and what the export adds to it.
Added(plant, row, x) == SumFunctionOnSet([s \in Sites |-> plant.slope[row][s] * x[s]], Sites)

LEMMA ReadingIs ==
    ASSUME NEW plant, IsPlant(plant), NEW t \in DOMAIN plant.base, NEW row \in Rows, NEW x \in [Sites -> Int]
    PROVE  /\ Added(plant, row, x) \in Int /\ plant.base[t][row] \in Int /\ plant.limit[row] \in Int
           /\ \A s \in Sites : plant.slope[row][s] \in Int
           /\ Reading(plant, t, x, row) =
                 IF row \in Branches THEN Absolute(Parts * plant.base[t][row] + Added(plant, row, x))
                 ELSE Parts * plant.base[t][row] + Added(plant, row, x)
           /\ Reading(plant, t, x, row) \in Int
<1> DEFINE w == [s \in Sites |-> plant.slope[row][s] * x[s]]
<1>1. /\ plant.base[t][row] \in Int /\ plant.limit[row] \in Int
      /\ \A s \in Sites : plant.slope[row][s] \in Int
  BY DEF IsPlant
<1>2. Ints(w, Sites) /\ DOMAIN w = Sites
  BY <1>1 DEF Ints
<1>3. SumFunction(w) = Added(plant, row, x)
  <2>1. SumFunction(w) = SumFunctionOnSet(w, DOMAIN w)
    BY SumsOver
  <2>. QED  BY <1>2, <2>1 DEF Added
<1>4. Added(plant, row, x) \in Int
  <2>. HIDE DEF w
  <2>1. SumFunctionOnSet(w, Sites) \in Int
    BY <1>2, SumIsInt, EnvelopeAssumption
  <2>. QED  BY <2>1 DEF Added, w
<1>5. Reading(plant, t, x, row) =
         IF row \in Branches THEN Absolute(Parts * plant.base[t][row] + Added(plant, row, x))
         ELSE Parts * plant.base[t][row] + Added(plant, row, x)
  BY <1>3 DEF Reading
<1>6. Parts * plant.base[t][row] \in Int
  BY <1>1, PartsPositive
<1>7. Parts * plant.base[t][row] + Added(plant, row, x) \in Int
  BY <1>4, <1>6
<1>. QED  BY <1>1, <1>4, <1>5, <1>7 DEF Absolute

LEMMA NothingAdded ==
    ASSUME NEW plant, IsPlant(plant), NEW row \in Rows
    PROVE  NoExport \in [Sites -> Int] /\ NoExport \in [Sites -> Nat] /\ Added(plant, row, NoExport) = 0
<1> DEFINE w == [s \in Sites |-> plant.slope[row][s] * NoExport[s]]
<1>1. NoExport \in [Sites -> Int] /\ NoExport \in [Sites -> Nat]
  BY DEF NoExport
<1>2. \A s \in Sites : w[s] = 0
  BY DEF NoExport, IsPlant
<1>. HIDE DEF w
<1>3. SumFunctionOnSet(w, Sites) = 0 * Cardinality(Sites) /\ Cardinality(Sites) \in Nat
  BY <1>2, SumOfConstant, FS_CardinalityType, EnvelopeAssumption
<1>. QED  BY <1>1, <1>3 DEF Added, w

\* One site's export of 1 kW.
LEMMA OneAdded ==
    ASSUME NEW plant, IsPlant(plant), NEW row \in Rows, NEW s \in Sites
    PROVE  /\ [NoExport EXCEPT ![s] = Parts] \in [Sites -> Int]
           /\ Added(plant, row, [NoExport EXCEPT ![s] = Parts]) = plant.slope[row][s] * Parts
<1> DEFINE x == [NoExport EXCEPT ![s] = Parts]
           w == [r \in Sites |-> plant.slope[row][r] * x[r]]
<1>1. x \in [Sites -> Int] /\ x[s] = Parts /\ \A r \in Sites \ {s} : x[r] = 0
  BY PartsPositive DEF NoExport
<1>2. \A r \in Sites : plant.slope[row][r] \in Int
  BY DEF IsPlant
<1>. HIDE DEF x
<1>3. Ints(w, Sites) /\ w[s] = plant.slope[row][s] * Parts /\ \A r \in Sites \ {s} : w[r] = 0
  BY <1>1, <1>2 DEF Ints
<1>4. Added(plant, row, x) = SumFunctionOnSet(w, Sites)
  BY DEF Added
<1>. HIDE DEF w
<1>5. SumFunctionOnSet(w, Sites) = w[s]
  BY <1>3, SumOfOne, EnvelopeAssumption
<1>. QED  BY <1>1, <1>3, <1>4, <1>5 DEF x

LEMMA ReferenceIsAnInterval ==
    ASSUME NEW plant, IsPlant(plant)
    PROVE  Reference(plant) \in DOMAIN plant.base
<1> DEFINE load == plant.load
           n == Len(load)
           loads == {load[t] : t \in 1..n}
           most == {t \in 1..n : load[t] = Max(loads)}
           Is(t) == \A u \in DOMAIN load : load[t] > load[u] \/ (load[t] = load[u] /\ t <= u)
<1>1. load \in Seq(Int) /\ load # <<>> /\ DOMAIN plant.base = DOMAIN load
  BY DEF IsPlant
<1>2. n \in Nat \ {0} /\ DOMAIN load = 1..n /\ \A t \in 1..n : load[t] \in Int
  <2>. HIDE DEF load
  <2>. QED  BY <1>1
<1>. HIDE DEF load, n
<1>3. loads \in SUBSET Int /\ loads # {}
  BY <1>2
<1>4. IsFiniteSet(loads)
  <2>1. IsFiniteSet(1..n)
    BY <1>2, FS_Interval
  <2>. QED  BY <2>1, ImageIsFinite
<1>5. Max(loads) \in loads /\ \A y \in loads : y <= Max(loads)
  <2>. HIDE DEF loads
  <2>. QED  BY <1>3, <1>4, GreatestExists
<1>6. most \in SUBSET Int /\ most # {} /\ most \subseteq 1..n
  BY <1>5
<1>7. IsFiniteSet(most)
  <2>1. IsFiniteSet(1..n)
    BY <1>2, FS_Interval
  <2>. HIDE DEF most
  <2>. QED  BY <1>6, <2>1, FS_Subset
<1>8. Min(most) \in most /\ \A y \in most : Min(most) <= y
  <2>. HIDE DEF most
  <2>. QED  BY <1>6, <1>7, LeastExists
<1>9. Min(most) \in DOMAIN load /\ Is(Min(most))
  <2>. DEFINE m == Min(most)
  <2>1. m \in 1..n /\ load[m] = Max(loads) /\ \A u \in 1..n : load[u] = Max(loads) => m <= u
    BY <1>8
  <2>2. \A u \in 1..n : load[u] \in loads
    OBVIOUS
  <2>. HIDE DEF m, most
  <2>3. ASSUME NEW u \in 1..n PROVE load[m] > load[u] \/ (load[m] = load[u] /\ m <= u)
    <3>1. load[u] <= load[m] /\ load[u] \in Int /\ load[m] \in Int
      BY <1>2, <1>5, <2>1, <2>2
    <3>. HIDE DEF loads
    <3>. QED  BY <2>1, <3>1
  <2>. QED  BY <1>2, <2>1, <2>3 DEF m
<1>10. Reference(plant) = CHOOSE t \in DOMAIN load : Is(t)
  BY DEF Reference, load
<1>. HIDE DEF Is, most
<1>. QED  BY <1>1, <1>9, <1>10

\* Parts of whole figures.
LEMMA PartsOfWhole ==
    ASSUME NEW k \in Int
    PROVE  Parts * k \in Int /\ (Parts * k) \div Parts = k
<1>1. Parts \in Nat \ {0} /\ Parts * k \in Int
  BY PartsPositive
<1>2. k * Parts = Parts * k
  BY <1>1
<1>3. k * Parts <= Parts * k /\ Parts * k <= k * Parts
  BY <1>1, <1>2
<1>4. k <= (Parts * k) \div Parts /\ (Parts * k) \div Parts <= k
  BY <1>1, <1>3, QuotientBetween
<1>. QED  BY <1>1, <1>4, QuotientIsInteger

LEMMA AbsoluteOfParts == ASSUME NEW k \in Int PROVE Absolute(Parts * k) = Parts * Absolute(k) /\ Absolute(k) \in Nat
<1>1. Parts \in Nat \ {0}
  BY PartsPositive
<1>2. CASE k < 0
  <2>1. Parts * k < 0 /\ Parts * (-k) = -(Parts * k)
    BY <1>1, <1>2
  <2>. QED  BY <1>2, <2>1 DEF Absolute
<1>3. CASE k >= 0
  <2>1. ~(Parts * k < 0)
    BY <1>1, <1>3
  <2>. QED  BY <1>3, <2>1 DEF Absolute
<1>. QED  BY <1>2, <1>3

\* What one site takes of a row: nothing less than its slope, and on a branch
\* that no site relieves nothing less than the slope's size.
LEMMA SensitivityIs ==
    ASSUME NEW plant, IsPlant(plant), NEW row \in Rows, NEW s \in Sites
    PROVE  /\ Sensitivity(plant, row, s) \in Nat
           /\ ~Relieved(plant, row) => Sensitivity(plant, row, s) >= plant.slope[row][s]
           /\ row \in Branches /\ ~Relieved(plant, row) => Sensitivity(plant, row, s) >= -plant.slope[row][s]
<1> DEFINE t == Reference(plant)
           x == [NoExport EXCEPT ![s] = Parts]
           b == plant.base[t][row]
           m == plant.slope[row][s]
<1>1. t \in DOMAIN plant.base
  BY ReferenceIsAnInterval
<1>2. x \in [Sites -> Int] /\ Added(plant, row, x) = m * Parts
  BY OneAdded
<1>3. NoExport \in [Sites -> Int] /\ Added(plant, row, NoExport) = 0
  BY NothingAdded
<1>4. Sensitivity(plant, row, s) = Positive((Reading(plant, t, x, row) - Reading(plant, t, NoExport, row)) \div Parts)
  BY DEF Sensitivity
<1>. HIDE DEF t, x
<1>5. b \in Int /\ m \in Int /\ Parts \in Nat \ {0}
  BY <1>1, <1>2, ReadingIs, PartsPositive
<1>6. /\ Reading(plant, t, x, row) = IF row \in Branches THEN Absolute(Parts * b + Added(plant, row, x))
                                     ELSE Parts * b + Added(plant, row, x)
      /\ Reading(plant, t, NoExport, row) = IF row \in Branches THEN Absolute(Parts * b + Added(plant, row, NoExport))
                                            ELSE Parts * b + Added(plant, row, NoExport)
  BY <1>1, <1>2, <1>3, ReadingIs
<1>. HIDE DEF b, m
<1>7. Parts * b + m * Parts = Parts * (b + m) /\ Parts * b + 0 = Parts * b /\ b + m \in Int
  BY <1>5
<1>8. CASE row \notin Branches
  <2>1. Reading(plant, t, x, row) - Reading(plant, t, NoExport, row) = Parts * m
    <3>1. /\ Reading(plant, t, x, row) = Parts * (b + m)
          /\ Reading(plant, t, NoExport, row) = Parts * b
      BY <1>2, <1>3, <1>6, <1>7, <1>8
    <3>2. Parts * (b + m) - Parts * b = Parts * m
      BY <1>5
    <3>. QED  BY <3>1, <3>2
  <2>2. (Parts * m) \div Parts = m
    BY <1>5, PartsOfWhole
  <2>3. Sensitivity(plant, row, s) = Positive(m)
    BY <1>4, <2>1, <2>2
  <2>. QED  BY <1>5, <1>8, <2>3 DEF Positive, m
<1>9. CASE row \in Branches
  <2>. DEFINE d == Absolute(b + m) - Absolute(b)
  <2>1. Reading(plant, t, x, row) - Reading(plant, t, NoExport, row) = Parts * d
    <3>1. /\ Reading(plant, t, x, row) = Parts * Absolute(b + m)
          /\ Reading(plant, t, NoExport, row) = Parts * Absolute(b)
      BY <1>2, <1>3, <1>5, <1>6, <1>7, <1>9, AbsoluteOfParts
    <3>2. Absolute(b + m) \in Nat /\ Absolute(b) \in Nat
      BY <1>5, <1>7, AbsoluteOfParts
    <3>3. Parts * Absolute(b + m) - Parts * Absolute(b) = Parts * (Absolute(b + m) - Absolute(b))
      <4>. DEFINE u == Absolute(b + m)
                  v == Absolute(b)
      <4>. HIDE DEF u, v
      <4>. SUFFICES ASSUME u \in Nat, v \in Nat PROVE Parts * u - Parts * v = Parts * (u - v)
        BY <3>2 DEF u, v
      <4>. QED  BY <1>5
    <3>. QED  BY <3>1, <3>3
  <2>2. d \in Int
    BY <1>5, <1>7, AbsoluteOfParts
  <2>3. (Parts * d) \div Parts = d
    <3>. HIDE DEF d
    <3>. QED  BY <2>2, PartsOfWhole
  <2>4. Sensitivity(plant, row, s) = Positive(d)
    BY <1>4, <2>1, <2>3
  <2>5. ASSUME ~Relieved(plant, row) PROVE d >= m /\ d >= -m
    <3>1. ~(b * m < 0)
      BY <1>9, <2>5 DEF Relieved, b, m, t
    <3>2. (b >= 0 /\ m >= 0) \/ (b <= 0 /\ m <= 0)
      <4>1. ASSUME b > 0, m < 0 PROVE FALSE
        BY <1>5, <3>1, <4>1
      <4>2. ASSUME b < 0, m > 0 PROVE FALSE
        BY <1>5, <3>1, <4>2
      <4>. QED  BY <1>5, <4>1, <4>2
    <3>. QED  BY <1>5, <3>2 DEF Absolute
  <2>. HIDE DEF d
  <2>. QED  BY <1>5, <1>9, <2>2, <2>4, <2>5 DEF Positive, m
<1>. QED  BY <1>8, <1>9

LEMMA HeadroomIs ==
    ASSUME NEW plant, IsPlant(plant), NEW t \in DOMAIN plant.base, NEW row \in Rows
    PROVE  \E e \in Int :
              /\ Reading(plant, t, NoExport, row) = Parts * e
              /\ e = (IF row \in Branches THEN Absolute(plant.base[t][row]) ELSE plant.base[t][row])
              /\ Headroom(plant, t, row) = Positive(plant.limit[row] - e)
              /\ Headroom(plant, t, row) \in Nat
<1> DEFINE b == plant.base[t][row]
           e == IF row \in Branches THEN Absolute(b) ELSE b
<1>1. NoExport \in [Sites -> Int] /\ Added(plant, row, NoExport) = 0
  BY NothingAdded
<1>2. /\ Reading(plant, t, NoExport, row) = IF row \in Branches THEN Absolute(Parts * b + Added(plant, row, NoExport))
                                            ELSE Parts * b + Added(plant, row, NoExport)
      /\ b \in Int /\ plant.limit[row] \in Int
  BY <1>1, ReadingIs
<1>. HIDE DEF b
<1>3. Parts * b + 0 = Parts * b
  BY <1>2, PartsPositive
<1>4. e \in Int /\ Reading(plant, t, NoExport, row) = Parts * e
  BY <1>1, <1>2, <1>3, AbsoluteOfParts
<1>5. (Parts * e) \div Parts = e
  <2>. HIDE DEF e
  <2>. QED  BY <1>4, PartsOfWhole
<1>6. Headroom(plant, t, row) = Positive(plant.limit[row] - e)
  <2>. HIDE DEF e
  <2>. QED  BY <1>4, <1>5 DEF Headroom
<1>7. Headroom(plant, t, row) \in Nat
  <2>. HIDE DEF e
  <2>. QED  BY <1>2, <1>4, <1>6 DEF Positive
<1>. QED  BY <1>4, <1>6, <1>7 DEF b

LEMMA UsedIs ==
    ASSUME NEW plant, IsPlant(plant), NEW row \in Rows, NEW x \in [Sites -> Nat]
    PROVE  /\ Used(plant, row, x) = SumFunctionOnSet([s \in Sites |-> Sensitivity(plant, row, s) * x[s]], Sites)
           /\ Used(plant, row, x) \in Nat
           /\ \A s \in Sites : Sensitivity(plant, row, s) * x[s] \in Nat
<1> DEFINE w == [s \in Sites |-> Sensitivity(plant, row, s) * x[s]]
<1>1. \A s \in Sites : w[s] \in Nat
  <2>1. \A s \in Sites : Sensitivity(plant, row, s) \in Nat /\ x[s] \in Nat
    BY SensitivityIs
  <2>. QED  BY <2>1
<1>2. Used(plant, row, x) = SumFunctionOnSet(w, Sites)
  <2>1. DOMAIN w = Sites
    OBVIOUS
  <2>2. Used(plant, row, x) = SumFunction(w)
    BY DEF Used
  <2>. QED  BY <2>1, <2>2, SumsOver
<1>3. SumFunctionOnSet(w, Sites) \in Nat
  <2>. HIDE DEF w
  <2>. QED  BY <1>1, SumIsNat, EnvelopeAssumption
<1>. QED  BY <1>1, <1>2, <1>3

\* What export adds to a row, and takes from a branch, is at most what the
\* sensitivities count.
LEMMA AddedIsCounted ==
    ASSUME NEW plant, IsPlant(plant), NEW row \in Rows, ~Relieved(plant, row), NEW x \in [Sites -> Nat]
    PROVE  /\ Added(plant, row, x) <= Used(plant, row, x)
           /\ row \in Branches => -Added(plant, row, x) <= Used(plant, row, x)
<1> DEFINE v == [s \in Sites |-> plant.slope[row][s] * x[s]]
           u == [s \in Sites |-> -(plant.slope[row][s] * x[s])]
           w == [s \in Sites |-> Sensitivity(plant, row, s) * x[s]]
<1>1. ASSUME NEW s \in Sites
      PROVE  /\ v[s] \in Int /\ u[s] \in Int /\ w[s] \in Int /\ v[s] <= w[s]
             /\ row \in Branches => u[s] <= w[s]
             /\ u[s] = (-1) * v[s] + 0 * v[s]
  <2> DEFINE m == plant.slope[row][s]
             n == Sensitivity(plant, row, s)
  <2>1. m \in Int /\ n \in Nat /\ m <= n /\ (row \in Branches => -m <= n) /\ x[s] \in Nat
    BY SensitivityIs DEF IsPlant
  <2>2. v[s] = m * x[s] /\ u[s] = -(m * x[s]) /\ w[s] = n * x[s]
    OBVIOUS
  <2>. HIDE DEF m, n, v, u, w
  <2>3. m * x[s] <= n * x[s]
    BY <2>1
  <2>4. row \in Branches => (-m) * x[s] <= n * x[s]
    BY <2>1
  <2>5. (-m) * x[s] = -(m * x[s]) /\ m * x[s] \in Int /\ n * x[s] \in Int
    BY <2>1
  <2>. QED  BY <2>2, <2>3, <2>4, <2>5
<1>2. Ints(v, Sites) /\ Ints(u, Sites) /\ Ints(w, Sites) /\ Combines(u, -1, v, 0, v, Sites)
  BY <1>1 DEF Ints, Combines
<1>3. SumFunctionOnSet(v, Sites) = Added(plant, row, x)
  BY DEF Added
<1>4. SumFunctionOnSet(w, Sites) = Used(plant, row, x)
  BY UsedIs
<1>. HIDE DEF v, u, w
<1>5. SumFunctionOnSet(v, Sites) <= SumFunctionOnSet(w, Sites)
  BY <1>1, <1>2, SumIsMonotone, EnvelopeAssumption
<1>6. row \in Branches => SumFunctionOnSet(u, Sites) <= SumFunctionOnSet(w, Sites)
  BY <1>1, <1>2, SumIsMonotone, EnvelopeAssumption
<1>7. SumFunctionOnSet(u, Sites) = (-1) * SumFunctionOnSet(v, Sites) + 0 * SumFunctionOnSet(v, Sites)
  BY <1>2, SumIsLinear, EnvelopeAssumption
<1>8. SumFunctionOnSet(v, Sites) \in Int
  BY <1>2, SumIsInt, EnvelopeAssumption
<1>. QED  BY <1>3, <1>4, <1>5, <1>6, <1>7, <1>8

\* Export within the headroom keeps a row at its limit or where it was.
Kept(plant, t, row, x) ==
    \/ Reading(plant, t, x, row) <= Parts * plant.limit[row]
    \/ Reading(plant, t, x, row) <= Reading(plant, t, NoExport, row)
Within(plant, t, x) ==
    x \in [Sites -> Nat] /\ \A row \in Rows : Used(plant, row, x) <= Parts * Headroom(plant, t, row)

LEMMA WithinIsKept ==
    ASSUME NEW plant, IsPlant(plant), NEW t \in DOMAIN plant.base, NEW row \in Rows, NEW x,
           Within(plant, t, x), ~Relieved(plant, row)
    PROVE  Kept(plant, t, row, x)
<1> DEFINE b == plant.base[t][row]
           a == Added(plant, row, x)
           r == Used(plant, row, x)
           h == Headroom(plant, t, row)
           l == plant.limit[row]
<1>1. x \in [Sites -> Nat] /\ x \in [Sites -> Int] /\ r <= Parts * h
  BY DEF Within
<1>2. /\ a \in Int /\ b \in Int /\ l \in Int
      /\ Reading(plant, t, x, row) = IF row \in Branches THEN Absolute(Parts * b + a) ELSE Parts * b + a
  BY <1>1, ReadingIs
<1>3. r \in Nat /\ a <= r /\ (row \in Branches => -a <= r)
  BY <1>1, UsedIs, AddedIsCounted
<1>4. PICK e \in Int :
         /\ Reading(plant, t, NoExport, row) = Parts * e
         /\ e = (IF row \in Branches THEN Absolute(b) ELSE b)
         /\ h = Positive(l - e) /\ h \in Nat
  BY HeadroomIs
<1>. HIDE DEF a, b, r, h, l
<1>5. Parts * b \in Int /\ Parts * e \in Int /\ Parts * h \in Int /\ Parts \in Nat \ {0}
  BY <1>2, <1>4, PartsPositive
<1>6. Parts * b <= Parts * e /\ (row \in Branches => -(Parts * b) <= Parts * e)
  <2>1. CASE row \in Branches
    <3>1. Absolute(Parts * b) = Parts * e
      BY <1>2, <1>4, <2>1, AbsoluteOfParts
    <3>. QED  BY <1>5, <2>1, <3>1 DEF Absolute
  <2>2. CASE row \notin Branches
    BY <1>4, <1>5, <2>2
  <2>. QED  BY <2>1, <2>2
<1>7. Reading(plant, t, x, row) <= Parts * e + Parts * h /\ Reading(plant, t, x, row) \in Int
  <2>1. CASE row \in Branches
    <3>1. Parts * b + a <= Parts * e + Parts * h /\ -(Parts * b + a) <= Parts * e + Parts * h
      BY <1>1, <1>2, <1>3, <1>5, <1>6, <2>1
    <3>. QED  BY <1>2, <1>5, <2>1, <3>1 DEF Absolute
  <2>2. CASE row \notin Branches
    BY <1>1, <1>2, <1>3, <1>5, <1>6, <2>2
  <2>. QED  BY <2>1, <2>2
<1>8. CASE l > e
  <2>1. h = l - e
    BY <1>2, <1>4, <1>8 DEF Positive
  <2>2. Parts * e + Parts * (l - e) = Parts * l
    BY <1>2, <1>4, <1>5
  <2>3. Reading(plant, t, x, row) <= Parts * l
    BY <1>7, <2>1, <2>2
  <2>. QED  BY <2>3 DEF Kept, l
<1>9. CASE ~(l > e)
  <2>1. h = 0
    BY <1>2, <1>4, <1>9 DEF Positive
  <2>2. Parts * h = 0
    BY <1>5, <2>1
  <2>3. Reading(plant, t, x, row) <= Reading(plant, t, NoExport, row)
    BY <1>4, <1>5, <1>7, <2>2
  <2>. QED  BY <2>3 DEF Kept
<1>. QED  BY <1>8, <1>9

\* A share is an export, and at most what each binding row leaves to a site.
LEMMA ShareIs ==
    ASSUME NEW plant, IsPlant(plant), NEW t \in DOMAIN plant.base, NEW w \in [Sites -> Nat], NEW s \in Sites
    PROVE  /\ Share(plant, t, w)[s] \in Nat
           /\ \A row \in Rows : Used(plant, row, w) > 0 =>
                 Used(plant, row, w) * Share(plant, t, w)[s] <= (Parts * Headroom(plant, t, row)) * w[s]
<1> DEFINE binding == {row \in Rows : Used(plant, row, w) > 0}
           left(row) == (Parts * Headroom(plant, t, row)) * w[s]
           q(row) == left(row) \div Used(plant, row, w)
           T == {q(row) : row \in binding}
<1>1. Share(plant, t, w)[s] = IF binding = {} THEN 0 ELSE Min(T)
  <2>1. \A row : Parts * Headroom(plant, t, row) * w[s] = left(row)
    OBVIOUS
  <2>. QED  BY DEF Share
<1>2. ASSUME NEW row \in binding
      PROVE  /\ left(row) \in Nat /\ Used(plant, row, w) \in Nat \ {0}
             /\ q(row) \in Nat /\ Used(plant, row, w) * q(row) <= left(row)
  <2>1. Headroom(plant, t, row) \in Nat
    BY HeadroomIs
  <2>2. left(row) \in Nat
    <3>1. Parts \in Nat /\ w[s] \in Nat
      BY PartsPositive
    <3>2. Parts * Headroom(plant, t, row) \in Nat
      BY <2>1, <3>1
    <3>. QED  BY <3>1, <3>2
  <2>3. Used(plant, row, w) \in Nat \ {0}
    <3>1. row \in Rows /\ Used(plant, row, w) > 0
      OBVIOUS
    <3>2. Used(plant, row, w) \in Nat
      BY <3>1, UsedIs
    <3>. QED  BY <3>1, <3>2
  <2>. DEFINE n == left(row)
              d == Used(plant, row, w)
  <2>. HIDE DEF n, d
  <2>4. n \in Nat /\ d \in Nat \ {0}
    BY <2>2, <2>3 DEF n, d
  <2>5. n \div d \in Nat /\ d * (n \div d) <= n
    BY <2>4
  <2>. QED  BY <2>2, <2>3, <2>5 DEF n, d
<1>. HIDE DEF q, left
<1>3. CASE binding = {}
  BY <1>1, <1>3
<1>4. CASE binding # {}
  <2>1. T \in SUBSET Int /\ T # {}
    BY <1>2, <1>4
  <2>2. IsFiniteSet(T)
    <3> DEFINE f == [row \in binding |-> q(row)]
    <3>1. IsFiniteSet(binding)
      BY EnvelopeAssumption, FS_Subset
    <3>2. T = {f[row] : row \in binding}
      OBVIOUS
    <3>. HIDE DEF f, binding
    <3>3. IsFiniteSet({f[row] : row \in binding})
      BY <3>1, ImageIsFinite
    <3>. QED  BY <3>2, <3>3
  <2>3. Min(T) \in T /\ \A y \in T : Min(T) <= y
    <3>. HIDE DEF T
    <3>. QED  BY <2>1, <2>2, LeastExists
  <2>4. Min(T) \in Nat
    BY <1>2, <2>3
  <2>5. ASSUME NEW row \in binding PROVE Used(plant, row, w) * Min(T) <= left(row)
    <3>1. Min(T) <= q(row)
      BY <2>3
    <3>. DEFINE d == Used(plant, row, w)
                m == Min(T)
                k == q(row)
                n == left(row)
    <3>2. d \in Nat /\ m \in Nat /\ k \in Nat /\ n \in Nat /\ d * k <= n /\ m <= k
      BY <1>2, <2>4, <3>1
    <3>. HIDE DEF d, m, k, n
    <3>3. d * m <= d * k
      BY <3>2
    <3>4. d * m <= n
      BY <3>2, <3>3
    <3>. QED  BY <3>4 DEF d, m, n
  <2>. HIDE DEF T
  <2>. QED  BY <1>1, <1>4, <2>4, <2>5 DEF left
<1>. QED  BY <1>3, <1>4

\* Exports below a share keep every row's headroom.
LEMMA SharesAreWithin ==
    ASSUME NEW plant, IsPlant(plant), NEW t \in DOMAIN plant.base, NEW w \in [Sites -> Nat],
           NEW x \in [Sites -> Nat], \A s \in Sites : x[s] <= Share(plant, t, w)[s] /\ (w[s] = 0 => x[s] = 0)
    PROVE  Within(plant, t, x)
<1>. SUFFICES ASSUME NEW row \in Rows PROVE Used(plant, row, x) <= Parts * Headroom(plant, t, row)
  BY DEF Within
<1> DEFINE c == Used(plant, row, w)
           p == Parts * Headroom(plant, t, row)
           sens == [s \in Sites |-> Sensitivity(plant, row, s)]
           f == [s \in Sites |-> Sensitivity(plant, row, s) * x[s]]
           g == [s \in Sites |-> Sensitivity(plant, row, s) * w[s]]
           u == [s \in Sites |-> c * f[s]]
           v == [s \in Sites |-> p * g[s]]
<1>1. /\ c \in Nat /\ c = SumFunctionOnSet(g, Sites) /\ \A s \in Sites : g[s] \in Nat
      /\ Used(plant, row, x) \in Nat /\ Used(plant, row, x) = SumFunctionOnSet(f, Sites)
      /\ \A s \in Sites : f[s] \in Nat
  BY UsedIs
<1>2. p \in Nat
  <2>1. Headroom(plant, t, row) \in Nat
    BY HeadroomIs
  <2>. QED  BY <2>1, PartsPositive
<1>3. \A s \in Sites : sens[s] \in Nat
  BY SensitivityIs
<1>4. \A s \in Sites : f[s] = sens[s] * x[s] /\ g[s] = sens[s] * w[s]
  OBVIOUS
<1>. HIDE DEF c, sens, f, g
<1>5. CASE c > 0
  <2>1. ASSUME NEW s \in Sites PROVE c * x[s] <= p * w[s]
    <3>. DEFINE m == Share(plant, t, w)[s]
    <3>1. m \in Nat /\ c * m <= p * w[s]
      BY <1>5, ShareIs DEF c
    <3>2. x[s] <= m /\ x[s] \in Nat
      OBVIOUS
    <3>. HIDE DEF m, p
    <3>3. c * x[s] <= c * m
      BY <1>1, <3>1, <3>2
    <3>4. p * w[s] \in Nat /\ c * m \in Nat /\ c * x[s] \in Nat
      BY <1>1, <1>2, <3>1, <3>2
    <3>. QED  BY <3>1, <3>3, <3>4
  <2>. HIDE DEF p
  <2>2. ASSUME NEW s \in Sites PROVE u[s] <= v[s] /\ u[s] \in Int /\ v[s] \in Int
    <3>. DEFINE a == sens[s]
                y == x[s]
                z == w[s]
    <3>1. u[s] = c * (a * y) /\ v[s] = p * (a * z)
      BY <1>4
    <3>2. a \in Nat /\ y \in Nat /\ z \in Nat /\ c * y <= p * z
      BY <1>3, <2>1
    <3>. HIDE DEF a, y, z, u, v
    <3>3. c * (a * y) = a * (c * y) /\ p * (a * z) = a * (p * z)
      BY <1>1, <1>2, <3>2
    <3>4. c * y \in Nat /\ p * z \in Nat
      BY <1>1, <1>2, <3>2
    <3>5. a * (c * y) <= a * (p * z) /\ a * (c * y) \in Int /\ a * (p * z) \in Int
      <4>. DEFINE i == c * y
                  k == p * z
      <4>. HIDE DEF i, k
      <4>. SUFFICES ASSUME i \in Nat, k \in Nat, i <= k PROVE a * i <= a * k /\ a * i \in Int /\ a * k \in Int
        BY <3>2, <3>4 DEF i, k
      <4>. QED  BY <3>2
    <3>. QED  BY <3>1, <3>3, <3>5
  <2>3. /\ Ints(u, Sites) /\ Ints(v, Sites) /\ Ints(f, Sites) /\ Ints(g, Sites)
        /\ Combines(u, c, f, 0, f, Sites) /\ Combines(v, p, g, 0, g, Sites)
    <3>1. \A s \in Sites : u[s] = c * f[s] /\ v[s] = p * g[s]
      OBVIOUS
    <3>2. \A s \in Sites : c * f[s] \in Int /\ 0 * f[s] = 0 /\ p * g[s] \in Int /\ 0 * g[s] = 0
      BY <1>1, <1>2
    <3>. HIDE DEF u, v
    <3>. QED  BY <1>1, <2>2, <3>1, <3>2 DEF Ints, Combines
  <2>. HIDE DEF u, v
  <2>4. SumFunctionOnSet(u, Sites) <= SumFunctionOnSet(v, Sites)
    BY <2>2, <2>3, SumIsMonotone, EnvelopeAssumption
  <2>5. SumFunctionOnSet(u, Sites) = c * SumFunctionOnSet(f, Sites) + 0 * SumFunctionOnSet(f, Sites)
    BY <1>1, <2>3, SumIsLinear, EnvelopeAssumption
  <2>6. SumFunctionOnSet(v, Sites) = p * SumFunctionOnSet(g, Sites) + 0 * SumFunctionOnSet(g, Sites)
    BY <1>2, <2>3, SumIsLinear, EnvelopeAssumption
  <2>. DEFINE a == Used(plant, row, x)
  <2>. HIDE DEF a
  <2>7. a \in Nat /\ c * a <= p * c
    <3>1. a \in Nat /\ SumFunctionOnSet(f, Sites) = a /\ SumFunctionOnSet(g, Sites) = c
      BY <1>1 DEF a
    <3>2. SumFunctionOnSet(u, Sites) = c * a + 0 * a /\ SumFunctionOnSet(v, Sites) = p * c + 0 * c
      BY <2>5, <2>6, <3>1
    <3>3. c * a + 0 * a = c * a /\ p * c + 0 * c = p * c
      BY <1>1, <1>2, <3>1
    <3>. QED  BY <2>4, <3>1, <3>2, <3>3
  <2>8. a <= p
    <3>. SUFFICES ASSUME a > p PROVE FALSE
      BY <1>2, <2>7
    <3>1. a >= p + 1
      BY <1>2, <2>7
    <3>2. c * a >= c * (p + 1) /\ c * (p + 1) = p * c + c
      BY <1>1, <1>2, <2>7, <3>1
    <3>3. p * c \in Nat /\ c * a \in Nat
      BY <1>1, <1>2, <2>7
    <3>. QED  BY <1>1, <1>5, <2>7, <3>2, <3>3
  <2>. QED  BY <2>8 DEF a, p
<1>6. CASE ~(c > 0)
  <2>1. c = 0
    BY <1>1, <1>6
  <2>2. ASSUME NEW s \in Sites PROVE f[s] = 0
    <3>1. g[s] <= SumFunctionOnSet(g, Sites)
      BY <1>1, SumCoversEach, EnvelopeAssumption
    <3>2. sens[s] * w[s] = 0
      BY <1>1, <1>4, <2>1, <3>1
    <3>3. sens[s] = 0 \/ w[s] = 0
      BY <1>3, <3>2
    <3>4. sens[s] = 0 \/ x[s] = 0
      BY <3>3
    <3>. QED  BY <1>3, <1>4, <3>4
  <2>3. SumFunctionOnSet(f, Sites) = 0 * Cardinality(Sites) /\ Cardinality(Sites) \in Nat
    BY <2>2, SumOfConstant, FS_CardinalityType, EnvelopeAssumption
  <2>. HIDE DEF p
  <2>4. Used(plant, row, x) <= p
    BY <1>1, <1>2, <2>3
  <2>. QED  BY <2>4 DEF p
<1>. QED  BY <1>5, <1>6

IsCap(cap) == cap \in [Sites -> Nat]

LEMMA EqualIsWithin ==
    ASSUME NEW plant, IsPlant(plant), NEW t \in DOMAIN plant.base, NEW cap, IsCap(cap)
    PROVE  Within(plant, t, Equal(plant, t, cap))
<1> DEFINE w == [s \in Sites |-> 1]
           x == Equal(plant, t, cap)
<1>1. w \in [Sites -> Nat] /\ \A s \in Sites : w[s] # 0
  OBVIOUS
<1>2. x = [s \in Sites |-> Least(Share(plant, t, w)[s], Parts * cap[s])]
  BY DEF Equal
<1>. HIDE DEF x, w
<1>3. ASSUME NEW s \in Sites PROVE x[s] \in Nat /\ x[s] <= Share(plant, t, w)[s]
  <2>1. Share(plant, t, w)[s] \in Nat /\ Parts * cap[s] \in Nat
    BY <1>1, ShareIs, PartsPositive DEF IsCap
  <2>. QED  BY <1>2, <2>1 DEF Least
<1>4. x \in [Sites -> Nat]
  BY <1>2, <1>3
<1>5. Within(plant, t, x)
  BY <1>1, <1>3, <1>4, SharesAreWithin
<1>. QED  BY <1>5 DEF x

LEMMA ProRataIsWithin ==
    ASSUME NEW plant, IsPlant(plant), NEW t \in DOMAIN plant.base, NEW cap, IsCap(cap)
    PROVE  Within(plant, t, ProRata(plant, t, cap))
<1> DEFINE x == ProRata(plant, t, cap)
<1>1. x = [s \in Sites |-> Least(Share(plant, t, cap)[s], Parts * cap[s])]
  BY DEF ProRata
<1>. HIDE DEF x
<1>2. ASSUME NEW s \in Sites
      PROVE  x[s] \in Nat /\ x[s] <= Share(plant, t, cap)[s] /\ (cap[s] = 0 => x[s] = 0)
  <2>1. Share(plant, t, cap)[s] \in Nat /\ cap[s] \in Nat /\ Parts \in Nat
    BY ShareIs, PartsPositive DEF IsCap
  <2>2. Parts * cap[s] \in Nat /\ (cap[s] = 0 => Parts * cap[s] = 0)
    BY <2>1
  <2>. QED  BY <1>1, <2>1, <2>2 DEF Least
<1>3. x \in [Sites -> Nat]
  BY <1>1, <1>2
<1>4. Within(plant, t, x)
  BY <1>2, <1>3, SharesAreWithin DEF IsCap
<1>. QED  BY <1>4 DEF x

\* Whole kilowatts that fit the headroom fit it in parts.
LEMMA OptimaAreWithin ==
    ASSUME NEW plant, IsPlant(plant), NEW t \in DOMAIN plant.base, NEW cap, IsCap(cap),
           NEW e \in Optima(plant, t, cap)
    PROVE  Within(plant, t, e)
<1>1. PICK x \in [Sites -> UNION {0..cap[s] : s \in Sites}] :
         Feasible(plant, t, x) /\ e = Fraction(Parts, x)
  BY DEF Optima
<1>2. x \in [Sites -> Nat]
  <2>1. ASSUME NEW s \in Sites PROVE 0..cap[s] \subseteq Nat
    BY DEF IsCap
  <2>. QED  BY <1>1, <2>1
<1>3. e = [s \in Sites |-> Parts * x[s]]
  BY <1>1 DEF Fraction
<1>4. e \in [Sites -> Nat]
  <2>1. \A s \in Sites : Parts * x[s] \in Nat
    BY <1>2, PartsPositive
  <2>. QED  BY <1>3, <2>1
<1>5. ASSUME NEW row \in Rows PROVE Used(plant, row, e) <= Parts * Headroom(plant, t, row)
  <2> DEFINE f == [s \in Sites |-> Sensitivity(plant, row, s) * x[s]]
             g == [s \in Sites |-> Sensitivity(plant, row, s) * e[s]]
             c == Used(plant, row, x)
             h == Headroom(plant, t, row)
  <2>1. c = SumFunctionOnSet(f, Sites) /\ c \in Nat /\ \A s \in Sites : f[s] \in Nat
    BY <1>2, UsedIs
  <2>2. Used(plant, row, e) = SumFunctionOnSet(g, Sites) /\ \A s \in Sites : g[s] \in Nat
    BY <1>4, UsedIs
  <2>3. c <= h /\ h \in Nat
    BY <1>1, HeadroomIs DEF Feasible
  <2>4. ASSUME NEW s \in Sites PROVE g[s] = Parts * f[s]
    <3> DEFINE a == Sensitivity(plant, row, s)
               y == x[s]
    <3>1. g[s] = a * (Parts * y) /\ f[s] = a * y /\ a \in Nat /\ y \in Nat /\ Parts \in Nat
      BY <1>2, <1>3, SensitivityIs, PartsPositive
    <3>. HIDE DEF a, y, g, f
    <3>2. a * (Parts * y) = Parts * (a * y)
      BY <3>1
    <3>. QED  BY <3>1, <3>2
  <2>. HIDE DEF f, g, c, h
  <2>5. Ints(f, Sites) /\ Ints(g, Sites) /\ Combines(g, Parts, f, 0, f, Sites)
    <3>1. \A s \in Sites : Parts * f[s] \in Int /\ 0 * f[s] = 0
      BY <2>1, PartsPositive
    <3>. QED  BY <2>1, <2>2, <2>4, <3>1 DEF Ints, Combines
  <2>6. SumFunctionOnSet(g, Sites) = Parts * SumFunctionOnSet(f, Sites) + 0 * SumFunctionOnSet(f, Sites)
    BY <2>5, SumIsLinear, EnvelopeAssumption, PartsPositive
  <2>7. Used(plant, row, e) = Parts * c
    <3>1. 0 * c = 0 /\ Parts * c \in Nat
      BY <2>1, PartsPositive
    <3>. QED  BY <2>1, <2>2, <2>6, <3>1
  <2>8. Parts * c <= Parts * h
    BY <2>1, <2>3, PartsPositive
  <2>. QED  BY <2>7, <2>8 DEF h
<1>. QED  BY <1>4, <1>5 DEF Within

\* One site given more takes at most that from what a row has left.
LEMMA OneMoreUsed ==
    ASSUME NEW plant, IsPlant(plant), NEW row \in Rows, NEW x \in [Sites -> Nat], NEW s \in Sites, NEW take \in Nat
    PROVE  /\ Used(plant, row, [x EXCEPT ![s] = take]) <= Used(plant, row, x) + Sensitivity(plant, row, s) * take
           /\ Sensitivity(plant, row, s) * take \in Nat
<1> DEFINE y == [x EXCEPT ![s] = take]
           f == [r \in Sites |-> Sensitivity(plant, row, r) * x[r]]
           g == [r \in Sites |-> Sensitivity(plant, row, r) * y[r]]
           a == Sensitivity(plant, row, s)
<1>1. y \in [Sites -> Nat] /\ y[s] = take /\ \A r \in Sites \ {s} : y[r] = x[r]
  OBVIOUS
<1>. HIDE DEF y
<1>2. Used(plant, row, x) = SumFunctionOnSet(f, Sites) /\ \A r \in Sites : f[r] \in Nat
  BY UsedIs
<1>3. Used(plant, row, y) = SumFunctionOnSet(g, Sites) /\ \A r \in Sites : g[r] \in Nat
  BY <1>1, UsedIs
<1>4. g[s] = a * take /\ f[s] \in Nat /\ \A r \in Sites \ {s} : f[r] = g[r]
  BY <1>1, <1>2
<1>5. a \in Nat
  BY SensitivityIs
<1>. HIDE DEF f, g, a
<1>6. Ints(f, Sites) /\ Ints(g, Sites) /\ Ints(f, Sites \ {s})
  BY <1>2, <1>3 DEF Ints
<1>7. IsFiniteSet(Sites \ {s})
  BY EnvelopeAssumption, FS_Subset
<1>8. SumFunctionOnSet(f, Sites) = f[s] + SumFunctionOnSet(f, Sites \ {s})
  BY <1>6, SumWithout, EnvelopeAssumption
<1>9. SumFunctionOnSet(g, Sites) = g[s] + SumFunctionOnSet(g, Sites \ {s})
  BY <1>6, SumWithout, EnvelopeAssumption
<1>10. SumFunctionOnSet(f, Sites \ {s}) = SumFunctionOnSet(g, Sites \ {s})
  BY <1>4, <1>6, <1>7, SumIsLocal
<1>11. SumFunctionOnSet(f, Sites \ {s}) \in Int
  BY <1>6, <1>7, SumIsInt
<1>12. a * take \in Nat
  BY <1>5
<1>13. Used(plant, row, y) <= Used(plant, row, x) + a * take
  BY <1>2, <1>3, <1>4, <1>8, <1>9, <1>10, <1>11, <1>12
<1>. QED  BY <1>12, <1>13 DEF y, a

\* What greedy has given and what it has left never exceed the headroom.
Balanced(plant, t) ==
    {acc \in [given : [Sites -> Nat], left : [Rows -> Nat]] :
        \A row \in Rows : Used(plant, row, acc.given) + acc.left[row] <= Parts * Headroom(plant, t, row)}

LEMMA GiveBalances ==
    ASSUME NEW plant, IsPlant(plant), NEW t \in DOMAIN plant.base, NEW cap, IsCap(cap),
           NEW acc \in Balanced(plant, t), NEW s \in Sites
    PROVE  Give(plant, cap, acc, s) \in Balanced(plant, t)
<1> DEFINE binding == {row \in Rows : Sensitivity(plant, row, s) > 0}
           q == [row \in Rows |-> acc.left[row] \div Sensitivity(plant, row, s)]
           room == {acc.left[row] \div Sensitivity(plant, row, s) : row \in binding}
           take == Min(room \union {Parts * cap[s]})
           given == [acc.given EXCEPT ![s] = take]
           left == [row \in Rows |-> Positive(acc.left[row] - Sensitivity(plant, row, s) * take)]
<1>1. Give(plant, cap, acc, s) = [given |-> given, left |-> left]
  BY DEF Give
<1>2. /\ acc.given \in [Sites -> Nat] /\ acc.left \in [Rows -> Nat]
      /\ \A row \in Rows : Used(plant, row, acc.given) + acc.left[row] <= Parts * Headroom(plant, t, row)
  BY DEF Balanced
<1>3. \A row \in Rows : Sensitivity(plant, row, s) \in Nat
  BY SensitivityIs
<1>4. ASSUME NEW row \in binding
      PROVE  /\ q[row] \in Nat /\ Sensitivity(plant, row, s) * q[row] <= acc.left[row]
             /\ Sensitivity(plant, row, s) \in Nat \ {0} /\ row \in Rows
  <2>. DEFINE n == acc.left[row]
              d == Sensitivity(plant, row, s)
  <2>1. n \in Nat /\ d \in Nat \ {0} /\ row \in Rows
    <3>1. row \in Rows /\ d > 0
      OBVIOUS
    <3>. QED  BY <1>2, <1>3, <3>1
  <2>2. q[row] = n \div d
    BY <2>1
  <2>. HIDE DEF n, d, q
  <2>3. n \div d \in Nat /\ d * (n \div d) <= n
    BY <2>1
  <2>. QED  BY <2>1, <2>2, <2>3 DEF n, d
<1>5. room = {q[row] : row \in binding}
  OBVIOUS
<1>6. Parts * cap[s] \in Nat
  BY PartsPositive DEF IsCap
<1>7. take \in Nat /\ \A row \in binding : take <= q[row]
  <2> DEFINE U == room \union {Parts * cap[s]}
  <2>1. U \in SUBSET Nat /\ U # {} /\ U \in SUBSET Int
    <3>. HIDE DEF q, binding, room
    <3>1. room \in SUBSET Nat
      BY <1>4, <1>5
    <3>2. {Parts * cap[s]} \in SUBSET Nat
      BY <1>6
    <3>3. Parts * cap[s] \in U
      OBVIOUS
    <3>4. U \in SUBSET Nat
      BY <3>1, <3>2
    <3>5. Nat \in SUBSET Int
      OBVIOUS
    <3>. HIDE DEF U
    <3>6. U \in SUBSET Int
      BY <3>4, <3>5
    <3>. QED  BY <3>3, <3>4, <3>6
  <2>2. IsFiniteSet(U)
    <3>1. IsFiniteSet(binding)
      BY EnvelopeAssumption, FS_Subset
    <3>. HIDE DEF q, binding
    <3>2. IsFiniteSet({q[row] : row \in binding})
      BY <3>1, ImageIsFinite
    <3>3. IsFiniteSet(room)
      BY <1>5, <3>2
    <3>. HIDE DEF room
    <3>. QED  BY <3>3, FS_AddElement
  <2>3. \A row \in binding : q[row] \in U
    BY <1>5
  <2>. HIDE DEF U, q, binding
  <2>4. Min(U) \in U /\ \A y \in U : Min(U) <= y
    BY <2>1, <2>2, LeastExists
  <2>. QED  BY <2>1, <2>3, <2>4 DEF U
<1>. HIDE DEF take
<1>8. given \in [Sites -> Nat]
  BY <1>2, <1>7
<1>9. ASSUME NEW row \in Rows
      PROVE  left[row] \in Nat /\ Used(plant, row, given) + left[row] <= Parts * Headroom(plant, t, row)
  <2> DEFINE a == Sensitivity(plant, row, s)
             l == acc.left[row]
             u == Used(plant, row, acc.given)
             v == Used(plant, row, given)
             p == Parts * Headroom(plant, t, row)
  <2>1. v <= u + a * take /\ a * take \in Nat
    BY <1>2, <1>7, OneMoreUsed
  <2>2. u \in Nat /\ v \in Nat
    BY <1>2, <1>8, UsedIs
  <2>3. a \in Nat /\ l \in Nat /\ u + l <= p
    BY <1>2, <1>3
  <2>4. p \in Nat
    <3>1. Headroom(plant, t, row) \in Nat
      BY HeadroomIs
    <3>. QED  BY <3>1, PartsPositive
  <2>5. left[row] = Positive(l - a * take)
    OBVIOUS
  <2>6. a * take <= l
    <3>1. CASE row \in binding
      <4>. DEFINE k == q[row]
      <4>1. k \in Nat /\ a * k <= l /\ take <= k
        BY <1>4, <1>7, <3>1
      <4>. HIDE DEF k, a, l
      <4>2. a * take <= a * k /\ a * k \in Nat
        BY <1>7, <2>3, <4>1
      <4>. QED  BY <2>1, <2>3, <4>1, <4>2
    <3>2. CASE row \notin binding
      <4>1. a = 0
        BY <2>3, <3>2
      <4>. HIDE DEF a
      <4>. QED  BY <1>7, <2>3, <4>1
    <3>. QED  BY <3>1, <3>2
  <2>. HIDE DEF a, l, u, v, p, left
  <2>7. left[row] = l - a * take
    BY <2>1, <2>3, <2>5, <2>6 DEF Positive
  <2>8. left[row] \in Nat /\ v + left[row] <= p
    BY <2>1, <2>2, <2>3, <2>4, <2>6, <2>7
  <2>. QED  BY <2>8 DEF v, p
<1>10. left \in [Rows -> Nat]
  <2>1. \A row \in Rows : left[row] \in Nat
    BY <1>9
  <2>. QED  BY <2>1
<1>. HIDE DEF given, left
<1>11. [given |-> given, left |-> left] \in Balanced(plant, t)
  BY <1>8, <1>9, <1>10 DEF Balanced
<1>. QED  BY <1>1, <1>11

LEMMA GreedyIsWithin ==
    ASSUME NEW plant, IsPlant(plant), NEW t \in DOMAIN plant.base, NEW cap, IsCap(cap), NEW order \in Orders(plant)
    PROVE  Within(plant, t, Greedy(plant, t, cap, order))
<1> DEFINE n == Cardinality(Sites)
           D == Balanced(plant, t)
           start == [given |-> NoExport, left |-> [row \in Rows |-> Parts * Headroom(plant, t, row)]]
           F == [k \in Nat |-> [acc \in D |-> IF k < n THEN Give(plant, cap, acc, order[k + 1]) ELSE acc]]
           Gives(h) == h = [k \in 0..n |-> IF k = 0 THEN start ELSE Give(plant, cap, h[k - 1], order[k])]
<1>1. n \in Nat /\ \A k \in 1..n : order[k] \in Sites
  <2>1. n \in Nat
    BY EnvelopeAssumption, FS_CardinalityType
  <2>2. order \in [1..n -> Sites]
    BY DEF Orders
  <2>. QED  BY <2>1, <2>2
<1>2. start \in D
  <2>1. ASSUME NEW row \in Rows
        PROVE Parts * Headroom(plant, t, row) \in Nat /\ Used(plant, row, NoExport) = 0
    <3>1. Headroom(plant, t, row) \in Nat /\ Parts \in Nat
      BY HeadroomIs, PartsPositive
    <3> DEFINE f == [s \in Sites |-> Sensitivity(plant, row, s) * NoExport[s]]
    <3>2. NoExport \in [Sites -> Nat]
      BY NothingAdded
    <3>3. Used(plant, row, NoExport) = SumFunctionOnSet(f, Sites)
      BY <3>2, UsedIs
    <3>4. \A s \in Sites : f[s] = 0
      BY SensitivityIs DEF NoExport
    <3>. HIDE DEF f
    <3>5. SumFunctionOnSet(f, Sites) = 0 * Cardinality(Sites)
      BY <3>4, SumOfConstant, EnvelopeAssumption
    <3>. QED  BY <1>1, <3>1, <3>3, <3>5
  <2>2. start.given \in [Sites -> Nat] /\ start.left \in [Rows -> Nat]
    <3>1. NoExport \in [Sites -> Nat]
      BY DEF NoExport
    <3>2. [row \in Rows |-> Parts * Headroom(plant, t, row)] \in [Rows -> Nat]
      BY <2>1
    <3>. QED  BY <3>1, <3>2
  <2>3. \A row \in Rows : Used(plant, row, start.given) + start.left[row] <= Parts * Headroom(plant, t, row)
    BY <2>1
  <2>. QED  BY <2>2, <2>3 DEF Balanced
<1>3. ASSUME NEW k \in 1..n, NEW acc \in D PROVE Give(plant, cap, acc, order[k]) \in D
  BY <1>1, <1>3, GiveBalances
<1>. HIDE DEF D, start, n
<1>4. StaysIn(F, D)
  <2>1. ASSUME NEW k \in Nat PROVE F[k] \in [D -> D]
    <3>1. k < n => k + 1 \in 1..n
      BY <1>1
    <3>. QED  BY <1>3, <3>1
  <2>. HIDE DEF F
  <2>. QED  BY <2>1 DEF StaysIn
<1>5. \E g \in [Nat -> D] : Recursion(g, start, F)
  <2>. HIDE DEF F
  <2>. QED  BY <1>2, <1>4, RecursionExists
<1>6. PICK g \in [Nat -> D] : Recursion(g, start, F)
  BY <1>5
<1>7. g[0] = start /\ \A k \in Nat : g[k + 1] = F[k][g[k]]
  <2>. HIDE DEF F
  <2>. QED  BY <1>6 DEF Recursion
<1> DEFINE f == [k \in 0..n |-> g[k]]
<1>8. Gives(f)
  <2>1. ASSUME NEW k \in 0..n
        PROVE  f[k] = IF k = 0 THEN start ELSE Give(plant, cap, f[k - 1], order[k])
    <3>1. CASE k = 0
      BY <1>7, <3>1
    <3>2. CASE k # 0
      <4>1. k - 1 \in Nat /\ k - 1 \in 0..n /\ (k - 1) + 1 = k /\ k - 1 < n
        BY <1>1, <3>2
      <4>2. g[k] = F[k - 1][g[k - 1]] /\ g[k - 1] \in D
        BY <1>7, <4>1
      <4>3. g[k] = Give(plant, cap, g[k - 1], order[k])
        BY <4>1, <4>2
      <4>. QED  BY <3>2, <4>1, <4>3
    <3>. QED  BY <3>1, <3>2
  <2>. QED  BY <2>1
<1> DEFINE h == CHOOSE e : Gives(e)
           T == {k \in Nat : k <= n => h[k] \in D}
<1>9. Gives(h)
  <2>. HIDE DEF Gives, f
  <2>. QED  BY <1>8
<1>10. Greedy(plant, t, cap, order) = h[n].given
  BY DEF Greedy, start, n
<1>. HIDE DEF h, F, f
<1>11. 0 \in T
  BY <1>1, <1>2, <1>9
<1>12. ASSUME NEW k \in Nat, k \in T PROVE k + 1 \in T
  <2>. SUFFICES ASSUME k + 1 <= n PROVE h[k + 1] \in D
    OBVIOUS
  <2>1. k + 1 \in 1..n /\ k + 1 \in 0..n /\ (k + 1) - 1 = k /\ k + 1 # 0 /\ k <= n
    BY <1>1
  <2>2. h[k + 1] = Give(plant, cap, h[k], order[k + 1])
    BY <1>9, <2>1
  <2>3. h[k] \in D
    BY <1>12, <2>1
  <2>. QED  BY <1>3, <2>1, <2>2, <2>3
<1>. HIDE DEF T, Gives
<1>13. Nat \subseteq T
  BY <1>11, <1>12, NatIsBuiltUp
<1>14. h[n] \in D
  BY <1>1, <1>13 DEF T
<1>15. /\ h[n].given \in [Sites -> Nat] /\ h[n].left \in [Rows -> Nat]
       /\ \A row \in Rows : Used(plant, row, h[n].given) + h[n].left[row] <= Parts * Headroom(plant, t, row)
  BY <1>14 DEF D, Balanced
<1>16. ASSUME NEW row \in Rows PROVE Used(plant, row, h[n].given) <= Parts * Headroom(plant, t, row)
  <2>1. Used(plant, row, h[n].given) \in Nat /\ h[n].left[row] \in Nat
    BY <1>15, UsedIs
  <2>2. Parts * Headroom(plant, t, row) \in Nat
    <3>1. Headroom(plant, t, row) \in Nat
      BY HeadroomIs
    <3>. QED  BY <3>1, PartsPositive
  <2>. QED  BY <1>15, <2>1, <2>2
<1>17. Within(plant, t, h[n].given)
  BY <1>15, <1>16 DEF Within
<1>. QED  BY <1>10, <1>17

\* The search ends at a fraction that violates nothing, and the next one up
\* violates, unless that is the whole capability: for any network and number of
\* steps it loses at most one step of its resolution (compute_envelopes).
THEOREM SearchIsTight ==
    ASSUME NEW plant, NEW t, NEW cap, IsCap(cap), ~Violates(plant, t, NoExport)
    PROVE  /\ Search(plant, t, cap) \in Nat
           /\ ~Violates(plant, t, Fraction(Search(plant, t, cap), cap))
           /\ \/ Search(plant, t, cap) + 1 = Parts
              \/ Violates(plant, t, Fraction(Search(plant, t, cap) + 1, cap))
<1> DEFINE D == {p \in Nat \X Nat : ~Violates(plant, t, Fraction(p[1], cap))}
           mid(p) == (p[1] + p[2]) \div 2
           half(p) == IF Violates(plant, t, Fraction(mid(p), cap)) THEN <<p[1], mid(p)>> ELSE <<mid(p), p[2]>>
           start == <<0, Parts>>
           F == [k \in Nat |-> [p \in D |-> half(p)]]
           Halves(h) == h = [k \in Nat |->
                               IF k = 0 THEN <<0, Parts>>
                               ELSE LET m == (h[k - 1][1] + h[k - 1][2]) \div 2
                                    IN IF Violates(plant, t, Fraction(m, cap)) THEN <<h[k - 1][1], m>>
                                       ELSE <<m, h[k - 1][2]>>]
<1>1. start \in D
  <2>1. Fraction(0, cap) = NoExport
    <3>1. \A s \in Sites : 0 * cap[s] = 0
      BY DEF IsCap
    <3>. QED  BY <3>1 DEF Fraction, NoExport
  <2>2. Parts \in Nat
    BY PartsPositive
  <2>. QED  BY <2>1, <2>2
<1>2. ASSUME NEW p \in D PROVE half(p) \in D
  <2>1. p[1] \in Nat /\ p[2] \in Nat /\ ~Violates(plant, t, Fraction(p[1], cap))
    OBVIOUS
  <2>2. mid(p) \in Nat
    BY <2>1
  <2>. DEFINE m == mid(p)
  <2>. HIDE DEF m
  <2>3. CASE Violates(plant, t, Fraction(m, cap))
    BY <2>1, <2>2, <2>3 DEF m
  <2>4. CASE ~Violates(plant, t, Fraction(m, cap))
    BY SMTT(30), <2>1, <2>2, <2>4 DEF m
  <2>. QED  BY <2>3, <2>4
<1>3. ASSUME NEW h, NEW k \in Nat PROVE Halves(h) => h[k] = IF k = 0 THEN start ELSE half(h[k - 1])
  OBVIOUS
<1>4. \A g : (\A k \in Nat : g[k] = IF k = 0 THEN start ELSE half(g[k - 1])) /\ g = [k \in Nat |-> g[k]] => Halves(g)
  OBVIOUS
<1>. HIDE DEF half, mid, start, Halves
<1>5. StaysIn(F, D)
  <2>1. ASSUME NEW k \in Nat PROVE F[k] \in [D -> D]
    BY <1>2
  <2>. HIDE DEF F, D
  <2>. QED  BY <2>1 DEF StaysIn
<1>6. \E g \in [Nat -> D] : Recursion(g, start, F)
  <2>. HIDE DEF F, D
  <2>. QED  BY <1>1, <1>5, RecursionExists
<1>7. PICK g \in [Nat -> D] : Recursion(g, start, F)
  BY <1>6
<1>8. Halves(g)
  <2>1. ASSUME NEW k \in Nat PROVE g[k] = IF k = 0 THEN start ELSE half(g[k - 1])
    <3>1. CASE k = 0
      BY <1>7, <3>1 DEF Recursion
    <3>2. CASE k # 0
      <4>1. k - 1 \in Nat /\ (k - 1) + 1 = k
        BY <3>2
      <4>2. g[(k - 1) + 1] = F[k - 1][g[k - 1]] /\ g[k - 1] \in D
        <5>. HIDE DEF F, D
        <5>. QED  BY <1>7, <4>1 DEF Recursion
      <4>3. F[k - 1][g[k - 1]] = half(g[k - 1])
        BY <4>1, <4>2
      <4>. QED  BY <3>2, <4>1, <4>2, <4>3
    <3>. QED  BY <3>1, <3>2
  <2>2. g = [k \in Nat |-> g[k]]
    <3>. HIDE DEF D
    <3>. QED  OBVIOUS
  <2>. QED  BY <1>4, <2>1, <2>2
<1> DEFINE h == CHOOSE e : Halves(e)
           Closed(p) == p[2] = Parts \/ Violates(plant, t, Fraction(p[2], cap))
<1>9. Halves(h)
  BY <1>8
<1>10. Search(plant, t, cap) = h[SearchSteps][1]
  BY DEF Search, Halves
<1>11. PICK width : /\ width[0] = 1 /\ Parts = width[SearchSteps]
                   /\ \A n \in Nat : width[n] \in Nat \ {0} /\ width[n + 1] = 2 * width[n]
  BY PartsArePowers
<1> DEFINE T == {k \in Nat : k <= SearchSteps =>
                    h[k] \in D /\ h[k][2] = h[k][1] + width[SearchSteps - k] /\ Closed(h[k])}
<1>. HIDE DEF h, F
<1>12. SearchSteps \in Nat
  BY EnvelopeAssumption
<1>13. 0 \in T
  <2>1. h[0] = start /\ start[1] = 0 /\ start[2] = Parts /\ Closed(start)
    BY <1>3, <1>9 DEF start
  <2>2. width[SearchSteps - 0] = Parts /\ 0 + Parts = Parts
    <3>1. SearchSteps - 0 = SearchSteps
      BY <1>12
    <3>2. 0 + Parts = Parts
      BY PartsPositive
    <3>. QED  BY <1>11, <3>1, <3>2
  <2>. QED  BY <1>1, <2>1, <2>2
<1>14. ASSUME NEW k \in Nat, k \in T PROVE k + 1 \in T
  <2>. SUFFICES ASSUME k + 1 <= SearchSteps
                PROVE  /\ h[k + 1] \in D /\ Closed(h[k + 1])
                       /\ h[k + 1][2] = h[k + 1][1] + width[SearchSteps - (k + 1)]
    OBVIOUS
  <2> DEFINE lo == h[k][1]
             hi == h[k][2]
             w == width[SearchSteps - (k + 1)]
  <2>1. k + 1 \in Nat /\ k + 1 # 0 /\ (k + 1) - 1 = k /\ k <= SearchSteps
    BY <1>12
  <2>2. h[k + 1] = half(h[k])
    BY <1>3, <1>9, <2>1
  <2>3. h[k] \in D /\ hi = lo + width[SearchSteps - k] /\ Closed(h[k])
    BY <1>14, <2>1
  <2>4. SearchSteps - (k + 1) \in Nat /\ (SearchSteps - (k + 1)) + 1 = SearchSteps - k
    BY <1>12
  <2>5. w \in Nat /\ width[SearchSteps - k] = 2 * w
    BY <1>11, <2>4
  <2>6. lo \in Nat /\ hi \in Nat
    BY <2>3
  <2>7. mid(h[k]) = lo + w
    <3>1. mid(h[k]) = (lo + hi) \div 2
      BY DEF mid
    <3>. HIDE DEF lo, hi, w
    <3>2. (lo + hi) \div 2 = lo + w
      BY SMTT(30), <2>3, <2>5, <2>6
    <3>. QED  BY <3>1, <3>2
  <2>8. half(h[k]) \in D
    BY <1>2, <2>3
  <2>. HIDE DEF w, D
  <2>9. CASE Violates(plant, t, Fraction(mid(h[k]), cap))
    <3>1. half(h[k])[1] = lo /\ half(h[k])[2] = mid(h[k])
      BY <2>9 DEF half
    <3>. QED  BY <2>2, <2>7, <2>8, <2>9, <3>1 DEF w
  <2>10. CASE ~Violates(plant, t, Fraction(mid(h[k]), cap))
    <3>1. half(h[k])[1] = mid(h[k]) /\ half(h[k])[2] = hi
      BY <2>10 DEF half
    <3>2. hi = (lo + w) + w
      <4>. HIDE DEF lo, hi
      <4>. QED  BY <2>3, <2>5, <2>6
    <3>. QED  BY <2>2, <2>3, <2>7, <2>8, <3>1, <3>2 DEF w
  <2>. QED  BY <2>9, <2>10
<1>. HIDE DEF T
<1>15. Nat \subseteq T
  BY <1>13, <1>14, NatIsBuiltUp
<1>16. h[SearchSteps] \in D /\ h[SearchSteps][2] = h[SearchSteps][1] + 1 /\ Closed(h[SearchSteps])
  <2>1. SearchSteps \in T /\ SearchSteps - SearchSteps = 0 /\ SearchSteps <= SearchSteps
    BY <1>12, <1>15
  <2>. HIDE DEF D, Closed
  <2>. QED  BY <1>11, <2>1 DEF T
<1>. QED  BY <1>10, <1>16

LEMMA SearchedKeeps ==
    ASSUME NEW plant, IsPlant(plant), NEW t \in DOMAIN plant.base, NEW cap, IsCap(cap), NEW row \in Rows
    PROVE  Kept(plant, t, row, Searched(plant, t, cap))
<1> DEFINE x == Searched(plant, t, cap)
<1>0. NoExport \in [Sites -> Int]
  BY NothingAdded
<1>1. CASE Violates(plant, t, NoExport)
  <2>1. x = NoExport /\ Reading(plant, t, NoExport, row) \in Int
    BY <1>0, <1>1, ReadingIs DEF Searched
  <2>. HIDE DEF x
  <2>2. Reading(plant, t, x, row) <= Reading(plant, t, NoExport, row)
    BY <2>1
  <2>. QED  BY <2>2 DEF Kept, x
<1>2. CASE ~Violates(plant, t, NoExport)
  <2> DEFINE k == Search(plant, t, cap)
  <2>1. k \in Nat /\ ~Violates(plant, t, Fraction(k, cap)) /\ x = Fraction(k, cap)
    BY <1>2, SearchIsTight DEF Searched
  <2>. HIDE DEF k, x
  <2>2. x \in [Sites -> Int]
    <3>1. \A s \in Sites : k * cap[s] \in Int
      BY <2>1 DEF IsCap
    <3>. QED  BY <2>1, <3>1 DEF Fraction
  <2>3. ~(Reading(plant, t, x, row) > Parts * plant.limit[row])
    BY <2>1 DEF Violates
  <2>4. Reading(plant, t, x, row) \in Int /\ plant.limit[row] \in Int
    BY <2>2, ReadingIs
  <2>5. Parts * plant.limit[row] \in Int
    BY <2>4, PartsPositive
  <2>6. Reading(plant, t, x, row) <= Parts * plant.limit[row]
    BY <2>3, <2>4, <2>5
  <2>. QED  BY <2>6 DEF Kept, x
<1>. QED  BY <1>1, <1>2

\* Every limit that a dynamic scheme may give keeps every row; the linearised
\* method those that export does not relieve.
LEMMA LimitsKeep ==
    ASSUME NEW plant, IsPlant(plant), NEW t \in DOMAIN plant.base, NEW cap, IsCap(cap),
           NEW method \in {"sensitivity", "search"}, NEW allocation \in {"equal", "prorata", "max_total"},
           NEW x \in Limits(plant, t, cap, method, allocation), NEW row \in Rows
    PROVE  (method = "sensitivity" /\ Relieved(plant, row)) \/ Kept(plant, t, row, x)
<1>1. CASE method = "search"
  <2>1. x = Searched(plant, t, cap)
    BY <1>1 DEF Limits
  <2>. QED  BY <2>1, SearchedKeeps
<1>2. CASE method = "sensitivity"
  <2>1. Within(plant, t, x)
    <3>1. CASE allocation = "equal"
      <4>1. x = Equal(plant, t, cap)
        BY <1>2, <3>1 DEF Limits
      <4>. QED  BY <4>1, EqualIsWithin
    <3>2. CASE allocation = "prorata"
      <4>1. x = ProRata(plant, t, cap)
        BY <1>2, <3>2 DEF Limits
      <4>. QED  BY <4>1, ProRataIsWithin
    <3>3. CASE allocation = "max_total"
      <4>1. x \in Optima(plant, t, cap) \/ \E o \in Orders(plant) : x = Greedy(plant, t, cap, o)
        BY <1>2, <3>3 DEF Limits
      <4>. QED  BY <4>1, OptimaAreWithin, GreedyIsWithin
    <3>. QED  BY <3>1, <3>2, <3>3
  <2>. QED  BY <1>2, <2>1, WithinIsKept
<1>. QED  BY <1>1, <1>2

LEMMA CarriedLimitsKeep == CarryInv => EnvelopesNeverWorsen
<1>. SUFFICES ASSUME CarryInv, NEW s \in Threads,
                     job[s].at = "coordinating", job[s].given # Absent, job[s].req.doe.mode = "dynamic",
                     NEW t \in DOMAIN job[s].given.plant.base, NEW row \in Rows
              PROVE  (job[s].req.doe.method = "sensitivity" /\ Relieved(job[s].given.plant, row))
                     \/ Kept(job[s].given.plant, t, row, job[s].given.limits[t])
  BY DEF EnvelopesNeverWorsen, Kept
<1> DEFINE req == job[s].req
           g == job[s].given
<1>1. g \in Given /\ g.req = req
  BY DEF CarryInv, Carries, Limited, InStudy, StudySteps
<1>2. PICK x \in Plants \X {r \in Requests : Enveloped(r)} :
         \E e \in Envelopes(x[1], x[2].profile.cap, x[2].doe) : g = [req |-> x[2], plant |-> x[1], limits |-> e]
  <2> DEFINE Of(x) == {[req |-> x[2], plant |-> x[1], limits |-> e] : e \in Envelopes(x[1], x[2].profile.cap, x[2].doe)}
             S == Plants \X {r \in Requests : Enveloped(r)}
  <2>1. Given = UNION {Of(x) : x \in S}
    BY DEF Given
  <2>. HIDE DEF g, Of, S
  <2>2. PICK x \in S : g \in Of(x)
    BY <1>1, <2>1
  <2>3. \E e \in Envelopes(x[1], x[2].profile.cap, x[2].doe) : g = [req |-> x[2], plant |-> x[1], limits |-> e]
    BY <2>2 DEF Of
  <2>. QED  BY <2>3 DEF S
<1>. HIDE DEF g, req
<1>3. /\ g.plant \in Plants /\ req \in Requests /\ Enveloped(req)
      /\ g.limits \in Envelopes(g.plant, req.profile.cap, req.doe)
  BY <1>1, <1>2
<1>4. /\ IsPlant(g.plant) /\ IsCap(req.profile.cap) /\ req.doe.method \in {"sensitivity", "search"}
      /\ req.doe.allocation \in {"equal", "prorata", "max_total"}
  BY <1>3, StudyAssumption DEF IsCap, Enveloped, req
<1>5. t \in DOMAIN g.plant.base
  BY DEF g
<1>6. g.limits[t] \in Limits(g.plant, t, req.profile.cap, req.doe.method, req.doe.allocation)
  BY <1>3, <1>5 DEF Envelopes, req
<1>7. (req.doe.method = "sensitivity" /\ Relieved(g.plant, row)) \/ Kept(g.plant, t, row, g.limits[t])
  BY <1>4, <1>5, <1>6, LimitsKeep
<1>. QED  BY <1>7 DEF g, req

\* EnvelopesNeverWorsen for every linear network, every number of sites, rows,
\* intervals and search steps: dynamic limits that are used in full push no row
\* past its limit that was not past it already, and none of those further; the
\* linearised method, on the rows that some site's export relieves, is excepted
\* (control/envelopes.py).
THEOREM LimitsNeverWorsen == Spec => []EnvelopesNeverWorsen
<1>. QED  BY CarryHolds, CarriedLimitsKeep, PTL

LEMMA ValidIs ==
    ASSUME NEW steps, IsResult(steps)
    PROVE  IsResult(ConvergedOrAll(steps)) /\ ConvergedOf(steps) \subseteq DOMAIN steps
<1> DEFINE C == ConvergedOf(steps)
           valid == Some(steps, C)
<1>1. C \subseteq DOMAIN steps
  BY DEF ConvergedOf
<1>2. IsResult(valid)
  <2>1. IsFiniteSet(C)
    BY <1>1, FS_Subset DEF IsResult
  <2>. HIDE DEF C
  <2>2. DOMAIN valid = C /\ \A i \in C : valid[i] = steps[i]
    BY DEF Some
  <2>. HIDE DEF valid
  <2>. QED  BY <1>1, <2>1, <2>2 DEF IsResult
<1>. QED  BY <1>1, <1>2 DEF ConvergedOrAll

\* The figures of all timesteps, by timestep and by key.
IsFamily(fam) ==
    /\ IsFiniteSet(DOMAIN fam)
    /\ \A i \in DOMAIN fam : IsFiniteSet(DOMAIN fam[i]) /\ \A k \in DOMAIN fam[i] : fam[i][k] \in Int

LEMMA FamiliesAre ==
    ASSUME NEW valid, IsResult(valid)
    PROVE  /\ IsFamily(Volts(valid)) /\ DOMAIN Volts(valid) = DOMAIN valid
           /\ IsFamily(Loadings(valid)) /\ DOMAIN Loadings(valid) = DOMAIN valid
           /\ \A i \in DOMAIN valid : Volts(valid)[i] = valid[i].volts /\ Loadings(valid)[i] = valid[i].loading
BY DEF IsResult, IsFamily, Volts, Loadings

LEMMA SeenIsFinite == ASSUME NEW fam, IsFamily(fam) PROVE IsFiniteSet(Seen(fam))
<1> DEFINE f == [i \in DOMAIN fam |-> DOMAIN fam[i]]
           S == {f[i] : i \in DOMAIN fam}
<1>1. IsFiniteSet(DOMAIN fam) /\ \A i \in DOMAIN fam : IsFiniteSet(f[i])
  BY DEF IsFamily
<1>2. Seen(fam) = UNION S
  BY DEF Seen
<1>. HIDE DEF f
<1>3. IsFiniteSet(S)
  BY <1>1, ImageIsFinite
<1>4. \A T \in S : IsFiniteSet(T)
  BY <1>1
<1>. HIDE DEF S
<1>5. IsFiniteSet(UNION S)
  BY <1>3, <1>4, FS_UNION
<1>. QED  BY <1>2, <1>5

LEMMA FiguresAre ==
    ASSUME NEW fam, IsFamily(fam), NEW k \in Seen(fam)
    PROVE  Figures(fam, k) \in SUBSET Int /\ IsFiniteSet(Figures(fam, k)) /\ Figures(fam, k) # {}
<1> DEFINE I == {i \in DOMAIN fam : k \in DOMAIN fam[i]}
           f == [i \in I |-> fam[i][k]]
<1>1. Figures(fam, k) = {f[i] : i \in I}
  BY DEF Figures
<1>2. IsFiniteSet(I) /\ I # {}
  <2>1. IsFiniteSet(DOMAIN fam) /\ I \subseteq DOMAIN fam
    BY DEF IsFamily
  <2>2. I # {}
    BY DEF Seen
  <2>. HIDE DEF I
  <2>. QED  BY <2>1, <2>2, FS_Subset
<1>3. \A i \in I : f[i] \in Int
  BY DEF IsFamily
<1>. HIDE DEF f, I
<1>4. IsFiniteSet({f[i] : i \in I})
  BY <1>2, ImageIsFinite
<1>. QED  BY <1>1, <1>2, <1>3, <1>4

\* The figures by timestep are the figures by key.
LEMMA AllFigures ==
    ASSUME NEW fam, IsFamily(fam), NEW keys
    PROVE  UNION {{fam[i][k] : k \in keys \intersect DOMAIN fam[i]} : i \in DOMAIN fam}
           = UNION {Figures(fam, k) : k \in keys \intersect Seen(fam)}
<1> DEFINE L == UNION {{fam[i][k] : k \in keys \intersect DOMAIN fam[i]} : i \in DOMAIN fam}
           R == UNION {Figures(fam, k) : k \in keys \intersect Seen(fam)}
<1>1. ASSUME NEW y PROVE y \in L <=> \E i \in DOMAIN fam : \E k \in keys \intersect DOMAIN fam[i] : y = fam[i][k]
  OBVIOUS
<1>2. ASSUME NEW k, NEW y
      PROVE  y \in Figures(fam, k) <=> \E i \in DOMAIN fam : k \in DOMAIN fam[i] /\ y = fam[i][k]
  BY DEF Figures
<1>3. ASSUME NEW k PROVE k \in Seen(fam) <=> \E i \in DOMAIN fam : k \in DOMAIN fam[i]
  BY DEF Seen
<1>4. ASSUME NEW y PROVE y \in R <=> \E k \in keys \intersect Seen(fam) : y \in Figures(fam, k)
  OBVIOUS
<1>. HIDE DEF L, R
<1>5. ASSUME NEW y PROVE y \in L <=> y \in R
  BY <1>1, <1>2, <1>3, <1>4
<1>6. L = R
  BY <1>5
<1>. QED  BY <1>6 DEF L, R

LEMMA FamilyExtremes ==
    ASSUME NEW fam, IsFamily(fam)
    PROVE  LET all == UNION {{fam[i][k] : k \in DOMAIN fam[i]} : i \in DOMAIN fam}
           IN /\ Max(all) = Max({Max(Figures(fam, k)) : k \in Seen(fam)})
              /\ Min(all) = Min({Min(Figures(fam, k)) : k \in Seen(fam)})
<1> DEFINE all == UNION {{fam[i][k] : k \in DOMAIN fam[i]} : i \in DOMAIN fam}
           K == Seen(fam)
           f == [k \in K |-> Figures(fam, k)]
<1>1. all = UNION {{fam[i][k] : k \in K \intersect DOMAIN fam[i]} : i \in DOMAIN fam}
  <2>1. \A i \in DOMAIN fam : K \intersect DOMAIN fam[i] = DOMAIN fam[i]
    BY DEF Seen
  <2>. HIDE DEF K
  <2>. QED  BY <2>1
<1>2. UNION {{fam[i][k] : k \in K \intersect DOMAIN fam[i]} : i \in DOMAIN fam}
      = UNION {Figures(fam, k) : k \in K \intersect Seen(fam)}
  <2>. HIDE DEF K
  <2>. QED  BY AllFigures
<1>3. K \intersect Seen(fam) = K
  OBVIOUS
<1>4. \A k \in K : f[k] = Figures(fam, k)
  OBVIOUS
<1>5. IsFiniteSet(K) /\ IntSets(f, K) /\ \A k \in K : f[k] # {}
  BY <1>4, SeenIsFinite, FiguresAre DEF IntSets
<1>. HIDE DEF all, f, K
<1>6. Max(United(f, K)) = Max(Greatests(f, K)) /\ Min(United(f, K)) = Min(Leasts(f, K))
  BY <1>5, ExtremesOfUnion
<1>7. /\ United(f, K) = UNION {Figures(fam, k) : k \in K}
      /\ Greatests(f, K) = {Max(Figures(fam, k)) : k \in K}
      /\ Leasts(f, K) = {Min(Figures(fam, k)) : k \in K}
  BY <1>4 DEF United, Greatests, Leasts
<1>8. all = United(f, K)
  BY <1>1, <1>2, <1>3, <1>7
<1>. QED  BY <1>6, <1>7, <1>8 DEF all, K

LEMMA FamilyPeak ==
    ASSUME NEW fam, IsFamily(fam), NEW keys
    PROVE  Max({0} \union UNION {{fam[i][k] : k \in keys \intersect DOMAIN fam[i]} : i \in DOMAIN fam})
           = Max({0} \union {Max({0} \union Figures(fam, k)) : k \in keys \intersect Seen(fam)})
<1> DEFINE all == UNION {{fam[i][k] : k \in keys \intersect DOMAIN fam[i]} : i \in DOMAIN fam}
           K == keys \intersect Seen(fam)
           f == [k \in K |-> Figures(fam, k)]
<1>1. all = UNION {Figures(fam, k) : k \in K}
  BY AllFigures
<1>2. IsFiniteSet(K) /\ K \subseteq Seen(fam)
  BY SeenIsFinite, FS_Subset
<1>3. \A k \in K : f[k] = Figures(fam, k)
  OBVIOUS
<1>. HIDE DEF all, f, K
<1>4. IntSets(f, K)
  BY <1>2, <1>3, FiguresAre DEF IntSets
<1>5. Max({0} \union United(f, K)) = Max({0} \union Peaks(f, K))
  BY <1>2, <1>4, PeakOfUnion
<1>6. /\ United(f, K) = UNION {Figures(fam, k) : k \in K}
      /\ Peaks(f, K) = {Max({0} \union Figures(fam, k)) : k \in K}
  BY <1>3 DEF United, Peaks
<1>. QED  BY <1>1, <1>5, <1>6 DEF all, K

ViolationsOf(f) == SumFunction([k \in DOMAIN f |-> f[k].violations])
Sizes(rel, I) == SumFunction([i \in I |-> Cardinality(rel[i])])
TellsOne(r, brs) ==
    /\ r.voltage_violation_rate[1] = ViolationsOf(r.buses) /\ r.thermal_violations = ViolationsOf(r.branches)
    /\ r.max_voltage = Max({r.buses[b].max : b \in DOMAIN r.buses})
    /\ r.min_voltage = Min({r.buses[b].min : b \in DOMAIN r.buses})
    /\ r.max_loading = Max({0} \union {r.branches[br].max : br \in DOMAIN r.branches})
    /\ r.max_transformer_loading = Max({0} \union {r.branches[br].max : br \in brs \intersect DOMAIN r.branches})

\* As many members of the timesteps' sets as timesteps of the members.
LEMMA ViolationsAgree ==
    ASSUME NEW I, IsFiniteSet(I), NEW J, IsFiniteSet(J), NEW rel, \A i \in I : rel[i] \in SUBSET J,
           NEW summary, DOMAIN summary = J,
           \A j \in J : summary[j].violations = Cardinality({i \in I : j \in rel[i]})
    PROVE  Sizes(rel, I) = ViolationsOf(summary)
<1> DEFINE u == [i \in I |-> Cardinality(rel[i])]
           v == [j \in J |-> summary[j].violations]
<1>1. /\ DOMAIN u = I /\ \A i \in I : u[i] = Cardinality(rel[i])
      /\ DOMAIN v = J /\ \A j \in J : v[j] = Cardinality({i \in I : j \in rel[i]})
  OBVIOUS
<1>. HIDE DEF u, v
<1>2. SumFunctionOnSet(u, I) = SumFunctionOnSet(v, J)
  BY <1>1, CountedBothWays
<1>3. SumFunction(u) = SumFunction(v)
  BY <1>1, <1>2, SumsOver
<1>. QED  BY <1>3 DEF u, v, Sizes, ViolationsOf

LEMMA IndicatorsTell ==
    ASSUME NEW valid, IsResult(valid), NEW converged, NEW tariff, NEW expected, NEW brs
    PROVE  TellsOne(Indicators(valid, converged, tariff, expected, brs), brs)
<1> DEFINE r == Indicators(valid, converged, tariff, expected, brs)
           I == DOMAIN valid
           V == Volts(valid)
           L == Loadings(valid)
           volts == UNION {{valid[i].volts[b] : b \in DOMAIN valid[i].volts} : i \in I}
           loadings(keys) == UNION {{valid[i].loading[br] : br \in keys \intersect DOMAIN valid[i].loading} : i \in I}
           low == [i \in I |-> OutOfBand(valid[i])]
           hot == [i \in I |-> Overloaded(valid[i])]
           buses == BusSummary(valid)
           branches == BranchSummary(valid)
<1>1. /\ r.max_voltage = Max(volts) /\ r.min_voltage = Min(volts)
      /\ r.max_loading = Max({0} \union loadings(Seen(L)))
      /\ r.max_transformer_loading = Max({0} \union loadings(brs))
      /\ r.voltage_violation_rate[1] = SumFunction([i \in I |-> Cardinality(OutOfBand(valid[i]))])
      /\ r.thermal_violations = SumFunction([i \in I |-> Cardinality(Overloaded(valid[i]))])
      /\ r.buses = buses /\ r.branches = branches
  BY DEF Indicators
<1>2. /\ IsFamily(V) /\ DOMAIN V = I /\ IsFamily(L) /\ DOMAIN L = I /\ IsFiniteSet(I)
      /\ \A i \in I : V[i] = valid[i].volts /\ L[i] = valid[i].loading
  BY FamiliesAre DEF IsResult
<1>3. /\ DOMAIN buses = Seen(V)
      /\ \A b \in Seen(V) : /\ buses[b].min = Min(Figures(V, b)) /\ buses[b].max = Max(Figures(V, b))
                            /\ buses[b].violations = Cardinality({i \in I : b \in low[i]})
  <2>1. \A b : {i \in I : b \in low[i]} = {i \in I : b \in OutOfBand(valid[i])}
    OBVIOUS
  <2>. HIDE DEF low
  <2>. QED  BY <2>1 DEF BusSummary
<1>4. /\ DOMAIN branches = Seen(L)
      /\ \A br \in Seen(L) : /\ branches[br].max = Max({0} \union Figures(L, br))
                             /\ branches[br].violations = Cardinality({i \in I : br \in hot[i]})
  <2>1. \A br : {i \in I : br \in hot[i]} = {i \in I : br \in Overloaded(valid[i])}
    OBVIOUS
  <2>. HIDE DEF hot
  <2>. QED  BY <2>1 DEF BranchSummary
<1>5. \A i \in I : low[i] \in SUBSET Seen(V) /\ hot[i] \in SUBSET Seen(L)
  <2>. SUFFICES ASSUME NEW i \in I PROVE low[i] \in SUBSET Seen(V) /\ hot[i] \in SUBSET Seen(L)
    OBVIOUS
  <2>1. DOMAIN valid[i].volts \subseteq Seen(V) /\ DOMAIN valid[i].loading \subseteq Seen(L)
    <3>. HIDE DEF V, L
    <3>. QED  BY <1>2 DEF Seen
  <2>. QED  BY <2>1 DEF OutOfBand, Overloaded
<1>6. /\ SumFunction([i \in I |-> Cardinality(OutOfBand(valid[i]))]) = Sizes(low, I)
      /\ SumFunction([i \in I |-> Cardinality(Overloaded(valid[i]))]) = Sizes(hot, I)
  <2>1. /\ [i \in I |-> Cardinality(OutOfBand(valid[i]))] = [i \in I |-> Cardinality(low[i])]
        /\ [i \in I |-> Cardinality(Overloaded(valid[i]))] = [i \in I |-> Cardinality(hot[i])]
    OBVIOUS
  <2>. QED  BY <2>1 DEF Sizes
<1>7. /\ volts = UNION {{V[i][b] : b \in DOMAIN V[i]} : i \in DOMAIN V}
      /\ \A keys : loadings(keys) = UNION {{L[i][br] : br \in keys \intersect DOMAIN L[i]} : i \in DOMAIN L}
  <2>. HIDE DEF V, L
  <2>. QED  BY <1>2
<1>. HIDE DEF r, I, V, L, volts, loadings, low, hot, buses, branches
<1>8. IsFiniteSet(Seen(V)) /\ IsFiniteSet(Seen(L))
  BY <1>2, SeenIsFinite
<1>9. r.voltage_violation_rate[1] = ViolationsOf(r.buses) /\ r.thermal_violations = ViolationsOf(r.branches)
  <2>1. Sizes(low, I) = ViolationsOf(buses)
    <3>1. /\ IsFiniteSet(I) /\ IsFiniteSet(Seen(V)) /\ DOMAIN buses = Seen(V)
          /\ \A i \in I : low[i] \in SUBSET Seen(V)
          /\ \A j \in Seen(V) : buses[j].violations = Cardinality({i \in I : j \in low[i]})
      BY <1>2, <1>3, <1>5, <1>8
    <3>. QED  BY <3>1, ViolationsAgree
  <2>2. Sizes(hot, I) = ViolationsOf(branches)
    <3>1. /\ IsFiniteSet(I) /\ IsFiniteSet(Seen(L)) /\ DOMAIN branches = Seen(L)
          /\ \A i \in I : hot[i] \in SUBSET Seen(L)
          /\ \A j \in Seen(L) : branches[j].violations = Cardinality({i \in I : j \in hot[i]})
      BY <1>2, <1>4, <1>5, <1>8
    <3>. QED  BY <3>1, ViolationsAgree
  <2>. QED  BY <1>1, <1>6, <2>1, <2>2
<1>10. /\ r.max_voltage = Max({r.buses[b].max : b \in DOMAIN r.buses})
       /\ r.min_voltage = Min({r.buses[b].min : b \in DOMAIN r.buses})
  <2>1. /\ {buses[b].max : b \in DOMAIN buses} = {Max(Figures(V, b)) : b \in Seen(V)}
        /\ {buses[b].min : b \in DOMAIN buses} = {Min(Figures(V, b)) : b \in Seen(V)}
    BY <1>3
  <2>2. /\ Max(volts) = Max({Max(Figures(V, b)) : b \in Seen(V)})
        /\ Min(volts) = Min({Min(Figures(V, b)) : b \in Seen(V)})
    BY <1>2, <1>7, FamilyExtremes
  <2>. QED  BY <1>1, <2>1, <2>2
<1>11. ASSUME NEW keys
       PROVE  Max({0} \union loadings(keys)) = Max({0} \union {branches[br].max : br \in keys \intersect Seen(L)})
  <2>1. {branches[br].max : br \in keys \intersect Seen(L)}
        = {Max({0} \union Figures(L, br)) : br \in keys \intersect Seen(L)}
    BY <1>4
  <2>2. Max({0} \union UNION {{L[i][br] : br \in keys \intersect DOMAIN L[i]} : i \in DOMAIN L})
        = Max({0} \union {Max({0} \union Figures(L, br)) : br \in keys \intersect Seen(L)})
    BY <1>2, FamilyPeak
  <2>. QED  BY <1>7, <2>1, <2>2
<1>12. Seen(L) \intersect Seen(L) = DOMAIN r.branches /\ DOMAIN r.branches = Seen(L) /\ r.branches = branches
  BY <1>1, <1>4
<1>13. /\ r.max_loading = Max({0} \union {r.branches[br].max : br \in DOMAIN r.branches})
       /\ r.max_transformer_loading = Max({0} \union {r.branches[br].max : br \in brs \intersect DOMAIN r.branches})
  <2>1. Max({0} \union loadings(Seen(L))) = Max({0} \union {branches[br].max : br \in Seen(L) \intersect Seen(L)})
    BY <1>11
  <2>2. Max({0} \union loadings(brs)) = Max({0} \union {branches[br].max : br \in brs \intersect Seen(L)})
    BY <1>11
  <2>. QED  BY <1>1, <1>12, <2>1, <2>2
<1>. QED  BY <1>9, <1>10, <1>13 DEF r, TellsOne

Recounted(steps, tariff, expected, brs) ==
    [Report(Some(steps, ConvergedOf(steps)), tariff, expected, brs) EXCEPT
        !.converged = <<Cardinality(ConvergedOf(steps)), Cardinality(DOMAIN steps)>>]

\* Without the timesteps that did not converge the same is computed.
LEMMA ConvergedCount ==
    ASSUME NEW steps, NEW tariff, NEW expected, NEW brs, ConvergedOf(steps) # {}
    PROVE  Report(steps, tariff, expected, brs) = Recounted(steps, tariff, expected, brs)
<1> DEFINE C == ConvergedOf(steps)
           picked == Some(steps, C)
           told(c) == Indicators(picked, c, tariff, expected, brs)
<1>1. DOMAIN picked = C /\ \A i \in C : picked[i] = steps[i] /\ steps[i].converged
  BY DEF ConvergedOf, Some
<1>2. ConvergedOf(picked) = C
  <2>. HIDE DEF C, picked
  <2>. QED  BY <1>1 DEF ConvergedOf
<1>3. ConvergedOrAll(steps) = picked
  BY DEF ConvergedOrAll
<1>4. Some(picked, C) = picked
  <2>1. picked = [i \in C |-> picked[i]]
    BY DEF Some
  <2>. HIDE DEF C, picked
  <2>. QED  BY <2>1 DEF Some
<1>5. ConvergedOrAll(picked) = picked
  <2>. HIDE DEF picked, C
  <2>. QED  BY <1>2, <1>4 DEF ConvergedOrAll
<1>6. ASSUME NEW c, NEW d PROVE told(d) = [told(c) EXCEPT !.converged = d]
  <2>1. DOMAIN told(c) = DOMAIN told(d) /\ "converged" \in DOMAIN told(d)
    <3>. HIDE DEF picked
    <3>. QED  BY DEF Indicators
  <2>2. \A f \in DOMAIN told(c) \ {"converged"} : told(c)[f] = told(d)[f]
    <3>. HIDE DEF picked
    <3>. QED  BY DEF Indicators
  <2>3. told(d).converged = d
    <3>. HIDE DEF picked
    <3>. QED  BY SMTT(30) DEF Indicators
  <2>4. told(d) = [f \in DOMAIN told(d) |-> told(d)[f]] /\ told(c) = [f \in DOMAIN told(c) |-> told(c)[f]]
    <3>. HIDE DEF picked
    <3>. QED  BY DEF Indicators
  <2>. HIDE DEF told
  <2>. QED  BY <2>1, <2>2, <2>3, <2>4
<1>. HIDE DEF picked, C, told
<1>7. Report(steps, tariff, expected, brs) = told(<<Cardinality(C), Cardinality(DOMAIN steps)>>)
  BY <1>3 DEF Report, told, C
<1>8. Report(picked, tariff, expected, brs) = told(<<Cardinality(C), Cardinality(C)>>)
  BY <1>1, <1>2, <1>5 DEF Report, told
<1>. QED  BY <1>6, <1>7, <1>8 DEF picked, C, Recounted

\* The extremes of the charts over the timesteps that count.
ChartTells(r, chart, counted) ==
    /\ r.max_voltage = Max({chart[i].v_max : i \in counted})
    /\ r.min_voltage = Min({chart[i].v_min : i \in counted})
    /\ r.max_loading = Max({0} \union {chart[i].max_loading : i \in counted})

LEMMA IsSome ==
    ASSUME NEW steps
    PROVE  LET valid == ConvergedOrAll(steps) IN \A i \in DOMAIN valid : i \in DOMAIN steps /\ valid[i] = steps[i]
BY DEF ConvergedOrAll, ConvergedOf, Some

LEMMA ChartsTell ==
    ASSUME NEW steps, NEW valid, IsResult(valid), \A i \in DOMAIN valid : i \in DOMAIN steps /\ valid[i] = steps[i],
           NEW converged, NEW tariff, NEW expected, NEW brs
    PROVE  ChartTells(Indicators(valid, converged, tariff, expected, brs), Series(steps), DOMAIN valid)
<1> DEFINE r == Indicators(valid, converged, tariff, expected, brs)
           I == DOMAIN valid
           chart == Series(steps)
           L == Loadings(valid)
           v == [i \in I |-> {valid[i].volts[b] : b \in DOMAIN valid[i].volts}]
           l == [i \in I |-> {valid[i].loading[br] : br \in DOMAIN valid[i].loading}]
           volts == UNION {{valid[i].volts[b] : b \in DOMAIN valid[i].volts} : i \in I}
           loadings(keys) == UNION {{valid[i].loading[br] : br \in keys \intersect DOMAIN valid[i].loading} : i \in I}
<1>1. r.max_voltage = Max(volts) /\ r.min_voltage = Min(volts) /\ r.max_loading = Max({0} \union loadings(Seen(L)))
  BY DEF Indicators
<1>2. volts = United(v, I) /\ loadings(Seen(L)) = United(l, I)
  <2>1. volts = United(v, I)
    BY DEF United
  <2>2. \A i \in I : DOMAIN valid[i].loading \subseteq Seen(L)
    BY DEF Seen, Loadings
  <2>3. \A i \in I : {valid[i].loading[br] : br \in Seen(L) \intersect DOMAIN valid[i].loading} = l[i]
    <3>. HIDE DEF L
    <3>. QED  BY <2>2
  <2>4. loadings(Seen(L)) = UNION {l[i] : i \in I}
    <3>. HIDE DEF l, L
    <3>. QED  BY <2>3
  <2>. QED  BY <2>1, <2>4 DEF United
<1>3. \A i \in I : chart[i].v_max = Max(v[i]) /\ chart[i].v_min = Min(v[i]) /\ chart[i].max_loading = Max({0} \union l[i])
  BY DEF Series
<1>4. IsFiniteSet(I) /\ IntSets(v, I) /\ IntSets(l, I) /\ \A i \in I : v[i] # {}
  <2>. SUFFICES ASSUME NEW i \in I
                PROVE  /\ v[i] \in SUBSET Int /\ IsFiniteSet(v[i]) /\ v[i] # {}
                       /\ l[i] \in SUBSET Int /\ IsFiniteSet(l[i])
    BY DEF IsResult, IntSets
  <2>1. IsFiniteSet(DOMAIN valid[i].volts) /\ IsFiniteSet(DOMAIN valid[i].loading)
    BY DEF IsResult
  <2>2. \A f : IsFiniteSet(DOMAIN f) => IsFiniteSet({f[k] : k \in DOMAIN f})
    BY ImageIsFinite
  <2>3. IsFiniteSet(v[i]) /\ IsFiniteSet(l[i])
    BY <2>1, <2>2
  <2>. QED  BY <2>3 DEF IsResult
<1>. HIDE DEF r, I, chart, L, v, l, volts, loadings
<1>5. Max(United(v, I)) = Max(Greatests(v, I)) /\ Min(United(v, I)) = Min(Leasts(v, I))
  BY <1>4, ExtremesOfUnion
<1>6. Max({0} \union United(l, I)) = Max({0} \union Peaks(l, I))
  BY <1>4, PeakOfUnion
<1>7. /\ {chart[i].v_max : i \in I} = Greatests(v, I) /\ {chart[i].v_min : i \in I} = Leasts(v, I)
      /\ {chart[i].max_loading : i \in I} = Peaks(l, I)
  BY ZenonT(40), <1>3 DEF Greatests, Leasts, Peaks
<1>8. ChartTells(r, chart, I)
  BY <1>1, <1>2, <1>5, <1>6, <1>7 DEF ChartTells
<1>. QED  BY <1>8 DEF r, chart, I

LEMMA CarriedReportsTell == CarryInv => ReportTellsOneStory
<1>. SUFFICES ASSUME CarryInv, NEW t \in Threads, job[t].at = "idle", job[t].answer = "study answered"
              PROVE  /\ TellsOne(job[t].report, job[t].brs)
                     /\ ChartTells(job[t].report, job[t].series, DOMAIN ConvergedOrAll(job[t].result))
                     /\ ConvergedOf(job[t].result) # {} =>
                           job[t].report = Recounted(job[t].result, Tariffs[job[t].tariff], job[t].expected, job[t].brs)
  BY ZenonT(40) DEF ReportTellsOneStory, TellsOne, ChartTells, ViolationsOf, Recounted
<1> DEFINE steps == job[t].result
           tariff == Tariffs[job[t].tariff]
           expected == job[t].expected
           brs == job[t].brs
           r == job[t].report
<1>1. steps \in Results /\ r = Report(steps, tariff, expected, brs) /\ job[t].series = Series(steps)
  BY DEF CarryInv, Carries
<1>2. IsResult(ConvergedOrAll(steps))
  <2>1. IsResult(steps)
    BY <1>1, StudyAssumption
  <2>. HIDE DEF steps
  <2>. QED  BY <2>1, ValidIs
<1>3. r = Indicators(ConvergedOrAll(steps), <<Cardinality(ConvergedOf(steps)), Cardinality(DOMAIN steps)>>,
                     tariff, expected, brs)
  BY <1>1 DEF Report
<1>. HIDE DEF steps, tariff, expected, brs, r
<1>4. TellsOne(r, brs)
  BY <1>2, <1>3, IndicatorsTell
<1>5. ConvergedOf(steps) # {} => r = Recounted(steps, tariff, expected, brs)
  BY <1>1, ConvergedCount
<1>6. ChartTells(r, Series(steps), DOMAIN ConvergedOrAll(steps))
  BY <1>2, <1>3, IsSome, ChartsTell
<1>. QED  BY ZenonT(40), <1>1, <1>4, <1>5, <1>6 DEF steps, tariff, expected, brs, r

\* ReportTellsOneStory for every set of timesteps a run may end with, whatever
\* the tariff and the transformers: the indicators, the totals and the summaries
\* agree, and timesteps that did not converge leave no trace when one did
\* (metrics/kpi_registry.py, simulation/results.py, main.py).
THEOREM ReportsTellOneStory == Spec => []ReportTellsOneStory
<1>. QED  BY CarryHolds, CarriedReportsTell, PTL
=============================================================================
