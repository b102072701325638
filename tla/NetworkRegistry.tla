--------------------------- MODULE NetworkRegistry ---------------------------
(***************************************************************************)
(* The engine's network registry (network/model.py NetworkRegistry) and    *)
(* the commands on it (main.py), which run side by side in threads.  The   *)
(* registry keeps nothing in memory: every call scans the user directory,  *)
(* and a later file replaces an earlier one that names the same id.  The   *)
(* engine ships no built-in networks.                                      *)
(***************************************************************************)
EXTENDS ImportCases

CONSTANTS
    Threads,
    FileOrder,   \* the file names of the directory, as sorted() has them
    Uploads,     \* definitions save-network may bring
    DropIns,     \* file name -> definitions an operator may drop there
    Cases,       \* networks to import
    Writings,    \* <<case, way>>: how the uploaded file was written
    ImportIds,   \* the ids imports are registered under
    Preferred,   \* DEFAULT_NETWORK
    Gone         \* what a delete promises

Files == ToSet(FileOrder)

\* Names and ids differ in more than the case of letters: the engine's
\* containers are Windows ones, where two that do not are one file.
ASSUME RegistryAssumption ==
    /\ FileOrder \in Seq(Files)
    /\ \A i, j \in DOMAIN FileOrder : FileOrder[i] = FileOrder[j] => i = j
    /\ Slugs \subseteq Files /\ ImportIds \subseteq Slugs
    /\ DOMAIN DropIns \subseteq Files \ Slugs
    /\ Gone # Absent

VARIABLES
    disk,      \* file name -> content
    job,        \* thread -> the command it handles, or its last answer
    promised   \* id -> what the last undisturbed save or delete left of it

registryVars == <<disk, job, promised>>

\* The verdict is what reading the content will say of it.
NoContent ==
    [there |-> FALSE, whole |-> FALSE, def |-> Absent, of |-> Absent, verdict |-> Absent, size |-> 0]
Whole(def, of) ==
    [there |-> TRUE, whole |-> TRUE, def |-> def, of |-> of, verdict |-> Verdict(def),
     size |-> Len(def.buses) + Len(def.branches)]
Opened == [NoContent EXCEPT !.there = TRUE]

\* What a command was answered, as far as anything is said about it.
Idle(answer) == [at |-> "idle", answer |-> answer]
Refused(of) == [at |-> "idle", answer |-> "refused", of |-> of]

Saves == {Whole(d, Absent) : d \in Uploads}
Drops(f) == {NoContent} \union {Whole(d, Absent) : d \in DropIns[f]}

\* The cases are networks the engine accepts, in formats that can hold them.
ASSUME CaseAssumption ==
    /\ Absent \notin Int /\ Text \notin Int
    /\ \A w \in Writings : /\ IsCase(Cases[w[1]]) /\ Writable(Cases[w[1]], w[2])
                            /\ \A n \in ImportIds : Verdict([Meaning(Cases[w[1]]) EXCEPT !.id = n]) = "ok"

\* What the importer makes of each uploaded file.
Written(case, way) ==
    CASE way.format = "raw" -> IF way.marked THEN Raw34(case, way.cw) ELSE Raw33(case, way.cw)
      [] way.format = "rawx" -> Rawx(case)
      [] way.format = "cim" -> Cim(case, way.si, way.changer)
      [] way.format = "dss" -> Dss(case, way.names)
      [] way.format = "json" -> Meaning(case)
Import(w, n) ==
    LET parsed == Parse(w[2].asked, w[2].extension,
                        [format |-> w[2].format, quoted |-> w[2].quoted, content |-> Written(Cases[w[1]], w[2])])
    IN [of |-> w, ok |-> parsed.ok,
        content |-> IF parsed.ok THEN Whole([parsed.net EXCEPT !.id = n], w) ELSE NoContent]
Imports == {Import(w, n) : w \in Writings, n \in ImportIds}

\* What is stored is named for its file.
Stored == {c \in Saves \union {import.content : import \in Imports} : c.verdict = "ok"}
ASSUME StoredAssumption ==
    \A c \in Stored : c.whole /\ c.def.id \in Slugs /\ c.size \in Nat /\ c.def \notin {Gone, Absent}

\* Buses and branches are lists, in what is stored and in what is dropped in.
IsList(seq) == Len(seq) \in Nat /\ DOMAIN seq = 1..Len(seq)
IsNetwork(d) == IsList(d.buses) /\ IsList(d.branches)
ASSUME ListAssumption ==
    /\ \A c \in Stored : IsNetwork(c.def)
    /\ \A f \in DOMAIN DropIns : \A d \in DropIns[f] : IsNetwork(d)

\* id -> content, later files over earlier ones.
Latest(places) ==
    LET id(i) == disk[FileOrder[i]].def.id IN
    [n \in {id(i) : i \in places} |->
        disk[FileOrder[CHOOSE i \in places : id(i) = n /\ \A j \in places : id(j) = n => j <= i]]]
Readable(i) == disk[FileOrder[i]].whole /\ disk[FileOrder[i]].verdict = "ok"

\* A value that is no number escapes the scan, and every command that scans.
ScanRaises == \E f \in Files : disk[f].whole /\ disk[f].verdict = "raises"

\* Mutant: a file that fails its validation ends the scan.
ScanStopping ==
    IF ScanRaises THEN <<>>
    ELSE Latest({i \in DOMAIN FileOrder : Readable(i) /\ \A j \in 1..i : disk[FileOrder[j]].there => Readable(j)})

\* Truncated and invalid files are left out; a scan that raises serves nothing.
Scan == IF ScanRaises THEN <<>> ELSE Latest({i \in DOMAIN FileOrder : Readable(i)})

FirstOf(ids) ==
    LET listed == {i \in DOMAIN FileOrder : FileOrder[i] \in ids}
    IN IF listed = {} THEN Absent ELSE FileOrder[Min(listed)]
\* Mutant: the configured default is answered although it is not there.
DefaultConfigured(ids) == IF ids = {} THEN Absent ELSE Preferred
DefaultOf(ids) == IF Preferred \in ids THEN Preferred ELSE FirstOf(ids)

\* Every change of the directory is a change under the listings in progress,
\* whose answers are then any mixture of before and after.
Noticed(threads) ==
    [t \in Threads |-> IF threads[t].at = "listing" THEN [at |-> "listing", default |-> Absent, changed |-> TRUE] ELSE threads[t]]
WritersOf(n) == {t \in Threads : job[t].at = "writing" /\ job[t].content.def.id = n}

RegistryInit ==
    /\ disk = [f \in Files |-> NoContent]
    /\ job = [t \in Threads |-> Idle("done")]
    /\ promised = [n \in Slugs |-> Absent]

\* save: validate, then open(.., "w"), which cuts the file.
Open(t, content) ==
    IF content.verdict # "ok"
    THEN /\ job' = [job EXCEPT ![t] = Refused(content.of)]
         /\ UNCHANGED <<disk, promised>>
    ELSE LET n == content.def.id
             told == [u \in Threads |-> IF u \in WritersOf(n) THEN [job[u] EXCEPT !.alone = FALSE] ELSE job[u]]
         IN /\ disk' = [disk EXCEPT ![n] = Opened]
            /\ job' = Noticed([told EXCEPT ![t] =
                        [at |-> "writing", content |-> content, alone |-> WritersOf(n) = {}]])
            /\ promised' = [promised EXCEPT ![n] = Absent]

\* The upload's schema lets only a proper id through.
SaveNetwork(t, content) == job[t].at = "idle" /\ Open(t, content)

ImportNetwork(t, import) ==
    /\ job[t].at = "idle"
    /\ IF import.ok THEN Open(t, import.content)
       ELSE /\ job' = [job EXCEPT ![t] = Refused(import.of)]
            /\ UNCHANGED <<disk, promised>>

\* The content reaches the file from its start; a longer one that got there
\* in between keeps its tail, and is no JSON any more.
Flush(t) ==
    LET c == job[t].content
        n == c.def.id
        torn == disk[n].size > c.size
    IN /\ job[t].at = "writing"
       /\ disk' = [disk EXCEPT ![n] = IF torn THEN [Opened EXCEPT !.size = disk[n].size] ELSE c]
       /\ job' = Noticed([job EXCEPT ![t] = Idle("done")])
       /\ promised' = IF job[t].alone THEN [promised EXCEPT ![n] = c.def] ELSE promised

\* delete: the file is looked for, then removed; any name of a file will do.
DeleteNetwork(t, n) ==
    /\ job[t].at = "idle"
    /\ job' = [job EXCEPT ![t] = IF disk[n].there THEN [at |-> "removing", id |-> n] ELSE Idle("done")]
    /\ UNCHANGED <<disk, promised>>

\* Gone in between, or open in another thread (the engine's containers are
\* Windows ones): the error of os.remove escapes.
RemoveFile(t) ==
    LET n == job[t].id
        removed == disk[n].there /\ WritersOf(n) = {}
    IN /\ job[t].at = "removing"
       /\ job' = IF removed THEN Noticed([job EXCEPT ![t] = Idle("done")])
                ELSE [job EXCEPT ![t] = Idle("done")]
       /\ disk' = IF removed THEN [disk EXCEPT ![n] = NoContent] ELSE disk
       /\ promised' = IF removed /\ n \in Slugs THEN [promised EXCEPT ![n] = Gone] ELSE promised

\* list-networks scans for the default, and scans again for the list.
ListNetworks(t) ==
    /\ job[t].at = "idle"
    /\ job' = [job EXCEPT ![t] = IF ScanRaises THEN Idle("done")
                ELSE [at |-> "listing", default |-> DefaultOf(DOMAIN Scan), changed |-> FALSE]]
    /\ UNCHANGED <<disk, promised>>

Listed(t) ==
    /\ job[t].at = "listing"
    /\ job' = [job EXCEPT ![t] = IF ScanRaises \/ @.changed THEN Idle("done")
                ELSE [at |-> "idle", answer |-> "listed", default |-> @.default, ids |-> DOMAIN Scan]]
    /\ UNCHANGED <<disk, promised>>

\* An operator drops a file into the directory, or takes it away.
DropIn(f) ==
    /\ \E content \in Drops(f) : content # disk[f] /\ disk' = [disk EXCEPT ![f] = content]
    /\ job' = Noticed(job)
    /\ UNCHANGED promised

\* The engine is restarted: files that were open stay as they are, and solver
\* sessions expire in their container.
Restart ==
    /\ job' = [t \in Threads |-> Idle("done")]
    /\ UNCHANGED <<disk, promised>>

RegistryNext ==
    \/ \E t \in Threads : \/ \E content \in Saves : SaveNetwork(t, content)
                          \/ \E import \in Imports : ImportNetwork(t, import)
                          \/ \E n \in Files : DeleteNetwork(t, n)
                          \/ Flush(t) \/ RemoveFile(t) \/ ListNetworks(t) \/ Listed(t)
    \/ \E f \in DOMAIN DropIns : DropIn(f)
    \/ Restart

-----------------------------------------------------------------------------

\* A file dropped in that carries id n: once deleted it is served again, and
\* while it is there it wins if it sorts after n's own file.
Dropped(f, n) == f \in DOMAIN DropIns /\ disk[f].whole /\ disk[f].verdict = "ok" /\ disk[f].def.id = n
Later(f, n) == \E i, j \in DOMAIN FileOrder : FileOrder[i] = n /\ FileOrder[j] = f /\ i < j

\* What was answered about a network stays true of the directory: once a save
\* that no other save or restart cut across is answered, scans serve exactly
\* that definition, and once a delete is answered they serve none, until the
\* next save, import or delete of that id; whatever is truncated or invalid
\* beside it, but for dropped-in files with that id, and for those with words
\* for numbers: while one is there every scan raises, and nothing is served.
DiskAnswersLast ==
    \A n \in Slugs :
       /\ (promised[n] = Gone /\ \A f \in Files : ~Dropped(f, n)) => n \notin DOMAIN Scan
       /\ (/\ promised[n] \notin {Gone, Absent} /\ ~ScanRaises
           /\ \A f \in Files : ~(Dropped(f, n) /\ Later(f, n))) =>
             n \in DOMAIN Scan /\ Scan[n].def = promised[n]

\* A list's default is one of its networks (Absent only for an empty list),
\* unless the directory changed between the two scans.
DefaultIsListed ==
    \A t \in Threads :
       (job[t].at = "idle" /\ job[t].answer = "listed") =>
          IF job[t].ids = {} THEN job[t].default = Absent ELSE job[t].default \in job[t].ids

\* No served network can be one the solver cannot build: buses and branches
\* have numbers of their own, no part of it is cut off from the source, and
\* voltage changes only across transformers.
Sound(d) ==
    /\ Cardinality(BusIds(d)) = Len(d.buses)
    /\ Cardinality({d.branches[i].id : i \in DOMAIN d.branches}) = Len(d.branches)
    /\ \A part \in SUBSET BusIds(d) :
          (d.source \in part /\ part # BusIds(d)) =>
              \E i \in DOMAIN d.branches : Cardinality({d.branches[i].from, d.branches[i].to} \intersect part) = 1
    /\ \A i \in DOMAIN d.branches :
          LET br == d.branches[i] IN br.transformer \/ BusKv(d, br.from) = BusKv(d, br.to)
ServedIsSound == \A n \in DOMAIN Scan : Sound(Scan[n].def)

\* What is not read as it was written: RAWX counts a load that is out of
\* service, a v32/33 file ends at an impedance written as 0, and a format may
\* be guessed wrongly.
Misread(case, way) ==
    \/ way.format = "rawx" /\ \E k \in DOMAIN case.loads : ~case.loads[k].on
    \/ way.format = "raw" /\ ~way.marked /\ \E i \in DOMAIN case.transformers : case.transformers[i].zero
    \/ Mistaken(way)

\* But for those three, a file as ImportCases writes it becomes the network it
\* describes and is not refused: loads in service, ohms, ratings, taps in
\* either unit, vector groups, and voltages that only the transformers give,
\* whichever format and dialect says so, asked for, named or guessed.  (Fields
\* left out, NOMV without a value, impedance codes other than 1 and branches
\* out of service are not written.)
ImportedAsWritten ==
    /\ \A n \in DOMAIN Scan :
          LET content == Scan[n] IN
          content.of # Absent =>
             LET case == Cases[content.of[1]]
                 way == content.of[2]
             IN \/ Misread(case, way)
                \/ IF way.format = "dss" THEN SameUpToNumbers(content.def, Meaning(case))
                   ELSE content.def = [Meaning(case) EXCEPT !.id = n]
    /\ \A t \in Threads :
          (job[t].at = "idle" /\ job[t].answer = "refused" /\ job[t].of # Absent) =>
             Misread(Cases[job[t].of[1]], job[t].of[2])

\* RAWX is the JSON form of RAW: what a file says in it is what it says in RAW.
\* The importer's `status or 1` makes this fail for a load out of service.
RawxSaysWhatRawSays ==
    \A n \in DOMAIN Scan :
       LET content == Scan[n] IN
       (content.of # Absent /\ content.of[2].format = "rawx") =>
          content.def = [Meaning(Cases[content.of[1]]) EXCEPT !.id = n]
=============================================================================
