---------------------------- MODULE ProfileStore ----------------------------
(***************************************************************************)
(* The load engine's custom profiles (profiles/custom.py): one file per    *)
(* name, written by command handlers that run side by side in the bus's    *)
(* thread pool.  open(.., "w") truncates the file and the content reaches  *)
(* it when it is closed; the file survives a restart of the engine, the    *)
(* writers do not.                                                         *)
(***************************************************************************)
EXTENDS Integers, Sequences, FiniteSets, FiniteSetsExt

CONSTANTS Names, Kinds, Uploaders, Uploads

\* An upload is [kind, values]: a daily shape of any length, in any unit.
ASSUME StoreAssumption ==
    /\ Uploads \subseteq [kind: Kinds, values: Seq(Int)]
    /\ IsFiniteSet(Uploads) /\ IsFiniteSet(Names) /\ IsFiniteSet(Uploaders)

VARIABLES
    file,      \* name -> what is on disk
    writing,   \* uploader -> the save it is in
    disturbed  \* names whose file two saves, or a restart, cut across

storeVars == <<file, writing, disturbed>>

Nobody == [busy |-> FALSE]
NoFile == [there |-> FALSE, whole |-> FALSE, length |-> 0, kind |-> "none", values |-> <<>>]
Truncated == [NoFile EXCEPT !.there = TRUE]
WritersOf(n) == {u \in Uploaders : writing[u].busy /\ writing[u].name = n}

StoreInit ==
    /\ file = [n \in Names |-> NoFile]
    /\ writing = [u \in Uploaders |-> Nobody]
    /\ disturbed = {}

Valid(up) ==
    /\ Len(up.values) >= 2
    /\ \A i \in DOMAIN up.values : up.values[i] >= 0
    /\ \E i \in DOMAIN up.values : up.values[i] > 0

\* Per-unit of the peak, in percent.
Normalised(values) ==
    LET peak == Max({values[i] : i \in DOMAIN values})
    IN [i \in DOMAIN values |-> (100 * values[i]) \div peak]

\* Mutant: the file is opened without cutting its old content.
OpenInPlace(u, n, up) ==
    /\ ~writing[u].busy /\ Valid(up)
    /\ writing' = [writing EXCEPT ![u] = [busy |-> TRUE, name |-> n, up |-> up]]
    /\ file' = [file EXCEPT ![n].there = TRUE]
    /\ disturbed' = IF WritersOf(n) = {} THEN disturbed \ {n} ELSE disturbed \union {n}

\* Mutant: the values are not validated.
OpenUnchecked(u, n, up) ==
    /\ ~writing[u].busy
    /\ writing' = [writing EXCEPT ![u] = [busy |-> TRUE, name |-> n, up |-> up]]
    /\ file' = [file EXCEPT ![n] = Truncated]
    /\ UNCHANGED disturbed

OpenFile(u, n, up) ==
    /\ ~writing[u].busy /\ Valid(up)
    /\ writing' = [writing EXCEPT ![u] = [busy |-> TRUE, name |-> n, up |-> up]]
    /\ file' = [file EXCEPT ![n] = Truncated]
    /\ disturbed' = IF WritersOf(n) = {} THEN disturbed \ {n} ELSE disturbed \union {n}

\* What the file holds once a writer has written from its start: a longer
\* content that was there keeps its tail, and is no JSON any more.
Overlay(old, up) ==
    LET n == Len(up.values) IN
    [there |-> TRUE, whole |-> n >= old.length,
     length |-> IF n >= old.length THEN n ELSE old.length,
     kind |-> up.kind, values |-> Normalised(up.values)]

CloseFile(u) ==
    /\ writing[u].busy
    /\ LET n == writing[u].name IN file' = [file EXCEPT ![n] = Overlay(@, writing[u].up)]
    /\ writing' = [writing EXCEPT ![u] = Nobody]
    /\ UNCHANGED disturbed

\* An open file cannot be removed on the Windows containers the engine runs in.
Delete(n) ==
    /\ file[n].there /\ WritersOf(n) = {}
    /\ file' = [file EXCEPT ![n] = NoFile]
    /\ disturbed' = disturbed \ {n}
    /\ UNCHANGED writing

StoreRestart ==
    /\ disturbed' = disturbed \union {n \in Names : WritersOf(n) # {}}
    /\ writing' = [u \in Uploaders |-> Nobody]
    /\ UNCHANGED file

StoreNext ==
    \/ \E u \in Uploaders, n \in Names, up \in Uploads : OpenFile(u, n, up)
    \/ \E u \in Uploaders : CloseFile(u)
    \/ \E n \in Names : Delete(n)

\* Mutant: the stored kind is not compared with the one asked for.
UsableAnyKind(n, kind) == file[n].whole

\* get_shape: an absent, truncated or garbled file raises, and so does one
\* of another kind.
Usable(n, kind) == file[n].whole /\ file[n].kind = kind

\* list_profiles leaves out the files it cannot parse.
Listed == {n \in Names : file[n].whole}
Classes == {n \in Listed : file[n].kind = "load"}

\* Linear between the points of the day, the last one joined to the first.
Resampled(v, steps) ==
    [i \in 1..steps |->
        LET x == (i - 1) * Len(v)
            j == x \div steps
            rest == x % steps
            next == ((j + 1) % Len(v)) + 1
        IN (v[j + 1] * (steps - rest) + v[next] * rest) \div steps]
WithinUnit(x) == IF x < 0 THEN 0 ELSE IF x > 100 THEN 100 ELSE x
Shape(n, steps) ==
    LET day == Resampled(file[n].values, steps) IN [i \in 1..steps |-> WithinUnit(day[i])]
=============================================================================
