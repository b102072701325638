--------------------------- MODULE BusConnection ---------------------------
(***************************************************************************)
(* NatsTransport.connect: the caller starts one attempt after another,     *)
(* each in a thread with an event loop of its own, waits a window for each *)
(* and adopts at most one.  An attempt that outlives its window may still  *)
(* connect later; it then learns that it was not adopted and closes.       *)
(*                                                                         *)
(* Time is abstract: a window or the deadline may end at any moment.  The  *)
(* one assumption is that the caller rules on an attempt it is waking up   *)
(* for within the 10 s the attempt waits for the ruling.                   *)
(***************************************************************************)
EXTENDS Naturals

CONSTANT MaxAttempts    \* attempts that fit into the 30 s deadline

ASSUME AttemptsAssumption == MaxAttempts \in Nat \ {0}

Attempt == 1..MaxAttempts

VARIABLES caller,    \* "idle", "waiting" in a window, "up" or "down" (raised)
          tried,     \* attempts started
          link,      \* an attempt's connection
          ruling,    \* "none", "keep" or "drop" (the events decided and keep)
          adopted    \* the attempt whose loop the transport uses, or 0

connVars == <<caller, tried, link, ruling, adopted>>

ConnTypeOK ==
    /\ caller \in {"idle", "waiting", "up", "down"}
    /\ tried \in 0..MaxAttempts
    /\ link \in [Attempt -> {"unused", "connecting", "connected", "failed",
                             "running", "closed"}]
    /\ ruling \in [Attempt -> {"none", "keep", "drop"}]
    /\ adopted \in 0..MaxAttempts

ConnInit ==
    /\ caller = "idle" /\ tried = 0 /\ adopted = 0
    /\ link = [i \in Attempt |-> "unused"]
    /\ ruling = [i \in Attempt |-> "none"]

StartAttempt ==
    /\ caller = "idle"
    /\ tried < MaxAttempts
    /\ tried' = tried + 1
    /\ link' = [link EXCEPT ![tried + 1] = "connecting"]
    /\ caller' = "waiting"
    /\ UNCHANGED <<ruling, adopted>>

\* The attempt's thread: nats.connect returns or raises.
AttemptEnds(i) ==
    /\ link[i] = "connecting"
    /\ \E r \in {"connected", "failed"} : link' = [link EXCEPT ![i] = r]
    /\ UNCHANGED <<caller, tried, ruling, adopted>>

\* The window's wait returned with a connection.
Adopt ==
    /\ caller = "waiting"
    /\ link[tried] = "connected"
    /\ adopted' = tried
    /\ ruling' = [ruling EXCEPT ![tried] = "keep"]
    /\ caller' = "up"
    /\ UNCHANGED <<tried, link>>

\* The attempt failed, or its window is over: rule against it and, before the
\* deadline, try again.
PassOver ==
    /\ caller = "waiting"
    /\ link[tried] \in {"connecting", "failed"}
    /\ ruling' = [ruling EXCEPT ![tried] = "drop"]
    /\ caller' \in {c \in {"idle", "down"} : c = "idle" => tried < MaxAttempts}
    /\ UNCHANGED <<tried, link, adopted>>

\* Mutant: the thread keeps its loop without looking at the ruling.
ObeyNot(i) ==
    /\ link[i] = "connected"
    /\ ruling[i] # "none"
    /\ link' = [link EXCEPT ![i] = "running"]
    /\ UNCHANGED <<caller, tried, ruling, adopted>>

\* A connected attempt reads the ruling.
Obey(i) ==
    /\ link[i] = "connected"
    /\ ruling[i] # "none"
    /\ link' = [link EXCEPT ![i] = IF ruling[i] = "keep" THEN "running" ELSE "closed"]
    /\ UNCHANGED <<caller, tried, ruling, adopted>>

ConnNext ==
    \/ StartAttempt \/ Adopt \/ PassOver
    \/ \E i \in Attempt : AttemptEnds(i) \/ Obey(i)

\* Whatever the order in which attempts, windows and the deadline end, no loop
\* but the adopted one keeps running, and the adopted one is never closed by
\* its own thread (the race of the earlier retry loop the code describes).
OneConnection ==
    /\ \A i \in Attempt : link[i] = "running" => i = adopted
    /\ caller = "up" <=> adopted # 0
    /\ adopted # 0 => link[adopted] \in {"connected", "running"}

=============================================================================
