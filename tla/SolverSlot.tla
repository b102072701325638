----------------------------- MODULE SolverSlot -----------------------------
(***************************************************************************)
(* What a power-flow solver container promises its orchestrators, whatever *)
(* backend it runs: the container holds at most one session at a time, a   *)
(* session takes the slot only when it is free, and a session that lost    *)
(* the slot (evicted by a newer build, or closed) never holds it again.    *)
(***************************************************************************)
CONSTANTS Session,   \* the session ids orchestrators draw (fresh UUIDs)
          None       \* the empty slot

VARIABLES holder,    \* the session the container holds, or None
          retired    \* the sessions that held the slot and lost it

slotVars == <<holder, retired>>

SlotInit == holder = None /\ retired = {}

\* A finished build publishes its session.
Grant(s) ==
    /\ holder = None
    /\ s \notin retired
    /\ holder' = s
    /\ UNCHANGED retired

\* A teardown, or the start of a newer build, frees the slot.
Vacate ==
    /\ holder # None
    /\ retired' = retired \union {holder}
    /\ holder' = None

SlotNext == Vacate \/ \E s \in Session : Grant(s)

SlotSpec == SlotInit /\ [][SlotNext]_slotVars
=============================================================================
