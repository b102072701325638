-------------------------- MODULE MCSolverSessions --------------------------
(* Two runs against one solver container: the first with room for two      *)
(* commands between its build and its teardown, the second for one.        *)
EXTENDS SolverSessions
CONSTANTS r1, r2
MCBudget == [c \in Client |-> IF c = r1 THEN 4 ELSE 3]
=============================================================================
