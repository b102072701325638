-------------------------------- MODULE MCBus --------------------------------
(* An instance of BusRequests: how many requests a command's handler makes. *)
EXTENDS BusRequests

MCRequests == [c \in Command |-> 1]
=============================================================================
