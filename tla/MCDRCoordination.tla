-------------------------- MODULE MCDRCoordination --------------------------
(* One prosumer site over two timesteps: a sunny one with an export limit, in  *)
(* which the battery is scheduled to discharge, and an evening one with an EV. *)
EXTENDS DRCoordination

CONSTANTS s1, s2

MCSite == {s1}
MCSchedule == [s \in MCSite |->
    << [load |-> 2, pv |-> 10, ev |-> 0, bess |-> 3, soc |-> 91, limit |-> 4],
       [load |-> 4, pv |-> 2, ev |-> 4, bess |-> 0, soc |-> 20, limit |-> 4] >>]
MCCapacity == [s \in MCSite |-> [rating |-> 10, cap |-> 10, ev |-> 4]]

\* Under-voltage, nominal, over-voltage, and above the Volt-Watt range.
MCVoltage == {925, 1000, 1060, 1100}

Run(strategy, doe, vv, vw) == [strategy |-> strategy, doe |-> doe, vv |-> vv, vw |-> vw]
MCConfig == { Run("uncoordinated", "auto", TRUE, TRUE),
              Run("dr_p2p", "managed", FALSE, FALSE),
              Run("dr_p2p", "auto", FALSE, TRUE),
              Run("pv_curtail_only", "managed", TRUE, FALSE) }

\* Two sites and one timestep, to see that every run ends: the sites' setpoints
\* change in different iterations.
MCPair == {s1, s2}
MCPairSchedule == [s \in MCPair |->
    << [load |-> 1, pv |-> IF s = s1 THEN 8 ELSE 0, ev |-> IF s = s2 THEN 4 ELSE 0,
        bess |-> 0, soc |-> 75, limit |-> NoLimit] >>]
MCPairCapacity == [s \in MCPair |-> [rating |-> IF s = s1 THEN 10 ELSE 0, cap |-> 0,
                                     ev |-> IF s = s2 THEN 4 ELSE 0]]
MCPairConfig == { Run("dr_only", "off", FALSE, FALSE),
                  Run("uncoordinated", "off", TRUE, FALSE) }
=============================================================================
