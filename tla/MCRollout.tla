----------------------------- MODULE MCRollout -----------------------------
(* Instances of Rollout for TLC. *)
EXTENDS RolloutRefinement

V1 == "1.0.0"
V2 == "2.0.0"
V3 == "2.1.0"
MCVersion  == {V1, V2, "unknown"}
MCVersion3 == MCVersion \cup {V3}
MCManifest == {V1, V2}
MCManifest3 == {V1, V2, V3}

MCRelease  == [d \in Dep |-> V2]
MCRelease2 == [d \in Dep |-> IF d = 1 THEN V2 ELSE V3]

AllCompatible   == [d \in Dep |-> Robot]
SecondExcluded  == [d \in Dep |-> Robot \ {2}]

(* canary 1, then everyone; the default strategy is canary 1, 50%, 100%.   *)
CanaryThenAll == [canary_count |-> 1, stage_fractions |-> <<100>>,
                  failure_threshold |-> 0, auto_rollback |-> TRUE]
DefaultStrategy == [CanaryThenAll EXCEPT !.stage_fractions = <<50, 100>>]
MCCanaryThenAll == [d \in Dep |-> CanaryThenAll]
MCAllAtOnce     == [d \in Dep |-> [CanaryThenAll EXCEPT !.canary_count = 3,
                                                        !.stage_fractions = << >>]]
MCNoRollback    == [d \in Dep |-> [CanaryThenAll EXCEPT !.auto_rollback = FALSE]]
MCDefault       == [d \in Dep |-> DefaultStrategy]

MCGates     == [d \in Dep |-> [min_battery |-> 1, require_docked |-> TRUE]]
MCBatteryGate == [d \in Dep |-> [min_battery |-> 1, require_docked |-> FALSE]]

Parked == [on_mission |-> FALSE, docked |-> TRUE, charging |-> TRUE, battery |-> MaxBattery]
Working == [on_mission |-> TRUE, docked |-> FALSE, charging |-> FALSE, battery |-> MaxBattery]

AllParked == [r \in Robot |-> [version |-> V1, state |-> Parked, mission_ticks |-> 0]]
FirstLongMission == [AllParked EXCEPT ![1] = [@ EXCEPT !.state = Working, !.mission_ticks = 2]]
=============================================================================
