---------------------------- MODULE MCRosHealth ----------------------------
(* The manifests of ros_sim.py:22 for TLC; nodes and topics that play the  *)
(* same part in both versions are represented by one of them.              *)
EXTENDS RosHealth, TLC

MCManifests ==
    ("1.0.0" :> [nodes |-> {"nav2_planner", "mission_executor"},
                 topics |-> ("/scan" :> 10 @@ "/battery_state" :> 1),
                 lifecycle_nodes |-> {"mission_executor"}])
    @@
    ("2.0.0" :> [nodes |-> {"nav2_planner", "mission_executor", "perception_v2"},
                 topics |-> ("/scan" :> 15 @@ "/battery_state" :> 1 @@ "/detections" :> 5),
                 lifecycle_nodes |-> {"mission_executor"}])

(* What the theorems of RosHealthProofs ask of the manifests.              *)
ASSUME VersionsDiffer /\ (SampleTime >= 3 => SamplesSuffice)
=============================================================================
