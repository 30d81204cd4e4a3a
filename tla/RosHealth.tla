----------------------------- MODULE RosHealth -----------------------------
(***************************************************************************)
(* The ROS backends under an agent (ros_backend.py, ros_sim.py): preflight,*)
(* apply_update, and the health check that decides whether an update is    *)
(* kept or the fleet is rolled back.  The check reads the graph piece by   *)
(* piece while the graph goes on changing.  Rates are in hundredths of Hz. *)
(***************************************************************************)
EXTENDS Integers

CONSTANTS
    Manifests,      \* Manifests[v] : [nodes, topics, lifecycle_nodes]
    Unknown,        \* a target without a manifest
    SampleTime,     \* sample_time of RclpyBackend, in seconds
    MaxChanges      \* bound: changes of the graph

Version == DOMAIN Manifests
Node    == UNION {Manifests[v].nodes : v \in Version}
Topic   == UNION {DOMAIN Manifests[v].topics : v \in Version}
Speed   == {0, 50, 100}    \* percent of the rate in the manifest

ASSUME RosHealthAssumption ==
    /\ Unknown \notin Version /\ SampleTime \in Nat \ {0} /\ MaxChanges \in Nat
    /\ \A v \in Version : /\ Manifests[v].lifecycle_nodes \subseteq Manifests[v].nodes
                          /\ Manifests[v].topics \in [DOMAIN Manifests[v].topics -> Nat \ {0}]

VARIABLES
    backend,    \* "sim" or "rclpy"
    version,    \* the version the backend says is installed
    installed,  \* the software on the disk
    graph,      \* what runs: version, nodes down, nodes not active, speed of the topics
    run         \* the update under way: position, target, verdict so far, fresh view

vars == <<backend, version, installed, graph, run>>

Graph == [running: Version, dead: SUBSET Node, inactive: SUBSET Node,
          speed: [Topic -> Speed], changes: 0..MaxChanges]
Run   == [pc: {"idle", "apply", "respawn", "nodes", "topics", "lifecycle", "passed", "failed"},
          target: Version \cup {Unknown}, todo: SUBSET Topic, ok: BOOLEAN, changed: BOOLEAN]

TypeOK ==
    /\ backend \in {"sim", "rclpy"}
    /\ version \in Version /\ installed \in Version
    /\ graph \in Graph /\ run \in Run
    /\ graph.dead \subseteq Manifests[graph.running].nodes

Booted(v, dead, stalled) ==
    [graph EXCEPT !.running = v, !.dead = dead, !.inactive = {},
                  !.speed = [t \in Topic |-> IF t \in stalled THEN 0 ELSE 100]]

Init ==
    \E v \in Version :
       /\ backend \in {"sim", "rclpy"}
       /\ version = v /\ installed = v
       /\ graph = [running |-> v, dead |-> {}, inactive |-> {},
                   speed |-> [t \in Topic |-> 100], changes |-> 0]
       /\ run = [pc |-> "idle", target |-> v, todo |-> {}, ok |-> TRUE, changed |-> FALSE]

Goto(pc) == run' = [run EXCEPT !.pc = pc]

-----------------------------------------------------------------------------
(* The update.                                                             *)

(* A new target.  The disk may be too full on a real robot only: the       *)
(* simulated one has at least 4 GB.                                        *)
Preflight(target) ==
    /\ run.pc \in {"idle", "passed", "failed"}
    /\ \E disk \in {TRUE, backend = "sim"} :
          run' = [pc |-> IF target \in Version /\ disk THEN "apply" ELSE "failed",
                  target |-> target, todo |-> {}, ok |-> TRUE, changed |-> FALSE]
    /\ UNCHANGED <<backend, version, installed, graph>>

(* The sim reboots into the target, with the failure that was injected.    *)
SimApply ==
    /\ run.pc = "apply" /\ backend = "sim"
    /\ version' = run.target /\ installed' = run.target
    /\ \/ graph' = Booted(run.target, {}, {})
       \/ graph' = Booted(run.target, {"nav2_planner"} \cap Manifests[run.target].nodes, {})
       \/ graph' = Booted(run.target, {}, {"/scan"})
    /\ Goto("nodes")
    /\ UNCHANGED backend

(* install_hook: it works, fails, or is not configured. *)
InstallHook ==
    /\ run.pc = "apply" /\ backend = "rclpy"
    /\ \/ installed' = run.target /\ Goto("respawn")
       \/ UNCHANGED installed /\ Goto("failed")
       \/ UNCHANGED installed /\ Goto("respawn")
    /\ UNCHANGED <<backend, version, graph>>

(* A mutant of Respawn: what was down before stays down.                   *)
RespawnKeepsNodes ==
    /\ run.pc = "respawn"
    /\ \/ graph' = [graph EXCEPT !.running = installed] /\ version' = run.target /\ Goto("nodes")
       \/ UNCHANGED graph /\ version' = run.target /\ Goto("nodes")
       \/ UNCHANGED <<graph, version>> /\ Goto("failed")
    /\ UNCHANGED <<backend, installed>>

(* respawn_cmd: the stack starts, one node maybe not yet up; or the command*)
(* is not configured; or it fails, after the packages were replaced.       *)
Respawn ==
    /\ run.pc = "respawn"
    /\ \/ /\ \E down \in {{}} \cup {{n} : n \in Manifests[installed].nodes} :
                graph' = Booted(installed, down, {})
          /\ version' = run.target /\ Goto("nodes")
       \/ UNCHANGED graph /\ version' = run.target /\ Goto("nodes")
       \/ UNCHANGED <<graph, version>> /\ Goto("failed")
    /\ UNCHANGED <<backend, installed>>

-----------------------------------------------------------------------------
(* health_check. *)

Manifest  == Manifests[run.target]
Alive     == Manifests[graph.running].nodes \ graph.dead
Active(n) == n \in Alive \ graph.inactive

(* The rate of a topic when version v runs and the topic is at that speed. *)
RateOf(v, t, speed) ==
    IF t \in DOMAIN Manifests[v].topics THEN Manifests[v].topics[t] * speed ELSE 0

Rate(t) == RateOf(graph.running, t, graph.speed[t])

(* _sample_topic_rate: fewer than two messages within the sample time are  *)
(* no rate, more give the exact one.  Of messages at this rate, a window   *)
(* sees as many as fit, and one more if it begins at the right moment.     *)
Sampled(rate) ==
    LET seen == (rate * SampleTime) \div 100
        more == IF (rate * SampleTime) % 100 = 0 THEN {} ELSE {seen + 1} IN
    {IF n < 2 THEN 0 ELSE rate : n \in {seen} \cup more}

(* The sim deviates by up to 8 percent. *)
Measured(t) == IF backend = "sim" THEN {(Rate(t) * j) \div 100 : j \in 92..108}
                                  ELSE Sampled(Rate(t))

(* A mutant of WithinTolerance: too strict for the sim.                    *)
WithinFive(actual, hz) == 100 * (actual - 100 * hz) \in (-500 * hz)..(500 * hz)

(* |actual - expected| / expected <= 0.35. *)
WithinTolerance(actual, hz) == 100 * (actual - 100 * hz) \in (-3500 * hz)..(3500 * hz)

CheckNodes ==
    /\ run.pc = "nodes"
    /\ run' = [run EXCEPT !.pc = IF DOMAIN Manifest.topics = {} THEN "lifecycle" ELSE "topics",
                          !.todo = DOMAIN Manifest.topics,
                          !.ok = Manifest.nodes \subseteq Alive, !.changed = FALSE]
    /\ UNCHANGED <<backend, version, installed, graph>>

(* Mutants of CheckTopic: the last topic decides; any rate will do.        *)
CheckTopicAlone ==
    /\ run.pc = "topics"
    /\ \E t \in run.todo : \E actual \in Measured(t) :
          run' = [run EXCEPT !.todo = @ \ {t}, !.ok = WithinTolerance(actual, Manifest.topics[t]),
                             !.pc = IF run.todo = {t} THEN "lifecycle" ELSE @]
    /\ UNCHANGED <<backend, version, installed, graph>>

CheckTopicPublished ==
    /\ run.pc = "topics"
    /\ \E t \in run.todo : \E actual \in Measured(t) :
          run' = [run EXCEPT !.todo = @ \ {t}, !.ok = @ /\ actual > 0,
                             !.pc = IF run.todo = {t} THEN "lifecycle" ELSE @]
    /\ UNCHANGED <<backend, version, installed, graph>>

CheckTopic ==
    /\ run.pc = "topics"
    /\ \E t \in run.todo : \E actual \in Measured(t) :
          run' = [run EXCEPT !.todo = @ \ {t},
                             !.ok = @ /\ WithinTolerance(actual, Manifest.topics[t]),
                             !.pc = IF run.todo = {t} THEN "lifecycle" ELSE @]
    /\ UNCHANGED <<backend, version, installed, graph>>

(* get_lifecycle_state is "unknown" or another state if not "active". *)
CheckLifecycle ==
    /\ run.pc = "lifecycle"
    /\ LET ok == run.ok /\ \A n \in Manifest.lifecycle_nodes : Active(n) IN
       run' = [run EXCEPT !.ok = ok, !.pc = IF ok THEN "passed" ELSE "failed"]
    /\ UNCHANGED <<backend, version, installed, graph>>

-----------------------------------------------------------------------------
(* A real graph changes by itself: nodes die, are back, lose their state;  *)
(* topics slow down or stall.                                              *)
Change ==
    /\ backend = "rclpy" /\ graph.changes < MaxChanges
    /\ \/ \E n \in Manifests[graph.running].nodes :
             \/ graph' = [graph EXCEPT !.changes = @ + 1,
                             !.dead = IF n \in @ THEN @ \ {n} ELSE @ \cup {n}]
             \/ graph' = [graph EXCEPT !.changes = @ + 1, !.inactive = @ \cup {n}]
       \/ \E t \in Topic, s \in Speed :
             graph' = [graph EXCEPT !.changes = @ + 1, !.speed[t] = s]
    /\ run' = [run EXCEPT !.changed = TRUE]
    /\ UNCHANGED <<backend, version, installed>>

Next ==
    \/ \E target \in Version \cup {Unknown} : Preflight(target)
    \/ SimApply \/ InstallHook \/ Respawn
    \/ CheckNodes \/ CheckTopic \/ CheckLifecycle
    \/ Change

Spec == Init /\ [][Next]_vars

-----------------------------------------------------------------------------
(* The graph is what the manifest of the target says. *)
Conforms ==
    /\ Manifest.nodes \subseteq Alive
    /\ \A n \in Manifest.lifecycle_nodes : Active(n)
    /\ \A t \in DOMAIN Manifest.topics : WithinTolerance(Rate(t), Manifest.topics[t])

(* No version, with every topic at its full rate, passes for another one.  *)
VersionsDiffer ==
    \A v, w \in Version :
       /\ Manifests[v].nodes \subseteq Manifests[w].nodes
       /\ \A t \in DOMAIN Manifests[v].topics :
             WithinTolerance(RateOf(w, t, 100), Manifests[v].topics[t])
       => v = w

(* Of every rate that is good enough for a manifest, a sample has at least *)
(* two messages.                                                           *)
SamplesSuffice ==
    \A v, w \in Version, s \in Speed : \A t \in DOMAIN Manifests[v].topics :
       WithinTolerance(RateOf(w, t, s), Manifests[v].topics[t])
          => RateOf(w, t, s) * SampleTime >= 200

(* A check that passes over a graph that kept still means that the graph   *)
(* matches the manifest (ros_backend.py:105): every injected failure and   *)
(* every node, topic or state that is missing fails it.                    *)
HealthySound == (run.pc = "passed" /\ ~run.changed) => Conforms

(* ... and, unless topics are slow, that the target really runs: an        *)
(* apply_update without hooks only records the version, and the check is   *)
(* what finds that out.  (2.0.0 with /scan at half its rate passes for a   *)
(* 1.0.0.)                                                                 *)
PassedRunsTarget ==
    (run.pc = "passed" /\ ~run.changed /\ \A t \in Topic : graph.speed[t] = 100)
       => graph.running = run.target

(* A check over a graph that matches the manifest all the while passes.    *)
HealthyGraphPasses ==
    (run.pc = "lifecycle" /\ ~run.changed /\ Conforms) => run.ok
=============================================================================
