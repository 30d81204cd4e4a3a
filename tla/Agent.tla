------------------------------- MODULE Agent -------------------------------
(***************************************************************************)
(* The robot-side agents (agent/agent.py): heartbeat, poll, and the update *)
(* pipeline.  An agent is one thread that waits for the answer of every    *)
(* request, so it takes no step while a call of its own is outstanding.    *)
(***************************************************************************)
EXTENDS RobotApi

CONSTANTS
    Manifest,   \* the versions agents have a manifest for (ros_sim.py:22)
    MayFail     \* the steps that may fail: a subset of FailStep

(* no_hooks: the rclpy backend as agent.py:37 builds it installs nothing.  *)
FailStep == {"preflight", "download", "apply", "partial_apply", "no_hooks", "verify"}

ASSUME AgentAssumption == Manifest \subseteq Version /\ MayFail \subseteq FailStep

VARIABLE agent

AgentPc  == {"idle", "poll", "preflight", "download", "apply", "verify", "down"}
Updating == {"preflight", "download", "apply", "verify"}

(* version is stack.version, what the agent reports; installed is the      *)
(* software that is really on the robot.                                   *)
AgentState == [pc: AgentPc, task: Nat, version: Version, installed: Version,
               state: RobotState, mission_ticks: Nat]

AgentTypeOK == agent \in [Robot -> AgentState]

Started(r, installed) ==
    [pc |-> "idle", task |-> 0, version |-> Args[r].version, installed |-> installed,
     state |-> Args[r].state, mission_ticks |-> Args[r].mission_ticks]

AgentInit == agent = [r \in Robot |-> Started(r, Args[r].version)]

agentVars == <<robots, deps, tasks, newer, calls, agent>>

Ready(r, pc) == agent[r].pc = pc /\ ~Blocked(r)

(* set_status and the move that follows it.                                *)
Report(r, status, next) ==
    /\ agent' = [agent EXCEPT ![r] = next]
    /\ calls' = calls \cup {StatusCall(r, agent[r].task, status, next.version)}

Fail(r) == Report(r, "failed", [agent[r] EXCEPT !.pc = "idle", !.task = 0])

(* A charge level more on the charger; off it a level less now and then.   *)
Drained(a, battery) ==
    IF a.state.charging THEN battery = IF a.state.battery < MaxBattery
                                       THEN a.state.battery + 1 ELSE MaxBattery
    ELSE battery \in {a.state.battery, IF a.state.battery > 0
                                       THEN a.state.battery - 1 ELSE 0}

(* A mutant of AfterTick: the ticks run on when there is no mission.       *)
AfterTickAlways(a, battery) ==
    LET ends == a.state.on_mission /\ a.mission_ticks = 1
    IN  [a EXCEPT !.pc = "poll", !.mission_ticks = @ - 1,
           !.state = IF ends
                     THEN [on_mission |-> FALSE, docked |-> TRUE, charging |-> TRUE,
                           battery |-> battery]
                     ELSE [@ EXCEPT !.battery = battery]]

(* The mission bookkeeping of heartbeat: the last tick ends the mission    *)
(* with the robot docked and charging.                                     *)
AfterTick(a, battery) ==
    LET ticking == a.state.on_mission /\ a.mission_ticks > 0
        ends    == ticking /\ a.mission_ticks = 1
    IN  [a EXCEPT !.pc = "poll",
           !.mission_ticks = IF ticking THEN @ - 1 ELSE @,
           !.state = IF ends
                     THEN [on_mission |-> FALSE, docked |-> TRUE, charging |-> TRUE,
                           battery |-> battery]
                     ELSE [@ EXCEPT !.battery = battery]]

Heartbeat(r) ==
    /\ Ready(r, "idle")
    /\ \E battery \in 0..MaxBattery :
          /\ Drained(agent[r], battery)
          /\ LET next == AfterTick(agent[r], battery) IN
             /\ agent' = [agent EXCEPT ![r] = next]
             /\ calls' = calls \cup {HeartbeatCall(r, next.version, next.state)}
    /\ UNCHANGED storeVars

(* A mutant of Poll: whatever task is offered is run.                      *)
PollRunsAny(r) ==
    /\ Ready(r, "poll")
    /\ agent' = [agent EXCEPT ![r] =
          IF ActiveTask(r) = {} THEN [@ EXCEPT !.pc = "idle"]
          ELSE [@ EXCEPT !.pc = "preflight", !.task = CHOOSE k \in ActiveTask(r) : TRUE]]
    /\ UNCHANGED <<storeVars, calls>>

(* GET /task; only a task in status assigned is run.                       *)
Poll(r) ==
    /\ Ready(r, "poll")
    /\ LET offered == WithStatus(ActiveTask(r), {"assigned"}) IN
       agent' = [agent EXCEPT ![r] =
          IF offered = {} THEN [@ EXCEPT !.pc = "idle"]
          ELSE [@ EXCEPT !.pc = "preflight", !.task = CHOOSE k \in offered : TRUE]]
    /\ UNCHANGED <<storeVars, calls>>

Goal(r)    == tasks[agent[r].task].to_version
IsRb(r)    == tasks[agent[r].task].is_rollback
To(r, pc)  == [agent[r] EXCEPT !.pc = pc]

Preflight(r) ==
    /\ Ready(r, "preflight")
    /\ \/ Goal(r) \in Manifest /\ Report(r, "downloading", To(r, "download"))
       \/ (Goal(r) \notin Manifest \/ "preflight" \in MayFail) /\ Fail(r)
    /\ UNCHANGED storeVars

(* A rollback downloads nothing, so only a forward update can fail here.   *)
Download(r) ==
    /\ Ready(r, "download")
    /\ \/ Report(r, "applying", To(r, "apply"))
       \/ ~IsRb(r) /\ "download" \in MayFail /\ Fail(r)
    /\ UNCHANGED storeVars

(* apply_update: it may raise before anything changed, or (respawn_cmd of  *)
(* the rclpy backend) after the packages were installed; without hooks it  *)
(* records the version and leaves the rest to the health check.            *)
Apply(r) ==
    /\ Ready(r, "apply")
    /\ \/ Report(r, "verifying",
                 [To(r, "verify") EXCEPT !.version = Goal(r), !.installed = Goal(r)])
       \/ /\ "no_hooks" \in MayFail
          /\ Report(r, "verifying", [To(r, "verify") EXCEPT !.version = Goal(r)])
       \/ "apply" \in MayFail /\ Fail(r)
       \/ /\ "partial_apply" \in MayFail
          /\ Report(r, "failed", [agent[r] EXCEPT !.pc = "idle", !.task = 0,
                                                  !.installed = Goal(r)])
    /\ UNCHANGED storeVars

Verify(r) ==
    /\ Ready(r, "verify")
    /\ \/ Report(r, "succeeded", [To(r, "idle") EXCEPT !.task = 0])
       \/ "verify" \in MayFail /\ Fail(r)
    /\ UNCHANGED storeVars

AgentStep(r) ==
    \/ Heartbeat(r) \/ Poll(r)
    \/ Preflight(r) \/ Download(r) \/ Apply(r) \/ Verify(r)
=============================================================================
