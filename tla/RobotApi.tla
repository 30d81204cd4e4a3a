------------------------------ MODULE RobotApi -----------------------------
(***************************************************************************)
(* The robot endpoints of the control plane (control-plane/app.py): the    *)
(* heartbeat and the task-status report.  Handlers run in a thread pool    *)
(* beside the engine, and each makes two or three store calls; a call in   *)
(* calls is a request that has been sent and not fully processed, and its  *)
(* step says which store call comes next.                                  *)
(***************************************************************************)
EXTENDS Store

VARIABLE calls

CallStatus == {"heartbeat"} \cup AgentStatus

(* waiting: the agent still blocks on the answer.                          *)
Call == [robot: Robot, task: Nat, status: CallStatus, version: Version,
         state: RobotState, step: {"new", "registered", "version"},
         waiting: BOOLEAN]

ApiTypeOK == calls \subseteq Call
ApiInit   == calls = {}

NoState == [on_mission |-> FALSE, docked |-> FALSE, charging |-> FALSE, battery |-> 0]

HeartbeatCall(r, version, state) ==
    [robot |-> r, task |-> 0, status |-> "heartbeat", version |-> version,
     state |-> state, step |-> "new", waiting |-> TRUE]

StatusCall(r, k, status, version) ==
    [robot |-> r, task |-> k, status |-> status, version |-> version,
     state |-> NoState, step |-> "new", waiting |-> TRUE]

CallsOf(r) == {c \in calls : c.robot = r}
Blocked(r) == \E c \in CallsOf(r) : c.waiting

Step(c, step) == calls' = (calls \ {c}) \cup {[c EXCEPT !.step = step]}

(* heartbeat: an unknown robot is registered with the defaults of          *)
(* upsert_robot, before the state it sent is stored.                       *)
Register(c) ==
    /\ c.status = "heartbeat" /\ c.step = "new" /\ ~robots[c.robot].known
    /\ robots' = [robots EXCEPT ![c.robot] = NewRobotRow(c.version)]
    /\ Step(c, "registered")
    /\ UNCHANGED <<deps, tasks, newer>>

(* update_robot_state. *)
UpdateRobotState(c) ==
    /\ c.status = "heartbeat"
    /\ \/ c.step = "new" /\ robots[c.robot].known
       \/ c.step = "registered"
    /\ robots' = [robots EXCEPT ![c.robot].state = c.state, ![c.robot].fresh = TRUE]
    /\ Step(c, "version")
    /\ UNCHANGED <<deps, tasks, newer>>

(* A mutant of TaskStatusWrite: the version of the report is not stored.   *)
TaskStatusWriteOnly(c) ==
    /\ c.status # "heartbeat" /\ c.step = "new"
    /\ SetTaskStatus(c.task, c.status)
    /\ calls' = calls \ {c}
    /\ UNCHANGED <<robots, deps>>

(* task_status, first transaction of set_task_status: whatever the status  *)
(* of the task or of its deployment, the report overwrites it.             *)
TaskStatusWrite(c) ==
    /\ c.status # "heartbeat" /\ c.step = "new"
    /\ SetTaskStatus(c.task, c.status)
    /\ Step(c, "version")
    /\ UNCHANGED <<robots, deps>>

(* set_robot_version, the last store call of both handlers.                *)
VersionWrite(c) ==
    /\ c.step = "version"
    /\ SetRobotVersion(c.robot, c.version)
    /\ calls' = calls \ {c}
    /\ UNCHANGED <<deps, tasks, newer>>

Handle(c) == Register(c) \/ UpdateRobotState(c) \/ TaskStatusWrite(c) \/ VersionWrite(c)
=============================================================================
