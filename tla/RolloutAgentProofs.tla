------------------------- MODULE RolloutAgentProofs -------------------------
(* What the agents run and what they report: proofs of                     *)
(* NeverUpdatesMidMission, for agents that do not crash, and of            *)
(* VersionOnRecord and RolledBackIsRestored, for a fleet that nobody joins *)
(* and requests that are all answered.                                     *)
EXTENDS RolloutStatusProofs

USE DEF Rows

NoCrash == "crash" \notin Faults

(* A robot that joins is taken to be on no mission, and off its dock, until*)
(* its first heartbeat: only require_docked keeps the release from it.     *)
JoinersGated == Joiners = {} \/ \A d \in Dep : Gates[d].require_docked

OnMission(r) == agent[r].state.on_mission

(* A robot on a mission is seen as such, or off its dock, in its row, and  *)
(* as such in every heartbeat on its way, so the engine assigns it nothing,*)
(* and it starts nothing.                                                  *)
SeenOnMission ==
    \A r \in Robot : OnMission(r) =>
       \/ robots[r].state.on_mission
       \/ Joiners # {} /\ ~robots[r].state.docked /\ ~robots[r].state.charging
SentOnMission ==
    \A c \in calls : c.status = "heartbeat" /\ OnMission(c.robot) => c.state.on_mission
NoUpdate   == \A r \in Robot : OnMission(r) => agent[r].pc \notin Updating
NoAssigned == \A k \in Rows : OnMission(tasks[k].robot) => tasks[k].status # "assigned"

(* A verdict of the gates stays right until it is written: missions end,   *)
(* and none begins.                                                        *)
GateHolds ==
    /\ eng.pc \in {"promote", "assign"} => eng.rows \subseteq Rows
    /\ eng.pc = "assign" /\ eng.gate =>
          \A k \in eng.rows : Current(k) => ~OnMission(tasks[k].robot)

MissionInv ==
    AgentsUp /\ SeenOnMission /\ SentOnMission /\ NoUpdate /\ NoAssigned /\ GateHolds

-----------------------------------------------------------------------------
(* Steps that write no task, and leave the engine where it was or idle.    *)
LEMMA MissionKept ==
    ASSUME TypeOK, MissionInv,
           \A r \in Robot : agent'[r].state.on_mission => OnMission(r),
           AgentsUp', SeenOnMission', SentOnMission', NoUpdate', SameRows,
           \A k \in Rows : tasks'[k].status = "assigned" => tasks[k].status = "assigned",
           UNCHANGED eng \/ eng'.pc = "idle"
    PROVE  MissionInv'
  <1>1. \A k \in Rows : tasks[k].robot \in Robot
    <2>1. \A k \in Rows : tasks[k] \in TaskRow
      BY DEF TypeOK, StoreTypeOK
    <2> QED
      BY <2>1 DEF TaskRow
  <1>2. NoAssigned'
    BY <1>1 DEF MissionInv, NoAssigned, SameRows, OnMission
  <1>3. GateHolds'
    <2>1. CASE eng'.pc = "idle"
      BY <2>1 DEF GateHolds
    <2>2. CASE UNCHANGED eng
      <3>1. eng.pc \in {"promote", "assign"} => eng.rows \subseteq Rows
        BY DEF MissionInv, GateHolds
      <3>2. eng.pc = "assign" => \A k \in eng.rows : Current(k)' => Current(k)
        BY <2>2, <3>1 DEF Current, SameRows
      <3> QED
        BY <1>1, <2>2, <3>1, <3>2 DEF MissionInv, GateHolds, SameRows, OnMission
    <2> QED
      BY <2>1, <2>2
  <1> QED
    BY <1>2, <1>3 DEF MissionInv

LEMMA EngineMission ==
    ASSUME JoinersGated, TypeOK, EngineBusy, MissionInv, EngineNext,
           UNCHANGED <<calls, agent>>
    PROVE  MissionInv'
  <1>1. /\ StoreTypeOK /\ eng.rows \subseteq Nat
        /\ \A k \in Rows : tasks[k] \in TaskRow
    BY DEF TypeOK, EngineTypeOK, StoreTypeOK
  <1>2. \A k \in Rows : tasks[k].robot \in Robot /\ tasks[k].robot \in Nat
    BY <1>1, StoreAssumption DEF TaskRow
  <1>3. eng = [pc |-> eng.pc, queue |-> eng.queue, dep |-> eng.dep, stage |-> eng.stage,
               only_rollback |-> eng.only_rollback, rows |-> eng.rows,
               todo |-> eng.todo, gate |-> eng.gate]
    BY DEF TypeOK, EngineTypeOK
  <1>4. \A q : Idle(q).pc = "idle"
    BY DEF Idle
  <1>5. UNCHANGED robots
    BY DEF EngineNext, Tick, Load, Ensure, EnsureTask, PromotePending, CheckGates, Assign,
           CountFailures, SetRollingBack, CollectRollbacks, CreateRollback, Halt,
           StageRead, Advance, Complete, NormaliseRead, Normalise, FinishRead, storeVars
  <1>6. AgentsUp' /\ SeenOnMission' /\ SentOnMission' /\ NoUpdate'
    BY <1>5 DEF MissionInv, AgentsUp, SeenOnMission, SentOnMission, NoUpdate, OnMission
  <1>7. ASSUME UNCHANGED tasks PROVE NoAssigned'
    BY <1>7 DEF MissionInv, NoAssigned, OnMission
  <1>8. ASSUME UNCHANGED tasks, eng'.pc \notin {"promote", "assign"} PROVE MissionInv'
    BY <1>6, <1>7, <1>8 DEF MissionInv, GateHolds
  <1>9. ASSUME NEW row \in TaskRow, CreateTask(row), row.status # "assigned",
               eng'.pc \notin {"promote", "assign"}
        PROVE  MissionInv'
    <2>1. PICK n : /\ DOMAIN tasks' = Rows \cup {n} /\ tasks'[n] = row
                   /\ \A k \in Rows : tasks'[k] = tasks[k]
      BY <1>1, <1>9, CreateTaskType
    <2>2. NoAssigned'
      BY <1>9, <2>1 DEF MissionInv, NoAssigned, OnMission
    <2> QED
      BY <1>6, <1>9, <2>2 DEF MissionInv, GateHolds
  <1>10. CASE \/ Tick \/ Ensure \/ CountFailures \/ SetRollingBack \/ CollectRollbacks
              \/ Halt \/ StageRead \/ Advance \/ Complete \/ NormaliseRead \/ FinishRead
    <2>1. UNCHANGED tasks
      BY <1>10 DEF Tick, Ensure, CountFailures, SetRollingBack, CollectRollbacks, Halt,
                   StageRead, Advance, Complete, NormaliseRead, FinishRead, storeVars
    <2>2. CASE Tick
      BY <1>3, <1>8, <2>1, <2>2 DEF Tick
    <2>3. CASE Ensure \/ CollectRollbacks
      BY <1>3, <1>8, <2>1, <2>3 DEF Ensure, CollectRollbacks
    <2>4. CASE CountFailures
      <3>1. eng'.pc \in {"set_rolling_back", "halt", "stage"}
        BY <1>3, <2>4 DEF CountFailures
      <3> QED
        BY <1>8, <2>1, <3>1
    <2>7. CASE SetRollingBack \/ NormaliseRead
      <3>1. eng'.pc \in {"collect", "normalise"}
        BY <1>3, <2>7 DEF SetRollingBack, NormaliseRead
      <3> QED
        BY <1>8, <2>1, <3>1
    <2>5. CASE Halt \/ Advance \/ Complete
      BY <1>4, <1>8, <2>1, <2>5 DEF Halt, Advance, Complete, Return
    <2>6. CASE StageRead \/ FinishRead
      <3>1. eng'.pc \in {"advance", "complete", "halt", "idle"}
        BY <1>3, <1>4, <2>6 DEF StageRead, FinishRead, Return
      <3> QED
        BY <1>8, <2>1, <3>1
    <2> QED
      BY <1>10, <2>2, <2>3, <2>4, <2>5, <2>6, <2>7
  <1>11. CASE Load
    <2>1. eng'.pc \in {"ensure", "create", "idle"}
      <3>1. PICK d \in eng.queue :
             LET rest == eng.queue \ {d}
                 work == [Idle(rest) EXCEPT !.dep = d, !.stage = deps[d].stage]
             IN  \/ eng' = [work EXCEPT !.pc = "ensure"]
                 \/ eng' = [work EXCEPT !.pc = "create", !.only_rollback = TRUE]
                 \/ eng' = Idle(rest)
        BY <1>11 DEF Load
      <3> QED
        BY <1>4, <3>1 DEF Idle
    <2> QED
      BY <1>8, <1>11, <2>1 DEF Load, storeVars
  <1>12. CASE EnsureTask
    <2>1. PICK t \in eng.todo :
             /\ CreateTask([dep |-> eng.dep, robot |-> t.robot, is_rollback |-> FALSE,
                            stage |-> eng.stage,
                            status |-> IF t.robot \in Compat[eng.dep]
                                       THEN "pending" ELSE "skipped",
                            from_version |-> t.version,
                            to_version |-> Release[eng.dep]])
             /\ eng' = [eng EXCEPT !.todo = @ \ {t}]
      BY <1>12 DEF EnsureTask
    <2> DEFINE row == [dep |-> eng.dep, robot |-> t.robot, is_rollback |-> FALSE,
                       stage |-> eng.stage,
                       status |-> IF t.robot \in Compat[eng.dep]
                                  THEN "pending" ELSE "skipped",
                       from_version |-> t.version,
                       to_version |-> Release[eng.dep]]
    <2>2. row \in TaskRow /\ row.status # "assigned"
      BY <1>12, NewRowTyped DEF EnsureTask
    <2>3. CreateTask(row) /\ eng'.pc = "create"
      BY <1>3, <1>12, <2>1 DEF EnsureTask
    <2> HIDE DEF row
    <2> QED
      BY <1>9, <2>2, <2>3
  <1>13. CASE CreateRollback
    <2>1. PICK t \in eng.todo, prev \in Version :
             /\ CreateTask([dep |-> eng.dep, robot |-> t.robot, is_rollback |-> TRUE,
                            stage |-> eng.stage, status |-> "pending",
                            from_version |-> Release[eng.dep], to_version |-> prev])
             /\ \/ eng' = Idle(eng.queue)
                \/ eng' = [eng EXCEPT !.todo = @ \ {t}]
      BY <1>13 DEF CreateRollback, Return
    <2> DEFINE row == [dep |-> eng.dep, robot |-> t.robot, is_rollback |-> TRUE,
                       stage |-> eng.stage, status |-> "pending",
                       from_version |-> Release[eng.dep], to_version |-> prev]
    <2>2. row \in TaskRow /\ row.status # "assigned"
      BY <1>13, NewRowTyped DEF CreateRollback
    <2>3. CreateTask(row) /\ (eng'.pc = "idle" \/ eng'.pc = "rollback")
      BY <1>3, <1>4, <1>13, <2>1 DEF CreateRollback
    <2> HIDE DEF row
    <2> QED
      BY <1>9, <2>2, <2>3
  <1>14. CASE PromotePending
    <2>1. eng'.rows \subseteq Rows /\ eng'.pc = "promote" /\ UNCHANGED tasks
      BY <1>3, <1>14 DEF PromotePending, WithStatus, StageTasks, TasksOf, storeVars
    <2>2. GateHolds'
      BY <2>1 DEF GateHolds
    <2> QED
      BY <1>6, <1>7, <2>1, <2>2 DEF MissionInv
  <1>15. CASE CheckGates
    <2>1. PICK k \in eng.rows :
             /\ Current(k)
             /\ eng' = [eng EXCEPT !.pc = "assign",
                           !.gate = GatesPass(eng.dep, tasks[k].robot)]
      BY <1>15 DEF CheckGates
    <2>2. /\ eng'.pc = "assign" /\ eng'.rows = eng.rows /\ UNCHANGED tasks
          /\ eng'.gate = GatesPass(eng.dep, tasks[k].robot)
          /\ eng.rows \subseteq Rows
      BY <1>3, <1>15, <2>1 DEF CheckGates, storeVars, MissionInv, GateHolds
    <2>3. ASSUME eng'.gate, NEW j \in eng.rows, Current(j)
          PROVE  ~OnMission(tasks[j].robot)
      <3>1. tasks[j].robot = tasks[k].robot
        BY <1>2, <2>1, <2>2, <2>3 DEF Current
      <3>2. eng.dep \in Dep
        BY <1>15 DEF CheckGates, EngineBusy
      <3>3. /\ ~robots[tasks[k].robot].state.on_mission
            /\ Joiners # {} => \/ robots[tasks[k].robot].state.docked
                               \/ robots[tasks[k].robot].state.charging
        BY <2>2, <2>3, <3>2 DEF GatesPass, JoinersGated
      <3> QED
        BY <1>2, <2>2, <3>1, <3>3 DEF MissionInv, SeenOnMission
    <2>4. GateHolds'
      BY <2>2, <2>3 DEF GateHolds, Current, OnMission
    <2> QED
      BY <1>6, <1>7, <2>2, <2>4 DEF MissionInv
  <1>16. CASE Assign
    <2>1. PICK k \in eng.rows :
             /\ Current(k) /\ SetTaskStatus(k, IF eng.gate THEN "assigned" ELSE "pending")
             /\ eng'.pc = "promote" /\ eng'.rows = eng.rows \ {k}
      BY <1>3, <1>16 DEF Assign
    <2>2. eng.rows \subseteq Rows /\ (eng.gate => ~OnMission(tasks[k].robot))
      BY <1>16, <2>1 DEF Assign, MissionInv, GateHolds
    <2>3. PICK st \in {"assigned", "pending"} :
             SetTaskStatus(k, st) /\ (st = "assigned" => eng.gate)
      BY <2>1
    <2>4. /\ DOMAIN tasks' = Rows
          /\ \A j \in Rows : tasks'[j] = IF j = k THEN [tasks[j] EXCEPT !.status = st]
                                                  ELSE tasks[j]
      BY <1>1, <2>3, SetTaskStatusType DEF TaskStatus
    <2>5. /\ \A j \in Rows : j # k => tasks'[j] = tasks[j]
          /\ tasks'[k].robot = tasks[k].robot /\ tasks'[k].status = st
      BY <1>1, <2>2, <2>4 DEF TaskRow
    <2>6. NoAssigned'
      BY <2>2, <2>3, <2>4, <2>5 DEF MissionInv, NoAssigned, OnMission
    <2>7. GateHolds'
      BY <2>1, <2>2, <2>4 DEF GateHolds
    <2> QED
      BY <1>6, <2>6, <2>7 DEF MissionInv
  <1>17. CASE Normalise
    <2>1. PICK k \in eng.rows : SetTaskStatus(k, "rolled_back")
      BY <1>17 DEF Normalise
    <2>2. /\ DOMAIN tasks' = Rows
          /\ \A j \in Rows : tasks'[j] =
                IF j = k THEN [tasks[j] EXCEPT !.status = "rolled_back"] ELSE tasks[j]
      BY <1>1, <2>1, SetTaskStatusType DEF TaskStatus, Terminal
    <2>3. \A j \in Rows : tasks'[j].robot = tasks[j].robot
             /\ (tasks'[j].status = "assigned" => tasks[j].status = "assigned")
      BY <1>1, <2>2 DEF TaskRow
    <2>4. NoAssigned'
      BY <2>2, <2>3 DEF MissionInv, NoAssigned, OnMission
    <2>5. eng'.pc = "normalise"
      BY <1>3, <1>17 DEF Normalise
    <2> QED
      BY <1>6, <2>4, <2>5 DEF MissionInv, GateHolds
  <1> QED
    BY <1>10, <1>11, <1>12, <1>13, <1>14, <1>15, <1>16, <1>17 DEF EngineNext

LEMMA AgentMission ==
    ASSUME TypeOK, MissionInv, NEW r \in Robot, AgentStep(r), UNCHANGED eng
    PROVE  MissionInv'
  <1>1. /\ agent \in [Robot -> AgentState] /\ agent[r] \in AgentState
        /\ UNCHANGED <<tasks, robots>>
        /\ \A c \in calls : c.robot \in Robot
    BY StatusTyped DEF TypeOK, AgentTypeOK, AgentStep, Heartbeat, Poll, Preflight,
                       Download, Apply, Verify, storeVars
  <1>2. agent[r] = [pc |-> agent[r].pc, task |-> agent[r].task,
                    version |-> agent[r].version, installed |-> agent[r].installed,
                    state |-> agent[r].state, mission_ticks |-> agent[r].mission_ticks]
        /\ agent[r].state \in RobotState
    BY <1>1 DEF AgentState
  <1>3. SameRows
    BY <1>1 DEF SameRows
  <1>4. ASSUME NEW next, agent' = [agent EXCEPT ![r] = next], next.pc # "down",
               next.state.on_mission => OnMission(r),
               next.state.on_mission => next.pc \notin Updating,
               \A c \in calls' : c.status = "heartbeat" =>
                  c \in calls \/ (c.robot = r /\ c.state = next.state)
        PROVE  MissionInv'
    <2>1. agent'[r] = next /\ \A q \in Robot : q # r => agent'[q] = agent[q]
      BY <1>1, <1>4
    <2>2. \A q \in Robot : agent'[q].state.on_mission => OnMission(q)
      BY <1>4, <2>1 DEF OnMission
    <2>3. AgentsUp' /\ NoUpdate'
      BY <1>4, <2>1 DEF MissionInv, AgentsUp, NoUpdate, OnMission
    <2>4. SeenOnMission'
      BY <1>1, <2>2 DEF MissionInv, SeenOnMission, OnMission
    <2>5. SentOnMission'
      BY <1>1, <1>4, <2>1, <2>2 DEF MissionInv, SentOnMission, OnMission
    <2> QED
      BY <1>1, <1>3, <2>2, <2>3, <2>4, <2>5, MissionKept
  <1>5. CASE Heartbeat(r)
    <2>1. PICK battery \in 0..MaxBattery :
             LET next == AfterTick(agent[r], battery) IN
             /\ agent' = [agent EXCEPT ![r] = next]
             /\ calls' = calls \cup {HeartbeatCall(r, next.version, next.state)}
      BY <1>5 DEF Heartbeat
    <2> DEFINE next == AfterTick(agent[r], battery)
               new == HeartbeatCall(r, next.version, next.state)
    <2>2. next.pc = "poll"
      BY <1>2 DEF AfterTick
    <2>3. next.state.on_mission => OnMission(r)
      BY <1>2 DEF AfterTick, OnMission, RobotState
    <2>4. agent' = [agent EXCEPT ![r] = next] /\ calls' = calls \cup {new}
      BY <2>1
    <2>5. new.robot = r /\ new.state = next.state
      BY DEF HeartbeatCall
    <2> HIDE DEF next, new
    <2> QED
      BY <1>4, <2>2, <2>3, <2>4, <2>5 DEF Updating
  <1>6. CASE Poll(r)
    <2> DEFINE offered == WithStatus(ActiveTask(r), {"assigned"})
               next == IF offered = {} THEN [agent[r] EXCEPT !.pc = "idle"]
                       ELSE [agent[r] EXCEPT !.pc = "preflight",
                                             !.task = CHOOSE k \in offered : TRUE]
    <2>1. agent' = [agent EXCEPT ![r] = next] /\ UNCHANGED calls
      BY <1>6 DEF Poll
    <2>2. next.state = agent[r].state /\ next.pc \in {"idle", "preflight"}
          /\ (next.pc = "preflight" => offered # {})
      BY <1>2
    <2>3. \A k \in offered : /\ k \in Rows /\ tasks[k].robot = r
                             /\ tasks[k].status = "assigned"
      BY DEF WithStatus, ActiveTask, Newest
    <2> HIDE DEF next, offered
    <2>4. next.state.on_mission => offered = {}
      BY <2>2, <2>3 DEF MissionInv, NoAssigned, OnMission
    <2> QED
      BY <1>4, <2>1, <2>2, <2>4 DEF Updating, OnMission
  <1>7. ASSUME NEW status \in AgentStatus, NEW next, Report(r, status, next),
               agent[r].pc \in Updating, next.pc # "down", next.state = agent[r].state
        PROVE  MissionInv'
    <2>1. agent' = [agent EXCEPT ![r] = next]
      BY <1>7 DEF Report
    <2>2. \A c \in calls' : c.status = "heartbeat" => c \in calls
      BY <1>7 DEF Report, StatusCall, AgentStatus
    <2>3. ~OnMission(r)
      BY <1>7 DEF MissionInv, NoUpdate
    <2> QED
      BY <1>4, <1>7, <2>1, <2>2, <2>3 DEF OnMission
  <1>8. /\ \A pc \in AgentPc : To(r, pc).pc = pc /\ To(r, pc).state = agent[r].state
        /\ [agent[r] EXCEPT !.pc = "idle", !.task = 0].pc = "idle"
        /\ [agent[r] EXCEPT !.pc = "idle", !.task = 0].state = agent[r].state
    BY <1>2 DEF To
  <1>9. ASSUME Fail(r), agent[r].pc \in Updating PROVE MissionInv'
    BY <1>7, <1>8, <1>9 DEF Fail, AgentStatus
  <1>10. CASE Preflight(r)
    <2>1. agent[r].pc \in Updating
      BY <1>10 DEF Preflight, Ready, Updating
    <2>2. CASE Report(r, "downloading", To(r, "download"))
      BY <1>7, <1>8, <2>1, <2>2 DEF AgentStatus, AgentPc
    <2> QED
      BY <1>9, <1>10, <2>1, <2>2 DEF Preflight
  <1>11. CASE Download(r)
    <2>1. agent[r].pc \in Updating
      BY <1>11 DEF Download, Ready, Updating
    <2>2. CASE Report(r, "applying", To(r, "apply"))
      BY <1>7, <1>8, <2>1, <2>2 DEF AgentStatus, AgentPc
    <2> QED
      BY <1>9, <1>11, <2>1, <2>2 DEF Download
  <1>12. CASE Apply(r)
    <2>1. agent[r].pc \in Updating
      BY <1>12 DEF Apply, Ready, Updating
    <2>2. CASE Report(r, "verifying", [To(r, "verify") EXCEPT !.version = Goal(r),
                                                              !.installed = Goal(r)])
      <3> DEFINE next == [To(r, "verify") EXCEPT !.version = Goal(r), !.installed = Goal(r)]
      <3>1. next.pc = "verify" /\ next.state = agent[r].state
        BY <1>2 DEF To
      <3>2. Report(r, "verifying", next)
        BY <2>2
      <3> HIDE DEF next
      <3> QED
        BY <1>7, <2>1, <3>1, <3>2 DEF AgentStatus
    <2>3. CASE Report(r, "failed", [agent[r] EXCEPT !.pc = "idle", !.task = 0,
                                                   !.installed = Goal(r)])
      <3> DEFINE next == [agent[r] EXCEPT !.pc = "idle", !.task = 0,
                                          !.installed = Goal(r)]
      <3>1. next.pc = "idle" /\ next.state = agent[r].state
        BY <1>2
      <3>2. Report(r, "failed", next)
        BY <2>3
      <3> HIDE DEF next
      <3> QED
        BY <1>7, <2>1, <3>1, <3>2 DEF AgentStatus
    <2>4. CASE Report(r, "verifying", [To(r, "verify") EXCEPT !.version = Goal(r)])
      <3> DEFINE next == [To(r, "verify") EXCEPT !.version = Goal(r)]
      <3>1. next.pc = "verify" /\ next.state = agent[r].state
        BY <1>2 DEF To
      <3>2. Report(r, "verifying", next)
        BY <2>4
      <3> HIDE DEF next
      <3> QED
        BY <1>7, <2>1, <3>1, <3>2 DEF AgentStatus
    <2> QED
      BY <1>9, <1>12, <2>1, <2>2, <2>3, <2>4 DEF Apply
  <1>13. CASE Verify(r)
    <2>1. agent[r].pc \in Updating
      BY <1>13 DEF Verify, Ready, Updating
    <2>2. CASE Report(r, "succeeded", [To(r, "idle") EXCEPT !.task = 0])
      <3> DEFINE next == [To(r, "idle") EXCEPT !.task = 0]
      <3>1. next.pc = "idle" /\ next.state = agent[r].state
        BY <1>2 DEF To
      <3>2. Report(r, "succeeded", next)
        BY <2>2
      <3> HIDE DEF next
      <3> QED
        BY <1>7, <2>1, <3>1, <3>2 DEF AgentStatus
    <2> QED
      BY <1>9, <1>13, <2>1, <2>2 DEF Verify
  <1> QED
    BY <1>5, <1>6, <1>10, <1>11, <1>12, <1>13 DEF AgentStep

LEMMA HandlerMission ==
    ASSUME TypeOK, MissionInv, Known, NEW c \in calls, Handle(c),
           UNCHANGED <<eng, agent>>
    PROVE  MissionInv'
  <1>1. /\ StoreTypeOK /\ c \in Call /\ robots \in [Robot -> RobotRow]
        /\ \A k \in Rows : tasks[k] \in TaskRow
        /\ c.robot \in Robot
    BY DEF TypeOK, StoreTypeOK, ApiTypeOK, Call
  <1>2. AgentsUp' /\ NoUpdate'
        /\ \A r \in Robot : agent'[r].state.on_mission => OnMission(r)
    BY DEF MissionInv, AgentsUp, NoUpdate, OnMission
  <1>3. SentOnMission'
    <2>1. \A step \in {"registered", "version"} :
             /\ [c EXCEPT !.step = step].status = c.status
             /\ [c EXCEPT !.step = step].robot = c.robot
             /\ [c EXCEPT !.step = step].state = c.state
      BY <1>1 DEF Call
    <2>2. \/ \E step \in {"registered", "version"} : Step(c, step)
          \/ calls' = calls \ {c}
      BY DEF Handle, Register, UpdateRobotState, TaskStatusWrite, VersionWrite
    <2> QED
      BY <2>1, <2>2 DEF Step, MissionInv, SentOnMission, OnMission
  <1>4. SeenOnMission'
    <2>1. CASE Register(c)
      <3>1. \A r \in Robot : \/ robots'[r] = robots[r]
                             \/ /\ r \in Joiners
                                /\ ~robots'[r].state.docked /\ ~robots'[r].state.charging
        BY <1>1, <2>1 DEF Register, NewRobotRow, Known, Founders
      <3> QED
        BY <2>1, <3>1 DEF Register, MissionInv, SeenOnMission, OnMission
    <2>2. CASE UpdateRobotState(c)
      <3>1. \A r \in Robot : robots'[r].state = IF r = c.robot THEN c.state
                                                ELSE robots[r].state
        BY <1>1, <2>2 DEF UpdateRobotState, RobotRow
      <3>2. OnMission(c.robot) => c.state.on_mission
        BY <2>2 DEF UpdateRobotState, MissionInv, SentOnMission
      <3> QED
        BY <3>1, <3>2 DEF MissionInv, SeenOnMission, OnMission
    <2>3. CASE TaskStatusWrite(c)
      BY <2>3 DEF TaskStatusWrite, MissionInv, SeenOnMission, OnMission
    <2>4. CASE VersionWrite(c)
      <3>1. \A r \in Robot : robots'[r].state = robots[r].state
        BY <1>1, <2>4 DEF VersionWrite, SetRobotVersion, RobotRow
      <3> QED
        BY <3>1 DEF MissionInv, SeenOnMission, OnMission
    <2> QED
      BY <2>1, <2>2, <2>3, <2>4 DEF Handle
  <1>5. CASE TaskStatusWrite(c)
    <2>1. /\ c.task \in Nat /\ c.status \in TaskStatus /\ c.status # "assigned"
          /\ SetTaskStatus(c.task, c.status)
      BY <1>1, <1>5 DEF TaskStatusWrite, Call, CallStatus, TaskStatus, AgentStatus
    <2>2. \A j \in Rows : tasks'[j] =
             IF j = c.task THEN [tasks[j] EXCEPT !.status = c.status] ELSE tasks[j]
      BY <1>1, <2>1, SetTaskStatusType
    <2>3. \A k \in Rows : tasks'[k].status = "assigned" => tasks[k].status = "assigned"
      BY <1>1, <2>1, <2>2 DEF TaskRow
    <2>4. SameRows
      BY <1>1, <2>1, StatusWriteSameRows
    <2> QED
      BY <1>2, <1>3, <1>4, <2>3, <2>4, MissionKept
  <1>6. CASE Register(c) \/ UpdateRobotState(c) \/ VersionWrite(c)
    <2>1. UNCHANGED tasks
      BY <1>6 DEF Register, UpdateRobotState, VersionWrite
    <2>2. SameRows
      BY <2>1 DEF SameRows
    <2> QED
      BY <1>2, <1>3, <1>4, <2>1, <2>2, MissionKept
  <1> QED
    BY <1>5, <1>6 DEF Handle

LEMMA FaultMission ==
    ASSUME NoCrash, TypeOK, MissionInv, FaultMoves
    PROVE  MissionInv'
  <1>1. /\ agent \in [Robot -> AgentState] /\ calls \subseteq Call
        /\ UNCHANGED <<tasks, robots>> /\ ~Fault("crash")
        /\ (UNCHANGED eng \/ \E queue : eng' = Idle(queue))
    BY DEF FaultMoves, LoseCall, Timeout, AgentCrash, AgentRestart, UpdateRaises,
           ServerRestart, EngineError, Return, TypeOK, AgentTypeOK, ApiTypeOK,
           NoCrash, Fault
  <1>2. SameRows
    BY <1>1 DEF SameRows
  <1>3. ASSUME \A r \in Robot : /\ agent'[r].state = agent[r].state
                                /\ agent'[r].pc \in {agent[r].pc, "idle"},
               \A c \in calls' : \E b \in calls :
                  c.status = b.status /\ c.robot = b.robot /\ c.state = b.state
        PROVE  MissionInv'
    <2>1. AgentsUp' /\ NoUpdate'
      BY <1>3 DEF MissionInv, AgentsUp, NoUpdate, OnMission, Updating
    <2>2. SeenOnMission'
      BY <1>1, <1>3 DEF MissionInv, SeenOnMission, OnMission
    <2>3. SentOnMission'
      BY <1>1, <1>3 DEF MissionInv, SentOnMission, OnMission, Call
    <2> QED
      BY <1>1, <1>2, <1>3, <2>1, <2>2, <2>3, MissionKept DEF OnMission, Idle
  <1>4. ASSUME NEW c \in calls, LoseCall(c) \/ Timeout(c) PROVE MissionInv'
    <2>1. c \in Call
      BY <1>1
    <2>2. /\ [c EXCEPT !.waiting = FALSE].status = c.status
          /\ [c EXCEPT !.waiting = FALSE].robot = c.robot
          /\ [c EXCEPT !.waiting = FALSE].state = c.state
      BY <2>1 DEF Call
    <2>3. UNCHANGED agent
          /\ \A b \in calls' : b \in calls \/ b = [c EXCEPT !.waiting = FALSE]
      BY <1>4 DEF LoseCall, Timeout
    <2> QED
      BY <1>3, <2>2, <2>3
  <1>5. ASSUME NEW r \in Robot, AgentCrash(r) \/ AgentRestart(r) \/ UpdateRaises(r)
        PROVE  MissionInv'
    <2>1. UpdateRaises(r)
      BY <1>1, <1>5 DEF AgentCrash, AgentRestart, MissionInv, AgentsUp
    <2>2. [agent[r] EXCEPT !.pc = "idle", !.task = 0].pc = "idle"
          /\ [agent[r] EXCEPT !.pc = "idle", !.task = 0].state = agent[r].state
      BY <1>1 DEF AgentState
    <2>3. \A q \in Robot : /\ agent'[q].state = agent[q].state
                           /\ agent'[q].pc \in {agent[q].pc, "idle"}
      BY <1>1, <2>1, <2>2 DEF UpdateRaises
    <2> QED
      BY <1>3, <2>1, <2>3 DEF UpdateRaises
  <1>6. CASE ServerRestart \/ EngineError
    BY <1>3, <1>6 DEF ServerRestart, EngineError
  <1> QED
    BY <1>4, <1>5, <1>6 DEF FaultMoves

-----------------------------------------------------------------------------
LEMMA StepMission ==
    ASSUME NoCrash, JoinersGated, TypeInv, WaveInv, MissionInv, [Next]_vars
    PROVE  MissionInv'
  <1>1. TypeOK /\ EngineBusy /\ Known
    BY DEF TypeInv, WaveInv
  <1>2. ASSUME UNCHANGED <<tasks, eng, agent, calls>>,
               \A r \in Robot : \/ robots'[r].state = robots[r].state
                               \/ /\ Joiners # {}
                                  /\ ~robots'[r].state.docked /\ ~robots'[r].state.charging
        PROVE  MissionInv'
    BY <1>2 DEF MissionInv, AgentsUp, SeenOnMission, SentOnMission, NoUpdate, NoAssigned,
                GateHolds, OnMission, Current
  <1>3. CASE EngineMoves
    BY <1>1, <1>3, EngineMission DEF EngineMoves
  <1>4. ASSUME NEW r \in Robot, HandlerMoves(r) PROVE MissionInv'
    BY <1>1, <1>4, HandlerMission DEF HandlerMoves, CallsOf
  <1>5. ASSUME NEW r \in Robot, AgentMoves(r) PROVE MissionInv'
    BY <1>1, <1>5, AgentMission DEF AgentMoves
  <1>6. ASSUME NEW r \in Robot, RegisterRobot(r) \/ HeartbeatStale(r) PROVE MissionInv'
    <2>1. CASE RegisterRobot(r)
      <3>1. \A q \in Robot :
               \/ robots'[q].state = robots[q].state
               \/ /\ Joiners # {}
                  /\ ~robots'[q].state.docked /\ ~robots'[q].state.charging
        BY <1>1, <2>1 DEF RegisterRobot, NewRobotRow, TypeOK, StoreTypeOK
      <3> QED
        BY <1>2, <2>1, <3>1 DEF RegisterRobot
    <2>2. CASE HeartbeatStale(r)
      <3>1. \A q \in Robot : robots'[q].state = robots[q].state
        BY <1>1, <2>2 DEF HeartbeatStale, TypeOK, StoreTypeOK, RobotRow
      <3> QED
        BY <1>2, <2>2, <3>1 DEF HeartbeatStale
    <2> QED
      BY <1>6, <2>1, <2>2
  <1>7. CASE OperatorMoves
    BY <1>2, <1>7 DEF OperatorMoves, CreateDeployment, Pause, Resume
  <1>8. CASE FaultMoves
    BY <1>1, <1>8, FaultMission
  <1>9. CASE UNCHANGED vars
    BY <1>2, <1>9 DEF vars
  <1> QED
    BY <1>3, <1>4, <1>5, <1>6, <1>7, <1>8, <1>9 DEF Next

LEMMA InitMission == ASSUME Init PROVE MissionInv
  <1>1. /\ calls = {} /\ eng.pc = "idle" /\ DOMAIN tasks = {}
        /\ \A r \in Robot : /\ agent[r].pc = "idle" /\ agent[r].state = Args[r].state
                            /\ robots[r].state = Args[r].state
    BY DEF Init, ApiInit, EngineInit, Idle, StoreInit, AgentInit, Started
  <1> QED
    BY <1>1 DEF MissionInv, AgentsUp, SeenOnMission, SentOnMission, NoUpdate, NoAssigned,
                GateHolds, OnMission, Updating

(* No agent is in its update pipeline while its robot is on a mission, for *)
(* every fault but the crash of an agent (an agent that starts again may   *)
(* find itself on a mission), and for every joiner, if the robots must be  *)
(* docked: the row of a robot just registered shows no mission yet.        *)
THEOREM NeverUpdatesMidMissionHolds ==
    ASSUME NoCrash, JoinersGated
    PROVE  Spec => []NeverUpdatesMidMission
  <1>1. Init => MissionInv
    BY InitMission
  <1>2. TypeInv /\ WaveInv /\ MissionInv /\ [Next]_vars => MissionInv'
    BY StepMission
  <1>3. MissionInv => NeverUpdatesMidMission
    BY DEF MissionInv, NoUpdate, NeverUpdatesMidMission, OnMission
  <1> QED
    BY InitType, StepType, WaveCorrect, <1>1, <1>2, <1>3, PTL DEF Spec

-----------------------------------------------------------------------------
(* What the robots table knows of the agents: VersionOnRecord.             *)

(* Nobody joins the fleet, and every request reaches its handler and is    *)
(* answered: ticks and updates may break off, but nothing is lost, late or *)
(* restarted.                                                              *)
SteadyFleet == Joiners = {} /\ Faults \subseteq {"abort", "raise"}

VersionSent == \A c \in calls : c.version = agent[c.robot].version

VersionInv == VersionSent /\ VersionOnRecord

(* An agent takes a step when it has no request out: it says nothing of a  *)
(* task, or it reports on its own.  Only apply_update changes what is      *)
(* installed, and only one that ends well what the agent takes for its     *)
(* version; without hooks it installs nothing.                             *)
SaysNothing(r) ==
    /\ agent'[r].version = agent[r].version /\ agent'[r].installed = agent[r].installed
    /\ agent'[r].pc # "verify" /\ calls \subseteq calls'
    /\ \A c \in calls' :
          c \in calls \/ (c.robot = r /\ c.status = "heartbeat" /\ c.version = agent'[r].version)

Says(r, status) ==
    calls' = calls \cup {StatusCall(r, agent[r].task, status, agent'[r].version)}

Reports(r) ==
    /\ agent[r].pc \in Updating
    /\ \/ /\ agent'[r].version = agent[r].version /\ agent'[r].installed = agent[r].installed
          /\ agent'[r].pc # "verify"
          /\ \/ \E status \in {"downloading", "applying", "failed"} : Says(r, status)
             \/ agent[r].pc = "verify" /\ Says(r, "succeeded")
       \/ /\ agent[r].pc = "apply"
          /\ agent'[r].installed = Goal(r) \/ "no_hooks" \in MayFail
          /\ \/ /\ agent'[r].version = Goal(r) /\ agent'[r].task = agent[r].task
                /\ Says(r, "verifying")
             \/ /\ agent'[r].version = agent[r].version /\ agent'[r].pc = "idle"
                /\ Says(r, "failed")

LEMMA StepAsSaid ==
    ASSUME TypeOK, NEW r \in Robot, AgentStep(r)
    PROVE  /\ \A q \in Robot : q # r => agent'[q] = agent[q]
           /\ ~Blocked(r) /\ UNCHANGED storeVars
           /\ SaysNothing(r) \/ Reports(r)
  <1>1. /\ agent \in [Robot -> AgentState] /\ agent[r] \in AgentState
        /\ UNCHANGED storeVars /\ ~Blocked(r)
    BY DEF TypeOK, AgentTypeOK, AgentStep, Heartbeat, Poll, Preflight,
           Download, Apply, Verify, Ready
  <1>2. agent[r] = [pc |-> agent[r].pc, task |-> agent[r].task,
                    version |-> agent[r].version, installed |-> agent[r].installed,
                    state |-> agent[r].state, mission_ticks |-> agent[r].mission_ticks]
    BY <1>1 DEF AgentState
  <1>3. ASSUME NEW next, agent' = [agent EXCEPT ![r] = next]
        PROVE  agent'[r] = next /\ \A q \in Robot : q # r => agent'[q] = agent[q]
    BY <1>1, <1>3
  <1>4. CASE Heartbeat(r)
    <2>1. PICK battery \in 0..MaxBattery :
             LET next == AfterTick(agent[r], battery) IN
             /\ agent' = [agent EXCEPT ![r] = next]
             /\ calls' = calls \cup {HeartbeatCall(r, next.version, next.state)}
      BY <1>4 DEF Heartbeat
    <2> DEFINE next == AfterTick(agent[r], battery)
               new == HeartbeatCall(r, next.version, next.state)
    <2>2. next.version = agent[r].version /\ next.installed = agent[r].installed
          /\ next.pc = "poll"
      BY <1>2 DEF AfterTick
    <2>3. new.robot = r /\ new.status = "heartbeat" /\ new.version = next.version
      BY DEF HeartbeatCall
    <2>4. agent' = [agent EXCEPT ![r] = next] /\ calls' = calls \cup {new}
      BY <2>1
    <2> HIDE DEF next, new
    <2> QED
      BY <1>1, <1>3, <2>2, <2>3, <2>4 DEF SaysNothing
  <1>5. CASE Poll(r)
    <2> DEFINE offered == WithStatus(ActiveTask(r), {"assigned"})
               next == IF offered = {} THEN [agent[r] EXCEPT !.pc = "idle"]
                       ELSE [agent[r] EXCEPT !.pc = "preflight",
                                             !.task = CHOOSE k \in offered : TRUE]
    <2>1. agent' = [agent EXCEPT ![r] = next] /\ UNCHANGED calls
      BY <1>5 DEF Poll
    <2>2. next.version = agent[r].version /\ next.installed = agent[r].installed
          /\ next.pc \in {"idle", "preflight"}
      BY <1>2
    <2> HIDE DEF next
    <2> QED
      BY <1>1, <1>3, <2>1, <2>2 DEF SaysNothing
  <1>6. ASSUME NEW status \in {"downloading", "applying", "failed", "succeeded"}, NEW next,
               Report(r, status, next), agent[r].pc \in Updating,
               status = "succeeded" => agent[r].pc = "verify",
               next.version = agent[r].version, next.installed = agent[r].installed,
               next.pc # "verify"
        PROVE  Reports(r) /\ \A q \in Robot : q # r => agent'[q] = agent[q]
    BY <1>3, <1>6 DEF Report, Reports, Says
  <1>7. /\ \A pc \in AgentPc : /\ To(r, pc).pc = pc /\ To(r, pc).version = agent[r].version
                               /\ To(r, pc).installed = agent[r].installed
        /\ [agent[r] EXCEPT !.pc = "idle", !.task = 0].pc = "idle"
        /\ [agent[r] EXCEPT !.pc = "idle", !.task = 0].version = agent[r].version
        /\ [agent[r] EXCEPT !.pc = "idle", !.task = 0].installed = agent[r].installed
    BY <1>2 DEF To
  <1>8. ASSUME Fail(r), agent[r].pc \in Updating
        PROVE  Reports(r) /\ \A q \in Robot : q # r => agent'[q] = agent[q]
    <2> DEFINE next == [agent[r] EXCEPT !.pc = "idle", !.task = 0]
    <2>1. Report(r, "failed", next)
      BY <1>8 DEF Fail
    <2>2. next.pc = "idle" /\ next.version = agent[r].version
          /\ next.installed = agent[r].installed
      BY <1>7
    <2> HIDE DEF next
    <2> QED
      BY <1>6, <1>8, <2>1, <2>2
  <1>9. CASE Preflight(r)
    <2>1. agent[r].pc \in Updating
      BY <1>9 DEF Preflight, Ready, Updating
    <2>2. CASE Report(r, "downloading", To(r, "download"))
      <3>1. "download" \in AgentPc
        BY DEF AgentPc
      <3> QED
        BY <1>1, <1>6, <1>7, <2>1, <2>2, <3>1
    <2> QED
      BY <1>1, <1>8, <1>9, <2>1, <2>2 DEF Preflight
  <1>10. CASE Download(r)
    <2>1. agent[r].pc \in Updating
      BY <1>10 DEF Download, Ready, Updating
    <2>2. CASE Report(r, "applying", To(r, "apply"))
      <3>1. "apply" \in AgentPc
        BY DEF AgentPc
      <3> QED
        BY <1>1, <1>6, <1>7, <2>1, <2>2, <3>1
    <2> QED
      BY <1>1, <1>8, <1>10, <2>1, <2>2 DEF Download
  <1>11. CASE Apply(r)
    <2>1. agent[r].pc \in Updating /\ agent[r].pc = "apply"
      BY <1>11 DEF Apply, Ready, Updating
    <2>2. CASE Report(r, "verifying", [To(r, "verify") EXCEPT !.version = Goal(r),
                                                              !.installed = Goal(r)])
      <3> DEFINE next == [To(r, "verify") EXCEPT !.version = Goal(r), !.installed = Goal(r)]
      <3>1. next.version = Goal(r) /\ next.installed = Goal(r) /\ next.task = agent[r].task
        BY <1>2 DEF To
      <3>2. Report(r, "verifying", next)
        BY <2>2
      <3> HIDE DEF next
      <3> QED
        BY <1>1, <1>3, <2>1, <3>1, <3>2 DEF Report, Reports, Says
    <2>3. CASE Report(r, "failed", [agent[r] EXCEPT !.pc = "idle", !.task = 0,
                                                   !.installed = Goal(r)])
      <3> DEFINE next == [agent[r] EXCEPT !.pc = "idle", !.task = 0,
                                          !.installed = Goal(r)]
      <3>1. next.version = agent[r].version /\ next.installed = Goal(r) /\ next.pc = "idle"
        BY <1>2
      <3>2. Report(r, "failed", next)
        BY <2>3
      <3> HIDE DEF next
      <3> QED
        BY <1>1, <1>3, <2>1, <3>1, <3>2 DEF Report, Reports, Says
    <2>4. CASE /\ "no_hooks" \in MayFail
               /\ Report(r, "verifying", [To(r, "verify") EXCEPT !.version = Goal(r)])
      <3> DEFINE next == [To(r, "verify") EXCEPT !.version = Goal(r)]
      <3>1. next.version = Goal(r) /\ next.task = agent[r].task
        BY <1>2 DEF To
      <3>2. Report(r, "verifying", next)
        BY <2>4
      <3> HIDE DEF next
      <3> QED
        BY <1>1, <1>3, <2>1, <2>4, <3>1, <3>2 DEF Report, Reports, Says
    <2> QED
      BY <1>1, <1>8, <1>11, <2>1, <2>2, <2>3, <2>4 DEF Apply
  <1>12. CASE Verify(r)
    <2>1. agent[r].pc \in Updating /\ agent[r].pc = "verify"
      BY <1>12 DEF Verify, Ready, Updating
    <2>2. CASE Report(r, "succeeded", [To(r, "idle") EXCEPT !.task = 0])
      <3> DEFINE next == [To(r, "idle") EXCEPT !.task = 0]
      <3>1. next.version = agent[r].version /\ next.installed = agent[r].installed
            /\ next.pc = "idle"
        BY <1>2 DEF To
      <3>2. Report(r, "succeeded", next)
        BY <2>2
      <3> HIDE DEF next
      <3> QED
        BY <1>1, <1>6, <2>1, <3>1, <3>2
    <2> QED
      BY <1>1, <1>8, <1>12, <2>1, <2>2 DEF Verify
  <1> QED
    BY <1>1, <1>4, <1>5, <1>9, <1>10, <1>11, <1>12 DEF AgentStep

(* A handler takes its call on, or answers it once the version is stored.  *)
SameCall(b, c) ==
    b.robot = c.robot /\ b.task = c.task /\ b.status = c.status /\ b.version = c.version

LEMMA HandledCalls ==
    ASSUME TypeOK, NEW c \in calls, Handle(c)
    PROVE  /\ \A b \in calls' : /\ \E a \in calls : SameCall(b, a)
                                /\ IsReport(b) => b \in calls
           /\ calls \ {c} \subseteq calls'
           /\ IsReport(c) => TaskStatusWrite(c)
           /\ VersionWrite(c) \/ \E b \in calls' : b.robot = c.robot
  <1>1. c \in Call
    BY DEF TypeOK, ApiTypeOK
  <1>2. ASSUME NEW step \in {"registered", "version"}, Step(c, step)
        PROVE  /\ \A b \in calls' : /\ \E a \in calls : SameCall(b, a)
                                    /\ IsReport(b) => b \in calls
               /\ calls \ {c} \subseteq calls'
               /\ \E b \in calls' : b.robot = c.robot
    <2> DEFINE moved == [c EXCEPT !.step = step]
    <2>1. SameCall(moved, c) /\ moved.step = step
      BY <1>1 DEF Call, SameCall
    <2>2. calls' = (calls \ {c}) \cup {moved}
      BY <1>2 DEF Step
    <2> HIDE DEF moved
    <2> QED
      BY <2>1, <2>2 DEF SameCall, IsReport
  <1>3. IsReport(c) => TaskStatusWrite(c)
    BY DEF IsReport, Handle, Register, UpdateRobotState, VersionWrite
  <1>4. CASE VersionWrite(c)
    BY <1>3, <1>4 DEF VersionWrite, SameCall
  <1>5. CASE Register(c) \/ UpdateRobotState(c) \/ TaskStatusWrite(c)
    BY <1>2, <1>3, <1>5 DEF Register, UpdateRobotState, TaskStatusWrite
  <1> QED
    BY <1>4, <1>5 DEF Handle

(* The version column is written with what a call carries. *)
LEMMA HandledRobots ==
    ASSUME TypeOK, NEW c \in calls, Handle(c)
    PROVE  \A r \in Robot :
              \/ robots'[r].known = robots[r].known /\ robots'[r].version = robots[r].version
              \/ r = c.robot /\ robots'[r].version = c.version
  <1>1. c \in Call /\ c.robot \in Robot /\ robots \in [Robot -> RobotRow]
    BY DEF TypeOK, ApiTypeOK, StoreTypeOK, Call
  <1>2. CASE Register(c)
    BY <1>1, <1>2 DEF Register, NewRobotRow
  <1>3. CASE UpdateRobotState(c)
    BY <1>1, <1>3 DEF UpdateRobotState, RobotRow
  <1>4. CASE TaskStatusWrite(c)
    BY <1>4 DEF TaskStatusWrite
  <1>5. CASE VersionWrite(c)
    BY <1>1, <1>5 DEF VersionWrite, SetRobotVersion, RobotRow
  <1> QED
    BY <1>2, <1>3, <1>4, <1>5 DEF Handle

(* What the steps have in common that are no agent's and no handler's.     *)
Elsewhere ==
    /\ UNCHANGED calls
    /\ \A r \in Robot : /\ robots'[r].known = robots[r].known
                        /\ robots'[r].version = robots[r].version
                        /\ agent'[r].version = agent[r].version
                        /\ agent'[r].installed = agent[r].installed
                        /\ \/ agent'[r].pc = agent[r].pc /\ agent'[r].task = agent[r].task
                           \/ agent'[r].pc = "idle"

LEMMA StepElsewhere ==
    ASSUME SteadyFleet, TypeOK, AgentsUp, [Next]_vars
    PROVE  \/ Elsewhere /\ (EngineMoves \/ UNCHANGED tasks)
           \/ /\ \E c \in calls : Handle(c)
              /\ UNCHANGED <<eng, agent>>
           \/ /\ \E r \in Robot : AgentStep(r)
              /\ UNCHANGED eng
  <1>1. /\ agent \in [Robot -> AgentState] /\ robots \in [Robot -> RobotRow]
        /\ \A r \in Robot : agent[r] \in AgentState
    BY DEF TypeOK, AgentTypeOK, StoreTypeOK
  <1>2. ASSUME UNCHANGED <<calls, agent>>,
               \A r \in Robot : robots'[r].known = robots[r].known
                                /\ robots'[r].version = robots[r].version
        PROVE  Elsewhere
    BY <1>2 DEF Elsewhere
  <1>3. CASE EngineMoves
    <2>1. UNCHANGED <<robots, calls, agent>>
      BY <1>3 DEF EngineMoves, EngineNext, Tick, Load, Ensure, EnsureTask, PromotePending,
                  CheckGates, Assign, CountFailures, SetRollingBack, CollectRollbacks,
                  CreateRollback, Halt, StageRead, Advance, Complete, NormaliseRead,
                  Normalise, FinishRead, storeVars
    <2> QED
      BY <1>2, <1>3, <2>1
  <1>4. ASSUME NEW r \in Robot, RegisterRobot(r) \/ HeartbeatStale(r)
        PROVE  Elsewhere /\ UNCHANGED tasks
    <2>1. HeartbeatStale(r)
      BY <1>4 DEF RegisterRobot, SteadyFleet
    <2>2. \A q \in Robot : robots'[q].known = robots[q].known
                            /\ robots'[q].version = robots[q].version
      BY <1>1, <2>1 DEF HeartbeatStale, RobotRow
    <2> QED
      BY <1>2, <2>1, <2>2 DEF HeartbeatStale
  <1>5. CASE OperatorMoves
    BY <1>2, <1>5 DEF OperatorMoves, CreateDeployment, Pause, Resume
  <1>6. CASE FaultMoves
    <2>1. ~Fault("lost") /\ ~Fault("late") /\ ~Fault("crash") /\ ~Fault("server")
      BY DEF SteadyFleet, Fault
    <2>2. (\E r \in Robot : UpdateRaises(r)) \/ EngineError
      BY <1>6, <2>1 DEF FaultMoves, LoseCall, Timeout, AgentCrash, AgentRestart,
                        ServerRestart, AgentsUp
    <2>3. CASE EngineError
      BY <1>2, <2>3 DEF EngineError
    <2>4. ASSUME NEW r \in Robot, UpdateRaises(r) PROVE Elsewhere /\ UNCHANGED tasks
      <3> DEFINE next == [agent[r] EXCEPT !.pc = "idle", !.task = 0]
      <3>1. /\ next.version = agent[r].version /\ next.installed = agent[r].installed
            /\ next.pc = "idle"
        BY <1>1 DEF AgentState
      <3>2. agent' = [agent EXCEPT ![r] = next] /\ UNCHANGED <<robots, calls, tasks>>
        BY <2>4 DEF UpdateRaises
      <3> HIDE DEF next
      <3> QED
        BY <1>1, <3>1, <3>2 DEF Elsewhere
    <2> QED
      BY <2>2, <2>3, <2>4
  <1>7. CASE UNCHANGED vars
    BY <1>2, <1>7 DEF vars
  <1> QED
    BY <1>3, <1>4, <1>5, <1>6, <1>7 DEF Next, HandlerMoves, AgentMoves, CallsOf

LEMMA StepVersion ==
    ASSUME SteadyFleet, TypeInv, StatusInv, VersionInv, [Next]_vars
    PROVE  VersionInv'
  <1>1. TypeOK /\ AgentsUp /\ OneCall
    BY DEF TypeInv, StatusInv, Handshake
  <1>2. \A c \in calls : c.robot \in Robot
    BY <1>1, StatusTyped
  <1>3. CASE Elsewhere
    BY <1>2, <1>3 DEF Elsewhere, VersionInv, VersionSent, VersionOnRecord, CallsOf
  <1>4. ASSUME NEW c \in calls, Handle(c), UNCHANGED agent PROVE VersionInv'
    <2>1. VersionSent'
      BY <1>1, <1>4, HandledCalls DEF VersionInv, VersionSent, SameCall
    <2>2. VersionOnRecord'
      <3> SUFFICES ASSUME NEW r \in Robot, robots'[r].known,
                          ~\E b \in calls' : b.robot = r
                   PROVE  robots'[r].version = agent[r].version
        BY <1>4 DEF VersionOnRecord, CallsOf
      <3>1. CASE r = c.robot
        <4>1. VersionWrite(c)
          BY <1>1, <1>4, <3>1, HandledCalls
        <4>2. robots'[r].version = c.version
          BY <1>1, <3>1, <4>1 DEF VersionWrite, SetRobotVersion, TypeOK, StoreTypeOK, RobotRow
        <4> QED
          BY <3>1, <4>2 DEF VersionInv, VersionSent
      <3>2. CASE r # c.robot
        <4>1. CallsOf(r) = {}
          BY <1>1, <1>4, <3>2, HandledCalls DEF CallsOf
        <4> QED
          BY <1>1, <1>4, <3>2, <4>1, HandledRobots DEF VersionInv, VersionOnRecord
      <3> QED
        BY <3>1, <3>2
    <2> QED
      BY <2>1, <2>2 DEF VersionInv
  <1>5. ASSUME NEW r \in Robot, AgentStep(r) PROVE VersionInv'
    <2>1. /\ \A q \in Robot : q # r => agent'[q] = agent[q]
          /\ ~Blocked(r) /\ UNCHANGED robots
          /\ SaysNothing(r) \/ Reports(r)
      BY <1>1, <1>5, StepAsSaid DEF storeVars
    <2>2. \A c \in calls : c.robot # r
      BY <1>1, <2>1 DEF OneCall, Blocked, CallsOf
    <2>3. CASE SaysNothing(r)
      BY <1>2, <2>1, <2>2, <2>3 DEF SaysNothing, VersionInv, VersionSent, VersionOnRecord, CallsOf
    <2>4. CASE Reports(r)
      <3>1. PICK new : /\ calls' = calls \cup {new} /\ new.robot = r
                       /\ new.version = agent'[r].version
        <4>1. PICK status : Says(r, status)
          BY <2>4 DEF Reports
        <4> DEFINE sent == StatusCall(r, agent[r].task, status, agent'[r].version)
        <4>2. sent.robot = r /\ sent.version = agent'[r].version
          BY DEF StatusCall
        <4> QED
          BY <4>1, <4>2 DEF Says
      <3>2. VersionSent'
        BY <1>2, <2>1, <2>2, <3>1 DEF VersionInv, VersionSent
      <3>3. ASSUME NEW q \in Robot, robots'[q].known, CallsOf(q)' = {}
            PROVE  robots'[q].version = agent'[q].version
        <4>1. q # r /\ CallsOf(q) = {}
          BY <3>1, <3>3 DEF CallsOf
        <4> QED
          BY <2>1, <3>3, <4>1 DEF VersionInv, VersionOnRecord
      <3> QED
        BY <3>2, <3>3 DEF VersionInv, VersionOnRecord
    <2> QED
      BY <2>1, <2>3, <2>4
  <1> QED
    BY <1>1, <1>3, <1>4, <1>5, StepElsewhere

LEMMA VersionCorrect == ASSUME SteadyFleet PROVE Spec => []VersionInv
  <1>1. InStep
    BY DEF SteadyFleet, InStep
  <1>2. Init => VersionInv
    BY DEF Init, ApiInit, StoreInit, AgentInit, Started, VersionInv, VersionSent, VersionOnRecord
  <1>3. TypeInv /\ StatusInv /\ VersionInv /\ [Next]_vars => VersionInv'
    BY StepVersion
  <1>4. Spec => []StatusInv
    BY <1>1, StatusCorrect
  <1> QED
    BY InitType, StepType, <1>2, <1>3, <1>4, PTL DEF Spec

(* Whenever the server has served all an agent sent, the robots table      *)
(* shows the version the agent takes itself to run, for every fleet that   *)
(* nobody joins, strategy and operator, if every request is answered.      *)
THEOREM VersionOnRecordHolds ==
    ASSUME SteadyFleet
    PROVE  Spec => []VersionOnRecord
  <1>1. VersionInv => VersionOnRecord
    BY DEF VersionInv
  <1> QED
    BY VersionCorrect, <1>1, PTL

-----------------------------------------------------------------------------
(* What a rollback leaves on its robot: RolledBackIsRestored.              *)

OneDeployment == \A d, e \in Dep : d = e

(* The agent is past apply_update of task k, and the row says so or is     *)
(* about to.                                                               *)
Applied(k) ==
    \/ 4 <= Rank(tasks[k].status)
    \/ \E c \in calls : IsReport(c) /\ c.task = k /\ 4 <= Rank(c.status)

(* A robot runs the version it came with until it has applied a task.      *)
AsDelivered ==
    \A r \in Robot : (\A k \in Rows : tasks[k].robot = r => ~Applied(k)) =>
       /\ agent[r].version = Args[r].version
       /\ robots[r].known => robots[r].version = Args[r].version

ForwardFrom ==
    \A k \in Rows : ~tasks[k].is_rollback =>
       /\ tasks[k].from_version = Args[tasks[k].robot].version
       /\ tasks[k].to_version = Release[tasks[k].dep]

TodoAsDelivered ==
    eng.pc = "create" => \A t \in eng.todo : t.version = Args[t.robot].version

(* A robot is rolled back when it has applied its forward task, which it   *)
(* then never does again, or when it came with the release: then it is all *)
(* one which of its two tasks runs last.                                   *)
RollbackTodo ==
    eng.pc = "rollback" =>
       \A t \in eng.todo, j \in Rows :
          tasks[j].robot = t.robot /\ ~tasks[j].is_rollback
             => Applied(j) \/ Args[t.robot].version = Release[eng.dep]

RollbackAfter ==
    \A k, j \in Rows :
       /\ tasks[k].is_rollback /\ ~tasks[j].is_rollback
       /\ tasks[j].robot = tasks[k].robot
       => Applied(j) \/ Args[tasks[j].robot].version = Release[tasks[j].dep]

(* The agent is past apply_update of task k, which went well.              *)
Changed(k) ==
    \/ tasks[k].status \in {"verifying", "succeeded", "rolled_back"}
    \/ \E c \in calls : IsReport(c) /\ c.task = k /\ c.status \in {"verifying", "succeeded"}
    \/ agent[tasks[k].robot].pc = "verify" /\ agent[tasks[k].robot].task = k

(* apply_update installs what it records. *)
Hooked == "no_hooks" \notin MayFail

Restored ==
    \A k \in Rows : tasks[k].is_rollback /\ Changed(k)
       => agent[tasks[k].robot].installed = tasks[k].to_version

RestoreInv ==
    /\ AsDelivered /\ ForwardFrom /\ TodoAsDelivered
    /\ RollbackTodo /\ RollbackAfter /\ Restored

(* What one step does to the rows ... *)
RowsKeep ==
    \A k \in Rows :
       /\ k \in DOMAIN tasks' /\ tasks'[k].dep = tasks[k].dep
       /\ tasks'[k].robot = tasks[k].robot /\ tasks'[k].is_rollback = tasks[k].is_rollback
       /\ tasks'[k].from_version = tasks[k].from_version
       /\ tasks'[k].to_version = tasks[k].to_version

RowsCome ==
    \A k \in DOMAIN tasks' : k \notin Rows =>
       \E t \in eng.todo :
          /\ tasks'[k].robot = t.robot /\ tasks'[k].dep = eng.dep /\ eng.dep \in Dep
          /\ \/ /\ eng.pc = "create" /\ ~tasks'[k].is_rollback
                /\ tasks'[k].from_version = t.version
                /\ tasks'[k].to_version = Release[eng.dep]
             \/ /\ eng.pc = "rollback" /\ tasks'[k].is_rollback
                /\ tasks'[k].status = "pending"

LEMMA StepOfRows ==
    ASSUME TypeInv, [Next]_vars
    PROVE  RowsKeep /\ RowsCome
  <1>1. StoreTypeOK /\ EngineBusy /\ TypeOK
    BY DEF TypeInv, TypeOK
  <1>2. ASSUME NEW row \in TaskRow, CreateTask(row), NEW t \in eng.todo,
               row.robot = t.robot, row.dep = eng.dep, eng.pc # "idle",
               \/ /\ eng.pc = "create" /\ ~row.is_rollback
                  /\ row.from_version = t.version /\ row.to_version = Release[eng.dep]
               \/ eng.pc = "rollback" /\ row.is_rollback /\ row.status = "pending"
        PROVE  RowsKeep /\ RowsCome
    <2>1. PICK n : /\ DOMAIN tasks' = Rows \cup {n} /\ n \notin Rows
                   /\ tasks'[n] = row
                   /\ \A k \in Rows : tasks'[k] = tasks[k]
      BY <1>1, <1>2, CreateTaskType
    <2>2. eng.dep \in Dep
      BY <1>1, <1>2 DEF EngineBusy
    <2> QED
      BY <1>2, <2>1, <2>2 DEF RowsKeep, RowsCome
  <1>3. CASE EnsureTask
    <2>1. PICK t \in eng.todo :
             CreateTask([dep |-> eng.dep, robot |-> t.robot, is_rollback |-> FALSE,
                         stage |-> eng.stage,
                         status |-> IF t.robot \in Compat[eng.dep]
                                    THEN "pending" ELSE "skipped",
                         from_version |-> t.version,
                         to_version |-> Release[eng.dep]])
      BY <1>3 DEF EnsureTask
    <2> DEFINE row == [dep |-> eng.dep, robot |-> t.robot, is_rollback |-> FALSE,
                       stage |-> eng.stage,
                       status |-> IF t.robot \in Compat[eng.dep]
                                  THEN "pending" ELSE "skipped",
                       from_version |-> t.version,
                       to_version |-> Release[eng.dep]]
    <2>2. eng.pc = "create" /\ row \in TaskRow
      BY <1>1, <1>3, NewRowTyped DEF EnsureTask
    <2>3. /\ row.robot = t.robot /\ row.dep = eng.dep /\ ~row.is_rollback
          /\ row.from_version = t.version /\ row.to_version = Release[eng.dep]
          /\ CreateTask(row)
      BY <2>1
    <2> HIDE DEF row
    <2> QED
      BY <1>2, <2>2, <2>3
  <1>4. CASE CreateRollback
    <2>1. PICK t \in eng.todo : \E prev \in Version :
             CreateTask([dep |-> eng.dep, robot |-> t.robot, is_rollback |-> TRUE,
                         stage |-> eng.stage, status |-> "pending",
                         from_version |-> Release[eng.dep], to_version |-> prev])
      BY <1>4 DEF CreateRollback
    <2>2. PICK prev \in Version :
             CreateTask([dep |-> eng.dep, robot |-> t.robot, is_rollback |-> TRUE,
                         stage |-> eng.stage, status |-> "pending",
                         from_version |-> Release[eng.dep], to_version |-> prev])
      BY <2>1
    <2> DEFINE row == [dep |-> eng.dep, robot |-> t.robot, is_rollback |-> TRUE,
                       stage |-> eng.stage, status |-> "pending",
                       from_version |-> Release[eng.dep], to_version |-> prev]
    <2>3. eng.pc = "rollback" /\ row \in TaskRow
      BY <1>1, <1>4, NewRowTyped DEF CreateRollback
    <2>4. /\ row.robot = t.robot /\ row.dep = eng.dep /\ row.is_rollback
          /\ row.status = "pending" /\ CreateTask(row)
      BY <2>2
    <2> HIDE DEF row
    <2> QED
      BY <1>2, <2>3, <2>4
  <1>5. ASSUME NEW k \in Nat, NEW st \in TaskStatus, SetTaskStatus(k, st)
        PROVE  RowsKeep /\ RowsCome
    BY <1>1, <1>5, StatusWriteSameRows DEF SameRows, RowsKeep, RowsCome
  <1>6. CASE UNCHANGED tasks
    BY <1>6 DEF RowsKeep, RowsCome
  <1> QED
    BY <1>3, <1>4, <1>5, <1>6, OneTable

(* ... and to what the tick still has to do. *)
LEMMA StepOfTodo ==
    ASSUME TypeInv, [Next]_vars
    PROVE  /\ eng'.pc = "create" =>
                 \/ eng.pc = "create" /\ eng'.todo \subseteq eng.todo
                 \/ eng'.todo = {}
                 \/ Ensure
           /\ eng'.pc = "rollback" =>
                 \/ eng.pc = "rollback" /\ eng'.dep = eng.dep /\ eng'.todo \subseteq eng.todo
                 \/ CollectRollbacks
  <1>1. eng = [pc |-> eng.pc, queue |-> eng.queue, dep |-> eng.dep, stage |-> eng.stage,
               only_rollback |-> eng.only_rollback, rows |-> eng.rows,
               todo |-> eng.todo, gate |-> eng.gate]
    BY DEF TypeInv, TypeOK, EngineTypeOK
  <1>2. \A q : Idle(q).pc = "idle"
    BY DEF Idle
  <1>3. CASE EngineMoves
    <2>1. CASE Tick
      BY <1>1, <2>1 DEF Tick
    <2>2. CASE Load
      <3>1. PICK d \in eng.queue :
               LET rest == eng.queue \ {d}
                   work == [Idle(rest) EXCEPT !.dep = d, !.stage = deps[d].stage]
               IN  \/ eng' = [work EXCEPT !.pc = "ensure"]
                   \/ eng' = [work EXCEPT !.pc = "create", !.only_rollback = TRUE]
                   \/ eng' = Idle(rest)
        BY <2>2 DEF Load
      <3> DEFINE rest == eng.queue \ {d}
                 work == [Idle(rest) EXCEPT !.dep = d, !.stage = deps[d].stage]
      <3>2. CASE eng' = [work EXCEPT !.pc = "ensure"]
        BY <3>2 DEF Idle
      <3>3. CASE eng' = [work EXCEPT !.pc = "create", !.only_rollback = TRUE]
        BY <3>3 DEF Idle
      <3>4. CASE eng' = Idle(rest)
        BY <3>4 DEF Idle
      <3> QED
        BY <3>1, <3>2, <3>3, <3>4
    <2>3. CASE EnsureTask
      BY <1>1, <2>3 DEF EnsureTask
    <2>4. CASE PromotePending \/ CheckGates \/ Assign \/ NormaliseRead \/ Normalise
      <3>1. eng'.pc \in {"promote", "assign", "normalise"}
        BY <1>1, <2>4 DEF PromotePending, CheckGates, Assign, NormaliseRead, Normalise
      <3> QED
        BY <3>1
    <2>5. CASE CountFailures \/ SetRollingBack
      <3>1. eng'.pc \in {"set_rolling_back", "halt", "stage", "collect"}
        BY <1>1, <2>5 DEF CountFailures, SetRollingBack
      <3> QED
        BY <3>1
    <2>6. CASE CreateRollback
      <3>1. PICK t \in eng.todo, prev \in Version :
               \/ eng' = Idle(eng.queue)
               \/ eng' = [eng EXCEPT !.todo = @ \ {t}]
        BY <2>6 DEF CreateRollback, Return
      <3>2. eng.pc = "rollback"
        BY <2>6 DEF CreateRollback
      <3> QED
        BY <1>1, <1>2, <3>1, <3>2
    <2>7. CASE Halt \/ Advance \/ Complete
      <3>1. eng'.pc = "idle"
        BY <1>2, <2>7 DEF Halt, Advance, Complete, Return
      <3> QED
        BY <3>1
    <2>8. CASE StageRead \/ FinishRead
      <3>1. \/ eng' = Idle(eng.queue)
            \/ eng' = [eng EXCEPT !.pc = "halt"]
            \/ eng' = [eng EXCEPT !.pc = IF eng.stage < MaxStage(eng.dep)
                                         THEN "advance" ELSE "complete"]
        BY <2>8 DEF StageRead, FinishRead, Return
      <3>2. eng'.pc \in {"idle", "halt", "advance", "complete"}
        BY <1>1, <1>2, <3>1
      <3> QED
        BY <3>2
    <2>9. CASE Ensure
      <3>1. eng'.pc = "create"
        BY <1>1, <2>9 DEF Ensure
      <3> QED
        BY <2>9, <3>1
    <2>10. CASE CollectRollbacks
      <3>1. eng'.pc \in {"halt", "rollback"}
        BY <1>1, <2>10 DEF CollectRollbacks
      <3> QED
        BY <2>10, <3>1
    <2> QED
      BY <1>3, <2>1, <2>2, <2>3, <2>4, <2>5, <2>6, <2>7, <2>8, <2>9, <2>10
         DEF EngineMoves, EngineNext
  <1>4. CASE UNCHANGED eng
    BY <1>4
  <1>5. ASSUME NEW r \in Robot,
               HandlerMoves(r) \/ AgentMoves(r) \/ RegisterRobot(r) \/ HeartbeatStale(r)
        PROVE  UNCHANGED eng
    BY <1>5 DEF HandlerMoves, AgentMoves, RegisterRobot, HeartbeatStale
  <1>6. CASE OperatorMoves
    BY <1>4, <1>6 DEF OperatorMoves, CreateDeployment, Pause, Resume
  <1>7. CASE FaultMoves
    <2>1. UNCHANGED eng \/ \E queue : eng' = Idle(queue)
      BY <1>7 DEF FaultMoves, LoseCall, Timeout, AgentCrash, AgentRestart,
                  UpdateRaises, ServerRestart, EngineError, Return
    <2> QED
      BY <1>2, <1>4, <2>1
  <1> QED
    BY <1>3, <1>4, <1>5, <1>6, <1>7 DEF Next, vars

LEMMA AppliedStays ==
    ASSUME SteadyFleet, TypeInv, TypeInv', StatusInv, [Next]_vars,
           NEW k \in Rows, Applied(k)
    PROVE  Applied(k)'
  <1>1. TypeOK /\ AgentsUp /\ InStep
    BY DEF TypeInv, StatusInv, Handshake, SteadyFleet, InStep
  <1>2. CASE 4 <= Rank(tasks[k].status)
    <2>1. StatusStep(k)
      BY <1>1, StepStatus
    <2>2. tasks[k].status \in TaskStatus /\ tasks'[k].status \in TaskStatus
      <3>1. k \in DOMAIN tasks'
        BY StepOfRows DEF RowsKeep
      <3>2. tasks[k] \in TaskRow /\ tasks'[k] \in TaskRow
        BY <3>1 DEF TypeInv, TypeOK, StoreTypeOK
      <3> QED
        BY <3>2 DEF TaskRow
    <2>3. /\ Rank(tasks[k].status) \in 0..5 /\ Rank(tasks'[k].status) \in 0..5
          /\ Rank("rolled_back") = 5
      BY <2>2, RankOf DEF TaskStatus, Terminal
    <2> QED
      BY <1>2, <2>1, <2>3 DEF StatusStep, Applied
  <1>3. CASE \E c \in calls : IsReport(c) /\ c.task = k /\ 4 <= Rank(c.status)
    <2>1. PICK c \in calls : IsReport(c) /\ c.task = k /\ 4 <= Rank(c.status)
      BY <1>3
    <2>2. c \in calls' => Applied(k)'
      BY <2>1 DEF Applied, IsReport
    <2>3. CASE Elsewhere
      BY <2>2, <2>3 DEF Elsewhere
    <2>4. ASSUME NEW b \in calls, Handle(b) PROVE Applied(k)'
      <3>1. CASE b # c
        BY <1>1, <2>2, <2>4, <3>1, HandledCalls
      <3>2. CASE b = c
        <4>1. SetTaskStatus(k, c.status)
          BY <1>1, <2>1, <2>4, <3>2, HandledCalls DEF TaskStatusWrite
        <4>2. tasks'[k].status = c.status
          <5>1. tasks[k] \in TaskRow
            BY DEF TypeInv, TypeOK, StoreTypeOK
          <5> QED
            BY <4>1, <5>1 DEF SetTaskStatus, TaskRow
        <4> QED
          BY <2>1, <4>2 DEF Applied
      <3> QED
        BY <3>1, <3>2
    <2>5. ASSUME NEW r \in Robot, AgentStep(r) PROVE Applied(k)'
      <3>1. c \in calls'
        BY <1>1, <2>5, StepAsSaid DEF SaysNothing, Reports, Says
      <3> QED
        BY <2>2, <3>1
    <2> QED
      BY <1>1, <2>3, <2>4, <2>5, StepElsewhere
  <1> QED
    BY <1>2, <1>3 DEF Applied

LEMMA StepAsDelivered ==
    ASSUME SteadyFleet, TypeInv, TypeInv', StatusInv, VersionInv, AsDelivered, [Next]_vars
    PROVE  AsDelivered'
  <1>1. TypeOK /\ AgentsUp
    BY DEF TypeInv, StatusInv, Handshake
  <1> SUFFICES ASSUME NEW r \in Robot,
                      \A k \in DOMAIN tasks' : tasks'[k].robot = r => ~Applied(k)'
               PROVE  /\ agent'[r].version = Args[r].version
                      /\ robots'[r].known => robots'[r].version = Args[r].version
    BY DEF AsDelivered, Applied, IsReport
  <1>2. \A k \in Rows : tasks[k].robot = r => ~Applied(k)
    BY StepOfRows, AppliedStays DEF RowsKeep
  <1>3. /\ agent[r].version = Args[r].version
        /\ robots[r].known => robots[r].version = Args[r].version
    BY <1>2 DEF AsDelivered
  <1>4. CASE Elsewhere
    BY <1>3, <1>4 DEF Elsewhere
  <1>5. ASSUME NEW c \in calls, Handle(c), UNCHANGED agent
        PROVE  /\ agent'[r].version = Args[r].version
               /\ robots'[r].known => robots'[r].version = Args[r].version
    BY <1>1, <1>3, <1>5, HandledRobots DEF VersionInv, VersionSent
  <1>6. ASSUME NEW q \in Robot, AgentStep(q)
        PROVE  /\ agent'[r].version = Args[r].version
               /\ robots'[r].known => robots'[r].version = Args[r].version
    <2>1. /\ \A p \in Robot : p # q => agent'[p] = agent[p]
          /\ UNCHANGED <<robots, tasks>>
          /\ SaysNothing(q) \/ Reports(q)
      BY <1>1, <1>6, StepAsSaid DEF storeVars
    <2>2. CASE agent'[r].version = agent[r].version
      BY <1>3, <2>1, <2>2
    <2>3. CASE agent'[r].version # agent[r].version
      <3>1. q = r /\ agent[r].pc \in Updating /\ Says(r, "verifying")
        BY <2>1, <2>3 DEF SaysNothing, Reports
      <3>2. PICK m : m = agent[r].task
        OBVIOUS
      <3> DEFINE new == StatusCall(r, m, "verifying", agent'[r].version)
      <3>3. new.task = m /\ new.status = "verifying" /\ new.step = "new"
        BY DEF StatusCall
      <3>4. new \in calls'
        BY <3>1, <3>2 DEF Says
      <3> HIDE DEF new
      <3>5. Applied(m)'
        BY <3>3, <3>4, RankOf DEF Applied, IsReport
      <3>6. m \in Rows /\ tasks[m].robot = r
        BY <3>1, <3>2 DEF StatusInv, Handshake, AgentsOnRows
      <3> QED
        BY <2>1, <3>5, <3>6
    <2> QED
      BY <2>2, <2>3
  <1> QED
    BY <1>1, <1>4, <1>5, <1>6, StepElsewhere

(* Of the rows: the parts that only the engine's steps can disturb.        *)
LEMMA StepOfRestoreRows ==
    ASSUME SteadyFleet, OneDeployment, TypeInv, TypeInv', RowInv, StatusInv, RestoreInv,
           [Next]_vars
    PROVE  ForwardFrom' /\ TodoAsDelivered' /\ RollbackTodo' /\ RollbackAfter'
  <1>1. RowsKeep /\ RowsCome
    BY StepOfRows
  <1>2. /\ \A k \in Rows : tasks[k].dep \in Dep
        /\ eng.pc # "idle" => eng.dep \in Dep
    <2>1. \A k \in Rows : tasks[k] \in TaskRow
      BY DEF TypeInv, TypeOK, StoreTypeOK
    <2> QED
      BY <2>1 DEF TaskRow, TypeInv, EngineBusy
  <1>3. \A k \in Rows : eng.pc # "idle" => tasks[k].dep = eng.dep
    BY <1>2 DEF OneDeployment
  <1>4. eng = [pc |-> eng.pc, queue |-> eng.queue, dep |-> eng.dep, stage |-> eng.stage,
               only_rollback |-> eng.only_rollback, rows |-> eng.rows,
               todo |-> eng.todo, gate |-> eng.gate]
    BY DEF TypeInv, TypeOK, EngineTypeOK
  <1>5. ForwardFrom'
    BY <1>1 DEF RestoreInv, ForwardFrom, TodoAsDelivered, RowsKeep, RowsCome
  <1>6. TodoAsDelivered'
    <2> SUFFICES ASSUME eng'.pc = "create", NEW t \in eng'.todo
                 PROVE  t.version = Args[t.robot].version
      BY DEF TodoAsDelivered
    <2>1. CASE eng.pc = "create" /\ t \in eng.todo
      BY <2>1 DEF RestoreInv, TodoAsDelivered
    <2>2. CASE Ensure
      <3>1. PICK r \in Fleet : /\ t = [robot |-> r, version |-> robots[r].version]
                               /\ RobotTasks(eng.dep, r) = {}
        BY <1>4, <2>2 DEF Ensure, Prefix
      <3>2. \A k \in Rows : tasks[k].robot # r
        BY <1>3, <2>2, <3>1 DEF Ensure, RobotTasks, TasksOf
      <3>3. robots[r].version = Args[r].version
        BY <3>2 DEF RestoreInv, AsDelivered, Fleet
      <3> QED
        BY <3>1, <3>3
    <2> QED
      BY <2>1, <2>2, StepOfTodo
  <1>7. RollbackTodo'
    <2> SUFFICES ASSUME eng'.pc = "rollback", NEW t \in eng'.todo, NEW j \in DOMAIN tasks',
                        tasks'[j].robot = t.robot, ~tasks'[j].is_rollback
                 PROVE  Applied(j)' \/ Args[t.robot].version = Release[eng'.dep]
      BY DEF RollbackTodo, Applied, IsReport
    <2>1. CASE eng.pc = "rollback" /\ eng'.dep = eng.dep /\ t \in eng.todo
      <3>1. j \in Rows /\ tasks[j].robot = t.robot /\ ~tasks[j].is_rollback
        BY <1>1, <2>1 DEF RowsKeep, RowsCome
      <3>2. Applied(j) \/ Args[t.robot].version = Release[eng.dep]
        BY <2>1, <3>1 DEF RestoreInv, RollbackTodo
      <3> QED
        BY <2>1, <3>1, <3>2, AppliedStays
    <2>2. CASE CollectRollbacks
      <3>1. PICK r \in Fleet : /\ t = [robot |-> r, version |-> robots[r].version]
                               /\ robots[r].version = Release[eng.dep]
                               /\ Rollbacks(RobotTasks(eng.dep, r)) = {}
        BY <1>4, <2>2 DEF CollectRollbacks
      <3>2. UNCHANGED tasks /\ eng'.dep = eng.dep /\ eng.pc # "idle"
        BY <1>4, <2>2 DEF CollectRollbacks, storeVars
      <3>3. j \in Rows /\ tasks[j].robot = r /\ ~tasks[j].is_rollback
        BY <3>1, <3>2
      <3>4. ASSUME NEW k \in Rows, tasks[k].robot = r PROVE k = j
        <4>1. ~tasks[k].is_rollback /\ tasks[k].dep = tasks[j].dep
          BY <1>3, <3>1, <3>2, <3>3, <3>4 DEF Rollbacks, RobotTasks, TasksOf
        <4>2. tasks[k].is_rollback = tasks[j].is_rollback
          <5>1. tasks[k] \in TaskRow /\ tasks[j] \in TaskRow
            BY <3>3 DEF TypeInv, TypeOK, StoreTypeOK
          <5> QED
            BY <3>3, <4>1, <5>1 DEF TaskRow
        <4> QED
          BY <3>3, <3>4, <4>1, <4>2 DEF RowInv, UniqueTask
      <3>5. Applied(j) \/ robots[r].version = Args[r].version
        BY <3>4 DEF RestoreInv, AsDelivered, Fleet
      <3> QED
        BY <3>1, <3>2, <3>3, <3>5, AppliedStays
    <2> QED
      BY <2>1, <2>2, StepOfTodo
  <1>8. RollbackAfter'
    <2> SUFFICES ASSUME NEW k \in DOMAIN tasks', NEW j \in DOMAIN tasks',
                        tasks'[k].is_rollback, ~tasks'[j].is_rollback,
                        tasks'[j].robot = tasks'[k].robot
                 PROVE  Applied(j)' \/ Args[tasks'[j].robot].version = Release[tasks'[j].dep]
      BY DEF RollbackAfter, Applied, IsReport
    <2>1. CASE k \in Rows /\ j \in Rows
      <3>1. Applied(j) \/ Args[tasks[j].robot].version = Release[tasks[j].dep]
        BY <1>1, <2>1 DEF RestoreInv, RollbackAfter, RowsKeep
      <3> QED
        BY <1>1, <2>1, <3>1, AppliedStays DEF RowsKeep
    <2>2. CASE k \notin Rows
      <3>1. PICK t \in eng.todo : /\ tasks'[k].robot = t.robot /\ eng.pc = "rollback"
        BY <1>1, <2>2 DEF RowsCome
      <3>2. j \in Rows
        BY <1>1, <3>1 DEF RowsCome
      <3>3. Applied(j) \/ Args[t.robot].version = Release[eng.dep]
        BY <1>1, <3>1, <3>2 DEF RestoreInv, RollbackTodo, RowsKeep
      <3>4. tasks'[j].dep = eng.dep
        BY <1>1, <1>3, <3>1, <3>2 DEF RowsKeep
      <3> QED
        BY <3>1, <3>2, <3>3, <3>4, AppliedStays
    <2>3. CASE k \in Rows /\ j \notin Rows
      <3>1. PICK t \in eng.todo : /\ tasks'[j].robot = t.robot /\ eng.pc = "create"
        BY <1>1, <2>3 DEF RowsCome
      <3>2. Concerns(k, eng.dep, t.robot)
        BY <1>1, <1>3, <2>3, <3>1 DEF RowsKeep, Concerns
      <3> QED
        BY <2>3, <3>1, <3>2 DEF RowInv, NewForward
    <2> QED
      BY <2>1, <2>2, <2>3
  <1> QED
    BY <1>5, <1>6, <1>7, <1>8

(* What the engine writes to the status of a row that exists.              *)
LEMMA EngineWrites ==
    ASSUME TypeInv, StatusInv, EngineMoves, NEW k \in Rows
    PROVE  \/ tasks'[k].status \in {tasks[k].status, "assigned", "pending"}
           \/ tasks[k].status = "succeeded"
  <1>1. StoreTypeOK /\ EngineBusy /\ TypeOK /\ tasks[k] \in TaskRow
    BY DEF TypeInv, TypeOK, StoreTypeOK
  <1>2. ASSUME NEW row \in TaskRow, CreateTask(row)
        PROVE  tasks'[k] = tasks[k]
    BY <1>1, <1>2, CreateTaskType
  <1>3. CASE EnsureTask
    <2>1. PICK t \in eng.todo :
             CreateTask([dep |-> eng.dep, robot |-> t.robot, is_rollback |-> FALSE,
                         stage |-> eng.stage,
                         status |-> IF t.robot \in Compat[eng.dep]
                                    THEN "pending" ELSE "skipped",
                         from_version |-> t.version,
                         to_version |-> Release[eng.dep]])
      BY <1>3 DEF EnsureTask
    <2>2. eng.pc = "create"
      BY <1>3 DEF EnsureTask
    <2> QED
      BY <1>1, <1>2, <2>1, <2>2, NewRowTyped
  <1>4. CASE CreateRollback
    <2>1. PICK t \in eng.todo : \E prev \in Version :
             CreateTask([dep |-> eng.dep, robot |-> t.robot, is_rollback |-> TRUE,
                         stage |-> eng.stage, status |-> "pending",
                         from_version |-> Release[eng.dep], to_version |-> prev])
      BY <1>4 DEF CreateRollback
    <2>2. eng.pc = "rollback"
      BY <1>4 DEF CreateRollback
    <2> QED
      BY <1>1, <1>2, <2>1, <2>2, NewRowTyped
  <1>5. CASE Assign
    <2>1. PICK i \in eng.rows : SetTaskStatus(i, IF eng.gate THEN "assigned" ELSE "pending")
      BY <1>5 DEF Assign
    <2> QED
      BY <1>1, <2>1 DEF SetTaskStatus, TaskRow
  <1>6. CASE Normalise
    <2>1. PICK i \in eng.rows : SetTaskStatus(i, "rolled_back") /\ eng.pc = "normalise"
      BY <1>6 DEF Normalise
    <2>2. tasks[i].status = "succeeded"
      BY <2>1 DEF StatusInv, RowsAsRead
    <2> QED
      BY <1>1, <2>1, <2>2 DEF SetTaskStatus, TaskRow
  <1> QED
    BY <1>3, <1>4, <1>5, <1>6
       DEF EngineMoves, EngineNext, Tick, Load, Ensure, PromotePending, CheckGates,
           CountFailures, SetRollingBack, CollectRollbacks, Halt, StageRead, Advance,
           Complete, NormaliseRead, FinishRead, storeVars

(* An agent that applies a task of its robot after the rollback took       *)
(* effect installs what the rollback installed.                            *)
LEMMA AppliesTheSame ==
    ASSUME OneDeployment, TypeInv, RowInv, StatusInv, RestoreInv,
           NEW r \in Robot, agent[r].pc = "apply", CallsOf(r) = {},
           NEW k \in Rows, tasks[k].robot = r, tasks[k].is_rollback
    PROVE  Goal(r) = tasks[k].to_version
  <1>1. PICK m \in Rows : /\ m = agent[r].task /\ tasks[m].robot = r
                          /\ Rank(tasks[m].status) <= 3
    BY PcRankOf DEF StatusInv, Handshake, AgentsOnRows, Updating
  <1>2. tasks[m] \in TaskRow /\ tasks[k] \in TaskRow
    BY DEF TypeInv, TypeOK, StoreTypeOK
  <1>3. tasks[m].dep = tasks[k].dep
    BY <1>2 DEF OneDeployment, TaskRow
  <1>4. CASE m = k
    BY <1>1, <1>4 DEF Goal
  <1>5. CASE m # k
    <2>1. ~tasks[m].is_rollback
      BY <1>1, <1>2, <1>3, <1>5 DEF RowInv, UniqueTask, TaskRow
    <2>2. ~Applied(m)
      <3>1. ~(4 <= Rank(tasks[m].status))
        BY <1>1, <1>2, RankOf DEF TaskRow
      <3>2. \A c \in calls : IsReport(c) => c.task # m
        BY <1>1 DEF CallsOf, StatusInv, Handshake, ReportAhead
      <3> QED
        BY <3>1, <3>2 DEF Applied
    <2>3. Args[r].version = Release[tasks[m].dep]
      BY <1>1, <2>1, <2>2 DEF RestoreInv, RollbackAfter
    <2>4. /\ tasks[m].from_version = Args[r].version
          /\ tasks[m].to_version = Release[tasks[m].dep]
      BY <1>1, <2>1 DEF RestoreInv, ForwardFrom
    <2>5. tasks[k].to_version = tasks[m].from_version
      BY <1>1, <1>3, <2>1 DEF RowInv, Restores, Concerns
    <2> QED
      BY <1>1, <2>3, <2>4, <2>5 DEF Goal
  <1> QED
    BY <1>4, <1>5

LEMMA StepRestored ==
    ASSUME SteadyFleet, Hooked, OneDeployment, TypeInv, RowInv, StatusInv, StatusInv',
           RestoreInv, [Next]_vars
    PROVE  Restored'
  <1>1. RowsKeep /\ RowsCome /\ TypeOK /\ AgentsUp /\ OneCall
    BY StepOfRows DEF TypeInv, StatusInv, Handshake
  <1> SUFFICES ASSUME NEW k \in DOMAIN tasks', tasks'[k].is_rollback, Changed(k)'
               PROVE  agent'[tasks'[k].robot].installed = tasks'[k].to_version
    BY DEF Restored, Changed, IsReport
  <1>2. k \in Rows
    <2> SUFFICES ASSUME k \notin Rows PROVE FALSE
      OBVIOUS
    <2>1. tasks'[k].status = "pending"
      BY <1>1 DEF RowsCome
    <2>2. /\ \A c \in calls' : IsReport(c) => 1 <= Rank(tasks'[c.task].status)
          /\ \A r \in Robot : agent'[r].pc = "verify"
                                 => 1 <= Rank(tasks'[agent'[r].task].status)
      BY DEF StatusInv, Handshake, ReportAhead, AgentsOnRows, IsReport, Updating
    <2>3. tasks'[k].robot \in Robot
      <3>1. \A t \in eng.todo : t.robot \in Robot
        BY DEF TypeInv, TypeOK, EngineTypeOK, Seen
      <3> QED
        BY <1>1, <3>1 DEF RowsCome
    <2> QED
      BY <2>1, <2>2, <2>3, RankOf DEF Changed, IsReport
  <1>3. PICK r \in Robot : r = tasks[k].robot
    <2>1. tasks[k] \in TaskRow
      BY <1>2 DEF TypeInv, TypeOK, StoreTypeOK
    <2> QED
      BY <2>1 DEF TaskRow
  <1>4. /\ tasks'[k].robot = r /\ tasks[k].is_rollback
        /\ tasks'[k].to_version = tasks[k].to_version
    BY <1>1, <1>2, <1>3 DEF RowsKeep
  <1>5. ASSUME agent'[r].installed = agent[r].installed, Changed(k)
        PROVE  agent'[r].installed = tasks'[k].to_version
    BY <1>2, <1>3, <1>4, <1>5 DEF RestoreInv, Restored
  <1>6. ASSUME Elsewhere, EngineMoves \/ UNCHANGED tasks
        PROVE  agent'[r].installed = tasks'[k].to_version
    <2>1. \/ tasks'[k].status \in {tasks[k].status, "assigned", "pending"}
          \/ tasks[k].status = "succeeded"
      BY <1>2, <1>6, EngineWrites
    <2>2. Changed(k)
      BY <1>3, <1>4, <1>6, <2>1 DEF Changed, Elsewhere, IsReport
    <2> QED
      BY <1>5, <1>6, <2>2 DEF Elsewhere
  <1>7. ASSUME NEW c \in calls, Handle(c), UNCHANGED agent
        PROVE  agent'[r].installed = tasks'[k].to_version
    <2>1. \A b \in calls' : IsReport(b) => b \in calls
      BY <1>1, <1>7, HandledCalls
    <2>2. UNCHANGED tasks \/ (IsReport(c) /\ SetTaskStatus(c.task, c.status))
      BY <1>7 DEF Handle, Register, UpdateRobotState, TaskStatusWrite, VersionWrite, IsReport
    <2>3. CASE UNCHANGED tasks
      BY <1>3, <1>4, <1>5, <1>7, <2>1, <2>3 DEF Changed, IsReport
    <2>4. CASE IsReport(c) /\ SetTaskStatus(c.task, c.status)
      <3>1. tasks[k] \in TaskRow /\ c \in Call
        BY <1>1, <1>2 DEF TypeOK, StoreTypeOK, ApiTypeOK
      <3>2. \/ tasks'[k].status = tasks[k].status
            \/ c.task = k /\ tasks'[k].status = c.status
        BY <1>2, <2>4, <3>1 DEF SetTaskStatus, TaskRow
      <3>3. c.status # "rolled_back"
        BY <3>1 DEF Call, CallStatus, AgentStatus
      <3>4. Changed(k)
        BY <1>3, <1>4, <1>7, <2>1, <2>4, <3>2, <3>3 DEF Changed, IsReport
      <3> QED
        BY <1>5, <1>7, <3>4
    <2> QED
      BY <2>2, <2>3, <2>4
  <1>8. ASSUME NEW q \in Robot, AgentStep(q)
        PROVE  agent'[r].installed = tasks'[k].to_version
    <2>1. /\ \A p \in Robot : p # q => agent'[p] = agent[p]
          /\ UNCHANGED tasks /\ ~Blocked(q)
          /\ SaysNothing(q) \/ Reports(q)
      BY <1>1, <1>8, StepAsSaid DEF storeVars
    <2>2. \A status, version : LET new == StatusCall(q, agent[q].task, status, version)
                               IN  new.task = agent[q].task /\ new.status = status
      BY DEF StatusCall
    <2>3. ASSUME NEW c \in calls', IsReport(c), c.task = k, c \notin calls
          PROVE  agent[q].task = k /\ q = r /\ agent[r].pc \in Updating
      <3>1. Reports(q)
        BY <2>1, <2>3 DEF SaysNothing, IsReport
      <3>2. agent[q].task = k /\ agent[q].pc \in Updating
        BY <2>2, <2>3, <3>1 DEF Reports, Says
      <3> QED
        BY <1>3, <3>2 DEF StatusInv, Handshake, AgentsOnRows
    <2>4. CASE q # r
      <3>1. Changed(k)
        BY <1>3, <1>4, <2>1, <2>3, <2>4 DEF Changed, IsReport
      <3> QED
        BY <1>5, <2>1, <2>4, <3>1
    <2>5. CASE q = r /\ SaysNothing(r)
      <3>1. Changed(k)
        BY <1>3, <1>4, <2>1, <2>5 DEF Changed, IsReport, SaysNothing
      <3> QED
        BY <1>5, <2>5, <3>1 DEF SaysNothing
    <2>6. CASE q = r /\ Reports(r) /\ agent[r].pc = "apply" /\ agent'[r].installed = Goal(r)
      <3>1. CallsOf(r) = {}
        BY <1>1, <2>1, <2>6 DEF Blocked, CallsOf, OneCall
      <3> QED
        BY <1>2, <1>3, <1>4, <2>6, <3>1, AppliesTheSame
    <2>7. CASE /\ q = r /\ agent'[r].installed = agent[r].installed
               /\ agent'[r].pc # "verify"
               /\ \/ \E status \in {"downloading", "applying", "failed"} : Says(r, status)
                  \/ agent[r].pc = "verify" /\ Says(r, "succeeded")
      <3>1. Changed(k)
        BY <1>3, <1>4, <2>1, <2>2, <2>3, <2>7 DEF Changed, IsReport, Says
      <3> QED
        BY <1>5, <2>7, <3>1
    <2> QED
      BY <2>1, <2>4, <2>5, <2>6, <2>7 DEF Hooked, Reports
  <1> QED
    BY <1>1, <1>4, <1>6, <1>7, <1>8, StepElsewhere

LEMMA InitRestore == ASSUME Init PROVE RestoreInv
  <1>1. /\ tasks = << >> /\ eng.pc = "idle"
        /\ \A r \in Robot : /\ agent[r].version = Args[r].version
                            /\ robots[r].version = Args[r].version
    BY DEF Init, StoreInit, EngineInit, Idle, AgentInit, Started
  <1> QED
    BY <1>1 DEF RestoreInv, AsDelivered, ForwardFrom, TodoAsDelivered, RollbackTodo,
                RollbackAfter, Restored

LEMMA StepRestore ==
    ASSUME SteadyFleet, Hooked, OneDeployment, TypeInv, TypeInv', RowInv, StatusInv,
           StatusInv', VersionInv, RestoreInv, [Next]_vars
    PROVE  RestoreInv'
  <1>1. AsDelivered
    BY DEF RestoreInv
  <1> QED
    BY <1>1, StepAsDelivered, StepOfRestoreRows, StepRestored DEF RestoreInv

(* A rollback task that is filed as rolled_back really left its robot with *)
(* the version it was to go back to, if nobody joins, no request is lost   *)
(* or late, nothing restarts and apply_update has its hooks, whatever      *)
(* fails on the robot, raises in the agent or breaks a tick off, and       *)
(* whichever of the two tasks of the robot runs last.  For one deployment: *)
(* a second one may update the robot again.                                *)
THEOREM RolledBackIsRestoredHolds ==
    ASSUME SteadyFleet, Hooked, OneDeployment
    PROVE  Spec => []RolledBackIsRestored
  <1>1. InStep
    BY DEF SteadyFleet, InStep
  <1>2. Spec => []StatusInv
    BY <1>1, StatusCorrect
  <1>3. Spec => []VersionInv
    BY VersionCorrect
  <1>4. Init => RestoreInv
    BY InitRestore
  <1>5. /\ TypeInv /\ RowInv /\ StatusInv /\ StatusInv' /\ VersionInv /\ RestoreInv
        /\ TypeInv' /\ [Next]_vars
        => RestoreInv'
    BY StepRestore
  <1>6. RestoreInv => RolledBackIsRestored
    BY DEF RestoreInv, Restored, Changed, RolledBackIsRestored, Rollbacks
  <1> QED
    BY InitType, StepType, RowsCorrect, <1>2, <1>3, <1>4, <1>5, <1>6, PTL DEF Spec
=============================================================================
