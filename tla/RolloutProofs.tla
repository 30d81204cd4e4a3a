--------------------------- MODULE RolloutProofs ---------------------------
(* Proofs about the rollout system, for every fleet, deployment, strategy  *)
(* and choice of faults.                                                   *)
EXTENDS RolloutProperties, SequenceTheorems, FiniteSetTheorems, TLAPS

(* The task an agent works on is a row of the tasks table.                 *)
TaskExists == \A r \in Robot : agent[r].pc \in Updating => agent[r].task \in Rows

(* A tick works on a deployment that exists.                               *)
EngineBusy == eng.pc # "idle" => eng.dep \in Dep

TypeInv == TypeOK /\ EngineBusy /\ TaskExists

USE DEF Rows

-----------------------------------------------------------------------------
(* The write operators of Store keep the tables well typed, and never      *)
(* remove a row.                                                           *)

LEMMA CreateTaskType ==
    ASSUME StoreTypeOK, NEW row \in TaskRow, CreateTask(row)
    PROVE  /\ tasks' \in Seq(TaskRow) /\ newer' \subseteq Nat \X Nat
           /\ DOMAIN tasks' = DOMAIN tasks \cup {Len(tasks) + 1}
           /\ Len(tasks) + 1 \notin DOMAIN tasks
           /\ tasks'[Len(tasks) + 1] = row
           /\ \A k \in DOMAIN tasks : tasks'[k] = tasks[k]
  <1>1. tasks \in Seq(TaskRow) /\ newer \subseteq Nat \X Nat
    BY DEF StoreTypeOK
  <1>2. tasks' = Append(tasks, row)
    BY DEF CreateTask
  <1>3. DOMAIN tasks = 1..Len(tasks) /\ Len(tasks) \in Nat
    BY <1>1
  <1>4. SameRobot(Len(tasks) + 1, row.robot) \subseteq Nat
    BY <1>3 DEF SameRobot
  <1>5. newer' \subseteq Nat \X Nat
    BY <1>1, <1>3, <1>4 DEF CreateTask
  <1>6. tasks' \in Seq(TaskRow) /\ Len(tasks') = Len(tasks) + 1
    BY <1>1, <1>2
  <1> QED
    BY <1>1, <1>2, <1>3, <1>5, <1>6

LEMMA SetTaskStatusType ==
    ASSUME StoreTypeOK, NEW k \in Nat, NEW status \in TaskStatus,
           SetTaskStatus(k, status)
    PROVE  /\ tasks' \in Seq(TaskRow) /\ newer' \subseteq Nat \X Nat
           /\ DOMAIN tasks' = DOMAIN tasks
           /\ \A j \in DOMAIN tasks : tasks'[j] =
                 IF j = k THEN [tasks[j] EXCEPT !.status = status] ELSE tasks[j]
  <1>1. tasks \in Seq(TaskRow) /\ newer \subseteq Nat \X Nat
    BY DEF StoreTypeOK
  <1>2. tasks' = [tasks EXCEPT ![k].status = status]
    BY DEF SetTaskStatus
  <1>3. DOMAIN tasks = 1..Len(tasks) /\ Len(tasks) \in Nat
    BY <1>1
  <1>4. SameRobot(k, tasks[k].robot) \subseteq Nat
    BY <1>3 DEF SameRobot
  <1>5. newer' \subseteq Nat \X Nat
    BY <1>1, <1>4 DEF SetTaskStatus
  <1>6. DOMAIN tasks' = DOMAIN tasks
    BY <1>2
  <1>7. \A j \in DOMAIN tasks : tasks'[j] =
           IF j = k THEN [tasks[j] EXCEPT !.status = status] ELSE tasks[j]
    BY <1>2
  <1>9. tasks' \in Seq(TaskRow)
    <2>1. CASE k \in DOMAIN tasks
      <3>1. tasks[k] \in TaskRow
        BY <1>1, <1>3, <2>1
      <3>2. [tasks[k] EXCEPT !.status = status] \in TaskRow
        BY <3>1 DEF TaskRow
      <3>3. tasks' = [tasks EXCEPT ![k] = [tasks[k] EXCEPT !.status = status]]
        BY <1>2
      <3> QED
        BY <1>1, <1>3, <2>1, <3>2, <3>3, ExceptSeq
    <2>2. CASE k \notin DOMAIN tasks
      <3>1. tasks' = tasks
        BY <1>1, <1>2, <1>3, <2>2
      <3> QED
        BY <1>1, <3>1
    <2> QED
      BY <2>1, <2>2
  <1> QED
    BY <1>5, <1>6, <1>7, <1>9

-----------------------------------------------------------------------------
(* Type correctness, action by action. *)

LEMMA IdleType ==
    ASSUME NEW queue \in SUBSET Dep
    PROVE  /\ Idle(queue) \in [pc: EnginePc, queue: SUBSET Dep, dep: Dep \cup {0},
                  stage: Nat, only_rollback: BOOLEAN, rows: SUBSET Nat,
                  todo: SUBSET Seen, gate: BOOLEAN]
           /\ Idle(queue).pc = "idle"
  BY DEF Idle, EnginePc

LEMMA EngineType ==
    ASSUME TypeOK, EngineBusy, EngineNext
    PROVE  StoreTypeOK' /\ EngineTypeOK' /\ EngineBusy' /\ Rows \subseteq DOMAIN tasks'
  <1> USE DEF EngineTypeOK, EngineBusy
  <1>1. StoreTypeOK /\ EngineTypeOK
    BY DEF TypeOK
  <1>2. Rows \subseteq Nat /\ \A k \in Rows : tasks[k] \in TaskRow
    BY <1>1 DEF StoreTypeOK
  <1>3. ASSUME UNCHANGED storeVars PROVE StoreTypeOK' /\ Rows \subseteq DOMAIN tasks'
    BY <1>1, <1>3 DEF storeVars, StoreTypeOK
  <1>4. ASSUME NEW d \in Dep, NEW st \in DepStatus, SetDepStatus(d, st),
               UNCHANGED <<robots, tasks, newer>>
        PROVE  StoreTypeOK' /\ Rows \subseteq DOMAIN tasks'
    BY <1>1, <1>4 DEF StoreTypeOK, SetDepStatus, DepRow
  <1>5. ASSUME NEW row \in TaskRow, CreateTask(row), UNCHANGED <<robots, deps>>
        PROVE  StoreTypeOK' /\ Rows \subseteq DOMAIN tasks'
    BY <1>1, <1>5, CreateTaskType DEF StoreTypeOK
  <1>6. ASSUME NEW k \in Nat, NEW st \in TaskStatus, SetTaskStatus(k, st),
               UNCHANGED <<robots, deps>>
        PROVE  StoreTypeOK' /\ Rows \subseteq DOMAIN tasks'
    BY <1>1, <1>6, SetTaskStatusType DEF StoreTypeOK
  <1>7. CASE Tick
    BY <1>1, <1>3, <1>7 DEF Tick
  <1>8. CASE Load
    <2>1. PICK d \in eng.queue :
             LET rest == eng.queue \ {d}
                 work == [Idle(rest) EXCEPT !.dep = d, !.stage = deps[d].stage]
             IN  \/ eng' = [work EXCEPT !.pc = "ensure"]
                 \/ eng' = [work EXCEPT !.pc = "create", !.only_rollback = TRUE]
                 \/ eng' = Idle(rest)
      BY <1>8 DEF Load
    <2>2. d \in Dep /\ eng.queue \ {d} \in SUBSET Dep
      BY <1>1
    <2>3. deps[d].stage \in Nat
      BY <1>1, <2>2 DEF StoreTypeOK, DepRow
    <2> DEFINE work(pc, rb) ==
                  [pc |-> pc, queue |-> eng.queue \ {d}, dep |-> d,
                   stage |-> deps[d].stage, only_rollback |-> rb,
                   rows |-> {}, todo |-> {}, gate |-> FALSE]
    <2>5. \/ eng' = work("ensure", FALSE)
          \/ eng' = work("create", TRUE)
          \/ eng' = Idle(eng.queue \ {d})
      BY <2>1 DEF Idle
    <2>4. EngineTypeOK' /\ EngineBusy'
      <3>1. CASE eng' = work("ensure", FALSE)
        BY <2>2, <2>3, <3>1 DEF EnginePc
      <3>2. CASE eng' = work("create", TRUE)
        BY <2>2, <2>3, <3>2 DEF EnginePc
      <3>3. CASE eng' = Idle(eng.queue \ {d})
        BY <2>2, <3>3, IdleType
      <3> QED
        BY <2>5, <3>1, <3>2, <3>3
    <2> QED
      BY <1>3, <1>8, <2>4 DEF Load
  <1>9. CASE Ensure
    <2>1. \A r \in Robot : robots[r].version \in Version
      BY <1>1 DEF StoreTypeOK, RobotRow
    <2> DEFINE fresh == {q \in Prefix(Fleet, Target(eng.dep, eng.stage, Cardinality(Fleet))) :
                          RobotTasks(eng.dep, q) = {}}
               seen == {[robot |-> r, version |-> robots[r].version] : r \in fresh}
    <2>2. fresh \subseteq Robot
      BY DEF Prefix, Fleet
    <2>3. seen \subseteq Seen
      BY <2>1, <2>2 DEF Seen
    <2>4. eng' = [eng EXCEPT !.pc = "create", !.todo = seen] /\ eng.pc = "ensure"
      BY <1>9 DEF Ensure
    <2> HIDE DEF seen
    <2> QED
      BY <1>1, <1>3, <1>9, <2>3, <2>4 DEF Ensure, EnginePc
  <1>10. CASE EnsureTask
    <2>1. PICK t \in eng.todo :
             /\ CreateTask([dep |-> eng.dep, robot |-> t.robot, is_rollback |-> FALSE,
                            stage |-> eng.stage,
                            status |-> IF t.robot \in Compat[eng.dep]
                                       THEN "pending" ELSE "skipped",
                            from_version |-> t.version,
                            to_version |-> Release[eng.dep]])
             /\ eng' = [eng EXCEPT !.todo = @ \ {t}]
      BY <1>10 DEF EnsureTask
    <2>2. t \in Seen /\ eng.dep \in Dep /\ Release[eng.dep] \in Version
      BY <1>1, <1>10, StoreAssumption DEF EnsureTask
    <2>3. [dep |-> eng.dep, robot |-> t.robot, is_rollback |-> FALSE,
           stage |-> eng.stage,
           status |-> IF t.robot \in Compat[eng.dep] THEN "pending" ELSE "skipped",
           from_version |-> t.version, to_version |-> Release[eng.dep]] \in TaskRow
      BY <1>1, <2>2 DEF TaskRow, TaskStatus, Terminal, Seen
    <2> QED
      BY <1>1, <1>5, <1>10, <2>1, <2>3 DEF EnsureTask
  <1>11. CASE PromotePending
    BY <1>1, <1>2, <1>3, <1>11
       DEF PromotePending, EnginePc, WithStatus, StageTasks, TasksOf
  <1>12. CASE CheckGates
    <2>1. PICK k \in eng.rows :
             eng' = [eng EXCEPT !.pc = "assign",
                        !.gate = GatesPass(eng.dep, tasks[k].robot)]
      BY <1>12 DEF CheckGates
    <2>2. PICK verdict \in BOOLEAN :
             eng' = [eng EXCEPT !.pc = "assign", !.gate = verdict]
      BY <2>1 DEF GatesPass
    <2> QED
      BY <1>1, <1>3, <1>12, <2>2 DEF CheckGates, EnginePc
  <1>13. CASE Assign
    <2>1. PICK k \in eng.rows :
             /\ SetTaskStatus(k, IF eng.gate THEN "assigned" ELSE "pending")
             /\ eng' = [eng EXCEPT !.pc = "promote", !.gate = FALSE, !.rows = @ \ {k}]
      BY <1>13 DEF Assign
    <2> QED
      BY <1>1, <1>6, <1>13, <2>1 DEF Assign, EnginePc, TaskStatus
  <1>14. CASE CountFailures
    BY <1>1, <1>3, <1>14 DEF CountFailures, EnginePc
  <1>15. CASE SetRollingBack
    BY <1>1, <1>4, <1>15 DEF SetRollingBack, EnginePc, DepStatus
  <1>16. CASE CollectRollbacks
    <2>1. \A r \in Robot : robots[r].version \in Version
      BY <1>1 DEF StoreTypeOK, RobotRow
    <2> DEFINE bad == {r \in Fleet : /\ robots[r].version = Release[eng.dep]
                                    /\ Rollbacks(RobotTasks(eng.dep, r)) = {}}
               seen == {[robot |-> r, version |-> robots[r].version] : r \in bad}
    <2>2. seen \subseteq Seen
      BY <2>1 DEF Seen, Fleet
    <2>3. PICK pc \in {"halt", "rollback"} :
             eng' = [eng EXCEPT !.pc = pc, !.todo = seen]
      BY <1>16 DEF CollectRollbacks
    <2> HIDE DEF seen
    <2> QED
      BY <1>1, <1>3, <1>16, <2>2, <2>3 DEF CollectRollbacks, EnginePc
  <1>17. CASE CreateRollback
    <2>1. PICK t \in eng.todo, prev \in Version :
             /\ CreateTask([dep |-> eng.dep, robot |-> t.robot, is_rollback |-> TRUE,
                            stage |-> eng.stage, status |-> "pending",
                            from_version |-> Release[eng.dep], to_version |-> prev])
             /\ \/ eng' = Idle(eng.queue)
                \/ eng' = [eng EXCEPT !.todo = @ \ {t}]
      BY <1>17 DEF CreateRollback, Return
    <2>2. t \in Seen /\ eng.dep \in Dep /\ Release[eng.dep] \in Version
      BY <1>1, <1>17, StoreAssumption DEF CreateRollback
    <2>3. [dep |-> eng.dep, robot |-> t.robot, is_rollback |-> TRUE,
           stage |-> eng.stage, status |-> "pending",
           from_version |-> Release[eng.dep], to_version |-> prev] \in TaskRow
      BY <1>1, <2>2 DEF TaskRow, TaskStatus, Seen
    <2> QED
      BY <1>1, <1>5, <1>17, <2>1, <2>3, IdleType DEF CreateRollback
  <1>18. CASE Halt
    BY <1>1, <1>4, <1>18, IdleType DEF Halt, Return, DepStatus
  <1>19. CASE StageRead
    BY <1>1, <1>3, <1>19, IdleType DEF StageRead, Return, EnginePc
  <1>20. CASE Advance
    <2>1. StoreTypeOK' /\ Rows \subseteq DOMAIN tasks'
      BY <1>1, <1>20 DEF Advance, StoreTypeOK, SetDepStage, DepRow
    <2> QED
      BY <1>1, <1>20, <2>1, IdleType DEF Advance, Return
  <1>21. CASE Complete
    BY <1>1, <1>4, <1>21, IdleType DEF Complete, Return, DepStatus
  <1>22. CASE NormaliseRead
    BY <1>1, <1>2, <1>3, <1>22
       DEF NormaliseRead, EnginePc, WithStatus, Rollbacks, TasksOf
  <1>23. CASE Normalise
    <2>1. PICK k \in eng.rows :
             /\ SetTaskStatus(k, "rolled_back")
             /\ eng' = [eng EXCEPT !.rows = @ \ {k}]
      BY <1>23 DEF Normalise
    <2> QED
      BY <1>1, <1>6, <1>23, <2>1 DEF Normalise, TaskStatus, Terminal
  <1>24. CASE FinishRead
    BY <1>1, <1>3, <1>24, IdleType DEF FinishRead, Return, EnginePc
  <1> QED
    BY <1>7, <1>8, <1>9, <1>10, <1>11, <1>12, <1>13, <1>14, <1>15, <1>16, <1>17,
       <1>18, <1>19, <1>20, <1>21, <1>22, <1>23, <1>24 DEF EngineNext

LEMMA HandlerType ==
    ASSUME TypeOK, NEW c \in calls, Handle(c)
    PROVE  StoreTypeOK' /\ ApiTypeOK' /\ Rows \subseteq DOMAIN tasks'
  <1>1. StoreTypeOK /\ calls \subseteq Call /\ c \in Call
    BY DEF TypeOK, ApiTypeOK
  <1>2. c.robot \in Robot /\ c.task \in Nat /\ c.version \in Version
        /\ c.state \in RobotState /\ c.status \in CallStatus
    BY <1>1 DEF Call
  <1>3. ASSUME NEW step \in {"registered", "version"}, Step(c, step) PROVE ApiTypeOK'
    <2>1. [c EXCEPT !.step = step] \in Call
      BY <1>1, <1>3 DEF Call
    <2> QED
      BY <1>1, <1>3, <2>1 DEF Step, ApiTypeOK
  <1>4. ASSUME calls' = calls \ {c} PROVE ApiTypeOK'
    BY <1>1, <1>4 DEF ApiTypeOK
  <1>5. ASSUME robots' \in [Robot -> RobotRow], UNCHANGED <<deps, tasks, newer>>
        PROVE  StoreTypeOK' /\ Rows \subseteq DOMAIN tasks'
    BY <1>1, <1>5 DEF StoreTypeOK
  <1>6. robots[c.robot] \in RobotRow /\ robots \in [Robot -> RobotRow]
    BY <1>1, <1>2 DEF StoreTypeOK
  <1>7. CASE Register(c)
    <2>1. NewRobotRow(c.version) \in RobotRow
      BY <1>2, StoreAssumption DEF NewRobotRow, RobotRow, RobotState
    <2>2. robots' \in [Robot -> RobotRow]
      BY <1>2, <1>6, <1>7, <2>1 DEF Register
    <2> QED
      BY <1>3, <1>5, <1>7, <2>2 DEF Register
  <1>8. CASE UpdateRobotState(c)
    <2>1. robots' = [robots EXCEPT ![c.robot] =
                        [robots[c.robot] EXCEPT !.state = c.state, !.fresh = TRUE]]
      BY <1>2, <1>6, <1>8 DEF UpdateRobotState
    <2>2. [robots[c.robot] EXCEPT !.state = c.state, !.fresh = TRUE] \in RobotRow
      BY <1>2, <1>6 DEF RobotRow
    <2>3. robots' \in [Robot -> RobotRow]
      BY <1>2, <1>6, <2>1, <2>2
    <2> QED
      BY <1>3, <1>5, <1>8, <2>3 DEF UpdateRobotState
  <1>9. CASE TaskStatusWrite(c)
    <2>1. c.status \in TaskStatus
      BY <1>2, <1>9 DEF TaskStatusWrite, CallStatus, TaskStatus
    <2>2. StoreTypeOK' /\ Rows \subseteq DOMAIN tasks'
      BY <1>1, <1>2, <1>9, <2>1, SetTaskStatusType DEF TaskStatusWrite, StoreTypeOK
    <2> QED
      BY <1>3, <1>9, <2>2 DEF TaskStatusWrite
  <1>10. CASE VersionWrite(c)
    <2>1. robots' = [robots EXCEPT ![c.robot] = [robots[c.robot] EXCEPT !.version = c.version]]
      BY <1>2, <1>6, <1>10 DEF VersionWrite, SetRobotVersion
    <2>2. [robots[c.robot] EXCEPT !.version = c.version] \in RobotRow
      BY <1>2, <1>6 DEF RobotRow
    <2>3. robots' \in [Robot -> RobotRow]
      BY <1>2, <1>6, <2>1, <2>2
    <2> QED
      BY <1>4, <1>5, <1>10, <2>3 DEF VersionWrite
  <1> QED
    BY <1>7, <1>8, <1>9, <1>10 DEF Handle

(* What every move of an agent comes down to: a new record for it, and     *)
(* perhaps a call.                                                         *)
LEMMA ReportType ==
    ASSUME TypeOK, TaskExists, NEW r \in Robot, NEW status \in AgentStatus,
           NEW next \in AgentState, Report(r, status, next),
           next.pc \in Updating => next.task \in Rows
    PROVE  ApiTypeOK' /\ AgentTypeOK'
           /\ \A q \in Robot : agent'[q].pc \in Updating => agent'[q].task \in Rows
  <1>1. calls \subseteq Call /\ agent \in [Robot -> AgentState]
    BY DEF TypeOK, ApiTypeOK, AgentTypeOK
  <1>2. agent[r].task \in Nat /\ next.version \in Version
    BY <1>1 DEF AgentState
  <1>3. NoState \in RobotState
    BY StoreAssumption DEF NoState, RobotState
  <1>4. StatusCall(r, agent[r].task, status, next.version) \in Call
    BY <1>2, <1>3 DEF StatusCall, Call, CallStatus
  <1>5. agent' = [agent EXCEPT ![r] = next]
    BY DEF Report
  <1> QED
    BY <1>1, <1>4, <1>5 DEF Report, ApiTypeOK, AgentTypeOK, TaskExists

LEMMA AgentType ==
    ASSUME TypeOK, TaskExists, NEW r \in Robot, AgentStep(r)
    PROVE  ApiTypeOK' /\ AgentTypeOK' /\ UNCHANGED storeVars
           /\ \A q \in Robot : agent'[q].pc \in Updating => agent'[q].task \in Rows
  <1>1. /\ calls \subseteq Call /\ agent \in [Robot -> AgentState]
        /\ agent[r] \in AgentState
    BY DEF TypeOK, ApiTypeOK, AgentTypeOK
  <1>2. \A k \in Rows : k \in Nat /\ tasks[k].to_version \in Version
    <2>1. \A k \in Rows : k \in Nat /\ tasks[k] \in TaskRow
      BY DEF TypeOK, StoreTypeOK
    <2> QED
      BY <2>1 DEF TaskRow
  <1>3. UNCHANGED storeVars
    BY DEF AgentStep, Heartbeat, Poll, Preflight, Download, Apply, Verify
  <1>4. [agent[r] EXCEPT !.pc = "idle", !.task = 0] \in AgentState
    BY <1>1 DEF AgentState, AgentPc
  <1>5. ASSUME Fail(r)
        PROVE  ApiTypeOK' /\ AgentTypeOK'
               /\ \A q \in Robot : agent'[q].pc \in Updating => agent'[q].task \in Rows
    BY <1>1, <1>4, <1>5, ReportType DEF Fail, AgentStatus, AgentState, Updating
  <1>6. \A pc \in AgentPc : To(r, pc) \in AgentState /\ To(r, pc).task = agent[r].task
                           /\ To(r, pc).pc = pc
    BY <1>1 DEF To, AgentState
  <1>7. CASE Heartbeat(r)
    <2>1. PICK battery \in 0..MaxBattery :
             LET next == AfterTick(agent[r], battery) IN
             /\ agent' = [agent EXCEPT ![r] = next]
             /\ calls' = calls \cup {HeartbeatCall(r, next.version, next.state)}
      BY <1>7 DEF Heartbeat
    <2> DEFINE next == AfterTick(agent[r], battery)
    <2>2. agent[r].state \in RobotState /\ agent[r].mission_ticks \in Nat
          /\ agent[r].version \in Version /\ agent[r].installed \in Version
          /\ agent[r].task \in Nat
      BY <1>1 DEF AgentState
    <2>3. [agent[r].state EXCEPT !.battery = battery] \in RobotState
      BY <2>2 DEF RobotState
    <2>4. [on_mission |-> FALSE, docked |-> TRUE, charging |-> TRUE,
           battery |-> battery] \in RobotState
      BY DEF RobotState
    <2>5. /\ next.pc = "poll" /\ next.state \in RobotState
          /\ next.version \in Version /\ next \in AgentState
      <3>1. PICK ticks \in Nat, state \in RobotState :
               next = [agent[r] EXCEPT !.pc = "poll", !.mission_ticks = ticks,
                                       !.state = state]
        <4> DEFINE ticking == agent[r].state.on_mission /\ agent[r].mission_ticks > 0
                   ticks == IF ticking THEN agent[r].mission_ticks - 1
                            ELSE agent[r].mission_ticks
                   state == IF ticking /\ agent[r].mission_ticks = 1
                            THEN [on_mission |-> FALSE, docked |-> TRUE,
                                  charging |-> TRUE, battery |-> battery]
                            ELSE [agent[r].state EXCEPT !.battery = battery]
        <4>1. ticks \in Nat
          BY <2>2
        <4>2. state \in RobotState
          BY <2>3, <2>4
        <4>3. next = [agent[r] EXCEPT !.pc = "poll", !.mission_ticks = ticks,
                                      !.state = state]
          BY <1>1 DEF AfterTick, AgentState
        <4> QED
          BY <4>1, <4>2, <4>3
      <3> QED
        BY <1>1, <3>1 DEF AgentState, AgentPc
    <2>6. HeartbeatCall(r, next.version, next.state) \in Call
      BY <2>5 DEF HeartbeatCall, Call, CallStatus
    <2>7. calls' = calls \cup {HeartbeatCall(r, next.version, next.state)}
          /\ agent' = [agent EXCEPT ![r] = next]
      BY <2>1
    <2> HIDE DEF next
    <2> QED
      BY <1>1, <1>3, <2>5, <2>6, <2>7
         DEF ApiTypeOK, AgentTypeOK, TaskExists, Updating
  <1>8. CASE Poll(r)
    <2>1. PICK k \in Rows \cup {agent[r].task}, pc \in {"idle", "preflight"} :
             /\ agent' = [agent EXCEPT ![r] = [agent[r] EXCEPT !.pc = pc, !.task = k]]
             /\ pc = "preflight" => k \in Rows
      <3> DEFINE offered == WithStatus(ActiveTask(r), {"assigned"})
      <3>1. offered \subseteq Rows
        BY DEF WithStatus, ActiveTask, Newest
      <3>2. CASE offered = {}
        <4>1. agent' = [agent EXCEPT ![r] = [agent[r] EXCEPT !.pc = "idle"]]
          BY <1>8, <3>2 DEF Poll
        <4>2. [agent[r] EXCEPT !.pc = "idle"] =
                 [agent[r] EXCEPT !.pc = "idle", !.task = agent[r].task]
          BY <1>1 DEF AgentState
        <4> QED
          BY <4>1, <4>2
      <3>3. CASE offered # {}
        BY <1>8, <3>1, <3>3 DEF Poll
      <3> QED
        BY <3>2, <3>3
    <2>2. [agent[r] EXCEPT !.pc = pc, !.task = k] \in AgentState
      BY <1>1, <1>2, <2>1 DEF AgentState, AgentPc
    <2>3. AgentTypeOK'
      BY <1>1, <2>1, <2>2 DEF AgentTypeOK
    <2>4. ApiTypeOK'
      BY <1>1, <1>8 DEF Poll, ApiTypeOK
    <2>5. \A q \in Robot : agent'[q].pc \in Updating => agent'[q].task \in Rows
      BY <1>1, <2>1 DEF TaskExists, Updating, AgentState
    <2> QED
      BY <1>3, <2>3, <2>4, <2>5
  <1>9. CASE Preflight(r)
    <2>1. agent[r].task \in Rows
      BY <1>9 DEF Preflight, Ready, TaskExists, Updating
    <2> QED
      BY <1>3, <1>5, <1>6, <1>9, <2>1, ReportType DEF Preflight, AgentStatus, AgentPc
  <1>10. CASE Download(r)
    <2>1. agent[r].task \in Rows
      BY <1>10 DEF Download, Ready, TaskExists, Updating
    <2> QED
      BY <1>3, <1>5, <1>6, <1>10, <2>1, ReportType DEF Download, AgentStatus, AgentPc
  <1>11. CASE Apply(r)
    <2>1. agent[r].task \in Rows /\ Goal(r) \in Version
      BY <1>2, <1>11 DEF Apply, Ready, TaskExists, Updating, Goal
    <2> DEFINE done  == [To(r, "verify") EXCEPT !.version = Goal(r), !.installed = Goal(r)]
               noted == [To(r, "verify") EXCEPT !.version = Goal(r)]
               dirty == [agent[r] EXCEPT !.pc = "idle", !.task = 0, !.installed = Goal(r)]
    <2>2. /\ done \in AgentState /\ done.task = agent[r].task
          /\ noted \in AgentState /\ noted.task = agent[r].task
      BY <1>1, <2>1 DEF To, AgentState, AgentPc
    <2>3. dirty \in AgentState /\ dirty.pc = "idle"
      BY <1>1, <2>1 DEF AgentState, AgentPc
    <2>4. \/ Report(r, "verifying", done) \/ Report(r, "verifying", noted)
          \/ Fail(r) \/ Report(r, "failed", dirty)
      BY <1>11 DEF Apply
    <2> HIDE DEF done, noted, dirty
    <2> QED
      BY <1>3, <1>5, <2>1, <2>2, <2>3, <2>4, ReportType DEF AgentStatus, Updating
  <1>12. CASE Verify(r)
    <2>1. [To(r, "idle") EXCEPT !.task = 0] \in AgentState
          /\ [To(r, "idle") EXCEPT !.task = 0].pc = "idle"
      BY <1>1 DEF To, AgentState, AgentPc
    <2> QED
      BY <1>3, <1>5, <1>12, <2>1, ReportType DEF Verify, AgentStatus, Updating
  <1> QED
    BY <1>7, <1>8, <1>9, <1>10, <1>11, <1>12 DEF AgentStep

LEMMA InitType == Init => TypeInv
  <1> SUFFICES ASSUME Init PROVE TypeInv
    OBVIOUS
  <1> USE DEF Init
  <1>1. \A r \in Robot : Args[r].version \in Version /\ Args[r].state \in RobotState
                        /\ Args[r].mission_ticks \in Nat
    BY StoreAssumption DEF ArgsType
  <1>2. robots \in [Robot -> RobotRow]
    BY <1>1 DEF StoreInit, RobotRow
  <1>3. StoreTypeOK
    <2>1. deps \in [Dep -> DepRow]
      BY DEF StoreInit, DepRow, DepStatus
    <2> QED
      BY <1>2, <2>1 DEF StoreInit, StoreTypeOK
  <1>4. EngineTypeOK /\ EngineBusy
    BY IdleType DEF EngineInit, EngineTypeOK, EngineBusy
  <1>5. AgentTypeOK /\ TaskExists
    BY <1>1 DEF AgentInit, AgentTypeOK, Started, AgentState, AgentPc, TaskExists, Updating
  <1> QED
    BY <1>3, <1>4, <1>5, RolloutAssumption DEF ApiInit, ApiTypeOK, TypeOK, TypeInv

LEMMA FaultType ==
    ASSUME TypeInv, FaultMoves
    PROVE  TypeInv'
  <1>1. /\ StoreTypeOK /\ EngineTypeOK /\ EngineBusy /\ TaskExists
        /\ calls \subseteq Call /\ agent \in [Robot -> AgentState]
        /\ faults \in 0..MaxFaults
    BY DEF TypeInv, TypeOK, ApiTypeOK, AgentTypeOK
  <1>2. ASSUME UNCHANGED storeVars PROVE StoreTypeOK'
    BY <1>1, <1>2 DEF storeVars, StoreTypeOK
  <1>3. ASSUME NEW kind, Fault(kind) PROVE faults' \in 0..MaxFaults
    BY <1>1, <1>3, RolloutAssumption DEF Fault
  <1>4. ASSUME UNCHANGED eng PROVE EngineTypeOK' /\ EngineBusy'
    BY <1>1, <1>4 DEF EngineTypeOK, EngineBusy
  <1>5. ASSUME UNCHANGED <<agent, tasks>> PROVE AgentTypeOK' /\ TaskExists'
    BY <1>1, <1>5 DEF AgentTypeOK, TaskExists
  <1>6. CASE \E c \in calls : LoseCall(c)
    <2>1. calls' \subseteq Call
      BY <1>1, <1>6 DEF LoseCall
    <2> QED
      BY <1>2, <1>3, <1>4, <1>5, <1>6, <2>1
         DEF LoseCall, TypeInv, TypeOK, ApiTypeOK, storeVars
  <1>7. CASE \E c \in calls : Timeout(c)
    <2>1. \A c \in Call : [c EXCEPT !.waiting = FALSE] \in Call
      BY DEF Call
    <2>2. calls' \subseteq Call
      BY <1>1, <1>7, <2>1 DEF Timeout
    <2> QED
      BY <1>2, <1>3, <1>4, <1>5, <1>7, <2>2
         DEF Timeout, TypeInv, TypeOK, ApiTypeOK, storeVars
  <1>8. ASSUME NEW r \in Robot, AgentCrash(r) PROVE TypeInv'
    <2>1. \A c \in calls : [c EXCEPT !.waiting = @ /\ c.robot # r] \in Call
      <3> TAKE c \in calls
      <3>1. c \in Call
        BY <1>1
      <3>2. (c.waiting /\ c.robot # r) \in BOOLEAN
        OBVIOUS
      <3> QED
        BY <3>1, <3>2 DEF Call
    <2>2. calls' \subseteq Call
      BY <1>8, <2>1 DEF AgentCrash
    <2>3. [agent[r] EXCEPT !.pc = "down", !.task = 0] \in AgentState
      BY <1>1 DEF AgentState, AgentPc
    <2>4. AgentTypeOK' /\ TaskExists'
      BY <1>1, <1>8, <2>3 DEF AgentCrash, AgentTypeOK, TaskExists, Updating, AgentState
    <2> QED
      BY <1>2, <1>3, <1>4, <1>8, <2>2, <2>4
         DEF AgentCrash, TypeInv, TypeOK, ApiTypeOK, storeVars
  <1>9. ASSUME NEW r \in Robot, AgentRestart(r) PROVE TypeInv'
    <2>1. Started(r, agent[r].installed) \in AgentState
          /\ Started(r, agent[r].installed).pc = "idle"
      BY <1>1, StoreAssumption DEF Started, AgentState, AgentPc, ArgsType
    <2>2. AgentTypeOK' /\ TaskExists'
      BY <1>1, <1>9, <2>1 DEF AgentRestart, AgentTypeOK, TaskExists, Updating
    <2> QED
      BY <1>1, <1>2, <1>4, <1>9, <2>2
         DEF AgentRestart, TypeInv, TypeOK, ApiTypeOK, storeVars
  <1>10. ASSUME NEW r \in Robot, UpdateRaises(r) PROVE TypeInv'
    <2>1. [agent[r] EXCEPT !.pc = "idle", !.task = 0] \in AgentState
      BY <1>1 DEF AgentState, AgentPc
    <2>0. agent' = [agent EXCEPT ![r] = [agent[r] EXCEPT !.pc = "idle", !.task = 0]]
          /\ Fault("raise") /\ UNCHANGED <<robots, deps, tasks, newer, eng, calls>>
      BY <1>10 DEF UpdateRaises
    <2>2. AgentTypeOK' /\ TaskExists'
      BY <1>1, <2>0, <2>1
         DEF AgentTypeOK, TaskExists, Updating, AgentState
    <2> QED
      BY <1>1, <1>2, <1>3, <1>4, <2>0, <2>2
         DEF TypeInv, TypeOK, ApiTypeOK, storeVars
  <1>11. CASE ServerRestart
    <2>1. EngineTypeOK' /\ EngineBusy'
      BY <1>11, IdleType DEF ServerRestart, EngineTypeOK, EngineBusy
    <2> QED
      BY <1>2, <1>3, <1>5, <1>11, <2>1
         DEF ServerRestart, TypeInv, TypeOK, ApiTypeOK, storeVars
  <1>12. CASE EngineError
    <2>1. EngineTypeOK' /\ EngineBusy'
      BY <1>1, <1>12, IdleType DEF EngineError, Return, EngineTypeOK, EngineBusy
    <2> QED
      BY <1>1, <1>2, <1>3, <1>5, <1>12, <2>1
         DEF EngineError, TypeInv, TypeOK, ApiTypeOK, storeVars
  <1> QED
    BY <1>6, <1>7, <1>8, <1>9, <1>10, <1>11, <1>12 DEF FaultMoves

LEMMA OperatorType ==
    ASSUME TypeInv, NEW d \in Dep, CreateDeployment(d) \/ Pause(d) \/ Resume(d)
    PROVE  TypeInv'
  <1>1. deps \in [Dep -> DepRow] /\ StoreTypeOK
    BY DEF TypeInv, TypeOK, StoreTypeOK
  <1>2. deps' \in [Dep -> DepRow]
    <2>1. deps[d] \in DepRow
      BY <1>1
    <2>2. \A st \in DepStatus : [deps[d] EXCEPT !.status = st] \in DepRow
      BY <2>1 DEF DepRow
    <2>3. [status |-> "running", stage |-> 0] \in DepRow
      BY DEF DepRow, DepStatus
    <2> QED
      BY <1>1, <2>2, <2>3 DEF CreateDeployment, Pause, Resume, SetDepStatus, DepStatus
  <1>3. UNCHANGED <<robots, tasks, newer, eng, calls, agent, faults>>
    BY DEF CreateDeployment, Pause, Resume
  <1> QED
    BY <1>1, <1>2, <1>3
       DEF TypeInv, TypeOK, StoreTypeOK, EngineTypeOK, ApiTypeOK, AgentTypeOK,
           EngineBusy, TaskExists

LEMMA StepType == TypeInv /\ [Next]_vars => TypeInv'
  <1> SUFFICES ASSUME TypeInv, [Next]_vars PROVE TypeInv'
    OBVIOUS
  <1>1. /\ TypeOK /\ StoreTypeOK /\ EngineTypeOK /\ ApiTypeOK /\ AgentTypeOK
        /\ EngineBusy /\ TaskExists /\ faults \in 0..MaxFaults
    BY DEF TypeInv, TypeOK
  <1>2. CASE EngineMoves
    BY <1>1, <1>2, EngineType
       DEF EngineMoves, TypeInv, TypeOK, ApiTypeOK, AgentTypeOK, TaskExists
  <1>3. ASSUME NEW r \in Robot, HandlerMoves(r) PROVE TypeInv'
    <2>1. PICK c \in calls : Handle(c)
      BY <1>3 DEF HandlerMoves, CallsOf
    <2> QED
      BY <1>1, <1>3, <2>1, HandlerType
         DEF HandlerMoves, TypeInv, TypeOK, EngineTypeOK, AgentTypeOK, EngineBusy,
             TaskExists
  <1>4. ASSUME NEW r \in Robot, AgentMoves(r) PROVE TypeInv'
    BY <1>1, <1>4, AgentType
       DEF AgentMoves, TypeInv, TypeOK, StoreTypeOK, EngineTypeOK, EngineBusy,
           TaskExists, storeVars
  <1>5. ASSUME NEW r \in Robot, RegisterRobot(r) \/ HeartbeatStale(r) PROVE TypeInv'
    <2>1. robots \in [Robot -> RobotRow] /\ robots[r] \in RobotRow
      BY <1>1 DEF StoreTypeOK
    <2>2. [robots[r] EXCEPT !.fresh = FALSE] \in RobotRow
      BY <2>1 DEF RobotRow
    <2>3. \A v \in Version : NewRobotRow(v) \in RobotRow
      BY StoreAssumption DEF NewRobotRow, RobotRow, RobotState
    <2>4. robots' \in [Robot -> RobotRow]
      BY <1>5, <2>1, <2>2, <2>3 DEF RegisterRobot, HeartbeatStale
    <2> QED
      BY <1>1, <1>5, <2>4
         DEF RegisterRobot, HeartbeatStale, TypeInv, TypeOK, StoreTypeOK, EngineTypeOK, ApiTypeOK,
             AgentTypeOK, EngineBusy, TaskExists
  <1>6. CASE OperatorMoves
    BY <1>6, OperatorType DEF OperatorMoves
  <1>7. CASE FaultMoves
    BY <1>7, FaultType
  <1>8. CASE UNCHANGED vars
    BY <1>1, <1>8
       DEF vars, TypeInv, TypeOK, StoreTypeOK, EngineTypeOK, ApiTypeOK, AgentTypeOK,
           EngineBusy, TaskExists
  <1> QED
    BY <1>2, <1>3, <1>4, <1>5, <1>6, <1>7, <1>8 DEF Next

(* Every variable keeps its type, through every handler, tick and fault:   *)
(* in particular every status written is one of the lifecycle, and every   *)
(* row names a deployment and a robot that exist.                          *)
THEOREM TypeCorrect == Spec => []TypeOK
  <1>1. TypeInv => TypeOK
    BY DEF TypeInv
  <1> QED
    BY InitType, StepType, <1>1, PTL DEF Spec

(* A store call writes deployments or tasks, never both; a task is written *)
(* by creating it or by giving it a status.                                *)
LEMMA OneTable ==
    ASSUME TypeInv, [Next]_vars
    PROVE  \/ UNCHANGED tasks
           \/ /\ UNCHANGED deps
              /\ \/ EnsureTask
                 \/ CreateRollback
                 \/ \E k \in Nat, st \in TaskStatus : SetTaskStatus(k, st)
  <1>1. /\ eng.rows \subseteq Nat
        /\ \A c \in calls : c.task \in Nat /\ (c.status # "heartbeat" => c.status \in TaskStatus)
    <2>1. \A c \in calls : c \in Call
      BY DEF TypeInv, TypeOK, ApiTypeOK
    <2> QED
      BY <2>1 DEF TypeInv, TypeOK, EngineTypeOK, Call, CallStatus, TaskStatus
  <1>2. {"assigned", "pending", "rolled_back"} \subseteq TaskStatus
    BY DEF TaskStatus, Terminal
  <1>3. CASE EngineMoves
    <2>1. CASE Assign \/ Normalise
      BY <1>1, <1>2, <2>1 DEF Assign, Normalise
    <2>2. CASE EnsureTask \/ CreateRollback
      BY <2>2 DEF EnsureTask, CreateRollback
    <2> QED
      BY <1>3, <2>1, <2>2
         DEF EngineMoves, EngineNext, Tick, Load, Ensure, PromotePending, CheckGates,
             CountFailures, SetRollingBack, CollectRollbacks, Halt, StageRead, Advance,
             Complete, NormaliseRead, FinishRead, storeVars
  <1>4. ASSUME NEW r \in Robot, HandlerMoves(r)
        PROVE  \/ UNCHANGED tasks
               \/ UNCHANGED deps /\ \E k \in Nat, st \in TaskStatus : SetTaskStatus(k, st)
    <2>1. PICK c \in calls : Handle(c)
      BY <1>4 DEF HandlerMoves, CallsOf
    <2>2. CASE TaskStatusWrite(c)
      BY <1>1, <2>2 DEF TaskStatusWrite
    <2> QED
      BY <2>1, <2>2 DEF Handle, Register, UpdateRobotState, VersionWrite
  <1>5. ASSUME NEW r \in Robot, AgentMoves(r) \/ RegisterRobot(r) \/ HeartbeatStale(r)
        PROVE  UNCHANGED tasks
    BY <1>5 DEF AgentMoves, AgentStep, Heartbeat, Poll, Preflight, Download, Apply, Verify,
                storeVars, RegisterRobot, HeartbeatStale
  <1>6. CASE OperatorMoves
    BY <1>6 DEF OperatorMoves, CreateDeployment, Pause, Resume
  <1>7. CASE FaultMoves
    BY <1>7 DEF FaultMoves, LoseCall, Timeout, AgentCrash, AgentRestart, UpdateRaises,
                ServerRestart, EngineError
  <1> QED
    BY <1>3, <1>4, <1>5, <1>6, <1>7 DEF Next, vars

-----------------------------------------------------------------------------
(* Which rows the tasks table may hold: UniqueTask and RollbackRestores.   *)

(* Row k is a task of robot r in deployment d. *)
Concerns(k, d, r) == tasks[k].dep = d /\ tasks[k].robot = r

(* What the tick has read and acts on later.  A robot the engine is about  *)
(* to give a task has none of that kind, although other threads have run   *)
(* since the engine looked: nobody else creates tasks.                     *)
NewForward ==
    eng.pc = "create" =>
       \A t \in eng.todo, k \in Rows : ~Concerns(k, eng.dep, t.robot)

NewRollback ==
    eng.pc = "rollback" =>
       \A t \in eng.todo, k \in Rows :
          Concerns(k, eng.dep, t.robot) => ~tasks[k].is_rollback

OnePerRobot == \A t, u \in eng.todo : t.robot = u.robot => t = u

(* RollbackRestores, row by row. *)
Restores ==
    \A k \in Rows : tasks[k].is_rollback =>
       /\ tasks[k].from_version = Release[tasks[k].dep]
       /\ \/ tasks[k].to_version = Unknown
          \/ \E j \in Rows : Concerns(j, tasks[k].dep, tasks[k].robot)
                             /\ ~tasks[j].is_rollback
       /\ \A j \in Rows : Concerns(j, tasks[k].dep, tasks[k].robot)
                          /\ ~tasks[j].is_rollback
             => tasks[k].to_version = tasks[j].from_version

RowInv == UniqueTask /\ Restores /\ NewForward /\ NewRollback /\ OnePerRobot

(* A step that writes at most the status of existing rows.                 *)
SameRows ==
    /\ DOMAIN tasks' = DOMAIN tasks
    /\ \A k \in Rows :
          /\ tasks'[k].dep = tasks[k].dep
          /\ tasks'[k].robot = tasks[k].robot
          /\ tasks'[k].is_rollback = tasks[k].is_rollback
          /\ tasks'[k].stage = tasks[k].stage
          /\ tasks'[k].from_version = tasks[k].from_version
          /\ tasks'[k].to_version = tasks[k].to_version

(* A step after which the engine has no robot to serve that it had not     *)
(* before.                                                                 *)
LessToDo ==
    /\ eng'.todo \subseteq eng.todo
    /\ eng'.pc \in {"create", "rollback"} =>
          \/ eng'.pc = eng.pc /\ eng'.dep = eng.dep
          \/ eng'.todo = {}

LEMMA RestoresIsRollbackRestores == Restores => RollbackRestores
  BY DEF Restores, RollbackRestores, Concerns, Rollbacks, Forward, RobotTasks, TasksOf

LEMMA StatusWriteSameRows ==
    ASSUME StoreTypeOK, NEW k \in Nat, NEW status \in TaskStatus,
           SetTaskStatus(k, status)
    PROVE  SameRows
  <1>1. \A j \in Rows : tasks[j] \in TaskRow
    BY DEF StoreTypeOK
  <1>2. /\ DOMAIN tasks' = DOMAIN tasks
        /\ \A j \in DOMAIN tasks : tasks'[j] =
              IF j = k THEN [tasks[j] EXCEPT !.status = status] ELSE tasks[j]
    BY SetTaskStatusType
  <1> QED
    BY <1>1, <1>2 DEF SameRows, TaskRow

LEMMA RowsKept ==
    ASSUME RowInv, SameRows, LessToDo
    PROVE  RowInv'
  <1>1. UniqueTask'
    BY DEF RowInv, UniqueTask, SameRows
  <1>2. Restores'
    BY DEF RowInv, Restores, SameRows, Concerns
  <1>3. NewForward' /\ NewRollback' /\ OnePerRobot'
    BY DEF RowInv, LessToDo, NewForward, NewRollback, OnePerRobot, SameRows, Concerns
  <1> QED
    BY <1>1, <1>2, <1>3 DEF RowInv

(* A new row for a robot that has no row of that kind in the deployment.   *)
LEMMA RowAdded ==
    ASSUME StoreTypeOK, RowInv, NEW row \in TaskRow, CreateTask(row),
           \A k \in Rows : Concerns(k, row.dep, row.robot) =>
              row.is_rollback /\ ~tasks[k].is_rollback,
           row.is_rollback =>
              row.from_version = Release[row.dep]
              /\ PreviousVersion(row.dep, row.robot, row.to_version)
    PROVE  /\ UniqueTask' /\ Restores'
           /\ \E n : /\ DOMAIN tasks' = Rows \cup {n} /\ n \notin Rows
                     /\ tasks'[n] = row
                     /\ \A k \in Rows : tasks'[k] = tasks[k]
  <1>1. PICK n : /\ DOMAIN tasks' = Rows \cup {n} /\ n \notin Rows
                 /\ tasks'[n] = row
                 /\ \A k \in Rows : tasks'[k] = tasks[k]
    BY CreateTaskType
  <1>2. \A k \in Rows : tasks[k].is_rollback \in BOOLEAN
    <2>1. \A k \in Rows : tasks[k] \in TaskRow
      BY DEF StoreTypeOK
    <2> QED
      BY <2>1 DEF TaskRow
  <1>3. UniqueTask'
    BY <1>1, <1>2 DEF RowInv, UniqueTask, Concerns
  <1>4. ASSUME NEW k \in Rows, tasks[k].is_rollback
        PROVE  ~(row.dep = tasks[k].dep /\ row.robot = tasks[k].robot /\ ~row.is_rollback)
    BY <1>4 DEF Concerns
  <1>5. ASSUME row.is_rollback
        PROVE  /\ \/ row.to_version = Unknown
                  \/ \E j \in Rows : Concerns(j, row.dep, row.robot)
                                     /\ ~tasks[j].is_rollback
               /\ \A j \in Rows : Concerns(j, row.dep, row.robot)
                     => row.to_version = tasks[j].from_version
    <2>1. PreviousVersion(row.dep, row.robot, row.to_version)
      BY <1>5
    <2>2. RobotTasks(row.dep, row.robot) = {k \in Rows : Concerns(k, row.dep, row.robot)}
      BY DEF RobotTasks, TasksOf, Concerns
    <2>3. CASE RobotTasks(row.dep, row.robot) = {}
      BY <2>1, <2>2, <2>3 DEF PreviousVersion
    <2>4. CASE RobotTasks(row.dep, row.robot) # {}
      <3>1. PICK i \in Newest(RobotTasks(row.dep, row.robot)) :
               row.to_version = tasks[i].from_version
        BY <2>1, <2>4 DEF PreviousVersion
      <3>2. i \in Rows /\ Concerns(i, row.dep, row.robot)
        BY <2>2, <3>1 DEF Newest
      <3>3. \A j \in Rows : Concerns(j, row.dep, row.robot) => j = i
        BY <1>2, <1>5, <3>2 DEF RowInv, UniqueTask, Concerns
      <3> QED
        BY <3>1, <3>2, <3>3
    <2> QED
      BY <2>3, <2>4
  <1>6. Restores'
    <2>1. ASSUME NEW k \in Rows, tasks[k].is_rollback
          PROVE  /\ tasks[k].from_version = Release[tasks[k].dep]
                 /\ \/ tasks[k].to_version = Unknown
                    \/ \E j \in Rows : Concerns(j, tasks[k].dep, tasks[k].robot)
                                       /\ ~tasks[j].is_rollback
                 /\ \A j \in Rows : Concerns(j, tasks[k].dep, tasks[k].robot)
                                    /\ ~tasks[j].is_rollback
                       => tasks[k].to_version = tasks[j].from_version
      BY <2>1 DEF RowInv, Restores
    <2> QED
      BY <1>1, <1>4, <1>5, <2>1 DEF Restores, Concerns
  <1> QED
    BY <1>1, <1>3, <1>6
-----------------------------------------------------------------------------
(* RowInv, action by action. *)

LEMMA EngineRows ==
    ASSUME TypeOK, EngineBusy, RowInv, EngineNext
    PROVE  RowInv'
  <1>1. StoreTypeOK /\ eng.todo \subseteq Seen /\ eng.stage \in Nat
        /\ eng.rows \subseteq Nat
    BY DEF TypeOK, EngineTypeOK
  <1>0. \A q : Idle(q).pc = "idle" /\ Idle(q).todo = {}
    BY DEF Idle
  <1>2. ASSUME UNCHANGED tasks PROVE SameRows
    BY <1>2 DEF SameRows
  <1>3. CASE Tick
    BY <1>2, <1>3, RowsKept DEF Tick, storeVars, LessToDo, TypeOK, EngineTypeOK
  <1>4. CASE Load
    <2>1. eng'.todo = {}
      BY <1>4 DEF Load, Idle
    <2> QED
      BY <1>2, <1>4, <2>1, RowsKept DEF Load, storeVars, LessToDo
  <1>5. CASE Ensure
    <2> DEFINE targets == Prefix(Fleet, Target(eng.dep, eng.stage, Cardinality(Fleet)))
               fresh == {q \in targets : RobotTasks(eng.dep, q) = {}}
               seen == {[robot |-> r, version |-> robots[r].version] : r \in fresh}
    <2>1. eng'.pc = "create" /\ eng'.dep = eng.dep /\ eng'.todo = seen
          /\ UNCHANGED tasks
      <3>1. eng' = [eng EXCEPT !.pc = "create", !.todo = seen]
        BY <1>5 DEF Ensure
      <3> HIDE DEF seen
      <3> QED
        BY <1>5, <3>1 DEF Ensure, storeVars, TypeOK, EngineTypeOK
    <2>2. \A t \in seen : RobotTasks(eng.dep, t.robot) = {}
      OBVIOUS
    <2>3. \A t, u \in seen : t.robot = u.robot => t = u
      OBVIOUS
    <2> HIDE DEF seen
    <2>4. UniqueTask' /\ Restores'
      BY <2>1 DEF RowInv, UniqueTask, Restores, Concerns
    <2>5. NewForward'
      BY <2>1, <2>2 DEF NewForward, RobotTasks, TasksOf, Concerns
    <2> QED
      BY <2>1, <2>3, <2>4, <2>5 DEF RowInv, NewRollback, OnePerRobot
  <1>6. CASE EnsureTask
    <2>1. PICK t \in eng.todo :
             /\ CreateTask([dep |-> eng.dep, robot |-> t.robot, is_rollback |-> FALSE,
                            stage |-> eng.stage,
                            status |-> IF t.robot \in Compat[eng.dep]
                                       THEN "pending" ELSE "skipped",
                            from_version |-> t.version,
                            to_version |-> Release[eng.dep]])
             /\ eng' = [eng EXCEPT !.todo = @ \ {t}]
      BY <1>6 DEF EnsureTask
    <2> DEFINE row == [dep |-> eng.dep, robot |-> t.robot, is_rollback |-> FALSE,
                       stage |-> eng.stage,
                       status |-> IF t.robot \in Compat[eng.dep]
                                  THEN "pending" ELSE "skipped",
                       from_version |-> t.version,
                       to_version |-> Release[eng.dep]]
    <2>2. t \in Seen /\ eng.dep \in Dep /\ Release[eng.dep] \in Version
      BY <1>1, <1>6, StoreAssumption DEF EnsureTask, EngineBusy
    <2>3. /\ row \in TaskRow /\ ~row.is_rollback
          /\ row.dep = eng.dep /\ row.robot = t.robot
      BY <1>1, <2>2 DEF TaskRow, TaskStatus, Terminal, Seen
    <2> HIDE DEF row
    <2>4. \A k \in Rows : ~Concerns(k, row.dep, row.robot)
      BY <1>6, <2>3 DEF EnsureTask, RowInv, NewForward
    <2>5. /\ UniqueTask' /\ Restores'
          /\ \E n : /\ DOMAIN tasks' = Rows \cup {n} /\ n \notin Rows
                    /\ tasks'[n] = row
                    /\ \A k \in Rows : tasks'[k] = tasks[k]
      BY <1>1, <2>1, <2>3, <2>4, RowAdded DEF row
    <2>6. /\ eng'.pc = "create" /\ eng'.dep = eng.dep /\ eng'.todo = eng.todo \ {t}
      BY <1>6, <2>1 DEF EnsureTask, TypeOK, EngineTypeOK
    <2> QED
      BY <1>6, <2>3, <2>5, <2>6
         DEF EnsureTask, RowInv, NewForward, NewRollback, OnePerRobot, Concerns
  <1>7. CASE PromotePending
    BY <1>2, <1>7, RowsKept
       DEF PromotePending, storeVars, LessToDo, TypeOK, EngineTypeOK
  <1>8. CASE CheckGates
    BY <1>2, <1>8, RowsKept DEF CheckGates, storeVars, LessToDo, TypeOK, EngineTypeOK
  <1>9. CASE Assign
    <2>1. PICK k \in eng.rows : SetTaskStatus(k, IF eng.gate THEN "assigned" ELSE "pending")
      BY <1>9 DEF Assign
    <2>2. SameRows
      BY <1>1, <2>1, StatusWriteSameRows DEF TaskStatus
    <2>3. LessToDo
      BY <1>9 DEF Assign, LessToDo, TypeOK, EngineTypeOK
    <2> QED
      BY <2>2, <2>3, RowsKept
  <1>10. CASE CountFailures
    BY <1>2, <1>10, RowsKept
       DEF CountFailures, storeVars, LessToDo, TypeOK, EngineTypeOK
  <1>11. CASE SetRollingBack
    BY <1>2, <1>11, RowsKept DEF SetRollingBack, LessToDo, TypeOK, EngineTypeOK
  <1>12. CASE CollectRollbacks
    <2> DEFINE bad == {r \in Fleet : /\ robots[r].version = Release[eng.dep]
                                    /\ Rollbacks(RobotTasks(eng.dep, r)) = {}}
               seen == {[robot |-> r, version |-> robots[r].version] : r \in bad}
    <2>1. eng'.pc \in {"halt", "rollback"} /\ eng'.dep = eng.dep /\ eng'.todo = seen
          /\ UNCHANGED tasks
      <3>1. PICK pc \in {"halt", "rollback"} :
               eng' = [eng EXCEPT !.pc = pc, !.todo = seen]
        BY <1>12 DEF CollectRollbacks
      <3> HIDE DEF seen
      <3> QED
        BY <1>12, <3>1 DEF CollectRollbacks, storeVars, TypeOK, EngineTypeOK
    <2>2. \A t \in seen : Rollbacks(RobotTasks(eng.dep, t.robot)) = {}
      OBVIOUS
    <2>3. \A t, u \in seen : t.robot = u.robot => t = u
      OBVIOUS
    <2> HIDE DEF seen
    <2>4. UniqueTask' /\ Restores'
      BY <2>1 DEF RowInv, UniqueTask, Restores, Concerns
    <2>5. NewRollback'
      BY <2>1, <2>2 DEF NewRollback, Rollbacks, RobotTasks, TasksOf, Concerns
    <2> QED
      BY <2>1, <2>3, <2>4, <2>5 DEF RowInv, NewForward, OnePerRobot
  <1>13. CASE CreateRollback
    <2>1. PICK t \in eng.todo, prev \in Version :
             /\ PreviousVersion(eng.dep, t.robot, prev)
             /\ CreateTask([dep |-> eng.dep, robot |-> t.robot, is_rollback |-> TRUE,
                            stage |-> eng.stage, status |-> "pending",
                            from_version |-> Release[eng.dep], to_version |-> prev])
             /\ \/ eng' = Idle(eng.queue)
                \/ eng' = [eng EXCEPT !.todo = @ \ {t}]
      BY <1>13 DEF CreateRollback, Return
    <2> DEFINE row == [dep |-> eng.dep, robot |-> t.robot, is_rollback |-> TRUE,
                       stage |-> eng.stage, status |-> "pending",
                       from_version |-> Release[eng.dep], to_version |-> prev]
    <2>2. t \in Seen /\ eng.dep \in Dep /\ Release[eng.dep] \in Version
      BY <1>1, <1>13, StoreAssumption DEF CreateRollback, EngineBusy
    <2>3. /\ row \in TaskRow /\ row.is_rollback
          /\ row.dep = eng.dep /\ row.robot = t.robot
          /\ row.from_version = Release[row.dep]
          /\ PreviousVersion(row.dep, row.robot, row.to_version)
      BY <1>1, <2>1, <2>2 DEF TaskRow, TaskStatus, Seen
    <2> HIDE DEF row
    <2>4. \A k \in Rows : Concerns(k, row.dep, row.robot) => ~tasks[k].is_rollback
      BY <1>13, <2>3 DEF CreateRollback, RowInv, NewRollback
    <2>5. /\ UniqueTask' /\ Restores'
          /\ \E n : /\ DOMAIN tasks' = Rows \cup {n} /\ n \notin Rows
                    /\ tasks'[n] = row
                    /\ \A k \in Rows : tasks'[k] = tasks[k]
      BY <1>1, <2>1, <2>3, <2>4, RowAdded DEF row
    <2>6. \/ eng'.pc = "idle" /\ eng'.todo = {}
          \/ eng'.pc = "rollback" /\ eng'.dep = eng.dep /\ eng'.todo = eng.todo \ {t}
      BY <1>0, <1>13, <2>1 DEF CreateRollback, TypeOK, EngineTypeOK
    <2> QED
      BY <1>13, <2>3, <2>5, <2>6
         DEF CreateRollback, RowInv, NewForward, NewRollback, OnePerRobot, Concerns
  <1>14. CASE Halt
    BY <1>0, <1>2, <1>14, RowsKept DEF Halt, Return, LessToDo
  <1>15. CASE StageRead
    BY <1>0, <1>2, <1>15, RowsKept
       DEF StageRead, Return, storeVars, LessToDo, TypeOK, EngineTypeOK
  <1>16. CASE Advance
    BY <1>0, <1>2, <1>16, RowsKept DEF Advance, Return, LessToDo
  <1>17. CASE Complete
    BY <1>0, <1>2, <1>17, RowsKept DEF Complete, Return, LessToDo
  <1>18. CASE NormaliseRead
    BY <1>2, <1>18, RowsKept
       DEF NormaliseRead, storeVars, LessToDo, TypeOK, EngineTypeOK
  <1>19. CASE Normalise
    <2>1. PICK k \in eng.rows : SetTaskStatus(k, "rolled_back")
      BY <1>19 DEF Normalise
    <2>2. SameRows
      BY <1>1, <2>1, StatusWriteSameRows DEF TaskStatus, Terminal
    <2>3. LessToDo
      BY <1>19 DEF Normalise, LessToDo, TypeOK, EngineTypeOK
    <2> QED
      BY <2>2, <2>3, RowsKept
  <1>20. CASE FinishRead
    BY <1>0, <1>2, <1>20, RowsKept
       DEF FinishRead, Return, storeVars, LessToDo, TypeOK, EngineTypeOK
  <1> QED
    BY <1>3, <1>4, <1>5, <1>6, <1>7, <1>8, <1>9, <1>10, <1>11, <1>12, <1>13, <1>14,
       <1>15, <1>16, <1>17, <1>18, <1>19, <1>20 DEF EngineNext
LEMMA StepRows ==
    ASSUME TypeInv, RowInv, [Next]_vars
    PROVE  RowInv'
  <1>1. TypeOK /\ EngineBusy /\ StoreTypeOK /\ calls \subseteq Call
    BY DEF TypeInv, TypeOK, ApiTypeOK
  <1>2. ASSUME UNCHANGED <<tasks, eng>> PROVE RowInv'
    BY <1>2, RowsKept DEF SameRows, LessToDo
  <1>3. CASE EngineMoves
    BY <1>1, <1>3, EngineRows DEF EngineMoves
  <1>4. ASSUME NEW r \in Robot, HandlerMoves(r) PROVE RowInv'
    <2>1. PICK c \in calls : Handle(c)
      BY <1>4 DEF HandlerMoves, CallsOf
    <2>2. CASE TaskStatusWrite(c)
      <3>1. c.task \in Nat /\ c.status \in TaskStatus
        BY <1>1, <2>2 DEF TaskStatusWrite, Call, CallStatus, TaskStatus
      <3>2. SameRows
        BY <1>1, <2>2, <3>1, StatusWriteSameRows DEF TaskStatusWrite
      <3> QED
        BY <1>4, <3>2, RowsKept DEF HandlerMoves, LessToDo
    <2>3. CASE Register(c) \/ UpdateRobotState(c) \/ VersionWrite(c)
      BY <1>2, <1>4, <2>3 DEF HandlerMoves, Register, UpdateRobotState, VersionWrite
    <2> QED
      BY <2>1, <2>2, <2>3 DEF Handle
  <1>5. ASSUME NEW r \in Robot, AgentMoves(r) PROVE RowInv'
    BY <1>1, <1>2, <1>5, AgentType DEF AgentMoves, TypeInv, storeVars
  <1>6. ASSUME NEW r \in Robot, RegisterRobot(r) \/ HeartbeatStale(r) PROVE RowInv'
    BY <1>2, <1>6 DEF RegisterRobot, HeartbeatStale
  <1>7. CASE OperatorMoves
    BY <1>2, <1>7 DEF OperatorMoves, CreateDeployment, Pause, Resume
  <1>8. CASE FaultMoves
    <2>1. UNCHANGED tasks
      BY <1>8 DEF FaultMoves, LoseCall, Timeout, AgentCrash, AgentRestart,
                  UpdateRaises, ServerRestart, EngineError
    <2>2. UNCHANGED eng \/ \E queue : eng' = Idle(queue)
      BY <1>8 DEF FaultMoves, LoseCall, Timeout, AgentCrash, AgentRestart,
                  UpdateRaises, ServerRestart, EngineError, Return
    <2>3. SameRows /\ LessToDo
      BY <2>1, <2>2 DEF SameRows, LessToDo, Idle
    <2> QED
      BY <2>3, RowsKept
  <1>9. CASE UNCHANGED vars
    BY <1>2, <1>9 DEF vars
  <1> QED
    BY <1>3, <1>4, <1>5, <1>6, <1>7, <1>8, <1>9 DEF Next

LEMMA InitRows == Init => RowInv
  BY DEF Init, StoreInit, EngineInit, Idle, RowInv, UniqueTask, Restores, NewForward,
         NewRollback, OnePerRobot

LEMMA RowsCorrect == Spec => []RowInv
  BY InitType, StepType, InitRows, StepRows, PTL DEF Spec

(* No deployment ever has two tasks of one kind for a robot, whatever the  *)
(* operator, the crashes and the half-finished ticks.                      *)
THEOREM UniqueTaskHolds == Spec => []UniqueTask
  <1>1. RowInv => UniqueTask
    BY DEF RowInv
  <1> QED
    BY RowsCorrect, <1>1, PTL

(* Every rollback task leads back to what its forward task found.          *)
THEOREM RollbackRestoresHolds == Spec => []RollbackRestores
  <1>1. RowInv => RollbackRestores
    BY RestoresIsRollbackRestores DEF RowInv
  <1> QED
    BY RowsCorrect, <1>1, PTL

-----------------------------------------------------------------------------
(* The release stays within the stages and waves opened so far: BlastRadius*)
(* for a fleet that nobody joins, the canary stage for every fleet.        *)

Founders == Robot \ Joiners

(* The engine sees the robots that are there from the start.               *)
Known == \A r \in Founders : robots[r].known

(* Where the release may be offered to robot r in stage s: whoever joins,  *)
(* a founder that is a canary is one of the first canary_count founders.   *)
Within(d, s, r) ==
    /\ Joiners = {} => r \in Wave(d, s)
    /\ s = 0 /\ r \notin Joiners => r \in Prefix(Founders, Strategy[d].canary_count)

(* A deployment that was not created has no tasks. *)
NoTasksYet == \A k \in Rows : deps[tasks[k].dep].status # "none"

(* The snapshot the tick works on cannot be ahead of or behind the stage,  *)
(* nor the deployment be completed meanwhile: only the engine does either. *)
SnapshotStage ==
    /\ \A d \in eng.queue : deps[d].status # "none"
    /\ eng.pc # "idle" =>
          /\ deps[eng.dep].status \notin {"none", "completed"}
          /\ eng.stage = deps[eng.dep].stage

(* BlastRadius, row by row. *)
RowsInWave ==
    \A k \in Rows : ~tasks[k].is_rollback =>
       /\ tasks[k].stage <= deps[tasks[k].dep].stage
       /\ Within(tasks[k].dep, tasks[k].stage, tasks[k].robot)

TodoInWave ==
    eng.pc = "create" => \A t \in eng.todo : Within(eng.dep, eng.stage, t.robot)

WaveInv == Known /\ NoTasksYet /\ SnapshotStage /\ RowsInWave /\ TodoInWave

(* Deployments begin, and their stages only grow. *)
DepsGrow ==
    \A d \in Dep : deps[d].status # "none" =>
       deps'[d].status # "none" /\ deps[d].stage <= deps'[d].stage

(* The engine goes idle or goes on with the same snapshot, which still     *)
(* shows the stage.                                                        *)
SameSnapshot ==
    \/ /\ eng'.pc = "idle"
       /\ \A d \in eng'.queue : d \in eng.queue \/ deps'[d].status # "none"
    \/ /\ eng.pc # "idle" /\ deps'[eng.dep].stage = deps[eng.dep].stage
       /\ deps'[eng.dep].status = "completed" => deps[eng.dep].status = "completed"
       /\ eng'.dep = eng.dep /\ eng'.stage = eng.stage
       /\ eng'.queue = eng.queue /\ eng'.todo \subseteq eng.todo
       /\ eng'.pc = "create" => eng.pc = "create"

LEMMA WaveKept ==
    ASSUME TypeOK, TypeOK', EngineBusy, WaveInv, SameRows, Known', DepsGrow,
           SameSnapshot
    PROVE  WaveInv'
  <1>1. /\ eng.queue \subseteq Dep
        /\ eng.pc # "idle" => eng.dep \in Dep
        /\ deps \in [Dep -> DepRow] /\ deps' \in [Dep -> DepRow]
        /\ \A k \in Rows : tasks[k] \in TaskRow
    BY DEF TypeOK, EngineTypeOK, StoreTypeOK, EngineBusy
  <1>2. \A k \in Rows : tasks[k].dep \in Dep /\ tasks[k].stage \in Nat
    BY <1>1 DEF TaskRow
  <1>0. \A d \in Dep : deps[d].stage \in Nat /\ deps'[d].stage \in Nat
    BY <1>1 DEF DepRow
  <1>3. NoTasksYet'
    BY <1>2 DEF WaveInv, NoTasksYet, SameRows, DepsGrow
  <1>4. SnapshotStage'
    BY <1>1 DEF WaveInv, SnapshotStage, DepsGrow, SameSnapshot
  <1>5. RowsInWave'
    <2> SUFFICES ASSUME NEW k \in Rows, ~tasks[k].is_rollback
                 PROVE  /\ tasks[k].stage <= deps'[tasks[k].dep].stage
                        /\ Within(tasks[k].dep, tasks[k].stage, tasks[k].robot)
      BY DEF RowsInWave, SameRows
    <2>1. /\ tasks[k].stage <= deps[tasks[k].dep].stage
          /\ Within(tasks[k].dep, tasks[k].stage, tasks[k].robot)
          /\ deps[tasks[k].dep].stage <= deps'[tasks[k].dep].stage
      BY <1>2 DEF WaveInv, RowsInWave, NoTasksYet, DepsGrow
    <2> QED
      BY <1>0, <1>2, <2>1
  <1>6. TodoInWave'
    BY DEF WaveInv, TodoInWave, SameSnapshot
  <1> QED
    BY <1>3, <1>4, <1>5, <1>6 DEF WaveInv
-----------------------------------------------------------------------------
(* WaveInv, action by action. *)

LEMMA FleetIsRobot == ASSUME Joiners = {}, Known PROVE Fleet = Robot
  BY DEF Known, Founders, Fleet

(* Whom _ensure_stage_tasks finds missing: the founders are among the      *)
(* robots it counts, so one of the first n robots is one of the first n    *)
(* founders, or a joiner.                                                  *)
LEMMA TargetsWithin ==
    ASSUME TypeOK, Known, NEW d \in Dep, NEW s \in Nat,
           NEW r \in Prefix(Fleet, Target(d, s, Cardinality(Fleet)))
    PROVE  Within(d, s, r)
  <1>1. Joiners = {} => r \in Wave(d, s)
    BY FleetIsRobot DEF Wave
  <1>2. ASSUME s = 0, r \notin Joiners
        PROVE  r \in Prefix(Founders, Strategy[d].canary_count)
    <2> DEFINE ahead == {q \in Fleet : q <= r}
               first == {q \in Founders : q <= r}
    <2>1. r \in Founders /\ Cardinality(ahead) <= Target(d, 0, Cardinality(Fleet))
      BY <1>2 DEF Prefix, Fleet, Founders
    <2>2. /\ IsFiniteSet(Fleet) /\ Cardinality(Fleet) \in Nat
          /\ IsFiniteSet(ahead) /\ Cardinality(ahead) \in Nat
      BY StoreAssumption, FS_Subset, FS_CardinalityType DEF Fleet
    <2>3. first \in SUBSET ahead
      BY DEF Known, Founders, Fleet
    <2>4. Cardinality(first) \in Nat /\ Cardinality(first) <= Cardinality(ahead)
      BY <2>2, <2>3, FS_Subset, FS_CardinalityType
    <2>5. Strategy[d].canary_count \in Nat
      BY StoreAssumption DEF StrategyType
    <2>6. /\ Target(d, 0, Cardinality(Fleet)) \in Nat
          /\ Target(d, 0, Cardinality(Fleet)) <= Strategy[d].canary_count
      BY <2>2, <2>5 DEF Target, Smaller
    <2> HIDE DEF ahead
    <2>7. Cardinality(first) <= Strategy[d].canary_count
      <3> HIDE DEF first
      <3> QED
        BY <2>1, <2>2, <2>4, <2>5, <2>6
    <2> QED
      BY <2>1, <2>7 DEF Prefix
  <1> QED
    BY <1>1, <1>2 DEF Within

LEMMA RowInWaveAdded ==
    ASSUME TypeOK, WaveInv, NEW row \in TaskRow, CreateTask(row),
           deps[row.dep].status # "none", row.stage = deps[row.dep].stage,
           ~row.is_rollback => Within(row.dep, row.stage, row.robot),
           UNCHANGED deps
    PROVE  NoTasksYet' /\ RowsInWave'
  <1>1. PICK n : /\ DOMAIN tasks' = Rows \cup {n} /\ n \notin Rows
                 /\ tasks'[n] = row
                 /\ \A k \in Rows : tasks'[k] = tasks[k]
    BY CreateTaskType DEF TypeOK
  <1>2. row.stage \in Nat
    BY DEF TaskRow
  <1>3. NoTasksYet'
    BY <1>1 DEF WaveInv, NoTasksYet
  <1>4. RowsInWave'
    BY <1>1, <1>2 DEF WaveInv, RowsInWave
  <1> QED
    BY <1>3, <1>4

LEMMA EngineWave ==
    ASSUME TypeOK, TypeOK', EngineBusy, WaveInv, EngineNext
    PROVE  WaveInv'
  <1>1. /\ StoreTypeOK /\ eng.todo \subseteq Seen /\ eng.stage \in Nat
        /\ eng.rows \subseteq Nat /\ eng.queue \subseteq Dep
        /\ eng.pc # "idle" => eng.dep \in Dep
        /\ deps \in [Dep -> DepRow]
    BY DEF TypeOK, EngineTypeOK, EngineBusy, StoreTypeOK
  <1>0. \A q : Idle(q).pc = "idle" /\ Idle(q).todo = {} /\ Idle(q).queue = q
    BY DEF Idle
  <1>2. ASSUME UNCHANGED tasks PROVE SameRows
    BY <1>2 DEF SameRows
  <1>3. ASSUME UNCHANGED robots PROVE Known'
    BY <1>3 DEF WaveInv, Known
  <1>4. ASSUME UNCHANGED deps PROVE DepsGrow
    BY <1>1, <1>4 DEF DepsGrow, DepRow
  <1>5. ASSUME NEW d \in Dep, NEW st \in DepStatus \ {"none"}, SetDepStatus(d, st)
        PROVE  DepsGrow /\ \A e \in Dep : deps'[e].stage = deps[e].stage
    BY <1>1, <1>5 DEF DepsGrow, SetDepStatus, DepRow
  <1>6. CASE Tick
    <2>1. SameSnapshot
      BY <1>6 DEF Tick, storeVars, SameSnapshot, TypeOK, EngineTypeOK
    <2> QED
      BY <1>2, <1>3, <1>4, <1>6, <2>1, WaveKept DEF Tick, storeVars
  <1>7. CASE Load
    <2>1. PICK d \in eng.queue :
             LET rest == eng.queue \ {d}
                 work == [Idle(rest) EXCEPT !.dep = d, !.stage = deps[d].stage]
             IN  \/ /\ eng' = [work EXCEPT !.pc = "ensure"]
                    /\ deps[d].status = "running"
                 \/ /\ eng' = [work EXCEPT !.pc = "create", !.only_rollback = TRUE]
                    /\ deps[d].status = "rolling_back"
                 \/ eng' = Idle(rest)
      BY <1>7 DEF Load
    <2>2. /\ eng'.todo = {} /\ eng'.queue \subseteq eng.queue
          /\ eng'.pc # "idle" =>
                /\ eng'.dep = d /\ eng'.stage = deps[d].stage
                /\ deps[d].status \notin {"none", "completed"}
      <3> DEFINE rest == eng.queue \ {d}
                 work == [Idle(rest) EXCEPT !.dep = d, !.stage = deps[d].stage]
      <3>1. CASE eng' = [work EXCEPT !.pc = "ensure"] /\ deps[d].status = "running"
        BY <3>1 DEF Idle
      <3>2. CASE /\ eng' = [work EXCEPT !.pc = "create", !.only_rollback = TRUE]
                 /\ deps[d].status = "rolling_back"
        BY <3>2 DEF Idle
      <3>3. CASE eng' = Idle(rest)
        BY <3>3 DEF Idle
      <3> QED
        BY <2>1, <3>1, <3>2, <3>3
    <2>3. UNCHANGED <<deps, robots, tasks>>
      BY <1>7 DEF Load, storeVars
    <2>4. SnapshotStage' /\ TodoInWave'
      BY <2>2, <2>3 DEF WaveInv, SnapshotStage, TodoInWave
    <2> QED
      BY <2>3, <2>4 DEF WaveInv, Known, NoTasksYet, RowsInWave
  <1>8. CASE Ensure
    <2> DEFINE targets == Prefix(Fleet, Target(eng.dep, eng.stage, Cardinality(Fleet)))
               seen == {[robot |-> r, version |-> robots[r].version] :
                          r \in {q \in targets : RobotTasks(eng.dep, q) = {}}}
    <2>1. \A r \in targets : Within(eng.dep, eng.stage, r)
      BY <1>1, <1>8, TargetsWithin DEF Ensure, WaveInv
    <2>2. \A t \in seen : Within(eng.dep, eng.stage, t.robot)
      BY <2>1
    <2>3. eng' = [eng EXCEPT !.pc = "create", !.todo = seen] /\ eng.pc = "ensure"
      BY <1>8 DEF Ensure
    <2> HIDE DEF seen
    <2>4. eng'.todo = seen /\ eng'.dep = eng.dep /\ eng'.stage = eng.stage
          /\ eng'.queue = eng.queue /\ eng'.pc = "create"
      BY <2>3 DEF TypeOK, EngineTypeOK
    <2>5. UNCHANGED <<deps, robots, tasks>>
      BY <1>8 DEF Ensure, storeVars
    <2> QED
      BY <2>2, <2>3, <2>4, <2>5
         DEF WaveInv, Known, NoTasksYet, RowsInWave, SnapshotStage, TodoInWave
  <1>9. CASE EnsureTask
    <2>1. PICK t \in eng.todo :
             /\ CreateTask([dep |-> eng.dep, robot |-> t.robot, is_rollback |-> FALSE,
                            stage |-> eng.stage,
                            status |-> IF t.robot \in Compat[eng.dep]
                                       THEN "pending" ELSE "skipped",
                            from_version |-> t.version,
                            to_version |-> Release[eng.dep]])
             /\ eng' = [eng EXCEPT !.todo = @ \ {t}]
      BY <1>9 DEF EnsureTask
    <2> DEFINE row == [dep |-> eng.dep, robot |-> t.robot, is_rollback |-> FALSE,
                       stage |-> eng.stage,
                       status |-> IF t.robot \in Compat[eng.dep]
                                  THEN "pending" ELSE "skipped",
                       from_version |-> t.version,
                       to_version |-> Release[eng.dep]]
    <2>2. t \in Seen /\ eng.dep \in Dep /\ Release[eng.dep] \in Version
      BY <1>1, <1>9, StoreAssumption DEF EnsureTask
    <2>3. row \in TaskRow
      BY <1>1, <2>2 DEF TaskRow, TaskStatus, Terminal, Seen
    <2>4. /\ row.dep = eng.dep /\ row.robot = t.robot /\ row.stage = eng.stage
      OBVIOUS
    <2>5. CreateTask(row) /\ UNCHANGED <<robots, deps>>
      BY <1>9, <2>1 DEF EnsureTask
    <2> HIDE DEF row
    <2>6. NoTasksYet' /\ RowsInWave'
      BY <1>9, <2>3, <2>4, <2>5, RowInWaveAdded
         DEF EnsureTask, WaveInv, SnapshotStage, TodoInWave
    <2>7. SnapshotStage' /\ TodoInWave'
      BY <1>9, <2>1, <2>5
         DEF EnsureTask, WaveInv, SnapshotStage, TodoInWave, TypeOK, EngineTypeOK
    <2> QED
      BY <1>3, <2>5, <2>6, <2>7 DEF WaveInv
  <1>10. CASE PromotePending
    <2>1. SameSnapshot
      BY <1>10 DEF PromotePending, storeVars, SameSnapshot, TypeOK, EngineTypeOK
    <2> QED
      BY <1>2, <1>3, <1>4, <1>10, <2>1, WaveKept DEF PromotePending, storeVars
  <1>11. CASE CheckGates
    <2>1. SameSnapshot
      BY <1>11 DEF CheckGates, storeVars, SameSnapshot, TypeOK, EngineTypeOK
    <2> QED
      BY <1>2, <1>3, <1>4, <1>11, <2>1, WaveKept DEF CheckGates, storeVars
  <1>12. CASE Assign
    <2>1. PICK k \in eng.rows : SetTaskStatus(k, IF eng.gate THEN "assigned" ELSE "pending")
      BY <1>12 DEF Assign
    <2>2. SameRows
      BY <1>1, <2>1, StatusWriteSameRows DEF TaskStatus
    <2>3. SameSnapshot
      BY <1>12 DEF Assign, SameSnapshot, TypeOK, EngineTypeOK
    <2> QED
      BY <1>3, <1>4, <1>12, <2>2, <2>3, WaveKept DEF Assign
  <1>13. CASE CountFailures
    <2>1. SameSnapshot
      BY <1>13 DEF CountFailures, storeVars, SameSnapshot, TypeOK, EngineTypeOK
    <2> QED
      BY <1>2, <1>3, <1>4, <1>13, <2>1, WaveKept DEF CountFailures, storeVars
  <1>14. CASE SetRollingBack
    <2>1. SameSnapshot
      <3>1. eng.pc # "idle" /\ SetDepStatus(eng.dep, "rolling_back")
        BY <1>14 DEF SetRollingBack
      <3>2. deps'[eng.dep].status = "rolling_back"
        BY <1>1, <3>1 DEF SetDepStatus, DepRow
      <3>3. deps'[eng.dep].stage = deps[eng.dep].stage
        BY <1>1, <1>5, <3>1 DEF DepStatus
      <3> QED
        BY <1>14, <3>1, <3>2, <3>3 DEF SetRollingBack, SameSnapshot, TypeOK, EngineTypeOK
    <2> QED
      BY <1>1, <1>2, <1>3, <1>5, <1>14, <2>1, WaveKept DEF SetRollingBack, DepStatus
  <1>15. CASE CollectRollbacks
    <2>1. PICK pc \in {"halt", "rollback"} :
             \E todo : eng' = [eng EXCEPT !.pc = pc, !.todo = todo]
      BY <1>15 DEF CollectRollbacks
    <2>2. UNCHANGED <<deps, robots, tasks>> /\ eng.pc = "collect"
      BY <1>15 DEF CollectRollbacks, storeVars
    <2>3. eng'.dep = eng.dep /\ eng'.stage = eng.stage /\ eng'.queue = eng.queue
          /\ eng'.pc # "create"
      BY <2>1 DEF TypeOK, EngineTypeOK
    <2> QED
      BY <2>2, <2>3
         DEF WaveInv, Known, NoTasksYet, RowsInWave, SnapshotStage, TodoInWave
  <1>16. CASE CreateRollback
    <2>1. PICK t \in eng.todo, prev \in Version :
             /\ CreateTask([dep |-> eng.dep, robot |-> t.robot, is_rollback |-> TRUE,
                            stage |-> eng.stage, status |-> "pending",
                            from_version |-> Release[eng.dep], to_version |-> prev])
             /\ \/ eng' = Idle(eng.queue)
                \/ eng' = [eng EXCEPT !.todo = @ \ {t}]
      BY <1>16 DEF CreateRollback, Return
    <2> DEFINE row == [dep |-> eng.dep, robot |-> t.robot, is_rollback |-> TRUE,
                       stage |-> eng.stage, status |-> "pending",
                       from_version |-> Release[eng.dep], to_version |-> prev]
    <2>2. t \in Seen /\ eng.dep \in Dep /\ Release[eng.dep] \in Version
      BY <1>1, <1>16, StoreAssumption DEF CreateRollback
    <2>3. row \in TaskRow /\ row.is_rollback
      BY <1>1, <2>2 DEF TaskRow, TaskStatus, Seen
    <2>4. row.dep = eng.dep /\ row.stage = eng.stage
      OBVIOUS
    <2>5. CreateTask(row) /\ UNCHANGED <<robots, deps>>
      BY <1>16, <2>1 DEF CreateRollback
    <2> HIDE DEF row
    <2>6. NoTasksYet' /\ RowsInWave'
      BY <1>16, <2>3, <2>4, <2>5, RowInWaveAdded
         DEF CreateRollback, WaveInv, SnapshotStage
    <2>7. SnapshotStage' /\ TodoInWave'
      BY <1>0, <1>16, <2>1, <2>5
         DEF CreateRollback, WaveInv, SnapshotStage, TodoInWave, TypeOK, EngineTypeOK
    <2> QED
      BY <1>3, <2>5, <2>6, <2>7 DEF WaveInv
  <1>17. CASE Halt
    BY <1>0, <1>1, <1>2, <1>3, <1>5, <1>17, WaveKept
       DEF Halt, Return, SameSnapshot, DepStatus
  <1>18. CASE StageRead
    <2>1. SameSnapshot
      BY <1>0, <1>18 DEF StageRead, Return, storeVars, SameSnapshot, TypeOK, EngineTypeOK
    <2> QED
      BY <1>2, <1>3, <1>4, <1>18, <2>1, WaveKept DEF StageRead, storeVars
  <1>19. CASE Advance
    <2>1. DepsGrow
      BY <1>1, <1>19 DEF Advance, WaveInv, SnapshotStage, SetDepStage, DepsGrow, DepRow
    <2> QED
      BY <1>0, <1>2, <1>3, <1>19, <2>1, WaveKept DEF Advance, Return, SameSnapshot
  <1>20. CASE Complete
    BY <1>0, <1>1, <1>2, <1>3, <1>5, <1>20, WaveKept
       DEF Complete, Return, SameSnapshot, DepStatus
  <1>21. CASE NormaliseRead
    <2>1. SameSnapshot
      BY <1>21 DEF NormaliseRead, storeVars, SameSnapshot, TypeOK, EngineTypeOK
    <2> QED
      BY <1>2, <1>3, <1>4, <1>21, <2>1, WaveKept DEF NormaliseRead, storeVars
  <1>22. CASE Normalise
    <2>1. PICK k \in eng.rows : SetTaskStatus(k, "rolled_back")
      BY <1>22 DEF Normalise
    <2>2. SameRows
      BY <1>1, <2>1, StatusWriteSameRows DEF TaskStatus, Terminal
    <2>3. SameSnapshot
      BY <1>22 DEF Normalise, SameSnapshot, TypeOK, EngineTypeOK
    <2> QED
      BY <1>3, <1>4, <1>22, <2>2, <2>3, WaveKept DEF Normalise
  <1>23. CASE FinishRead
    <2>1. SameSnapshot
      BY <1>0, <1>23 DEF FinishRead, Return, storeVars, SameSnapshot, TypeOK, EngineTypeOK
    <2> QED
      BY <1>2, <1>3, <1>4, <1>23, <2>1, WaveKept DEF FinishRead, storeVars
  <1> QED
    BY <1>6, <1>7, <1>8, <1>9, <1>10, <1>11, <1>12, <1>13, <1>14, <1>15, <1>16,
       <1>17, <1>18, <1>19, <1>20, <1>21, <1>22, <1>23 DEF EngineNext
LEMMA StepWave ==
    ASSUME TypeInv, TypeInv', WaveInv, [Next]_vars
    PROVE  WaveInv'
  <1>1. /\ TypeOK /\ TypeOK' /\ EngineBusy /\ StoreTypeOK
        /\ calls \subseteq Call /\ eng.queue \subseteq Dep
        /\ eng.pc # "idle" => eng.dep \in Dep
        /\ deps \in [Dep -> DepRow] /\ robots \in [Robot -> RobotRow]
    BY DEF TypeInv, TypeOK, ApiTypeOK, EngineTypeOK, EngineBusy, StoreTypeOK
  <1>2. ASSUME UNCHANGED <<tasks, deps, eng>>, Known' PROVE WaveInv'
    BY <1>2 DEF WaveInv, NoTasksYet, SnapshotStage, RowsInWave, TodoInWave
  <1>3. ASSUME UNCHANGED robots PROVE Known'
    BY <1>3 DEF WaveInv, Known
  <1>4. CASE EngineMoves
    BY <1>1, <1>4, EngineWave DEF EngineMoves
  <1>5. ASSUME NEW r \in Robot, HandlerMoves(r) PROVE WaveInv'
    <2>1. PICK c \in calls : Handle(c)
      BY <1>5 DEF HandlerMoves, CallsOf
    <2>2. c.robot \in Robot /\ robots[c.robot] \in RobotRow
      BY <1>1 DEF Call
    <2>3. CASE TaskStatusWrite(c)
      <3>1. c.task \in Nat /\ c.status \in TaskStatus
        BY <1>1, <2>3 DEF TaskStatusWrite, Call, CallStatus, TaskStatus
      <3>2. SameRows
        BY <1>1, <2>3, <3>1, StatusWriteSameRows DEF TaskStatusWrite
      <3>3. UNCHANGED <<robots, deps, eng>>
        BY <1>5, <2>3 DEF HandlerMoves, TaskStatusWrite
      <3>4. DepsGrow /\ SameSnapshot
        BY <1>1, <3>3 DEF DepsGrow, SameSnapshot, DepRow
      <3> QED
        BY <1>1, <1>3, <3>2, <3>3, <3>4, WaveKept
    <2>4. CASE Register(c) \/ UpdateRobotState(c) \/ VersionWrite(c)
      <3>1. Known'
        BY <1>1, <2>2, <2>4
           DEF WaveInv, Known, Founders, Register, UpdateRobotState, VersionWrite,
               NewRobotRow, SetRobotVersion, RobotRow
      <3> QED
        BY <1>2, <1>5, <2>4, <3>1
           DEF HandlerMoves, Register, UpdateRobotState, VersionWrite
    <2> QED
      BY <2>1, <2>3, <2>4 DEF Handle
  <1>6. ASSUME NEW r \in Robot, AgentMoves(r) PROVE WaveInv'
    BY <1>1, <1>2, <1>3, <1>6, AgentType DEF AgentMoves, TypeInv, storeVars
  <1>7. ASSUME NEW r \in Robot, RegisterRobot(r) \/ HeartbeatStale(r) PROVE WaveInv'
    <2>1. Known'
      <3>1. CASE RegisterRobot(r)
        BY <1>1, <3>1 DEF RegisterRobot, NewRobotRow, WaveInv, Known, Founders
      <3>2. CASE HeartbeatStale(r)
        BY <1>1, <3>2 DEF HeartbeatStale, WaveInv, Known, Founders, RobotRow
      <3> QED
        BY <1>7, <3>1, <3>2
    <2> QED
      BY <1>2, <1>7, <2>1 DEF RegisterRobot, HeartbeatStale
  <1>8. ASSUME NEW d \in Dep, CreateDeployment(d) \/ Pause(d) \/ Resume(d) PROVE WaveInv'
    <2>1. UNCHANGED <<robots, tasks, eng>>
      BY <1>8 DEF CreateDeployment, Pause, Resume
    <2>2. DepsGrow
      BY <1>1, <1>8
         DEF CreateDeployment, Pause, Resume, SetDepStatus, DepsGrow, DepRow
    <2>3. SameSnapshot
      <3>1. eng.pc # "idle" => deps'[eng.dep].stage = deps[eng.dep].stage
        BY <1>1, <1>8
           DEF CreateDeployment, Pause, Resume, SetDepStatus, WaveInv, SnapshotStage, DepRow
      <3>2. eng.pc # "idle" /\ deps'[eng.dep].status = "completed"
               => deps[eng.dep].status = "completed"
        BY <1>1, <1>8 DEF CreateDeployment, Pause, Resume, SetDepStatus, DepRow
      <3> QED
        BY <2>1, <3>1, <3>2 DEF SameSnapshot
    <2>4. SameRows
      BY <2>1 DEF SameRows
    <2> QED
      BY <1>1, <1>3, <2>1, <2>2, <2>3, <2>4, WaveKept
  <1>9. CASE FaultMoves
    <2>1. UNCHANGED <<robots, deps, tasks>>
      BY <1>9 DEF FaultMoves, LoseCall, Timeout, AgentCrash, AgentRestart,
                  UpdateRaises, ServerRestart, EngineError
    <2>2. \/ UNCHANGED eng
          \/ \E queue : eng' = Idle(queue) /\ queue \subseteq eng.queue
      BY <1>9 DEF FaultMoves, LoseCall, Timeout, AgentCrash, AgentRestart,
                  UpdateRaises, ServerRestart, EngineError, Return
    <2>3. SameRows /\ DepsGrow /\ SameSnapshot
      BY <1>1, <2>1, <2>2 DEF SameRows, DepsGrow, SameSnapshot, Idle, DepRow
    <2> QED
      BY <1>1, <1>3, <2>1, <2>3, WaveKept
  <1>10. CASE UNCHANGED vars
    BY <1>2, <1>3, <1>10 DEF vars
  <1> QED
    BY <1>4, <1>5, <1>6, <1>7, <1>8, <1>9, <1>10 DEF Next, OperatorMoves

LEMMA InitWave == ASSUME Init PROVE WaveInv
  <1>1. Known
    BY DEF Init, StoreInit, Known, Founders
  <1>2. DOMAIN tasks = {} /\ eng.pc = "idle" /\ eng.queue = {}
    BY DEF Init, StoreInit, EngineInit, Idle
  <1> QED
    BY <1>1, <1>2 DEF WaveInv, NoTasksYet, SnapshotStage, RowsInWave, TodoInWave

LEMMA WaveCorrect == Spec => []WaveInv
  <1>1. Init => WaveInv
    BY InitWave
  <1>2. TypeInv /\ TypeInv' /\ WaveInv /\ [Next]_vars => WaveInv'
    BY StepWave
  <1> QED
    BY InitType, StepType, <1>1, <1>2, PTL DEF Spec

(* While nobody joins the fleet, the release is offered to no robot beyond *)
(* the wave of the stage that is open, whatever the operator and the       *)
(* faults do.  A joiner whose id sorts first pushes others out of a wave.  *)
THEOREM BlastRadiusHolds ==
    ASSUME Joiners = {}
    PROVE  Spec => []BlastRadius
  <1>1. WaveInv => BlastRadius
    BY DEF WaveInv, RowsInWave, Within, BlastRadius, Forward
  <1> QED
    BY WaveCorrect, <1>1, PTL
=============================================================================
